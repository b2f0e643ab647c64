---------------------------- MODULE LookupProofs ----------------------------
(* Theorems about what the host finds by a name or a handle. Of            *)
(* Provisioning, for any catalog, publishers, installers and               *)
(* sub-extensions: what is installed and loaded was vouched for, what a    *)
(* published catalog names can be fetched, and what a bridge resolves is   *)
(* registered. Of HostHandles and DotCommands, for any directory of        *)
(* components and any number of resources: what every handle, table and    *)
(* list says of the core, and which component answers a dot command. Of    *)
(* DeltaScan, for logs of any length: the files that a directory stands    *)
(* for.                                                                    *)
EXTENDS Provisioning, DotCommands, DeltaScan, FiniteSetTheorems, WellFoundedInduction, TLAPS

-----------------------------------------------------------------------------
(* Recursion over a sequence: that the functions which the folds of the    *)
(* library choose are there, for the folds the plan of a publish is made   *)
(* with, and what they yield.                                              *)

(* A set of numbers that is not empty has a least one.                     *)
LEMMA Least ==
  ASSUME NEW S \in SUBSET Nat, S # {}
  PROVE  \E m \in S : \A n \in S : m <= n
<1>1. \E x \in S : \A y \in S : ~(<<y, x>> \in OpToRel(<, Nat))
  BY WFMin, NatLessThanWellFounded, Zenon
<1>2. PICK x \in S : \A y \in S : ~(<<y, x>> \in OpToRel(<, Nat))
  BY <1>1, Zenon
<1>3. \A y \in S : ~(y < x)
  BY <1>2, Zenon DEF OpToRel
<1> QED
  BY <1>3

(* What holds for nothing, and for one more than it holds for, holds for   *)
(* everything up to n.                                                     *)
LEMMA UpTo ==
  ASSUME NEW n \in Nat, NEW Good \in SUBSET Nat, 0 \in Good,
         \A k \in Nat : k < n /\ k \in Good => k + 1 \in Good
  PROVE  n \in Good
<1> DEFINE Bad == {k \in 0..n : k \notin Good}
<1>1. SUFFICES Bad = {}
  OBVIOUS
<1>2. SUFFICES ASSUME Bad # {} PROVE FALSE
  OBVIOUS
<1>3. PICK m \in Bad : \A k \in Bad : m <= k
  <2>1. Bad \in SUBSET Nat
    OBVIOUS
  <2> HIDE DEF Bad
  <2> QED
    BY <1>2, <2>1, Least
<1>4. m \in 1..n /\ m \notin Good
  BY <1>3
<1>5. m - 1 \in Nat /\ m - 1 < n /\ m - 1 \in Good
  BY <1>3, <1>4
<1> QED
  BY <1>4, <1>5

LEMMA MaxIs ==
  ASSUME NEW S \in SUBSET Nat, NEW m \in S, \A x \in S : x <= m
  PROVE  Max(S) = m
<1>1. \A y \in S : m >= y
  OBVIOUS
<1>2. \A x \in S : (\A y \in S : x >= y) => x = m
  OBVIOUS
<1> QED
  BY <1>1, <1>2 DEF Max

(* A set of positions up to k that is not empty has a last one.            *)
LEMMA MaxBelow ==
  ASSUME NEW k \in Nat, NEW S \in SUBSET (1..k), S # {}
  PROVE  Max(S) \in S
<1> DEFINE T == {k - x : x \in S}
<1>1. T \in SUBSET Nat /\ T # {}
  <2>1. \A x \in S : k - x \in Nat
    OBVIOUS
  <2> QED
    BY <2>1
<1>2. PICK t \in T : \A u \in T : t <= u
  BY <1>1, Least
<1>3. PICK m \in S : t = k - m
  BY <1>2
<1>4. \A x \in S : x <= m
  BY <1>2, <1>3
<1> QED
  BY <1>4, MaxIs

(* The function that MapThenFoldSet chooses, on the sets of positions.     *)
Folds(n, V, base, step, f) ==
  /\ f \in [SUBSET (1..n) -> V]
  /\ \A S \in SUBSET (1..n) :
       f[S] = IF S = {} THEN base ELSE step[<<f[S \ {Max(S)}], Max(S)>>]

LEMMA FoldExists ==
  ASSUME NEW n \in Nat, NEW V, NEW base \in V, NEW step \in [V \X (1..n) -> V]
  PROVE  \E f : Folds(n, V, base, step, f)
<1> DEFINE Good == {k \in 0..n : \E f : Folds(k, V, base, step, f)}
<1>1. 0 \in Good
  <2> DEFINE f == [S \in SUBSET (1..0) |-> base]
  <2>1. \A S \in SUBSET (1..0) : S = {}
    OBVIOUS
  <2>2. Folds(0, V, base, step, f)
    BY <2>1 DEF Folds
  <2> QED
    BY <2>2
<1>2. ASSUME NEW k \in Nat, k < n, k \in Good PROVE k + 1 \in Good
  <2>1. PICK f : Folds(k, V, base, step, f)
    BY <1>2
  <2> DEFINE g == [S \in SUBSET (1..(k + 1)) |->
                     IF k + 1 \in S THEN step[<<f[S \ {k + 1}], k + 1>>] ELSE f[S]]
  <2>2. ASSUME NEW S \in SUBSET (1..(k + 1)), k + 1 \in S
        PROVE  /\ g[S] \in V
               /\ g[S] = step[<<g[S \ {Max(S)}], Max(S)>>]
    <3>1. S \ {k + 1} \in SUBSET (1..k) /\ S \ {k + 1} \in SUBSET (1..(k + 1))
      OBVIOUS
    <3>2. Max(S) = k + 1
      BY <2>2, MaxIs
    <3>3. g[S \ {k + 1}] = f[S \ {k + 1}] /\ f[S \ {k + 1}] \in V
      BY <2>1, <3>1 DEF Folds
    <3>4. g[S] = step[<<f[S \ {k + 1}], k + 1>>] /\ k + 1 \in 1..n
      BY <1>2, <2>2
    <3> QED
      BY <3>2, <3>3, <3>4
  <2>3. ASSUME NEW S \in SUBSET (1..(k + 1)), k + 1 \notin S
        PROVE  /\ g[S] \in V
               /\ g[S] = IF S = {} THEN base ELSE step[<<g[S \ {Max(S)}], Max(S)>>]
    <3>1. S \in SUBSET (1..k) /\ S \ {Max(S)} \in SUBSET (1..k)
      <4>1. \A x \in S : x \in 1..k
        BY <2>3
      <4> QED
        BY <4>1
    <3>2. g[S] = f[S] /\ g[S \ {Max(S)}] = f[S \ {Max(S)}]
      BY <2>3, <3>1
    <3> QED
      BY <2>1, <3>1, <3>2 DEF Folds
  <2>4. g \in [SUBSET (1..(k + 1)) -> V]
    BY <2>2, <2>3
  <2> HIDE DEF g
  <2>5. Folds(k + 1, V, base, step, g)
    BY <2>2, <2>3, <2>4 DEF Folds
  <2> QED
    BY <1>2, <2>5
<1>3. n \in Good
  <2> HIDE DEF Good
  <2>1. Good \in SUBSET Nat
    BY DEF Good
  <2> QED
    BY <1>1, <1>2, <2>1, UpTo
<1> QED
  BY <1>3

(* Between the positions up to k and those up to k - 1.                    *)
LEMMA LastOf ==
  ASSUME NEW k \in Nat \ {0}
  PROVE  Max(1..k) = k /\ 1..k # {} /\ (1..k) \ {k} = 1..(k - 1)
<1>1. k \in 1..k /\ 1..k \in SUBSET Nat /\ \A x \in 1..k : x <= k
  OBVIOUS
<1>2. Max(1..k) = k
  BY <1>1, MaxIs
<1>3. (1..k) \ {k} = 1..(k - 1)
  OBVIOUS
<1> QED
  BY <1>1, <1>2, <1>3

(* A sequence without its last element.                                   *)
LEMMA AllButLast ==
  ASSUME NEW S, NEW q \in Seq(S), q # <<>>
  PROVE  /\ SubSeq(q, 1, Len(q) - 1) \in Seq(S) /\ Len(SubSeq(q, 1, Len(q) - 1)) = Len(q) - 1
         /\ \A k \in 1..(Len(q) - 1) : SubSeq(q, 1, Len(q) - 1)[k] = q[k]
<1>1. PICK m \in Nat : Len(q) = m + 1
  <2>1. Len(q) \in Nat /\ Len(q) # 0
    OBVIOUS
  <2>2. Len(q) - 1 \in Nat /\ Len(q) = (Len(q) - 1) + 1
    BY <2>1
  <2> QED
    BY <2>2
<1>2. SubSeq(q, 1, m) = [k \in 1..m |-> q[k]] /\ Len(q) - 1 = m
  BY <1>1
<1>3. \A k \in 1..m : q[k] \in S
  BY <1>1
<1> DEFINE p == [k \in 1..m |-> q[k]]
<1>4. p \in Seq(S) /\ Len(p) = m /\ \A k \in 1..m : p[k] = q[k]
  BY <1>3
<1> QED
  BY <1>2, <1>4

LEMMA RangeOfConcat ==
  ASSUME NEW S, NEW s \in Seq(S), NEW t \in Seq(S)
  PROVE  Range(s \o t) = Range(s) \cup Range(t)
<1>1. /\ Len(s) \in Nat /\ Len(t) \in Nat /\ DOMAIN s = 1..Len(s) /\ DOMAIN t = 1..Len(t)
      /\ DOMAIN (s \o t) = 1..(Len(s) + Len(t))
      /\ \A i \in 1..(Len(s) + Len(t)) : (s \o t)[i] = IF i <= Len(s) THEN s[i] ELSE t[i - Len(s)]
  OBVIOUS
<1>2. \A i \in 1..Len(s) : s[i] \in Range(s \o t)
  BY <1>1 DEF Range
<1>3. ASSUME NEW i \in 1..Len(t) PROVE t[i] \in Range(s \o t)
  <2>1. i + Len(s) \in 1..(Len(s) + Len(t)) /\ (s \o t)[i + Len(s)] = t[i]
    BY <1>1
  <2> QED
    BY <1>1, <2>1 DEF Range
<1>4. \A i \in 1..(Len(s) + Len(t)) : (s \o t)[i] \in Range(s) \cup Range(t)
  BY <1>1 DEF Range
<1> QED
  BY <1>1, <1>2, <1>3, <1>4 DEF Range

(* FlattenSeq yields what the sequences have.                              *)
Joins(s, k, f) == f = [i \in 1..k |-> IF i = 1 THEN s[i] ELSE f[i - 1] \o s[i]]

LEMMA JoinsExists ==
  ASSUME NEW s, Len(s) \in Nat
  PROVE  \E f : Joins(s, Len(s), f)
<1> DEFINE Good == {k \in Nat : \E f : Joins(s, k, f)}
<1>1. 0 \in Good
  <2>1. Joins(s, 0, [i \in 1..0 |-> s[i]])
    BY DEF Joins
  <2> QED
    BY <2>1
<1>2. ASSUME NEW k \in Nat, k \in Good PROVE k + 1 \in Good
  <2>1. PICK f : Joins(s, k, f)
    BY <1>2
  <2> DEFINE g == [i \in 1..(k + 1) |-> IF i <= k THEN f[i]
                                        ELSE IF i = 1 THEN s[i] ELSE f[k] \o s[i]]
  <2>2. ASSUME NEW i \in 1..(k + 1)
        PROVE  g[i] = IF i = 1 THEN s[i] ELSE g[i - 1] \o s[i]
    <3>1. CASE i <= k
      <4>1. i \in 1..k /\ g[i] = f[i] /\ (i # 1 => g[i - 1] = f[i - 1])
        BY <3>1
      <4> QED
        BY <2>1, <4>1 DEF Joins
    <3>2. CASE i = k + 1
      BY <3>2
    <3> QED
      BY <3>1, <3>2
  <2>3. g = [i \in 1..(k + 1) |-> g[i]]
    OBVIOUS
  <2> HIDE DEF g
  <2>4. Joins(s, k + 1, g)
    BY <2>2, <2>3 DEF Joins
  <2> QED
    BY <2>4
<1>3. Len(s) \in Good
  <2>1. Good \in SUBSET Nat
    OBVIOUS
  <2> HIDE DEF Good
  <2> QED
    BY <1>1, <1>2, <2>1, UpTo
<1> QED
  BY <1>3

LEMMA Joined ==
  ASSUME NEW S, NEW s \in Seq(Seq(S))
  PROVE  /\ FlattenSeq(s) \in Seq(S)
         /\ \A i \in DOMAIN s : Range(s[i]) \subseteq Range(FlattenSeq(s))
<1>1. CASE Len(s) = 0
  BY <1>1 DEF FlattenSeq
<1>2. CASE Len(s) # 0
  <2> DEFINE f == CHOOSE f : Joins(s, Len(s), f)
  <2>1. FlattenSeq(s) = f[Len(s)]
    BY <1>2 DEF FlattenSeq, Joins
  <2>2. Joins(s, Len(s), f)
    <3>1. \E g : Joins(s, Len(s), g)
      BY JoinsExists
    <3> QED
      BY <3>1
  <2> HIDE DEF f
  <2> DEFINE Good == {k \in Nat : k \in 1..Len(s) =>
                        /\ f[k] \in Seq(S)
                        /\ \A i \in 1..k : Range(s[i]) \subseteq Range(f[k])}
  <2>3. 0 \in Good
    OBVIOUS
  <2>4. ASSUME NEW k \in Nat, k \in Good, k + 1 \in 1..Len(s) PROVE k + 1 \in Good
    <3> DEFINE j == k + 1
    <3>0. j \in 1..Len(s) /\ j - 1 = k /\ (j = 1 <=> k = 0) /\ s[j] \in Seq(S)
      BY <2>4
    <3> HIDE DEF j
    <3>1. f[j] = IF k = 0 THEN s[j] ELSE f[k] \o s[j]
      BY <2>2, <3>0 DEF Joins
    <3>4. \A i \in 1..j : i \in 1..k \/ i = j
      BY <3>0
    <3>2. f[j] \in Seq(S) /\ \A i \in 1..j : Range(s[i]) \subseteq Range(f[j])
      <4>1. CASE k = 0
        BY <3>0, <3>1, <3>4, <4>1
      <4>2. CASE k # 0
        <5>1. /\ k \in 1..Len(s) /\ f[k] \in Seq(S)
              /\ \A i \in 1..k : Range(s[i]) \subseteq Range(f[k])
          BY <2>4, <4>2
        <5>2. f[j] = f[k] \o s[j]
          BY <3>1, <4>2
        <5>3. f[j] \in Seq(S)
          BY <3>0, <5>1, <5>2
        <5>4. Range(f[j]) = Range(f[k]) \cup Range(s[j])
          BY <3>0, <5>1, <5>2, RangeOfConcat
        <5> QED
          BY <3>4, <5>1, <5>3, <5>4
      <4> QED
        BY <4>1, <4>2
    <3> QED
      BY <3>2 DEF j
  <2>5. Len(s) \in Good
    <3>1. Good \in SUBSET Nat /\ \A k \in Nat : k < Len(s) => k + 1 \in 1..Len(s)
      OBVIOUS
    <3> HIDE DEF Good
    <3> QED
      BY <2>3, <2>4, <3>1, UpTo
  <2> QED
    BY <1>2, <2>1, <2>5
<1> QED
  BY <1>1, <1>2

-----------------------------------------------------------------------------
(* The plan of a publish.                                                  *)

Catalog == [digest : [DOMAIN Artifact -> Versions \cup {None}], record : Records]

(* What plan_publish puts down for an extension's artifacts.               *)
Artifacts(n) ==
  {[key |-> WasmKey(d, n), digest |-> d, file |-> a] : d \in Versions, a \in Range(Artifact)}
Catalogued == {[key |-> CatalogKey, content |-> cat] : cat \in Catalog}
PlannedObjects == (UNION {Artifacts(n) : n \in Exts}) \cup Catalogued

CheckoutOK ==
  /\ tree \in [Range(Artifact) -> Versions \cup {Absent}]
  /\ index \in Catalog

Stamped == \A n \in Exts : \A p \in WasmOf(n) : index.digest[p] # None

(* The fold of WasmObjects, with its step under a name.                    *)
Asked(n, p) ==
  [key |-> WasmKey(index.digest[p], n), digest |-> index.digest[p], file |-> ResolveArtifact(p, n)]
Asking(n, before, p) ==
  IF p \in WasmOf(n) /\ \A x \in Range(before) : x.key # Asked(n, p).key
    THEN Append(before, Asked(n, p)) ELSE before
Walks(n, f) ==
  f = [S \in SUBSET DOMAIN ProvidersOf[n] |->
         IF S = {} THEN <<>> ELSE Asking(n, f[S \ {Max(S)}], ProvidersOf[n][Max(S)])]

LEMMA WasmObjectsWalk == \A n : WasmObjects(n) = (CHOOSE f : Walks(n, f))[DOMAIN ProvidersOf[n]]
  BY DEF WasmObjects, FoldLeft, MapThenFoldSet, Walks, Asking, Asked

LEMMA AskedType ==
  ASSUME CheckoutOK, Stamped, NEW n \in Exts, NEW p \in WasmOf(n)
  PROVE  Asked(n, p) \in Artifacts(n)
<1>1. p \in DOMAIN Artifact /\ Artifact[p] \in Range(Artifact) /\ ByName[n] \in Range(Artifact)
  BY DistAssumption DEF DistAssumption, Range
<1>2. index.digest[p] \in Versions
  BY <1>1 DEF CheckoutOK, Stamped, Catalog
<1>3. ResolveArtifact(p, n) \in Range(Artifact)
  BY <1>1 DEF ResolveArtifact
<1> QED
  BY <1>2, <1>3 DEF Asked, Artifacts

LEMMA AskingType ==
  ASSUME CheckoutOK, Stamped, NEW n \in Exts, NEW p, NEW before \in Seq(Artifacts(n))
  PROVE  /\ Asking(n, before, p) \in Seq(Artifacts(n))
         /\ Range(before) \subseteq Range(Asking(n, before, p))
         /\ p \in WasmOf(n) =>
              \E x \in Range(Asking(n, before, p)) : x.key = WasmKey(index.digest[p], n)
<1> DEFINE o == Asked(n, p)
<1>1. o.key = WasmKey(index.digest[p], n)
  BY DEF Asked
<1>2. CASE p \in WasmOf(n) /\ \A x \in Range(before) : x.key # o.key
  <2>1. o \in Artifacts(n)
    BY <1>2, AskedType
  <2>2. Asking(n, before, p) = Append(before, o)
    BY <1>2 DEF Asking
  <2> HIDE DEF o
  <2>3. /\ Append(before, o) \in Seq(Artifacts(n))
        /\ DOMAIN before = 1..Len(before) /\ DOMAIN Append(before, o) = 1..(Len(before) + 1)
        /\ Len(before) \in Nat
        /\ \A i \in 1..Len(before) : Append(before, o)[i] = before[i]
        /\ Append(before, o)[Len(before) + 1] = o
    BY <2>1
  <2>4. Range(Append(before, o)) = Range(before) \cup {o}
    <3>1. \A i \in 1..(Len(before) + 1) : i \in 1..Len(before) \/ i = Len(before) + 1
      BY <2>3
    <3>2. 1..Len(before) \subseteq 1..(Len(before) + 1) /\ Len(before) + 1 \in 1..(Len(before) + 1)
      BY <2>3
    <3> QED
      BY <2>3, <3>1, <3>2 DEF Range
  <2> QED
    BY <1>1, <2>2, <2>3, <2>4
<1>3. CASE ~(p \in WasmOf(n) /\ \A x \in Range(before) : x.key # o.key)
  <2>1. Asking(n, before, p) = before
    BY <1>3 DEF Asking
  <2> QED
    BY <1>1, <1>3, <2>1
<1> QED
  BY <1>2, <1>3

(* Each of an extension's artifacts is planned, under its digest.          *)
LEMMA WasmStore ==
  ASSUME CheckoutOK, Stamped, NEW n \in Exts
  PROVE  /\ WasmObjects(n) \in Seq(Artifacts(n))
         /\ \A p \in WasmOf(n) :
              \E x \in Range(WasmObjects(n)) : x.key = WasmKey(index.digest[p], n)
<1> DEFINE s == ProvidersOf[n]
           V == Seq(Artifacts(n))
           step == [a \in V \X (1..Len(s)) |-> Asking(n, a[1], s[a[2]])]
<1>1. s \in Seq(Providers) /\ Len(s) \in Nat /\ DOMAIN s = 1..Len(s)
  BY DistAssumption DEF DistAssumption
<1>2. step \in [V \X (1..Len(s)) -> V] /\ <<>> \in V
  <2>1. ASSUME NEW a \in V \X (1..Len(s)) PROVE Asking(n, a[1], s[a[2]]) \in V
    BY AskingType
  <2> QED
    BY <2>1
<1> HIDE DEF s
<1>3. \E f : Walks(n, f)
  <2>1. PICK f : Folds(Len(s), V, <<>>, step, f)
    <3> HIDE DEF V, step
    <3> QED
      BY <1>1, <1>2, FoldExists
  <2>2. \A S \in SUBSET (1..Len(s)) :
          f[S] = IF S = {} THEN <<>> ELSE Asking(n, f[S \ {Max(S)}], s[Max(S)])
    <3> SUFFICES ASSUME NEW S \in SUBSET (1..Len(s)), S # {}
                 PROVE  step[<<f[S \ {Max(S)}], Max(S)>>] = Asking(n, f[S \ {Max(S)}], s[Max(S)])
      BY <2>1 DEF Folds
    <3>1. Max(S) \in S /\ S \ {Max(S)} \in SUBSET (1..Len(s))
      BY <1>1, MaxBelow
    <3>2. f[S \ {Max(S)}] \in V /\ Max(S) \in 1..Len(s)
      BY <2>1, <3>1 DEF Folds
    <3> QED
      BY <3>2
  <2>3. f = [S \in SUBSET (1..Len(s)) |-> f[S]]
    BY <2>1 DEF Folds
  <2>4. Walks(n, f)
    BY <1>1, <2>2, <2>3 DEF Walks, s
  <2> QED
    BY <2>4
<1> DEFINE f == CHOOSE f : Walks(n, f)
<1>4. Walks(n, f)
  BY <1>3
<1>5. WasmObjects(n) = f[1..Len(s)]
  BY <1>1, WasmObjectsWalk DEF s
<1> HIDE DEF f, V
<1>6. f[1..0] = <<>> /\ \A k \in 1..Len(s) : f[1..k] = Asking(n, f[1..(k - 1)], s[k])
  <2>1. 1..0 = {} /\ \A k \in 1..Len(s) : 1..k \in SUBSET (1..Len(s)) /\ k \in Nat \ {0}
    BY <1>1
  <2>2. f[1..0] = <<>>
    BY <1>1, <1>4, <2>1 DEF Walks, s
  <2>3. ASSUME NEW k \in 1..Len(s) PROVE f[1..k] = Asking(n, f[1..(k - 1)], s[k])
    <3>1. Max(1..k) = k /\ 1..k # {} /\ (1..k) \ {k} = 1..(k - 1) /\ 1..k \in SUBSET DOMAIN s
      BY <1>1, <2>1, LastOf
    <3> QED
      BY <1>4, <3>1 DEF Walks, s
  <2> QED
    BY <2>2, <2>3
<1> DEFINE Has(k) == /\ f[1..k] \in Seq(Artifacts(n))
                     /\ \A i \in 1..k : s[i] \in WasmOf(n) =>
                          \E x \in Range(f[1..k]) : x.key = WasmKey(index.digest[s[i]], n)
           Good == {k \in Nat : k <= Len(s) => Has(k)}
<1>7. 0 \in Good
  <2>1. f[1..0] \in Seq(Artifacts(n))
    BY <1>6
  <2>2. ~\E i : i \in 1..0
    OBVIOUS
  <2> QED
    BY <2>1, <2>2
<1>8. ASSUME NEW k \in Nat, k < Len(s), k \in Good PROVE k + 1 \in Good
  <2>1. Has(k) /\ k + 1 \in 1..Len(s) /\ (k + 1) - 1 = k
    BY <1>1, <1>8
  <2>2. f[1..(k + 1)] = Asking(n, f[1..k], s[k + 1])
    BY <1>6, <2>1
  <2>3. /\ f[1..(k + 1)] \in Seq(Artifacts(n)) /\ Range(f[1..k]) \subseteq Range(f[1..(k + 1)])
        /\ s[k + 1] \in WasmOf(n) =>
             \E x \in Range(f[1..(k + 1)]) : x.key = WasmKey(index.digest[s[k + 1]], n)
    BY <2>1, <2>2, AskingType
  <2>4. \A i \in 1..(k + 1) : i \in 1..k \/ i = k + 1
    OBVIOUS
  <2>5. Has(k + 1)
    BY <2>1, <2>3, <2>4
  <2> QED
    BY <2>5
<1>9. Has(Len(s))
  <2>1. Good \in SUBSET Nat
    OBVIOUS
  <2> HIDE DEF Has
  <2>2. Len(s) \in Good
    <3> HIDE DEF Good
    <3> QED
      BY <1>1, <1>7, <1>8, <2>1, UpTo
  <2> QED
    BY <1>1, <2>2
<1>10. \A p \in WasmOf(n) : \E i \in 1..Len(s) : s[i] = p
  BY <1>1 DEF WasmOf, Range, s
<1> QED
  BY <1>5, <1>9, <1>10

(* Every artifact that a catalog among the objects names is in the bucket  *)
(* or goes before it.                                                      *)
Names(object, key) ==
  object.key = CatalogKey /\
  \E n \in Exts : \E p \in WasmOf(n) : key = WasmKey(object.content.digest[p], n)
AllIn(stock, todo) ==
  \A c \in DOMAIN todo : \A key :
    Names(todo[c], key) => key \in stock \/ \E b \in 1..(c - 1) : todo[b].key = key

LEMMA KeysApart == \A d, n : WasmKey(d, n) # CatalogKey
<1> SUFFICES ASSUME NEW d, NEW n, WasmKey(d, n) = CatalogKey PROVE FALSE
  OBVIOUS
<1>1. Len(<<d, n>>) = 2 /\ Len(<<"catalog">>) = 1
  OBVIOUS
<1> QED
  BY <1>1 DEF WasmKey, CatalogKey

(* A plan is complete when it is made ...                                  *)
LEMMA PlanComplete ==
  ASSUME CheckoutOK, Stamped
  PROVE  Objects \in Seq(PlannedObjects) /\ \A stock : AllIn(stock, Objects)
<1> DEFINE parts == [i \in DOMAIN Order |-> WasmObjects(Order[i])]
           AllArtifacts == UNION {Artifacts(n) : n \in Exts}
<1>1. Order \in Seq(Exts) /\ Len(Order) \in Nat /\ DOMAIN Order = 1..Len(Order)
  BY DistAssumption DEF DistAssumption
<1>2. \A i \in DOMAIN Order : WasmObjects(Order[i]) \in Seq(AllArtifacts)
  <2> SUFFICES ASSUME NEW i \in DOMAIN Order PROVE WasmObjects(Order[i]) \in Seq(AllArtifacts)
    OBVIOUS
  <2>1. Order[i] \in Exts
    BY <1>1
  <2>2. WasmObjects(Order[i]) \in Seq(Artifacts(Order[i])) /\ Artifacts(Order[i]) \subseteq AllArtifacts
    BY <2>1, WasmStore
  <2> HIDE DEF AllArtifacts
  <2> QED
    BY <2>2
<1> HIDE DEF AllArtifacts
<1>3. parts \in Seq(Seq(AllArtifacts)) /\ DOMAIN parts = 1..Len(Order)
  BY <1>1, <1>2
<1>4. Store = FlattenSeq(parts)
  BY DEF Store
<1>5. /\ Store \in Seq(AllArtifacts)
      /\ \A i \in DOMAIN parts : Range(parts[i]) \subseteq Range(Store)
  <2> HIDE DEF parts
  <2> QED
    BY <1>3, <1>4, Joined
<1>6. ASSUME NEW n \in Exts, NEW p \in WasmOf(n)
      PROVE  \E b \in 1..Len(Store) : Store[b].key = WasmKey(index.digest[p], n)
  <2>1. PICK i \in DOMAIN Order : Order[i] = n
    BY DEF Exts, Range
  <2>2. \E x \in Range(parts[i]) : x.key = WasmKey(index.digest[p], n)
    BY <2>1, WasmStore
  <2>3. \E x \in Range(Store) : x.key = WasmKey(index.digest[p], n)
    BY <1>1, <1>3, <1>5, <2>1, <2>2
  <2> QED
    BY <1>5, <2>3 DEF Range
<1> HIDE DEF parts
<1>7. /\ CatalogObject \in Catalogued /\ CatalogObject.content = index
      /\ AllArtifacts \subseteq PlannedObjects /\ Catalogued \subseteq PlannedObjects
  <2>1. index \in Catalog /\ CatalogObject = [key |-> CatalogKey, content |-> index]
    BY DEF CheckoutOK, CatalogObject
  <2>2. CatalogObject \in Catalogued
    BY <2>1 DEF Catalogued
  <2>3. PlannedObjects = AllArtifacts \cup Catalogued
    BY DEF PlannedObjects, AllArtifacts
  <2> QED
    BY <2>1, <2>2, <2>3
<1>8. Objects \in Seq(PlannedObjects) /\ Len(Objects) = Len(Store) + 1 /\ Len(Store) \in Nat
  BY <1>5, <1>7 DEF Objects
<1>9. /\ \A i \in 1..Len(Store) : Objects[i] = Store[i]
      /\ Objects[Len(Store) + 1] = CatalogObject
  BY <1>5, <1>7 DEF Objects
<1>10. \A i \in 1..Len(Store) : Store[i].key # CatalogKey
  <2>1. ASSUME NEW x \in AllArtifacts PROVE x.key # CatalogKey
    BY <2>1, KeysApart DEF AllArtifacts, Artifacts
  <2> QED
    BY <1>5, <2>1
<1>11. ASSUME NEW stock PROVE AllIn(stock, Objects)
  <2> SUFFICES ASSUME NEW c \in DOMAIN Objects, NEW key, Names(Objects[c], key)
               PROVE  \E b \in 1..(c - 1) : Objects[b].key = key
    BY DEF AllIn
  <2>1. c = Len(Store) + 1
    BY <1>8, <1>9, <1>10 DEF Names
  <2>2. PICK n \in Exts : \E p \in WasmOf(n) : key = WasmKey(index.digest[p], n)
    BY <1>7, <1>9, <2>1 DEF Names
  <2>3. PICK p \in WasmOf(n) : key = WasmKey(index.digest[p], n)
    BY <2>2
  <2>4. PICK b \in 1..Len(Store) : Store[b].key = key
    BY <1>6, <2>3
  <2> QED
    BY <1>8, <1>9, <2>1, <2>4
<1> QED
  BY <1>8, <1>11

(* What is planned is an artifact of an extension, or a catalog.           *)
LEMMA PlannedCases ==
  ASSUME NEW o \in PlannedObjects
  PROVE  \/ o.key = CatalogKey /\ o.content \in Catalog
         \/ /\ o.key # CatalogKey /\ o.digest \in Versions
            /\ \E n \in Exts : o.key = WasmKey(o.digest, n)
<1>1. CASE o \in Catalogued
  BY <1>1 DEF Catalogued
<1>2. ASSUME NEW n \in Exts, o \in Artifacts(n)
      PROVE  o.key # CatalogKey /\ o.digest \in Versions /\ o.key = WasmKey(o.digest, n)
  BY <1>2, KeysApart DEF Artifacts
<1>3. o \in Catalogued \/ \E n \in Exts : o \in Artifacts(n)
  BY DEF PlannedObjects
<1> QED
  BY <1>1, <1>2, <1>3

(* ... and stays so, whatever else is put into the bucket, ...             *)
LEMMA CompleteGrows ==
  ASSUME NEW stock, NEW more, stock \subseteq more, NEW todo, AllIn(stock, todo)
  PROVE  AllIn(more, todo)
  BY DEF AllIn

(* ... and while its own objects are.                                      *)
LEMMA CompleteTail ==
  ASSUME NEW stock, NEW todo \in Seq(PlannedObjects), todo # <<>>, AllIn(stock, todo)
  PROVE  /\ AllIn(stock \cup {Head(todo).key}, Tail(todo))
         /\ Head(todo).key = CatalogKey => AllIn(stock, Tail(todo))
<1> DEFINE rest == Tail(todo)
<1>1. /\ Len(todo) \in Nat \ {0} /\ DOMAIN todo = 1..Len(todo) /\ DOMAIN rest = 1..(Len(todo) - 1)
      /\ \A i \in 1..(Len(todo) - 1) : rest[i] = todo[i + 1]
      /\ Head(todo) = todo[1]
  OBVIOUS
<1> HIDE DEF rest
<1>2. ASSUME NEW c \in DOMAIN rest, NEW key, Names(rest[c], key)
      PROVE  key \in stock \/ key = Head(todo).key \/ \E b \in 1..(c - 1) : rest[b].key = key
  <2>1. c + 1 \in DOMAIN todo /\ Names(todo[c + 1], key)
    BY <1>1, <1>2
  <2>2. CASE key \in stock
    BY <2>2
  <2>3. ASSUME NEW b \in 1..((c + 1) - 1), todo[b].key = key
        PROVE  key = Head(todo).key \/ \E a \in 1..(c - 1) : rest[a].key = key
    <3>1. CASE b = 1
      BY <1>1, <2>3, <3>1
    <3>2. CASE b # 1
      <4>1. b - 1 \in 1..(c - 1) /\ b - 1 \in 1..(Len(todo) - 1) /\ (b - 1) + 1 = b
        BY <1>1, <3>2
      <4> QED
        BY <1>1, <2>3, <4>1
    <3> QED
      BY <3>1, <3>2
  <2> QED
    BY <2>1, <2>2, <2>3 DEF AllIn
<1>3. AllIn(stock \cup {Head(todo).key}, rest)
  BY <1>2 DEF AllIn
<1>4. ASSUME Head(todo).key = CatalogKey PROVE AllIn(stock, rest)
  BY <1>2, <1>4, KeysApart DEF AllIn, Names
<1> QED
  BY <1>3, <1>4 DEF rest

-----------------------------------------------------------------------------
(* The bucket and the extension directory.                                 *)

Steps == {"fetch", "write", "writing", "removed"}
Install ==
  [step : Steps, ext : Exts, from : Providers \cup {None}, digest : Versions \cup {None},
   published : BOOLEAN, bytes : Versions \cup {None}]

DistTypeOK ==
  /\ CheckoutOK
  /\ suite \in [Exts -> Suites \cup {None}]
  /\ builds \in 0..MaxBuilds
  /\ plan \in [Publishers -> Seq(PlannedObjects)]
  /\ catalog \in Catalog \cup {None}
  /\ install \in [Installers -> Install \cup {None}]
  /\ files \in [Range(Artifact) -> Versions \cup {Absent, Empty, Torn}]
  /\ vouched \in [Exts -> SUBSET Versions] /\ unpinned \in [Exts -> SUBSET Versions]

(* Every object has the bytes of the digest in its key.                    *)
Stocked ==
  /\ objects = [k \in DOMAIN objects |-> k[1]]
  /\ \A k \in DOMAIN objects : \E d \in Versions, n \in Exts : k = WasmKey(d, n)

Ordered == \A u \in Publishers : AllIn(DOMAIN objects, plan[u])

CatalogServed ==
  catalog # None => \A n \in Exts : \A p \in WasmOf(n) : Served(catalog.digest[p], n)

InstallServed ==
  \A i \in Installers :
    install[i] # None /\ install[i].published => Served(install[i].digest, install[i].ext)

(* An install fetches the artifact of a wasm provider of its extension;    *)
(* what it goes on to write was vouched for, or had no digest.             *)
Verified ==
  \A i \in Installers : install[i] # None =>
    IF install[i].step = "fetch" THEN install[i].from \in WasmOf(install[i].ext)
    ELSE install[i].bytes \in vouched[install[i].ext] \cup unpinned[install[i].ext]

(* Only an install writes into the extension directory, under the name of  *)
(* its extension.                                                          *)
Installed ==
  \A f \in Range(Artifact) :
    files[f] \in Versions => \E n \in Exts : f = ByName[n] /\ files[f] \in vouched[n] \cup unpinned[n]

DInv ==
  /\ DistTypeOK /\ Stocked /\ Ordered /\ CatalogServed /\ InstallServed
  /\ Verified /\ Installed

LEMMA StampType ==
  ASSUME tree \in [Range(Artifact) -> Versions \cup {Absent}]
  PROVE  Stamp \in [DOMAIN Artifact -> Versions \cup {None}]
<1>1. \A p \in DOMAIN Artifact : Artifact[p] \in Range(Artifact)
  BY DEF Range
<1> QED
  BY <1>1 DEF Stamp

LEMMA DistInitInv == DistInit => DInv
<1> SUFFICES ASSUME DistInit PROVE DInv
  OBVIOUS
<1>1. tree \in [Range(Artifact) -> Versions \cup {Absent}]
  BY DistAssumption DEF DistInit, DistAssumption
<1>2. index \in Catalog
  BY <1>1, StampType DEF DistInit, Catalog, Unstamped
<1>3. DistTypeOK
  BY <1>1, <1>2, DistAssumption DEF DistInit, DistTypeOK, CheckoutOK, DistAssumption
<1>4. Stocked /\ Ordered
  BY DEF DistInit, Stocked, Ordered, AllIn
<1>5. CatalogServed /\ InstallServed /\ Verified
  BY DEF DistInit, CatalogServed, InstallServed, Verified, pins
<1>6. Installed
  BY DistAssumption DEF DistInit, Installed, DistAssumption, pins
<1> QED
  BY <1>3, <1>4, <1>5, <1>6 DEF DInv

LEMMA BuildStep ==
  ASSUME DInv, NEW a \in Range(Artifact), Build(a)
  PROVE  DInv'
<1>1. DistTypeOK'
  BY DistAssumption DEF DInv, DistTypeOK, CheckoutOK, Build, bucket, local, DistAssumption, pins
<1> QED
  BY <1>1 DEF DInv, Stocked, Ordered, CatalogServed, InstallServed, Served, Verified,
     Installed, Build, bucket, local, pins

LEMMA GenCatalogStep == ASSUME DInv, GenCatalog PROVE DInv'
<1>1. index' \in Catalog
  BY StampType DEF DInv, DistTypeOK, CheckoutOK, GenCatalog, Catalog
<1>2. DistTypeOK'
  BY <1>1 DEF DInv, DistTypeOK, CheckoutOK, GenCatalog, bucket, local, pins
<1> QED
  BY <1>2 DEF DInv, Stocked, Ordered, CatalogServed, InstallServed, Served, Verified,
     Installed, GenCatalog, bucket, local, pins

LEMMA PlanPublishStep ==
  ASSUME DInv, NEW u \in Publishers, NEW verify \in BOOLEAN, PlanPublish(u, verify)
  PROVE  DInv'
<1>1. CheckoutOK /\ Stamped
  BY DEF DInv, DistTypeOK, PlanPublish, Stamped
<1>2. Objects \in Seq(PlannedObjects) /\ AllIn(DOMAIN objects, Objects)
  BY <1>1, PlanComplete
<1>3. plan' = [plan EXCEPT ![u] = Objects] /\ UNCHANGED <<source, bucket, local>>
  BY DEF PlanPublish
<1>4. DistTypeOK'
  BY <1>2, <1>3 DEF DInv, DistTypeOK, CheckoutOK, source, bucket, local, pins
<1>5. Ordered'
  BY <1>2, <1>3 DEF DInv, DistTypeOK, Ordered, bucket
<1> QED
  BY <1>3, <1>4, <1>5 DEF DInv, Stocked, CatalogServed, InstallServed, Served, Verified,
     Installed, source, bucket, local, pins

LEMMA PublishStopsStep ==
  ASSUME DInv, NEW u \in Publishers, PublishStops(u)
  PROVE  DInv'
<1>1. plan' = [plan EXCEPT ![u] = <<>>] /\ UNCHANGED <<source, bucket, local>>
  BY DEF PublishStops
<1>2. DistTypeOK'
  BY <1>1 DEF DInv, DistTypeOK, CheckoutOK, source, bucket, local, pins
<1>3. Ordered'
  BY <1>1 DEF DInv, DistTypeOK, Ordered, AllIn, bucket
<1> QED
  BY <1>1, <1>2, <1>3 DEF DInv, Stocked, CatalogServed, InstallServed, Served, Verified,
     Installed, source, bucket, local, pins

(* An object more is never one less, and none has changed.                 *)
LEMMA PutArtifactStep ==
  ASSUME DInv, NEW u \in Publishers, PutArtifact(u)
  PROVE  DInv'
<1> DEFINE o == Head(plan[u])
           stock == DOMAIN objects \cup {o.key}
<1>1. /\ plan[u] # <<>> /\ o.key # CatalogKey /\ tree[o.file] = o.digest
      /\ objects' = [k \in stock |-> IF k = o.key THEN tree[o.file] ELSE objects[k]]
      /\ plan' = [plan EXCEPT ![u] = Tail(@)]
      /\ UNCHANGED <<source, catalog, local>>
  BY DEF PutArtifact, Uploadable, ObjectBytes
<1>2. plan[u] \in Seq(PlannedObjects) /\ o \in PlannedObjects /\ Tail(plan[u]) \in Seq(PlannedObjects)
  BY <1>1 DEF DInv, DistTypeOK
<1>3. o.digest \in Versions /\ \E n \in Exts : o.key = WasmKey(o.digest, n)
  BY <1>1, <1>2, PlannedCases
<1>4. PICK n \in Exts : o.key = WasmKey(o.digest, n)
  BY <1>3
<1> HIDE DEF o
<1>5. DistTypeOK'
  BY <1>1, <1>2 DEF DInv, DistTypeOK, CheckoutOK, source, local, pins
<1>6. DOMAIN objects' = stock /\ \A k \in stock : objects'[k] = k[1]
  BY <1>1, <1>4 DEF DInv, Stocked, WasmKey
<1>7. Stocked'
  <2>1. objects' = [k \in stock |-> k[1]]
    BY <1>1, <1>6
  <2>2. \A k \in stock : \E d \in Versions, m \in Exts : k = WasmKey(d, m)
    BY <1>3, <1>4 DEF DInv, Stocked
  <2> QED
    BY <1>6, <2>1, <2>2 DEF Stocked
<1>8. Ordered'
  <2> SUFFICES ASSUME NEW v \in Publishers PROVE AllIn(stock, plan'[v])
    BY <1>6 DEF Ordered
  <2>1. CASE v = u
    <3>1. plan'[v] = Tail(plan[u])
      BY <1>1, <2>1 DEF DInv, DistTypeOK
    <3> QED
      BY <1>1, <1>2, <3>1, CompleteTail DEF DInv, Ordered, o
  <2>2. CASE v # u
    BY <1>1, <2>2, CompleteGrows DEF DInv, DistTypeOK, Ordered
  <2> QED
    BY <2>1, <2>2
<1>9. \A d, e : Served(d, e) => Served(d, e)'
  BY <1>6 DEF DInv, Stocked, Served
<1>10. CatalogServed' /\ InstallServed'
  BY <1>1, <1>9 DEF DInv, CatalogServed, InstallServed, local, pins
<1> QED
  BY <1>1, <1>5, <1>7, <1>8, <1>10 DEF DInv, Verified, Installed, local, pins

LEMMA PutCatalogStep ==
  ASSUME DInv, NEW u \in Publishers, PutCatalog(u)
  PROVE  DInv'
<1> DEFINE o == Head(plan[u])
<1>1. /\ plan[u] # <<>> /\ o.key = CatalogKey
      /\ catalog' = o.content
      /\ plan' = [plan EXCEPT ![u] = Tail(@)]
      /\ UNCHANGED <<source, objects, local>>
  BY DEF PutCatalog
<1>2. /\ plan[u] \in Seq(PlannedObjects) /\ o \in PlannedObjects
      /\ Tail(plan[u]) \in Seq(PlannedObjects) /\ o = plan[u][1] /\ 1 \in DOMAIN plan[u]
  BY <1>1 DEF DInv, DistTypeOK
<1>3. o.content \in Catalog
  BY <1>1, <1>2, PlannedCases
<1> HIDE DEF o
<1>4. DistTypeOK'
  BY <1>1, <1>2, <1>3 DEF DInv, DistTypeOK, CheckoutOK, source, local, pins
<1>5. Ordered'
  <2> SUFFICES ASSUME NEW v \in Publishers PROVE AllIn(DOMAIN objects, plan'[v])
    BY <1>1 DEF Ordered
  <2>1. CASE v = u
    <3>1. plan'[v] = Tail(plan[u])
      BY <1>1, <2>1 DEF DInv, DistTypeOK
    <3> QED
      BY <1>1, <1>2, <3>1, CompleteTail DEF DInv, Ordered, o
  <2>2. CASE v # u
    BY <1>1, <2>2 DEF DInv, DistTypeOK, Ordered
  <2> QED
    BY <2>1, <2>2
<1>6. CatalogServed'
  <2> SUFFICES ASSUME NEW n \in Exts, NEW p \in WasmOf(n)
               PROVE  Served(o.content.digest[p], n)
    BY <1>1 DEF CatalogServed, Served
  <2> DEFINE key == WasmKey(o.content.digest[p], n)
  <2>1. Names(o, key)
    BY <1>1 DEF Names
  <2>2. key \in DOMAIN objects \/ \E b \in 1..(1 - 1) : plan[u][b].key = key
    <3> HIDE DEF key
    <3> QED
      BY <1>2, <2>1 DEF DInv, Ordered, AllIn
  <2>3. key \in DOMAIN objects
    BY <2>2
  <2> QED
    BY <2>3 DEF DInv, Stocked, Served, WasmKey
<1> QED
  BY <1>1, <1>4, <1>5, <1>6 DEF DInv, Stocked, InstallServed, Served, Verified, Installed, local, pins

LEMMA ResolvedWasm ==
  ASSUME NEW cat, NEW n \in Exts, NEW canonical, NEW policy,
         NEW p \in Resolved(cat, n, canonical, policy)
  PROVE  p \in WasmOf(n)
<1>1. PICK i \in Admitted(cat, n, canonical, policy) : p = ProvidersOf[n][i]
  BY DEF Resolved
<1>2. i \in DOMAIN ProvidersOf[n] /\ Wasm(p)
  BY <1>1 DEF Admitted, SubstrateAvailable
<1> QED
  BY <1>1, <1>2 DEF WasmOf, Range

LEMMA WasmProvider ==
  ASSUME NEW n \in Exts, NEW p \in WasmOf(n)
  PROVE  p \in Providers /\ p \in DOMAIN Artifact /\ Artifact[p] \in Range(Artifact)
<1>1. p \in DOMAIN Artifact /\ ProvidersOf[n] \in Seq(Providers)
  BY DistAssumption DEF DistAssumption
<1>2. PICK i \in DOMAIN ProvidersOf[n] : p = ProvidersOf[n][i]
  BY DEF WasmOf, Range
<1> QED
  BY <1>1, <1>2 DEF Range

LEMMA BeginInstallStep ==
  ASSUME DInv, NEW i \in Installers, NEW n \in Exts, NEW policy, BeginInstall(i, n, policy)
  PROVE  DInv'
<1>1. PICK cat \in Catalogs : \E p \in Resolved(cat, n, AgreedSuite(cat, n), policy) :
        install' = [install EXCEPT ![i] =
          [step |-> "fetch", ext |-> n, from |-> p, digest |-> cat.digest[p],
           published |-> cat = catalog, bytes |-> None]]
  BY DEF BeginInstall
<1>2. PICK p \in Resolved(cat, n, AgreedSuite(cat, n), policy) :
        install' = [install EXCEPT ![i] =
          [step |-> "fetch", ext |-> n, from |-> p, digest |-> cat.digest[p],
           published |-> cat = catalog, bytes |-> None]]
  BY <1>1
<1>3. UNCHANGED <<source, plan, bucket, files, pins>>
  BY DEF BeginInstall
<1>4. /\ p \in WasmOf(n) /\ p \in Providers /\ p \in DOMAIN Artifact
      /\ cat \in Catalog /\ cat # None
  BY ResolvedWasm, WasmProvider DEF DInv, DistTypeOK, CheckoutOK, Catalogs
<1>5. cat.digest[p] \in Versions \cup {None}
  BY <1>4 DEF Catalog
<1> DEFINE r == [step |-> "fetch", ext |-> n, from |-> p, digest |-> cat.digest[p],
                 published |-> cat = catalog, bytes |-> None]
<1>6. /\ r \in Install /\ r.step = "fetch" /\ r.ext = n /\ r.from = p
      /\ r.digest = cat.digest[p] /\ (r.published => cat = catalog)
  BY <1>4, <1>5 DEF Install, Steps
<1>7. install' = [install EXCEPT ![i] = r]
  BY <1>2
<1> HIDE DEF r
<1>8. DistTypeOK'
  BY <1>3, <1>6, <1>7 DEF DInv, DistTypeOK, CheckoutOK, source, bucket, pins
<1>9. \A j \in Installers : install'[j] = IF j = i THEN r ELSE install[j]
  BY <1>7 DEF DInv, DistTypeOK
<1>10. InstallServed'
  <2>1. r.published => Served(r.digest, r.ext)
    BY <1>4, <1>6 DEF DInv, CatalogServed
  <2> QED
    BY <1>3, <1>9, <2>1 DEF DInv, InstallServed, Served, bucket
<1>11. Verified'
  BY <1>3, <1>4, <1>6, <1>9 DEF DInv, Verified, pins
<1> QED
  BY <1>3, <1>8, <1>10, <1>11 DEF DInv, Stocked, Ordered, CatalogServed, Served, Installed, pins,
     source, bucket

(* What is fetched is what the catalog has a digest of.                    *)
LEMMA FetchArtifactStep ==
  ASSUME DInv, NEW i \in Installers, FetchArtifact(i)
  PROVE  DInv'
<1> DEFINE r == install[i]
           b == Fetched(r)
           w == Writing(r.ext, b)
<1>1. /\ r # None /\ r.step = "fetch" /\ b # Absent /\ (r.digest # None => b = r.digest)
      /\ install' = [install EXCEPT ![i] = w]
      /\ \/ vouched' = [vouched EXCEPT ![r.ext] = @ \cup {b}] /\ unpinned' = unpinned
         \/ unpinned' = [unpinned EXCEPT ![r.ext] = @ \cup {b}] /\ vouched' = vouched
      /\ UNCHANGED <<source, plan, bucket, files>>
  BY DEF FetchArtifact, VerifyContentDigest
<1>2. r \in Install /\ r.ext \in Exts /\ r.from \in WasmOf(r.ext)
  BY <1>1 DEF DInv, DistTypeOK, Install, Verified, pins
<1>3. b \in Versions
  <2>1. CASE r.from \in Linked
    BY <1>1, <2>1 DEF DInv, Stocked, Fetched, WasmKey
  <2>2. CASE r.from \notin Linked
    <3>1. Artifact[r.from] \in Range(Artifact)
      BY <1>2, WasmProvider
    <3> QED
      BY <1>1, <2>2, <3>1 DEF DInv, DistTypeOK, CheckoutOK, Fetched
  <2> QED
    BY <2>1, <2>2
<1>5. /\ w \in Install /\ w.step = "write" /\ w.ext = r.ext /\ w.bytes = b /\ ~w.published
  BY <1>2, <1>3 DEF Writing, Install, Steps
<1> HIDE DEF r, w, b
<1>6. \A j \in Installers : install'[j] = IF j = i THEN w ELSE install[j]
  BY <1>1 DEF DInv, DistTypeOK
<1>7. /\ b \in vouched'[r.ext] \cup unpinned'[r.ext]
      /\ vouched' \in [Exts -> SUBSET Versions] /\ unpinned' \in [Exts -> SUBSET Versions]
      /\ \A n \in Exts : vouched[n] \cup unpinned[n] \subseteq vouched'[n] \cup unpinned'[n]
  <2>1. CASE vouched' = [vouched EXCEPT ![r.ext] = @ \cup {b}] /\ unpinned' = unpinned
    BY <1>2, <1>3, <2>1 DEF DInv, DistTypeOK
  <2>2. CASE unpinned' = [unpinned EXCEPT ![r.ext] = @ \cup {b}] /\ vouched' = vouched
    BY <1>2, <1>3, <2>2 DEF DInv, DistTypeOK
  <2> QED
    BY <1>1, <2>1, <2>2
<1>8. DistTypeOK'
  BY <1>1, <1>5, <1>7 DEF DInv, DistTypeOK, CheckoutOK, source, bucket, pins
<1>9. InstallServed'
  BY <1>1, <1>5, <1>6 DEF DInv, InstallServed, Served, bucket
<1>10. Verified'
  <2> SUFFICES ASSUME NEW j \in Installers, install'[j] # None
               PROVE  IF install'[j].step = "fetch" THEN install'[j].from \in WasmOf(install'[j].ext)
                      ELSE install'[j].bytes \in vouched'[install'[j].ext] \cup unpinned'[install'[j].ext]
    BY DEF Verified, pins
  <2>1. CASE j = i
    BY <1>5, <1>6, <1>7, <2>1
  <2>2. CASE j # i
    <3>1. install'[j] = install[j] /\ install[j] \in Install /\ install[j].ext \in Exts
      BY <1>6, <2>2 DEF DInv, DistTypeOK, Install
    <3> QED
      BY <1>7, <3>1 DEF DInv, Verified, pins
  <2> QED
    BY <2>1, <2>2
<1>11. Installed'
  BY <1>1, <1>7 DEF DInv, Installed, pins
<1> QED
  BY <1>1, <1>8, <1>9, <1>10, <1>11 DEF DInv, Stocked, Ordered, CatalogServed, Served,
     source, bucket

(* A step of an install that leaves its bytes what they were, or ends it.  *)
LEMMA InstallGoesOn ==
  ASSUME DInv, NEW to \in [Installers -> Install \cup {None}], install' = to,
         \A j \in Installers : to[j] # None =>
           /\ install[j] # None /\ to[j].ext = install[j].ext /\ to[j].bytes = install[j].bytes
           /\ to[j].from = install[j].from /\ to[j].digest = install[j].digest
           /\ to[j].published = install[j].published
           /\ to[j].step = "fetch" <=> install[j].step = "fetch",
         files' \in [Range(Artifact) -> Versions \cup {Absent, Empty, Torn}], Installed',
         UNCHANGED <<source, plan, bucket, pins>>
  PROVE  DInv'
<1>1. DistTypeOK'
  BY DEF DInv, DistTypeOK, CheckoutOK, source, bucket, pins
<1>2. InstallServed'
  BY DEF DInv, InstallServed, Served, bucket
<1>3. Verified'
  BY DEF DInv, Verified, pins
<1> QED
  BY <1>1, <1>2, <1>3 DEF DInv, Stocked, Ordered, CatalogServed, Served, bucket

LEMMA NotVersions == Absent \notin Versions /\ Empty \notin Versions /\ Torn \notin Versions /\ None \notin Versions
  BY DistAssumption DEF DistAssumption

LEMMA TruncateStep ==
  ASSUME DInv, NEW i \in Installers, Truncate(i)
  PROVE  DInv'
<1> DEFINE r == install[i]
           w == [r EXCEPT !.step = "writing"]
           to == [install EXCEPT ![i] = w]
<1>1. /\ r # None /\ r.step = "write" /\ install' = to
      /\ files' = [files EXCEPT ![ByName[r.ext]] = Empty]
      /\ UNCHANGED <<source, plan, bucket, pins>>
  BY DEF Truncate
<1>2. r \in Install
  BY <1>1 DEF DInv, DistTypeOK
<1>3. /\ w \in Install /\ w.step = "writing" /\ w.ext = r.ext /\ w.from = r.from
      /\ w.digest = r.digest /\ w.published = r.published /\ w.bytes = r.bytes
  BY <1>2 DEF Install, Steps
<1> HIDE DEF w
<1>4. /\ to \in [Installers -> Install \cup {None}]
      /\ \A j \in Installers : to[j] = IF j = i THEN w ELSE install[j]
  BY <1>3 DEF DInv, DistTypeOK
<1>5. /\ files' \in [Range(Artifact) -> Versions \cup {Absent, Empty, Torn}]
      /\ \A f \in Range(Artifact) : files'[f] \in {files[f], Empty}
  BY <1>1 DEF DInv, DistTypeOK
<1>6. Installed'
  BY <1>1, <1>5, NotVersions DEF DInv, Installed, pins
<1> HIDE DEF to
<1> QED
  BY <1>1, <1>3, <1>4, <1>5, <1>6, InstallGoesOn

LEMMA WriteFileStep ==
  ASSUME DInv, NEW i \in Installers, WriteFile(i)
  PROVE  DInv'
<1> DEFINE r == install[i]
           to == [install EXCEPT ![i] = None]
<1>1. /\ r # None /\ r.step \in {"writing", "removed"} /\ install' = to
      /\ \/ UNCHANGED files
         \/ files' = [files EXCEPT ![ByName[r.ext]] = r.bytes]
         \/ files' = [files EXCEPT ![ByName[r.ext]] = Torn]
      /\ UNCHANGED <<source, plan, bucket, pins>>
  BY DEF WriteFile
<1>2. r \in Install /\ r.ext \in Exts /\ r.bytes \in vouched[r.ext] \cup unpinned[r.ext] /\ r.bytes \in Versions
  BY <1>1 DEF DInv, DistTypeOK, Verified, Install, pins
<1>3. /\ to \in [Installers -> Install \cup {None}]
      /\ \A j \in Installers : to[j] = IF j = i THEN None ELSE install[j]
  BY DEF DInv, DistTypeOK
<1>4. /\ files' \in [Range(Artifact) -> Versions \cup {Absent, Empty, Torn}]
      /\ \A f \in Range(Artifact) :
           files'[f] \in {files[f], Torn} \/ (f = ByName[r.ext] /\ files'[f] = r.bytes)
  BY <1>1, <1>2 DEF DInv, DistTypeOK
<1>5. Installed'
  BY <1>1, <1>2, <1>4, NotVersions DEF DInv, Installed, pins
<1> HIDE DEF to
<1> QED
  BY <1>1, <1>3, <1>4, <1>5, InstallGoesOn

LEMMA InstallStopsStep ==
  ASSUME DInv, NEW i \in Installers, InstallStops(i)
  PROVE  DInv'
<1> DEFINE to == [install EXCEPT ![i] = None]
<1>1. /\ install' = to
      /\ UNCHANGED files \/ files' = [files EXCEPT ![ByName[install[i].ext]] = Torn]
      /\ UNCHANGED <<source, plan, bucket, pins>>
  BY DEF InstallStops
<1>2. /\ to \in [Installers -> Install \cup {None}]
      /\ \A j \in Installers : to[j] = IF j = i THEN None ELSE install[j]
  BY DEF DInv, DistTypeOK
<1>3. /\ files' \in [Range(Artifact) -> Versions \cup {Absent, Empty, Torn}]
      /\ \A f \in Range(Artifact) : files'[f] \in {files[f], Torn}
  BY <1>1 DEF DInv, DistTypeOK
<1>4. Installed'
  BY <1>1, <1>3, NotVersions DEF DInv, Installed, pins
<1> HIDE DEF to
<1> QED
  BY <1>1, <1>2, <1>3, <1>4, InstallGoesOn

LEMMA UninstallStep ==
  ASSUME DInv, NEW n \in Exts, Uninstall(n)
  PROVE  DInv'
<1> DEFINE Hit(i) == install[i] # None /\ install[i].ext = n /\ install[i].step = "writing"
           to == [i \in Installers |->
                    IF Hit(i) THEN [install[i] EXCEPT !.step = "removed"] ELSE install[i]]
<1>1. /\ install' = to /\ files' = [files EXCEPT ![ByName[n]] = Absent]
      /\ UNCHANGED <<source, plan, bucket, pins>>
  BY DEF Uninstall
<1>2. ASSUME NEW i \in Installers
      PROVE  /\ to[i] \in Install \cup {None}
             /\ to[i] # None =>
                  /\ install[i] # None /\ to[i].ext = install[i].ext /\ to[i].bytes = install[i].bytes
                  /\ to[i].from = install[i].from /\ to[i].digest = install[i].digest
                  /\ to[i].published = install[i].published
                  /\ to[i].step = "fetch" <=> install[i].step = "fetch"
  <2>1. CASE Hit(i)
    BY <2>1 DEF DInv, DistTypeOK, Install, Steps
  <2>2. CASE ~Hit(i)
    BY <2>2 DEF DInv, DistTypeOK
  <2> QED
    BY <2>1, <2>2
<1>3. to \in [Installers -> Install \cup {None}]
  <2>1. to = [i \in Installers |-> to[i]]
    OBVIOUS
  <2> HIDE DEF to
  <2> QED
    BY <1>2, <2>1
<1>4. /\ files' \in [Range(Artifact) -> Versions \cup {Absent, Empty, Torn}]
      /\ \A f \in Range(Artifact) : files'[f] \in {files[f], Absent}
  BY <1>1 DEF DInv, DistTypeOK
<1>5. Installed'
  BY <1>1, <1>4, NotVersions DEF DInv, Installed, pins
<1> HIDE DEF to
<1> QED
  BY <1>1, <1>2, <1>3, <1>4, <1>5, InstallGoesOn

LEMMA DistInvStep == DInv /\ [DistNext]_distVars => DInv'
<1> SUFFICES ASSUME DInv, [DistNext]_distVars PROVE DInv'
  OBVIOUS
<1>1. CASE UNCHANGED distVars
  <2>1. UNCHANGED <<source, plan, bucket, local>>
    BY <1>1 DEF distVars
  <2>2. DistTypeOK'
    BY <2>1 DEF DInv, DistTypeOK, CheckoutOK, source, bucket, local, pins
  <2> QED
    BY <2>1, <2>2 DEF DInv, Stocked, Ordered, CatalogServed, InstallServed, Served, Verified,
       Installed, bucket, local, pins
<1>2. CASE \E a \in Range(Artifact) : Build(a)
  BY <1>2, BuildStep
<1>3. CASE GenCatalog
  BY <1>3, GenCatalogStep
<1>4. CASE \E u \in Publishers : PutArtifact(u) \/ PutCatalog(u) \/ PublishStops(u)
  BY <1>4, PutArtifactStep, PutCatalogStep, PublishStopsStep
<1>5. CASE \E u \in Publishers, verify \in BOOLEAN : PlanPublish(u, verify)
  BY <1>5, PlanPublishStep
<1>6. CASE \E i \in Installers : FetchArtifact(i) \/ Truncate(i) \/ WriteFile(i) \/ InstallStops(i)
  BY <1>6, FetchArtifactStep, TruncateStep, WriteFileStep, InstallStopsStep
<1>7. CASE \E i \in Installers, n \in Exts, policy \in Policies : BeginInstall(i, n, policy)
  BY <1>7, BeginInstallStep
<1>8. CASE \E n \in Exts : Uninstall(n)
  BY <1>8, UninstallStep
<1> QED
  BY <1>1, <1>2, <1>3, <1>4, <1>5, <1>6, <1>7, <1>8 DEF DistNext

LEMMA DistInvariant == Spec => []DInv
<1>1. Init => DInv
  BY DistInitInv DEF Init
<1>2. [Next]_provVars => [DistNext]_distVars
  BY DEF Next, Commands, SubLoads, Loads, Load, StartSession, provVars
<1> QED
  BY <1>1, <1>2, DistInvStep, PTL DEF Spec

(* Every artifact that a catalog in the bucket names, or an install read   *)
(* there, can be fetched with the bytes of its digest, for any number of   *)
(* publishers and installers, stopped anywhere, and any builds.            *)
THEOREM CatalogsFetchable == Spec => []Fetchable
<1>1. DInv => Fetchable
  BY DEF DInv, CatalogServed, InstallServed, Fetchable
<1> QED
  BY <1>1, DistInvariant, PTL

-----------------------------------------------------------------------------
(* What a session runs.                                                    *)

(* What the artifact of a wasm provider is called is the file of its own   *)
(* extension, or no extension's. So it is in registry/index.json; where it *)
(* is not, a session runs what another extension installed.                *)
OwnNames ==
  \A n, m \in Exts : \A p \in WasmOf(n) \ Linked : Artifact[p] = ByName[m] => m = n

(* What an install that was killed, or met another, leaves is no component;*)
(* nothing in the code looks.                                              *)
TornRefused == Components \cap {Empty, Torn} = {}

Ran ==
  /\ loaded \in [Exts -> Versions \cup {None}]
  /\ \A n \in Exts : loaded[n] \in Versions => loaded[n] \in vouched[n] \cup unpinned[n]

LEMMA VouchedGrows ==
  ASSUME DInv, DistNext, NEW n \in Exts
  PROVE  vouched[n] \cup unpinned[n] \subseteq vouched'[n] \cup unpinned'[n]
<1>1. CASE UNCHANGED pins
  BY <1>1 DEF pins
<1>2. CASE \E i \in Installers : FetchArtifact(i)
  BY <1>2 DEF DInv, DistTypeOK, FetchArtifact
<1>3. UNCHANGED pins \/ \E i \in Installers : FetchArtifact(i)
  BY DEF DistNext, Build, GenCatalog, PutArtifact, PutCatalog, PublishStops, PlanPublish, Truncate,
     WriteFile, InstallStops, BeginInstall, Uninstall, local, pins
<1> QED
  BY <1>1, <1>2, <1>3

(* The file that a LOAD finds is the one of its extension.                 *)
LEMMA LoadStep ==
  ASSUME OwnNames, TornRefused, DInv, Ran, NEW n \in Exts, NEW policy, Load(n, policy)
  PROVE  Ran'
<1>1. PICK f \in Candidates(n, policy) : files[f] \in Components /\ loaded' = [loaded EXCEPT ![n] = files[f]]
  BY DEF Load
<1>2. UNCHANGED pins
  BY DEF Load, distVars, local, pins
<1>3. f \in Range(Artifact) /\ \A m \in Exts : f = ByName[m] => m = n
  <2>1. CASE f = ByName[n]
    BY <2>1, DistAssumption DEF DistAssumption
  <2>2. CASE f # ByName[n]
    <3>1. PICK p \in Resolved(session, n, suite[n], policy) : p \notin Linked /\ f = Artifact[p]
      BY <1>1, <2>2 DEF Candidates
    <3>2. p \in WasmOf(n) /\ Artifact[p] \in Range(Artifact)
      BY <3>1, ResolvedWasm, WasmProvider
    <3> QED
      BY <3>1, <3>2 DEF OwnNames
  <2> QED
    BY <2>1, <2>2
<1>4. files[f] \in Versions
  BY <1>1, <1>3, ProvAssumption DEF DInv, DistTypeOK, TornRefused, ProvAssumption
<1>5. files[f] \in vouched[n] \cup unpinned[n]
  BY <1>3, <1>4 DEF DInv, Installed, pins
<1> QED
  BY <1>1, <1>2, <1>4, <1>5 DEF Ran, pins

LEMMA RanStep ==
  ASSUME OwnNames, TornRefused, DInv, Ran, [Next]_provVars
  PROVE  Ran'
<1>1. CASE UNCHANGED provVars
  BY <1>1 DEF provVars, distVars, local, hostVars, Ran, pins
<1>2. CASE Commands
  BY <1>2, VouchedGrows DEF Commands, hostVars, Ran
<1>3. CASE SubLoads
  BY <1>3 DEF SubLoads, distVars, local, hostVars, Ran, pins
<1>4. CASE Loads
  BY <1>4, LoadStep DEF Loads
<1>5. CASE StartSession
  BY <1>5, NotVersions DEF StartSession, distVars, local, Ran, pins
<1> QED
  BY <1>1, <1>2, <1>3, <1>4, <1>5 DEF Next

(* A session runs nothing but what a catalog vouched for when it was       *)
(* installed, or what was installed without a digest; and that is what the *)
(* next LOAD would find. It rests on two things the code does not see to:  *)
(* no artifact is called like another extension's file, and a torn file is *)
(* no component.                                                           *)
THEOREM RunsVouched ==
  ASSUME OwnNames, TornRefused
  PROVE  Spec => []Vouched
<1>1. Init => Ran
  BY NotVersions DEF Init, Ran
<1>2. Spec => []Ran
  BY <1>1, RanStep, DistInvariant, PTL DEF Spec
<1>3. DInv /\ Ran => Vouched
  <2> SUFFICES ASSUME DInv, Ran, NEW n \in Exts, NEW b \in {loaded[n], files[ByName[n]]}, b \in Components
               PROVE  b \in vouched[n] \cup unpinned[n]
    BY DEF Vouched
  <2>1. ByName[n] \in Range(Artifact) /\ \A m \in Exts : ByName[n] = ByName[m] => m = n
    BY DistAssumption DEF DistAssumption
  <2>2. b \in Versions
    BY <2>1, ProvAssumption DEF DInv, DistTypeOK, TornRefused, Ran, ProvAssumption
  <2> QED
    BY <2>1, <2>2 DEF DInv, Installed, Ran, pins
<1> QED
  BY <1>2, <1>3, DistInvariant, PTL

-----------------------------------------------------------------------------
(* Sub-extensions: what a call has collected and what is done, of a        *)
(* configuration c, the set dn of those done, the registry reg and the     *)
(* store cs.                                                               *)

(* A component that is no blob is what its sub-extension has registered.   *)
Source(q, content, dn, reg) == q # Blob => q \in dn /\ content = reg[q]

Frames(cs) == [sub : Subs, next : Nat, parts : Seq(cs)]

(* An alias goes on only when its upstream is done; a plan has collected   *)
(* the components before the next one.                                     *)
FrameIn(fr, c, dn, reg) ==
  IF c.alias[fr.sub] # Missing THEN fr.next # 1 => c.alias[fr.sub] \in dn
  ELSE /\ Len(fr.parts) = fr.next - 1 /\ Len(fr.parts) <= Len(c.plan[fr.sub])
       /\ \A i \in 1..Len(fr.parts) : Source(c.plan[fr.sub][i], fr.parts[i], dn, reg)

(* What a call is waiting for.                                             *)
CallIn(fr, t, c) ==
  IF c.alias[fr.sub] # Missing THEN t = c.alias[fr.sub]
  ELSE fr.next \in 1..Len(c.plan[fr.sub]) /\ c.plan[fr.sub][fr.next] = t

CallsIn(q, c, dn, reg, cs) ==
  /\ q \in Seq(Frames(cs))
  /\ \A k \in 1..Len(q) : FrameIn(q[k], c, dn, reg)
  /\ \A k \in 1..(Len(q) - 1) : CallIn(q[k], q[k + 1].sub, c)

(* An alias is done after its upstream; any other is registered, under the *)
(* digest that is cached for it, and derived from what is done.            *)
SettledIn(s, c, dn, reg, dig, cs) ==
  IF c.alias[s] # Missing THEN c.alias[s] \in dn
  ELSE /\ reg[s] # Missing /\ reg[s] \in cs /\ dig[s] = reg[s]
       /\ reg[s][1] = "composed" =>
            \A i \in DOMAIN reg[s][3] : Source(c.plan[s][i], reg[s][3][i], dn, reg)

SubTypeOK ==
  /\ config \in Configs
  /\ registry = [s \in Subs |-> registry[s]] /\ digests = [s \in Subs |-> digests[s]]
  /\ Own \in cas /\ done \subseteq Subs

Calls == CallsIn(stack, config, done, registry, cas)
Settled == \A s \in done : SettledIn(s, config, done, registry, digests, cas)
Ended == \A s \in done : \E r \in Reached(s) : config.alias[r] = Missing
Undigested == \A s \in Subs : config.alias[s] # Missing => digests[s] = Missing
SInv == SubTypeOK /\ Calls /\ Settled /\ Ended /\ Undigested /\ bridged \subseteq done

(* Nothing that the program stores is what stands for nothing.             *)
MissingApart == \A s, parts : PrebuiltOf(s) # Missing /\ ComposedOf(s, parts) # Missing

LEMMA ConfigType ==
  ASSUME NEW c \in Configs
  PROVE  /\ \A s \in Subs : c.alias[s] \in Subs \cup {Missing}
         /\ \A s \in Subs : c.plan[s] \in Seq(Subs \cup {Blob, Dangling})
  BY SubAssumption DEF SubAssumption

(* What is done and registered stays so while more is done.                *)
LEMMA CallsGrow ==
  ASSUME NEW q, NEW c, NEW dn, NEW dm, NEW reg, NEW new, NEW cs, NEW ct,
         dn \subseteq dm, cs \subseteq ct, \A s \in dn : new[s] = reg[s], CallsIn(q, c, dn, reg, cs)
  PROVE  CallsIn(q, c, dm, new, ct)
<1>1. q \in Seq(Frames(cs)) /\ Len(q) \in Nat /\ DOMAIN q = 1..Len(q)
  BY DEF CallsIn
<1>2. Frames(cs) \subseteq Frames(ct)
  BY DEF Frames
<1>3. q \in Seq(Frames(ct))
  <2>1. \A k \in 1..Len(q) : q[k] \in Frames(ct)
    BY <1>1, <1>2
  <2> QED
    BY <1>1, <2>1
<1>4. ASSUME NEW k \in 1..Len(q) PROVE FrameIn(q[k], c, dm, new)
  <2>1. FrameIn(q[k], c, dn, reg)
    BY DEF CallsIn
  <2> QED
    BY <2>1 DEF FrameIn, Source
<1> QED
  BY <1>3, <1>4 DEF CallsIn

LEMMA SettledGrows ==
  ASSUME NEW s, NEW c, NEW dn, NEW dm, NEW reg, NEW new, NEW dig, NEW known, NEW cs, NEW ct,
         dn \subseteq dm, cs \subseteq ct, \A r \in dn : new[r] = reg[r] /\ known[r] = dig[r],
         s \in dn, SettledIn(s, c, dn, reg, dig, cs)
  PROVE  SettledIn(s, c, dm, new, known, ct)
<1>1. new[s] = reg[s] /\ known[s] = dig[s]
  OBVIOUS
<1>2. CASE c.alias[s] # Missing
  BY <1>2 DEF SettledIn
<1>3. CASE c.alias[s] = Missing
  <2>1. /\ reg[s] # Missing /\ reg[s] \in cs /\ dig[s] = reg[s]
        /\ reg[s][1] = "composed" =>
             \A i \in DOMAIN reg[s][3] : Source(c.plan[s][i], reg[s][3][i], dn, reg)
    BY <1>3 DEF SettledIn
  <2>2. \A r, content : Source(r, content, dn, reg) => Source(r, content, dm, new)
    BY DEF Source
  <2> QED
    BY <1>1, <1>3, <2>1, <2>2 DEF SettledIn
<1> QED
  BY <1>2, <1>3

(* The calls below one, with it replaced by what it has become, and with   *)
(* another one on top.                                                     *)
LEMMA CallsBelow ==
  ASSUME NEW c, NEW dn, NEW reg, NEW cs, NEW q, CallsIn(q, c, dn, reg, cs), q # <<>>
  PROVE  /\ CallsIn(SubSeq(q, 1, Len(q) - 1), c, dn, reg, cs)
         /\ Len(SubSeq(q, 1, Len(q) - 1)) = Len(q) - 1
         /\ \A k \in 1..(Len(q) - 1) : SubSeq(q, 1, Len(q) - 1)[k] = q[k]
<1> DEFINE p == SubSeq(q, 1, Len(q) - 1)
<1>1. q \in Seq(Frames(cs)) /\ Len(q) \in Nat \ {0}
  BY DEF CallsIn
<1>2. /\ p \in Seq(Frames(cs)) /\ Len(p) = Len(q) - 1
      /\ \A k \in 1..(Len(q) - 1) : p[k] = q[k]
  BY <1>1, AllButLast DEF p
<1> HIDE DEF p
<1>3. \A k \in 1..Len(p) : FrameIn(p[k], c, dn, reg)
  BY <1>1, <1>2 DEF CallsIn
<1>4. ASSUME NEW k \in 1..(Len(p) - 1) PROVE CallIn(p[k], p[k + 1].sub, c)
  <2>1. k \in 1..(Len(q) - 1) /\ k + 1 \in 1..(Len(q) - 1)
    BY <1>1, <1>2
  <2> QED
    BY <1>2, <2>1 DEF CallsIn
<1>5. CallsIn(p, c, dn, reg, cs)
  BY <1>2, <1>3, <1>4 DEF CallsIn
<1> QED
  BY <1>2, <1>5 DEF p

LEMMA CallsPush ==
  ASSUME NEW c, NEW dn, NEW reg, NEW cs, NEW q, CallsIn(q, c, dn, reg, cs),
         NEW fr \in Frames(cs), FrameIn(fr, c, dn, reg), q # <<>> => CallIn(q[Len(q)], fr.sub, c)
  PROVE  CallsIn(Append(q, fr), c, dn, reg, cs)
<1> DEFINE p == Append(q, fr)
<1>1. q \in Seq(Frames(cs)) /\ Len(q) \in Nat
  BY DEF CallsIn
<1>2. /\ p \in Seq(Frames(cs)) /\ Len(p) = Len(q) + 1 /\ p[Len(q) + 1] = fr
      /\ \A k \in 1..Len(q) : p[k] = q[k]
  BY <1>1
<1> HIDE DEF p
<1>3. ASSUME NEW k \in 1..Len(p) PROVE FrameIn(p[k], c, dn, reg)
  <2>1. k \in 1..Len(q) \/ k = Len(q) + 1
    BY <1>1, <1>2
  <2> QED
    BY <1>2, <2>1 DEF CallsIn
<1>4. ASSUME NEW k \in 1..(Len(p) - 1) PROVE CallIn(p[k], p[k + 1].sub, c)
  <2>1. k \in 1..Len(q) /\ p[k] = q[k]
    BY <1>1, <1>2
  <2>2. CASE k = Len(q)
    BY <1>1, <1>2, <2>1, <2>2
  <2>3. CASE k # Len(q)
    <3>1. k \in 1..(Len(q) - 1) /\ k + 1 \in 1..Len(q)
      BY <1>1, <2>1, <2>3
    <3> QED
      BY <1>2, <2>1, <3>1 DEF CallsIn
  <2> QED
    BY <2>2, <2>3
<1> QED
  BY <1>2, <1>3, <1>4 DEF CallsIn, p

LEMMA CallsTurn ==
  ASSUME NEW c, NEW dn, NEW reg, NEW cs, NEW q, CallsIn(q, c, dn, reg, cs), q # <<>>,
         NEW fr \in Frames(cs), FrameIn(fr, c, dn, reg), fr.sub = q[Len(q)].sub
  PROVE  CallsIn(Append(SubSeq(q, 1, Len(q) - 1), fr), c, dn, reg, cs)
<1> DEFINE p == SubSeq(q, 1, Len(q) - 1)
<1>1. /\ q \in Seq(Frames(cs)) /\ Len(q) \in Nat \ {0}
      /\ CallsIn(p, c, dn, reg, cs) /\ Len(p) = Len(q) - 1
      /\ \A k \in 1..(Len(q) - 1) : p[k] = q[k]
  <2>1. q \in Seq(Frames(cs)) /\ Len(q) \in Nat \ {0}
    BY DEF CallsIn
  <2> QED
    BY <2>1, CallsBelow
<1> HIDE DEF p
<1>2. p # <<>> => CallIn(p[Len(p)], fr.sub, c)
  <2> SUFFICES ASSUME p # <<>> PROVE CallIn(p[Len(p)], fr.sub, c)
    OBVIOUS
  <2>1. Len(p) \in 1..(Len(q) - 1) /\ Len(p) + 1 = Len(q)
    BY <1>1 DEF CallsIn
  <2>2. CallIn(q[Len(p)], q[Len(p) + 1].sub, c)
    BY <2>1 DEF CallsIn
  <2> QED
    BY <1>1, <2>1, <2>2
<1>3. CallsIn(Append(p, fr), c, dn, reg, cs)
  BY <1>1, <1>2, CallsPush
<1> QED
  BY <1>3 DEF p

LEMMA SplicedType ==
  ASSUME NEW cs, NEW fr \in Frames(cs), NEW content \in cs
  PROVE  /\ Spliced(fr, content) \in Frames(cs) /\ Spliced(fr, content).sub = fr.sub
         /\ Spliced(fr, content).next = fr.next + 1
         /\ Spliced(fr, content).parts = Append(fr.parts, content)
<1>1. fr.sub \in Subs /\ fr.next + 1 \in Nat /\ Append(fr.parts, content) \in Seq(cs)
  BY DEF Frames
<1>2. /\ Spliced(fr, content).sub = fr.sub /\ Spliced(fr, content).next = fr.next + 1
      /\ Spliced(fr, content).parts = Append(fr.parts, content)
  BY DEF Spliced, Frames
<1>3. Spliced(fr, content) \in Frames(cs)
  BY <1>1 DEF Spliced, Frames
<1> QED
  BY <1>2, <1>3

(* What a call returns to goes on with what is done by then.               *)
LEMMA ReturnCalls ==
  ASSUME SInv, stack # <<>>,
         NEW dm, NEW new, NEW known, NEW ct,
         done \subseteq dm, cas \subseteq ct, \A s \in done : new[s] = registry[s],
         Top.sub \in dm, known[Top.sub] # Missing => known[Top.sub] = new[Top.sub] /\ new[Top.sub] \in ct,
         Return(known)
  PROVE  CallsIn(stack', config, dm, new, ct) /\ bridged' \subseteq dm
<1>1. CallsIn(stack, config, dm, new, ct)
  BY CallsGrow DEF SInv, Calls
<1>2. /\ stack \in Seq(Frames(ct)) /\ Len(stack) \in Nat \ {0} /\ Top = stack[Len(stack)]
      /\ Top.sub \in Subs
  <2>1. stack \in Seq(Frames(ct)) /\ Len(stack) \in Nat \ {0} /\ Top = stack[Len(stack)]
    BY <1>1 DEF CallsIn, Top
  <2>2. Top \in Frames(ct)
    BY <2>1
  <2> QED
    BY <2>1, <2>2 DEF Frames
<1>3. CallsIn(<<>>, config, dm, new, ct)
  <2>1. <<>> \in Seq(Frames(ct)) /\ Len(<<>>) = 0
    OBVIOUS
  <2> QED
    BY <2>1 DEF CallsIn
<1>4. CASE ~(Len(stack) > 1)
  BY <1>3, <1>4 DEF Return, SInv
<1>5. CASE Len(stack) > 1
  <2> DEFINE k == Len(stack) - 1
             fr == Below[Len(Below)]
             rest == SubSeq(Below, 1, Len(Below) - 1)
             t == Top.sub
  <2>1. stack' = Caller(known) /\ UNCHANGED bridged
    BY <1>5 DEF Return
  <2>2. /\ CallsIn(Below, config, dm, new, ct) /\ Len(Below) = k
        /\ \A i \in 1..k : Below[i] = stack[i]
    <3>1. Below = SubSeq(stack, 1, Len(stack) - 1)
      BY DEF Below
    <3> QED
      BY <1>1, <1>2, <3>1, CallsBelow
  <2>3. k \in 1..Len(stack) /\ k + 1 = Len(stack) /\ k \in 1..(Len(stack) - 1) /\ k \in Nat \ {0}
    BY <1>2, <1>5
  <2>4. fr = stack[k] /\ fr \in Frames(ct) /\ fr.sub \in Subs /\ fr.next \in Nat /\ fr.parts \in Seq(ct)
    <3>1. fr = stack[k] /\ fr \in Frames(ct)
      BY <1>2, <2>2, <2>3
    <3> QED
      BY <3>1 DEF Frames
  <2>5. FrameIn(fr, config, dm, new) /\ CallIn(fr, t, config)
    BY <1>1, <1>2, <2>3, <2>4 DEF CallsIn
  <2> HIDE DEF fr, k
  <2>6. CASE config.alias[fr.sub] # Missing
    <3> DEFINE f2 == [fr EXCEPT !.next = 2]
    <3>1. f2 \in Frames(ct) /\ f2.sub = fr.sub
      BY <2>4 DEF Frames
    <3>2. config.alias[f2.sub] \in dm
      BY <2>5, <2>6, <3>1 DEF CallIn
    <3> HIDE DEF f2
    <3>3. FrameIn(f2, config, dm, new)
      BY <2>6, <3>1, <3>2 DEF FrameIn
    <3>4. stack' = Append(rest, f2)
      BY <2>1, <2>6 DEF Caller, fr, f2
    <3> QED
      BY <2>1, <2>2, <2>3, <2>4, <3>1, <3>3, <3>4, CallsTurn DEF SInv, fr
  <2>7. CASE config.alias[fr.sub] = Missing /\ known[t] = Missing
    <3>1. stack' = <<>>
      BY <2>1, <2>7 DEF Caller, fr
    <3> QED
      BY <1>3, <2>1, <3>1 DEF SInv
  <2>8. CASE config.alias[fr.sub] = Missing /\ known[t] # Missing
    <3> DEFINE f2 == Spliced(fr, known[t])
    <3>1. known[t] \in ct /\ known[t] = new[t]
      BY <2>8
    <3>2. /\ f2 \in Frames(ct) /\ f2.sub = fr.sub /\ f2.next = fr.next + 1
          /\ f2.parts = Append(fr.parts, known[t])
      <4>1. \A content \in ct :
              /\ Spliced(fr, content) \in Frames(ct) /\ Spliced(fr, content).sub = fr.sub
              /\ Spliced(fr, content).next = fr.next + 1
              /\ Spliced(fr, content).parts = Append(fr.parts, content)
        BY <2>4, SplicedType
      <4> QED
        BY <3>1, <4>1
    <3>3. /\ Len(fr.parts) = fr.next - 1 /\ fr.next \in 1..Len(config.plan[fr.sub])
          /\ config.plan[fr.sub][fr.next] = t
          /\ \A i \in 1..Len(fr.parts) : Source(config.plan[fr.sub][i], fr.parts[i], dm, new)
      BY <2>5, <2>8 DEF FrameIn, CallIn
    <3>4. config.plan[fr.sub] \in Seq(Subs \cup {Blob, Dangling})
      BY <2>4, ConfigType DEF SInv, SubTypeOK
    <3> HIDE DEF f2
    <3>5. FrameIn(f2, config, dm, new)
      <4>1. Len(f2.parts) = f2.next - 1 /\ Len(f2.parts) = fr.next
        BY <2>4, <3>1, <3>2, <3>3
      <4>2. ASSUME NEW i \in 1..Len(f2.parts)
            PROVE  Source(config.plan[f2.sub][i], f2.parts[i], dm, new)
        <5>1. CASE i = fr.next
          <6>1. f2.parts[i] = known[t]
            BY <2>4, <3>1, <3>2, <3>3, <5>1
          <6> QED
            BY <3>1, <3>2, <3>3, <5>1, <6>1 DEF Source
        <5>2. CASE i # fr.next
          <6>1. i \in 1..Len(fr.parts) /\ f2.parts[i] = fr.parts[i]
            BY <2>4, <3>1, <3>2, <3>3, <4>1, <5>2
          <6> QED
            BY <3>2, <3>3, <6>1
        <5> QED
          BY <5>1, <5>2
      <4>3. Len(f2.parts) <= Len(config.plan[f2.sub])
        BY <3>2, <3>3, <3>4, <4>1
      <4> QED
        BY <2>8, <3>2, <4>1, <4>2, <4>3 DEF FrameIn
    <3>6. stack' = Append(rest, f2)
      BY <2>1, <2>8 DEF Caller, fr, f2
    <3> QED
      BY <2>1, <2>2, <2>3, <2>4, <3>2, <3>5, <3>6, CallsTurn DEF SInv, fr
  <2> QED
    BY <2>6, <2>7, <2>8
<1> QED
  BY <1>4, <1>5

LEMMA ReachedSelf == \A s \in Subs : s \in Reached(s)
  BY DEF Reached

LEMMA ReachedOn ==
  ASSUME NEW s \in Subs, config.alias[s] # Missing, config.alias[s] \in Subs,
         NEW x \in Reached(config.alias[s])
  PROVE  x \in Reached(s)
  BY DEF Reached

LEMMA TopType ==
  ASSUME SInv, NEW s \in Subs, Calling(s)
  PROVE  /\ stack # <<>> /\ Top = stack[Len(stack)] /\ Top.sub = s /\ Top \in Frames(cas)
         /\ FrameIn(Top, config, done, registry)
         /\ CallsIn(Below, config, done, registry, cas)
         /\ config.alias[s] \in Subs \cup {Missing}
         /\ config.plan[s] \in Seq(Subs \cup {Blob, Dangling})
<1>1. stack \in Seq(Frames(cas)) /\ stack # <<>> /\ Top.sub = s
  BY DEF SInv, Calls, CallsIn, Calling
<1>2. Len(stack) \in 1..Len(stack) /\ stack[Len(stack)] \in Frames(cas)
  BY <1>1
<1>3. Top = stack[Len(stack)] /\ Below = SubSeq(stack, 1, Len(stack) - 1)
  BY DEF Top, Below
<1>4. CallsIn(Below, config, done, registry, cas)
  BY <1>1, <1>3, CallsBelow DEF SInv, Calls
<1> QED
  BY <1>1, <1>2, <1>3, <1>4, ConfigType DEF SInv, Calls, CallsIn, SubTypeOK

(* A sub-extension is done and its call returns.                           *)
LEMMA DoneStep ==
  ASSUME SInv, NEW s \in Subs, Calling(s), s \notin done, done' = done \cup {s},
         UNCHANGED config, cas \subseteq cas',
         registry' = [r \in Subs |-> registry'[r]], digests' = [r \in Subs |-> digests'[r]],
         \A r \in Subs \ {s} : registry'[r] = registry[r] /\ digests'[r] = digests[r],
         SettledIn(s, config, done', registry', digests', cas'),
         \E r \in Reached(s) : config.alias[r] = Missing,
         config.alias[s] # Missing => digests'[s] = Missing,
         NEW known, known = digests', Return(known)
  PROVE  SInv'
<1>1. SubTypeOK'
  BY DEF SInv, SubTypeOK
<1>2. done \subseteq Subs /\ done \subseteq done' /\ \A r \in done : registry'[r] = registry[r] /\ digests'[r] = digests[r]
  BY DEF SInv, SubTypeOK
<1>3. CallsIn(stack', config, done', registry', cas') /\ bridged' \subseteq done'
  <2>1. stack # <<>> /\ Top.sub = s
    BY DEF Calling
  <2>2. known[s] # Missing => known[s] = registry'[s] /\ registry'[s] \in cas'
    BY DEF SettledIn
  <2>3. s \in done'
    OBVIOUS
  <2>4. Top.sub \in done'
    BY <2>1, <2>3
  <2>5. known[Top.sub] # Missing => known[Top.sub] = registry'[Top.sub] /\ registry'[Top.sub] \in cas'
    BY <2>1, <2>2
  <2>6. \A r \in done : registry'[r] = registry[r]
    BY <1>2
  <2> DEFINE dm == done'
             new == registry'
             ct == cas'
  <2>7. /\ done \subseteq dm /\ cas \subseteq ct /\ Top.sub \in dm
        /\ \A r \in done : new[r] = registry[r]
        /\ known[Top.sub] # Missing => known[Top.sub] = new[Top.sub] /\ new[Top.sub] \in ct
    BY <1>2, <2>4, <2>5, <2>6
  <2> HIDE DEF dm, new, ct
  <2>8. CallsIn(stack', config, dm, new, ct) /\ bridged' \subseteq dm
    BY <2>1, <2>7, ReturnCalls
  <2> QED
    BY <2>8 DEF dm, new, ct
<1>4. Settled'
  <2> SUFFICES ASSUME NEW r \in done'
               PROVE  SettledIn(r, config, done', registry', digests', cas')
    BY DEF Settled
  <2>1. CASE r = s
    BY <2>1
  <2>2. CASE r # s
    <3>1. r \in done /\ SettledIn(r, config, done, registry, digests, cas)
      BY <2>2 DEF SInv, Settled
    <3> QED
      BY <1>2, <3>1, SettledGrows
  <2> QED
    BY <2>1, <2>2
<1>5. Ended'
  BY DEF SInv, Ended, Reached
<1>6. Undigested'
  BY DEF SInv, Undigested
<1> QED
  BY <1>1, <1>3, <1>4, <1>5, <1>6 DEF SInv, Calls

(* Everything as it was but for the calls.                                 *)
LEMMA CallStep ==
  ASSUME SInv, UNCHANGED <<config, registry, cas, digests, done>>,
         CallsIn(stack', config, done, registry, cas), bridged' \subseteq done
  PROVE  SInv'
<1>1. SubTypeOK' /\ Settled' /\ Undigested'
  BY DEF SInv, SubTypeOK, Settled, Undigested
<1>2. Ended'
  BY DEF SInv, Ended, Reached
<1> QED
  BY <1>1, <1>2 DEF SInv, Calls

LEMMA NoCalls == \A c, dn, reg, cs : CallsIn(<<>>, c, dn, reg, cs)
<1>1. Len(<<>>) = 0 /\ \A S : <<>> \in Seq(S)
  OBVIOUS
<1> QED
  BY <1>1 DEF CallsIn

LEMMA FrameStarts ==
  ASSUME SInv, NEW s \in Subs
  PROVE  Frame(s) \in Frames(cas) /\ FrameIn(Frame(s), config, done, registry) /\ Frame(s).sub = s
<1>1. config.plan[s] \in Seq(Subs \cup {Blob, Dangling})
  BY ConfigType DEF SInv, SubTypeOK
<1>2. Len(<<>>) = 0 /\ <<>> \in Seq(cas) /\ Len(config.plan[s]) \in Nat
  BY <1>1
<1> QED
  BY <1>2 DEF Frame, Frames, FrameIn

LEMMA StartLoadStep == ASSUME SInv, NEW s \in Subs, StartLoad(s) PROVE SInv'
<1>1. /\ stack = <<>> /\ stack' = <<Frame(s)>>
      /\ UNCHANGED <<config, registry, cas, digests, done, bridged>>
  BY DEF StartLoad
<1>2. stack' = Append(stack, Frame(s))
  BY <1>1
<1>3. CallsIn(stack', config, done, registry, cas)
  BY <1>1, <1>2, FrameStarts, CallsPush DEF SInv, Calls
<1> QED
  BY <1>1, <1>3, CallStep DEF SInv

LEMMA AlreadyDoneStep == ASSUME SInv, NEW s \in Subs, AlreadyDone(s) PROVE SInv'
<1>1. /\ stack # <<>> /\ Top.sub = s /\ s \in done /\ Return(digests)
      /\ UNCHANGED <<config, registry, cas, digests, done>>
  BY DEF AlreadyDone, Calling
<1>2. digests[s] # Missing => digests[s] = registry[s] /\ registry[s] \in cas
  BY <1>1 DEF SInv, Settled, SettledIn, Undigested
<1>3. CallsIn(stack', config, done, registry, cas) /\ bridged' \subseteq done
  BY <1>1, <1>2, ReturnCalls
<1> QED
  BY <1>1, <1>3, CallStep

LEMMA FollowAliasStep == ASSUME SInv, NEW s \in Subs, FollowAlias(s) PROVE SInv'
<1>1. /\ Calling(s) /\ s \notin done /\ config.alias[s] # Missing
      /\ UNCHANGED <<config, registry, cas, digests>>
  BY DEF FollowAlias
<1>2. config.alias[s] \in Subs /\ Top.sub = s /\ stack # <<>> /\ Top = stack[Len(stack)]
  BY <1>1, TopType
<1>3. CASE Top.next = 1
  <2>1. stack' = Append(stack, Frame(config.alias[s])) /\ UNCHANGED <<done, bridged>>
    BY <1>3 DEF FollowAlias
  <2>2. CallIn(Top, Frame(config.alias[s]).sub, config)
    BY <1>1, <1>2 DEF CallIn, Frame
  <2>3. CallsIn(stack', config, done, registry, cas)
    BY <1>2, <2>1, <2>2, FrameStarts, CallsPush DEF SInv, Calls
  <2> QED
    BY <1>1, <2>1, <2>3, CallStep DEF SInv
<1>4. CASE Top.next # 1
  <2>1. done' = done \cup {s} /\ Return(digests)
    BY <1>4 DEF FollowAlias
  <2>2. config.alias[s] \in done
    BY <1>1, <1>2, <1>4, TopType DEF FrameIn
  <2>3. SettledIn(s, config, done', registry', digests', cas')
    BY <1>1, <2>1, <2>2 DEF SettledIn
  <2>4. \E r \in Reached(s) : config.alias[r] = Missing
    <3>1. PICK r \in Reached(config.alias[s]) : config.alias[r] = Missing
      BY <2>2 DEF SInv, Ended
    <3> QED
      BY <1>1, <1>2, <3>1, ReachedOn
  <2>5. digests'[s] = Missing
    BY <1>1 DEF SInv, Undigested
  <2>6. /\ registry' = [r \in Subs |-> registry'[r]] /\ digests' = [r \in Subs |-> digests'[r]]
        /\ \A r \in Subs \ {s} : registry'[r] = registry[r] /\ digests'[r] = digests[r]
    BY <1>1 DEF SInv, SubTypeOK
  <2> QED
    BY <1>1, <2>1, <2>3, <2>4, <2>5, <2>6, DoneStep
<1> QED
  BY <1>3, <1>4

LEMMA UsePrebuiltStep ==
  ASSUME MissingApart, SInv, NEW s \in Subs, UsePrebuilt(s)
  PROVE  SInv'
<1> DEFINE content == PrebuiltOf(s)
           known == [digests EXCEPT ![s] = content]
<1>1. /\ Calling(s) /\ s \notin done /\ config.alias[s] = Missing
      /\ registry' = [registry EXCEPT ![s] = content] /\ digests' = known
      /\ cas' = cas \cup {content} /\ done' = done \cup {s} /\ Return(known) /\ UNCHANGED config
  BY DEF UsePrebuilt
<1>2. content # Missing /\ content[1] # "composed"
  BY DEF MissingApart, PrebuiltOf
<1>3. /\ registry' = [r \in Subs |-> registry'[r]] /\ digests' = [r \in Subs |-> digests'[r]]
      /\ registry'[s] = content /\ digests'[s] = content
      /\ \A r \in Subs \ {s} : registry'[r] = registry[r] /\ digests'[r] = digests[r]
  BY <1>1 DEF SInv, SubTypeOK
<1> HIDE DEF content, known
<1>4. SettledIn(s, config, done', registry', digests', cas')
  BY <1>1, <1>2, <1>3 DEF SettledIn
<1> QED
  BY <1>1, <1>3, <1>4, ReachedSelf, DoneStep

(* A failed call leaves nothing behind that a later one would take for     *)
(* done.                                                                   *)
LEMMA FailStep ==
  ASSUME SInv, NEW s \in Subs, s \notin done, config.alias[s] = Missing,
         stack' = <<>>, cas \subseteq cas', UNCHANGED <<config, done, bridged>>,
         registry' = [r \in Subs |-> registry'[r]], digests' = [r \in Subs |-> digests'[r]],
         \A r \in Subs \ {s} : registry'[r] = registry[r] /\ digests'[r] = digests[r]
  PROVE  SInv'
<1>1. SubTypeOK' /\ Undigested'
  BY DEF SInv, SubTypeOK, Undigested
<1>2. done \subseteq Subs /\ \A r \in done : registry'[r] = registry[r] /\ digests'[r] = digests[r]
  BY DEF SInv, SubTypeOK
<1>3. ASSUME NEW r \in done PROVE SettledIn(r, config, done, registry', digests', cas')
  <2>1. SettledIn(r, config, done, registry, digests, cas)
    BY DEF SInv, Settled
  <2> QED
    BY <1>2, <2>1, SettledGrows
<1>4. Settled'
  BY <1>3 DEF Settled
<1>5. Ended'
  BY DEF SInv, Ended, Reached
<1>6. Calls'
  BY NoCalls DEF Calls
<1> QED
  BY <1>1, <1>4, <1>5, <1>6 DEF SInv

LEMMA PrebuiltFailsStep == ASSUME SInv, NEW s \in Subs, PrebuiltFails(s) PROVE SInv'
<1>1. /\ s \notin done /\ config.alias[s] = Missing /\ stack' = <<>>
      /\ registry' \in {registry, [registry EXCEPT ![s] = PrebuiltOf(s)]}
      /\ UNCHANGED <<config, cas, digests, done, bridged>>
  BY DEF PrebuiltFails, Unwind
<1>2. /\ registry' = [r \in Subs |-> registry'[r]] /\ digests' = [r \in Subs |-> digests'[r]]
      /\ \A r \in Subs \ {s} : registry'[r] = registry[r] /\ digests'[r] = digests[r]
  BY <1>1 DEF SInv, SubTypeOK
<1> QED
  BY <1>1, <1>2, FailStep

LEMMA ResolveComponentStep == ASSUME SInv, NEW s \in Subs, ResolveComponent(s) PROVE SInv'
<1>1. /\ Calling(s) /\ s \notin done /\ config.alias[s] = Missing
      /\ Top.next <= Len(config.plan[s])
      /\ UNCHANGED <<config, registry, cas, digests, done, bridged>>
  BY DEF ResolveComponent, Planned
<1>2. /\ stack # <<>> /\ Top = stack[Len(stack)] /\ Top.sub = s /\ Top \in Frames(cas)
      /\ FrameIn(Top, config, done, registry)
      /\ config.plan[s] \in Seq(Subs \cup {Blob, Dangling})
      /\ Below = SubSeq(stack, 1, Len(stack) - 1)
  BY <1>1, TopType DEF Below
<1>3. /\ Len(Top.parts) = Top.next - 1 /\ Top.next \in Nat /\ Top.parts \in Seq(cas)
      /\ \A i \in 1..Len(Top.parts) : Source(config.plan[s][i], Top.parts[i], done, registry)
  BY <1>1, <1>2 DEF FrameIn, Frames
<1>4. Top.next \in 1..Len(config.plan[s]) /\ Component(s) \in Subs \cup {Blob, Dangling}
  <2>1. Len(Top.parts) \in Nat /\ Len(config.plan[s]) \in Nat
    BY <1>2, <1>3
  <2>2. Top.next \in 1..Len(config.plan[s])
    BY <1>1, <1>3, <2>1
  <2> QED
    BY <1>2, <2>2 DEF Component
<1>5. CASE Component(s) = Blob
  <2> DEFINE fr == Spliced(Top, Own)
  <2>1. stack' = Append(Below, fr)
    BY <1>5 DEF ResolveComponent
  <2>2. /\ fr \in Frames(cas) /\ fr.sub = s /\ fr.next = Top.next + 1
        /\ fr.parts = Append(Top.parts, Own)
    BY <1>2, SplicedType DEF SInv, SubTypeOK
  <2> HIDE DEF fr
  <2>3. FrameIn(fr, config, done, registry)
    <3>1. Len(fr.parts) = fr.next - 1 /\ Len(fr.parts) = Top.next
      BY <1>3, <2>2 DEF SInv, SubTypeOK
    <3>2. ASSUME NEW i \in 1..Len(fr.parts)
          PROVE  Source(config.plan[s][i], fr.parts[i], done, registry)
      <4>1. CASE i = Top.next
        BY <1>5, <4>1 DEF Component, Source
      <4>2. CASE i # Top.next
        <5>1. i \in 1..Len(Top.parts) /\ fr.parts[i] = Top.parts[i]
          BY <1>3, <2>2, <3>1, <4>2 DEF SInv, SubTypeOK
        <5> QED
          BY <1>3, <5>1
      <4> QED
        BY <4>1, <4>2
    <3> QED
      BY <1>1, <1>4, <2>2, <3>1, <3>2 DEF FrameIn
  <2>4. CallsIn(stack', config, done, registry, cas)
    BY <1>2, <2>1, <2>2, <2>3, CallsTurn DEF SInv, Calls
  <2> QED
    BY <1>1, <2>4, CallStep DEF SInv
<1>6. CASE Component(s) = Dangling
  <2>1. stack' = <<>>
    BY <1>6 DEF ResolveComponent, Unwind, Blob, Dangling
  <2> QED
    BY <1>1, <2>1, NoCalls, CallStep DEF SInv
<1>7. CASE Component(s) \in Subs
  <2>1. stack' = Append(stack, Frame(Component(s)))
    BY <1>7, SubAssumption DEF ResolveComponent, SubAssumption
  <2>2. CallIn(Top, Component(s), config)
    BY <1>1, <1>2, <1>4 DEF CallIn, Component
  <2>3. CallsIn(stack', config, done, registry, cas)
    BY <1>2, <1>7, <2>1, <2>2, FrameStarts, CallsPush DEF SInv, Calls
  <2> QED
    BY <1>1, <2>3, CallStep DEF SInv
<1> QED
  BY <1>4, <1>5, <1>6, <1>7

LEMMA ComposeStep ==
  ASSUME MissingApart, SInv, NEW s \in Subs, Compose(s)
  PROVE  SInv'
<1> DEFINE content == ComposedOf(s, Top.parts)
           known == [digests EXCEPT ![s] = content]
<1>1. /\ Calling(s) /\ s \notin done /\ config.alias[s] = Missing
      /\ registry' = [registry EXCEPT ![s] = content] /\ digests' = known
      /\ cas' = cas \cup {content} /\ done' = done \cup {s} /\ Return(known) /\ UNCHANGED config
  BY DEF Compose, Complete, Planned
<1>2. content # Missing /\ content[3] = Top.parts
  BY DEF MissingApart, ComposedOf
<1>3. /\ registry' = [r \in Subs |-> registry'[r]] /\ digests' = [r \in Subs |-> digests'[r]]
      /\ registry'[s] = content /\ digests'[s] = content
      /\ \A r \in Subs \ {s} : registry'[r] = registry[r] /\ digests'[r] = digests[r]
  BY <1>1 DEF SInv, SubTypeOK
<1>4. \A i \in DOMAIN Top.parts : Source(config.plan[s][i], Top.parts[i], done, registry)
  <2>1. /\ Top.sub = s /\ Top.parts \in Seq(cas)
        /\ \A i \in 1..Len(Top.parts) : Source(config.plan[s][i], Top.parts[i], done, registry)
    BY <1>1, TopType DEF FrameIn, Frames
  <2> QED
    BY <2>1
<1> HIDE DEF content, known
<1>5. \A i \in DOMAIN Top.parts : Source(config.plan[s][i], Top.parts[i], done', registry')
  BY <1>1, <1>3, <1>4 DEF Source, SInv, SubTypeOK
<1>6. SettledIn(s, config, done', registry', digests', cas')
  BY <1>1, <1>2, <1>3, <1>5 DEF SettledIn
<1> QED
  BY <1>1, <1>3, <1>6, ReachedSelf, DoneStep

LEMMA ComposeFailsStep == ASSUME SInv, NEW s \in Subs, ComposeFails(s) PROVE SInv'
<1>1. /\ s \notin done /\ config.alias[s] = Missing /\ stack' = <<>> /\ cas \subseteq cas'
      /\ digests' \in {digests, [digests EXCEPT ![s] = ComposedOf(s, Top.parts)]}
      /\ UNCHANGED <<config, registry, done, bridged>>
  BY DEF ComposeFails, Planned, Complete, Unwind
<1>2. /\ registry' = [r \in Subs |-> registry'[r]] /\ digests' = [r \in Subs |-> digests'[r]]
      /\ \A r \in Subs \ {s} : registry'[r] = registry[r] /\ digests'[r] = digests[r]
  BY <1>1 DEF SInv, SubTypeOK
<1> QED
  BY <1>1, <1>2, FailStep

LEMMA SubStepKeeps ==
  ASSUME MissingApart, SInv, NEW s \in Subs, SubStep(s)
  PROVE  SInv'
  BY StartLoadStep, AlreadyDoneStep, FollowAliasStep, UsePrebuiltStep, PrebuiltFailsStep,
     ResolveComponentStep, ComposeStep, ComposeFailsStep DEF SubStep

LEMMA SubStays == ASSUME SInv, UNCHANGED subVars PROVE SInv'
<1>1. UNCHANGED <<config, registry, cas, digests, done, stack, bridged>>
  BY DEF subVars
<1> QED
  BY <1>1, CallStep DEF SInv, Calls

(* A new session has an empty registry and nothing done.                   *)
LEMMA SessionStarts == ASSUME SInv, StartSession PROVE SInv'
<1>1. /\ registry' = [s \in Subs |-> Missing] /\ digests' = [s \in Subs |-> Missing]
      /\ done' = {} /\ bridged' = {} /\ stack' = <<>>
      /\ UNCHANGED <<config, cas>>
  BY DEF StartSession
<1>2. SubTypeOK' /\ Settled' /\ Ended' /\ Undigested'
  BY <1>1 DEF SInv, SubTypeOK, Settled, Ended, Undigested
<1>3. Calls'
  BY <1>1, NoCalls DEF Calls
<1> QED
  BY <1>1, <1>2, <1>3 DEF SInv

LEMMA SInvStep ==
  ASSUME MissingApart, SInv, [Next]_provVars
  PROVE  SInv'
<1>1. CASE UNCHANGED provVars
  BY <1>1, SubStays DEF provVars
<1>2. CASE Commands
  BY <1>2, SubStays DEF Commands
<1>3. CASE SubLoads
  BY <1>3, SubStepKeeps DEF SubLoads
<1>4. CASE Loads
  BY <1>4, SubStays DEF Loads, Load
<1>5. CASE StartSession
  BY <1>5, SessionStarts
<1> QED
  BY <1>1, <1>2, <1>3, <1>4, <1>5 DEF Next

(* The end of the aliases of what is done is done.                         *)
LEMMA ReachedDone ==
  ASSUME SInv, NEW s \in done, NEW x \in Reached(s)
  PROVE  x \in done
<1>1. \A y \in done : config.alias[y] # Missing => config.alias[y] \in done
  BY DEF SInv, Settled, SettledIn
<1> QED
  BY <1>1 DEF SInv, SubTypeOK, Reached

(* When LOAD goes on to a bridge, the provider it resolves by id is        *)
(* registered, and made of the providers of what it is derived from.       *)
THEOREM BridgesResolve ==
  ASSUME MissingApart
  PROVE  Spec => []Wired
<1>1. Init => SInv
  <2> SUFFICES ASSUME SubInit PROVE SInv
    BY DEF Init
  <2>1. SubTypeOK /\ Settled /\ Ended /\ Undigested /\ bridged \subseteq done
    BY DEF SubInit, SubTypeOK, Settled, Ended, Undigested
  <2>2. Calls
    BY NoCalls DEF SubInit, Calls
  <2> QED
    BY <2>1, <2>2 DEF SInv
<1>2. SInv => Wired
  <2> SUFFICES ASSUME SInv, NEW s \in bridged
               PROVE  registry[Root(s)] # Missing /\ DerivedFrom(registry[Root(s)], Root(s))
    BY DEF Wired
  <2> DEFINE r == Root(s)
  <2>1. s \in done
    BY DEF SInv
  <2>2. r \in Reached(s) /\ config.alias[r] = Missing
    BY <2>1 DEF SInv, Ended, Root
  <2>3. r \in done
    BY <2>1, <2>2, ReachedDone
  <2> HIDE DEF r
  <2>4. SettledIn(r, config, done, registry, digests, cas)
    BY <2>3 DEF SInv, Settled
  <2>5. registry[r] # Missing /\ DerivedFrom(registry[r], r)
    BY <2>2, <2>4 DEF SettledIn, DerivedFrom, Source
  <2> QED
    BY <2>5 DEF r
<1> QED
  BY <1>1, <1>2, SInvStep, PTL DEF Spec

-----------------------------------------------------------------------------
(* The handles between the CLI, the host and the core.                     *)

Phases == {"running", "draining", "drained", "failed", "panicked"}

HandlesTypeOK ==
  /\ next \in 1..(MaxId + 1)
  /\ kind \in [Ids -> Kinds \cup {NoId}]
  /\ entries \subseteq Ids /\ closed \subseteq Ids /\ guest \subseteq Ids
  /\ core \in [Ids -> CoreStates]
  /\ closes \in [Ids -> Nat]
  /\ pending \in [Kinds -> Seq(Ids)]
  /\ current \in Ids \cup {NoId}
  /\ phase \in Phases
  /\ traps \in Nat

(* The ids of a list of drops.                                             *)
Listed(k) == Range(pending[k])

(* An id that was not given out is nowhere.                                *)
Fresh ==
  \A id \in Ids :
    IF id < next THEN kind[id] \in Kinds
    ELSE /\ closes[id] = 0 /\ id \notin entries \cup closed \cup guest
         /\ \A k \in Kinds : id \notin Listed(k)

(* A drop waits once, on the list of its kind, and its handle is gone.     *)
Lists ==
  \A k \in Kinds :
    /\ \A i, j \in DOMAIN pending[k] : pending[k][i] = pending[k][j] => i = j
    /\ \A id \in Listed(k) : kind[id] = k /\ id \notin guest

(* The closed flag: who has one, and what it says of the core.             *)
Flags ==
  \A id \in closed : kind[id] \in {"connection", "stream"} /\ core[id] # "open"

(* What the CLI owns: open, or a stream that it has closed itself.         *)
Held ==
  \A id \in guest :
    IF id \in closed THEN kind[id] = "stream" /\ core[id] = "closed"
    ELSE core[id] = "open"

(* A resource that was released is flagged, or neither owned nor listed.   *)
Spent ==
  \A id \in Ids : closes[id] # 0 =>
    /\ closes[id] = 1
    /\ id \in closed \/ (id \notin guest /\ \A k \in Kinds : id \notin Listed(k))

(* What the CLI has given back is on a list or done with.                  *)
GivenBack ==
  phase \in {"running", "draining", "drained"} =>
    \A id \in 1..(next - 1) \ guest :
      \/ id \in Listed(kind[id])
      \/ core[id] # "open" /\ (id \in entries => kind[id] = "connection" /\ id \in closed)

(* A drain that ended has emptied the lists.                               *)
Emptied == phase = "drained" => \A k \in Kinds : pending[k] = <<>>

HandlesInv == HandlesTypeOK /\ Fresh /\ Lists /\ Flags /\ Held /\ Spent /\ GivenBack /\ Emptied

-----------------------------------------------------------------------------
(* Sequences: an element more at the end, and the first one less.          *)

(* An element appended to a list without repetition that does not hold it. *)
LEMMA Appended ==
  ASSUME NEW S, NEW s \in Seq(S), NEW e \in S, e \notin Range(s),
         \A i, j \in DOMAIN s : s[i] = s[j] => i = j
  PROVE  /\ Append(s, e) \in Seq(S) /\ Range(Append(s, e)) = Range(s) \cup {e}
         /\ \A i, j \in DOMAIN Append(s, e) : Append(s, e)[i] = Append(s, e)[j] => i = j
<1> DEFINE t == Append(s, e)
<1>1. /\ t \in Seq(S) /\ DOMAIN s = 1..Len(s) /\ DOMAIN t = 1..(Len(s) + 1) /\ Len(s) \in Nat
      /\ t[Len(s) + 1] = e /\ \A i \in 1..Len(s) : t[i] = s[i]
  OBVIOUS
<1>2. \A i : i \in 1..(Len(s) + 1) <=> i \in 1..Len(s) \/ i = Len(s) + 1
  BY <1>1
<1> HIDE DEF t
<1>3. Range(t) = Range(s) \cup {e}
  BY <1>1, <1>2 DEF Range
<1>4. ASSUME NEW i \in DOMAIN t, NEW j \in DOMAIN t, t[i] = t[j] PROVE i = j
  <2>1. CASE i \in 1..Len(s) /\ j \in 1..Len(s)
    BY <1>1, <1>4, <2>1
  <2>2. CASE i = Len(s) + 1 /\ j \in 1..Len(s)
    BY <1>1, <1>4, <2>2 DEF Range
  <2>3. CASE j = Len(s) + 1 /\ i \in 1..Len(s)
    BY <1>1, <1>4, <2>3 DEF Range
  <2> QED
    BY <1>1, <1>2, <2>1, <2>2, <2>3
<1> QED
  BY <1>1, <1>3, <1>4 DEF t

(* The rest of a list without repetition does not hold its head.           *)
LEMMA Rest ==
  ASSUME NEW S, NEW s \in Seq(S), s # <<>>, \A i, j \in DOMAIN s : s[i] = s[j] => i = j
  PROVE  /\ Tail(s) \in Seq(S) /\ Head(s) \in Range(s) /\ Head(s) \in S
         /\ Range(Tail(s)) = Range(s) \ {Head(s)}
         /\ \A i, j \in DOMAIN Tail(s) : Tail(s)[i] = Tail(s)[j] => i = j
<1> DEFINE t == Tail(s)
<1>1. /\ t \in Seq(S) /\ Len(s) \in Nat \ {0} /\ DOMAIN s = 1..Len(s)
      /\ DOMAIN t = 1..(Len(s) - 1) /\ \A i \in 1..(Len(s) - 1) : t[i] = s[i + 1]
      /\ Head(s) = s[1] /\ s[1] \in S
  OBVIOUS
<1> HIDE DEF t
<1>2. Range(t) \subseteq Range(s) \ {s[1]}
  <2> SUFFICES ASSUME NEW i \in 1..(Len(s) - 1) PROVE s[i + 1] \in Range(s) /\ s[i + 1] # s[1]
    BY <1>1 DEF Range
  <2>1. i + 1 \in DOMAIN s /\ 1 \in DOMAIN s /\ i + 1 # 1
    BY <1>1
  <2> QED
    BY <2>1 DEF Range
<1>3. Range(s) \ {s[1]} \subseteq Range(t)
  <2> SUFFICES ASSUME NEW i \in DOMAIN s, i # 1 PROVE s[i] \in Range(t)
    BY DEF Range
  <2>1. i - 1 \in DOMAIN t /\ t[i - 1] = s[i]
    BY <1>1
  <2> QED
    BY <2>1 DEF Range
<1>4. ASSUME NEW i \in DOMAIN t, NEW j \in DOMAIN t, t[i] = t[j] PROVE i = j
  <2>1. i + 1 \in DOMAIN s /\ j + 1 \in DOMAIN s /\ s[i + 1] = s[j + 1]
    BY <1>1, <1>4
  <2> QED
    BY <1>1, <2>1
<1>5. 1 \in DOMAIN s
  BY <1>1
<1> QED
  BY <1>1, <1>2, <1>3, <1>4, <1>5 DEF t, Range

-----------------------------------------------------------------------------
LEMMA HandlesInitInv == HandlesInit => HandlesInv
<1> SUFFICES ASSUME HandlesInit PROVE HandlesInv
  OBVIOUS
<1>1. HandlesTypeOK
  BY HandlesAssumption DEF HandlesInit, HandlesTypeOK, Ids, Phases, CoreStates
<1>2. \A k \in Kinds : pending[k] = <<>> /\ Listed(k) = {}
  BY DEF HandlesInit, Listed, Range
<1>3. \A id \in Ids : ~(id < next) /\ id > 0
  BY HandlesAssumption DEF HandlesInit, Ids
<1>4. 1..(next - 1) \ guest = {}
  BY DEF HandlesInit
<1> QED
  BY <1>1, <1>2, <1>3, <1>4
     DEF HandlesInit, HandlesInv, Fresh, Lists, Flags, Held, Spent, GivenBack, Emptied

(* A new resource takes the next id, which was nowhere.                    *)
LEMMA CreatedStep ==
  ASSUME HandlesInv, NEW k \in Kinds, Created(k), phase = "running", current' \in Ids \cup {NoId}
  PROVE  HandlesInv'
<1>1. /\ HandlesTypeOK /\ Fresh /\ Lists /\ Flags /\ Held /\ Spent /\ GivenBack
  BY DEF HandlesInv
<1>2. /\ next \in Ids /\ next' = next + 1 /\ entries' = entries \cup {next}
      /\ kind' = [kind EXCEPT ![next] = k] /\ core' = [core EXCEPT ![next] = "open"]
      /\ guest' = guest \cup {next}
      /\ UNCHANGED <<closed, closes, pending, phase, traps>>
  BY DEF Created
<1>3. next' \in 1..(MaxId + 1) /\ next \in Nat /\ 1..(next' - 1) = 1..(next - 1) \cup {next}
  BY <1>2, HandlesAssumption DEF Ids
<1>4. HandlesTypeOK'
  BY <1>1, <1>2, <1>3 DEF HandlesTypeOK, CoreStates
<1>5. /\ closes[next] = 0 /\ next \notin closed \cup guest \cup entries
      /\ \A q \in Kinds : next \notin Listed(q)
  BY <1>1, <1>2, <1>3 DEF Fresh
<1>6. \A q \in Kinds : Listed(q)' = Listed(q) /\ Listed(q) \subseteq Ids
  BY <1>1, <1>2 DEF Listed, Range, HandlesTypeOK
<1>7. /\ kind'[next] = k /\ core'[next] = "open"
      /\ \A id \in Ids \ {next} : kind'[id] = kind[id] /\ core'[id] = core[id]
  BY <1>1, <1>2 DEF HandlesTypeOK
<1>8. \A id \in Ids : id < next' <=> id < next \/ id = next
  BY <1>2, <1>3 DEF Ids
<1>9. Fresh'
  BY <1>1, <1>2, <1>3, <1>6, <1>7, <1>8 DEF Fresh
<1>10. Lists'
  BY <1>1, <1>2, <1>5, <1>6, <1>7 DEF Lists
<1>11. Flags' /\ Held'
  BY <1>1, <1>2, <1>5, <1>7 DEF Flags, Held, HandlesTypeOK
<1>12. Spent'
  BY <1>1, <1>2, <1>5, <1>6 DEF Spent
<1>13. GivenBack'
  <2>1. 1..(next - 1) \subseteq Ids \ {next}
    BY <1>2, <1>3, HandlesAssumption DEF Ids
  <2>2. \A id \in 1..(next - 1) : kind[id] \in Kinds
    BY <1>1, <1>3, <2>1 DEF Fresh
  <2> QED
    BY <1>1, <1>2, <1>3, <1>6, <1>7, <2>1, <2>2 DEF GivenBack
<1> QED
  BY <1>2, <1>4, <1>9, <1>10, <1>11, <1>12, <1>13 DEF HandlesInv, Emptied

(* A handle that leaves the CLI for the list of its kind.                  *)
LEMMA ListedStep ==
  ASSUME HandlesInv, NEW id \in guest, NEW k \in Kinds, kind[id] = k,
         pending' = [pending EXCEPT ![k] = Append(@, id)]
  PROVE  /\ pending' \in [Kinds -> Seq(Ids)]
         /\ \A q \in Kinds : Listed(q)' = IF q = k THEN Listed(q) \cup {id} ELSE Listed(q)
         /\ \A q \in Kinds : \A i, j \in DOMAIN pending'[q] :
              pending'[q][i] = pending'[q][j] => i = j
<1>1. /\ pending \in [Kinds -> Seq(Ids)] /\ id \in Ids /\ id \notin Range(pending[k])
      /\ \A q \in Kinds : \A i, j \in DOMAIN pending[q] :
           pending[q][i] = pending[q][j] => i = j
  BY DEF HandlesInv, HandlesTypeOK, Lists, Listed
<1>2. /\ pending'[k] = Append(pending[k], id)
      /\ \A q \in Kinds \ {k} : pending'[q] = pending[q]
  BY <1>1
<1>3. /\ pending'[k] \in Seq(Ids) /\ Range(pending'[k]) = Range(pending[k]) \cup {id}
      /\ \A i, j \in DOMAIN pending'[k] : pending'[k][i] = pending'[k][j] => i = j
  BY <1>1, <1>2, Appended
<1>4. pending' \in [Kinds -> Seq(Ids)]
  <2>1. Append(pending[k], id) \in Seq(Ids)
    BY <1>2, <1>3
  <2> QED
    BY <1>1, <2>1
<1>5. \A q \in Kinds : Listed(q)' = IF q = k THEN Listed(q) \cup {id} ELSE Listed(q)
  <2>1. ASSUME NEW q \in Kinds, q # k PROVE Range(pending'[q]) = Range(pending[q])
    BY <1>2, <2>1
  <2> QED
    BY <1>3, <2>1 DEF Listed
<1>6. \A q \in Kinds : \A i, j \in DOMAIN pending'[q] : pending'[q][i] = pending'[q][j] => i = j
  BY <1>1, <1>2, <1>3
<1> QED
  BY <1>4, <1>5, <1>6

LEMMA DropStep == ASSUME HandlesInv, NEW id \in Ids, Drop(id) PROVE HandlesInv'
<1>1. /\ HandlesTypeOK /\ Fresh /\ Lists /\ Flags /\ Held /\ Spent /\ GivenBack /\ id \in guest
      /\ phase = "running" /\ guest' = guest \ {id}
      /\ pending' = [pending EXCEPT ![kind[id]] = Append(@, id)]
      /\ UNCHANGED <<next, kind, entries, closed, core, closes, current, phase, traps>>
  BY DEF HandlesInv, Drop, tables, resources
<1>2. id < next /\ kind[id] \in Kinds
  BY <1>1 DEF Fresh
<1>3. /\ pending' \in [Kinds -> Seq(Ids)]
      /\ \A q \in Kinds : Listed(q)' = IF q = kind[id] THEN Listed(q) \cup {id} ELSE Listed(q)
      /\ \A q \in Kinds : \A i, j \in DOMAIN pending'[q] :
           pending'[q][i] = pending'[q][j] => i = j
  BY <1>1, <1>2, ListedStep
<1>4. HandlesTypeOK'
  BY <1>1, <1>3 DEF HandlesTypeOK
<1>5. Fresh' /\ Lists' /\ Flags' /\ Held' /\ Emptied'
  BY <1>1, <1>2, <1>3 DEF Fresh, Lists, Flags, Held, Emptied
<1>6. Spent'
  BY <1>1, <1>3 DEF Spent, Held, Flags
<1>7. GivenBack'
  <2>1. \A i \in 1..(next - 1) : kind[i] \in Kinds
    BY <1>1, HandlesAssumption DEF Fresh, HandlesTypeOK, Ids
  <2> QED
    BY <1>1, <1>2, <1>3, <2>1 DEF GivenBack
<1> QED
  BY <1>4, <1>5, <1>6, <1>7 DEF HandlesInv

LEMMA CloseStep == ASSUME HandlesInv, NEW id \in Ids, Close(id) PROVE HandlesInv'
<1>1. /\ HandlesTypeOK /\ Fresh /\ Lists /\ Flags /\ Held /\ Spent /\ GivenBack /\ id \in guest
      /\ id \notin closed /\ kind[id] = "connection" /\ phase = "running"
      /\ guest' = guest \ {id}
      /\ UNCHANGED <<next, kind, entries, current>>
  BY DEF HandlesInv, Close, Passes
<1>2. id < next /\ "connection" \in Kinds /\ closes[id] = 0
  BY <1>1 DEF Fresh, Kinds, Spent
<1>3. CASE Trap /\ phase' = "panicked" /\ UNCHANGED <<core, closes, closed, pending>>
  <2>1. HandlesTypeOK'
    BY <1>1, <1>3, HandlesAssumption DEF HandlesTypeOK, Trap, Phases
  <2> QED
    BY <1>1, <1>3, <2>1
       DEF HandlesInv, Fresh, Lists, Flags, Held, Spent, GivenBack, Emptied, Listed
<1>4. CASE /\ Released(id, "gone") /\ closed' = closed \cup {id}
           /\ pending' \in {pending, [pending EXCEPT !["connection"] = Append(@, id)]}
           /\ UNCHANGED <<phase, traps>>
  <2>1. /\ pending' \in [Kinds -> Seq(Ids)]
        /\ \A q \in Kinds : \/ Listed(q)' = Listed(q)
                            \/ q = "connection" /\ Listed(q)' = Listed(q) \cup {id}
        /\ \A q \in Kinds : \A i, j \in DOMAIN pending'[q] :
             pending'[q][i] = pending'[q][j] => i = j
    <3>1. CASE pending' = pending
      BY <1>1, <3>1 DEF HandlesTypeOK, Lists, Listed
    <3>2. CASE pending' = [pending EXCEPT !["connection"] = Append(@, id)]
      BY <1>1, <1>2, <3>2, ListedStep
    <3> QED
      BY <1>4, <3>1, <3>2
  <2>2. /\ core'[id] = "gone" /\ closes'[id] = 1
        /\ \A i \in Ids \ {id} : core'[i] = core[i] /\ closes'[i] = closes[i]
    BY <1>1, <1>2, <1>4 DEF Released, HandlesTypeOK
  <2>3. HandlesTypeOK'
    BY <1>1, <1>4, <2>1 DEF HandlesTypeOK, Released, CoreStates
  <2>4. Fresh'
    BY <1>1, <1>2, <1>4, <2>1, <2>2 DEF Fresh
  <2>5. Lists' /\ Emptied'
    BY <1>1, <1>4, <2>1 DEF Lists, Emptied
  <2>6. Flags' /\ Held'
    BY <1>1, <1>4, <2>2 DEF Flags, Held, HandlesTypeOK
  <2>7. Spent'
    BY <1>1, <1>4, <2>1, <2>2 DEF Spent
  <2>8. GivenBack'
    <3>1. \A i \in 1..(next - 1) : i \in Ids /\ kind[i] \in Kinds
      BY <1>1, HandlesAssumption DEF Fresh, HandlesTypeOK, Ids
    <3>2. ASSUME NEW i \in 1..(next - 1) \ guest'
          PROVE  \/ i \in Listed(kind[i])'
                 \/ core'[i] # "open" /\ (i \in entries => kind[i] = "connection" /\ i \in closed')
      <4>1. CASE i = id
        BY <1>1, <1>4, <2>2, <4>1
      <4>2. CASE i # id
        <5>1. i \in 1..(next - 1) \ guest /\ i \in Ids \ {id}
          BY <1>1, <3>1, <4>2
        <5>2. i \in Listed(kind[i]) => i \in Listed(kind[i])'
          BY <1>1, <2>1, <3>1
        <5> QED
          BY <1>1, <1>4, <2>2, <5>1, <5>2 DEF GivenBack
      <4> QED
        BY <4>1, <4>2
    <3> QED
      BY <1>1, <3>2 DEF GivenBack
  <2> QED
    BY <2>3, <2>4, <2>5, <2>6, <2>7, <2>8 DEF HandlesInv
<1> QED
  BY <1>3, <1>4 DEF Close

LEMMA CloseStreamStep == ASSUME HandlesInv, NEW id \in Ids, CloseStream(id) PROVE HandlesInv'
<1>1. /\ HandlesTypeOK /\ Fresh /\ Lists /\ Flags /\ Held /\ Spent /\ GivenBack /\ id \in guest
      /\ id \notin closed /\ kind[id] = "stream" /\ phase = "running"
      /\ Released(id, "closed") /\ closed' = closed \cup {id} /\ traps' \in Nat
      /\ UNCHANGED <<next, kind, entries, guest, pending, current, phase>>
  BY HandlesAssumption DEF HandlesInv, CloseStream, Passes, Trap, HandlesTypeOK
<1>2. id < next /\ closes[id] = 0
  BY <1>1 DEF Fresh, Spent
<1>3. /\ core'[id] = "closed" /\ closes'[id] = 1
      /\ \A i \in Ids \ {id} : core'[i] = core[i] /\ closes'[i] = closes[i]
  BY <1>1, <1>2 DEF Released, HandlesTypeOK
<1>4. HandlesTypeOK'
  BY <1>1 DEF HandlesTypeOK, Released, CoreStates
<1>5. Fresh' /\ Lists' /\ Emptied'
  BY <1>1, <1>2, <1>3 DEF Fresh, Lists, Emptied, Listed
<1>6. Flags' /\ Held' /\ Spent'
  BY <1>1, <1>2, <1>3 DEF Flags, Held, Spent, HandlesTypeOK, Listed
<1>7. GivenBack'
  <2>1. \A i \in 1..(next - 1) : i \in Ids
    BY <1>1, HandlesAssumption DEF HandlesTypeOK, Ids
  <2> QED
    BY <1>1, <1>3, <2>1 DEF GivenBack, Listed
<1> QED
  BY <1>4, <1>5, <1>6, <1>7 DEF HandlesInv

(* A drop that is worked off leaves its list; it was listed only once.     *)
LEMMA DrainOneStep == ASSUME HandlesInv, NEW k \in Kinds, DrainOne(k) PROVE HandlesInv'
<1>0. PICK id : id = Head(pending[k])
  OBVIOUS
<1>1. /\ HandlesTypeOK /\ Fresh /\ Lists /\ Flags /\ Held /\ Spent /\ GivenBack
      /\ pending[k] # <<>> /\ phase = "draining" /\ entries' = entries \ {id}
      /\ UNCHANGED <<next, kind, closed, guest, current>>
  BY <1>0 DEF HandlesInv, DrainOne, Draining
<1>2. /\ Tail(pending[k]) \in Seq(Ids) /\ id \in Listed(k) /\ id \in Ids
      /\ Range(Tail(pending[k])) = Listed(k) \ {id}
      /\ \A i, j \in DOMAIN Tail(pending[k]) :
           Tail(pending[k])[i] = Tail(pending[k])[j] => i = j
  BY <1>0, <1>1, Rest DEF HandlesTypeOK, Lists, Listed
<1>3. id < next /\ kind[id] = k /\ id \notin guest
  BY <1>1, <1>2 DEF Fresh, Lists
<1>4. CASE /\ pending' = [pending EXCEPT ![k] = Tail(@)]
           /\ IF ReleasedAs(id) = NoId THEN UNCHANGED resources
                                       ELSE Released(id, ReleasedAs(id))
           /\ UNCHANGED <<phase, traps>>
  <2>1. /\ pending' \in [Kinds -> Seq(Ids)]
        /\ Listed(k)' = Listed(k) \ {id} /\ \A q \in Kinds \ {k} : Listed(q)' = Listed(q)
        /\ \A q \in Kinds : \A i, j \in DOMAIN pending'[q] :
             pending'[q][i] = pending'[q][j] => i = j
    BY <1>1, <1>2, <1>4 DEF HandlesTypeOK, Lists, Listed
  <2>1a. \A q \in Kinds, i \in Ids : i \in Listed(q)' <=> i \in Listed(q) /\ ~(q = k /\ i = id)
    BY <2>1
  <2>2. /\ core' \in [Ids -> CoreStates] /\ closes' \in [Ids -> Nat]
        /\ core'[id] # "open" /\ (id \notin closed => closes'[id] = 1)
        /\ \A i \in Ids \ {id} : core'[i] = core[i] /\ closes'[i] = closes[i]
        /\ id \in closed => closes'[id] = closes[id]
    <3>1. CASE id \in closed
      <4>1. ReleasedAs(id) = NoId /\ core[id] # "open"
        BY <1>1, <1>3, <3>1 DEF ReleasedAs, Flags
      <4> QED
        BY <1>1, <1>4, <3>1, <4>1 DEF resources, HandlesTypeOK
    <3>2. CASE id \notin closed
      <4>1. closes[id] = 0
        BY <1>1, <1>2, <3>2 DEF Spent
      <4>2. ReleasedAs(id) \in {"closed", "gone"} /\ ReleasedAs(id) # NoId
        BY <1>3, <3>2, HandlesAssumption DEF ReleasedAs, Kinds, Children, CoreStates
      <4>3. Released(id, ReleasedAs(id))
        BY <1>4, <4>2
      <4> QED
        BY <1>1, <1>2, <3>2, <4>1, <4>2, <4>3 DEF Released, HandlesTypeOK, CoreStates
    <3> QED
      BY <3>1, <3>2
  <2>3. HandlesTypeOK'
    BY <1>1, <1>4, <2>1, <2>2 DEF HandlesTypeOK
  <2>4. Fresh'
    BY <1>1, <1>3, <2>1a, <2>2 DEF Fresh
  <2>5. Lists' /\ Emptied'
    BY <1>1, <1>4, <2>1 DEF Lists, Emptied
  <2>6. Flags' /\ Held'
    BY <1>1, <1>3, <2>2 DEF Flags, Held, HandlesTypeOK
  <2>7. Spent'
    BY <1>1, <1>2, <1>3, <2>1a, <2>2 DEF Spent, Lists
  <2>8. GivenBack'
    <3>1. \A i \in 1..(next - 1) : i \in Ids /\ kind[i] \in Kinds
      BY <1>1, HandlesAssumption DEF Fresh, HandlesTypeOK, Ids
    <3> QED
      BY <1>1, <1>3, <1>4, <2>1a, <2>2, <3>1 DEF GivenBack
  <2> QED
    BY <2>3, <2>4, <2>5, <2>6, <2>7, <2>8 DEF HandlesInv
<1>5. CASE /\ Trap /\ pending' = [pending EXCEPT ![k] = <<>>]
           /\ phase' = "failed" /\ UNCHANGED resources
  <2>1. /\ pending' \in [Kinds -> Seq(Ids)]
        /\ \A q \in Kinds : pending'[q] \in {pending[q], <<>>}
    BY <1>1, <1>5 DEF HandlesTypeOK
  <2>2. \A q \in Kinds : Listed(q)' \subseteq Listed(q)
    BY <2>1 DEF Listed, Range
  <2>3. HandlesTypeOK'
    BY <1>1, <1>5, <2>1, HandlesAssumption DEF HandlesTypeOK, resources, Trap, Phases
  <2>4. Fresh' /\ Lists' /\ Flags' /\ Held' /\ Emptied' /\ GivenBack'
    BY <1>1, <1>5, <2>1, <2>2
       DEF Fresh, Lists, Flags, Held, Emptied, GivenBack, resources
  <2>5. Spent'
    BY <1>1, <1>5, <2>2 DEF Spent, resources
  <2> QED
    BY <2>3, <2>4, <2>5 DEF HandlesInv
<1> QED
  BY <1>0, <1>4, <1>5 DEF DrainOne

(* The steps that change nothing but the phase and the traps.              *)
LEMMA QuietStep ==
  ASSUME HandlesInv, UNCHANGED <<tables, resources, guest, pending, current>>, traps' \in Nat,
         \/ phase' = phase \/ phase' = "panicked"
         \/ phase = "running" /\ phase' = "draining"
         \/ phase = "draining" /\ phase' = "drained" /\ \A k \in Kinds : pending[k] = <<>>
  PROVE  HandlesInv'
<1>1. HandlesTypeOK'
  BY DEF HandlesInv, HandlesTypeOK, tables, resources, Phases
<1> QED
  BY <1>1 DEF HandlesInv, Fresh, Lists, Flags, Held, Spent, GivenBack, Emptied, Listed, tables, resources

LEMMA NextInv == HandlesInv /\ [HandlesNext]_handleVars => HandlesInv'
<1> SUFFICES ASSUME HandlesInv, [HandlesNext]_handleVars PROVE HandlesInv'
  OBVIOUS
<1>1. HandlesTypeOK /\ traps \in Nat
  BY DEF HandlesInv, HandlesTypeOK
<1>2. CASE Open
  BY <1>2, CreatedStep DEF Open, Kinds, Created
<1>3. ASSUME NEW k \in Children, OpenChild(k) PROVE HandlesInv'
  BY <1>1, <1>3, CreatedStep DEF OpenChild, Passes, Kinds, HandlesTypeOK
<1>4. ASSUME NEW id \in Ids, Close(id) \/ CloseStream(id) \/ Drop(id) PROVE HandlesInv'
  BY <1>4, CloseStep, CloseStreamStep, DropStep
<1>5. ASSUME NEW k \in Kinds, DrainOne(k) PROVE HandlesInv'
  BY <1>5, DrainOneStep
<1>6. CASE CallPanics \/ CallReports
  BY <1>1, <1>6, QuietStep DEF CallPanics, CallReports, Trap
<1>7. CASE RunReturns \/ Drained
  BY <1>1, <1>7, QuietStep DEF RunReturns, Drained
<1>8. CASE UNCHANGED handleVars
  BY <1>1, <1>8, QuietStep DEF handleVars
<1> QED
  BY <1>2, <1>3, <1>4, <1>5, <1>6, <1>7, <1>8 DEF HandlesNext

LEMMA HandlesInvariant == HandlesSpec => []HandlesInv
BY HandlesInitInv, NextInv, PTL DEF HandlesSpec

-----------------------------------------------------------------------------
(* The tables, lists and flags of HostState stay well typed, for any       *)
(* number of resources.                                                    *)
THEOREM HandlesTyping == HandlesSpec => []HandlesTypeOK
BY HandlesInvariant, PTL DEF HandlesInv

(* Whatever was closed, dropped and drained before, a handle that the CLI  *)
(* owns stands for a resource of the core.                                 *)
THEOREM HandlesStand == HandlesSpec => []NoDangling
<1>1. HandlesInv => NoDangling
  BY DEF HandlesInv, Held, NoDangling
<1> QED
  BY <1>1, HandlesInvariant, PTL

(* The core is asked at most once to release a resource: the flag of an    *)
(* entry and the list of drops never both lead to it.                      *)
THEOREM ReleasesOnce == HandlesSpec => []ReleasedOnce
<1>1. HandlesInv => ReleasedOnce
  BY DEF HandlesInv, Spent, HandlesTypeOK, ReleasedOnce
<1> QED
  BY <1>1, HandlesInvariant, PTL

(* A drain that reports success has given back at the core all that the    *)
(* CLI gave back to the host.                                              *)
THEOREM DrainsAll == HandlesSpec => []DrainComplete
<1>1. HandlesInv => DrainComplete
  <2> SUFFICES ASSUME HandlesInv, phase = "drained", NEW id \in 1..(next - 1) \ guest
               PROVE  /\ core[id] # "open"
                      /\ id \in entries => kind[id] = "connection" /\ id \in closed
    BY DEF DrainComplete
  <2>1. kind[id] \in Kinds
    BY HandlesAssumption DEF HandlesInv, Fresh, HandlesTypeOK, Ids
  <2>2. id \notin Listed(kind[id])
    BY <2>1 DEF HandlesInv, Emptied, Listed, Range
  <2> QED
    BY <2>2 DEF HandlesInv, GivenBack
<1> QED
  BY <1>1, HandlesInvariant, PTL

-----------------------------------------------------------------------------
(* The registry of the dot commands: what the folds over the directory,    *)
(* and over the commands of a component, yield.                            *)

AllNames == {Lower[Folder[a].specs[b].name] : a \in DOMAIN Folder, b \in Nat}
AllIds == {Folder[a].specs[b].id : a \in DOMAIN Folder, b \in Nat}
Entries == [at : Nat, id : AllIds]
Entry(at, spec) == [at |-> at, id |-> spec.id]
NameMaps == UNION {[S -> Entries] : S \in SUBSET AllNames}

NameOf(specs, k) == Lower[specs[k].name]

(* The commands of one component, named from the first to the last one.    *)
NamesWalk(names, specs, at, f) ==
  f = [S \in SUBSET DOMAIN specs |->
         IF S = {} THEN names ELSE Named(f[S \ {Max(S)}], specs[Max(S)], at)]

NamedAll(names, specs, at) == (CHOOSE f : NamesWalk(names, specs, at, f))[DOMAIN specs]

LEMMA LoadOne ==
  ASSUME NEW sofar, NEW file
  PROVE  load_one(sofar, file) =
           IF ~Loadable(file) THEN sofar
           ELSE [components |-> Append(sofar.components, file),
                 by_name |-> NamedAll(sofar.by_name, Folder[file].specs, Len(sofar.components) + 1),
                 infos |-> sofar.infos \o Folder[file].specs]
  BY DEF load_one, FoldLeft, MapThenFoldSet, NamedAll, NamesWalk

LEMMA NamesAre ==
  ASSUME NEW names
  PROVE  names \in NameMaps <=> /\ DOMAIN names \in SUBSET AllNames
                             /\ names \in [DOMAIN names -> Entries]
  BY DEF NameMaps

LEMMA NamedDomain ==
  \A names, spec, at : DOMAIN Named(names, spec, at) = DOMAIN names \cup {Lower[spec.name]}
  BY DEF Named

LEMMA NamedType ==
  ASSUME NEW names \in NameMaps, NEW spec, NEW at \in Nat,
         Lower[spec.name] \in AllNames, spec.id \in AllIds,
         NEW more, more = Named(names, spec, at)
  PROVE  /\ more \in NameMaps
         /\ \A n \in DOMAIN names : more[n] = names[n]
         /\ Lower[spec.name] \notin DOMAIN names => more[Lower[spec.name]] = Entry(at, spec)
<1> DEFINE e == Entry(at, spec)
<1>1. e \in Entries
  BY DEF Entries, Entry
<1>2. DOMAIN names \in SUBSET AllNames /\ names \in [DOMAIN names -> Entries]
  BY NamesAre
<1>3. /\ more = [n \in DOMAIN names \cup {Lower[spec.name]} |-> IF n \in DOMAIN names THEN names[n] ELSE e]
  BY DEF Named, Entry
<1> HIDE DEF e
<1>4. DOMAIN more \in SUBSET AllNames /\ more \in [DOMAIN more -> Entries]
  BY <1>1, <1>2, <1>3
<1>5. more \in NameMaps
  BY <1>4, NamesAre
<1> QED
  BY <1>3, <1>5 DEF e

Specs(file) == Folder[file].specs

(* The first of the commands specs[1..k] of a name gives its id.           *)
NamesTo(names, specs, at, k, got) ==
  /\ got \in NameMaps
  /\ DOMAIN got = DOMAIN names \cup {NameOf(specs, i) : i \in 1..k}
  /\ \A n \in DOMAIN names : got[n] = names[n]
  /\ \A i \in 1..k :
       NameOf(specs, i) \notin DOMAIN names /\ (\A j \in 1..(i - 1) : NameOf(specs, j) # NameOf(specs, i)) =>
         got[NameOf(specs, i)] = Entry(at, specs[i])

LEMMA NamesToNext ==
  ASSUME NEW file \in DOMAIN Folder, NEW names \in NameMaps, NEW at \in Nat,
         NEW k \in Nat, k + 1 \in 1..Len(Specs(file)), NEW got,
         NamesTo(names, Specs(file), at, k, got)
  PROVE  NamesTo(names, Specs(file), at, k + 1, Named(got, Specs(file)[k + 1], at))
<1> DEFINE specs == Specs(file)
           name == NameOf(specs, k + 1)
           more == Named(got, specs[k + 1], at)
<1>1. name = Lower[specs[k + 1].name] /\ name \in AllNames /\ specs[k + 1].id \in AllIds
  BY DEF NameOf, Specs, AllNames, AllIds
<1>2. /\ got \in NameMaps
      /\ DOMAIN got = DOMAIN names \cup {NameOf(specs, i) : i \in 1..k}
      /\ \A n \in DOMAIN names : got[n] = names[n]
      /\ \A i \in 1..k :
           NameOf(specs, i) \notin DOMAIN names /\ (\A j \in 1..(i - 1) : NameOf(specs, j) # NameOf(specs, i)) =>
             got[NameOf(specs, i)] = Entry(at, specs[i])
  BY DEF NamesTo
<1>3. /\ more \in NameMaps
      /\ DOMAIN more = DOMAIN got \cup {name}
      /\ \A n \in DOMAIN got : more[n] = got[n]
      /\ name \notin DOMAIN got => more[name] = Entry(at, specs[k + 1])
  <2> DEFINE spec == specs[k + 1]
  <2>1. Lower[spec.name] = name /\ Lower[spec.name] \in AllNames /\ spec.id \in AllIds
    BY <1>1
  <2>2. more = Named(got, spec, at) /\ got \in NameMaps
    BY <1>2
  <2> HIDE DEF spec, more
  <2>3. /\ more \in NameMaps
        /\ \A n \in DOMAIN got : more[n] = got[n]
        /\ Lower[spec.name] \notin DOMAIN got => more[Lower[spec.name]] = Entry(at, spec)
    BY <2>1, <2>2, NamedType
  <2>4. DOMAIN more = DOMAIN got \cup {Lower[spec.name]}
    BY <2>2, NamedDomain
  <2> QED
    BY <2>1, <2>3, <2>4 DEF spec
<1> HIDE DEF specs, more
<1>4. \A i \in 1..(k + 1) : i \in 1..k \/ i = k + 1
  OBVIOUS
<1>5. DOMAIN more = DOMAIN names \cup {NameOf(specs, i) : i \in 1..(k + 1)}
  <2>1. {NameOf(specs, i) : i \in 1..(k + 1)} = {NameOf(specs, i) : i \in 1..k} \cup {name}
    BY <1>4
  <2> QED
    BY <1>2, <1>3, <2>1
<1>6. ASSUME NEW i \in 1..(k + 1), NameOf(specs, i) \notin DOMAIN names,
             \A j \in 1..(i - 1) : NameOf(specs, j) # NameOf(specs, i)
      PROVE  more[NameOf(specs, i)] = Entry(at, specs[i])
  <2>1. CASE i \in 1..k
    <3>1. NameOf(specs, i) \in DOMAIN got
      BY <1>2, <2>1
    <3> QED
      BY <1>2, <1>3, <1>6, <2>1, <3>1
  <2>2. CASE i = k + 1
    <3>1. \A j \in 1..k : NameOf(specs, j) # name
      BY <1>6, <2>2
    <3>2. name \notin DOMAIN got
      BY <1>2, <1>6, <2>2, <3>1
    <3> QED
      BY <1>3, <2>2, <3>2
  <2> QED
    BY <1>4, <2>1, <2>2
<1>7. NamesTo(names, specs, at, k + 1, more)
  BY <1>2, <1>3, <1>5, <1>6 DEF NamesTo
<1> QED
  BY <1>7 DEF specs, more

LEMMA SpecsType ==
  ASSUME NEW file \in DOMAIN Folder
  PROVE  /\ Specs(file) \in Seq(Range(Specs(file)))
         /\ Len(Specs(file)) \in Nat /\ DOMAIN Specs(file) = 1..Len(Specs(file))
         /\ \A k \in DOMAIN Specs(file) :
              NameOf(Specs(file), k) \in AllNames /\ Specs(file)[k].id \in AllIds
<1>1. Specs(file) \in Seq(Range(Specs(file)))
  BY DotAssumption DEF DotAssumption, Specs
<1>2. Len(Specs(file)) \in Nat /\ DOMAIN Specs(file) = 1..Len(Specs(file))
  BY <1>1
<1> QED
  BY <1>1, <1>2 DEF Specs, NameOf, AllNames, AllIds

LEMMA NamedAllTo ==
  ASSUME NEW file \in DOMAIN Folder, NEW names \in NameMaps, NEW at \in Nat
  PROVE  NamesTo(names, Specs(file), at, Len(Specs(file)), NamedAll(names, Specs(file), at))
<1> DEFINE s == Specs(file)
           step == [a \in NameMaps \X (1..Len(s)) |-> Named(a[1], s[a[2]], at)]
<1>1. Len(s) \in Nat /\ DOMAIN s = 1..Len(s)
  BY SpecsType
<1>2. step \in [NameMaps \X (1..Len(s)) -> NameMaps]
  <2> SUFFICES ASSUME NEW a \in NameMaps \X (1..Len(s)) PROVE Named(a[1], s[a[2]], at) \in NameMaps
    OBVIOUS
  <2>1. a[1] \in NameMaps /\ a[2] \in DOMAIN s
    BY <1>1
  <2>2. Lower[s[a[2]].name] \in AllNames /\ s[a[2]].id \in AllIds
    BY <2>1, SpecsType DEF NameOf
  <2> QED
    BY <2>1, <2>2, NamedType
<1> HIDE DEF s
<1>3. \E f : NamesWalk(names, s, at, f)
  <2>1. PICK f : Folds(Len(s), NameMaps, names, step, f)
    <3> HIDE DEF step
    <3> QED
      BY <1>1, <1>2, FoldExists
  <2>2. \A S \in SUBSET (1..Len(s)) :
          f[S] = IF S = {} THEN names ELSE Named(f[S \ {Max(S)}], s[Max(S)], at)
    <3> SUFFICES ASSUME NEW S \in SUBSET (1..Len(s)), S # {}
                 PROVE  step[<<f[S \ {Max(S)}], Max(S)>>] = Named(f[S \ {Max(S)}], s[Max(S)], at)
      BY <2>1 DEF Folds
    <3>1. Max(S) \in S /\ S \ {Max(S)} \in SUBSET (1..Len(s))
      BY <1>1, MaxBelow
    <3>2. f[S \ {Max(S)}] \in NameMaps /\ Max(S) \in 1..Len(s)
      BY <2>1, <3>1 DEF Folds
    <3> QED
      BY <3>2
  <2>3. f = [S \in SUBSET (1..Len(s)) |-> f[S]]
    BY <2>1 DEF Folds
  <2>4. NamesWalk(names, s, at, f)
    BY <1>1, <2>2, <2>3 DEF NamesWalk
  <2> QED
    BY <2>4
<1> DEFINE f == CHOOSE f : NamesWalk(names, s, at, f)
<1>4. NamesWalk(names, s, at, f)
  BY <1>3
<1>5. NamedAll(names, s, at) = f[1..Len(s)]
  BY <1>1 DEF NamedAll
<1> HIDE DEF f, step
<1>6. f[1..0] = names /\ \A k \in 1..Len(s) : f[1..k] = Named(f[1..(k - 1)], s[k], at)
  <2>1. 1..0 = {} /\ \A k \in 1..Len(s) : 1..k \in SUBSET (1..Len(s)) /\ k \in Nat \ {0}
    BY <1>1
  <2>2. f[1..0] = names
    BY <1>1, <1>4, <2>1 DEF NamesWalk
  <2>3. ASSUME NEW k \in 1..Len(s) PROVE f[1..k] = Named(f[1..(k - 1)], s[k], at)
    <3>1. Max(1..k) = k /\ 1..k # {} /\ (1..k) \ {k} = 1..(k - 1) /\ 1..k \in SUBSET DOMAIN s
      BY <1>1, <2>1, LastOf
    <3> QED
      BY <1>4, <3>1 DEF NamesWalk
  <2> QED
    BY <2>2, <2>3
<1> DEFINE Good == {k \in Nat : k <= Len(s) => NamesTo(names, s, at, k, f[1..k])}
<1>7. 0 \in Good
  <2>1. ~\E i : i \in 1..0
    OBVIOUS
  <2>2. {NameOf(s, i) : i \in 1..0} = {}
    BY <2>1
  <2> QED
    BY <1>6, <2>1, <2>2 DEF NamesTo
<1>8. ASSUME NEW k \in Nat, k < Len(s), k \in Good PROVE k + 1 \in Good
  <2>1. NamesTo(names, s, at, k, f[1..k]) /\ k + 1 \in 1..Len(s) /\ (k + 1) - 1 = k
    BY <1>1, <1>8
  <2>2. f[1..(k + 1)] = Named(f[1..k], s[k + 1], at)
    BY <1>6, <2>1
  <2>3. NamesTo(names, s, at, k + 1, f[1..(k + 1)])
    BY <2>1, <2>2, NamesToNext DEF s
  <2> QED
    BY <2>3
<1>9. Len(s) \in Good
  <2>1. Good \in SUBSET Nat
    OBVIOUS
  <2> HIDE DEF Good
  <2> QED
    BY <1>1, <1>7, <1>8, <2>1, UpTo
<1> QED
  BY <1>1, <1>5, <1>9 DEF s

(* The components in the order of their files.                             *)
AllSpecs == UNION {Range(Specs(file)) : file \in DOMAIN Folder}
Registries == [components : Seq(DOMAIN Folder), by_name : NameMaps, infos : Seq(AllSpecs)]
NoCommands == [components |-> <<>>, by_name |-> <<>>, infos |-> <<>>]

Has(specs, n) == \E i \in DOMAIN specs : NameOf(specs, i) = n
Declares(file, n) == Loadable(file) /\ Has(Specs(file), n)

RegistryWalk(f) ==
  f = [S \in SUBSET DOMAIN [file \in DOMAIN Folder |-> file] |->
         IF S = {} THEN NoCommands ELSE load_one(f[S \ {Max(S)}], [file \in DOMAIN Folder |-> file][Max(S)])]

LEMMA RegistryIs == DotcmdRegistry = (CHOOSE f : RegistryWalk(f))[DOMAIN [file \in DOMAIN Folder |-> file]]
  BY DEF DotcmdRegistry, FoldLeft, MapThenFoldSet, RegistryWalk, NoCommands

(* An entry is that of the first component that declares its name.         *)
EntryFirst(r, k, n) ==
  LET e == r.by_name[n]
      file == r.components[e.at]
  IN /\ e.at \in DOMAIN r.components
     /\ file \in 1..k /\ Declares(file, n) /\ e.id = FirstId(file, n)
     /\ \A g \in 1..k : Declares(g, n) => file <= g

RegistryTo(k, r) ==
  /\ r \in Registries
  /\ \A n : n \in DOMAIN r.by_name <=> \E file \in 1..k : Declares(file, n)
  /\ \A n : Has(r.infos, n) <=> \E file \in 1..k : Declares(file, n)
  /\ \A n \in DOMAIN r.by_name : EntryFirst(r, k, n)

LEMMA FirstIdIs ==
  ASSUME NEW file \in DOMAIN Folder, NEW n, Declares(file, n)
  PROVE  \E i \in 1..Len(Specs(file)) :
           /\ NameOf(Specs(file), i) = n /\ \A j \in 1..(i - 1) : NameOf(Specs(file), j) # n
           /\ FirstId(file, n) = Specs(file)[i].id
<1> DEFINE s == Specs(file)
           ks == {k \in DOMAIN s : NameOf(s, k) = n}
<1>1. DOMAIN s = 1..Len(s) /\ Len(s) \in Nat
  BY SpecsType
<1>2. ks \in SUBSET Nat /\ ks # {}
  BY <1>1 DEF Declares, Has
<1>3. PICK i \in ks : \A j \in ks : i <= j
  <2> HIDE DEF ks
  <2> QED
    BY <1>2, Least
<1>4. FirstId(file, n) = s[CHOOSE k \in ks : \A j \in ks : k <= j].id
  BY DEF FirstId, NameOf, Specs
<1>5. (CHOOSE k \in ks : \A j \in ks : k <= j) = i
  <2>1. \A k \in ks : (\A j \in ks : k <= j) => k = i
    BY <1>2, <1>3
  <2> HIDE DEF ks
  <2> QED
    BY <1>3, <2>1
<1>6. i \in 1..Len(s) /\ NameOf(s, i) = n
  BY <1>1, <1>3
<1>7. \A j \in 1..(i - 1) : NameOf(s, j) # n
  BY <1>1, <1>3, <1>6
<1> QED
  BY <1>4, <1>5, <1>6, <1>7

LEMMA NamesOver ==
  ASSUME NEW k \in Nat, NEW n, NEW file, file = k + 1
  PROVE  (\E g \in 1..(k + 1) : Declares(g, n)) <=> (\E g \in 1..k : Declares(g, n)) \/ Declares(file, n)
<1>1. \A g : g \in 1..(k + 1) <=> g \in 1..k \/ g = file
  OBVIOUS
<1> QED
  BY <1>1

LEMMA HasJoin ==
  ASSUME NEW S, NEW s \in Seq(S), NEW t \in Seq(S), NEW n
  PROVE  Has(s \o t, n) <=> Has(s, n) \/ Has(t, n)
<1> DEFINE u == s \o t
<1>1. /\ Len(s) \in Nat /\ Len(t) \in Nat /\ DOMAIN s = 1..Len(s) /\ DOMAIN t = 1..Len(t)
      /\ DOMAIN u = 1..(Len(s) + Len(t))
      /\ \A i \in 1..(Len(s) + Len(t)) : u[i] = IF i <= Len(s) THEN s[i] ELSE t[i - Len(s)]
  OBVIOUS
<1> HIDE DEF u
<1>2. \A i \in DOMAIN s : i \in DOMAIN u /\ u[i] = s[i]
  BY <1>1
<1>3. \A i \in DOMAIN t : i + Len(s) \in DOMAIN u /\ u[i + Len(s)] = t[i]
  BY <1>1
<1>4. \A i \in DOMAIN u : (i \in DOMAIN s /\ u[i] = s[i]) \/ (i - Len(s) \in DOMAIN t /\ u[i] = t[i - Len(s)])
  BY <1>1
<1>5. Has(u, n) <=> Has(s, n) \/ Has(t, n)
  BY <1>2, <1>3, <1>4 DEF Has, NameOf
<1> QED
  BY <1>5 DEF u

LEMMA RegistryToNext ==
  ASSUME NEW k \in Nat, k + 1 \in DOMAIN Folder, NEW r, RegistryTo(k, r)
  PROVE  RegistryTo(k + 1, load_one(r, k + 1))
<1> DEFINE file == k + 1
           s == Specs(file)
           at == Len(r.components) + 1
           q == load_one(r, file)
<1>1. /\ r \in Registries /\ file \in DOMAIN Folder
      /\ \A n : n \in DOMAIN r.by_name <=> \E g \in 1..k : Declares(g, n)
      /\ \A n : Has(r.infos, n) <=> \E g \in 1..k : Declares(g, n)
      /\ \A n \in DOMAIN r.by_name : EntryFirst(r, k, n)
  BY DEF RegistryTo
<1>2. r.components \in Seq(DOMAIN Folder) /\ r.by_name \in NameMaps /\ r.infos \in Seq(AllSpecs)
  BY <1>1 DEF Registries
<1>3. \A n : (\E g \in 1..(k + 1) : Declares(g, n)) <=> (\E g \in 1..k : Declares(g, n)) \/ Declares(file, n)
  BY NamesOver
<1>4. \A g : g \in 1..(k + 1) <=> g \in 1..k \/ g = file
  OBVIOUS
<1>5. CASE ~Loadable(file)
  <2>1. q = r
    BY <1>5, LoadOne
  <2>2. \A n : ~Declares(file, n)
    BY <1>5 DEF Declares
  <2>3. \A n \in DOMAIN r.by_name : EntryFirst(r, k + 1, n)
    BY <1>1, <1>4, <2>2 DEF EntryFirst
  <2> QED
    BY <1>1, <1>3, <2>1, <2>2, <2>3 DEF RegistryTo
<1>6. CASE Loadable(file)
  <2> DEFINE new == NamedAll(r.by_name, s, at)
  <2>1. q = [components |-> Append(r.components, file), by_name |-> new, infos |-> r.infos \o s]
    BY <1>6, LoadOne DEF Specs
  <2>2. /\ at \in Nat /\ at = Len(r.components) + 1 /\ Len(r.components) \in Nat
        /\ DOMAIN r.components = 1..Len(r.components)
        /\ Append(r.components, file) \in Seq(DOMAIN Folder)
        /\ DOMAIN Append(r.components, file) = 1..(Len(r.components) + 1)
        /\ Append(r.components, file)[at] = file
        /\ \A i \in 1..Len(r.components) : Append(r.components, file)[i] = r.components[i]
    BY <1>1, <1>2
  <2>3. NamesTo(r.by_name, s, at, Len(s), new)
    BY <1>1, <1>2, <2>2, NamedAllTo
  <2>4. s \in Seq(AllSpecs) /\ r.infos \o s \in Seq(AllSpecs) /\ DOMAIN s = 1..Len(s)
    <3>1. s \in Seq(Range(s)) /\ Range(s) \subseteq AllSpecs /\ DOMAIN s = 1..Len(s)
      BY <1>1, SpecsType DEF AllSpecs
    <3> HIDE DEF s
    <3>2. s \in Seq(AllSpecs)
      BY <3>1
    <3> QED
      BY <1>2, <3>1, <3>2
  <2> HIDE DEF file, s, at, q, new
  <2>5. q.components = Append(r.components, file) /\ q.by_name = new /\ q.infos = r.infos \o s
    BY <2>1
  <2>6. q \in Registries
    BY <2>1, <2>2, <2>3, <2>4 DEF Registries, NamesTo
  <2>7. \A n : Declares(file, n) <=> \E i \in 1..Len(s) : NameOf(s, i) = n
    BY <1>6, <2>4 DEF Declares, Has, s
  <2>8. DOMAIN new = DOMAIN r.by_name \cup {NameOf(s, i) : i \in 1..Len(s)}
    BY <2>3 DEF NamesTo
  <2>9. ASSUME NEW n PROVE n \in DOMAIN q.by_name <=> \E g \in 1..(k + 1) : Declares(g, n)
    <3>1. n \in DOMAIN q.by_name <=> n \in DOMAIN r.by_name \/ \E i \in 1..Len(s) : NameOf(s, i) = n
      BY <2>5, <2>8
    <3> QED
      BY <1>1, <1>3, <2>7, <3>1
  <2>10. ASSUME NEW n
         PROVE  Has(q.infos, n) <=> \E g \in 1..(k + 1) : Declares(g, n)
    <3>1. Has(q.infos, n) <=> Has(r.infos, n) \/ Has(s, n)
      BY <1>2, <2>4, <2>5, HasJoin
    <3>2. Has(s, n) <=> Declares(file, n)
      BY <1>6 DEF Declares, s
    <3> QED
      BY <1>1, <1>3, <3>1, <3>2
  <2>11. ASSUME NEW n \in DOMAIN q.by_name PROVE EntryFirst(q, k + 1, n)
    <3>1. CASE n \in DOMAIN r.by_name
      <4> DEFINE e == r.by_name[n]
      <4>1. q.by_name[n] = e
        BY <2>3, <2>5, <3>1 DEF NamesTo
      <4>2. EntryFirst(r, k, n)
        BY <1>1, <3>1
      <4>3. e.at \in 1..Len(r.components)
        BY <2>2, <4>2 DEF EntryFirst
      <4>4. q.components[e.at] = r.components[e.at] /\ e.at \in DOMAIN q.components
        BY <2>2, <2>5, <4>3
      <4>5. \A g \in 1..k : g <= file
        BY DEF file
      <4> HIDE DEF e
      <4>6. /\ r.components[e.at] \in 1..k /\ Declares(r.components[e.at], n)
            /\ e.id = FirstId(r.components[e.at], n)
            /\ \A g \in 1..k : Declares(g, n) => r.components[e.at] <= g
        BY <4>2 DEF EntryFirst, e
      <4> QED
        BY <1>4, <4>1, <4>4, <4>5, <4>6 DEF EntryFirst, file
    <3>2. CASE n \notin DOMAIN r.by_name
      <4>1. (\A g \in 1..k : ~Declares(g, n)) /\ Declares(file, n)
        BY <1>1, <1>3, <2>9, <2>11, <3>2
      <4>2. PICK i \in 1..Len(s) :
              /\ NameOf(s, i) = n /\ \A j \in 1..(i - 1) : NameOf(s, j) # n
              /\ FirstId(file, n) = s[i].id
        BY <1>1, <4>1, FirstIdIs DEF file, s
      <4>3. q.by_name[n] = Entry(at, s[i])
        BY <2>3, <2>5, <3>2, <4>2 DEF NamesTo
      <4>4. q.by_name[n].at = at /\ q.by_name[n].id = FirstId(file, n)
        BY <4>2, <4>3 DEF Entry
      <4>5. q.components[at] = file /\ at \in DOMAIN q.components /\ file \in 1..(k + 1)
        BY <1>4, <2>2, <2>5
      <4>6. \A g \in 1..(k + 1) : Declares(g, n) => file <= g
        BY <1>4, <4>1 DEF file
      <4> QED
        BY <4>1, <4>4, <4>5, <4>6 DEF EntryFirst
    <3> QED
      BY <3>1, <3>2
  <2>12. RegistryTo(k + 1, q)
    BY <2>6, <2>9, <2>10, <2>11 DEF RegistryTo
  <2> QED
    BY <2>12 DEF q, file
<1> QED
  BY <1>5, <1>6

LEMMA LoadOneType ==
  ASSUME NEW r \in Registries, NEW file \in DOMAIN Folder
  PROVE  load_one(r, file) \in Registries
<1> DEFINE s == Specs(file)
           at == Len(r.components) + 1
           new == NamedAll(r.by_name, s, at)
<1>1. r.components \in Seq(DOMAIN Folder) /\ r.by_name \in NameMaps /\ r.infos \in Seq(AllSpecs)
  BY DEF Registries
<1>2. at \in Nat /\ Append(r.components, file) \in Seq(DOMAIN Folder)
  BY <1>1
<1>3. new \in NameMaps
  BY <1>1, <1>2, NamedAllTo DEF NamesTo
<1>4. r.infos \o s \in Seq(AllSpecs)
  <2>1. s \in Seq(Range(s)) /\ Range(s) \subseteq AllSpecs
    BY SpecsType DEF AllSpecs
  <2> HIDE DEF s
  <2>2. s \in Seq(AllSpecs)
    BY <2>1
  <2> QED
    BY <1>1, <2>2
<1>5. load_one(r, file) =
        IF ~Loadable(file) THEN r
        ELSE [components |-> Append(r.components, file), by_name |-> new, infos |-> r.infos \o s]
  BY LoadOne DEF Specs
<1> HIDE DEF new, s, at
<1> QED
  BY <1>2, <1>3, <1>4, <1>5 DEF Registries

LEMMA RegistryRight == RegistryTo(Len(Folder), DotcmdRegistry)
<1> DEFINE n == Len(Folder)
           order == [file \in DOMAIN Folder |-> file]
           step == [a \in Registries \X (1..n) |-> load_one(a[1], a[2])]
<1>1. n \in Nat /\ DOMAIN Folder = 1..n /\ DOMAIN order = 1..n /\ \A k \in 1..n : order[k] = k
  BY DotAssumption DEF DotAssumption
<1>2. NoCommands \in Registries /\ DOMAIN NoCommands.by_name = {} /\ DOMAIN NoCommands.infos = {}
  <2>1. <<>> \in Seq(DOMAIN Folder) /\ <<>> \in Seq(AllSpecs) /\ DOMAIN <<>> = {}
    OBVIOUS
  <2>2. <<>> \in [{} -> Entries]
    BY <2>1
  <2>3. <<>> \in NameMaps
    BY <2>2 DEF NameMaps
  <2> QED
    BY <2>1, <2>3 DEF NoCommands, Registries
<1>3. step \in [Registries \X (1..n) -> Registries]
  <2> SUFFICES ASSUME NEW a \in Registries \X (1..n) PROVE load_one(a[1], a[2]) \in Registries
    OBVIOUS
  <2> QED
    BY <1>1, LoadOneType
<1> HIDE DEF n, order
<1>4. \E f : RegistryWalk(f)
  <2>1. PICK f : Folds(n, Registries, NoCommands, step, f)
    <3> HIDE DEF step
    <3> QED
      BY <1>1, <1>2, <1>3, FoldExists
  <2>2. \A S \in SUBSET (1..n) :
          f[S] = IF S = {} THEN NoCommands ELSE load_one(f[S \ {Max(S)}], order[Max(S)])
    <3> SUFFICES ASSUME NEW S \in SUBSET (1..n), S # {}
                 PROVE  step[<<f[S \ {Max(S)}], Max(S)>>] = load_one(f[S \ {Max(S)}], order[Max(S)])
      BY <2>1 DEF Folds
    <3>1. Max(S) \in S /\ S \ {Max(S)} \in SUBSET (1..n)
      BY <1>1, MaxBelow
    <3>2. f[S \ {Max(S)}] \in Registries /\ Max(S) \in 1..n /\ order[Max(S)] = Max(S)
      BY <1>1, <2>1, <3>1 DEF Folds
    <3> QED
      BY <3>2
  <2>3. f = [S \in SUBSET (1..n) |-> f[S]]
    BY <2>1 DEF Folds
  <2>4. RegistryWalk(f)
    BY <1>1, <2>2, <2>3 DEF RegistryWalk, order
  <2> QED
    BY <2>4
<1> DEFINE f == CHOOSE f : RegistryWalk(f)
<1>5. RegistryWalk(f)
  BY <1>4
<1>6. DotcmdRegistry = f[1..n]
  BY <1>1, RegistryIs DEF order
<1> HIDE DEF f, step
<1>7. f[1..0] = NoCommands /\ \A k \in 1..n : f[1..k] = load_one(f[1..(k - 1)], k)
  <2>1. 1..0 = {} /\ \A k \in 1..n : 1..k \in SUBSET (1..n) /\ k \in Nat \ {0}
    BY <1>1
  <2>2. f[1..0] = NoCommands
    BY <1>1, <1>5, <2>1 DEF RegistryWalk, order
  <2>3. ASSUME NEW k \in 1..n PROVE f[1..k] = load_one(f[1..(k - 1)], k)
    <3>1. Max(1..k) = k /\ 1..k # {} /\ (1..k) \ {k} = 1..(k - 1) /\ 1..k \in SUBSET DOMAIN order
      BY <1>1, <2>1, LastOf
    <3>2. f[1..k] = load_one(f[1..(k - 1)], order[k])
      BY <1>5, <3>1 DEF RegistryWalk, order
    <3> QED
      BY <1>1, <3>2
  <2> QED
    BY <2>2, <2>3
<1> DEFINE Good == {k \in Nat : k <= n => RegistryTo(k, f[1..k])}
<1>8. 0 \in Good
  <2>1. ~\E g : g \in 1..0
    OBVIOUS
  <2>2. RegistryTo(0, NoCommands)
    BY <1>2, <2>1 DEF RegistryTo, Has
  <2> QED
    BY <1>7, <2>2
<1>9. ASSUME NEW k \in Nat, k < n, k \in Good PROVE k + 1 \in Good
  <2>1. RegistryTo(k, f[1..k]) /\ k + 1 \in 1..n /\ (k + 1) - 1 = k
    BY <1>1, <1>9
  <2>2. f[1..(k + 1)] = load_one(f[1..k], k + 1)
    BY <1>7, <2>1
  <2>3. RegistryTo(k + 1, f[1..(k + 1)])
    BY <1>1, <2>1, <2>2, RegistryToNext
  <2> QED
    BY <2>3
<1>10. n \in Good
  <2>1. Good \in SUBSET Nat
    OBVIOUS
  <2> HIDE DEF Good
  <2> QED
    BY <1>1, <1>8, <1>9, <2>1, UpTo
<1> QED
  BY <1>1, <1>6, <1>10 DEF n

(* What `.name` finds: the first component that declares it, and what the  *)
(* CLI lists is what is declared.                                          *)
LEMMA Found ==
  ASSUME NEW n
  PROVE  /\ n \in list_commands <=> Declaring(n) # {}
         /\ n \in DOMAIN DotcmdRegistry.by_name <=> Declaring(n) # {}
         /\ n \in DOMAIN DotcmdRegistry.by_name =>
              LET e == DotcmdRegistry.by_name[n]
                  file == DotcmdRegistry.components[e.at]
              IN /\ file \in Declaring(n) /\ \A g \in Declaring(n) : file <= g
                 /\ e.id = FirstId(file, n)
<1>1. DOMAIN Folder = 1..Len(Folder)
  BY DotAssumption DEF DotAssumption
<1>2. \A g : g \in Declaring(n) <=> g \in 1..Len(Folder) /\ Declares(g, n)
  BY <1>1 DEF Declaring, Declares, Has, NameOf, Specs
<1>3. /\ n \in DOMAIN DotcmdRegistry.by_name <=> \E g \in 1..Len(Folder) : Declares(g, n)
      /\ Has(DotcmdRegistry.infos, n) <=> \E g \in 1..Len(Folder) : Declares(g, n)
      /\ n \in DOMAIN DotcmdRegistry.by_name => EntryFirst(DotcmdRegistry, Len(Folder), n)
  BY RegistryRight DEF RegistryTo
<1>4. n \in list_commands <=> Has(DotcmdRegistry.infos, n)
  BY DEF list_commands, Has, NameOf
<1> QED
  BY <1>2, <1>3, <1>4 DEF EntryFirst

-----------------------------------------------------------------------------
(* The commands that run.                                                  *)

(* The connection that was opened last is the current one.                 *)
CurrentLast == current # NoId => current \in Opened /\ \A id \in Opened : id <= current

(* SQL that took effect did so there.                                      *)
Sound(queries) ==
  \A k \in DOMAIN queries : queries[k].ok =>
    /\ queries[k].on \in Opened /\ core[queries[k].on] = "open"
    /\ \A id \in Opened : id <= queries[k].on

(* A command that runs is the registry's.                                  *)
Invoked ==
  LET n == Lower[running.typed] IN
  /\ n \in DOMAIN DotcmdRegistry.by_name
  /\ running.by = DotcmdRegistry.components[DotcmdRegistry.by_name[n].at]
  /\ running.id = DotcmdRegistry.by_name[n].id

Queries == [on : Ids \cup {NoId}, ok : BOOLEAN]

DotInv ==
  /\ HandlesInv /\ CurrentLast
  /\ ran \in Seq(Queries) /\ Sound(ran)
  /\ running # Idle => Invoked /\ shown = Idle
  /\ running = Idle => ran = <<>>
  /\ Dispatched

LEMMA CurrentStep ==
  ASSUME HandlesInv, CurrentLast, [HandlesNext]_handleVars
  PROVE  CurrentLast'
<1>1. next \in Nat /\ kind \in [Ids -> Kinds \cup {NoId}] /\ \A id \in Ids : id \in Nat
  BY HandlesAssumption DEF HandlesInv, HandlesTypeOK, Ids
<1>2. CASE UNCHANGED <<next, kind, current>>
  BY <1>2 DEF CurrentLast, Opened
<1>3. ASSUME NEW k \in Kinds, Created(k)
      PROVE  Opened' = Opened \cup IF k = "connection" THEN {next} ELSE {}
  <2>1. next \in Ids /\ next' = next + 1 /\ kind' = [kind EXCEPT ![next] = k]
    BY <1>3 DEF Created
  <2>2. \A id : id \in 1..(next' - 1) <=> id \in 1..(next - 1) \/ id = next
    BY <1>1, <2>1 DEF Ids
  <2>3. kind'[next] = k /\ \A id \in 1..(next - 1) : kind'[id] = kind[id]
    BY <1>1, <2>1 DEF Ids
  <2> QED
    BY <2>2, <2>3 DEF Opened
<1>4. CASE Open
  <2>1. Opened' = Opened \cup {next} /\ current' = next
    BY <1>3, <1>4 DEF Open, Kinds
  <2>2. \A id \in Opened : id <= next
    BY <1>1 DEF Opened
  <2> QED
    BY <1>1, <2>1, <2>2 DEF CurrentLast
<1>5. ASSUME NEW k \in Children, OpenChild(k) PROVE CurrentLast'
  <2>1. k \in Kinds /\ k # "connection" /\ Created(k) /\ current' = current
    BY <1>5 DEF OpenChild, Children, Kinds
  <2>2. Opened' = Opened
    BY <1>3, <2>1
  <2> QED
    BY <2>1, <2>2 DEF CurrentLast
<1>6. CASE \E id \in Ids : Close(id) \/ CloseStream(id) \/ Drop(id)
  BY <1>2, <1>6 DEF Close, CloseStream, Drop, tables
<1>7. CASE CallPanics \/ CallReports \/ RunReturns \/ Drained
  BY <1>2, <1>7 DEF CallPanics, CallReports, RunReturns, Drained, tables
<1>8. CASE \E k \in Kinds : DrainOne(k)
  BY <1>2, <1>8 DEF DrainOne
<1>9. CASE UNCHANGED handleVars
  BY <1>2, <1>9 DEF handleVars, tables
<1> QED
  BY <1>4, <1>5, <1>6, <1>7, <1>8, <1>9 DEF HandlesNext

LEMMA DotInitInv == HandlesInit /\ DotInit => DotInv
<1> SUFFICES ASSUME HandlesInit, DotInit PROVE DotInv
  OBVIOUS
<1>1. HandlesInv
  BY HandlesInitInv
<1>2. CurrentLast
  BY DEF HandlesInit, CurrentLast
<1>3. ran \in Seq(Queries) /\ Sound(ran) /\ ran = <<>>
  BY DEF DotInit, Sound
<1> QED
  BY <1>1, <1>2, <1>3 DEF DotInit, DotInv, Dispatched

(* What a query says is so when it ends, ...                               *)
LEMMA QueryStep ==
  ASSUME DotInv, query, UNCHANGED <<tables, resources, guest, pending, current, phase>>
  PROVE  DotInv'
<1>1. traps \in Nat /\ current \in Ids \cup {NoId}
  BY DEF DotInv, HandlesInv, HandlesTypeOK
<1>2. traps' \in Nat
  <2>1. traps' = traps \/ traps' = traps + 1
    BY Zenon DEF query, Trap
  <2> QED
    BY <1>1, <2>1
<1>3. HandlesInv'
  BY <1>2, QuietStep DEF DotInv
<1>4. UNCHANGED <<next, kind, core, current, running, shown>> /\ running # Idle
  BY DEF query, tables, resources
<1>5. CurrentLast' /\ Opened' = Opened
  BY <1>4 DEF DotInv, CurrentLast, Opened
<1>6. PICK q \in Queries :
        /\ ran' = Append(ran, q)
        /\ q.ok => current # NoId /\ q.on = current /\ core[current] = "open"
  <2>1. PICK on \in Ids \cup {NoId}, ok \in BOOLEAN :
          SpiAnswers(on, ok) /\ (ok => current # NoId /\ on = current /\ core[current] = "open")
    BY <1>1 DEF query
  <2> QED
    BY <2>1 DEF SpiAnswers, Queries
<1>7. ran \in Seq(Queries) /\ Sound(ran) /\ CurrentLast
  BY DEF DotInv
<1>8. /\ ran' \in Seq(Queries) /\ DOMAIN ran = 1..Len(ran) /\ DOMAIN ran' = 1..(Len(ran) + 1)
      /\ Len(ran) \in Nat /\ ran'[Len(ran) + 1] = q /\ \A k \in 1..Len(ran) : ran'[k] = ran[k]
  BY <1>6, <1>7
<1>9. ASSUME NEW k \in DOMAIN ran', ran'[k].ok
      PROVE  /\ ran'[k].on \in Opened /\ core[ran'[k].on] = "open"
             /\ \A id \in Opened : id <= ran'[k].on
  <2>1. CASE k \in 1..Len(ran)
    BY <1>7, <1>8, <1>9, <2>1 DEF Sound
  <2>2. CASE k = Len(ran) + 1
    BY <1>6, <1>7, <1>8, <1>9, <2>2 DEF CurrentLast
  <2> QED
    BY <1>8, <2>1, <2>2
<1>10. Sound(ran)'
  BY <1>4, <1>5, <1>9 DEF Sound
<1>11. Invoked' /\ shown' = Idle
  BY <1>4 DEF DotInv, Invoked
<1> QED
  BY <1>3, <1>4, <1>5, <1>8, <1>10, <1>11 DEF DotInv, Dispatched

(* ... what the CLI shows when the command ends: Found says of the registry *)
(* what Dispatched asks for.                                               *)
LEMMA AnswerStep ==
  ASSUME DotInv, unpack_invoke_result, UNCHANGED handleVars
  PROVE  DotInv'
<1> DEFINE n == Lower[running.typed]
<1>1. UNCHANGED <<next, kind, core>> /\ HandlesInv' /\ CurrentLast'
  <2>1. HandlesInv'
    BY NextInv DEF DotInv
  <2> QED
    BY <2>1 DEF DotInv, handleVars, tables, resources, CurrentLast, Opened
<1>2. /\ running # Idle /\ running' = Idle /\ ran' = <<>>
      /\ shown'.typed = running.typed /\ shown'.kind # "none"
      /\ shown'.by = running.by /\ shown'.id = running.id /\ shown'.ran = ran
  BY DEF unpack_invoke_result
<1>3. Invoked /\ Sound(ran)
  BY <1>2 DEF DotInv
<1>4. /\ (n \in list_commands) = (Declaring(n) # {})
      /\ running.by \in Declaring(n) /\ \A file \in Declaring(n) : running.by <= file
      /\ running.id = FirstId(running.by, n)
  <2>1. n \in DOMAIN DotcmdRegistry.by_name
    BY <1>3 DEF Invoked
  <2> QED
    BY <1>3, <2>1, Found DEF Invoked
<1>5. Opened' = Opened
  BY <1>1 DEF Opened
<1>6. Dispatched'
  BY <1>1, <1>2, <1>3, <1>4, <1>5 DEF Dispatched, Sound
<1>7. Sound(<<>>)' /\ <<>> \in Seq(Queries)
  BY DEF Sound
<1> QED
  BY <1>1, <1>2, <1>6, <1>7 DEF DotInv

LEMMA OpeningStep ==
  ASSUME DotInv, NEW typed, invoke(typed) \/ FallsBack(typed), UNCHANGED handleVars
  PROVE  DotInv'
<1> DEFINE n == Lower[typed]
<1>1. UNCHANGED <<next, kind, core>> /\ HandlesInv' /\ CurrentLast'
  <2>1. HandlesInv'
    BY NextInv DEF DotInv
  <2> QED
    BY <2>1 DEF DotInv, handleVars, tables, resources, CurrentLast, Opened
<1>2. <<>> \in Seq(Queries) /\ Sound(<<>>) /\ Sound(<<>>)' /\ ran = <<>>
  <2>1. running = Idle
    BY DEF invoke, FallsBack
  <2> QED
    BY <2>1 DEF DotInv, Sound
<1>3. CASE invoke(typed)
  <2>1. n \in DOMAIN DotcmdRegistry.by_name /\ ran' = <<>> /\ shown' = Idle
    BY <1>3 DEF invoke
  <2>2. running' = [typed |-> typed, by |-> DotcmdRegistry.components[DotcmdRegistry.by_name[n].at],
                    id |-> DotcmdRegistry.by_name[n].id]
    BY <1>3 DEF invoke
  <2>3. Invoked'
    BY <2>1, <2>2 DEF Invoked
  <2> QED
    BY <1>1, <1>2, <2>1, <2>3 DEF DotInv, Dispatched
<1>4. CASE FallsBack(typed)
  <2>1. /\ running = Idle /\ running' = Idle /\ ran' = ran
        /\ n \notin DOMAIN DotcmdRegistry.by_name
        /\ shown'.typed = typed /\ shown'.kind = "none" /\ shown'.ran = <<>>
    BY <1>4 DEF FallsBack
  <2>2. (n \in list_commands) = (Declaring(n) # {}) /\ Declaring(n) = {}
    BY <2>1, Found
  <2>3. Dispatched'
    BY <2>1, <2>2 DEF Dispatched
  <2> QED
    BY <1>1, <1>2, <2>1, <2>3 DEF DotInv
<1> QED
  BY <1>3, <1>4

LEMMA EditStep ==
  ASSUME DotInv, spi_edit, UNCHANGED <<tables, resources, guest, pending, current, phase>>
  PROVE  DotInv'
<1>1. UNCHANGED <<next, kind, core, current, running, ran, shown>> /\ running # Idle /\ traps' = traps
  BY DEF spi_edit, tables, resources
<1>2. HandlesInv'
  BY <1>1, QuietStep DEF DotInv, HandlesInv, HandlesTypeOK
<1>3. CurrentLast' /\ Sound(ran)' /\ Invoked' /\ Dispatched'
  BY <1>1 DEF DotInv, CurrentLast, Sound, Opened, Invoked, Dispatched
<1> QED
  BY <1>1, <1>2, <1>3 DEF DotInv

LEMMA BetweenStep == DotInv /\ BetweenCommands => DotInv'
<1> SUFFICES ASSUME DotInv, BetweenCommands PROVE DotInv'
  OBVIOUS
<1>1. /\ running' = Idle /\ ran' = <<>> /\ shown' = Idle
      /\ HandlesInv /\ CurrentLast /\ [HandlesNext]_handleVars
  BY DEF BetweenCommands, DotInv
<1>2. HandlesInv' /\ CurrentLast'
  BY <1>1, NextInv, CurrentStep
<1>3. Sound(<<>>)' /\ <<>> \in Seq(Queries)
  BY DEF Sound
<1> QED
  BY <1>1, <1>2, <1>3 DEF DotInv, Dispatched

LEMMA DotNextInv == DotInv /\ [DotNext]_<<handleVars, dotVars>> => DotInv'
<1> SUFFICES ASSUME DotInv, [DotNext]_<<handleVars, dotVars>> PROVE DotInv'
  OBVIOUS
<1>1. CASE \E typed \in DOMAIN Lower : (FallsBack(typed) \/ invoke(typed)) /\ UNCHANGED handleVars
  BY <1>1, OpeningStep
<1>2. CASE (query \/ spi_edit) /\ UNCHANGED <<tables, resources, guest, pending, current, phase>>
  BY <1>2, QueryStep, EditStep
<1>3. CASE unpack_invoke_result /\ UNCHANGED handleVars
  BY <1>3, AnswerStep
<1>4. CASE BetweenCommands
  BY <1>4, BetweenStep
<1>5. CASE UNCHANGED <<handleVars, dotVars>>
  <2>1. UNCHANGED <<next, kind, core, current, running, ran, shown>> /\ UNCHANGED handleVars
    BY <1>5 DEF handleVars, dotVars, tables, resources
  <2>2. HandlesInv'
    BY <2>1, NextInv DEF DotInv
  <2>3. CurrentLast' /\ Sound(ran)' /\ Dispatched'
    BY <2>1 DEF DotInv, CurrentLast, Sound, Opened, Dispatched
  <2>4. running # Idle => Invoked' /\ shown' = Idle
    BY <2>1 DEF DotInv, Invoked
  <2> QED
    BY <2>1, <2>2, <2>3, <2>4 DEF DotInv
<1> QED
  BY <1>1, <1>2, <1>3, <1>4, <1>5 DEF DotNext

(* A dot command is answered by the first component, in the order of the   *)
(* files, that declares its name in whatever case; the built-in commands   *)
(* get the names that nobody declares; and the SQL that a command ran took *)
(* effect on the connection opened last, which was open.                   *)
THEOREM CommandsFindTheirOwner == DotSpec => []Dispatched
<1>1. DotInv => Dispatched
  BY DEF DotInv
<1> QED
  BY <1>1, DotInitInv, DotNextInv, PTL DEF DotSpec
-----------------------------------------------------------------------------
(* The Delta tables (DeltaScan).                                           *)

(* A set of positions in their order.                                      *)
AscendsTo(S, f) ==
  /\ f \in [1..Cardinality(S) -> S] /\ Range(f) = S
  /\ \A i, j \in 1..Cardinality(S) : i < j => f[i] < f[j]

LEMMA AscendingExists ==
  ASSUME NEW n \in Nat, NEW S \in SUBSET (1..n)
  PROVE  \E f : AscendsTo(S, f)
<1> DEFINE Good == {k \in Nat : \E f : AscendsTo(S \cap (1..k), f)}
<1>1. 0 \in Good
  <2>1. S \cap (1..0) = {} /\ Cardinality({}) = 0
    BY FS_EmptySet
  <2>2. AscendsTo({}, [i \in 1..0 |-> i])
    BY <2>1 DEF AscendsTo, Range
  <2> QED
    BY <2>1, <2>2
<1>2. ASSUME NEW k \in Nat, k \in Good PROVE k + 1 \in Good
  <2> DEFINE T == S \cap (1..k)
             U == S \cap (1..(k + 1))
             m == Cardinality(T)
  <2>1. PICK f : AscendsTo(T, f)
    BY <1>2
  <2>2. IsFiniteSet(T) /\ m \in Nat /\ T \subseteq 1..k
    <3>1. IsFiniteSet(1..k)
      BY FS_Interval
    <3> QED
      BY <3>1, FS_Subset, FS_CardinalityType
  <2>3. CASE k + 1 \notin S
    <3>1. U = T
      BY <2>3
    <3> QED
      BY <2>1, <3>1
  <2>4. CASE k + 1 \in S
    <3>1. U = T \cup {k + 1} /\ k + 1 \notin T
      BY <2>4
    <3>2. Cardinality(U) = m + 1
      BY <2>2, <3>1, FS_AddElement
    <3> HIDE DEF T, U, m
    <3> DEFINE g == [i \in 1..(m + 1) |-> IF i = m + 1 THEN k + 1 ELSE f[i]]
    <3>3. /\ f \in [1..m -> T] /\ Range(f) = T /\ \A i, j \in 1..m : i < j => f[i] < f[j]
      BY <2>1 DEF AscendsTo, m
    <3>4. g \in [1..(m + 1) -> U] /\ g[m + 1] = k + 1 /\ \A i \in 1..m : g[i] = f[i]
      <4>1. m + 1 \in 1..(m + 1) /\ \A i \in 1..(m + 1) : i = m + 1 \/ i \in 1..m
        BY <2>2
      <4>2. g[m + 1] = k + 1
        BY <4>1
      <4>3. \A i \in 1..m : i # m + 1 /\ i \in 1..(m + 1) /\ g[i] = f[i]
        BY <2>2
      <4>4. \A i \in 1..(m + 1) : g[i] \in U
        BY <3>1, <3>3, <4>1, <4>2, <4>3
      <4>5. g \in [1..(m + 1) -> U]
        BY <4>4
      <4> HIDE DEF g
      <4> QED
        BY <4>2, <4>3, <4>5
    <3> HIDE DEF g
    <3>5. Range(g) = U
      <4>1. \A x \in T : \E i \in 1..m : f[i] = x
        BY <3>3 DEF Range
      <4>2. \A x \in U : \E i \in 1..(m + 1) : g[i] = x
        BY <2>2, <3>1, <3>4, <4>1
      <4> QED
        BY <3>4, <4>2 DEF Range
    <3>6. \A i, j \in 1..(m + 1) : i < j => g[i] < g[j]
      <4> SUFFICES ASSUME NEW i \in 1..(m + 1), NEW j \in 1..(m + 1), i < j PROVE g[i] < g[j]
        OBVIOUS
      <4>0. i \in 1..m
        BY <2>2
      <4>1. i \in 1..m /\ f[i] \in 1..k
        BY <2>2, <3>3, <4>0
      <4>2. CASE j = m + 1
        BY <3>4, <4>1, <4>2
      <4>3. CASE j \in 1..m
        BY <3>3, <3>4, <4>1, <4>3
      <4> QED
        BY <2>2, <4>2, <4>3
    <3>7. AscendsTo(U, g)
      BY <3>2, <3>4, <3>5, <3>6 DEF AscendsTo
    <3> QED
      BY <3>7 DEF U
  <2> QED
    BY <2>3, <2>4
<1>3. n \in Good
  <2>1. Good \in SUBSET Nat
    OBVIOUS
  <2> HIDE DEF Good
  <2> QED
    BY <1>1, <1>2, <2>1, UpTo
<1>4. S \cap (1..n) = S
  OBVIOUS
<1> QED
  BY <1>3, <1>4

LEMMA AscendingIs ==
  ASSUME NEW n \in Nat, NEW S \in SUBSET (1..n)
  PROVE  AscendsTo(S, Ascending(S))
<1>1. \E f \in [1..Cardinality(S) -> S] :
        Range(f) = S /\ \A i, j \in DOMAIN f : i < j => f[i] < f[j]
  BY AscendingExists DEF AscendsTo
<1>2. /\ Ascending(S) \in [1..Cardinality(S) -> S] /\ Range(Ascending(S)) = S
      /\ \A i, j \in DOMAIN Ascending(S) : i < j => Ascending(S)[i] < Ascending(S)[j]
  BY <1>1 DEF Ascending
<1> QED
  BY <1>2 DEF AscendsTo

(* All versions in their order are as they are numbered.                   *)
LEMMA AscendingAll ==
  ASSUME NEW n \in Nat
  PROVE  Cardinality(1..n) = n /\ \A i \in 1..n : Ascending(1..n)[i] = i
<1> DEFINE f == Ascending(1..n)
<1>1. Cardinality(1..n) = n
  BY FS_Interval
<1>2. AscendsTo(1..n, f)
  BY AscendingIs
<1> HIDE DEF f
<1>3. f \in [1..n -> 1..n] /\ Range(f) = 1..n /\ \A i, j \in 1..n : i < j => f[i] < f[j]
  BY <1>1, <1>2 DEF AscendsTo
<1> DEFINE Bad == {i \in 1..n : f[i] # i}
<1>4. SUFFICES ASSUME Bad # {} PROVE FALSE
  BY <1>1 DEF f
<1>5. PICK i \in Bad : \A j \in Bad : i <= j
  <2>1. Bad \in SUBSET Nat
    OBVIOUS
  <2> HIDE DEF Bad
  <2> QED
    BY <1>4, <2>1, Least
<1>6. i \in 1..n /\ f[i] # i /\ f[i] \in 1..n /\ \A j \in 1..(i - 1) : f[j] = j
  <2>1. \A j \in 1..(i - 1) : j \in 1..n /\ j \notin Bad
    BY <1>5
  <2> QED
    BY <1>3, <2>1
<1>7. f[i] > i
  <2>1. \A j \in 1..(i - 1) : f[j] < f[i]
    BY <1>3, <1>6
  <2> QED
    BY <1>6, <2>1
<1>8. PICK m \in 1..n : f[m] = i
  BY <1>3, <1>6 DEF Range
<1>9. CASE m < i
  BY <1>6, <1>8, <1>9
<1>10. CASE m > i
  BY <1>3, <1>6, <1>7, <1>8, <1>10
<1> QED
  BY <1>6, <1>8, <1>9, <1>10

(* Commits.                                                                *)
LogLines == {OtherLine} \cup {AddLine(p) : p \in Files} \cup {RemoveLine(p) : p \in Files}

(* A file comes once, and goes after it came.                              *)
GoodLog(log) ==
  /\ log \in Seq(Seq(LogLines))
  /\ \A i, j \in 1..Len(log), p \in Files :
       AddLine(p) \in Range(log[i]) /\ AddLine(p) \in Range(log[j]) => i = j
  /\ \A j \in 1..Len(log), p \in Files :
       RemoveLine(p) \in Range(log[j]) => \E i \in 1..(j - 1) : AddLine(p) \in Range(log[i])

(* No file comes after it went.                                            *)
OnceIn(lines) ==
  \A i, j \in 1..Len(lines), p \in Files :
    i < j /\ lines[i] = RemoveLine(p) => lines[j] # AddLine(p)

LiveIn(lines) == {p \in Files : AddLine(p) \in Range(lines) /\ RemoveLine(p) \notin Range(lines)}

LEMMA LinesApart ==
  /\ \A p, q : AddLine(p) # RemoveLine(q) /\ AddLine(p) # OtherLine /\ RemoveLine(p) # OtherLine
  /\ \A p, q : AddLine(p) = AddLine(q) => p = q
  /\ \A p, q : RemoveLine(p) = RemoveLine(q) => p = q
BY DEF AddLine, RemoveLine, OtherLine

LEMMA ContainsIs ==
  ASSUME NEW S, NEW s \in Seq(S), NEW e
  PROVE  Contains(s, e) <=> e \in Range(s)
BY DEF Contains, Range

-----------------------------------------------------------------------------
(* What active_files makes of the lines.                                   *)
States == [order : Seq(Files), active : SUBSET Files]
NoLines == [order |-> <<>>, active |-> {}]

ReplayWalk(lines, f) ==
  f = [S \in SUBSET DOMAIN lines |->
         IF S = {} THEN NoLines ELSE Replay(f[S \ {Max(S)}], lines[Max(S)])]

Replayed(lines) == (CHOOSE f : ReplayWalk(lines, f))[DOMAIN lines]

KeptOf(end) == {k \in DOMAIN end.order : end.order[k] \in end.active}
KeptInOrder(end) == [i \in 1..Cardinality(KeptOf(end)) |-> end.order[Ascending(KeptOf(end))[i]]]

LEMMA ActiveIs ==
  ASSUME NEW lines
  PROVE  active_files(lines) = KeptInOrder(Replayed(lines))
BY DEF active_files, FoldLeft, MapThenFoldSet, KeptInOrder, KeptOf, Replayed, ReplayWalk, NoLines

LEMMA ReplayType ==
  ASSUME NEW acc \in States, NEW line \in LogLines
  PROVE  Replay(acc, line) \in States
<1>1. CASE line = OtherLine
  BY <1>1, LinesApart DEF Replay, OtherLine
<1>2. ASSUME NEW p \in Files, line = AddLine(p) PROVE Replay(acc, line) \in States
  <2>1. line.op = "add" /\ line.path = p
    BY <1>2 DEF AddLine
  <2>2. Append(acc.order, p) \in Seq(Files)
    BY DEF States
  <2> QED
    BY <2>1, <2>2 DEF Replay, States
<1>3. ASSUME NEW p \in Files, line = RemoveLine(p) PROVE Replay(acc, line) \in States
  BY <1>3 DEF RemoveLine, Replay, States
<1> QED
  BY <1>1, <1>2, <1>3 DEF LogLines

(* The state after the first k lines.                                      *)
AddsTo(lines, k) == {p \in Files : \E i \in 1..k : lines[i] = AddLine(p)}
GoesTo(lines, k) == {p \in Files : \E i \in 1..k : lines[i] = RemoveLine(p)}

StateAt(lines, k, end) ==
  /\ end \in States /\ Range(end.order) = AddsTo(lines, k)
  /\ \A a, b \in 1..Len(end.order) : end.order[a] = end.order[b] => a = b
  /\ end.active = AddsTo(lines, k) \ GoesTo(lines, k)

LEMMA RangeOfAppend ==
  ASSUME NEW S, NEW s \in Seq(S), NEW x \in S
  PROVE  Range(Append(s, x)) = Range(s) \cup {x}
<1>1. /\ Len(s) \in Nat /\ DOMAIN s = 1..Len(s) /\ DOMAIN Append(s, x) = 1..(Len(s) + 1)
      /\ Append(s, x)[Len(s) + 1] = x /\ \A i \in 1..Len(s) : Append(s, x)[i] = s[i]
  OBVIOUS
<1>2. \A i \in 1..(Len(s) + 1) : i \in 1..Len(s) \/ i = Len(s) + 1
  BY <1>1
<1>3. Len(s) + 1 \in 1..(Len(s) + 1) /\ \A i \in 1..Len(s) : i \in 1..(Len(s) + 1)
  BY <1>1
<1> QED
  BY <1>1, <1>2, <1>3 DEF Range

LEMMA StateNext ==
  ASSUME NEW lines \in Seq(LogLines), OnceIn(lines), NEW k \in Nat, k + 1 <= Len(lines),
         NEW end, StateAt(lines, k, end)
  PROVE  StateAt(lines, k + 1, Replay(end, lines[k + 1]))
<1> DEFINE line == lines[k + 1]
           more == Replay(end, line)
           n == Len(end.order)
<1>1. k + 1 \in 1..Len(lines) /\ line \in LogLines /\ \A i \in 1..k : i \in 1..Len(lines) /\ i < k + 1
  OBVIOUS
<1>2. \A i \in 1..(k + 1) : i \in 1..k \/ i = k + 1
  OBVIOUS
<1>3. \A i \in 1..k : i \in 1..(k + 1)
  OBVIOUS
<1>4. k + 1 \in 1..(k + 1)
  OBVIOUS
<1>5. more \in States
  BY <1>1, ReplayType DEF StateAt
<1>6. AddsTo(lines, k + 1) = AddsTo(lines, k) \cup {p \in Files : line = AddLine(p)}
  BY <1>2, <1>3, <1>4 DEF AddsTo
<1>7. GoesTo(lines, k + 1) = GoesTo(lines, k) \cup {p \in Files : line = RemoveLine(p)}
  BY <1>2, <1>3, <1>4 DEF GoesTo
<1>8. \A p \in GoesTo(lines, k) : line # AddLine(p)
  BY <1>1 DEF GoesTo, OnceIn
<1>9. /\ end.order \in Seq(Files) /\ n \in Nat /\ end.active \subseteq Files
      /\ DOMAIN end.order = 1..n
  BY DEF StateAt, States
<1>10. ASSUME NEW p \in Files, line = AddLine(p) PROVE StateAt(lines, k + 1, more)
  <2>1. /\ AddsTo(lines, k + 1) = AddsTo(lines, k) \cup {p} /\ GoesTo(lines, k + 1) = GoesTo(lines, k)
        /\ p \notin GoesTo(lines, k)
    <3>1. {q \in Files : line = AddLine(q)} = {p}
      BY <1>10, LinesApart
    <3>2. {q \in Files : line = RemoveLine(q)} = {}
      BY <1>10, LinesApart
    <3> QED
      BY <1>6, <1>7, <1>8, <1>10, <3>1, <3>2, Zenon
  <2>2. line.op = "add" /\ line.path = p
    BY <1>10 DEF AddLine
  <2>3. CASE p \in end.active
    <3>1. more = end
      BY <2>2, <2>3 DEF Replay
    <3>2. AddsTo(lines, k) \cup {p} = AddsTo(lines, k)
      BY <2>3 DEF StateAt
    <3> QED
      BY <2>1, <3>1, <3>2 DEF StateAt
  <2>4. CASE p \notin end.active
    <3>1. more = [order |-> Append(end.order, p), active |-> end.active \cup {p}]
      BY <2>2, <2>4 DEF Replay
    <3>2. p \notin Range(end.order)
      BY <2>1, <2>4 DEF StateAt
    <3>3. Range(more.order) = AddsTo(lines, k + 1)
      <4>1. Range(Append(end.order, p)) = Range(end.order) \cup {p}
        BY <1>9, RangeOfAppend
      <4>2. more.order = Append(end.order, p)
        BY <3>1
      <4> QED
        BY <2>1, <4>1, <4>2, Zenon DEF StateAt
    <3>4. /\ Len(more.order) = n + 1 /\ more.order[n + 1] = p
          /\ \A a \in 1..n : more.order[a] = end.order[a] /\ end.order[a] # p
      BY <1>9, <3>1, <3>2 DEF Range
    <3>5. \A a, b \in 1..(n + 1) : more.order[a] = more.order[b] => a = b
      <4>1. \A a \in 1..(n + 1) : a \in 1..n \/ a = n + 1
        BY <1>9
      <4> QED
        BY <3>4, <4>1 DEF StateAt
    <3>6. more.active = AddsTo(lines, k + 1) \ GoesTo(lines, k + 1)
      BY <2>1, <3>1 DEF StateAt
    <3> QED
      BY <1>5, <3>3, <3>4, <3>5, <3>6 DEF StateAt
  <2> QED
    BY <2>3, <2>4
<1>11. ASSUME NEW p \in Files, line = RemoveLine(p) PROVE StateAt(lines, k + 1, more)
  <2>1. AddsTo(lines, k + 1) = AddsTo(lines, k) /\ GoesTo(lines, k + 1) = GoesTo(lines, k) \cup {p}
    <3>1. {q \in Files : line = RemoveLine(q)} = {p}
      BY <1>11, LinesApart
    <3>2. {q \in Files : line = AddLine(q)} = {}
      BY <1>11, LinesApart
    <3> QED
      BY <1>6, <1>7, <3>1, <3>2
  <2>2. line.op = "remove" /\ line.path = p
    BY <1>11 DEF RemoveLine
  <2>3. more.order = end.order /\ more.active = end.active \ {p}
    BY <2>2 DEF Replay, StateAt, States
  <2> QED
    BY <1>5, <2>1, <2>3 DEF StateAt
<1>12. CASE line = OtherLine
  <2>1. AddsTo(lines, k + 1) = AddsTo(lines, k) /\ GoesTo(lines, k + 1) = GoesTo(lines, k)
    <3>1. {q \in Files : line = AddLine(q)} = {} /\ {q \in Files : line = RemoveLine(q)} = {}
      BY <1>12, LinesApart
    <3> QED
      BY <1>6, <1>7, <3>1
  <2>2. more = end
    BY <1>12 DEF Replay, OtherLine
  <2> QED
    BY <2>1, <2>2 DEF StateAt
<1> QED
  BY <1>1, <1>10, <1>11, <1>12 DEF LogLines, more, line

LEMMA StateFirst ==
  ASSUME NEW lines
  PROVE  StateAt(lines, 0, NoLines)
<1>1. ~\E i : i \in 1..0
  OBVIOUS
<1>2. AddsTo(lines, 0) = {} /\ GoesTo(lines, 0) = {}
  BY <1>1 DEF AddsTo, GoesTo
<1>3. NoLines \in States /\ Len(NoLines.order) = 0 /\ NoLines.active = {} /\ NoLines.order = <<>>
  BY DEF NoLines, States
<1>4. Range(NoLines.order) = {}
  BY <1>3 DEF Range
<1> QED
  BY <1>1, <1>2, <1>3, <1>4 DEF StateAt

LEMMA ReplayedIs ==
  ASSUME NEW lines \in Seq(LogLines), OnceIn(lines)
  PROVE  StateAt(lines, Len(lines), Replayed(lines))
<1> DEFINE step == [a \in States \X (1..Len(lines)) |-> Replay(a[1], lines[a[2]])]
<1>1. Len(lines) \in Nat /\ DOMAIN lines = 1..Len(lines)
  OBVIOUS
<1>2. step \in [States \X (1..Len(lines)) -> States]
  <2> SUFFICES ASSUME NEW a \in States \X (1..Len(lines)) PROVE Replay(a[1], lines[a[2]]) \in States
    OBVIOUS
  <2>1. a[1] \in States /\ lines[a[2]] \in LogLines
    BY <1>1
  <2> QED
    BY <2>1, ReplayType
<1>3. NoLines \in States
  BY DEF NoLines, States
<1>4. \E f : ReplayWalk(lines, f)
  <2>1. PICK f : Folds(Len(lines), States, NoLines, step, f)
    <3> HIDE DEF step
    <3> QED
      BY <1>1, <1>2, <1>3, FoldExists
  <2>2. \A S \in SUBSET (1..Len(lines)) :
          f[S] = IF S = {} THEN NoLines ELSE Replay(f[S \ {Max(S)}], lines[Max(S)])
    <3> SUFFICES ASSUME NEW S \in SUBSET (1..Len(lines)), S # {}
                 PROVE  step[<<f[S \ {Max(S)}], Max(S)>>] = Replay(f[S \ {Max(S)}], lines[Max(S)])
      BY <2>1 DEF Folds
    <3>1. Max(S) \in S /\ S \ {Max(S)} \in SUBSET (1..Len(lines))
      BY <1>1, MaxBelow
    <3>2. f[S \ {Max(S)}] \in States /\ Max(S) \in 1..Len(lines)
      BY <2>1, <3>1 DEF Folds
    <3> QED
      BY <3>2
  <2>3. f = [S \in SUBSET (1..Len(lines)) |-> f[S]]
    BY <2>1 DEF Folds
  <2>4. ReplayWalk(lines, f)
    BY <1>1, <2>2, <2>3 DEF ReplayWalk
  <2> QED
    BY <2>4
<1> DEFINE f == CHOOSE f : ReplayWalk(lines, f)
<1>5. ReplayWalk(lines, f)
  BY <1>4
<1>6. Replayed(lines) = f[1..Len(lines)]
  BY <1>1 DEF Replayed
<1> HIDE DEF f, step
<1>7. f[1..0] = NoLines /\ \A k \in 1..Len(lines) : f[1..k] = Replay(f[1..(k - 1)], lines[k])
  <2>1. 1..0 = {} /\ \A k \in 1..Len(lines) : 1..k \in SUBSET (1..Len(lines)) /\ k \in Nat \ {0}
    BY <1>1
  <2>2. f[1..0] = NoLines
    BY <1>1, <1>5, <2>1 DEF ReplayWalk
  <2>3. ASSUME NEW k \in 1..Len(lines) PROVE f[1..k] = Replay(f[1..(k - 1)], lines[k])
    <3>1. Max(1..k) = k /\ 1..k # {} /\ (1..k) \ {k} = 1..(k - 1) /\ 1..k \in SUBSET DOMAIN lines
      BY <1>1, <2>1, LastOf
    <3> QED
      BY <1>5, <3>1 DEF ReplayWalk
  <2> QED
    BY <2>2, <2>3
<1> DEFINE Good == {k \in Nat : k <= Len(lines) => StateAt(lines, k, f[1..k])}
<1>8. 0 \in Good
  BY <1>7, StateFirst
<1>9. ASSUME NEW k \in Nat, k < Len(lines), k \in Good PROVE k + 1 \in Good
  <2>1. StateAt(lines, k, f[1..k]) /\ k + 1 \in 1..Len(lines) /\ (k + 1) - 1 = k
    BY <1>1, <1>9
  <2>2. f[1..(k + 1)] = Replay(f[1..k], lines[k + 1])
    BY <1>7, <2>1
  <2>3. StateAt(lines, k + 1, f[1..(k + 1)])
    BY <2>1, <2>2, StateNext
  <2> QED
    BY <2>3
<1>10. Len(lines) \in Good
  <2>1. Good \in SUBSET Nat
    OBVIOUS
  <2> HIDE DEF Good
  <2> QED
    BY <1>1, <1>8, <1>9, <2>1, UpTo
<1> QED
  BY <1>1, <1>6, <1>10

(* active_files lists each file that came and did not go, once.            *)
LEMMA ActiveFiles ==
  ASSUME NEW lines \in Seq(LogLines), OnceIn(lines)
  PROVE  /\ active_files(lines) \in [1..Cardinality(LiveIn(lines)) -> Files]
         /\ Range(active_files(lines)) = LiveIn(lines)
         /\ IsFiniteSet(LiveIn(lines)) /\ Cardinality(LiveIn(lines)) \in Nat
<1> DEFINE end == Replayed(lines)
           kept == KeptOf(end)
           live == LiveIn(lines)
           n == Len(end.order)
<1>1. StateAt(lines, Len(lines), end)
  BY ReplayedIs
<1> HIDE DEF end
<1>2. DOMAIN lines = 1..Len(lines)
  OBVIOUS
<1>3. live = AddsTo(lines, Len(lines)) \ GoesTo(lines, Len(lines))
  BY <1>2 DEF LiveIn, AddsTo, GoesTo, Range
<1>4. /\ end.order \in Seq(Files) /\ n \in Nat /\ DOMAIN end.order = 1..n /\ end.active = live
      /\ live \subseteq Range(end.order) /\ \A a, b \in 1..n : end.order[a] = end.order[b] => a = b
  BY <1>1, <1>3 DEF StateAt, States
<1>5. kept \in SUBSET (1..n) /\ IsFiniteSet(kept)
  <2>1. kept \in SUBSET (1..n)
    BY <1>4 DEF KeptOf
  <2>2. IsFiniteSet(1..n)
    BY <1>4, FS_Interval
  <2> QED
    BY <2>1, <2>2, FS_Subset
<1> DEFINE named == [k \in kept |-> end.order[k]]
<1>6. named \in Bijection(kept, live)
  <2>1. \A k \in kept : k \in 1..n /\ end.order[k] \in live
    BY <1>4 DEF KeptOf
  <2>2. named \in [kept -> live]
    BY <2>1
  <2>3. \A x \in live : \E k \in kept : named[k] = x
    <3> SUFFICES ASSUME NEW x \in live PROVE \E k \in kept : end.order[k] = x
      OBVIOUS
    <3>1. PICK k \in 1..n : end.order[k] = x
      BY <1>4 DEF Range
    <3>2. k \in kept
      BY <1>4, <3>1 DEF KeptOf
    <3> QED
      BY <3>1, <3>2
  <2>4. IsInjective(named)
    BY <1>4, <2>1 DEF IsInjective
  <2> QED
    BY <2>2, <2>3, <2>4 DEF Bijection, Injection, Surjection
<1>7. IsFiniteSet(live) /\ Cardinality(live) = Cardinality(kept)
  BY <1>5, <1>6, FS_Bijection DEF ExistsBijection
<1>8. Cardinality(kept) \in Nat
  BY <1>5, FS_CardinalityType
<1> DEFINE g == Ascending(kept)
           m == Cardinality(kept)
<1>9. g \in [1..m -> kept] /\ Range(g) = kept
  BY <1>4, <1>5, AscendingIs DEF AscendsTo
<1>10. active_files(lines) = [i \in 1..m |-> end.order[g[i]]]
  BY ActiveIs DEF KeptInOrder, end
<1> HIDE DEF g, kept, live, m
<1>11. \A i \in 1..m : g[i] \in kept /\ end.order[g[i]] \in live /\ live \subseteq Files
  BY <1>6, <1>9 DEF Bijection, Injection, LiveIn, live
<1>12. active_files(lines) \in [1..m -> Files]
  BY <1>10, <1>11
<1>13. Range(active_files(lines)) = live
  <2>1. \A x \in live : \E k \in kept : end.order[k] = x
    BY <1>6 DEF Bijection, Surjection
  <2>2. \A k \in kept : \E i \in 1..m : g[i] = k
    BY <1>9 DEF Range
  <2>3. \A x \in live : \E i \in 1..m : end.order[g[i]] = x
    BY <2>1, <2>2
  <2> QED
    BY <1>10, <1>11, <2>3 DEF Range
<1> QED
  BY <1>7, <1>8, <1>12, <1>13 DEF live, m

-----------------------------------------------------------------------------
(* What read_log_from_host makes of the commits.                           *)
FlatTo(log, k, lines) ==
  /\ lines \in Seq(LogLines) /\ OnceIn(lines)
  /\ \A x : x \in Range(lines) <=> \E i \in 1..k : x \in Range(log[i])

LEMMA CommitApart ==
  ASSUME NEW log, GoodLog(log), NEW j \in 1..Len(log), NEW p \in Files,
         AddLine(p) \in Range(log[j])
  PROVE  \A i \in 1..j : RemoveLine(p) \notin Range(log[i])
<1> SUFFICES ASSUME NEW i \in 1..j, RemoveLine(p) \in Range(log[i]) PROVE FALSE
  OBVIOUS
<1>1. i \in 1..Len(log) /\ Len(log) \in Nat
  BY DEF GoodLog
<1>2. PICK h \in 1..(i - 1) : AddLine(p) \in Range(log[h])
  BY <1>1 DEF GoodLog
<1>3. h \in 1..Len(log) /\ h # j
  BY <1>1
<1> QED
  BY <1>2, <1>3 DEF GoodLog

(* No file comes back, or goes in the commit it came in.                   *)
NoReturn(log) ==
  /\ log \in Seq(Seq(LogLines))
  /\ \A j \in 1..Len(log), p \in Files :
       AddLine(p) \in Range(log[j]) => \A i \in 1..j : RemoveLine(p) \notin Range(log[i])

LEMMA FlatFirst ==
  ASSUME NEW log, NoReturn(log), 1 \in 1..Len(log)
  PROVE  FlatTo(log, 1, log[1])
<1>1. log[1] \in Seq(LogLines)
  BY DEF NoReturn
<1>2. \A i \in 1..Len(log[1]) : log[1][i] \in Range(log[1])
  BY <1>1 DEF Range
<1>3. OnceIn(log[1])
  BY <1>2 DEF OnceIn, NoReturn
<1>4. \A i \in 1..1 : i = 1
  OBVIOUS
<1> QED
  BY <1>1, <1>3, <1>4 DEF FlatTo

LEMMA FlatNext ==
  ASSUME NEW log, NoReturn(log), NEW k \in Nat, k + 1 \in 1..Len(log),
         NEW lines, FlatTo(log, k, lines)
  PROVE  FlatTo(log, k + 1, lines \o log[k + 1])
<1> DEFINE c == log[k + 1]
           more == lines \o c
<1>1. lines \in Seq(LogLines) /\ c \in Seq(LogLines)
  BY DEF NoReturn, FlatTo
<1>2. more \in Seq(LogLines) /\ Range(more) = Range(lines) \cup Range(c)
  BY <1>1, RangeOfConcat
<1>3. \A i \in 1..(k + 1) : i \in 1..k \/ i = k + 1
  OBVIOUS
<1>4. k + 1 \in 1..(k + 1) /\ \A i \in 1..k : i \in 1..(k + 1) /\ i \in 1..Len(log)
  BY DEF NoReturn
<1>5. \A x : x \in Range(more) <=> \E i \in 1..(k + 1) : x \in Range(log[i])
  BY <1>2, <1>3, <1>4 DEF FlatTo
<1>6. OnceIn(more)
  <2> SUFFICES ASSUME NEW i \in 1..Len(more), NEW j \in 1..Len(more), NEW p \in Files,
                      i < j, more[i] = RemoveLine(p), more[j] = AddLine(p)
               PROVE  FALSE
    BY DEF OnceIn
  <2>1. /\ Len(lines) \in Nat /\ Len(c) \in Nat /\ Len(more) = Len(lines) + Len(c)
        /\ \A h \in 1..Len(more) : more[h] = IF h <= Len(lines) THEN lines[h] ELSE c[h - Len(lines)]
    BY <1>1
  <2>2. CASE j <= Len(lines)
    <3>1. /\ i \in 1..Len(lines) /\ j \in 1..Len(lines)
          /\ lines[i] = RemoveLine(p) /\ lines[j] = AddLine(p)
      BY <2>1, <2>2
    <3> QED
      BY <3>1 DEF FlatTo, OnceIn
  <2>3. CASE j > Len(lines)
    <3>1. j - Len(lines) \in 1..Len(c) /\ c[j - Len(lines)] = AddLine(p)
      BY <2>1, <2>3
    <3>2. AddLine(p) \in Range(c)
      BY <1>1, <3>1 DEF Range
    <3>3. \A h \in 1..(k + 1) : RemoveLine(p) \notin Range(log[h])
      BY <3>2 DEF NoReturn
    <3> HIDE DEF more
    <3>4. RemoveLine(p) \in Range(more)
      <4>1. DOMAIN more = 1..Len(more)
        BY <1>2
      <4>2. more[i] \in Range(more)
        BY <4>1, Zenon DEF Range
      <4> QED
        BY <4>2
    <3>5. PICK h \in 1..(k + 1) : RemoveLine(p) \in Range(log[h])
      BY <1>5, <3>4
    <3> QED
      BY <3>3, <3>5
  <2> QED
    BY <2>1, <2>2, <2>3
<1> QED
  BY <1>2, <1>5, <1>6 DEF FlatTo

LEMMA Flattened ==
  ASSUME NEW log, NoReturn(log), NEW w \in 1..Len(log),
         NEW s, s = [i \in 1..w |-> log[i]]
  PROVE  FlatTo(log, w, FlattenSeq(s))
<1>1. w \in Nat /\ Len(s) = w /\ w # 0 /\ Len(log) \in Nat /\ 1 \in 1..Len(log)
  BY DEF NoReturn
<1> DEFINE f == CHOOSE f : Joins(s, Len(s), f)
<1>2. FlattenSeq(s) = f[w]
  BY <1>1 DEF FlattenSeq, Joins
<1>3. Joins(s, w, f)
  <2>1. \E g : Joins(s, Len(s), g)
    BY <1>1, JoinsExists
  <2> QED
    BY <1>1, <2>1
<1> HIDE DEF f
<1> DEFINE Good == {k \in Nat : k \in 1..w => FlatTo(log, k, f[k])}
<1>4. 0 \in Good
  OBVIOUS
<1>5. ASSUME NEW k \in Nat, k < w, k \in Good PROVE k + 1 \in Good
  <2>1. k + 1 \in 1..w /\ k + 1 \in 1..Len(log) /\ (k + 1) - 1 = k /\ s[k + 1] = log[k + 1]
    BY <1>1, <1>5
  <2>2. f[k + 1] = IF k + 1 = 1 THEN log[k + 1] ELSE f[k] \o log[k + 1]
    BY <1>3, <2>1 DEF Joins
  <2>3. CASE k = 0
    <3>1. f[k + 1] = log[1] /\ k + 1 = 1
      BY <2>2, <2>3
    <3>2. FlatTo(log, 1, log[1])
      BY <1>1, FlatFirst
    <3> QED
      BY <3>1, <3>2
  <2>4. CASE k # 0
    <3>1. FlatTo(log, k, f[k]) /\ f[k + 1] = f[k] \o log[k + 1]
      <4>1. k \in 1..w /\ k + 1 # 1
        BY <1>1, <1>5, <2>4
      <4>2. f[k + 1] = f[k] \o log[k + 1]
        BY <2>2, <4>1
      <4> QED
        BY <1>5, <4>1, <4>2
    <3>2. FlatTo(log, k + 1, f[k] \o log[k + 1])
      BY <2>1, <3>1, FlatNext
    <3>3. FlatTo(log, k + 1, f[k + 1])
      BY <3>1, <3>2, Zenon
    <3> QED
      BY <3>3
  <2> QED
    BY <2>3, <2>4
<1>6. w \in Good
  <2>1. Good \in SUBSET Nat
    OBVIOUS
  <2> HIDE DEF Good
  <2> QED
    BY <1>1, <1>4, <1>5, <2>1, UpTo
<1> QED
  BY <1>1, <1>2, <1>6

(* The files that are active after the first v commits of a log.           *)
ActiveAt(log, v) ==
  {p \in Files : /\ \E i \in 1..v : AddLine(p) \in Range(log[i])
                 /\ \A i \in 1..v : RemoveLine(p) \notin Range(log[i])}

LEMMA LiveAtIs ==
  ASSUME NEW t, GoodLog(logs[t]), NEW v \in 1..Len(logs[t])
  PROVE  LiveAt(t, v) = ActiveAt(logs[t], v)
<1> DEFINE log == logs[t]
<1>1. Len(log) \in Nat /\ \A i \in 1..v : i \in 1..Len(log) /\ log[i] \in Seq(LogLines)
  BY DEF GoodLog
<1>2. \A i \in 1..v : \A x : Contains(log[i], x) <=> x \in Range(log[i])
  BY <1>1, ContainsIs
<1>3. LiveAt(t, v) = {p \in Files : \E i \in 1..v :
                        /\ AddLine(p) \in Range(log[i])
                        /\ \A j \in i..v : RemoveLine(p) \notin Range(log[j])}
  <2>1. \A i \in 1..v : \A j \in i..v : j \in 1..v
    BY <1>1
  <2>2. \A i \in 1..v, p \in Files :
          /\ Contains(log[i], AddLine(p)) <=> AddLine(p) \in Range(log[i])
          /\ Contains(log[i], RemoveLine(p)) <=> RemoveLine(p) \in Range(log[i])
    BY <1>2
  <2>3. LiveAt(t, v) = {p \in Files : \E i \in 1..v :
                          /\ Contains(log[i], AddLine(p))
                          /\ \A j \in i..v : ~Contains(log[j], RemoveLine(p))}
    BY DEF LiveAt
  <2> HIDE DEF log
  <2> QED
    BY <2>1, <2>2, <2>3
<1>4. ASSUME NEW p \in Files, NEW i \in 1..v, AddLine(p) \in Range(log[i]),
             \A j \in i..v : RemoveLine(p) \notin Range(log[j])
      PROVE  \A j \in 1..v : RemoveLine(p) \notin Range(log[j])
  <2>1. \A j \in 1..i : RemoveLine(p) \notin Range(log[j])
    BY <1>1, <1>4, CommitApart
  <2>2. \A j \in 1..v : j \in 1..i \/ j \in i..v
    BY <1>1
  <2> QED
    BY <1>4, <2>1, <2>2
<1>5. \A i \in 1..v : \A j \in i..v : j \in 1..v
  BY <1>1
<1> QED
  BY <1>3, <1>4, <1>5 DEF ActiveAt

(* What is active when only the commits S are read.                        *)
ActiveOf(log, S) ==
  {p \in Files : /\ \E i \in S : AddLine(p) \in Range(log[i])
                 /\ \A i \in S : RemoveLine(p) \notin Range(log[i])}

LEMMA FunctionIsSeq ==
  ASSUME NEW T, NEW n \in Nat, NEW s \in [1..n -> T]
  PROVE  Len(s) = n /\ s \in Seq(T)
OBVIOUS

LEMMA Picked ==
  ASSUME NEW log, GoodLog(log), NEW S \in SUBSET (1..Len(log)), 1 \in S,
         NEW s, s = [i \in 1..Cardinality(S) |-> log[Ascending(S)[i]]]
  PROVE  /\ Cardinality(S) \in 1..Len(s) /\ Len(s) = Cardinality(S) /\ NoReturn(s)
         /\ \A x : (\E i \in 1..Cardinality(S) : x \in Range(s[i])) <=> \E v \in S : x \in Range(log[v])
<1> DEFINE c == Cardinality(S)
           f == Ascending(S)
<1>1. Len(log) \in Nat /\ log \in Seq(Seq(LogLines))
  BY DEF GoodLog
<1>2. IsFiniteSet(S) /\ c \in Nat
  <2>1. IsFiniteSet(1..Len(log))
    BY <1>1, FS_Interval
  <2> QED
    BY <2>1, FS_Subset, FS_CardinalityType
<1>3. c # 0
  BY <1>2, FS_EmptySet
<1>4. f \in [1..c -> S] /\ Range(f) = S /\ \A i, j \in 1..c : i < j => f[i] < f[j]
  BY <1>1, AscendingIs DEF AscendsTo
<1> HIDE DEF c, f
<1>5. s = [i \in 1..c |-> log[f[i]]]
  BY DEF c, f
<1>6. \A i \in 1..c : f[i] \in 1..Len(log) /\ s[i] = log[f[i]] /\ s[i] \in Seq(LogLines)
  <2> SUFFICES ASSUME NEW i \in 1..c
               PROVE  f[i] \in 1..Len(log) /\ s[i] = log[f[i]] /\ s[i] \in Seq(LogLines)
    OBVIOUS
  <2>1. f[i] \in 1..Len(log)
    BY <1>4
  <2>2. s[i] = log[f[i]]
    BY <1>5
  <2>3. log[f[i]] \in Seq(LogLines)
    BY <1>1, <2>1
  <2> QED
    BY <2>1, <2>2, <2>3
<1>7. Len(s) = c /\ s \in Seq(Seq(LogLines))
  <2>1. s = [i \in 1..c |-> s[i]]
    BY <1>5
  <2>2. s \in [1..c -> Seq(LogLines)]
    BY <1>6, <2>1
  <2> QED
    BY <1>2, <2>2, FunctionIsSeq
<1>8. ASSUME NEW j \in 1..c, NEW p \in Files, AddLine(p) \in Range(s[j]), NEW i \in 1..j
      PROVE  RemoveLine(p) \notin Range(s[i])
  <2>1. i \in 1..c /\ (i < j \/ i = j)
    BY <1>2
  <2>2. f[i] \in 1..Len(log) /\ f[j] \in 1..Len(log) /\ (f[i] < f[j] \/ f[i] = f[j])
    BY <1>4, <1>6, <2>1
  <2>3. f[i] \in 1..f[j]
    BY <2>2
  <2>4. AddLine(p) \in Range(log[f[j]])
    BY <1>6, <1>8
  <2>5. RemoveLine(p) \notin Range(log[f[i]])
    BY <2>2, <2>3, <2>4, CommitApart
  <2> QED
    BY <1>6, <2>1, <2>5
<1>9. NoReturn(s)
  BY <1>7, <1>8 DEF NoReturn
<1>10. \A v \in S : \E i \in 1..c : f[i] = v
  BY <1>4 DEF Range
<1>11. \A x : (\E i \in 1..c : x \in Range(s[i])) <=> \E v \in S : x \in Range(log[v])
  BY <1>4, <1>6, <1>10
<1> QED
  BY <1>2, <1>3, <1>7, <1>9, <1>11 DEF c

(* What a call reads when the listing has the commits S.                   *)
LEMMA ReadIs ==
  ASSUME NEW t, GoodLog(logs[t]), NEW S \in SUBSET (1..Len(logs[t])), 1 \in S,
         NEW r, r = active_files(LinesOf(t, S))
  PROVE  /\ r \in [1..Cardinality(ActiveOf(logs[t], S)) -> Files]
         /\ Range(r) = ActiveOf(logs[t], S) /\ Cardinality(ActiveOf(logs[t], S)) \in Nat
<1> DEFINE log == logs[t]
           c == Cardinality(S)
           s == [i \in 1..c |-> log[Ascending(S)[i]]]
           lines == FlattenSeq(s)
<1>1. LinesOf(t, S) = lines
  BY DEF LinesOf
<1>2. /\ c \in 1..Len(s) /\ Len(s) = c /\ NoReturn(s)
      /\ \A x : (\E i \in 1..c : x \in Range(s[i])) <=> \E v \in S : x \in Range(log[v])
  BY Picked
<1> HIDE DEF s
<1>3. s = [i \in 1..c |-> s[i]]
  BY DEF s
<1>4. FlatTo(s, c, lines)
  BY <1>2, <1>3, Flattened
<1> HIDE DEF lines, c
<1>5. lines \in Seq(LogLines) /\ OnceIn(lines)
  BY <1>4 DEF FlatTo
<1>6. \A x : x \in Range(lines) <=> \E v \in S : x \in Range(log[v])
  BY <1>2, <1>4 DEF FlatTo
<1>7. LiveIn(lines) = ActiveOf(log, S)
  BY <1>6 DEF LiveIn, ActiveOf
<1> QED
  BY <1>1, <1>5, <1>7, ActiveFiles

(* The files that are active in some, and in all, of the versions.         *)
During(log, m, n) == {p \in Files : \E v \in m..n : p \in ActiveAt(log, v)}
Throughout(log, m, n) == {p \in Files : \A v \in m..n : p \in ActiveAt(log, v)}

(* A listing that has the versions up to m and, of the later, any.         *)
LEMMA Between ==
  ASSUME NEW log, GoodLog(log), NEW n, n = Len(log), NEW m \in 1..n,
         NEW S, 1..m \subseteq S, S \subseteq 1..n
  PROVE  /\ Throughout(log, m, n) \subseteq ActiveOf(log, S)
         /\ ActiveOf(log, S) \subseteq During(log, m, n)
         /\ n <= m + 1 => \E v \in m..n : ActiveOf(log, S) = ActiveAt(log, v)
<1>1. n \in Nat /\ m \in m..n /\ n \in m..n
  BY DEF GoodLog
<1>2. Throughout(log, m, n) \subseteq ActiveOf(log, S)
  <2> SUFFICES ASSUME NEW p \in Throughout(log, m, n) PROVE p \in ActiveOf(log, S)
    OBVIOUS
  <2>1. p \in ActiveAt(log, m) /\ p \in ActiveAt(log, n) /\ p \in Files
    BY <1>1 DEF Throughout
  <2>2. \E i \in S : AddLine(p) \in Range(log[i])
    BY <2>1 DEF ActiveAt
  <2>3. \A i \in S : RemoveLine(p) \notin Range(log[i])
    BY <2>1 DEF ActiveAt
  <2> QED
    BY <2>1, <2>2, <2>3 DEF ActiveOf
<1>3. ActiveOf(log, S) \subseteq During(log, m, n)
  <2> SUFFICES ASSUME NEW p \in ActiveOf(log, S) PROVE p \in During(log, m, n)
    OBVIOUS
  <2>1. PICK a \in S : AddLine(p) \in Range(log[a])
    BY DEF ActiveOf
  <2>2. p \in Files /\ a \in 1..n /\ \A i \in S : RemoveLine(p) \notin Range(log[i])
    BY DEF ActiveOf
  <2>3. CASE a <= m
    <3>1. a \in 1..m
      BY <1>1, <2>2, <2>3
    <3>2. p \in ActiveAt(log, m)
      BY <2>1, <2>2, <3>1 DEF ActiveAt
    <3> QED
      BY <1>1, <2>2, <3>2 DEF During
  <2>4. CASE a > m
    <3>1. a \in m..n /\ a \in 1..a
      BY <1>1, <2>2, <2>4
    <3>2. \A i \in 1..a : RemoveLine(p) \notin Range(log[i])
      BY <2>1, <2>2, CommitApart
    <3>3. p \in ActiveAt(log, a)
      BY <2>1, <2>2, <3>1, <3>2 DEF ActiveAt
    <3> QED
      BY <2>2, <3>1, <3>3 DEF During
  <2> QED
    BY <1>1, <2>2, <2>3, <2>4
<1>4. ASSUME n <= m + 1 PROVE \E v \in m..n : ActiveOf(log, S) = ActiveAt(log, v)
  <2>1. S = 1..m \/ S = 1..n
    <3>1. \A x \in 1..n : x \in 1..m \/ (x = n /\ n = m + 1)
      BY <1>1, <1>4
    <3>2. CASE n \in S
      <4>1. \A x \in 1..n : x \in S
        BY <3>1, <3>2
      <4> QED
        BY <4>1
    <3>3. CASE n \notin S
      <4>1. \A x \in S : x \in 1..m
        BY <3>1, <3>3
      <4> QED
        BY <4>1
    <3> QED
      BY <3>2, <3>3
  <2>2. ActiveOf(log, 1..m) = ActiveAt(log, m) /\ ActiveOf(log, 1..n) = ActiveAt(log, n)
    BY DEF ActiveOf, ActiveAt
  <2> QED
    BY <1>1, <2>1, <2>2
<1> QED
  BY <1>2, <1>3, <1>4

-----------------------------------------------------------------------------
(* What a commit adds to a log.                                            *)
LEMMA SeqOfSet ==
  ASSUME NEW S, IsFiniteSet(S)
  PROVE  SetToSeq(S) \in Seq(S) /\ Range(SetToSeq(S)) = S
<1> DEFINE n == Cardinality(S)
           f == SetToSeq(S)
<1>1. n \in Nat /\ ExistsBijection(1..n, S)
  BY FS_CardinalityType
<1>2. \E g \in [1..n -> S] : IsInjective(g)
  BY <1>1 DEF ExistsBijection, Bijection, Injection
<1>3. f \in [1..n -> S] /\ IsInjective(f)
  BY <1>2 DEF SetToSeq
<1> HIDE DEF f
<1>4. f \in Injection(1..n, S)
  BY <1>3 DEF Injection
<1>5. Cardinality(1..n) = n
  BY <1>1, FS_Interval
<1>6. f \in Surjection(1..n, S)
  BY <1>4, <1>5, FS_Injection
<1>7. Range(f) = S
  BY <1>3, <1>6 DEF Surjection, Range
<1>8. f \in Seq(S)
  BY <1>1, <1>3
<1> QED
  BY <1>7, <1>8 DEF f

LEMMA LineSets ==
  ASSUME NEW S \in SUBSET Files
  PROVE  IsFiniteSet({AddLine(p) : p \in S}) /\ IsFiniteSet({RemoveLine(p) : p \in S})
<1> DEFINE A == {AddLine(p) : p \in S}
           R == {RemoveLine(p) : p \in S}
           a == [p \in S |-> AddLine(p)]
           r == [p \in S |-> RemoveLine(p)]
<1>1. IsFiniteSet(S)
  BY DeltaAssumption, FS_Subset DEF DeltaAssumption
<1>2. a \in Bijection(S, A)
  <2>1. a \in [S -> A] /\ \A x \in A : \E p \in S : a[p] = x
    OBVIOUS
  <2>2. IsInjective(a)
    BY LinesApart DEF IsInjective
  <2> QED
    BY <2>1, <2>2 DEF Bijection, Injection, Surjection
<1>3. r \in Bijection(S, R)
  <2>1. r \in [S -> R] /\ \A x \in R : \E p \in S : r[p] = x
    OBVIOUS
  <2>2. IsInjective(r)
    BY LinesApart DEF IsInjective
  <2> QED
    BY <2>1, <2>2 DEF Bijection, Injection, Surjection
<1> HIDE DEF A, R, a, r
<1>4. IsFiniteSet(A)
  BY <1>1, <1>2, FS_Bijection DEF ExistsBijection
<1>5. IsFiniteSet(R)
  BY <1>1, <1>3, FS_Bijection DEF ExistsBijection
<1> QED
  BY <1>4, <1>5 DEF A, R

LEMMA LinesAre ==
  ASSUME NEW adds \in SUBSET Files, NEW removes \in SUBSET Files
  PROVE  /\ Lines(adds, removes) \in Seq(LogLines)
         /\ \A p \in Files : AddLine(p) \in Range(Lines(adds, removes)) <=> p \in adds
         /\ \A p \in Files : RemoveLine(p) \in Range(Lines(adds, removes)) <=> p \in removes
<1> DEFINE A == {AddLine(p) : p \in adds}
           R == {RemoveLine(p) : p \in removes}
           a == SetToSeq(A)
           r == SetToSeq(R)
           o == <<OtherLine>>
<1>1. a \in Seq(A) /\ Range(a) = A /\ r \in Seq(R) /\ Range(r) = R
  BY LineSets, SeqOfSet
<1>2. A \subseteq LogLines /\ R \subseteq LogLines /\ OtherLine \in LogLines
  BY DEF LogLines
<1>3. /\ \A p \in Files : AddLine(p) \in A <=> p \in adds
      /\ \A p \in Files : AddLine(p) \notin R \cup {OtherLine}
      /\ \A p \in Files : RemoveLine(p) \in R <=> p \in removes
      /\ \A p \in Files : RemoveLine(p) \notin A \cup {OtherLine}
  BY LinesApart
<1>4. Lines(adds, removes) = (o \o a) \o r
  BY DEF Lines
<1> HIDE DEF A, R, a, r
<1>5. a \in Seq(LogLines) /\ r \in Seq(LogLines)
  BY <1>1, <1>2
<1>6. o \in Seq(LogLines) /\ Range(o) = {OtherLine}
  BY <1>2 DEF Range
<1> HIDE DEF o
<1>7. o \o a \in Seq(LogLines) /\ Range(o \o a) = {OtherLine} \cup A
  BY <1>1, <1>5, <1>6, RangeOfConcat
<1> DEFINE s == o \o a
<1> HIDE DEF s
<1>8. s \o r \in Seq(LogLines)
  BY <1>5, <1>7 DEF s
<1>9. Range(s \o r) = Range(s) \cup Range(r)
  <2>1. s \in Seq(LogLines)
    BY <1>7 DEF s
  <2> QED
    BY <1>5, <2>1, RangeOfConcat
<1> QED
  BY <1>1, <1>3, <1>4, <1>7, <1>8, <1>9 DEF s

LEMMA CommitGood ==
  ASSUME NEW log, GoodLog(log), NEW adds \in SUBSET Files, NEW removes \in SUBSET Files,
         \A p \in adds, i \in 1..Len(log) : AddLine(p) \notin Range(log[i]),
         \A p \in removes : \E i \in 1..Len(log) : AddLine(p) \in Range(log[i]),
         NEW more, more = Append(log, Lines(adds, removes))
  PROVE  GoodLog(more)
<1> DEFINE c == Lines(adds, removes)
           n == Len(log)
<1>1. /\ c \in Seq(LogLines)
      /\ \A p \in Files : AddLine(p) \in Range(c) <=> p \in adds
      /\ \A p \in Files : RemoveLine(p) \in Range(c) <=> p \in removes
  BY LinesAre
<1> HIDE DEF c
<1>2. log \in Seq(Seq(LogLines)) /\ n \in Nat
  BY DEF GoodLog
<1>3. /\ more \in Seq(Seq(LogLines)) /\ Len(more) = n + 1 /\ more[n + 1] = c
      /\ \A i \in 1..n : more[i] = log[i]
  BY <1>1, <1>2 DEF c
<1>4. \A i \in 1..(n + 1) : i \in 1..n \/ i = n + 1
  BY <1>2
<1>5. ASSUME NEW i \in 1..(n + 1), NEW j \in 1..(n + 1), NEW p \in Files,
             AddLine(p) \in Range(more[i]), AddLine(p) \in Range(more[j])
      PROVE  i = j
  <2>1. CASE i \in 1..n /\ j \in 1..n
    <3>1. AddLine(p) \in Range(log[i]) /\ AddLine(p) \in Range(log[j])
      BY <1>3, <1>5, <2>1
    <3> QED
      BY <2>1, <3>1 DEF GoodLog
  <2>2. CASE i = n + 1 /\ j \in 1..n
    BY <1>1, <1>3, <1>5, <2>2
  <2>3. CASE i \in 1..n /\ j = n + 1
    BY <1>1, <1>3, <1>5, <2>3
  <2> QED
    BY <1>4, <2>1, <2>2, <2>3
<1>6. ASSUME NEW j \in 1..(n + 1), NEW p \in Files, RemoveLine(p) \in Range(more[j])
      PROVE  \E i \in 1..(j - 1) : AddLine(p) \in Range(more[i])
  <2>1. CASE j \in 1..n
    <3>1. RemoveLine(p) \in Range(log[j])
      BY <1>3, <1>6, <2>1
    <3>2. PICK i \in 1..(j - 1) : AddLine(p) \in Range(log[i])
      BY <2>1, <3>1 DEF GoodLog
    <3>3. i \in 1..n
      BY <1>2, <2>1
    <3> QED
      BY <1>3, <3>2, <3>3
  <2>2. CASE j = n + 1
    <3>1. j - 1 = n
      BY <1>2, <2>2
    <3> QED
      BY <1>1, <1>3, <1>6, <2>2, <3>1
  <2> QED
    BY <1>4, <2>1, <2>2
<1>7. 1..Len(more) = 1..(n + 1)
  BY <1>3
<1> HIDE DEF n
<1>8. \A i, j \in 1..Len(more), p \in Files :
        AddLine(p) \in Range(more[i]) /\ AddLine(p) \in Range(more[j]) => i = j
  BY <1>5, <1>7
<1>9. \A j \in 1..Len(more), p \in Files :
        RemoveLine(p) \in Range(more[j]) => \E i \in 1..(j - 1) : AddLine(p) \in Range(more[i])
  BY <1>6, <1>7
<1> QED
  BY <1>3, <1>8, <1>9 DEF GoodLog

(* What was active stays what was active.                                  *)
LEMMA ActiveStays ==
  ASSUME NEW log, NEW more, NEW v \in Nat, \A i \in 1..v : more[i] = log[i]
  PROVE  ActiveAt(more, v) = ActiveAt(log, v)
BY DEF ActiveAt

-----------------------------------------------------------------------------
(* The calls.                                                              *)

(* The listing began with all commits there were.                          *)
CommitsListed ==
  listing # {} =>
    /\ text # <<>> /\ nth <= Len(ScanCalls(text)) /\ Host \in Hosts
    /\ \E m \in 1..Len(logs[Host]) : listing = 1..m

Within(lg, o) ==
  /\ o.from \in Nat \ {0} /\ o.to \in Nat /\ o.to <= Len(lg[o.host])
  /\ Throughout(lg[o.host], o.from, o.to) \subseteq FilesOf(o)
  /\ FilesOf(o) \subseteq During(lg[o.host], o.from, o.to)
  /\ o.to <= o.from + 1 => \E v \in o.from..o.to : FilesOf(o) = ActiveAt(lg[o.host], v)
  /\ o.files # NoFiles => Len(o.files) = Cardinality(FilesOf(o))

AnswerIn(lg, o) == IF o.failed \/ o.host \notin Hosts THEN o.files = NoFiles ELSE Within(lg, o)

DeltaInv ==
  /\ logs = [t \in Hosts |-> logs[t]] /\ \A t \in Hosts : GoodLog(logs[t])
  /\ text \in Scans \cup {<<>>} /\ nth \in Nat /\ CommitsListed
  /\ (\E S : out \in Seq(S)) /\ \A k \in 1..Len(out) : AnswerIn(logs, out[k])

LEMMA ScanCallsLen ==
  ASSUME NEW t \in Scans \cup {<<>>}
  PROVE  Len(ScanCalls(t)) \in Nat
<1>1. t \in Seq(Range(t))
  <2>1. <<>> \in Seq(Range(<<>>))
    OBVIOUS
  <2> QED
    BY <2>1, DeltaAssumption DEF DeltaAssumption
<1> DEFINE S == find_delta_scan_calls(t)
<1>2. Len(t) \in Nat
  BY <1>1
<1>3. S \in SUBSET (1..Len(t))
  BY <1>2 DEF find_delta_scan_calls
<1> HIDE DEF S
<1>4. AscendsTo(S, Ascending(S))
  BY <1>2, <1>3, AscendingIs
<1>5. Cardinality(S) \in Nat
  <2>1. IsFiniteSet(1..Len(t))
    BY <1>2, FS_Interval
  <2> QED
    BY <1>3, <2>1, FS_Subset, FS_CardinalityType
<1>6. Len(Ascending(S)) = Cardinality(S)
  BY <1>4, <1>5 DEF AscendsTo
<1> QED
  BY <1>5, <1>6 DEF ScanCalls, S

LEMMA AppendIs ==
  ASSUME NEW S, NEW s \in Seq(S), NEW x, NEW u, u = Append(s, x)
  PROVE  /\ \E T : u \in Seq(T)
         /\ \A k \in 1..Len(u) : u[k] = x \/ \E j \in 1..Len(s) : u[k] = s[j]
<1>1. /\ Len(s) \in Nat /\ Len(u) = Len(s) + 1 /\ u[Len(s) + 1] = x
      /\ \A k \in 1..Len(s) : u[k] = s[k]
  OBVIOUS
<1>2. \A k \in 1..(Len(s) + 1) : k \in 1..Len(s) \/ k = Len(s) + 1
  BY <1>1
<1>3. s \in Seq(S \cup {x})
  OBVIOUS
<1>4. u \in Seq(S \cup {x})
  BY <1>3
<1> QED
  BY <1>1, <1>2, <1>4

LEMMA DeltaInitInv == DeltaInit => DeltaInv
<1> SUFFICES ASSUME DeltaInit PROVE DeltaInv
  OBVIOUS
<1>1. /\ logs = [t \in Hosts |-> << <<OtherLine>> >>] /\ text = <<>> /\ nth = 1
      /\ listing = {} /\ out = <<>>
  BY DEF DeltaInit
<1> DEFINE log == << <<OtherLine>> >>
<1>2. log \in Seq(Seq(LogLines)) /\ Len(log) = 1 /\ log[1] = <<OtherLine>>
  BY DEF LogLines
<1>3. Range(<<OtherLine>>) = {OtherLine}
  BY DEF Range
<1> HIDE DEF log
<1>4. \A i \in 1..Len(log), p \in Files :
        AddLine(p) \notin Range(log[i]) /\ RemoveLine(p) \notin Range(log[i])
  BY <1>2, <1>3, LinesApart
<1>5. GoodLog(log)
  BY <1>2, <1>4 DEF GoodLog
<1>6. \A t \in Hosts : logs[t] = log
  BY <1>1 DEF log
<1>7. out \in Seq({}) /\ Len(out) = 0
  BY <1>1
<1>8. CommitsListed
  BY <1>1 DEF CommitsListed
<1> QED
  BY <1>1, <1>5, <1>6, <1>7, <1>8 DEF DeltaInv

LEMMA AnswerAppended ==
  ASSUME DeltaInv, NEW o, AnswerIn(logs, o), out' = Append(out, o), logs' = logs
  PROVE  (\E S : out' \in Seq(S)) /\ \A k \in 1..Len(out') : AnswerIn(logs', out'[k])
<1>1. PICK S : out \in Seq(S)
  BY DEF DeltaInv
<1>2. /\ \E T : out' \in Seq(T)
      /\ \A k \in 1..Len(out') : out'[k] = o \/ \E j \in 1..Len(out) : out'[k] = out[j]
  BY <1>1, AppendIs
<1>3. \A j \in 1..Len(out) : AnswerIn(logs, out[j])
  BY DEF DeltaInv
<1>4. \A k \in 1..Len(out') : AnswerIn(logs, out'[k])
  BY <1>2, <1>3
<1> QED
  BY <1>2, <1>4

LEMMA LeftAlone ==
  ASSUME DeltaInv, logs' = logs, text' = text, NEW failed, failed \/ Host \notin Hosts,
         NEW k, NEW m, Push(NoFiles, k, m, failed)
  PROVE  DeltaInv'
<1> DEFINE o == [host |-> Host, files |-> NoFiles, from |-> k, to |-> m, failed |-> failed]
<1>1. out' = Append(out, o) /\ nth' = nth + 1 /\ listing' = {}
  BY DEF Push
<1>2. o.host = Host /\ o.files = NoFiles /\ o.failed = failed
  OBVIOUS
<1> HIDE DEF o
<1>3. AnswerIn(logs, o)
  BY <1>2 DEF AnswerIn
<1>4. CommitsListed'
  BY <1>1 DEF CommitsListed
<1>5. nth' \in Nat
  BY <1>1 DEF DeltaInv
<1>6. (\E S : out' \in Seq(S)) /\ \A j \in 1..Len(out') : AnswerIn(logs', out'[j])
  BY <1>1, <1>3, AnswerAppended
<1> QED
  BY <1>4, <1>5, <1>6 DEF DeltaInv

LEMMA ResolveStep == ASSUME DeltaInv, Resolve PROVE DeltaInv'
<1>1. text # <<>> /\ nth <= Len(ScanCalls(text)) /\ listing = {} /\ logs' = logs /\ text' = text
  BY DEF Resolve
<1>2. CASE Host \notin Hosts /\ Push(NoFiles, 0, 0, FALSE)
  BY <1>1, <1>2, LeftAlone
<1>3. CASE Push(NoFiles, 0, 0, TRUE)
  BY <1>1, <1>3, LeftAlone
<1>4. CASE Host \in Hosts /\ listing' = CommitsOf(Host) /\ UNCHANGED <<nth, out>>
  <2>1. listing' = CommitsOf(Host) /\ nth' = nth /\ out' = out
    BY <1>4
  <2>2. Host' = Host
    BY <1>1, <2>1 DEF Host
  <2> DEFINE n == Len(logs[Host])
  <2>3. n \in Nat /\ listing' = 1..n
    BY <1>4 DEF CommitsOf, DeltaInv, GoodLog
  <2>4. CommitsListed'
    <3> SUFFICES ASSUME listing' # {}
                 PROVE  \E m \in 1..Len(logs'[Host']) : listing' = 1..m
      BY <1>1, <1>4, <2>1, <2>2 DEF CommitsListed
    <3>1. Len(logs'[Host']) = n
      BY <1>1, <2>2
    <3> HIDE DEF n
    <3>2. n \in 1..n
      BY <2>3
    <3> QED
      BY <2>3, <3>1, <3>2
  <2> QED
    BY <1>1, <2>1, <2>4 DEF DeltaInv
<1> QED
  BY <1>2, <1>3, <1>4 DEF Resolve

LEMMA MaxUpTo == ASSUME NEW n \in Nat \ {0} PROVE Max(1..n) = n
BY LastOf

(* What a log that was read makes of a call.                               *)
LEMMA ReadMakes ==
  ASSUME NEW t \in Hosts, GoodLog(logs[t]), NEW n, n = Len(logs[t]), NEW m \in 1..n,
         NEW S, 1..m \subseteq S, S \subseteq 1..n,
         NEW o, o.host = t, ~o.failed, o.from = m, o.to = n,
         o.files = build_read_parquet(active_files(LinesOf(t, S)))
  PROVE  AnswerIn(logs, o)
<1> DEFINE r == active_files(LinesOf(t, S))
           live == ActiveOf(logs[t], S)
           log == logs[t]
<1>0. /\ Throughout(log, m, n) \subseteq ActiveOf(log, S)
      /\ ActiveOf(log, S) \subseteq During(log, m, n)
      /\ n <= m + 1 => \E v \in m..n : ActiveOf(log, S) = ActiveAt(log, v)
  <2> HIDE DEF log
  <2>1. GoodLog(log) /\ n = Len(log)
    BY DEF log
  <2> QED
    BY <2>1, Between
<1>1. n \in Nat /\ 1 \in S /\ S \in SUBSET (1..Len(logs[t]))
  <2>1. n \in Nat
    BY DEF GoodLog
  <2>2. m \in Nat /\ 1 <= m /\ 1..m \subseteq S /\ S \subseteq 1..Len(logs[t])
    BY <2>1
  <2> QED
    BY <2>1, <2>2
<1>2. r \in [1..Cardinality(live) -> Files] /\ Range(r) = live /\ Cardinality(live) \in Nat
  BY <1>1, ReadIs
<1>3. o.files = build_read_parquet(r)
  OBVIOUS
<1>4. live \subseteq Files
  BY DEF ActiveOf
<1>5. /\ Throughout(logs[t], m, n) \subseteq live /\ live \subseteq During(logs[t], m, n)
      /\ n <= m + 1 => \E v \in m..n : live = ActiveAt(logs[t], v)
  BY <1>0
<1> HIDE DEF r, live
<1>6. FilesOf(o) = live /\ (o.files # NoFiles => Len(o.files) = Cardinality(live))
  <2>1. r # NoFiles
    BY <1>2, <1>4, DeltaAssumption DEF DeltaAssumption
  <2>2. CASE r = <<>>
    <3>1. o.files = NoFiles
      BY <1>3, <2>2 DEF build_read_parquet
    <3>2. live = {}
      BY <1>2, <2>2 DEF Range
    <3> QED
      BY <3>1, <3>2 DEF FilesOf
  <2>3. CASE r # <<>>
    <3>1. o.files = r
      BY <1>3, <2>3 DEF build_read_parquet
    <3>2. Len(r) = Cardinality(live)
      BY <1>2
    <3> QED
      BY <1>2, <2>1, <3>1, <3>2 DEF FilesOf
  <2> QED
    BY <2>2, <2>3
<1>7. m \in Nat \ {0} /\ n <= Len(logs[o.host]) /\ logs[o.host] = logs[t]
  BY <1>1
<1> QED
  BY <1>1, <1>5, <1>6, <1>7 DEF AnswerIn, Within

LEMMA ReadStep == ASSUME "entry" \notin Faults, DeltaInv, Read PROVE DeltaInv'
<1> DEFINE n == Len(logs[Host])
<1>1. listing # {} /\ logs' = logs /\ text' = text
  BY DEF Read
<1>2. PICK late \in SUBSET (CommitsOf(Host) \ listing) :
        \E passed \in {{}} :
        \E unreadable \in IF "read" \in Faults THEN SUBSET ((listing \cup late) \ passed) ELSE {{}} :
          Push(Replacement(read_log_from_host(Host, (listing \cup late) \ passed, unreadable)),
                 Max(listing), Max(CommitsOf(Host)), unreadable # {})
  BY DEF Read
<1> DEFINE S == listing \cup late
<1>3. PICK unreadable :
        Push(Replacement(read_log_from_host(Host, S, unreadable)),
               Max(listing), Max(CommitsOf(Host)), unreadable # {})
  <2>1. S \ {} = S
    OBVIOUS
  <2> QED
    BY <1>2, <2>1
<1>4. Host \in Hosts
  BY <1>1 DEF DeltaInv, CommitsListed
<1>5. n \in Nat /\ GoodLog(logs[Host]) /\ CommitsOf(Host) = 1..n
  BY <1>4 DEF CommitsOf, DeltaInv, GoodLog
<1>6. PICK m \in 1..n : listing = 1..m
  BY <1>1 DEF DeltaInv, CommitsListed
<1>7. 1..m \subseteq S /\ S \subseteq 1..n
  BY <1>5, <1>6
<1>8. Max(listing) = m /\ Max(CommitsOf(Host)) = n
  BY <1>5, <1>6, MaxUpTo
<1> HIDE DEF S, n
<1>9. CASE unreadable # {}
  <2>1. Replacement(read_log_from_host(Host, S, unreadable)) = NoFiles
    BY <1>9 DEF Replacement, read_log_from_host
  <2>2. Push(NoFiles, m, n, TRUE)
    BY <1>3, <1>8, <1>9, <2>1
  <2> QED
    BY <1>1, <2>2, LeftAlone
<1>10. CASE unreadable = {}
  <2> DEFINE found == build_read_parquet(active_files(LinesOf(Host, S)))
             o == [host |-> Host, files |-> found, from |-> m, to |-> n, failed |-> FALSE]
  <2>1. Replacement(read_log_from_host(Host, S, unreadable)) = found
    <3>1. S \ {} = S
      OBVIOUS
    <3> QED
      BY <1>10, <3>1 DEF Replacement, read_log_from_host
  <2>2. Push(found, m, n, FALSE)
    BY <1>3, <1>8, <1>10, <2>1
  <2>3. o.host = Host /\ o.files = found /\ o.from = m /\ o.to = n /\ ~o.failed
    OBVIOUS
  <2>4. out' = Append(out, o) /\ nth' = nth + 1 /\ listing' = {}
    BY <2>2 DEF Push
  <2> HIDE DEF o
  <2>5. AnswerIn(logs, o)
    BY <1>4, <1>5, <1>6, <1>7, <2>3, ReadMakes DEF n
  <2>6. (\E T : out' \in Seq(T)) /\ \A k \in 1..Len(out') : AnswerIn(logs', out'[k])
    BY <1>1, <2>4, <2>5, AnswerAppended
  <2>7. CommitsListed' /\ nth' \in Nat
    BY <2>4 DEF CommitsListed, DeltaInv
  <2> QED
    BY <1>1, <2>6, <2>7 DEF DeltaInv
<1> QED
  BY <1>9, <1>10

LEMMA CommitStep == ASSUME DeltaInv, NEW t \in Hosts, Commit(t) PROVE DeltaInv'
<1> DEFINE log == logs[t]
           n == Len(log)
<1>1. PICK adds \in SUBSET (Files \ Added(t)) :
      \E removes \in SUBSET LiveAt(t, n) : logs' = [logs EXCEPT ![t] = Append(log, Lines(adds, removes))]
  BY DEF Commit
<1>2. PICK removes \in SUBSET LiveAt(t, n) : logs' = [logs EXCEPT ![t] = Append(log, Lines(adds, removes))]
  BY <1>1
<1>3. UNCHANGED <<text, nth, listing, out>>
  BY DEF Commit
<1>4. GoodLog(log) /\ n \in Nat /\ log \in Seq(Seq(LogLines))
  BY DEF DeltaInv, GoodLog
<1> DEFINE more == Append(log, Lines(adds, removes))
<1>5. /\ logs'[t] = more /\ \A u \in Hosts : u # t => logs'[u] = logs[u]
      /\ logs' = [u \in Hosts |-> logs'[u]]
  BY <1>2 DEF DeltaInv
<1>6. Len(more) = n + 1 /\ \A i \in 1..n : more[i] = log[i]
  BY <1>4
<1>7. adds \in SUBSET Files /\ removes \in SUBSET Files
  BY DEF LiveAt
<1>8. \A i \in 1..n : \A x : Contains(log[i], x) <=> x \in Range(log[i])
  BY <1>4, ContainsIs
<1>9. \A p \in adds, i \in 1..n : AddLine(p) \notin Range(log[i])
  <2>1. DOMAIN log = 1..n
    BY <1>4
  <2> QED
    BY <1>8, <2>1 DEF Added
<1>10. \A p \in removes : \E i \in 1..n : AddLine(p) \in Range(log[i])
  BY <1>8 DEF LiveAt
<1>11. GoodLog(more)
  BY <1>4, <1>7, <1>9, <1>10, CommitGood
<1> HIDE DEF more
<1>12. \A u \in Hosts : GoodLog(logs'[u])
  BY <1>5, <1>11 DEF DeltaInv
<1>13. \A u \in Hosts : /\ Len(logs[u]) \in Nat /\ Len(logs[u]) <= Len(logs'[u])
                         /\ \A i \in 1..Len(logs[u]) : logs'[u][i] = logs[u][i]
  <2> SUFFICES ASSUME NEW u \in Hosts
               PROVE  /\ Len(logs[u]) \in Nat /\ Len(logs[u]) <= Len(logs'[u])
                      /\ \A i \in 1..Len(logs[u]) : logs'[u][i] = logs[u][i]
    OBVIOUS
  <2>1. Len(logs[u]) \in Nat
    BY DEF DeltaInv, GoodLog
  <2>2. CASE u = t
    BY <1>4, <1>5, <1>6, <2>2
  <2>3. CASE u # t
    BY <1>5, <2>1, <2>3
  <2> QED
    BY <2>1, <2>2, <2>3
<1>14. ASSUME NEW k \in 1..Len(out) PROVE AnswerIn(logs', out[k])
  <2> DEFINE o == out[k]
  <2>1. AnswerIn(logs, o)
    BY DEF DeltaInv
  <2> HIDE DEF o
  <2> SUFFICES AnswerIn(logs', o)
    BY DEF o
  <2>2. CASE ~o.failed /\ o.host \in Hosts
    <3> DEFINE h == o.host
    <3>1. /\ o.from \in Nat \ {0} /\ o.to \in Nat /\ o.to <= Len(logs[h])
      BY <2>1, <2>2 DEF AnswerIn, Within
    <3>2. \A v \in o.from..o.to : ActiveAt(logs'[h], v) = ActiveAt(logs[h], v)
      <4> SUFFICES ASSUME NEW v \in o.from..o.to
                   PROVE  ActiveAt(logs'[h], v) = ActiveAt(logs[h], v)
        OBVIOUS
      <4>1. v \in Nat /\ \A i \in 1..v : i \in 1..Len(logs[h])
        BY <1>13, <2>2, <3>1
      <4>2. \A i \in 1..v : logs'[h][i] = logs[h][i]
        BY <1>13, <2>2, <4>1
      <4> QED
        BY <4>1, <4>2, ActiveStays
    <3>3. /\ Throughout(logs'[h], o.from, o.to) = Throughout(logs[h], o.from, o.to)
          /\ During(logs'[h], o.from, o.to) = During(logs[h], o.from, o.to)
      BY <3>2 DEF Throughout, During
    <3>4. o.to <= Len(logs'[h])
      <4>1. Len(logs'[h]) \in Nat
        BY <1>12, <2>2 DEF GoodLog
      <4> QED
        BY <1>13, <2>2, <3>1, <4>1
    <3> QED
      BY <2>1, <2>2, <3>1, <3>2, <3>3, <3>4 DEF AnswerIn, Within
  <2>3. CASE o.failed \/ o.host \notin Hosts
    BY <2>1, <2>3 DEF AnswerIn, Within
  <2> QED
    BY <2>2, <2>3
<1>15. CommitsListed'
  <2> SUFFICES ASSUME listing # {}
               PROVE  \E m \in 1..Len(logs'[Host]) : listing = 1..m
    <3>1. Host' = Host
      BY <1>3 DEF Host
    <3> QED
      BY <1>3, <3>1 DEF CommitsListed, DeltaInv
  <2>1. Host \in Hosts
    BY DEF DeltaInv, CommitsListed
  <2>2. PICK m \in 1..Len(logs[Host]) : listing = 1..m
    BY DEF DeltaInv, CommitsListed
  <2>3. Len(logs'[Host]) \in Nat
    BY <1>12, <2>1 DEF GoodLog
  <2>4. m \in 1..Len(logs'[Host])
    BY <1>13, <2>1, <2>3
  <2> QED
    BY <2>2, <2>4
<1> QED
  BY <1>3, <1>5, <1>12, <1>14, <1>15 DEF DeltaInv

LEMMA ExecutedStep == ASSUME DeltaInv, Executed PROVE DeltaInv'
<1>1. /\ nth > Len(ScanCalls(text)) /\ text' = <<>> /\ nth' = 1 /\ out' = <<>>
      /\ logs' = logs /\ listing' = listing
  BY DEF Executed
<1>2. listing = {}
  <2>1. Len(ScanCalls(text)) \in Nat /\ nth \in Nat
    BY ScanCallsLen DEF DeltaInv
  <2> QED
    BY <1>1, <2>1 DEF DeltaInv, CommitsListed
<1>3. CommitsListed'
  BY <1>1, <1>2 DEF CommitsListed
<1>4. out' \in Seq({}) /\ Len(out') = 0
  BY <1>1
<1> QED
  BY <1>1, <1>3, <1>4 DEF DeltaInv

LEMMA DeltaStep == ASSUME "entry" \notin Faults, DeltaInv, [DeltaNext]_deltaVars PROVE DeltaInv'
<1>1. CASE UNCHANGED deltaVars
  <2>1. Host' = Host
    BY <1>1 DEF deltaVars, Host
  <2> QED
    BY <1>1, <2>1 DEF deltaVars, DeltaInv, CommitsListed
<1>2. CASE rewrite_delta_scan
  <2>1. /\ text = <<>> /\ text' \in Scans
        /\ logs' = logs /\ nth' = nth /\ listing' = listing /\ out' = out
    BY <1>2 DEF rewrite_delta_scan
  <2>2. listing = {}
    BY <2>1 DEF DeltaInv, CommitsListed
  <2> QED
    BY <2>1, <2>2 DEF DeltaInv, CommitsListed
<1> QED
  BY <1>1, <1>2, ResolveStep, ReadStep, ExecutedStep, CommitStep DEF DeltaNext

(* Each call reads at least the files that were active all the time it     *)
(* took and at most those that were active at some time of it, each once,  *)
(* and with one commit in the meantime at most the files of one version:   *)
(* for any tables, mounts, statements and commits, whatever cannot be      *)
(* opened or read. An entry of the directory that cannot be read is passed *)
(* over by the code, which the theorem has to exclude.                     *)
THEOREM CallsReadOneVersion ==
  ASSUME "entry" \notin Faults
  PROVE  DeltaSpec => []OneVersion
<1>1. DeltaInv => OneVersion
  <2> SUFFICES ASSUME DeltaInv, NEW k \in DOMAIN out, NEW o, o = out[k]
               PROVE  IF o.failed \/ o.host \notin Hosts THEN o.files = NoFiles
                      ELSE /\ LiveThroughout(o) \subseteq FilesOf(o) /\ FilesOf(o) \subseteq LiveDuring(o)
                           /\ o.to <= o.from + 1 => \E v \in o.from..o.to : FilesOf(o) = LiveAt(o.host, v)
                           /\ o.files # NoFiles => Len(o.files) = Cardinality(FilesOf(o))
    BY Zenon DEF OneVersion
  <2>1. AnswerIn(logs, o)
    <3>1. DOMAIN out = 1..Len(out)
      BY DEF DeltaInv
    <3> QED
      BY <3>1 DEF DeltaInv
  <2>2. CASE o.failed \/ o.host \notin Hosts
    BY <2>1, <2>2 DEF AnswerIn
  <2>3. CASE ~o.failed /\ o.host \in Hosts
    <3> DEFINE h == o.host
    <3>1. /\ o.from \in Nat \ {0} /\ o.to \in Nat /\ o.to <= Len(logs[h])
          /\ Throughout(logs[h], o.from, o.to) \subseteq FilesOf(o)
          /\ FilesOf(o) \subseteq During(logs[h], o.from, o.to)
          /\ (o.to <= o.from + 1 => \E v \in o.from..o.to : FilesOf(o) = ActiveAt(logs[h], v))
          /\ (o.files # NoFiles => Len(o.files) = Cardinality(FilesOf(o)))
      <4>1. Within(logs, o)
        BY <2>1, <2>3 DEF AnswerIn
      <4> QED
        BY <4>1 DEF Within
    <3>2. GoodLog(logs[h]) /\ Len(logs[h]) \in Nat
      <4>1. GoodLog(logs[h])
        BY <2>3 DEF DeltaInv
      <4> QED
        BY <4>1 DEF GoodLog
    <3>3. \A v \in o.from..o.to : v \in 1..Len(logs[h])
      BY <3>1, <3>2
    <3>4. \A v \in o.from..o.to : LiveAt(h, v) = ActiveAt(logs[h], v)
      BY <3>2, <3>3, LiveAtIs
    <3>5. \A v \in o.from..o.to : ActiveAt(logs[h], v) \subseteq Files
      BY DEF ActiveAt
    <3>6. LiveDuring(o) = During(logs[h], o.from, o.to)
      BY <3>4, <3>5 DEF LiveDuring, During
    <3>7. LiveThroughout(o) \subseteq Throughout(logs[h], o.from, o.to)
      <4> SUFFICES ASSUME NEW p \in LiveThroughout(o) PROVE p \in Throughout(logs[h], o.from, o.to)
        OBVIOUS
      <4>1. p \in LiveDuring(o) /\ \A v \in o.from..o.to : p \in LiveAt(h, v)
        BY DEF LiveThroughout
      <4>2. p \in Files
        BY <3>6, <4>1 DEF During
      <4> QED
        BY <3>4, <4>1, <4>2 DEF Throughout
    <3> QED
      BY <2>3, <3>1, <3>4, <3>6, <3>7
  <2> QED
    BY <2>2, <2>3
<1>2. DeltaInv /\ [DeltaNext]_deltaVars => DeltaInv'
  BY DeltaStep
<1> QED
  BY <1>1, <1>2, DeltaInitInv, PTL DEF DeltaSpec
=============================================================================
