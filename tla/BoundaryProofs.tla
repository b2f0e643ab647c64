--------------------------- MODULE BoundaryProofs ---------------------------
(***************************************************************************)
(* What crosses the wasm boundary, for all constants. TvmSlots, for every  *)
(* width of the generation and any number of regions, slots and            *)
(* reallocations: a handle younger than a full turn reaches its own block  *)
(* or none, and a block that is owned is always reached. ColumnBridge, for *)
(* any types and lengths of columns: values and columns arrive as they     *)
(* were sent, on the way to an extension and back.                         *)
(***************************************************************************)
EXTENDS TvmSlots, ColumnBridge, WellFoundedInduction, TLAPS

Age(h) == count[h.slot] - h.nth

(* A handle is as many generations behind its slot as it is reallocations  *)
(* old, modulo the width.                                                  *)
Ages ==
  \A h \in handles :
    /\ h.nth <= count[h.slot]
    /\ Recent(h) => h.gen = gen[h.slot] - Age(h) \/ h.gen = gen[h.slot] - Age(h) + Width

(* What is owned is the last thing given out in a slot that tvm_core keeps. *)
OwnedLast ==
  \A h \in owned :
    /\ h.nth = count[h.slot]
    /\ h.slot[1] \in up /\ block[h.slot] = incarnation[h.slot[1]]

(* A block of an incarnation that is over is never accepted again, and one *)
(* that is accepted is in use.                                             *)
Accepted ==
  \A s \in Slots :
    /\ block[s] # None => block[s] <= incarnation[s[1]]
    /\ Accepts(s) => s \in used

IInv == TypeOK /\ Ages /\ OwnedLast /\ Accepted /\ Footprint

-----------------------------------------------------------------------------
LEMMA Constants == Width \in Nat /\ Width > 0 /\ None \notin Nat
PROOF
  BY TvmAssumption DEF TvmAssumption

LEMMA NextGenType == \A g \in 0..(Width - 1) : NextGen(g) \in 0..(Width - 1)
PROOF
  BY Constants DEF NextGen

(* A recent handle whose generation is its slot's is the slot's last one.  *)
LEMMA LastOfSlot ==
  ASSUME TypeOK, Ages, NEW h \in handles, Recent(h), gen[h.slot] = h.gen
  PROVE  h.nth = count[h.slot]
PROOF
  <1>1. /\ h.nth \in Nat /\ count[h.slot] \in Nat /\ gen[h.slot] \in 0..(Width - 1)
        /\ h.nth <= count[h.slot]
    BY DEF TypeOK, Handle, Ages
  <1> QED
    BY <1>1, Constants DEF Ages, Age, Recent

(* Two handles for the same allocation that are both recent are the same.  *)
LEMMA SameHandle ==
  ASSUME TypeOK, Ages, NEW h \in handles, NEW k \in handles,
         h.slot = k.slot, h.nth = count[h.slot], k.nth = count[k.slot]
  PROVE  h = k
PROOF
  <1>1. h \in Handle /\ k \in Handle /\ count[h.slot] \in Nat /\ gen[h.slot] \in 0..(Width - 1)
    BY DEF TypeOK, Handle
  <1>2. h.gen = gen[h.slot] /\ k.gen = gen[k.slot]
    BY <1>1, Constants DEF Ages, Age, Recent, Handle
  <1> QED
    BY <1>1, <1>2 DEF Handle

LEMMA ServesOwned ==
  ASSUME IInv, NEW h \in handles, Serves(h), Recent(h)
  PROVE  h.nth = count[h.slot] /\ h \in owned
PROOF
  <1>1. h.nth = count[h.slot]
    BY LastOfSlot DEF IInv, Serves, Resolves
  <1>2. h.slot \in used
    BY DEF IInv, Accepted, Serves, TypeOK, Handle
  <1>3. PICK k \in owned : k.slot = h.slot
    BY <1>2 DEF IInv, Footprint
  <1>4. k \in handles /\ k.nth = count[k.slot]
    BY DEF IInv, TypeOK, OwnedLast
  <1>5. h = k
    BY <1>1, <1>3, <1>4, SameHandle DEF IInv
  <1> QED
    BY <1>1, <1>5

-----------------------------------------------------------------------------
LEMMA InitIInv == Init => IInv
PROOF
  BY Constants DEF Init, IInv, TypeOK, Ages, OwnedLast, Accepted, Accepts, Footprint

LEMMA CreateIInv ==
  ASSUME IInv, NEW r \in Regions, CreateRegion(r)
  PROVE  IInv'
PROOF
  <1>1. /\ up' = up \cup {r} /\ incarnation' = [incarnation EXCEPT ![r] = @ + 1] /\ r \notin up
        /\ UNCHANGED <<used, gen, block, count, handles, owned>>
    BY DEF CreateRegion
  <1>2. TypeOK'
    BY <1>1 DEF IInv, TypeOK
  <1>3. Ages'
    BY <1>1 DEF IInv, Ages, Age, Recent
  <1>4. OwnedLast'
    BY <1>1 DEF IInv, OwnedLast, TypeOK, Handle
  <1>5. Accepted'
    <2> SUFFICES ASSUME NEW s \in Slots
                 PROVE  /\ block[s] # None => block[s] <= incarnation'[s[1]]
                        /\ Accepts(s)' => s \in used
      BY <1>1 DEF Accepted
    <2>1. /\ s[1] \in Regions /\ incarnation[s[1]] \in Nat /\ block[s] \in Nat \cup {None}
          /\ incarnation'[s[1]] = IF s[1] = r THEN incarnation[s[1]] + 1 ELSE incarnation[s[1]]
          /\ block[s] # None => block[s] <= incarnation[s[1]]
          /\ Accepts(s) => s \in used
      BY <1>1 DEF IInv, TypeOK, Slots, Accepted
    <2> QED
      BY <1>1, <2>1, Constants DEF Accepts
  <1>6. Footprint'
    BY <1>1 DEF IInv, Footprint
  <1> QED
    BY <1>2, <1>3, <1>4, <1>5, <1>6 DEF IInv

LEMMA DestroyIInv ==
  ASSUME IInv, NEW r \in Regions, DestroyRegion(r)
  PROVE  IInv'
PROOF
  <1>1. /\ up' = up \ {r} /\ used' = {s \in used : s[1] # r}
        /\ owned' = {h \in owned : h.slot[1] # r}
        /\ UNCHANGED <<incarnation, gen, block, count, handles>>
    BY DEF DestroyRegion
  <1>2. TypeOK'
    BY <1>1 DEF IInv, TypeOK
  <1>3. Ages'
    BY <1>1 DEF IInv, Ages, Age, Recent
  <1>4. OwnedLast'
    BY <1>1 DEF IInv, OwnedLast
  <1>5. Accepted'
    BY <1>1 DEF IInv, Accepted, Accepts
  <1>6. Footprint'
    BY <1>1 DEF IInv, Footprint
  <1> QED
    BY <1>2, <1>3, <1>4, <1>5, <1>6 DEF IInv

LEMMA AllocIInv ==
  ASSUME IInv, NEW s \in Slots, Alloc(s)
  PROVE  IInv'
PROOF
  <1> DEFINE new == [slot |-> s, gen |-> NextGen(gen[s]), nth |-> count[s] + 1]
  <1>1. /\ s[1] \in up /\ s \notin used /\ used' = used \cup {s}
        /\ gen' = [gen EXCEPT ![s] = NextGen(@)]
        /\ block' = [block EXCEPT ![s] = incarnation[s[1]]]
        /\ count' = [count EXCEPT ![s] = @ + 1]
        /\ handles' = handles \cup {new} /\ owned' = owned \cup {new}
        /\ UNCHANGED <<up, incarnation>>
    BY DEF Alloc, Register, Issued
  <1>2. /\ gen[s] \in 0..(Width - 1) /\ NextGen(gen[s]) \in 0..(Width - 1)
        /\ count[s] \in Nat /\ s[1] \in Regions /\ incarnation[s[1]] \in Nat
    BY NextGenType DEF IInv, TypeOK, Slots
  <1>3. new \in Handle /\ new.slot = s /\ new.gen = NextGen(gen[s]) /\ new.nth = count[s] + 1
    BY <1>2 DEF Handle
  <1> HIDE DEF new
  <1>4. TypeOK'
    BY <1>1, <1>2, <1>3 DEF IInv, TypeOK
  <1>5. Ages'
    <2> SUFFICES ASSUME NEW h \in handles'
                 PROVE  /\ h.nth <= count'[h.slot]
                        /\ count'[h.slot] - h.nth < Width =>
                             \/ h.gen = gen'[h.slot] - (count'[h.slot] - h.nth)
                             \/ h.gen = gen'[h.slot] - (count'[h.slot] - h.nth) + Width
      BY DEF Ages, Age, Recent
    <2>1. CASE h = new
      BY <1>1, <1>2, <1>3, <2>1, Constants DEF IInv, TypeOK
    <2>2. CASE h # new /\ h.slot # s
      BY <1>1, <2>2 DEF IInv, TypeOK, Ages, Age, Recent, Handle
    <2>3. CASE h # new /\ h.slot = s
      <3>1. /\ h \in handles /\ h.nth \in Nat /\ h.gen \in 0..(Width - 1)
            /\ count'[s] = count[s] + 1 /\ gen'[s] = NextGen(gen[s])
        BY <1>1, <2>3 DEF IInv, TypeOK, Handle
      <3>2. /\ h.nth <= count[s]
            /\ count[s] - h.nth < Width =>
                 \/ h.gen = gen[s] - (count[s] - h.nth)
                 \/ h.gen = gen[s] - (count[s] - h.nth) + Width
        BY <2>3, <3>1 DEF IInv, Ages, Age, Recent
      <3> QED
        BY <1>2, <2>3, <3>1, <3>2, Constants DEF NextGen
    <2> QED
      BY <2>1, <2>2, <2>3
  <1>6. OwnedLast'
    <2> SUFFICES ASSUME NEW h \in owned'
                 PROVE  /\ h.nth = count'[h.slot]
                        /\ h.slot[1] \in up /\ block'[h.slot] = incarnation[h.slot[1]]
      BY <1>1 DEF OwnedLast
    <2>1. CASE h = new
      BY <1>1, <1>2, <1>3, <2>1 DEF IInv, TypeOK
    <2>2. CASE h # new
      <3>1. h \in owned /\ h.slot \in used
        BY <1>1, <2>2 DEF IInv, Footprint
      <3> QED
        BY <1>1, <3>1 DEF IInv, OwnedLast, TypeOK, Handle
    <2> QED
      BY <2>1, <2>2
  <1>7. Accepted'
    BY <1>1, <1>2 DEF IInv, TypeOK, Accepted, Accepts
  <1>8. Footprint'
    BY <1>1, <1>3 DEF IInv, Footprint
  <1> QED
    BY <1>4, <1>5, <1>6, <1>7, <1>8 DEF IInv

LEMMA DeallocIInv ==
  ASSUME IInv, NEW h \in handles, Dealloc(h)
  PROVE  IInv'
PROOF
  <1>1. /\ Recent(h) /\ Resolves(h)
        /\ block' = [block EXCEPT ![h.slot] = None]
        /\ used' = IF Accepts(h.slot) THEN used \ {h.slot} ELSE used
        /\ owned' = owned \ {h}
        /\ UNCHANGED <<up, incarnation, gen, count, handles>>
    BY DEF Dealloc
  <1>2. h.slot \in Slots /\ h.nth = count[h.slot]
    BY <1>1, LastOfSlot DEF IInv, TypeOK, Handle, Resolves
  <1>3. \A k \in owned : k.slot = h.slot => k = h
    BY <1>2, SameHandle DEF IInv, TypeOK, OwnedLast
  <1>4. Accepts(h.slot) <=> h \in owned
    <2>1. ASSUME Accepts(h.slot) PROVE h \in owned
      BY <1>1, <2>1, ServesOwned DEF Serves
    <2>2. ASSUME h \in owned PROVE Accepts(h.slot)
      BY <2>2 DEF IInv, OwnedLast, Accepts
    <2> QED
      BY <2>1, <2>2
  <1>5. TypeOK'
    BY <1>1, <1>2 DEF IInv, TypeOK
  <1>6. Ages'
    BY <1>1 DEF IInv, Ages, Age, Recent
  <1>7. OwnedLast'
    BY <1>1, <1>2, <1>3 DEF IInv, TypeOK, OwnedLast, Handle
  <1>8. Accepted'
    <2> SUFFICES ASSUME NEW s \in Slots
                 PROVE  /\ block'[s] # None => block'[s] <= incarnation[s[1]]
                        /\ Accepts(s)' => s \in used'
      BY <1>1 DEF Accepted
    <2>1. CASE s = h.slot
      <3>1. block'[s] = None /\ incarnation[s[1]] \in Nat
        BY <1>1, <1>2, <2>1 DEF IInv, TypeOK, Slots
      <3> QED
        BY <1>1, <3>1, Constants DEF Accepts
    <2>2. CASE s # h.slot
      BY <1>1, <2>2 DEF IInv, TypeOK, Accepted, Accepts
    <2> QED
      BY <2>1, <2>2
  <1>9. Footprint'
    BY <1>1, <1>3, <1>4 DEF IInv, Footprint
  <1> QED
    BY <1>5, <1>6, <1>7, <1>8, <1>9 DEF IInv

THEOREM TvmInvariance == Spec => []IInv
PROOF
  <1>1. IInv /\ UNCHANGED vars => IInv'
    BY DEF IInv, TypeOK, Ages, Age, Recent, OwnedLast, Accepted, Accepts, Footprint, vars
  <1>2. IInv /\ [Next]_vars => IInv'
    BY <1>1, CreateIInv, DestroyIInv, AllocIInv, DeallocIInv DEF Next
  <1> QED
    BY <1>2, InitIInv, PTL DEF Spec

(* Type correctness: generations never leave their width.                  *)
THEOREM TvmTyping == Spec => []TypeOK
PROOF
  BY TvmInvariance, PTL DEF IInv

(* A handle younger than a full turn of its slot reaches its own block,    *)
(* and only while it is owned.                                             *)
THEOREM NoAliasing == Spec => []OwnBlock
PROOF
  <1>1. IInv => OwnBlock
    BY ServesOwned DEF OwnBlock
  <1> QED
    BY <1>1, TvmInvariance, PTL

(* A handle that is owned is served.                                       *)
THEOREM OwnedReached == Spec => []OwnedServed
PROOF
  <1>1. IInv => OwnedServed
    <2> SUFFICES ASSUME IInv, NEW h \in owned PROVE Serves(h)
      BY DEF OwnedServed
    <2>1. h \in Handle /\ h.nth = count[h.slot] /\ gen[h.slot] \in 0..(Width - 1)
          /\ count[h.slot] \in Nat /\ h \in handles
      BY DEF IInv, TypeOK, OwnedLast, Handle
    <2>2. h.gen = gen[h.slot]
      BY <2>1, Constants DEF IInv, Ages, Age, Recent, Handle
    <2>3. h.slot[1] \in Regions /\ incarnation[h.slot[1]] \in Nat
      BY <2>1 DEF IInv, TypeOK, Handle, Slots
    <2> QED
      BY <2>2, <2>3, Constants DEF IInv, OwnedLast, Serves, Resolves, Accepts
  <1> QED
    BY <1>1, TvmInvariance, PTL

(* tvm_core keeps a block for every owned handle, and no other.            *)
THEOREM FootprintTracks == Spec => []Footprint
PROOF
  BY TvmInvariance, PTL DEF IInv

-----------------------------------------------------------------------------
(* The columns (ColumnBridge).                                             *)

(* What values may be: NULL, or of a type. A column has values of a type. *)
Sent == {Null} \cup [arm : Arms \cup {"complex"}, val : Payloads]
Of(a) == {Null} \cup {v \in Sent : v.arm = a}

LEMMA Assumed ==
  /\ "null" \notin Arms /\ RowCounts \subseteq Nat
  /\ NoValue \notin Sent /\ NoValue \notin ColVecs /\ NoValue \notin Requests
  /\ Sent \subseteq DuckValues /\ Null \in Sent /\ Filler \in Payloads
<1>1. Filler \in Payloads
  BY DEF Filler, Payloads
<1>2. Null \in DuckValues
  BY <1>1 DEF Null, DuckValues, Types
<1>3. Sent \subseteq DuckValues /\ Null \in Sent
  BY <1>2 DEF Sent, DuckValues, Types
<1> QED
  BY <1>1, <1>3, BridgeAssumption DEF BridgeAssumption

(* A set of row numbers that is not empty has a least and a greatest one.  *)
LEMMA LeastRow ==
  ASSUME NEW S \in SUBSET Nat, S # {}
  PROVE  \E m \in S : \A n \in S : m <= n
<1>1. \E x \in S : \A y \in S : ~(<<y, x>> \in OpToRel(<, Nat))
  BY WFMin, NatLessThanWellFounded, Zenon
<1>2. PICK x \in S : \A y \in S : ~(<<y, x>> \in OpToRel(<, Nat))
  BY <1>1, Zenon
<1>3. \A y \in S : ~(y < x)
  BY <1>2, Zenon DEF OpToRel
<1> QED
  BY <1>3

LEMMA GreatestRow ==
  ASSUME NEW n \in Nat, NEW S \in SUBSET (1..n), S # {}
  PROVE  \E m \in S : \A k \in S : k <= m
<1> DEFINE T == {n - k : k \in S}
<1>1. T \in SUBSET Nat /\ T # {}
  <2>1. \A k \in S : k \in 1..n /\ n - k \in Nat
    OBVIOUS
  <2> QED
    BY <2>1
<1>2. PICK t \in T : \A u \in T : t <= u
  BY <1>1, LeastRow
<1>3. PICK m \in S : t = n - m
  BY <1>2
<1>4. ASSUME NEW k \in S PROVE k <= m
  <2>1. t <= n - k
    BY <1>2
  <2> QED
    BY <1>3, <2>1
<1> QED
  BY <1>4

(* Where the bit of a row is.                                              *)
LEMMA BitOf ==
  ASSUME NEW r \in Nat \ {0}
  PROVE  /\ Bytes(r) \in Nat /\ Bytes(r) >= 1 /\ (r - 1) % 8 \in 0..7
         /\ r = 8 * (Bytes(r) - 1) + ((r - 1) % 8) + 1
         /\ \A b \in Nat \ {0}, k \in 0..7 : r = 8 * (b - 1) + k + 1 => b = Bytes(r) /\ k = (r - 1) % 8
<1> DEFINE q == r - 1
<1>1. q \in Nat /\ r = q + 1
  OBVIOUS
<1> HIDE DEF q
<1>2. q \div 8 \in Nat /\ q % 8 \in 0..7 /\ q = 8 * (q \div 8) + (q % 8)
  BY <1>1
<1>3. Bytes(r) = (q \div 8) + 1
  BY <1>1 DEF Bytes
<1>4. ASSUME NEW b \in Nat \ {0}, NEW k \in 0..7, r = 8 * (b - 1) + k + 1
      PROVE  b = Bytes(r) /\ k = q % 8
  BY <1>1, <1>2, <1>3, <1>4
<1> QED
  BY <1>1, <1>2, <1>3, <1>4 DEF q

LEMMA BytesGrow ==
  ASSUME NEW r \in Nat, NEW q \in Nat, r <= q
  PROVE  Bytes(r) <= Bytes(q) /\ Bytes(r) \in Nat
  BY DEF Bytes

-----------------------------------------------------------------------------
(* Values to a column: who reads the column gets the values, if they are   *)
(* of one type.                                                            *)
Live(vals) == {r \in 1..Len(vals) : vals[r] # Null}
ArmOf(vals) ==
  IF Live(vals) = {} THEN "int64" ELSE vals[CHOOSE r \in Live(vals) : \A q \in Live(vals) : r <= q].arm
DataOf(vals) == [r \in 1..Len(vals) |-> IF r \in Live(vals) THEN vals[r].val ELSE Filler]
BitsOf(vals) ==
  IF Live(vals) = 1..Len(vals) THEN <<>>
  ELSE [b \in 1..Bytes(Len(vals)) |->
          {k \in 0..7 : 8 * (b - 1) + k + 1 \notin (1..Len(vals)) \ Live(vals)}]

LEMMA OneType ==
  ASSUME NEW a, NEW vals \in Seq(Of(a))
  PROVE  /\ Live(vals) # {} => ArmOf(vals) = a
         /\ \A r \in Live(vals) : r \in 1..Len(vals) /\ vals[r].arm = ArmOf(vals) /\ vals[r] \in Sent
         /\ \A r \in 1..Len(vals) : vals[r] \in Of(a)
<1>1. \A r \in 1..Len(vals) : vals[r] \in Of(a)
  OBVIOUS
<1>2. \A r \in Live(vals) : r \in 1..Len(vals) /\ vals[r].arm = a /\ vals[r] \in Sent
  BY <1>1 DEF Live, Of
<1>3. ASSUME Live(vals) # {} PROVE ArmOf(vals) = a
  <2>1. Live(vals) \in SUBSET Nat
    BY DEF Live
  <2>2. \E r \in Live(vals) : \A q \in Live(vals) : r <= q
    BY <1>3, <2>1, LeastRow
  <2> QED
    BY <1>2, <1>3, <2>2 DEF ArmOf
<1> QED
  BY <1>1, <1>2, <1>3

LEMMA ColumnIs ==
  ASSUME NEW a, NEW vals \in Seq(Of(a))
  PROVE  column_from_values(vals) =
           [arm |-> ArmOf(vals), data |-> DataOf(vals), validity |-> BitsOf(vals), rows |-> Len(vals)]
<1> DEFINE kept == {r \in Live(vals) : vals[r].arm = ArmOf(vals)}
<1>1. kept = Live(vals)
  BY OneType
<1>2. column_from_values(vals) =
        [arm |-> ArmOf(vals),
         data |-> [r \in 1..Len(vals) |-> IF r \in kept THEN vals[r].val ELSE Filler],
         validity |-> IF kept = 1..Len(vals) THEN <<>>
                      ELSE [b \in 1..Bytes(Len(vals)) |->
                              {k \in 0..7 : 8 * (b - 1) + k + 1 \notin (1..Len(vals)) \ kept}],
         rows |-> Len(vals)]
  BY DEF column_from_values, Live, ArmOf
<1> QED
  BY <1>1, <1>2 DEF DataOf, BitsOf

(* A column as its reader sees it.                                         *)
LEMMA ColumnReads ==
  ASSUME NEW a, NEW vals \in Seq(Of(a))
  PROVE  LET c == column_from_values(vals)
         IN c.rows = Len(vals) /\ \A r \in 1..Len(vals) : Reads(c, r) = vals[r]
<1> DEFINE c == column_from_values(vals)
<1>1. c.arm = ArmOf(vals) /\ c.data = DataOf(vals) /\ c.validity = BitsOf(vals) /\ c.rows = Len(vals)
  BY ColumnIs
<1>2. Len(vals) \in Nat /\ Bytes(Len(vals)) \in Nat
  BY BytesGrow
<1> HIDE DEF c
<1>3. ASSUME NEW r \in 1..Len(vals)
      PROVE  (\E b \in DOMAIN c.validity, k \in 0..7 : r = 8 * (b - 1) + k + 1 /\ k \notin c.validity[b])
               <=> r \notin Live(vals)
  <2>1. CASE Live(vals) = 1..Len(vals)
    BY <1>1, <2>1 DEF BitsOf
  <2>2. CASE Live(vals) # 1..Len(vals)
    <3>1. /\ DOMAIN c.validity = 1..Bytes(Len(vals))
          /\ \A b \in 1..Bytes(Len(vals)) :
               c.validity[b] = {k \in 0..7 : 8 * (b - 1) + k + 1 \notin (1..Len(vals)) \ Live(vals)}
      BY <1>1, <2>2 DEF BitsOf
    <3>2. ASSUME NEW b \in DOMAIN c.validity, NEW k \in 0..7,
                 r = 8 * (b - 1) + k + 1, k \notin c.validity[b]
          PROVE  r \notin Live(vals)
      BY <3>1, <3>2
    <3>3. ASSUME r \notin Live(vals)
          PROVE  \E b \in DOMAIN c.validity, k \in 0..7 : r = 8 * (b - 1) + k + 1 /\ k \notin c.validity[b]
      <4> DEFINE b == Bytes(r)
                 k == (r - 1) % 8
      <4>1. b \in Nat /\ b >= 1 /\ k \in 0..7 /\ r = 8 * (b - 1) + k + 1
        BY BitOf
      <4>2. b <= Bytes(Len(vals))
        BY <1>2, BytesGrow
      <4> HIDE DEF b, k
      <4>3. b \in DOMAIN c.validity
        BY <1>2, <3>1, <4>1, <4>2
      <4>4. k \notin c.validity[b]
        BY <3>1, <3>3, <4>1, <4>3
      <4> QED
        BY <4>1, <4>3, <4>4
    <3> QED
      BY <3>2, <3>3
  <2> QED
    BY <2>1, <2>2
<1>4. ASSUME NEW r \in 1..Len(vals) PROVE Reads(c, r) = vals[r]
  <2>1. CASE r \notin Live(vals)
    <3>1. vals[r] = Null
      BY <2>1 DEF Live
    <3> QED
      BY <1>3, <2>1, <3>1 DEF Reads
  <2>2. CASE r \in Live(vals)
    <3>1. Reads(c, r) = [arm |-> ArmOf(vals), val |-> vals[r].val]
      BY <1>1, <1>3, <2>2 DEF Reads, DataOf
    <3>2. vals[r].arm = ArmOf(vals) /\ vals[r] \in DuckValues
      BY <2>2, OneType, Assumed
    <3> QED
      BY <3>1, <3>2 DEF DuckValues
  <2> QED
    BY <2>1, <2>2
<1> QED
  BY <1>1, <1>4 DEF c

-----------------------------------------------------------------------------
(* A column that was encoded: what its bitmap says, however short, and what *)
(* the two ways of reading it on the host make of it.                      *)
ShapesOf(n) == [arm : Arms, nulls : SUBSET (1..n), long : BOOLEAN, base : Nat, rows : {n}]

BitmapOf(s, size) == [b \in 1..size |-> {k \in 0..7 : 8 * (b - 1) + k + 1 \notin s.nulls}]

LEMMA EncodedIs ==
  ASSUME NEW n \in Nat, NEW s \in ShapesOf(n)
  PROVE  \E size \in Nat :
           /\ Encoded(s).validity = BitmapOf(s, size)
           /\ \A r \in s.nulls : Bytes(r) <= size
<1> DEFINE last == CHOOSE r \in s.nulls : \A q \in s.nulls : q <= r
           size == IF s.long THEN Bytes(s.rows) ELSE IF s.nulls = {} THEN 0 ELSE Bytes(last)
<1>1. Encoded(s).validity = BitmapOf(s, size)
  BY DEF Encoded, BitmapOf
<1>2. s.nulls \in SUBSET (1..n) /\ s.rows = n
  BY DEF ShapesOf
<1>3. ASSUME s.nulls # {} PROVE last \in s.nulls /\ \A q \in s.nulls : q <= last
  <2>1. \E r \in s.nulls : \A q \in s.nulls : q <= r
    BY <1>2, <1>3, GreatestRow
  <2> QED
    BY <2>1
<1> HIDE DEF last
<1>4. size \in Nat
  BY <1>2, <1>3, BytesGrow
<1>5. ASSUME NEW r \in s.nulls PROVE Bytes(r) <= size
  <2>1. r \in Nat /\ r <= n /\ s.nulls # {}
    BY <1>2
  <2>2. r <= last /\ last \in Nat
    BY <1>2, <1>3, <2>1
  <2> QED
    BY <1>2, <2>1, <2>2, BytesGrow
<1> HIDE DEF size
<1> QED
  BY <1>1, <1>4, <1>5

LEMMA EncodedValid ==
  ASSUME NEW n \in Nat, NEW s \in ShapesOf(n), NEW r \in 1..n
  PROVE  Valid(Encoded(s), r) <=> r \notin s.nulls
<1>1. PICK size \in Nat :
        Encoded(s).validity = BitmapOf(s, size) /\ \A q \in s.nulls : Bytes(q) <= size
  BY EncodedIs
<1> DEFINE bits == BitmapOf(s, size)
           b == Bytes(r)
           k == (r - 1) % 8
<1>2. /\ Len(bits) = size
      /\ \A i \in 1..size : bits[i] = {j \in 0..7 : 8 * (i - 1) + j + 1 \notin s.nulls}
  BY <1>1 DEF BitmapOf
<1>3. b \in Nat /\ b >= 1 /\ k \in 0..7 /\ r = 8 * (b - 1) + k + 1
  <2>1. r \in Nat \ {0}
    OBVIOUS
  <2> QED
    BY <2>1, BitOf
<1>4. Valid(Encoded(s), r) <=> b > size \/ k \in bits[b]
  BY <1>1, <1>2 DEF Valid
<1> HIDE DEF bits, b, k
<1>5. b <= size => (k \in bits[b] <=> r \notin s.nulls)
  BY <1>1, <1>2, <1>3
<1>6. r \in s.nulls => b <= size
  BY <1>1 DEF b
<1> QED
  BY <1>1, <1>3, <1>4, <1>5, <1>6

LEMMA RowRead ==
  ASSUME NEW n \in Nat, NEW s \in ShapesOf(n), NEW r \in 1..n
  PROVE  core_colvec_value_at(Encoded(s), r) = Meant(s, r, Value("complex", "row", r))
<1>1. Encoded(s).arm = s.arm /\ s.rows = n
  BY DEF Encoded, ShapesOf
<1>2. CASE r \in s.nulls
  BY <1>2, EncodedValid DEF core_colvec_value_at, Meant
<1>3. CASE r \notin s.nulls /\ s.arm \in Nested
  BY <1>1, <1>3, EncodedValid DEF core_colvec_value_at, Meant
<1>4. CASE r \notin s.nulls /\ s.arm \notin Nested
  <2>1. Encoded(s).data[r] = <<"raw", s.base + r>>
    BY <1>1, <1>4 DEF Encoded
  <2> QED
    BY <1>1, <1>4, <2>1, EncodedValid DEF core_colvec_value_at, Meant, Value
<1> QED
  BY <1>2, <1>3, <1>4

LEMMA ColumnRead ==
  ASSUME NEW n \in Nat, NEW s \in ShapesOf(n)
  PROVE  colvec_to_values(Encoded(s)) = [r \in 1..n |-> Meant(s, r, Value("complex", "bytes", 0))]
<1>1. Encoded(s).arm = s.arm /\ Encoded(s).rows = n /\ s.rows = n
  BY DEF Encoded, ShapesOf
<1>2. CASE s.arm \in Nested
  <2>1. colvec_to_values(Encoded(s)) =
          [r \in 1..n |-> IF Valid(Encoded(s), r) THEN Value("complex", "bytes", 0) ELSE Null]
    BY <1>1, <1>2 DEF colvec_to_values
  <2> QED
    BY <1>2, <2>1, EncodedValid DEF Meant
<1>3. CASE s.arm \notin Nested
  <2>1. /\ DOMAIN Encoded(s).data = 1..n
        /\ \A r \in 1..n : r \notin s.nulls => Encoded(s).data[r] = <<"raw", s.base + r>>
    BY <1>1, <1>3 DEF Encoded
  <2>2. colvec_to_values(Encoded(s)) =
          [r \in 1..n |-> IF Valid(Encoded(s), r) THEN [arm |-> s.arm, val |-> Encoded(s).data[r]]
                          ELSE Null]
    BY <1>1, <1>3, <2>1 DEF colvec_to_values
  <2>3. \A r \in 1..n :
          (IF Valid(Encoded(s), r) THEN [arm |-> s.arm, val |-> Encoded(s).data[r]] ELSE Null)
            = Meant(s, r, Value("complex", "bytes", 0))
    BY <1>3, <2>1, EncodedValid DEF Meant, Value
  <2> QED
    BY <2>2, <2>3
<1> QED
  BY <1>2, <1>3

(* What a row of a shape means: NULL, or a value of one type.              *)
LEMMA MeantOf ==
  ASSUME NEW n \in Nat, NEW s \in ShapesOf(n), NEW r \in 1..n,
         NEW opaque \in Sent, opaque.arm = "complex"
  PROVE  Meant(s, r, opaque) \in Of(Typed(s))
<1>1. s.arm \in Arms /\ s.base \in Nat
  BY DEF ShapesOf
<1>2. <<"raw", s.base + r>> \in Payloads
  BY <1>1 DEF Payloads
<1>3. Value(s.arm, "raw", s.base + r) \in Sent
  BY <1>1, <1>2 DEF Value, Sent
<1> QED
  BY <1>3 DEF Meant, Of, Typed, Value

-----------------------------------------------------------------------------
(* From the core to the extension.                                         *)
LEMMA ColumnCrosses ==
  ASSUME NEW c
  PROVE  value_to_core_column(Lifted(core_column_to_value(c))) = c /\ column_to_value(c).v = c
  BY DEF value_to_core_column, Lifted, core_column_to_value, column_to_value

LEMMA ShapesAre == ASSUME NEW n \in Nat PROVE Shapes(n) \subseteq ShapesOf(n)
  BY DEF Shapes, ShapesOf

LEMMA ShapedAre ==
  ASSUME NEW n \in Nat, NEW number \in Nat, NEW shapes \in Shaped(n, number)
  PROVE  shapes \in [1..number -> ShapesOf(n)]
<1>1. PICK s \in [1..number -> Shapes(n)] :
        shapes = [j \in 1..number |-> [s[j] EXCEPT !.base = 100 * j]]
  BY DEF Shaped
<1>2. ASSUME NEW j \in 1..number PROVE [s[j] EXCEPT !.base = 100 * j] \in ShapesOf(n)
  <2>1. s[j] \in ShapesOf(n)
    BY ShapesAre
  <2> QED
    BY <2>1 DEF ShapesOf
<1> QED
  BY <1>1, <1>2

LEMMA MeantRowsAre ==
  ASSUME NEW n \in Nat, NEW number \in Nat, NEW shapes \in [1..number -> ShapesOf(n)],
         NEW rows, rows = MeantRows(n, shapes)
  PROVE  /\ DOMAIN rows = 1..n /\ Len(rows) = n
         /\ \A r \in 1..n : DOMAIN rows[r] = 1..number /\ Len(rows[r]) = number
         /\ \A r \in 1..n, j \in 1..number : rows[r][j] \in Of(Typed(shapes[j]))
         /\ rows \in Seq(Seq(Sent))
<1>1. rows = [r \in 1..n |-> [j \in 1..number |-> Meant(shapes[j], r, Value("complex", "row", r))]]
  BY DEF MeantRows
<1>2. ASSUME NEW r \in 1..n, NEW j \in 1..number PROVE rows[r][j] \in Of(Typed(shapes[j]))
  <2>1. <<"row", r>> \in Payloads
    BY DEF Payloads
  <2>2. Value("complex", "row", r) \in Sent /\ Value("complex", "row", r).arm = "complex"
    BY <2>1 DEF Value, Sent
  <2>3. shapes[j] \in ShapesOf(n)
    OBVIOUS
  <2> QED
    BY <1>1, <2>2, <2>3, MeantOf
<1>3. DOMAIN rows = 1..n /\ \A r \in 1..n : DOMAIN rows[r] = 1..number
  BY <1>1
<1>4. \A r \in 1..n : rows[r] \in Seq(Sent) /\ Len(rows[r]) = number
  <2>1. \A r \in 1..n, j \in 1..number : rows[r][j] \in Sent
    BY <1>2 DEF Of, Sent
  <2>2. \A r \in 1..n : rows[r] = [j \in 1..number |-> rows[r][j]]
    BY <1>1
  <2> QED
    BY <1>3, <2>1, <2>2
<1>5. rows \in Seq(Seq(Sent)) /\ Len(rows) = n
  <2>1. rows = [r \in 1..n |-> rows[r]]
    BY <1>1
  <2> QED
    BY <1>4, <2>1
<1> QED
  BY <1>2, <1>3, <1>4, <1>5

LEMMA RowsRead ==
  ASSUME NEW n \in Nat, NEW number \in Nat, NEW shapes \in [1..number -> ShapesOf(n)]
  PROVE  /\ number = 0 => RowsOf(shapes) = <<>>
         /\ number # 0 => RowsOf(shapes) = MeantRows(n, shapes)
<1> DEFINE cols == [j \in 1..number |-> Encoded(shapes[j])]
<1>1. RowsOf(shapes) = core_colvecs_to_ext_rows(cols)
  BY ColumnCrosses DEF RowsOf
<1>2. CASE number = 0
  BY <1>1, <1>2 DEF core_colvecs_to_ext_rows
<1>3. CASE number # 0
  <2>1. cols # <<>> /\ cols[1].rows = n /\ DOMAIN cols = 1..number
    <3>1. 1 \in 1..number
      BY <1>3
    <3>2. \A shape : Encoded(shape).rows = shape.rows
      BY DEF Encoded
    <3>3. shapes[1].rows = n
      BY <3>1 DEF ShapesOf
    <3>4. DOMAIN cols = 1..number /\ cols[1] = Encoded(shapes[1])
      BY <3>1
    <3> HIDE DEF cols
    <3>5. cols # <<>>
      BY <3>1, <3>4
    <3> QED
      BY <3>2, <3>3, <3>4, <3>5
  <2>2. core_colvecs_to_ext_rows(cols) =
          [r \in 1..n |-> [j \in 1..number |-> core_colvec_value_at(cols[j], r)]]
    BY <2>1 DEF core_colvecs_to_ext_rows
  <2>3. \A r \in 1..n, j \in 1..number :
          core_colvec_value_at(cols[j], r) = Meant(shapes[j], r, Value("complex", "row", r))
    BY RowRead
  <2>4. MeantRows(n, shapes) =
          [r \in 1..n |-> [j \in 1..number |-> Meant(shapes[j], r, Value("complex", "row", r))]]
    BY DEF MeantRows
  <2> HIDE DEF cols
  <2> QED
    BY <1>1, <1>3, <2>2, <2>3, <2>4
<1> QED
  BY <1>2, <1>3

(* Columns that hold rows.                                                 *)
ByRow(cols, rows) ==
  /\ \A j \in DOMAIN cols : cols[j].v.rows \in Nat
  /\ rows # <<>> =>
    /\ Len(cols) = Len(rows[1])
    /\ \A j \in DOMAIN cols :
         /\ cols[j].v.rows = Len(rows)
         /\ \A r \in DOMAIN rows : Reads(cols[j].v, r) = rows[r][j]

LEMMA RowsConveyed ==
  ASSUME NEW n \in Nat, NEW number \in Nat, NEW shapes \in [1..number -> ShapesOf(n)]
  PROVE  ByRow(AsColumns(RowsOf(shapes)), MeantRows(n, shapes))
<1> SUFFICES ASSUME NEW rows, rows = MeantRows(n, shapes)
             PROVE  ByRow(AsColumns(RowsOf(shapes)), rows)
  OBVIOUS
<1> DEFINE at(j) == [r \in 1..n |-> rows[r][j]]
<1>1. /\ DOMAIN rows = 1..n /\ Len(rows) = n
      /\ \A r \in 1..n : DOMAIN rows[r] = 1..number /\ Len(rows[r]) = number
      /\ \A r \in 1..n, j \in 1..number : rows[r][j] \in Of(Typed(shapes[j]))
  <2>1. DOMAIN rows = 1..n /\ Len(rows) = n
    BY MeantRowsAre
  <2>2. \A r \in 1..n : DOMAIN rows[r] = 1..number /\ Len(rows[r]) = number
    BY MeantRowsAre
  <2>3. ASSUME NEW r \in 1..n, NEW j \in 1..number PROVE rows[r][j] \in Of(Typed(shapes[j]))
    BY MeantRowsAre
  <2> QED
    BY <2>1, <2>2, <2>3
<1>2. CASE rows = <<>>
  <2>1. RowsOf(shapes) = <<>> /\ rows_to_colvecs(<<>>) = <<>>
    BY <1>2, RowsRead DEF rows_to_colvecs
  <2>2. AsColumns(RowsOf(shapes)) = <<>>
    BY <2>1 DEF AsColumns
  <2> QED
    BY <1>2, <2>2 DEF ByRow
<1>3. CASE rows # <<>> /\ number = 0
  <2>1. AsColumns(RowsOf(shapes)) = <<>>
    <3>1. RowsOf(shapes) = <<>> /\ rows_to_colvecs(<<>>) = <<>>
      BY <1>3, RowsRead DEF rows_to_colvecs
    <3> QED
      BY <3>1 DEF AsColumns
  <2>2. 1 \in 1..n
    BY <1>1, <1>3
  <2> QED
    BY <1>1, <1>3, <2>1, <2>2 DEF ByRow
<1>4. CASE rows # <<>> /\ number # 0
  <2>1. 1 \in 1..n /\ RowsOf(shapes) = rows
    BY <1>1, <1>4, RowsRead
  <2> DEFINE cols == AsColumns(rows)
  <2>2. /\ DOMAIN cols = 1..number
        /\ \A j \in 1..number : cols[j].v = column_from_values(at(j))
    BY <1>1, <1>4, <2>1, ColumnCrosses DEF AsColumns, rows_to_colvecs
  <2>3. Len(cols) = number
    BY <1>1, <1>4, <2>1 DEF AsColumns, rows_to_colvecs
  <2>4. ASSUME NEW j \in 1..number
        PROVE  /\ column_from_values(at(j)).rows = n
               /\ \A r \in 1..n : Reads(column_from_values(at(j)), r) = rows[r][j]
    <3>1. at(j) \in Seq(Of(Typed(shapes[j]))) /\ Len(at(j)) = n /\ \A r \in 1..n : at(j)[r] = rows[r][j]
      BY <1>1
    <3> HIDE DEF at
    <3> QED
      BY <3>1, ColumnReads
  <2> HIDE DEF cols, at
  <2>5. ByRow(cols, rows)
    BY <1>1, <2>1, <2>2, <2>3, <2>4 DEF ByRow
  <2> QED
    BY <2>1, <2>5 DEF cols
<1> QED
  BY <1>2, <1>3, <1>4

LEMMA OneRow ==
  ASSUME NEW row \in Seq(Sent), Len(row) = 1
  PROVE  Len(AsColumn(row)) = 1 /\ Reads(AsColumn(row)[1].v, 1) = row[1]
<1>1. row = <<row[1]>> /\ row[1] \in Sent
  OBVIOUS
<1>2. row[1] \in Of(row[1].arm)
  BY <1>1 DEF Of
<1>3. row \in Seq(Of(row[1].arm))
  <2> DEFINE T == Of(row[1].arm)
  <2>1. row[1] \in T
    BY <1>2
  <2> HIDE DEF T
  <2>2. row \in Seq(T)
    <3>1. row = [i \in 1..1 |-> row[1]]
      OBVIOUS
    <3>2. [i \in 1..1 |-> row[1]] \in Seq(T)
      BY <2>1
    <3> QED
      BY <3>1, <3>2
  <2> QED
    BY <2>2 DEF T
<1>4. AsColumn(row) = <<column_to_value(column_from_values(row))>>
  BY DEF AsColumn
<1>5. AsColumn(row)[1].v = column_from_values(row) /\ Len(AsColumn(row)) = 1
  BY <1>4, ColumnCrosses
<1> QED
  BY <1>3, <1>5, ColumnReads

-----------------------------------------------------------------------------
(* From the extension to the core.                                         *)
LEMMA ToldIs ==
  ASSUME NEW v
  PROVE  convert_extension_duckvalue_to_core(v) = Told(v)
  BY DEF convert_extension_duckvalue_to_core, Told, Value

ToldType(a) == IF a \in Wide THEN "complex" ELSE a

LEMMA ToldOf ==
  ASSUME NEW a, NEW v \in Of(a)
  PROVE  Told(v) \in Of(ToldType(a))
<1>1. CASE v = Null
  BY <1>1 DEF Told, Null, Of, Wide
<1>2. CASE v # Null /\ a \notin Wide
  BY <1>2 DEF Told, Of, ToldType
<1>3. CASE v # Null /\ a \in Wide
  <2>1. v \in [arm : Arms \cup {"complex"}, val : Payloads] /\ v.arm = a
    BY <1>3 DEF Of, Sent
  <2>2. a \in Arms /\ v.val[2] \in Nat
    BY <1>3, <2>1 DEF Wide, Payloads
  <2>3. Value("complex", a, v.val[2]) \in Sent
    BY <2>2 DEF Value, Sent, Payloads
  <2> QED
    BY <1>3, <2>1, <2>3 DEF Told, Of, ToldType, Value
<1> QED
  BY <1>1, <1>2, <1>3

LEMMA ColumnTold ==
  ASSUME NEW a, NEW vals \in Seq(Of(a))
  PROVE  /\ ext_values_to_core_colvec(vals).rows = Len(vals)
         /\ \A r \in 1..Len(vals) : Reads(ext_values_to_core_colvec(vals), r) = Told(vals[r])
<1> DEFINE told == [r \in 1..Len(vals) |-> Told(vals[r])]
<1>1. ext_values_to_core_colvec(vals) = column_from_values(told)
  BY ToldIs DEF ext_values_to_core_colvec
<1>2. \A r \in 1..Len(vals) : Told(vals[r]) \in Of(ToldType(a))
  BY ToldOf
<1>3. /\ told \in Seq(Of(ToldType(a))) /\ Len(told) = Len(vals)
      /\ \A r \in 1..Len(vals) : told[r] = Told(vals[r])
  BY <1>2
<1> HIDE DEF told
<1> QED
  BY <1>1, <1>3, ColumnReads

LEMMA AnsweredIs ==
  ASSUME NEW n \in Nat, NEW s \in ShapesOf(n)
  PROVE  /\ Answered(s) = IF s.arm = "uint8" /\ bytes THEN NoValue ELSE Encoded(s)
         /\ Encoded(s) # NoValue
<1>1. Answered(s) = IF s.arm = "uint8" /\ bytes THEN NoValue ELSE Encoded(s)
  BY DEF Answered, value_to_column, Lifted, column_to_value, Encoded, Nested
<1>2. s.arm \in Arms /\ s.base \in Nat /\ s.rows = n
  BY DEF ShapesOf
<1>3. Encoded(s).data \in Seq(Payloads)
  <2>1. \A r \in 1..n : <<"junk", 0>> \in Payloads /\ <<"raw", s.base + r>> \in Payloads
    BY <1>2 DEF Payloads
  <2>2. Encoded(s).data = IF s.arm \in Nested THEN <<>>
                          ELSE [r \in 1..n |->
                                  IF r \in s.nulls THEN <<"junk", 0>> ELSE <<"raw", s.base + r>>]
    BY <1>2 DEF Encoded
  <2> QED
    BY <2>1, <2>2
<1>4. Encoded(s).validity \in Seq(SUBSET (0..7))
  <2>1. PICK size \in Nat : Encoded(s).validity = BitmapOf(s, size)
    BY EncodedIs
  <2>2. \A b \in 1..size : {k \in 0..7 : 8 * (b - 1) + k + 1 \notin s.nulls} \in SUBSET (0..7)
    OBVIOUS
  <2> QED
    BY <2>1, <2>2 DEF BitmapOf
<1>5. Encoded(s) = [arm |-> s.arm, data |-> Encoded(s).data, validity |-> Encoded(s).validity, rows |-> n]
  BY <1>2 DEF Encoded
<1>6. Encoded(s) \in ColVecs
  BY <1>2, <1>3, <1>4, <1>5 DEF ColVecs, Types
<1> QED
  BY <1>1, <1>6, Assumed

LEMMA AnswerIs ==
  ASSUME NEW n \in Nat, NEW s \in ShapesOf(n)
  PROVE  /\ Len(Answer(s)) = n /\ DOMAIN Answer(s) = 1..n
         /\ \A r \in 1..n :
              /\ Answer(s)[r] = <<Meant(s, r, Value("complex", "bytes", 0))>>
              /\ Meant(s, r, Value("complex", "bytes", 0)) \in Of(Typed(s))
<1>1. s.rows = n
  BY DEF ShapesOf
<1>2. Value("complex", "bytes", 0) \in Sent /\ Value("complex", "bytes", 0).arm = "complex"
  <2>1. <<"bytes", 0>> \in Payloads
    BY DEF Payloads
  <2> QED
    BY <2>1 DEF Value, Sent
<1> QED
  BY <1>1, <1>2, MeantOf DEF Answer

LEMMA ColumnAnswered ==
  ASSUME NEW n \in Nat, NEW s \in ShapesOf(n)
  PROVE  LET vals == colvec_to_values(Encoded(s))
         IN /\ vals \in Seq(Of(Typed(s))) /\ Len(vals) = n
            /\ \A r \in 1..n : Answer(s)[r] = <<vals[r]>>
<1>1. colvec_to_values(Encoded(s)) = [r \in 1..n |-> Meant(s, r, Value("complex", "bytes", 0))]
  BY ColumnRead
<1>2. \A r \in 1..n : Meant(s, r, Value("complex", "bytes", 0)) \in Of(Typed(s))
  BY AnswerIs
<1> QED
  BY <1>1, <1>2, AnswerIs

-----------------------------------------------------------------------------
(* The two properties, of any call, argument, history and reply.           *)
ConveyedAs(args, c, done) ==
  CASE c.method \in {"call-scalar", "call-table", "call-pragma"} ->
         [j \in DOMAIN args |-> args[j].v] = c.rows[1]
    [] c.method \in {"call-cast", "call-cast-col"} ->
         Len(args) = 1 /\ Reads(args[1].v, 1) = c.rows[Len(done) + 1][1]
    [] OTHER -> ByRow(args, c.rows)

DeliveredAs(r, said, c, lifts) ==
  CASE r.kind = "values" ->
         r.rows = [i \in DOMAIN said |-> [j \in DOMAIN said[i] |-> Told(said[i][j])]]
    [] r.kind = "column" ->
         /\ r.col.rows = Len(said)
         /\ \A i \in DOMAIN said : Reads(r.col, i) = Told(said[i][1])
    [] r.kind = "error" ->
         \/ said = NoValue
         \/ said = <<>> /\ r.error = "invalidstate"
         \/ /\ lifts /\ r.error = "internal"
            /\ \A i \in DOMAIN said : said[i][1].arm \in {"null", "uint8"}
    [] OTHER -> lifts /\ \E j \in DOMAIN c.rows[1] : c.rows[1][j].arm = "blob"

(* What call-cast-col still has to cast is what is left of the core's rows, *)
(* and what it has cast is what was answered.                              *)
Casting ==
  /\ rest \in Seq(Seq(Sent)) /\ casts \in Seq(Sent)
  /\ answers = [i \in DOMAIN casts |-> <<casts[i]>>]
  /\ \A i \in DOMAIN rest : Len(rest[i]) = 1 /\ rest[i][1] = call.rows[Len(casts) + 1 + i][1]

Clean == given = NoValue /\ reply = NoValue /\ rest = <<>> /\ casts = <<>> /\ answers = <<>>

BridgeInv ==
  /\ call = NoValue => Clean
  /\ given # NoValue =>
       /\ reply = NoValue
       /\ ConveyedAs(given, call, casts)
       /\ IF call.method = "call-cast-col" THEN Casting ELSE casts = <<>> /\ answers = <<>>
  /\ reply # NoValue => DeliveredAs(reply, answers, call, bytes)

LEMMA BridgeImplies == BridgeInv => Conveyed /\ Delivered
<1>1. BridgeInv => Conveyed
  BY DEF BridgeInv, Conveyed, ConveyedAs, ByRow
<1>2. BridgeInv => Delivered
  BY DEF BridgeInv, Delivered, DeliveredAs
<1> QED
  BY <1>1, <1>2

LEMMA DeliveredValues ==
  ASSUME NEW rows, NEW said, NEW c, NEW lifts,
         rows = [i \in DOMAIN said |-> [j \in DOMAIN said[i] |-> Told(said[i][j])]]
  PROVE  DeliveredAs(Values(rows), said, c, lifts)
  BY DEF DeliveredAs, Values

LEMMA DeliveredColumn ==
  ASSUME NEW col, NEW said, NEW c, NEW lifts, col.rows = Len(said),
         \A i \in DOMAIN said : Reads(col, i) = Told(said[i][1])
  PROVE  DeliveredAs(Column(col), said, c, lifts)
<1>1. Column(col).kind = "column" /\ Column(col).col = col
  BY ColumnCrosses DEF Column, core_column_to_value
<1> QED
  BY <1>1 DEF DeliveredAs

LEMMA DeliveredError ==
  ASSUME NEW e, NEW said, NEW c, NEW lifts,
         \/ said = NoValue
         \/ said = <<>> /\ e = "invalidstate"
         \/ /\ lifts /\ e = "internal"
            /\ \A i \in DOMAIN said : said[i][1].arm \in {"null", "uint8"}
  PROVE  DeliveredAs(Failed(e), said, c, lifts)
  BY DEF DeliveredAs, Failed

LEMMA DeliveredTrap ==
  ASSUME NEW said, NEW c, NEW lifts,
         lifts, \E j \in DOMAIN c.rows[1] : c.rows[1][j].arm = "blob"
  PROVE  DeliveredAs(Trapping, said, c, lifts)
  BY DEF DeliveredAs, Trapping

-----------------------------------------------------------------------------
(* The core's calls.                                                       *)
LEMMA BeginStep ==
  ASSUME BridgeInv, call = NoValue, NEW method \in Methods, NEW rows \in Seq(Seq(Sent)),
         Begin(method, rows),
         \/ given' = NoValue /\ DeliveredAs(reply', <<>>, call', bytes)
         \/ /\ reply' = NoValue /\ ConveyedAs(given', call', <<>>)
            /\ method = "call-cast-col" =>
                 /\ rest' \in Seq(Seq(Sent))
                 /\ \A i \in DOMAIN rest' : Len(rest'[i]) = 1 /\ rest'[i][1] = rows[1 + i][1]
  PROVE  BridgeInv'
<1>1. call' = [method |-> method, rows |-> rows] /\ UNCHANGED <<bytes, casts, answers>>
  BY DEF Begin
<1>2. casts = <<>> /\ answers = <<>>
  BY DEF BridgeInv, Clean
<1>3. call' # NoValue
  <2>1. Seq(Sent) \subseteq Seq(DuckValues)
    BY Assumed
  <2>2. rows \in Seq(Seq(DuckValues))
    BY <2>1
  <2> QED
    BY <1>1, <2>2, Assumed DEF Requests
<1>4. CASE given' = NoValue /\ DeliveredAs(reply', <<>>, call', bytes)
  BY <1>1, <1>2, <1>3, <1>4 DEF BridgeInv
<1>5. CASE /\ reply' = NoValue /\ ConveyedAs(given', call', <<>>)
           /\ method = "call-cast-col" =>
                /\ rest' \in Seq(Seq(Sent))
                /\ \A i \in DOMAIN rest' : Len(rest'[i]) = 1 /\ rest'[i][1] = rows[1 + i][1]
  <2>1. method = "call-cast-col" => Casting'
    <3>1. casts' = <<>> /\ casts' \in Seq(Sent) /\ answers' = [i \in DOMAIN casts' |-> <<casts'[i]>>]
      BY <1>1, <1>2
    <3>2. Len(casts') = 0 /\ call'.rows = rows
      BY <1>1, <1>2
    <3>3. method = "call-cast-col" =>
            \A i \in DOMAIN rest' : Len(rest'[i]) = 1 /\ rest'[i][1] = call'.rows[Len(casts') + 1 + i][1]
      BY <1>5, <3>2
    <3> QED
      BY <1>5, <3>1, <3>3 DEF Casting
  <2>2. call'.method = method
    BY <1>1
  <2> QED
    BY <1>1, <1>2, <1>3, <1>5, <2>1, <2>2 DEF BridgeInv
<1> QED
  BY <1>4, <1>5

LEMMA DispatchIs ==
  ASSUME NEW args, NEW c, Dispatch(args), ConveyedAs(args, c, <<>>)
  PROVE  \/ given' = NoValue /\ DeliveredAs(reply', <<>>, c, bytes)
         \/ reply' = NoValue /\ ConveyedAs(given', c, <<>>)
  BY DeliveredError DEF Dispatch

LEMMA ValuesRead ==
  ASSUME NEW vals \in Seq(Sent)
  PROVE  LET read == [j \in DOMAIN vals |->
                        value_to_core_duckvalue(Lifted(duckvalue_to_value(vals[j])))]
         IN /\ (\E j \in DOMAIN read : read[j] = NoValue)
                  => bytes /\ \E j \in DOMAIN vals : vals[j].arm = "blob"
            /\ ~(\E j \in DOMAIN read : read[j] = NoValue) => read = vals
<1> DEFINE one(v) == value_to_core_duckvalue(Lifted(duckvalue_to_value(v)))
<1>1. ASSUME NEW v \in Sent
      PROVE  one(v) = IF v.arm = "blob" /\ bytes THEN NoValue ELSE v
  BY DEF value_to_core_duckvalue, Lifted, duckvalue_to_value
<1>2. \A j \in DOMAIN vals : vals[j] \in Sent /\ vals[j] # NoValue
  BY Assumed
<1>3. vals = [j \in DOMAIN vals |-> vals[j]]
  OBVIOUS
<1> HIDE DEF one
<1>4. /\ (\E j \in DOMAIN vals : one(vals[j]) = NoValue)
           => bytes /\ \E j \in DOMAIN vals : vals[j].arm = "blob"
      /\ ~(\E j \in DOMAIN vals : one(vals[j]) = NoValue) => \A j \in DOMAIN vals : one(vals[j]) = vals[j]
  BY <1>1, <1>2
<1> QED
  BY <1>3, <1>4 DEF one

LEMMA WithValuesStep ==
  ASSUME BridgeInv, call = NoValue, NEW method \in Methods, NEW vals \in Seq(Sent), NEW column \in BOOLEAN,
         WithValues(method, vals, column),
         IF column THEN method = "call-cast" /\ Len(vals) = 1
         ELSE method \in {"call-scalar", "call-table", "call-pragma"}
  PROVE  BridgeInv'
<1> DEFINE read == [j \in DOMAIN vals |->
                      value_to_core_duckvalue(Lifted(duckvalue_to_value(vals[j])))]
           request == [method |-> method, rows |-> <<vals>>]
           args == IF column THEN AsColumn(vals) ELSE AsValues(vals)
<1>1. Begin(method, <<vals>>) /\ call' = request /\ <<vals>> \in Seq(Seq(Sent))
  BY DEF WithValues, Begin
<1>2. CASE \E j \in DOMAIN read : read[j] = NoValue
  <2>1. bytes /\ \E j \in DOMAIN vals : vals[j].arm = "blob"
    BY <1>2, ValuesRead
  <2>2. given' = NoValue /\ reply' = Trapping
    BY <1>2 DEF WithValues
  <2>3. DeliveredAs(Trapping, <<>>, request, bytes)
    BY <2>1, DeliveredTrap
  <2> HIDE DEF request
  <2> QED
    BY <1>1, <2>2, <2>3, BeginStep
<1>3. CASE ~(\E j \in DOMAIN read : read[j] = NoValue)
  <2>1. read = vals
    BY <1>3, ValuesRead
  <2>2. Dispatch(args)
    BY <1>3, <2>1 DEF WithValues
  <2>3. ConveyedAs(args, request, <<>>)
    <3>1. CASE column
      <4>1. Len(AsColumn(vals)) = 1 /\ Reads(AsColumn(vals)[1].v, 1) = vals[1]
        BY <3>1, OneRow
      <4> QED
        BY <3>1, <4>1 DEF ConveyedAs
    <3>2. CASE ~column
      <4>1. [j \in DOMAIN AsValues(vals) |-> AsValues(vals)[j].v] = vals
        <5>1. \A j \in DOMAIN vals : AsValues(vals)[j].v = vals[j]
          BY DEF AsValues, duckvalue_to_value
        <5>2. DOMAIN AsValues(vals) = DOMAIN vals /\ vals = [j \in DOMAIN vals |-> vals[j]]
          BY DEF AsValues
        <5> QED
          BY <5>1, <5>2
      <4> QED
        BY <3>2, <4>1 DEF ConveyedAs
    <3> QED
      BY <3>1, <3>2
  <2> HIDE DEF request, args
  <2>4. method # "call-cast-col"
    OBVIOUS
  <2> QED
    BY <1>1, <2>2, <2>3, <2>4, BeginStep, DispatchIs
<1> QED
  BY <1>2, <1>3

LEMMA WithColumnsStep ==
  ASSUME BridgeInv, call = NoValue,
         NEW method \in {"call-scalar-batch-col", "call-aggregate-col"}, WithColumns(method)
  PROVE  BridgeInv'
<1>1. PICK n \in RowCounts, number \in 0..2 : \E s \in Shaped(n, number) :
        /\ Begin(method, MeantRows(n, s))
        /\ Dispatch(AsColumns(RowsOf(s)))
  BY DEF WithColumns
<1>2. PICK s \in Shaped(n, number) :
        Begin(method, MeantRows(n, s)) /\ Dispatch(AsColumns(RowsOf(s)))
  BY <1>1
<1>3. n \in Nat /\ number \in Nat
  BY Assumed
<1>4. s \in [1..number -> ShapesOf(n)]
  BY <1>3, ShapedAre
<1> DEFINE rows == MeantRows(n, s)
           args == AsColumns(RowsOf(s))
<1>5. rows \in Seq(Seq(Sent)) /\ ByRow(args, rows)
  <2>1. ByRow(args, rows)
    BY <1>3, <1>4, RowsConveyed
  <2>2. rows = MeantRows(n, s)
    OBVIOUS
  <2> HIDE DEF rows
  <2>3. rows \in Seq(Seq(Sent))
    BY <1>3, <1>4, <2>2, MeantRowsAre
  <2> QED
    BY <2>1, <2>3
<1>6. Begin(method, rows) /\ Dispatch(args)
  BY <1>2
<1> HIDE DEF rows, args
<1>7. call'.rows = rows /\ call'.method = method
  BY <1>6 DEF Begin
<1>8. ConveyedAs(args, call', <<>>)
  BY <1>5, <1>7 DEF ConveyedAs
<1>9. method \in Methods /\ method # "call-cast-col"
  BY DEF Methods
<1> QED
  BY <1>5, <1>6, <1>8, <1>9, DispatchIs, BeginStep

LEMMA CastColStep ==
  ASSUME BridgeInv, call = NoValue, call_cast_col
  PROVE  BridgeInv'
<1> DEFINE m == "call-cast-col"
<1>1. PICK n \in RowCounts : \E s \in Shaped(n, 1) :
        /\ Begin(m, MeantRows(n, s))
        /\ IF RowsOf(s) = <<>>
             THEN given' = NoValue /\ reply' = Column(ext_values_to_core_colvec(<<>>))
             ELSE Dispatch(AsColumn(RowsOf(s)[1])) /\ rest' = Tail(RowsOf(s))
  BY DEF call_cast_col
<1>2. PICK s \in Shaped(n, 1) :
        /\ Begin(m, MeantRows(n, s))
        /\ IF RowsOf(s) = <<>>
             THEN given' = NoValue /\ reply' = Column(ext_values_to_core_colvec(<<>>))
             ELSE Dispatch(AsColumn(RowsOf(s)[1])) /\ rest' = Tail(RowsOf(s))
  BY <1>1
<1>3. n \in Nat /\ s \in [1..1 -> ShapesOf(n)]
  BY Assumed, ShapedAre
<1> DEFINE rows == MeantRows(n, s)
<1>4. /\ RowsOf(s) = rows /\ rows \in Seq(Seq(Sent))
      /\ \A r \in DOMAIN rows : Len(rows[r]) = 1
  <2>1. RowsOf(s) = rows
    <3>1. \A k \in Nat : s \in [1..k -> ShapesOf(n)] /\ k # 0 => RowsOf(s) = MeantRows(n, s)
      BY <1>3, RowsRead
    <3> QED
      BY <1>3, <3>1
  <2>2. rows = MeantRows(n, s)
    OBVIOUS
  <2> HIDE DEF rows
  <2>3. \A k \in Nat :
          s \in [1..k -> ShapesOf(n)] =>
            /\ DOMAIN rows = 1..n /\ rows \in Seq(Seq(Sent))
            /\ \A r \in 1..n : Len(rows[r]) = k
    BY <1>3, <2>2, MeantRowsAre
  <2> QED
    BY <1>3, <2>1, <2>3
<1>5. Begin(m, rows) /\ m \in Methods
  BY <1>2 DEF Methods
<1> HIDE DEF rows
<1>6. call' = [method |-> m, rows |-> rows]
  BY <1>5 DEF Begin
<1>7. CASE rows = <<>>
  <2>1. <<>> \in Seq(Of("int64")) /\ Len(<<>>) = 0
    OBVIOUS
  <2>2. ext_values_to_core_colvec(<<>>).rows = 0
    BY <2>1, ColumnTold
  <2>3. DeliveredAs(Column(ext_values_to_core_colvec(<<>>)), <<>>, call', bytes)
    BY <2>1, <2>2, DeliveredColumn
  <2> QED
    BY <1>2, <1>4, <1>5, <1>7, <2>3, BeginStep
<1>8. CASE rows # <<>>
  <2>1. Dispatch(AsColumn(rows[1])) /\ rest' = Tail(rows)
    BY <1>2, <1>4, <1>8
  <2>2. rows[1] \in Seq(Sent) /\ Len(rows[1]) = 1
    BY <1>4, <1>8
  <2>3. Len(AsColumn(rows[1])) = 1 /\ Reads(AsColumn(rows[1])[1].v, 1) = rows[1][1]
    BY <2>2, OneRow
  <2>4. ConveyedAs(AsColumn(rows[1]), call', <<>>)
    BY <1>6, <2>3 DEF ConveyedAs
  <2>5. /\ rest' \in Seq(Seq(Sent))
        /\ \A i \in DOMAIN rest' : Len(rest'[i]) = 1 /\ rest'[i][1] = rows[1 + i][1]
    BY <1>4, <1>8, <2>1
  <2>6. \/ given' = NoValue /\ DeliveredAs(reply', <<>>, call', bytes)
        \/ reply' = NoValue /\ ConveyedAs(given', call', <<>>)
    BY <2>1, <2>4, DispatchIs
  <2> QED
    BY <1>4, <1>5, <2>5, <2>6, BeginStep
<1> QED
  BY <1>7, <1>8

LEMMA CallsStep == ASSUME BridgeInv, Calls PROVE BridgeInv'
<1>1. call = NoValue
  BY DEF Calls
<1>2. ASSUME NEW j \in Nat PROVE Scalars(j) \subseteq Sent
  <2>1. \A a \in Arms : <<"raw", j>> \in Payloads
    BY DEF Payloads
  <2> QED
    BY <2>1, Assumed DEF Scalars, Value, Sent
<1>3. Arguments \subseteq Seq(Sent)
  <2>1. Scalars(1) \subseteq Sent /\ Scalars(2) \subseteq Sent
    BY <1>2
  <2> QED
    <3>1. ASSUME NEW vals \in {<<v>> : v \in Scalars(1)} PROVE vals \in Seq(Sent)
      <4>1. PICK v \in Scalars(1) : vals = <<v>>
        OBVIOUS
      <4>2. v \in Sent
        BY <2>1
      <4> QED
        BY <4>1, <4>2
    <3>2. ASSUME NEW vals \in Scalars(1) \X Scalars(2) PROVE vals \in Seq(Sent)
      <4>1. PICK v \in Scalars(1), w \in Scalars(2) : vals = <<v, w>>
        OBVIOUS
      <4> QED
        BY <2>1, <4>1
    <3> QED
      <4>1. <<>> \in Seq(Sent)
        OBVIOUS
      <4>2. \A vals \in Arguments :
              \/ vals = <<>> \/ vals \in {<<v>> : v \in Scalars(1)} \/ vals \in Scalars(1) \X Scalars(2)
        BY DEF Arguments
      <4> QED
        BY <3>1, <3>2, <4>1, <4>2
<1>4. CASE call_scalar
  BY <1>1, <1>3, <1>4, WithValuesStep DEF call_scalar, Methods
<1>5. CASE call_table
  BY <1>1, <1>3, <1>5, WithValuesStep DEF call_table, Methods
<1>6. CASE call_pragma
  BY <1>1, <1>3, <1>6, WithValuesStep DEF call_pragma, Methods
<1>7. CASE call_cast
  <2>1. PICK v \in Scalars(1) : WithValues("call-cast", <<v>>, TRUE)
    BY <1>7 DEF call_cast
  <2>2. <<v>> \in Seq(Sent) /\ Len(<<v>>) = 1 /\ "call-cast" \in Methods
    BY <1>2 DEF Methods
  <2> QED
    BY <1>1, <2>1, <2>2, WithValuesStep
<1>8. CASE call_scalar_batch_col \/ call_aggregate_col
  BY <1>1, <1>8, WithColumnsStep DEF call_scalar_batch_col, call_aggregate_col
<1>9. CASE call_cast_col
  BY <1>1, <1>9, CastColStep
<1> QED
  BY <1>4, <1>5, <1>6, <1>7, <1>8, <1>9 DEF Calls

-----------------------------------------------------------------------------
(* The answers.                                                            *)
LEMMA RepliesStep ==
  ASSUME BridgeInv, given # NoValue, NEW r, Replies(r), DeliveredAs(r, answers', call, bytes)
  PROVE  BridgeInv'
<1>1. reply' = r /\ given' = NoValue /\ UNCHANGED <<bytes, call, rest, casts>> /\ call # NoValue
  BY DEF Replies, BridgeInv, Clean
<1> QED
  BY <1>1 DEF BridgeInv

LEMMA AnswerWithStep ==
  ASSUME BridgeInv, given # NoValue, NEW rows, AnswerWith(rows)
  PROVE  BridgeInv'
<1> DEFINE out == [i \in DOMAIN rows |->
                     [j \in DOMAIN rows[i] |->
                        convert_extension_duckvalue_to_core(
                          value_to_duckvalue(Lifted(duckvalue_to_value(rows[i][j]))))]]
<1>1. answers' = rows /\ Replies(Values(out))
  BY DEF AnswerWith
<1>2. \A v : value_to_duckvalue(Lifted(duckvalue_to_value(v))) = v
  BY DEF value_to_duckvalue, Lifted, duckvalue_to_value
<1>3. out = [i \in DOMAIN rows |-> [j \in DOMAIN rows[i] |-> Told(rows[i][j])]]
  BY <1>2, ToldIs
<1> HIDE DEF out
<1>4. DeliveredAs(Values(out), rows, call, bytes)
  BY <1>3, DeliveredValues
<1> QED
  BY <1>1, <1>4, RepliesStep

LEMMA TailIs ==
  ASSUME NEW S, NEW q \in Seq(S), q # <<>>
  PROVE  /\ Tail(q) \in Seq(S) /\ DOMAIN Tail(q) = 1..(Len(q) - 1)
         /\ \A i \in 1..(Len(q) - 1) : Tail(q)[i] = q[i + 1]
  OBVIOUS

LEMMA RefusedArms ==
  ASSUME NEW n \in Nat, NEW s \in ShapesOf(n), s.arm = "uint8", NEW v \in Of(Typed(s))
  PROVE  v.arm \in {"null", "uint8"}
  BY DEF Of, Typed, Nested, Null

LEMMA BatchStep ==
  ASSUME BridgeInv, dispatch_scalar_batch
  PROVE  BridgeInv'
<1>1. /\ given # NoValue /\ call.method = "call-scalar-batch-col"
      /\ \E n \in IF given = <<>> THEN {0, 1} ELSE {given[1].v.rows} : \E s \in Shapes(n) :
           /\ answers' = Answer(s)
           /\ Replies(IF Answered(s) = NoValue THEN Failed("internal")
                      ELSE Column(ext_values_to_core_colvec(colvec_to_values(Answered(s)))))
  BY DEF dispatch_scalar_batch, Asked
<1>2. PICK n \in IF given = <<>> THEN {0, 1} ELSE {given[1].v.rows} : \E s \in Shapes(n) :
        /\ answers' = Answer(s)
        /\ Replies(IF Answered(s) = NoValue THEN Failed("internal")
                   ELSE Column(ext_values_to_core_colvec(colvec_to_values(Answered(s)))))
  BY <1>1
<1>3. PICK s \in Shapes(n) :
        /\ answers' = Answer(s)
        /\ Replies(IF Answered(s) = NoValue THEN Failed("internal")
                   ELSE Column(ext_values_to_core_colvec(colvec_to_values(Answered(s)))))
  BY <1>2
<1>4. n \in Nat
  <2>1. ByRow(given, call.rows)
    BY <1>1 DEF BridgeInv, ConveyedAs
  <2>2. CASE given = <<>>
    BY <1>2, <2>2
  <2>3. CASE given # <<>>
    BY <1>2, <2>1, <2>3 DEF ByRow
  <2> QED
    BY <2>2, <2>3
<1>5. s \in ShapesOf(n)
  BY <1>4, ShapesAre
<1>6. CASE s.arm = "uint8" /\ bytes
  <2>1. answers' = Answer(s) /\ Replies(Failed("internal"))
    BY <1>3, <1>4, <1>5, <1>6, AnsweredIs
  <2>2. \A i \in DOMAIN Answer(s) : Answer(s)[i][1].arm \in {"null", "uint8"}
    BY <1>4, <1>5, <1>6, AnswerIs, RefusedArms
  <2> QED
    BY <1>1, <1>6, <2>1, <2>2, DeliveredError, RepliesStep
<1>7. CASE ~(s.arm = "uint8" /\ bytes)
  <2> DEFINE vals == colvec_to_values(Encoded(s))
             col == ext_values_to_core_colvec(vals)
  <2>1. answers' = Answer(s) /\ Replies(Column(col))
    BY <1>3, <1>4, <1>5, <1>7, AnsweredIs
  <2>2. /\ vals \in Seq(Of(Typed(s))) /\ Len(vals) = n
        /\ \A r \in 1..n : Answer(s)[r] = <<vals[r]>>
    BY <1>4, <1>5, ColumnAnswered
  <2> HIDE DEF vals
  <2>3. col.rows = n /\ \A r \in 1..n : Reads(col, r) = Told(vals[r])
    BY <2>2, ColumnTold
  <2> HIDE DEF col
  <2>4. DOMAIN Answer(s) = 1..n /\ Len(Answer(s)) = n
    BY <1>4, <1>5, AnswerIs
  <2>5. DeliveredAs(Column(col), Answer(s), call, bytes)
    BY <2>2, <2>3, <2>4, DeliveredColumn
  <2> QED
    BY <1>1, <2>1, <2>5, RepliesStep
<1> QED
  BY <1>6, <1>7

(* The answer to a cast is of one type with the ones before it.            *)
LEMMA CastStep ==
  ASSUME BridgeInv, dispatch_cast
  PROVE  BridgeInv'
<1> DEFINE turn(n, s) ==
      LET vals == colvec_to_values(Answered(s))
          v == IF vals = <<>> THEN Null ELSE vals[1]
          all == Append(casts, v)
      IN /\ \A i \in DOMAIN casts : casts[i].arm \in {"null", Typed(s)}
         /\ answers' = Append(answers, IF n = 0 THEN <<Null>> ELSE Answer(s)[1])
         /\ IF Answered(s) = NoValue THEN Replies(Failed("internal"))
            ELSE IF call.method = "call-cast" THEN
              Replies(Values(<<<<convert_extension_duckvalue_to_core(v)>>>>))
            ELSE IF rest = <<>> THEN Replies(Column(ext_values_to_core_colvec(all)))
            ELSE /\ given' = AsColumn(rest[1]) /\ rest' = Tail(rest) /\ casts' = all
                 /\ UNCHANGED <<bytes, call, reply>>
<1>1. /\ given # NoValue /\ call.method \in {"call-cast", "call-cast-col"}
      /\ \E n \in 0..1 : \E s \in Shapes(n) : turn(n, s)
  BY DEF dispatch_cast, Asked
<1>2. PICK n \in 0..1 : \E s \in Shapes(n) : turn(n, s)
  BY <1>1
<1>3. PICK s \in Shapes(n) : turn(n, s)
  BY <1>2
<1>4. n \in Nat /\ s \in ShapesOf(n)
  BY ShapesAre
<1> DEFINE vals == colvec_to_values(Encoded(s))
           v == IF vals = <<>> THEN Null ELSE vals[1]
           last == IF n = 0 THEN <<Null>> ELSE Answer(s)[1]
<1>5. v \in Of(Typed(s)) /\ last = <<v>>
  <2>1. /\ vals \in Seq(Of(Typed(s))) /\ Len(vals) = n
        /\ \A r \in 1..n : Answer(s)[r] = <<vals[r]>>
    BY <1>4, ColumnAnswered
  <2> HIDE DEF vals
  <2>2. CASE n = 0
    BY <2>1, <2>2 DEF Of
  <2>3. CASE n = 1
    BY <2>1, <2>3
  <2> QED
    BY <2>2, <2>3
<1>6. answers' = Append(answers, last) /\ \A i \in DOMAIN casts : casts[i].arm \in {"null", Typed(s)}
  BY <1>3
<1>7. /\ casts \in Seq(Sent) /\ answers = [i \in DOMAIN casts |-> <<casts[i]>>]
      /\ call.method = "call-cast" => casts = <<>> /\ answers = <<>>
      /\ call.method = "call-cast-col" => Casting
  <2>1. CASE call.method = "call-cast"
    <3>1. casts = <<>> /\ answers = <<>>
      BY <1>1, <2>1 DEF BridgeInv
    <3> QED
      BY <2>1, <3>1
  <2>2. CASE call.method = "call-cast-col"
    BY <1>1, <2>2 DEF BridgeInv, Casting
  <2> QED
    BY <1>1, <2>1, <2>2
<1> DEFINE all == Append(casts, v)
           said == Append(answers, last)
<1>8. /\ all \in Seq(Of(Typed(s))) /\ Len(all) = Len(casts) + 1
      /\ said = [i \in DOMAIN all |-> <<all[i]>>] /\ DOMAIN all = 1..Len(all) /\ Len(said) = Len(all)
      /\ all \in Seq(Sent)
  <2> HIDE DEF v, last
  <2>1. \A i \in 1..Len(casts) : casts[i] \in Of(Typed(s))
    BY <1>6, <1>7, Assumed DEF Of, Sent
  <2>2. casts \in Seq(Of(Typed(s))) /\ Len(casts) \in Nat /\ DOMAIN casts = 1..Len(casts)
    BY <1>7, <2>1
  <2>3. all \in Seq(Of(Typed(s))) /\ Len(all) = Len(casts) + 1 /\ DOMAIN all = 1..Len(all)
    BY <1>5, <2>2
  <2>4. said = [i \in DOMAIN all |-> <<all[i]>>] /\ Len(said) = Len(all)
    BY <1>5, <1>7, <2>2, <2>3
  <2>5. all \in Seq(Sent)
    BY <1>5, <1>7 DEF Of, Sent
  <2> QED
    BY <2>3, <2>4, <2>5
<1>9. CASE s.arm = "uint8" /\ bytes
  <2>1. answers' = said /\ Replies(Failed("internal"))
    BY <1>3, <1>4, <1>6, <1>9, AnsweredIs
  <2> HIDE DEF said, all
  <2>2. \A i \in DOMAIN said : said[i][1].arm \in {"null", "uint8"}
    <3>1. \A i \in DOMAIN all : all[i] \in Of(Typed(s))
      BY <1>8
    <3>2. \A i \in DOMAIN all : all[i].arm \in {"null", "uint8"}
      BY <1>4, <1>9, <3>1, RefusedArms
    <3> QED
      BY <1>8, <3>2
  <2> QED
    BY <1>1, <1>9, <2>1, <2>2, DeliveredError, RepliesStep
<1>10. CASE ~(s.arm = "uint8" /\ bytes)
  <2>1. /\ answers' = said
        /\ IF call.method = "call-cast" THEN
              Replies(Values(<<<<convert_extension_duckvalue_to_core(v)>>>>))
            ELSE IF rest = <<>> THEN Replies(Column(ext_values_to_core_colvec(all)))
            ELSE /\ given' = AsColumn(rest[1]) /\ rest' = Tail(rest) /\ casts' = all
                 /\ UNCHANGED <<bytes, call, reply>>
    BY <1>3, <1>4, <1>6, <1>10, AnsweredIs
  <2>2. CASE call.method = "call-cast"
    <3>1. said = <<<<v>>>>
      BY <1>5, <1>7, <2>2
    <3> HIDE DEF v, said
    <3>2. <<<<convert_extension_duckvalue_to_core(v)>>>> =
            [i \in DOMAIN said |-> [j \in DOMAIN said[i] |-> Told(said[i][j])]]
      BY <3>1, ToldIs
    <3> QED
      BY <1>1, <2>1, <2>2, <3>2, DeliveredValues, RepliesStep
  <2>3. CASE call.method # "call-cast" /\ rest = <<>>
    <3> HIDE DEF all, said
    <3> DEFINE col == ext_values_to_core_colvec(all)
    <3>1. answers' = said /\ Replies(Column(col))
      BY <2>1, <2>3
    <3>2. col.rows = Len(all) /\ \A r \in 1..Len(all) : Reads(col, r) = Told(all[r])
      BY <1>8, ColumnTold
    <3> HIDE DEF col
    <3>3. DeliveredAs(Column(col), said, call, bytes)
      BY <1>8, <3>2, DeliveredColumn
    <3> QED
      BY <1>1, <3>1, <3>3, RepliesStep
  <2>4. CASE call.method # "call-cast" /\ rest # <<>>
    <3> HIDE DEF all, said
    <3>1. /\ given' = AsColumn(rest[1]) /\ rest' = Tail(rest) /\ casts' = all /\ answers' = said
          /\ UNCHANGED <<bytes, call, reply>> /\ call.method = "call-cast-col"
      BY <1>1, <2>1, <2>4
    <3>2. /\ rest \in Seq(Seq(Sent)) /\ rest # <<>>
          /\ \A i \in 1..Len(rest) : Len(rest[i]) = 1 /\ rest[i][1] = call.rows[Len(casts) + 1 + i][1]
      BY <1>7, <2>4, <3>1 DEF Casting
    <3>3. rest[1] \in Seq(Sent) /\ Len(rest[1]) = 1 /\ rest[1][1] = call.rows[Len(casts) + 1 + 1][1]
      BY <3>2
    <3>4. Len(given') = 1 /\ Reads(given'[1].v, 1) = call.rows[Len(casts') + 1][1]
      BY <1>8, <3>1, <3>3, OneRow
    <3>5. ConveyedAs(given', call', casts')
      BY <3>1, <3>4 DEF ConveyedAs
    <3>6. /\ rest' \in Seq(Seq(Sent))
          /\ \A i \in DOMAIN rest' : Len(rest'[i]) = 1 /\ rest'[i][1] = call.rows[Len(casts) + 1 + (i + 1)][1]
      <4>1. /\ Tail(rest) \in Seq(Seq(Sent)) /\ DOMAIN Tail(rest) = 1..(Len(rest) - 1)
            /\ \A i \in 1..(Len(rest) - 1) : Tail(rest)[i] = rest[i + 1]
        BY <3>2, TailIs
      <4>2. ASSUME NEW i \in DOMAIN Tail(rest)
            PROVE  /\ Len(Tail(rest)[i]) = 1
                   /\ Tail(rest)[i][1] = call.rows[Len(casts) + 1 + (i + 1)][1]
        <5>1. Tail(rest)[i] = rest[i + 1]
          BY <4>1
        <5>2. i + 1 \in 1..Len(rest)
          BY <3>2, <4>1
        <5> DEFINE k == i + 1
        <5>3. Tail(rest)[i] = rest[k] /\ k \in 1..Len(rest)
          BY <5>1, <5>2
        <5> HIDE DEF k
        <5>4. Len(Tail(rest)[i]) = 1 /\ Tail(rest)[i][1] = call.rows[Len(casts) + 1 + k][1]
          BY <3>2, <5>3
        <5> QED
          BY <5>4 DEF k
      <4> QED
        BY <3>1, <4>1, <4>2
    <3>7. \A i \in DOMAIN rest' : Len(rest'[i]) = 1 /\ rest'[i][1] = call'.rows[Len(casts') + 1 + i][1]
      <4>1. Len(casts) \in Nat /\ DOMAIN rest' \subseteq Nat /\ Len(casts') = Len(casts) + 1
        BY <1>7, <1>8, <3>1, <3>6
      <4>2. \A i \in DOMAIN rest' : Len(casts) + 1 + (i + 1) = Len(casts') + 1 + i
        BY <4>1
      <4> QED
        BY <3>1, <3>6, <4>2
    <3>8. Casting'
      BY <1>8, <3>1, <3>6, <3>7 DEF Casting
    <3>9. reply' = NoValue /\ call' # NoValue
      BY <1>1, <3>1 DEF BridgeInv, Clean
    <3> QED
      BY <3>1, <3>5, <3>8, <3>9 DEF BridgeInv
  <2> QED
    BY <2>2, <2>3, <2>4
<1> QED
  BY <1>9, <1>10

LEMMA BridgeStep == ASSUME BridgeInv, [BridgeNext]_bridgeVars PROVE BridgeInv'
<1>1. CASE Calls
  BY <1>1, CallsStep
<1>2. CASE dispatch_scalar \/ dispatch_aggregate \/ dispatch_pragma \/ dispatch_table
  <2>1. given # NoValue /\ \E rows : AnswerWith(rows)
    BY <1>2 DEF dispatch_scalar, dispatch_aggregate, dispatch_pragma, dispatch_table, Asked
  <2> QED
    BY <2>1, AnswerWithStep
<1>3. CASE dispatch_scalar_batch
  BY <1>3, BatchStep
<1>4. CASE dispatch_cast
  BY <1>4, CastStep
<1>5. CASE Fails
  <2>1. given # NoValue /\ answers' = NoValue /\ \E e \in ErrorKinds : Replies(Failed(e))
    BY <1>5 DEF Fails
  <2> QED
    BY <2>1, DeliveredError, RepliesStep
<1>6. CASE TakeReply
  BY <1>6 DEF TakeReply, BridgeInv, Clean
<1>7. CASE UNCHANGED bridgeVars
  BY <1>7 DEF bridgeVars, BridgeInv, Clean, Casting
<1> QED
  BY <1>1, <1>2, <1>3, <1>4, <1>5, <1>6, <1>7 DEF BridgeNext, Answers

LEMMA BridgeInvariant == BridgeSpec => []BridgeInv
<1>1. BridgeInit => BridgeInv
  BY DEF BridgeInit, BridgeInv, Clean
<1> QED
  BY <1>1, BridgeStep, PTL DEF BridgeSpec

(* An extension reads what the core meant, each argument and each row in   *)
(* its place and NULL where it was NULL, for any types, any numbers of     *)
(* rows and any NULLs among them, with bitmaps left out or cut short.      *)
THEOREM ArgumentsArrive == BridgeSpec => []Conveyed
  BY BridgeInvariant, BridgeImplies, PTL

(* The core reads what the extension answered, and is refused only what    *)
(* the extension, a missing callback or the adapter's form of bytes does   *)
(* refuse.                                                                 *)
THEOREM AnswersArrive == BridgeSpec => []Delivered
  BY BridgeInvariant, BridgeImplies, PTL
=============================================================================
