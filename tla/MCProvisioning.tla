--------------------------- MODULE MCProvisioning ---------------------------
(* An instance of Provisioning for TLC.                                    *)
EXTENDS Provisioning, TLC

CONSTANTS aba, native, browser, plainwasm, v1, v2, s1, s2, fileA, fileB
CONSTANTS core, raster, topo, i1, i2, p1, p2

Swapped == Permutations({i1, i2}) \cup Permutations({p1, p2})

OneExt == <<aba>>
AbaProviders == aba :> <<native, browser, plainwasm>>
Kinds == native :> "native" @@ browser :> "browser" @@ plainwasm :> "wasm"
Files == browser :> fileA @@ plainwasm :> fileB
AbaByName == aba :> fileA

Record(s) == [good |-> TRUE, suite |-> s]
NoRecords == [p \in Providers |-> None]
AllRecords ==
  {NoRecords,
   [p \in Providers |-> IF p = plainwasm THEN Record(s2) ELSE Record(s1)]}

SomePolicies ==
  {[denied |-> {}, forced |-> None], [denied |-> {plainwasm}, forced |-> None]}

Entry(a, p, c, b) == [alias |-> a, prebuilt |-> p, plan |-> c, bridge |-> b]
NoAlias == [s \in Subs |-> Missing]
OwnPlans == [s \in Subs |-> IF s = core THEN <<Blob>> ELSE IF s = raster THEN <<Blob, core>> ELSE <<raster, core>>]
FlatOnly == Entry(NoAlias, {}, OwnPlans, {})
SomeConfigs ==
  {FlatOnly,
   Entry(NoAlias, {}, OwnPlans, Subs),
   Entry(NoAlias, {core}, OwnPlans, {raster, topo}),
   Entry([NoAlias EXCEPT ![topo] = core], {}, OwnPlans, Subs),
   Entry([NoAlias EXCEPT ![topo] = raster], {core}, OwnPlans, {raster}),
   Entry([NoAlias EXCEPT ![core] = topo], {topo}, OwnPlans, Subs),
   Entry(NoAlias, {}, [OwnPlans EXCEPT ![core] = <<>>, ![topo] = <<Blob, Dangling>>], Subs)}
AnyFailure == {"read", "compose", "store", "register"}

\* A sub-extension's LOAD shares no state with the commands nor with the other
\* LOADs: a behaviour has the one or the other, which leaves none out.
Flat == config = FlatOnly

\* Bound: after an install without a digest nothing is published, which could
\* give it none.
Quiet == IF \A n \in Exts : unpinned[n] = {} THEN TRUE ELSE UNCHANGED plan

EitherNext ==
  \/ Flat /\ Quiet /\ (Commands \/ Loads \/ StartSession)
  \/ ~Flat /\ (SubLoads \/ StartSession)

\* A suite is on disk; where nothing was built nothing was certified.
OneSuite ==
  /\ Init
  /\ suite = [n \in Exts |-> s1]
  /\ index.digest = Unstamped => index.record = NoRecords

EitherSpec == OneSuite /\ [][EitherNext]_provVars
=============================================================================
