----------------------------- MODULE MCStorage -----------------------------
(* An instance of CarefulStorage for TLC.                                  *)
EXTENDS CarefulStorage, TLC

CONSTANTS blob, lite, ty1, ty2, a1, a2, t1, t2, r1, r2, f1, f2, path1, path2

\* One extension serves every type name.
OneExt == [e \in Exts |-> Types]

Names == path1 :> f1 @@ path2 :> f2

Overlapping == [a \in Aliases |-> IF a = a1 THEN {path1, path2} ELSE {path1}]

EmptyT1 == [s \in Stores |-> [t \in {t1} |-> {}]]

AnyMode == BOOLEAN

\* No database holds a row at first.
Alike == Permutations(Rows)

\* Every fault but a disk that is full in the middle of a write-back; names
\* that are taken make the registration fail too.
MostFaults == {"list", "memory", "view", "probe", "open", "serialize", "file", "native", "dispatch",
               "commit", "rollback"}
=============================================================================
