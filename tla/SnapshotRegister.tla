-------------------------- MODULE SnapshotRegister --------------------------
(***************************************************************************)
(* What replication promises, without objects, keys or uploads: a register *)
(* that holds an image of the database and only moves to newer ones.  A    *)
(* restore returns an image at least as new as the one the register held   *)
(* when it began.                                                          *)
(***************************************************************************)
EXTENDS Integers

CONSTANT Nothing    \* the register before the first image, the answer before a restore

VARIABLES
  published,        \* the image the register holds
  floor,            \* what it held when the current restore began
  answer            \* the image the last restore returned

vars == <<published, floor, answer>>

(* Image v is at least as new as w; every image is newer than none.        *)
NotOlder(v, w) == w = Nothing \/ (v # Nothing /\ v >= w)

Init == published = Nothing /\ floor = Nothing /\ answer = Nothing

Publish ==
  /\ published' \in Nat
  /\ NotOlder(published', published)
  /\ UNCHANGED <<floor, answer>>

Begin ==
  /\ floor' = published /\ answer' = Nothing
  /\ UNCHANGED published

Return ==
  /\ answer' \in Nat
  /\ NotOlder(answer', floor)
  /\ UNCHANGED <<published, floor>>

Next == Publish \/ Begin \/ Return

Spec == Init /\ [][Next]_vars
=============================================================================
