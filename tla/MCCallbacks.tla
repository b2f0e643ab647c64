---------------------------- MODULE MCCallbacks ----------------------------
(* Instance of Callbacks for TLC: two extensions are interchangeable.      *)
EXTENDS Callbacks, TLC

ExtsSwapped == Permutations(Exts)
=============================================================================
