--------------------------- MODULE MCReplication ---------------------------
(* Instances of Replication for TLC. *)
EXTENDS Replication

(* Every commit adds a page; the sizes stay below the width of the prefix. *)
MCSizes == [v \in Commits |-> v + 1]
MCWidth == 8
=============================================================================
