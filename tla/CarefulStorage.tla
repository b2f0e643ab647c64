--------------------------- MODULE CarefulStorage ---------------------------
(* The deployments of AttachedStorage for which the host keeps its         *)
(* promises: they have one storage extension, and no two aliases of a      *)
(* component that holds its catalogs in memory are attached to one         *)
(* database at a time.                                                     *)
EXTENDS AttachedStorage

VARIABLE installed    \* the storage extension of the deployment

\* After the step no two such aliases are attached to one database.
OwnDatabases ==
  \A a, b \in Aliases :
    attached'[a] # NoEntry /\ attached'[b] # NoEntry /\ a # b =>
      attached'[a].ext \in Direct \/ attached'[a].store # attached'[b].store

CarefulNext ==
  \/ Load(installed)
  \/ \E a \in Aliases, ty \in Types, dsn \in Dsns :
       \/ AttachFails(a, ty, dsn)
       \/ \E ro \in Modes : Attach(a, ty, dsn, ro) /\ OwnDatabases
  \/ \E a \in Aliases : Detach(a)
  \/ \E a \in Aliases, t \in Tables : Insert(a, t) \/ Update(a, t) \/ Delete(a, t) \/ CreateTable(a, t)
  \/ Restart

CarefulInit == Init /\ installed \in Exts

CarefulSpec ==
  CarefulInit /\ [][CarefulNext /\ UNCHANGED installed]_<<vars, installed>>
=============================================================================
