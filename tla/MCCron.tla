------------------------------- MODULE MCCron -------------------------------
(* Instances of CronScheduler for TLC: the values its .cfg files give to   *)
(* the constants that are functions or sets of records.                    *)
EXTENDS CronScheduler, TLC

CONSTANTS d1, d2, n1, n2, j1, j2, app

TwoNodes == d1 :> n1 @@ d2 :> n2
OneNode == d1 :> n1

EveryMark == [j \in Jobs |-> 1]

NothingAttached == [d \in Drivers |-> {}]
AppAttached == [d \in Drivers |-> {app}]

Plain == [node |-> AnyNode, db |-> NoDb, catchUp |-> "skip"]
CatchUp == [node |-> AnyNode, db |-> NoDb, catchUp |-> "run_once"]
OnlyN1 == [node |-> n1, db |-> NoDb, catchUp |-> "run_once"]
InApp == [node |-> AnyNode, db |-> app, catchUp |-> "run_once"]

\* Drivers are interchangeable, each with its node, where no job names a
\* node; two jobs are where they share a schedule.
Swapped ==
  {p \in Permutations({d1, d2, n1, n2}) :
     \A d \in {d1, d2} : p[d] \in {d1, d2} /\ p[NodeOf[d]] = NodeOf[p[d]]}
AllSwapped == Swapped \cup Permutations({j1, j2})

SharedJobs == {CatchUp}
MixedJobs == {Plain, OnlyN1, InApp}
AppJobs == {CatchUp, InApp}

NoCommand == {}
NoForce == {"schedule", "deactivate"}
AnyCommand == NoForce \cup {"unschedule", "activate", "force"}

AnyFault == {"crash", "trap", "wander", "read", "advance", "catalog", "lease", "use",
             "restore", "record", "release", "trim"}
=============================================================================
