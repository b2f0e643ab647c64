------------------------------ MODULE JobLease ------------------------------
(***************************************************************************)
(* What the per-job leases of the cron scheduler promise, without tables,  *)
(* ticks or node names: a driver may start a job only when nobody holds an *)
(* unexpired grant for it, and it gives up only its own grant.             *)
(***************************************************************************)
EXTENDS Naturals

CONSTANTS
  Drivers, Jobs,
  Times          \* the points in time considered, a set of naturals

VARIABLES clock, grants

Init == clock = 0 /\ grants = {}

Elapse == clock + 1 \in Times /\ clock' = clock + 1 /\ UNCHANGED grants

\* A grant lives until `expires`, which may lie in the past: the lease time
\* counts from the start of the tick, not from the start of the job.
Take(d, j, t) ==
  /\ \A g \in grants : g.driver # d
  /\ \A g \in grants : g.job = j => g.expires <= clock
  /\ grants' = grants \cup {[driver |-> d, job |-> j, expires |-> t]}
  /\ UNCHANGED clock

GiveUp(d) ==
  /\ grants' = {g \in grants : g.driver # d}
  /\ UNCHANGED clock

Next ==
  \/ Elapse
  \/ \E d \in Drivers, j \in Jobs, t \in Times : Take(d, j, t)
  \/ \E d \in Drivers : GiveUp(d)

Spec == Init /\ [][Next]_<<clock, grants>>

\* Two drivers work on one job at a time only when the lease of one of them
\* has run out.
Exclusion ==
  \A g, h \in grants :
    g.job = h.job /\ g.driver # h.driver => g.expires <= clock \/ h.expires <= clock
=============================================================================
