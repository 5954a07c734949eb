---------------------------- MODULE JobLifecycle ----------------------------
(***************************************************************************)
(* What the PostgreSQL task queue promises to whoever enqueues a job,      *)
(* without locks, leases, attempts or workers: a job is accepted once, it  *)
(* is started at least once before it is settled, and it is settled at     *)
(* most once, either as done or as buried in the dead-letter state.        *)
(***************************************************************************)
CONSTANT Jobs

VARIABLES outcome,   \* outcome[j]: what an observer of job j sees
          started    \* the jobs some worker has begun to execute

lifecycleVars == <<outcome, started>>

Outcomes == {"absent", "pending", "done", "dead"}
Settled(j) == outcome[j] \in {"done", "dead"}

TypeOK ==
  /\ outcome \in [Jobs -> Outcomes]
  /\ started \subseteq Jobs

Init ==
  /\ outcome = [j \in Jobs |-> "absent"]
  /\ started = {}

Accept(j) ==
  /\ outcome[j] = "absent"
  /\ outcome' = [outcome EXCEPT ![j] = "pending"]
  /\ UNCHANGED started

Begin(j) ==
  /\ outcome[j] = "pending"
  /\ started' = started \cup {j}
  /\ UNCHANGED outcome

Settle(j) ==
  /\ outcome[j] = "pending"
  /\ j \in started
  /\ \E o \in {"done", "dead"} : outcome' = [outcome EXCEPT ![j] = o]
  /\ UNCHANGED started

Next == \E j \in Jobs : Accept(j) \/ Begin(j) \/ Settle(j)

Spec == Init /\ [][Next]_lifecycleVars
=============================================================================
