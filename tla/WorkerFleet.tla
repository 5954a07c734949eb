----------------------------- MODULE WorkerFleet -----------------------------
(***************************************************************************)
(* Several nodes, each running DurableWorker.run() in queue mode           *)
(* (src/core/durable-worker.js), on one shared PostgreSQL lease            *)
(* (WorkerLease) and one shared PostgreSQL task queue (TaskQueue): the     *)
(* distributed deployment production-runtime.js composes when              *)
(* JORA_DISTRIBUTED_ENABLED is set.  A node is named by its worker id,     *)
(* unique as the documentation of JORA_WORKER_ID asks, and runs without a  *)
(* cycle limit (the default).                                              *)
(*                                                                         *)
(* pc names the await a node is at.  A step is what the code does from one *)
(* await to the next; a database statement takes effect in the step that   *)
(* leaves its await.  The node's own state file is reduced to the only     *)
(* fact the other nodes' protocol depends on, whether it still shows a     *)
(* fresh RUNNING worker; DurableWorker models the file itself.             *)
(***************************************************************************)
EXTENDS TaskQueue

CONSTANTS Tokens, NoToken, NoJob,
          MaxFaults      \* bound: crashes, lost calls, operator stops and
                         \* expiries of something that is still in use

ASSUME NoTokenIsNone == NoToken \notin Tokens
ASSUME NoJobIsNone == NoJob \notin Jobs
ASSUME FaultsBounded == MaxFaults \in Nat
ASSUME TokensOrdered == Tokens \subseteq Nat

VARIABLES lease,         \* the jora_leases row (WorkerLease)
          pc,            \* pc[p]: where node p's run() is; "idle" is not running
          token,         \* token[p]: this.leaseToken
          claim,         \* claim[p]: the queued job p executes, and as which attempt
          stopRequested, \* stopRequested[p]
          hb,            \* hb[p]: the heartbeat in flight, with the token it carries
          fresh,         \* fresh[p]: p's state file shows a fresh RUNNING worker
          faults         \* how many faults have happened

nodeVars == <<pc, token, claim, stopRequested, hb, fresh>>
vars == <<jobs, rowLock, recoveries, lease, pc, token, claim, stopRequested, hb, fresh, faults>>

L == INSTANCE WorkerLease WITH Owners <- Workers

Places == {"idle", "acquire", "attach", "loop", "claim", "cycle",
           "complete", "fail", "finish", "release"}
\* between _startHeartbeat() and _stopHeartbeat()
Armed(p) == pc[p] \in {"loop", "claim", "cycle", "complete", "fail", "finish"}
Executing(p) == pc[p] \in {"cycle", "complete", "fail"}

NoClaim == [job |-> NoJob, attempt |-> 0]
NoBeat == [phase |-> "none", token |-> NoToken]

TypeOK ==
  /\ QueueTypeOK
  /\ L!LeaseTypeOK
  /\ pc \in [Workers -> Places]
  /\ token \in [Workers -> Tokens \cup {NoToken}]
  /\ claim \in [Workers -> [job: Jobs, attempt: Nat] \cup {NoClaim}]
  /\ stopRequested \in [Workers -> BOOLEAN]
  /\ hb \in [Workers -> [phase: {"sent", "lost"}, token: Tokens] \cup {NoBeat}]
  /\ fresh \in [Workers -> BOOLEAN]
  /\ faults \in 0..MaxFaults

Init ==
  /\ QueueInit
  /\ L!LeaseInit
  /\ pc = [p \in Workers |-> "idle"]
  /\ token = [p \in Workers |-> NoToken]
  /\ claim = [p \in Workers |-> NoClaim]
  /\ stopRequested = [p \in Workers |-> FALSE]
  /\ hb = [p \in Workers |-> NoBeat]
  /\ fresh = [p \in Workers |-> FALSE]
  /\ faults = 0

-----------------------------------------------------------------------------
Goto(p, place) == pc' = [pc EXCEPT ![p] = place]

Fault == faults < MaxFaults /\ faults' = faults + 1
NoFault == UNCHANGED faults

\* randomUUID(): a token no row, node or call in flight carries.  Taking the
\* least unused one keeps the number of tokens small.
InUse == {lease.token} \cup {token[p] : p \in Workers} \cup {hb[p].token : p \in Workers}
FreshToken(t) == /\ t \in Tokens \ InUse
                 /\ \A u \in Tokens \ InUse : t <= u

\* run(): refused while running, and clears an earlier stop request.
Run(p) ==
  /\ pc[p] = "idle"
  /\ Goto(p, "acquire")
  /\ stopRequested' = [stopRequested EXCEPT ![p] = FALSE]
  /\ UNCHANGED <<queueVars, lease, token, claim, hb, fresh, faults>>

\* _acquire(), the lease.
AcquireLease(p) ==
  /\ pc[p] = "acquire"
  /\ \E t \in Tokens :
       /\ FreshToken(t)
       /\ L!Grant(p, t)
       /\ token' = [token EXCEPT ![p] = t]
  /\ Goto(p, "attach")
  /\ UNCHANGED <<queueVars, claim, stopRequested, hb, fresh, faults>>

LeaseRefused(p) ==
  /\ pc[p] = "acquire"
  /\ ~L!Acquirable(p)
  /\ Goto(p, "idle")
  /\ UNCHANGED <<queueVars, lease, token, claim, stopRequested, hb, fresh, faults>>

\* acquire() throws; the statement may still have taken effect, and then a lease
\* is live whose token nobody knows.
AcquireLost(p) ==
  /\ pc[p] = "acquire"
  /\ \/ \E t \in Tokens : FreshToken(t) /\ L!Grant(p, t)
     \/ UNCHANGED lease
  /\ Fault
  /\ Goto(p, "idle")
  /\ UNCHANGED <<queueVars, token, claim, stopRequested, hb, fresh>>

\* _acquire(), the state file: a fresh RUNNING worker in it refuses the run.
Attach(p) ==
  /\ pc[p] = "attach"
  /\ Goto(p, IF fresh[p] THEN "release" ELSE "loop")
  /\ fresh' = [fresh EXCEPT ![p] = TRUE]
  /\ UNCHANGED <<queueVars, lease, token, claim, stopRequested, hb, faults>>

\* The loop's claim(); finding nothing, run() sleeps and comes back to "loop".
Poll(p) ==
  /\ pc[p] = "loop"
  /\ ~stopRequested[p]
  /\ \E j \in Jobs : ClaimSelect(p, j)
  /\ Goto(p, "claim")
  /\ UNCHANGED <<lease, token, claim, stopRequested, hb, fresh, faults>>

\* Mutant: the worker keeps the row the SELECT returned, not the UPDATE's.
ClaimCommitsOldRow(p) ==
  /\ pc[p] = "claim"
  /\ \E j \in Jobs :
       /\ ClaimCommit(p, j)
       /\ claim' = [claim EXCEPT ![p] = [job |-> j, attempt |-> jobs[j].attempts]]
  /\ Goto(p, "cycle")
  /\ UNCHANGED <<lease, token, stopRequested, hb, fresh, faults>>

ClaimCommits(p) ==
  /\ pc[p] = "claim"
  /\ \E j \in Jobs :
       /\ ClaimCommit(p, j)
       /\ claim' = [claim EXCEPT ![p] = [job |-> j, attempt |-> jobs'[j].attempts]]
  /\ Goto(p, "cycle")
  /\ UNCHANGED <<lease, token, stopRequested, hb, fresh, faults>>

\* Mutant: the catch clause of claim() does not roll back.
ClaimFailsOpen(p) ==
  /\ pc[p] = "claim"
  /\ Goto(p, "release")
  /\ Fault
  /\ UNCHANGED <<queueVars, lease, token, claim, stopRequested, hb, fresh>>

\* The claim throws, rolled back or with its COMMIT done and only the answer lost:
\* then the row runs for a living node that does not know of it.  The state file
\* that cannot be read or written after a claim leaves run() in the same way.  No
\* catch in run() but finally, so no final state is written.
ClaimFails(p) ==
  /\ pc[p] = "claim"
  /\ \E j \in Jobs : ClaimRollback(p, j) \/ ClaimCommit(p, j)
  /\ Goto(p, "release")
  /\ Fault
  /\ UNCHANGED <<lease, token, claim, stopRequested, hb, fresh>>

\* The mission cycle: its result is the environment's choice.
CycleEnds(p) ==
  /\ pc[p] = "cycle"
  /\ \E place \in {"complete", "fail"} : Goto(p, place)
  /\ UNCHANGED <<queueVars, lease, token, claim, stopRequested, hb, fresh, faults>>

EndClaim(p) == claim' = [claim EXCEPT ![p] = NoClaim]

CompleteAccepted(p) ==
  /\ pc[p] = "complete"
  /\ Complete(p, claim[p].job)
  /\ EndClaim(p)
  /\ Goto(p, "loop")
  /\ UNCHANGED <<lease, token, stopRequested, hb, fresh, faults>>

\* complete() throws, because the job lease is not owned any more or because
\* the call failed (before or after it took effect): the catch clause fails the
\* job it has just completed.
CompleteThrows(p) ==
  /\ pc[p] = "complete"
  /\ \/ ~Owned(p, claim[p].job) /\ NoFault /\ UNCHANGED queueVars
     \/ Fault /\ UNCHANGED queueVars
     \/ Fault /\ Complete(p, claim[p].job)
  /\ Goto(p, "fail")
  /\ UNCHANGED <<lease, token, claim, stopRequested, hb, fresh>>

\* fail().catch(()=>{}): whatever happened to the call, the loop goes on.
FailAnswered(p) ==
  /\ pc[p] = "fail"
  /\ \/ Fail(p, claim[p].job, TRUE) /\ NoFault
     \/ ~Owned(p, claim[p].job) /\ NoFault /\ UNCHANGED queueVars
     \/ Fault /\ UNCHANGED queueVars
  /\ EndClaim(p)
  /\ Goto(p, "loop")
  /\ UNCHANGED <<lease, token, stopRequested, hb, fresh>>

LeaveLoop(p) ==
  /\ pc[p] = "loop"
  /\ stopRequested[p]
  /\ Goto(p, "finish")
  /\ UNCHANGED <<queueVars, lease, token, claim, stopRequested, hb, fresh, faults>>

\* The final state file: worker IDLE.
Finish(p) ==
  /\ pc[p] = "finish"
  /\ fresh' = [fresh EXCEPT ![p] = FALSE]
  /\ Goto(p, "release")
  /\ UNCHANGED <<queueVars, lease, token, claim, stopRequested, hb, faults>>

\* finally: release().catch(()=>{}), then forget the token.  A heartbeat call so
\* slow that it outlives its run counts as a fault, like a lost release.
ReleaseLease(p) ==
  /\ pc[p] = "release"
  /\ \/ hb[p] = NoBeat /\ L!Release(p, token[p]) /\ NoFault
     \/ hb[p] # NoBeat /\ L!Release(p, token[p]) /\ Fault
     \/ Fault /\ UNCHANGED lease
  /\ token' = [token EXCEPT ![p] = NoToken]
  /\ Goto(p, "idle")
  /\ UNCHANGED <<queueVars, claim, stopRequested, hb, fresh>>

-----------------------------------------------------------------------------
(* The heartbeat timer of a node: one call in flight at a time.            *)

HeartbeatSends(p) ==
  /\ Armed(p)
  /\ hb[p] = NoBeat
  /\ hb' = [hb EXCEPT ![p] = [phase |-> "sent", token |-> token[p]]]
  /\ UNCHANGED <<queueVars, lease, pc, token, claim, stopRequested, fresh, faults>>

\* The UPDATE runs; a thrown error is swallowed by the timer callback.
HeartbeatAnswered(p) ==
  /\ hb[p].phase = "sent"
  /\ \/ L!Renewable(p, hb[p].token) /\ hb' = [hb EXCEPT ![p] = NoBeat] /\ NoFault
     \/ ~L!Renewable(p, hb[p].token) /\ hb' = [hb EXCEPT ![p].phase = "lost"] /\ NoFault
     \/ Fault /\ hb' = [hb EXCEPT ![p] = NoBeat]
  /\ UNCHANGED <<queueVars, lease, pc, token, claim, stopRequested, fresh>>

\* Mutant: the answer of a refused heartbeat is dropped.
HeartbeatLostIgnored(p) ==
  /\ hb[p].phase = "lost"
  /\ hb' = [hb EXCEPT ![p] = NoBeat]
  /\ UNCHANGED <<queueVars, lease, pc, token, claim, stopRequested, fresh, faults>>

\* if(!fresh) this.stopRequested=true: when the answer arrives, whichever run is
\* then in progress.
HeartbeatLost(p) ==
  /\ hb[p].phase = "lost"
  /\ hb' = [hb EXCEPT ![p] = NoBeat]
  /\ stopRequested' = [stopRequested EXCEPT ![p] = TRUE]
  /\ UNCHANGED <<queueVars, lease, pc, token, claim, fresh, faults>>

-----------------------------------------------------------------------------
(* Operators, crashes, time and the recovery orchestrator.                 *)

Stop(p) ==
  /\ ~stopRequested[p]
  /\ Fault
  /\ stopRequested' = [stopRequested EXCEPT ![p] = TRUE]
  /\ UNCHANGED <<queueVars, lease, pc, token, claim, hb, fresh>>

\* The process dies; PostgreSQL rolls back the transaction it had open.
Crash(p) ==
  /\ pc[p] # "idle"
  /\ Fault
  /\ Goto(p, "idle")
  /\ token' = [token EXCEPT ![p] = NoToken]
  /\ stopRequested' = [stopRequested EXCEPT ![p] = FALSE]
  /\ hb' = [hb EXCEPT ![p] = NoBeat]
  /\ EndClaim(p)
  /\ \/ \E j \in Jobs : ClaimRollback(p, j)
     \/ (\A j \in Jobs : rowLock[j] # p) /\ UNCHANGED queueVars
  /\ UNCHANGED <<lease, fresh>>

\* staleAfterMs without a heartbeat in the file of a node that is not running.
GoesStale(p) ==
  /\ fresh[p]
  /\ ~Armed(p)
  /\ fresh' = [fresh EXCEPT ![p] = FALSE]
  /\ UNCHANGED <<queueVars, lease, pc, token, claim, stopRequested, hb, faults>>

LeaseInService == \E p \in Workers : lease.token = token[p]
LeaseExpires ==
  /\ L!Expire
  /\ IF LeaseInService THEN Fault ELSE NoFault
  /\ UNCHANGED <<queueVars, nodeVars>>

Abandoned(j) == \A p \in Workers : ~(claim[p].job = j /\ jobs[j].lockedBy = p)
JobLockLapses(j) ==
  /\ LockLapses(j)
  /\ IF Abandoned(j) THEN NoFault ELSE Fault
  /\ UNCHANGED <<lease, nodeVars>>

Queued(j) ==
  /\ \E m \in AttemptLimits, now \in BOOLEAN : Enqueue(j, m, now)
  /\ UNCHANGED <<lease, nodeVars, faults>>

BackoffEnds(j) ==
  /\ BecomesAvailable(j)
  /\ UNCHANGED <<lease, nodeVars, faults>>

\* RecoveryOrchestrator's WORKER_RECOVERY and QUEUE_RECOVERY.  What asks for them,
\* a stale state file or a long queue seen by a health monitor that is off by
\* default, is left out: they may come at any time, and need never come.
Recover ==
  /\ RecoverExpired
  /\ UNCHANGED <<lease, nodeVars, faults>>

-----------------------------------------------------------------------------
RunStep(p) ==
  \/ AcquireLease(p) \/ LeaseRefused(p) \/ Attach(p)
  \/ Poll(p) \/ ClaimCommits(p) \/ CycleEnds(p)
  \/ CompleteAccepted(p) \/ CompleteThrows(p) \/ FailAnswered(p)
  \/ LeaveLoop(p) \/ Finish(p) \/ ReleaseLease(p)
Heartbeat(p) == HeartbeatSends(p) \/ HeartbeatAnswered(p) \/ HeartbeatLost(p)

Next ==
  \/ \E p \in Workers : Run(p) \/ RunStep(p) \/ AcquireLost(p) \/ ClaimFails(p) \/ Heartbeat(p)
                        \/ Stop(p) \/ Crash(p) \/ GoesStale(p)
  \/ \E j \in Jobs : Queued(j) \/ BackoffEnds(j) \/ JobLockLapses(j)
  \/ LeaseExpires \/ Recover

Spec == Init /\ [][Next]_vars

\* The scheduling the code and its deployment give: a node's event loop runs
\* every continuation, its timer fires, the worker is started again after it
\* stopped, and time passes.  Nothing says that an expired job is ever recovered.
Fairness ==
  /\ \A p \in Workers : /\ WF_vars(Run(p)) /\ WF_vars(RunStep(p))
                      /\ WF_vars(Heartbeat(p)) /\ WF_vars(GoesStale(p))
  /\ \A j \in Jobs : WF_vars(BackoffEnds(j)) /\ WF_vars(JobLockLapses(j) /\ Abandoned(j))
  /\ WF_vars(LeaseExpires /\ ~LeaseInService)

FairSpec == Spec /\ Fairness

-----------------------------------------------------------------------------
(* Properties *)

HoldsLiveLease(p) == L!Renewable(p, token[p])

\* A node whose claim the table still shows as its own is executing the current
\* attempt: no late answer of an older attempt can be taken for the current one.
ClaimIsCurrent ==
  \A p \in Workers : claim[p] # NoClaim /\ jobs[claim[p].job].lockedBy = p
                     => claim[p].attempt = jobs[claim[p].job].attempts

\* Two nodes may execute one job at the same time (after a lock lapsed), but
\* never as the same attempt: the pair (job, attempt) names one execution.
AttemptNamesExecution ==
  \A p, q \in Workers : p # q /\ claim[p] # NoClaim => claim[p] # claim[q]

\* A live lease goes away only by expiring or by a step of its own holder:
\* another node's late release, heartbeat or acquire never evicts it.
LeaseEvictedOnlyByExpiry ==
  [][\A p \in Workers : HoldsLiveLease(p) /\ ~HoldsLiveLease(p)'
       => token'[p] # token[p] \/ (lease'.token = lease.token /\ ~lease'.live)]_vars

SettlesCurrentOnly ==
  \A j \in Jobs : jobs'[j].status \in Terminal /\ jobs[j].status \notin Terminal
    => \E p \in Workers : /\ pc[p] \in {"complete", "fail"}
                          /\ claim[p] = [job |-> j, attempt |-> jobs[j].attempts]

\* A job is only ever settled for the execution that is its current attempt:
\* by a node that is at its complete or fail call for exactly that attempt.
SettledByCurrentAttempt == [][SettlesCurrentOnly]_vars

\* A node that lost its lease stops working (after the cycle it is in).
LostLeaseStops ==
  \A p \in Workers : (Armed(p) /\ ~HoldsLiveLease(p)) ~> ~Armed(p)

\* RUNNING behind a lapsed lock, for a node that does not execute it: no claim
\* takes the row any more and no answer will come, only recoverExpired() is left.
Stranded(j) == j \in Expired /\ Abandoned(j)

\* Every enqueued job, and every job that was requeued, is eventually SUCCEEDED, in
\* the DEAD_LETTER state or stranded: whatever claims, answers, nodes and leases
\* are lost, no job is kept waiting for ever by a claim transaction, a lease, a
\* backoff or a lock that has a node behind it.
JobsSettleOrStrand ==
  \A j \in Jobs : (jobs[j].status # "ABSENT") ~> (jobs[j].status \in Terminal \/ Stranded(j))
=============================================================================
