------------------------------ MODULE TaskQueue ------------------------------
(***************************************************************************)
(* The jora_jobs table and the statements of PostgresTaskQueue             *)
(* (src/core/postgres-task-queue.js).  Callers are arbitrary: any worker   *)
(* id may complete or fail any job at any time, since the statements alone *)
(* (their WHERE clauses and row locks) have to protect the table.          *)
(*                                                                         *)
(* claim() is two statements in one transaction on its own connection: the *)
(* SELECT ... FOR UPDATE SKIP LOCKED and the UPDATE with the COMMIT.  They *)
(* are two actions here, with the row lock held in between; the rollback   *)
(* of a claim whose connection or process dies is a third.                 *)
(*                                                                         *)
(* Time is abstract: a lock that was set with locked_until = NOW() + lease *)
(* may lapse at any later moment, and a retry's backoff may end at any     *)
(* later moment.                                                           *)
(***************************************************************************)
EXTENDS Naturals, FiniteSets

CONSTANTS Jobs,          \* job identifiers (randomUUID never repeats)
          Workers,       \* the workerId values callers present
          NoWorker,      \* locked_by IS NULL
          AttemptLimits, \* the max_attempts values jobs are enqueued with
          MaxRecoveries  \* bound: times recoverExpired may requeue one job

ASSUME JobsFinite == IsFiniteSet(Jobs)
ASSUME NoWorkerIsNone == NoWorker \notin Workers
ASSUME LimitsArePositive == AttemptLimits \subseteq Nat \ {0}
ASSUME RecoveriesBounded == MaxRecoveries \in Nat

VARIABLES jobs,        \* jobs[j]: the row of job j, or the absent row
          rowLock,     \* rowLock[j]: the claim transaction that locked row j
          recoveries   \* recoveries[j]: how often recoverExpired requeued j

queueVars == <<jobs, rowLock, recoveries>>

Status == {"ABSENT", "QUEUED", "RUNNING", "SUCCEEDED", "DEAD_LETTER"}
Terminal == {"SUCCEEDED", "DEAD_LETTER"}

\* created orders the rows as created_at does; lapsed says locked_until is in
\* the past; available says available_at is not in the future.
JobRow == [status: Status, attempts: Nat, max: Nat, lockedBy: Workers \cup {NoWorker},
           lapsed: BOOLEAN, available: BOOLEAN, created: Nat]

AbsentRow == [status |-> "ABSENT", attempts |-> 0, max |-> 0, lockedBy |-> NoWorker,
              lapsed |-> FALSE, available |-> FALSE, created |-> 0]

QueueTypeOK ==
  /\ jobs \in [Jobs -> JobRow]
  /\ rowLock \in [Jobs -> Workers \cup {NoWorker}]
  /\ recoveries \in [Jobs -> Nat]

QueueInit ==
  /\ jobs = [j \in Jobs |-> AbsentRow]
  /\ rowLock = [j \in Jobs |-> NoWorker]
  /\ recoveries = [j \in Jobs |-> 0]

-----------------------------------------------------------------------------
Enqueued == {j \in Jobs : jobs[j].status # "ABSENT"}

\* enqueue(): one INSERT; a job may be given an available_at in the future.
Enqueue(j, m, now) ==
  /\ jobs[j].status = "ABSENT"
  /\ jobs' = [jobs EXCEPT ![j] = [AbsentRow EXCEPT !.status = "QUEUED", !.max = m,
                                    !.available = now, !.created = Cardinality(Enqueued)]]
  /\ UNCHANGED <<rowLock, recoveries>>

\* Mutant: the claim also takes running jobs whose lock lapsed.
ClaimableOrLapsed(j) == \/ jobs[j].status = "QUEUED" /\ jobs[j].available
                        \/ jobs[j].status = "RUNNING" /\ jobs[j].lapsed

Claimable(j) == jobs[j].status = "QUEUED" /\ jobs[j].available

\* ORDER BY created_at LIMIT 1 FOR UPDATE SKIP LOCKED.
NextCandidate(j) ==
  /\ Claimable(j)
  /\ rowLock[j] = NoWorker
  /\ \A k \in Jobs : Claimable(k) /\ rowLock[k] = NoWorker
                       => jobs[j].created <= jobs[k].created

\* claim(), first statement.
ClaimSelect(w, j) ==
  /\ NextCandidate(j)
  /\ rowLock' = [rowLock EXCEPT ![j] = w]
  /\ UNCHANGED <<jobs, recoveries>>

\* claim(), the UPDATE and the COMMIT that makes it visible and unlocks the row.
ClaimCommit(w, j) ==
  /\ rowLock[j] = w
  /\ rowLock' = [rowLock EXCEPT ![j] = NoWorker]
  /\ jobs' = [jobs EXCEPT ![j] = [@ EXCEPT !.status = "RUNNING", !.attempts = jobs[j].attempts + 1,
                                           !.lockedBy = w, !.lapsed = FALSE]]
  /\ UNCHANGED recoveries

\* claim(), the ROLLBACK of the catch clause, or of the server when the
\* connection goes away.
ClaimRollback(w, j) ==
  /\ rowLock[j] = w
  /\ rowLock' = [rowLock EXCEPT ![j] = NoWorker]
  /\ UNCHANGED <<jobs, recoveries>>

\* Mutant: no locked_by in the WHERE clause.
AnyRunning(w, j) == w # NoWorker /\ jobs[j].status = "RUNNING"
\* Mutant: neither locked_by nor the status in the WHERE clause.
AnyEnqueued(w, j) == w # NoWorker /\ jobs[j].status # "ABSENT"

Owned(w, j) == w # NoWorker /\ jobs[j].lockedBy = w

\* complete(): UPDATE ... WHERE id=$1 AND locked_by=$2.
Complete(w, j) ==
  /\ Owned(w, j)
  /\ jobs' = [jobs EXCEPT ![j] = [@ EXCEPT !.status = "SUCCEEDED",
                                           !.lockedBy = NoWorker, !.lapsed = FALSE]]
  /\ UNCHANGED <<rowLock, recoveries>>

MayRetry(j, retry) == retry /\ jobs[j].attempts < jobs[j].max

\* fail(): back to QUEUED behind a backoff, or to the dead letter state.
Fail(w, j, retry) ==
  /\ Owned(w, j)
  /\ jobs' = [jobs EXCEPT ![j] = [@ EXCEPT
       !.status = IF MayRetry(j, retry) THEN "QUEUED" ELSE "DEAD_LETTER",
       !.available = jobs[j].available /\ ~MayRetry(j, retry),
       !.lockedBy = NoWorker, !.lapsed = FALSE]]
  /\ UNCHANGED <<rowLock, recoveries>>

Expired == {j \in Jobs : jobs[j].status = "RUNNING" /\ jobs[j].lapsed}

\* Mutant: recovery forgets to clear locked_by.
RecoverKeepsLock ==
  /\ Expired # {}
  /\ \A j \in Expired : recoveries[j] < MaxRecoveries
  /\ jobs' = [j \in Jobs |->
                IF j \in Expired
                THEN [jobs[j] EXCEPT !.status = "QUEUED", !.lapsed = FALSE, !.available = TRUE]
                ELSE jobs[j]]
  /\ recoveries' = [j \in Jobs |-> IF j \in Expired THEN recoveries[j] + 1 ELSE recoveries[j]]
  /\ UNCHANGED rowLock

\* recoverExpired(): one UPDATE requeues every expired row.
RecoverExpired ==
  /\ Expired # {}
  /\ \A j \in Expired : recoveries[j] < MaxRecoveries
  /\ jobs' = [j \in Jobs |->
                IF j \in Expired
                THEN [jobs[j] EXCEPT !.status = "QUEUED", !.lockedBy = NoWorker,
                                     !.lapsed = FALSE, !.available = TRUE]
                ELSE jobs[j]]
  /\ recoveries' = [j \in Jobs |-> IF j \in Expired THEN recoveries[j] + 1 ELSE recoveries[j]]
  /\ UNCHANGED rowLock

\* NOW() passes locked_until: nothing renews it while the job runs.
LockLapses(j) ==
  /\ jobs[j].status = "RUNNING"
  /\ ~jobs[j].lapsed
  /\ jobs' = [jobs EXCEPT ![j] = [@ EXCEPT !.lapsed = TRUE]]
  /\ UNCHANGED <<rowLock, recoveries>>

\* NOW() reaches available_at.
BecomesAvailable(j) ==
  /\ jobs[j].status = "QUEUED"
  /\ ~jobs[j].available
  /\ jobs' = [jobs EXCEPT ![j] = [@ EXCEPT !.available = TRUE]]
  /\ UNCHANGED <<rowLock, recoveries>>

QueueNext ==
  \/ \E j \in Jobs, m \in AttemptLimits, now \in BOOLEAN : Enqueue(j, m, now)
  \/ \E w \in Workers, j \in Jobs : ClaimSelect(w, j)
  \/ \E w \in Workers, j \in Jobs : ClaimCommit(w, j)
  \/ \E w \in Workers, j \in Jobs : ClaimRollback(w, j)
  \/ \E w \in Workers, j \in Jobs : Complete(w, j)
  \/ \E w \in Workers, j \in Jobs, retry \in BOOLEAN : Fail(w, j, retry)
  \/ RecoverExpired
  \/ \E j \in Jobs : LockLapses(j)
  \/ \E j \in Jobs : BecomesAvailable(j)

QueueSpec == QueueInit /\ [][QueueNext]_queueVars

-----------------------------------------------------------------------------
(* Properties *)

\* A row has a lock owner exactly while it is RUNNING, and a claim transaction
\* only ever holds rows that are still QUEUED: however claims, answers and
\* recoveries interleave, no job is running for nobody or settled but locked.
LockDiscipline ==
  \A j \in Jobs : /\ jobs[j].status = "RUNNING" <=> jobs[j].lockedBy # NoWorker
                  /\ rowLock[j] # NoWorker => jobs[j].status = "QUEUED"

\* The retry bound the statements really give: a job is claimed at most
\* max_attempts times plus once for every time recoverExpired requeued it, and
\* a job waiting in the queue still has a claim left within that budget.
AttemptBudget ==
  \A j \in Jobs :
    /\ jobs[j].attempts <= jobs[j].max + recoveries[j]
    /\ jobs[j].status = "QUEUED" => jobs[j].attempts < jobs[j].max + recoveries[j]

\* A job that SUCCEEDED or went to the DEAD_LETTER state keeps that row for
\* ever, whatever late complete, fail or recovery call arrives.
TerminalIsFinal ==
  [][\A j \in Jobs : jobs[j].status \in Terminal => jobs'[j] = jobs[j]]_queueVars

\* The lock of a running job never passes from one worker to another directly:
\* it is always given up (answer or recovery) before somebody else gets it.
LockNeverStolen ==
  [][\A j \in Jobs : jobs[j].lockedBy # NoWorker
                       => jobs'[j].lockedBy \in {jobs[j].lockedBy, NoWorker}]_queueVars

\* What the documentation claims ("queue retries are bounded with exponential
\* backoff and a DEAD_LETTER terminal state"): no job is attempted more often
\* than its max_attempts.  recoverExpired does not look at attempts.
RetriesBounded == \A j \in Jobs : jobs[j].attempts <= jobs[j].max

\* The job lifecycle an observer of the table sees.
OutcomeOf(row) ==
  CASE row.status = "ABSENT" -> "absent"
    [] row.status \in {"QUEUED", "RUNNING"} -> "pending"
    [] row.status = "SUCCEEDED" -> "done"
    [] row.status = "DEAD_LETTER" -> "dead"

Lifecycle == INSTANCE JobLifecycle WITH
  outcome <- [j \in Jobs |-> OutcomeOf(jobs[j])],
  started <- {j \in Jobs : jobs[j].attempts > 0}

\* The table implements the promise of JobLifecycle: accepted once, started
\* before settled, settled once.
ImplementsLifecycle == Lifecycle!Spec
=============================================================================
