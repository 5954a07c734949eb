------------------------- MODULE WorkerFleetProofs --------------------------
(***************************************************************************)
(* Theorems about the table of jobs (TaskQueue), for any callers, and about *)
(* the nodes that work on it under one lease (WorkerFleet), for any set of *)
(* nodes and jobs, attempt limits, recoveries, faults and lease tokens.    *)
(***************************************************************************)
EXTENDS WorkerFleet, FiniteSetTheorems, TLAPS

(* The table, whoever calls                                                *)

\* The number of rows in the table is a natural number.
LEMMA EnqueuedCount == Cardinality(Enqueued) \in Nat
  <1>1. IsFiniteSet(Enqueued)
    BY JobsFinite, FS_Subset DEF Enqueued
  <1>2. QED
    BY <1>1, FS_CardinalityType

LEMMA AbsentRowType == ASSUME NoWorker \notin Workers PROVE AbsentRow \in JobRow
  BY DEF AbsentRow, JobRow, Status

\* Every statement keeps the table well typed.
LEMMA QueueTypeStep == QueueTypeOK /\ [QueueNext]_queueVars => QueueTypeOK'
  <1> SUFFICES ASSUME QueueTypeOK, [QueueNext]_queueVars
               PROVE QueueTypeOK'
    OBVIOUS
  <1> USE DEF QueueTypeOK
  <1>1. ASSUME NEW j \in Jobs, NEW m \in AttemptLimits, NEW now \in BOOLEAN, Enqueue(j, m, now)
        PROVE QueueTypeOK'
    <2>1. m \in Nat
      BY LimitsArePositive
    <2>2. [AbsentRow EXCEPT !.status = "QUEUED", !.max = m, !.available = now,
                            !.created = Cardinality(Enqueued)] \in JobRow
      BY <2>1, EnqueuedCount, AbsentRowType, NoWorkerIsNone DEF AbsentRow, JobRow, Status
    <2>3. QED
      BY <1>1, <2>2 DEF Enqueue
  <1>2. ASSUME NEW w \in Workers, NEW j \in Jobs, ClaimSelect(w, j)
        PROVE QueueTypeOK'
    BY <1>2 DEF ClaimSelect
  <1>3. ASSUME NEW w \in Workers, NEW j \in Jobs, ClaimCommit(w, j)
        PROVE QueueTypeOK'
    <2>1. jobs[j] \in JobRow
      OBVIOUS
    <2>2. jobs[j].attempts + 1 \in Nat
      BY <2>1 DEF JobRow
    <2>3. ASSUME NEW n \in Nat
          PROVE [jobs[j] EXCEPT !.status = "RUNNING", !.attempts = n,
                                !.lockedBy = w, !.lapsed = FALSE] \in JobRow
      BY <2>1 DEF JobRow, Status
    <2>4. QED
      BY <1>3, <2>2, <2>3 DEF ClaimCommit
  <1>4. ASSUME NEW w \in Workers, NEW j \in Jobs, ClaimRollback(w, j)
        PROVE QueueTypeOK'
    BY <1>4 DEF ClaimRollback
  <1>5. ASSUME NEW w \in Workers, NEW j \in Jobs, Complete(w, j)
        PROVE QueueTypeOK'
    BY <1>5 DEF Complete, JobRow, Status
  <1>6. ASSUME NEW w \in Workers, NEW j \in Jobs, NEW retry \in BOOLEAN, Fail(w, j, retry)
        PROVE QueueTypeOK'
    <2> DEFINE row == [jobs[j] EXCEPT
              !.status = IF MayRetry(j, retry) THEN "QUEUED" ELSE "DEAD_LETTER",
              !.available = jobs[j].available /\ ~MayRetry(j, retry),
              !.lockedBy = NoWorker, !.lapsed = FALSE]
    <2>1. jobs[j] \in JobRow
      OBVIOUS
    <2>2. CASE MayRetry(j, retry)
      <3>1. row = [jobs[j] EXCEPT !.status = "QUEUED", !.available = FALSE,
                                  !.lockedBy = NoWorker, !.lapsed = FALSE]
        BY <2>1, <2>2 DEF JobRow
      <3>2. row \in JobRow
        BY <2>1, <3>1 DEF JobRow, Status
      <3>3. QED
        BY <1>6, <3>2 DEF Fail
    <2>3. CASE ~MayRetry(j, retry)
      <3>1. row = [jobs[j] EXCEPT !.status = "DEAD_LETTER",
                                  !.lockedBy = NoWorker, !.lapsed = FALSE]
        BY <2>1, <2>3 DEF JobRow
      <3>2. row \in JobRow
        BY <2>1, <3>1 DEF JobRow, Status
      <3>3. QED
        BY <1>6, <3>2 DEF Fail
    <2>4. QED
      BY <2>2, <2>3
  <1>7. ASSUME RecoverExpired
        PROVE QueueTypeOK'
    <2>1. ASSUME NEW j \in Jobs
          PROVE [jobs[j] EXCEPT !.status = "QUEUED", !.lockedBy = NoWorker,
                                !.lapsed = FALSE, !.available = TRUE] \in JobRow
      BY DEF JobRow, Status
    <2>2. jobs' \in [Jobs -> JobRow]
      BY <1>7, <2>1 DEF RecoverExpired
    <2>3. recoveries' \in [Jobs -> Nat]
      <3>1. ASSUME NEW j \in Jobs
            PROVE recoveries[j] \in Nat /\ recoveries[j] + 1 \in Nat
        OBVIOUS
      <3>2. QED
        BY <1>7, <3>1 DEF RecoverExpired
    <2>4. QED
      BY <1>7, <2>2, <2>3 DEF RecoverExpired
  <1>8. ASSUME NEW j \in Jobs, LockLapses(j)
        PROVE QueueTypeOK'
    BY <1>8 DEF LockLapses, JobRow
  <1>9. ASSUME NEW j \in Jobs, BecomesAvailable(j)
        PROVE QueueTypeOK'
    BY <1>9 DEF BecomesAvailable, JobRow
  <1>10. CASE UNCHANGED queueVars
    BY <1>10 DEF queueVars
  <1>11. QED
    BY <1>1, <1>2, <1>3, <1>4, <1>5, <1>6, <1>7, <1>8, <1>9, <1>10 DEF QueueNext

LEMMA QueueTypeInit == QueueInit => QueueTypeOK
  BY AbsentRowType, NoWorkerIsNone DEF QueueInit, QueueTypeOK

\* The table stays well typed for ever.
THEOREM QueueTypeCorrect == QueueSpec => []QueueTypeOK
  <1>1. QED
    BY QueueTypeInit, QueueTypeStep, PTL DEF QueueSpec

-----------------------------------------------------------------------------
\* A statement keeps the lock discipline: claims only turn QUEUED rows into
\* locked RUNNING ones, and every way out of RUNNING clears the lock.
LEMMA LockDisciplineStep ==
  QueueTypeOK /\ LockDiscipline /\ [QueueNext]_queueVars => LockDiscipline'
  <1> SUFFICES ASSUME QueueTypeOK, LockDiscipline, [QueueNext]_queueVars
               PROVE LockDiscipline'
    OBVIOUS
  <1> USE NoWorkerIsNone DEF QueueTypeOK, LockDiscipline, JobRow
  <1>1. ASSUME NEW j \in Jobs, NEW m \in AttemptLimits, NEW now \in BOOLEAN, Enqueue(j, m, now)
        PROVE LockDiscipline'
    BY <1>1 DEF Enqueue, AbsentRow
  <1>2. ASSUME NEW w \in Workers, NEW j \in Jobs, ClaimSelect(w, j)
        PROVE LockDiscipline'
    BY <1>2 DEF ClaimSelect, NextCandidate, Claimable
  <1>3. ASSUME NEW w \in Workers, NEW j \in Jobs, ClaimCommit(w, j)
        PROVE LockDiscipline'
    BY <1>3 DEF ClaimCommit
  <1>4. ASSUME NEW w \in Workers, NEW j \in Jobs, ClaimRollback(w, j)
        PROVE LockDiscipline'
    BY <1>4 DEF ClaimRollback
  <1>5. ASSUME NEW w \in Workers, NEW j \in Jobs, Complete(w, j)
        PROVE LockDiscipline'
    BY <1>5 DEF Complete, Owned
  <1>6. ASSUME NEW w \in Workers, NEW j \in Jobs, NEW retry \in BOOLEAN, Fail(w, j, retry)
        PROVE LockDiscipline'
    BY <1>6 DEF Fail, Owned
  <1>7. ASSUME RecoverExpired
        PROVE LockDiscipline'
    BY <1>7 DEF RecoverExpired, Expired
  <1>8. ASSUME NEW j \in Jobs, LockLapses(j)
        PROVE LockDiscipline'
    BY <1>8 DEF LockLapses
  <1>9. ASSUME NEW j \in Jobs, BecomesAvailable(j)
        PROVE LockDiscipline'
    BY <1>9 DEF BecomesAvailable
  <1>10. CASE UNCHANGED queueVars
    BY <1>10 DEF queueVars
  <1>11. QED
    BY <1>1, <1>2, <1>3, <1>4, <1>5, <1>6, <1>7, <1>8, <1>9, <1>10 DEF QueueNext

LEMMA LockDisciplineInit == QueueInit => LockDiscipline
  BY DEF QueueInit, LockDiscipline, AbsentRow

\* A row is locked exactly while it is RUNNING, and only QUEUED rows are held by
\* a claim transaction, whatever callers do.
THEOREM LocksAreDisciplined == QueueSpec => []LockDiscipline
  <1>1. QED
    BY LockDisciplineInit, LockDisciplineStep, QueueTypeCorrect, PTL DEF QueueSpec

-----------------------------------------------------------------------------
\* The retry budget is inductive together with the lock discipline: a claim
\* needs a QUEUED row, and only recoverExpired requeues a job whose attempts
\* are used up.
LEMMA AttemptBudgetStep ==
  QueueTypeOK /\ LockDiscipline /\ AttemptBudget /\ [QueueNext]_queueVars => AttemptBudget'
  <1> SUFFICES ASSUME QueueTypeOK, LockDiscipline, AttemptBudget, [QueueNext]_queueVars
               PROVE AttemptBudget'
    OBVIOUS
  <1> USE DEF QueueTypeOK, AttemptBudget, JobRow
  <1>1. ASSUME NEW j \in Jobs, NEW m \in AttemptLimits, NEW now \in BOOLEAN, Enqueue(j, m, now)
        PROVE AttemptBudget'
    <2>1. /\ jobs'[j].attempts = 0
          /\ jobs'[j].max = m
      BY <1>1 DEF Enqueue, AbsentRow
    <2>2. \A k \in Jobs \ {j} : jobs'[k] = jobs[k]
      BY <1>1 DEF Enqueue
    <2>3. recoveries' = recoveries
      BY <1>1 DEF Enqueue
    <2>4. m \in Nat /\ m > 0
      BY LimitsArePositive
    <2>5. QED
      BY <2>1, <2>2, <2>3, <2>4
  <1>2. ASSUME NEW w \in Workers, NEW j \in Jobs, ClaimSelect(w, j)
        PROVE AttemptBudget'
    BY <1>2 DEF ClaimSelect
  <1>3. ASSUME NEW w \in Workers, NEW j \in Jobs, ClaimCommit(w, j)
        PROVE AttemptBudget'
    <2>1. jobs[j].status = "QUEUED"
      BY <1>3, NoWorkerIsNone DEF ClaimCommit, LockDiscipline
    <2>2. jobs'[j] = [jobs[j] EXCEPT !.status = "RUNNING", !.attempts = jobs[j].attempts + 1,
                                     !.lockedBy = w, !.lapsed = FALSE]
      BY <1>3 DEF ClaimCommit
    <2>3. /\ jobs'[j].attempts = jobs[j].attempts + 1
          /\ jobs'[j].max = jobs[j].max
          /\ jobs'[j].status = "RUNNING"
      BY <2>2
    <2>4. \A k \in Jobs \ {j} : jobs'[k] = jobs[k]
      BY <1>3 DEF ClaimCommit
    <2>5. recoveries' = recoveries
      BY <1>3 DEF ClaimCommit
    <2>6. QED
      BY <2>1, <2>3, <2>4, <2>5
  <1>4. ASSUME NEW w \in Workers, NEW j \in Jobs, ClaimRollback(w, j)
        PROVE AttemptBudget'
    BY <1>4 DEF ClaimRollback
  <1>5. ASSUME NEW w \in Workers, NEW j \in Jobs, Complete(w, j)
        PROVE AttemptBudget'
    BY <1>5 DEF Complete
  <1>6. ASSUME NEW w \in Workers, NEW j \in Jobs, NEW retry \in BOOLEAN, Fail(w, j, retry)
        PROVE AttemptBudget'
    <2>1. /\ jobs'[j].attempts = jobs[j].attempts
          /\ jobs'[j].max = jobs[j].max
          /\ jobs'[j].status = IF MayRetry(j, retry) THEN "QUEUED" ELSE "DEAD_LETTER"
      BY <1>6 DEF Fail
    <2>2. \A k \in Jobs \ {j} : jobs'[k] = jobs[k]
      BY <1>6 DEF Fail
    <2>3. recoveries' = recoveries
      BY <1>6 DEF Fail
    <2>4. QED
      BY <2>1, <2>2, <2>3 DEF MayRetry
  <1>7. ASSUME RecoverExpired
        PROVE AttemptBudget'
    <2>1. ASSUME NEW k \in Jobs
          PROVE /\ jobs'[k].attempts = jobs[k].attempts
                /\ jobs'[k].max = jobs[k].max
                /\ k \in Expired => recoveries'[k] = recoveries[k] + 1
                /\ k \notin Expired => jobs'[k] = jobs[k] /\ recoveries'[k] = recoveries[k]
      BY <1>7 DEF RecoverExpired
    <2>2. ASSUME NEW k \in Jobs
          PROVE /\ jobs[k].attempts \in Nat /\ jobs[k].max \in Nat /\ recoveries[k] \in Nat
      OBVIOUS
    <2>3. QED
      BY <2>1, <2>2
  <1>8. ASSUME NEW j \in Jobs, LockLapses(j)
        PROVE AttemptBudget'
    BY <1>8 DEF LockLapses
  <1>9. ASSUME NEW j \in Jobs, BecomesAvailable(j)
        PROVE AttemptBudget'
    BY <1>9 DEF BecomesAvailable
  <1>10. CASE UNCHANGED queueVars
    BY <1>10 DEF queueVars
  <1>11. QED
    BY <1>1, <1>2, <1>3, <1>4, <1>5, <1>6, <1>7, <1>8, <1>9, <1>10 DEF QueueNext

LEMMA AttemptBudgetInit == QueueInit => AttemptBudget
  BY DEF QueueInit, AttemptBudget, AbsentRow

\* A job is attempted at most max_attempts times plus once per recovery.
THEOREM AttemptsAreBudgeted == QueueSpec => []AttemptBudget
  <1>1. QED
    BY AttemptBudgetInit, AttemptBudgetStep, QueueTypeCorrect, LocksAreDisciplined, PTL DEF QueueSpec
-----------------------------------------------------------------------------
\* What one step can do to the row of a job that is not QUEUED: nothing, if the
\* row has no lock owner and is not absent; and a lock owner is at most cleared.
LEMMA RowStep ==
  ASSUME QueueTypeOK, LockDiscipline, QueueNext, NEW k \in Jobs
  PROVE /\ jobs[k].status \in Terminal => jobs'[k] = jobs[k]
        /\ jobs[k].lockedBy # NoWorker => jobs'[k].lockedBy \in {jobs[k].lockedBy, NoWorker}
  <1> USE NoWorkerIsNone DEF QueueTypeOK, LockDiscipline, Terminal
  <1>1. ASSUME NEW j \in Jobs, NEW m \in AttemptLimits, NEW now \in BOOLEAN, Enqueue(j, m, now)
        PROVE /\ jobs[k].status \in Terminal => jobs'[k] = jobs[k]
              /\ jobs[k].lockedBy # NoWorker => jobs'[k].lockedBy \in {jobs[k].lockedBy, NoWorker}
    BY <1>1 DEF Enqueue
  <1>2. ASSUME NEW w \in Workers, NEW j \in Jobs, ClaimSelect(w, j) \/ ClaimRollback(w, j)
        PROVE jobs' = jobs
    BY <1>2 DEF ClaimSelect, ClaimRollback
  <1>3. ASSUME NEW w \in Workers, NEW j \in Jobs, ClaimCommit(w, j)
        PROVE /\ jobs[k].status \in Terminal => jobs'[k] = jobs[k]
              /\ jobs[k].lockedBy # NoWorker => jobs'[k].lockedBy \in {jobs[k].lockedBy, NoWorker}
    BY <1>3 DEF ClaimCommit
  <1>4. ASSUME NEW w \in Workers, NEW j \in Jobs, Complete(w, j)
        PROVE /\ jobs[k].status \in Terminal => jobs'[k] = jobs[k]
              /\ jobs[k].lockedBy # NoWorker => jobs'[k].lockedBy \in {jobs[k].lockedBy, NoWorker}
    BY <1>4 DEF Complete, Owned, JobRow
  <1>5. ASSUME NEW w \in Workers, NEW j \in Jobs, NEW retry \in BOOLEAN, Fail(w, j, retry)
        PROVE /\ jobs[k].status \in Terminal => jobs'[k] = jobs[k]
              /\ jobs[k].lockedBy # NoWorker => jobs'[k].lockedBy \in {jobs[k].lockedBy, NoWorker}
    BY <1>5 DEF Fail, Owned, JobRow
  <1>6. ASSUME RecoverExpired
        PROVE /\ jobs[k].status \in Terminal => jobs'[k] = jobs[k]
              /\ jobs[k].lockedBy # NoWorker => jobs'[k].lockedBy \in {jobs[k].lockedBy, NoWorker}
    BY <1>6 DEF RecoverExpired, Expired, JobRow
  <1>7. ASSUME NEW j \in Jobs, LockLapses(j) \/ BecomesAvailable(j)
        PROVE /\ jobs[k].status \in Terminal => jobs'[k] = jobs[k]
              /\ jobs[k].lockedBy # NoWorker => jobs'[k].lockedBy \in {jobs[k].lockedBy, NoWorker}
    BY <1>7 DEF LockLapses, BecomesAvailable, JobRow
  <1>8. QED
    BY <1>1, <1>2, <1>3, <1>4, <1>5, <1>6, <1>7 DEF QueueNext

\* A settled job's row never changes again: every statement that could change it
\* asks for a lock owner or a non-terminal status.
THEOREM SettledJobsStay == QueueSpec => TerminalIsFinal
  <1>1. QueueTypeOK /\ LockDiscipline /\ [QueueNext]_queueVars
          => [\A j \in Jobs : jobs[j].status \in Terminal => jobs'[j] = jobs[j]]_queueVars
    BY RowStep
  <1>2. QED
    BY <1>1, QueueTypeCorrect, LocksAreDisciplined, PTL DEF QueueSpec, TerminalIsFinal

\* A job's lock is given up before another worker can get it.
THEOREM LocksAreNotStolen == QueueSpec => LockNeverStolen
  <1>1. QueueTypeOK /\ LockDiscipline /\ [QueueNext]_queueVars
          => [\A j \in Jobs : jobs[j].lockedBy # NoWorker
                 => jobs'[j].lockedBy \in {jobs[j].lockedBy, NoWorker}]_queueVars
    BY RowStep
  <1>2. QED
    BY <1>1, QueueTypeCorrect, LocksAreDisciplined, PTL DEF QueueSpec, LockNeverStolen

-----------------------------------------------------------------------------
\* The abstract view of a step, job by job.
view == [j \in Jobs |-> OutcomeOf(jobs[j])]
begun == {j \in Jobs : jobs[j].attempts > 0}

\* The invariant the refinement needs beyond the lock discipline: a job that is
\* or was executed has attempts > 0, and a row that is absent has none.
ClaimedRow(row) ==
  /\ row.status \in {"RUNNING", "SUCCEEDED", "DEAD_LETTER"} => row.attempts > 0
  /\ row.status = "ABSENT" => row.attempts = 0
LockedWasClaimed == \A j \in Jobs : ClaimedRow(jobs[j])

\* Rows that look the same to the observer.
Alike(a, b) == OutcomeOf(a) = OutcomeOf(b) /\ (a.attempts > 0 <=> b.attempts > 0)

\* A table in which every row looks the same is the same abstract state.
LEMMA AlikeStutters ==
  ASSUME \A k \in Jobs : Alike(jobs'[k], jobs[k])
  PROVE UNCHANGED Lifecycle!lifecycleVars
  <1>1. view' = view
    BY DEF view, Alike
  <1>2. begun' = begun
    BY DEF begun, Alike
  <1>3. QED
    BY <1>1, <1>2 DEF view, begun, Lifecycle!lifecycleVars

\* A table that changed in one row changes the abstract state in that job only.
LEMMA OneRowView ==
  ASSUME NEW j \in Jobs, \A k \in Jobs \ {j} : jobs'[k] = jobs[k]
  PROVE /\ view' = [view EXCEPT ![j] = OutcomeOf(jobs'[j])]
        /\ begun' \ {j} = begun \ {j}
  <1>1. view' = [view EXCEPT ![j] = OutcomeOf(jobs'[j])]
    BY DEF view
  <1>2. begun' \ {j} = begun \ {j}
    BY DEF begun
  <1>3. QED
    BY <1>1, <1>2

\* A claim is the only step that counts an attempt, and nothing undoes one.
LEMMA ClaimedStep ==
  QueueTypeOK /\ LockDiscipline /\ LockedWasClaimed /\ [QueueNext]_queueVars => LockedWasClaimed'
  <1> SUFFICES ASSUME QueueTypeOK, LockDiscipline, LockedWasClaimed, [QueueNext]_queueVars,
                      NEW k \in Jobs
               PROVE ClaimedRow(jobs'[k])
    BY DEF LockedWasClaimed
  <1> USE NoWorkerIsNone DEF QueueTypeOK, LockDiscipline, LockedWasClaimed, JobRow, ClaimedRow
  <1>1. ASSUME NEW j \in Jobs, NEW m \in AttemptLimits, NEW now \in BOOLEAN, Enqueue(j, m, now)
        PROVE ClaimedRow(jobs'[k])
    BY <1>1 DEF Enqueue, AbsentRow
  <1>2. ASSUME NEW w \in Workers, NEW j \in Jobs, ClaimSelect(w, j) \/ ClaimRollback(w, j)
        PROVE ClaimedRow(jobs'[k])
    BY <1>2 DEF ClaimSelect, ClaimRollback
  <1>3. ASSUME NEW w \in Workers, NEW j \in Jobs, ClaimCommit(w, j)
        PROVE ClaimedRow(jobs'[k])
    <2>1. CASE k = j
      <3>1. jobs[j].attempts \in Nat
        OBVIOUS
      <3>2. jobs'[j].attempts = jobs[j].attempts + 1 /\ jobs'[j].status = "RUNNING"
        BY <1>3 DEF ClaimCommit
      <3>3. QED
        BY <2>1, <3>1, <3>2
    <2>2. CASE k # j
      BY <1>3, <2>2 DEF ClaimCommit
    <2>3. QED
      BY <2>1, <2>2
  <1>4. ASSUME NEW w \in Workers, NEW j \in Jobs, Complete(w, j)
        PROVE ClaimedRow(jobs'[k])
    BY <1>4 DEF Complete, Owned
  <1>5. ASSUME NEW w \in Workers, NEW j \in Jobs, NEW retry \in BOOLEAN, Fail(w, j, retry)
        PROVE ClaimedRow(jobs'[k])
    BY <1>5 DEF Fail, Owned
  <1>6. ASSUME RecoverExpired
        PROVE ClaimedRow(jobs'[k])
    <2>1. CASE k \in Expired
      <3>1. jobs'[k].status = "QUEUED"
        BY <1>6, <2>1 DEF RecoverExpired, Expired
      <3>2. QED
        BY <3>1
    <2>2. CASE k \notin Expired
      BY <1>6, <2>2 DEF RecoverExpired
    <2>3. QED
      BY <2>1, <2>2
  <1>7. ASSUME NEW j \in Jobs, LockLapses(j) \/ BecomesAvailable(j)
        PROVE ClaimedRow(jobs'[k])
    BY <1>7 DEF LockLapses, BecomesAvailable
  <1>8. CASE UNCHANGED queueVars
    BY <1>8 DEF queueVars
  <1>9. QED
    BY <1>1, <1>2, <1>3, <1>4, <1>5, <1>6, <1>7, <1>8 DEF QueueNext

LEMMA ClaimedInit == QueueInit => LockedWasClaimed
  BY DEF QueueInit, LockedWasClaimed, ClaimedRow, AbsentRow

\* The empty table is the initial state of the lifecycle.
LEMMA LifecycleInit == QueueInit => Lifecycle!Init
  <1> SUFFICES ASSUME QueueInit PROVE Lifecycle!Init
    OBVIOUS
  <1>1. \A j \in Jobs : OutcomeOf(jobs[j]) = "absent" /\ jobs[j].attempts = 0
    BY DEF QueueInit, AbsentRow, OutcomeOf
  <1>2. QED
    BY <1>1 DEF Lifecycle!Init

\* Every statement is one lifecycle step of one job, or no step at all.
LEMMA LifecycleStep ==
  QueueTypeOK /\ LockDiscipline /\ LockedWasClaimed /\ [QueueNext]_queueVars
    => [Lifecycle!Next]_(Lifecycle!lifecycleVars)
  <1> SUFFICES ASSUME QueueTypeOK, LockDiscipline, LockedWasClaimed, [QueueNext]_queueVars
               PROVE Lifecycle!Next \/ UNCHANGED Lifecycle!lifecycleVars
    OBVIOUS
  <1> USE NoWorkerIsNone DEF QueueTypeOK, LockDiscipline, JobRow
  <1>1. ASSUME NEW j \in Jobs, NEW m \in AttemptLimits, NEW now \in BOOLEAN, Enqueue(j, m, now)
        PROVE Lifecycle!Accept(j)
    <2>1. /\ jobs[j].status = "ABSENT"
          /\ jobs'[j].status = "QUEUED" /\ jobs'[j].attempts = 0
          /\ \A k \in Jobs \ {j} : jobs'[k] = jobs[k]
      BY <1>1 DEF Enqueue, AbsentRow
    <2>2. jobs[j].attempts = 0
      BY <2>1 DEF LockedWasClaimed, ClaimedRow
    <2>3. view[j] = "absent" /\ OutcomeOf(jobs'[j]) = "pending"
      BY <2>1 DEF view, OutcomeOf
    <2>4. view' = [view EXCEPT ![j] = "pending"]
      BY <2>1, <2>3, OneRowView
    <2>5. begun' = begun
      BY <2>1, <2>2 DEF begun
    <2>6. QED
      BY <2>3, <2>4, <2>5 DEF Lifecycle!Accept, view, begun
  <1>2. ASSUME NEW w \in Workers, NEW j \in Jobs, ClaimSelect(w, j) \/ ClaimRollback(w, j)
        PROVE UNCHANGED Lifecycle!lifecycleVars
    <2>1. jobs' = jobs
      BY <1>2 DEF ClaimSelect, ClaimRollback
    <2>2. QED
      BY <2>1, AlikeStutters DEF Alike
  <1>3. ASSUME NEW w \in Workers, NEW j \in Jobs, ClaimCommit(w, j)
        PROVE Lifecycle!Begin(j)
    <2>1. /\ jobs[j].status = "QUEUED"
          /\ jobs'[j].status = "RUNNING" /\ jobs'[j].attempts = jobs[j].attempts + 1
          /\ \A k \in Jobs \ {j} : jobs'[k] = jobs[k]
      BY <1>3 DEF ClaimCommit
    <2>2. jobs[j].attempts \in Nat
      OBVIOUS
    <2>3. view[j] = "pending" /\ OutcomeOf(jobs'[j]) = "pending"
      BY <2>1 DEF view, OutcomeOf
    <2>4. view' = view
      BY <2>1, <2>3 DEF view
    <2>5. begun' = begun \cup {j}
      BY <2>1, <2>2 DEF begun
    <2>6. QED
      BY <2>3, <2>4, <2>5 DEF Lifecycle!Begin, view, begun
  <1>4. ASSUME NEW j \in Jobs, jobs[j].status = "RUNNING",
               jobs'[j].status \in Terminal, jobs'[j].attempts = jobs[j].attempts,
               \A k \in Jobs \ {j} : jobs'[k] = jobs[k]
        PROVE Lifecycle!Settle(j)
    <2>1. PICK o \in {"done", "dead"} : OutcomeOf(jobs'[j]) = o
      BY <1>4 DEF OutcomeOf, Terminal
    <2>2. view[j] = "pending"
      BY <1>4 DEF view, OutcomeOf
    <2>3. j \in begun
      BY <1>4 DEF begun, LockedWasClaimed, ClaimedRow
    <2>4. view' = [view EXCEPT ![j] = o]
      BY <1>4, <2>1, OneRowView
    <2>5. begun' = begun
      BY <1>4 DEF begun
    <2>6. QED
      BY <2>2, <2>3, <2>4, <2>5 DEF Lifecycle!Settle, view, begun
  <1>5. ASSUME NEW w \in Workers, NEW j \in Jobs, Complete(w, j)
        PROVE Lifecycle!Settle(j)
    <2>1. /\ jobs[j].status = "RUNNING"
          /\ jobs'[j].status \in Terminal /\ jobs'[j].attempts = jobs[j].attempts
          /\ \A k \in Jobs \ {j} : jobs'[k] = jobs[k]
      BY <1>5 DEF Complete, Owned, Terminal
    <2>2. QED
      BY <2>1, <1>4
  <1>6. ASSUME NEW w \in Workers, NEW j \in Jobs, NEW retry \in BOOLEAN, Fail(w, j, retry)
        PROVE Lifecycle!Settle(j) \/ UNCHANGED Lifecycle!lifecycleVars
    <2>1. /\ jobs[j].status = "RUNNING"
          /\ jobs'[j].status = IF MayRetry(j, retry) THEN "QUEUED" ELSE "DEAD_LETTER"
          /\ jobs'[j].attempts = jobs[j].attempts
          /\ \A k \in Jobs \ {j} : jobs'[k] = jobs[k]
      BY <1>6 DEF Fail, Owned
    <2>2. CASE MayRetry(j, retry)
      <3>1. Alike(jobs'[j], jobs[j])
        BY <2>1, <2>2 DEF Alike, OutcomeOf
      <3>2. \A k \in Jobs : Alike(jobs'[k], jobs[k])
        BY <3>1, <2>1 DEF Alike
      <3>3. QED
        BY <3>2, AlikeStutters
    <2>3. CASE ~MayRetry(j, retry)
      BY <2>1, <2>3, <1>4 DEF Terminal
    <2>4. QED
      BY <2>2, <2>3
  <1>7. ASSUME RecoverExpired
        PROVE UNCHANGED Lifecycle!lifecycleVars
    <2>1. ASSUME NEW k \in Jobs
          PROVE Alike(jobs'[k], jobs[k])
      <3>1. CASE k \in Expired
        <4>1. /\ jobs[k].status = "RUNNING"
              /\ jobs'[k].status = "QUEUED" /\ jobs'[k].attempts = jobs[k].attempts
          BY <1>7, <3>1 DEF RecoverExpired, Expired
        <4>2. QED
          BY <4>1 DEF Alike, OutcomeOf
      <3>2. CASE k \notin Expired
        BY <1>7, <3>2 DEF RecoverExpired, Alike
      <3>3. QED
        BY <3>1, <3>2
    <2>2. QED
      BY <2>1, AlikeStutters
  <1>8. ASSUME NEW j \in Jobs, LockLapses(j) \/ BecomesAvailable(j)
        PROVE UNCHANGED Lifecycle!lifecycleVars
    <2>1. /\ jobs'[j].status = jobs[j].status /\ jobs'[j].attempts = jobs[j].attempts
          /\ \A k \in Jobs \ {j} : jobs'[k] = jobs[k]
      BY <1>8 DEF LockLapses, BecomesAvailable
    <2>2. \A k \in Jobs : Alike(jobs'[k], jobs[k])
      BY <2>1 DEF Alike, OutcomeOf
    <2>3. QED
      BY <2>2, AlikeStutters
  <1>9. CASE UNCHANGED queueVars
    BY <1>9, AlikeStutters DEF queueVars, Alike
  <1>10. QED
    BY <1>1, <1>2, <1>3, <1>5, <1>6, <1>7, <1>8, <1>9 DEF QueueNext, Lifecycle!Next

LEMMA ExecutionsAreCounted == QueueSpec => []LockedWasClaimed
  <1>1. QED
    BY ClaimedInit, ClaimedStep, QueueTypeCorrect, LocksAreDisciplined, PTL DEF QueueSpec

\* The table implements the lifecycle JobLifecycle promises.
THEOREM QueueImplementsLifecycle == QueueSpec => ImplementsLifecycle
  <1>1. QED
    BY ExecutionsAreCounted, LifecycleInit, LifecycleStep, QueueTypeCorrect, LocksAreDisciplined, PTL
       DEF QueueSpec, ImplementsLifecycle, Lifecycle!Spec

-----------------------------------------------------------------------------
(* The nodes                                                               *)

\* A node is between claiming a job and having answered for it exactly while it
\* remembers the claim, and has a lease token exactly from the acquire that
\* granted it to the end of the run.
PlaceInv ==
  \A p \in Workers : /\ Executing(p) <=> claim[p] # NoClaim
                     /\ pc[p] \in {"idle", "acquire"} <=> token[p] = NoToken

LEMMA ExecutingHasJob ==
  ASSUME TypeOK, PlaceInv, NEW p \in Workers, Executing(p)
  PROVE claim[p].job \in Jobs /\ claim[p].attempt \in Nat
  <1>1. claim[p] \in [job: Jobs, attempt: Nat]
    BY DEF TypeOK, PlaceInv
  <1>2. QED
    BY <1>1

-----------------------------------------------------------------------------
(* The fleet uses the table through the statements of TaskQueue only.      *)

\* What one node does is one statement of its own, or nothing to the table.
NodeStep(p) ==
  \/ Run(p) \/ RunStep(p) \/ AcquireLost(p) \/ ClaimFails(p) \/ Heartbeat(p)
  \/ Stop(p) \/ Crash(p) \/ GoesStale(p)

\* The statements node p may issue.
Issues(p) ==
  \/ \E j \in Jobs : ClaimSelect(p, j) \/ ClaimCommit(p, j) \/ ClaimRollback(p, j)
  \/ \E j \in Jobs : Complete(p, j) \/ Fail(p, j, TRUE)

LEMMA NodeQueueStep ==
  ASSUME NEW p \in Workers, TypeOK, PlaceInv, NodeStep(p)
  PROVE Issues(p) \/ UNCHANGED queueVars
  <1>1. CASE Run(p)
    BY <1>1 DEF Run
  <1>2. CASE AcquireLease(p) \/ LeaseRefused(p) \/ AcquireLost(p) \/ Attach(p)
    BY <1>2 DEF AcquireLease, LeaseRefused, AcquireLost, Attach
  <1>3. CASE Poll(p)
    BY <1>3 DEF Poll, Issues
  <1>4. CASE ClaimCommits(p)
    BY <1>4 DEF ClaimCommits, Issues
  <1>5. CASE ClaimFails(p)
    BY <1>5 DEF ClaimFails, Issues
  <1>6. CASE CycleEnds(p) \/ LeaveLoop(p) \/ Finish(p) \/ ReleaseLease(p)
    BY <1>6 DEF CycleEnds, LeaveLoop, Finish, ReleaseLease
  <1>7. CASE CompleteAccepted(p) \/ CompleteThrows(p) \/ FailAnswered(p)
    <2>1. claim[p].job \in Jobs
      BY <1>7, ExecutingHasJob DEF CompleteAccepted, CompleteThrows, FailAnswered, Executing
    <2>2. Complete(p, claim[p].job) \/ Fail(p, claim[p].job, TRUE) \/ UNCHANGED queueVars
      BY <1>7 DEF CompleteAccepted, CompleteThrows, FailAnswered
    <2>3. QED
      BY <2>1, <2>2 DEF Issues
  <1>8. CASE Heartbeat(p)
    BY <1>8 DEF Heartbeat, HeartbeatSends, HeartbeatAnswered, HeartbeatLost
  <1>9. CASE Stop(p) \/ GoesStale(p)
    BY <1>9 DEF Stop, GoesStale
  <1>10. CASE Crash(p)
    BY <1>10 DEF Crash, Issues
  <1>11. QED
    BY <1>1, <1>2, <1>3, <1>4, <1>5, <1>6, <1>7, <1>8, <1>9, <1>10 DEF RunStep, NodeStep

\* Every step of the fleet is a statement of the queue, or leaves it alone.
LEMMA FleetQueueStep ==
  TypeOK /\ PlaceInv /\ [Next]_vars => [QueueNext]_queueVars
  <1> SUFFICES ASSUME TypeOK, PlaceInv, [Next]_vars
               PROVE QueueNext \/ UNCHANGED queueVars
    OBVIOUS
  <1>1. ASSUME NEW p \in Workers, NodeStep(p) PROVE QueueNext \/ UNCHANGED queueVars
    <2>1. CASE Issues(p)
      BY <2>1 DEF Issues, QueueNext
    <2>2. QED
      BY <1>1, <2>1, NodeQueueStep
  <1>2. ASSUME NEW j \in Jobs, Queued(j) \/ BackoffEnds(j) \/ JobLockLapses(j)
        PROVE QueueNext
    BY <1>2 DEF Queued, BackoffEnds, JobLockLapses, QueueNext
  <1>3. CASE LeaseExpires
    BY <1>3 DEF LeaseExpires
  <1>4. CASE Recover
    BY <1>4 DEF Recover, QueueNext
  <1>5. CASE UNCHANGED vars
    BY <1>5 DEF vars, queueVars
  <1>6. QED
    BY <1>1, <1>2, <1>3, <1>4, <1>5 DEF Next, NodeStep

-----------------------------------------------------------------------------
(* Types.                                                                  *)

\* The node part of TypeOK.
NodeTypeOK ==
  /\ L!LeaseTypeOK
  /\ pc \in [Workers -> Places]
  /\ token \in [Workers -> Tokens \cup {NoToken}]
  /\ claim \in [Workers -> [job: Jobs, attempt: Nat] \cup {NoClaim}]
  /\ stopRequested \in [Workers -> BOOLEAN]
  /\ hb \in [Workers -> [phase: {"sent", "lost"}, token: Tokens] \cup {NoBeat}]
  /\ fresh \in [Workers -> BOOLEAN]
  /\ faults \in 0..MaxFaults

LEMMA FaultType ==
  ASSUME faults \in 0..MaxFaults, Fault \/ NoFault
  PROVE faults' \in 0..MaxFaults
  BY FaultsBounded DEF Fault, NoFault

LEMMA NodeTypeStep ==
  ASSUME NEW p \in Workers, TypeOK, PlaceInv, NodeStep(p), QueueTypeOK'
  PROVE NodeTypeOK'
  <1> USE DEF TypeOK, NodeTypeOK, Goto, Places
  <1>f. faults \in 0..MaxFaults
    OBVIOUS
  <1>1. CASE Run(p)
    BY <1>1 DEF Run, L!LeaseTypeOK
  <1>2. CASE AcquireLease(p)
    BY <1>2 DEF AcquireLease, L!LeaseTypeOK, L!Grant, FreshToken
  <1>3. CASE LeaseRefused(p)
    BY <1>3 DEF LeaseRefused, L!LeaseTypeOK
  <1>4. CASE AcquireLost(p)
    <2>1. L!LeaseTypeOK'
      <3>1. CASE UNCHANGED lease
        BY <3>1 DEF L!LeaseTypeOK
      <3>2. CASE \E t \in Tokens : FreshToken(t) /\ L!Grant(p, t)
        BY <3>2 DEF L!LeaseTypeOK, L!Grant
      <3>3. QED
        BY <1>4, <3>1, <3>2 DEF AcquireLost
    <2>2. faults' \in 0..MaxFaults
      BY <1>4, <1>f, FaultType DEF AcquireLost
    <2>3. QED
      BY <1>4, <2>1, <2>2 DEF AcquireLost
  <1>5. CASE Attach(p)
    BY <1>5 DEF Attach, L!LeaseTypeOK
  <1>6. CASE Poll(p)
    BY <1>6 DEF Poll, L!LeaseTypeOK
  <1>7. CASE ClaimCommits(p)
    <2>1. PICK j \in Jobs : claim' = [claim EXCEPT ![p] = [job |-> j, attempt |-> jobs'[j].attempts]]
      BY <1>7 DEF ClaimCommits
    <2>2. jobs'[j].attempts \in Nat
      BY DEF QueueTypeOK, JobRow
    <2>3. claim' \in [Workers -> [job: Jobs, attempt: Nat] \cup {NoClaim}]
      BY <2>1, <2>2
    <2>4. QED
      BY <1>7, <2>3 DEF ClaimCommits, L!LeaseTypeOK
  <1>8. CASE ClaimFails(p)
    <2>1. faults' \in 0..MaxFaults
      BY <1>8, <1>f, FaultType DEF ClaimFails
    <2>2. QED
      BY <1>8, <2>1 DEF ClaimFails, L!LeaseTypeOK
  <1>9. CASE CycleEnds(p)
    BY <1>9 DEF CycleEnds, L!LeaseTypeOK
  <1>10. CASE CompleteAccepted(p)
    BY <1>10 DEF CompleteAccepted, EndClaim, L!LeaseTypeOK
  <1>11. CASE CompleteThrows(p)
    <2>1. faults' \in 0..MaxFaults
      BY <1>11, <1>f, FaultType DEF CompleteThrows
    <2>2. QED
      BY <1>11, <2>1 DEF CompleteThrows, L!LeaseTypeOK
  <1>12. CASE FailAnswered(p)
    <2>1. faults' \in 0..MaxFaults
      BY <1>12, <1>f, FaultType DEF FailAnswered
    <2>2. QED
      BY <1>12, <2>1 DEF FailAnswered, EndClaim, L!LeaseTypeOK
  <1>13. CASE LeaveLoop(p) \/ Finish(p)
    BY <1>13 DEF LeaveLoop, Finish, L!LeaseTypeOK
  <1>14. CASE ReleaseLease(p)
    <2>1. faults' \in 0..MaxFaults
      BY <1>14, <1>f, FaultType DEF ReleaseLease
    <2>2. L!LeaseTypeOK'
      BY <1>14 DEF ReleaseLease, L!Release, L!LeaseTypeOK
    <2>3. QED
      BY <1>14, <2>1, <2>2 DEF ReleaseLease
  <1>15. CASE HeartbeatSends(p)
    <2>1. token[p] \in Tokens
      BY <1>15 DEF HeartbeatSends, Armed, PlaceInv
    <2>2. QED
      BY <1>15, <2>1 DEF HeartbeatSends, L!LeaseTypeOK
  <1>16. CASE HeartbeatAnswered(p)
    <2>1. faults' \in 0..MaxFaults
      BY <1>16, <1>f, FaultType DEF HeartbeatAnswered
    <2>2. hb[p] \in [phase: {"sent", "lost"}, token: Tokens]
      BY <1>16 DEF HeartbeatAnswered, NoBeat
    <2>3. [hb[p] EXCEPT !.phase = "lost"] \in [phase: {"sent", "lost"}, token: Tokens]
      BY <2>2
    <2>4. hb' \in [Workers -> [phase: {"sent", "lost"}, token: Tokens] \cup {NoBeat}]
      BY <1>16, <2>3 DEF HeartbeatAnswered
    <2>5. QED
      BY <1>16, <2>1, <2>4 DEF HeartbeatAnswered, L!LeaseTypeOK
  <1>17. CASE HeartbeatLost(p) \/ GoesStale(p)
    BY <1>17 DEF HeartbeatLost, GoesStale, L!LeaseTypeOK
  <1>18. CASE Stop(p)
    <2>1. faults' \in 0..MaxFaults
      BY <1>18, <1>f, FaultType DEF Stop
    <2>2. QED
      BY <1>18, <2>1 DEF Stop, L!LeaseTypeOK
  <1>19. CASE Crash(p)
    <2>1. faults' \in 0..MaxFaults
      BY <1>19, <1>f, FaultType DEF Crash
    <2>2. QED
      BY <1>19, <2>1 DEF Crash, EndClaim, L!LeaseTypeOK
  <1>20. QED
    BY <1>1, <1>2, <1>3, <1>4, <1>5, <1>6, <1>7, <1>8, <1>9, <1>10, <1>11, <1>12, <1>13,
       <1>14, <1>15, <1>16, <1>17, <1>18, <1>19 DEF NodeStep, RunStep, Heartbeat

\* The other steps of the fleet leave the nodes alone.
LEMMA ElsewhereTypeStep ==
  ASSUME TypeOK, UNCHANGED nodeVars,
         (LeaseExpires \/ (UNCHANGED lease /\ faults' \in 0..MaxFaults))
  PROVE NodeTypeOK'
  <1>1. CASE LeaseExpires
    <2>1. faults' \in 0..MaxFaults
      BY <1>1, FaultType DEF LeaseExpires, TypeOK
    <2>2. L!LeaseTypeOK'
      <3>1. lease.live /\ lease' = [lease EXCEPT !.live = FALSE]
        BY <1>1 DEF LeaseExpires, L!Expire
      <3>2. lease \in [owner: Workers, token: Tokens, live: BOOLEAN]
        BY <3>1 DEF L!LeaseTypeOK, L!NoLease, TypeOK
      <3>3. lease' \in [owner: Workers, token: Tokens, live: BOOLEAN]
        BY <3>1, <3>2
      <3>4. QED
        BY <3>3 DEF L!LeaseTypeOK
    <2>3. QED
      BY <2>1, <2>2 DEF NodeTypeOK, nodeVars, TypeOK
  <1>2. CASE UNCHANGED lease /\ faults' \in 0..MaxFaults
    BY <1>2 DEF NodeTypeOK, nodeVars, TypeOK, L!LeaseTypeOK
  <1>3. QED
    BY <1>1, <1>2

LEMMA FleetTypeStep == TypeOK /\ PlaceInv /\ [Next]_vars => TypeOK'
  <1> SUFFICES ASSUME TypeOK, PlaceInv, [Next]_vars PROVE TypeOK'
    OBVIOUS
  <1>1. QueueTypeOK'
    BY FleetQueueStep, QueueTypeStep DEF TypeOK
  <1>2. NodeTypeOK'
    <2>1. ASSUME NEW p \in Workers, NodeStep(p) PROVE NodeTypeOK'
      BY <1>1, <2>1, NodeTypeStep
    <2>2. ASSUME NEW j \in Jobs, Queued(j) \/ BackoffEnds(j) \/ JobLockLapses(j)
          PROVE NodeTypeOK'
      <3>1. faults' \in 0..MaxFaults
        BY <2>2, FaultType DEF Queued, BackoffEnds, JobLockLapses, TypeOK, Fault, NoFault
      <3>2. QED
        BY <2>2, <3>1, ElsewhereTypeStep DEF Queued, BackoffEnds, JobLockLapses
    <2>3. CASE LeaseExpires
      BY <2>3, ElsewhereTypeStep DEF LeaseExpires
    <2>4. CASE Recover
      <3>1. faults' \in 0..MaxFaults
        BY <2>4 DEF Recover, TypeOK
      <3>2. QED
        BY <2>4, <3>1, ElsewhereTypeStep DEF Recover
    <2>5. CASE UNCHANGED vars
      <3>1. faults' \in 0..MaxFaults
        BY <2>5 DEF vars, TypeOK
      <3>2. QED
        BY <2>5, <3>1, ElsewhereTypeStep DEF vars, nodeVars
    <2>6. QED
      BY <2>1, <2>2, <2>3, <2>4, <2>5 DEF Next, NodeStep
  <1>3. QED
    BY <1>1, <1>2 DEF TypeOK, NodeTypeOK

LEMMA FleetTypeInit == Init => TypeOK
  <1> SUFFICES ASSUME Init PROVE TypeOK
    OBVIOUS
  <1>1. QueueTypeOK
    BY QueueTypeInit DEF Init
  <1>2. L!LeaseTypeOK
    BY DEF Init, L!LeaseInit, L!LeaseTypeOK
  <1>3. 0 \in 0..MaxFaults
    BY FaultsBounded
  <1>4. QED
    BY <1>1, <1>2, <1>3 DEF Init, TypeOK, Places

LEMMA PlaceInit == Init => PlaceInv
  BY DEF Init, PlaceInv, Executing

\* The program counter, the remembered claim and the token move together.
LEMMA PlaceStep == TypeOK /\ PlaceInv /\ [Next]_vars => PlaceInv'
  <1> SUFFICES ASSUME TypeOK, PlaceInv, [Next]_vars PROVE PlaceInv'
    OBVIOUS
  <1> USE NoTokenIsNone, NoJobIsNone DEF TypeOK, PlaceInv, Executing, Goto
  <1>1. ASSUME NEW p \in Workers, Run(p) PROVE PlaceInv'
    BY <1>1 DEF Run
  <1>2. ASSUME NEW p \in Workers, AcquireLease(p) PROVE PlaceInv'
    BY <1>2 DEF AcquireLease
  <1>3. ASSUME NEW p \in Workers, LeaseRefused(p) \/ AcquireLost(p) PROVE PlaceInv'
    BY <1>3 DEF LeaseRefused, AcquireLost
  <1>4. ASSUME NEW p \in Workers, Attach(p) PROVE PlaceInv'
    BY <1>4 DEF Attach
  <1>5. ASSUME NEW p \in Workers, Poll(p) PROVE PlaceInv'
    BY <1>5 DEF Poll
  <1>6. ASSUME NEW p \in Workers, ClaimCommits(p) PROVE PlaceInv'
    <2>1. PICK j \in Jobs : claim' = [claim EXCEPT ![p] = [job |-> j, attempt |-> jobs'[j].attempts]]
      BY <1>6 DEF ClaimCommits
    <2>2. [job |-> j, attempt |-> jobs'[j].attempts] # NoClaim
      BY DEF NoClaim
    <2>3. QED
      BY <1>6, <2>1, <2>2 DEF ClaimCommits
  <1>7. ASSUME NEW p \in Workers, ClaimFails(p) PROVE PlaceInv'
    BY <1>7 DEF ClaimFails
  <1>8. ASSUME NEW p \in Workers, CycleEnds(p) \/ CompleteThrows(p) PROVE PlaceInv'
    BY <1>8 DEF CycleEnds, CompleteThrows
  <1>9. ASSUME NEW p \in Workers, CompleteAccepted(p) \/ FailAnswered(p) PROVE PlaceInv'
    BY <1>9 DEF CompleteAccepted, FailAnswered, EndClaim
  <1>10. ASSUME NEW p \in Workers, LeaveLoop(p) \/ Finish(p) PROVE PlaceInv'
    BY <1>10 DEF LeaveLoop, Finish
  <1>11. ASSUME NEW p \in Workers, ReleaseLease(p) PROVE PlaceInv'
    BY <1>11 DEF ReleaseLease
  <1>12. ASSUME NEW p \in Workers, Heartbeat(p) \/ Stop(p) \/ GoesStale(p) PROVE PlaceInv'
    BY <1>12 DEF Heartbeat, HeartbeatSends, HeartbeatAnswered, HeartbeatLost, Stop, GoesStale
  <1>13. ASSUME NEW p \in Workers, Crash(p) PROVE PlaceInv'
    BY <1>13 DEF Crash, EndClaim
  <1>14. CASE UNCHANGED nodeVars
    BY <1>14 DEF nodeVars
  <1>15. QED
    BY <1>1, <1>2, <1>3, <1>4, <1>5, <1>6, <1>7, <1>8, <1>9, <1>10, <1>11, <1>12, <1>13, <1>14
       DEF Next, RunStep, Queued, BackoffEnds, JobLockLapses, LeaseExpires, Recover, vars, nodeVars

\* The fleet's state is well typed, and every node's claim and token go with
\* the place it is at.
THEOREM FleetTypeCorrect == Spec => []TypeOK
  <1>1. Spec => [](TypeOK /\ PlaceInv)
    BY FleetTypeInit, PlaceInit, FleetTypeStep, PlaceStep, PTL DEF Spec
  <1>2. QED
    BY <1>1, PTL

\* The fleet is one of the callers TaskQueue allows, so that everything proved
\* about the queue holds in the fleet.
THEOREM FleetUsesQueue == Spec => QueueSpec
  <1>1. Init => QueueInit
    BY DEF Init
  <1>2. Spec => [](TypeOK /\ PlaceInv)
    BY FleetTypeInit, PlaceInit, FleetTypeStep, PlaceStep, PTL DEF Spec
  <1>3. QED
    BY <1>1, <1>2, FleetQueueStep, PTL DEF Spec, QueueSpec

-----------------------------------------------------------------------------
(* Which execution a claim stands for.                                     *)

\* A node holds at most the row lock of the claim it is in the middle of, and a
\* remembered attempt is one the table has counted: the latest of its job if
\* the table shows the node as the lock owner, and no other node's.
ClaimInv ==
  /\ \A p \in Workers, j \in Jobs : rowLock[j] = p => pc[p] = "claim"
  /\ \A p \in Workers, j, k \in Jobs : rowLock[j] = p /\ rowLock[k] = p => j = k
  /\ \A p \in Workers :
       claim[p] # NoClaim =>
         /\ claim[p].attempt <= jobs[claim[p].job].attempts
         /\ jobs[claim[p].job].lockedBy = p
              => claim[p].attempt = jobs[claim[p].job].attempts
  /\ \A p, q \in Workers : p # q /\ claim[p] # NoClaim => claim[p] # claim[q]

\* A step that leaves the claims, the places and the row locks of the nodes
\* alone, and does not hand out a lock or uncount an attempt, keeps ClaimInv.
LEMMA ClaimUndisturbed ==
  ASSUME TypeOK, PlaceInv, ClaimInv, UNCHANGED <<claim, rowLock>>,
         \A p \in Workers : pc[p] = "claim" => pc'[p] = "claim",
         \A j \in Jobs : /\ jobs'[j].attempts = jobs[j].attempts
                         /\ jobs'[j].lockedBy \in {jobs[j].lockedBy, NoWorker}
  PROVE ClaimInv'
  <1>1. \A p \in Workers : claim[p] # NoClaim => claim[p].job \in Jobs
    BY ExecutingHasJob DEF PlaceInv
  <1>2. QED
    BY <1>1, NoWorkerIsNone DEF ClaimInv, TypeOK

\* The rows after each statement but a claim's commit.
LEMMA AttemptsOnlyByClaim ==
  ASSUME QueueTypeOK, NEW k \in Jobs,
         \/ \E w \in Workers, j \in Jobs : Complete(w, j)
         \/ \E w \in Workers, j \in Jobs, retry \in BOOLEAN : Fail(w, j, retry)
         \/ RecoverExpired
         \/ \E j \in Jobs : LockLapses(j) \/ BecomesAvailable(j)
         \/ UNCHANGED jobs
  PROVE /\ jobs'[k].attempts = jobs[k].attempts
        /\ jobs'[k].lockedBy \in {jobs[k].lockedBy, NoWorker}
  <1> USE DEF QueueTypeOK, JobRow
  <1>1. ASSUME NEW w \in Workers, NEW j \in Jobs, Complete(w, j)
        PROVE /\ jobs'[k].attempts = jobs[k].attempts
              /\ jobs'[k].lockedBy \in {jobs[k].lockedBy, NoWorker}
    BY <1>1 DEF Complete
  <1>2. ASSUME NEW w \in Workers, NEW j \in Jobs, NEW retry \in BOOLEAN, Fail(w, j, retry)
        PROVE /\ jobs'[k].attempts = jobs[k].attempts
              /\ jobs'[k].lockedBy \in {jobs[k].lockedBy, NoWorker}
    BY <1>2 DEF Fail
  <1>3. ASSUME RecoverExpired
        PROVE /\ jobs'[k].attempts = jobs[k].attempts
              /\ jobs'[k].lockedBy \in {jobs[k].lockedBy, NoWorker}
    BY <1>3 DEF RecoverExpired
  <1>4. ASSUME NEW j \in Jobs, LockLapses(j) \/ BecomesAvailable(j)
        PROVE /\ jobs'[k].attempts = jobs[k].attempts
              /\ jobs'[k].lockedBy \in {jobs[k].lockedBy, NoWorker}
    BY <1>4 DEF LockLapses, BecomesAvailable
  <1>5. QED
    BY <1>1, <1>2, <1>3, <1>4

\* Forgetting a claim disturbs nobody.
LEMMA ClaimForgotten ==
  ASSUME TypeOK, PlaceInv, ClaimInv, NEW p \in Workers, EndClaim(p), UNCHANGED rowLock,
         \A q \in Workers : pc[q] = "claim" => pc'[q] = "claim",
         \A j \in Jobs : /\ jobs'[j].attempts = jobs[j].attempts
                         /\ jobs'[j].lockedBy \in {jobs[j].lockedBy, NoWorker}
  PROVE ClaimInv'
  <1>1. \A q \in Workers : claim[q] # NoClaim => claim[q].job \in Jobs
    BY ExecutingHasJob DEF PlaceInv
  <1>2. \A q \in Workers : claim'[q] = IF q = p THEN NoClaim ELSE claim[q]
    BY DEF EndClaim, TypeOK
  <1>3. QED
    BY <1>1, <1>2, NoWorkerIsNone DEF ClaimInv, TypeOK

\* A new row has no attempts, like the absent one it replaces.
LEMMA EnqueueKeepsAttempts ==
  ASSUME QueueTypeOK, LockedWasClaimed, NEW k \in Jobs, NEW j \in Jobs,
         NEW m \in AttemptLimits, NEW now \in BOOLEAN, Enqueue(j, m, now)
  PROVE /\ jobs'[k].attempts = jobs[k].attempts
        /\ jobs'[k].lockedBy \in {jobs[k].lockedBy, NoWorker}
  <1>1. jobs[j].attempts = 0
    BY DEF Enqueue, LockedWasClaimed, ClaimedRow
  <1>2. jobs'[j].attempts = 0 /\ jobs'[j].lockedBy = NoWorker
    BY DEF Enqueue, QueueTypeOK, JobRow, AbsentRow
  <1>3. k # j => jobs'[k] = jobs[k]
    BY DEF Enqueue, QueueTypeOK
  <1>4. QED
    BY <1>1, <1>2, <1>3

\* The commit of a claim: the attempt it counts is newer than every remembered
\* one, so the new claim is nobody else's and no other claim stays current.
LEMMA CommitStep ==
  ASSUME TypeOK, PlaceInv, ClaimInv, NEW p \in Workers, ClaimCommits(p)
  PROVE ClaimInv'
  <1> USE DEF TypeOK, QueueTypeOK, Goto
  <1>1. PICK j \in Jobs : /\ ClaimCommit(p, j)
                          /\ claim' = [claim EXCEPT ![p] = [job |-> j, attempt |-> jobs'[j].attempts]]
    BY DEF ClaimCommits
  <1>2. /\ jobs[j].attempts \in Nat
        /\ jobs'[j].attempts = jobs[j].attempts + 1
        /\ jobs'[j].lockedBy = p
        /\ \A k \in Jobs \ {j} : jobs'[k] = jobs[k]
    BY <1>1 DEF ClaimCommit, JobRow
  <1>3. claim[p] = NoClaim
    BY DEF ClaimCommits, PlaceInv, Executing
  <1>4. /\ claim'[p] = [job |-> j, attempt |-> jobs[j].attempts + 1]
        /\ \A q \in Workers \ {p} : claim'[q] = claim[q]
    BY <1>1, <1>2
  <1>5. \A q \in Workers : claim[q] # NoClaim
          => /\ claim[q].job \in Jobs /\ claim[q].attempt \in Nat
             /\ claim[q].attempt <= jobs[claim[q].job].attempts
    BY ExecutingHasJob DEF PlaceInv, ClaimInv
  <1>6. /\ rowLock' = [rowLock EXCEPT ![j] = NoWorker]
        /\ rowLock[j] = p
    BY <1>1 DEF ClaimCommit
  <1>7. \A q \in Workers, k \in Jobs : rowLock'[k] = q => pc'[q] = "claim"
    <2>1. ASSUME NEW q \in Workers, NEW k \in Jobs, rowLock'[k] = q PROVE pc'[q] = "claim"
      <3>1. k # j /\ rowLock[k] = q
        BY <1>6, <2>1, NoWorkerIsNone
      <3>2. q # p
        BY <3>1, <1>6 DEF ClaimInv
      <3>3. QED
        BY <3>1, <3>2 DEF ClaimCommits, ClaimInv
    <2>2. QED
      BY <2>1
  <1>8. \A q \in Workers, i, k \in Jobs : rowLock'[i] = q /\ rowLock'[k] = q => i = k
    BY <1>6, NoWorkerIsNone DEF ClaimInv
  <1>9. ASSUME NEW q \in Workers, claim'[q] # NoClaim
        PROVE /\ claim'[q].attempt <= jobs'[claim'[q].job].attempts
              /\ jobs'[claim'[q].job].lockedBy = q
                   => claim'[q].attempt = jobs'[claim'[q].job].attempts
    <2>1. CASE q = p
      BY <1>2, <1>4, <2>1
    <2>2. CASE q # p
      <3>1. claim'[q] = claim[q] /\ claim[q] # NoClaim
        BY <1>4, <1>9, <2>2
      <3>2. CASE claim[q].job = j
        BY <1>2, <1>5, <2>2, <3>1, <3>2
      <3>3. CASE claim[q].job # j
        <4>1. jobs'[claim[q].job] = jobs[claim[q].job]
          BY <1>2, <1>5, <3>1, <3>3
        <4>2. QED
          BY <3>1, <4>1 DEF ClaimInv
      <3>4. QED
        BY <3>2, <3>3
    <2>3. QED
      BY <2>1, <2>2
  <1>10. ASSUME NEW q \in Workers, q # p PROVE claim'[p] # claim'[q]
    <2>1. CASE claim[q] = NoClaim
      BY <1>2, <1>4, <1>10, <2>1 DEF NoClaim
    <2>2. CASE claim[q] # NoClaim
      <3>1. claim[q].job = j => claim[q].attempt <= jobs[j].attempts
        BY <1>5, <2>2
      <3>2. claim'[q] = claim[q] /\ claim[q].attempt \in Nat
        BY <1>4, <1>5, <1>10, <2>2
      <3>3. QED
        BY <1>2, <1>4, <3>1, <3>2
    <2>3. QED
      BY <2>1, <2>2
  <1>11. ASSUME NEW q \in Workers, NEW r \in Workers, q # r, claim'[q] # NoClaim
         PROVE claim'[q] # claim'[r]
    <2>1. CASE q # p /\ r # p
      BY <1>4, <1>11, <2>1 DEF ClaimInv
    <2>2. QED
      BY <1>10, <1>11, <2>1
  <1>12. QED
    BY <1>7, <1>8, <1>9, <1>11 DEF ClaimInv

\* A claim that takes effect and throws: the row counts an attempt that no node
\* remembers, for a node that remembers none.
LEMMA LostCommitStep ==
  ASSUME TypeOK, PlaceInv, ClaimInv, NEW p \in Workers, pc[p] = "claim",
         NEW j \in Jobs, ClaimCommit(p, j), claim' = claim,
         \A q \in Workers \ {p} : pc'[q] = pc[q]
  PROVE ClaimInv'
  <1> USE DEF TypeOK, QueueTypeOK
  <1>1. /\ jobs[j].attempts \in Nat
        /\ jobs'[j].attempts = jobs[j].attempts + 1
        /\ jobs'[j].lockedBy = p
        /\ \A k \in Jobs \ {j} : jobs'[k] = jobs[k]
    BY DEF ClaimCommit, JobRow
  <1>2. claim[p] = NoClaim
    BY DEF PlaceInv, Executing
  <1>3. \A q \in Workers : claim[q] # NoClaim
          => /\ claim[q].job \in Jobs /\ claim[q].attempt \in Nat
             /\ claim[q].attempt <= jobs[claim[q].job].attempts
    BY ExecutingHasJob DEF PlaceInv, ClaimInv
  <1>4. /\ rowLock' = [rowLock EXCEPT ![j] = NoWorker]
        /\ rowLock[j] = p
    BY DEF ClaimCommit
  <1>5. ASSUME NEW q \in Workers, NEW k \in Jobs, rowLock'[k] = q PROVE pc'[q] = "claim"
    <2>1. k # j /\ rowLock[k] = q
      BY <1>4, <1>5, NoWorkerIsNone
    <2>2. q # p
      BY <2>1, <1>4 DEF ClaimInv
    <2>3. QED
      BY <2>1, <2>2 DEF ClaimInv
  <1>6. \A q \in Workers, i, k \in Jobs : rowLock'[i] = q /\ rowLock'[k] = q => i = k
    BY <1>4, NoWorkerIsNone DEF ClaimInv
  <1>7. ASSUME NEW q \in Workers, claim'[q] # NoClaim
        PROVE /\ claim'[q].attempt <= jobs'[claim'[q].job].attempts
              /\ jobs'[claim'[q].job].lockedBy = q
                   => claim'[q].attempt = jobs'[claim'[q].job].attempts
    <2>1. claim'[q] = claim[q] /\ claim[q] # NoClaim /\ q # p
      BY <1>2, <1>7
    <2>2. CASE claim[q].job = j
      BY <1>1, <1>3, <2>1, <2>2
    <2>3. CASE claim[q].job # j
      <3>1. jobs'[claim[q].job] = jobs[claim[q].job]
        BY <1>1, <1>3, <2>1, <2>3
      <3>2. QED
        BY <2>1, <3>1 DEF ClaimInv
    <2>4. QED
      BY <2>2, <2>3
  <1>8. QED
    BY <1>5, <1>6, <1>7 DEF ClaimInv

LEMMA ClaimStep ==
  TypeOK /\ PlaceInv /\ LockedWasClaimed /\ ClaimInv /\ [Next]_vars => ClaimInv'
  <1> SUFFICES ASSUME TypeOK, PlaceInv, LockedWasClaimed, ClaimInv, [Next]_vars
               PROVE ClaimInv'
    OBVIOUS
  <1>a. QueueTypeOK
    BY DEF TypeOK
  <1>b. ASSUME UNCHANGED jobs
        PROVE \A j \in Jobs : /\ jobs'[j].attempts = jobs[j].attempts
                              /\ jobs'[j].lockedBy \in {jobs[j].lockedBy, NoWorker}
    BY <1>b
  <1>c. ASSUME NEW p \in Workers, pc[p] # "claim", NEW place, Goto(p, place)
        PROVE \A q \in Workers : pc[q] = "claim" => pc'[q] = "claim"
    BY <1>c DEF Goto, TypeOK
  <1>1. ASSUME NEW p \in Workers,
               Run(p) \/ AcquireLease(p) \/ LeaseRefused(p) \/ AcquireLost(p) \/ Attach(p)
        PROVE ClaimInv'
    <2>1. \E place \in Places : pc[p] # "claim" /\ Goto(p, place)
      BY <1>1 DEF Run, AcquireLease, LeaseRefused, AcquireLost, Attach, Places
    <2>2. UNCHANGED <<claim, rowLock, jobs>>
      BY <1>1 DEF Run, AcquireLease, LeaseRefused, AcquireLost, Attach, queueVars
    <2>3. QED
      BY <1>b, <1>c, <2>1, <2>2, ClaimUndisturbed
  <1>2. ASSUME NEW p \in Workers, CycleEnds(p) \/ LeaveLoop(p) \/ Finish(p) \/ ReleaseLease(p)
        PROVE ClaimInv'
    <2>1. \E place \in Places : pc[p] # "claim" /\ Goto(p, place)
      BY <1>2 DEF CycleEnds, LeaveLoop, Finish, ReleaseLease, Places
    <2>2. UNCHANGED <<claim, rowLock, jobs>>
      BY <1>2 DEF CycleEnds, LeaveLoop, Finish, ReleaseLease, queueVars
    <2>3. QED
      BY <1>b, <1>c, <2>1, <2>2, ClaimUndisturbed
  <1>3. ASSUME NEW p \in Workers, Heartbeat(p) \/ Stop(p) \/ GoesStale(p)
        PROVE ClaimInv'
    <2>1. UNCHANGED <<claim, rowLock, jobs, pc>>
      BY <1>3 DEF Heartbeat, HeartbeatSends, HeartbeatAnswered, HeartbeatLost, Stop, GoesStale,
                  queueVars
    <2>2. QED
      BY <1>b, <2>1, ClaimUndisturbed
  <1>4. ASSUME NEW p \in Workers, Poll(p) PROVE ClaimInv'
    <2>1. PICK j \in Jobs : ClaimSelect(p, j)
      BY <1>4 DEF Poll
    <2>2. /\ rowLock' = [rowLock EXCEPT ![j] = p] /\ UNCHANGED <<jobs, claim>>
          /\ pc[p] = "loop" /\ pc' = [pc EXCEPT ![p] = "claim"]
      BY <1>4, <2>1 DEF Poll, ClaimSelect, Goto
    <2>3. \A k \in Jobs : rowLock[k] # p
      BY <2>2 DEF ClaimInv
    <2>4. QED
      BY <2>2, <2>3 DEF ClaimInv, TypeOK, QueueTypeOK
  <1>5. ASSUME NEW p \in Workers, ClaimCommits(p) PROVE ClaimInv'
    BY <1>5, CommitStep
  <1>6. ASSUME NEW p \in Workers, NEW j \in Jobs, ClaimRollback(p, j),
               claim' = claim \/ EndClaim(p),
               \A q \in Workers \ {p} : pc'[q] = pc[q]
        PROVE ClaimInv'
    <2>1. rowLock[j] = p /\ rowLock' = [rowLock EXCEPT ![j] = NoWorker] /\ UNCHANGED jobs
      BY <1>6 DEF ClaimRollback
    <2>2. \A q \in Workers, k \in Jobs : rowLock'[k] = q => q # p /\ rowLock[k] = q
      BY <2>1, NoWorkerIsNone DEF ClaimInv, TypeOK, QueueTypeOK
    <2>3. \A q \in Workers : claim'[q] = claim[q] \/ claim'[q] = NoClaim
      BY <1>6 DEF EndClaim, TypeOK
    <2>4. QED
      BY <1>6, <2>1, <2>2, <2>3 DEF ClaimInv
  <1>7. ASSUME NEW p \in Workers, ClaimFails(p) PROVE ClaimInv'
    <2>1. PICK j \in Jobs : ClaimRollback(p, j) \/ ClaimCommit(p, j)
      BY <1>7 DEF ClaimFails
    <2>2. claim' = claim /\ \A q \in Workers \ {p} : pc'[q] = pc[q]
      BY <1>7 DEF ClaimFails, Goto, TypeOK
    <2>3. pc[p] = "claim"
      BY <1>7 DEF ClaimFails
    <2>4. CASE ClaimRollback(p, j)
      BY <1>6, <2>2, <2>4
    <2>5. CASE ClaimCommit(p, j)
      BY <2>2, <2>3, <2>5, LostCommitStep
    <2>6. QED
      BY <2>1, <2>4, <2>5
  <1>8. ASSUME NEW p \in Workers, Crash(p) PROVE ClaimInv'
    <2>1. EndClaim(p) /\ \A q \in Workers \ {p} : pc'[q] = pc[q]
      BY <1>8 DEF Crash, Goto, TypeOK
    <2>2. CASE \E j \in Jobs : ClaimRollback(p, j)
      BY <1>6, <2>1, <2>2
    <2>3. CASE (\A j \in Jobs : rowLock[j] # p) /\ UNCHANGED queueVars
      <3>1. \A q \in Workers : claim'[q] = claim[q] \/ claim'[q] = NoClaim
        BY <2>1 DEF EndClaim, TypeOK
      <3>2. UNCHANGED <<jobs, rowLock>>
        BY <2>3 DEF queueVars
      <3>3. QED
        BY <2>1, <2>3, <3>1, <3>2 DEF ClaimInv
    <2>4. QED
      BY <1>8, <2>2, <2>3 DEF Crash
  <1>9. ASSUME NEW p \in Workers, CompleteAccepted(p) \/ CompleteThrows(p) \/ FailAnswered(p)
        PROVE ClaimInv'
    <2>1. claim[p].job \in Jobs
      BY <1>9, ExecutingHasJob DEF CompleteAccepted, CompleteThrows, FailAnswered, Executing
    <2>2. Complete(p, claim[p].job) \/ Fail(p, claim[p].job, TRUE) \/ UNCHANGED queueVars
      BY <1>9 DEF CompleteAccepted, CompleteThrows, FailAnswered
    <2>3. \A j \in Jobs : /\ jobs'[j].attempts = jobs[j].attempts
                          /\ jobs'[j].lockedBy \in {jobs[j].lockedBy, NoWorker}
      BY <1>a, <2>1, <2>2, AttemptsOnlyByClaim DEF queueVars
    <2>4. rowLock' = rowLock
      BY <2>2 DEF Complete, Fail, queueVars
    <2>5. \E place \in Places : pc[p] # "claim" /\ Goto(p, place)
      BY <1>9 DEF CompleteAccepted, CompleteThrows, FailAnswered, Places
    <2>6. claim' = claim \/ EndClaim(p)
      BY <1>9 DEF CompleteAccepted, CompleteThrows, FailAnswered
    <2>7. \A q \in Workers : pc[q] = "claim" => pc'[q] = "claim"
      BY <1>c, <2>5
    <2>8. QED
      BY <2>3, <2>4, <2>6, <2>7, ClaimUndisturbed, ClaimForgotten
  <1>10. ASSUME UNCHANGED <<claim, pc, rowLock>>,
                \/ \E j \in Jobs : LockLapses(j) \/ BecomesAvailable(j)
                \/ RecoverExpired
                \/ \E j \in Jobs, m \in AttemptLimits, now \in BOOLEAN : Enqueue(j, m, now)
                \/ UNCHANGED jobs
         PROVE ClaimInv'
    <2>1. \A k \in Jobs : /\ jobs'[k].attempts = jobs[k].attempts
                          /\ jobs'[k].lockedBy \in {jobs[k].lockedBy, NoWorker}
      BY <1>10, <1>a, AttemptsOnlyByClaim, EnqueueKeepsAttempts
    <2>2. QED
      BY <1>10, <2>1, ClaimUndisturbed
  <1>11. ASSUME NEW j \in Jobs, Queued(j) \/ BackoffEnds(j) \/ JobLockLapses(j)
         PROVE ClaimInv'
    <2>1. /\ UNCHANGED <<claim, pc, rowLock>>
          /\ \/ LockLapses(j) \/ BecomesAvailable(j)
             \/ \E m \in AttemptLimits, now \in BOOLEAN : Enqueue(j, m, now)
      BY <1>11 DEF Queued, BackoffEnds, JobLockLapses, nodeVars,
                   LockLapses, BecomesAvailable, Enqueue
    <2>2. QED
      BY <1>10, <2>1
  <1>12. CASE LeaseExpires
    BY <1>10, <1>12 DEF LeaseExpires, nodeVars, queueVars
  <1>13. CASE Recover
    BY <1>10, <1>13 DEF Recover, nodeVars, RecoverExpired
  <1>14. CASE UNCHANGED vars
    BY <1>10, <1>14 DEF vars
  <1>15. QED
    BY <1>1, <1>2, <1>3, <1>4, <1>5, <1>7, <1>8, <1>9, <1>11, <1>12, <1>13, <1>14
       DEF Next, RunStep

LEMMA ClaimInit == Init => ClaimInv
  BY NoWorkerIsNone DEF Init, QueueInit, ClaimInv

\* Everything the fleet's safety rests on.
FleetInv == TypeOK /\ PlaceInv /\ LockedWasClaimed /\ ClaimInv

LEMMA FleetInvariant == Spec => []FleetInv
  <1>1. Spec => [](TypeOK /\ PlaceInv)
    BY FleetTypeInit, PlaceInit, FleetTypeStep, PlaceStep, PTL DEF Spec
  <1>2. Spec => []LockedWasClaimed
    BY FleetUsesQueue, ExecutionsAreCounted, PTL
  <1>3. Spec => []ClaimInv
    BY <1>1, <1>2, ClaimInit, ClaimStep, PTL DEF Spec
  <1>4. QED
    BY <1>1, <1>2, <1>3, PTL DEF FleetInv

\* A claim the table still shows as the node's own is the job's current attempt.
THEOREM ClaimsAreCurrent == Spec => []ClaimIsCurrent
  <1>1. FleetInv => ClaimIsCurrent
    BY DEF FleetInv, ClaimInv, ClaimIsCurrent
  <1>2. QED
    BY <1>1, FleetInvariant, PTL

\* No two nodes ever execute the same attempt of a job.
THEOREM AttemptsNameExecutions == Spec => []AttemptNamesExecution
  <1>1. FleetInv => AttemptNamesExecution
    BY DEF FleetInv, ClaimInv, AttemptNamesExecution
  <1>2. QED
    BY <1>1, FleetInvariant, PTL

-----------------------------------------------------------------------------
(* Action properties.                                                      *)

\* Only a complete or a fail call makes a row terminal.
LEMMA SettlingStatement ==
  ASSUME QueueTypeOK, NEW k \in Jobs, jobs[k].status \notin Terminal,
         \/ \E w \in Workers, j \in Jobs : ClaimSelect(w, j) \/ ClaimCommit(w, j) \/ ClaimRollback(w, j)
         \/ RecoverExpired
         \/ \E j \in Jobs : LockLapses(j) \/ BecomesAvailable(j)
         \/ \E j \in Jobs, m \in AttemptLimits, now \in BOOLEAN : Enqueue(j, m, now)
         \/ UNCHANGED jobs
  PROVE jobs'[k].status \notin Terminal
  <1> USE DEF QueueTypeOK, JobRow, Terminal
  <1>1. ASSUME NEW w \in Workers, NEW j \in Jobs,
               ClaimSelect(w, j) \/ ClaimCommit(w, j) \/ ClaimRollback(w, j)
        PROVE jobs'[k].status \notin Terminal
    BY <1>1 DEF ClaimSelect, ClaimCommit, ClaimRollback
  <1>2. ASSUME RecoverExpired PROVE jobs'[k].status \notin Terminal
    BY <1>2 DEF RecoverExpired
  <1>3. ASSUME NEW j \in Jobs, LockLapses(j) \/ BecomesAvailable(j)
        PROVE jobs'[k].status \notin Terminal
    BY <1>3 DEF LockLapses, BecomesAvailable
  <1>4. ASSUME NEW j \in Jobs, NEW m \in AttemptLimits, NEW now \in BOOLEAN, Enqueue(j, m, now)
        PROVE jobs'[k].status \notin Terminal
    BY <1>4 DEF Enqueue, AbsentRow
  <1>5. QED
    BY <1>1, <1>2, <1>3, <1>4

\* A step that settles a job is the answer of the node whose current claim it is.
LEMMA SettlingNode ==
  ASSUME FleetInv, Next, NEW k \in Jobs,
         jobs[k].status \notin Terminal, jobs'[k].status \in Terminal
  PROVE \E p \in Workers : /\ pc[p] \in {"complete", "fail"}
                           /\ claim[p] = [job |-> k, attempt |-> jobs[k].attempts]
  <1> USE DEF FleetInv, TypeOK
  <1>1. ASSUME NEW p \in Workers, CompleteAccepted(p) \/ CompleteThrows(p) \/ FailAnswered(p)
        PROVE /\ pc[p] \in {"complete", "fail"}
              /\ claim[p] = [job |-> k, attempt |-> jobs[k].attempts]
    <2>1. pc[p] \in {"complete", "fail"} /\ claim[p] # NoClaim
      BY <1>1 DEF CompleteAccepted, CompleteThrows, FailAnswered, PlaceInv, Executing
    <2>2. claim[p] \in [job: Jobs, attempt: Nat]
      BY <2>1
    <2>3. Complete(p, claim[p].job) \/ Fail(p, claim[p].job, TRUE) \/ UNCHANGED queueVars
      BY <1>1 DEF CompleteAccepted, CompleteThrows, FailAnswered
    <2>4. ~UNCHANGED jobs
      OBVIOUS
    <2>5. Owned(p, claim[p].job) /\ \A j \in Jobs \ {claim[p].job} : jobs'[j] = jobs[j]
      BY <2>3, <2>4 DEF Complete, Fail, queueVars, QueueTypeOK
    <2>6. claim[p].job = k
      BY <2>5
    <2>7. claim[p].attempt = jobs[k].attempts
      BY <2>1, <2>5, <2>6 DEF Owned, ClaimInv
    <2>8. QED
      BY <2>1, <2>2, <2>6, <2>7
  <1>2. ASSUME NEW p \in Workers, NodeStep(p),
               ~(CompleteAccepted(p) \/ CompleteThrows(p) \/ FailAnswered(p))
        PROVE FALSE
    <2>1. \/ \E j \in Jobs : ClaimSelect(p, j) \/ ClaimCommit(p, j) \/ ClaimRollback(p, j)
          \/ UNCHANGED jobs
      BY <1>2 DEF NodeStep, RunStep, Heartbeat, Run, AcquireLease, LeaseRefused, AcquireLost,
                  Attach, Poll, ClaimCommits, ClaimFails, CycleEnds, LeaveLoop, Finish,
                  ReleaseLease, HeartbeatSends, HeartbeatAnswered, HeartbeatLost, Stop, Crash,
                  GoesStale, queueVars
    <2>2. QED
      BY <2>1, SettlingStatement
  <1>3. ASSUME NEW j \in Jobs, Queued(j) \/ BackoffEnds(j) \/ JobLockLapses(j)
        PROVE FALSE
    BY <1>3, SettlingStatement DEF Queued, BackoffEnds, JobLockLapses
  <1>4. CASE LeaseExpires \/ Recover
    BY <1>4, SettlingStatement DEF LeaseExpires, Recover, queueVars
  <1>5. QED
    BY <1>1, <1>2, <1>3, <1>4 DEF Next, NodeStep

\* A job is settled by the node executing its current attempt, and by no other.
THEOREM CurrentAttemptSettles == Spec => SettledByCurrentAttempt
  <1>1. FleetInv /\ [Next]_vars => [SettlesCurrentOnly]_vars
    BY SettlingNode DEF SettlesCurrentOnly
  <1>2. QED
    BY <1>1, FleetInvariant, PTL DEF Spec, SettledByCurrentAttempt

\* One step can end a live lease only by its holder's own doing or by expiry.
LEMMA EvictionStep ==
  ASSUME TypeOK, PlaceInv, Next, NEW p \in Workers, HoldsLiveLease(p), ~HoldsLiveLease(p)'
  PROVE token'[p] # token[p] \/ (lease'.token = lease.token /\ ~lease'.live)
  <1> USE DEF TypeOK, HoldsLiveLease, L!Renewable, L!Holds
  <1>1. /\ lease.owner = p /\ lease.live
        /\ token[p] # NoToken /\ pc[p] \notin {"idle", "acquire"}
    BY DEF PlaceInv
  <1>2. ASSUME NEW q \in Workers, NEW t \in Tokens, L!Grant(q, t) PROVE q = p
    BY <1>1, <1>2 DEF L!Grant, L!Acquirable
  <1>3. ASSUME NEW q \in Workers, AcquireLease(q) PROVE FALSE
    BY <1>1, <1>2, <1>3 DEF AcquireLease
  <1>4. ASSUME NEW q \in Workers, AcquireLost(q) PROVE FALSE
    <2>1. CASE UNCHANGED lease
      BY <1>4, <2>1 DEF AcquireLost
    <2>2. CASE \E t \in Tokens : FreshToken(t) /\ L!Grant(q, t)
      BY <1>1, <1>2, <1>4, <2>2 DEF AcquireLost
    <2>3. QED
      BY <1>4, <2>1, <2>2 DEF AcquireLost
  <1>5. ASSUME NEW q \in Workers, ReleaseLease(q) PROVE token'[p] # token[p]
    <2>1. CASE q = p
      BY <1>1, <1>5, <2>1 DEF ReleaseLease
    <2>2. CASE q # p
      BY <1>1, <1>5, <2>2 DEF ReleaseLease, L!Release
    <2>3. QED
      BY <2>1, <2>2
  <1>6. ASSUME NEW q \in Workers, Crash(q) PROVE token'[p] # token[p]
    BY <1>1, <1>6 DEF Crash
  <1>7. CASE LeaseExpires
    <2>1. lease' = [lease EXCEPT !.live = FALSE]
      BY <1>7 DEF LeaseExpires, L!Expire
    <2>2. lease \in [owner: Workers, token: Tokens, live: BOOLEAN]
      BY <1>1 DEF L!LeaseTypeOK, L!NoLease
    <2>3. QED
      BY <2>1, <2>2
  <1>8. CASE UNCHANGED <<lease, token>>
    BY <1>8
  <1>9. QED
    BY <1>3, <1>4, <1>5, <1>6, <1>7, <1>8
       DEF Next, RunStep, Heartbeat, Run, LeaseRefused, Attach, Poll, ClaimCommits, ClaimFails,
           CycleEnds, CompleteAccepted, CompleteThrows, FailAnswered, LeaveLoop, Finish,
           HeartbeatSends, HeartbeatAnswered, HeartbeatLost, Stop, GoesStale,
           Queued, BackoffEnds, JobLockLapses, Recover, nodeVars

\* No other node ever evicts a live lease: it expires, or its holder gives it up.
THEOREM LeasesAreNotEvicted == Spec => LeaseEvictedOnlyByExpiry
  <1>1. FleetInv /\ [Next]_vars
          => [\A p \in Workers : HoldsLiveLease(p) /\ ~HoldsLiveLease(p)'
                => token'[p] # token[p] \/ (lease'.token = lease.token /\ ~lease'.live)]_vars
    BY EvictionStep DEF FleetInv
  <1>2. QED
    BY <1>1, FleetInvariant, PTL DEF Spec, LeaseEvictedOnlyByExpiry

=============================================================================
