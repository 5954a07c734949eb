------------------------------ MODULE MCQueues ------------------------------
(***************************************************************************)
(* The instance of Queues that TLC checks.                                 *)
(***************************************************************************)
EXTENDS Queues, TLC

\* Where the background executions rest; the sets of callers have the names of
\* the workers of the queue
OneInit == AllInit /\ (part = "async" \/ backend = "json")

OneSpec == OneInit /\ [][AllNext]_allVars

-----------------------------------------------------------------------------

\* Bounds: a local queue whose memory was replaced is not followed further, and
\* its jobs are claimed twice in all; requests admitted beside each other report
\* no progress, of which the row keeps nothing
Bounded ==
    /\ ~replaced /\ FoldSeq(LAMBDA job, n : n + job.attempts, 0, localJobs) <= 2
    /\ rivals # {} => sent = 0

\* The two names are interchangeable
WorkerSymmetry == Permutations(Workers)

=============================================================================
