\* The documented retry bound against recoverExpired().
SPECIFICATION QueueSpec
CONSTANTS
  Jobs = {j1}
  Workers = {w1}
  NoWorker = none
  AttemptLimits = {1, 2}
  MaxRecoveries = 2
INVARIANT RetriesBounded
CHECK_DEADLOCK FALSE
