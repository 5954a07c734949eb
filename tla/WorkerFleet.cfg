\* Two nodes compete for one lease and one job; two faults of any kind.
SPECIFICATION FairSpec
CONSTANTS
  Workers = {n1, n2}
  NoWorker = none
  Jobs = {j1}
  NoJob = nojob
  AttemptLimits = {2}
  MaxRecoveries = 2
  Tokens = {1, 2, 3, 4, 5, 6}
  NoToken = notoken
  MaxFaults = 2
INVARIANTS
  ClaimIsCurrent
PROPERTIES
  SettledByCurrentAttempt
  JobsSettleOrStrand
  LostLeaseStops
