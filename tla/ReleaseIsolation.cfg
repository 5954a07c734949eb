\* The documented isolation of candidates against two commands at once.
SPECIFICATION Spec
CONSTANTS
  Execs = {e1, e2}
  Versions = {e1, e2}
  MaxCycles = 2
  MaxRestarts = 1
  Scores = {1, 2}
  Settings <- Overlapping
  MaxFaults = 2
INVARIANT CandidatesIsolated
CHECK_DEADLOCK FALSE
