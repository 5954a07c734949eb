\* The documented enforcement of the promotion policy, one command at a time.
SPECIFICATION Spec
CONSTANTS
  Execs = {e1}
  Versions = {e1}
  MaxCycles = 2
  MaxRestarts = 1
  Scores = {1, 2}
  Settings <- DefaultAlone
  MaxFaults = 2
INVARIANT DeniedIsNotPromoted
CHECK_DEADLOCK FALSE
