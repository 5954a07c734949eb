\* The documented refusal of a second fresh worker against two starts at once.
SPECIFICATION Spec
CONSTANTS
  Procs = {p1, p2}
  MaxCycles = 1
  MaxJobs = 2
  MaxBeats = 0
  MaxCrashes = 0
INVARIANT SecondWorkerRefused
CHECK_DEADLOCK FALSE
