\* The lifecycle test's final state against a heartbeat in flight.
SPECIFICATION Spec
CONSTANTS
  Procs = {p1}
  MaxCycles = 1
  MaxJobs = 1
  MaxBeats = 1
  MaxCrashes = 0
INVARIANT FinishedRunIsRecorded
CHECK_DEADLOCK FALSE
