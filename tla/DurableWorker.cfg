\* One process on its state file, restarted after every end or crash.
SPECIFICATION FairSpec
CONSTANTS
  Procs = {p1}
  MaxCycles = 2
  MaxJobs = 2
  MaxBeats = 3
  MaxCrashes = 2
INVARIANTS
  NoCycleSkipped
PROPERTIES
  JobReplacedOnlyWhenFinished
  JobFinishes
CHECK_DEADLOCK FALSE
