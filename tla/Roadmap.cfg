\* Two tasks of the roadmap and one of the model's, which it ranks above them; the
\* worker's cycles and a mission started by an operator; one failed write, stop or restart.
SPECIFICATION FairSpec
CONSTANTS
    Planned = 2
    Generated = 1
    Urgent = {3}
    Limit = 2
    MaxAttempts = 2
    Runs = {"worker", "mission"}
    OneCycle = {"worker"}
    MaxFaults = 1
INVARIANTS
    DependenciesFirst
PROPERTIES
    RoadmapSettles
CHECK_DEADLOCK FALSE
