SPECIFICATION OneSpec
CONSTANTS
    Workers = {w1, w2}
    Features = 1
    MaxAttempts = 1
    MaxCycles = 2
    Versions = {w1, w2}
    NoVersion = none
    MaxCrashes = 1
    Builds = {w1, w2}
    MaxRepairCycles = 1
    MaxDeliveries = 1
    MaxRounds = 2
    MaxDeaths = 1
    MaxModifications = 1
    MaxFaults = 2
CONSTRAINT OneAtATime
SYMMETRY WorkerSymmetry
INVARIANTS
    AllTypeOK
    WorkIsAccountedFor
    TakenBackLeavesNothing
    AnsweredAsVerified
    DeployedRecordHolds
PROPERTIES
    PromotedIsFinished
CHECK_DEADLOCK FALSE
