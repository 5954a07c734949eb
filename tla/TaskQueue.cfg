\* The table: two callers, two jobs; limits 1 and 2 reach the dead-letter state both ways.
SPECIFICATION OneSpec
CONSTANTS
    Jobs = {j1, j2}
    Workers = {w1, w2}
    NoWorker = none
    AttemptLimits = {1, 2}
    MaxRecoveries = 2
    Requests = {w1, w2}
    MaxBackground = 1
    MaxRecords = 1
    MaxProgress = 1
    MaxFaults = 1
    Clients = {w1, w2}
    Consumers = {worker}
    NoJob = none
    MaxAttempts = 2
    MaxRestarts = 1
    Executions = {k1, k2, k3}
    Evaluations = {e1}
    NoResult = none
    MaxExpiries = 1
CONSTRAINT Bounded
SYMMETRY WorkerSymmetry
INVARIANTS
    AllTypeOK
    LockDiscipline
    AcceptedIsKept
    OneAnswerPerKey
    RunningIsControlled
    QuietStoreAgrees
PROPERTIES
    LockNeverStolen
    ImplementsLifecycle
    AnswersStand
CHECK_DEADLOCK FALSE
