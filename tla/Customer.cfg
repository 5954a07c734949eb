SPECIFICATION OneSpec
CONSTANTS
    a1 = a1
    a2 = a2
    a3 = a3
    b1 = b1
    b2 = b2
    t1 = t1
    Missions = {a1, a2}
    Projects = {p1}
    Tenants = {t1}
    TenantOf <- OwnerOf
    Quota = 1
    NoProject = NoProject
    NoBuild = NoBuild
    Sweeps = {b1, b2}
    RecoveryOutcomes = {"accepted", "refused", "throws"}
    MaxIncidents = 2
    MaxRepairs = 3
    Creations = {a1, a2}
    Changes = {b1, b2}
    None = none
    MaxFaults = 1
    MaxCrashes = 1
    Messages = {a1, a2, a3}
    Topics = {b1, b2}
    NoTopic = none
    MaxRecords = 1
    MaxRequirements = 2
    Runs = {a1, a2}
    Ids = {b1, b2}
    NoId = none
    Steps <- TwoSteps
    MaxMissions = 1
    Cycles = {a1, a2}
    Incidents = {b1, b2}
    NoIncident = none
    Threshold = 2
    MaxFailures = 2
    MaxRestarts = 1
CONSTRAINT Bounds
SYMMETRY PairSymmetry
INVARIANTS
    AllTypeOK
    QuotaOnlyOvertaken
    LiveIsAccountedFor
    SuppressedWhileOpen
    AcknowledgedIsKept
    Remembered
    MissionsAsPlanned
    OutageHasOneIncident
PROPERTIES
    DeployedWasTested
CHECK_DEADLOCK FALSE
