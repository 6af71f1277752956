CONSTANTS
    i1 = i1  w1 = w1  r1 = r1
    NoOne = NoOne
    NoStep = NoStep
    Instance = {i1}
    Def <- OrderAndEscalation
    Node <- OrderAndEscalationSteps
    First = {"split", "collect"}
    Step <- ServiceSteps
    RetryCount <- Retries
    Worker = {w1}
    Replica = {r1}
    LeaseLength = {1}
    MaxFanOut = 2
    MaxExecs = 2
    MaxJobs = 3
    MaxFaults = 0
    MaxDispatch = 8
    MaxRows = 8
SPECIFICATION EngineSpec
CHECK_DEADLOCK FALSE
INVARIANTS
    JoinWaitsForAllBranches
    LiveInstanceHasWork
    RecordsAgree
PROPERTIES
    TimerIsNotLost
