CONSTANTS
    i1 = i1  w1 = w1  r1 = r1
    NoOne = NoOne
    NoStep = NoStep
    Instance = {i1}
    Def <- LongBranch
    Node <- LongBranchSteps
    First = {"split"}
    Step <- ServiceSteps
    RetryCount <- Retries
    Worker = {w1}
    Replica = {}
    LeaseLength = {}
    MaxFanOut = 2
    MaxExecs = 4
    MaxJobs = 4
    MaxFaults = 0
    MaxDispatch = 8
    MaxRows = 6
SPECIFICATION EngineSpec
CHECK_DEADLOCK FALSE
INVARIANTS
    JoinWaitsForAllBranches
