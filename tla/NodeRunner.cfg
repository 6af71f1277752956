CONSTANTS
    j1 = j1  j2 = j2
    Job = {j1, j2}
    Concurrency = 1
    Unacceptable = {j2}
    Lease = 2
    Config <- Configs
    MaxTime = 4
    MaxRuns = 2
SPECIFICATION FairSpec
CHECK_DEADLOCK FALSE
INVARIANTS
    BelievedLeaseIsHeld
PROPERTIES
    NoOutcomeDropped
    ExpiredRowIsNotReported
    RunEndsAfterAbort
