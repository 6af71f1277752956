CONSTANTS
    i1 = i1  s1 = s1  w1 = w1  w2 = w2  r1 = r1  r2 = r2
    NoOne = NoOne
    Instance <- OneInstance
    Step <- OneStep
    RetryCount <- Retries
    Worker = {w1, w2}
    Replica = {r1, r2}
    LeaseLength = {1, 2}
    MaxFanOut = 1
    MaxExecs = 2
    MaxJobs = 3
    MaxFaults = 1
SPECIFICATION FairSpec
CHECK_DEADLOCK FALSE
INVARIANTS
    DeliveryIsSafe
PROPERTIES
    DeliveryStepsAreSafe
    ExpiredLeaseIsReclaimed
