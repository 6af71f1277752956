CONSTANTS
    r1 = r1  r2 = r2  p1 = p1  p2 = p2  k1 = k1
    NoOne = NoOne  Nobody = Nobody  NoKey = NoKey
    Replica = {r1, r2}
    BatchSize = 2
    Job = {1, 2, 3}
    MaxFaults = 3
    Parent = {p1, p2}
    Process = {r1, r2}
    Key = {k1}
    KeyOf <- SharedKey
    MaxInstances = 2
    MaxErrors = 1
SPECIFICATION BackgroundSpec
CHECK_DEADLOCK FALSE
INVARIANTS
    RelayIsSafe
    BusinessKeyUnique
PROPERTIES
    EveryJobIsSettled
    ImplementsChainedStart
    RequestIsDelivered
