CONSTANTS
    w1 = w1  w2 = w2  NoOne = NoOne
    Worker = {w1, w2}
    Log <- Records
    MaxTenures = 6
    MaxFaults = 2
SPECIFICATION FairSpec
CHECK_DEADLOCK FALSE
INVARIANTS
    NothingIsSkipped
    CommitsAreFenced
PROPERTIES
    CommitsNeverGoBack
    PartitionAdvances
