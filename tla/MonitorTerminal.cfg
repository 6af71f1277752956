SPECIFICATION AppSpec
CONSTANTS
    Millisecond = 2
    MaxVersion = 5
    MaxPageSize = 9
    MaxTimers = 1
    MaxJsonDocumentBytes = 4
    Runs <- Histories3
    InstanceRuns = {1}
    ListRuns = {}
    InstanceId = 1
    HistoryLimit = 1
    MaxMoves = 0
    MaxFaults = 0
    InstanceInputs <- InstanceFilters
    IncidentInputs <- IncidentFilters
    Ages = {2}
    Words = {1}
    ListLimit = 1
    MaxPushes = 3
    Tabs = {}
    Names <- SomeNames
    Searches <- SomeSearches
    Trim <- Identity
    Lower <- LowerCase
    MAX_FILTERS = 2
    MAX_STORAGE_BYTES = 5
    MaxSaves = 3
    Databases = {}
    Documents = {}
    MAX_BYTES = 5
    MAX_NODES = 8
    MAX_DEPTH = 2
    MAX_CHANGES = 1
INVARIANT TerminalHistoryIsRefreshed
CHECK_DEADLOCK FALSE
