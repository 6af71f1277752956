SPECIFICATION AppSpec
CONSTANTS
    Millisecond = 2
    MaxVersion = 5
    MaxPageSize = 9
    MaxTimers = 1
    MaxJsonDocumentBytes = 4
    Runs <- Histories3
    InstanceRuns = {1, 2}
    ListRuns = {3}
    InstanceId = 1
    HistoryLimit = 1
    MaxMoves = 2
    MaxFaults = 1
    InstanceInputs <- InstanceFilters
    IncidentInputs <- IncidentFilters
    Ages = {2}
    Words = {1}
    ListLimit = 1
    MaxPushes = 3
    Tabs = {1, 2}
    Names <- SomeNames
    Searches <- SomeSearches
    Trim <- Identity
    Lower <- LowerCase
    MAX_FILTERS = 2
    MAX_STORAGE_BYTES = 5
    MaxSaves = 2
    Databases <- SomeDatabases
    Documents <- SomeDocuments
    MAX_BYTES = 5
    MAX_NODES = 6
    MAX_DEPTH = 2
    MAX_CHANGES = 1
INVARIANTS
    FinalHistoryIsRefreshed
    InspectorFollowsHistory
    CursorsFitFilters
    ShownRowsAnswerTheLocation
    SavedFiltersStayUsable
    PagesKeepTies
    CountsMatchDrillDown
    IncidentsMarkTheOpenFailure
    ComparisonIsExact
PROPERTIES
    SavedFiltersSurvive
    ShownStatusCatchesUp
CHECK_DEADLOCK FALSE
