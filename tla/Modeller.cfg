SPECIFICATION ModellerSpec
CONSTANTS
    HISTORY_LIMIT = 2
    DRAFTS_LIMIT = 2
    MaxEdits = 3
    MaxDrafts = 3
    MaxWork = 4
    MaxLoads = 1
    Trees <- TreesDef
    Styles <- StylesDef
    Texts <- TextsDef
    Definitions <- DefinitionsDef
    NewId = "fresh"
INVARIANTS
    ParserInvertsPrinter
    
    CycleWarningIsExact
    RenameKeepsGraph
    DeleteLeavesNoReference
PROPERTIES
    ImplementsEditHistory
    DraftsSurvive
    NoUploadOverErrors
    UploadSettles
CHECK_DEADLOCK FALSE
