SPECIFICATION Spec
CONSTANTS
    Names <- MCNames
    Paths <- MCPaths
    Vals <- MCVals
    Base <- MCBase
    FoldCase <- MCFoldCase
    Requests <- MCRequests
    FaultPoints = {"parents", "syncparents", "journal", "prepare", "flush", "phase", "publish", "sync", "source", "syncsource", "finish", "discard", "abandon", "recover"}
    PowerLosses = {1}
    MaxOps = 3
    MaxFaults = 1
    MaxCrashes = 1
INVARIANTS
    TypeOK
    TombstonesAgree
    CachedListingsCurrent
    NoStagedLeftovers
    TombstonesNameBase
    AcknowledgedSurvives
    RecoveredOldOrNew
    ErrorKeepsOldState
    LateErrorCompletes
    ViewIsTree
PROPERTY
    NoResurrection
CHECK_DEADLOCK FALSE
