SPECIFICATION FairSpec
CONSTANTS
    Names <- MCNames
    Paths <- MCPaths
    Vals <- MCVals
    Base <- MCBase
    FoldCase <- MCFoldCase
    Requests <- SafeRequests
    FaultPoints = {"phase", "recover"}
    PowerLosses = {1}
    MaxOps = 2
    MaxFaults = 1
    MaxCrashes = 2
PROPERTIES
    ImplementsView
    RecoveryCompletes
CHECK_DEADLOCK FALSE
