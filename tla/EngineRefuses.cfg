SPECIFICATION FairSpec
CONSTANTS
    Names <- MCNames
    Paths <- MCPaths
    Vals <- MCVals
    Base <- MCBase
    FoldCase <- MCFoldCase
    Requests <- ChmodRequests
    FaultPoints = {}
    PowerLosses = {}
    MaxOps = 2
    MaxFaults = 0
    MaxCrashes = 1
PROPERTY
    RecoveryCompletes
CHECK_DEADLOCK FALSE
