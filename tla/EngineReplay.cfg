SPECIFICATION Spec
CONSTANTS
    Names <- MCNames
    Paths <- MCPaths
    Vals <- MCVals
    Base <- MCBase
    FoldCase <- MCFoldCase
    Requests <- SafeRequests
    FaultPoints = {"sync", "source", "syncsource", "finish"}
    PowerLosses = {}
    MaxOps = 2
    MaxFaults = 1
    MaxCrashes = 1
INVARIANT
    AcknowledgedAlwaysSurvives
CHECK_DEADLOCK FALSE
