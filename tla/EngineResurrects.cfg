SPECIFICATION Spec
CONSTANTS
    Names <- MCNames
    Paths <- MCPaths
    Vals <- MCVals
    Base <- MCBase
    FoldCase <- MCFoldCase
    Requests <- ResurrectingRequests
    FaultPoints = {}
    PowerLosses = {}
    MaxOps = 3
    MaxFaults = 0
    MaxCrashes = 0
PROPERTY
    NoResurrection
CHECK_DEADLOCK FALSE
