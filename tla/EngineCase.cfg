SPECIFICATION Spec
CONSTANTS
    Names <- CaseNames
    Paths <- CasePaths
    Vals <- MCVals
    Base <- CaseBase
    FoldCase <- CaseFolding
    Requests <- CaseRequests
    FaultPoints = {}
    PowerLosses = {}
    MaxOps = 3
    MaxFaults = 0
    MaxCrashes = 0
INVARIANT
    TombstonesAgree
CHECK_DEADLOCK FALSE
