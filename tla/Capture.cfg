SPECIFICATION MCSpec
CONSTANTS
    Universe <- MCUniverse
    GitDir <- MCGit
    TribiosDir <- MCTribios
    PolicyFile <- MCPolicyFile
    Compile <- compile
    Walk <- walk_project
    Trees <- MCTrees
    Sources <- MCSources
    MaxRuns = 3
    MaxFaults = 2
    MaxCrashes = 1
    WordMax = 65535
    MaxGrowth = 3
    MaxBytes = 4
INVARIANTS
    TypeOK
    MatchesReference
    Utf8Reference
    RoundTrips
    ExplainAgrees
    ConfiguredBaseIsCapture
PROPERTIES
    BadPolicyKeepsBase
CHECK_DEADLOCK FALSE
