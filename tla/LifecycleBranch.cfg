SPECIFICATION Spec
CONSTANTS
    Workspaces <- MCWorkspaces
    Branches <- MCBranches
    UserBranches <- MCUserBranches
    HeadBranch = "main"
    ReuseBranches = TRUE
    Mutations = {}
    FaultPoints = {}
    MaxOps = 3
    MaxFaults = 0
    MaxCrashes = 1
INVARIANT
    KeptBranchesSurvive
CHECK_DEADLOCK FALSE
