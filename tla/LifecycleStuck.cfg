SPECIFICATION FairSpec
CONSTANTS
    Workspaces <- MCWorkspaces
    Branches <- MCBranches
    UserBranches <- MCUserBranches
    HeadBranch = "main"
    ReuseBranches = FALSE
    Mutations = {"write"}
    FaultPoints = {}
    MaxOps = 3
    MaxFaults = 0
    MaxCrashes = 1
PROPERTY
    AlwaysServedAgain
CHECK_DEADLOCK FALSE
