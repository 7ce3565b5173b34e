SPECIFICATION FairSpec
CONSTANTS
    Workspaces = {"w1"}
    Branches <- MCBranches
    UserBranches <- MCUserBranches
    HeadBranch = "main"
    ReuseBranches = FALSE
    Mutations = {"unlink", "write"}
    FaultPoints = {"record", "storage", "add", "redirect", "index", "pointer", "active", "settle", "removed", "reclaim", "sync", "recover", "undo_git", "undo_branch", "undo_storage", "undo_state", "undo_row"}
    MaxOps = 4
    MaxFaults = 2
    MaxCrashes = 2
INVARIANTS
    TypeOK
    ServedIsComplete
    AcknowledgedIsServed
    KeptBranchesSurvive
    NothingLeaks
    FreshWorkspaceShowsBase
PROPERTIES
    EventuallyServed
    RemovedIsReclaimed
    OpeningCompletesRemovals
CHECK_DEADLOCK FALSE
