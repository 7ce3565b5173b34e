SPECIFICATION Spec
CONSTANTS
    Paths = {"x", "y"}
    BasePaths = {"x"}
    Hidden = "h"
    Verbs = {"fs.rm", "fs.mv", "fs.write", "fs.truncate", "ws.create", "ws.remove"}
    Modes = {"w", "trunc"}
    MaxInodes = 4
    MaxHandles = 2
    MaxOpens = 1
    MaxEngines = 2
    MaxRequests = 1
    MaxFaults = 1
INVARIANTS
    TypeOK
    EntriesCurrent
    AttrsCurrent
    NoLostWrite
    ReadsOwnLastWrite
    HandlesOwned
CHECK_DEADLOCK FALSE
