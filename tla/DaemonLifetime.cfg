SPECIFICATION FairSpec
CONSTANTS
    DefaultMount = TRUE
    MaxDaemons = 3
    Modes = {TRUE}
    Slow = {}
    MaxHolds = 1
    MaxIncidents = 1
    MaxRemoves = 1
INVARIANTS
    TypeOK
    OneServer
    RefusedStopKeepsServing
    StoppedIsGone
PROPERTY
    ToldToStopEnds
CHECK_DEADLOCK FALSE
