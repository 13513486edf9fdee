SPECIFICATION FairSpec
CONSTANTS
    Threads = {"t1", "t2"}
    NoThread = "none"
    Apps = {"minter", "other"}
    MaxHandles = 2
    MaxOps = 3
    MaxSwitches = 2
    MaxStrange = 1
    MaxTries = 2
    Denied = TRUE
    Disciplined = TRUE
CHECK_DEADLOCK FALSE
INVARIANTS
    TypeOK
    HandleOwned
    ValidMeansHandle
    IoOnOpenHandle
PROPERTIES
    AppReopened
    EveryOpReturns
