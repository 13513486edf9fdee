SPECIFICATION FairSpec
CONSTANTS
    Cmds = {"version"}
    Payload <- MCPayload
    RequestSize <- MCRequestSize
    MaxCalls = 1
    MaxPending = 2
    MaxJunk = 0
    JunkKinds = {"tag"}
    MaxUnplugs = 1
    LossyWrites = FALSE
    ErrorString = TRUE
CHECK_DEADLOCK FALSE
PROPERTY EveryCallReturns
