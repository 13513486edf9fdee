SPECIFICATION FairSpec
CONSTANTS
    Cmds <- OneOrTwoFrames
    Payload <- MCPayload
    RequestSize <- MCRequestSize
    MaxCalls = 3
    MaxPending = 2
    MaxJunk = 0
    JunkKinds = {"tag"}
    MaxUnplugs = 0
    LossyWrites = FALSE
    ErrorString = TRUE
CHECK_DEADLOCK FALSE
INVARIANTS
    WholeDataRead
    ReturnsValidResult
PROPERTY EveryCallReturns
