SPECIFICATION FairSpec
CONSTANTS
    Cmds = {"version", "sign"}
    Payload <- MCPayload
    RequestSize <- MCRequestSize
    MaxCalls = 3
    MaxPending = 2
    MaxJunk = 0
    JunkKinds = {"tag"}
    MaxUnplugs = 1
    LossyWrites = FALSE
    ErrorString = FALSE
CHECK_DEADLOCK FALSE
PROPERTY RequestReplySpec
