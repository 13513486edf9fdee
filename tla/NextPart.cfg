SPECIFICATION Spec
CONSTANTS
    Cmds = {"apps"}
    Payload <- MCPayload
    RequestSize <- MCRequestSize
    MaxCalls = 1
    MaxPending = 2
    MaxJunk = 0
    JunkKinds = {"tag"}
    MaxUnplugs = 0
    LossyWrites = FALSE
    ErrorString = TRUE
CHECK_DEADLOCK FALSE
INVARIANT NextPartToTail
