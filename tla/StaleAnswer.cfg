SPECIFICATION Spec
CONSTANTS
    Cmds = {"version", "address"}
    Payload <- MCPayload
    RequestSize <- MCRequestSize
    MaxCalls = 2
    MaxPending = 2
    MaxJunk = 1
    JunkKinds = {"stray"}
    MaxUnplugs = 0
    LossyWrites = FALSE
    ErrorString = TRUE
CHECK_DEADLOCK FALSE
INVARIANT AnswersThisCall
