SPECIFICATION Spec
CONSTANTS
    Cmds = {"version", "sign"}
    Payload <- MCPayload
    RequestSize <- MCRequestSize
    MaxCalls = 2
    MaxPending = 2
    MaxJunk = 2
    JunkKinds = {"channel", "stray", "short"}
    MaxUnplugs = 1
    LossyWrites = TRUE
    ErrorString = TRUE
CHECK_DEADLOCK FALSE
INVARIANTS
    TypeOK
    ExchangeInv
    SuccessIsComplete
    IoOnHandle
