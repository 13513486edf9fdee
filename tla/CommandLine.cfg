SPECIFICATION CSpec
CONSTANTS
  Cmds <- MCCmds
  Payload <- MCPayload
  RequestSize <- MCRequestSize
  OtherPrograms <- MCOtherPrograms
  AppNames <- Lists
  MaxProcesses = 2
  MaxKills = 1
  MaxCalls = 4
  MaxPending = 2
  MaxJunk = 1
  JunkKinds = {"channel", "stray", "short"}
  MaxUnplugs = 1
  LossyWrites = FALSE
  ErrorString = FALSE
INVARIANTS
  CTypeOK
  PrintsTheAnswer
  ListsTheApps
  AnswerIsUsed
  LeavesNothing
CHECK_DEADLOCK FALSE
