SPECIFICATION FairSpec
CONSTANTS
    MaxReports = 5
    QueueLimit = 1
    FirstSubmitFails = TRUE
    LateCancel = TRUE
    EventErrors = TRUE
CHECK_DEADLOCK FALSE
INVARIANTS
    TypeOK
    SafeFree
PROPERTIES
    CloseEnds
    ReportsSpec
