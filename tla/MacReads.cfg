SPECIFICATION FairSpec
CONSTANTS
    MaxReports = 5
    QueueLimit = 1
    BarrierWakes = FALSE
CHECK_DEADLOCK FALSE
INVARIANTS
    TypeOK
    ErrorMeansGone
PROPERTIES
    RunLoopValid
    CloseReturns
    ReportsSpec
