SPECIFICATION FairSpec
CONSTANTS
    ActionBlocks = 1
    RxBlocks = 2
    AirBlocks = 2
    MaxRequests = 2
    RequestKinds <- Kinds
    MaxReports = 1
    ReportTypes <- OneReport
    MaxBeats = 1
    Fifo = TRUE
INVARIANTS ActionsKept OnceInOrder ExecutedConfirmed
PROPERTIES DeliveredInOrder EveryActionExecuted EveryMessageDelivered
CHECK_DEADLOCK FALSE
