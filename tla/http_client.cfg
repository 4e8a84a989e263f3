SPECIFICATION FairSpec

CONSTANTS
    Stop = Stop
    NumRequests = 3
    NumWorkers = 2
    MaxConcurrency = 2
    Streaming = TRUE
    MaxErrors = 1
    Interruptible <- Covered

INVARIANTS
    TypeOK
    AnswersInProtocol
    ConcurrencyRespected
    NoRequestIsAbandoned
    NoOrphans

PROPERTIES
    AnswersEverything
    Ends
