SPECIFICATION Spec

CONSTANTS
    Stop = Stop
    NumRequests = 1
    NumWorkers = 2
    MaxConcurrency = 2
    Streaming = TRUE
    MaxErrors = 0
    Interruptible <- Uncovered

INVARIANTS
    NoOrphans
