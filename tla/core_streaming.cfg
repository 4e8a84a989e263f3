SPECIFICATION FairSpec

CONSTANTS
    w1 = w1
    t1 = t1
    t2 = t2
    WarmupReqs <- NoReqs
    TestReqs <- TwoSamples
    Streaming = TRUE
    Dynamo = TRUE
    AssertsStop = TRUE
    Sigint = FALSE
    BackendIsChild = FALSE
    MaxResponses = 3
    MaxErrors = 0
    FirstSizes <- UpToTwo
    ChunkSizes <- OneToken

INVARIANTS
    CompletedOnce
    NoTokenIsLost

PROPERTIES
    KeepsContract
    TestTerminates

CHECK_DEADLOCK FALSE
