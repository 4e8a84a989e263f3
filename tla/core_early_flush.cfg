SPECIFICATION Spec

CONSTANTS
    w1 = w1
    t1 = t1
    t2 = t2
    WarmupReqs <- OneWarmup
    TestReqs <- OneSample
    Streaming = FALSE
    Dynamo = FALSE
    AssertsStop = TRUE
    Sigint = FALSE
    BackendIsChild = FALSE
    MaxResponses = 2
    MaxErrors = 0
    FirstSizes <- OneToken
    ChunkSizes <- OneToken

INVARIANTS
    WarmupIsSilent

CHECK_DEADLOCK FALSE
