SPECIFICATION Spec

CONSTANTS
    w1 = w1
    t1 = t1
    t2 = t2
    WarmupReqs <- OneWarmup
    TestReqs <- TwoSamples
    Streaming = FALSE
    Dynamo = FALSE
    AssertsStop = TRUE
    Sigint = TRUE
    BackendIsChild = TRUE
    MaxResponses = 1
    MaxErrors = 1
    FirstSizes <- UpToTwo
    ChunkSizes <- OneToken

INVARIANTS
    TypeOK
    OutputIsGenerated
    PendingIsAnswerable
    ExitIsFinal

CHECK_DEADLOCK FALSE
