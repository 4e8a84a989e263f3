SPECIFICATION FairSpec

CONSTANTS
    NumDevices = 2
    NumStreams = 2
    CompleteThreads = 2
    BatchSize <- Sizes
    Index <- Memory
    QuerySizes <- OneOrThree
    Settings <- AllSettings

INVARIANTS
    TypeOK
    AnswerIsOwn
    StreamInOnePlace

PROPERTIES
    DoneReturns
