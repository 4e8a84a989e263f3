SPECIFICATION FairSpec

CONSTANTS
    NumDevices = 2
    CoresPerDevice = 1
    NumBundles = 2
    NumHandlers = 1
    Pairs <- FourSamples
    QuerySizes <- OneOrThree
    SplitThreshold = 3
    Settings <- AllSettings

INVARIANTS
    TypeOK
    AnswerIsOwn
    NoCheckFails

PROPERTIES
    AnswersEverything
