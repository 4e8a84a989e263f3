SPECIFICATION FairSpec

CONSTANTS
    s1 = s1
    s2 = s2
    Term = Term
    Samples <- TwoSamples
    MaxGroups = 2
    SessionSize = 2
    Settings <- AllSettings
    StopLosesWakeUps = FALSE

INVARIANTS
    TypeOK
    InFlightIsOutstanding
    BuffersAreOwned
    BuffersAreReclaimed

PROPERTIES
    Terminates
    AnswersEverything
