SPECIFICATION Spec

CONSTANTS
    s1 = s1
    s2 = s2
    Term = Term
    Samples <- TwoSamples
    MaxGroups = 2
    SessionSize = 1
    Settings <- OneStreaming
    StopLosesWakeUps = TRUE

INVARIANTS
    BuffersAreReclaimed

CHECK_DEADLOCK FALSE
