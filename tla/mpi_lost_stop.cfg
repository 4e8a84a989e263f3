SPECIFICATION FairSpec

CONSTANTS
    s1 = s1
    s2 = s2
    Term = Term
    Samples <- TwoSamples
    MaxGroups = 2
    SessionSize = 2
    Settings <- OneStreaming
    StopLosesWakeUps = TRUE

PROPERTIES
    Terminates

CHECK_DEADLOCK FALSE
