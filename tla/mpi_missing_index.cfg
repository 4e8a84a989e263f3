SPECIFICATION Spec

CONSTANTS
    s1 = s1
    s2 = s2
    Term = Term
    Samples <- TwoSamples
    MaxGroups = 2
    SessionSize = 2
    Settings <- OneStreaming
    StopLosesWakeUps = FALSE

INVARIANTS
    NoIndexIsMissing

CHECK_DEADLOCK FALSE
