SPECIFICATION FairSpec

CONSTANTS
    NumCores = 2
    WarmupReqs <- OneWarmup
    TestReqs <- ThreeSamples
    InputLen <- Lengths
    WarmupLen = 1
    Policies <- AllPolicies
    MaxFailures = 1

INVARIANTS
    TypeOK
    TestStartsReady
    LoadIsSpread

PROPERTIES
    EveryCoreExits
    TestTerminates
