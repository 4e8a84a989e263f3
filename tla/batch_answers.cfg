SPECIFICATION FairSpec

CONSTANTS
    s1 = s1
    s2 = s2
    s3 = s3
    th1 = th1
    th2 = th2
    b1 = b1
    b2 = b2
    c1 = c1
    c2 = c2
    Nobody = Nobody
    NoBatch = NoBatch
    Junk = Junk
    Samples <- ThreeSamples
    Pairs <- OneTwoOne
    Threads <- TwoThreads
    Batches <- OneBatch
    Consumers <- OneConsumer
    NumBundles = 1
    MaxBatchSize = 2
    MaxPairsPerThread = 2
    FlushExclusive = TRUE

PROPERTIES
    AnswersEverything
