CONSTANTS
    w1 = w1
    w2 = w2
    main = main
    nobody = nobody
    Workers <- TwoWorkers
    Main = main
    Nobody = nobody
    K = 2
    StepsPerShot = 2
    MaxIterations = 1
    SizeMod = 8
    ResetStride = 60
    TaskStride = 10
    Script <- ApproximateAndDestroy
SPECIFICATION FairSpec
INVARIANTS AtMostOneMisses
PROPERTIES CallsReturn ShutdownCompletes
CHECK_DEADLOCK FALSE
