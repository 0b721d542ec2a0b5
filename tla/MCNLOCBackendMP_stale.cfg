CONSTANTS
    w1 = w1
    w2 = w2
    main = main
    nobody = nobody
    Workers <- TwoWorkers
    Main = main
    Nobody = nobody
    K = 4
    StepsPerShot = 2
    MaxIterations = 1
    SizeMod = 8
    ResetStride = 60
    TaskStride = 10
    Script <- GNMSPrepare
SPECIFICATION Spec
INVARIANTS EveryStageDone
