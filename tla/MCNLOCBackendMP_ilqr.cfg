CONSTANTS
    w1 = w1
    w2 = w2
    main = main
    nobody = nobody
    Workers <- TwoWorkers
    Main = main
    Nobody = nobody
    K = 2
    StepsPerShot = 2
    MaxIterations = 2
    SizeMod = 8
    ResetStride = 60
    TaskStride = 10
    Script <- OneIteration
SPECIFICATION Spec
INVARIANTS TypeOK StagesDone SearchCorrect NoStandstill
PROPERTIES ServesOnce SleepsWhenFinished
SYMMETRY Symmetry
