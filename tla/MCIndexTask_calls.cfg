CONSTANTS
    w1 = w1
    w2 = w2
    w3 = w3
    main = main
    Workers <- ThreeWorkers
    Main = main
    K = 3
    StepsPerShot = 2
    Requests <- Shots2
    SizeMod = 8
SPECIFICATION FairSpec
INVARIANTS TypeOK AllDone StageInRange
PROPERTIES ImplementsParallelFor CallReturns
CONSTRAINT CallsUndisturbed
