CONSTANTS
    w1 = w1
    w2 = w2
    main = main
    nobody = nobody
    Workers <- TwoWorkers
    Main = main
    MaxIterations = 3
    Nobody = nobody
SPECIFICATION FairSpec
INVARIANTS TypeOK GenuineResult SearchExhaustive
PROPERTIES ResultFrozen ImplementsStepSearch SearchReturns
CONSTRAINT SearchUndisturbed
