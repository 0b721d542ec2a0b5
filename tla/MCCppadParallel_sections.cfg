CONSTANTS
    t1 = t1
    t2 = t2
    t3 = t3
    Main = main
    Free = free
    Others <- ThreeOthers
    Sizes <- TwoOrThree
SPECIFICATION Spec
INVARIANTS NumbersDistinct NumbersInRange
SYMMETRY Symmetry
