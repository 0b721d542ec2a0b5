CONSTANTS
    p1 = p1
    p2 = p2
    s1 = s1
    s2 = s2
    NoPoint = none
    Points <- TwoPoints
    Shots <- TwoShots
    MaxUpdates = 3
SPECIFICATION Spec
INVARIANTS OneRolloutCached
PROPERTY ImplementsNlpFunctions
