CONSTANTS
    Dt = 2
    MaxElapsed = 9
    MaxSolve = 3
    SettingsChoices <- AllModes
    Horizons <- TwoHorizons
    MaxDisturbances = 1
SPECIFICATION FairSpec
INVARIANTS TypeOK GuessAccepted PredictionInOrder HandOutAligned TruncationKeepsUp HorizonAsAsked
PROPERTIES EndReached
