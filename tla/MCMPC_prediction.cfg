CONSTANTS
    Dt = 2
    MaxElapsed = 9
    MaxSolve = 3
    SettingsChoices <- OnlyFixed
    Horizons <- OneHorizon
    MaxDisturbances = 0
SPECIFICATION Spec
INVARIANTS PredictionFollowsPlan
