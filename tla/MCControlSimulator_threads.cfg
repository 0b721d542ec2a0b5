CONSTANTS
    ControlDt = 2
    Durations <- ShortAndLong
    MaxRuns = 2
    MaxTime = 7
SPECIFICATION FairSpec
INVARIANTS TypeOK StateWhole PointerSafe NeverAhead NoOvershoot StopsSoon
PROPERTIES QuietWhenFinished FinishReturns
