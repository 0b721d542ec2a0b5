----------------------------- MODULE MpcTimeKeeper -----------------------------
(****************************************************************************)
(* MpcTimeKeeper with its stop watches, and MpcTimeHorizon.  Time is in     *)
(* whole ticks.  A stop watch is the time elapsed since it was started,     *)
(* which is all the code ever reads of it; from MaxElapsed on it stands     *)
(* still, longer than any horizon.                                          *)
(****************************************************************************)
EXTENDS Integers

CONSTANT MaxElapsed   \* bound on what a stop watch shows

ASSUME MaxElapsedAssumption == MaxElapsed \in Nat \ {0}

Modes  == {"CONSTANT_RECEDING_HORIZON", "FIXED_FINAL_TIME",
           "FIXED_FINAL_TIME_WITH_MIN_TIME_HORIZON",
           "RECEDING_HORIZON_WITH_FIXED_FINAL_TIME"}
Clocks == {"internal", "external"}
Timers == {"timer", "lastSolveTimer", "firstSolveTimer"}
Ticks  == 0 .. MaxElapsed

\* mpc_settings.  delayMeasurementMultiplier_ is 1; coldStart_ is false.
Settings == [mpc_mode : Modes, minimumTimeHorizonMpc : Nat, useExternalTiming : BOOLEAN,
             measureDelay : BOOLEAN, fixedDelay : Nat, additionalDelay : Nat,
             postTruncation : BOOLEAN, stateForwardIntegration : BOOLEAN]

\* checkSettings throws otherwise.
SettingsOK(s) == ~(s.useExternalTiming /\ s.measureDelay)

Keeper == [initialized : BOOLEAN, firstRun : BOOLEAN, finalPointReached : BOOLEAN,
           lastMeasuredDelay : Ticks]

ClockOf(s) == IF s.useExternalTiming THEN "external" ELSE "internal"

Lower(a, b)  == IF a < b THEN a ELSE b
Higher(a, b) == IF a < b THEN b ELSE a

--------------------------------------------------------------------------------
\* initialize()
InitializedKeeper == [initialized |-> TRUE, firstRun |-> TRUE, finalPointReached |-> FALSE,
                      lastMeasuredDelay |-> 0]

\* A stop watch that is reset reads from time zero: the epoch for the wall
\* clock, the start of external time for an externally driven one.
ResetTimers(externalTime) ==
    [internal |-> [t \in Timers |-> MaxElapsed], external |-> [t \in Timers |-> externalTime]]

OneTickOn(elapsed) ==
    [c \in Clocks |-> [t \in Timers |-> Lower(elapsed[c][t] + 1, MaxElapsed)]]

\* Wrong on purpose: a first run reads stop watches that were never started.
TimeSinceAlways(timer, keeper, watches) == watches[timer]

\* timeSincePreviousSuccessfulSolve, timeSinceFirstSuccessfulSolve
TimeSince(timer, keeper, watches) == IF keeper.firstRun THEN 0 ELSE watches[timer]

computeDelayToApply(s, keeper) ==
    s.additionalDelay + IF s.measureDelay THEN keeper.lastMeasuredDelay ELSE s.fixedDelay

--------------------------------------------------------------------------------
(***************************************************************************)
(* MpcTimeHorizon::computeNewTimeHorizon, of a strategy with its own copy  *)
(* of the settings                                                         *)
(***************************************************************************)
TimeLeft(strategy, sinceFirst, stop) == Higher(0, strategy.initialT - (sinceFirst + stop))

NewTimeHorizon(strategy, sinceFirst, stop) ==
    LET left == TimeLeft(strategy, sinceFirst, stop)
        min  == strategy.settings.minimumTimeHorizonMpc
        mode == strategy.settings.mpc_mode
    IN  CASE mode = "CONSTANT_RECEDING_HORIZON" -> strategy.initialT
          [] mode = "FIXED_FINAL_TIME" -> left
          [] mode = "FIXED_FINAL_TIME_WITH_MIN_TIME_HORIZON" -> Higher(min, left)
          [] mode = "RECEDING_HORIZON_WITH_FIXED_FINAL_TIME" -> Lower(min, left)

\* Wrong on purpose: the minimum horizon does not count as the end.
FinalTimePassed(strategy, newT) ==
    CASE strategy.settings.mpc_mode = "CONSTANT_RECEDING_HORIZON" -> FALSE
      [] strategy.settings.mpc_mode = "FIXED_FINAL_TIME_WITH_MIN_TIME_HORIZON" ->
            newT < strategy.settings.minimumTimeHorizonMpc
      [] OTHER -> newT = 0

FinalTimeReached(strategy, newT) ==
    CASE strategy.settings.mpc_mode = "CONSTANT_RECEDING_HORIZON" -> FALSE
      [] strategy.settings.mpc_mode = "FIXED_FINAL_TIME_WITH_MIN_TIME_HORIZON" ->
            newT = strategy.settings.minimumTimeHorizonMpc
      [] OTHER -> newT = 0

\* Wrong on purpose: only the start of the prediction is cut off at the horizon.
NewTimingsHalfCut(s, strategy, keeper, elapsed, currentT) ==
    LET watches == elapsed[ClockOf(s)]
        start   == TimeSince("lastSolveTimer", keeper, watches)
        delay   == IF keeper.firstRun THEN 0 ELSE computeDelayToApply(s, keeper)
        stop    == start + delay
    IN  [start |-> Lower(start, currentT), stop |-> stop,
         newT  |-> NewTimeHorizon(strategy, TimeSince("firstSolveTimer", keeper, watches), stop)]

\* computeNewTimings: the interval of the state prediction, counted from the
\* end of the last solve and cut off at the horizon currentT, and the new
\* horizon
NewTimings(s, strategy, keeper, elapsed, currentT) ==
    LET watches == elapsed[ClockOf(s)]
        start   == TimeSince("lastSolveTimer", keeper, watches)
        delay   == IF keeper.firstRun THEN 0 ELSE computeDelayToApply(s, keeper)
        stop    == Lower(start + delay, currentT)
    IN  [start |-> Lower(start, currentT), stop |-> stop,
         newT  |-> NewTimeHorizon(strategy, TimeSince("firstSolveTimer", keeper, watches), stop)]
================================================================================
