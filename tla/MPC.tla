---------------------------------- MODULE MPC ----------------------------------
(****************************************************************************)
(* optcon::MPC with its time keeper, time horizon strategy and policy       *)
(* handler: prepareIteration, finishIteration, resetMpc, updateSettings,    *)
(* setTimeHorizonStrategy and setInitialGuess, called in any order a user   *)
(* may call them in, while time passes between and within the calls.        *)
(*                                                                          *)
(* States and controls are not computed: what a policy contains is the      *)
(* stage each element was optimised for.  The solver is NLOptConSolver: it  *)
(* returns a policy with one element per stage, or throws when the rollout  *)
(* gets unstable.  The caller passes the present as external time.          *)
(****************************************************************************)
EXTENDS MpcTimeKeeper, StateFeedbackPolicy

CONSTANTS SettingsChoices,  \* mpc_settings the user works with
          Horizons,         \* time horizons the user asks for
          MaxSolve,         \* bound on the ticks a solver takes
          MaxDisturbances   \* bound on resets, new settings, failures, ...

ASSUME ChoicesAssumption ==
    /\ SettingsChoices \subseteq {s \in Settings : SettingsOK(s)}
    /\ Horizons \subseteq 1 .. MaxElapsed
    /\ MaxSolve \in Nat /\ \A T \in Horizons : T + MaxSolve <= MaxElapsed
    /\ MaxDisturbances \in Nat

\* A stop watch stands still only after the longest policy has run out and
\* the solver that was started then is done.
ASSUME WatchesAssumption ==
    \A T \in Horizons \cup {s.minimumTimeHorizonMpc : s \in SettingsChoices} :
        StagesOf(T) * Dt + MaxSolve <= MaxElapsed

VARIABLES pc,            \* "idle", "prepared" or "solving"
          settings,      \* mpc_settings_, of MPC and of the time keeper
          strategies,    \* the MpcTimeHorizon objects
          strategy,      \* the one timeHorizonStrategy_ of MPC points to
          firstRun,      \* firstRun_
          keeper,        \* timeKeeper_ without its stop watches
          elapsed,       \* the stop watches of the time keeper
          forward,       \* t_forward_start_, t_forward_stop_: they count from one
                         \* prepareIteration to the finishIteration that follows
          K,             \* number of stages of the solver
          policy,        \* currentPolicy_
          solve,         \* finishIteration: time since it began, and the external
                         \* stop watches, if used, at the time stamp of the state
          handOut,       \* history: what the last finishIteration handed out
          plan,          \* history: feedforward trajectory before the warm start
          used,          \* history: stages the state prediction applied
          asked,         \* history: the horizon last asked for
          disturbances   \* counts what is bounded by MaxDisturbances

timing  == <<settings, strategies, strategy, keeper, elapsed>>
history == <<handOut, plan, used, asked, disturbances>>
vars    == <<pc, timing, firstRun, forward, K, policy, solve, history>>

\* The time keeper is constructed with the first strategy and keeps it.
Strategies == {"constructed", "replacement"}

NoSolve   == [age |-> 0, external |-> [t \in Timers |-> 0]]
NoHandOut == [kind |-> "none", first |-> FALSE, ts |-> 0, predicted |-> 0, took |-> 0]
NoForward == [start |-> 0, stop |-> 0]
NoPlan    == Uniform(<< >>, Dt)

\* What a strategy may start from: a horizon the user gives it, or that of the
\* solver, which has whole stages
WholeStages(T)  == StagesOf(T) * Dt
InitialHorizons == Horizons \cup {WholeStages(T) : T \in Horizons}

--------------------------------------------------------------------------------
\* The constructor, with the solver's horizon for the strategy, and the first
\* setInitialGuess, with a guess of the right length.  External time starts at
\* zero.
Init ==
    /\ pc = "idle"
    /\ settings \in SettingsChoices
    /\ asked \in {WholeStages(T) : T \in Horizons}
    /\ strategies = [x \in Strategies |-> [settings |-> settings, initialT |-> asked]]
    /\ strategy = "constructed"
    /\ firstRun = TRUE
    /\ keeper = [InitializedKeeper EXCEPT !.initialized = FALSE]
    /\ elapsed = ResetTimers(0)
    /\ forward = NoForward
    /\ K = StagesOf(asked)
    /\ policy = Solution(K)
    /\ solve = NoSolve /\ handOut = NoHandOut
    /\ plan = NoPlan /\ used = << >> /\ disturbances = 0

Disturb == disturbances < MaxDisturbances /\ disturbances' = disturbances + 1

(***************************************************************************)
(* One iteration                                                           *)
(***************************************************************************)
prepareIteration ==
    LET k0       == IF firstRun THEN InitializedKeeper ELSE keeper
        watches  == IF firstRun THEN ResetTimers(elapsed.external["timer"]) ELSE elapsed
        mine     == strategies["constructed"]
        timings  == NewTimings(settings, mine, k0, watches, K * Dt)
    IN  /\ pc = "idle" /\ pc' = "prepared"
        /\ elapsed' = watches
        /\ keeper' = [k0 EXCEPT !.finalPointReached = FinalTimeReached(mine, timings.newT)]
        /\ forward' = [start |-> timings.start, stop |-> timings.stop]
        /\ K' = StagesOf(timings.newT)
        /\ policy' = DesignWarmStart(policy, timings.stop, timings.newT)
        /\ plan' = [policy.uff EXCEPT !.index = 0]
        /\ handOut' = NoHandOut /\ used' = << >>
        /\ UNCHANGED <<settings, strategies, strategy, firstRun, solve, asked, disturbances>>

\* integrateForward: a copy of the policy is evaluated once per tick from
\* t_forward_start_ to t_forward_stop_; the stages it yields.  indices[k] is
\* index_ of the copy after k evaluations.
Prediction(tr, start, stop) ==
    LET At(index) == [tr EXCEPT !.index = index]
        indices[k \in 0 .. stop - start] ==
            IF k = 0 THEN 0 ELSE Evaluated(At(indices[k - 1]), start + k - 1).index
    IN  [k \in 1 .. stop - start |-> Eval(At(indices[k - 1]), start + k - 1)]

\* finishIteration up to the solver's turn
beginFinishIteration ==
    /\ pc = "prepared" /\ pc' = "solving"
    /\ elapsed' = IF settings.measureDelay
                    THEN [elapsed EXCEPT ![ClockOf(settings)]["timer"] = 0]
                    ELSE elapsed
    /\ used' = IF ~firstRun /\ settings.stateForwardIntegration
                 THEN Prediction(policy.uff, forward.start, forward.stop)
                 ELSE << >>
    /\ solve' = [NoSolve EXCEPT !.external =
                     IF settings.useExternalTiming THEN elapsed.external ELSE @]
    /\ UNCHANGED <<settings, strategies, strategy, keeper, firstRun, forward, K, policy,
                   handOut, plan, asked, disturbances>>

\* The stop watches as finishIteration reads them after the solve: the
\* external ones at the time stamp of the state
WatchesAfterSolve == IF settings.useExternalTiming THEN solve.external ELSE elapsed.internal

\* What nothing reads before the next iteration is cleared.
IterationOver == forward' = NoForward /\ solve' = NoSolve /\ plan' = NoPlan /\ used' = << >>

\* stopDelayMeasurement
StoppedWatches(now) ==
    LET stopped == {"lastSolveTimer"} \cup IF keeper.firstRun THEN {"firstSolveTimer"} ELSE {}
        watches == elapsed[ClockOf(settings)]
    IN  [elapsed EXCEPT ![ClockOf(settings)] =
            [t \in Timers |-> IF t \in stopped THEN now ELSE watches[t]]]

\* currentPolicy_ is assigned n stages anew.
PolicyOf(n) ==
    LET new == Solution(n)
    IN  [uff   |-> Assigned(policy.uff, new.uff), K |-> Assigned(policy.K, new.K),
         x_ref |-> Assigned(policy.x_ref, new.x_ref)]

SolvedPolicy == PolicyOf(K)

\* The solver has a solution: the rest of finishIteration.
finishIteration ==
    LET dtp       == TimeSince("lastSolveTimer", keeper, WatchesAfterSolve)
        late      == settings.postTruncation /\ ~firstRun /\ dtp > forward.stop
        truncated == IF late THEN EffectivelyTruncated(SolvedPolicy, dtp - forward.stop) ELSE 0
        delay     == WatchesAfterSolve["timer"]
    IN  /\ pc = "solving" /\ pc' = "idle"
        /\ policy' = IF late THEN TruncateFront(SolvedPolicy, dtp - forward.stop)
                             ELSE SolvedPolicy
        /\ elapsed' = StoppedWatches(IF settings.useExternalTiming THEN solve.age ELSE 0)
        /\ keeper' = [keeper EXCEPT !.firstRun = FALSE, !.lastMeasuredDelay = delay]
        /\ firstRun' = FALSE
        /\ handOut' = [kind |-> "policy", first |-> firstRun, took |-> solve.age,
                       predicted |-> Len(used),
                       ts |-> forward.stop - forward.start + truncated
                                + IF firstRun THEN delay ELSE 0]
        /\ IterationOver
        /\ UNCHANGED <<settings, strategies, strategy, K, asked, disturbances>>

\* The rollout fails: the exception leaves finishIteration, the caller
\* catches it and goes on.
failIteration ==
    /\ pc = "solving" /\ pc' = "idle"
    /\ handOut' = [NoHandOut EXCEPT !.kind = "exception"]
    /\ IterationOver
    /\ Disturb
    /\ UNCHANGED <<timing, firstRun, K, policy, asked>>

(***************************************************************************)
(* The other calls                                                         *)
(***************************************************************************)

\* Also between prepareIteration and finishIteration: then the iteration is
\* prepared anew.
resetMpc(T) ==
    /\ pc \in {"idle", "prepared"} /\ pc' = "idle"
    /\ Disturb
    /\ firstRun' = TRUE
    /\ strategies' = [strategies EXCEPT ![strategy].initialT = T]
    /\ K' = StagesOf(T)
    /\ keeper' = InitializedKeeper
    /\ elapsed' = ResetTimers(elapsed.external["timer"])
    /\ asked' = T
    /\ handOut' = NoHandOut
    /\ IterationOver
    /\ UNCHANGED <<settings, strategy, policy>>

updateSettings(s) ==
    /\ pc = "idle"
    /\ Disturb
    /\ settings' = s
    /\ strategies' = [strategies EXCEPT ![strategy].settings = s]
    /\ handOut' = NoHandOut
    /\ UNCHANGED <<pc, strategy, keeper, elapsed, firstRun, forward, K, policy, solve, plan,
                   used, asked>>

setTimeHorizonStrategy(T) ==
    /\ pc = "idle" /\ strategy = "constructed"
    /\ Disturb
    /\ strategies' = [strategies EXCEPT !["replacement"] = [settings |-> settings, initialT |-> T]]
    /\ strategy' = "replacement"
    /\ handOut' = NoHandOut
    /\ UNCHANGED <<pc, settings, keeper, elapsed, firstRun, forward, K, policy, solve, plan,
                   used, asked>>

\* The solver throws at a guess that is too short.
setInitialGuess(n) ==
    /\ pc = "idle" /\ n >= K
    /\ Disturb
    /\ policy' = PolicyOf(n)
    /\ handOut' = NoHandOut
    /\ UNCHANGED <<pc, timing, firstRun, forward, K, solve, plan, used, asked>>

Tick ==
    /\ pc = "solving" => solve.age < MaxSolve
    /\ elapsed' = OneTickOn(elapsed)
    /\ solve' = IF pc = "solving" THEN [solve EXCEPT !.age = @ + 1] ELSE solve
    /\ handOut' = NoHandOut
    /\ UNCHANGED <<pc, settings, strategies, strategy, keeper, firstRun, forward, K, policy,
                   plan, used, asked, disturbances>>

Next ==
    \/ prepareIteration
    \/ beginFinishIteration
    \/ finishIteration
    \/ failIteration
    \/ \E T \in Horizons : resetMpc(T)
    \/ \E s \in SettingsChoices : updateSettings(s)
    \/ \E T \in Horizons : setTimeHorizonStrategy(T)
    \/ \E n \in {K, K + 1} : setInitialGuess(n)
    \/ Tick

Spec == Init /\ [][Next]_vars

\* Time passes, the control loop calls MPC again and again, and a solver
\* comes to an end.
GoesOn(from, to) == pc = from /\ pc' = to

FairSpec ==
    /\ Spec
    /\ WF_vars(Tick)
    /\ WF_pc(GoesOn("idle", "prepared"))
    /\ WF_pc(GoesOn("prepared", "solving"))
    /\ WF_pc(GoesOn("solving", "idle"))

--------------------------------------------------------------------------------
(***************************************************************************)
(* Properties                                                              *)
(***************************************************************************)

TypeOK ==
    /\ pc \in {"idle", "prepared", "solving"}
    /\ settings \in SettingsChoices
    /\ strategies \in [Strategies -> [settings : SettingsChoices, initialT : InitialHorizons]]
    /\ strategy \in Strategies
    /\ firstRun \in BOOLEAN
    /\ keeper \in Keeper
    /\ elapsed \in [Clocks -> [Timers -> Ticks]]
    /\ forward \in [start : Nat, stop : Nat]
    /\ K \in Nat \ {0}
    /\ policy \in Policy
    /\ solve \in [age : Ticks, external : [Timers -> Ticks]]
    /\ handOut \in [kind : {"none", "policy", "exception"}, first : BOOLEAN, ts : Nat,
                    predicted : Nat, took : Ticks]
    /\ plan \in Trajectory(Nat)
    /\ used \in Seq(Nat)
    /\ asked \in InitialHorizons
    /\ disturbances \in 0 .. MaxDisturbances

\* The warm start has exactly the stages the solver was just resized to,
\* and one reference state more, whatever was shifted, failed, reset or cut
\* before: NLOCBackendBase::setInitialGuess never throws "guess to short",
\* and the two roundings of the horizon never part.
GuessAccepted == pc # "idle" => Shape(policy, K)

\* "t_forward_stop < t_forward_start is impossible", and the prediction ends
\* within the horizon the policy it follows was made for: the stages it has
\* and those that were cut off at its front.
PredictionInOrder ==
    pc # "idle" => /\ forward.start <= forward.stop
                   /\ forward.stop <= (Len(plan.data) + plan.data[1]) * Dt

\* An outgoing policy is stamped so that each of its elements falls on the
\* time the solver computed it for, prediction and truncation included.  The
\* solver's time zero is the end of the state prediction; in the first run,
\* which predicts nothing, it is the time stamp of the state plus the
\* measured solving time.
HandOutAligned ==
    handOut.kind = "policy" /\ (settings.stateForwardIntegration \/ handOut.first) =>
        LET zero == IF handOut.first THEN keeper.lastMeasuredDelay ELSE handOut.predicted
            OnTime(tr) == \A i \in DOMAIN tr.time : handOut.ts + tr.time[i] = zero + tr.data[i] * Dt
        IN  OnTime(policy.uff) /\ OnTime(policy.K) /\ OnTime(policy.x_ref)

\* With post-truncation on the internal clock, a policy that comes out late
\* does not begin a stage or more before now, unless nothing but its last
\* stage is left.
TruncationKeepsUp ==
    /\ handOut.kind = "policy" /\ ~handOut.first
    /\ settings.postTruncation /\ ~settings.useExternalTiming
    => handOut.ts + Dt > handOut.took \/ Size(policy.uff) = 1

\* The first iteration after construction or a reset plans over the horizon
\* that was asked for, within what the mode allows, whatever had been
\* measured before; with a constant receding horizon every iteration does.
HorizonAsAsked ==
    LET mode == settings.mpc_mode
        min  == settings.minimumTimeHorizonMpc
    IN  /\ pc # "idle" /\ strategy = "constructed"
        /\ keeper.firstRun \/ mode = "CONSTANT_RECEDING_HORIZON"
        => K = StagesOf(CASE mode = "FIXED_FINAL_TIME_WITH_MIN_TIME_HORIZON" -> Higher(min, asked)
                          [] mode = "RECEDING_HORIZON_WITH_FIXED_FINAL_TIME" -> Lower(min, asked)
                          [] OTHER -> asked)

\* In every mode but the constant receding horizon, timeHorizonReached()
\* becomes true and stays so, once the user lets MPC run.
Limited == strategies["constructed"].settings.mpc_mode # "CONSTANT_RECEDING_HORIZON"
EndReached == <>[](Limited => keeper.finalPointReached)

(***************************************************************************)
(* What the documentation says and the code does not do                    *)
(***************************************************************************)

\* The state prediction follows the controller "from the last iteration", at
\* times "w.r.t. the current policy": at each time it applies the stage that
\* the policy had there before the warm start.
PredictionFollowsPlan ==
    pc = "solving" => \A i \in DOMAIN used : used[i] = Eval(plan, forward.start + i - 1)
================================================================================
