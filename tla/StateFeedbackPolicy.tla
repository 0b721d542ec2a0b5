-------------------------- MODULE StateFeedbackPolicy --------------------------
(****************************************************************************)
(* StateFeedbackPolicyHandler: how MPC shifts and resizes the policy it     *)
(* starts an iteration from (designWarmStartingPolicy), and how it cuts the *)
(* front of a new one that is late (truncateSolutionFront).                 *)
(*                                                                          *)
(* A policy is a StateFeedbackController: feedforward, feedback and         *)
(* reference state trajectories.  A data point is the stage of the optimal  *)
(* control problem it was computed for.                                     *)
(****************************************************************************)
EXTENDS DiscreteTrajectory

CONSTANT Dt   \* dt_: ticks per stage

ASSUME DtAssumption == Dt \in Nat \ {0}

Policy == [uff : Trajectory(Nat), K : Trajectory(Nat), x_ref : Trajectory(Nat)]

\* Wrong on purpose: the horizon may have no stage.
StagesOfRounded(T) == (2 * T + Dt) \div (2 * Dt)

\* max(1, lround(T / dt)): the policy handler and NLOptConSettings::computeK
\* round alike
StagesOf(T) == IF 2 * T < Dt THEN 1 ELSE (2 * T + Dt) \div (2 * Dt)

\* What a solver with n stages returns
Stages(n)   == [i \in 1 .. n |-> i - 1]
Solution(n) == [uff   |-> Uniform(Stages(n), Dt), K |-> Uniform(Stages(n), Dt),
                x_ref |-> Uniform(Stages(n + 1), Dt)]

EachOf(policy, Op(_)) ==
    [uff |-> Op(policy.uff), K |-> Op(policy.K), x_ref |-> Op(policy.x_ref)]

\* getIndexFromTime(delay), at most size - 1
ShiftOf(policy, delay) ==
    LET i == FindIndex(policy.uff, delay)
    IN  IF i < Size(policy.uff) THEN i ELSE Size(policy.uff) - 1

\* The look-up is made on the feedforward trajectory and moves its index.
AfterLookUp(policy, delay) == [policy EXCEPT !.uff = LookedUp(@, delay)]

\* eraseFront(n, n * dt_) on the three
Shifted(policy, n) ==
    IF n = 0 THEN policy
    ELSE LET Erase(tr) == EraseFront(tr, n, n * Dt) IN EachOf(policy, Erase)

\* Wrong on purpose: the reference states are resized like the others.
ResizedAlike(policy, n) ==
    LET Fit(tr) == IF n > Size(tr) THEN PushBack(tr, n - Size(tr), Dt, TRUE)
                                   ELSE PopBack(tr, Size(tr) - n)
    IN  EachOf(policy, Fit)

\* Repeats the last elements or removes them, until n are left.
Resized(policy, n) ==
    LET size       == Size(policy.uff)
        Extend(tr) == PushBack(tr, n - size, Dt, TRUE)
        Shorten(tr) == PopBack(tr, size - n)
    IN  CASE n > size -> EachOf(policy, Extend)
          [] n < size -> EachOf(policy, Shorten)
          [] OTHER    -> policy

DesignWarmStart(policy, delay, newTimeHorizon) ==
    Resized(Shifted(AfterLookUp(policy, delay), ShiftOf(policy, delay)),
            StagesOf(newTimeHorizon))

TruncateFront(policy, delay) == Shifted(AfterLookUp(policy, delay), ShiftOf(policy, delay))

\* Wrong on purpose: the caller does not learn what was cut.
NothingTruncated(policy, delay) == 0

EffectivelyTruncated(policy, delay) == ShiftOf(policy, delay) * Dt

\* Feedforward and feedback have one element per stage, the reference states
\* one more; StateFeedbackController::update throws otherwise.
Shape(policy, n) ==
    /\ Size(policy.uff) = n /\ Size(policy.K) = n /\ Size(policy.x_ref) = n + 1
    /\ Consistent(policy.uff) /\ Consistent(policy.K) /\ Consistent(policy.x_ref)
================================================================================
