------------------------------ MODULE Algorithms -------------------------------
(****************************************************************************)
(* What one solver call asks of the backend, in which order: iLQR and GNMS  *)
(* (their prepare and finish halves, offline and in MPC) with               *)
(* NLOCBackendBase::lineSearch and the LQ problem solves they go through.   *)
(* An operation is a record [op, first, last]; the numbers are the stage    *)
(* range where there is one.                                                *)
(****************************************************************************)
EXTENDS Integers, Sequences

CONSTANTS Algorithm,         \* "ILQR" or "GNMS", settings_.nlocp_algorithm
          K,                 \* the number of stages
          KShot,             \* settings_.K_shot
          LineSearchActive,  \* lineSearchSettings.active
          Hpipm              \* lqocp_solver is HPIPM_SOLVER, else GNRICCATI_SOLVER

ASSUME SettingsAssumption ==
    /\ Algorithm \in {"ILQR", "GNMS"}
    /\ K \in Nat \ {0} /\ KShot \in Nat \ {0}
    /\ Algorithm = "ILQR" => KShot = 1         \* NLOptConSettings::parametersOk
    /\ LineSearchActive \in BOOLEAN /\ Hpipm \in BOOLEAN

Op(name, first, last) == [op |-> name, first |-> first, last |-> last]

Rollout(first, last) == Op("ROLLOUT_SHOTS", first, last)
Approximate(first, last) == Op("COMPUTE_LQ_PROBLEM", first, last)
Search    == Op("LINE_SEARCH", 0, 0)   \* performLineSearch
CountLQP  == Op("COUNT_LQP", 0, 0)     \* lqpCounter_++
Iterate   == Op("ITERATE", 0, 0)       \* iteration()++

\* lineSearch: without line search the full step is rolled out again.
LineSearch == IF LineSearchActive THEN <<Search>> ELSE <<Rollout(0, K - 1)>>

\* solveFullLQProblem, prepareSolveLQProblem, finishSolveLQProblem
SolveFullLQProblem == <<CountLQP>>
PrepareSolveLQProblem == <<CountLQP>>
FinishSolveLQProblem == <<CountLQP>> \o (IF Hpipm THEN SolveFullLQProblem ELSE <<>>)

If(condition, ops) == IF condition THEN ops ELSE <<>>

\* prepareIteration, finishIteration and the MPC variants; iteration is the
\* backend's iteration_ when the call is made.
Prepare(iteration) ==
    IF Algorithm = "ILQR"
    THEN <<>>
    ELSE If(iteration = 0, <<Rollout(KShot, K - 1)>>)
            \o <<Approximate(KShot, K - 1)>> \o PrepareSolveLQProblem

Finish(iteration) ==
    IF Algorithm = "ILQR"
    THEN <<Approximate(0, K - 1)>> \o SolveFullLQProblem \o LineSearch \o <<Iterate>>
    ELSE If(iteration = 0, <<Rollout(0, KShot - 1)>>)
            \o <<Approximate(0, KShot - 1)>> \o FinishSolveLQProblem \o LineSearch
            \o <<Iterate>>

PrepareMPC(iteration) ==
    IF Algorithm = "ILQR"
    THEN Prepare(iteration)
    ELSE <<Rollout(KShot, K - 1), Approximate(KShot, K - 1)>> \o PrepareSolveLQProblem

FinishMPC(iteration) ==
    IF Algorithm = "ILQR"
    THEN Finish(iteration)
    ELSE <<Rollout(0, KShot - 1), Approximate(0, KShot - 1)>> \o FinishSolveLQProblem
            \o <<Iterate>>

\* runIteration
Iteration(iteration) == Prepare(iteration) \o Finish(iteration)

\* The operations the multi-threaded backend hands to its workers.
Parallel(op) == \/ op.op = "LINE_SEARCH"
                \/ op.op \in {"ROLLOUT_SHOTS", "COMPUTE_LQ_PROBLEM"} /\ op.first # op.last

================================================================================
