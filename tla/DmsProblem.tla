------------------------------ MODULE DmsProblem ------------------------------
(****************************************************************************)
(* Direct multiple shooting as its NLP solver sees it: DmsProblem, the      *)
(* optimisation vector with its update count, the spline of the controls    *)
(* and the shots.  The solver asks for functions at points, in any order,   *)
(* and says with each call whether the point is new.  A function that       *)
(* depends on the shots first lets the threads of an OpenMP loop bring      *)
(* every shot up to date.                                                   *)
(****************************************************************************)
EXTENDS ShotContainer

CONSTANTS Shots,        \* the shots
          MaxUpdates    \* bound on the updates of the vector; the code has none

ASSUME UpdatesAssumption == MaxUpdates \in Nat

VARIABLES settings,     \* cost evaluation, and which derivatives are generated code
          x,            \* x_, the optimisation vector
          updateCount,  \* updateCount_
          spline,       \* what the spline of the controls was computed from
          shots,        \* shotContainers_
          pc,           \* the program between solves, the solver, an evaluation
          asked,        \* the point of the last evaluation of this solve
          function,     \* the function that is evaluated, or was last
          pending,      \* the shots the OpenMP loop has not done yet
          answer        \* what the last evaluation returned: its function and where from

vars == <<settings, x, updateCount, spline, shots, pc, asked, function, pending, answer>>

Functions == {"eval_f", "eval_grad_f", "eval_g", "eval_jac_g", "eval_h"}

Settings == [full : BOOLEAN, costCodegen : BOOLEAN, constraintsCodegen : BOOLEAN]

\* The Hessian exists as generated code only: of the cost and the constraints.
Offered(f) == f = "eval_h" => settings.costCodegen /\ settings.constraintsCodegen

\* Cost and gradient need the shots with the full cost only, and nothing does
\* that was generated as code.
UsesShots(f) ==
    \/ f \in {"eval_f", "eval_grad_f"} /\ settings.full /\ ~settings.costCodegen
    \/ f \in {"eval_g", "eval_jac_g"} /\ ~settings.constraintsCodegen

Init ==
    /\ settings \in Settings
    /\ x \in Points /\ updateCount = 0 /\ spline = NoPoint
    /\ shots = [i \in Shots |-> EmptyShot]
    /\ pc = "idle" /\ asked = NoPoint /\ function = "none"
    /\ pending = {} /\ answer = <<>>

--------------------------------------------------------------------------------
\* A solve begins: the first point the solver will ask for is new.
solve ==
    /\ pc = "idle" /\ pc' = "solver" /\ asked' = NoPoint
    /\ UNCHANGED <<settings, x, updateCount, spline, shots, function, pending, answer>>

\* Every vector that is set is counted.
setOptimizationVars(p) == x' = p /\ updateCount' = updateCount + 1

\* The spline is computed from the vector and the shots' caches are cleared.
updateProblem(p) ==
    /\ spline' = p
    /\ shots' = [i \in Shots |-> reset(shots[i])]

\* What is not new is taken to be there already.
extractOptimizationVars(p, isNew) ==
    IF isNew THEN setOptimizationVars(p) /\ updateProblem(p)
             ELSE UNCHANGED <<x, updateCount, spline, shots>>

\* The solver asks for a function.  It may say that the point is new when it is
\* not, as SNOPT's interface always does, but not the other way round.
evaluate(f, p, isNew) ==
    /\ pc = "solver" /\ pc' = "evaluates" /\ Offered(f)
    /\ isNew \/ p = asked
    /\ isNew => updateCount < MaxUpdates
    /\ extractOptimizationVars(p, isNew)
    /\ asked' = p /\ function' = f /\ answer' = <<>>
    /\ pending' = IF UsesShots(f) THEN Shots ELSE {}
    /\ UNCHANGED settings

\* What the loop does with a shot.
Prepared(s) ==
    LET w == {x, spline}
    IN  CASE function = "eval_f"      -> integrateCost(s, w, updateCount)
          [] function = "eval_grad_f" -> integrateCostSensitivities(s, w, updateCount, settings.full)
          [] function = "eval_g"      -> integrateShot(s, w, updateCount)
          [] OTHER                    -> integrateSensitivities(s, w, updateCount, settings.full)

\* A thread of the loop takes any of the shots that are left.
prepareShot(i) ==
    /\ pc = "evaluates" /\ i \in pending
    /\ shots' = [shots EXCEPT ![i] = Prepared(shots[i])]
    /\ pending' = pending \ {i}
    /\ UNCHANGED <<settings, x, updateCount, spline, pc, asked, function, answer>>

Result(s) == CASE function = "eval_f"      -> s.cost
               [] function = "eval_grad_f" -> s.discreteQ
               [] function = "eval_g"      -> s.stateSubsteps
               [] OTHER                    -> s.discreteA

\* The shots' results are put together with what is taken from the vector (the
\* terminal cost, the states the shots have to meet) and from the spline (the
\* discretised constraints).
combine ==
    /\ pc = "evaluates" /\ pending = {}
    /\ answer' = <<function, IF UsesShots(function)
                             THEN {x, spline} \cup UNION {Result(shots[i]) : i \in Shots}
                             ELSE {x}>>
    /\ pc' = "solver"
    /\ UNCHANGED <<settings, x, updateCount, spline, shots, asked, function, pending>>

\* The solution is any point, and is not counted.
finalize_solution(p) ==
    /\ pc = "solver" /\ pc' = "idle"
    /\ x' = p
    /\ UNCHANGED <<settings, updateCount, spline, shots, asked, function, pending, answer>>

\* changeInitialState overwrites a part of the vector, which is not counted.
changeInitialState(p) ==
    /\ pc = "idle"
    /\ x' = p
    /\ UNCHANGED <<settings, updateCount, spline, shots, pc, asked, function, pending, answer>>

Next ==
    \/ solve
    \/ \E f \in Functions, p \in Points, isNew \in BOOLEAN : evaluate(f, p, isNew)
    \/ \E i \in Shots : prepareShot(i)
    \/ combine
    \/ \E p \in Points : finalize_solution(p) \/ changeInitialState(p)

Spec == Init /\ [][Next]_vars

--------------------------------------------------------------------------------
(***************************************************************************)
(* Properties                                                              *)
(***************************************************************************)
TypeOK ==
    /\ settings \in Settings
    /\ x \in Points /\ updateCount \in 0 .. MaxUpdates
    /\ spline \in Points \cup {NoPoint}
    /\ shots \in [Shots -> ShotType]
    /\ pc \in {"idle", "solver", "evaluates"}
    /\ asked \in Points \cup {NoPoint}
    /\ function \in Functions \cup {"none"}
    /\ pending \subseteq Shots
    /\ answer \in {<<>>} \cup (Functions \X Origins)

\* The caches of a shot hold one rollout at most, however often functions are
\* evaluated: they do not grow, and what stands at their front, where the
\* integrations read, is the rollout pushed last.
OneRolloutCached ==
    \A i \in Shots :
        /\ Len(shots[i].statesCached) <= 1
        /\ Len(shots[i].arrayA) <= 1
        /\ Len(shots[i].arraydX0) <= 1

\* Whatever the solver has asked before, in whatever order, and whatever has
\* overwritten the vector between solves: an answer is computed from the point
\* asked for, from nothing else, and from all that it needs.
Abstract == INSTANCE NlpFunctions
    WITH query <- IF pc = "evaluates" THEN <<function, asked>> ELSE <<>>

ImplementsNlpFunctions == Abstract!Spec
================================================================================
