----------------------------- MODULE ShotContainer -----------------------------
(****************************************************************************)
(* One shot of direct multiple shooting: ShotContainer with its             *)
(* SensitivityIntegratorCT.  The shot remembers for which update of the     *)
(* optimisation vector it has integrated the state, the cost and their      *)
(* sensitivities, and its integrator keeps what the next integration works  *)
(* on.  Numbers are not modelled but where they come from: the set of       *)
(* points that went into them, {NoPoint} for what was never computed.       *)
(*                                                                          *)
(* Caches of the integrator are sequences with one entry per rollout that   *)
(* was pushed onto them, where the code has one entry per stepper stage of  *)
(* it; the integrations read from the front.                                *)
(****************************************************************************)
EXTENDS Naturals, Sequences

CONSTANTS Points,     \* the optimisation vectors
          NoPoint

ASSUME PointsAssumption == NoPoint \notin Points

Origins == SUBSET (Points \cup {NoPoint})
Never   == {NoPoint}

EmptyShot ==
    [integrationCount |-> 0, costIntegrationCount |-> 0,
     sensIntegrationCount |-> 0, costSensIntegrationCount |-> 0,
     statesCached |-> <<>>,     \* also controlsCached_ and timesCached_
     arrayA       |-> <<>>,     \* also arrayB_
     arraydX0     |-> <<>>,     \* also arraydU0_ and arraydUf_
     stateSubsteps |-> Never, cost |-> Never,
     discreteA |-> Never,       \* also discreteB_ and discreteBNext_
     discreteQ |-> Never]       \* also discreteR_ and discreteRNext_

ShotType ==
    [integrationCount : Nat, costIntegrationCount : Nat,
     sensIntegrationCount : Nat, costSensIntegrationCount : Nat,
     statesCached : Seq(Origins), arrayA : Seq(Origins), arraydX0 : Seq(Origins),
     stateSubsteps : Origins, cost : Origins, discreteA : Origins, discreteQ : Origins]

\* Index 0 of a cache; out of range if nothing was pushed.
First(cache) == IF cache = <<>> THEN Never ELSE cache[1]

--------------------------------------------------------------------------------
\* w is what the vector and the spline of the controls come from, n the update
\* count of the vector.
integrateShot(s, w, n) ==
    IF n = s.integrationCount THEN s
    ELSE [s EXCEPT !.integrationCount = n,
                   !.statesCached = <<w>>, !.arrayA = <<>>,
                   !.stateSubsteps = w]

integrateCost(s, w, n) ==
    IF n = s.costIntegrationCount THEN s
    ELSE LET t == integrateShot(s, w, n)
         IN  [t EXCEPT !.costIntegrationCount = n, !.cost = First(t.statesCached)]

\* Wrong on purpose: the count is not kept.
integrateSensitivitiesAlways(s, w, n, full) ==
    LET t == integrateShot(s, w, n)
        A == t.arrayA \o t.statesCached
    IN  [t EXCEPT !.arrayA = A, !.discreteA = First(A),
                  !.arraydX0 = IF full THEN Append(t.arraydX0, First(A)) ELSE t.arraydX0]

\* linearize() adds to arrayA_ whatever is there; with the full cost the
\* sensitivities are kept for the gradient (cacheSensitivities_).
integrateSensitivities(s, w, n, full) ==
    IF n = s.sensIntegrationCount THEN s
    ELSE LET t == integrateShot(s, w, n)
             A == t.arrayA \o t.statesCached
         IN  [t EXCEPT !.sensIntegrationCount = n,
                       !.arrayA = A, !.discreteA = First(A),
                       !.arraydX0 = IF full THEN Append(t.arraydX0, First(A)) ELSE t.arraydX0]

integrateCostSensitivities(s, w, n, full) ==
    IF n = s.costSensIntegrationCount THEN s
    ELSE LET t == integrateSensitivities(s, w, n, full)
         IN  [t EXCEPT !.costSensIntegrationCount = n,
                       !.discreteQ = First(t.arraydX0) \cup First(t.statesCached)]

\* Wrong on purpose: the sensitivities stay.
resetStates(s) == [s EXCEPT !.statesCached = <<>>, !.arrayA = <<>>]

reset(s) == [s EXCEPT !.statesCached = <<>>, !.arraydX0 = <<>>, !.arrayA = <<>>]
================================================================================
