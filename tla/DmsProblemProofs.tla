--------------------------- MODULE DmsProblemProofs ---------------------------
(****************************************************************************)
(* Proofs about DmsProblem for any shots, points, settings and number of    *)
(* updates: types, caches of one rollout, and that what the solver gets are *)
(* functions of the point it asks for.                                      *)
(*                                                                          *)
(* The inductive invariant says of every shot what its counts stand for: a  *)
(* count that equals the update count of the vector vouches for the result  *)
(* and for the caches it was computed from, one that does not for empty     *)
(* caches.  It holds of the point the spline was computed from, not of the  *)
(* vector, which is overwritten between solves without being counted.       *)
(****************************************************************************)
EXTENDS DmsProblem, TLAPS

\* What the counts of shot s vouch for, after n updates, the last to z.
CountsVouch(s, z, n, full) ==
    /\ s.integrationCount <= n /\ s.costIntegrationCount <= n
    /\ s.sensIntegrationCount <= n /\ s.costSensIntegrationCount <= n
    /\ n = 0 \/ s.integrationCount # n => s.statesCached = <<>>
    /\ n = 0 \/ s.sensIntegrationCount # n => s.arrayA = <<>> /\ s.arraydX0 = <<>>
    /\ n > 0 /\ s.integrationCount = n => s.statesCached = <<{z}>> /\ s.stateSubsteps = {z}
    /\ n > 0 /\ s.costIntegrationCount = n => s.cost = {z}
    /\ n > 0 /\ s.sensIntegrationCount = n =>
         /\ s.integrationCount = n
         /\ s.arrayA = <<{z}>> /\ s.discreteA = {z}
         /\ s.arraydX0 = IF full THEN <<{z}>> ELSE <<>>
    /\ n > 0 /\ s.costSensIntegrationCount = n => s.discreteQ = {z}

\* Vector, spline and solver agree from the first evaluation of a solve on.
PointAgreed ==
    /\ pc # "idle" /\ asked # NoPoint => updateCount > 0 /\ x = asked /\ spline = asked
    /\ pc = "evaluates" => asked # NoPoint /\ function \in Functions

\* The loop is for functions that use the shots, and what it has done stays.
LoopDone ==
    /\ pending # {} => UsesShots(function)
    /\ pc = "evaluates" /\ UsesShots(function) =>
         \A i \in Shots \ pending : Result(shots[i]) = {asked}

IInv ==
    /\ TypeOK /\ PointAgreed /\ LoopDone
    /\ \A i \in Shots : CountsVouch(shots[i], spline, updateCount, settings.full)

--------------------------------------------------------------------------------
(***************************************************************************)
(* The operations of a shot                                                *)
(***************************************************************************)
\* Concatenation and Append as the integrations use them.
LEMMA OneRollout ==
    ASSUME NEW w
    PROVE  <<>> \o <<w>> = <<w>> /\ Append(<<>>, w) = <<w>> /\ First(<<w>>) = w
  BY DEF First

\* The length of a cache.
LEMMA RolloutLength ==
    ASSUME NEW w, NEW c, c = <<>> \/ c = <<w>>
    PROVE  Len(c) <= 1
  <1>1. CASE c = <<>>
    BY <1>1
  <1>2. CASE c = <<w>>
    BY <1>2
  <1> QED
    BY <1>1, <1>2

\* After integrateShot the state is that of the last update.
LEMMA ShotIntegrated ==
    ASSUME NEW s \in ShotType, NEW z \in Points, NEW n \in Nat \ {0}, NEW full \in BOOLEAN,
           CountsVouch(s, z, n, full), NEW t, t = integrateShot(s, {z}, n)
    PROVE  /\ t \in ShotType /\ CountsVouch(t, z, n, full)
           /\ t.integrationCount = n /\ t.stateSubsteps = {z} /\ t.statesCached = <<{z}>>
           /\ t.sensIntegrationCount = s.sensIntegrationCount
  <1>1. {z} \in Origins /\ <<{z}>> \in Seq(Origins) /\ <<>> \in Seq(Origins)
    BY DEF Origins
  <1>2. CASE n = s.integrationCount
    BY <1>2 DEF integrateShot, CountsVouch
  <1>3. CASE n # s.integrationCount
    <2>1. t = [s EXCEPT !.integrationCount = n, !.statesCached = <<{z}>>, !.arrayA = <<>>,
                        !.stateSubsteps = {z}]
      BY <1>3 DEF integrateShot
    <2>2. t \in ShotType
      BY <1>1, <2>1 DEF ShotType
    <2>3. /\ t.integrationCount = n /\ t.statesCached = <<{z}>> /\ t.arrayA = <<>>
          /\ t.stateSubsteps = {z} /\ t.arraydX0 = s.arraydX0
          /\ t.costIntegrationCount = s.costIntegrationCount /\ t.cost = s.cost
          /\ t.sensIntegrationCount = s.sensIntegrationCount
          /\ t.costSensIntegrationCount = s.costSensIntegrationCount /\ t.discreteQ = s.discreteQ
      BY <2>1 DEF ShotType
    <2>4. s.sensIntegrationCount # n
      BY <1>3 DEF CountsVouch
    <2>5. n > 0 /\ n <= n
      OBVIOUS
    <2>6. CountsVouch(t, z, n, full)
      BY <2>3, <2>4, <2>5 DEF CountsVouch
    <2> QED
      BY <2>2, <2>3, <2>6
  <1> QED
    BY <1>2, <1>3

\* After integrateCost the cost is that of the last update.
LEMMA CostIntegrated ==
    ASSUME NEW s \in ShotType, NEW z \in Points, NEW n \in Nat \ {0}, NEW full \in BOOLEAN,
           CountsVouch(s, z, n, full), NEW t, t = integrateCost(s, {z}, n)
    PROVE  t \in ShotType /\ CountsVouch(t, z, n, full) /\ t.cost = {z}
  <1>1. CASE n = s.costIntegrationCount
    BY <1>1 DEF integrateCost, CountsVouch
  <1>2. CASE n # s.costIntegrationCount
    <2>1. PICK r : r = integrateShot(s, {z}, n)
      OBVIOUS
    <2>2. r \in ShotType /\ CountsVouch(r, z, n, full) /\ r.statesCached = <<{z}>>
      BY ONLY s \in ShotType, z \in Points, n \in Nat \ {0}, full \in BOOLEAN,
              CountsVouch(s, z, n, full), <2>1, ShotIntegrated, SMTT(20)
    <2>3. First(r.statesCached) = {z} /\ {z} \in Origins
      BY <2>2, OneRollout DEF Origins
    <2>4. t = [r EXCEPT !.costIntegrationCount = n, !.cost = {z}]
      BY <1>2, <2>1, <2>3 DEF integrateCost
    <2>5. t \in ShotType
      BY <2>2, <2>3, <2>4 DEF ShotType
    <2>6. /\ t.costIntegrationCount = n /\ t.cost = {z}
          /\ t.integrationCount = r.integrationCount /\ t.statesCached = r.statesCached
          /\ t.stateSubsteps = r.stateSubsteps
          /\ t.sensIntegrationCount = r.sensIntegrationCount /\ t.arrayA = r.arrayA
          /\ t.arraydX0 = r.arraydX0 /\ t.discreteA = r.discreteA
          /\ t.costSensIntegrationCount = r.costSensIntegrationCount /\ t.discreteQ = r.discreteQ
      BY <2>2, <2>4 DEF ShotType
    <2>7. n <= n
      OBVIOUS
    <2>8. CountsVouch(t, z, n, full)
      BY <2>2, <2>6, <2>7 DEF CountsVouch
    <2> QED
      BY <2>5, <2>6, <2>8
  <1> QED
    BY <1>1, <1>2

\* After integrateSensitivities they are those of the last update.
LEMMA SensitivitiesIntegrated ==
    ASSUME NEW s \in ShotType, NEW z \in Points, NEW n \in Nat \ {0}, NEW full \in BOOLEAN,
           CountsVouch(s, z, n, full), NEW t, t = integrateSensitivities(s, {z}, n, full)
    PROVE  /\ t \in ShotType /\ CountsVouch(t, z, n, full)
           /\ t.sensIntegrationCount = n /\ t.discreteA = {z}
  <1>1. CASE n = s.sensIntegrationCount
    BY <1>1 DEF integrateSensitivities, CountsVouch
  <1>2. CASE n # s.sensIntegrationCount
    <2>1. PICK r : r = integrateShot(s, {z}, n)
      OBVIOUS
    <2>2. /\ r \in ShotType /\ CountsVouch(r, z, n, full) /\ r.statesCached = <<{z}>>
          /\ r.sensIntegrationCount # n /\ r.integrationCount = n
      <3>1. /\ r \in ShotType /\ CountsVouch(r, z, n, full)
            /\ r.integrationCount = n /\ r.stateSubsteps = {z} /\ r.statesCached = <<{z}>>
            /\ r.sensIntegrationCount = s.sensIntegrationCount
        BY ONLY s \in ShotType, z \in Points, n \in Nat \ {0}, full \in BOOLEAN,
                CountsVouch(s, z, n, full), <2>1, ShotIntegrated, SMTT(20)
      <3> QED
        BY ONLY <1>2, <3>1
    <2>3. r.arrayA = <<>> /\ r.arraydX0 = <<>>
      BY <2>2 DEF CountsVouch
    <2>4. /\ r.arrayA \o r.statesCached = <<{z}>> /\ First(<<{z}>>) = {z}
          /\ Append(r.arraydX0, {z}) = <<{z}>>
      BY <2>2, <2>3, OneRollout
    <2>5. {z} \in Origins /\ <<{z}>> \in Seq(Origins) /\ <<>> \in Seq(Origins)
      BY DEF Origins
    <2>6. t = [r EXCEPT !.sensIntegrationCount = n, !.arrayA = <<{z}>>, !.discreteA = {z},
                        !.arraydX0 = IF full THEN <<{z}>> ELSE <<>>]
      BY <1>2, <2>1, <2>3, <2>4 DEF integrateSensitivities
    <2>7. t \in ShotType
      BY <2>2, <2>5, <2>6 DEF ShotType
    <2>8. CountsVouch(t, z, n, full) /\ t.sensIntegrationCount = n /\ t.discreteA = {z}
      BY <2>2, <2>6 DEF CountsVouch, ShotType
    <2> QED
      BY <2>7, <2>8
  <1> QED
    BY <1>1, <1>2

\* With the full cost, so is the gradient after integrateCostSensitivities.
LEMMA CostSensitivitiesIntegrated ==
    ASSUME NEW s \in ShotType, NEW z \in Points, NEW n \in Nat \ {0}, NEW full \in BOOLEAN,
           CountsVouch(s, z, n, full), NEW t, t = integrateCostSensitivities(s, {z}, n, full)
    PROVE  full => t \in ShotType /\ CountsVouch(t, z, n, full) /\ t.discreteQ = {z}
  <1>1. CASE n = s.costSensIntegrationCount
    BY <1>1 DEF integrateCostSensitivities, CountsVouch
  <1>2. CASE n # s.costSensIntegrationCount
    <2>1. PICK r : r = integrateSensitivities(s, {z}, n, full)
      OBVIOUS
    <2>2. r \in ShotType /\ CountsVouch(r, z, n, full) /\ r.sensIntegrationCount = n
      BY <2>1, SensitivitiesIntegrated
    <2>3. full => r.arraydX0 = <<{z}>> /\ r.statesCached = <<{z}>>
      BY <2>2 DEF CountsVouch
    <2>4. full => First(r.arraydX0) \cup First(r.statesCached) = {z} /\ {z} \in Origins
      BY <2>3, OneRollout DEF Origins
    <2>5. full => t = [r EXCEPT !.costSensIntegrationCount = n, !.discreteQ = {z}]
      BY <1>2, <2>1, <2>4 DEF integrateCostSensitivities
    <2>6. full => t \in ShotType
      BY <2>2, <2>4, <2>5 DEF ShotType
    <2>7. full => CountsVouch(t, z, n, full) /\ t.discreteQ = {z}
      BY <2>2, <2>5 DEF CountsVouch, ShotType
    <2> QED
      BY <2>6, <2>7
  <1> QED
    BY <1>1, <1>2

\* An update leaves empty caches and no count that vouches for anything.
LEMMA ShotReset ==
    ASSUME NEW s \in ShotType, NEW z, NEW y, NEW n \in Nat, NEW full \in BOOLEAN,
           CountsVouch(s, z, n, full)
    PROVE  reset(s) \in ShotType /\ CountsVouch(reset(s), y, n + 1, full)
  <1>1. <<>> \in Seq(Origins)
    OBVIOUS
  <1>2. reset(s) \in ShotType
    BY <1>1 DEF reset, ShotType
  <1>3. CountsVouch(reset(s), y, n + 1, full)
    BY DEF reset, ShotType, CountsVouch
  <1> QED
    BY <1>2, <1>3

--------------------------------------------------------------------------------
(***************************************************************************)
(* The invariant                                                           *)
(***************************************************************************)
LEMMA InitIInv == Init => IInv
  <1> SUFFICES ASSUME Init PROVE IInv
    OBVIOUS
  <1>1. EmptyShot \in ShotType /\ \A full \in BOOLEAN : CountsVouch(EmptyShot, NoPoint, 0, full)
    <2>1. <<>> \in Seq(Origins) /\ Never \in Origins
      BY DEF Never, Origins
    <2>2. EmptyShot \in ShotType
      BY <2>1 DEF EmptyShot, ShotType
    <2>3. \A full \in BOOLEAN : CountsVouch(EmptyShot, NoPoint, 0, full)
      BY DEF EmptyShot, CountsVouch
    <2> QED
      BY <2>2, <2>3
  <1>2. settings.full \in BOOLEAN
    BY DEF Init, Settings
  <1>3. TypeOK
    BY <1>1, UpdatesAssumption DEF Init, TypeOK
  <1> QED
    BY <1>1, <1>2, <1>3 DEF Init, IInv, PointAgreed, LoopDone

\* One shot of the loop.
LEMMA ShotPrepared ==
    ASSUME IInv, NEW i \in Shots, prepareShot(i), NEW t, t = Prepared(shots[i])
    PROVE  /\ t \in ShotType /\ CountsVouch(t, spline, updateCount, settings.full)
           /\ Result(t) = {asked}
  <1> DEFINE s == shots[i]
             n == updateCount
             full == settings.full
  <1>1. s \in ShotType /\ CountsVouch(s, spline, n, full) /\ full \in BOOLEAN
    BY DEF IInv, TypeOK, Settings
  <1>2. /\ spline \in Points /\ n \in Nat \ {0} /\ x = spline /\ asked = spline
        /\ function \in Functions /\ UsesShots(function)
    BY UpdatesAssumption DEF IInv, TypeOK, PointAgreed, LoopDone, prepareShot
  <1>3. {x, spline} = {spline}
    BY <1>2
  <1>4. t \in ShotType /\ CountsVouch(t, spline, n, full) /\ Result(t) = {spline}
    <2> HIDE DEF s, n, full
    <2>1. CASE function = "eval_f"
      <3>1. t = integrateCost(s, {spline}, n)
        BY <1>3, <2>1 DEF Prepared, s, n
      <3>2. t \in ShotType /\ CountsVouch(t, spline, n, full) /\ t.cost = {spline}
        BY <1>1, <1>2, <3>1, CostIntegrated
      <3> QED
        BY <2>1, <3>2 DEF Result
    <2>2. CASE function = "eval_grad_f"
      <3>1. t = integrateCostSensitivities(s, {spline}, n, full)
        BY <1>3, <2>2 DEF Prepared, s, n, full
      <3>2. full
        BY <1>2, <2>2 DEF UsesShots, full
      <3>3. t \in ShotType /\ CountsVouch(t, spline, n, full) /\ t.discreteQ = {spline}
        BY <1>1, <1>2, <3>1, <3>2, CostSensitivitiesIntegrated
      <3> QED
        BY <2>2, <3>3 DEF Result
    <2>3. CASE function = "eval_g"
      <3>1. t = integrateShot(s, {spline}, n)
        BY <1>3, <2>3 DEF Prepared, s, n
      <3>2. t \in ShotType /\ CountsVouch(t, spline, n, full) /\ t.stateSubsteps = {spline}
        BY <1>1, <1>2, <3>1, ShotIntegrated
      <3> QED
        BY <2>3, <3>2 DEF Result
    <2>4. CASE function = "eval_jac_g"
      <3>1. t = integrateSensitivities(s, {spline}, n, full)
        BY <1>3, <2>4 DEF Prepared, s, n, full
      <3>2. t \in ShotType /\ CountsVouch(t, spline, n, full) /\ t.discreteA = {spline}
        <4>1. \A u : u = integrateSensitivities(s, {spline}, n, full) =>
                 u \in ShotType /\ CountsVouch(u, spline, n, full) /\ u.discreteA = {spline}
          BY <1>1, <1>2, SensitivitiesIntegrated
        <4> QED
          BY <3>1, <4>1
      <3> QED
        BY <2>4, <3>2 DEF Result
    <2> QED
      BY <1>2, <2>1, <2>2, <2>3, <2>4 DEF UsesShots
  <1> QED
    BY <1>2, <1>4

\* When the loop is over, everything comes from the point asked for.
LEMMA ComputedFromAsked ==
    ASSUME IInv, combine
    PROVE  answer' = <<function, {asked}>> /\ function \in Functions /\ asked \in Points
  <1>1. x = asked /\ spline = asked /\ function \in Functions /\ asked \in Points
    BY DEF IInv, TypeOK, PointAgreed, combine
  <1>2. CASE UsesShots(function)
    <2>1. \A i \in Shots : Result(shots[i]) = {asked}
      BY <1>2 DEF IInv, LoopDone, combine
    <2>2. {x, spline} \cup UNION {Result(shots[i]) : i \in Shots} = {asked}
      BY <1>1, <2>1
    <2> QED
      BY <1>1, <1>2, <2>2 DEF combine
  <1>3. CASE ~UsesShots(function)
    BY <1>1, <1>3 DEF combine
  <1> QED
    BY <1>2, <1>3

LEMMA NextIInv == IInv /\ [Next]_vars => IInv'
  <1> SUFFICES ASSUME IInv, [Next]_vars PROVE IInv'
    OBVIOUS
  <1>0. /\ TypeOK /\ updateCount \in Nat /\ settings.full \in BOOLEAN
        /\ \A i \in Shots : /\ shots[i] \in ShotType
                            /\ CountsVouch(shots[i], spline, updateCount, settings.full)
    BY UpdatesAssumption DEF IInv, TypeOK, Settings
  <1>1. CASE solve
    <2>1. UNCHANGED <<settings, x, updateCount, spline, shots, function, pending, answer>>
      BY <1>1 DEF solve
    <2>2. UsesShots(function)' = UsesShots(function)
      BY <2>1 DEF UsesShots
    <2> QED
      BY <1>0, <1>1, <2>1, <2>2 DEF solve, IInv, TypeOK, PointAgreed, LoopDone
  <1>2. ASSUME NEW f \in Functions, NEW p \in Points, NEW isNew \in BOOLEAN, evaluate(f, p, isNew)
        PROVE  IInv'
    <2>1. /\ pc' = "evaluates" /\ asked' = p /\ function' = f /\ answer' = <<>>
          /\ pending' = (IF UsesShots(f) THEN Shots ELSE {}) /\ settings' = settings
          /\ UsesShots(f)' = UsesShots(f)
      BY <1>2 DEF evaluate, UsesShots
    <2>2. CASE isNew
      <3>1. /\ x' = p /\ updateCount' = updateCount + 1 /\ spline' = p
            /\ shots' = [i \in Shots |-> reset(shots[i])] /\ updateCount < MaxUpdates
        BY <1>2, <2>2 DEF evaluate, extractOptimizationVars, setOptimizationVars, updateProblem
      <3>2. \A i \in Shots : /\ reset(shots[i]) \in ShotType
                             /\ CountsVouch(reset(shots[i]), p, updateCount + 1, settings.full)
        BY <1>0, ShotReset
      <3>3. TypeOK'
        BY <1>0, <2>1, <3>1, <3>2, UpdatesAssumption DEF TypeOK
      <3>4. PointAgreed'
        BY <1>0, <2>1, <3>1, PointsAssumption DEF PointAgreed
      <3>5. LoopDone'
        BY <2>1 DEF LoopDone
      <3> QED
        BY <2>1, <3>1, <3>2, <3>3, <3>4, <3>5 DEF IInv
    <2>3. CASE ~isNew
      <3>1. UNCHANGED <<x, updateCount, spline, shots>> /\ p = asked /\ pc = "solver"
        BY <1>2, <2>3 DEF evaluate, extractOptimizationVars, setOptimizationVars, updateProblem
      <3>2. TypeOK'
        BY <1>0, <2>1, <3>1 DEF TypeOK
      <3>3. PointAgreed' /\ LoopDone'
        BY <2>1, <3>1, PointsAssumption DEF IInv, PointAgreed, LoopDone
      <3> QED
        BY <1>0, <2>1, <3>1, <3>2, <3>3 DEF IInv
    <2> QED
      BY <2>2, <2>3
  <1>3. ASSUME NEW i \in Shots, prepareShot(i) PROVE IInv'
    <2> DEFINE t == Prepared(shots[i])
    <2>1. t \in ShotType /\ CountsVouch(t, spline, updateCount, settings.full) /\ Result(t) = {asked}
      BY <1>3, ShotPrepared
    <2>2. /\ shots' = [shots EXCEPT ![i] = t] /\ pending' = pending \ {i}
          /\ UNCHANGED <<settings, x, updateCount, spline, pc, asked, function, answer>>
      BY <1>3 DEF prepareShot
    <2> HIDE DEF t
    <2>3. \A j \in Shots : shots'[j] = IF j = i THEN t ELSE shots[j]
      BY <1>0, <2>2 DEF TypeOK
    <2>4. TypeOK'
      BY <1>0, <2>1, <2>2 DEF TypeOK
    <2>5. PointAgreed'
      BY <2>2 DEF IInv, PointAgreed
    <2>6. /\ UsesShots(function)' = UsesShots(function)
          /\ \A s : Result(s)' = Result(s)
      BY <2>2 DEF UsesShots, Result
    <2>7. LoopDone'
      BY <2>1, <2>2, <2>3, <2>6 DEF IInv, LoopDone, Result
    <2> QED
      BY <1>0, <2>1, <2>2, <2>3, <2>4, <2>5, <2>7 DEF IInv
  <1>4. CASE combine
    <2>1. answer' = <<function, {asked}>> /\ function \in Functions /\ asked \in Points
      BY <1>4, ComputedFromAsked
    <2>2. /\ pc' = "solver"
          /\ UNCHANGED <<settings, x, updateCount, spline, shots, asked, function, pending>>
      BY <1>4 DEF combine
    <2>3. UsesShots(function)' = UsesShots(function)
      BY <2>2 DEF UsesShots
    <2>4. {asked} \in Origins
      BY <2>1 DEF Origins
    <2>5. TypeOK'
      BY <1>0, <2>1, <2>2, <2>4 DEF TypeOK
    <2> QED
      BY <1>0, <1>4, <2>2, <2>3, <2>5 DEF combine, IInv, PointAgreed, LoopDone
  <1>5. ASSUME NEW p \in Points, finalize_solution(p) \/ changeInitialState(p) PROVE IInv'
    <2>1. /\ x' = p /\ pc' = "idle"
          /\ UNCHANGED <<settings, updateCount, spline, shots, asked, function, pending, answer>>
      BY <1>5 DEF finalize_solution, changeInitialState
    <2>2. UsesShots(function)' = UsesShots(function)
      BY <2>1 DEF UsesShots
    <2> QED
      BY <1>0, <2>1, <2>2 DEF IInv, TypeOK, PointAgreed, LoopDone
  <1>6. CASE UNCHANGED vars
    <2>1. UsesShots(function)' = UsesShots(function) /\ \A s : Result(s)' = Result(s)
      BY <1>6 DEF vars, UsesShots, Result
    <2> QED
      BY <1>0, <1>6, <2>1 DEF vars, IInv, TypeOK, PointAgreed, LoopDone, Result
  <1> QED
    BY <1>1, <1>2, <1>3, <1>4, <1>5, <1>6 DEF Next

LEMMA Invariance == Spec => []IInv
  BY InitIInv, NextIInv, PTL DEF Spec

--------------------------------------------------------------------------------
\* Vector, spline, shots and answers are of their types throughout.
THEOREM TypeCorrect == Spec => []TypeOK
  <1>1. IInv => TypeOK
    BY DEF IInv
  <1> QED
    BY <1>1, Invariance, PTL

\* However often functions are evaluated, the caches of a shot hold at most
\* one rollout: linearize and the sensitivity integrations, which only add to
\* them, are never run twice between two resets.
THEOREM CachesBounded == Spec => []OneRolloutCached
  <1>1. IInv => OneRolloutCached
    <2> SUFFICES ASSUME IInv, NEW i \in Shots
                 PROVE  /\ Len(shots[i].statesCached) <= 1
                        /\ Len(shots[i].arrayA) <= 1
                        /\ Len(shots[i].arraydX0) <= 1
      BY DEF OneRolloutCached
    <2> DEFINE s == shots[i]
    <2>1. CountsVouch(s, spline, updateCount, settings.full) /\ updateCount \in Nat
      BY UpdatesAssumption DEF IInv, TypeOK
    <2>2. s.statesCached = <<>> \/ s.statesCached = <<{spline}>>
      BY <2>1 DEF CountsVouch
    <2>3. s.arrayA = <<>> \/ s.arrayA = <<{spline}>>
      BY <2>1 DEF CountsVouch
    <2>4. s.arraydX0 = <<>> \/ s.arraydX0 = <<{spline}>>
      BY <2>1 DEF CountsVouch
    <2>5. Len(s.statesCached) <= 1 /\ Len(s.arrayA) <= 1 /\ Len(s.arraydX0) <= 1
      <3> HIDE DEF s
      <3> QED BY <2>2, <2>3, <2>4, RolloutLength
    <2> QED
      BY <2>5
  <1> QED
    BY <1>1, Invariance, PTL

\* What the NLP solver is given are functions of the point it asks for, for any
\* sequence of evaluations and solves: the shots with their counts, caches and
\* resets implement plain function evaluation.
THEOREM Refinement == Spec => ImplementsNlpFunctions
  <1>1. Init => Abstract!Init
    BY DEF Init, Abstract!Init, Abstract!Nothing
  <1>2. IInv /\ [Next]_vars => [Abstract!Next]_(Abstract!vars)
    <2> SUFFICES ASSUME IInv, [Next]_vars PROVE [Abstract!Next]_(Abstract!vars)
      OBVIOUS
    <2> USE DEF Abstract!Nothing
    <2>1. ASSUME NEW f \in Functions, NEW p \in Points, NEW isNew \in BOOLEAN,
                 evaluate(f, p, isNew)
          PROVE  Abstract!Ask(f, p)
      BY <2>1 DEF evaluate, Abstract!Ask
    <2>2. CASE combine
      <3>1. answer' = <<function, {asked}>>
        BY <2>2, ComputedFromAsked
      <3>2. pc = "evaluates" /\ pc' = "solver"
        BY <2>2 DEF combine
      <3>3. <<function, asked>> # <<>> /\ <<function, asked>>[1] = function
            /\ <<function, asked>>[2] = asked
        OBVIOUS
      <3>4. Abstract!Answer
        BY <3>1, <3>2, <3>3 DEF Abstract!Answer
      <3> QED
        BY <3>4 DEF Abstract!Next
    <2>3. CASE solve \/ (\E p \in Points : finalize_solution(p) \/ changeInitialState(p))
               \/ UNCHANGED vars
      BY <2>3 DEF solve, finalize_solution, changeInitialState, vars, Abstract!vars
    <2>4. CASE \E i \in Shots : prepareShot(i)
      BY <2>4 DEF prepareShot, Abstract!vars
    <2> QED
      BY <2>1, <2>2, <2>3, <2>4 DEF Next, Abstract!Next
  <1> QED
    BY <1>1, <1>2, Invariance, PTL DEF Spec, ImplementsNlpFunctions, Abstract!Spec
================================================================================
