-------------------------- MODULE CppadParallelProofs --------------------------
(****************************************************************************)
(* The numbers CppadParallel hands out are distinct and in range, for any   *)
(* number of threads, of ids and of sections.                               *)
(****************************************************************************)
EXTENDS CppadParallel, FiniteSetTheorems, TLAPS

Asking == {"look", "insert", "read"}

\* Outside of a section nobody is registered and nobody runs but Main;
\* within one, Main has the number 0.
Section ==
    IF isSequential
    THEN /\ announced = {} /\ Known = {}
         /\ \A t \in Others : pc[t] = "none"
         /\ pc[Main] = "runs"
    ELSE numThreads \in announced /\ Main \in Known /\ threadMap[Main] = 0

\* Whoever is between lock and unlock holds the mutex.
MutexHeld == \A t \in Threads : pc[t] \in Asking <=> mutex = t

\* What a thread has found out under the mutex is still so.
FoundStill ==
    \A t \in Threads :
        /\ pc[t] = "insert" => Unregistered(t) /\ size[t] = Cardinality(Known)
        /\ pc[t] = "read" => t \in Known \/ Cardinality(Known) >= numThreads

NumbersFromMap ==
    \A t \in Threads :
        /\ number[t] # NoNumber => t \in Known /\ number[t] = threadMap[t]
        /\ pc[t] = "none" => number[t] = NoNumber

\* While the map has room its numbers are 0 .. its size - 1, each once; the
\* entries made when it is full are 0.
MapInRange == \A t \in Known : \E n \in announced : threadMap[t] < n

MapDistinct ==
    (\A n \in announced : Cardinality(Known) <= n) =>
        /\ \A t \in Known : threadMap[t] < Cardinality(Known)
        /\ \A t, u \in Known : threadMap[t] = threadMap[u] => t = u

IInv ==
    /\ TypeOK /\ IsFiniteSet(Known)
    /\ Section /\ MutexHeld /\ FoundStill /\ NumbersFromMap /\ MapInRange /\ MapDistinct

--------------------------------------------------------------------------------
\* An insertion adds one entry, or nothing if the thread has one.
LEMMA InsertedMap ==
    ASSUME TypeOK, IsFiniteSet(Known), NEW t \in Threads, NEW n \in Nat
    PROVE  /\ DOMAIN Inserted(t, n) = Known \cup {t}
           /\ Inserted(t, n) \in [Known \cup {t} -> Nat]
           /\ \A u \in Known : Inserted(t, n)[u] = threadMap[u]
           /\ t \notin Known => Inserted(t, n)[t] = n
           /\ IsFiniteSet(Known \cup {t})
           /\ Cardinality(Known) \in Nat
           /\ Cardinality(Known \cup {t})
                = IF t \in Known THEN Cardinality(Known) ELSE Cardinality(Known) + 1
  BY FS_AddElement, FS_CardinalityType DEF Inserted, TypeOK, Known

LEMMA InitIInv == Init => IInv
  <1> SUFFICES ASSUME Init PROVE IInv
    OBVIOUS
  <1>1. Known = {}
    BY DEF Init, Known
  <1>2. IsFiniteSet(Known) /\ Cardinality(Known) = 0
    BY <1>1, FS_EmptySet
  <1>3. TypeOK
    BY <1>1, ThreadsAssumption DEF Init, TypeOK, Threads, Busy, NoNumber, Known
  <1> QED
    BY <1>1, <1>2, <1>3, ThreadsAssumption
    DEF Init, IInv, Section, MutexHeld, FoundStill, NumbersFromMap, MapInRange, MapDistinct,
        Threads, NoNumber, Asking

LEMMA NextIInv == IInv /\ [Next]_vars => IInv'
  <1> SUFFICES ASSUME IInv, [Next]_vars PROVE IInv'
    OBVIOUS
  <1> USE ThreadsAssumption DEF Threads, NoNumber, Asking, Known
  <1>0. TypeOK /\ IsFiniteSet(Known) /\ Cardinality(Known) \in Nat
    BY FS_CardinalityType DEF IInv
  <1>1. ASSUME NEW n \in Sizes, initParallel(n) PROVE IInv'
    <2>1. /\ threadMap' = IF Main \in Known THEN threadMap ELSE [t \in {Main} |-> 0]
          /\ number' = [number EXCEPT ![Main] = threadMap'[Main]]
          /\ announced' = announced \cup {n} /\ n \in Nat \ {0, 1}
          /\ UNCHANGED <<mutex, pc, size>> /\ pc[Main] = "runs"
          /\ numThreads' = n /\ isSequential' = FALSE
      BY <1>1 DEF initParallel
    <2>2. \A t \in Threads : pc[t] \notin Asking
      BY <1>1 DEF initParallel, Alive
    <2>3. \/ isSequential /\ Known = {} /\ announced = {} /\ threadMap' = [t \in {Main} |-> 0]
          \/ ~isSequential /\ Main \in Known /\ threadMap[Main] = 0 /\ threadMap' = threadMap
      BY <2>1 DEF IInv, Section
    <2>4. /\ threadMap' \in [Known' -> Nat] /\ Known' \subseteq Threads
          /\ Main \in Known' /\ threadMap'[Main] = 0
      BY <1>0, <2>3 DEF TypeOK
    <2>5. IsFiniteSet(Known')
      <3>1. Known' = {Main} \/ Known' = Known
        BY <2>3
      <3>2. IsFiniteSet({Main})
        BY FS_Singleton
      <3> HIDE DEF Known
      <3> QED
        BY <1>0, <3>1, <3>2
    <2>6. TypeOK'
      BY <1>0, <2>1, <2>4 DEF TypeOK
    <2>7. MutexHeld' /\ FoundStill'
      BY <2>1, <2>2 DEF IInv, MutexHeld, FoundStill
    <2>8. Section'
      BY <2>1, <2>4 DEF Section
    <2>9. \A t \in Threads :
            t # Main /\ number[t] # NoNumber => t \in Known' /\ number[t] = threadMap'[t]
      BY <2>3 DEF IInv, NumbersFromMap
    <2>10. NumbersFromMap'
      BY <1>0, <2>1, <2>4, <2>9 DEF IInv, TypeOK, NumbersFromMap
    <2>11. MapInRange'
      <3>1. CASE isSequential
        BY <2>1, <2>3, <3>1 DEF MapInRange
      <3>2. CASE ~isSequential
        BY <2>1, <2>3, <3>2 DEF IInv, MapInRange
      <3> QED
        BY <3>1, <3>2
    <2>12. MapDistinct'
      <3>1. CASE isSequential
        <4>1. Cardinality(Known') = 1 /\ \A t \in Known' : t = Main /\ threadMap'[t] = 0
          BY <2>3, <3>1, FS_Singleton
        <4> HIDE DEF Known
        <4> QED
          BY <4>1 DEF MapDistinct
      <3>2. CASE ~isSequential
        BY <2>1, <2>3, <3>2 DEF IInv, MapDistinct
      <3> QED
        BY <3>1, <3>2
    <2> QED
      BY <2>5, <2>6, <2>7, <2>8, <2>10, <2>11, <2>12 DEF IInv
  <1>2. CASE resetParallel
    <2>1. Known' = {} /\ IsFiniteSet(Known') /\ Cardinality(Known') = 0
      BY <1>2, FS_EmptySet DEF resetParallel
    <2>2. \A t \in Others : pc[t] = "none" /\ number[t] = NoNumber
      BY <1>2 DEF resetParallel, Alive, IInv, NumbersFromMap
    <2>3. TypeOK'
      BY <1>0, <1>2, <2>1 DEF resetParallel, TypeOK
    <2> QED
      BY <1>0, <1>2, <2>1, <2>2, <2>3
      DEF resetParallel, IInv, TypeOK, Section, MutexHeld, FoundStill, NumbersFromMap, MapInRange,
          MapDistinct
  <1>3. ASSUME NEW t \in Others, spawn(t) \/ join(t) PROVE IInv'
    <2>1. UNCHANGED <<threadMap, numThreads, isSequential, mutex, size, announced>>
      BY <1>3 DEF spawn, join
    <2>2. TypeOK'
      BY <1>0, <1>3, <2>1 DEF spawn, join, TypeOK, Busy
    <2>3. Section'
      BY <1>0, <1>3, <2>1 DEF IInv, Section, spawn, join, TypeOK
    <2>4. MutexHeld' /\ FoundStill'
      BY <1>0, <1>3, <2>1 DEF IInv, MutexHeld, FoundStill, Unregistered, spawn, join, TypeOK
    <2>5. NumbersFromMap'
      BY <1>0, <1>3, <2>1 DEF IInv, NumbersFromMap, spawn, join, TypeOK
    <2> QED
      BY <1>0, <2>1, <2>2, <2>3, <2>4, <2>5 DEF IInv, MapInRange, MapDistinct
  <1>4. ASSUME NEW t \in Threads, ask(t) \/ lock(t) \/ look(t) PROVE IInv'
    <2>1. UNCHANGED <<threadMap, numThreads, isSequential, number, announced>>
      BY <1>4 DEF ask, lock, look
    <2>2. TypeOK'
      BY <1>0, <1>4, <2>1 DEF ask, lock, look, TypeOK, Goes, Busy
    <2>3. Section'
      BY <1>0, <1>4, <2>1 DEF IInv, Section, ask, lock, look, Goes, TypeOK
    <2>4. MutexHeld'
      BY <1>0, <1>4 DEF IInv, MutexHeld, ask, lock, look, Goes, TypeOK
    <2>5. FoundStill'
      BY <1>0, <1>4, <2>1 DEF IInv, FoundStill, Unregistered, ask, lock, look, Goes, TypeOK, Unset
    <2>6. NumbersFromMap'
      BY <1>0, <1>4, <2>1 DEF IInv, NumbersFromMap, ask, lock, look, Goes, TypeOK
    <2> QED
      BY <1>0, <2>1, <2>2, <2>3, <2>4, <2>5, <2>6 DEF IInv, MapInRange, MapDistinct
  <1>5. ASSUME NEW t \in Threads, insert(t) \/ read(t) PROVE IInv'
    <2> DEFINE n == IF pc[t] = "insert" THEN size[t] ELSE 0
    <2>1. n \in Nat /\ threadMap' = Inserted(t, n)
      BY <1>0, <1>5 DEF insert, read, Goes, TypeOK
    <2> HIDE DEF n
    <2>2. /\ Known' = Known \cup {t} /\ threadMap' \in [Known' -> Nat]
          /\ \A u \in Known : threadMap'[u] = threadMap[u]
          /\ t \notin Known => threadMap'[t] = n
          /\ IsFiniteSet(Known')
          /\ Cardinality(Known')
               = IF t \in Known THEN Cardinality(Known) ELSE Cardinality(Known) + 1
      <3>1. /\ DOMAIN Inserted(t, n) = DOMAIN threadMap \cup {t}
            /\ Inserted(t, n) \in [DOMAIN threadMap \cup {t} -> Nat]
            /\ \A u \in DOMAIN threadMap : Inserted(t, n)[u] = threadMap[u]
            /\ t \notin DOMAIN threadMap => Inserted(t, n)[t] = n
            /\ IsFiniteSet(DOMAIN threadMap \cup {t})
            /\ Cardinality(DOMAIN threadMap \cup {t})
                 = IF t \in DOMAIN threadMap THEN Cardinality(DOMAIN threadMap)
                                             ELSE Cardinality(DOMAIN threadMap) + 1
        BY <1>0, <2>1, InsertedMap
      <3>2. DOMAIN threadMap' = DOMAIN threadMap \cup {t}
        BY <2>1, <3>1
      <3> QED
        BY <2>1, <3>1, <3>2
    <2>3. /\ UNCHANGED <<numThreads, isSequential, announced>>
          /\ numThreads \in Nat \ {0} /\ announced \subseteq Nat
      BY <1>0, <1>5 DEF insert, read, TypeOK, Unset
    <2>4. mutex = t /\ \A u \in Threads : u # t => pc[u] \notin Asking
      BY <1>5 DEF insert, read, Goes, IInv, MutexHeld
    <2>5. ~isSequential /\ numThreads \in announced
      BY <1>5 DEF insert, read, Goes, IInv, Section
    <2>6. t \notin Known =>
            IF pc[t] = "insert" THEN n = Cardinality(Known) /\ Cardinality(Known) < numThreads
                                ELSE n = 0 /\ Cardinality(Known) >= numThreads
      BY <1>5 DEF insert, read, Goes, IInv, FoundStill, Unregistered, n
    <2>7. TypeOK'
      BY <1>0, <1>5, <2>2, <2>3 DEF insert, read, Goes, TypeOK, Busy
    <2>8. Section'
      BY <2>2, <2>3, <2>5 DEF IInv, Section
    <2>9. MutexHeld'
      BY <1>0, <1>5, <2>4 DEF insert, read, Goes, MutexHeld, TypeOK
    <2>10. FoundStill'
      BY <1>0, <1>5, <2>2, <2>3, <2>4 DEF insert, read, Goes, FoundStill, Unregistered, TypeOK
    <2>11. NumbersFromMap'
      BY <1>0, <1>5, <2>2 DEF insert, read, Goes, IInv, NumbersFromMap, TypeOK
    <2>12. MapInRange'
      <3>1. t \notin Known => threadMap'[t] < numThreads
        BY <1>0, <2>2, <2>3, <2>6
      <3> QED
        BY <2>2, <2>3, <2>5, <3>1 DEF IInv, MapInRange
    <2>13. MapDistinct'
      <3>1. CASE t \in Known
        BY <1>0, <2>2, <2>3, <3>1 DEF IInv, MapDistinct, TypeOK
      <3>2. CASE t \notin Known
        <4> SUFFICES ASSUME \A m \in announced : Cardinality(Known') <= m
                     PROVE  /\ \A u \in Known' : threadMap'[u] < Cardinality(Known')
                            /\ \A u, v \in Known' : threadMap'[u] = threadMap'[v] => u = v
          BY <2>3 DEF MapDistinct
        <4>1. Cardinality(Known') = Cardinality(Known) + 1 /\ Cardinality(Known') <= numThreads
          BY <2>2, <2>5, <3>2
        <4>2. threadMap'[t] = Cardinality(Known)
          BY <1>0, <2>2, <2>3, <2>6, <3>2, <4>1
        <4>3. \A m \in announced : Cardinality(Known) <= m
          <5>1. announced' = announced /\ \A m \in announced : Cardinality(Known') <= m
            BY <2>3
          <5> DEFINE before == Cardinality(Known)
                     after  == Cardinality(Known')
          <5>2. before \in Nat /\ after = before + 1 /\ \A m \in announced : after <= m
            BY <1>0, <4>1, <5>1
          <5> HIDE DEF before, after
          <5>3. \A m \in announced : before <= m
            BY <2>3, <5>2
          <5> QED
            BY <5>3 DEF before
        <4>4. /\ \A u \in Known : threadMap[u] < Cardinality(Known) /\ threadMap[u] \in Nat
              /\ \A u, v \in Known : threadMap[u] = threadMap[v] => u = v
          BY <1>0, <4>3 DEF IInv, MapDistinct, TypeOK
        <4> QED
          BY <1>0, <2>2, <4>1, <4>2, <4>4
      <3> QED
        BY <3>1, <3>2
    <2> QED
      BY <2>2, <2>7, <2>8, <2>9, <2>10, <2>11, <2>12, <2>13 DEF IInv
  <1>6. CASE UNCHANGED vars
    BY <1>6 DEF vars, IInv, TypeOK, Section, MutexHeld, FoundStill, Unregistered, NumbersFromMap,
                MapInRange, MapDistinct
  <1> QED
    BY <1>1, <1>2, <1>3, <1>4, <1>5, <1>6 DEF Next, threadNumber

\* IInv is an invariant of every behaviour.
THEOREM Invariant == Spec => []IInv
  BY InitIInv, NextIInv, PTL DEF Spec

--------------------------------------------------------------------------------
\* Type correctness of the singleton.
THEOREM TypeCorrect == Spec => []TypeOK
  BY Invariant, PTL DEF IInv

\* Threads alive in a section never share a number, hence never a memory
\* pool, as long as no more of them asked than any section since the last
\* resetParallel was entered for; the main thread has 0.
THEOREM DistinctNumbers == Spec => []NumbersDistinct
  <1>1. IInv => NumbersDistinct
    <2> SUFFICES ASSUME IInv, \A n \in announced : Cardinality(Known) <= n
                 PROVE  /\ number[Main] \in {0, NoNumber}
                        /\ \A t, u \in Threads :
                             number[t] = number[u] /\ number[t] # NoNumber => t = u
      BY DEF NumbersDistinct
    <2>1. number[Main] \in {0, NoNumber}
      BY DEF IInv, NumbersFromMap, Section, Threads
    <2>2. \A t, u \in Threads : number[t] = number[u] /\ number[t] # NoNumber => t = u
      BY DEF IInv, NumbersFromMap, MapDistinct
    <2> QED
      BY <2>1, <2>2
  <1> QED
    BY <1>1, Invariant, PTL

\* Every number indexes one of the pools of a section entered since the last
\* resetParallel, however many threads come and go.
THEOREM NumbersInBounds == Spec => []NumbersInRange
  <1>1. IInv => NumbersInRange
    BY DEF IInv, NumbersFromMap, MapInRange, NumbersInRange
  <1> QED
    BY <1>1, Invariant, PTL
================================================================================
