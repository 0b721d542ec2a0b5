----------------------------- MODULE CppadParallel -----------------------------
(****************************************************************************)
(* internal::CppadParallel, the singleton that tells CppAD's allocator the  *)
(* number of the thread that calls it.  The main thread enters a parallel   *)
(* section, spawns threads and joins them, again and again, then leaves it  *)
(* or enters another one, for more threads or for fewer, without leaving.   *)
(* The operating system may give a new thread any id that no living thread  *)
(* has.                                                                     *)
(****************************************************************************)
EXTENDS Integers, FiniteSets

CONSTANTS Main,     \* id of the main thread
          Others,   \* ids the operating system gives to the other threads
          Sizes,    \* numbers of threads a section is entered for
          Free      \* no thread

ASSUME ThreadsAssumption ==
    /\ Main \notin Others /\ IsFiniteSet(Others)
    /\ Free \notin Others \cup {Main}
    /\ Sizes \subseteq Nat \ {0, 1}

Threads == {Main} \cup Others

VARIABLES numThreads,   \* numThreads_, which resetParallel leaves alone
          isSequential, \* CppAD has no function to ask for a number: after
                        \* resetParallel, and before the first section
          threadMap,    \* threadMap_, hashes being as good as ids
          mutex,        \* who holds hashMutex_
          pc,           \* of every thread
          size,         \* threadMap_.size() as evaluated for the insertion
          number,       \* what thread_number() returned last
          announced     \* history: what the sections entered since the map
                        \* was cleared were entered for

vars == <<numThreads, isSequential, threadMap, mutex, pc, size, number, announced>>

Unset    == 100   \* numThreads_ of a new singleton
NoNumber == -1
Busy     == {"lock", "look", "insert", "read"}
Alive    == {t \in Others : pc[t] # "none"}
Known    == DOMAIN threadMap

--------------------------------------------------------------------------------
Init ==
    /\ numThreads = Unset /\ isSequential = TRUE
    /\ threadMap = [t \in {} |-> 0]
    /\ mutex = Free
    /\ pc = [t \in Threads |-> IF t = Main THEN "runs" ELSE "none"]
    /\ size = [t \in Threads |-> 0]
    /\ number = [t \in Threads |-> NoNumber]
    /\ announced = {}

\* initParallelImpl: parallel_ad allocates, which makes the main thread ask
\* for its number before the section begins.  No other thread is running.
\* The map is not cleared.
initParallel(n) ==
    /\ pc[Main] = "runs" /\ Alive = {}
    /\ numThreads' = n /\ isSequential' = FALSE
    /\ announced' = announced \cup {n}
    /\ threadMap' = IF Main \in Known THEN threadMap ELSE [t \in {Main} |-> 0]
    /\ number' = [number EXCEPT ![Main] = threadMap'[Main]]
    /\ UNCHANGED <<mutex, pc, size>>

resetParallel ==
    /\ ~isSequential /\ pc[Main] = "runs" /\ Alive = {}
    /\ isSequential' = TRUE
    /\ threadMap' = [t \in {} |-> 0] /\ announced' = {}
    /\ number' = [number EXCEPT ![Main] = NoNumber]
    /\ UNCHANGED <<numThreads, mutex, pc, size>>

\* The section was entered for numThreads threads, "count the main thread in".
spawn(t) ==
    /\ ~isSequential /\ pc[Main] = "runs"
    /\ t \in Others /\ pc[t] = "none"
    /\ Cardinality(Alive) < numThreads - 1
    /\ pc' = [pc EXCEPT ![t] = "runs"]
    /\ UNCHANGED <<numThreads, isSequential, threadMap, mutex, size, number, announced>>

join(t) ==
    /\ t \in Others /\ pc[t] = "runs" /\ pc[Main] = "runs"
    /\ pc' = [pc EXCEPT ![t] = "none"]
    /\ number' = [number EXCEPT ![t] = NoNumber]
    /\ UNCHANGED <<numThreads, isSequential, threadMap, mutex, size, announced>>

(***************************************************************************)
(* thread_number                                                           *)
(***************************************************************************)
Goes(t, from, to) == pc[t] = from /\ pc' = [pc EXCEPT ![t] = to]

ask(t) ==
    /\ ~isSequential /\ Goes(t, "runs", "lock")
    /\ UNCHANGED <<numThreads, isSequential, threadMap, mutex, size, number, announced>>

\* Wrong on purpose: the mutex is not waited for.
lockAnyway(t) ==
    /\ Goes(t, "lock", "look")
    /\ mutex' = t
    /\ UNCHANGED <<numThreads, isSequential, threadMap, size, number, announced>>

lock(t) ==
    /\ Goes(t, "lock", "look")
    /\ mutex = Free /\ mutex' = t
    /\ UNCHANGED <<numThreads, isSequential, threadMap, size, number, announced>>

\* Wrong on purpose: one number too many is given out.
UnregisteredOneMore(t) == Cardinality(Known) <= numThreads /\ t \notin Known

Unregistered(t) == Cardinality(Known) < numThreads /\ t \notin Known

look(t) ==
    /\ Goes(t, "look", IF Unregistered(t) THEN "insert" ELSE "read")
    /\ size' = [size EXCEPT ![t] = Cardinality(Known)]
    /\ UNCHANGED <<numThreads, isSequential, threadMap, mutex, number, announced>>

\* An insertion leaves what is there already.
Inserted(t, n) == [u \in Known \cup {t} |-> IF u \in Known THEN threadMap[u] ELSE n]

insert(t) ==
    /\ Goes(t, "insert", "read")
    /\ threadMap' = Inserted(t, size[t])
    /\ UNCHANGED <<numThreads, isSequential, mutex, size, number, announced>>

\* threadMap_[hashId] creates the number 0 for a thread that found the map full.
read(t) ==
    /\ Goes(t, "read", "runs")
    /\ threadMap' = Inserted(t, 0)
    /\ number' = [number EXCEPT ![t] = threadMap'[t]]
    /\ mutex' = Free
    /\ size' = [size EXCEPT ![t] = 0]
    /\ UNCHANGED <<numThreads, isSequential, announced>>

threadNumber(t) == ask(t) \/ lock(t) \/ look(t) \/ insert(t) \/ read(t)

Next ==
    \/ \E n \in Sizes : initParallel(n)
    \/ resetParallel
    \/ \E t \in Others : spawn(t) \/ join(t)
    \/ \E t \in Threads : threadNumber(t)

Spec == Init /\ [][Next]_vars

--------------------------------------------------------------------------------
(***************************************************************************)
(* Properties                                                              *)
(***************************************************************************)
TypeOK ==
    /\ numThreads \in Sizes \cup {Unset}
    /\ isSequential \in BOOLEAN
    /\ threadMap \in [Known -> Nat] /\ Known \subseteq Threads
    /\ mutex \in Threads \cup {Free}
    /\ pc \in [Threads -> Busy \cup {"none", "runs"}]
    /\ size \in [Threads -> Nat]
    /\ number \in [Threads -> Nat \cup {NoNumber}]
    /\ announced \subseteq Sizes

\* As long as no more threads have asked than any of the sections since the
\* last resetParallel was entered for, threads that are alive at the same
\* time have different numbers, and the main thread has the number 0 that it
\* allocates with outside of sections: no two share a memory pool of CppAD.
NumbersDistinct ==
    (\A n \in announced : Cardinality(Known) <= n) =>
        /\ number[Main] \in {0, NoNumber}
        /\ \A t, u \in Threads : number[t] = number[u] /\ number[t] # NoNumber => t = u

\* Every number handed out indexes one of the memory pools of a section
\* entered since the last resetParallel, also when more threads come and go
\* than were announced: one of its own numThreads pools, unless the section
\* was entered for fewer threads than one before it that was not left.
NumbersInRange ==
    \A t \in Threads : number[t] # NoNumber => \E n \in announced : number[t] < n
================================================================================
