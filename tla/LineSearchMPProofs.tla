--------------------------- MODULE LineSearchMPProofs ---------------------------
(****************************************************************************)
(* For any number of workers and step sizes and any sequence of searches:   *)
(* the variables of LineSearchMP have their types, the result of an         *)
(* undisturbed search is genuine, final and backed by all larger steps, and *)
(* performLineSearch implements StepSearch.                                 *)
(****************************************************************************)
EXTENDS LineSearchMP, TLAPS

--------------------------------------------------------------------------------
(***************************************************************************)
(* Types                                                                   *)
(***************************************************************************)

\* From its check on, a worker's exponent is one of the line search.
Checked == {"evaluate", "lock", "judge", "keep", "settle", "announce"}
ExponentInRange == \A w \in Workers : pc[w] \in Checked => exponent[w] \in Exponents

TypeInv == TypeOK /\ ExponentInRange

(***************************************************************************)
(* The phases of a search                                                  *)
(***************************************************************************)

Before == {"returned", "resetAlphaTaken"}
Resets == {"resetFound", "resetBest", "resetProcessed", "publishSearch"}
Open   == {"notifySearch", "awaitBest", "gapBest", "blockedBest", "doneBest", "returned"}

\* Between locking lineSearchResultMutex_ and unlocking it
Critical == {"judge", "keep", "settle", "announce"}

\* lineSearchResultMutex_ is held by the worker that is in the critical section.
MutexInv == \A w \in Workers : pc[w] \in Critical => resultMutex = w

\* A worker overwrites the result only while the search is open.
KeepInv == \A w \in Workers : pc[w] = "keep" => LowerMerit(w) /\ ~alphaBestFound

\* The task is IDLE while the search state is reset; the wait ends when
\* alphaBestFound_ is set.
MainInv == /\ pc[Main] \in Before \cup Resets => workerTask = IDLE
           /\ pc[Main] = "doneBest" => alphaBestFound

\* A worker that is left over from the previous search finds it settled.
BeforeInv == pc[Main] \in Before =>
                \A w \in Workers : pc[w] \in InSearch => alphaBestFound

\* While the search state is reset, no worker looks at it.
SetupInv == pc[Main] \in Resets => \A w \in Workers : pc[w] \notin InSearch

\* What has been reset stays so until the search is published.
FreshInv ==
    /\ pc[Main] \in Resets \cup {"resetAlphaTaken"} => result = Previous
    /\ pc[Main] \in Resets \ {"resetFound"} => ~alphaBestFound
    /\ pc[Main] \in {"resetProcessed", "publishSearch"} => alphaExpBest = MaxIterations
    /\ pc[Main] = "publishSearch" => alphaProcessed = {}

\* While the search is open, a worker that comes from its evaluation brings
\* the complete merit of a step that was tried.
MeritInv == ~alphaBestFound =>
    \A w \in Workers :
        /\ pc[w] \in {"lock", "judge", "keep"} =>
              merit[w] = IF exponent[w] \in improving THEN "lower" ELSE "notLower"
        /\ pc[Main] \in Open /\ pc[w] \in {"lock", "judge", "keep", "settle"} =>
              exponent[w] \in tried
        /\ pc[w] = "settle" /\ exponent[w] \in improving => alphaExpBest # MaxIterations

\* While the search is open, a processed step was tried, and none of the
\* improving ones is forgotten.
ProcessedInv == (~alphaBestFound /\ pc[Main] \in Open) =>
    /\ alphaProcessed \subseteq tried
    /\ alphaProcessed \cap improving # {} => alphaExpBest # MaxIterations

\* Once it is settled, every larger step was tried.
SettledInv == (alphaBestFound /\ pc[Main] \in Open) =>
    /\ \A a \in Exponents : a < alphaExpBest => a \in tried
    /\ alphaExpBest = MaxIterations => improving = {}

\* alphaExpBest_ belongs to the result.
ResultInv == pc[Main] \in Open => alphaExpBest = result.exponent

SearchInv == /\ MutexInv /\ KeepInv /\ MainInv
             /\ ~overlap => /\ BeforeInv /\ SetupInv /\ FreshInv
                            /\ MeritInv /\ ProcessedInv /\ SettledInv
                            /\ ResultInv /\ GenuineResult

Inv == TypeInv /\ SearchInv

--------------------------------------------------------------------------------
LEMMA TypeInit == Init => TypeInv
<1> SUFFICES ASSUME Init PROVE TypeInv
  OBVIOUS
<1>1. MaxIterations \in 0 .. MaxIterations
  BY IterationsAssumption
<1>2. Previous \in [exponent : 0 .. MaxIterations, merit : Merits]
  BY <1>1 DEF Previous, Merits
<1>3. pc \in [Threads -> MainPlaces \cup WorkerPlaces] /\ \A t \in Threads : pc[t] = "returned"
  BY DEF Init, MainPlaces
<1>4. pc[Main] \in MainPlaces /\ \A w \in Workers : pc[w] \in WorkerPlaces
  BY <1>3 DEF MainPlaces, WorkerPlaces, Threads
<1>5. exponent \in [Workers -> Nat] /\ merit \in [Workers -> Merits]
  BY DEF Init, Merits
<1>6. TypeOK
  BY <1>1, <1>2, <1>3, <1>4, <1>5 DEF Init, TypeOK
<1>7. ExponentInRange
  BY <1>3 DEF ExponentInRange, Checked, Threads
<1> QED
  BY <1>6, <1>7 DEF TypeInv

LEMMA TypeNext == TypeInv /\ [Next]_vars => TypeInv'
<1> SUFFICES ASSUME TypeInv, [Next]_vars PROVE TypeInv'
  OBVIOUS
<1> USE ThreadsAssumption, IterationsAssumption
    DEF TypeInv, TypeOK, ExponentInRange, Checked, search, local, history, Goto, Threads
<1>1. CASE UNCHANGED vars
  BY <1>1 DEF vars
<1>2. CASE CallLineSearch
  <2>1. Previous \in [exponent : 0 .. MaxIterations, merit : Merits]
    BY DEF Previous, Merits
  <2> QED
    BY <1>2, <2>1 DEF CallLineSearch, MainPlaces
<1>3. CASE ResetTaken
  BY <1>3 DEF ResetTaken, MainPlaces
<1>4. CASE ResetFound \/ ResetBest \/ ResetProcessed
  <2>1. CASE ResetFound \/ ResetProcessed
    BY <2>1 DEF ResetFound, ResetProcessed, MainPlaces
  <2>2. CASE ResetBest
    <3>1. MaxIterations \in 0 .. MaxIterations
      OBVIOUS
    <3> QED
      BY <2>2, <3>1 DEF ResetBest, MainPlaces
  <2> QED
    BY <1>4, <2>1, <2>2
<1>5. CASE Publish \/ Block \/ Spurious \/ Finish \/ Await
  BY <1>5 DEF Publish, Block, Spurious, Finish, Await, MainPlaces
<1>6. CASE NotifyWorkers
  <2>1. pc' = [t \in Threads |-> IF t = Main THEN "awaitBest" ELSE pc[t]]
    BY <1>6 DEF NotifyWorkers, WorkerPlaces, InSearch
  <2> QED
    BY <1>6, <2>1 DEF NotifyWorkers, MainPlaces
<1>7. ASSUME NEW w \in Workers, Dispatch(w) PROVE TypeInv'
  BY <1>7 DEF Dispatch, WorkerPlaces, InSearch
<1>8. ASSUME NEW w \in Workers, WorkerFunction(w) PROVE TypeInv'
  <2>1. CASE Take(w)
    BY <2>1 DEF Take, WorkerPlaces, InSearch
  <2>2. CASE Check(w)
    BY <2>2 DEF Check, Leave, WorkerPlaces, InSearch, Merits, Exponents
  <2>3. CASE Evaluate(w) \/ GiveUp(w)
    BY <2>3 DEF Evaluate, GiveUp, WorkerPlaces, InSearch, Merits
  <2>4. CASE Lock(w) \/ Accept(w) \/ Reject(w)
    BY <2>4 DEF Lock, Accept, Reject, WorkerPlaces, InSearch
  <2>5. CASE Discard(w)
    BY <2>5 DEF Discard, Leave, WorkerPlaces, Merits
  <2>6. CASE Keep(w)
    <3>1. exponent[w] \in 0 .. MaxIterations
      BY <2>6 DEF Keep, Exponents
    <3>2. result' \in [exponent : 0 .. MaxIterations, merit : Merits]
      BY <2>6, <3>1 DEF Keep
    <3> QED
      BY <2>6, <3>1, <3>2 DEF Keep, WorkerPlaces, InSearch
  <2>7. CASE Settle(w)
    BY <2>7 DEF Settle, WorkerPlaces, InSearch
  <2>8. CASE Announce(w)
    <3>1. pc' = [t \in Threads |-> CASE t = w -> "takeAlpha"
                                     [] t = Main /\ pc[Main] = "blockedBest" -> "awaitBest"
                                     [] OTHER -> pc[t]]
      BY <2>8 DEF Announce
    <3>2. pc'[Main] \in MainPlaces /\ \A v \in Workers : pc'[v] \in WorkerPlaces
      BY <3>1 DEF MainPlaces, WorkerPlaces, InSearch
    <3> QED
      BY <2>8, <3>1, <3>2 DEF Announce
  <2> QED
    BY <1>8, <2>1, <2>2, <2>3, <2>4, <2>5, <2>6, <2>7, <2>8 DEF WorkerFunction
<1> QED
  BY <1>1, <1>2, <1>3, <1>4, <1>5, <1>6, <1>7, <1>8 DEF Next, MainWork

\* Every variable of the line search keeps its type; in particular
\* alphaProcessed_ is only written within its size.
THEOREM TypeCorrect == Spec => []TypeOK
<1>1. TypeInv => TypeOK
  BY DEF TypeInv
<1> QED
  BY TypeInit, TypeNext, <1>1, PTL DEF Spec

--------------------------------------------------------------------------------
(***************************************************************************)
(* What a step leaves alone                                                *)
(***************************************************************************)

MainThread == CallLineSearch \/ MainWork \/ Spurious

LEMMA MainFrame ==
    ASSUME TypeInv, MainThread
    PROVE  /\ \A w \in Workers : pc'[w] = pc[w]
           /\ UNCHANGED <<exponent, merit, resultMutex>>
<1> USE ThreadsAssumption DEF TypeInv, TypeOK, Threads, Goto, local, search
<1>1. CASE NotifyWorkers
  BY <1>1 DEF NotifyWorkers, WorkerPlaces, InSearch
<1>2. CASE CallLineSearch \/ ResetTaken \/ ResetFound \/ ResetBest \/ ResetProcessed
  BY <1>2 DEF CallLineSearch, ResetTaken, ResetFound, ResetBest, ResetProcessed
<1>3. CASE Publish \/ Await \/ Block \/ Spurious \/ Finish
  BY <1>3 DEF Publish, Await, Block, Spurious, Finish
<1> QED
  BY <1>1, <1>2, <1>3 DEF MainThread, MainWork

LEMMA WorkerFrame ==
    ASSUME TypeInv, NEW w \in Workers, Dispatch(w) \/ WorkerFunction(w)
    PROVE  /\ \A v \in Workers \ {w} :
                 pc'[v] = pc[v] /\ exponent'[v] = exponent[v] /\ merit'[v] = merit[v]
           /\ \/ pc'[Main] = pc[Main]
              \/ pc[Main] = "blockedBest" /\ pc'[Main] = "awaitBest"
           /\ UNCHANGED <<workerTask, improving, overlap>>
<1> USE ThreadsAssumption DEF TypeInv, TypeOK, Threads, Goto, local, search, history
<1>1. CASE Dispatch(w) \/ Take(w) \/ Lock(w) \/ Accept(w) \/ Keep(w) \/ Reject(w)
  BY <1>1 DEF Dispatch, Take, Lock, Accept, Keep, Reject
<1>2. CASE Check(w) \/ Discard(w)
  BY <1>2 DEF Check, Discard, Leave
<1>3. CASE Evaluate(w) \/ GiveUp(w)
  BY <1>3 DEF Evaluate, GiveUp
<1>4. CASE Settle(w)
  BY <1>4 DEF Settle
<1>5. CASE Announce(w)
  BY <1>5 DEF Announce
<1> QED
  BY <1>1, <1>2, <1>3, <1>4, <1>5 DEF WorkerFunction

(***************************************************************************)
(* The mutex and the result                                                *)
(***************************************************************************)

LEMMA MutexNext == TypeInv /\ MutexInv /\ [Next]_vars => MutexInv'
<1> SUFFICES ASSUME TypeInv, MutexInv, [Next]_vars PROVE MutexInv'
  OBVIOUS
<1>1. CASE UNCHANGED vars
  BY <1>1 DEF vars, MutexInv
<1>2. CASE MainThread
  BY <1>2, MainFrame DEF MutexInv
<1>3. ASSUME NEW w \in Workers, Dispatch(w) \/ WorkerFunction(w) PROVE MutexInv'
  <2>1. \A v \in Workers \ {w} : pc'[v] = pc[v]
    BY <1>3, WorkerFrame
  <2>2. w # Main /\ w # Nobody
    BY ThreadsAssumption
  <2> USE <2>1, <2>2 DEF MutexInv, Critical, TypeInv, TypeOK, Threads, Goto, search
  <2>3. CASE Dispatch(w) \/ Take(w) \/ Check(w) \/ Evaluate(w) \/ GiveUp(w)
    BY <2>3 DEF Dispatch, Take, Check, Leave, Evaluate, GiveUp
  <2>4. CASE Lock(w)
    BY <2>4, ThreadsAssumption DEF Lock
  <2>5. CASE Accept(w) \/ Keep(w) \/ Reject(w)
    BY <2>5 DEF Accept, Keep, Reject
  <2>6. CASE Discard(w)
    BY <2>6 DEF Discard, Leave
  <2>7. CASE Settle(w)
    BY <2>7 DEF Settle
  <2>8. CASE Announce(w)
    BY <2>8 DEF Announce
  <2> QED
    BY <1>3, <2>3, <2>4, <2>5, <2>6, <2>7, <2>8 DEF WorkerFunction
<1> QED
  BY <1>1, <1>2, <1>3 DEF Next, MainThread

LEMMA KeepNext == TypeInv /\ MutexInv /\ KeepInv /\ [Next]_vars => KeepInv'
<1> SUFFICES ASSUME TypeInv, MutexInv, KeepInv, [Next]_vars PROVE KeepInv'
  OBVIOUS
<1>1. CASE UNCHANGED vars
  BY <1>1 DEF vars, local, search, KeepInv, LowerMerit
<1>2. CASE MainThread
  <2>1. alphaBestFound' \in {alphaBestFound, FALSE}
    BY <1>2 DEF MainThread, MainWork, CallLineSearch, ResetTaken, ResetFound, ResetBest,
                ResetProcessed, Publish, NotifyWorkers, Await, Block, Spurious, Finish, search
  <2> QED
    BY <1>2, <2>1, MainFrame DEF KeepInv, LowerMerit
<1>3. ASSUME NEW w \in Workers, Dispatch(w) \/ WorkerFunction(w) PROVE KeepInv'
  <2>1. \A v \in Workers \ {w} : pc'[v] = pc[v] /\ merit'[v] = merit[v]
    BY <1>3, WorkerFrame
  <2>2. w # Main
    BY ThreadsAssumption
  <2> USE <2>1, <2>2 DEF KeepInv, LowerMerit, TypeInv, TypeOK, Threads, Goto, search, local
  <2>3. CASE Dispatch(w) \/ Take(w) \/ Check(w) \/ Evaluate(w) \/ GiveUp(w)
    BY <2>3 DEF Dispatch, Take, Check, Leave, Evaluate, GiveUp
  <2>4. CASE Lock(w) \/ Accept(w) \/ Keep(w) \/ Reject(w)
    BY <2>4 DEF Lock, Accept, Keep, Reject
  <2>5. CASE Discard(w)
    BY <2>5 DEF Discard, Leave
  <2>6. CASE Settle(w)
    <3>1. \A v \in Workers : pc'[v] # "keep"
      BY <2>6 DEF Settle, MutexInv, Critical
    <3> QED
      BY <3>1
  <2>7. CASE Announce(w)
    BY <2>7 DEF Announce
  <2> QED
    BY <1>3, <2>3, <2>4, <2>5, <2>6, <2>7 DEF WorkerFunction
<1> QED
  BY <1>1, <1>2, <1>3 DEF Next, MainThread

LEMMA MainNext == TypeInv /\ MainInv /\ [Next]_vars => MainInv'
<1> SUFFICES ASSUME TypeInv, MainInv, [Next]_vars PROVE MainInv'
  OBVIOUS
<1> USE DEF MainInv, Before, Resets
<1>1. CASE UNCHANGED vars
  BY <1>1 DEF vars, search
<1>2. CASE MainThread
  <2> USE DEF TypeInv, TypeOK, Threads, Goto, search
  <2>1. CASE CallLineSearch \/ ResetTaken \/ ResetFound \/ ResetBest \/ ResetProcessed
    BY <2>1 DEF CallLineSearch, ResetTaken, ResetFound, ResetBest, ResetProcessed
  <2>2. CASE Publish \/ NotifyWorkers \/ Await \/ Block \/ Spurious \/ Finish
    BY <2>2 DEF Publish, NotifyWorkers, Await, Block, Spurious, Finish
  <2> QED
    BY <1>2, <2>1, <2>2 DEF MainThread, MainWork
<1>3. ASSUME NEW w \in Workers, Dispatch(w) \/ WorkerFunction(w) PROVE MainInv'
  <2>1. alphaBestFound' \in {alphaBestFound, TRUE}
    BY <1>3 DEF Dispatch, WorkerFunction, Take, Check, Evaluate, GiveUp, Lock, Discard, Accept,
                Keep, Reject, Settle, Announce, search
  <2> QED
    BY <1>3, <2>1, WorkerFrame
<1> QED
  BY <1>1, <1>2, <1>3 DEF Next, MainThread

--------------------------------------------------------------------------------
(***************************************************************************)
(* The phases of an undisturbed search                                     *)
(***************************************************************************)

LEMMA WorkerInside ==
    ASSUME NEW w \in Workers, WorkerFunction(w)
    PROVE  pc[w] \in InSearch
BY DEF WorkerFunction, Take, Check, Evaluate, GiveUp, Lock, Discard, Accept, Keep, Reject, Settle,
       Announce, Goto, InSearch

LEMMA FoundStays ==
    ASSUME NEW w \in Workers, Dispatch(w) \/ WorkerFunction(w), alphaBestFound
    PROVE  alphaBestFound'
BY DEF Dispatch, WorkerFunction, Take, Check, Evaluate, GiveUp, Lock, Discard, Accept, Keep,
       Reject, Settle, Announce, search

\* A worker's step is a step inside the search, or its dispatch to an open one.
LEMMA DispatchOpen ==
    ASSUME Inv, NEW w \in Workers, Dispatch(w)
    PROVE  pc[Main] \notin Before \cup Resets
BY DEF Inv, SearchInv, MainInv, Dispatch, LINE_SEARCH, IDLE

LEMMA Undisturbed ==
    ASSUME [Next]_vars, ~overlap'
    PROVE  ~overlap
<1>1. CASE UNCHANGED vars
  BY <1>1 DEF vars, history
<1>2. CASE MainThread
  BY <1>2 DEF MainThread, MainWork, CallLineSearch, ResetTaken, ResetFound, ResetBest,
              ResetProcessed, Publish, NotifyWorkers, Await, Block, Spurious, Finish, history
<1>3. ASSUME NEW w \in Workers, Dispatch(w) \/ WorkerFunction(w) PROVE ~overlap
  BY <1>3 DEF Dispatch, WorkerFunction, Take, Check, Evaluate, GiveUp, Lock, Discard, Accept,
              Keep, Reject, Settle, Announce, history
<1> QED
  BY <1>1, <1>2, <1>3 DEF Next, MainThread

LEMMA BeforeNext == ASSUME Inv, [Next]_vars, ~overlap' PROVE BeforeInv'
<1>1. TypeInv /\ MainInv /\ BeforeInv /\ pc[Main] \in MainPlaces
  BY Undisturbed DEF Inv, SearchInv, TypeInv, TypeOK
<1>2. CASE UNCHANGED vars
  BY <1>1, <1>2 DEF vars, search, BeforeInv
<1>3. CASE CallLineSearch
  BY <1>1, <1>3, MainFrame DEF MainThread, CallLineSearch, BeforeInv, Before, Goto, search
<1>4. CASE Finish
  BY <1>1, <1>4 DEF Finish, BeforeInv, MainInv, Goto, search
<1>5. CASE MainThread /\ ~CallLineSearch /\ ~Finish
  <2>1. pc'[Main] \notin Before
    <3> USE <1>1 DEF TypeInv, TypeOK, Threads, Goto, Before
    <3>1. CASE ResetTaken \/ ResetFound \/ ResetBest \/ ResetProcessed
      BY <3>1 DEF ResetTaken, ResetFound, ResetBest, ResetProcessed
    <3>2. CASE Publish \/ NotifyWorkers \/ Await \/ Block \/ Spurious
      BY <3>2 DEF Publish, NotifyWorkers, Await, Block, Spurious
    <3> QED
      BY <1>5, <3>1, <3>2 DEF MainThread, MainWork
  <2> QED
    BY <2>1 DEF BeforeInv
<1>6. ASSUME NEW w \in Workers, Dispatch(w) \/ WorkerFunction(w) PROVE BeforeInv'
  <2> SUFFICES ASSUME pc'[Main] \in Before, NEW v \in Workers, pc'[v] \in InSearch
               PROVE  alphaBestFound'
    BY DEF BeforeInv
  <2>1. pc[Main] \in Before
    BY <1>1, <1>6, WorkerFrame DEF Before
  <2>2. WorkerFunction(w)
    BY <1>6, <2>1, DispatchOpen
  <2>3. pc[v] \in InSearch
    BY <1>1, <1>6, <2>2, WorkerFrame, WorkerInside
  <2>4. alphaBestFound
    BY <1>1, <2>1, <2>3 DEF BeforeInv
  <2> QED
    BY <1>6, <2>4, FoundStays
<1> QED
  BY <1>2, <1>3, <1>4, <1>5, <1>6 DEF Next, MainThread, MainWork

LEMMA SetupNext == ASSUME Inv, [Next]_vars, ~overlap' PROVE SetupInv'
<1>1. TypeInv /\ MainInv /\ SetupInv /\ pc[Main] \in MainPlaces
  BY Undisturbed DEF Inv, SearchInv, TypeInv, TypeOK
<1>2. CASE UNCHANGED vars
  BY <1>1, <1>2 DEF vars, SetupInv
<1>3. CASE MainThread
  <2>1. \A w \in Workers : pc'[w] = pc[w]
    BY <1>1, <1>3, MainFrame
  <2>2. CASE ResetTaken
    BY <2>1, <2>2 DEF ResetTaken, SetupInv
  <2>3. CASE ~ResetTaken
    <3>1. pc'[Main] \in Resets => pc[Main] \in Resets
      <4> USE <1>1 DEF TypeInv, TypeOK, Threads, Goto, Resets
      <4>1. CASE CallLineSearch \/ ResetFound \/ ResetBest \/ ResetProcessed
        BY <4>1 DEF CallLineSearch, ResetFound, ResetBest, ResetProcessed
      <4>2. CASE Publish \/ NotifyWorkers \/ Await \/ Block \/ Spurious \/ Finish
        BY <4>2 DEF Publish, NotifyWorkers, Await, Block, Spurious, Finish
      <4> QED
        BY <1>3, <2>3, <4>1, <4>2 DEF MainThread, MainWork
    <3> QED
      BY <1>1, <2>1, <3>1 DEF SetupInv
  <2> QED
    BY <2>2, <2>3
<1>4. ASSUME NEW w \in Workers, Dispatch(w) \/ WorkerFunction(w) PROVE SetupInv'
  <2> SUFFICES ASSUME pc'[Main] \in Resets PROVE FALSE
    BY DEF SetupInv
  <2>1. pc[Main] \in Resets
    BY <1>1, <1>4, WorkerFrame DEF Resets
  <2>2. WorkerFunction(w)
    BY <1>4, <2>1, DispatchOpen
  <2> QED
    BY <1>1, <2>1, <2>2, WorkerInside DEF SetupInv
<1> QED
  BY <1>2, <1>3, <1>4 DEF Next, MainThread

LEMMA FreshNext == ASSUME Inv, [Next]_vars, ~overlap' PROVE FreshInv'
<1>1. TypeInv /\ MainInv /\ SetupInv /\ BeforeInv /\ FreshInv /\ KeepInv
  BY Undisturbed DEF Inv, SearchInv
<1>2. CASE UNCHANGED vars
  BY <1>1, <1>2 DEF vars, search, FreshInv, Previous
<1>3. CASE MainThread
  <2> USE <1>1 DEF FreshInv, Resets, TypeInv, TypeOK, Threads, Goto, search, Previous
  <2>1. CASE CallLineSearch
    BY <2>1 DEF CallLineSearch
  <2>2. CASE ResetTaken \/ ResetFound
    BY <2>2 DEF ResetTaken, ResetFound
  <2>3. CASE ResetBest \/ ResetProcessed
    BY <2>3 DEF ResetBest, ResetProcessed
  <2>4. CASE Publish \/ NotifyWorkers \/ Await \/ Block \/ Spurious \/ Finish
    BY <2>4 DEF Publish, NotifyWorkers, Await, Block, Spurious, Finish
  <2> QED
    BY <1>3, <2>1, <2>2, <2>3, <2>4 DEF MainThread, MainWork
<1>4. ASSUME NEW w \in Workers, Dispatch(w) \/ WorkerFunction(w) PROVE FreshInv'
  <2>1. CASE pc[Main] \in Resets
    <3>1. WorkerFunction(w)
      BY <1>4, <2>1, DispatchOpen
    <3> QED
      BY <1>1, <2>1, <3>1, WorkerInside DEF SetupInv
  <2>2. CASE pc[Main] = "resetAlphaTaken"
    <3>1. pc'[Main] = "resetAlphaTaken"
      BY <1>1, <1>4, <2>2, WorkerFrame
    <3>2. WorkerFunction(w)
      BY <1>4, <2>2, DispatchOpen DEF Before
    <3>3. alphaBestFound
      BY <1>1, <2>2, <3>2, WorkerInside DEF BeforeInv, Before
    <3>4. ~Keep(w)
      BY <1>1, <3>3 DEF Keep, KeepInv, Goto
    <3>5. result' = result
      BY <3>2, <3>4 DEF WorkerFunction, Take, Check, Evaluate, GiveUp, Lock, Discard, Accept,
                        Reject, Settle, Announce
    <3> QED
      BY <1>1, <2>2, <3>1, <3>5 DEF FreshInv, Resets, Previous
  <2>3. CASE pc[Main] \notin Resets \cup {"resetAlphaTaken"}
    <3>1. pc'[Main] \notin Resets \cup {"resetAlphaTaken"}
      BY <1>1, <1>4, <2>3, WorkerFrame DEF Resets
    <3> QED
      BY <3>1 DEF FreshInv, Resets
  <2> QED
    BY <2>1, <2>2, <2>3
<1> QED
  BY <1>2, <1>3, <1>4 DEF Next, MainThread

--------------------------------------------------------------------------------
(***************************************************************************)
(* The result of an undisturbed search                                     *)
(***************************************************************************)

ResultParts == MeritInv /\ ProcessedInv /\ SettledInv /\ ResultInv /\ GenuineResult

\* The search is reset and called: what it is based on is empty.
LEMMA ResultMain == ASSUME Inv, MainThread, ~overlap' PROVE ResultParts'
<1>0. [Next]_vars
  BY DEF MainThread, MainWork, Next
<1>1. ~overlap /\ TypeInv /\ MainInv /\ BeforeInv /\ SetupInv /\ FreshInv /\ ResultParts
  BY <1>0, Undisturbed DEF Inv, SearchInv, ResultParts
<1>2. \A w \in Workers : pc'[w] = pc[w] /\ exponent'[w] = exponent[w] /\ merit'[w] = merit[w]
  BY <1>1, MainFrame
<1>3. CASE CallLineSearch
  <2>1. /\ pc'[Main] = "resetAlphaTaken" /\ result' = Previous
        /\ alphaBestFound' = alphaBestFound /\ pc[Main] = "returned"
    BY <1>1, <1>3 DEF CallLineSearch, TypeInv, TypeOK, Threads, Goto, search
  <2>2. MeritInv'
    BY <1>1, <1>2, <2>1 DEF MeritInv, BeforeInv, Before, InSearch
  <2> QED
    BY <2>1, <2>2 DEF ResultParts, ProcessedInv, SettledInv, ResultInv, GenuineResult, Open, Previous
<1>4. CASE ResetTaken \/ ResetFound \/ ResetBest \/ ResetProcessed
  <2>1. pc'[Main] \in Resets /\ pc'[Main] \notin Open
    BY <1>1, <1>4 DEF ResetTaken, ResetFound, ResetBest, ResetProcessed, Resets, Open, TypeInv,
                      TypeOK, Threads, Goto
  <2>2. \A w \in Workers : pc'[w] \notin InSearch
    BY <1>0, <2>1, SetupNext DEF SetupInv
  <2>3. MeritInv'
    BY <2>2 DEF MeritInv, InSearch
  <2>4. result' = Previous
    BY <1>0, <2>1, FreshNext DEF FreshInv
  <2> QED
    BY <2>1, <2>3, <2>4 DEF ResultParts, ProcessedInv, SettledInv, ResultInv, GenuineResult, Previous
<1>5. CASE Publish
  <2>1. /\ pc[Main] = "publishSearch" /\ pc'[Main] = "notifySearch"
        /\ UNCHANGED <<search, result, improving, tried>>
    BY <1>1, <1>5 DEF Publish, TypeInv, TypeOK, Threads, Goto
  <2>2. /\ result = Previous /\ ~alphaBestFound
        /\ alphaExpBest = MaxIterations /\ alphaProcessed = {}
    BY <1>1, <2>1 DEF FreshInv, Resets
  <2>3. \A w \in Workers : pc'[w] \notin InSearch
    BY <1>1, <1>2, <2>1 DEF SetupInv, Resets
  <2> QED
    BY <2>1, <2>2, <2>3 DEF ResultParts, MeritInv, ProcessedInv, SettledInv, ResultInv,
                            GenuineResult, Previous, search, InSearch
<1>6. CASE NotifyWorkers \/ Await \/ Block \/ Spurious \/ Finish
  <2>1. /\ pc[Main] \in Open
        /\ UNCHANGED <<search, result, improving, tried>>
    BY <1>6 DEF NotifyWorkers, Await, Block, Spurious, Finish, Open, Goto, search, history
  <2> QED
    BY <1>1, <1>2, <2>1 DEF ResultParts, MeritInv, ProcessedInv, SettledInv, ResultInv,
                            GenuineResult, search
<1> QED
  BY <1>3, <1>4, <1>5, <1>6 DEF MainThread, MainWork

\* A worker that finds the search settled changes nothing of the result.
LEMMA ResultLate ==
    ASSUME Inv, ~overlap, NEW w \in Workers, Dispatch(w) \/ WorkerFunction(w), alphaBestFound
    PROVE  ResultParts'
<1>1. TypeInv /\ KeepInv /\ ResultParts
  BY DEF Inv, SearchInv, ResultParts
<1>2. pc'[Main] \in Open => pc[Main] \in Open
  BY <1>1, WorkerFrame DEF Open
<1>3. alphaBestFound' /\ UNCHANGED <<improving, overlap>>
  BY <1>1, FoundStays, WorkerFrame
<1>4. ~Keep(w)
  BY <1>1 DEF Keep, KeepInv, Goto
<1>5. UNCHANGED <<alphaExpBest, result>> /\ tried \subseteq tried'
  BY <1>4 DEF Dispatch, WorkerFunction, Take, Check, Evaluate, GiveUp, Lock, Discard, Accept,
              Reject, Settle, Announce, search, history
<1> QED
  BY <1>1, <1>2, <1>3, <1>5 DEF ResultParts, MeritInv, ProcessedInv, SettledInv, ResultInv,
                                GenuineResult, Previous

\* While the search is open: the worker evaluates, keeps or settles a step.
LEMMA ResultOpen ==
    ASSUME Inv, ~overlap, NEW w \in Workers, Dispatch(w) \/ WorkerFunction(w), ~alphaBestFound
    PROVE  ResultParts'
<1>1. TypeInv /\ KeepInv /\ BeforeInv /\ SetupInv /\ MainInv /\ ResultParts
  BY DEF Inv, SearchInv, ResultParts
<1>2. pc[Main] \in Open
  <2>1. CASE Dispatch(w)
    BY <1>1, <2>1, DispatchOpen DEF TypeInv, TypeOK, MainPlaces, Before, Resets, Open
  <2>2. CASE WorkerFunction(w)
    BY <1>1, <2>2, WorkerInside DEF TypeInv, TypeOK, MainPlaces, BeforeInv, SetupInv, Before, Resets,
                                    Open
  <2> QED
    BY <2>1, <2>2
<1>3. pc'[Main] \in Open /\ UNCHANGED improving
  BY <1>1, <1>2, WorkerFrame DEF Open
<1>4. \A v \in Workers \ {w} : pc'[v] = pc[v] /\ exponent'[v] = exponent[v] /\ merit'[v] = merit[v]
  BY <1>1, WorkerFrame
<1>5. w # Main
  BY ThreadsAssumption
<1>6. CASE Dispatch(w) \/ Take(w) \/ Check(w) \/ Discard(w) \/ Announce(w)
  <2>1. /\ UNCHANGED <<alphaBestFound, alphaExpBest, alphaProcessed, result, tried>>
        /\ pc'[w] \in {"takeAlpha", "checkAlpha", "evaluate", "returned"}
    BY <1>1, <1>5, <1>6 DEF Dispatch, Take, Check, Discard, Announce, Leave, Goto, TypeInv, TypeOK,
                            Threads, search, history
  <2> QED
    BY <1>1, <1>2, <1>3, <1>4, <2>1 DEF ResultParts, MeritInv, ProcessedInv, SettledInv, ResultInv,
                                        GenuineResult, Previous
<1>7. CASE Evaluate(w)
  <2>1. /\ pc'[w] = "lock" /\ tried' = tried \cup {exponent[w]} /\ exponent' = exponent
        /\ merit'[w] = IF exponent[w] \in improving THEN "lower" ELSE "notLower"
        /\ UNCHANGED <<alphaBestFound, alphaExpBest, alphaProcessed, result>>
    BY <1>1, <1>7 DEF Evaluate, Goto, TypeInv, TypeOK, Threads, search
  <2> QED
    BY <1>1, <1>2, <1>3, <1>4, <2>1 DEF ResultParts, MeritInv, ProcessedInv, SettledInv, ResultInv,
                                        GenuineResult, Previous
<1>8. CASE GiveUp(w)
  BY <1>8 DEF GiveUp
<1>9. CASE Lock(w) \/ Accept(w)
  <2>1. /\ pc[w] \in {"lock", "judge"} /\ pc'[w] \in {"judge", "keep"}
        /\ UNCHANGED <<alphaBestFound, alphaExpBest, alphaProcessed, result, tried, exponent, merit>>
    BY <1>1, <1>9 DEF Lock, Accept, Goto, TypeInv, TypeOK, Threads, search, history, local
  <2> QED
    BY <1>1, <1>2, <1>3, <1>4, <2>1 DEF ResultParts, MeritInv, ProcessedInv, SettledInv, ResultInv,
                                        GenuineResult, Previous
<1>10. CASE Reject(w)
  <2>1. /\ pc[w] = "judge" /\ pc'[w] = "settle" /\ merit[w] # "lower"
        /\ UNCHANGED <<alphaBestFound, alphaExpBest, alphaProcessed, result, tried, exponent, merit>>
    BY <1>1, <1>10 DEF Reject, LowerMerit, Goto, TypeInv, TypeOK, Threads, search, history, local
  <2>2. exponent[w] \notin improving
    BY <1>1, <2>1 DEF ResultParts, MeritInv
  <2> QED
    BY <1>1, <1>2, <1>3, <1>4, <2>1, <2>2 DEF ResultParts, MeritInv, ProcessedInv, SettledInv,
                                              ResultInv, GenuineResult, Previous
<1>11. CASE Keep(w)
  <2>1. /\ pc[w] = "keep" /\ pc'[w] = "settle"
        /\ alphaExpBest' = exponent[w]
        /\ result' = [exponent |-> exponent[w], merit |-> merit[w]]
        /\ UNCHANGED <<alphaBestFound, alphaProcessed, tried, exponent, merit>>
    BY <1>1, <1>11 DEF Keep, Goto, TypeInv, TypeOK, Threads, history, local
  <2>2. exponent[w] # MaxIterations
    BY <1>1, <2>1, IterationsAssumption DEF TypeInv, ExponentInRange, Checked, Exponents
  <2>3. merit[w] = "lower" /\ exponent[w] \in improving
    BY <1>1, <2>1 DEF ResultParts, MeritInv, KeepInv, LowerMerit
  <2> QED
    BY <1>1, <1>2, <1>3, <1>4, <2>1, <2>2, <2>3 DEF ResultParts, MeritInv, ProcessedInv, SettledInv,
                                                    ResultInv, GenuineResult, Previous
<1>12. CASE Settle(w)
  <2>1. /\ pc[w] = "settle" /\ pc'[w] \in {"announce", "takeAlpha"}
        /\ alphaProcessed' = alphaProcessed \cup {exponent[w]}
        /\ alphaBestFound' => AllPreviousProcessed(alphaProcessed')
        /\ UNCHANGED <<alphaExpBest, result, tried, exponent, merit>>
    BY <1>1, <1>12 DEF Settle, Goto, TypeInv, TypeOK, Threads, history, local
  <2>2. alphaProcessed' \subseteq tried
    BY <1>1, <1>2, <2>1 DEF ResultParts, MeritInv, ProcessedInv
  <2>3. alphaProcessed' \cap improving # {} => alphaExpBest # MaxIterations
    BY <1>1, <1>2, <2>1 DEF ResultParts, MeritInv, ProcessedInv
  <2>4. MeritInv' /\ ProcessedInv'
    BY <1>1, <1>2, <1>3, <1>4, <2>1, <2>2, <2>3 DEF ResultParts, MeritInv, ProcessedInv
  <2>5. ASSUME alphaBestFound' PROVE SettledInv'
    <3>1. \A a \in Exponents : a < alphaExpBest => a \in alphaProcessed'
      BY <1>1, <2>1, <2>5, IterationsAssumption
         DEF AllPreviousProcessed, Exponents, TypeInv, TypeOK
    <3>2. alphaExpBest = MaxIterations => improving = {}
      BY <1>1, <2>3, <3>1, IterationsAssumption DEF Exponents, TypeInv, TypeOK
    <3> QED
      BY <1>3, <2>1, <2>2, <3>1, <3>2 DEF SettledInv
  <2> QED
    BY <1>1, <1>2, <1>3, <2>1, <2>4, <2>5 DEF ResultParts, SettledInv, ResultInv, GenuineResult,
                                              Previous
<1> QED
  BY <1>6, <1>7, <1>8, <1>9, <1>10, <1>11, <1>12 DEF WorkerFunction

LEMMA ResultNext == ASSUME Inv, [Next]_vars, ~overlap' PROVE ResultParts'
<1>1. ~overlap
  BY Undisturbed
<1>2. CASE UNCHANGED vars
  BY <1>1, <1>2 DEF vars, search, local, history, Inv, SearchInv, ResultParts, MeritInv,
                    ProcessedInv, SettledInv, ResultInv, GenuineResult, Previous
<1>3. CASE MainThread
  BY <1>3, ResultMain
<1>4. ASSUME NEW w \in Workers, Dispatch(w) \/ WorkerFunction(w) PROVE ResultParts'
  BY <1>1, <1>4, ResultLate, ResultOpen
<1> QED
  BY <1>2, <1>3, <1>4 DEF Next, MainThread

--------------------------------------------------------------------------------
(***************************************************************************)
(* Theorems                                                                *)
(***************************************************************************)

LEMMA SearchInit == Init => SearchInv
<1> SUFFICES ASSUME Init PROVE SearchInv
  OBVIOUS
<1>1. \A t \in Threads : pc[t] = "returned"
  BY DEF Init
<1>2. MutexInv /\ KeepInv /\ BeforeInv /\ SetupInv
  BY <1>1 DEF MutexInv, KeepInv, BeforeInv, SetupInv, Critical, Resets, InSearch, Threads
<1>3. MainInv /\ FreshInv
  BY <1>1 DEF Init, MainInv, FreshInv, Resets, Threads
<1>4. MeritInv /\ ProcessedInv
  BY <1>1 DEF Init, MeritInv, ProcessedInv, Threads
<1>5. SettledInv /\ ResultInv /\ GenuineResult
  BY DEF Init, SettledInv, ResultInv, GenuineResult, Previous
<1> QED
  BY <1>2, <1>3, <1>4, <1>5 DEF SearchInv

LEMMA SearchNext == Inv /\ [Next]_vars => SearchInv'
<1> SUFFICES ASSUME Inv, [Next]_vars PROVE SearchInv'
  OBVIOUS
<1>1. MutexInv' /\ KeepInv' /\ MainInv'
  BY MutexNext, KeepNext, MainNext DEF Inv, SearchInv
<1>2. ASSUME ~overlap'
      PROVE  BeforeInv' /\ SetupInv' /\ FreshInv' /\ ResultParts'
  BY <1>2, BeforeNext, SetupNext, FreshNext, ResultNext
<1> QED
  BY <1>1, <1>2 DEF SearchInv, ResultParts

LEMMA InvHolds == Spec => []Inv
<1>1. Init => Inv
  BY TypeInit, SearchInit DEF Inv
<1>2. Inv /\ [Next]_vars => Inv'
  BY TypeNext, SearchNext DEF Inv
<1> QED
  BY <1>1, <1>2, PTL DEF Spec

\* The trajectories an undisturbed search takes over come from an evaluation
\* that ran to its end and lowered the merit: executeLineSearch returns early,
\* with a merit that only looks lower, after alphaBestFound_ is set, and then
\* lineSearchWorker does not keep it.
THEOREM ResultGenuine == Spec => []GenuineResult
<1>1. Inv => GenuineResult
  BY DEF Inv, SearchInv, GenuineResult
<1> QED
  BY <1>1, InvHolds, PTL

\* When performLineSearch has its answer, no larger step was left out, the
\* answer belongs to the trajectories, and "none" is answered only if no step
\* lowers the merit.
THEOREM NoStepForgotten == Spec => []SearchExhaustive
<1>1. Inv => SearchExhaustive
  <2> SUFFICES ASSUME Inv, pc[Main] \in {"doneBest", "returned"}, alphaBestFound, ~overlap
               PROVE  /\ \A a \in Exponents : a < alphaExpBest => a \in tried
                      /\ alphaExpBest = result.exponent
                      /\ alphaExpBest = MaxIterations => improving = {}
    BY DEF SearchExhaustive
  <2> QED
    BY DEF Inv, SearchInv, SettledInv, ResultInv, Open
<1> QED
  BY <1>1, InvHolds, PTL

\* Once alphaBestFound_ is set, no worker overwrites the result members:
\* lineSearchResultMutex_ makes testing the flag and writing them one step.
THEOREM ResultFinal == Spec => ResultFrozen
<1>1. Inv /\ [Next]_vars => [(alphaBestFound /\ ~overlap') => result' \in {result, Previous}]_vars
  <2> SUFFICES ASSUME Inv, [Next]_vars, alphaBestFound PROVE result' \in {result, Previous}
    OBVIOUS
  <2>1. CASE UNCHANGED vars
    BY <2>1 DEF vars
  <2>2. CASE MainThread
    BY <2>2 DEF MainThread, MainWork, CallLineSearch, ResetTaken, ResetFound, ResetBest,
                ResetProcessed, Publish, NotifyWorkers, Await, Block, Spurious, Finish
  <2>3. ASSUME NEW w \in Workers, Dispatch(w) \/ WorkerFunction(w) PROVE result' = result
    <3>1. ~Keep(w)
      BY DEF Inv, SearchInv, KeepInv, Keep, Goto
    <3> QED
      BY <2>3, <3>1 DEF Dispatch, WorkerFunction, Take, Check, Evaluate, GiveUp, Lock, Discard,
                        Accept, Reject, Settle, Announce
  <2> QED
    BY <2>1, <2>2, <2>3 DEF Next, MainThread
<1> QED
  BY <1>1, InvHolds, PTL DEF Spec, ResultFrozen

--------------------------------------------------------------------------------
(***************************************************************************)
(* The parallel search is a search                                         *)
(***************************************************************************)

\* A step size is handed out to one worker only, and evaluated once.
Untried  == {"checkAlpha", "evaluate"}
TriedInv ==
    /\ \A a \in tried : a < alphaTaken
    /\ \A w \in Workers : pc[w] \in Untried => exponent[w] < alphaTaken /\ exponent[w] \notin tried
    /\ \A v, w \in Workers :
          (v # w /\ pc[v] \in Untried /\ pc[w] \in Untried) => exponent[v] # exponent[w]

\* None has been evaluated when the search is published.
NoneTriedInv == pc[Main] \in Resets => tried = {}

RefineInv == Inv /\ (~overlap => TriedInv /\ NoneTriedInv)

LEMMA TriedMain ==
    ASSUME Inv, TriedInv, NoneTriedInv, MainThread, ~overlap'
    PROVE  TriedInv' /\ NoneTriedInv'
<1>1. \A w \in Workers : pc'[w] = pc[w] /\ exponent'[w] = exponent[w]
  BY MainFrame DEF Inv
<1> USE DEF Inv, TypeInv, TypeOK, Threads, Goto, search, history, Resets
<1>2. CASE ResetTaken
  <2>1. tried' = {} /\ \A w \in Workers : pc[w] \notin InSearch
    BY <1>2 DEF ResetTaken
  <2> QED
    BY <1>1, <2>1 DEF TriedInv, NoneTriedInv, Untried, InSearch
<1>3. CASE ~ResetTaken
  <2>1. /\ tried' = tried /\ alphaTaken' = alphaTaken
        /\ pc'[Main] \in Resets => pc[Main] \in Resets
    <3>1. CASE CallLineSearch \/ ResetFound \/ ResetBest \/ ResetProcessed
      BY <3>1 DEF CallLineSearch, ResetFound, ResetBest, ResetProcessed
    <3>2. CASE Publish \/ NotifyWorkers \/ Await \/ Block \/ Spurious \/ Finish
      BY <3>2 DEF Publish, NotifyWorkers, Await, Block, Spurious, Finish
    <3> QED
      BY <1>3, <3>1, <3>2 DEF MainThread, MainWork
  <2> QED
    BY <1>1, <2>1 DEF TriedInv, NoneTriedInv
<1> QED
  BY <1>2, <1>3

LEMMA TriedWorker ==
    ASSUME Inv, ~overlap, TriedInv, NoneTriedInv, NEW w \in Workers, Dispatch(w) \/ WorkerFunction(w)
    PROVE  TriedInv' /\ NoneTriedInv'
<1>0. /\ \A v \in Workers \ {w} : pc'[v] = pc[v] /\ exponent'[v] = exponent[v]
      /\ pc'[Main] \in Resets => pc[Main] \in Resets
  BY WorkerFrame DEF Inv, Resets
<1>1. NoneTriedInv'
  <2>1. CASE pc'[Main] \in Resets
    BY <1>0, <2>1, DispatchOpen, WorkerInside DEF Inv, SearchInv, SetupInv
  <2> QED
    BY <2>1 DEF NoneTriedInv
<1> USE DEF Inv, TypeInv, TypeOK, Threads, Goto, search, local, history, Untried
<1>2. CASE Take(w)
  <2>1. /\ pc'[w] = "checkAlpha" /\ exponent'[w] = alphaTaken /\ alphaTaken' = alphaTaken + 1
        /\ tried' = tried /\ alphaTaken \in Nat
    BY <1>2 DEF Take
  <2>2. \A a \in tried : a \in Nat /\ a < alphaTaken
    BY DEF TriedInv, Exponents
  <2>3. \A v \in Workers \ {w} : pc'[v] \in Untried => exponent'[v] < alphaTaken
    BY <1>0 DEF TriedInv
  <2>4. \A v \in Workers : exponent[v] \in Nat
    OBVIOUS
  <2>5. \A a \in tried' : a < alphaTaken'
    BY <2>1, <2>2
  <2>6. \A v \in Workers : pc'[v] \in Untried => exponent'[v] < alphaTaken' /\ exponent'[v] \notin tried'
    BY <1>0, <2>1, <2>2, <2>3, <2>4 DEF TriedInv
  <2>7. \A u, v \in Workers :
           (u # v /\ pc'[u] \in Untried /\ pc'[v] \in Untried) => exponent'[u] # exponent'[v]
    BY <1>0, <2>1, <2>3, <2>4 DEF TriedInv
  <2> QED
    BY <1>1, <2>5, <2>6, <2>7 DEF TriedInv
<1>3. CASE Evaluate(w)
  <2>1. /\ pc[w] = "evaluate" /\ pc'[w] = "lock" /\ exponent' = exponent
        /\ tried' = tried \cup {exponent[w]} /\ alphaTaken' = alphaTaken
    BY <1>3 DEF Evaluate
  <2> QED
    BY <1>0, <1>1, <2>1 DEF TriedInv
<1>4. CASE ~Take(w) /\ ~Evaluate(w)
  <2>1. tried' = tried /\ alphaTaken' = alphaTaken
    BY <1>4 DEF Dispatch, WorkerFunction, Check, GiveUp, Lock, Discard, Accept, Keep, Reject,
                Settle, Announce
  <2>2. pc'[w] \in Untried => pc[w] \in Untried /\ exponent'[w] = exponent[w]
    <3>1. CASE Check(w)
      BY <3>1 DEF Check, Leave
    <3>2. CASE ~Check(w)
      BY <1>4, <3>2, ThreadsAssumption
      DEF Dispatch, WorkerFunction, GiveUp, Lock, Discard, Leave, Accept, Keep, Reject,
          Settle, Announce
    <3> QED
      BY <3>1, <3>2
  <2> QED
    BY <1>0, <1>1, <2>1, <2>2 DEF TriedInv
<1> QED
  BY <1>2, <1>3, <1>4

LEMMA RefineInit == Init => RefineInv /\ SS!Init
<1> SUFFICES ASSUME Init PROVE RefineInv /\ SS!Init
  OBVIOUS
<1>1. Inv
  BY TypeInit, SearchInit DEF Inv
<1>2. TriedInv /\ NoneTriedInv
  BY DEF Init, TriedInv, NoneTriedInv, Untried, Threads
<1>3. SS!Init
  BY DEF Init, SS!Init, Threads
<1> QED
  BY <1>1, <1>2, <1>3 DEF RefineInv

LEMMA RefineNext == RefineInv /\ [Next]_vars => RefineInv'
<1> SUFFICES ASSUME RefineInv, [Next]_vars PROVE RefineInv'
  OBVIOUS
<1>1. Inv'
  BY TypeNext, SearchNext DEF RefineInv, Inv
<1>2. ASSUME ~overlap' PROVE TriedInv' /\ NoneTriedInv'
  <2>1. Inv /\ ~overlap /\ TriedInv /\ NoneTriedInv
    BY <1>2, Undisturbed DEF RefineInv
  <2>2. CASE UNCHANGED vars
    BY <2>1, <2>2 DEF vars, search, local, history, TriedInv, NoneTriedInv
  <2> QED
    BY <1>2, <2>1, <2>2, TriedMain, TriedWorker DEF Next, MainThread
<1> QED
  BY <1>1, <1>2 DEF RefineInv

\* Every step of the threads is one of a search, or none of its business,
\* unless the search found a worker of an earlier one still at it.
LEMMA StepRefines ==
    ASSUME RefineInv, [Next]_vars
    PROVE  [SS!Next \/ overlap']_(SS!vars)
<1> SUFFICES ASSUME ~overlap' PROVE SS!Next \/ UNCHANGED SS!vars
  OBVIOUS
<1>0. Inv /\ ~overlap /\ TriedInv /\ NoneTriedInv
  BY Undisturbed DEF RefineInv
<1> USE <1>0, ThreadsAssumption
    DEF Inv, TypeInv, TypeOK, Threads, Goto, search, local, history, SS!vars
<1>1. CASE CallLineSearch
  BY <1>1 DEF CallLineSearch, SS!Begin, SS!Next, SS!Exponents, Exponents
<1>2. CASE ResetTaken
  BY <1>2 DEF ResetTaken, SS!Forget, SS!Next
<1>3. CASE ResetBest
  BY <1>3 DEF ResetBest, NoneTriedInv, Resets, SS!Forget, SS!Next
<1>4. CASE ResetFound \/ ResetProcessed \/ Publish \/ NotifyWorkers \/ Await \/ Block \/ Spurious
  BY <1>4 DEF ResetFound, ResetProcessed, Publish, NotifyWorkers, Await, Block, Spurious
<1>5. CASE Finish
  <2>1. pc[Main] = "doneBest" /\ pc'[Main] = "returned"
    BY <1>5 DEF Finish
  <2>2. alphaBestFound
    BY <2>1 DEF SearchInv, MainInv
  <2>3. /\ \A a \in Exponents : a < alphaExpBest => a \in tried
        /\ alphaExpBest = MaxIterations => improving = {}
    BY <2>1, <2>2 DEF SearchInv, SettledInv, Open
  <2>4. alphaExpBest \in improving \cup {MaxIterations}
    BY <2>1 DEF SearchInv, ResultInv, GenuineResult, Open, Previous
  <2> QED
    BY <1>5, <2>1, <2>3, <2>4 DEF Finish, SS!End, SS!Next, SS!Exponents, Exponents
<1>6. ASSUME NEW w \in Workers, Evaluate(w) PROVE SS!Next
  <2>1. exponent[w] \in Exponents \ tried
    BY <1>6 DEF Evaluate, ExponentInRange, Checked, TriedInv, Untried
  <2>2. SS!Try(exponent[w])
    BY <1>6, <2>1 DEF Evaluate, SS!Try, SS!Exponents, Exponents
  <2> QED
    BY <2>1, <2>2 DEF SS!Next, SS!Exponents, Exponents
<1>7. ASSUME NEW w \in Workers, Keep(w) PROVE SS!Next
  <2>1. pc[w] = "keep" /\ pc'[Main] = pc[Main]
    BY <1>7 DEF Keep
  <2>2. LowerMerit(w) /\ ~alphaBestFound
    BY <2>1 DEF SearchInv, KeepInv
  <2>3. pc[Main] \in Open \ {"returned"}
    BY <2>1, <2>2 DEF SearchInv, BeforeInv, SetupInv, InSearch, Before, Resets, Open, MainPlaces
  <2>4. exponent[w] \in tried \cap improving
    BY <2>1, <2>2, <2>3 DEF SearchInv, MeritInv, LowerMerit
  <2>5. exponent[w] \in SS!Exponents
    BY <2>4 DEF SS!Exponents, Exponents
  <2>6. SS!Keep(exponent[w])
    BY <1>7, <2>1, <2>3, <2>4 DEF Keep, SS!Keep
  <2> QED
    BY <2>5, <2>6 DEF SS!Next
<1>8. ASSUME NEW w \in Workers, Dispatch(w) \/ WorkerFunction(w), ~Evaluate(w), ~Keep(w)
      PROVE  UNCHANGED SS!vars
  <2>1. UNCHANGED <<tried, alphaExpBest, improving>>
    BY <1>8 DEF Dispatch, WorkerFunction, Take, Check, GiveUp, Lock, Discard, Accept, Reject,
                Settle, Announce
  <2>2. (pc'[Main] # "returned") = (pc[Main] # "returned")
    BY <1>8, WorkerFrame
  <2> QED
    BY <2>1, <2>2
<1>9. CASE UNCHANGED vars
  BY <1>9 DEF vars
<1> QED
  BY <1>1, <1>2, <1>3, <1>4, <1>5, <1>6, <1>7, <1>8, <1>9 DEF Next, MainWork

\* performLineSearch of the multi-threaded backend is a search over the step
\* sizes as lineSearch() relies on it, for any number of workers.
THEOREM Refinement == Spec => ImplementsStepSearch
<1>1. RefineInv /\ [Next]_vars => [SS!Next \/ overlap']_(SS!vars)
  BY StepRefines
<1> QED
  BY <1>1, RefineInit, RefineNext, PTL DEF Spec, ImplementsStepSearch

--------------------------------------------------------------------------------
(***************************************************************************)
(* Steps of a larger system                                                *)
(*                                                                         *)
(* NLOCBackendMP contains this module's steps, with threadWork in the      *)
(* place of Dispatch.  These lemmas are about its other steps.             *)
(***************************************************************************)

\* A step that leaves the search alone, whatever it adds to the history
Elsewhere ==
    /\ UNCHANGED <<pc, workerTask, search, resultMutex, local, result, improving, tried>>
    /\ served' \subseteq Workers /\ lost' \in BOOLEAN
    /\ overlap' \in BOOLEAN /\ (overlap => overlap')

\* Types first: these hold disturbed or not.
LEMMA ElsewhereTypes == ASSUME TypeInv, MainInv, Elsewhere PROVE TypeInv' /\ MainInv'
BY DEF TypeInv, TypeOK, ExponentInRange, MainInv, Elsewhere, search, local

LEMMA ElsewhereKeeps == ASSUME Inv, Elsewhere PROVE Inv'
<1> USE DEF Inv, SearchInv, Elsewhere, search, local
<1>1. TypeInv' /\ MainInv'
  BY ElsewhereTypes
<1>2. MutexInv' /\ KeepInv'
  BY DEF MutexInv, KeepInv, LowerMerit
<1>3. ASSUME ~overlap' PROVE BeforeInv' /\ SetupInv' /\ FreshInv' /\ ResultParts'
  BY <1>3 DEF BeforeInv, SetupInv, FreshInv, ResultParts, MeritInv, ProcessedInv, SettledInv,
              ResultInv, GenuineResult, Previous
<1> QED
  BY <1>1, <1>2, <1>3 DEF ResultParts

\* A worker enters lineSearchWorker with a task it has read some time ago.
Enter(w) ==
    /\ Goto(w, "returned", "takeAlpha")
    /\ served' \subseteq Workers
    /\ UNCHANGED <<workerTask, search, resultMutex, local, result, improving, tried, overlap, lost>>

LEMMA EnterTypes ==
    ASSUME TypeInv, MainInv, NEW w \in Workers, Enter(w)
    PROVE  TypeInv' /\ MainInv'
<1> USE ThreadsAssumption DEF TypeInv, TypeOK, Threads, search, local, Goto, Enter
<1>1. TypeInv'
  BY DEF ExponentInRange, Checked, WorkerPlaces, InSearch
<1>2. pc'[Main] = pc[Main]
  OBVIOUS
<1>3. MainInv'
  BY <1>2 DEF MainInv
<1> QED
  BY <1>1, <1>3

\* It does no harm while a search is on offer or when the last one is settled.
LEMMA EnterKeeps ==
    ASSUME Inv, NEW w \in Workers, Enter(w),
           ~overlap => \/ pc[Main] \in Before /\ alphaBestFound
                       \/ pc[Main] \in Open \ {"returned"}
    PROVE  Inv'
<1> USE ThreadsAssumption
    DEF Inv, TypeInv, TypeOK, SearchInv, Threads, search, local, Goto, Enter
<1>1. TypeInv' /\ MainInv'
  BY EnterTypes
<1>2. pc'[w] = "takeAlpha" /\ \A t \in Threads : t # w => pc'[t] = pc[t]
  OBVIOUS
<1>3. pc'[Main] = pc[Main]
  BY <1>2
<1>4. MutexInv' /\ KeepInv'
  BY <1>2, <1>3 DEF MutexInv, KeepInv, LowerMerit, Critical
<1>5. ASSUME ~overlap' PROVE BeforeInv' /\ SetupInv' /\ FreshInv' /\ ResultParts'
  <2>1. BeforeInv' /\ SetupInv'
    BY <1>2, <1>3, <1>5 DEF BeforeInv, SetupInv, Before, Resets, Open
  <2>2. FreshInv' /\ MeritInv'
    BY <1>2, <1>3, <1>5 DEF FreshInv, MeritInv, Previous
  <2>3. ProcessedInv' /\ SettledInv' /\ ResultInv' /\ GenuineResult'
    BY <1>2, <1>3, <1>5 DEF ProcessedInv, SettledInv, ResultInv, GenuineResult, Previous
  <2> QED
    BY <2>1, <2>2, <2>3 DEF ResultParts
<1> QED
  BY <1>1, <1>4, <1>5 DEF ResultParts

\* A search resets its state under a worker's feet, or under one's that is on
\* its way.
ResetDisturbed ==
    /\ Goto(Main, "resetAlphaTaken", "resetFound")
    /\ alphaTaken' = 0 /\ tried' = {} /\ overlap' = TRUE
    /\ UNCHANGED <<workerTask, alphaBestFound, alphaExpBest, alphaProcessed, resultMutex,
                   local, result, improving, served, lost>>

LEMMA ResetDisturbedTypes == ASSUME TypeInv, MainInv, ResetDisturbed PROVE TypeInv' /\ MainInv'
<1> USE ThreadsAssumption DEF TypeInv, TypeOK, Threads, local, Goto, ResetDisturbed
<1>1. TypeInv'
  BY DEF ExponentInRange, Checked, MainPlaces, WorkerPlaces, InSearch
<1>2. MainInv'
  BY DEF MainInv, Before, Resets
<1> QED
  BY <1>1, <1>2

LEMMA ResetDisturbedKeeps == ASSUME Inv, ResetDisturbed PROVE Inv'
<1>1. TypeInv' /\ MainInv'
  BY ResetDisturbedTypes DEF Inv, SearchInv
<1>2. MutexInv' /\ KeepInv'
  BY ThreadsAssumption
  DEF Inv, SearchInv, TypeInv, TypeOK, Threads, local, Goto, ResetDisturbed, MutexInv, KeepInv,
      LowerMerit, Critical
<1> QED
  BY <1>1, <1>2 DEF Inv, SearchInv, ResetDisturbed

================================================================================
