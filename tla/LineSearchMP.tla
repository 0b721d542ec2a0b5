----------------------------- MODULE LineSearchMP ------------------------------
(****************************************************************************)
(* NLOCBackendMP::performLineSearch and its worker function                 *)
(* lineSearchWorker, with what they use of executeLineSearch.               *)
(*                                                                          *)
(* The caller resets the shared search state, publishes LINE_SEARCH and     *)
(* sleeps until alphaBestFound_.  A worker takes an exponent, evaluates the *)
(* trajectory it gives (polling alphaBestFound_ to give up early), and,     *)
(* holding lineSearchResultMutex_, keeps it if its merit is lower, marks    *)
(* the exponent as processed and ends the search when all exponents below   *)
(* the best one are processed.                                              *)
(*                                                                          *)
(* Merits are reduced to "lower than the previous iterate's or not", chosen *)
(* anew for every search.  How a worker gets into lineSearchWorker is       *)
(* reduced to Dispatch; module NLOCBackendMP replaces it by threadWork.     *)
(****************************************************************************)
EXTENDS Integers, FiniteSets

CONSTANTS Workers,        \* settings_.nThreads worker threads
          Main,           \* the thread that runs the solver
          MaxIterations,  \* lineSearchSettings.maxIterations, alphaExpMax_
          Nobody          \* holder of a free mutex

LINE_SEARCH == "LINE_SEARCH"
IDLE        == "IDLE"
Exponents   == 0 .. MaxIterations - 1

ASSUME IterationsAssumption == MaxIterations \in Nat
ASSUME ThreadsAssumption ==
    Main \notin Workers /\ Nobody \notin Workers /\ IsFiniteSet(Workers)

VARIABLES pc,              \* where each thread is
          workerTask,      \* workerTask_
          alphaTaken,      \* alphaTaken_: exponents handed out
          alphaBestFound,  \* alphaBestFound_
          alphaExpBest,    \* alphaExpBest_
          alphaProcessed,  \* the exponents a with alphaProcessed_[a] = 1
          resultMutex,     \* who holds lineSearchResultMutex_
          exponent,        \* alphaExp, local to a worker
          merit,           \* what a worker's evaluation came to
          result,          \* x_, u_ff_, lowestCost_, ...: where they come from
          improving,       \* data: the exponents whose full merit is lower
          tried,           \* history: exponents evaluated to the end
          served,          \* history: workers that were dispatched to this call
          overlap,         \* history: the state was reset under a worker's feet
          lost             \* history: a notification found nobody waiting yet

search  == <<alphaTaken, alphaBestFound, alphaExpBest, alphaProcessed>>
local   == <<exponent, merit>>
history == <<tried, served, overlap, lost>>
vars    == <<pc, workerTask, search, resultMutex, local, result, improving, history>>

Threads == Workers \cup {Main}

\* The outcome of an evaluation compared with lowestCostPrevious_.  "partial"
\* is a merit that is lower because the evaluation stopped before it added the
\* constraint violations, which count as 0 until then.
Merits == {"none", "lower", "notLower", "partial"}

\* The solver's iterate: the previous one, or what evaluation it was taken from
Previous == [exponent |-> MaxIterations, merit |-> "none"]

\* The places between entering lineSearchWorker and leaving it
InSearch == {"takeAlpha", "checkAlpha", "evaluate", "lock", "judge", "keep", "settle",
             "announce"}

--------------------------------------------------------------------------------
Init ==
    /\ pc = [t \in Threads |-> "returned"]
    /\ workerTask = IDLE
    /\ alphaTaken = 0 /\ alphaBestFound = FALSE
    /\ alphaExpBest = MaxIterations /\ alphaProcessed = {}
    /\ resultMutex = Nobody
    /\ exponent = [w \in Workers |-> 0]
    /\ merit = [w \in Workers |-> "none"]
    /\ result = Previous /\ improving = {}
    /\ tried = {} /\ served = {} /\ overlap = FALSE /\ lost = FALSE

Goto(t, from, to) == pc[t] = from /\ pc' = [pc EXCEPT ![t] = to]

(***************************************************************************)
(* The main thread                                                         *)
(***************************************************************************)

\* performLineSearch is called: the iterate found so far is the previous one
\* now.  alphaProcessed_.clear() leaves the elements in place until resize()
\* zeroes them.
CallLineSearch ==
    /\ Goto(Main, "returned", "resetAlphaTaken")
    /\ improving' \in SUBSET Exponents
    /\ result' = Previous
    /\ UNCHANGED <<workerTask, search, resultMutex, local, history>>

ResetTaken ==
    /\ Goto(Main, "resetAlphaTaken", "resetFound")
    /\ alphaTaken' = 0
    /\ tried' = {}
    /\ overlap' = (overlap \/ \E w \in Workers : pc[w] \in InSearch)
    /\ UNCHANGED <<workerTask, alphaBestFound, alphaExpBest, alphaProcessed, resultMutex,
                   local, result, improving, served, lost>>

ResetFound ==
    /\ Goto(Main, "resetFound", "resetBest")
    /\ alphaBestFound' = FALSE
    /\ UNCHANGED <<workerTask, alphaTaken, alphaExpBest, alphaProcessed, resultMutex, local,
                   result, improving, history>>

ResetBest ==
    /\ Goto(Main, "resetBest", "resetProcessed")
    /\ alphaExpBest' = MaxIterations
    /\ UNCHANGED <<workerTask, alphaTaken, alphaBestFound, alphaProcessed, resultMutex, local,
                   result, improving, history>>

ResetProcessed ==
    /\ Goto(Main, "resetProcessed", "publishSearch")
    /\ alphaProcessed' = {}
    /\ UNCHANGED <<workerTask, alphaTaken, alphaBestFound, alphaExpBest, resultMutex, local,
                   result, improving, history>>

Publish ==
    /\ Goto(Main, "publishSearch", "notifySearch")
    /\ workerTask' = LINE_SEARCH
    /\ served' = {}
    /\ UNCHANGED <<search, resultMutex, local, result, improving, tried, overlap, lost>>

\* workerWakeUpCondition_.notify_all(): whoever sleeps is awake again.
NotifyWorkers ==
    /\ pc[Main] = "notifySearch"
    /\ pc' = [t \in Threads |-> CASE t = Main -> "awaitBest"
                                  [] pc[t] = "asleep" -> "awake"
                                  [] OTHER -> pc[t]]
    /\ UNCHANGED <<workerTask, search, resultMutex, local, result, improving, history>>

\* The predicate of alphaBestFoundCondition_.wait
Await ==
    /\ pc[Main] = "awaitBest"
    /\ pc' = [pc EXCEPT ![Main] = IF alphaBestFound THEN "doneBest" ELSE "gapBest"]
    /\ UNCHANGED <<workerTask, search, resultMutex, local, result, improving, history>>

\* The wait begins.  No worker takes alphaBestFoundMutex_.
Block ==
    /\ Goto(Main, "gapBest", "blockedBest")
    /\ UNCHANGED <<workerTask, search, resultMutex, local, result, improving, history>>

\* A condition variable may wake up without a notification.
Spurious ==
    /\ Goto(Main, "blockedBest", "awaitBest")
    /\ UNCHANGED <<workerTask, search, resultMutex, local, result, improving, history>>

\* workerTask_ = IDLE; alphaBest is computed from alphaExpBest_ and returned.
Finish ==
    /\ Goto(Main, "doneBest", "returned")
    /\ workerTask' = IDLE
    /\ UNCHANGED <<search, resultMutex, local, result, improving, history>>

(***************************************************************************)
(* A worker                                                                *)
(***************************************************************************)

Dispatch(w) ==
    /\ Goto(w, "returned", "takeAlpha")
    /\ workerTask = LINE_SEARCH
    /\ w \notin served
    /\ served' = served \cup {w}
    /\ UNCHANGED <<workerTask, search, resultMutex, local, result, improving, tried, overlap, lost>>

\* alphaExp = alphaTaken_++
Take(w) ==
    /\ Goto(w, "takeAlpha", "checkAlpha")
    /\ exponent' = [exponent EXCEPT ![w] = alphaTaken]
    /\ alphaTaken' = alphaTaken + 1
    /\ UNCHANGED <<workerTask, alphaBestFound, alphaExpBest, alphaProcessed, resultMutex, merit,
                   result, improving, history>>

\* Back to threadWork; the locals die.
Leave(w) == /\ pc' = [pc EXCEPT ![w] = "returned"]
            /\ exponent' = [exponent EXCEPT ![w] = 0]
            /\ merit' = [merit EXCEPT ![w] = "none"]

\* Wrong on purpose: one step too many is tried.
CheckTooLate(w) ==
    /\ pc[w] = "checkAlpha"
    /\ IF exponent[w] > MaxIterations \/ alphaBestFound
       THEN Leave(w)
       ELSE pc' = [pc EXCEPT ![w] = "evaluate"] /\ UNCHANGED local
    /\ UNCHANGED <<workerTask, search, resultMutex, result, improving, history>>

\* if (alphaExp >= alphaExpMax_ || alphaBestFound_) return
Check(w) ==
    /\ pc[w] = "checkAlpha"
    /\ IF exponent[w] >= MaxIterations \/ alphaBestFound
       THEN Leave(w)
       ELSE pc' = [pc EXCEPT ![w] = "evaluate"] /\ UNCHANGED local
    /\ UNCHANGED <<workerTask, search, resultMutex, result, improving, history>>

\* executeLineSearch runs to its end.
Evaluate(w) ==
    /\ Goto(w, "evaluate", "lock")
    /\ merit' = [merit EXCEPT ![w] = IF exponent[w] \in improving THEN "lower" ELSE "notLower"]
    /\ tried' = tried \cup {exponent[w]}
    /\ UNCHANGED <<workerTask, search, resultMutex, exponent, result, improving, served, overlap, lost>>

\* executeLineSearch finds its termination flag set and returns early: with
\* costs at their maximum, or with costs but no constraint violations.
GiveUp(w) ==
    /\ Goto(w, "evaluate", "lock")
    /\ alphaBestFound
    /\ \E m \in {"notLower", "partial"} : merit' = [merit EXCEPT ![w] = m]
    /\ UNCHANGED <<workerTask, search, resultMutex, exponent, result, improving, history>>

\* Wrong on purpose: the mutex is not taken.
PassLock(w) ==
    /\ Goto(w, "lock", "judge")
    /\ UNCHANGED <<workerTask, search, resultMutex, local, result, improving, history>>

Lock(w) ==
    /\ Goto(w, "lock", "judge")
    /\ resultMutex = Nobody
    /\ resultMutex' = w
    /\ UNCHANGED <<workerTask, search, local, result, improving, history>>

\* cost < lowestCostPrevious_ && !isnan(cost)
LowerMerit(w) == merit[w] \in {"lower", "partial"}

\* "make sure we do not alter an existing result": unlock and leave
Discard(w) ==
    /\ pc[w] = "judge"
    /\ LowerMerit(w) /\ alphaBestFound
    /\ Leave(w)
    /\ resultMutex' = Nobody
    /\ UNCHANGED <<workerTask, search, result, improving, history>>

\* Wrong on purpose: a settled result is overwritten.
AcceptAlways(w) ==
    /\ Goto(w, "judge", "keep")
    /\ LowerMerit(w)
    /\ UNCHANGED <<workerTask, search, resultMutex, local, result, improving, history>>

\* The merit is lower and the search is still open.
Accept(w) ==
    /\ Goto(w, "judge", "keep")
    /\ LowerMerit(w) /\ ~alphaBestFound
    /\ UNCHANGED <<workerTask, search, resultMutex, local, result, improving, history>>

\* The result members are overwritten.
Keep(w) ==
    /\ Goto(w, "keep", "settle")
    /\ alphaExpBest' = exponent[w]
    /\ result' = [exponent |-> exponent[w], merit |-> merit[w]]
    /\ UNCHANGED <<workerTask, alphaTaken, alphaBestFound, alphaProcessed, resultMutex, local,
                   improving, history>>

Reject(w) ==
    /\ Goto(w, "judge", "settle")
    /\ ~LowerMerit(w)
    /\ UNCHANGED <<workerTask, search, resultMutex, local, result, improving, history>>

\* Wrong on purpose: the step just below the best one may be missing.
AllButOneProcessed(done) == \A a \in 0 .. alphaExpBest - 2 : a \in done

\* alphaProcessed_[alphaExp] = 1, and "check if all alphas prior to the best
\* have been processed"
AllPreviousProcessed(done) == \A a \in 0 .. alphaExpBest - 1 : a \in done

Settle(w) ==
    /\ pc[w] = "settle"
    /\ alphaProcessed' = alphaProcessed \cup {exponent[w]}
    /\ IF AllPreviousProcessed(alphaProcessed')
       THEN /\ alphaBestFound' = TRUE
            /\ pc' = [pc EXCEPT ![w] = "announce"]
            /\ UNCHANGED resultMutex
       ELSE /\ pc' = [pc EXCEPT ![w] = "takeAlpha"]
            /\ resultMutex' = Nobody
            /\ UNCHANGED alphaBestFound
    /\ UNCHANGED <<workerTask, alphaTaken, alphaExpBest, local, result, improving, history>>

\* Wrong on purpose: nobody is notified.
AnnounceSilently(w) ==
    /\ pc[w] = "announce"
    /\ pc' = [pc EXCEPT ![w] = "takeAlpha"]
    /\ resultMutex' = Nobody
    /\ UNCHANGED <<workerTask, search, local, result, improving, history>>

\* alphaBestFoundCondition_.notify_all(), without alphaBestFoundMutex_, and
\* lineSearchResultMutex_.unlock()
Announce(w) ==
    /\ pc[w] = "announce"
    /\ pc' = [pc EXCEPT ![w] = "takeAlpha", ![Main] = IF @ = "blockedBest" THEN "awaitBest" ELSE @]
    /\ lost' = (lost \/ pc[Main] = "gapBest")
    /\ resultMutex' = Nobody
    /\ UNCHANGED <<workerTask, search, local, result, improving, tried, served, overlap>>

--------------------------------------------------------------------------------
MainWork == \/ ResetTaken \/ ResetFound \/ ResetBest \/ ResetProcessed
            \/ Publish \/ NotifyWorkers \/ Await \/ Block \/ Finish

WorkerFunction(w) ==
    \/ Take(w) \/ Check(w) \/ Evaluate(w) \/ GiveUp(w) \/ Lock(w)
    \/ Discard(w) \/ Accept(w) \/ Keep(w) \/ Reject(w) \/ Settle(w) \/ Announce(w)

Next == \/ CallLineSearch \/ MainWork \/ Spurious
        \/ \E w \in Workers : Dispatch(w) \/ WorkerFunction(w)

Spec == Init /\ [][Next]_vars

\* The operating system runs every thread that can run, and a mutex is granted
\* in the end; an evaluation ends.
Fairness == /\ WF_vars(MainWork)
            /\ \A w \in Workers : /\ WF_vars(Dispatch(w) \/ WorkerFunction(w))
                                  /\ SF_vars(Lock(w))

FairSpec == Spec /\ Fairness
--------------------------------------------------------------------------------
(***************************************************************************)
(* Properties                                                              *)
(***************************************************************************)

MainPlaces   == {"returned", "resetAlphaTaken", "resetFound", "resetBest",
                 "resetProcessed", "publishSearch", "notifySearch", "awaitBest", "gapBest",
                 "blockedBest", "doneBest"}
WorkerPlaces == InSearch \cup {"returned"}

\* The types of the variables.
TypeOK ==
    /\ pc \in [Threads -> MainPlaces \cup WorkerPlaces]
    /\ pc[Main] \in MainPlaces
    /\ \A w \in Workers : pc[w] \in WorkerPlaces
    /\ workerTask \in {LINE_SEARCH, IDLE}
    /\ alphaTaken \in Nat /\ alphaBestFound \in BOOLEAN
    /\ alphaExpBest \in 0 .. MaxIterations
    /\ alphaProcessed \subseteq Exponents
    /\ resultMutex \in Workers \cup {Nobody}
    /\ exponent \in [Workers -> Nat]
    /\ merit \in [Workers -> Merits]
    /\ result \in [exponent : 0 .. MaxIterations, merit : Merits]
    /\ improving \subseteq Exponents /\ tried \subseteq Exponents
    /\ served \subseteq Workers
    /\ overlap \in BOOLEAN /\ lost \in BOOLEAN

\* The trajectories taken over come from an evaluation that ran to its end and
\* really lowered the merit, never from one that gave up half way and looks
\* good because its constraint violations were not added.
GenuineResult ==
    ~overlap => \/ result = Previous
                \/ result.exponent \in improving /\ result.merit = "lower"

\* When performLineSearch has its answer, every larger step was evaluated to
\* the end, the exponent it answers with is the one the trajectories belong
\* to, and "no better step" is answered only if there is none.
SearchExhaustive ==
    (pc[Main] \in {"doneBest", "returned"} /\ alphaBestFound /\ ~overlap) =>
        /\ \A a \in Exponents : a < alphaExpBest => a \in tried
        /\ alphaExpBest = result.exponent
        /\ alphaExpBest = MaxIterations => improving = {}

\* Once alphaBestFound_ is set the solver goes on with the result while other
\* workers are still evaluating: none of them replaces it any more.
ResultFrozen == [][(alphaBestFound /\ ~overlap') => result' \in {result, Previous}]_vars

SS == INSTANCE StepSearch WITH busy <- pc[Main] # "returned", kept <- alphaExpBest

\* The parallel search is a search: every step of the threads is a step of
\* StepSearch, unless a search found a worker of an earlier one still at it.
ImplementsStepSearch == SS!Init /\ [][SS!Next \/ overlap']_(SS!vars)

\* performLineSearch returns, unless a notification met nobody in the wait or
\* an earlier search's worker interfered.
SearchReturns == (pc[Main] # "returned") ~> (pc[Main] = "returned" \/ lost \/ overlap)

================================================================================
