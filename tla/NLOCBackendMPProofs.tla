-------------------------- MODULE NLOCBackendMPProofs --------------------------
(****************************************************************************)
(* For any number of workers and any script of operations: what the calls   *)
(* of IndexTask and LineSearchMP promise still holds when their workers     *)
(* come from threadWork, and what threadWork's process IDs and its mutex    *)
(* are good for.                                                            *)
(*                                                                          *)
(* The proofs about the calls are those of IndexTaskProofs and              *)
(* LineSearchMPProofs, instantiated with this system seen through the eyes  *)
(* of one of its parts: a thread that is somewhere else is "returned", and  *)
(* a task that is none of the part's is IDLE.                               *)
(****************************************************************************)
EXTENDS NLOCBackendMP, SequenceTheorems, FiniteSetTheorems, TLAPS

LineSearchTask == "LINE_SEARCH"
Tasks == IndexTasks \cup {LineSearchTask}

IndexPlaces  == Idx!MainPlaces \cup Idx!WorkerPlaces
SearchPlaces == LS!MainPlaces \cup LS!WorkerPlaces

indexPc   == [t \in Workers \cup {Main} |-> IF pc[t] \in IndexPlaces THEN pc[t] ELSE "returned"]
searchPc  == [t \in Workers \cup {Main} |-> IF pc[t] \in SearchPlaces THEN pc[t] ELSE "returned"]
indexTask  == IF workerTask \in IndexTasks THEN workerTask ELSE IDLE
searchTask == IF workerTask = LineSearchTask THEN workerTask ELSE IDLE

IP == INSTANCE IndexTaskProofs WITH pc <- indexPc, workerTask <- indexTask,
                                    overlap <- overlap \/ stale
SP == INSTANCE LineSearchMPProofs WITH pc <- searchPc, workerTask <- searchTask,
                                       overlap <- overlap \/ stale

--------------------------------------------------------------------------------
(***************************************************************************)
(* Places and types                                                        *)
(***************************************************************************)

ShutdownPlaces == {"setShutdown", "notifyShutdown", "join", "destroyed"}
BeforeServing  == {"top", "loadTask", "loadIteration", "loadLqp", "decide", "awake", "test", "load",
                   "fallAsleep", "asleep", "reloadTask", "reloadIteration", "reloadLqp",
                   "dispatch", "exited"}
InFunction     == Idx!InLoop \cup {"exit"} \cup LS!InSearch \cup {"returned"}
MainPlaces     == Idx!MainPlaces \cup LS!MainPlaces \cup ShutdownPlaces

PlacesOK == /\ pc \in [Workers \cup {Main} -> MainPlaces \cup BeforeServing \cup InFunction]
            /\ pc[Main] \in MainPlaces
            /\ \A w \in Workers : pc[w] \in BeforeServing \cup InFunction

\* Where the main thread is tells what is on offer.
IndexServing  == IP!Serving
SearchServing == SP!Open \ {"returned"}
TaskInv ==
    workerTask = CASE pc[Main] \in IndexServing -> call.task
                   [] pc[Main] \in SearchServing -> LineSearchTask
                   [] pc[Main] \in {"notifyShutdown", "join", "destroyed"} -> SHUTDOWN
                   [] OTHER -> IDLE

\* A worker function is entered with one of its tasks only.
LocalInv == \A w \in Workers :
    /\ pc[w] \in InFunction => taskLocal[w] \in Tasks
    /\ iterationLocal[w] <= iteration /\ lqpLocal[w] <= lqpCounter

\* What the condition of the wait has loaded is forgotten with the comparison.
SeenInv == \A w \in Workers : pc[w] # "load" => seen[w] = NothingRead

TypeInv == /\ TypeOK /\ PlacesOK /\ TaskInv /\ LocalInv /\ SeenInv
           /\ IP!TypeInv /\ IP!MainInv /\ SP!TypeInv /\ SP!MainInv

(***************************************************************************)
(* Undisturbed calls                                                       *)
(***************************************************************************)

\* Undisturbed, a worker on its way into a worker function has read the task
\* on offer, or that of the last call, which is over; and nobody is on its way
\* while a call resets what it shares with the workers.
Setup == IP!Setup \cup SP!Resets
WayInv == \A w \in Workers : OnItsWay(w) =>
    /\ pc[Main] \notin Setup
    /\ workerTask \in Tasks => taskLocal[w] = workerTask
    /\ (workerTask \notin Tasks /\ taskLocal[w] \in IndexTasks) => kTaken > IP!Span
    /\ (workerTask \notin Tasks /\ taskLocal[w] = LineSearchTask) => alphaBestFound

CallsInv == /\ TypeInv /\ IP!Inv /\ SP!Inv
            /\ Undisturbed => WayInv

(***************************************************************************)
(* workerWakeUpMutex_ and the shutdown                                     *)
(***************************************************************************)

WakeUpInv == \A w \in Workers : pc[w] \in {"test", "load", "fallAsleep"} <=> wakeUpMutex = w

\* What a worker remembers is 0 or the ID of a task it has served.
IdInv == \A w \in Workers :
    \/ uniqueProcessID[w] = 0
    \/ \E i \in 0 .. iteration, t \in Tasks, c \in 0 .. lqpCounter :
          uniqueProcessID[w] = Id!generateUniqueProcessID(i, t, c)

\* How the comparison of worker w comes out if the rest is loaded now
Seen(w, operand) == IF seen[w][operand] = NotRead THEN SharedNow[operand] ELSE seen[w][operand]
FindsNothingNew(w) == uniqueProcessID[w] = Id!ProcessIdOf(Seen(w, "iteration"), Seen(w, "task"),
                                                          Seen(w, "lqp"))

FallingAsleep(w) == \/ pc[w] \in {"asleep", "fallAsleep"}
                    \/ pc[w] = "load" /\ FindsNothingNew(w)

MissInv == pc[Main] \in {"join", "destroyed"} =>
              \A v, w \in Workers : FallingAsleep(v) /\ FallingAsleep(w) => v = w

ShutdownInv == TypeInv /\ WakeUpInv /\ IdInv /\ MissInv

(***************************************************************************)
(* Serving once                                                            *)
(***************************************************************************)

CurrentId == Id!generateUniqueProcessID(iteration, workerTask, lqpCounter)

\* What a worker on its way has read is current as far as it has got.
CurrentInv == \A w \in Workers : (OnItsWay(w) /\ workerTask \in Tasks) =>
    /\ pc[w] \in {"loadLqp", "decide", "reloadLqp", "dispatch"} => iterationLocal[w] = iteration
    /\ pc[w] \in {"decide", "dispatch"} => lqpLocal[w] = lqpCounter

\* Past the comparison of process IDs
Cleared == {"reloadTask", "reloadIteration", "reloadLqp", "dispatch"}

ServedInv == \A w \in Workers : (w \in served /\ workerTask \in Tasks) =>
    /\ pc[w] \notin Cleared
    /\ pc[w] \in InFunction => /\ taskLocal[w] = workerTask
                               /\ iterationLocal[w] = iteration /\ lqpLocal[w] = lqpCounter
    /\ pc[w] \notin InFunction => uniqueProcessID[w] = CurrentId
    /\ pc[w] = "load" => FindsNothingNew(w)

\* SHUTDOWN is the last task.
FinalInv == \A w \in Workers :
    taskLocal[w] = SHUTDOWN => pc[Main] \in {"notifyShutdown", "join", "destroyed"}

OnceInv == CallsInv /\ FinalInv /\ (Undisturbed => CurrentInv /\ ServedInv)

(***************************************************************************)
(* No work is taken for work that was served                               *)
(***************************************************************************)

Offers == {k \in DOMAIN Script : \/ Script[k].op = LineSearchTask
                                 \/ /\ Script[k].op \in IndexTasks
                                    /\ Script[k].first # Script[k].last}
Counts == {k \in DOMAIN Script : Script[k].op \in {"COUNT_LQP", "ITERATE"}}

\* Between two offers of the same task there is another offer, and a counter
\* goes up after that.
OffersApart == \A k, m \in Offers :
    (k < m /\ Script[k].op = Script[m].op) =>
        \E p \in Offers, q \in Counts : k < p /\ p < q /\ q < m

\* The first operation whose task is not published yet
Unpublished == {"resetTaken", "resetAlphaTaken"} \cup Setup
Pending == IF pc[Main] \in Unpublished THEN next - 1 ELSE next

\* The task is not offered again before another one was and a counter went up.
FarOff(task) == \A m \in Offers :
    (m >= Pending /\ Script[m].op = task) =>
        \E p \in Offers, q \in Counts : Pending <= p /\ p < q /\ q < m

\* The task is not offered again under the present counters.
Renewed(task) == \A m \in Offers :
    (m >= Pending /\ Script[m].op = task) => \E q \in Counts : next <= q /\ q < m

\* The operation in progress, and the number of iterations so far
PendingInv ==
    /\ iteration < next
    /\ pc[Main] \in Unpublished \cup IndexServing \cup SearchServing => next - 1 \in Offers
    /\ pc[Main] \in {"resetTaken"} \cup IP!Setup \cup IndexServing =>
          Script[next - 1].op = call.task
    /\ pc[Main] \in {"resetAlphaTaken"} \cup SP!Resets \cup SearchServing =>
          Script[next - 1].op = LineSearchTask

Remembered(w, task) == Renewed(task) /\ (workerTask = task => w \in served)

FreshInv == \A w \in Workers :
    /\ OnItsWay(w) => FarOff(taskLocal[w])
    /\ (pc[w] \in InFunction /\ iterationLocal[w] = iteration /\ lqpLocal[w] = lqpCounter) =>
          Remembered(w, taskLocal[w])
    /\ \A task \in Tasks :
          uniqueProcessID[w] = Id!generateUniqueProcessID(iteration, task, lqpCounter) =>
              Remembered(w, task)

(***************************************************************************)
(* No standstill                                                           *)
(***************************************************************************)

\* Only one worker sleeps through a call.
SleptThrough(w) == FallingAsleep(w) /\ w \notin served
MissesInv == pc[Main] \in (IndexServing \cup SearchServing) \ {"notify", "notifySearch"} =>
                \A v, w \in Workers : SleptThrough(v) /\ SleptThrough(w) => v = w

\* Who has left a worker function found nothing left to do.
LeftInv == \A w \in Workers :
    /\ (pc[Main] \in IndexServing /\ w \in served /\ pc[w] \notin Idx!InLoop) => kTaken > IP!Span
    /\ (pc[Main] \in SearchServing /\ w \in served /\ pc[w] \notin LS!InSearch) =>
          alphaBestFound \/ alphaTaken >= MaxIterations

\* The last one to finish is still there to tell the main thread.
IndexTold  == (pc[Main] \in {"gap", "blocked"} /\ kCompleted > IP!Span) =>
                 \E w \in Workers : pc[w] \in {"take", "check", "exit"}
SearchTold == (pc[Main] \in {"gapBest", "blockedBest"} /\ alphaBestFound) =>
                 \E w \in Workers : pc[w] = "announce"
TellInv == IndexTold /\ SearchTold

\* A step that was taken is processed or in some worker's hands, and whoever
\* completes the larger steps is about to see it.
InHands  == LS!InSearch \ {"takeAlpha", "announce"}
Bounded  == \A w \in Workers : pc[w] = "checkAlpha" => exponent[w] < alphaTaken
AllHeld  == \A a \in 0 .. MaxIterations - 1 : a < alphaTaken =>
               \/ a \in alphaProcessed
               \/ \E w \in Workers : pc[w] \in InHands /\ exponent[w] = a
Settling == LS!AllPreviousProcessed(alphaProcessed) => \E w \in Workers : pc[w] = "settle"
TakenInv == pc[Main] \in SearchServing => Bounded /\ (~alphaBestFound => AllHeld /\ Settling)
NoneTakenInv == pc[Main] \in SP!Resets => alphaTaken = 0

StandInv == /\ CallsInv /\ WakeUpInv /\ IdInv /\ PendingInv
            /\ Undisturbed => /\ FreshInv /\ MissesInv /\ LeftInv /\ NoneTakenInv /\ TakenInv
                              /\ ~lost => TellInv
--------------------------------------------------------------------------------
(***************************************************************************)
(* The parts and the whole                                                 *)
(***************************************************************************)

\* What the script consists of
LEMMA ScriptType ==
    /\ Len(Script) \in Nat /\ DOMAIN Script = 1 .. Len(Script)
    /\ \A k \in DOMAIN Script :
          /\ Script[k] \in [op : OperationNames, first : 0 .. K, last : 0 .. K - 1]
          /\ Script[k].op \in OperationNames
<1>1. Len(Script) \in Nat /\ DOMAIN Script = 1 .. Len(Script)
  BY ScriptAssumption, LenProperties
<1>2. \A k \in 1 .. Len(Script) :
         Script[k] \in [op : OperationNames, first : 0 .. K, last : 0 .. K - 1]
  BY ScriptAssumption, ElementOfSeq
<1> QED
  BY <1>1, <1>2

LEMMA IndexPlacesAre ==
    /\ IndexPlaces = {"returned", "resetTaken", "resetCompleted", "setKMax", "setKMin", "publish",
                      "notify", "await", "gap", "blocked", "done", "take", "check", "work",
                      "complete", "exit"}
    /\ SearchPlaces = {"returned", "resetAlphaTaken", "resetFound", "resetBest", "resetProcessed",
                       "publishSearch", "notifySearch", "awaitBest", "gapBest", "blockedBest",
                       "doneBest", "takeAlpha", "checkAlpha", "evaluate", "lock", "judge", "keep",
                       "settle", "announce"}
BY DEF IndexPlaces, SearchPlaces, Idx!MainPlaces, Idx!WorkerPlaces, Idx!InLoop, LS!MainPlaces,
       LS!WorkerPlaces, LS!InSearch

\* How a thread's step looks to the two parts
LEMMA StepSeen ==
    ASSUME PlacesOK, NEW t \in Workers \cup {Main}, NEW to, pc' = [pc EXCEPT ![t] = to]
    PROVE  /\ indexPc' = [indexPc EXCEPT ![t] = IF to \in IndexPlaces THEN to ELSE "returned"]
           /\ searchPc' = [searchPc EXCEPT ![t] = IF to \in SearchPlaces THEN to ELSE "returned"]
BY DEF PlacesOK, indexPc, searchPc

\* The same for a worker that notifies the main thread
LEMMA NotificationSeen ==
    ASSUME PlacesOK, NEW w \in Workers, NEW to, NEW at,
           pc' = [pc EXCEPT ![w] = to, ![Main] = at]
    PROVE  /\ indexPc' = [indexPc EXCEPT ![w] = IF to \in IndexPlaces THEN to ELSE "returned",
                                         ![Main] = IF at \in IndexPlaces THEN at ELSE "returned"]
           /\ searchPc' = [searchPc EXCEPT ![w] = IF to \in SearchPlaces THEN to ELSE "returned",
                                           ![Main] = IF at \in SearchPlaces THEN at ELSE "returned"]
BY ThreadsAssumption DEF PlacesOK, indexPc, searchPc

\* The assumptions of the two modules follow from those of this one.
LEMMA PartsAssumptions ==
    /\ IP!SizesAssumption /\ IP!ThreadsAssumption /\ IP!RequestsAssumption
    /\ SP!IterationsAssumption /\ SP!ThreadsAssumption
<1>1. Requests \subseteq [task : IndexTasks, first : 0 .. K, last : 0 .. K - 1]
  BY ScriptType DEF Requests, Operations
<1>2. IP!SizesAssumption
  BY SizesAssumption
<1>3. IP!ThreadsAssumption
  BY ThreadsAssumption DEF IsFiniteSet, IP!IsFiniteSet
<1>4. IP!RequestsAssumption
  BY <1>1 DEF IP!Tasks, IP!LQ, IP!ROLLOUT, IndexTasks
<1>5. SP!IterationsAssumption
  BY SizesAssumption
<1>6. SP!ThreadsAssumption
  BY ThreadsAssumption DEF IsFiniteSet, SP!IsFiniteSet
<1> QED
  BY <1>2, <1>3, <1>4, <1>5, <1>6

\* Disturbed or not, as the parts see it
LEMMA DisturbedMeans == (~(overlap \/ stale)) <=> Undisturbed
BY DEF Undisturbed

\* The steps of a worker inside computeLQProblemWorker or rolloutShotWorker are
\* steps of IndexTask.
LEMMA InIndexTaskMaps ==
    ASSUME TypeInv, NEW w \in Workers, InIndexTask(w)
    PROVE  IP!WorkerFunction(w)
<1> USE DEF TypeInv, PlacesOK
<1>1. w \in Workers \cup {Main} /\ Main \in Workers \cup {Main} /\ w # Main
  BY ThreadsAssumption
<1>2. indexTask' = indexTask /\ (overlap \/ stale)' = (overlap \/ stale)
  BY DEF InIndexTask, Idx!Take, Idx!Check, Idx!Work, Idx!Complete, Idx!Exit, Idx!history, Idx!counters,
         indexTask
<1> USE <1>1, <1>2, StepSeen, IndexPlacesAre
    DEF Idx!Goto, Idx!history, Idx!counters, IP!Goto, IP!history, IP!counters, indexPc
<1>3. ASSUME Idx!Take(w) PROVE IP!Take(w)
  BY <1>3 DEF Idx!Take, IP!Take
<1>4. ASSUME Idx!Check(w) PROVE IP!Check(w)
  BY <1>4 DEF Idx!Check, IP!Check, Idx!Span, IP!Span, Idx!Minus, IP!Minus
<1>5. ASSUME Idx!Work(w) PROVE IP!Work(w)
  BY <1>5 DEF Idx!Work, IP!Work, Idx!Stage, IP!Stage, Idx!Minus, IP!Minus, Idx!HasWork, IP!HasWork,
              Idx!ROLLOUT, IP!ROLLOUT
<1>6. ASSUME Idx!Complete(w) PROVE IP!Complete(w)
  BY <1>6 DEF Idx!Complete, IP!Complete
<1>7. ASSUME Idx!Exit(w) PROVE IP!Exit(w)
  <2>1. Idx!Span = IP!Span /\ Idx!IDLE = IP!IDLE
    BY DEF Idx!Span, IP!Span, Idx!Minus, IP!Minus, Idx!IDLE, IP!IDLE
  <2>2. CASE kCompleted > Idx!Span
    <3> DEFINE at == IF pc[Main] = "blocked" THEN "await" ELSE pc[Main]
    <3>1. pc' = [pc EXCEPT ![w] = "returned", ![Main] = at] /\ lost' = (lost \/ pc[Main] = "gap")
      BY <1>7, <2>2 DEF Idx!Exit, Idx!NotifyMain
    <3>2. indexPc' = [indexPc EXCEPT ![w] = "returned",
                                     ![Main] = IF at \in IndexPlaces THEN at ELSE "returned"]
      <4>1. PlacesOK /\ w \in Workers /\ pc' = [pc EXCEPT ![w] = "returned", ![Main] = at]
        BY <3>1
      <4>2. (IF "returned" \in IndexPlaces THEN "returned" ELSE "returned") = "returned"
        OBVIOUS
      <4> HIDE DEF at, indexPc, PlacesOK
      <4> QED
        BY ONLY <4>1, <4>2, NotificationSeen
    <3>3. /\ indexPc[Main] = "blocked" <=> pc[Main] = "blocked"
          /\ indexPc[Main] = "gap" <=> pc[Main] = "gap"
          /\ indexPc[w] = "exit"
      BY <1>7 DEF Idx!Exit
    <3>4. (IF at \in IndexPlaces THEN at ELSE "returned")
             = IF indexPc[Main] = "blocked" THEN "await" ELSE indexPc[Main]
      BY <3>3
    <3>5. IP!NotifyMain(w, "returned")
      BY <3>1, <3>2, <3>3, <3>4 DEF IP!NotifyMain
    <3> QED
      BY <1>7, <2>1, <2>2, <3>3, <3>5 DEF Idx!Exit, IP!Exit
  <2>3. CASE ~(kCompleted > Idx!Span)
    BY <1>7, <2>1, <2>3 DEF Idx!Exit, IP!Exit
  <2> QED
    BY <2>2, <2>3
<1> QED
  BY <1>3, <1>4, <1>5, <1>6, <1>7 DEF InIndexTask, IP!WorkerFunction

\* So are the steps of the main thread in computeLQApproximation and rolloutShots.
LEMMA MainIndexMaps ==
    ASSUME TypeInv,
           StartIndexTask \/ RunIndexTask \/ (Idx!Spurious /\ UNCHANGED stale)
              \/ (ResetIndexTask /\ Undisturbed')
    PROVE  IP!Call \/ IP!MainWork \/ IP!Spurious
<1> USE DEF TypeInv, PlacesOK
<1>1. Main \in Workers \cup {Main}
  OBVIOUS
<1> USE <1>1, StepSeen, IndexPlacesAre
    DEF Idx!Goto, Idx!history, Idx!counters, IP!Goto, IP!history, IP!counters, indexPc, indexTask
<1>2. CASE StartIndexTask
  <2>1. PICK r \in Requests : Idx!CallSingle(r) \/ Idx!CallParallel(r)
    <3> DEFINE q == [task |-> Script[next].op, first |-> Script[next].first,
                     last |-> Script[next].last]
    <3>1. q \in Requests
      <4>1. next <= Len(Script) /\ Script[next].op \in IndexTasks
        BY <1>2 DEF StartIndexTask, Operation
      <4>2. next \in DOMAIN Script
        BY <4>1, ScriptType DEF TypeOK
      <4>3. Script[next] \in Operations
        BY <4>2 DEF Operations
      <4> QED
        BY <4>1, <4>3 DEF Requests
    <3>2. Idx!CallSingle(q) \/ Idx!CallParallel(q)
      BY <1>2 DEF StartIndexTask
    <3> HIDE DEF q
    <3> QED
      BY <3>1, <3>2
  <2>2. stale' = stale
    BY <1>2 DEF StartIndexTask
  <2>3. ASSUME Idx!CallSingle(r) PROVE IP!CallSingle(r)
    BY <2>2, <2>3 DEF Idx!CallSingle, IP!CallSingle, Idx!Terminal, IP!Terminal, Idx!LQ, IP!LQ
  <2>4. ASSUME Idx!CallParallel(r) PROVE IP!CallParallel(r)
    BY <2>2, <2>4 DEF Idx!CallParallel, IP!CallParallel, Idx!Terminal, IP!Terminal, Idx!LQ, IP!LQ
  <2> QED
    BY <2>1, <2>3, <2>4 DEF IP!Call
<1>3. CASE RunIndexTask
  <2>0. stale' = stale
    BY <1>3 DEF RunIndexTask
  <2>1. ASSUME Idx!ResetCompleted PROVE IP!ResetCompleted
    BY <2>0, <2>1 DEF Idx!ResetCompleted, IP!ResetCompleted
  <2>7. ASSUME Idx!SetKMax PROVE IP!SetKMax
    BY <2>0, <2>7 DEF Idx!SetKMax, IP!SetKMax
  <2>8. ASSUME Idx!SetKMin PROVE IP!SetKMin
    BY <2>0, <2>8 DEF Idx!SetKMin, IP!SetKMin
  <2>2. ASSUME Idx!Publish PROVE IP!Publish
    <3>1. pc[Main] = "publish" /\ indexPc[Main] = "publish"
      BY <2>2 DEF Idx!Publish
    <3>2. call \in Requests
      BY <3>1 DEF IP!MainInv
    <3>3. call.task \in IndexTasks
      BY <3>2 DEF Requests
    <3> QED
      BY <2>0, <2>2, <3>3 DEF Idx!Publish, IP!Publish
  <2>3. ASSUME Idx!NotifyWorkers PROVE IP!NotifyWorkers
    <3>1. indexPc' = [t \in Workers \cup {Main} |-> IF t = Main THEN "await" ELSE indexPc[t]]
      BY <2>3 DEF Idx!NotifyWorkers, Idx!Threads
    <3>2. \A t \in Workers \cup {Main} : indexPc[t] # "asleep"
      OBVIOUS
    <3>3. indexPc[Main] = "notify"
      BY <2>3 DEF Idx!NotifyWorkers
    <3>4. UNCHANGED <<workerTask, IP!counters, item, job, IP!history>>
      BY <2>0, <2>3 DEF Idx!NotifyWorkers
    <3> HIDE DEF indexPc
    <3>5. [t \in IP!Threads |-> CASE t = Main -> "await"
                                  [] indexPc[t] = "asleep" -> "awake"
                                  [] OTHER -> indexPc[t]]
             = [t \in Workers \cup {Main} |-> IF t = Main THEN "await" ELSE indexPc[t]]
      BY ONLY <3>2 DEF IP!Threads
    <3> QED
      BY ONLY <3>1, <3>3, <3>4, <3>5 DEF IP!NotifyWorkers
  <2>4. ASSUME Idx!Await PROVE IP!Await
    BY <2>0, <2>4 DEF Idx!Await, IP!Await, Idx!Span, IP!Span, Idx!Minus, IP!Minus
  <2>5. ASSUME Idx!Block PROVE IP!Block
    BY <2>0, <2>5 DEF Idx!Block, IP!Block
  <2>6. ASSUME Idx!Finish PROVE IP!Finish
    BY <2>0, <2>6 DEF Idx!Finish, IP!Finish, Idx!IDLE, IP!IDLE, IDLE, IndexTasks
  <2> QED
    BY <1>3, <2>1, <2>2, <2>3, <2>4, <2>5, <2>6, <2>7, <2>8 DEF RunIndexTask, IP!MainWork
<1>4. CASE Idx!Spurious /\ UNCHANGED stale
  BY <1>4 DEF Idx!Spurious, IP!Spurious
<1>5. CASE ResetIndexTask /\ Undisturbed'
  <2>1. ~overlap' /\ ~stale' /\ ~overlap /\ ~stale /\ Idx!ResetTaken
    BY <1>5 DEF ResetIndexTask, MarkStale, Idx!ResetTaken, Undisturbed
  <2>2. ~ \E w \in Workers : indexPc[w] \in IP!InLoop
    BY <2>1 DEF Idx!ResetTaken, Idx!InLoop, IP!InLoop
  <2>3. IP!ResetTaken
    BY <2>1, <2>2 DEF Idx!ResetTaken, IP!ResetTaken
  <2> QED
    BY <2>3 DEF IP!MainWork
<1> QED
  BY <1>2, <1>3, <1>4, <1>5

\* threadWork outside the worker functions
ThreadWorkStep(w) ==
    \/ Top(w) \/ LoadTask(w) \/ LoadIteration(w) \/ LoadLqp(w) \/ Decide(w) \/ LockWakeUp(w)
    \/ WaitCondition(w) \/ FallAsleep(w) \/ SpuriousWorker(w) \/ Record(w)
ShutdownStep == Deactivate \/ SetShutdown \/ NotifyShutdown \/ Join

\* Where the steps of the condition lead
LEMMA WaitMoves ==
    ASSUME PlacesOK, NEW w \in Workers, WaitCondition(w)
    PROVE  /\ OwnStep(w) /\ UNCHANGED <<uniqueProcessID, taskLocal, iterationLocal, lqpLocal>>
           /\ pc' = [pc EXCEPT ![w] = pc'[w]]
           /\ \/ /\ Test(w) /\ pc[w] = "test" /\ wakeUpMutex' = wakeUpMutex /\ seen' = seen
                 /\ \/ pc'[w] = "fallAsleep" /\ workerTask = IDLE
                    \/ pc'[w] = "load" /\ workerTask # IDLE
              \/ \E operand \in Operands :
                    /\ pc[w] = "load" /\ pc'[w] = "load" /\ wakeUpMutex' = wakeUpMutex
                    /\ seen[w][operand] = NotRead
                    /\ seen' = [seen EXCEPT ![w][operand] = SharedNow[operand]]
              \/ /\ Compare(w) /\ pc[w] = "load" /\ seen' = [seen EXCEPT ![w] = NothingRead]
                 /\ \A operand \in Operands : seen[w][operand] # NotRead
                 /\ \/ pc'[w] = "fallAsleep" /\ SameAsBefore(w) /\ wakeUpMutex' = wakeUpMutex
                    \/ pc'[w] = "reloadTask" /\ ~SameAsBefore(w) /\ wakeUpMutex' = Nobody
<1> USE DEF PlacesOK, Goto, locals
<1>1. CASE Test(w)
  BY <1>1 DEF Test
<1>2. ASSUME NEW operand \in Operands, LoadOperand(w, operand)
      PROVE  /\ OwnStep(w) /\ UNCHANGED <<uniqueProcessID, taskLocal, iterationLocal, lqpLocal>>
             /\ pc' = [pc EXCEPT ![w] = pc'[w]]
             /\ pc[w] = "load" /\ pc'[w] = "load" /\ wakeUpMutex' = wakeUpMutex
             /\ seen[w][operand] = NotRead
             /\ seen' = [seen EXCEPT ![w][operand] = SharedNow[operand]]
  BY <1>2 DEF LoadOperand
<1>3. CASE Compare(w)
  BY <1>3 DEF Compare
<1> QED
  BY <1>1, <1>2, <1>3 DEF WaitCondition

LEMMA OthersSee ==
    ASSUME PlacesOK, NEW w \in Workers, WaitCondition(w), DOMAIN seen = Workers,
           NEW v \in Workers \ {w}
    PROVE  seen'[v] = seen[v]
<1>1. CASE seen' = seen
  BY <1>1
<1>2. ASSUME NEW operand \in Operands,
             seen' = [seen EXCEPT ![w] = [seen[w] EXCEPT ![operand] = SharedNow[operand]]]
      PROVE  seen'[v] = seen[v]
  BY <1>2
<1>3. CASE seen' = [seen EXCEPT ![w] = NothingRead]
  BY <1>3
<1> QED
  BY <1>1, <1>2, <1>3, WaitMoves

\* What these steps leave alone, and the places of threadWork they are between
LEMMA ThreadWorkFrame ==
    ASSUME PlacesOK, NEW w \in Workers, ThreadWorkStep(w)
    PROVE  /\ pc' = [pc EXCEPT ![w] = pc'[w]]
           /\ pc[w] \in BeforeServing \cup {"returned"} /\ pc'[w] \in BeforeServing
           /\ UNCHANGED <<workerTask, indexVars, searchVars, workersActive, counters, next,
                          history, stale>>
<1> USE DEF PlacesOK, OwnStep, Goto, BeforeServing
<1>1. CASE Top(w) \/ LoadTask(w) \/ LoadIteration(w) \/ LoadLqp(w) \/ Decide(w)
  BY <1>1 DEF Top, LoadTask, LoadIteration, LoadLqp, Decide
<1>2. CASE LockWakeUp(w) \/ FallAsleep(w) \/ SpuriousWorker(w) \/ Record(w)
  BY <1>2 DEF LockWakeUp, FallAsleep, SpuriousWorker, Record
<1>3. CASE WaitCondition(w)
  BY <1>3, WaitMoves
<1> QED
  BY <1>1, <1>2, <1>3 DEF ThreadWorkStep

LEMMA QuietStep ==
    ASSUME TypeInv,
           Count \/ ShutdownStep \/ (\E w \in Workers : ThreadWorkStep(w)) \/ UNCHANGED vars
    PROVE  UNCHANGED <<indexPc, searchPc, indexTask, searchTask, indexVars, searchVars, history,
                       stale>>
<1> USE DEF TypeInv, indexTask, searchTask
<1>1. CASE Count
  BY <1>1 DEF Count, indexPc, searchPc
<1>2. CASE ShutdownStep
  <2> USE IndexPlacesAre DEF PlacesOK, Goto
  <2>1. CASE Deactivate \/ Join
    <3>1. UNCHANGED <<indexPc, searchPc>>
      BY <2>1, StepSeen DEF Deactivate, Join, indexPc, searchPc, Operation
    <3> QED
      BY <2>1, <3>1 DEF Deactivate, Join, poolVars
  <2>2. CASE SetShutdown
    <3>1. UNCHANGED <<indexPc, searchPc>>
      BY <2>2, StepSeen DEF SetShutdown, indexPc, searchPc
    <3>2. workerTask = IDLE
      BY <2>2, IndexPlacesAre DEF SetShutdown, TaskInv, IndexServing, SearchServing, IP!Serving, SP!Open
    <3> QED
      BY <2>2, <3>1, <3>2 DEF SetShutdown, IDLE, SHUTDOWN, IndexTasks, LineSearchTask
  <2>3. CASE NotifyShutdown
    <3>1. UNCHANGED <<indexPc, searchPc>>
      BY <2>3 DEF NotifyShutdown, indexPc, searchPc
    <3> QED
      BY <2>3, <3>1 DEF NotifyShutdown
  <2> QED
    BY <1>2, <2>1, <2>2, <2>3 DEF ShutdownStep
<1>3. ASSUME NEW w \in Workers, ThreadWorkStep(w)
      PROVE  UNCHANGED <<indexPc, searchPc, indexTask, searchTask, indexVars, searchVars, history,
                         stale>>
  <2>1. UNCHANGED <<indexPc, searchPc>>
    BY <1>3, ThreadWorkFrame, StepSeen, IndexPlacesAre DEF indexPc, searchPc, BeforeServing, PlacesOK
  <2> QED
    BY <1>3, <2>1, ThreadWorkFrame
<1>4. CASE UNCHANGED vars
  BY <1>4 DEF vars, indexPc, searchPc
<1> QED
  BY <1>1, <1>2, <1>3, <1>4

\* The steps of a search are none of IndexTask's business.
LEMMA SearchUnseen ==
    ASSUME TypeInv,
           \/ StartLineSearch \/ ResetLineSearch \/ RunLineSearch
           \/ LS!Spurious /\ UNCHANGED <<indexVars, stale>>
           \/ \E w \in Workers : InLineSearch(w)
    PROVE  /\ UNCHANGED <<indexPc, indexTask, indexVars>>
           /\ served' \in {served, {}} /\ lost' \in BOOLEAN
           /\ (overlap \/ stale) => (overlap \/ stale)'
<1> USE IndexPlacesAre
    DEF TypeInv, PlacesOK, indexTask, LS!Goto, LS!history, LS!search, LS!local
<1>1. Main \in Workers \cup {Main} /\ \A w \in Workers : w \in Workers \cup {Main} /\ w # Main
  BY ThreadsAssumption
<1>2. lost \in BOOLEAN
  BY DEF IP!TypeInv, IP!TypeOK
<1> USE <1>1, <1>2
<1>3. CASE StartLineSearch
  <2>1. indexPc' = indexPc
    BY <1>3, StepSeen DEF StartLineSearch, LS!CallLineSearch, indexPc
  <2> QED
    BY <1>3, <2>1 DEF StartLineSearch, LS!CallLineSearch
<1>4. CASE ResetLineSearch
  <2>1. indexPc' = indexPc
    BY <1>4, StepSeen DEF ResetLineSearch, LS!ResetTaken, indexPc
  <2> QED
    BY <1>4, <2>1 DEF ResetLineSearch, LS!ResetTaken, MarkStale
<1>5. CASE RunLineSearch
  <2> USE <1>5 DEF RunLineSearch
  <2>1. CASE LS!ResetFound
    BY <2>1, StepSeen DEF LS!ResetFound, indexPc
  <2>2. CASE LS!ResetBest
    BY <2>2, StepSeen DEF LS!ResetBest, indexPc
  <2>3. CASE LS!ResetProcessed
    BY <2>3, StepSeen DEF LS!ResetProcessed, indexPc
  <2>4. CASE LS!Publish
    <3>1. indexPc' = indexPc
      BY <2>4, StepSeen DEF LS!Publish, indexPc
    <3>2. workerTask = IDLE
      BY <2>4, IndexPlacesAre DEF LS!Publish, TaskInv, IndexServing, SearchServing, IP!Serving, SP!Open
    <3> QED
      BY <2>4, <3>1, <3>2 DEF LS!Publish, LS!LINE_SEARCH, IDLE, IndexTasks
  <2>5. CASE LS!NotifyWorkers
    <3>1. indexPc' = indexPc
      BY <2>5 DEF LS!NotifyWorkers, LS!Threads, indexPc
    <3> QED
      BY <2>5, <3>1 DEF LS!NotifyWorkers
  <2>6. CASE LS!Await
    BY <2>6, StepSeen DEF LS!Await, indexPc
  <2>7. CASE LS!Block
    BY <2>7, StepSeen DEF LS!Block, indexPc
  <2>8. CASE LS!Finish
    <3>1. indexPc' = indexPc
      BY <2>8, StepSeen DEF LS!Finish, indexPc
    <3>2. workerTask = LineSearchTask
      BY <2>8, IndexPlacesAre DEF LS!Finish, TaskInv, IndexServing, SearchServing, IP!Serving, SP!Open
    <3> QED
      BY <2>8, <3>1, <3>2 DEF LS!Finish, LS!IDLE, IDLE, IndexTasks, LineSearchTask
  <2> QED
    BY <2>1, <2>2, <2>3, <2>4, <2>5, <2>6, <2>7, <2>8
<1>6. CASE LS!Spurious /\ UNCHANGED <<indexVars, stale>>
  BY <1>6, StepSeen DEF LS!Spurious, indexPc
<1>7. ASSUME NEW w \in Workers, InLineSearch(w)
      PROVE  /\ UNCHANGED <<indexPc, indexTask, indexVars, served, overlap, stale>>
             /\ lost' \in BOOLEAN
  <2> USE <1>7 DEF InLineSearch
  <2>1. CASE LS!Take(w)
    BY <2>1, StepSeen DEF LS!Take, indexPc
  <2>2. CASE LS!Check(w) \/ LS!Discard(w)
    BY <2>2, StepSeen DEF LS!Check, LS!Discard, LS!Leave, indexPc
  <2>3. CASE LS!Evaluate(w) \/ LS!GiveUp(w)
    BY <2>3, StepSeen DEF LS!Evaluate, LS!GiveUp, indexPc
  <2>4. CASE LS!Lock(w) \/ LS!Accept(w) \/ LS!Reject(w)
    BY <2>4, StepSeen DEF LS!Lock, LS!Accept, LS!Reject, indexPc
  <2>5. CASE LS!Keep(w)
    BY <2>5, StepSeen DEF LS!Keep, indexPc
  <2>6. CASE LS!Settle(w)
    BY <2>6, StepSeen DEF LS!Settle, indexPc
  <2>7. CASE LS!Announce(w)
    <3>1. indexPc' = indexPc
      BY <2>7, NotificationSeen DEF LS!Announce, indexPc
    <3> QED
      BY <2>7, <3>1 DEF LS!Announce
  <2> QED
    BY <2>1, <2>2, <2>3, <2>4, <2>5, <2>6, <2>7
<1> QED
  BY <1>3, <1>4, <1>5, <1>6, <1>7

\* Nor are the steps of a call of IndexTask any business of LineSearchMP.
LEMMA IndexUnseen ==
    ASSUME TypeInv,
           \/ StartIndexTask \/ ResetIndexTask \/ RunIndexTask
           \/ Idx!Spurious /\ UNCHANGED <<searchVars, stale>>
           \/ \E w \in Workers : InIndexTask(w)
    PROVE  /\ UNCHANGED <<searchPc, searchTask, searchVars>>
           /\ served' \in {served, {}} /\ lost' \in BOOLEAN
           /\ (overlap \/ stale) => (overlap \/ stale)'
<1> USE IndexPlacesAre
    DEF TypeInv, PlacesOK, searchTask, Idx!Goto, Idx!history, Idx!counters
<1>1. Main \in Workers \cup {Main} /\ \A w \in Workers : w \in Workers \cup {Main} /\ w # Main
  BY ThreadsAssumption
<1>2. lost \in BOOLEAN
  BY DEF IP!TypeInv, IP!TypeOK
<1> USE <1>1, <1>2
<1>3. CASE StartIndexTask
  <2>1. CASE Idx!CallSingle([task |-> Script[next].op, first |-> Script[next].first,
                             last |-> Script[next].last])
    BY <1>3, <2>1 DEF StartIndexTask, Idx!CallSingle, searchPc
  <2>2. CASE Idx!CallParallel([task |-> Script[next].op, first |-> Script[next].first,
                               last |-> Script[next].last])
    <3>1. searchPc' = searchPc
      BY <2>2, StepSeen DEF Idx!CallParallel, searchPc
    <3> QED
      BY <1>3, <2>2, <3>1 DEF StartIndexTask, Idx!CallParallel
  <2> QED
    BY <1>3, <2>1, <2>2 DEF StartIndexTask
<1>4. CASE ResetIndexTask
  <2>1. searchPc' = searchPc
    BY <1>4, StepSeen DEF ResetIndexTask, Idx!ResetTaken, searchPc
  <2> QED
    BY <1>4, <2>1 DEF ResetIndexTask, Idx!ResetTaken, MarkStale
<1>5. CASE RunIndexTask
  <2> USE <1>5 DEF RunIndexTask
  <2>1. CASE Idx!ResetCompleted
    BY <2>1, StepSeen DEF Idx!ResetCompleted, searchPc
  <2>2. CASE Idx!SetKMax
    BY <2>2, StepSeen DEF Idx!SetKMax, searchPc
  <2>3. CASE Idx!SetKMin
    BY <2>3, StepSeen DEF Idx!SetKMin, searchPc
  <2>4. CASE Idx!Publish
    <3>1. searchPc' = searchPc /\ indexPc[Main] = "publish"
      BY <2>4, StepSeen DEF Idx!Publish, searchPc, indexPc
    <3>2. call.task \in IndexTasks
      BY <3>1 DEF IP!MainInv, Requests
    <3>3. workerTask = IDLE
      BY <2>4, IndexPlacesAre DEF Idx!Publish, TaskInv, IndexServing, SearchServing, IP!Serving, SP!Open
    <3> QED
      BY <2>4, <3>1, <3>2, <3>3 DEF Idx!Publish, LineSearchTask, IDLE, IndexTasks
  <2>5. CASE Idx!NotifyWorkers
    <3>1. searchPc' = searchPc
      BY <2>5 DEF Idx!NotifyWorkers, Idx!Threads, searchPc
    <3> QED
      BY <2>5, <3>1 DEF Idx!NotifyWorkers
  <2>6. CASE Idx!Await
    BY <2>6, StepSeen DEF Idx!Await, searchPc
  <2>7. CASE Idx!Block
    BY <2>7, StepSeen DEF Idx!Block, searchPc
  <2>8. CASE Idx!Finish
    <3>1. searchPc' = searchPc /\ indexPc[Main] = "done"
      BY <2>8, StepSeen DEF Idx!Finish, searchPc, indexPc
    <3>2. workerTask = call.task /\ call.task \in IndexTasks
      BY <2>8, <3>1, IndexPlacesAre
      DEF Idx!Finish, TaskInv, IndexServing, SearchServing, IP!Serving, SP!Open, IP!MainInv, Requests
    <3> QED
      BY <2>8, <3>1, <3>2 DEF Idx!Finish, Idx!IDLE, IDLE, IndexTasks, LineSearchTask
  <2> QED
    BY <2>1, <2>2, <2>3, <2>4, <2>5, <2>6, <2>7, <2>8
<1>6. CASE Idx!Spurious /\ UNCHANGED <<searchVars, stale>>
  BY <1>6, StepSeen DEF Idx!Spurious, searchPc
<1>7. ASSUME NEW w \in Workers, InIndexTask(w)
      PROVE  /\ UNCHANGED <<searchPc, searchTask, searchVars, served, overlap, stale>>
             /\ lost' \in BOOLEAN
  <2> USE <1>7 DEF InIndexTask
  <2>1. CASE Idx!Take(w)
    BY <2>1, StepSeen DEF Idx!Take, searchPc
  <2>2. CASE Idx!Check(w)
    BY <2>2, StepSeen DEF Idx!Check, searchPc
  <2>3. CASE Idx!Work(w)
    BY <2>3, StepSeen DEF Idx!Work, searchPc
  <2>4. CASE Idx!Complete(w)
    BY <2>4, StepSeen DEF Idx!Complete, searchPc
  <2>5. CASE Idx!Exit(w)
    <3>1. searchPc' = searchPc
      <4>1. CASE kCompleted > Idx!Span
        BY <2>5, <4>1, NotificationSeen DEF Idx!Exit, Idx!NotifyMain, searchPc
      <4>2. CASE ~(kCompleted > Idx!Span)
        BY <2>5, <4>2, StepSeen DEF Idx!Exit, searchPc
      <4> QED
        BY <4>1, <4>2
    <3> QED
      BY <2>5, <3>1 DEF Idx!Exit, Idx!NotifyMain
  <2> QED
    BY <2>1, <2>2, <2>3, <2>4, <2>5
<1> QED
  BY <1>3, <1>4, <1>5, <1>6, <1>7

\* The steps of a worker inside lineSearchWorker are steps of LineSearchMP.
LEMMA InLineSearchMaps ==
    ASSUME TypeInv, NEW w \in Workers, InLineSearch(w)
    PROVE  SP!WorkerFunction(w)
<1> USE DEF TypeInv, PlacesOK
<1>1. w \in Workers \cup {Main} /\ Main \in Workers \cup {Main} /\ w # Main
  BY ThreadsAssumption
<1>2. searchTask' = searchTask /\ (overlap \/ stale)' = (overlap \/ stale)
  BY DEF InLineSearch, LS!Take, LS!Check, LS!Evaluate, LS!GiveUp, LS!Lock, LS!Discard, LS!Accept,
         LS!Keep, LS!Reject, LS!Settle, LS!Announce, LS!history, searchTask
<1> USE <1>1, <1>2, StepSeen, IndexPlacesAre
    DEF LS!Goto, LS!history, LS!search, LS!local, SP!Goto, SP!history, SP!search, SP!local, searchPc
<1>3. ASSUME LS!Take(w) PROVE SP!Take(w)
  BY <1>3 DEF LS!Take, SP!Take
<1>4. ASSUME LS!Check(w) PROVE SP!Check(w)
  BY <1>4 DEF LS!Check, SP!Check, LS!Leave, SP!Leave
<1>5. ASSUME LS!Evaluate(w) PROVE SP!Evaluate(w)
  BY <1>5 DEF LS!Evaluate, SP!Evaluate
<1>6. ASSUME LS!GiveUp(w) PROVE SP!GiveUp(w)
  BY <1>6 DEF LS!GiveUp, SP!GiveUp
<1>7. ASSUME LS!Lock(w) PROVE SP!Lock(w)
  BY <1>7 DEF LS!Lock, SP!Lock
<1>8. ASSUME LS!Discard(w) PROVE SP!Discard(w)
  BY <1>8 DEF LS!Discard, SP!Discard, LS!Leave, SP!Leave, LS!LowerMerit, SP!LowerMerit
<1>9. ASSUME LS!Accept(w) PROVE SP!Accept(w)
  BY <1>9 DEF LS!Accept, SP!Accept, LS!LowerMerit, SP!LowerMerit
<1>10. ASSUME LS!Keep(w) PROVE SP!Keep(w)
  BY <1>10 DEF LS!Keep, SP!Keep
<1>11. ASSUME LS!Reject(w) PROVE SP!Reject(w)
  BY <1>11 DEF LS!Reject, SP!Reject, LS!LowerMerit, SP!LowerMerit
<1>12. ASSUME LS!Settle(w) PROVE SP!Settle(w)
  BY <1>12 DEF LS!Settle, SP!Settle, LS!AllPreviousProcessed, SP!AllPreviousProcessed
<1>13. ASSUME LS!Announce(w) PROVE SP!Announce(w)
  <2> DEFINE at == IF pc[Main] = "blockedBest" THEN "awaitBest" ELSE pc[Main]
  <2>1. pc' = [pc EXCEPT ![w] = "takeAlpha", ![Main] = at] /\ lost' = (lost \/ pc[Main] = "gapBest")
    BY <1>13 DEF LS!Announce
  <2>2. searchPc' = [searchPc EXCEPT ![w] = "takeAlpha",
                                     ![Main] = IF at \in SearchPlaces THEN at ELSE "returned"]
    <3>1. PlacesOK /\ w \in Workers /\ pc' = [pc EXCEPT ![w] = "takeAlpha", ![Main] = at]
      BY <2>1
    <3>2. (IF "takeAlpha" \in SearchPlaces THEN "takeAlpha" ELSE "returned") = "takeAlpha"
      BY DEF SearchPlaces, LS!InSearch
    <3> HIDE DEF at, searchPc, PlacesOK
    <3> QED
      BY ONLY <3>1, <3>2, NotificationSeen
  <2>3. /\ searchPc[Main] = "blockedBest" <=> pc[Main] = "blockedBest"
        /\ searchPc[Main] = "gapBest" <=> pc[Main] = "gapBest"
        /\ searchPc[w] = "announce"
    BY <1>13 DEF LS!Announce
  <2>4. (IF at \in SearchPlaces THEN at ELSE "returned")
           = IF searchPc[Main] = "blockedBest" THEN "awaitBest" ELSE searchPc[Main]
    BY <2>3
  <2> QED
    BY <1>13, <2>1, <2>2, <2>3, <2>4 DEF LS!Announce, SP!Announce
<1> QED
  BY <1>3, <1>4, <1>5, <1>6, <1>7, <1>8, <1>9, <1>10, <1>11, <1>12, <1>13
  DEF InLineSearch, SP!WorkerFunction

\* So are the steps of the main thread in performLineSearch.
LEMMA MainSearchMaps ==
    ASSUME TypeInv,
           StartLineSearch \/ RunLineSearch \/ (LS!Spurious /\ UNCHANGED stale)
              \/ (ResetLineSearch /\ Undisturbed')
    PROVE  SP!MainThread
<1> USE DEF TypeInv, PlacesOK
<1>1. Main \in Workers \cup {Main}
  OBVIOUS
<1> USE <1>1, StepSeen, IndexPlacesAre
    DEF LS!Goto, LS!history, LS!search, LS!local, SP!Goto, SP!history, SP!search, SP!local, searchPc,
        searchTask
<1>2. CASE StartLineSearch
  <2>1. SP!CallLineSearch
    BY <1>2 DEF StartLineSearch, LS!CallLineSearch, SP!CallLineSearch, LS!Exponents, SP!Exponents,
                LS!Previous, SP!Previous
  <2> QED
    BY <2>1 DEF SP!MainThread
<1>3. CASE RunLineSearch
  <2>0. stale' = stale
    BY <1>3 DEF RunLineSearch
  <2>1. ASSUME LS!ResetFound PROVE SP!ResetFound
    BY <2>0, <2>1 DEF LS!ResetFound, SP!ResetFound
  <2>2. ASSUME LS!ResetBest PROVE SP!ResetBest
    BY <2>0, <2>2 DEF LS!ResetBest, SP!ResetBest
  <2>3. ASSUME LS!ResetProcessed PROVE SP!ResetProcessed
    BY <2>0, <2>3 DEF LS!ResetProcessed, SP!ResetProcessed
  <2>4. ASSUME LS!Publish PROVE SP!Publish
    BY <2>0, <2>4 DEF LS!Publish, SP!Publish, LS!LINE_SEARCH, SP!LINE_SEARCH, LineSearchTask
  <2>5. ASSUME LS!NotifyWorkers PROVE SP!NotifyWorkers
    <3>1. searchPc' = [t \in Workers \cup {Main} |-> IF t = Main THEN "awaitBest" ELSE searchPc[t]]
      BY <2>5 DEF LS!NotifyWorkers, LS!Threads
    <3>2. \A t \in Workers \cup {Main} : searchPc[t] # "asleep"
      OBVIOUS
    <3>3. searchPc[Main] = "notifySearch"
      BY <2>5 DEF LS!NotifyWorkers
    <3>4. UNCHANGED <<workerTask, SP!search, resultMutex, SP!local, result, improving, SP!history>>
      BY <2>0, <2>5 DEF LS!NotifyWorkers
    <3> HIDE DEF searchPc
    <3>5. [t \in SP!Threads |-> CASE t = Main -> "awaitBest"
                                  [] searchPc[t] = "asleep" -> "awake"
                                  [] OTHER -> searchPc[t]]
             = [t \in Workers \cup {Main} |-> IF t = Main THEN "awaitBest" ELSE searchPc[t]]
      BY ONLY <3>2 DEF SP!Threads
    <3> QED
      BY ONLY <3>1, <3>3, <3>4, <3>5 DEF SP!NotifyWorkers
  <2>6. ASSUME LS!Await PROVE SP!Await
    BY <2>0, <2>6 DEF LS!Await, SP!Await
  <2>7. ASSUME LS!Block PROVE SP!Block
    BY <2>0, <2>7 DEF LS!Block, SP!Block
  <2>8. ASSUME LS!Finish PROVE SP!Finish
    BY <2>0, <2>8 DEF LS!Finish, SP!Finish, LS!IDLE, SP!IDLE, IDLE, LineSearchTask
  <2> QED
    BY <1>3, <2>1, <2>2, <2>3, <2>4, <2>5, <2>6, <2>7, <2>8
    DEF RunLineSearch, SP!MainThread, SP!MainWork
<1>4. CASE LS!Spurious /\ UNCHANGED stale
  <2>1. SP!Spurious
    BY <1>4 DEF LS!Spurious, SP!Spurious
  <2> QED
    BY <2>1 DEF SP!MainThread
<1>5. CASE ResetLineSearch /\ Undisturbed'
  <2>1. ~overlap' /\ ~stale' /\ ~overlap /\ ~stale /\ LS!ResetTaken
    BY <1>5 DEF ResetLineSearch, MarkStale, LS!ResetTaken, Undisturbed
  <2>2. ~ \E w \in Workers : searchPc[w] \in SP!InSearch
    BY <2>1 DEF LS!ResetTaken, LS!InSearch, SP!InSearch
  <2>3. SP!ResetTaken
    BY <2>1, <2>2 DEF LS!ResetTaken, SP!ResetTaken
  <2> QED
    BY <2>3 DEF SP!MainThread, SP!MainWork
<1> QED
  BY <1>2, <1>3, <1>4, <1>5

--------------------------------------------------------------------------------
(***************************************************************************)
(* Every step, seen by the parts                                           *)
(***************************************************************************)

\* The three outcomes of the switch in threadWork
EntersIndexTask(w)  == Dispatch(w) /\ workersActive /\ taskLocal[w] \in IndexTasks
EntersLineSearch(w) == Dispatch(w) /\ workersActive /\ taskLocal[w] = LineSearchTask
EntersNothing(w)    == Dispatch(w) /\ ~(workersActive /\ taskLocal[w] \in Tasks)

LEMMA DispatchOutcome ==
    ASSUME TypeInv, NEW w \in Workers, Dispatch(w)
    PROVE  /\ EntersIndexTask(w) \/ EntersLineSearch(w) \/ EntersNothing(w)
           /\ served' \subseteq Workers
           /\ UNCHANGED <<workerTask, kTaken, kCompleted, KMax, KMin, item, call, worked,
                          searchVars, poolVars, overlap, lost, stale>>
<1>1. served \subseteq Workers
  BY DEF TypeInv, IP!TypeInv, IP!TypeOK
<1> QED
  BY <1>1 DEF Dispatch, EntersIndexTask, EntersLineSearch, EntersNothing, Tasks

LEMMA EntersIndexTaskSeen ==
    ASSUME TypeInv, NEW w \in Workers, EntersIndexTask(w)
    PROVE  /\ IP!Enter(w, taskLocal[w]) /\ SP!Elsewhere
           /\ pc' = [pc EXCEPT ![w] = "take"]
<1> USE DEF TypeInv, PlacesOK, EntersIndexTask
<1>1. /\ pc[w] = "dispatch" /\ pc' = [pc EXCEPT ![w] = "take"]
      /\ job' = [job EXCEPT ![w] = taskLocal[w]]
  BY DEF Dispatch, IndexTasks, IDLE, SHUTDOWN
<1>2. /\ indexPc' = [indexPc EXCEPT ![w] = "take"] /\ indexPc[w] = "returned"
      /\ searchPc' = searchPc
  BY <1>1, StepSeen, IndexPlacesAre DEF indexPc, searchPc
<1>3. indexTask' = indexTask /\ searchTask' = searchTask
  BY DispatchOutcome DEF indexTask, searchTask
<1>4. lost \in BOOLEAN
  BY DEF IP!TypeInv, IP!TypeOK
<1>5. IP!Enter(w, taskLocal[w])
  BY <1>1, <1>2, <1>3, DispatchOutcome DEF IP!Enter, IP!Goto, IP!counters
<1>6. SP!Elsewhere
  BY <1>2, <1>3, <1>4, DispatchOutcome DEF SP!Elsewhere, SP!search, SP!local, searchVars
<1> QED
  BY <1>1, <1>5, <1>6

LEMMA EntersLineSearchSeen ==
    ASSUME TypeInv, NEW w \in Workers, EntersLineSearch(w)
    PROVE  /\ SP!Enter(w) /\ IP!Elsewhere
           /\ pc' = [pc EXCEPT ![w] = "takeAlpha"]
<1> USE DEF TypeInv, PlacesOK, EntersLineSearch
<1>1. /\ pc[w] = "dispatch" /\ pc' = [pc EXCEPT ![w] = "takeAlpha"] /\ job' = job
  BY DEF Dispatch, IndexTasks, IDLE, SHUTDOWN, LineSearchTask
<1>2. /\ searchPc' = [searchPc EXCEPT ![w] = "takeAlpha"] /\ searchPc[w] = "returned"
      /\ indexPc' = indexPc
  <2>1. w \in Workers \cup {Main} /\ "takeAlpha" \in SearchPlaces /\ "takeAlpha" \notin IndexPlaces
    BY IndexPlacesAre
  <2>2. searchPc[w] = "returned" /\ indexPc[w] = "returned"
    BY <1>1, <2>1, IndexPlacesAre DEF indexPc, searchPc
  <2> QED
    BY <1>1, <2>1, <2>2, StepSeen DEF indexPc
<1>3. indexTask' = indexTask /\ searchTask' = searchTask
  BY DispatchOutcome DEF indexTask, searchTask
<1>4. lost \in BOOLEAN
  BY DEF IP!TypeInv, IP!TypeOK
<1>5. SP!Enter(w)
  BY <1>1, <1>2, <1>3, DispatchOutcome DEF SP!Enter, SP!Goto, SP!search, SP!local, searchVars
<1>6. IP!Elsewhere
  BY <1>1, <1>2, <1>3, <1>4, DispatchOutcome DEF IP!Elsewhere, IP!counters
<1> QED
  BY <1>1, <1>5, <1>6

LEMMA EntersNothingSeen ==
    ASSUME TypeInv, NEW w \in Workers, EntersNothing(w)
    PROVE  /\ IP!Elsewhere /\ SP!Elsewhere /\ served' = served
           /\ \E to \in {"top", "exited"} : pc' = [pc EXCEPT ![w] = to]
<1> USE DEF TypeInv, PlacesOK, EntersNothing
<1>1. /\ pc[w] = "dispatch" /\ job' = job /\ served' = served
      /\ \E to \in {"top", "exited"} : pc' = [pc EXCEPT ![w] = to]
  <2>1. taskLocal[w] \in Tasks \cup {IDLE, SHUTDOWN}
    BY DEF TypeOK, Tasks, LineSearchTask
  <2>2. ~workersActive \/ taskLocal[w] \in {IDLE, SHUTDOWN}
    BY <2>1
  <2>3. /\ pc[w] = "dispatch" /\ job' = job /\ served' = served
    BY <2>2 DEF Dispatch, IndexTasks, IDLE, SHUTDOWN
  <2>4. CASE ~workersActive \/ taskLocal[w] = SHUTDOWN
    BY <2>3, <2>4 DEF Dispatch, IDLE, SHUTDOWN
  <2>5. CASE workersActive /\ taskLocal[w] = IDLE
    BY <2>3, <2>5 DEF Dispatch, IDLE, SHUTDOWN
  <2> QED
    BY <2>2, <2>3, <2>4, <2>5
<1>2. searchPc' = searchPc /\ indexPc' = indexPc
  BY <1>1, StepSeen, IndexPlacesAre DEF indexPc, searchPc
<1>3. indexTask' = indexTask /\ searchTask' = searchTask
  BY DispatchOutcome DEF indexTask, searchTask
<1>4. lost \in BOOLEAN
  BY DEF IP!TypeInv, IP!TypeOK
<1>5. SP!Elsewhere
  BY <1>1, <1>2, <1>3, <1>4, DispatchOutcome DEF SP!Elsewhere, SP!search, SP!local, searchVars
<1>6. IP!Elsewhere
  BY <1>1, <1>2, <1>3, <1>4, DispatchOutcome DEF IP!Elsewhere, IP!counters
<1> QED
  BY <1>1, <1>5, <1>6

\* All steps, by what they are to the parts
QuietStepOf == \/ Count \/ ShutdownStep \/ \E w \in Workers : ThreadWorkStep(w)
               \/ UNCHANGED vars
IndexMainStep  == StartIndexTask \/ RunIndexTask
                     \/ (Idx!Spurious /\ UNCHANGED <<searchVars, poolVars, stale>>)
SearchMainStep == StartLineSearch \/ RunLineSearch
                     \/ (LS!Spurious /\ UNCHANGED <<indexVars, poolVars, stale>>)

LEMMA StepKinds ==
    ASSUME [Next]_vars
    PROVE  \/ QuietStepOf \/ IndexMainStep \/ SearchMainStep
           \/ ResetIndexTask \/ ResetLineSearch
           \/ \E w \in Workers : InIndexTask(w) \/ InLineSearch(w) \/ Dispatch(w)
BY DEF Next, MainStep, SpuriousMain, WorkerStep, QuietStepOf, ShutdownStep, ThreadWorkStep,
       IndexMainStep, SearchMainStep

LEMMA IndexSteps ==
    ASSUME TypeInv, [Next]_vars
    PROVE  \/ IP!Next \/ IP!Elsewhere \/ IP!ResetDisturbed
           \/ \E w \in Workers : EntersIndexTask(w) /\ IP!Enter(w, taskLocal[w])
<1>1. lost \in BOOLEAN /\ served \subseteq Workers
  BY DEF TypeInv, IP!TypeInv, IP!TypeOK
<1>2. CASE QuietStepOf
  BY <1>1, <1>2, QuietStep DEF QuietStepOf, IP!Elsewhere, indexVars, history, IP!counters
<1>3. CASE IndexMainStep
  <2>1. StartIndexTask \/ RunIndexTask \/ (Idx!Spurious /\ UNCHANGED stale)
    BY <1>3 DEF IndexMainStep
  <2>2. IP!Call \/ IP!MainWork \/ IP!Spurious
    BY <2>1, MainIndexMaps
  <2> QED
    BY <2>2 DEF IP!Next
<1>4. CASE SearchMainStep \/ ResetLineSearch \/ \E w \in Workers : InLineSearch(w)
  <2>1. /\ UNCHANGED <<indexPc, indexTask, indexVars>>
        /\ served' \in {served, {}} /\ lost' \in BOOLEAN
        /\ (overlap \/ stale) => (overlap \/ stale)'
    BY <1>4, SearchUnseen DEF SearchMainStep
  <2> QED
    BY <1>1, <2>1 DEF IP!Elsewhere, indexVars, IP!counters
<1>5. CASE ResetIndexTask
  <2>1. CASE Undisturbed'
    BY <1>5, <2>1, MainIndexMaps DEF IP!Next
  <2>2. CASE ~Undisturbed'
    <3>1. (overlap \/ stale)' = TRUE
      BY <2>2 DEF Undisturbed
    <3>2. pc[Main] = "resetTaken" /\ pc' = [pc EXCEPT ![Main] = "resetCompleted"]
      BY <1>5 DEF ResetIndexTask, Idx!ResetTaken, Idx!Goto
    <3>3. indexPc' = [indexPc EXCEPT ![Main] = "resetCompleted"] /\ indexPc[Main] = "resetTaken"
      BY <3>2, StepSeen, IndexPlacesAre DEF TypeInv, indexPc
    <3> QED
      BY <1>5, <3>1, <3>3 DEF ResetIndexTask, Idx!ResetTaken, IP!ResetDisturbed, IP!Goto, indexTask
  <2> QED
    BY <2>1, <2>2
<1>6. ASSUME NEW w \in Workers, InIndexTask(w) PROVE IP!Next
  BY <1>6, InIndexTaskMaps DEF IP!Next
<1>7. ASSUME NEW w \in Workers, Dispatch(w)
      PROVE  IP!Elsewhere \/ (EntersIndexTask(w) /\ IP!Enter(w, taskLocal[w]))
  BY <1>7, DispatchOutcome, EntersIndexTaskSeen, EntersLineSearchSeen, EntersNothingSeen
<1> QED
  BY <1>2, <1>3, <1>4, <1>5, <1>6, <1>7, StepKinds

LEMMA SearchSteps ==
    ASSUME TypeInv, [Next]_vars
    PROVE  \/ SP!Next \/ SP!Elsewhere \/ SP!ResetDisturbed
           \/ \E w \in Workers : EntersLineSearch(w) /\ SP!Enter(w)
<1>1. lost \in BOOLEAN /\ served \subseteq Workers
  BY DEF TypeInv, IP!TypeInv, IP!TypeOK
<1>2. CASE QuietStepOf
  BY <1>1, <1>2, QuietStep
  DEF QuietStepOf, SP!Elsewhere, searchVars, history, SP!search, SP!local
<1>3. CASE SearchMainStep
  <2>1. StartLineSearch \/ RunLineSearch \/ (LS!Spurious /\ UNCHANGED stale)
    BY <1>3 DEF SearchMainStep
  <2>2. SP!MainThread
    BY <2>1, MainSearchMaps
  <2> QED
    BY <2>2 DEF SP!MainThread, SP!Next
<1>4. CASE IndexMainStep \/ ResetIndexTask \/ \E w \in Workers : InIndexTask(w)
  <2>1. /\ UNCHANGED <<searchPc, searchTask, searchVars>>
        /\ served' \in {served, {}} /\ lost' \in BOOLEAN
        /\ (overlap \/ stale) => (overlap \/ stale)'
    BY <1>4, IndexUnseen DEF IndexMainStep
  <2> QED
    BY <1>1, <2>1 DEF SP!Elsewhere, searchVars, SP!search, SP!local
<1>5. CASE ResetLineSearch
  <2>1. CASE Undisturbed'
    BY <1>5, <2>1, MainSearchMaps DEF SP!MainThread, SP!Next
  <2>2. CASE ~Undisturbed'
    <3>1. (overlap \/ stale)' = TRUE
      BY <2>2 DEF Undisturbed
    <3>2. pc[Main] = "resetAlphaTaken" /\ pc' = [pc EXCEPT ![Main] = "resetFound"]
      BY <1>5 DEF ResetLineSearch, LS!ResetTaken, LS!Goto
    <3>3. searchPc[Main] = "resetAlphaTaken"
      BY <3>2, IndexPlacesAre DEF searchPc
    <3>4. searchPc' = [searchPc EXCEPT ![Main] = "resetFound"]
      BY <3>2, StepSeen, IndexPlacesAre DEF TypeInv
    <3> QED
      BY <1>5, <3>1, <3>3, <3>4
      DEF ResetLineSearch, LS!ResetTaken, LS!local, SP!ResetDisturbed, SP!Goto, SP!local, searchTask
  <2> QED
    BY <2>1, <2>2
<1>6. ASSUME NEW w \in Workers, InLineSearch(w) PROVE SP!Next
  BY <1>6, InLineSearchMaps DEF SP!Next
<1>7. ASSUME NEW w \in Workers, Dispatch(w)
      PROVE  SP!Elsewhere \/ (EntersLineSearch(w) /\ SP!Enter(w))
  BY <1>7, DispatchOutcome, EntersIndexTaskSeen, EntersLineSearchSeen, EntersNothingSeen
<1> QED
  BY <1>2, <1>3, <1>4, <1>5, <1>6, <1>7, StepKinds

--------------------------------------------------------------------------------
(***************************************************************************)
(* What the main thread does, by the phases of a call                      *)
(***************************************************************************)

\* What the threads of a call share
Shared == <<kTaken, kCompleted, KMax, KMin, item, job, resultMutex,
            alphaTaken, alphaBestFound, alphaExpBest, alphaProcessed, exponent, merit>>

MainAlone == \A w \in Workers : pc'[w] = pc[w]

\* An operation of the script begins, or is over at once.
MainStarts ==
    /\ pc[Main] = "returned" /\ next \in DOMAIN Script /\ next' = next + 1
    /\ MainAlone
    /\ \/ pc'[Main] = "returned" /\ next \notin Offers /\ UNCHANGED workersActive
       \/ /\ pc'[Main] = "resetTaken" /\ UNCHANGED <<workersActive, iteration, lqpCounter>>
          /\ next \in Offers /\ Script[next].op \in IndexTasks /\ call'.task = Script[next].op
       \/ /\ pc'[Main] = "resetAlphaTaken" /\ UNCHANGED <<workersActive, iteration, lqpCounter>>
          /\ next \in Offers /\ Script[next].op = LineSearchTask
       \/ /\ pc'[Main] = "setShutdown" /\ next \notin Offers
          /\ workersActive' = FALSE /\ UNCHANGED <<iteration, lqpCounter>>
    /\ \/ next \notin Counts /\ UNCHANGED <<iteration, lqpCounter>>
       \/ /\ next \in Counts
          /\ \/ iteration' = iteration + 1 /\ lqpCounter' = lqpCounter
             \/ iteration' = iteration /\ lqpCounter' = lqpCounter + 1
    /\ UNCHANGED <<workerTask, Shared, wakeUpMutex, locals, history, stale>>

MainResets ==
    /\ \/ pc[Main] = "resetTaken" /\ pc'[Main] = "resetCompleted"
       \/ pc[Main] = "resetAlphaTaken" /\ pc'[Main] = "resetFound"
    /\ MainAlone
    /\ stale' = (stale \/ \E w \in Workers : OnItsWay(w))
    /\ overlap' \in BOOLEAN /\ (overlap => overlap')
    /\ pc[Main] = "resetAlphaTaken" => alphaTaken' = 0
    /\ UNCHANGED <<call, workerTask, poolVars, served, lost>>

MainSetsUp ==
    /\ \/ /\ pc[Main] \in {"resetCompleted", "setKMax", "setKMin"}
          /\ pc'[Main] \in {"setKMax", "setKMin", "publish"}
       \/ /\ pc[Main] \in {"resetFound", "resetBest", "resetProcessed"}
          /\ pc'[Main] \in {"resetBest", "resetProcessed", "publishSearch"}
    /\ MainAlone
    /\ UNCHANGED <<alphaTaken, call, workerTask, poolVars, history, stale>>

MainPublishes ==
    /\ \/ /\ pc[Main] = "publish" /\ pc'[Main] = "notify"
          /\ workerTask' = call.task /\ call.task \in IndexTasks
       \/ /\ pc[Main] = "publishSearch" /\ pc'[Main] = "notifySearch"
          /\ workerTask' = LineSearchTask
    /\ MainAlone
    /\ served' = {}
    /\ UNCHANGED <<call, Shared, poolVars, overlap, lost, stale>>

MainNotifies ==
    /\ \/ pc[Main] = "notify" /\ pc'[Main] = "await"
       \/ pc[Main] = "notifySearch" /\ pc'[Main] = "awaitBest"
       \/ pc[Main] = "notifyShutdown" /\ pc'[Main] = "join"
    /\ \A w \in Workers : pc'[w] = IF pc[w] = "asleep" THEN "awake" ELSE pc[w]
    /\ UNCHANGED <<call, workerTask, Shared, poolVars, history, stale>>

MainWaits ==
    /\ \/ pc[Main] = "await" /\ pc'[Main] = (IF kCompleted > Idx!Span THEN "done" ELSE "gap")
       \/ pc[Main] = "gap" /\ pc'[Main] = "blocked"
       \/ pc[Main] = "blocked" /\ pc'[Main] = "await"
       \/ pc[Main] = "awaitBest" /\ pc'[Main] = (IF alphaBestFound THEN "doneBest" ELSE "gapBest")
       \/ pc[Main] = "gapBest" /\ pc'[Main] = "blockedBest"
       \/ pc[Main] = "blockedBest" /\ pc'[Main] = "awaitBest"
    /\ MainAlone
    /\ UNCHANGED <<call, workerTask, Shared, poolVars, history, stale>>

MainFinishes ==
    /\ pc[Main] \in {"done", "doneBest"} /\ pc'[Main] = "returned"
    /\ MainAlone
    /\ workerTask' = IDLE
    /\ UNCHANGED <<call, Shared, poolVars, history, stale>>

MainShutsDown ==
    /\ \/ pc[Main] = "setShutdown" /\ pc'[Main] = "notifyShutdown" /\ workerTask' = SHUTDOWN
       \/ /\ pc[Main] = "join" /\ pc'[Main] = "destroyed" /\ workerTask' = workerTask
          /\ \A w \in Workers : pc[w] = "exited"
    /\ MainAlone
    /\ UNCHANGED <<call, Shared, poolVars, history, stale>>

MainMove == \/ MainStarts \/ MainResets \/ MainSetsUp \/ MainPublishes \/ MainNotifies
            \/ MainWaits \/ MainFinishes \/ MainShutsDown

MainTakesStep == \/ Count \/ ShutdownStep \/ IndexMainStep \/ SearchMainStep
                 \/ ResetIndexTask \/ ResetLineSearch

LEMMA MainStartMoves ==
    ASSUME TypeInv, Count \/ Deactivate \/ StartIndexTask \/ StartLineSearch
    PROVE  MainStarts /\ pc' = [pc EXCEPT ![Main] = pc'[Main]]
<1> USE ThreadsAssumption
    DEF TypeInv, PlacesOK, TypeOK, Operation, history, searchVars, indexVars, locals, counters,
        Shared, MainStarts, MainAlone
<1>1. ASSUME pc[Main] = "returned", next <= Len(Script) PROVE next \in DOMAIN Script
  BY <1>1, ScriptType
<1>2. CASE Count
  <2>1. next \in Counts /\ next \notin Offers
    BY <1>1, <1>2 DEF Count, Counts, Offers, IndexTasks, LineSearchTask
  <2> QED
    BY <1>1, <1>2, <2>1 DEF Count
<1>3. CASE Deactivate
  <2>1. next \notin Counts /\ next \notin Offers
    BY <1>3 DEF Deactivate, Counts, Offers, IndexTasks, LineSearchTask
  <2> QED
    BY <1>1, <1>3, <2>1 DEF Deactivate
<1>4. CASE StartIndexTask
  <2> DEFINE r == [task |-> Script[next].op, first |-> Script[next].first,
                   last |-> Script[next].last]
  <2>1. next \in DOMAIN Script /\ Script[next].op \in IndexTasks /\ pc[Main] = "returned"
    BY <1>1, <1>4 DEF StartIndexTask
  <2>2. Idx!CallSingle(r) \/ Idx!CallParallel(r)
    BY <1>4 DEF StartIndexTask
  <2>3. /\ next' = next + 1
        /\ UNCHANGED <<searchVars, workersActive, counters, wakeUpMutex, locals, stale>>
    BY <1>4 DEF StartIndexTask
  <2>6. next \notin Counts
    BY <2>1 DEF Counts, IndexTasks
  <2>4. CASE Idx!CallSingle(r)
    <3>1. next \notin Offers
      BY <2>1, <2>4 DEF Idx!CallSingle, Offers, IndexTasks, LineSearchTask
    <3> QED
      BY <2>1, <2>3, <2>4, <2>6, <3>1 DEF Idx!CallSingle, Idx!counters
  <2>5. CASE Idx!CallParallel(r)
    <3>1. next \in Offers
      BY <2>1, <2>5 DEF Idx!CallParallel, Offers
    <3> QED
      BY <2>1, <2>3, <2>5, <2>6, <3>1 DEF Idx!CallParallel, Idx!counters, Idx!Goto
  <2> QED
    BY <2>2, <2>4, <2>5
<1>5. CASE StartLineSearch
  <2>1. next \in Offers /\ next \notin Counts
    BY <1>1, <1>5 DEF StartLineSearch, Offers, Counts, LineSearchTask
  <2> QED
    BY <1>1, <1>5, <2>1
    DEF StartLineSearch, LS!CallLineSearch, LS!Goto, LS!search, LS!local, LS!history, LineSearchTask
<1> QED
  BY <1>2, <1>3, <1>4, <1>5

LEMMA MainMoves ==
    ASSUME TypeInv, MainTakesStep
    PROVE  /\ MainMove
           /\ pc' \in [Workers \cup {Main} -> MainPlaces \cup BeforeServing \cup InFunction]
           /\ UNCHANGED <<wakeUpMutex, locals>>
<1> USE ThreadsAssumption
    DEF TypeInv, PlacesOK, poolVars, history, searchVars, indexVars, Shared, MainAlone, MainPlaces,
        Idx!MainPlaces, LS!MainPlaces, ShutdownPlaces
<1>1. ASSUME Count \/ Deactivate \/ StartIndexTask \/ StartLineSearch
      PROVE  /\ MainMove
             /\ pc' \in [Workers \cup {Main} -> MainPlaces \cup BeforeServing \cup InFunction]
             /\ UNCHANGED <<wakeUpMutex, locals>>
  <2>1. MainStarts /\ pc' = [pc EXCEPT ![Main] = pc'[Main]]
    BY <1>1, MainStartMoves
  <2> QED
    BY <2>1 DEF MainMove, MainStarts
<1>2. CASE SetShutdown \/ Join
  BY <1>2 DEF SetShutdown, Join, Goto, MainMove, MainShutsDown
<1>3. CASE NotifyShutdown
  <2>1. pc' = [t \in Workers \cup {Main} |-> IF t = Main THEN "join"
                                             ELSE IF pc[t] = "asleep" THEN "awake" ELSE pc[t]]
    BY <1>3 DEF NotifyShutdown
  <2> QED
    BY <1>3, <2>1 DEF NotifyShutdown, MainMove, MainNotifies, BeforeServing
<1>4. CASE ResetIndexTask \/ ResetLineSearch
  <2>2. CASE ResetIndexTask
    BY <2>2 DEF ResetIndexTask, Idx!ResetTaken, Idx!Goto, MarkStale, MainMove, MainResets
  <2>3. CASE ResetLineSearch
    BY <2>3 DEF ResetLineSearch, LS!ResetTaken, LS!Goto, LS!local, MarkStale, MainMove, MainResets
  <2> QED
    BY <1>4, <2>2, <2>3
<1>5. ASSUME RunIndexTask \/ (Idx!Spurious /\ UNCHANGED <<searchVars, poolVars, stale>>)
      PROVE  /\ MainMove
             /\ pc' \in [Workers \cup {Main} -> MainPlaces \cup BeforeServing \cup InFunction]
             /\ UNCHANGED <<wakeUpMutex, locals>>
  <2> USE DEF RunIndexTask, Idx!Goto, Idx!counters, Idx!history
  <2>1. UNCHANGED <<searchVars, poolVars, stale>>
    BY <1>5
  <2>2. CASE Idx!ResetCompleted \/ Idx!SetKMax \/ Idx!SetKMin
    BY <2>1, <2>2 DEF Idx!ResetCompleted, Idx!SetKMax, Idx!SetKMin, MainMove, MainSetsUp
  <2>3. CASE Idx!Publish
    <3>1. pc[Main] = "publish" /\ indexPc[Main] = "publish"
      BY <2>3, IndexPlacesAre DEF Idx!Publish, indexPc
    <3>2. call \in Requests
      BY <3>1 DEF IP!MainInv
    <3>3. call.task \in IndexTasks
      BY <3>2 DEF Requests
    <3> QED
      BY <2>1, <2>3, <3>3 DEF Idx!Publish, MainMove, MainPublishes
  <2>4. CASE Idx!NotifyWorkers
    <3>1. pc' = [t \in Workers \cup {Main} |-> IF t = Main THEN "await"
                                               ELSE IF pc[t] = "asleep" THEN "awake" ELSE pc[t]]
      BY <2>4 DEF Idx!NotifyWorkers, Idx!Threads
    <3> QED
      BY <2>1, <2>4, <3>1 DEF Idx!NotifyWorkers, MainMove, MainNotifies, BeforeServing
  <2>5. CASE Idx!Await \/ Idx!Block \/ Idx!Spurious
    BY <2>1, <2>5 DEF Idx!Await, Idx!Block, Idx!Spurious, MainMove, MainWaits
  <2>6. CASE Idx!Finish
    BY <2>1, <2>6 DEF Idx!Finish, Idx!IDLE, IDLE, MainMove, MainFinishes
  <2> QED
    BY <1>5, <2>2, <2>3, <2>4, <2>5, <2>6
<1>6. ASSUME RunLineSearch \/ (LS!Spurious /\ UNCHANGED <<indexVars, poolVars, stale>>)
      PROVE  /\ MainMove
             /\ pc' \in [Workers \cup {Main} -> MainPlaces \cup BeforeServing \cup InFunction]
             /\ UNCHANGED <<wakeUpMutex, locals>>
  <2> USE DEF RunLineSearch, LS!Goto, LS!search, LS!local, LS!history
  <2>1. UNCHANGED <<indexVars, poolVars, stale>>
    BY <1>6
  <2>2. CASE LS!ResetFound \/ LS!ResetBest \/ LS!ResetProcessed
    BY <2>1, <2>2 DEF LS!ResetFound, LS!ResetBest, LS!ResetProcessed, MainMove, MainSetsUp
  <2>3. CASE LS!Publish
    BY <2>1, <2>3 DEF LS!Publish, LS!LINE_SEARCH, LineSearchTask, MainMove, MainPublishes
  <2>4. CASE LS!NotifyWorkers
    <3>1. pc' = [t \in Workers \cup {Main} |-> IF t = Main THEN "awaitBest"
                                               ELSE IF pc[t] = "asleep" THEN "awake" ELSE pc[t]]
      BY <2>4 DEF LS!NotifyWorkers, LS!Threads
    <3> QED
      BY <2>1, <2>4, <3>1 DEF LS!NotifyWorkers, MainMove, MainNotifies, BeforeServing
  <2>5. CASE LS!Await \/ LS!Block \/ LS!Spurious
    BY <2>1, <2>5 DEF LS!Await, LS!Block, LS!Spurious, MainMove, MainWaits
  <2>6. CASE LS!Finish
    BY <2>1, <2>6 DEF LS!Finish, LS!IDLE, IDLE, MainMove, MainFinishes
  <2> QED
    BY <1>6, <2>2, <2>3, <2>4, <2>5, <2>6
<1> QED
  BY <1>1, <1>2, <1>3, <1>4, <1>5, <1>6
  DEF MainTakesStep, ShutdownStep, IndexMainStep, SearchMainStep

--------------------------------------------------------------------------------
(***************************************************************************)
(* What a worker does                                                      *)
(***************************************************************************)

\* A worker takes a step of a worker function, and perhaps wakes up the caller.
Serves(w) ==
    /\ \/ pc[w] \in Idx!InLoop \cup {"exit"} /\ pc'[w] \in Idx!InLoop \cup {"exit", "returned"}
       \/ pc[w] \in LS!InSearch /\ pc'[w] \in LS!InSearch \cup {"returned"}
    /\ \A v \in Workers \ {w} : pc'[v] = pc[v]
    /\ \/ pc'[Main] = pc[Main]
       \/ pc[Main] = "blocked" /\ pc'[Main] = "await"
       \/ pc[Main] = "blockedBest" /\ pc'[Main] = "awaitBest"
    /\ UNCHANGED <<call, KMax, KMin, workerTask, poolVars, served, overlap, stale>>

LEMMA ServesSeen ==
    ASSUME TypeInv, NEW w \in Workers, InIndexTask(w) \/ InLineSearch(w)
    PROVE  /\ Serves(w)
           /\ pc' \in [Workers \cup {Main} -> MainPlaces \cup BeforeServing \cup InFunction]
           /\ kTaken' >= kTaken /\ (alphaBestFound => alphaBestFound')
<1> USE ThreadsAssumption
    DEF TypeInv, PlacesOK, indexVars, searchVars, Serves, InFunction, MainPlaces, Idx!MainPlaces,
        LS!MainPlaces
<1>0. kTaken \in Nat
  BY DEF IP!TypeInv, IP!TypeOK
<1>1. CASE InIndexTask(w)
  <2> USE DEF InIndexTask, Idx!Goto, Idx!counters, Idx!history, Idx!InLoop
  <2>1. UNCHANGED <<searchVars, poolVars, stale>>
    BY <1>1
  <2>2. CASE Idx!Take(w) \/ Idx!Check(w)
    BY <1>0, <2>1, <2>2 DEF Idx!Take, Idx!Check
  <2>3. CASE Idx!Work(w) \/ Idx!Complete(w)
    BY <1>0, <2>1, <2>3 DEF Idx!Work, Idx!Complete
  <2>4. CASE Idx!Exit(w)
    <3>1. UNCHANGED <<workerTask, kTaken, kCompleted, KMax, KMin, call, worked, served, overlap>>
      BY <2>4 DEF Idx!Exit
    <3>2. \/ pc' = [pc EXCEPT ![w] = "returned"]
          \/ pc' = [pc EXCEPT ![w] = "returned", ![Main] = IF pc[Main] = "blocked" THEN "await" ELSE pc[Main]]
      BY <2>4 DEF Idx!Exit, Idx!NotifyMain
    <3>3. pc[w] = "exit"
      BY <2>4 DEF Idx!Exit
    <3> QED
      BY <1>0, <2>1, <3>1, <3>2, <3>3
  <2> QED
    BY <1>1, <2>2, <2>3, <2>4
<1>2. CASE InLineSearch(w)
  <2> USE <1>0 DEF InLineSearch, LS!Goto, LS!search, LS!local, LS!history, LS!InSearch
  <2>1. UNCHANGED <<indexVars, poolVars, stale>>
    BY <1>2
  <2>2. CASE LS!Take(w) \/ LS!Check(w) \/ LS!Evaluate(w) \/ LS!GiveUp(w)
    BY <2>1, <2>2 DEF LS!Take, LS!Check, LS!Leave, LS!Evaluate, LS!GiveUp
  <2>3. CASE LS!Lock(w) \/ LS!Discard(w) \/ LS!Accept(w) \/ LS!Keep(w) \/ LS!Reject(w)
    BY <2>1, <2>3 DEF LS!Lock, LS!Discard, LS!Leave, LS!Accept, LS!Keep, LS!Reject
  <2>4. CASE LS!Settle(w)
    BY <2>1, <2>4 DEF LS!Settle
  <2>5. CASE LS!Announce(w)
    BY <2>1, <2>5 DEF LS!Announce
  <2> QED
    BY <1>2, <2>2, <2>3, <2>4, <2>5
<1> QED
  BY <1>1, <1>2

\* Every step is one of these.
LEMMA Moves ==
    ASSUME TypeInv, [Next]_vars
    PROVE  \/ MainTakesStep \/ UNCHANGED vars
           \/ \E w \in Workers : \/ ThreadWorkStep(w) \/ Dispatch(w)
                                 \/ InIndexTask(w) \/ InLineSearch(w)
BY StepKinds DEF QuietStepOf, MainTakesStep

LEMMA PlacesNext == ASSUME TypeInv, [Next]_vars PROVE PlacesOK'
<1> USE ThreadsAssumption DEF TypeInv, PlacesOK
<1>1. CASE MainTakesStep
  <2>1. MainMove /\ pc' \in [Workers \cup {Main} -> MainPlaces \cup BeforeServing \cup InFunction]
    BY <1>1, MainMoves
  <2>2. /\ pc'[Main] \in MainPlaces
        /\ \A w \in Workers : pc'[w] = pc[w] \/ pc'[w] = "awake"
    BY <2>1 DEF MainMove, MainStarts, MainResets, MainSetsUp, MainPublishes, MainNotifies, MainWaits,
                MainFinishes, MainShutsDown, MainAlone, MainPlaces, Idx!MainPlaces, LS!MainPlaces,
                ShutdownPlaces
  <2> QED
    BY <2>1, <2>2 DEF BeforeServing
<1>2. CASE UNCHANGED vars
  BY <1>2 DEF vars
<1>3. ASSUME NEW w \in Workers, ThreadWorkStep(w) PROVE PlacesOK'
  BY <1>3, ThreadWorkFrame
<1>4. ASSUME NEW w \in Workers, Dispatch(w) PROVE PlacesOK'
  <2>1. \E to \in {"take", "takeAlpha", "top", "exited"} : pc' = [pc EXCEPT ![w] = to]
    BY <1>4, DispatchOutcome, EntersIndexTaskSeen, EntersLineSearchSeen, EntersNothingSeen
  <2> QED
    BY <2>1 DEF InFunction, Idx!InLoop, LS!InSearch, BeforeServing
<1>5. ASSUME NEW w \in Workers, InIndexTask(w) \/ InLineSearch(w) PROVE PlacesOK'
  <2>1. /\ Serves(w)
        /\ pc' \in [Workers \cup {Main} -> MainPlaces \cup BeforeServing \cup InFunction]
    BY <1>5, ServesSeen
  <2> QED
    BY <2>1 DEF Serves, InFunction, MainPlaces, Idx!MainPlaces, LS!MainPlaces
<1> QED
  BY <1>1, <1>2, <1>3, <1>4, <1>5, Moves

--------------------------------------------------------------------------------
(***************************************************************************)
(* Types                                                                   *)
(***************************************************************************)

AllTasks == IndexTasks \cup {"LINE_SEARCH", IDLE, SHUTDOWN}

\* The numbers of the tasks
LEMMA NumberOf ==
    /\ Id!Number(IDLE) = 0 /\ Id!Number("LINE_SEARCH") = 1 /\ Id!Number("ROLLOUT_SHOTS") = 2
    /\ Id!Number("COMPUTE_LQ_PROBLEM") = 3 /\ Id!Number(SHUTDOWN) = 4
<1>1. /\ DOMAIN Id!WorkerStates = 1 .. 5
      /\ Id!WorkerStates[1] = "IDLE" /\ Id!WorkerStates[2] = "LINE_SEARCH"
      /\ Id!WorkerStates[3] = "ROLLOUT_SHOTS" /\ Id!WorkerStates[4] = "COMPUTE_LQ_PROBLEM"
      /\ Id!WorkerStates[5] = "SHUTDOWN"
  BY DEF Id!WorkerStates
<1>2. ASSUME NEW state, NEW n \in 1 .. 5, Id!WorkerStates[n] = state,
             \A m \in 1 .. 5 : Id!WorkerStates[m] = state => m = n
      PROVE  Id!Number(state) = n - 1
  BY <1>1, <1>2 DEF Id!Number
<1>3. \A m \in 1 .. 5 : m = 1 \/ m = 2 \/ m = 3 \/ m = 4 \/ m = 5
  OBVIOUS
<1>4. Id!Number("IDLE") = 1 - 1
  BY <1>1, <1>2, <1>3
<1>5. Id!Number("LINE_SEARCH") = 2 - 1
  BY <1>1, <1>2, <1>3
<1>6. Id!Number("ROLLOUT_SHOTS") = 3 - 1
  BY <1>1, <1>2, <1>3
<1>7. Id!Number("COMPUTE_LQ_PROBLEM") = 4 - 1
  BY <1>1, <1>2, <1>3
<1>8. Id!Number("SHUTDOWN") = 5 - 1
  BY <1>1, <1>2, <1>3
<1> QED
  BY <1>4, <1>5, <1>6, <1>7, <1>8 DEF IDLE, SHUTDOWN

LEMMA StridePositive ==
    ASSUME NEW c \in Nat
    PROVE  ResetStride * (c + 1) \in Nat /\ ResetStride * (c + 1) >= 0
BY StridesAssumption

LEMMA IdType ==
    ASSUME NEW i \in Nat, NEW t \in AllTasks, NEW c \in Nat
    PROVE  Id!generateUniqueProcessID(i, t, c) \in Nat \ {0}
<1>1. Id!Number(t) \in 0 .. 4
  BY NumberOf DEF AllTasks, IndexTasks
<1>2. ResetStride * (c + 1) \in Nat
  BY StridePositive
<1>3. TaskStride * (Id!Number(t) + 1) \in Nat
  BY <1>1, StridesAssumption
<1> QED
  BY <1>2, <1>3 DEF Id!generateUniqueProcessID, Id!ProcessIdOf

LEMMA SharedType ==
    ASSUME workerTask \in AllTasks, iteration \in Nat, lqpCounter \in Nat
    PROVE  SharedNow \in [Operands -> Nat]
<1>1. Id!Number(workerTask) \in Nat
  BY NumberOf DEF AllTasks, IndexTasks
<1> QED
  BY <1>1 DEF SharedNow, Operands

LEMMA OwnTypes ==
    ASSUME TypeInv, [Next]_vars
    PROVE  TypeOK'
<1> USE DEF TypeInv, TypeOK
<1>1. CASE MainTakesStep
  <2>1. MainMove /\ UNCHANGED <<wakeUpMutex, locals>>
    BY <1>1, MainMoves
  <2>2. CASE MainStarts
    <3>1. next' \in 1 .. Len(Script) + 1
      BY <2>2, ScriptType DEF MainStarts
    <3>2. iteration' \in Nat /\ lqpCounter' \in Nat
      BY <2>2 DEF MainStarts
    <3>3. workersActive' \in BOOLEAN /\ UNCHANGED <<workerTask, locals, stale>>
      BY <2>2 DEF MainStarts
    <3> QED
      BY <2>1, <3>1, <3>2, <3>3 DEF locals
  <2>3. CASE MainPublishes \/ MainFinishes \/ MainShutsDown
    BY <2>1, <2>3
    DEF MainPublishes, MainFinishes, MainShutsDown, locals, poolVars, counters, LineSearchTask
  <2>4. CASE MainResets \/ MainSetsUp \/ MainNotifies \/ MainWaits
    BY <2>1, <2>4 DEF MainResets, MainSetsUp, MainNotifies, MainWaits, locals, poolVars, counters
  <2> QED
    BY <2>1, <2>2, <2>3, <2>4 DEF MainMove
<1>2. CASE UNCHANGED vars
  BY <1>2 DEF vars, poolVars, counters, locals
<1>3. ASSUME NEW w \in Workers, ThreadWorkStep(w) PROVE TypeOK'
  <2>1. UNCHANGED <<workerTask, workersActive, counters, next, stale>>
    BY <1>3, ThreadWorkFrame
  <2>2. CASE Top(w) \/ LoadTask(w) \/ LoadIteration(w) \/ LoadLqp(w) \/ Decide(w)
    BY <2>1, <2>2 DEF Top, LoadTask, LoadIteration, LoadLqp, Decide, counters, locals
  <2>3. CASE LockWakeUp(w) \/ FallAsleep(w) \/ SpuriousWorker(w)
    BY <2>1, <2>3 DEF LockWakeUp, FallAsleep, SpuriousWorker, counters, locals
  <2>5. CASE WaitCondition(w)
    <3>1. wakeUpMutex' \in Workers \cup {Nobody}
      BY <2>5, WaitMoves
    <3>2. SharedNow \in [Operands -> Nat]
      BY SharedType DEF AllTasks
    <3>3. seen' \in [Workers -> [Operands -> Nat \cup {NotRead}]]
      <4>1. ASSUME NEW operand \in Operands,
                   seen' = [seen EXCEPT ![w][operand] = SharedNow[operand]]
            PROVE  seen' \in [Workers -> [Operands -> Nat \cup {NotRead}]]
        <5>1. SharedNow[operand] \in Nat
          BY <3>2
        <5>2. [seen[w] EXCEPT ![operand] = SharedNow[operand]] \in [Operands -> Nat \cup {NotRead}]
          BY <5>1
        <5> QED
          BY <4>1, <5>2
      <4>2. NothingRead \in [Operands -> Nat \cup {NotRead}]
        BY DEF NothingRead
      <4>3. \/ seen' = seen
            \/ \E operand \in Operands : seen' = [seen EXCEPT ![w][operand] = SharedNow[operand]]
            \/ seen' = [seen EXCEPT ![w] = NothingRead]
        BY <2>5, WaitMoves
      <4>4. [seen EXCEPT ![w] = NothingRead] \in [Workers -> [Operands -> Nat \cup {NotRead}]]
        BY <4>2
      <4> QED
        BY <4>1, <4>3, <4>4
    <3> QED
      BY <2>1, <2>5, <3>1, <3>3, WaitMoves DEF counters
  <2>4. CASE Record(w)
    <3>1. ProcessIdLocal(w) \in Nat
      BY IdType DEF ProcessIdLocal, AllTasks
    <3> QED
      BY <2>1, <2>4, <3>1 DEF Record, counters
  <2> QED
    BY <1>3, <2>2, <2>3, <2>4, <2>5 DEF ThreadWorkStep
<1>4. ASSUME NEW w \in Workers, Dispatch(w) PROVE TypeOK'
  BY <1>4, DispatchOutcome DEF poolVars, counters, locals
<1>5. ASSUME NEW w \in Workers, InIndexTask(w) \/ InLineSearch(w) PROVE TypeOK'
  BY <1>5, ServesSeen DEF Serves, poolVars, counters, locals
<1> QED
  BY <1>1, <1>2, <1>3, <1>4, <1>5, Moves

\* What is on offer follows from where the main thread is.
LEMMA TaskNext ==
    ASSUME TypeInv, [Next]_vars
    PROVE  TaskInv'
<1> USE IndexPlacesAre DEF TypeInv, TaskInv, IndexServing, SearchServing, IP!Serving, SP!Open
<1>1. CASE MainTakesStep
  <2>1. MainMove
    BY <1>1, MainMoves
  <2>2. CASE MainStarts \/ MainResets \/ MainSetsUp
    BY <2>2 DEF MainStarts, MainResets, MainSetsUp
  <2>3. CASE MainPublishes \/ MainNotifies
    BY <2>3 DEF MainPublishes, MainNotifies
  <2>4. CASE MainWaits
    BY <2>4 DEF MainWaits
  <2>5. CASE MainFinishes \/ MainShutsDown
    BY <2>5 DEF MainFinishes, MainShutsDown
  <2> QED
    BY <2>1, <2>2, <2>3, <2>4, <2>5 DEF MainMove
<1>2. CASE UNCHANGED vars
  BY <1>2 DEF vars, indexVars
<1>3. ASSUME NEW w \in Workers, ThreadWorkStep(w) PROVE TaskInv'
  <2>1. pc'[Main] = pc[Main] /\ workerTask' = workerTask /\ call' = call
    BY <1>3, ThreadWorkFrame, ThreadsAssumption DEF PlacesOK, indexVars
  <2> QED
    BY <2>1
<1>4. ASSUME NEW w \in Workers, Dispatch(w) PROVE TaskInv'
  <2>1. \E to : pc' = [pc EXCEPT ![w] = to]
    BY <1>4, DispatchOutcome, EntersIndexTaskSeen, EntersLineSearchSeen, EntersNothingSeen
  <2>2. pc'[Main] = pc[Main]
    BY <2>1, ThreadsAssumption DEF PlacesOK
  <2> QED
    BY <1>4, <2>2, DispatchOutcome
<1>5. ASSUME NEW w \in Workers, InIndexTask(w) \/ InLineSearch(w) PROVE TaskInv'
  BY <1>5, ServesSeen DEF Serves
<1> QED
  BY <1>1, <1>2, <1>3, <1>4, <1>5, Moves

LEMMA LocalNext ==
    ASSUME TypeInv, [Next]_vars
    PROVE  LocalInv'
<1> USE DEF TypeInv, TypeOK, PlacesOK, LocalInv
<1>0. \A w \in Workers : iterationLocal[w] \in Nat /\ lqpLocal[w] \in Nat
  OBVIOUS
<1>1. CASE MainTakesStep
  <2>1. MainMove /\ UNCHANGED <<wakeUpMutex, locals>>
    BY <1>1, MainMoves
  <2>2. iteration' >= iteration /\ lqpCounter' >= lqpCounter /\ iteration' \in Nat /\ lqpCounter' \in Nat
    BY <2>1 DEF MainMove, MainStarts, MainResets, MainSetsUp, MainPublishes, MainNotifies, MainWaits,
                MainFinishes, MainShutsDown, poolVars, counters
  <2>3. \A w \in Workers : pc'[w] = pc[w] \/ pc'[w] = "awake"
    BY <2>1 DEF MainMove, MainStarts, MainResets, MainSetsUp, MainPublishes, MainNotifies, MainWaits,
                MainFinishes, MainShutsDown, MainAlone
  <2>4. ASSUME NEW w \in Workers, pc'[w] \in InFunction PROVE pc[w] \in InFunction
    BY <2>3, <2>4 DEF InFunction, Idx!InLoop, LS!InSearch
  <2>5. UNCHANGED <<taskLocal, iterationLocal, lqpLocal>>
    BY <2>1 DEF locals
  <2>6. ASSUME NEW w \in Workers
        PROVE  iterationLocal[w] <= iteration' /\ lqpLocal[w] <= lqpCounter'
    <3>1. /\ iterationLocal[w] \in Nat /\ lqpLocal[w] \in Nat
          /\ iteration \in Nat /\ lqpCounter \in Nat
          /\ iterationLocal[w] <= iteration /\ lqpLocal[w] <= lqpCounter
      BY <1>0
    <3> QED
      BY ONLY <2>2, <3>1
  <2> QED
    BY <2>4, <2>5, <2>6
<1>2. CASE UNCHANGED vars
  BY <1>2 DEF vars, poolVars, counters, locals
<1>3. ASSUME NEW w \in Workers, ThreadWorkStep(w) PROVE LocalInv'
  <2>1. /\ UNCHANGED counters /\ pc' = [pc EXCEPT ![w] = pc'[w]] /\ pc'[w] \notin InFunction
    BY <1>3, ThreadWorkFrame DEF BeforeServing, InFunction, Idx!InLoop, LS!InSearch
  <2>2. \A v \in Workers \ {w} : pc'[v] = pc[v]
    BY <2>1
  <2>3. CASE LoadTask(w)
    BY <2>1, <2>2, <2>3 DEF LoadTask, counters
  <2>4. CASE LoadIteration(w)
    BY <2>1, <2>2, <2>4 DEF LoadIteration, counters
  <2>5. CASE LoadLqp(w)
    BY <2>1, <2>2, <2>5 DEF LoadLqp, counters
  <2>6. CASE Top(w) \/ Decide(w) \/ LockWakeUp(w) \/ WaitCondition(w) \/ FallAsleep(w)
                \/ SpuriousWorker(w) \/ Record(w)
    <3>1. UNCHANGED <<taskLocal, iterationLocal, lqpLocal>>
      BY <2>6, WaitMoves
      DEF Top, Decide, LockWakeUp, FallAsleep, SpuriousWorker, Record, locals
    <3> QED
      BY <2>1, <2>2, <3>1 DEF counters
  <2> QED
    BY <1>3, <2>3, <2>4, <2>5, <2>6 DEF ThreadWorkStep
<1>4. ASSUME NEW w \in Workers, Dispatch(w) PROVE LocalInv'
  <2>1. \/ pc' = [pc EXCEPT ![w] = "take"] /\ taskLocal[w] \in Tasks
        \/ pc' = [pc EXCEPT ![w] = "takeAlpha"] /\ taskLocal[w] \in Tasks
        \/ \E to \in {"top", "exited"} : pc' = [pc EXCEPT ![w] = to]
    BY <1>4, DispatchOutcome, EntersIndexTaskSeen, EntersLineSearchSeen, EntersNothingSeen
    DEF EntersIndexTask, EntersLineSearch, Tasks
  <2>2. UNCHANGED <<counters, locals>>
    BY <1>4, DispatchOutcome DEF poolVars
  <2> QED
    BY <2>1, <2>2 DEF counters, locals, InFunction, Idx!InLoop, LS!InSearch
<1>5. ASSUME NEW w \in Workers, InIndexTask(w) \/ InLineSearch(w) PROVE LocalInv'
  <2>1. Serves(w) /\ UNCHANGED <<counters, locals>>
    BY <1>5, ServesSeen DEF Serves, poolVars
  <2> QED
    BY <2>1 DEF Serves, counters, locals, InFunction
<1> QED
  BY <1>1, <1>2, <1>3, <1>4, <1>5, Moves

LEMMA SeenNext ==
    ASSUME TypeInv, [Next]_vars
    PROVE  SeenInv'
<1> USE DEF TypeInv, TypeOK, PlacesOK, SeenInv
<1>1. CASE MainTakesStep
  <2>1. MainMove /\ UNCHANGED locals
    BY <1>1, MainMoves
  <2>2. \A w \in Workers : pc'[w] = pc[w] \/ (pc[w] = "asleep" /\ pc'[w] = "awake")
    BY <2>1 DEF MainMove, MainStarts, MainResets, MainSetsUp, MainPublishes, MainNotifies, MainWaits,
                MainFinishes, MainShutsDown, MainAlone
  <2> QED
    BY <2>1, <2>2 DEF locals
<1>2. CASE UNCHANGED vars
  BY <1>2 DEF vars, poolVars, locals
<1>3. ASSUME NEW w \in Workers, ThreadWorkStep(w) PROVE SeenInv'
  <2>1. \A v \in Workers \ {w} : pc'[v] = pc[v]
    BY <1>3, ThreadWorkFrame
  <2>2. CASE WaitCondition(w)
    <3>1. \A v \in Workers \ {w} : seen'[v] = seen[v]
      BY <2>2, OthersSee
    <3>2. pc'[w] # "load" => seen'[w] = NothingRead
      BY <2>2, WaitMoves
    <3> QED
      BY <2>1, <3>1, <3>2
  <2>3. CASE Top(w) \/ Decide(w) \/ LockWakeUp(w) \/ FallAsleep(w) \/ SpuriousWorker(w)
    BY <2>1, <2>3 DEF Top, Decide, LockWakeUp, FallAsleep, SpuriousWorker, Goto, locals
  <2>4. CASE LoadTask(w) \/ LoadIteration(w) \/ LoadLqp(w) \/ Record(w)
    BY <2>1, <2>4 DEF LoadTask, LoadIteration, LoadLqp, Record, Goto
  <2> QED
    BY <1>3, <2>2, <2>3, <2>4 DEF ThreadWorkStep
<1>4. ASSUME NEW w \in Workers, Dispatch(w) PROVE SeenInv'
  <2>1. \E to \in {"take", "takeAlpha", "top", "exited"} : pc' = [pc EXCEPT ![w] = to]
    BY <1>4, DispatchOutcome, EntersIndexTaskSeen, EntersLineSearchSeen, EntersNothingSeen
  <2>2. seen' = seen /\ pc[w] = "dispatch"
    BY <1>4, DispatchOutcome DEF poolVars, locals, Dispatch
  <2> QED
    BY <2>1, <2>2
<1>5. ASSUME NEW w \in Workers, InIndexTask(w) \/ InLineSearch(w) PROVE SeenInv'
  <2>1. Serves(w) /\ seen' = seen
    BY <1>5, ServesSeen DEF Serves, poolVars, locals
  <2> QED
    BY <2>1 DEF Serves, InFunction, Idx!InLoop, LS!InSearch
<1> QED
  BY <1>1, <1>2, <1>3, <1>4, <1>5, Moves

LEMMA PartTypesNext ==
    ASSUME TypeInv, [Next]_vars
    PROVE  IP!TypeInv' /\ IP!MainInv' /\ SP!TypeInv' /\ SP!MainInv'
<1> USE DEF TypeInv
<1>0. /\ IP!SizesAssumption /\ IP!ThreadsAssumption /\ IP!RequestsAssumption
      /\ SP!IterationsAssumption /\ SP!ThreadsAssumption
  BY PartsAssumptions
<1>1. IP!TypeInv' /\ IP!MainInv'
  <2>1. CASE IP!Next
    BY <1>0, <2>1, IP!TypeNext, IP!MainNext
  <2>2. CASE IP!Elsewhere
    BY <1>0, <2>2, IP!ElsewhereTypes
  <2>3. CASE IP!ResetDisturbed
    BY <1>0, <2>3, IP!ResetDisturbedTypes
  <2>4. ASSUME NEW w \in Workers, EntersIndexTask(w), IP!Enter(w, taskLocal[w])
        PROVE  IP!TypeInv' /\ IP!MainInv'
    <3>1. taskLocal[w] \in IP!Tasks
      BY <2>4 DEF EntersIndexTask, IP!Tasks, IP!LQ, IP!ROLLOUT, IndexTasks
    <3> QED
      BY <1>0, <2>4, <3>1, IP!EnterTypes
  <2> QED
    BY <2>1, <2>2, <2>3, <2>4, IndexSteps
<1>2. SP!TypeInv' /\ SP!MainInv'
  <2>1. CASE SP!Next
    BY <1>0, <2>1, SP!TypeNext, SP!MainNext
  <2>2. CASE SP!Elsewhere
    BY <1>0, <2>2, SP!ElsewhereTypes
  <2>3. CASE SP!ResetDisturbed
    BY <1>0, <2>3, SP!ResetDisturbedTypes
  <2>4. ASSUME NEW w \in Workers, SP!Enter(w)
        PROVE  SP!TypeInv' /\ SP!MainInv'
    BY <1>0, <2>4, SP!EnterTypes
  <2> QED
    BY <2>1, <2>2, <2>3, <2>4, SearchSteps
<1> QED
  BY <1>1, <1>2

LEMMA TypeNext == TypeInv /\ [Next]_vars => TypeInv'
BY PlacesNext, OwnTypes, TaskNext, LocalNext, SeenNext, PartTypesNext DEF TypeInv

LEMMA InitSeen ==
    ASSUME Init
    PROVE  /\ IP!Init /\ SP!Init /\ Undisturbed
           /\ pc \in [Workers \cup {Main} -> {"returned", "top"}] /\ pc[Main] = "returned"
           /\ \A w \in Workers : pc[w] = "top"
<1> USE ThreadsAssumption DEF Init
<1>1. /\ pc \in [Workers \cup {Main} -> {"returned", "top"}] /\ pc[Main] = "returned"
      /\ \A w \in Workers : pc[w] = "top"
  OBVIOUS
<1>2. /\ indexPc = [t \in Workers \cup {Main} |-> "returned"]
      /\ searchPc = [t \in Workers \cup {Main} |-> "returned"]
  BY <1>1, IndexPlacesAre DEF indexPc, searchPc
<1>3. indexTask = IDLE /\ searchTask = IDLE
  BY DEF indexTask, searchTask
<1>4. IP!Init
  BY <1>2, <1>3 DEF IP!Init, IP!Threads, IP!IDLE, IDLE, IP!NoRequest, Idx!NoRequest, Idx!IDLE
<1>5. SP!Init
  BY <1>2, <1>3 DEF SP!Init, SP!Threads, SP!IDLE, IDLE, SP!Previous, LS!Previous
<1> QED
  BY <1>1, <1>4, <1>5 DEF Undisturbed

LEMMA TypeInit == Init => TypeInv
<1> SUFFICES ASSUME Init PROVE TypeInv
  OBVIOUS
<1>1. /\ pc \in [Workers \cup {Main} -> {"returned", "top"}] /\ pc[Main] = "returned"
      /\ \A w \in Workers : pc[w] = "top"
  BY InitSeen
<1>2. TypeOK
  <2>1. next \in 1 .. Len(Script) + 1
    BY ScriptType DEF Init
  <2>2. /\ uniqueProcessID \in [Workers -> Nat] /\ iterationLocal \in [Workers -> Nat]
        /\ lqpLocal \in [Workers -> Nat] /\ taskLocal \in [Workers -> AllTasks]
    BY DEF Init, AllTasks
  <2> QED
    BY <2>1, <2>2 DEF Init, TypeOK, AllTasks, NothingRead
<1>3. PlacesOK
  BY <1>1 DEF PlacesOK, MainPlaces, Idx!MainPlaces, BeforeServing
<1>4. TaskInv
  BY <1>1 DEF Init, TaskInv, IndexServing, SearchServing, IP!Serving, SP!Open
<1>5. LocalInv
  BY <1>1 DEF Init, LocalInv, InFunction, Idx!InLoop, LS!InSearch
<1>7. SeenInv
  BY DEF Init, SeenInv
<1>6. IP!Inv /\ SP!Inv
  BY InitSeen, PartsAssumptions, IP!TypeInit, IP!CallInit, SP!TypeInit, SP!SearchInit
  DEF IP!Inv, SP!Inv
<1> QED
  BY <1>2, <1>3, <1>4, <1>5, <1>6, <1>7 DEF TypeInv, IP!Inv, IP!CallInv, SP!Inv, SP!SearchInv

\* Whatever the script and however many threads: the process IDs are natural
\* numbers, workerTask_ is one of the five states, and the three values
\* threadWork loads one after the other have their types.
THEOREM TypeCorrect == Spec => []TypeOK
<1>1. TypeInv => TypeOK
  BY DEF TypeInv
<1> QED
  BY <1>1, TypeInit, TypeNext, PTL DEF Spec

--------------------------------------------------------------------------------
(***************************************************************************)
(* Undisturbed calls                                                       *)
(***************************************************************************)

LEMMA IdleSetup == Setup = {"resetCompleted", "setKMax", "setKMin", "publish", "resetFound",
                            "resetBest", "resetProcessed", "publishSearch"}
BY DEF Setup, IP!Setup, SP!Resets

\* What is on offer, and where the main thread is then
LEMMA OfferMeans ==
    ASSUME TypeInv
    PROVE  /\ workerTask \in IndexTasks <=> pc[Main] \in IndexServing
           /\ workerTask = LineSearchTask <=> pc[Main] \in SearchServing
           /\ pc[Main] \in IndexServing => workerTask = call.task /\ call \in Requests
           /\ pc[Main] \in Setup => workerTask = IDLE
<1> USE IndexPlacesAre, IdleSetup
    DEF TypeInv, PlacesOK, TaskInv, IndexServing, SearchServing, IP!Serving, SP!Open, IndexTasks,
        IDLE, SHUTDOWN, LineSearchTask
<1>1. pc[Main] \in IndexServing => indexPc[Main] = pc[Main] /\ pc[Main] # "returned"
  BY DEF indexPc
<1>2. pc[Main] \in IndexServing => call \in Requests
  BY <1>1 DEF IP!MainInv
<1>3. pc[Main] \in IndexServing => workerTask = call.task /\ call.task \in IndexTasks
  BY <1>2 DEF Requests
<1>4. pc[Main] \in SearchServing => workerTask = LineSearchTask
  OBVIOUS
<1>5. pc[Main] \notin IndexServing \cup SearchServing => workerTask \in {IDLE, SHUTDOWN}
  OBVIOUS
<1>6. pc[Main] \in Setup => workerTask = IDLE
  OBVIOUS
<1> QED
  BY <1>2, <1>3, <1>4, <1>5, <1>6

\* Undisturbed, a worker that enters a worker function serves the call that is
\* on offer, or finds nothing left of the last one.
LEMMA EnteringIndex ==
    ASSUME CallsInv, NEW w \in Workers, EntersIndexTask(w), Undisturbed
    PROVE  \/ indexPc[Main] \in IP!Before /\ kTaken > IP!Span
           \/ indexPc[Main] \in IP!Serving /\ taskLocal[w] = call.task
<1> USE DEF CallsInv, TypeInv, PlacesOK
<1>1. OnItsWay(w) /\ taskLocal[w] \in IndexTasks
  BY DEF EntersIndexTask, Dispatch, OnItsWay, IndexTasks, IDLE, SHUTDOWN
<1>2. pc[Main] \notin Setup
  BY <1>1 DEF WayInv
<1>3. CASE workerTask \in Tasks
  <2>1. taskLocal[w] = workerTask /\ workerTask \in IndexTasks
    BY <1>1, <1>3 DEF WayInv
  <2>2. pc[Main] \in IP!Serving /\ workerTask = call.task
    BY <2>1, OfferMeans DEF IndexServing
  <2>3. indexPc[Main] = pc[Main]
    BY <2>2, IndexPlacesAre DEF indexPc, IP!Serving
  <2> QED
    BY <2>1, <2>2, <2>3
<1>4. CASE workerTask \notin Tasks
  <2>1. kTaken > IP!Span
    BY <1>1, <1>4 DEF WayInv
  <2>2. pc[Main] \notin IP!Serving
    BY <1>4, OfferMeans DEF IndexServing, Tasks
  <2>3. indexPc[Main] \in IP!Before
    BY <1>2, <2>2, IndexPlacesAre, IdleSetup
    DEF indexPc, IP!Before, IP!Serving, MainPlaces, Idx!MainPlaces, LS!MainPlaces, ShutdownPlaces
  <2> QED
    BY <2>1, <2>3
<1> QED
  BY <1>3, <1>4

LEMMA EnteringSearch ==
    ASSUME CallsInv, NEW w \in Workers, EntersLineSearch(w), Undisturbed
    PROVE  \/ searchPc[Main] \in SP!Before /\ alphaBestFound
           \/ searchPc[Main] \in SP!Open \ {"returned"}
<1> USE DEF CallsInv, TypeInv, PlacesOK
<1>1. OnItsWay(w) /\ taskLocal[w] = LineSearchTask
  BY DEF EntersLineSearch, Dispatch, OnItsWay, LineSearchTask, IDLE, SHUTDOWN
<1>2. pc[Main] \notin Setup
  BY <1>1 DEF WayInv
<1>3. CASE workerTask \in Tasks
  <2>1. workerTask = LineSearchTask
    BY <1>1, <1>3 DEF WayInv
  <2>2. pc[Main] \in SP!Open \ {"returned"}
    BY <2>1, OfferMeans DEF SearchServing
  <2>3. searchPc[Main] = pc[Main]
    BY <2>2, IndexPlacesAre DEF searchPc, SP!Open
  <2> QED
    BY <2>2, <2>3
<1>4. CASE workerTask \notin Tasks
  <2>1. alphaBestFound
    BY <1>1, <1>4 DEF WayInv
  <2>2. pc[Main] \notin SP!Open \ {"returned"}
    BY <1>4, OfferMeans DEF SearchServing, Tasks
  <2>3. searchPc[Main] \in SP!Before
    BY <1>2, <2>2, IndexPlacesAre, IdleSetup
    DEF searchPc, SP!Before, SP!Open, MainPlaces, Idx!MainPlaces, LS!MainPlaces, ShutdownPlaces
  <2> QED
    BY <2>1, <2>3
<1> QED
  BY <1>3, <1>4

LEMMA PartsNext ==
    ASSUME IP!ProperRequests, CallsInv, [Next]_vars
    PROVE  IP!Inv' /\ SP!Inv'
<1> USE DEF CallsInv
<1>0. /\ IP!SizesAssumption /\ IP!ThreadsAssumption /\ IP!RequestsAssumption
      /\ SP!IterationsAssumption /\ SP!ThreadsAssumption
  BY PartsAssumptions
<1>1. IP!Inv'
  <2>1. CASE IP!Next
    BY <1>0, <2>1, IP!TypeNext, IP!CallNext DEF IP!Inv
  <2>2. CASE IP!Elsewhere
    BY <1>0, <2>2, IP!ElsewhereKeeps
  <2>3. CASE IP!ResetDisturbed
    BY <1>0, <2>3, IP!ResetDisturbedKeeps
  <2>4. ASSUME NEW w \in Workers, EntersIndexTask(w), IP!Enter(w, taskLocal[w])
        PROVE  IP!Inv'
    <3>1. taskLocal[w] \in IP!Tasks
      BY <2>4 DEF EntersIndexTask, IP!Tasks, IP!LQ, IP!ROLLOUT, IndexTasks
    <3>2. ~(overlap \/ stale) => \/ indexPc[Main] \in IP!Before /\ kTaken > IP!Span
                                 \/ indexPc[Main] \in IP!Serving /\ taskLocal[w] = call.task
      BY <2>4, DisturbedMeans, EnteringIndex
    <3> QED
      BY <1>0, <2>4, <3>1, <3>2, IP!EnterKeeps
  <2> QED
    BY <2>1, <2>2, <2>3, <2>4, IndexSteps
<1>2. SP!Inv'
  <2>1. CASE SP!Next
    BY <1>0, <2>1, SP!TypeNext, SP!SearchNext DEF SP!Inv
  <2>2. CASE SP!Elsewhere
    BY <1>0, <2>2, SP!ElsewhereKeeps
  <2>3. CASE SP!ResetDisturbed
    BY <1>0, <2>3, SP!ResetDisturbedKeeps
  <2>4. ASSUME NEW w \in Workers, EntersLineSearch(w), SP!Enter(w)
        PROVE  SP!Inv'
    <3>1. ~(overlap \/ stale) => \/ searchPc[Main] \in SP!Before /\ alphaBestFound
                                 \/ searchPc[Main] \in SP!Open \ {"returned"}
      BY <2>4, DisturbedMeans, EnteringSearch
    <3> QED
      BY <1>0, <2>4, <3>1, SP!EnterKeeps
  <2> QED
    BY <2>1, <2>2, <2>3, <2>4, SearchSteps
<1> QED
  BY <1>1, <1>2

\* Disturbed once, disturbed for ever
LEMMA DisturbedStays == ASSUME TypeInv, [Next]_vars, Undisturbed' PROVE Undisturbed
<1> USE DEF Undisturbed
<1>1. CASE MainTakesStep
  <2>1. MainMove
    BY <1>1, MainMoves
  <2>2. CASE MainResets
    BY <2>2, Zenon DEF MainResets
  <2>3. CASE ~MainResets
    <3>1. overlap' = overlap /\ stale' = stale
      BY <2>1, <2>3 DEF MainMove, MainStarts, MainSetsUp, MainPublishes, MainNotifies, MainWaits,
                        MainFinishes, MainShutsDown, history
    <3> QED
      BY <3>1
  <2> QED
    BY <2>2, <2>3
<1>2. CASE UNCHANGED vars
  BY <1>2 DEF vars, history
<1>3. ASSUME NEW w \in Workers, ThreadWorkStep(w) PROVE Undisturbed
  BY <1>3, ThreadWorkFrame DEF history, TypeInv
<1>4. ASSUME NEW w \in Workers, Dispatch(w) PROVE Undisturbed
  BY <1>4, DispatchOutcome
<1>5. ASSUME NEW w \in Workers, InIndexTask(w) \/ InLineSearch(w) PROVE Undisturbed
  BY <1>5, ServesSeen DEF Serves
<1> QED
  BY <1>1, <1>2, <1>3, <1>4, <1>5, Moves

\* A worker gets on its way by reading the task on offer, and in no other way.
LEMMA OnItsWayBecause ==
    ASSUME TypeInv, NEW w \in Workers, ThreadWorkStep(w), NEW v \in Workers, OnItsWay(v)'
    PROVE  \/ OnItsWay(v) /\ taskLocal'[v] = taskLocal[v]
           \/ v = w /\ LoadTask(w) /\ taskLocal'[v] = workerTask
<1> USE DEF TypeInv, PlacesOK, TypeOK, OnItsWay
<1>1. pc' = [pc EXCEPT ![w] = pc'[w]]
  BY ThreadWorkFrame
<1>2. CASE LoadTask(w)
  BY <1>1, <1>2 DEF LoadTask, Goto
<1>3. CASE Top(w) \/ Decide(w) \/ LockWakeUp(w) \/ FallAsleep(w) \/ SpuriousWorker(w)
  BY <1>1, <1>3 DEF Top, Decide, LockWakeUp, FallAsleep, SpuriousWorker, Goto, locals
<1>5. CASE WaitCondition(w)
  BY <1>1, <1>5, WaitMoves
<1>4. CASE LoadIteration(w) \/ LoadLqp(w) \/ Record(w)
  BY <1>1, <1>4 DEF LoadIteration, LoadLqp, Record, Goto
<1> QED
  BY <1>2, <1>3, <1>4, <1>5 DEF ThreadWorkStep

LEMMA WayNext ==
    ASSUME IP!ProperRequests, CallsInv, [Next]_vars, Undisturbed'
    PROVE  WayInv'
<1> USE DEF CallsInv
<1>0. Undisturbed /\ WayInv
  BY DisturbedStays
<1>1. CASE MainTakesStep
  <2>1. MainMove /\ UNCHANGED locals
    BY <1>1, MainMoves
  <2>2. \A w \in Workers : OnItsWay(w)' => OnItsWay(w)
    <3>1. \A w \in Workers : pc'[w] = pc[w] \/ pc'[w] = "awake"
      BY <2>1 DEF MainMove, MainStarts, MainResets, MainSetsUp, MainPublishes, MainNotifies, MainWaits,
                  MainFinishes, MainShutsDown, MainAlone
    <3> QED
      BY <2>1, <3>1 DEF OnItsWay, locals
  <2>3. CASE pc[Main] \in Setup \/ MainResets
    <3>1. \A w \in Workers : ~OnItsWay(w)
      BY <1>0, <2>3 DEF WayInv, MainResets, Undisturbed
    <3> QED
      BY <2>2, <3>1 DEF WayInv
  <2>4. CASE MainStarts \/ MainNotifies \/ MainWaits
    <3>1. /\ UNCHANGED <<workerTask, taskLocal, kTaken, KMax, KMin, alphaBestFound>>
          /\ pc'[Main] \notin Setup
      BY <2>1, <2>4, IdleSetup DEF MainStarts, MainNotifies, MainWaits, Shared, locals
    <3>2. IP!Span' = IP!Span
      BY <3>1 DEF IP!Span
    <3> QED
      BY <1>0, <2>2, <3>1, <3>2 DEF WayInv
  <2>5. CASE MainFinishes \/ MainShutsDown
    <3>1. /\ UNCHANGED <<taskLocal, kTaken, KMax, KMin, alphaBestFound>>
          /\ pc'[Main] \notin Setup /\ workerTask' \notin Tasks
      BY <2>1, <2>5, IdleSetup DEF MainFinishes, MainShutsDown, Shared, locals, Tasks, IndexTasks,
           LineSearchTask, IDLE, SHUTDOWN, TypeInv, TaskInv, IndexServing, SearchServing, IP!Serving, SP!Open
    <3>2. IP!Span' = IP!Span
      BY <3>1 DEF IP!Span
    <3>3. workerTask \in IndexTasks => kTaken > IP!Span
      <4>1. SUFFICES ASSUME workerTask \in IndexTasks PROVE kTaken > IP!Span
        OBVIOUS
      <4>2. pc[Main] \in IndexServing
        BY <4>1, OfferMeans
      <4>3. pc[Main] = "done"
        BY <2>5, <4>2 DEF MainFinishes, MainShutsDown, IndexServing, IP!Serving
      <4>4. indexPc[Main] = "done"
        BY <4>3, IndexPlacesAre DEF indexPc
      <4>5. ~(overlap \/ stale)
        BY <1>0, DisturbedMeans
      <4>6. IP!SizesAssumption /\ IP!ThreadsAssumption /\ IP!RequestsAssumption
        BY PartsAssumptions
      <4> QED
        BY <4>4, <4>5, <4>6, IP!CallComplete
    <3>4. workerTask = LineSearchTask => alphaBestFound
      <4>1. SUFFICES ASSUME workerTask = LineSearchTask PROVE alphaBestFound
        OBVIOUS
      <4>2. pc[Main] \in SearchServing
        BY <4>1, OfferMeans
      <4>3. pc[Main] = "doneBest"
        BY <2>5, <4>2 DEF MainFinishes, MainShutsDown, SearchServing, SP!Open
      <4>4. searchPc[Main] = "doneBest"
        BY <4>3, IndexPlacesAre DEF searchPc
      <4> QED
        BY <4>4 DEF TypeInv, SP!MainInv
    <3>5. ASSUME NEW w \in Workers, OnItsWay(w)
          PROVE  /\ taskLocal[w] \in IndexTasks => kTaken > IP!Span
                 /\ taskLocal[w] = LineSearchTask => alphaBestFound
      BY <1>0, <3>3, <3>4, <3>5 DEF WayInv, Tasks
    <3> QED
      BY <2>2, <3>1, <3>2, <3>5 DEF WayInv
  <2> QED
    BY <2>1, <2>3, <2>4, <2>5, IdleSetup DEF MainMove, MainSetsUp, MainPublishes
<1>2. CASE UNCHANGED vars
  <2>1. IP!Span' = IP!Span
    BY <1>2 DEF vars, indexVars, IP!Span
  <2> QED
    BY <1>0, <1>2, <2>1 DEF vars, indexVars, searchVars, poolVars, locals, WayInv, OnItsWay
<1>3. ASSUME NEW w \in Workers, ThreadWorkStep(w) PROVE WayInv'
  <2>1. UNCHANGED <<workerTask, kTaken, KMax, KMin, alphaBestFound, pc[Main]>>
    BY <1>3, ThreadWorkFrame, ThreadsAssumption DEF indexVars, searchVars, TypeInv, PlacesOK
  <2>2. IP!Span' = IP!Span
    BY <2>1 DEF IP!Span
  <2>3. ASSUME NEW v \in Workers, OnItsWay(v)'
        PROVE  \/ OnItsWay(v) /\ taskLocal'[v] = taskLocal[v]
               \/ taskLocal'[v] = workerTask /\ workerTask \in Tasks
    <3>1. workerTask \in Tasks \cup {IDLE, SHUTDOWN}
      BY DEF TypeInv, TypeOK, Tasks, LineSearchTask
    <3>2. taskLocal'[v] \notin {IDLE, SHUTDOWN}
      BY <2>3 DEF OnItsWay
    <3> QED
      BY <1>3, <2>3, <3>1, <3>2, OnItsWayBecause
  <2>4. workerTask \in Tasks => pc[Main] \notin Setup
    BY OfferMeans DEF Tasks, IndexTasks, LineSearchTask, IDLE
  <2> QED
    BY <1>0, <2>1, <2>2, <2>3, <2>4 DEF WayInv
<1>4. ASSUME NEW w \in Workers, Dispatch(w) PROVE WayInv'
  <2>1. UNCHANGED <<workerTask, kTaken, KMax, KMin, alphaBestFound, taskLocal>>
    BY <1>4, DispatchOutcome DEF searchVars, poolVars, locals
  <2>2. \E to \in {"take", "takeAlpha", "top", "exited"} : pc' = [pc EXCEPT ![w] = to]
    BY <1>4, DispatchOutcome, EntersIndexTaskSeen, EntersLineSearchSeen, EntersNothingSeen
  <2>3. pc'[Main] = pc[Main] /\ \A v \in Workers : OnItsWay(v)' => OnItsWay(v)
    BY <2>1, <2>2, ThreadsAssumption DEF OnItsWay, TypeInv, PlacesOK
  <2>4. IP!Span' = IP!Span
    BY <2>1 DEF IP!Span
  <2> QED
    BY <1>0, <2>1, <2>3, <2>4 DEF WayInv
<1>5. ASSUME NEW w \in Workers, InIndexTask(w) \/ InLineSearch(w) PROVE WayInv'
  <2>1. Serves(w) /\ kTaken' >= kTaken /\ (alphaBestFound => alphaBestFound')
    BY <1>5, ServesSeen
  <2>2. UNCHANGED <<workerTask, KMax, KMin, taskLocal>>
    BY <2>1 DEF Serves, poolVars, locals
  <2>3. \A v \in Workers : OnItsWay(v)' => OnItsWay(v)
    BY <2>1, <2>2 DEF OnItsWay, Serves, Idx!InLoop, LS!InSearch
  <2>4. IP!Span' = IP!Span /\ IP!Span \in Nat /\ kTaken \in Nat /\ kTaken' \in Nat
    <3>1. IP!Span \in Nat
      BY PartsAssumptions, IP!SpanType DEF TypeInv
    <3>2. kTaken \in Nat /\ kTaken' \in Nat
      BY TypeNext DEF TypeInv, IP!TypeInv, IP!TypeOK
    <3> QED
      BY <2>2, <3>1, <3>2 DEF IP!Span
  <2>5. pc'[Main] \in Setup => pc[Main] \in Setup
    BY <2>1, IdleSetup DEF Serves
  <2> QED
    BY <1>0, <2>1, <2>2, <2>3, <2>4, <2>5 DEF WayInv
<1> QED
  BY <1>1, <1>2, <1>3, <1>4, <1>5, Moves DEF CallsInv

LEMMA CallsInit == Init => CallsInv
<1> SUFFICES ASSUME Init PROVE CallsInv
  OBVIOUS
<1>1. IP!Inv /\ SP!Inv
  BY InitSeen, PartsAssumptions, IP!TypeInit, IP!CallInit, SP!TypeInit, SP!SearchInit
  DEF IP!Inv, SP!Inv
<1>2. WayInv
  BY InitSeen DEF WayInv, OnItsWay
<1> QED
  BY <1>1, <1>2, TypeInit DEF CallsInv

LEMMA CallsNext == ASSUME IP!ProperRequests PROVE CallsInv /\ [Next]_vars => CallsInv'
BY PartsNext, WayNext, TypeNext DEF CallsInv

LEMMA CallsHold == ASSUME IP!ProperRequests PROVE Spec => []CallsInv
BY CallsInit, CallsNext, PTL DEF Spec

\* Undisturbed, a call of computeLQApproximation or rolloutShots returns with
\* exactly its stages worked on, by the function it asked for, although its
\* workers come from threadWork and have read workerTask_ some time before.
THEOREM CallsComplete == ASSUME IP!ProperRequests PROVE Spec => []StagesDone
<1>1. CallsInv => StagesDone
  <2> SUFFICES ASSUME CallsInv, Undisturbed, pc[Main] \in {"done", "returned"},
                      call # Idx!NoRequest, ~overlap
               PROVE  worked = Idx!WorkOf(call)
    BY DEF StagesDone, Idx!AllDone
  <2>1. indexPc[Main] = pc[Main]
    BY IndexPlacesAre DEF CallsInv, TypeInv, PlacesOK, indexPc
  <2>2. ~(overlap \/ stale) /\ call # IP!NoRequest
    BY DisturbedMeans DEF Idx!NoRequest, Idx!IDLE, IP!NoRequest, IP!IDLE
  <2>3. worked = IP!WorkOf(call)
    <3>1. CASE pc[Main] = "done"
      BY <2>1, <2>2, <3>1, PartsAssumptions, IP!CallComplete DEF CallsInv
    <3>2. CASE pc[Main] = "returned"
      BY <2>1, <2>2, <3>2 DEF CallsInv, IP!Inv, IP!CallInv, IP!BeforeInv, IP!Before
    <3> QED
      BY <3>1, <3>2
  <2>4. IP!WorkOf(call) = Idx!WorkOf(call)
    BY DEF IP!WorkOf, Idx!WorkOf, IP!HasWork, Idx!HasWork, IP!Terminal, Idx!Terminal,
           IP!ROLLOUT, Idx!ROLLOUT, IP!LQ, Idx!LQ
  <2> QED
    BY <2>3, <2>4
<1> QED
  BY <1>1, CallsHold, PTL

\* The trajectories an undisturbed line search takes over are genuine and no
\* larger step was left out, with workers that come from threadWork.
THEOREM SearchesCorrect == ASSUME IP!ProperRequests PROVE Spec => []SearchCorrect
<1>1. CallsInv => SearchCorrect
  <2> SUFFICES ASSUME CallsInv, Undisturbed PROVE LS!GenuineResult /\ LS!SearchExhaustive
    BY DEF SearchCorrect
  <2>1. ~(overlap \/ stale) /\ SP!SearchInv
    BY DisturbedMeans DEF CallsInv, SP!Inv
  <2>2. LS!GenuineResult
    BY <2>1 DEF SP!SearchInv, SP!GenuineResult, LS!GenuineResult, SP!Previous, LS!Previous
  <2>3. ASSUME pc[Main] \in {"doneBest", "returned"}, alphaBestFound
        PROVE  /\ \A a \in LS!Exponents : a < alphaExpBest => a \in tried
               /\ alphaExpBest = result.exponent
               /\ alphaExpBest = MaxIterations => improving = {}
    <3>1. searchPc[Main] = pc[Main]
      BY <2>3, IndexPlacesAre DEF CallsInv, TypeInv, PlacesOK, searchPc
    <3> QED
      BY <2>1, <2>3, <3>1
      DEF SP!SearchInv, SP!SettledInv, SP!ResultInv, SP!Open, SP!Exponents, LS!Exponents
  <2> QED
    BY <2>2, <2>3 DEF LS!SearchExhaustive
<1> QED
  BY <1>1, CallsHold, PTL

--------------------------------------------------------------------------------
(***************************************************************************)
(* workerWakeUpMutex_ and the shutdown                                     *)
(***************************************************************************)

LEMMA StrideMonotone ==
    ASSUME NEW c \in Nat, NEW d \in Nat, c <= d
    PROVE  ResetStride * (c + 1) <= ResetStride * (d + 1)
<1> DEFINE e == d - c
<1>1. e \in Nat /\ ResetStride \in Nat
  BY StridesAssumption
<1>2. ResetStride * e \in Nat
  BY <1>1
<1>3. ResetStride * (d + 1) = ResetStride * (c + 1) + ResetStride * e
  BY <1>1
<1>4. ResetStride * (c + 1) \in Nat
  BY <1>1
<1> QED
  BY <1>2, <1>3, <1>4

\* The ID of SHUTDOWN is higher than all IDs of tasks up to now.
LEMMA ShutdownIdNew ==
    ASSUME NEW i \in Nat, NEW j \in Nat, i <= j, NEW t \in Tasks,
           NEW c \in Nat, NEW d \in Nat, c <= d
    PROVE  Id!generateUniqueProcessID(i, t, c) < Id!generateUniqueProcessID(j, SHUTDOWN, d)
<1>1. Id!Number(t) \in 1 .. 3 /\ Id!Number(SHUTDOWN) = 4
  BY NumberOf DEF Tasks, IndexTasks, LineSearchTask
<1>2. TaskStride \in Nat /\ TaskStride > 0
  BY StridesAssumption
<1> DEFINE a == ResetStride * (c + 1)
           b == ResetStride * (d + 1)
           m == TaskStride * (Id!Number(t) + 1)
           n == TaskStride * (Id!Number(SHUTDOWN) + 1)
<1>3. a \in Nat /\ b \in Nat /\ a <= b
  BY StridePositive, StrideMonotone
<1>4. m \in Nat /\ n \in Nat /\ m < n
  <2>1. \/ Id!Number(t) + 1 = 2 \/ Id!Number(t) + 1 = 3 \/ Id!Number(t) + 1 = 4
    BY <1>1
  <2>2. Id!Number(SHUTDOWN) + 1 = 5
    BY <1>1
  <2> QED
    BY <1>2, <2>1, <2>2
<1>5. a + m + i + 1 < b + n + j + 1
  <2> HIDE DEF a, b, m, n
  <2> QED
    BY <1>3, <1>4
<1> QED
  BY <1>5 DEF Id!generateUniqueProcessID, Id!ProcessIdOf

\* How the condition comes out
LEMMA WaitOutcome ==
    ASSUME TypeInv, NEW w \in Workers, WaitCondition(w)
    PROVE  /\ (pc[w] = "test" /\ pc'[w] = "load") => (FindsNothingNew(w)' <=> NothingNew(w))
           /\ (pc[w] = "test" /\ pc'[w] = "fallAsleep") => workerTask = IDLE
           /\ (pc[w] = "load" /\ pc'[w] = "load") => (FindsNothingNew(w)' <=> FindsNothingNew(w))
           /\ pc[w] = "load" => (pc'[w] = "fallAsleep" => FindsNothingNew(w))
           /\ pc[w] = "load" => (pc'[w] = "reloadTask" => ~FindsNothingNew(w))
<1> USE DEF TypeInv, TypeOK
<1>0. UNCHANGED <<workerTask, iteration, lqpCounter, uniqueProcessID>>
  BY WaitMoves DEF OwnStep, counters
<1>1. SharedNow' = SharedNow
  BY <1>0 DEF SharedNow
<1>2. SharedNow \in [Operands -> Nat] /\ NotRead \notin Nat
  BY SharedType DEF AllTasks, NotRead
<1>3. ASSUME pc[w] = "test", pc'[w] = "load"
      PROVE  FindsNothingNew(w)' <=> NothingNew(w)
  <2>1. seen[w] = NothingRead /\ seen' = seen /\ workerTask # IDLE
    BY <1>3, WaitMoves DEF SeenInv
  <2>2. \A operand \in Operands : Seen(w, operand)' = SharedNow[operand]
    BY <1>1, <2>1 DEF Seen, NothingRead
  <2>3. /\ Seen(w, "iteration")' = iteration /\ Seen(w, "task")' = Id!Number(workerTask)
        /\ Seen(w, "lqp")' = lqpCounter
    BY <2>2 DEF SharedNow, Operands
  <2> QED
    BY <1>0, <2>1, <2>3 DEF FindsNothingNew, NothingNew, Id!generateUniqueProcessID
<1>4. ASSUME pc[w] = "load", pc'[w] = "load"
      PROVE  FindsNothingNew(w)' <=> FindsNothingNew(w)
  <2>1. PICK operand \in Operands : /\ seen[w][operand] = NotRead
                                    /\ seen' = [seen EXCEPT ![w][operand] = SharedNow[operand]]
    BY <1>4, WaitMoves
  <2>2. \A o \in Operands : Seen(w, o)' = Seen(w, o)
    BY <1>1, <1>2, <2>1 DEF Seen
  <2> QED
    BY <1>0, <2>2 DEF FindsNothingNew, Operands
<1>5. ASSUME pc[w] = "load", pc'[w] # "load"
      PROVE  SameAsBefore(w) <=> FindsNothingNew(w)
  <2>1. \A operand \in Operands : seen[w][operand] # NotRead
    BY <1>5, WaitMoves
  <2> QED
    BY <2>1 DEF Seen, SameAsBefore, FindsNothingNew, Operands
<1> QED
  BY <1>3, <1>4, <1>5, WaitMoves

\* Where a worker's step leads that bears upon falling asleep
LEMMA SleepMoves ==
    ASSUME TypeInv, NEW w \in Workers, ThreadWorkStep(w)
    PROVE  /\ \A v \in Workers \ {w} : pc'[v] = pc[v] /\ (FindsNothingNew(v)' <=> FindsNothingNew(v))
           /\ \/ LockWakeUp(w) /\ pc'[w] = "test"
              \/ /\ WaitCondition(w) /\ wakeUpMutex' = wakeUpMutex
                 /\ pc[w] \in {"test", "load"} /\ pc'[w] \in {"load", "fallAsleep"}
              \/ /\ WaitCondition(w) /\ wakeUpMutex' = Nobody
                 /\ pc[w] = "load" /\ pc'[w] = "reloadTask"
              \/ FallAsleep(w) /\ pc[w] = "fallAsleep" /\ pc'[w] = "asleep"
              \/ /\ pc[w] \notin {"test", "load", "fallAsleep"}
                 /\ pc'[w] \notin {"test", "load", "fallAsleep", "asleep"}
                 /\ wakeUpMutex' = wakeUpMutex
<1> USE DEF TypeInv, PlacesOK
<1>1. /\ pc' = [pc EXCEPT ![w] = pc'[w]]
      /\ UNCHANGED <<workerTask, counters>>
  BY ThreadWorkFrame
<1>2. \A v \in Workers \ {w} : pc'[v] = pc[v]
  BY <1>1
<1>7. ASSUME NEW v \in Workers \ {w}
      PROVE  FindsNothingNew(v)' <=> FindsNothingNew(v)
  <2>1. seen'[v] = seen[v] /\ uniqueProcessID'[v] = uniqueProcessID[v]
    <3> USE DEF TypeOK
    <3>1. CASE WaitCondition(w)
      BY <3>1, OthersSee, WaitMoves
    <3>2. CASE Top(w) \/ Decide(w) \/ LockWakeUp(w) \/ FallAsleep(w) \/ SpuriousWorker(w)
      BY <3>2 DEF Top, Decide, LockWakeUp, FallAsleep, SpuriousWorker, locals
    <3>3. CASE LoadTask(w) \/ LoadIteration(w) \/ LoadLqp(w) \/ Record(w)
      BY <3>3 DEF LoadTask, LoadIteration, LoadLqp, Record
    <3> QED
      BY <3>1, <3>2, <3>3 DEF ThreadWorkStep
  <2>2. SharedNow' = SharedNow
    BY <1>1 DEF SharedNow, counters
  <2> QED
    BY <2>1, <2>2 DEF FindsNothingNew, Seen
<1>3. CASE LockWakeUp(w) \/ FallAsleep(w)
  BY <1>2, <1>3, <1>7 DEF LockWakeUp, FallAsleep, Goto
<1>6. CASE WaitCondition(w)
  BY <1>2, <1>6, <1>7, WaitMoves
<1>4. CASE Top(w) \/ Decide(w) \/ SpuriousWorker(w) \/ Record(w)
  BY <1>2, <1>4, <1>7 DEF Top, Decide, SpuriousWorker, Record, Goto
<1>5. CASE LoadTask(w) \/ LoadIteration(w) \/ LoadLqp(w)
  BY <1>2, <1>5, <1>7 DEF LoadTask, LoadIteration, LoadLqp, Goto
<1> QED
  BY <1>3, <1>4, <1>5, <1>6 DEF ThreadWorkStep

\* The place of a worker that another thread's step changes, if any
LEMMA OthersStep ==
    ASSUME TypeInv, [Next]_vars, ~ \E w \in Workers : ThreadWorkStep(w)
    PROVE  /\ UNCHANGED <<locals, wakeUpMutex>>
           /\ iteration' >= iteration /\ lqpCounter' >= lqpCounter
           /\ MainTakesStep \/ UNCHANGED <<workerTask, counters>>
           /\ \A w \in Workers :
                 \/ pc'[w] = pc[w]
                 \/ pc[w] = "asleep" /\ pc'[w] = "awake" /\ MainNotifies
                 \/ /\ pc[w] \in {"dispatch"} \cup (InFunction \ {"returned"})
                    /\ pc'[w] \in {"top", "exited"} \cup InFunction
<1> USE DEF TypeInv, PlacesOK
<1>0. iteration \in Nat /\ lqpCounter \in Nat
  BY DEF TypeOK
<1>1. CASE MainTakesStep
  <2>1. MainMove /\ UNCHANGED <<wakeUpMutex, locals>>
    BY <1>1, MainMoves
  <2>2. iteration' >= iteration /\ lqpCounter' >= lqpCounter
    BY <1>0, <2>1 DEF MainMove, MainStarts, MainResets, MainSetsUp, MainPublishes, MainNotifies,
                      MainWaits, MainFinishes, MainShutsDown, poolVars, counters
  <2>3. \A w \in Workers : \/ pc'[w] = pc[w]
                           \/ pc[w] = "asleep" /\ pc'[w] = "awake" /\ MainNotifies
    BY <2>1 DEF MainMove, MainStarts, MainResets, MainSetsUp, MainPublishes, MainNotifies, MainWaits,
                MainFinishes, MainShutsDown, MainAlone
  <2> QED
    BY <1>1, <2>1, <2>2, <2>3
<1>2. CASE UNCHANGED vars
  BY <1>0, <1>2 DEF vars, poolVars, counters
<1>3. ASSUME NEW w \in Workers, Dispatch(w)
      PROVE  /\ UNCHANGED <<locals, wakeUpMutex>>
             /\ UNCHANGED <<workerTask, counters>>
             /\ pc[w] = "dispatch" /\ pc'[w] \in {"top", "exited"} \cup InFunction
             /\ \A v \in Workers \ {w} : pc'[v] = pc[v]
  <2>1. \E to \in {"take", "takeAlpha", "top", "exited"} : pc' = [pc EXCEPT ![w] = to]
    BY <1>3, DispatchOutcome, EntersIndexTaskSeen, EntersLineSearchSeen, EntersNothingSeen
  <2>2. UNCHANGED <<locals, wakeUpMutex, workerTask, counters>> /\ pc[w] = "dispatch"
    BY <1>3, DispatchOutcome DEF poolVars, Dispatch
  <2> QED
    BY <2>1, <2>2 DEF InFunction, Idx!InLoop, LS!InSearch
<1>4. ASSUME NEW w \in Workers, InIndexTask(w) \/ InLineSearch(w)
      PROVE  /\ UNCHANGED <<locals, wakeUpMutex>>
             /\ UNCHANGED <<workerTask, counters>>
             /\ pc[w] \in InFunction \ {"returned"} /\ pc'[w] \in InFunction
             /\ \A v \in Workers \ {w} : pc'[v] = pc[v]
  <2>1. Serves(w)
    BY <1>4, ServesSeen
  <2> QED
    BY <2>1 DEF Serves, poolVars, InFunction, Idx!InLoop, LS!InSearch
<1>5. ASSUME NEW w \in Workers, Dispatch(w) \/ InIndexTask(w) \/ InLineSearch(w)
      PROVE  /\ UNCHANGED <<locals, wakeUpMutex>>
             /\ iteration' >= iteration /\ lqpCounter' >= lqpCounter
             /\ UNCHANGED <<workerTask, counters>>
             /\ \A v \in Workers :
                   \/ pc'[v] = pc[v]
                   \/ /\ pc[v] \in {"dispatch"} \cup (InFunction \ {"returned"})
                      /\ pc'[v] \in {"top", "exited"} \cup InFunction
  BY <1>0, <1>3, <1>4, <1>5 DEF counters
<1> QED
  BY <1>1, <1>2, <1>5, Moves

\* A comparison comes out the same as long as nothing it depends on changes.
LEMMA FindingStays ==
    ASSUME UNCHANGED <<workerTask, counters, uniqueProcessID, seen>>, NEW w \in Workers
    PROVE  FindsNothingNew(w)' <=> FindsNothingNew(w)
<1>1. SharedNow' = SharedNow
  BY DEF SharedNow, counters
<1> QED
  BY <1>1 DEF FindsNothingNew, Seen

LEMMA WakeUpNext ==
    ASSUME TypeInv, WakeUpInv, [Next]_vars
    PROVE  WakeUpInv'
<1> USE DEF WakeUpInv
<1>1. CASE ~ \E w \in Workers : ThreadWorkStep(w)
  BY <1>1, OthersStep DEF InFunction, Idx!InLoop, LS!InSearch
<1>2. ASSUME NEW w \in Workers, ThreadWorkStep(w) PROVE WakeUpInv'
  <2>1. \A v \in Workers \ {w} : pc'[v] = pc[v]
    BY <1>2, SleepMoves
  <2>2. Nobody \notin Workers
    BY ThreadsAssumption
  <2>3. CASE LockWakeUp(w) /\ pc'[w] = "test"
    BY <2>1, <2>2, <2>3 DEF LockWakeUp
  <2>4. CASE /\ WaitCondition(w) /\ wakeUpMutex' = wakeUpMutex
             /\ pc[w] \in {"test", "load"} /\ pc'[w] \in {"load", "fallAsleep"}
    BY <2>1, <2>4
  <2>5. CASE WaitCondition(w) /\ wakeUpMutex' = Nobody /\ pc[w] = "load" /\ pc'[w] = "reloadTask"
    BY <2>1, <2>2, <2>5
  <2>6. CASE FallAsleep(w) /\ pc[w] = "fallAsleep" /\ pc'[w] = "asleep"
    BY <2>1, <2>2, <2>6 DEF FallAsleep
  <2> QED
    BY <1>2, <2>1, <2>3, <2>4, <2>5, <2>6, SleepMoves
<1> QED
  BY <1>1, <1>2

LEMMA IdNext ==
    ASSUME TypeInv, IdInv, [Next]_vars
    PROVE  IdInv'
<1> USE DEF TypeInv, TypeOK
<1>0. ASSUME NEW w \in Workers, uniqueProcessID'[w] = uniqueProcessID[w],
             iteration' >= iteration, lqpCounter' >= lqpCounter
      PROVE  \/ uniqueProcessID'[w] = 0
             \/ \E i \in 0 .. iteration', t \in Tasks, c \in 0 .. lqpCounter' :
                   uniqueProcessID'[w] = Id!generateUniqueProcessID(i, t, c)
  <2>1. CASE uniqueProcessID[w] = 0
    BY <1>0, <2>1
  <2>2. CASE uniqueProcessID[w] # 0
    <3>1. PICK i \in 0 .. iteration, t \in Tasks, c \in 0 .. lqpCounter :
             uniqueProcessID[w] = Id!generateUniqueProcessID(i, t, c)
      BY <2>2 DEF IdInv
    <3>2. i \in 0 .. iteration' /\ c \in 0 .. lqpCounter'
      <4>1. iteration' \in Nat /\ lqpCounter' \in Nat
        BY TypeNext
      <4>2. iteration \in Nat /\ lqpCounter \in Nat
        OBVIOUS
      <4> QED
        BY ONLY <1>0, <4>1, <4>2, i \in 0 .. iteration, c \in 0 .. lqpCounter
    <3> QED
      BY <1>0, <3>1, <3>2
  <2> QED
    BY <2>1, <2>2
<1>1. CASE ~ \E w \in Workers : ThreadWorkStep(w)
  BY <1>0, <1>1, OthersStep DEF IdInv, locals
<1>2. ASSUME NEW w \in Workers, ThreadWorkStep(w) PROVE IdInv'
  <2>1. iteration' = iteration /\ lqpCounter' = lqpCounter
    BY <1>2, ThreadWorkFrame DEF counters
  <2>2. CASE Record(w)
    <3>1. taskLocal[w] \in Tasks
      BY <2>2 DEF Record, Goto, LocalInv, InFunction
    <3>2. iterationLocal[w] \in 0 .. iteration /\ lqpLocal[w] \in 0 .. lqpCounter
      BY DEF LocalInv
    <3>3. uniqueProcessID' = [uniqueProcessID EXCEPT
                 ![w] = Id!generateUniqueProcessID(iterationLocal[w], taskLocal[w], lqpLocal[w])]
      BY <2>2 DEF Record, ProcessIdLocal
    <3>4. \A v \in Workers \ {w} : uniqueProcessID'[v] = uniqueProcessID[v]
      BY <3>3
    <3>5. uniqueProcessID'[w] = Id!generateUniqueProcessID(iterationLocal[w], taskLocal[w], lqpLocal[w])
      BY <3>3
    <3> HIDE DEF TypeInv, TypeOK
    <3> QED
      BY <2>1, <3>1, <3>2, <3>4, <3>5 DEF IdInv
  <2>3. CASE ~Record(w)
    <3>1. uniqueProcessID' = uniqueProcessID
      BY <1>2, <2>3, WaitMoves
      DEF ThreadWorkStep, Top, LoadTask, LoadIteration, LoadLqp, Decide, LockWakeUp, FallAsleep,
          SpuriousWorker, locals
    <3> QED
      BY <2>1, <3>1 DEF IdInv
  <2> QED
    BY <2>2, <2>3
<1> QED
  BY <1>1, <1>2

\* A worker never takes SHUTDOWN for a task it has served.
LEMMA ShutdownIsNew ==
    ASSUME TypeInv, IdInv, workerTask = SHUTDOWN, NEW w \in Workers
    PROVE  ~NothingNew(w)
<1> DEFINE new == Id!generateUniqueProcessID(iteration, SHUTDOWN, lqpCounter)
<1>1. iteration \in Nat /\ lqpCounter \in Nat
  BY DEF TypeInv, TypeOK
<1>2. new # 0
  BY <1>1, IdType DEF AllTasks
<1>3. ASSUME NEW i \in 0 .. iteration, NEW t \in Tasks, NEW c \in 0 .. lqpCounter
      PROVE  Id!generateUniqueProcessID(i, t, c) # new
  <2>1. i \in Nat /\ c \in Nat /\ i <= iteration /\ c <= lqpCounter
    BY <1>1
  <2>2. Id!generateUniqueProcessID(i, t, c) < new
    BY <1>1, <2>1, ShutdownIdNew
  <2>3. new \in Nat /\ Id!generateUniqueProcessID(i, t, c) \in Nat
    BY <1>1, <2>1, IdType DEF AllTasks, Tasks, LineSearchTask
  <2> HIDE DEF new
  <2> QED
    BY <2>2, <2>3
<1>4. uniqueProcessID[w] # new
  <2> HIDE DEF new
  <2> QED
    BY <1>2, <1>3 DEF IdInv
<1> QED
  BY <1>4 DEF NothingNew, IDLE, SHUTDOWN

LEMMA MissNext ==
    ASSUME ShutdownInv, [Next]_vars
    PROVE  MissInv'
<1> USE DEF ShutdownInv, MissInv, FallingAsleep
<1>1. ASSUME NEW w \in Workers, ThreadWorkStep(w) PROVE MissInv'
  <2>1. pc'[Main] = pc[Main]
    BY <1>1, ThreadWorkFrame, ThreadsAssumption DEF TypeInv, PlacesOK
  <2>2. SUFFICES ASSUME pc[Main] \in {"join", "destroyed"}
                 PROVE  \A v \in Workers : FallingAsleep(v)' => FallingAsleep(v)
    BY <2>1
  <2>3. FallingAsleep(w)' => FallingAsleep(w)
    <3>1. workerTask = SHUTDOWN
      BY <2>2 DEF TypeInv, TaskInv, IndexServing, SearchServing, IP!Serving, SP!Open
    <3>2. ~NothingNew(w)
      BY <3>1, ShutdownIsNew
    <3>3. CASE WaitCondition(w)
      BY <3>1, <3>2, <3>3, WaitMoves, WaitOutcome DEF TypeInv, IDLE, SHUTDOWN
    <3>4. CASE ~WaitCondition(w)
      BY <1>1, <3>4, SleepMoves
    <3> QED
      BY <3>3, <3>4
  <2> QED
    BY <1>1, <2>3, SleepMoves
<1>2. CASE ~ \E w \in Workers : ThreadWorkStep(w)
  <2>1. \A w \in Workers : /\ pc'[w] \in {"asleep", "fallAsleep"} => pc'[w] = pc[w]
                           /\ pc'[w] = "load" => pc[w] = "load"
    BY <1>2, OthersStep DEF InFunction, Idx!InLoop, LS!InSearch
  <2>2. CASE pc[Main] \in {"join", "destroyed"}
    <3>1. ASSUME MainTakesStep PROVE UNCHANGED <<workerTask, counters>>
      BY <2>2, <3>1, MainMoves
      DEF MainMove, MainStarts, MainResets, MainSetsUp, MainPublishes, MainNotifies, MainWaits,
          MainFinishes, MainShutsDown, poolVars, IP!Setup, SP!Resets
    <3>2. UNCHANGED <<workerTask, counters, uniqueProcessID, seen>>
      BY <1>2, <3>1, OthersStep DEF locals
    <3> QED
      BY <2>1, <2>2, <3>2, FindingStays
  <2>3. CASE pc'[Main] \in {"join", "destroyed"} /\ pc[Main] \notin {"join", "destroyed"}
    <3>1. MainNotifies
      <4>1. CASE MainTakesStep
        BY <2>3, <4>1, MainMoves
        DEF MainMove, MainStarts, MainResets, MainSetsUp, MainPublishes, MainWaits, MainFinishes,
            MainShutsDown
      <4>2. CASE UNCHANGED vars
        BY <2>3, <4>2 DEF vars
      <4>3. ASSUME NEW w \in Workers, Dispatch(w) PROVE FALSE
        <5>1. \E to : pc' = [pc EXCEPT ![w] = to]
          BY <4>3, DispatchOutcome, EntersIndexTaskSeen, EntersLineSearchSeen, EntersNothingSeen
        <5> QED
          BY <2>3, <5>1, ThreadsAssumption DEF TypeInv, PlacesOK
      <4>4. ASSUME NEW w \in Workers, InIndexTask(w) \/ InLineSearch(w) PROVE FALSE
        BY <2>3, <4>4, ServesSeen DEF Serves
      <4> QED
        BY <1>2, <4>1, <4>2, <4>3, <4>4, Moves
    <3>2. \A w \in Workers : FallingAsleep(w)' => wakeUpMutex = w
      BY <2>1, <3>1 DEF MainNotifies, WakeUpInv
    <3> QED
      BY <3>2
  <2> QED
    BY <2>2, <2>3
<1> QED
  BY <1>1, <1>2

\* When the destructor waits in join(), at most one worker has slept through
\* the shutdown: notify_all wakes up whoever is in the wait, workerWakeUpMutex_
\* lets only one worker be between the test and the wait, and who tests later
\* finds the process ID of SHUTDOWN, which no worker has served.
THEOREM OneMissesTheShutdown == Spec => []AtMostOneMisses
<1>1. Init => ShutdownInv
  <2> SUFFICES ASSUME Init PROVE ShutdownInv
    OBVIOUS
  <2>1. TypeInv
    BY TypeInit
  <2>2. WakeUpInv /\ MissInv
    BY InitSeen, ThreadsAssumption DEF Init, WakeUpInv, MissInv
  <2>3. IdInv
    BY DEF Init, IdInv
  <2> QED
    BY <2>1, <2>2, <2>3 DEF ShutdownInv
<1>2. ShutdownInv /\ [Next]_vars => ShutdownInv'
  BY TypeNext, WakeUpNext, IdNext, MissNext DEF ShutdownInv
<1>3. ShutdownInv => AtMostOneMisses
  <2> SUFFICES ASSUME ShutdownInv, pc[Main] = "join"
               PROVE  Cardinality({w \in Workers : pc[w] = "asleep"}) <= 1
    BY DEF AtMostOneMisses
  <2> DEFINE S == {w \in Workers : pc[w] = "asleep"}
  <2>1. \A v, w \in S : v = w
    BY DEF ShutdownInv, MissInv, FallingAsleep
  <2>2. CASE S = {}
    BY <2>2, FS_EmptySet
  <2>3. CASE S # {}
    <3>1. PICK v : v \in S
      BY <2>3
    <3>2. S = {v}
      BY <2>1, <3>1
    <3>3. Cardinality(S) = 1
      BY <3>2, FS_Singleton
    <3> QED
      BY <3>3
  <2> QED
    BY <2>2, <2>3
<1> QED
  BY <1>1, <1>2, <1>3, PTL DEF Spec

--------------------------------------------------------------------------------
(***************************************************************************)
(* Serving once                                                            *)
(***************************************************************************)

\* A worker in threadWork leaves the others alone.
LEMMA OthersUntouched ==
    ASSUME TypeInv, NEW w \in Workers, ThreadWorkStep(w), NEW v \in Workers \ {w}
    PROVE  /\ pc'[v] = pc[v] /\ taskLocal'[v] = taskLocal[v]
           /\ iterationLocal'[v] = iterationLocal[v] /\ lqpLocal'[v] = lqpLocal[v]
           /\ uniqueProcessID'[v] = uniqueProcessID[v]
<1> USE DEF TypeInv, PlacesOK, TypeOK, locals
<1>1. pc' = [pc EXCEPT ![w] = pc'[w]]
  BY ThreadWorkFrame
<1>2. CASE Top(w) \/ Decide(w) \/ LockWakeUp(w) \/ FallAsleep(w) \/ SpuriousWorker(w)
  BY <1>1, <1>2 DEF Top, Decide, LockWakeUp, FallAsleep, SpuriousWorker
<1>5. CASE WaitCondition(w)
  BY <1>1, <1>5, WaitMoves
<1>3. CASE LoadTask(w) \/ LoadIteration(w)
  BY <1>1, <1>3 DEF LoadTask, LoadIteration
<1>4. CASE LoadLqp(w) \/ Record(w)
  BY <1>1, <1>4 DEF LoadLqp, Record
<1> QED
  BY <1>2, <1>3, <1>4, <1>5 DEF ThreadWorkStep

\* What else a worker's step in threadWork does to its locals
LEMMA OwnLocals ==
    ASSUME TypeInv, NEW w \in Workers, ThreadWorkStep(w)
    PROVE  /\ ~LoadTask(w) => taskLocal'[w] = taskLocal[w]
           /\ ~LoadIteration(w) => iterationLocal'[w] = iterationLocal[w]
           /\ ~LoadLqp(w) => lqpLocal'[w] = lqpLocal[w]
           /\ ~Record(w) => uniqueProcessID'[w] = uniqueProcessID[w]
<1> USE DEF locals
<1>2. CASE Top(w) \/ Decide(w) \/ LockWakeUp(w) \/ FallAsleep(w) \/ SpuriousWorker(w)
  BY <1>2 DEF Top, Decide, LockWakeUp, FallAsleep, SpuriousWorker
<1>5. CASE WaitCondition(w)
  BY <1>5, WaitMoves DEF TypeInv
<1>3. CASE LoadTask(w) \/ LoadIteration(w)
  BY <1>3 DEF LoadTask, LoadIteration
<1>4. CASE LoadLqp(w) \/ Record(w)
  BY <1>4 DEF LoadLqp, Record
<1> QED
  BY <1>2, <1>3, <1>4, <1>5 DEF ThreadWorkStep

\* A step of the main thread that ends with a task on offer
LEMMA OfferStep ==
    ASSUME TypeInv, MainTakesStep, workerTask' \in Tasks
    PROVE  /\ MainPublishes \/ ((MainNotifies \/ MainWaits) /\ workerTask' = workerTask)
           /\ UNCHANGED <<counters, locals>>
           /\ \A w \in Workers : \/ pc'[w] = pc[w]
                                 \/ pc[w] = "asleep" /\ pc'[w] = "awake"
<1>1. MainMove
  BY MainMoves
<1>2. ~MainStarts /\ ~MainResets /\ ~MainSetsUp /\ ~MainFinishes /\ ~MainShutsDown
  BY IdleSetup, OfferMeans
  DEF MainStarts, MainResets, MainSetsUp, MainFinishes, MainShutsDown, TypeInv, TaskInv, IndexServing,
      SearchServing, IP!Serving, SP!Open, Tasks, IndexTasks, LineSearchTask, IDLE, SHUTDOWN
<1> QED
  BY <1>1, <1>2 DEF MainMove, MainPublishes, MainNotifies, MainWaits, MainAlone, poolVars

LEMMA CurrentNext ==
    ASSUME CallsInv, CurrentInv, [Next]_vars, Undisturbed'
    PROVE  CurrentInv'
<1> USE DEF CallsInv
<1>0. Undisturbed /\ WayInv
  BY DisturbedStays
<1>1. CASE MainTakesStep
  <2>1. SUFFICES ASSUME workerTask' \in Tasks, NEW w \in Workers, OnItsWay(w)'
                 PROVE  /\ pc'[w] \in {"loadLqp", "decide", "reloadLqp", "dispatch"} =>
                              iterationLocal'[w] = iteration'
                        /\ pc'[w] \in {"decide", "dispatch"} => lqpLocal'[w] = lqpCounter'
    BY DEF CurrentInv
  <2>2. /\ MainPublishes \/ ((MainNotifies \/ MainWaits) /\ workerTask' = workerTask)
        /\ UNCHANGED <<counters, locals>>
        /\ pc'[w] = pc[w] /\ OnItsWay(w)
    BY <1>1, <2>1, OfferStep DEF OnItsWay, locals
  <2>3. ~MainPublishes
    BY <1>0, <2>2, IdleSetup DEF WayInv, MainPublishes
  <2> QED
    BY <2>1, <2>2, <2>3 DEF CurrentInv, counters, locals
<1>2. CASE UNCHANGED vars
  BY <1>2 DEF vars, poolVars, counters, locals, CurrentInv, OnItsWay
<1>3. ASSUME NEW w \in Workers, ThreadWorkStep(w), NEW v \in Workers, OnItsWay(v)', workerTask' \in Tasks
      PROVE  /\ pc'[v] \in {"loadLqp", "decide", "reloadLqp", "dispatch"} =>
                   iterationLocal'[v] = iteration'
             /\ pc'[v] \in {"decide", "dispatch"} => lqpLocal'[v] = lqpCounter'
  <2>1. UNCHANGED <<workerTask, iteration, lqpCounter>>
    BY <1>3, ThreadWorkFrame DEF TypeInv, counters
  <2>2. CASE v = w /\ LoadTask(w)
    BY <2>2 DEF LoadTask, Goto, TypeInv, PlacesOK
  <2>3. CASE OnItsWay(v) /\ v # w
    <3>1. /\ pc'[v] = pc[v] /\ iterationLocal'[v] = iterationLocal[v] /\ lqpLocal'[v] = lqpLocal[v]
      BY <1>3, <2>3, OthersUntouched
    <3> QED
      BY <1>3, <2>1, <2>3, <3>1 DEF CurrentInv
  <2>4. CASE OnItsWay(v) /\ v = w /\ ~LoadTask(w)
    <3>1. CASE LoadIteration(w)
      BY <2>1, <2>4, <3>1 DEF LoadIteration, Goto, TypeInv, PlacesOK, TypeOK
    <3>2. CASE LoadLqp(w)
      <4>1. pc[w] \in {"loadLqp", "reloadLqp"} /\ lqpLocal'[w] = lqpCounter
        BY <3>2 DEF LoadLqp, Goto, TypeInv, TypeOK
      <4>2. iterationLocal'[w] = iterationLocal[w]
        BY <3>2 DEF LoadLqp
      <4> QED
        BY <1>3, <2>1, <2>4, <4>1, <4>2 DEF CurrentInv
    <3>3. CASE Decide(w)
      <4>1. pc[w] = "decide" /\ UNCHANGED <<iterationLocal, lqpLocal>>
        BY <3>3 DEF Decide, locals
      <4> QED
        BY <1>3, <2>1, <2>4, <4>1 DEF CurrentInv
    <3>4. CASE Top(w) \/ LockWakeUp(w) \/ FallAsleep(w) \/ SpuriousWorker(w) \/ Record(w)
      BY <2>4, <3>4 DEF Top, LockWakeUp, FallAsleep, SpuriousWorker, Record, Goto, OnItsWay
    <3>5. CASE WaitCondition(w)
      BY <2>4, <3>5, WaitMoves DEF TypeInv, OnItsWay
    <3> QED
      BY <1>3, <2>4, <3>1, <3>2, <3>3, <3>4, <3>5 DEF ThreadWorkStep
  <2> QED
    BY <1>3, <2>2, <2>3, <2>4, OnItsWayBecause
<1>4. ASSUME NEW w \in Workers, Dispatch(w) \/ InIndexTask(w) \/ InLineSearch(w) PROVE CurrentInv'
  <2>1. UNCHANGED <<workerTask, iteration, lqpCounter, taskLocal, iterationLocal, lqpLocal>>
    BY <1>4, DispatchOutcome, ServesSeen DEF Serves, poolVars, counters, locals
  <2>2. \A v \in Workers : OnItsWay(v)' => OnItsWay(v) /\ pc'[v] = pc[v]
    <3>1. CASE Dispatch(w)
      <4>1. \E to \in {"take", "takeAlpha", "top", "exited"} : pc' = [pc EXCEPT ![w] = to]
        BY <3>1, DispatchOutcome, EntersIndexTaskSeen, EntersLineSearchSeen, EntersNothingSeen
      <4> QED
        BY <2>1, <4>1 DEF OnItsWay, TypeInv, PlacesOK
    <3>2. CASE InIndexTask(w) \/ InLineSearch(w)
      BY <2>1, <3>2, ServesSeen DEF OnItsWay, Serves, Idx!InLoop, LS!InSearch
    <3> QED
      BY <1>4, <3>1, <3>2
  <2> QED
    BY <2>1, <2>2 DEF CurrentInv
<1> QED
  BY <1>1, <1>2, <1>3, <1>4, Moves DEF CurrentInv

LEMMA FinalNext ==
    ASSUME TypeInv, FinalInv, [Next]_vars
    PROVE  FinalInv'
<1> DEFINE Last == {"notifyShutdown", "join", "destroyed"}
<1>1. CASE MainTakesStep
  <2>1. MainMove /\ UNCHANGED locals
    BY <1>1, MainMoves
  <2>2. pc[Main] \in Last => pc'[Main] \in Last
    BY <2>1 DEF MainMove, MainStarts, MainResets, MainSetsUp, MainPublishes, MainNotifies, MainWaits,
                MainFinishes, MainShutsDown
  <2> QED
    BY <2>1, <2>2 DEF FinalInv, locals
<1>2. CASE UNCHANGED vars
  BY <1>2 DEF vars, poolVars, locals, FinalInv
<1>3. ASSUME NEW w \in Workers, ThreadWorkStep(w) PROVE FinalInv'
  <2>1. pc'[Main] = pc[Main]
    BY <1>3, ThreadWorkFrame, ThreadsAssumption DEF TypeInv, PlacesOK
  <2>2. \A v \in Workers \ {w} : taskLocal'[v] = taskLocal[v]
    BY <1>3, OthersUntouched
  <2>3. taskLocal'[w] \in {taskLocal[w], workerTask}
    BY <1>3, OwnLocals DEF LoadTask, TypeInv, TypeOK
  <2>4. workerTask = SHUTDOWN => pc[Main] \in Last
    BY OfferMeans DEF TypeInv, TaskInv, Tasks, IndexTasks, LineSearchTask, IDLE, SHUTDOWN
  <2> QED
    BY <2>1, <2>2, <2>3, <2>4 DEF FinalInv
<1>4. ASSUME NEW w \in Workers, Dispatch(w) PROVE FinalInv'
  <2>1. \E to \in {"take", "takeAlpha", "top", "exited"} : pc' = [pc EXCEPT ![w] = to]
    BY <1>4, DispatchOutcome, EntersIndexTaskSeen, EntersLineSearchSeen, EntersNothingSeen
  <2>2. pc'[Main] = pc[Main] /\ taskLocal' = taskLocal
    BY <1>4, <2>1, DispatchOutcome, ThreadsAssumption DEF TypeInv, PlacesOK, poolVars, locals
  <2> QED
    BY <2>2 DEF FinalInv
<1>5. ASSUME NEW w \in Workers, InIndexTask(w) \/ InLineSearch(w) PROVE FinalInv'
  BY <1>5, ServesSeen DEF Serves, poolVars, locals, FinalInv
<1> QED
  BY <1>1, <1>2, <1>3, <1>4, <1>5, Moves

\* A worker that has served the task on offer does not get past the
\* comparison of process IDs.
LEMMA ServedWorks ==
    ASSUME OnceInv, Undisturbed, NEW w \in Workers, ThreadWorkStep(w), w \in served, workerTask \in Tasks
    PROVE  /\ pc'[w] \notin Cleared \cup InFunction
           /\ uniqueProcessID'[w] = CurrentId
           /\ pc'[w] = "load" => FindsNothingNew(w)'
<1> USE DEF OnceInv, CallsInv, Cleared
<1>0. /\ pc[w] \notin Cleared
      /\ pc[w] \in InFunction => /\ taskLocal[w] = workerTask
                                 /\ iterationLocal[w] = iteration /\ lqpLocal[w] = lqpCounter
      /\ pc[w] \notin InFunction => uniqueProcessID[w] = CurrentId
      /\ pc[w] = "load" => FindsNothingNew(w)
  BY DEF ServedInv
<1>1. pc[w] \in BeforeServing \cup {"returned"} /\ pc'[w] \in BeforeServing
  BY ThreadWorkFrame DEF TypeInv
<1>2. pc'[w] \notin InFunction
  BY <1>1 DEF BeforeServing, InFunction, Idx!InLoop, LS!InSearch
<1>3. CASE Record(w)
  <2>1. pc[w] = "returned" /\ pc'[w] = "top"
    BY <1>3 DEF Record, Goto, TypeInv, PlacesOK
  <2>2. uniqueProcessID'[w] = ProcessIdLocal(w)
    BY <1>3 DEF Record, TypeInv, TypeOK
  <2>3. ProcessIdLocal(w) = CurrentId
    BY <1>0, <2>1 DEF InFunction, ProcessIdLocal, CurrentId
  <2> QED
    BY <1>2, <2>1, <2>2, <2>3
<1>4. CASE Decide(w)
  <2>1. pc[w] = "decide" /\ uniqueProcessID[w] = CurrentId
    BY <1>0, <1>4 DEF Decide, InFunction, Idx!InLoop, LS!InSearch
  <2>2. CASE taskLocal[w] = IDLE
    BY <1>2, <1>4, <2>1, <2>2, OwnLocals DEF Decide, TypeInv, PlacesOK, Record, Goto
  <2>3. CASE taskLocal[w] # IDLE
    <3>1. taskLocal[w] # SHUTDOWN
      BY OfferMeans DEF FinalInv, Tasks, IndexServing, SearchServing, IP!Serving, SP!Open, TypeInv
    <3>2. OnItsWay(w)
      BY <2>1, <2>3, <3>1 DEF OnItsWay
    <3>3. ProcessIdLocal(w) = CurrentId
      BY <2>1, <3>2 DEF WayInv, CurrentInv, ProcessIdLocal, CurrentId
    <3> QED
      BY <1>2, <1>4, <2>1, <3>3, OwnLocals DEF Decide, TypeInv, PlacesOK, Record, Goto
  <2> QED
    BY <2>2, <2>3
<1>5. CASE WaitCondition(w)
  <2>1. pc[w] \in {"test", "load"} /\ uniqueProcessID' = uniqueProcessID
    BY <1>5, WaitMoves DEF TypeInv
  <2>2. uniqueProcessID[w] = CurrentId
    BY <1>0, <2>1 DEF InFunction, Idx!InLoop, LS!InSearch
  <2>3. NothingNew(w)
    BY <2>2 DEF NothingNew, CurrentId
  <2>4. pc[w] = "load" => FindsNothingNew(w)
    BY <1>0
  <2>5. pc'[w] = "load" => FindsNothingNew(w)'
    BY <1>5, <2>1, <2>3, <2>4, WaitOutcome
  <2>6. pc'[w] \notin Cleared
    BY <1>5, <2>1, <2>4, WaitMoves, WaitOutcome DEF TypeInv
  <2> QED
    BY <1>2, <2>1, <2>2, <2>5, <2>6
<1>6. CASE Top(w) \/ LoadTask(w) \/ LoadIteration(w) \/ LoadLqp(w) \/ LockWakeUp(w) \/ FallAsleep(w)
              \/ SpuriousWorker(w)
  <2>1. pc[w] \notin {"returned"} /\ ~Record(w)
    BY <1>6 DEF Top, LoadTask, LoadIteration, LoadLqp, LockWakeUp, FallAsleep, SpuriousWorker, Record,
                Goto
  <2>2. pc'[w] \notin Cleared
    BY <1>0, <1>6 DEF Top, LoadTask, LoadIteration, LoadLqp, LockWakeUp, FallAsleep, SpuriousWorker,
                      Goto, TypeInv, PlacesOK
  <2>3. uniqueProcessID'[w] = uniqueProcessID[w]
    BY <2>1, OwnLocals
  <2>4. pc[w] \notin InFunction
    BY <1>1, <2>1 DEF BeforeServing, InFunction, Idx!InLoop, LS!InSearch
  <2>5. pc'[w] # "load"
    BY <1>6 DEF Top, LoadTask, LoadIteration, LoadLqp, LockWakeUp, FallAsleep, SpuriousWorker, Goto,
                TypeInv, PlacesOK
  <2> QED
    BY <1>0, <1>2, <2>2, <2>3, <2>4, <2>5
<1> QED
  BY <1>3, <1>4, <1>5, <1>6 DEF ThreadWorkStep

LEMMA ServedNext ==
    ASSUME OnceInv, [Next]_vars, Undisturbed'
    PROVE  ServedInv'
<1> USE DEF OnceInv, CallsInv
<1>0. Undisturbed /\ WayInv /\ CurrentInv /\ ServedInv
  BY DisturbedStays
<1>1. CASE MainTakesStep
  <2>1. SUFFICES ASSUME workerTask' \in Tasks, NEW w \in Workers, w \in served'
                 PROVE  /\ pc'[w] \notin Cleared
                        /\ pc'[w] \in InFunction => /\ taskLocal'[w] = workerTask'
                                                    /\ iterationLocal'[w] = iteration'
                                                    /\ lqpLocal'[w] = lqpCounter'
                        /\ pc'[w] \notin InFunction => uniqueProcessID'[w] = CurrentId'
                        /\ pc'[w] = "load" => FindsNothingNew(w)'
    BY DEF ServedInv, Cleared
  <2>2. /\ MainPublishes \/ ((MainNotifies \/ MainWaits) /\ workerTask' = workerTask)
        /\ UNCHANGED <<counters, locals>>
        /\ pc'[w] = pc[w] \/ (pc[w] = "asleep" /\ pc'[w] = "awake")
    BY <1>1, <2>1, OfferStep
  <2>3. workerTask' = workerTask /\ served' = served
    BY <2>1, <2>2 DEF MainPublishes, MainNotifies, MainWaits, history
  <2>4. CurrentId' = CurrentId
    BY <2>2, <2>3 DEF CurrentId, counters
  <2>5. /\ pc[w] \notin Cleared
        /\ pc[w] \in InFunction => /\ taskLocal[w] = workerTask
                                   /\ iterationLocal[w] = iteration /\ lqpLocal[w] = lqpCounter
        /\ pc[w] \notin InFunction => uniqueProcessID[w] = CurrentId
        /\ pc[w] = "load" => FindsNothingNew(w)
    BY <1>0, <2>1, <2>3 DEF ServedInv
  <2>6. FindsNothingNew(w)' <=> FindsNothingNew(w)
    BY <2>2, <2>3, FindingStays DEF locals
  <2> QED
    BY <2>2, <2>3, <2>4, <2>5, <2>6 DEF counters, locals, Cleared, InFunction, Idx!InLoop, LS!InSearch
<1>2. CASE UNCHANGED vars
  <2>1. CurrentId' = CurrentId
    BY <1>2 DEF vars, poolVars, counters, CurrentId
  <2>2. \A w \in Workers : FindsNothingNew(w)' <=> FindsNothingNew(w)
    BY <1>2, FindingStays DEF vars, poolVars, locals
  <2> QED
    BY <1>0, <1>2, <2>1, <2>2 DEF vars, poolVars, counters, locals, history, ServedInv, Cleared
<1>3. ASSUME NEW w \in Workers, ThreadWorkStep(w) PROVE ServedInv'
  <2>1. UNCHANGED <<workerTask, iteration, lqpCounter, served>>
    BY <1>3, ThreadWorkFrame DEF TypeInv, counters, history
  <2>2. CurrentId' = CurrentId
    BY <2>1 DEF CurrentId
  <2>3. ASSUME NEW v \in Workers \ {w}
        PROVE  /\ pc'[v] = pc[v] /\ taskLocal'[v] = taskLocal[v]
               /\ iterationLocal'[v] = iterationLocal[v] /\ lqpLocal'[v] = lqpLocal[v]
               /\ uniqueProcessID'[v] = uniqueProcessID[v]
               /\ FindsNothingNew(v)' <=> FindsNothingNew(v)
    BY <1>3, OthersUntouched, SleepMoves
  <2>4. (w \in served /\ workerTask \in Tasks) => /\ pc'[w] \notin Cleared \cup InFunction
                                                  /\ uniqueProcessID'[w] = CurrentId
                                                  /\ pc'[w] = "load" => FindsNothingNew(w)'
    BY <1>0, <1>3, ServedWorks
  <2> QED
    BY <1>0, <2>1, <2>2, <2>3, <2>4 DEF ServedInv, Cleared
<1>4. ASSUME NEW w \in Workers, Dispatch(w) PROVE ServedInv'
  <2>1. /\ UNCHANGED <<workerTask, iteration, lqpCounter, taskLocal, iterationLocal, lqpLocal,
                       uniqueProcessID>>
        /\ pc[w] = "dispatch"
    BY <1>4, DispatchOutcome DEF poolVars, counters, locals, Dispatch
  <2>2. CurrentId' = CurrentId
    BY <2>1 DEF CurrentId
  <2>6. \A v \in Workers : FindsNothingNew(v)' <=> FindsNothingNew(v)
    BY <1>4, <2>1, DispatchOutcome, FindingStays DEF poolVars, counters, locals
  <2>3. workerTask \in Tasks => w \notin served
    BY <1>0, <2>1 DEF ServedInv, Cleared
  <2>4. CASE EntersNothing(w)
    <3>1. served' = served /\ \A v \in Workers \ {w} : pc'[v] = pc[v]
      BY <2>4, EntersNothingSeen DEF TypeInv, PlacesOK
    <3> QED
      BY <1>0, <2>1, <2>2, <2>3, <2>6, <3>1 DEF ServedInv, Cleared
  <2>5. CASE EntersIndexTask(w) \/ EntersLineSearch(w)
    <3>1. /\ pc'[w] \in InFunction /\ pc'[w] \notin Cleared
          /\ \A v \in Workers \ {w} : pc'[v] = pc[v]
      BY <2>5, EntersIndexTaskSeen, EntersLineSearchSeen
      DEF TypeInv, PlacesOK, InFunction, Idx!InLoop, LS!InSearch, Cleared
    <3>2. served' \subseteq served \cup {w}
      BY <1>4 DEF Dispatch
    <3>3. OnItsWay(w)
      BY <2>1, <2>5 DEF OnItsWay, EntersIndexTask, EntersLineSearch, IndexTasks, LineSearchTask, IDLE,
                        SHUTDOWN
    <3>4. workerTask \in Tasks => /\ taskLocal[w] = workerTask /\ iterationLocal[w] = iteration
                                  /\ lqpLocal[w] = lqpCounter
      BY <1>0, <2>1, <3>3 DEF WayInv, CurrentInv
    <3>5. pc'[w] # "load"
      BY <3>1 DEF InFunction, Idx!InLoop, LS!InSearch
    <3> QED
      BY <1>0, <2>1, <2>2, <2>6, <3>1, <3>2, <3>4, <3>5 DEF ServedInv, Cleared
  <2> QED
    BY <1>4, <2>4, <2>5, DispatchOutcome
<1>5. ASSUME NEW w \in Workers, InIndexTask(w) \/ InLineSearch(w) PROVE ServedInv'
  <2>1. Serves(w)
    BY <1>5, ServesSeen
  <2>2. UNCHANGED <<workerTask, iteration, lqpCounter, taskLocal, iterationLocal, lqpLocal,
                    uniqueProcessID, served>>
    BY <2>1 DEF Serves, poolVars, counters, locals
  <2>3. CurrentId' = CurrentId
    BY <2>2 DEF CurrentId
  <2>5. \A v \in Workers : FindsNothingNew(v)' <=> FindsNothingNew(v)
    BY <2>1, FindingStays DEF Serves, poolVars, locals
  <2>4. /\ pc[w] \in InFunction /\ pc'[w] \in InFunction /\ pc'[w] \notin Cleared \cup {"load"}
        /\ \A v \in Workers \ {w} : pc'[v] = pc[v]
    BY <2>1 DEF Serves, InFunction, Idx!InLoop, LS!InSearch, Cleared
  <2> QED
    BY <1>0, <2>2, <2>3, <2>4, <2>5 DEF ServedInv, Cleared
<1> QED
  BY <1>1, <1>2, <1>3, <1>4, <1>5, Moves

LEMMA OnceInit == Init => OnceInv
<1> SUFFICES ASSUME Init PROVE OnceInv
  OBVIOUS
<1>1. CallsInv
  BY CallsInit
<1>2. FinalInv /\ CurrentInv /\ ServedInv
  BY DEF Init, FinalInv, CurrentInv, ServedInv, Tasks, IndexTasks, LineSearchTask, IDLE, SHUTDOWN
<1> QED
  BY <1>1, <1>2 DEF OnceInv

LEMMA OnceNext == ASSUME IP!ProperRequests PROVE OnceInv /\ [Next]_vars => OnceInv'
<1> SUFFICES ASSUME OnceInv, [Next]_vars PROVE OnceInv'
  OBVIOUS
<1>1. CallsInv'
  BY CallsNext DEF OnceInv
<1>2. FinalInv'
  BY FinalNext DEF OnceInv, CallsInv
<1>3. ASSUME Undisturbed' PROVE CurrentInv' /\ ServedInv'
  <2>1. Undisturbed
    BY <1>3, DisturbedStays DEF OnceInv, CallsInv
  <2> QED
    BY <1>3, <2>1, CurrentNext, ServedNext DEF OnceInv
<1> QED
  BY <1>1, <1>2, <1>3 DEF OnceInv

\* No worker serves a call twice: while the task is on offer, the worker that
\* has served it remembers its process ID, and whoever gets past the comparison
\* of process IDs has read the three values of the call on offer.
THEOREM NobodyServesTwice == ASSUME IP!ProperRequests PROVE Spec => ServesOnce
<1>1. Init => OnceInv
  BY OnceInit
<1>2. OnceInv /\ [Next]_vars => OnceInv'
  BY OnceNext
<1>3. OnceInv /\ [Next]_vars =>
         [\A w \in Workers :
             (Dispatch(w) /\ Undisturbed /\ taskLocal[w] = workerTask /\ workersActive
                /\ pc'[w] \in {"take", "takeAlpha"}) => w \notin served]_vars
  <2> SUFFICES ASSUME OnceInv, NEW w \in Workers, Dispatch(w), Undisturbed,
                      taskLocal[w] = workerTask, workersActive, pc'[w] \in {"take", "takeAlpha"}
               PROVE  w \notin served
    OBVIOUS
  <2>1. pc[w] = "dispatch"
    BY DEF Dispatch
  <2>2. workerTask \in Tasks
    <3>1. ~EntersNothing(w)
      BY EntersNothingSeen DEF OnceInv, CallsInv, TypeInv, PlacesOK
    <3> QED
      BY <3>1 DEF EntersNothing
  <2> QED
    BY <2>1, <2>2 DEF OnceInv, ServedInv, Cleared
<1> QED
  BY <1>1, <1>2, <1>3, PTL DEF Spec, ServesOnce

--------------------------------------------------------------------------------
(***************************************************************************)
(* The script ahead                                                        *)
(***************************************************************************)

LEMMA PlacesApart ==
    /\ Unpublished = {"resetTaken", "resetAlphaTaken", "resetCompleted", "setKMax", "setKMin",
                      "publish", "resetFound", "resetBest", "resetProcessed", "publishSearch"}
    /\ IndexServing = {"notify", "await", "gap", "blocked", "done"}
    /\ SearchServing = {"notifySearch", "awaitBest", "gapBest", "blockedBest", "doneBest"}
    /\ IP!Setup = {"resetCompleted", "setKMax", "setKMin", "publish"}
    /\ SP!Resets = {"resetFound", "resetBest", "resetProcessed", "publishSearch"}
BY IdleSetup DEF Unpublished, IndexServing, SearchServing, IP!Serving, SP!Open, IP!Setup, SP!Resets

\* A worker's step leaves the script and the call alone.
LEMMA WorkersLeaveScript ==
    ASSUME TypeInv, NEW w \in Workers,
           ThreadWorkStep(w) \/ Dispatch(w) \/ InIndexTask(w) \/ InLineSearch(w)
    PROVE  /\ UNCHANGED <<next, call, workerTask, iteration, lqpCounter>>
           /\ served \subseteq served'
           /\ \/ pc'[Main] = pc[Main]
              \/ pc[Main] = "blocked" /\ pc'[Main] = "await"
              \/ pc[Main] = "blockedBest" /\ pc'[Main] = "awaitBest"
<1>1. CASE ThreadWorkStep(w)
  BY <1>1, ThreadWorkFrame, ThreadsAssumption DEF TypeInv, PlacesOK, indexVars, counters, history
<1>2. CASE Dispatch(w)
  <2>1. \E to \in {"take", "takeAlpha", "top", "exited"} : pc' = [pc EXCEPT ![w] = to]
    BY <1>2, DispatchOutcome, EntersIndexTaskSeen, EntersLineSearchSeen, EntersNothingSeen
  <2>2. pc'[Main] = pc[Main]
    BY <2>1, ThreadsAssumption DEF TypeInv, PlacesOK
  <2>3. served \subseteq served'
    BY <1>2 DEF Dispatch
  <2> QED
    BY <1>2, <2>2, <2>3, DispatchOutcome DEF poolVars, counters
<1>3. CASE InIndexTask(w) \/ InLineSearch(w)
  BY <1>3, ServesSeen DEF Serves, poolVars, counters
<1> QED
  BY <1>1, <1>2, <1>3

LEMMA PendingNext ==
    ASSUME TypeInv, PendingInv, [Next]_vars
    PROVE  PendingInv'
<1> USE PlacesApart DEF PendingInv
<1>0. iteration \in Nat /\ next \in Nat
  BY ScriptType DEF TypeInv, TypeOK
<1>1. CASE MainTakesStep
  <2>1. MainMove
    BY <1>1, MainMoves
  <2>2. CASE MainStarts
    <3>1. next' - 1 = next /\ iteration' < next'
      BY <1>0, <2>2 DEF MainStarts
    <3> QED
      BY <2>2, <3>1 DEF MainStarts
  <2>3. CASE MainResets \/ MainSetsUp \/ MainPublishes
    BY <2>3 DEF MainResets, MainSetsUp, MainPublishes, poolVars, counters
  <2>4. CASE MainNotifies \/ MainWaits \/ MainFinishes
    BY <2>4 DEF MainNotifies, MainWaits, MainFinishes, poolVars, counters
  <2>5. CASE MainShutsDown
    BY <2>5 DEF MainShutsDown, poolVars, counters
  <2> QED
    BY <2>1, <2>2, <2>3, <2>4, <2>5 DEF MainMove
<1>2. CASE UNCHANGED vars
  BY <1>2 DEF vars, indexVars, poolVars, counters
<1>3. ASSUME NEW w \in Workers,
             ThreadWorkStep(w) \/ Dispatch(w) \/ InIndexTask(w) \/ InLineSearch(w)
      PROVE  PendingInv'
  BY <1>3, WorkersLeaveScript
<1> QED
  BY <1>1, <1>2, <1>3, Moves

\* As the script is worked off, what was true of the rest of it stays true.
LEMMA AheadNext ==
    ASSUME TypeInv, [Next]_vars
    PROVE  /\ next' >= next /\ Pending' >= Pending
           /\ \A task \in Tasks : /\ (FarOff(task) /\ ~MainPublishes) => FarOff(task)'
                                  /\ (Renewed(task) /\ UNCHANGED <<iteration, lqpCounter>>) =>
                                        Renewed(task)'
<1> USE PlacesApart
<1>0. next \in Nat /\ Offers \subseteq Nat /\ Counts \subseteq Nat /\ Pending \in Nat \cup {-1}
  BY ScriptType DEF TypeInv, TypeOK, Offers, Counts, Pending
<1>1. ASSUME Pending' = Pending, next' = next
      PROVE  /\ next' >= next /\ Pending' >= Pending
             /\ \A task \in Tasks : /\ FarOff(task) => FarOff(task)'
                                    /\ Renewed(task) => Renewed(task)'
  BY <1>0, <1>1 DEF FarOff, Renewed, Offers, Counts
<1>2. CASE MainTakesStep
  <2>1. MainMove
    BY <1>2, MainMoves
  <2>2. CASE MainStarts
    <3>1. next' = next + 1 /\ Pending = next /\ next \notin Counts \cap Offers
      BY <2>2 DEF MainStarts, Pending, Counts, Offers, IndexTasks, LineSearchTask
    <3>2. CASE pc'[Main] \in {"resetTaken", "resetAlphaTaken"}
      <4>1. Pending' = next /\ next \notin Counts
        BY <1>0, <2>2, <3>1, <3>2 DEF MainStarts, Pending, Counts, Offers, IndexTasks, LineSearchTask
      <4> QED
        BY <1>0, <3>1, <4>1 DEF FarOff, Renewed, Offers, Counts
    <3>3. CASE pc'[Main] \notin {"resetTaken", "resetAlphaTaken"}
      <4>1. Pending' = next + 1 /\ next \notin Offers
        BY <1>0, <2>2, <3>1, <3>3 DEF MainStarts, Pending
      <4>2. UNCHANGED <<iteration, lqpCounter>> => next \notin Counts
        BY <2>2 DEF MainStarts, TypeInv, TypeOK
      <4>3. \A q \in Counts : (q >= next /\ q # next) => q >= next + 1
        BY <1>0
      <4>4. \A p \in Offers : p >= next => p >= next + 1
        BY <1>0, <4>1
      <4>5. ASSUME NEW task \in Tasks, FarOff(task) PROVE FarOff(task)'
        BY <1>0, <3>1, <4>1, <4>4, <4>5 DEF FarOff, Offers, Counts
      <4>6. ASSUME NEW task \in Tasks, Renewed(task), UNCHANGED <<iteration, lqpCounter>>
            PROVE  Renewed(task)'
        BY <1>0, <3>1, <4>1, <4>2, <4>3, <4>6 DEF Renewed, Offers, Counts
      <4> QED
        BY <1>0, <3>1, <4>1, <4>5, <4>6
    <3> QED
      BY <3>2, <3>3
  <2>3. CASE MainPublishes
    <3>1. next' = next /\ Pending = next - 1 /\ Pending' = next
      BY <2>3 DEF MainPublishes, Pending, poolVars
    <3> QED
      BY <1>0, <2>3, <3>1 DEF FarOff, Renewed, Offers, Counts
  <2>4. CASE MainResets \/ MainSetsUp \/ MainNotifies \/ MainWaits \/ MainFinishes \/ MainShutsDown
    <3>1. next' = next /\ Pending' = Pending
      BY <2>4 DEF MainResets, MainSetsUp, MainNotifies, MainWaits, MainFinishes, MainShutsDown,
                  Pending, poolVars
    <3> QED
      BY <1>1, <3>1
  <2> QED
    BY <2>1, <2>2, <2>3, <2>4 DEF MainMove
<1>3. CASE UNCHANGED vars
  BY <1>1, <1>3 DEF vars, poolVars, Pending
<1>4. ASSUME NEW w \in Workers,
             ThreadWorkStep(w) \/ Dispatch(w) \/ InIndexTask(w) \/ InLineSearch(w)
      PROVE  next' = next /\ Pending' = Pending
  BY <1>4, WorkersLeaveScript DEF Pending
<1> QED
  BY <1>1, <1>2, <1>3, <1>4, Moves

(***************************************************************************)
(* No work is taken for work that was served                               *)
(***************************************************************************)

\* The process IDs of tasks are different as long as the iterations do not
\* outrun the stride between two tasks.
IterationsFit == Len(Script) < TaskStride

LEMMA IdUnique ==
    ASSUME NEW i \in Nat, NEW j \in Nat, i < TaskStride, j < TaskStride,
           NEW s \in Tasks, NEW t \in Tasks, NEW c \in Nat, NEW d \in Nat,
           Id!generateUniqueProcessID(i, s, c) = Id!generateUniqueProcessID(j, t, d)
    PROVE  i = j /\ s = t /\ c = d
<1> DEFINE m == Id!Number(s) + 1
           n == Id!Number(t) + 1
           a == ResetStride * (c + 1)
           b == ResetStride * (d + 1)
           T == TaskStride
<1>1. m \in 2 .. 4 /\ n \in 2 .. 4 /\ (m = n => s = t)
  BY NumberOf DEF Tasks, IndexTasks, LineSearchTask
<1>2. T \in Nat /\ T > 0 /\ ResetStride \in Nat /\ ResetStride >= 6 * T
  BY StridesAssumption
<1>3. a + T * m + i + 1 = b + T * n + j + 1
  BY DEF Id!generateUniqueProcessID, Id!ProcessIdOf
<1>4. T * m \in {2 * T, 3 * T, 4 * T} /\ T * n \in {2 * T, 3 * T, 4 * T}
  <2>1. (m = 2 \/ m = 3 \/ m = 4) /\ (n = 2 \/ n = 3 \/ n = 4)
    BY <1>1
  <2> QED
    BY <1>2, <2>1
<1>5. a \in Nat /\ b \in Nat
  BY StridePositive
<1>6. ASSUME NEW e \in Nat, NEW f \in Nat, e < f
      PROVE  ResetStride * (e + 1) + ResetStride <= ResetStride * (f + 1)
  <2>1. e + 1 \in Nat /\ e + 1 <= f
    BY <1>6
  <2>2. ResetStride * ((e + 1) + 1) <= ResetStride * (f + 1)
    BY <2>1, StrideMonotone
  <2>3. ResetStride * ((e + 1) + 1) = ResetStride * (e + 1) + ResetStride
    BY <1>2
  <2> QED
    BY <2>2, <2>3
<1>7. c = d
  <2>1. c < d => a + 6 * T <= b
    <3>1. ResetStride * (c + 1) \in Nat /\ ResetStride * (d + 1) \in Nat
      BY <1>5
    <3> QED
      BY <1>2, <1>6, <3>1
  <2>2. d < c => b + 6 * T <= a
    <3>1. ResetStride * (c + 1) \in Nat /\ ResetStride * (d + 1) \in Nat
      BY <1>5
    <3> QED
      BY <1>2, <1>6, <3>1
  <2> HIDE DEF a, b, m, n
  <2> QED
    BY <1>2, <1>3, <1>4, <1>5, <2>1, <2>2
<1>8. T * m + i = T * n + j
  <2>1. a = b
    BY <1>7
  <2>2. T * m \in Nat /\ T * n \in Nat
    BY <1>2, <1>4
  <2> HIDE DEF a, b, m, n
  <2> QED
    BY <1>3, <1>5, <2>1, <2>2
<1>9. m = n
  <2>1. (m = 2 \/ m = 3 \/ m = 4) /\ (n = 2 \/ n = 3 \/ n = 4)
    BY <1>1
  <2> HIDE DEF m, n
  <2> QED
    BY <1>2, <1>8, <2>1
<1>10. i = j
  <2>1. T * m = T * n /\ T * m \in Nat
    BY <1>2, <1>4, <1>9
  <2> HIDE DEF m, n
  <2> QED
    BY <1>8, <2>1
<1> QED
  BY <1>1, <1>7, <1>9, <1>10

\* What a worker has served stays remembered, and is not published again.
LEMMA RememberedNext ==
    ASSUME TypeInv, PendingInv, [Next]_vars, UNCHANGED <<iteration, lqpCounter>>,
           NEW w \in Workers, NEW task \in Tasks, Remembered(w, task)
    PROVE  Remembered(w, task)'
<1>1. Renewed(task)'
  BY AheadNext DEF Remembered
<1>2. ASSUME workerTask' = task PROVE w \in served'
  <2>1. CASE MainTakesStep
    <3>1. CASE MainPublishes
      <4>1. next - 1 \in Offers /\ Pending = next - 1 /\ Script[next - 1].op = workerTask'
        BY <3>1, PlacesApart DEF MainPublishes, PendingInv, Pending
      <4>2. PICK q \in Counts : next <= q /\ q < next - 1
        BY <1>2, <4>1, ScriptType DEF Remembered, Renewed, Offers
      <4> QED
        BY <4>2, ScriptType DEF Counts, TypeInv, TypeOK
    <3>2. CASE ~MainPublishes
      <4>1. (MainNotifies \/ MainWaits) /\ workerTask' = workerTask
        BY <1>2, <2>1, <3>2, OfferStep
      <4> QED
        BY <1>2, <4>1 DEF Remembered, MainNotifies, MainWaits, history
    <3> QED
      BY <3>1, <3>2
  <2>2. CASE UNCHANGED vars
    BY <1>2, <2>2 DEF vars, history, Remembered
  <2>3. ASSUME NEW v \in Workers,
               ThreadWorkStep(v) \/ Dispatch(v) \/ InIndexTask(v) \/ InLineSearch(v)
        PROVE  workerTask' = workerTask /\ served \subseteq served'
    BY <2>3, WorkersLeaveScript
  <2> QED
    BY <1>2, <2>1, <2>2, <2>3, Moves DEF Remembered
<1> QED
  BY <1>1, <1>2 DEF Remembered

\* A worker that is on its way was so before, or reads the task on offer now.
LEMMA WayComesFrom ==
    ASSUME TypeInv, [Next]_vars, NEW v \in Workers, OnItsWay(v)'
    PROVE  \/ OnItsWay(v) /\ taskLocal'[v] = taskLocal[v]
           \/ /\ ThreadWorkStep(v) /\ taskLocal'[v] = workerTask /\ workerTask \in Tasks
<1>1. CASE \E w \in Workers : ThreadWorkStep(w)
  <2>1. PICK w \in Workers : ThreadWorkStep(w)
    BY <1>1
  <2>2. \/ OnItsWay(v) /\ taskLocal'[v] = taskLocal[v]
        \/ v = w /\ LoadTask(w) /\ taskLocal'[v] = workerTask
    BY <2>1, OnItsWayBecause
  <2>3. taskLocal'[v] \notin {IDLE, SHUTDOWN}
    BY DEF OnItsWay
  <2>4. workerTask \in Tasks \cup {IDLE, SHUTDOWN}
    BY DEF TypeInv, TypeOK, Tasks, LineSearchTask
  <2> QED
    BY <2>1, <2>2, <2>3, <2>4
<1>2. CASE ~ \E w \in Workers : ThreadWorkStep(w)
  BY <1>2, OthersStep DEF locals, OnItsWay, InFunction, Idx!InLoop, LS!InSearch
<1> QED
  BY <1>1, <1>2

\* A worker in a worker function was there before, or is dispatched now and
\* takes its part in the call.
LEMMA ServingComesFrom ==
    ASSUME TypeInv, [Next]_vars, NEW v \in Workers, pc'[v] \in InFunction
    PROVE  \/ pc[v] \in InFunction /\ UNCHANGED <<iterationLocal[v], lqpLocal[v], taskLocal[v]>>
           \/ /\ OnItsWay(v) /\ taskLocal[v] \in Tasks /\ v \in served'
              /\ UNCHANGED <<next, taskLocal, iteration, lqpCounter>>
<1>1. CASE pc[v] \in InFunction
  <2>1. ASSUME NEW w \in Workers, ThreadWorkStep(w) PROVE w # v
    BY <2>1, ThreadWorkFrame
    DEF TypeInv, BeforeServing, InFunction, Idx!InLoop, LS!InSearch
  <2>2. CASE \E w \in Workers : ThreadWorkStep(w)
    BY <1>1, <2>1, <2>2, OthersUntouched
  <2> QED
    BY <1>1, <2>2, OthersStep DEF locals
<1>2. CASE pc[v] \notin InFunction
  <2>1. Dispatch(v) /\ (EntersIndexTask(v) \/ EntersLineSearch(v))
    <3>1. ~ \E w \in Workers : ThreadWorkStep(w)
      <4>1. ASSUME NEW w \in Workers, ThreadWorkStep(w) PROVE FALSE
        <5>1. pc'[w] \notin InFunction
          BY <4>1, ThreadWorkFrame DEF TypeInv, BeforeServing, InFunction, Idx!InLoop, LS!InSearch
        <5>2. v # w
          BY <5>1
        <5> QED
          BY <1>2, <4>1, <5>2, OthersUntouched
      <4> QED
        BY <4>1
    <3>2. ~MainTakesStep /\ ~UNCHANGED vars
      <4>1. CASE MainTakesStep
        <5>1. MainMove
          BY <4>1, MainMoves
        <5>2. pc'[v] = pc[v] \/ pc'[v] = "awake"
          BY <5>1 DEF MainMove, MainStarts, MainResets, MainSetsUp, MainPublishes, MainNotifies,
                      MainWaits, MainFinishes, MainShutsDown, MainAlone
        <5> QED
          BY <1>2, <5>2 DEF InFunction, Idx!InLoop, LS!InSearch
      <4>2. CASE UNCHANGED vars
        BY <1>2, <4>2 DEF vars
      <4> QED
        BY <4>1, <4>2
    <3>3. PICK w \in Workers : Dispatch(w) \/ InIndexTask(w) \/ InLineSearch(w)
      BY <3>1, <3>2, Moves
    <3>4. ~(InIndexTask(w) \/ InLineSearch(w))
      BY <1>2, ServesSeen DEF Serves, InFunction
    <3>5. CASE EntersNothing(w)
      BY <1>2, <3>5, EntersNothingSeen
      DEF TypeInv, PlacesOK, InFunction, Idx!InLoop, LS!InSearch
    <3>6. CASE EntersIndexTask(w) \/ EntersLineSearch(w)
      BY <1>2, <3>3, <3>4, <3>6, EntersIndexTaskSeen, EntersLineSearchSeen
      DEF TypeInv, PlacesOK
    <3> QED
      BY <3>3, <3>4, <3>5, <3>6, DispatchOutcome
  <2>2. OnItsWay(v) /\ taskLocal[v] \in Tasks /\ v \in served'
    BY <2>1 DEF EntersIndexTask, EntersLineSearch, Dispatch, OnItsWay, Tasks, IndexTasks,
                LineSearchTask, IDLE, SHUTDOWN
  <2>3. UNCHANGED <<next, taskLocal, iteration, lqpCounter>>
    BY <2>1, DispatchOutcome DEF poolVars, counters, locals
  <2> QED
    BY <2>2, <2>3
<1> QED
  BY <1>1, <1>2

\* While a task is on offer, it is far off: between two offers of the same
\* task there is another offer, and a counter goes up after that.
LEMMA OfferedIsFarOff ==
    ASSUME OffersApart, TypeInv, PendingInv, workerTask \in Tasks
    PROVE  FarOff(workerTask)
<1>1. pc[Main] \in IndexServing \cup SearchServing
  BY OfferMeans DEF Tasks
<1>2. next - 1 \in Offers /\ Script[next - 1].op = workerTask
  BY <1>1, OfferMeans, PlacesApart DEF PendingInv
<1>3. Pending = next /\ next \in Nat /\ Offers \subseteq Nat /\ Counts \subseteq Nat
  BY <1>1, PlacesApart, ScriptType DEF Pending, TypeInv, TypeOK, Offers, Counts
<1> QED
  BY <1>2, <1>3 DEF FarOff, OffersApart

LEMMA FarOffRenewed ==
    ASSUME TypeInv, NEW task \in Tasks, FarOff(task)
    PROVE  Renewed(task)
<1>1. next \in Nat /\ Offers \subseteq Nat /\ Counts \subseteq Nat
  BY ScriptType DEF TypeInv, TypeOK, Offers, Counts
<1>2. Pending = next \/ Pending = next - 1
  BY DEF Pending
<1> QED
  BY <1>1, <1>2 DEF FarOff, Renewed

LEMMA FreshNext ==
    ASSUME OffersApart, IterationsFit, CallsInv, IdInv, PendingInv, FreshInv, [Next]_vars, Undisturbed'
    PROVE  FreshInv'
<1> USE DEF CallsInv
<1>0. Undisturbed /\ WayInv
  BY DisturbedStays
<1>1. /\ iteration \in Nat /\ lqpCounter \in Nat /\ iteration < TaskStride
      /\ iteration' \in Nat /\ lqpCounter' \in Nat /\ iteration' < TaskStride
  <2>1. PendingInv' /\ TypeInv'
    BY PendingNext, TypeNext
  <2>2. TaskStride \in Nat
    BY StridesAssumption
  <2>3. /\ iteration \in Nat /\ lqpCounter \in Nat /\ next \in 1 .. Len(Script) + 1
        /\ iteration' \in Nat /\ lqpCounter' \in Nat /\ next' \in 1 .. Len(Script) + 1
    BY <2>1 DEF TypeInv, TypeOK
  <2>4. iteration < next /\ iteration' < next' /\ Len(Script) < TaskStride /\ Len(Script) \in Nat
    BY <2>1, ScriptType DEF PendingInv, IterationsFit
  <2> QED
    BY <2>2, <2>3, <2>4
<1>2. iteration <= iteration' /\ lqpCounter <= lqpCounter'
  <2>1. CASE \E w \in Workers : ThreadWorkStep(w)
    BY <1>1, <2>1, WorkersLeaveScript
  <2> QED
    BY <2>1, OthersStep DEF locals
<1>3. ASSUME NEW v \in Workers, OnItsWay(v)' PROVE FarOff(taskLocal[v])'
  <2>1. CASE OnItsWay(v) /\ taskLocal'[v] = taskLocal[v]
    <3>1. FarOff(taskLocal[v]) /\ taskLocal[v] \in Tasks /\ ~MainPublishes
      <4>1. pc[Main] \notin Setup
        BY <1>0, <2>1 DEF WayInv
      <4>2. taskLocal[v] \in Tasks
        BY <2>1 DEF OnItsWay, TypeInv, TypeOK, Tasks, LineSearchTask
      <4> QED
        BY <2>1, <4>1, <4>2, IdleSetup DEF FreshInv, MainPublishes
    <3> DEFINE task == taskLocal[v]
    <3>2. \A t \in Tasks : (FarOff(t) /\ ~MainPublishes) => FarOff(t)'
      BY AheadNext
    <3> QED
      BY <2>1, <3>1, <3>2 DEF FarOff
  <2>2. CASE ThreadWorkStep(v) /\ taskLocal'[v] = workerTask /\ workerTask \in Tasks
    <3>1. FarOff(workerTask)
      BY <2>2, OfferedIsFarOff
    <3>2. next' = next /\ Pending' = Pending
      BY <2>2, WorkersLeaveScript, PlacesApart DEF Pending
    <3> QED
      BY <2>2, <3>1, <3>2 DEF FarOff, Offers, Counts
  <2> QED
    BY <1>3, <2>1, <2>2, WayComesFrom
<1>4. ASSUME NEW v \in Workers, pc'[v] \in InFunction, iterationLocal'[v] = iteration',
             lqpLocal'[v] = lqpCounter'
      PROVE  Remembered(v, taskLocal[v])' /\ taskLocal'[v] = taskLocal[v] /\ taskLocal[v] \in Tasks
  <2>1. CASE pc[v] \in InFunction /\ UNCHANGED <<iterationLocal[v], lqpLocal[v], taskLocal[v]>>
    <3>1. iterationLocal[v] = iteration /\ lqpLocal[v] = lqpCounter /\ UNCHANGED <<iteration, lqpCounter>>
      <4>1. iterationLocal[v] <= iteration /\ lqpLocal[v] <= lqpCounter
        BY DEF TypeInv, LocalInv
      <4> QED
        BY <1>1, <1>2, <1>4, <2>1, <4>1
    <3>2. taskLocal[v] \in Tasks /\ Remembered(v, taskLocal[v])
      BY <2>1, <3>1 DEF FreshInv, TypeInv, LocalInv
    <3>3. \A t \in Tasks : Remembered(v, t) => Remembered(v, t)'
      BY <3>1, RememberedNext
    <3> QED
      BY <2>1, <3>2, <3>3 DEF Remembered, Renewed
  <2>2. CASE /\ OnItsWay(v) /\ taskLocal[v] \in Tasks /\ v \in served'
             /\ UNCHANGED <<next, taskLocal, iteration, lqpCounter>>
    <3>1. Renewed(taskLocal[v])
      BY <2>2, FarOffRenewed DEF FreshInv
    <3>2. \A t \in Tasks : Renewed(t) => Renewed(t)'
      BY <2>2, AheadNext
    <3> QED
      BY <2>2, <3>1, <3>2 DEF Remembered, Renewed
  <2> QED
    BY <1>4, <2>1, <2>2, ServingComesFrom
<1>5. ASSUME NEW v \in Workers, NEW task \in Tasks,
             uniqueProcessID'[v] = Id!generateUniqueProcessID(iteration', task, lqpCounter')
      PROVE  Remembered(v, task)'
  <2>1. UNCHANGED <<iteration, lqpCounter>> /\ Remembered(v, task)
    <3>1. CASE Record(v)
      <4>1. pc[v] = "returned" /\ uniqueProcessID'[v] = ProcessIdLocal(v)
        BY <3>1 DEF Record, Goto, TypeInv, TypeOK
      <4>2. UNCHANGED <<iteration, lqpCounter>>
        BY <3>1, WorkersLeaveScript DEF ThreadWorkStep
      <4>3. taskLocal[v] \in Tasks /\ pc[v] \in InFunction
        BY <4>1 DEF TypeInv, LocalInv, InFunction
      <4>4. /\ iterationLocal[v] \in Nat /\ lqpLocal[v] \in Nat /\ iterationLocal[v] <= iteration
        BY DEF TypeInv, TypeOK, LocalInv
      <4>5. iterationLocal[v] < TaskStride
        BY <1>1, <4>4, StridesAssumption
      <4>6. iterationLocal[v] = iteration /\ taskLocal[v] = task /\ lqpLocal[v] = lqpCounter
        <5> DEFINE i == iterationLocal[v]  t == taskLocal[v]  c == lqpLocal[v]
        <5>1. Id!generateUniqueProcessID(i, t, c) = Id!generateUniqueProcessID(iteration, task, lqpCounter)
          BY <1>5, <4>1, <4>2 DEF ProcessIdLocal
        <5>2. i \in Nat /\ t \in Tasks /\ c \in Nat /\ i < TaskStride
          BY <4>3, <4>4, <4>5
        <5> HIDE DEF i, t, c
        <5>3. i = iteration /\ t = task /\ c = lqpCounter
          BY <1>1, <5>1, <5>2, IdUnique
        <5> QED
          BY <5>3 DEF i, t, c
      <4> QED
        BY <4>2, <4>3, <4>6 DEF FreshInv
    <3>2. CASE ~Record(v)
      <4>1. uniqueProcessID'[v] = uniqueProcessID[v]
        <5>1. ASSUME NEW w \in Workers, ThreadWorkStep(w) PROVE uniqueProcessID'[v] = uniqueProcessID[v]
          BY <3>2, <5>1, OwnLocals, OthersUntouched
        <5> QED
          BY <5>1, OthersStep DEF locals
      <4>2. uniqueProcessID[v] # 0
        BY <1>1, <1>5, <4>1, IdType DEF AllTasks, Tasks, LineSearchTask
      <4>3. PICK i \in 0 .. iteration, t \in Tasks, c \in 0 .. lqpCounter :
               uniqueProcessID[v] = Id!generateUniqueProcessID(i, t, c)
        BY <4>2 DEF IdInv
      <4>4. i \in Nat /\ c \in Nat /\ i < TaskStride /\ i <= iteration /\ c <= lqpCounter
        BY <1>1, StridesAssumption
      <4>5. i = iteration' /\ t = task /\ c = lqpCounter'
        <5>1. Id!generateUniqueProcessID(i, t, c)
                 = Id!generateUniqueProcessID(iteration', task, lqpCounter')
          BY <1>5, <4>1, <4>3
        <5>2. \A j \in Nat, d \in Nat :
                 (j < TaskStride /\ Id!generateUniqueProcessID(i, t, c) = Id!generateUniqueProcessID(j, task, d))
                    => i = j /\ t = task /\ c = d
          BY <4>4, IdUnique
        <5> QED
          BY <1>1, <5>1, <5>2
      <4>6. UNCHANGED <<iteration, lqpCounter>>
        BY <1>1, <1>2, <4>4, <4>5
      <4> QED
        BY <1>5, <4>1, <4>6 DEF FreshInv
    <3> QED
      BY <3>1, <3>2
  <2> QED
    BY <2>1, RememberedNext
<1>6. ASSUME NEW v \in Workers, (pc[v] \in InFunction)', (iterationLocal[v] = iteration)',
             (lqpLocal[v] = lqpCounter)'
      PROVE  Remembered(v, taskLocal[v])'
  BY <1>4, <1>6
<1>7. ASSUME NEW v \in Workers, NEW task \in Tasks,
             (uniqueProcessID[v] = Id!generateUniqueProcessID(iteration, task, lqpCounter))'
      PROVE  Remembered(v, task)'
  BY <1>5, <1>7
<1> QED
  BY <1>3, <1>6, <1>7 DEF FreshInv

--------------------------------------------------------------------------------
(***************************************************************************)
(* No standstill                                                           *)
(***************************************************************************)

\* Whoever finds nothing new while a task is on offer has served it.
LEMMA NothingNewMeansServed ==
    ASSUME FreshInv, NEW w \in Workers, workerTask \in Tasks, NothingNew(w)
    PROVE  w \in served
<1>1. uniqueProcessID[w] = Id!generateUniqueProcessID(iteration, workerTask, lqpCounter)
  BY DEF NothingNew, Tasks, IndexTasks, LineSearchTask, IDLE
<1> QED
  BY <1>1 DEF FreshInv, Remembered

\* The main thread has published a task and notified the workers.
AfterNotify == (IndexServing \cup SearchServing) \ {"notify", "notifySearch"}

LEMMA MissesNext ==
    ASSUME CallsInv, WakeUpInv, FreshInv, MissesInv, [Next]_vars
    PROVE  MissesInv'
<1> USE PlacesApart DEF CallsInv
<1>1. SUFFICES ASSUME pc'[Main] \in AfterNotify,
                      NEW u \in Workers, NEW v \in Workers, SleptThrough(u)', SleptThrough(v)'
               PROVE  u = v
  BY DEF MissesInv, AfterNotify
<1>2. ASSUME pc[Main] \in AfterNotify, SleptThrough(u), SleptThrough(v) PROVE u = v
  BY <1>2 DEF MissesInv, AfterNotify
<1>3. CASE MainTakesStep
  <2>1. MainMove
    BY <1>3, MainMoves
  <2>2. MainNotifies \/ MainWaits
    BY <1>1, <2>1 DEF AfterNotify, MainMove, MainStarts, MainResets, MainSetsUp, MainPublishes,
                      MainFinishes, MainShutsDown
  <2>3. CASE MainNotifies
    <3>1. pc[u] \in {"fallAsleep", "load"} /\ pc[v] \in {"fallAsleep", "load"}
      BY <1>1, <2>3 DEF MainNotifies, SleptThrough, FallingAsleep
    <3> QED
      BY <3>1 DEF WakeUpInv
  <2>4. CASE MainWaits
    <3>2. \A w \in Workers : FindsNothingNew(w)' <=> FindsNothingNew(w)
      BY <1>3, <2>4, MainMoves, FindingStays DEF MainWaits, poolVars, locals
    <3>1. pc[Main] \in AfterNotify /\ SleptThrough(u) /\ SleptThrough(v)
      BY <1>1, <2>4, <3>2 DEF MainWaits, MainAlone, AfterNotify, SleptThrough, FallingAsleep, history
    <3> QED
      BY <1>2, <3>1
  <2> QED
    BY <2>2, <2>3, <2>4
<1>4. CASE UNCHANGED vars
  <2>1. \A w \in Workers : FindsNothingNew(w)' <=> FindsNothingNew(w)
    BY <1>4, FindingStays DEF vars, poolVars, locals
  <2> QED
    BY <1>1, <1>2, <1>4, <2>1 DEF vars, history, SleptThrough, FallingAsleep, AfterNotify
<1>5. ASSUME NEW w \in Workers, ThreadWorkStep(w) PROVE u = v
  <2>1. pc'[Main] = pc[Main] /\ served' = served /\ workerTask' = workerTask
    BY <1>5, ThreadWorkFrame, ThreadsAssumption DEF TypeInv, PlacesOK, history
  <2>2. workerTask \in Tasks
    BY <1>1, <2>1, OfferMeans DEF AfterNotify, Tasks
  <2>3. ASSUME NEW x \in Workers, SleptThrough(x)' PROVE SleptThrough(x)
    <3>1. CASE x # w
      BY <1>5, <2>1, <2>3, <3>1, SleepMoves DEF SleptThrough, FallingAsleep
    <3>2. CASE x = w /\ WaitCondition(w)
      <4>1. workerTask # IDLE
        BY <2>2 DEF Tasks, IndexTasks, LineSearchTask, IDLE
      <4>2. CASE pc[w] = "test"
        <5>1. pc'[w] = "load" /\ FindsNothingNew(w)'
          BY <1>5, <2>3, <3>2, <4>1, <4>2, WaitMoves DEF SleptThrough, FallingAsleep, TypeInv
        <5>2. NothingNew(w)
          BY <3>2, <4>2, <5>1, WaitOutcome
        <5> QED
          BY <2>1, <2>2, <2>3, <3>2, <5>2, NothingNewMeansServed DEF SleptThrough
      <4>3. CASE pc[w] = "load"
        <5>1. FindsNothingNew(w)
          BY <2>3, <3>2, <4>3, WaitMoves, WaitOutcome DEF SleptThrough, FallingAsleep, TypeInv
        <5> QED
          BY <2>1, <2>3, <3>2, <4>3, <5>1 DEF SleptThrough, FallingAsleep
      <4> QED
        BY <3>2, <4>2, <4>3, WaitMoves DEF TypeInv
    <3>3. CASE x = w /\ ~WaitCondition(w)
      BY <1>5, <2>1, <2>3, <3>3, SleepMoves DEF SleptThrough, FallingAsleep
    <3> QED
      BY <3>1, <3>2, <3>3
  <2> QED
    BY <1>1, <1>2, <2>1, <2>3
<1>6. ASSUME NEW w \in Workers, Dispatch(w) \/ InIndexTask(w) \/ InLineSearch(w) PROVE u = v
  <2>1. served \subseteq served' /\ pc[Main] \in AfterNotify
    BY <1>1, <1>6, WorkersLeaveScript DEF AfterNotify
  <2>2. \A x \in Workers : pc'[x] \in {"asleep", "fallAsleep", "load"} => pc'[x] = pc[x]
    <3>1. CASE Dispatch(w)
      <4>1. \E to \in {"take", "takeAlpha", "top", "exited"} : pc' = [pc EXCEPT ![w] = to]
        BY <3>1, DispatchOutcome, EntersIndexTaskSeen, EntersLineSearchSeen, EntersNothingSeen
      <4> QED
        BY <4>1 DEF TypeInv, PlacesOK
    <3>2. CASE InIndexTask(w) \/ InLineSearch(w)
      BY <3>2, ServesSeen DEF Serves, Idx!InLoop, LS!InSearch
    <3> QED
      BY <1>6, <3>1, <3>2
  <2>3. \A x \in Workers : FindsNothingNew(x)' <=> FindsNothingNew(x)
    BY <1>6, DispatchOutcome, ServesSeen, FindingStays DEF Serves, poolVars, locals
  <2> QED
    BY <1>1, <1>2, <2>1, <2>2, <2>3 DEF SleptThrough, FallingAsleep
<1> QED
  BY <1>3, <1>4, <1>5, <1>6, Moves

LEMMA SpanSeen == TypeInv => Idx!Span = IP!Span /\ IP!Span \in Nat
BY PartsAssumptions, IP!SpanType DEF TypeInv, Idx!Span, IP!Span, Idx!Minus, IP!Minus

\* What the invariants of the two parts say of this system's threads while a
\* call is served
LEMMA ServingSeen ==
    ASSUME CallsInv, Undisturbed, pc[Main] \in IndexServing
    PROVE  /\ IP!Inv /\ ~(overlap \/ stale) /\ indexPc[Main] \in IP!Serving
           /\ \A w \in Workers : pc[w] = "check" => item[w] < kTaken
           /\ \A w \in Workers : pc[w] \in Idx!InLoop <=> indexPc[w] \in IP!InLoop
           /\ \A w \in Workers : pc[w] \in IP!Holding <=> indexPc[w] \in IP!Holding
<1>1. IP!Inv /\ ~(overlap \/ stale) /\ indexPc[Main] \in IP!Serving
  BY DisturbedMeans, IndexPlacesAre
  DEF CallsInv, indexPc, IndexServing, IP!Serving
<1>2. \A w \in Workers : /\ pc[w] \in Idx!InLoop <=> indexPc[w] \in IP!InLoop
                         /\ pc[w] \in IP!Holding <=> indexPc[w] \in IP!Holding
  BY IndexPlacesAre DEF indexPc, Idx!InLoop, IP!InLoop, IP!Holding
<1>3. \A w \in Workers : indexPc[w] \in IP!Holding => item[w] < kTaken
  BY <1>1 DEF IP!Inv, IP!CallInv, IP!ServingInv
<1> QED
  BY <1>1, <1>2, <1>3 DEF IP!Holding

LEMMA SearchSeen ==
    ASSUME CallsInv, Undisturbed
    PROVE  /\ \A w \in Workers : pc[w] \in SP!Critical => resultMutex = w
           /\ \A w \in Workers : pc[w] = "keep" => ~alphaBestFound
           /\ pc[Main] \in SP!Resets => \A w \in Workers : pc[w] \notin LS!InSearch
           /\ pc[Main] = "publishSearch" =>
                 ~alphaBestFound /\ alphaExpBest = MaxIterations /\ alphaProcessed = {}
<1>1. SP!Inv /\ ~(overlap \/ stale)
  BY DisturbedMeans DEF CallsInv
<1>2. \A w \in Workers : pc[w] \in SP!Critical => searchPc[w] = pc[w]
  BY IndexPlacesAre DEF searchPc, SP!Critical
<1>3. \A w \in Workers : pc[w] \in LS!InSearch => searchPc[w] \in SP!InSearch
  BY IndexPlacesAre DEF searchPc, LS!InSearch, SP!InSearch
<1>4. pc[Main] \in SP!Resets => searchPc[Main] = pc[Main]
  BY IndexPlacesAre, PlacesApart DEF searchPc
<1>5. \A w \in Workers : pc[w] \in SP!Critical => resultMutex = w
  BY <1>1, <1>2 DEF SP!Inv, SP!SearchInv, SP!MutexInv
<1>6. \A w \in Workers : pc[w] = "keep" => ~alphaBestFound
  BY <1>1, <1>2 DEF SP!Inv, SP!SearchInv, SP!KeepInv, SP!Critical
<1>7. pc[Main] \in SP!Resets => \A w \in Workers : pc[w] \notin LS!InSearch
  BY <1>1, <1>3, <1>4 DEF SP!Inv, SP!SearchInv, SP!SetupInv
<1>8. pc[Main] = "publishSearch" =>
                 ~alphaBestFound /\ alphaExpBest = MaxIterations /\ alphaProcessed = {}
  BY <1>1, <1>4, PlacesApart DEF SP!Inv, SP!SearchInv, SP!FreshInv
<1> QED
  BY <1>5, <1>6, <1>7, <1>8

\* A step of the line search, as far as the counters and places are concerned
SearchCounts(w) ==
    /\ alphaTaken' >= alphaTaken /\ (alphaBestFound => alphaBestFound')
    /\ pc[w] \in LS!InSearch /\ pc'[w] \in LS!InSearch \cup {"returned"}
    /\ (pc'[w] = "returned" /\ ~alphaBestFound) =>
          pc[w] = "checkAlpha" /\ exponent[w] >= MaxIterations

LEMMA SearchCountsSeen ==
    ASSUME TypeInv, NEW w \in Workers, InLineSearch(w)
    PROVE  SearchCounts(w)
<1> USE DEF TypeInv, PlacesOK, InLineSearch, LS!Goto, LS!search, LS!InSearch, SearchCounts
<1>0. alphaTaken \in Nat /\ w # Main
  BY ThreadsAssumption DEF SP!TypeInv, SP!TypeOK
<1>1. CASE LS!Take(w) \/ LS!Evaluate(w) \/ LS!GiveUp(w)
  BY <1>0, <1>1 DEF LS!Take, LS!Evaluate, LS!GiveUp
<1>2. CASE LS!Check(w) \/ LS!Discard(w)
  BY <1>0, <1>2 DEF LS!Check, LS!Discard, LS!Leave
<1>3. CASE LS!Lock(w) \/ LS!Accept(w) \/ LS!Keep(w) \/ LS!Reject(w)
  BY <1>0, <1>3 DEF LS!Lock, LS!Accept, LS!Keep, LS!Reject
<1>4. CASE LS!Settle(w)
  BY <1>0, <1>4 DEF LS!Settle
<1>5. CASE LS!Announce(w)
  BY <1>0, <1>5 DEF LS!Announce
<1> QED
  BY <1>1, <1>2, <1>3, <1>4, <1>5

\* A worker in the loop over the offsets leaves it with an offset out of range.
LEMMA LeavesLoop ==
    ASSUME TypeInv, NEW w \in Workers, InIndexTask(w), pc[w] \in Idx!InLoop, pc'[w] \notin Idx!InLoop
    PROVE  pc[w] = "check" /\ item[w] > Idx!Span
<1> USE DEF TypeInv, PlacesOK, InIndexTask, Idx!Goto, Idx!InLoop
<1>1. CASE Idx!Take(w) \/ Idx!Check(w)
  BY <1>1 DEF Idx!Take, Idx!Check
<1>2. CASE Idx!Work(w) \/ Idx!Complete(w)
  BY <1>2 DEF Idx!Work, Idx!Complete
<1>3. CASE Idx!Exit(w)
  BY <1>3 DEF Idx!Exit
<1> QED
  BY <1>1, <1>2, <1>3

LEMMA LeftNext ==
    ASSUME CallsInv, LeftInv, TakenInv, [Next]_vars, Undisturbed'
    PROVE  LeftInv'
<1> USE PlacesApart DEF CallsInv
<1>0. Undisturbed /\ WayInv
  BY DisturbedStays
<1>1. /\ kTaken \in Nat /\ kTaken' \in Nat /\ alphaTaken \in Nat /\ alphaTaken' \in Nat
      /\ MaxIterations \in Nat /\ IP!Span \in Nat /\ item \in [Workers -> Nat]
      /\ exponent \in [Workers -> Nat]
  BY TypeNext, SizesAssumption, SpanSeen DEF TypeInv, IP!TypeInv, IP!TypeOK, SP!TypeInv, SP!TypeOK
<1> DEFINE NoOffset == kTaken > IP!Span
           NoStep   == alphaBestFound \/ alphaTaken >= MaxIterations
           Left(w)  == /\ (pc[Main] \in IndexServing /\ w \in served /\ pc[w] \notin Idx!InLoop) => NoOffset
                       /\ (pc[Main] \in SearchServing /\ w \in served /\ pc[w] \notin LS!InSearch) => NoStep
<1>2. ASSUME NEW w \in Workers, pc'[Main] \in IndexServing => pc[Main] \in IndexServing,
             pc'[Main] \in SearchServing => pc[Main] \in SearchServing,
             NoOffset => NoOffset', NoStep => NoStep', w \in served' => w \in served,
             pc'[w] \notin Idx!InLoop => pc[w] \notin Idx!InLoop,
             pc'[w] \notin LS!InSearch => pc[w] \notin LS!InSearch
      PROVE  Left(w)'
  BY <1>2 DEF LeftInv
<1>3. ASSUME NEW w \in Workers PROVE Left(w)'
  <2>1. CASE MainTakesStep
    <3>1. MainMove
      BY <2>1, MainMoves
    <3>2. CASE MainNotifies \/ MainWaits
      <4>1. UNCHANGED <<kTaken, KMax, KMin, alphaBestFound, alphaTaken, served>>
        BY <3>2 DEF MainNotifies, MainWaits, Shared, history
      <4>2. pc'[w] = pc[w] \/ (pc[w] = "asleep" /\ pc'[w] = "awake")
        BY <3>2 DEF MainNotifies, MainWaits, MainAlone
      <4>3. /\ pc'[Main] \in IndexServing => pc[Main] \in IndexServing
            /\ pc'[Main] \in SearchServing => pc[Main] \in SearchServing
        BY <3>2 DEF MainNotifies, MainWaits
      <4>4. IP!Span' = IP!Span
        BY <4>1 DEF IP!Span
      <4>5. /\ pc'[w] \notin Idx!InLoop => pc[w] \notin Idx!InLoop
            /\ pc'[w] \notin LS!InSearch => pc[w] \notin LS!InSearch
        BY <4>2 DEF Idx!InLoop, LS!InSearch
      <4>6. (NoOffset => NoOffset') /\ (NoStep => NoStep') /\ (w \in served' => w \in served)
        BY <4>1, <4>4
      <4> HIDE DEF NoOffset, NoStep, Left
      <4> QED
        BY <1>2, <4>3, <4>5, <4>6
    <3>3. CASE MainPublishes
      BY <3>3 DEF MainPublishes
    <3>4. CASE MainStarts \/ MainResets \/ MainSetsUp \/ MainFinishes \/ MainShutsDown
      BY <3>4 DEF MainStarts, MainResets, MainSetsUp, MainFinishes, MainShutsDown
    <3> QED
      BY <3>1, <3>2, <3>3, <3>4 DEF MainMove
  <2>2. CASE UNCHANGED vars
    BY <2>2 DEF vars, history, indexVars, searchVars, LeftInv, IP!Span
  <2>3. ASSUME NEW v \in Workers, ThreadWorkStep(v) PROVE Left(w)'
    <3>1. /\ pc'[Main] = pc[Main]
          /\ UNCHANGED <<kTaken, KMax, KMin, alphaBestFound, alphaTaken, served>>
      BY <2>3, ThreadWorkFrame, ThreadsAssumption
      DEF TypeInv, PlacesOK, history, indexVars, searchVars
    <3>2. pc'[w] = pc[w] \/ pc[w] \in BeforeServing \cup {"returned"}
      BY <2>3, ThreadWorkFrame DEF TypeInv, PlacesOK
    <3>3. /\ pc'[w] \notin Idx!InLoop => pc[w] \notin Idx!InLoop
          /\ pc'[w] \notin LS!InSearch => pc[w] \notin LS!InSearch
      BY <3>2 DEF BeforeServing, Idx!InLoop, LS!InSearch
    <3>4. IP!Span' = IP!Span
      BY <3>1 DEF IP!Span
    <3>5. (NoOffset => NoOffset') /\ (NoStep => NoStep') /\ (w \in served' => w \in served)
      BY <3>1, <3>4
    <3> HIDE DEF NoOffset, NoStep, Left
    <3> QED
      BY <1>2, <3>1, <3>3, <3>5
  <2>4. ASSUME NEW v \in Workers, Dispatch(v) PROVE Left(w)'
    <3>1. UNCHANGED <<kTaken, KMax, KMin, alphaBestFound, alphaTaken>> /\ pc[v] = "dispatch"
      BY <2>4, DispatchOutcome DEF searchVars, Dispatch
    <3>2. IP!Span' = IP!Span
      BY <3>1 DEF IP!Span
    <3>3. pc'[Main] = pc[Main]
      <4>1. \E to \in {"take", "takeAlpha", "top", "exited"} : pc' = [pc EXCEPT ![v] = to]
        BY <2>4, DispatchOutcome, EntersIndexTaskSeen, EntersLineSearchSeen, EntersNothingSeen
      <4> QED
        BY <4>1, ThreadsAssumption DEF TypeInv, PlacesOK
    <3>4. (NoOffset => NoOffset') /\ (NoStep => NoStep')
      BY <3>1, <3>2
    <3>5. CASE EntersNothing(v)
      <4>1. served' = served /\ \E to \in {"top", "exited"} : pc' = [pc EXCEPT ![v] = to]
        BY <3>5, EntersNothingSeen
      <4>2. /\ pc'[w] \notin Idx!InLoop => pc[w] \notin Idx!InLoop
            /\ pc'[w] \notin LS!InSearch => pc[w] \notin LS!InSearch
        BY <3>1, <4>1 DEF TypeInv, PlacesOK, Idx!InLoop, LS!InSearch
      <4>3. w \in served' => w \in served
        BY <4>1
      <4> HIDE DEF NoOffset, NoStep, Left
      <4> QED
        BY <1>2, <3>3, <3>4, <4>2, <4>3
    <3>6. CASE (EntersIndexTask(v) \/ EntersLineSearch(v)) /\ w # v
      <4>1. pc'[w] = pc[w]
        BY <3>6, EntersIndexTaskSeen, EntersLineSearchSeen DEF TypeInv, PlacesOK
      <4>2. w \in served' => w \in served
        BY <2>4, <3>6 DEF Dispatch
      <4> HIDE DEF NoOffset, NoStep, Left
      <4> QED
        BY <1>2, <3>3, <3>4, <4>1, <4>2
    <3>7. CASE (EntersIndexTask(v) \/ EntersLineSearch(v)) /\ w = v
      <4>1. OnItsWay(v)
        BY <3>1, <3>7 DEF OnItsWay, EntersIndexTask, EntersLineSearch, IndexTasks, LineSearchTask,
                          IDLE, SHUTDOWN
      <4>2. workerTask \in Tasks => taskLocal[v] = workerTask
        BY <1>0, <4>1 DEF WayInv
      <4>3. CASE EntersIndexTask(v)
        <5>1. pc'[v] = "take" /\ taskLocal[v] \in IndexTasks
          BY <4>3, EntersIndexTaskSeen DEF TypeInv, PlacesOK, EntersIndexTask
        <5>2. pc[Main] \notin SearchServing
          BY <4>2, <5>1, OfferMeans DEF Tasks, IndexTasks, LineSearchTask
        <5> QED
          BY <3>3, <3>7, <5>1, <5>2 DEF Idx!InLoop
      <4>4. CASE EntersLineSearch(v)
        <5>1. pc'[v] = "takeAlpha" /\ taskLocal[v] = LineSearchTask
          BY <4>4, EntersLineSearchSeen DEF TypeInv, PlacesOK, EntersLineSearch
        <5>2. pc[Main] \notin IndexServing
          BY <4>2, <5>1, OfferMeans DEF Tasks, IndexTasks, LineSearchTask
        <5> QED
          BY <3>3, <3>7, <5>1, <5>2 DEF LS!InSearch
      <4> QED
        BY <3>7, <4>3, <4>4
    <3> QED
      BY <2>4, <3>5, <3>6, <3>7, DispatchOutcome
  <2>5. ASSUME NEW v \in Workers, InIndexTask(v) \/ InLineSearch(v) PROVE Left(w)'
    <3>1. Serves(v) /\ kTaken' >= kTaken
      BY <2>5, ServesSeen
    <3>2. UNCHANGED <<KMax, KMin, served>> /\ IP!Span' = IP!Span
      BY <3>1 DEF Serves, IP!Span
    <3>3. /\ pc'[Main] \in IndexServing => pc[Main] \in IndexServing
          /\ pc'[Main] \in SearchServing => pc[Main] \in SearchServing
      BY <3>1 DEF Serves
    <3>4. NoOffset => NoOffset'
      BY <1>1, <3>1, <3>2
    <3>5. NoStep => NoStep'
      <4>1. CASE InIndexTask(v)
        BY <4>1 DEF InIndexTask, searchVars
      <4>2. CASE InLineSearch(v)
        BY <1>1, <4>2, SearchCountsSeen DEF SearchCounts
      <4> QED
        BY <2>5, <4>1, <4>2
    <3>6. CASE w # v
      <4>1. pc'[w] = pc[w]
        BY <3>1, <3>6 DEF Serves
      <4> HIDE DEF NoOffset, NoStep, Left
      <4> QED
        BY <1>2, <3>2, <3>3, <3>4, <3>5, <4>1
    <3>7. CASE w = v /\ InIndexTask(v)
      <4>1. pc[v] \in Idx!InLoop \cup {"exit"} /\ pc[v] \notin LS!InSearch
        <5>1. pc[v] \in Idx!InLoop \cup {"exit"}
          BY <3>7 DEF InIndexTask, Idx!Take, Idx!Check, Idx!Work, Idx!Complete, Idx!Exit, Idx!Goto,
                      Idx!InLoop
        <5> QED
          BY <5>1 DEF Idx!InLoop, LS!InSearch
      <4>2. (pc[Main] \in IndexServing /\ pc[v] \in Idx!InLoop /\ pc'[v] \notin Idx!InLoop) => NoOffset'
        <5>1. SUFFICES ASSUME pc[Main] \in IndexServing, pc[v] \in Idx!InLoop, pc'[v] \notin Idx!InLoop
                       PROVE  NoOffset'
          OBVIOUS
        <5>2. pc[v] = "check" /\ item[v] > IP!Span
          BY <3>7, <5>1, LeavesLoop, SpanSeen
        <5>3. item[v] < kTaken
          BY <1>0, <5>1, <5>2, ServingSeen
        <5> QED
          BY <1>1, <3>1, <3>2, <5>2, <5>3
      <4>3. /\ (pc[Main] \in IndexServing /\ v \in served /\ pc[v] \notin Idx!InLoop) => NoOffset
            /\ (pc[Main] \in SearchServing /\ v \in served /\ pc[v] \notin LS!InSearch) => NoStep
        BY DEF LeftInv
      <4> HIDE DEF NoOffset, NoStep
      <4> QED
        BY <3>2, <3>3, <3>4, <3>5, <3>7, <4>1, <4>2, <4>3
    <3>8. CASE w = v /\ InLineSearch(v)
      <4>1. SearchCounts(v)
        BY <3>8, SearchCountsSeen
      <4>2. pc[v] \notin Idx!InLoop
        BY <4>1 DEF SearchCounts, Idx!InLoop, LS!InSearch
      <4>3. (pc[Main] \in SearchServing /\ pc'[v] \notin LS!InSearch) => NoStep'
        <5>1. SUFFICES ASSUME pc[Main] \in SearchServing, pc'[v] \notin LS!InSearch PROVE NoStep'
          OBVIOUS
        <5>2. CASE alphaBestFound
          BY <4>1, <5>2 DEF SearchCounts
        <5>3. CASE ~alphaBestFound
          <6>1. pc[v] = "checkAlpha" /\ exponent[v] >= MaxIterations
            BY <4>1, <5>1, <5>3 DEF SearchCounts
          <6>2. exponent[v] < alphaTaken /\ alphaTaken' >= alphaTaken
            BY <4>1, <5>1, <6>1 DEF TakenInv, Bounded, SearchCounts
          <6> QED
            BY <1>1, <6>1, <6>2
        <5> QED
          BY <5>2, <5>3
      <4>4. (pc[Main] \in IndexServing /\ v \in served /\ pc[v] \notin Idx!InLoop) => NoOffset
        BY DEF LeftInv
      <4> HIDE DEF NoOffset, NoStep
      <4> QED
        BY <3>2, <3>3, <3>4, <3>8, <4>2, <4>3, <4>4
    <3> QED
      BY <2>5, <3>6, <3>7, <3>8
  <2> QED
    BY <2>1, <2>2, <2>3, <2>4, <2>5, Moves
<1> QED
  BY <1>3 DEF LeftInv


\* No step is taken before the search is published.
LEMMA NoneTakenNext ==
    ASSUME CallsInv, NoneTakenInv, [Next]_vars, Undisturbed'
    PROVE  NoneTakenInv'
<1> USE PlacesApart DEF CallsInv
<1>0. Undisturbed
  BY DisturbedStays
<1>1. CASE MainTakesStep
  <2>1. MainMove
    BY <1>1, MainMoves
  <2>2. CASE MainResets
    BY <2>2 DEF MainResets, NoneTakenInv
  <2>3. CASE MainSetsUp
    BY <2>3 DEF MainSetsUp, NoneTakenInv
  <2>4. CASE MainStarts \/ MainPublishes \/ MainNotifies \/ MainWaits \/ MainFinishes \/ MainShutsDown
    BY <2>4
    DEF MainStarts, MainPublishes, MainNotifies, MainWaits, MainFinishes, MainShutsDown, NoneTakenInv
  <2> QED
    BY <2>1, <2>2, <2>3, <2>4 DEF MainMove
<1>2. CASE UNCHANGED vars
  BY <1>2 DEF vars, searchVars, NoneTakenInv
<1>3. ASSUME NEW w \in Workers, ThreadWorkStep(w) \/ Dispatch(w) \/ InIndexTask(w) \/ InLineSearch(w)
      PROVE  NoneTakenInv'
  <2>1. pc'[Main] \in SP!Resets => pc[Main] \in SP!Resets
    BY <1>3, WorkersLeaveScript
  <2>2. CASE ThreadWorkStep(w)
    BY <2>1, <2>2, ThreadWorkFrame DEF TypeInv, searchVars, NoneTakenInv
  <2>3. CASE Dispatch(w)
    BY <2>1, <2>3, DispatchOutcome DEF searchVars, NoneTakenInv
  <2>4. CASE InIndexTask(w)
    BY <2>1, <2>4 DEF InIndexTask, searchVars, NoneTakenInv
  <2>5. CASE InLineSearch(w)
    BY <1>0, <2>1, <2>5, SearchSeen, SearchCountsSeen DEF SearchCounts, NoneTakenInv
  <2> QED
    BY <1>3, <2>2, <2>3, <2>4, <2>5
<1> QED
  BY <1>1, <1>2, <1>3, Moves

\* A step of a worker inside the search
LEMMA TakenSearch ==
    ASSUME TypeInv, Bounded, ~alphaBestFound => AllHeld /\ Settling, NEW w \in Workers, InLineSearch(w)
    PROVE  Bounded' /\ (~alphaBestFound' => AllHeld' /\ Settling')
<1> USE DEF TypeInv, PlacesOK, LS!Goto, LS!search, LS!local, InHands, LS!InSearch
<1>0. /\ alphaTaken \in Nat /\ w # Main /\ Main \notin Workers /\ exponent \in [Workers -> Nat]
      /\ MaxIterations \in Nat
  BY ThreadsAssumption, SizesAssumption DEF SP!TypeInv, SP!TypeOK
<1>1. CASE LS!Take(w)
  <2>1. /\ pc[w] = "takeAlpha" /\ pc' = [pc EXCEPT ![w] = "checkAlpha"]
        /\ exponent' = [exponent EXCEPT ![w] = alphaTaken] /\ alphaTaken' = alphaTaken + 1
        /\ UNCHANGED <<alphaBestFound, alphaExpBest, alphaProcessed>>
    BY <1>1 DEF LS!Take
  <2>2. Bounded'
    BY <1>0, <2>1 DEF Bounded
  <2>3. ASSUME ~alphaBestFound PROVE AllHeld'
    <3>1. SUFFICES ASSUME NEW a \in 0 .. MaxIterations - 1, a < alphaTaken + 1, a \notin alphaProcessed
                   PROVE  \E v \in Workers : pc'[v] \in InHands /\ exponent'[v] = a
      BY <2>1 DEF AllHeld
    <3>2. CASE a = alphaTaken
      BY <1>0, <2>1, <3>2
    <3>3. CASE a # alphaTaken
      <4>1. PICK v \in Workers : pc[v] \in InHands /\ exponent[v] = a
        BY <1>0, <2>3, <3>1, <3>3 DEF AllHeld
      <4>2. v # w
        BY <2>1, <4>1
      <4> QED
        BY <1>0, <2>1, <4>1, <4>2
    <3> QED
      BY <3>2, <3>3
  <2>4. ASSUME ~alphaBestFound PROVE Settling'
    <3>1. SUFFICES ASSUME LS!AllPreviousProcessed(alphaProcessed)
                   PROVE  \E v \in Workers : pc'[v] = "settle"
      BY <2>1 DEF Settling, LS!AllPreviousProcessed
    <3>2. PICK v \in Workers : pc[v] = "settle"
      BY <2>4, <3>1 DEF Settling
    <3> QED
      BY <2>1, <3>2
  <2> QED
    BY <2>1, <2>2, <2>3, <2>4
<1>2. CASE LS!Check(w)
  <2>1. CASE exponent[w] >= MaxIterations \/ alphaBestFound
    <3>1. /\ pc[w] = "checkAlpha" /\ pc' = [pc EXCEPT ![w] = "returned"]
          /\ exponent' = [exponent EXCEPT ![w] = 0]
          /\ UNCHANGED <<alphaTaken, alphaBestFound, alphaExpBest, alphaProcessed>>
      BY <1>2, <2>1 DEF LS!Check, LS!Leave
    <3>2. Bounded'
      BY <1>0, <3>1 DEF Bounded
    <3>3. ASSUME ~alphaBestFound PROVE AllHeld'
      <4>1. SUFFICES ASSUME NEW a \in 0 .. MaxIterations - 1, a < alphaTaken, a \notin alphaProcessed
                     PROVE  \E v \in Workers : pc'[v] \in InHands /\ exponent'[v] = a
        BY <3>1 DEF AllHeld
      <4>2. PICK v \in Workers : pc[v] \in InHands /\ exponent[v] = a
        BY <3>3, <4>1 DEF AllHeld
      <4>3. v # w
        BY <1>0, <2>1, <3>3, <4>2
      <4> QED
        BY <1>0, <3>1, <4>2, <4>3
    <3>4. ASSUME ~alphaBestFound PROVE Settling'
      <4>1. SUFFICES ASSUME LS!AllPreviousProcessed(alphaProcessed)
                     PROVE  \E v \in Workers : pc'[v] = "settle"
        BY <3>1 DEF Settling, LS!AllPreviousProcessed
      <4>2. PICK v \in Workers : pc[v] = "settle"
        BY <3>4, <4>1 DEF Settling
      <4> QED
        BY <3>1, <4>2
    <3> QED
      BY <3>1, <3>2, <3>3, <3>4
  <2>2. CASE ~(exponent[w] >= MaxIterations \/ alphaBestFound)
    <3>1. /\ pc[w] = "checkAlpha" /\ pc' = [pc EXCEPT ![w] = "evaluate"]
          /\ UNCHANGED <<exponent, alphaTaken, alphaBestFound, alphaExpBest, alphaProcessed>>
      BY <1>2, <2>2 DEF LS!Check
    <3>2. \A v \in Workers : pc[v] \in InHands => pc'[v] \in InHands
      BY <3>1
    <3>3. \A v \in Workers : pc[v] = "settle" => pc'[v] = "settle"
      BY <3>1
    <3> QED
      BY <3>1, <3>2, <3>3 DEF Bounded, AllHeld, Settling, LS!AllPreviousProcessed
  <2> QED
    BY <2>1, <2>2
<1>3. CASE LS!Evaluate(w) \/ LS!GiveUp(w) \/ LS!Lock(w) \/ LS!Accept(w) \/ LS!Reject(w)
  <2>1. /\ UNCHANGED <<exponent, alphaTaken, alphaBestFound, alphaExpBest, alphaProcessed>>
        /\ pc[w] \in {"evaluate", "lock", "judge"}
        /\ \E to \in {"lock", "judge", "keep", "settle"} : pc' = [pc EXCEPT ![w] = to]
    BY <1>3 DEF LS!Evaluate, LS!GiveUp, LS!Lock, LS!Accept, LS!Reject
  <2>2. /\ \A v \in Workers : pc[v] \in InHands => pc'[v] \in InHands
        /\ \A v \in Workers : pc[v] = "settle" => pc'[v] = "settle"
        /\ \A v \in Workers : pc'[v] = "checkAlpha" => pc[v] = "checkAlpha"
    BY <2>1
  <2> QED
    BY <2>1, <2>2 DEF Bounded, AllHeld, Settling, LS!AllPreviousProcessed
<1>4. CASE LS!Discard(w)
  <2>1. /\ alphaBestFound /\ alphaBestFound' = alphaBestFound /\ alphaTaken' = alphaTaken
        /\ pc' = [pc EXCEPT ![w] = "returned"] /\ exponent' = [exponent EXCEPT ![w] = 0]
    BY <1>4 DEF LS!Discard, LS!Leave
  <2> QED
    BY <1>0, <2>1 DEF Bounded
<1>5. CASE LS!Keep(w)
  <2>1. /\ pc[w] = "keep" /\ pc' = [pc EXCEPT ![w] = "settle"]
        /\ UNCHANGED <<exponent, alphaTaken, alphaBestFound, alphaProcessed>>
    BY <1>5 DEF LS!Keep
  <2>2. \A v \in Workers : pc[v] \in InHands => pc'[v] \in InHands
    BY <2>1
  <2>3. pc'[w] = "settle"
    BY <2>1
  <2>4. Bounded'
    BY <2>1 DEF Bounded
  <2>5. ~alphaBestFound => AllHeld'
    BY <2>1, <2>2 DEF AllHeld
  <2> QED
    BY <2>1, <2>3, <2>4, <2>5 DEF Settling
<1>6. CASE LS!Settle(w)
  <2>1. /\ pc[w] = "settle" /\ alphaProcessed' = alphaProcessed \cup {exponent[w]}
        /\ UNCHANGED <<exponent, alphaTaken, alphaExpBest>>
        /\ \E to \in {"announce", "takeAlpha"} : pc' = [pc EXCEPT ![w] = to]
        /\ ~alphaBestFound' => ~alphaBestFound /\ ~LS!AllPreviousProcessed(alphaProcessed')
    BY <1>6 DEF LS!Settle
  <2>2. Bounded'
    BY <2>1 DEF Bounded
  <2>3. ASSUME ~alphaBestFound' PROVE AllHeld'
    <3>1. SUFFICES ASSUME NEW a \in 0 .. MaxIterations - 1, a < alphaTaken, a \notin alphaProcessed'
                   PROVE  \E v \in Workers : pc'[v] \in InHands /\ exponent'[v] = a
      BY <2>1 DEF AllHeld
    <3>2. PICK v \in Workers : pc[v] \in InHands /\ exponent[v] = a
      BY <2>1, <2>3, <3>1 DEF AllHeld
    <3>3. v # w
      BY <2>1, <3>1, <3>2
    <3> QED
      BY <2>1, <3>2, <3>3
  <2>4. ~alphaBestFound' => Settling'
    BY <2>1 DEF Settling, LS!AllPreviousProcessed
  <2> QED
    BY <2>2, <2>3, <2>4
<1>7. CASE LS!Announce(w)
  <2>1. /\ UNCHANGED <<exponent, alphaTaken, alphaBestFound, alphaExpBest, alphaProcessed>>
        /\ pc[w] = "announce" /\ pc'[w] = "takeAlpha" /\ \A v \in Workers \ {w} : pc'[v] = pc[v]
    BY <1>0, <1>7 DEF LS!Announce
  <2>2. /\ \A v \in Workers : pc[v] \in InHands => pc'[v] \in InHands
        /\ \A v \in Workers : pc[v] = "settle" => pc'[v] = "settle"
        /\ \A v \in Workers : pc'[v] = "checkAlpha" => pc[v] = "checkAlpha"
    BY <2>1
  <2> QED
    BY <2>1, <2>2 DEF Bounded, AllHeld, Settling, LS!AllPreviousProcessed
<1> QED
  BY <1>1, <1>2, <1>3, <1>4, <1>5, <1>6, <1>7 DEF InLineSearch

\* Any other step, as far as the search is concerned
LEMMA TakenKept ==
    ASSUME TakenInv, UNCHANGED <<alphaTaken, alphaBestFound, alphaExpBest, alphaProcessed, exponent>>,
           pc'[Main] \in SearchServing => pc[Main] \in SearchServing,
           \A w \in Workers : /\ pc[w] \in LS!InSearch => pc'[w] = pc[w]
                              /\ pc'[w] \in LS!InSearch => pc'[w] \in {pc[w], "takeAlpha"}
    PROVE  TakenInv'
<1>1. /\ \A w \in Workers : pc[w] \in InHands => pc'[w] \in InHands
      /\ \A w \in Workers : pc[w] = "settle" => pc'[w] = "settle"
      /\ \A w \in Workers : pc'[w] = "checkAlpha" => pc[w] = "checkAlpha"
  BY DEF InHands, LS!InSearch
<1>2. Bounded => Bounded'
  BY <1>1 DEF Bounded
<1>3. AllHeld => AllHeld'
  BY <1>1 DEF AllHeld
<1>4. Settling => Settling'
  BY <1>1 DEF Settling, LS!AllPreviousProcessed
<1> QED
  BY <1>2, <1>3, <1>4 DEF TakenInv

LEMMA TakenNext ==
    ASSUME CallsInv, NoneTakenInv, TakenInv, MaxIterations # 0, [Next]_vars, Undisturbed'
    PROVE  TakenInv'
<1> USE PlacesApart DEF CallsInv
<1>0. Undisturbed
  BY DisturbedStays
<1>1. CASE MainTakesStep
  <2>1. MainMove
    BY <1>1, MainMoves
  <2>2. CASE MainNotifies \/ MainWaits
    <3>1. UNCHANGED <<alphaTaken, alphaBestFound, alphaExpBest, alphaProcessed, exponent>>
      BY <2>2 DEF MainNotifies, MainWaits, Shared
    <3>2. pc'[Main] \in SearchServing => pc[Main] \in SearchServing
      BY <2>2 DEF MainNotifies, MainWaits
    <3>3. \A w \in Workers : pc'[w] = pc[w] \/ (pc[w] = "asleep" /\ pc'[w] = "awake")
      BY <2>2 DEF MainNotifies, MainWaits, MainAlone
    <3> QED
      BY <3>1, <3>2, <3>3, TakenKept DEF LS!InSearch
  <2>3. CASE MainPublishes
    <3>1. SUFFICES ASSUME pc'[Main] \in SearchServing PROVE TakenInv'
      BY DEF TakenInv
    <3>2. /\ pc[Main] = "publishSearch" /\ MainAlone
          /\ UNCHANGED <<alphaTaken, alphaBestFound, alphaExpBest, alphaProcessed>>
      BY <2>3, <3>1 DEF MainPublishes, Shared
    <3>3. /\ alphaTaken = 0 /\ alphaExpBest = MaxIterations /\ alphaProcessed = {}
          /\ \A w \in Workers : pc[w] \notin LS!InSearch
      BY <1>0, <3>2, SearchSeen DEF NoneTakenInv
    <3>4. Bounded'
      BY <3>2, <3>3 DEF Bounded, MainAlone, LS!InSearch
    <3>5. AllHeld'
      BY <3>2, <3>3, SizesAssumption DEF AllHeld
    <3>6. Settling'
      <4>1. 0 \in 0 .. alphaExpBest' - 1
        BY <3>2, <3>3, SizesAssumption
      <4> QED
        BY <3>2, <3>3, <4>1 DEF Settling, LS!AllPreviousProcessed
    <3> QED
      BY <3>4, <3>5, <3>6 DEF TakenInv
  <2>4. CASE MainStarts \/ MainResets \/ MainSetsUp \/ MainFinishes \/ MainShutsDown
    BY <2>4 DEF MainStarts, MainResets, MainSetsUp, MainFinishes, MainShutsDown, TakenInv
  <2> QED
    BY <2>1, <2>2, <2>3, <2>4 DEF MainMove
<1>2. CASE UNCHANGED vars
  BY <1>2, TakenKept DEF vars, searchVars
<1>3. ASSUME NEW w \in Workers, ThreadWorkStep(w) PROVE TakenInv'
  <2>1. /\ pc' = [pc EXCEPT ![w] = pc'[w]] /\ UNCHANGED searchVars
        /\ pc[w] \in BeforeServing \cup {"returned"} /\ pc'[w] \in BeforeServing
    BY <1>3, ThreadWorkFrame DEF TypeInv
  <2>2. pc'[Main] = pc[Main] /\ \A v \in Workers : v # w => pc'[v] = pc[v]
    BY <2>1, ThreadsAssumption DEF TypeInv, PlacesOK
  <2>3. pc[w] \notin LS!InSearch /\ pc'[w] \notin LS!InSearch
    BY <2>1 DEF BeforeServing, LS!InSearch
  <2> QED
    BY <2>1, <2>2, <2>3, TakenKept DEF searchVars
<1>4. ASSUME NEW w \in Workers, Dispatch(w) PROVE TakenInv'
  <2>1. pc[w] = "dispatch" /\ UNCHANGED searchVars
    BY <1>4, DispatchOutcome DEF Dispatch
  <2>2. \E to \in {"take", "takeAlpha", "top", "exited"} : pc' = [pc EXCEPT ![w] = to]
    BY <1>4, DispatchOutcome, EntersIndexTaskSeen, EntersLineSearchSeen, EntersNothingSeen
  <2>3. /\ pc'[Main] = pc[Main] /\ \A v \in Workers : v # w => pc'[v] = pc[v]
        /\ pc'[w] \in {"take", "takeAlpha", "top", "exited"}
    BY <2>2, ThreadsAssumption DEF TypeInv, PlacesOK
  <2>4. pc[w] \notin LS!InSearch /\ (pc'[w] \in LS!InSearch => pc'[w] = "takeAlpha")
    BY <2>1, <2>3 DEF LS!InSearch
  <2> QED
    BY <2>1, <2>3, <2>4, TakenKept DEF searchVars
<1>5. ASSUME NEW w \in Workers, InIndexTask(w) PROVE TakenInv'
  <2>1. Serves(w) /\ UNCHANGED searchVars
    BY <1>5, ServesSeen DEF InIndexTask
  <2>2. pc[w] \notin LS!InSearch /\ pc'[w] \notin LS!InSearch
    <3>1. pc[w] \in Idx!InLoop \cup {"exit"}
      BY <1>5 DEF InIndexTask, Idx!Take, Idx!Check, Idx!Work, Idx!Complete, Idx!Exit, Idx!Goto,
                  Idx!InLoop
    <3> QED
      BY <2>1, <3>1 DEF Serves, Idx!InLoop, LS!InSearch
  <2>3. pc'[Main] \in SearchServing => pc[Main] \in SearchServing
    BY <2>1 DEF Serves
  <2>4. \A v \in Workers : v # w => pc'[v] = pc[v]
    BY <2>1 DEF Serves
  <2> QED
    BY <2>1, <2>2, <2>3, <2>4, TakenKept DEF searchVars
<1>6. ASSUME NEW w \in Workers, InLineSearch(w) PROVE TakenInv'
  <2>1. pc'[Main] \in SearchServing => pc[Main] \in SearchServing
    BY <1>6, ServesSeen DEF Serves
  <2> QED
    BY <1>6, <2>1, TakenSearch DEF TakenInv
<1> QED
  BY <1>1, <1>2, <1>3, <1>4, <1>5, <1>6, Moves

\* A notification that was lost stays lost.
LEMMA LostStays == ASSUME TypeInv, [Next]_vars PROVE lost => lost'
<1>1. CASE MainTakesStep
  <2>1. MainMove
    BY <1>1, MainMoves
  <2> QED
    BY <2>1
    DEF MainMove, MainStarts, MainResets, MainSetsUp, MainPublishes, MainNotifies, MainWaits,
        MainFinishes, MainShutsDown, history
<1>2. CASE UNCHANGED vars
  BY <1>2 DEF vars, history
<1>3. ASSUME NEW w \in Workers, ThreadWorkStep(w) PROVE lost => lost'
  BY <1>3, ThreadWorkFrame DEF TypeInv, history
<1>4. ASSUME NEW w \in Workers, Dispatch(w) PROVE lost => lost'
  BY <1>4, DispatchOutcome
<1>5. ASSUME NEW w \in Workers, InIndexTask(w) PROVE lost => lost'
  BY <1>5 DEF InIndexTask, Idx!Take, Idx!Check, Idx!Work, Idx!Complete, Idx!Exit, Idx!NotifyMain,
              Idx!history
<1>6. ASSUME NEW w \in Workers, InLineSearch(w) PROVE lost => lost'
  BY <1>6
  DEF InLineSearch, LS!Take, LS!Check, LS!Evaluate, LS!GiveUp, LS!Lock, LS!Discard, LS!Accept,
      LS!Keep, LS!Reject, LS!Settle, LS!Announce, LS!history
<1> QED
  BY <1>1, <1>2, <1>3, <1>4, <1>5, <1>6, Moves

\* A worker in a call of computeLQApproximation or rolloutShots
LEMMA TellIndex ==
    ASSUME CallsInv, Undisturbed, IndexTold, ~lost', NEW w \in Workers, InIndexTask(w)
    PROVE  IndexTold'
<1> USE PlacesApart DEF CallsInv, IndexTold
<1>1. SUFFICES ASSUME pc'[Main] \in {"gap", "blocked"}, kCompleted' > IP!Span'
               PROVE  \E v \in Workers : pc'[v] \in {"take", "check", "exit"}
  OBVIOUS
<1>2. Serves(w)
  BY ServesSeen
<1>3. /\ pc[Main] \in {"gap", "blocked"} /\ pc'[Main] = pc[Main] /\ IP!Span' = IP!Span
      /\ \A v \in Workers : v # w => pc'[v] = pc[v]
  BY <1>1, <1>2 DEF Serves, IP!Span
<1>4. ASSUME kCompleted' = kCompleted, pc[w] \notin {"take", "check", "exit"}
      PROVE  \E v \in Workers : pc'[v] \in {"take", "check", "exit"}
  <2>1. PICK v \in Workers : pc[v] \in {"take", "check", "exit"}
    BY <1>1, <1>3, <1>4
  <2> QED
    BY <1>3, <1>4, <2>1
<1> USE DEF TypeInv, PlacesOK, Idx!Goto, Idx!counters
<1>5. CASE Idx!Take(w)
  BY <1>5 DEF Idx!Take
<1>6. CASE Idx!Check(w)
  <2>1. pc[w] = "check" /\ kCompleted' = kCompleted
    BY <1>6 DEF Idx!Check
  <2>2. item[w] > IP!Span
    <3>1. /\ IP!Inv /\ ~(overlap \/ stale) /\ indexPc[Main] \in IP!Serving
          /\ indexPc[w] \in IP!Holding
      BY <1>3, <2>1, ServingSeen DEF IP!Holding
    <3>2. kCompleted > IP!Span
      BY <1>1, <1>3, <2>1
    <3> QED
      BY <3>1, <3>2, PartsAssumptions, IP!AllCounted
  <2>3. pc'[w] = "exit"
    BY <1>6, <2>2, SpanSeen DEF Idx!Check
  <2> QED
    BY <2>3
<1>7. CASE Idx!Work(w)
  <2>1. pc[w] = "work" /\ kCompleted' = kCompleted
    BY <1>7 DEF Idx!Work
  <2> QED
    BY <1>4, <2>1
<1>8. CASE Idx!Complete(w)
  BY <1>8 DEF Idx!Complete
<1>9. CASE Idx!Exit(w)
  <2>1. kCompleted' = kCompleted
    BY <1>9 DEF Idx!Exit
  <2>2. kCompleted > Idx!Span
    BY <1>1, <1>3, <2>1, SpanSeen
  <2>3. Idx!NotifyMain(w, "returned")
    BY <1>9, <2>2 DEF Idx!Exit
  <2>4. pc[Main] # "gap"
    BY <2>3 DEF Idx!NotifyMain
  <2>5. pc[Main] = "blocked" => pc'[Main] = "await"
    BY <2>3, ThreadsAssumption DEF Idx!NotifyMain
  <2> QED
    BY <1>3, <2>4, <2>5
<1> QED
  BY <1>5, <1>6, <1>7, <1>8, <1>9 DEF InIndexTask

\* A worker in a line search
LEMMA TellSearch ==
    ASSUME CallsInv, SearchTold, ~lost', NEW w \in Workers, InLineSearch(w)
    PROVE  SearchTold'
<1> USE PlacesApart DEF CallsInv, SearchTold
<1>1. SUFFICES ASSUME pc'[Main] \in {"gapBest", "blockedBest"}, alphaBestFound'
               PROVE  \E v \in Workers : pc'[v] = "announce"
  OBVIOUS
<1>2. /\ pc[Main] \in {"gapBest", "blockedBest"} /\ pc'[Main] = pc[Main]
      /\ \A v \in Workers : v # w => pc'[v] = pc[v]
  BY <1>1, ServesSeen DEF Serves
<1> USE DEF TypeInv, PlacesOK, LS!Goto, LS!search
<1>3. CASE LS!Announce(w)
  <2>1. pc[Main] # "gapBest"
    BY <1>3 DEF LS!Announce
  <2>2. pc[Main] = "blockedBest" => pc'[Main] = "awaitBest"
    BY <1>3, ThreadsAssumption DEF LS!Announce
  <2> QED
    BY <1>2, <2>1, <2>2
<1>4. CASE LS!Settle(w) /\ ~alphaBestFound
  BY <1>1, <1>4 DEF LS!Settle
<1>5. CASE ~LS!Announce(w) /\ ~(LS!Settle(w) /\ ~alphaBestFound)
  <2>1. pc[w] # "announce" /\ alphaBestFound
    BY <1>1, <1>5
    DEF InLineSearch, LS!Take, LS!Check, LS!Evaluate, LS!GiveUp, LS!Lock, LS!Discard, LS!Accept,
        LS!Keep, LS!Reject, LS!Settle
  <2>2. PICK v \in Workers : pc[v] = "announce"
    BY <1>2, <2>1
  <2> QED
    BY <1>2, <2>1, <2>2
<1> QED
  BY <1>3, <1>4, <1>5

\* Any other step, as far as the main thread's wait is concerned
LEMMA TellKept ==
    ASSUME TellInv, UNCHANGED <<kCompleted, KMax, KMin, alphaBestFound>>,
           pc'[Main] \in {"gap", "blocked"} /\ kCompleted > IP!Span => pc[Main] \in {"gap", "blocked"},
           pc'[Main] \in {"gapBest", "blockedBest"} /\ alphaBestFound
              => pc[Main] \in {"gapBest", "blockedBest"},
           \A w \in Workers : pc[w] \in {"take", "check", "exit", "announce"} => pc'[w] = pc[w]
    PROVE  TellInv'
<1>1. IP!Span' = IP!Span
  BY DEF IP!Span
<1>2. (\E w \in Workers : pc[w] \in {"take", "check", "exit"})
         => \E w \in Workers : pc'[w] \in {"take", "check", "exit"}
  OBVIOUS
<1>3. (\E w \in Workers : pc[w] = "announce") => \E w \in Workers : pc'[w] = "announce"
  OBVIOUS
<1>4. IndexTold'
  BY <1>1, <1>2 DEF TellInv, IndexTold
<1>5. SearchTold'
  BY <1>3 DEF TellInv, SearchTold
<1> QED
  BY <1>4, <1>5 DEF TellInv

LEMMA TellNext ==
    ASSUME CallsInv, TellInv, [Next]_vars, Undisturbed', ~lost'
    PROVE  TellInv'
<1> USE PlacesApart DEF CallsInv
<1>0. Undisturbed
  BY DisturbedStays
<1>1. CASE MainTakesStep
  <2>1. MainMove
    BY <1>1, MainMoves
  <2>2. CASE MainNotifies \/ MainWaits
    <3>1. UNCHANGED <<kCompleted, KMax, KMin, alphaBestFound>>
      BY <2>2 DEF MainNotifies, MainWaits, Shared
    <3>2. pc'[Main] \in {"gap", "blocked"} /\ kCompleted > IP!Span => pc[Main] \in {"gap", "blocked"}
      BY <2>2, SpanSeen DEF MainNotifies, MainWaits
    <3>3. pc'[Main] \in {"gapBest", "blockedBest"} /\ alphaBestFound
             => pc[Main] \in {"gapBest", "blockedBest"}
      BY <2>2 DEF MainNotifies, MainWaits
    <3>4. \A w \in Workers : pc'[w] = pc[w] \/ pc[w] = "asleep"
      BY <2>2 DEF MainNotifies, MainWaits, MainAlone
    <3> QED
      BY <3>1, <3>2, <3>3, <3>4, TellKept
  <2>3. CASE MainStarts \/ MainResets \/ MainSetsUp \/ MainPublishes \/ MainFinishes \/ MainShutsDown
    BY <2>3
    DEF MainStarts, MainResets, MainSetsUp, MainPublishes, MainFinishes, MainShutsDown, TellInv,
        IndexTold, SearchTold
  <2> QED
    BY <2>1, <2>2, <2>3 DEF MainMove
<1>2. CASE UNCHANGED vars
  BY <1>2, TellKept DEF vars, indexVars, searchVars
<1>3. ASSUME NEW w \in Workers, ThreadWorkStep(w) \/ Dispatch(w) PROVE TellInv'
  <2>1. UNCHANGED <<kCompleted, KMax, KMin, alphaBestFound>>
    BY <1>3, ThreadWorkFrame, DispatchOutcome DEF TypeInv, indexVars, searchVars
  <2>2. /\ pc[w] \in BeforeServing \cup {"returned"}
        /\ pc'[Main] = pc[Main] /\ \A v \in Workers : v # w => pc'[v] = pc[v]
    <3>1. CASE ThreadWorkStep(w)
      BY <3>1, ThreadWorkFrame, ThreadsAssumption DEF TypeInv, PlacesOK
    <3>2. CASE Dispatch(w)
      <4>1. \E to \in {"take", "takeAlpha", "top", "exited"} : pc' = [pc EXCEPT ![w] = to]
        BY <3>2, DispatchOutcome, EntersIndexTaskSeen, EntersLineSearchSeen, EntersNothingSeen
      <4>2. pc[w] = "dispatch"
        BY <3>2 DEF Dispatch
      <4> QED
        BY <4>1, <4>2, ThreadsAssumption DEF TypeInv, PlacesOK, BeforeServing
    <3> QED
      BY <1>3, <3>1, <3>2
  <2>3. pc[w] \notin {"take", "check", "exit", "announce"}
    BY <2>2 DEF BeforeServing
  <2> QED
    BY <2>1, <2>2, <2>3, TellKept
<1>4. ASSUME NEW w \in Workers, InIndexTask(w) PROVE TellInv'
  <2>1. IndexTold'
    BY <1>0, <1>4, TellIndex DEF TellInv
  <2>2. Serves(w) /\ UNCHANGED searchVars
    BY <1>4, ServesSeen DEF InIndexTask
  <2>3. pc[w] # "announce"
    BY <1>4 DEF InIndexTask, Idx!Take, Idx!Check, Idx!Work, Idx!Complete, Idx!Exit, Idx!Goto
  <2>4. /\ pc'[Main] \in {"gapBest", "blockedBest"} => pc[Main] = pc'[Main]
        /\ \A v \in Workers : pc[v] = "announce" => pc'[v] = "announce"
    BY <2>2, <2>3 DEF Serves
  <2>5. SearchTold'
    BY <2>2, <2>4 DEF TellInv, SearchTold, searchVars
  <2> QED
    BY <2>1, <2>5 DEF TellInv
<1>5. ASSUME NEW w \in Workers, InLineSearch(w) PROVE TellInv'
  <2>1. SearchTold'
    BY <1>5, TellSearch DEF TellInv
  <2>2. Serves(w) /\ UNCHANGED indexVars
    BY <1>5, ServesSeen DEF InLineSearch
  <2>3. pc[w] \in LS!InSearch
    BY <1>5, SearchCountsSeen DEF SearchCounts
  <2>4. /\ pc'[Main] \in {"gap", "blocked"} => pc[Main] = pc'[Main]
        /\ \A v \in Workers : pc[v] \in {"take", "check", "exit"} => pc'[v] = pc[v]
    BY <2>2, <2>3 DEF Serves, LS!InSearch
  <2>5. IP!Span' = IP!Span /\ kCompleted' = kCompleted
    BY <2>2 DEF IP!Span, indexVars
  <2>6. (\E v \in Workers : pc[v] \in {"take", "check", "exit"})
           => \E v \in Workers : pc'[v] \in {"take", "check", "exit"}
    BY <2>4
  <2>7. IndexTold'
    BY <2>4, <2>5, <2>6 DEF TellInv, IndexTold
  <2> QED
    BY <2>1, <2>7 DEF TellInv
<1> QED
  BY <1>1, <1>2, <1>3, <1>4, <1>5, Moves

LEMMA StandInit == Init => StandInv
<1> SUFFICES ASSUME Init PROVE StandInv
  OBVIOUS
<1> USE PlacesApart
<1>1. CallsInv /\ TypeInv
  BY CallsInit DEF CallsInv
<1>2. pc[Main] = "returned" /\ \A w \in Workers : pc[w] = "top"
  BY ThreadsAssumption DEF Init
<1>3. WakeUpInv /\ IdInv
  BY <1>2, ThreadsAssumption DEF Init, WakeUpInv, IdInv
<1>4. PendingInv
  BY <1>2 DEF Init, PendingInv
<1>5. FreshInv
  <2>1. \A w \in Workers : ~OnItsWay(w) /\ pc[w] \notin InFunction
    BY <1>2 DEF OnItsWay, InFunction, Idx!InLoop, LS!InSearch
  <2>2. \A w \in Workers, task \in Tasks :
           uniqueProcessID[w] # Id!generateUniqueProcessID(iteration, task, lqpCounter)
    <3> SUFFICES ASSUME NEW w \in Workers, NEW task \in Tasks
                 PROVE  uniqueProcessID[w] # Id!generateUniqueProcessID(iteration, task, lqpCounter)
      OBVIOUS
    <3>1. uniqueProcessID[w] = 0
      BY DEF Init
    <3>2. task \in AllTasks /\ iteration \in Nat /\ lqpCounter \in Nat
      BY <1>1 DEF Tasks, AllTasks, LineSearchTask, TypeInv, TypeOK
    <3> QED
      BY <3>1, <3>2, IdType
  <2> QED
    BY <2>1, <2>2 DEF FreshInv
<1>6. MissesInv /\ LeftInv /\ NoneTakenInv /\ TakenInv /\ TellInv
  BY <1>2 DEF MissesInv, LeftInv, NoneTakenInv, TakenInv, TellInv, IndexTold, SearchTold
<1> QED
  BY <1>1, <1>3, <1>4, <1>5, <1>6 DEF StandInv

LEMMA StandNext ==
    ASSUME IP!ProperRequests, OffersApart, IterationsFit, MaxIterations # 0
    PROVE  StandInv /\ [Next]_vars => StandInv'
<1> SUFFICES ASSUME StandInv, [Next]_vars PROVE StandInv'
  OBVIOUS
<1>0. TypeInv /\ CallsInv /\ WakeUpInv /\ IdInv /\ PendingInv
  BY DEF StandInv, CallsInv
<1>1. CallsInv'
  BY <1>0, CallsNext
<1>2. WakeUpInv' /\ IdInv'
  BY <1>0, WakeUpNext, IdNext
<1>3. PendingInv'
  BY <1>0, PendingNext
<1>4. ASSUME Undisturbed'
      PROVE  /\ FreshInv' /\ MissesInv' /\ LeftInv' /\ NoneTakenInv' /\ TakenInv'
             /\ ~lost' => TellInv'
  <2>1. Undisturbed
    BY <1>0, <1>4, DisturbedStays
  <2>2. FreshInv /\ MissesInv /\ LeftInv /\ NoneTakenInv /\ TakenInv /\ (~lost => TellInv)
    BY <2>1 DEF StandInv
  <2>3. FreshInv'
    BY <1>0, <1>4, <2>2, FreshNext
  <2>4. MissesInv'
    BY <1>0, <2>2, MissesNext
  <2>5. LeftInv'
    BY <1>0, <1>4, <2>2, LeftNext
  <2>6. NoneTakenInv'
    BY <1>0, <1>4, <2>2, NoneTakenNext
  <2>7. TakenInv'
    BY <1>0, <1>4, <2>2, TakenNext
  <2>8. ~lost' => TellInv'
    BY <1>0, <1>4, <2>2, LostStays, TellNext
  <2> QED
    BY <2>3, <2>4, <2>5, <2>6, <2>7, <2>8
<1> QED
  BY <1>1, <1>2, <1>3, <1>4 DEF StandInv

\* Two workers are enough: while the main thread waits they do not all sleep,
\* unless a notification was lost.  One of them has served the call and found
\* nothing left to do; then everything that was taken is done, and the one who
\* counted it is about to say so.
THEOREM SomebodyIsAwake ==
    ASSUME IP!ProperRequests, OffersApart, IterationsFit, MaxIterations # 0,
           \E v, w \in Workers : v # w
    PROVE  Spec => []NoStandstill
<1>1. StandInv => NoStandstill
  <2> SUFFICES ASSUME StandInv, Undisturbed, ~lost,
                      pc[Main] \in {"gap", "blocked", "gapBest", "blockedBest"},
                      \A w \in Workers : pc[w] = "asleep"
               PROVE  FALSE
    BY DEF NoStandstill
  <2> USE PlacesApart
  <2>1. CallsInv /\ TypeInv /\ MissesInv /\ LeftInv /\ TakenInv /\ TellInv
    BY DEF StandInv, CallsInv
  <2>2. PICK x \in Workers : x \in served
    BY <2>1 DEF MissesInv, SleptThrough, FallingAsleep
  <2>3. CASE pc[Main] \in {"gap", "blocked"}
    <3>1. kTaken > IP!Span
      BY <2>1, <2>2, <2>3 DEF LeftInv, Idx!InLoop
    <3>2. /\ IP!Inv /\ ~(overlap \/ stale) /\ indexPc[Main] \in IP!Serving
          /\ \A w \in Workers : indexPc[w] \notin IP!Holding
      BY <2>1, <2>3, ServingSeen DEF IP!Holding
    <3>3. kCompleted > IP!Span
      BY <3>1, <3>2, PartsAssumptions, IP!NoneHeld
    <3> QED
      BY <2>1, <2>3, <3>3 DEF TellInv, IndexTold
  <2>4. CASE pc[Main] \in {"gapBest", "blockedBest"}
    <3>1. ~alphaBestFound
      BY <2>1, <2>4 DEF TellInv, SearchTold
    <3>2. alphaTaken >= MaxIterations
      BY <2>1, <2>2, <2>4, <3>1 DEF LeftInv, LS!InSearch
    <3>3. alphaTaken \in Nat /\ MaxIterations \in Nat /\ alphaExpBest \in 0 .. MaxIterations
      BY <2>1, SizesAssumption DEF TypeInv, SP!TypeInv, SP!TypeOK
    <3>4. \A a \in 0 .. MaxIterations - 1 : a \in alphaProcessed
      BY <2>1, <2>4, <3>1, <3>2, <3>3 DEF TakenInv, AllHeld, InHands, LS!InSearch
    <3>5. LS!AllPreviousProcessed(alphaProcessed)
      BY <3>3, <3>4 DEF LS!AllPreviousProcessed
    <3> QED
      BY <2>1, <2>4, <3>1, <3>5 DEF TakenInv, Settling
  <2> QED
    BY <2>3, <2>4
<1> QED
  BY <1>1, StandInit, StandNext, PTL DEF Spec

--------------------------------------------------------------------------------
(***************************************************************************)
(* Who sleeps while a task is on offer                                     *)
(***************************************************************************)

\* A comparison of what is on offer now
LEMMA ComparesNow ==
    ASSUME PlacesOK, NEW w \in Workers, Compare(w), pc'[w] = "fallAsleep", seen[w] = SharedNow
    PROVE  NothingNew(w)
<1>1. SameAsBefore(w)
  BY WaitMoves DEF WaitCondition, Compare, Goto, PlacesOK
<1>2. /\ seen[w].iteration = iteration /\ seen[w].task = Id!Number(workerTask)
      /\ seen[w].lqp = lqpCounter
  BY DEF SharedNow
<1> QED
  BY <1>1, <1>2 DEF SameAsBefore, NothingNew, Id!generateUniqueProcessID

\* However many iterations: in undisturbed calls nobody goes to sleep on work
\* it has not served, as long as what it compares is what is on offer.
THEOREM SleepsOnWhatItServed ==
    ASSUME IP!ProperRequests, OffersApart, IterationsFit, MaxIterations # 0
    PROVE  Spec => [][\A w \in Workers :
              (/\ Compare(w) /\ pc'[w] = "fallAsleep" /\ seen[w] = SharedNow
               /\ Undisturbed /\ workerTask \in Tasks) => w \in served]_vars
<1>1. ASSUME StandInv, NEW w \in Workers, Compare(w), pc'[w] = "fallAsleep", seen[w] = SharedNow,
             Undisturbed, workerTask \in Tasks
      PROVE  w \in served
  <2>1. NothingNew(w) /\ FreshInv
    BY <1>1, ComparesNow DEF StandInv, CallsInv, TypeInv
  <2> QED
    BY <1>1, <2>1, NothingNewMeansServed
<1>2. Spec => []StandInv
  BY StandInit, StandNext, PTL DEF Spec
<1>3. StandInv /\ [Next]_vars =>
         [\A w \in Workers :
             (/\ Compare(w) /\ pc'[w] = "fallAsleep" /\ seen[w] = SharedNow
              /\ Undisturbed /\ workerTask \in Tasks) => w \in served]_vars
  BY <1>1
<1> QED
  BY <1>2, <1>3, PTL DEF Spec

\* Whatever disturbs the calls, it can only be an earlier offer of the same task
\* that work is taken for.
OfferedOnce == \A k, m \in Offers : Script[k].op = Script[m].op => k = m

\* The task will not be published any more.
Over(task) == \A m \in Offers : m >= Pending => Script[m].op # task

Settled(w, task) == Over(task) /\ (workerTask = task => w \in served)

\* What a worker has read was offered, and what it remembers it served then.
SoleInv == \A w \in Workers :
    /\ taskLocal[w] \in Tasks => Over(taskLocal[w])
    /\ pc[w] \in InFunction => Settled(w, taskLocal[w])
    /\ \A i \in Nat, task \in Tasks, c \in Nat :
          (i < TaskStride /\ uniqueProcessID[w] = Id!generateUniqueProcessID(i, task, c)) =>
              Settled(w, task)

LEMMA SettledNext ==
    ASSUME TypeInv, PendingInv, [Next]_vars, NEW task \in Tasks, Over(task)
    PROVE  /\ Over(task)'
           /\ \A w \in Workers : Settled(w, task) => Settled(w, task)'
<1>1. Over(task)'
  <2>1. Pending' >= Pending /\ Offers \subseteq Nat /\ Pending \in Int /\ Pending' \in Int
    <3>1. Pending' >= Pending
      BY AheadNext
    <3>2. next \in Nat /\ next' \in Nat
      BY TypeNext DEF TypeInv, TypeOK
    <3>3. Offers \subseteq Nat
      BY ScriptType DEF Offers
    <3>4. Pending \in Int /\ Pending' \in Int
      BY ONLY <3>2 DEF Pending
    <3> QED
      BY <3>1, <3>3, <3>4
  <2> QED
    BY <2>1 DEF Over, Offers
<1>2. ASSUME workerTask' = task PROVE workerTask = task /\ served \subseteq served'
  <2>1. CASE MainTakesStep
    <3>1. ~MainPublishes
      <4>1. MainPublishes => /\ next - 1 \in Offers /\ Pending = next - 1
                             /\ Script[next - 1].op = workerTask'
        BY PlacesApart DEF MainPublishes, PendingInv, Pending
      <4>2. next - 1 >= next - 1
        BY DEF TypeInv, TypeOK
      <4> QED
        BY <1>2, <4>1, <4>2 DEF Over
    <3> QED
      BY <1>2, <2>1, <3>1, OfferStep DEF MainNotifies, MainWaits, history
  <2>2. CASE UNCHANGED vars
    BY <1>2, <2>2 DEF vars, history
  <2>3. ASSUME NEW v \in Workers,
               ThreadWorkStep(v) \/ Dispatch(v) \/ InIndexTask(v) \/ InLineSearch(v)
        PROVE  workerTask' = workerTask /\ served \subseteq served'
    BY <2>3, WorkersLeaveScript
  <2> QED
    BY <1>2, <2>1, <2>2, <2>3, Moves
<1> QED
  BY <1>1, <1>2 DEF Settled

\* The task on offer is over: the script has no other offer of it.
LEMMA OfferedIsOver ==
    ASSUME OfferedOnce, TypeInv, PendingInv, workerTask \in Tasks
    PROVE  Over(workerTask)
<1>1. pc[Main] \in IndexServing \cup SearchServing
  BY OfferMeans DEF Tasks
<1>2. next - 1 \in Offers /\ Script[next - 1].op = workerTask
  BY <1>1, OfferMeans, PlacesApart DEF PendingInv
<1>3. Pending = next /\ next \in Nat
  BY <1>1, PlacesApart, ScriptType DEF Pending, TypeInv, TypeOK
<1> QED
  BY <1>2, <1>3 DEF Over, OfferedOnce

LEMMA IterationsInRange ==
    ASSUME IterationsFit, TypeInv, PendingInv
    PROVE  /\ iteration \in Nat /\ lqpCounter \in Nat /\ iteration < TaskStride
           /\ \A w \in Workers : /\ iterationLocal[w] \in Nat /\ lqpLocal[w] \in Nat
                                  /\ iterationLocal[w] < TaskStride
<1>1. /\ iteration \in Nat /\ lqpCounter \in Nat /\ next \in 1 .. Len(Script) + 1
      /\ \A w \in Workers : /\ iterationLocal[w] \in Nat /\ lqpLocal[w] \in Nat
                              /\ iterationLocal[w] <= iteration
  BY DEF TypeInv, TypeOK, LocalInv
<1>2. iteration < next /\ Len(Script) < TaskStride /\ Len(Script) \in Nat /\ TaskStride \in Nat
  BY ScriptType, StridesAssumption DEF PendingInv, IterationsFit
<1>3. iteration < TaskStride
  BY <1>1, <1>2
<1> QED
  BY <1>1, <1>2, <1>3

LEMMA SoleNext ==
    ASSUME OfferedOnce, IterationsFit, TypeInv, PendingInv, SoleInv, [Next]_vars
    PROVE  SoleInv'
<1>1. ASSUME NEW v \in Workers, taskLocal'[v] \in Tasks
      PROVE  Over(taskLocal[v])'
  <2>1. CASE taskLocal'[v] = taskLocal[v]
    <3>1. \A task \in Tasks : Over(task) => Over(task)'
      BY SettledNext
    <3> QED
      BY <1>1, <2>1, <3>1 DEF SoleInv, Over
  <2>2. CASE LoadTask(v)
    <3>1. taskLocal'[v] = workerTask /\ ThreadWorkStep(v)
      BY <2>2 DEF LoadTask, TypeInv, TypeOK, ThreadWorkStep
    <3>2. Over(workerTask)
      BY <1>1, <3>1, OfferedIsOver
    <3>3. \A task \in Tasks : Over(task) => Over(task)'
      BY SettledNext
    <3> QED
      BY <1>1, <3>1, <3>2, <3>3 DEF Over
  <2>3. \/ taskLocal'[v] = taskLocal[v] \/ LoadTask(v)
    <3>1. ASSUME NEW w \in Workers, ThreadWorkStep(w)
          PROVE  taskLocal'[v] = taskLocal[v] \/ LoadTask(v)
      BY <3>1, OwnLocals, OthersUntouched
    <3> QED
      BY <3>1, OthersStep DEF locals
  <2> QED
    BY <2>1, <2>2, <2>3
<1>2. ASSUME NEW v \in Workers, pc'[v] \in InFunction
      PROVE  Settled(v, taskLocal[v])'
  <2>1. CASE pc[v] \in InFunction /\ taskLocal'[v] = taskLocal[v]
    <3>1. taskLocal[v] \in Tasks /\ Settled(v, taskLocal[v])
      BY <2>1 DEF SoleInv, TypeInv, LocalInv
    <3>2. \A task \in Tasks : Settled(v, task) => Settled(v, task)'
      BY SettledNext DEF Settled
    <3> QED
      BY <2>1, <3>1, <3>2 DEF Settled, Over
  <2>2. CASE taskLocal[v] \in Tasks /\ taskLocal'[v] = taskLocal[v] /\ v \in served'
    BY <1>1, <2>2 DEF Settled
  <2> QED
    BY <1>2, <2>1, <2>2, ServingComesFrom
<1>3. ASSUME NEW v \in Workers, NEW i \in Nat, NEW task \in Tasks, NEW c \in Nat, i < TaskStride,
             uniqueProcessID'[v] = Id!generateUniqueProcessID(i, task, c)
      PROVE  Settled(v, task)'
  <2>1. CASE Record(v)
    <3>1. pc[v] = "returned" /\ uniqueProcessID'[v] = ProcessIdLocal(v)
      BY <2>1 DEF Record, Goto, TypeInv, TypeOK
    <3>2. taskLocal[v] \in Tasks /\ pc[v] \in InFunction
      BY <3>1 DEF TypeInv, LocalInv, InFunction
    <3>3. taskLocal[v] = task
      <4> DEFINE j == iterationLocal[v]  t == taskLocal[v]  d == lqpLocal[v]
      <4>1. Id!generateUniqueProcessID(j, t, d) = Id!generateUniqueProcessID(i, task, c)
        BY <1>3, <3>1 DEF ProcessIdLocal
      <4>2. j \in Nat /\ t \in Tasks /\ d \in Nat /\ j < TaskStride
        BY <3>2, IterationsInRange
      <4> HIDE DEF j, t, d
      <4>3. t = task
        BY <1>3, <4>1, <4>2, IdUnique
      <4> QED
        BY <4>3 DEF t
    <3>4. Settled(v, task)
      BY <3>2, <3>3 DEF SoleInv
    <3> QED
      BY <3>4, SettledNext DEF Settled
  <2>2. CASE ~Record(v)
    <3>1. uniqueProcessID'[v] = uniqueProcessID[v]
      <4>1. ASSUME NEW w \in Workers, ThreadWorkStep(w) PROVE uniqueProcessID'[v] = uniqueProcessID[v]
        BY <2>2, <4>1, OwnLocals, OthersUntouched
      <4> QED
        BY <4>1, OthersStep DEF locals
    <3>2. Settled(v, task)
      BY <1>3, <3>1 DEF SoleInv
    <3> QED
      BY <3>2, SettledNext DEF Settled
  <2> QED
    BY <2>1, <2>2
<1>4. ASSUME NEW v \in Workers, (taskLocal[v] \in Tasks)' PROVE Over(taskLocal[v])'
  BY <1>1, <1>4
<1>5. ASSUME NEW v \in Workers, (pc[v] \in InFunction)' PROVE Settled(v, taskLocal[v])'
  BY <1>2, <1>5
<1>6. ASSUME NEW v \in Workers, NEW i \in Nat, NEW task \in Tasks, NEW c \in Nat, i < TaskStride,
             (uniqueProcessID[v] = Id!generateUniqueProcessID(i, task, c))'
      PROVE  Settled(v, task)'
  BY <1>3, <1>6
<1> QED
  BY <1>4, <1>5, <1>6 DEF SoleInv

\* If each task is offered once, then nobody goes to sleep on work it has not
\* served even when calls disturb each other.
THEOREM SleepsOnlyWhenFinished ==
    ASSUME OfferedOnce, IterationsFit
    PROVE  Spec => SleepsWhenFinished
<1> DEFINE Inv == TypeInv /\ PendingInv /\ SoleInv
<1>1. Init => Inv
  <2> SUFFICES ASSUME Init PROVE Inv
    OBVIOUS
  <2>1. TypeInv /\ PendingInv
    BY TypeInit, StandInit DEF StandInv
  <2>2. \A w \in Workers : pc[w] = "top" /\ taskLocal[w] = IDLE /\ uniqueProcessID[w] = 0
    BY ThreadsAssumption DEF Init
  <2>3. \A i \in Nat, task \in Tasks, c \in Nat : Id!generateUniqueProcessID(i, task, c) # 0
    BY IdType DEF Tasks, AllTasks, LineSearchTask
  <2>4. "top" \notin InFunction /\ IDLE \notin Tasks
    BY DEF InFunction, Idx!InLoop, LS!InSearch, IDLE, Tasks, IndexTasks, LineSearchTask
  <2> QED
    BY <2>1, <2>2, <2>3, <2>4 DEF SoleInv
<1>2. Inv /\ [Next]_vars => Inv'
  BY TypeNext, PendingNext, SoleNext
<1>3. ASSUME Inv, NEW w \in Workers, Compare(w), pc'[w] = "fallAsleep", seen[w] = SharedNow
      PROVE  workerTask \in {IDLE, SHUTDOWN} \/ w \in served
  <2> SUFFICES ASSUME workerTask \in Tasks PROVE w \in served
    BY <1>3 DEF TypeInv, TypeOK, Tasks, LineSearchTask
  <2>1. NothingNew(w)
    BY <1>3, ComparesNow DEF TypeInv
  <2>2. uniqueProcessID[w] = Id!generateUniqueProcessID(iteration, workerTask, lqpCounter)
    BY <2>1 DEF NothingNew, Tasks, IndexTasks, LineSearchTask, IDLE
  <2>3. iteration \in Nat /\ lqpCounter \in Nat /\ iteration < TaskStride
    BY <1>3, IterationsInRange
  <2>4. Settled(w, workerTask)
    BY <1>3, <2>2, <2>3 DEF SoleInv
  <2> QED
    BY <2>4 DEF Settled
<1>4. Inv /\ [Next]_vars => [\A w \in Workers :
                                 (Compare(w) /\ pc'[w] = "fallAsleep" /\ seen[w] = SharedNow)
                                => workerTask \in {IDLE, SHUTDOWN} \/ w \in served]_vars
  BY <1>3
<1> HIDE DEF Inv
<1> QED
  BY <1>1, <1>2, <1>4, PTL DEF Spec, SleepsWhenFinished

--------------------------------------------------------------------------------
(***************************************************************************)
(* The scripts of iLQR                                                     *)
(***************************************************************************)

ILQR == INSTANCE Algorithms WITH Algorithm <- "ILQR", KShot <- 1,
                                 LineSearchActive <- TRUE, Hpipm <- FALSE

\* The script is what solve() asks for in n iterations with line search.
SolveOf(n) ==
    /\ Len(Script) = 4 * n
    /\ \A i \in 0 .. n - 1 : \A j \in 1 .. 4 : Script[4 * i + j] = ILQR!Iteration(i)[j]

\* One operation more
LEMMA Longer ==
    ASSUME NEW S, NEW ops \in Seq(S), NEW e \in S, NEW m \in Nat, Len(ops) + 1 = m
    PROVE  /\ ops \o <<e>> \in Seq(S) /\ Len(ops \o <<e>>) = m
           /\ \A j \in 1 .. m - 1 : (ops \o <<e>>)[j] = ops[j]
           /\ (ops \o <<e>>)[m] = e
<1>1. <<e>> \in Seq(S) /\ Len(<<e>>) = 1 /\ <<e>>[1] = e
  OBVIOUS
<1> DEFINE one == <<e>>
<1> HIDE DEF one
<1>2. /\ ops \o one \in Seq(S) /\ Len(ops \o one) = Len(ops) + Len(one)
      /\ \A j \in 1 .. Len(ops) + Len(one) :
            (ops \o one)[j] = IF j <= Len(ops) THEN ops[j] ELSE one[j - Len(ops)]
  BY <1>1, ConcatProperties DEF one
<1>3. one[1] = e /\ Len(one) = 1 /\ Len(ops) \in Nat
  BY <1>1 DEF one
<1>4. ASSUME NEW j \in 1 .. Len(ops) PROVE (ops \o one)[j] = ops[j]
  BY <1>2, <1>3
<1>5. (ops \o one)[Len(ops) + 1] = e
  <2>1. Len(ops) + 1 \in 1 .. Len(ops) + Len(one) /\ ~(Len(ops) + 1 <= Len(ops))
        /\ (Len(ops) + 1) - Len(ops) = 1
    BY ONLY <1>3
  <2> QED
    BY <1>2, <1>3, <2>1
<1> QED
  BY <1>2, <1>3, <1>4, <1>5, m - 1 = Len(ops) DEF one

\* An iteration: approximate all stages, solve, search, go on to the next
LEMMA IterationIs ==
    ASSUME NEW i
    PROVE  /\ ILQR!Iteration(i)[1] = [op |-> "COMPUTE_LQ_PROBLEM", first |-> 0, last |-> K - 1]
           /\ ILQR!Iteration(i)[2].op = "COUNT_LQP"
           /\ ILQR!Iteration(i)[3].op = LineSearchTask
           /\ ILQR!Iteration(i)[4].op = "ITERATE"
<1> DEFINE A == [op |-> "COMPUTE_LQ_PROBLEM", first |-> 0, last |-> K - 1]
           C == [op |-> "COUNT_LQP", first |-> 0, last |-> 0]
           L == [op |-> "LINE_SEARCH", first |-> 0, last |-> 0]
           I == [op |-> "ITERATE", first |-> 0, last |-> 0]
           S == {A, C, L, I}
<1>1. ILQR!Iteration(i) = <<>> \o (<<A>> \o <<C>> \o <<L>> \o <<I>>)
  BY DEF ILQR!Iteration, ILQR!Prepare, ILQR!Finish, ILQR!SolveFullLQProblem, ILQR!LineSearch,
         ILQR!Approximate, ILQR!CountLQP, ILQR!Search, ILQR!Iterate, ILQR!Op
<1>2. C.op = "COUNT_LQP" /\ L.op = LineSearchTask /\ I.op = "ITERATE"
  BY DEF LineSearchTask
<1> HIDE DEF A, C, L, I
<1>3. <<A>> \in Seq(S) /\ Len(<<A>>) = 1 /\ <<A>>[1] = A
  OBVIOUS
<1>4. A \in S /\ C \in S /\ L \in S /\ I \in S
  OBVIOUS
<1> HIDE DEF S
<1> DEFINE two   == <<A>> \o <<C>>
           three == two \o <<L>>
           four  == three \o <<I>>
<1>5. two \in Seq(S) /\ Len(two) = 2 /\ two[1] = A /\ two[2] = C
  <2>1. Len(<<A>>) + 1 = 2 /\ 2 \in Nat /\ \A j \in 1 .. 1 : j \in 1 .. 2 - 1
    BY <1>3
  <2>2. /\ two \in Seq(S) /\ Len(two) = 2 /\ two[2] = C
        /\ \A j \in 1 .. 2 - 1 : two[j] = <<A>>[j]
    <3>1. <<A>> \in Seq(S) /\ C \in S
      BY ONLY <1>4, <1>3
    <3> QED
      BY ONLY <2>1, <3>1, Longer DEF two
  <2> QED
    BY ONLY <1>3, <2>1, <2>2
<1> HIDE DEF two
<1>6. three \in Seq(S) /\ Len(three) = 3 /\ three[1] = A /\ three[2] = C /\ three[3] = L
  <2>1. Len(two) + 1 = 3 /\ 3 \in Nat /\ \A j \in 1 .. 2 : j \in 1 .. 3 - 1
    BY <1>5
  <2>2. /\ three \in Seq(S) /\ Len(three) = 3 /\ three[3] = L
        /\ \A j \in 1 .. 3 - 1 : three[j] = two[j]
    <3>1. two \in Seq(S) /\ L \in S
      BY ONLY <1>4, <1>5
    <3> QED
      BY ONLY <2>1, <3>1, Longer DEF three
  <2> QED
    BY ONLY <1>5, <2>1, <2>2
<1> HIDE DEF three
<1>7. four \in Seq(S) /\ four[1] = A /\ four[2] = C /\ four[3] = L /\ four[4] = I
  <2>1. Len(three) + 1 = 4 /\ 4 \in Nat /\ \A j \in 1 .. 3 : j \in 1 .. 4 - 1
    BY <1>6
  <2>2. /\ four \in Seq(S) /\ Len(four) = 4 /\ four[4] = I
        /\ \A j \in 1 .. 4 - 1 : four[j] = three[j]
    <3>1. three \in Seq(S) /\ I \in S
      BY ONLY <1>4, <1>6
    <3> QED
      BY ONLY <2>1, <3>1, Longer DEF four
  <2> QED
    BY ONLY <1>6, <2>1, <2>2
<1> HIDE DEF four
<1>8. <<>> \o four = four
  BY <1>7, ConcatEmptySeq
<1>9. ILQR!Iteration(i) = four
  BY <1>1, <1>8 DEF two, three, four
<1> QED
  BY <1>2, <1>7, <1>9 DEF A

\* Each operation of the script has its place in an iteration.
LEMMA PlaceInSolve ==
    ASSUME NEW n \in Nat, SolveOf(n), NEW k \in DOMAIN Script
    PROVE  \E i \in 0 .. n - 1, j \in 1 .. 4 :
              k = 4 * i + j /\ Script[k] = ILQR!Iteration(i)[j]
<1>1. k \in 1 .. 4 * n
  BY ScriptType DEF SolveOf
<1>2. PICK i \in 0 .. n - 1, j \in 1 .. 4 : k = 4 * i + j
  <2>1. (k - 1) \div 4 \in 0 .. n - 1 /\ ((k - 1) % 4) + 1 \in 1 .. 4
    BY ONLY <1>1, n \in Nat
  <2>2. k = 4 * ((k - 1) \div 4) + (((k - 1) % 4) + 1)
    BY ONLY <1>1, n \in Nat
  <2> QED
    BY <2>1, <2>2
<1> QED
  BY <1>2 DEF SolveOf

\* Which operations go to the workers, and which count
LEMMA SolveOffers ==
    ASSUME NEW n \in Nat, SolveOf(n), K > 1, NEW i \in 0 .. n - 1
    PROVE  /\ 4 * i + 1 \in Offers /\ Script[4 * i + 1].op = "COMPUTE_LQ_PROBLEM"
           /\ 4 * i + 2 \in Counts /\ Script[4 * i + 2].op = "COUNT_LQP"
           /\ 4 * i + 3 \in Offers /\ Script[4 * i + 3].op = LineSearchTask
           /\ 4 * i + 4 \in Counts /\ Script[4 * i + 4].op = "ITERATE"
           /\ Script[4 * i + 1].first = 0 /\ Script[4 * i + 1].last = K - 1
<1>1. \A j \in 1 .. 4 : 4 * i + j \in DOMAIN Script
  <2>1. DOMAIN Script = 1 .. 4 * n
    BY ScriptType DEF SolveOf
  <2> SUFFICES ASSUME NEW j \in 1 .. 4 PROVE 4 * i + j \in 1 .. 4 * n
    BY <2>1
  <2> QED
    BY ONLY n \in Nat, i \in 0 .. n - 1, j \in 1 .. 4
<1>2. \A j \in 1 .. 4 : Script[4 * i + j] = ILQR!Iteration(i)[j]
  BY DEF SolveOf
<1>3. /\ Script[4 * i + 1] = [op |-> "COMPUTE_LQ_PROBLEM", first |-> 0, last |-> K - 1]
      /\ Script[4 * i + 2].op = "COUNT_LQP" /\ Script[4 * i + 3].op = LineSearchTask
      /\ Script[4 * i + 4].op = "ITERATE"
  BY <1>2, IterationIs
<1>4. /\ Script[4 * i + 1].op = "COMPUTE_LQ_PROBLEM"
      /\ Script[4 * i + 1].first = 0 /\ Script[4 * i + 1].last = K - 1
  BY <1>3
<1>5. Script[4 * i + 1].first # Script[4 * i + 1].last
  BY <1>4, SizesAssumption
<1>6. /\ 4 * i + 1 \in DOMAIN Script /\ 4 * i + 2 \in DOMAIN Script
      /\ 4 * i + 3 \in DOMAIN Script /\ 4 * i + 4 \in DOMAIN Script
  BY ONLY <1>1
<1>7. 4 * i + 1 \in Offers
  BY <1>4, <1>5, <1>6 DEF Offers, IndexTasks
<1>8. 4 * i + 3 \in Offers
  BY <1>3, <1>6 DEF Offers
<1>9. 4 * i + 2 \in Counts /\ 4 * i + 4 \in Counts
  BY <1>3, <1>6 DEF Counts
<1> QED
  BY <1>3, <1>4, <1>7, <1>8, <1>9

\* No other operation goes to the workers.
LEMMA SolvePlaces ==
    ASSUME NEW n \in Nat, SolveOf(n), K > 1, NEW k \in Offers
    PROVE  \E i \in 0 .. n - 1 : \/ k = 4 * i + 1 /\ Script[k].op = "COMPUTE_LQ_PROBLEM"
                                 \/ k = 4 * i + 3 /\ Script[k].op = LineSearchTask
<1>1. PICK i \in 0 .. n - 1, j \in 1 .. 4 : k = 4 * i + j
  BY PlaceInSolve DEF Offers
<1>2. Script[k].op \in IndexTasks \cup {LineSearchTask}
  BY DEF Offers
<1>3. j = 1 \/ j = 3
  BY <1>1, <1>2, SolveOffers DEF IndexTasks, LineSearchTask
<1> QED
  BY <1>1, <1>3, SolveOffers

\* With more than one stage, the scripts of iLQR are what the theorems above
\* ask for, however many iterations the solver runs.
THEOREM SolveFits ==
    ASSUME NEW n \in Nat, SolveOf(n), K > 1
    PROVE  OffersApart /\ IP!ProperRequests /\ (n = 1 => OfferedOnce)
<1>1. ASSUME NEW k \in Offers, NEW m \in Offers, k < m, Script[k].op = Script[m].op
      PROVE  \E p \in Offers, q \in Counts : k < p /\ p < q /\ q < m
  <2>1. PICK a \in 0 .. n - 1 : \/ k = 4 * a + 1 /\ Script[k].op = "COMPUTE_LQ_PROBLEM"
                                \/ k = 4 * a + 3 /\ Script[k].op = LineSearchTask
    BY SolvePlaces
  <2>2. PICK b \in 0 .. n - 1 : \/ m = 4 * b + 1 /\ Script[m].op = "COMPUTE_LQ_PROBLEM"
                                \/ m = 4 * b + 3 /\ Script[m].op = LineSearchTask
    BY SolvePlaces
  <2>3. CASE k = 4 * a + 1 /\ Script[k].op = "COMPUTE_LQ_PROBLEM"
    <3>1. m = 4 * b + 1
      BY <1>1, <2>2, <2>3 DEF LineSearchTask
    <3>2. 4 * a + 3 \in Offers /\ 4 * a + 4 \in Counts
      BY SolveOffers
    <3>3. k < 4 * a + 3 /\ 4 * a + 3 < 4 * a + 4 /\ 4 * a + 4 < m
      BY <1>1, <2>3, <3>1
    <3> QED
      BY <3>2, <3>3
  <2>4. CASE k = 4 * a + 3 /\ Script[k].op = LineSearchTask
    <3>1. m = 4 * b + 3
      BY <1>1, <2>2, <2>4 DEF LineSearchTask
    <3>2. a < b /\ a + 1 \in 0 .. n - 1
      BY <1>1, <2>4, <3>1
    <3>3. 4 * (a + 1) + 1 \in Offers /\ 4 * (a + 1) + 2 \in Counts
      BY <3>2, SolveOffers
    <3>4. k < 4 * (a + 1) + 1 /\ 4 * (a + 1) + 1 < 4 * (a + 1) + 2 /\ 4 * (a + 1) + 2 < m
      BY <2>4, <3>1, <3>2
    <3> QED
      BY <3>3, <3>4
  <2> QED
    BY <2>1, <2>3, <2>4
<1>2. ASSUME NEW r \in Requests PROVE r.first < r.last
  <2>1. PICK k \in DOMAIN Script :
           Script[k].op \in IndexTasks /\ r.first = Script[k].first /\ r.last = Script[k].last
    BY DEF Requests, Operations
  <2>2. PICK i \in 0 .. n - 1, j \in 1 .. 4 : k = 4 * i + j
    BY PlaceInSolve
  <2>3. j = 1
    BY <2>1, <2>2, SolveOffers DEF IndexTasks, LineSearchTask
  <2>4. r.first = 0 /\ r.last = K - 1
    BY <2>1, <2>2, <2>3, SolveOffers
  <2> QED
    BY <2>4, SizesAssumption
<1>3. IP!ProperRequests
  <2>1. Requests \subseteq [task : IndexTasks, first : 0 .. K, last : 0 .. K - 1]
    BY ScriptType DEF Requests, Operations
  <2> QED
    BY <1>2, <2>1 DEF IP!ProperRequests
<1>4. ASSUME n = 1, NEW k \in Offers, NEW m \in Offers, Script[k].op = Script[m].op
      PROVE  k = m
  <2>1. \/ k = 1 /\ Script[k].op = "COMPUTE_LQ_PROBLEM"
        \/ k = 3 /\ Script[k].op = LineSearchTask
    <3>1. PICK i \in 0 .. n - 1 : \/ k = 4 * i + 1 /\ Script[k].op = "COMPUTE_LQ_PROBLEM"
                                  \/ k = 4 * i + 3 /\ Script[k].op = LineSearchTask
      BY SolvePlaces
    <3>2. i = 0
      BY <1>4
    <3> QED
      BY <3>1, <3>2
  <2>2. \/ m = 1 /\ Script[m].op = "COMPUTE_LQ_PROBLEM"
        \/ m = 3 /\ Script[m].op = LineSearchTask
    <3>1. PICK i \in 0 .. n - 1 : \/ m = 4 * i + 1 /\ Script[m].op = "COMPUTE_LQ_PROBLEM"
                                  \/ m = 4 * i + 3 /\ Script[m].op = LineSearchTask
      BY SolvePlaces
    <3>2. i = 0
      BY <1>4
    <3> QED
      BY <3>1, <3>2
  <2> QED
    BY <1>4, <2>1, <2>2 DEF LineSearchTask
<1> QED
  BY <1>1, <1>3, <1>4 DEF OffersApart, OfferedOnce

\* So two workers never sleep through a call of an iLQR solver, whatever its
\* horizon and its number of iterations, unless a notification was lost or
\* calls disturbed each other.  Nothing is asked of the script here but the
\* range of the process IDs.
THEOREM ILQRNeverStands ==
    ASSUME NEW n \in Nat, SolveOf(n), K > 1, 4 * n < TaskStride, MaxIterations # 0,
           \E v, w \in Workers : v # w
    PROVE  Spec => []NoStandstill
<1>1. IP!ProperRequests /\ OffersApart
  BY SolveFits
<1>2. IterationsFit
  BY DEF SolveOf, IterationsFit
<1> QED
  BY <1>1, <1>2, SomebodyIsAwake

================================================================================
