----------------------------- MODULE NLOCBackendMP -----------------------------
(****************************************************************************)
(* The multi-threaded backend: the thread that runs the solver works off a  *)
(* script of backend operations while the worker threads run threadWork and *)
(* get into the worker functions of IndexTask and LineSearchMP from there.  *)
(*                                                                          *)
(* A worker sleeps on workerWakeUpCondition_ while there is nothing to do   *)
(* or while the task on offer has the process ID of the one it served last. *)
(* The task is published without workerWakeUpMutex_, and threadWork reads   *)
(* workerTask_, iteration_ and lqpCounter_ one after the other, in the      *)
(* condition of the wait too.                                               *)
(****************************************************************************)
EXTENDS Integers, FiniteSets, Sequences

CONSTANTS Workers, Main, Nobody,
          K, StepsPerShot, SizeMod,   \* see IndexTask
          MaxIterations,              \* see LineSearchMP
          Script,                     \* the operations, as in module Algorithms
          ResetStride, TaskStride     \* see ProcessId

\* Five tasks, and a margin for the iteration number, fit between two counts.
ASSUME StridesAssumption ==
    TaskStride \in Nat \ {0} /\ ResetStride \in Nat /\ ResetStride >= 6 * TaskStride

ASSUME SizesAssumption ==
    /\ K \in Nat \ {0} /\ StepsPerShot \in Nat \ {0} /\ MaxIterations \in Nat
    /\ SizeMod \in Nat /\ SizeMod > K
ASSUME ThreadsAssumption ==
    Main \notin Workers /\ Nobody \notin Workers /\ IsFiniteSet(Workers)

IDLE     == "IDLE"
SHUTDOWN == "SHUTDOWN"
IndexTasks == {"COMPUTE_LQ_PROBLEM", "ROLLOUT_SHOTS"}
OperationNames == IndexTasks \cup {"LINE_SEARCH", "COUNT_LQP", "ITERATE", SHUTDOWN}

ASSUME ScriptAssumption ==
    Script \in Seq([op : OperationNames, first : 0 .. K, last : 0 .. K - 1])

Operations == {Script[i] : i \in DOMAIN Script}
Requests   == {[task |-> o.op, first |-> o.first, last |-> o.last] :
                  o \in {p \in Operations : p.op \in IndexTasks}}

VARIABLES
    pc,
    workerTask, workersActive,                        \* workerTask_, workersActive_
    kTaken, kCompleted, KMax, KMin, item, job, call, worked,  \* as in IndexTask
    alphaTaken, alphaBestFound, alphaExpBest, alphaProcessed, resultMutex,
    exponent, merit, result, improving, tried,        \* as in LineSearchMP
    iteration, lqpCounter,     \* iteration_, lqpCounter_
    wakeUpMutex,               \* who holds workerWakeUpMutex_
    uniqueProcessID,           \* locals of threadWork
    taskLocal, iterationLocal, lqpLocal,
    seen,                      \* what the condition of the wait has loaded so far
    next,                      \* the next operation of the script
    served, overlap, lost,     \* history, as in IndexTask and LineSearchMP
    stale                      \* history: a worker was on its way into a worker
                               \* function of an earlier call when one was reset

indexVars  == <<kTaken, kCompleted, KMax, KMin, item, job, call, worked>>
searchVars == <<alphaTaken, alphaBestFound, alphaExpBest, alphaProcessed, resultMutex,
                exponent, merit, result, improving, tried>>
counters   == <<iteration, lqpCounter>>
locals     == <<uniqueProcessID, taskLocal, iterationLocal, lqpLocal, seen>>
history    == <<served, overlap, lost>>
poolVars   == <<workersActive, counters, wakeUpMutex, locals, next>>
vars       == <<pc, workerTask, indexVars, searchVars, poolVars, history, stale>>

Idx == INSTANCE IndexTask
LS  == INSTANCE LineSearchMP
Id  == INSTANCE ProcessId

\* The operands of generateUniqueProcessID in the condition of the wait
Operands    == {"iteration", "task", "lqp"}
NotRead     == -1
NothingRead == [operand \in Operands |-> NotRead]
SharedNow   == [iteration |-> iteration, task |-> Id!Number(workerTask), lqp |-> lqpCounter]

Goto(t, from, to) == pc[t] = from /\ pc' = [pc EXCEPT ![t] = to]

--------------------------------------------------------------------------------
\* launchWorkerThreads has run: the workers are at the head of their loop.
Init ==
    /\ pc = [t \in Workers \cup {Main} |-> IF t = Main THEN "returned" ELSE "top"]
    /\ workerTask = IDLE /\ workersActive = TRUE
    /\ kTaken = 0 /\ kCompleted = 0 /\ KMax = 0 /\ KMin = 0
    /\ item = [w \in Workers |-> 0] /\ job = [w \in Workers |-> IDLE]
    /\ call = Idx!NoRequest /\ worked = {}
    /\ alphaTaken = 0 /\ alphaBestFound = FALSE
    /\ alphaExpBest = MaxIterations /\ alphaProcessed = {}
    /\ resultMutex = Nobody
    /\ exponent = [w \in Workers |-> 0] /\ merit = [w \in Workers |-> "none"]
    /\ result = LS!Previous /\ improving = {} /\ tried = {}
    /\ iteration = 0 /\ lqpCounter = 0
    /\ wakeUpMutex = Nobody
    /\ uniqueProcessID = [w \in Workers |-> 0]
    /\ taskLocal = [w \in Workers |-> IDLE]
    /\ iterationLocal = [w \in Workers |-> 0] /\ lqpLocal = [w \in Workers |-> 0]
    /\ seen = [w \in Workers |-> NothingRead]
    /\ next = 1
    /\ served = {} /\ overlap = FALSE /\ lost = FALSE /\ stale = FALSE

(***************************************************************************)
(* The main thread                                                         *)
(***************************************************************************)

\* The next operation of the script is this one, and nothing is in progress.
Operation(names) ==
    pc[Main] = "returned" /\ next <= Len(Script) /\ Script[next].op \in names

StartIndexTask ==
    /\ Operation(IndexTasks)
    /\ LET r == [task |-> Script[next].op, first |-> Script[next].first,
                 last |-> Script[next].last]
       IN Idx!CallSingle(r) \/ Idx!CallParallel(r)
    /\ next' = next + 1
    /\ UNCHANGED <<searchVars, workersActive, counters, wakeUpMutex, locals, stale>>

StartLineSearch ==
    /\ Operation({"LINE_SEARCH"})
    /\ LS!CallLineSearch
    /\ next' = next + 1
    /\ UNCHANGED <<indexVars, workersActive, counters, wakeUpMutex, locals, stale>>

\* Wrong on purpose: the number of LQ problems is counted down.
CountDown ==
    /\ Operation({"COUNT_LQP", "ITERATE"})
    /\ lqpCounter' = lqpCounter - (IF Script[next].op = "COUNT_LQP" THEN 1 ELSE 0)
    /\ iteration' = iteration + (IF Script[next].op = "ITERATE" THEN 1 ELSE 0)
    /\ next' = next + 1
    /\ UNCHANGED <<pc, workerTask, indexVars, searchVars, workersActive, wakeUpMutex, locals,
                   history, stale>>

\* Solving an LQ problem, the end of an iteration
Count ==
    /\ Operation({"COUNT_LQP", "ITERATE"})
    /\ lqpCounter' = lqpCounter + (IF Script[next].op = "COUNT_LQP" THEN 1 ELSE 0)
    /\ iteration' = iteration + (IF Script[next].op = "ITERATE" THEN 1 ELSE 0)
    /\ next' = next + 1
    /\ UNCHANGED <<pc, workerTask, indexVars, searchVars, workersActive, wakeUpMutex, locals,
                   history, stale>>

\* A worker has read a task that is over and may still act upon it.
OnItsWay(w) == /\ taskLocal[w] \notin {IDLE, SHUTDOWN}
               /\ pc[w] \in {"loadIteration", "loadLqp", "decide", "reloadIteration",
                             "reloadLqp", "dispatch"}

MarkStale == stale' = (stale \/ \E w \in Workers : OnItsWay(w))

ResetIndexTask ==
    /\ Idx!ResetTaken
    /\ MarkStale
    /\ UNCHANGED <<searchVars, poolVars>>

ResetLineSearch ==
    /\ LS!ResetTaken
    /\ MarkStale
    /\ UNCHANGED <<indexVars, poolVars>>

RunIndexTask ==
    /\ \/ Idx!ResetCompleted \/ Idx!SetKMax \/ Idx!SetKMin \/ Idx!Publish
       \/ Idx!NotifyWorkers \/ Idx!Await \/ Idx!Block \/ Idx!Finish
    /\ UNCHANGED <<searchVars, poolVars, stale>>

RunLineSearch ==
    /\ \/ LS!ResetFound \/ LS!ResetBest \/ LS!ResetProcessed \/ LS!Publish
       \/ LS!NotifyWorkers \/ LS!Await \/ LS!Block \/ LS!Finish
    /\ UNCHANGED <<indexVars, poolVars, stale>>

SpuriousMain ==
    \/ Idx!Spurious /\ UNCHANGED <<searchVars, poolVars, stale>>
    \/ LS!Spurious /\ UNCHANGED <<indexVars, poolVars, stale>>

\* shutdownRoutine: workersActive_ = false; workerTask_ = SHUTDOWN;
\* notify_all(); join()
Deactivate ==
    /\ Operation({"SHUTDOWN"})
    /\ pc' = [pc EXCEPT ![Main] = "setShutdown"]
    /\ workersActive' = FALSE
    /\ next' = next + 1
    /\ UNCHANGED <<workerTask, indexVars, searchVars, counters, wakeUpMutex, locals, history, stale>>

\* Wrong on purpose: the workers are woken up without a task.
SetNoTask ==
    /\ Goto(Main, "setShutdown", "notifyShutdown")
    /\ UNCHANGED <<workerTask, indexVars, searchVars, poolVars, history, stale>>

SetShutdown ==
    /\ Goto(Main, "setShutdown", "notifyShutdown")
    /\ workerTask' = SHUTDOWN
    /\ UNCHANGED <<indexVars, searchVars, poolVars, history, stale>>

NotifyShutdown ==
    /\ pc[Main] = "notifyShutdown"
    /\ pc' = [t \in DOMAIN pc |-> CASE t = Main -> "join"
                                    [] pc[t] = "asleep" -> "awake"
                                    [] OTHER -> pc[t]]
    /\ UNCHANGED <<workerTask, indexVars, searchVars, poolVars, history, stale>>

Join ==
    /\ Goto(Main, "join", "destroyed")
    /\ \A w \in Workers : pc[w] = "exited"
    /\ UNCHANGED <<workerTask, indexVars, searchVars, poolVars, history, stale>>

(***************************************************************************)
(* threadWork                                                              *)
(***************************************************************************)

\* A step of worker w that touches nothing but its own locals
OwnStep(w) == UNCHANGED <<workerTask, indexVars, searchVars, workersActive, counters, next,
                          history, stale>>

\* while (workersActive_)
Top(w) ==
    /\ pc[w] = "top"
    /\ pc' = [pc EXCEPT ![w] = IF workersActive THEN "loadTask" ELSE "exited"]
    /\ UNCHANGED <<wakeUpMutex, locals>> /\ OwnStep(w)

\* The three loads, before sleeping and again after waking up
LoadTask(w) ==
    /\ \/ Goto(w, "loadTask", "loadIteration")
       \/ Goto(w, "reloadTask", "reloadIteration")
    /\ taskLocal' = [taskLocal EXCEPT ![w] = workerTask]
    /\ UNCHANGED <<uniqueProcessID, iterationLocal, lqpLocal, seen, wakeUpMutex>> /\ OwnStep(w)

LoadIteration(w) ==
    /\ \/ Goto(w, "loadIteration", "loadLqp")
       \/ Goto(w, "reloadIteration", "reloadLqp")
    /\ iterationLocal' = [iterationLocal EXCEPT ![w] = iteration]
    /\ UNCHANGED <<uniqueProcessID, taskLocal, lqpLocal, seen, wakeUpMutex>> /\ OwnStep(w)

LoadLqp(w) ==
    /\ \/ Goto(w, "loadLqp", "decide")
       \/ Goto(w, "reloadLqp", "dispatch")
    /\ lqpLocal' = [lqpLocal EXCEPT ![w] = lqpCounter]
    /\ UNCHANGED <<uniqueProcessID, taskLocal, iterationLocal, seen, wakeUpMutex>> /\ OwnStep(w)

ProcessIdLocal(w) == Id!generateUniqueProcessID(iterationLocal[w], taskLocal[w], lqpLocal[w])

Decide(w) ==
    /\ pc[w] = "decide"
    /\ pc' = [pc EXCEPT ![w] = IF taskLocal[w] = IDLE \/ uniqueProcessID[w] = ProcessIdLocal(w)
                               THEN "awake" ELSE "dispatch"]
    /\ UNCHANGED <<wakeUpMutex, locals>> /\ OwnStep(w)

\* Wrong on purpose: the mutex is not taken.
PassWakeUp(w) ==
    /\ Goto(w, "awake", "test")
    /\ UNCHANGED <<wakeUpMutex, locals>> /\ OwnStep(w)

\* Taking workerWakeUpMutex_, at first or when coming back from the wait
LockWakeUp(w) ==
    /\ Goto(w, "awake", "test")
    /\ wakeUpMutex = Nobody
    /\ wakeUpMutex' = w
    /\ UNCHANGED locals /\ OwnStep(w)

\* while (workerTask_ == IDLE || same process ID as before): a load for the
\* first comparison, then one for each operand of the second, in any order
Test(w) ==
    /\ \/ Goto(w, "test", "fallAsleep") /\ workerTask = IDLE
       \/ Goto(w, "test", "load") /\ workerTask # IDLE
    /\ UNCHANGED <<wakeUpMutex, locals>> /\ OwnStep(w)

LoadOperand(w, operand) ==
    /\ pc[w] = "load" /\ seen[w][operand] = NotRead
    /\ seen' = [seen EXCEPT ![w][operand] = SharedNow[operand]]
    /\ UNCHANGED <<pc, uniqueProcessID, taskLocal, iterationLocal, lqpLocal, wakeUpMutex>>
    /\ OwnStep(w)

\* Wrong on purpose: the comparison goes by what the worker read before it slept.
SameAsLocally(w) == uniqueProcessID[w] = ProcessIdLocal(w)

SameAsBefore(w) ==
    uniqueProcessID[w] = Id!ProcessIdOf(seen[w].iteration, seen[w].task, seen[w].lqp)

Compare(w) ==
    /\ \A operand \in Operands : seen[w][operand] # NotRead
    /\ \/ Goto(w, "load", "fallAsleep") /\ SameAsBefore(w) /\ UNCHANGED wakeUpMutex
       \/ Goto(w, "load", "reloadTask") /\ ~SameAsBefore(w) /\ wakeUpMutex' = Nobody
    /\ seen' = [seen EXCEPT ![w] = NothingRead]
    /\ UNCHANGED <<uniqueProcessID, taskLocal, iterationLocal, lqpLocal>> /\ OwnStep(w)

WaitCondition(w) ==
    Test(w) \/ (\E operand \in Operands : LoadOperand(w, operand)) \/ Compare(w)

\* workerWakeUpCondition_.wait: blocks and releases the mutex at once
FallAsleep(w) ==
    /\ Goto(w, "fallAsleep", "asleep")
    /\ wakeUpMutex' = Nobody
    /\ UNCHANGED locals /\ OwnStep(w)

SpuriousWorker(w) ==
    /\ Goto(w, "asleep", "awake")
    /\ UNCHANGED <<wakeUpMutex, locals>> /\ OwnStep(w)

\* if (!workersActive_) break, and the switch over the task
Dispatch(w) ==
    /\ pc[w] = "dispatch"
    /\ pc' = [pc EXCEPT ![w] =
                 IF ~workersActive THEN "exited"
                 ELSE CASE taskLocal[w] = SHUTDOWN -> "exited"
                        [] taskLocal[w] = IDLE -> "top"
                        [] taskLocal[w] = "LINE_SEARCH" -> "takeAlpha"
                        [] OTHER -> "take"]
    /\ IF workersActive /\ taskLocal[w] \in IndexTasks
       THEN job' = [job EXCEPT ![w] = taskLocal[w]] ELSE UNCHANGED job
    /\ IF workersActive /\ taskLocal[w] \notin {IDLE, SHUTDOWN}
       THEN served' = served \cup {w} ELSE UNCHANGED served
    /\ UNCHANGED <<workerTask, kTaken, kCompleted, KMax, KMin, item, call, worked, searchVars,
                   poolVars, overlap, lost, stale>>

InIndexTask(w) ==
    /\ \/ Idx!Take(w) \/ Idx!Check(w) \/ Idx!Work(w) \/ Idx!Complete(w) \/ Idx!Exit(w)
    /\ UNCHANGED <<searchVars, poolVars, stale>>

InLineSearch(w) ==
    /\ \/ LS!Take(w) \/ LS!Check(w) \/ LS!Evaluate(w) \/ LS!GiveUp(w) \/ LS!Lock(w)
       \/ LS!Discard(w) \/ LS!Accept(w) \/ LS!Keep(w) \/ LS!Reject(w) \/ LS!Settle(w)
       \/ LS!Announce(w)
    /\ UNCHANGED <<indexVars, poolVars, stale>>

\* Wrong on purpose: what was served is forgotten.
Forget(w) ==
    /\ Goto(w, "returned", "top")
    /\ UNCHANGED <<locals, wakeUpMutex>> /\ OwnStep(w)

\* Back from the worker function: remember what was served.
Record(w) ==
    /\ Goto(w, "returned", "top")
    /\ uniqueProcessID' = [uniqueProcessID EXCEPT ![w] = ProcessIdLocal(w)]
    /\ UNCHANGED <<taskLocal, iterationLocal, lqpLocal, seen, wakeUpMutex>> /\ OwnStep(w)

--------------------------------------------------------------------------------
MainStep == \/ StartIndexTask \/ StartLineSearch \/ Count
            \/ ResetIndexTask \/ ResetLineSearch \/ RunIndexTask \/ RunLineSearch
            \/ Deactivate \/ SetShutdown \/ NotifyShutdown \/ Join

WorkerStep(w) == \/ Top(w) \/ LoadTask(w) \/ LoadIteration(w) \/ LoadLqp(w) \/ Decide(w)
                 \/ LockWakeUp(w) \/ WaitCondition(w) \/ FallAsleep(w) \/ Dispatch(w)
                 \/ InIndexTask(w) \/ InLineSearch(w) \/ Record(w)

Next == \/ MainStep \/ SpuriousMain
        \/ \E w \in Workers : WorkerStep(w) \/ SpuriousWorker(w)

Spec == Init /\ [][Next]_vars

\* Every thread that can run is run in the end and a mutex is granted in the
\* end; nothing promises a spurious wake-up.
Fairness == /\ WF_vars(MainStep)
            /\ \A w \in Workers : /\ WF_vars(WorkerStep(w))
                                  /\ SF_vars(LockWakeUp(w))
                                  /\ SF_vars(InLineSearch(w) /\ LS!Lock(w))

FairSpec == Spec /\ Fairness

--------------------------------------------------------------------------------
(***************************************************************************)
(* Properties                                                              *)
(***************************************************************************)

Undisturbed == ~overlap /\ ~stale

\* The types of the variables this module adds.
TypeOK ==
    /\ workerTask \in IndexTasks \cup {"LINE_SEARCH", IDLE, SHUTDOWN}
    /\ workersActive \in BOOLEAN
    /\ iteration \in Nat /\ lqpCounter \in Nat
    /\ wakeUpMutex \in Workers \cup {Nobody}
    /\ uniqueProcessID \in [Workers -> Nat]
    /\ taskLocal \in [Workers -> IndexTasks \cup {"LINE_SEARCH", IDLE, SHUTDOWN}]
    /\ iterationLocal \in [Workers -> Nat] /\ lqpLocal \in [Workers -> Nat]
    /\ seen \in [Workers -> [Operands -> Nat \cup {NotRead}]]
    /\ next \in 1 .. Len(Script) + 1
    /\ stale \in BOOLEAN

\* As IndexTask!AllDone, with workers that really come from threadWork: when a
\* call has returned, the stages it asked for were worked on by the function
\* it asked for, provided no worker was still on its way from an earlier call.
StagesDone == Undisturbed => Idx!AllDone

\* As LineSearchMP: the trajectories taken over are genuine and the search
\* was exhaustive.
SearchCorrect == Undisturbed => LS!GenuineResult /\ LS!SearchExhaustive

\* A worker serves a call at most once: the process ID tells it that the task
\* still on offer is the one it has just finished.
ServesOnce ==
    [][\A w \in Workers :
          (Dispatch(w) /\ Undisturbed /\ taskLocal[w] = workerTask /\ workersActive
             /\ pc'[w] \in {"take", "takeAlpha"}) => w \notin served]_vars

\* "We want to put the worker to sleep if the workerTask_ is IDLE, or we are
\* finished but workerTask_ is not yet reset, thus the process ID is still the
\* same": no worker goes to sleep on a task it has not served, unless the main
\* thread went on while the worker loaded what it compares.
SleepsWhenFinished ==
    [][\A w \in Workers :
          (Compare(w) /\ pc'[w] = "fallAsleep" /\ seen[w] = SharedNow) =>
             workerTask \in {IDLE, SHUTDOWN} \/ w \in served]_vars

\* The workers do not all sleep while the main thread waits for them, unless a
\* notification met nobody in the wait.  A worker that misses its own wake-up
\* never costs more than itself, because workerWakeUpMutex_ lets only one
\* worker be between testing and sleeping.
NoStandstill ==
    (/\ pc[Main] \in {"gap", "blocked", "gapBest", "blockedBest"}
     /\ \A w \in Workers : pc[w] = "asleep") => lost \/ ~Undisturbed

\* The main thread is not left waiting by the workers: only a notification
\* that met nobody in the wait can do that.  In particular a worker that
\* misses its wake-up never costs more than itself, because only one worker
\* can be between testing and sleeping (workerWakeUpMutex_).
CallsReturn ==
    (pc[Main] \notin {"returned", "join"})
        ~> (pc[Main] \in {"returned", "join", "destroyed"} \/ lost \/ ~Undisturbed)

\* The condition of the wait as it would be evaluated at once
NothingNew(w) == \/ workerTask = IDLE
                 \/ uniqueProcessID[w] = Id!generateUniqueProcessID(iteration, workerTask, lqpCounter)

\* When the destructor waits for the workers, at most one of them has slept
\* through the shutdown: the one that was between testing and sleeping.
AtMostOneMisses ==
    pc[Main] = "join" => Cardinality({w \in Workers : pc[w] = "asleep"}) <= 1

\* The destructor ends unless a worker sleeps through the shutdown.
ShutdownCompletes ==
    (pc[Main] = "join")
        ~> (pc[Main] = "destroyed" \/ \E w \in Workers : pc[w] = "asleep" /\ ~NothingNew(w))

\* "sleep until the state is not IDLE any more and we have a different process
\* ID than before": who sleeps while there is something new wakes up.
WakesUp == \A w \in Workers : (pc[w] = "asleep" /\ ~NothingNew(w)) ~> pc[w] # "asleep"

\* computeLQApproximation "build[s] LQ approximation around trajectory" for all
\* stages it is given, whoever of the workers does it and whatever came before.
EveryStageDone ==
    (pc[Main] = "done") => worked = Idx!WorkOf(call)

================================================================================
