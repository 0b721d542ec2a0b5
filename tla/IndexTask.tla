------------------------------- MODULE IndexTask -------------------------------
(****************************************************************************)
(* NLOCBackendMP::computeLQApproximation and ::rolloutShots, with the two   *)
(* worker functions they hand the stages to, computeLQProblemWorker and     *)
(* rolloutShotWorker.  The two pairs are the same code around a different   *)
(* unit of work: the caller resets the shared counters, publishes the task, *)
(* wakes the workers and sleeps; a worker takes offsets with kTaken_++,     *)
(* works on stage KMax_ - k and counts it in kCompleted_.                   *)
(*                                                                          *)
(* One step is one access to a shared variable.  The call sequence is left  *)
(* open: the main thread issues any of Requests, again and again.  How a    *)
(* worker gets into a worker function (threadWork) is reduced here to       *)
(* Dispatch; module NLOCBackendMP replaces it by the code of threadWork.    *)
(****************************************************************************)
EXTENDS Integers, FiniteSets

CONSTANTS Workers,       \* settings_.nThreads worker threads
          Main,          \* the thread that runs the solver
          K,             \* the number of stages, K_
          StepsPerShot,  \* getNumStepsPerShot()
          Requests,      \* the calls: records [task, first, last]
          SizeMod        \* 2^w, w the width of size_t

LQ      == "COMPUTE_LQ_PROBLEM"
ROLLOUT == "ROLLOUT_SHOTS"
IDLE    == "IDLE"
Tasks   == {LQ, ROLLOUT}

NoRequest == [task |-> IDLE, first |-> 0, last |-> 0]

ASSUME SizesAssumption ==
    /\ K \in Nat \ {0}
    /\ StepsPerShot \in Nat \ {0}
    /\ SizeMod \in Nat /\ SizeMod > K
ASSUME ThreadsAssumption == Main \notin Workers /\ IsFiniteSet(Workers)
ASSUME RequestsAssumption ==
    Requests \subseteq [task : Tasks, first : 0 .. K, last : 0 .. K - 1]

VARIABLES pc,          \* where each thread is
          workerTask,  \* workerTask_
          kTaken,      \* kTaken_: offsets handed out
          kCompleted,  \* kCompleted_: offsets counted as done
          KMax, KMin,  \* KMax_, KMin_: the range of the call
          item,        \* k, local to a worker
          job,         \* the worker function a worker is in
          call,        \* the arguments of the call being served, or served last
          worked,      \* history: <<task, stage>> worked on since that call
          served,      \* history: workers that were dispatched to this call
          overlap,     \* history: counters were reset under a worker's feet
          lost         \* history: a notification found nobody waiting yet

counters == <<kTaken, kCompleted, KMax, KMin>>
history  == <<call, worked, served, overlap, lost>>
vars     == <<pc, workerTask, counters, item, job, history>>

Threads == Workers \cup {Main}

--------------------------------------------------------------------------------
\* Units of work

\* size_t difference
Minus(a, b) == (a - b) % SizeMod

\* KMax_ - KMin_
Span == Minus(KMax, KMin)

\* A rollout worker only works on the stages where a shot begins.
HasWork(task, k) == task = ROLLOUT => k % StepsPerShot = 0

\* computeLQApproximation calls initializeCostToGo() first if the range
\* reaches the last stage: that is the terminal stage K.
Terminal(r) == IF r.task = LQ /\ r.last = K - 1 THEN {<<LQ, K>>} ELSE {}

WorkOf(r) == {<<r.task, k>> : k \in {i \in r.first .. r.last : HasWork(r.task, i)}}
                \cup Terminal(r)

\* The places between a worker's decision to take an offset and its last
\* access to what belongs to that offset's call.
InLoop == {"take", "check", "work", "complete"}

--------------------------------------------------------------------------------
Init ==
    /\ pc = [t \in Threads |-> "returned"]
    /\ workerTask = IDLE
    /\ kTaken = 0 /\ kCompleted = 0 /\ KMax = 0 /\ KMin = 0
    /\ item = [w \in Workers |-> 0]
    /\ job = [w \in Workers |-> IDLE]
    /\ call = NoRequest /\ worked = {} /\ served = {}
    /\ overlap = FALSE /\ lost = FALSE

Goto(t, from, to) == pc[t] = from /\ pc' = [pc EXCEPT ![t] = to]

(***************************************************************************)
(* The main thread                                                         *)
(***************************************************************************)

\* firstIndex == lastIndex: "don't wake up workers, but do single-threaded
\* computation for that single index, and return".  The rollout is done
\* whether or not a shot begins there.
CallSingle(r) ==
    /\ pc[Main] = "returned"
    /\ r.first = r.last
    /\ call' = r
    /\ worked' = {<<r.task, r.first>>} \cup Terminal(r)
    /\ UNCHANGED <<pc, workerTask, counters, item, job, served, overlap, lost>>

CallParallel(r) ==
    /\ Goto(Main, "returned", "resetTaken")
    /\ r.first # r.last
    /\ call' = r
    /\ worked' = Terminal(r)
    /\ UNCHANGED <<workerTask, counters, item, job, served, overlap, lost>>

ResetTaken ==
    /\ Goto(Main, "resetTaken", "resetCompleted")
    /\ kTaken' = 0
    /\ overlap' = (overlap \/ \E w \in Workers : pc[w] \in InLoop)
    /\ UNCHANGED <<workerTask, kCompleted, KMax, KMin, item, job, call, worked, served, lost>>

ResetCompleted ==
    /\ Goto(Main, "resetCompleted", "setKMax")
    /\ kCompleted' = 0
    /\ UNCHANGED <<workerTask, kTaken, KMax, KMin, item, job, history>>

\* Wrong on purpose: the range is one stage too long.
SetKMaxTooFar ==
    /\ Goto(Main, "setKMax", "setKMin")
    /\ KMax' = call.last + 1
    /\ UNCHANGED <<workerTask, kTaken, kCompleted, KMin, item, job, history>>

SetKMax ==
    /\ Goto(Main, "setKMax", "setKMin")
    /\ KMax' = call.last
    /\ UNCHANGED <<workerTask, kTaken, kCompleted, KMin, item, job, history>>

SetKMin ==
    /\ Goto(Main, "setKMin", "publish")
    /\ KMin' = call.first
    /\ UNCHANGED <<workerTask, kTaken, kCompleted, KMax, item, job, history>>

\* workerTask_ = ...
Publish ==
    /\ Goto(Main, "publish", "notify")
    /\ workerTask' = call.task
    /\ served' = {}
    /\ UNCHANGED <<counters, item, job, call, worked, overlap, lost>>

\* workerWakeUpCondition_.notify_all(): whoever sleeps is awake again.
NotifyWorkers ==
    /\ pc[Main] = "notify"
    /\ pc' = [t \in Threads |-> CASE t = Main -> "await"
                                  [] pc[t] = "asleep" -> "awake"
                                  [] OTHER -> pc[t]]
    /\ UNCHANGED <<workerTask, counters, item, job, history>>

\* Wrong on purpose: the caller does not wait for the last stage.
AwaitAllButOne ==
    /\ pc[Main] = "await"
    /\ pc' = [pc EXCEPT ![Main] = IF kCompleted >= Span THEN "done" ELSE "gap"]
    /\ UNCHANGED <<workerTask, counters, item, job, history>>

\* The predicate of kCompletedCondition_.wait
Await ==
    /\ pc[Main] = "await"
    /\ pc' = [pc EXCEPT ![Main] = IF kCompleted > Span THEN "done" ELSE "gap"]
    /\ UNCHANGED <<workerTask, counters, item, job, history>>

\* The wait begins.  No worker ever takes kCompletedMutex_, so between the
\* predicate and this step anything may happen.
Block ==
    /\ Goto(Main, "gap", "blocked")
    /\ UNCHANGED <<workerTask, counters, item, job, history>>

\* A condition variable may wake up without a notification.
Spurious ==
    /\ Goto(Main, "blocked", "await")
    /\ UNCHANGED <<workerTask, counters, item, job, history>>

\* workerTask_ = IDLE, and the call returns.
Finish ==
    /\ Goto(Main, "done", "returned")
    /\ workerTask' = IDLE
    /\ UNCHANGED <<counters, item, job, history>>

(***************************************************************************)
(* A worker                                                                *)
(***************************************************************************)

\* threadWork has seen a task it has not served yet and calls its worker
\* function.  The task may be withdrawn before the function takes an offset.
Dispatch(w) ==
    /\ Goto(w, "returned", "take")
    /\ workerTask \in Tasks
    /\ w \notin served
    /\ job' = [job EXCEPT ![w] = workerTask]
    /\ served' = served \cup {w}
    /\ UNCHANGED <<workerTask, counters, item, call, worked, overlap, lost>>

\* k = kTaken_++
Take(w) ==
    /\ Goto(w, "take", "check")
    /\ item' = [item EXCEPT ![w] = kTaken]
    /\ kTaken' = kTaken + 1
    /\ UNCHANGED <<workerTask, kCompleted, KMax, KMin, job, history>>

\* Wrong on purpose: one offset too many is worked on.
CheckTooLate(w) ==
    /\ pc[w] = "check"
    /\ pc' = [pc EXCEPT ![w] = IF item[w] > Span + 1 THEN "exit" ELSE "work"]
    /\ UNCHANGED <<workerTask, counters, item, job, history>>

\* if (k > KMax_ - KMin_)
Check(w) ==
    /\ pc[w] = "check"
    /\ pc' = [pc EXCEPT ![w] = IF item[w] > Span THEN "exit" ELSE "work"]
    /\ UNCHANGED <<workerTask, counters, item, job, history>>

\* The stage an offset stands for: KMax_ - k
Stage(w) == Minus(KMax, item[w])

\* executeLQApproximation and computeLinearizedConstraints on the stage, or
\* rolloutSingleShot and computeSingleDefect
Work(w) ==
    /\ Goto(w, "work", "complete")
    /\ worked' = IF HasWork(job[w], Stage(w)) THEN worked \cup {<<job[w], Stage(w)>>}
                                              ELSE worked
    /\ UNCHANGED <<workerTask, counters, item, job, call, served, overlap, lost>>

\* kCompleted_++
Complete(w) ==
    /\ Goto(w, "complete", "take")
    /\ kCompleted' = kCompleted + 1
    /\ UNCHANGED <<workerTask, kTaken, KMax, KMin, item, job, history>>

\* kCompletedCondition_.notify_all(), without kCompletedMutex_
NotifyMain(w, to) ==
    /\ pc' = [pc EXCEPT ![w] = to, ![Main] = IF @ = "blocked" THEN "await" ELSE @]
    /\ lost' = (lost \/ pc[Main] = "gap")

\* Wrong on purpose: the worker returns without notifying.
ExitSilently(w) ==
    /\ Goto(w, "exit", "returned")
    /\ item' = [item EXCEPT ![w] = 0] /\ job' = [job EXCEPT ![w] = IDLE]
    /\ UNCHANGED <<workerTask, counters, history>>

\* No offset was left: notify if all are counted, and return.  The locals die.
Exit(w) ==
    /\ pc[w] = "exit"
    /\ IF kCompleted > Span
       THEN NotifyMain(w, "returned")
       ELSE Goto(w, "exit", "returned") /\ UNCHANGED lost
    /\ item' = [item EXCEPT ![w] = 0] /\ job' = [job EXCEPT ![w] = IDLE]
    /\ UNCHANGED <<workerTask, counters, call, worked, served, overlap>>

--------------------------------------------------------------------------------
MainWork == \/ ResetTaken \/ ResetCompleted \/ SetKMax \/ SetKMin
            \/ Publish \/ NotifyWorkers \/ Await \/ Block \/ Finish

Call == \E r \in Requests : CallSingle(r) \/ CallParallel(r)

WorkerFunction(w) == Take(w) \/ Check(w) \/ Work(w) \/ Complete(w) \/ Exit(w)

Next == \/ Call \/ MainWork \/ Spurious
        \/ \E w \in Workers : Dispatch(w) \/ WorkerFunction(w)

Spec == Init /\ [][Next]_vars

\* The operating system runs every thread that can run.  Nothing makes the
\* caller call again, and nothing promises a spurious wake-up.
Fairness == /\ WF_vars(MainWork)
            /\ \A w \in Workers : WF_vars(Dispatch(w) \/ WorkerFunction(w))

FairSpec == Spec /\ Fairness

--------------------------------------------------------------------------------
(***************************************************************************)
(* Properties                                                              *)
(***************************************************************************)

MainPlaces   == {"returned", "resetTaken", "resetCompleted", "setKMax", "setKMin",
                 "publish", "notify", "await", "gap", "blocked", "done"}
WorkerPlaces == InLoop \cup {"returned", "exit"}

\* The types of the variables.
TypeOK ==
    /\ pc \in [Threads -> MainPlaces \cup WorkerPlaces]
    /\ pc[Main] \in MainPlaces
    /\ \A w \in Workers : pc[w] \in WorkerPlaces
    /\ workerTask \in Tasks \cup {IDLE}
    /\ kTaken \in Nat /\ kCompleted \in Nat
    /\ KMax \in 0 .. K - 1 /\ KMin \in 0 .. K
    /\ item \in [Workers -> Nat]
    /\ job \in [Workers -> Tasks \cup {IDLE}]
    /\ call \in Requests \cup {NoRequest}
    /\ worked \subseteq Tasks \X (0 .. SizeMod)
    /\ served \subseteq Workers
    /\ overlap \in BOOLEAN /\ lost \in BOOLEAN

\* When computeLQApproximation or rolloutShots has seen its work counted, and
\* from then on until the next call, the stages worked on are exactly those
\* that were asked for, with the function that was asked for: kCompleted_ is
\* not raised before the work, by no worker twice, nor for another stage.
AllDone ==
    (pc[Main] \in {"done", "returned"} /\ call # NoRequest /\ ~overlap)
        => worked = WorkOf(call)

\* No stage is out of the range of the LQ problem's arrays when a worker
\* of an undisturbed call gets to it (the assertions in
\* executeLQApproximation).
StageInRange == ~overlap => \A w \in Workers : pc[w] = "work" => Stage(w) < K

PF == INSTANCE ParallelFor WITH busy <- pc[Main] # "returned", request <- call,
                                done <- worked

\* The multi-threaded call does what a sequential loop does, in any order:
\* every step of the threads is a step of ParallelFor (in particular no unit
\* of work is done twice), unless a call found a worker of an earlier call
\* still taking offsets.
ImplementsParallelFor == PF!Init /\ [][PF!Next \/ overlap']_(PF!vars)

\* A call returns, unless a notification met nobody in the wait or an earlier
\* call's worker interfered: the last worker to count its stage sees the full
\* count and wakes the caller.
CallReturns == (pc[Main] # "returned") ~> (pc[Main] = "returned" \/ lost \/ overlap)

================================================================================
