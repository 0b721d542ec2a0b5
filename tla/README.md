# The Control Toolbox in TLA+

This directory models the parts of the Control Toolbox (ct) whose correctness
is a matter of *control*: what happens in which order, in which thread, at which time,
and what is relied upon afterwards. The numerics (integrators, Riccati recursions, cost
terms, Kalman filters) are real arithmetic and stay outside; they appear as data.

## 1. Inventory

The toolbox is a C++ template library in four packages. `ct_core` holds systems,
controllers, integrators, trajectories; `ct_optcon` holds optimal control
problems and their solvers; `ct_rbd` and `ct_models` hold rigid body dynamics and
robot models (numerics and generated code). A large part of the tree is a vendored copy
of CppAD and CppADCodeGen. The core logic is in `ct_optcon`:

| part | state it keeps | operations | hard because |
|---|---|---|---|
| **NLOCBackendMP** (`nloc/NLOCBackendMP-impl.hpp`) | worker threads, `workerTask_`, `kTaken_`, `kCompleted_`, `KMax_`, `KMin_`, `alphaTaken_`, `alphaBestFound_`, `alphaExpBest_`, `alphaProcessed_`, four mutexes, three condition variables | `computeLQApproximation`, `rolloutShots`, `performLineSearch`, `launchWorkerThreads`, the destructor; `threadWork` and three worker functions in each thread | threads; condition variables notified without their mutex; counters reused from call to call; a worker recognises old work by a number made of three separately read values |
| **NLOCBackendBase** (`nloc/NLOCBackendBase-impl.hpp`) | the iterate (`x_`, `u_ff_`, ...) and the previous one, `iteration_`, `lqpCounter_`, lowest costs, the LQ problem | `lineSearch`, `executeLineSearch`, the LQ problem solves, `reset`, `changeTimeHorizon`, `setInitialGuess`, the setters of the problem | counters that are part of the process ID; early exit of an evaluation that is no longer needed |
| **NLOCBackendST** | none of its own | the same operations as loops | none; it is the reference |
| **iLQR, GNMS** (`nloc/algorithms`) | none | `prepareIteration`, `finishIteration`, the MPC halves | stage ranges handed to the backend, at their boundaries |
| **NLOptConSolver** | backend, algorithm, settings | `configure`, `runIteration`, `solve`, setters | changes between iterations |
| **MPC**, **MpcTimeKeeper**, **MpcTimeHorizon** (`mpc/`) | current policy, two first-run flags, six stop watches on two clocks, the interval of the state prediction, time horizon strategies, three copies of the settings | `prepareIteration`, `finishIteration`, `resetMpc`, `updateSettings`, `setTimeHorizonStrategy`, `setInitialGuess` | time passes between and within the calls; a solve may be late or throw; several copies of the same thing |
| **StateFeedbackPolicyHandler**, **DiscreteTrajectory**, **Interpolation** | three trajectories of a policy, a cached index in each | `designWarmStartingPolicy`, `truncateSolutionFront`; `eraseFront`, `push_back`, `pop_back`; `findIndex` | one trajectory is longer than the others; the cached index outlives the data |
| **ControlSimulator** (`simulation/`) and the `MPCSimulator` of the example | two threads, a stop flag, the state, the controller, two mutexes | `simulate`, `stop`, `finish` | threads, real time, restart |
| **CppadParallel** | map from thread to number | `initParallel`, `resetParallel`, `thread_number` | table at its limit, thread ids that come back |
| **DmsProblem**, **OptVector**, **ShotContainer** and the NLP adapters (`dms/`, `nlp/`) | the optimisation vector with its update count, the spline of the controls; per shot four counts, four results and three groups of caches | `solve`; `eval_f`, `eval_grad_f`, `eval_g`, `eval_jac_g`, `eval_h` as callbacks of IPOPT or SNOPT; `changeInitialState` | everything is cached under a count; the solver decides what is asked in which order and whether a point is new; the vector is also written without being counted |
| **PhaseSequence, constraint containers, index tables of DMS** | schedules, term lists, index tables | built once, read afterwards | index arithmetic |
| **Integrators, controllers, cost functions, filters, LQR, LQ solvers** | matrices | numerical steps | not a matter of interleaving or order |

How they interact: a user (or MPC, in two halves per cycle) calls NLOptConSolver,
which runs an algorithm (iLQR or GNMS); the algorithm calls its backend for
rollouts, the LQ approximation, the solution of the LQ problem and the line
search, one after the other, from one thread. The multi-threaded backend hands
the first two and the last of them to its worker threads through shared members
and waits. MPC is called from a control loop, for example from the controller
thread of a ControlSimulator, whose other thread integrates the system and takes
over the controllers. DMS is called back by the NLP solver it has handed itself to, and
prepares its shots with an OpenMP loop. There are no messages and nothing is persisted; so crashes,
restarts and lost messages play no role. The failures that matter are lost
notifications, stale threads, reused numbers, late answers, and solvers that throw.

What makes each part correct: a backend call does *all* and *only* the work it was
called for before it returns; the line search returns a step that really
improves, with the trajectories that belong to it; a call returns; the
destructor returns; the counters keep tasks apart; MPC hands its solver a warm
start that fits, stamps policies with the time they are for, and gets to the end
of its horizon; look-ups return what a search from scratch would; the two
threads of a simulation exchange whole states and controllers, in real time;
threads that allocate at the same time have different numbers; an NLP solver is given
functions of the point it asks for.

`PROJECT.json` lists every component with its status and every hazard at the
line where it bites.

## 2. Modules

| module | models | instance of |
|---|---|---|
| `ParallelFor` | abstract: what the caller of `computeLQApproximation` and `rolloutShots` relies on | |
| `IndexTask` | those two calls and their worker functions | implements `ParallelFor` |
| `StepSearch` | abstract: what `lineSearch` relies on in `performLineSearch` | |
| `LineSearchMP` | `performLineSearch`, `lineSearchWorker`, the verdict of `executeLineSearch` | implements `StepSearch` |
| `ProcessId` | `generateUniqueProcessID` | |
| `NLOCBackendMP` | `threadWork`, waking and sleeping, the destructor; it composes `IndexTask` and `LineSearchMP` and replaces their `Dispatch` | |
| `Algorithms` | the operations iLQR and GNMS issue, as sequences | |
| `SolverTasks` | the life of a solver: iterations, their halves offline and in MPC, resets, and the process IDs its work is offered under | uses `Algorithms` |
| `DiscreteTrajectory` | `DiscreteTrajectoryBase` and `Interpolation`, as operators on a record | |
| `StateFeedbackPolicy` | `StateFeedbackPolicyHandler`, the rounding of horizons, the shape of a solution, as operators | extends `DiscreteTrajectory` |
| `MpcTimeKeeper` | `MpcTimeKeeper`, `MpcTimeHorizon`, the stop watches, as operators | |
| `MPC` | `MPC`: the state machine over the two operator modules above | extends both |
| `ControlSimulator` | `ControlSimulator` with the handlers of `MPCSimulator` | |
| `CppadParallel` | `CppadParallel` and a main thread that spawns and joins threads | |
| `NlpFunctions` | abstract: what an NLP solver expects of the functions it evaluates | |
| `ShotContainer` | `ShotContainer` and its `SensitivityIntegratorCT`, as operators on a record | |
| `DmsProblem` | `DmsProblem`, `OptVector`, the callbacks of the NLP solver, the loops over the shots | extends `ShotContainer`, implements `NlpFunctions` |
| `...Proofs` | theorems about `IndexTask`, `LineSearchMP`, `NLOCBackendMP`, `SolverTasks`, `MPC` (with the operators of `StateFeedbackPolicy`), `ControlSimulator`, `CppadParallel`, `DmsProblem` | |
| `MC...` | small instances for TLC | |

An operator whose comment says *wrong on purpose* is no part of a specification:
it is the definition next to it with a plausible bug, and shows that a property
of the runs notices that bug.

### The backend

A thread's place is `pc[t]`; every step is one access to something shared (an
atomic, a mutex, a condition variable) with the local computation around it.
`kTaken`, `kCompleted`, `KMax`, `KMin`, `workerTask`, `alphaTaken`,
`alphaBestFound`, `alphaExpBest` are the members with a trailing underscore.
`item` and `exponent` are the locals `k` and `alphaExp`. `alphaProcessed` is the
set of indices whose entry in `alphaProcessed_` is 1; the call to `clear()`
leaves the elements in place until `resize()` zeroes them, which is one step.
`resultMutex` and `wakeUpMutex` name the holder of `lineSearchResultMutex_` and
`workerWakeUpMutex_`. The mutexes of the two other condition variables are only
ever taken by the main thread, so they are left out; this is exactly why the
predicate of such a wait and its sleep are two steps here (`Await`, `Block`)
between which a worker can notify in vain.

A stage of the horizon is a number; the work on it is the pair of the function
and the stage (`worked`). `executeLQApproximation` with
`computeLinearizedConstraints`, or `rolloutSingleShot` with
`computeSingleDefect`, are one step `Work`: no other thread touches the same
stage if the properties hold, and that is what they say. The merit of a step
size is reduced to whether it is lower than the merit to beat; a search chooses
anew which step sizes improve. An evaluation that stops early yields either the
initial maximum or, past line 1120 of `NLOCBackendBase-impl.hpp`, costs without
constraint violations; this is the merit `"partial"`.

`Dispatch` in `IndexTask` and `LineSearchMP` stands for the whole of
`threadWork`: a worker reads a task that is on offer and enters its function, at
most once per call. It may do so at any later moment, so the task may be over when it
takes its first offset. `NLOCBackendMP` has the three loads, the process ID, the
sleep and the wake-up in its place. The condition of the wait is several loads too: `Test` loads
`workerTask_`, then `LoadOperand` each operand of the second process ID, in any order, because the compiler may
choose one, into `seen`, and `Compare` compares; so the ID that puts a worker to sleep can be a mixture as well. Its `Script` is the sequence of operations
the main thread works off, cut from `Algorithms`.

History variables, not in the code: `call` (arguments of the last call),
`worked`, `tried`, `served`, and three flags. `overlap` is raised when a call
resets its counters while a worker is still inside a worker function; `stale`
when it does so while a worker is on its way there with a task that is over;
`lost` when a notification arrives between the main thread's test and its sleep.

### MPC

Time is in whole ticks and passes in the action `Tick`, between any two calls and
while the solver works. A stop watch is the time since it was started
(`elapsed`, one per clock and timer), which is all the code ever reads of it; a
watch that was reset but not started reads from time zero. The caller passes the
present as external time.

A data point of a trajectory is the number of the stage it was optimised for.
`Solution(n)` is what `getSolution` returns after a solve over `n` stages.
So that a policy is on time can be said: the element for stage `i` has
to fall on `i * Dt` after the time the solver planned from (`HandOutAligned`).
`prepareIteration` is one action: no other thread touches the members it reads.
`finishIteration` is split where time passes: `beginFinishIteration` is the code up to
the call of the solver, `finishIteration` or `failIteration` (the exception of
a rollout that gets unstable) what follows. `Prediction` is the state
prediction: the stages the policy yields when it is evaluated tick by tick,
with zero-order hold and the cached index of a fresh copy. A policy that is assigned to
`currentPolicy_`, by a solve or by `setInitialGuess`, leaves the cached indices as they are (`PolicyOf`).
The first horizon is the one the solver reports, a whole number of stages (`WholeStages`).

`strategies` holds two `MpcTimeHorizon` objects because the time keeper keeps the
one it was constructed with and `setTimeHorizonStrategy` replaces only the pointer of
MPC. History variables: `handOut` (what the last call of `finishIteration` handed out),
`plan` (the policy before the warm start), `used` (what the prediction applied), `asked`.

### The simulator and CppadParallel

In `ControlSimulator`, a state is the simulated time it belongs to, and a controller is the state it was
computed from. Both are pairs because a vector is written and copied piece by
piece: a pair of different halves would be a mixture of two states. `sys` and
`ctl` are the places of the two threads. The simulator defines when handlers are
called, the example's `MPCSimulator` what they do; both are in the model.
An exception in either thread, or `simulate` while a thread is joinable, terminates
the program (`"terminated"`). A simulator is finished before it is destroyed: the destructor of the base class
joins as well, but by then the handlers of `MPCSimulator` are gone, and what its threads would call is undefined.

In `CppadParallel`, `thread_number` is five steps: being asked, locking, testing for
room and for the id, inserting with the size read before, reading and unlocking. A
thread that has ended gives its id back, so a new one may find itself in the
map. The main thread does what `AutoDiffLinearizerTest` does, and it may enter a section without having left the
one before: `initParallel` does not clear the map, only `resetParallel` does, which in turn leaves
`numThreads_` as it was. The history variable `announced` has what the sections since then were entered for.

### Direct multiple shooting

A number is not modelled, but where it comes from: `stateSubsteps`, `cost`, `discreteA` and
`discreteQ` of a shot are the sets of points that went into them, and a cache is
a sequence with one entry per rollout that was pushed onto it (the code has one per
stage of the stepper). The integrations read a cache from its front, and
`linearize` and the sensitivity integrations only ever append; so a cache that was not
cleared in time hands out the derivatives of an earlier point. `x` and `spline` are
separate, because `finalize_solution` and `changeInitialState` write the first only.

`evaluate` is a callback up to the OpenMP loop, `prepareShot` one iteration of the loop
on any thread, `combine` the rest. Iterations on different shots share only what
they read (each shot has clones of the system, the linear system and the cost function), so an iteration is one
step. `settings` chooses between the full and the simple cost and between generated code and
evaluators, for cost and constraints: functions that do not use the shots read the vector only. The Hessian is
among these; without generated code for both it is an exception (`Offered`). The
solver's side is the contract of IPOPT: a point that differs from the last one of this
solve is announced as new, and so is the first one; `SnoptSolver.cpp:337` announces every point. `asked` and
`answer` are history variables; `ImplementsNlpFunctions` says that an answer comes from
the point asked for and nothing else.

### Bounds

`kTaken_`, `kCompleted_` and `alphaTaken_` are unbounded (they are reset by every
call); `KMax_ - KMin_` and `KMax_ - k` are `size_t` differences modulo `SizeMod`,
8 in the runs, which is larger than any horizon there. The process ID is over
unbounded integers: the rounding of the double expression it is computed with
is not modelled. `MaxCount` stops `SolverTasks` from starting another call.

`MaxElapsed` is where a stop watch stands still; the assumptions on it say that it is
beyond every horizon, beyond the last stage of the longest policy, and a solve more, and the code cuts both ends of the prediction off at the horizon.
`MaxSolve` bounds the ticks a solver takes, `MaxDisturbances` the resets, failures, new
settings, guesses and strategies together. `MaxUpdates` bounds the points announced as new. `MaxRuns` bounds the calls of `simulate` and `MaxTime` what its
clock shows, which lies beyond the end of the last control step.

## 3. Runs

| run | instance | shows |
|---|---|---|
| `index_calls` | 3 workers, 3 stages in shots of 2, ranges of GNMS, calls forever | `TypeOK`, `AllDone`, `StageInRange`, the refinement of `ParallelFor`, `CallReturns` |
| `search` | 2 workers, 3 step sizes, searches forever | `GenuineResult`, `SearchExhaustive`, `ResultFrozen`, the refinement of `StepSearch`, `SearchReturns` |
| `backend_ilqr` | 2 workers in `threadWork`, one iLQR iteration up to the end of its line search, 2 step sizes | the same through the real dispatch; `NoStandstill`, `ServesOnce`, `SleepsWhenFinished` |
| `backend_destroy` | 2 workers, one LQ approximation, destructor | `CallsReturn`, `AtMostOneMisses`, `ShutdownCompletes` |
| `tasks_gnms` | GNMS with line search and HPIPM, iterations and halves, up to 16 LQ problems | `FreshProcessId` |
| `mpc` | 4 settings: one per horizon mode, both clocks, measured and fixed delays, with and without truncation; 2 horizons, one of them no whole number of stages; stages of 2 ticks; 1 disturbance anywhere | `GuessAccepted`, `PredictionInOrder`, `HandOutAligned`, `TruncationKeepsUp`, `HorizonAsAsked`, `EndReached` |
| `simulator` | control steps of 2 ticks, 2 runs of 3 or 4 ticks | `StateWhole`, `PointerSafe`, `NeverAhead`, `NoOvershoot`, `StopsSoon`, `QuietWhenFinished`, `FinishReturns` |
| `cppad` | 3 thread ids besides the main thread's, sections for 2 or 3 threads, left or not, forever | `NumbersDistinct`, `NumbersInRange` |
| `dms` | 2 shots, 2 points, all settings, 3 updates of the vector | `OneRolloutCached`, the refinement of `NlpFunctions` |
| `backend_stale` | first half of a GNMS iteration | violates `EveryStageDone` |
| `backend_wakeup` | shutdown of idle workers | violates `WakesUp` |
| `mpc_prediction` | fixed final time, external clock, a fixed delay of one tick | violates `PredictionFollowsPlan` |

`index_calls` and `search` stop at states with `overlap` (a CONSTRAINT): such
states are still checked, and the properties promise nothing after them. What
can go wrong there is shown by `backend_stale`. The other passing runs have no constraint. Most concurrency
properties of the backend speak of undisturbed calls (`overlap`, `stale`) and of notifications that met the wait
(`lost`): they say what the protocol achieves outside of these windows, and nothing about the windows
themselves. `PROJECT.json` lists such a hazard with the run that shows it, or with none.

The largest state spaces are those of `backend_ilqr` (3.1 million states) and `mpc` (1.2 million); `simulator` has 195 thousand,
`tasks_gnms` 93 thousand, `backend_destroy` 53 thousand, `dms` 17 thousand and `cppad` 3 thousand.

Why the bounds are enough: three workers are needed for one to be working, one
to be counting and one to be late; two suffice for the searches, in which an
improving step is replaced while a larger one is being evaluated. Three stages in
shots of two contain a shot of full and one of partial length and a range of a
single stage. Three step sizes contain a largest, a middle and a smallest one.
With two workers one can miss its wake-up while the other serves. `backend_ilqr`
uses symmetry among the workers (safety and action properties only), `cppad` among the thread ids.
Two ticks per stage give calls within and at the end of a stage, and horizons of
two and three stages (the second one asked for as two and a half) let a warm start shift by none, some and all of its stages,
grow and shrink. A solver of up to three ticks is later than every delay
predicted for it. One disturbance at any place of a sequence of iterations without end meets
every phase of an iteration. Durations of three and four ticks end within and at
the end of a control step; the second run starts from what the first one left. Three ids for two threads at a time
are what it takes for an id to come back and for one to come that was never announced.
Two points are one that was asked for and one to mistake it for; with three updates there is one to fill
the caches, one to return to other values, and one to notice what was left.

### Fairness

The fair specifications give every thread weak fairness: the operating system
runs what can run. Acquiring a contended mutex gets strong fairness in the backend (a mutex is
not withheld from a waiter forever); the loops of the simulator end by the clock, so
there weak fairness of each thread is enough. Nothing is assumed of spurious wake-ups, of
the user calling again, or of which step sizes improve. Under these, a call
returns *unless* a notification met nobody in the wait or a straggler interfered:
`CallReturns`, `SearchReturns` and `CallsReturn` have these disjuncts because the
code has these gaps. `EndReached` assumes that time passes, that the control loop keeps calling
MPC, and that a solver comes to an end, with a solution or not; it assumes nothing of
resets and settings, whose number is bounded. `DmsProblem` states no fairness and no liveness: when an
evaluation comes is up to the NLP solver. `FinishReturns` assumes time, the threads and the joins.

### Deviations found

Shown by a run that TLC finds violated:

1. A worker late for `rolloutShots` takes an offset of the LQ approximation that
   follows (`backend_stale`).
2. The task is published and notified without `workerWakeUpMutex_`: a worker can
   sleep through the shutdown, and the destructor never returns
   (`backend_wakeup`). The same window costs a running call only one worker,
   because the mutex lets one worker at a time stand between test and sleep.
3. The state prediction evaluates the policy that the warm start has already shifted,
   at times that are counted on the axis before the shift (`mpc_prediction`): it
   skips as many stages as were shifted.

Met while modelling, those in modelled code each visible in the definition that models it:

4. In the modes with a final time the time left is reduced by the end of the
   prediction, counted from the previous solve, on top of the time since the first
   one (`MpcTimeHorizon-impl.h:31`): the horizon can grow again from one iteration to the next,
   where `MpcSettings.h:17` says that it continuously shrinks.
5. A kept step of the line search is replaced by a smaller improving one while a
   larger one is outstanding, despite the comment at its guard
   (`NLOCBackendMP-impl.hpp:512`): the result may differ from run to run and from the
   single-threaded backend.
6. GNMS with `K_shot >= K` asks for the stages from `K_shot` to `K - 1`; the
   `size_t` range wraps (`:281`), where the loop of the single-threaded backend
   does nothing. The requests of the runs and the assumption `ProperRequests` of the theorems leave
   such a range out.
7. Workers notify the main thread without its mutex (`:290`): it can sleep on finished
   work. This is the flag `lost` in the liveness properties.
8. The recorded process ID mixes values of two calls (`:85-87`, `:167`) and can equal that of a
   later call of a GNMS iteration; in an iLQR iteration it cannot (`SleepsWhenFinished`).
9. `reset()` clears `iteration_` but not `lqpCounter_`: with GNMS and line search
   off a process ID is used twice, and all workers sleep through the second use. With line
   search it is not (`tasks_gnms`).
10. `setTimeHorizonStrategy` does not reach the time keeper (`MPC-impl.h:85`). `HorizonAsAsked`
    is therefore about the strategy MPC was constructed with.
11. A flag named `timeIsRelative` is passed for `timeIsAbsolute`
    (`StateFeedbackPolicyHandler-impl.h:65-70`): appended elements all get the stamp `dt`.
    The solver has stamps of its own, so nothing but a look-up in a
    warm start after a failed iteration sees them.
12. The first policy is stamped with a measured delay even if none is measured
    (`MPC-impl.h:261`).
13. Post-truncation cuts by the time since the last solve beyond `t_forward_stop_`. If the state
    is measured later than the preparation, this is more than the solver was late.
    `TruncationKeepsUp` is about cutting too little.
14. `MpcSettings.h:69` says that `measureDelay_` only applies with state prediction;
    `computeDelayToApply` does not ask, so the warm start is shifted all the same.
15. The residue of `control_dt_ / sim_dt_` is a number of steps but used as a
    step length (`ControlSimulator.h:108`, `:118`).
16. Beyond `numThreads_` ids, `thread_number` gives every further thread the main thread's number 0 (`CppadParallel.h:91`).
    `NumbersDistinct` is for as many as were announced. A section entered for fewer threads than one before it that
    was not left still finds that one's numbers in the map, which lie beyond its own pools
    (`initParallelImpl` does not clear `threadMap_`).
17. `DmsSolver::changeInitialState` writes the vector only (`DmsProblem.h:395-399`; the call
    that updates the constraint is commented out), and the solver starts from the initial guess and
    overwrites the vector with its first point. The constraint on the initial state stays the one from construction.
18. `changeTimeHorizon` of DMS reaches the time grid only: the shots keep the start times and
    step counts computed when they were constructed (`ShotContainer.h:124-128`). The new cost function and
    systems of `DmsSolver.h:208-232` do not reach the problem either.
19. The simple cost with a piecewise linear spline asks the time grid for the duration of a shot
    after the last one (`CostEvaluatorSimple.h:144`).

## 4. Proofs

Assumptions of every theorem are the named ones in the modules: sizes are
positive and the horizon fits `size_t`; the main thread is not a worker and
there are finitely many workers; the number of step sizes is natural; requests have a task and stages of the horizon;
a script is a sequence of the backend's operations, with such stages; the strides of the process ID keep its three parts apart;
the stage length is positive, settings pass `checkSettings`, watches run a solve longer than every horizon and policy; durations end before `MaxTime`;
thread ids are finitely many and the main thread's is not among the others; `NoPoint` is no point.

`IndexTaskProofs`, for any number of workers, stages and requests:

* `TypeCorrect`: `Spec => []TypeOK`. Inductive together with `JobKnown`: a
  worker inside a worker function knows which one.
* `WorkDone`: if the requests are proper (no range runs backwards, and a
  single stage that is rolled out begins a shot) then `Spec => []AllDone`.
  `AllDone` speaks of the end of a call only, so the invariant `Inv` says what
  holds before. `MainInv`: what the main thread has set up by the time it is where it is.
  `SetupInv`: nobody takes offsets while the counters are reset, because
  `workerTask_` is IDLE and the call is undisturbed. `ServingInv`: every offset
  below `kTaken_` is held by exactly one worker or counted; `kCompleted_` is
  the number of counted ones (`Counted`); `worked` is exactly the work at the offsets
  nobody has still to work on (`Finished`). `BeforeInv`: after the call, stragglers find no
  offset left. `FullCount` turns `kCompleted_ > KMax_ - KMin_` into "all offsets
  are counted", by cardinality; `CallComplete` draws the conclusion.
* `StagesInRange`: from the same `Inv`, under the same condition, no worker of an undisturbed call leaves the
  horizon.
* `Refinement`: under the same condition, `Spec => ImplementsParallelFor`. A worker's `Work` adds one
  piece to `worked` (`WorkDoesOne`) and maps to a step of `ParallelFor`, the return of the main thread maps to its
  return, by `CallComplete`, and everything else stutters (`StepRefines`).

`LineSearchMPProofs`, for any number of workers and step sizes and any sequence
of searches:

* `TypeCorrect`: `Spec => []TypeOK`, with the range of a checked exponent, so
  that `alphaProcessed_` is never indexed beyond its size.
* `ResultFinal`: `Spec => ResultFrozen`. Testing `alphaBestFound_` (`Accept`) and
  writing the result (`Keep`) are two steps; `MutexInv` (who is between locking
  and unlocking `lineSearchResultMutex_` holds it) keeps the flag from being set
  between them (`KeepInv`).
* `ResultGenuine` and `NoStepForgotten`: `Spec => []GenuineResult` and
  `Spec => []SearchExhaustive`. Both speak of undisturbed searches (`~overlap`).
  The invariant follows the phases of a search: `BeforeInv` (a worker left over
  finds the search settled), `SetupInv` (nobody is in the search while it is
  reset), `FreshInv` (what has been reset so far), then, while it is open,
  `MeritInv` (what a worker brings from its evaluation is the complete merit of
  a step that was tried) and `ProcessedInv` (a processed step was tried, and none
  of the improving ones is forgotten), and once it is settled `SettledInv`;
  `ResultInv` ties `alphaExpBest_` to the trajectories.
* `Refinement`: `Spec => ImplementsStepSearch`. What is needed besides the above: a step size
  that a worker holds and has not evaluated was evaluated by nobody (`TriedInv`, because
  `alphaTaken_` hands it out once), and none was when the search is published
  (`NoneTriedInv`).

`IndexTaskProofs` and `LineSearchMPProofs` each end with the steps of a larger system: their
invariants also survive a worker's entry by any other way than their own `Dispatch`, everything that happens
elsewhere, and a reset under a worker that is not done, as long as it raises the flag.

`NLOCBackendMPProofs`, for any number of workers, step sizes and any script:

* `TypeCorrect`: `Spec => []TypeOK`, with `TaskInv`: the place of the main thread tells what is on offer.
* `CallsComplete` (`StagesDone`) and `SearchesCorrect` (`SearchCorrect`). The modules with the proofs of the
  two parts are instantiated with this system as one part sees it: a thread that is elsewhere
  is `"returned"`, a task of others is IDLE, and the flag is `overlap \/ stale`. Their invariants
  are carried through every step of `threadWork` and of the main thread by the lemmas just
  named. `WayInv` is what `threadWork` contributes: who is on its way into a worker function read
  the task that is on offer, or a task that is over, whose reset would raise `stale`.
* `OneMissesTheShutdown` (`AtMostOneMisses`). Who is between its test and its sleep holds
  `workerWakeUpMutex_` (`WakeUpInv`); a recorded ID is never that of a shutdown (`IdInv`), so
  who gets to test after the shutdown was published does not fall asleep.
* `NobodyServesTwice` (`ServesOnce`). The three values a worker read belong to the
  task on offer (`CurrentInv`), so the ID it recorded when it served is the current one (`ServedInv`), and it is turned
  away.
* `SomebodyIsAwake` (`NoStandstill`). When the main thread waits and all workers sleep, at least one of
  them was asleep when the notification came or tested after it, and was not turned away because
  its recorded ID is that of no later offer (`FreshInv`, `IdUnique`): so it served (`MissesInv`: the mutex lets only one fall
  asleep unseen). Who leaves a worker function does so because the work is
  handed out (`LeftInv`), and the last one to count it tells the main thread (`TellInv`; for the search
  `TakenInv` follows the step sizes until all are judged).

* `SleepsOnlyWhenFinished` (`SleepsWhenFinished`), for scripts that offer each task once (`OfferedOnce`), as one iLQR
  iteration does, and with calls that disturb each other as they like. What a worker has read was on offer, and what it
  remembers it served then (`SoleInv`); by `IdUnique` it is put to sleep by that only. For any number of iterations a straggler
  can take the counters of a later offer with the task of an earlier one, so `SleepsOnWhatItServed` says
  the same of undisturbed calls and offers that are apart. Both are about a comparison whose operands are what is
  shared at that moment; a worker whose operands are out of date may fall asleep on a mixture of two offers, and is then a
  worker that missed its wake-up.

`SomebodyIsAwake` has hypotheses, each of which the code needs. *Two workers*: one alone can miss the notification.
*A step size* (`MaxIterations # 0`): with none nobody ever sets `alphaBestFound_`. *`IterationsFit`*: the
script has fewer operations than two tasks are apart in the process ID (10e6). *`OffersApart`*: between two
offers of the same task there is another offer and then a counter that goes up. iLQR's scripts have
this form unless the horizon is a single stage, which leaves only searches to offer: `SolveFits` proves it of the
operations `Algorithms` gives for any number of iterations with line search (`SolveOf`: place `4 i + j` of the script is operation `j` of iteration
`i`), together with `ProperRequests`, and `OfferedOnce` for one iteration. `ILQRNeverStands` is then `SomebodyIsAwake` for iLQR
without a hypothesis on the script but its length. GNMS's do not: from its second iteration on two LQ approximations have only a count between
them, and a worker that reads the first task together with the second count records the ID of the
second call without having served it (deviation 8). Then `NoStandstill` holds as long
as another worker does serve it; the theorem does not say so, the runs do not show it.

`SolverTasksProofs`: `FreshIds` (`FreshProcessId`), for any horizon, shot length, number of stages and order of
iterations, their halves and resets. `reset()` clears `iteration_`, so only `lqpCounter_` can keep two offers of a task
apart. A call is a *proper* sequence of operations if between two offers of a task there is a count (`Separated`),
after a task that can begin a call there is one (`Closed`), and before a task that cannot, too (`Opened`).
`CallsProper` puts the sequences of the two algorithms together operation by operation (`Prefix`); a proper sequence after a proper one is proper
(`ProperConcat`). The invariant `FreshInv` then says of a call in progress: what is offered next, before any count, was
not offered under the present count. The hypothesis `Distinguishing` (iLQR, or a line search) is what the code needs: without line search
GNMS rolls out in its place, and the next call may begin with a rollout under the same count (deviation 9).

`MPCProofs` begins with the operators on policies, for every stage length:

* `FindIndexIsIndexOf`: on sorted stamps, `findIndex` answers what a search from
  scratch would, whatever index was cached.
* `WarmStartShaped`: from a policy of `n` stages of any stamps,
  `designWarmStartingPolicy` makes one of exactly the stages of the new horizon, and one
  reference state more. The shift is less than the number of stages, so something is left to
  repeat. `TruncationShaped` says the same of `truncateSolutionFront`.

Then, for any settings, horizons and bounds:

* `WarmStartFits` (`GuessAccepted`), `PredictionOrdered` (`PredictionInOrder`) and `HorizonGranted` (`HorizonAsAsked`).
  The inductive invariant `IInv` has the types of what
  the calls decide by (`Typed`); `PolicyShaped`: the current policy has the shape for *some* number
  of stages at any time, also after a failure or a reset in between, which is what
  the two lemmas on the policy handler need; `Mirrored`: the
  first-run flags of MPC and of its time keeper agree and, until the strategy is replaced, the
  strategy has the settings of MPC and the horizon asked for.
  That the prediction ends within the horizon of the policy it follows needs more than the cut-off at the solver's
  horizon (`NewTimingsCutOff`): between the calls the policy must not come to cover less than that horizon. `Covers` says that it
  covers it, counting what was cut off at its front (`Reach`), which erasing and truncating do not change
  (`ErasedReach`, `TruncatedReach`), and each call keeps it (`PrepareCovers`, `FinishCovers`, `OtherCovers`).
* `StampsAligned` (`HandOutAligned`) and `TruncationInTime` (`TruncationKeepsUp`), from `IInv` and `StampInv`. A policy as the
  solver returns it has stage `i` at `i * Dt`; truncation cuts the same number of stages from all three trajectories and moves their
  stamps by as much (`TruncatedOnTime`), never further than the last stage and never less than the lateness
  rounded down to a stage (`ShiftReaches`). What the code adds to the time stamp is that number. That it is enough needs `Paced`: while an iteration lasts, the watch since the last solve shows the start of the
  prediction and the time the solver has taken, because it was read for the former and nothing restarts it.
* `TypeCorrect` (`TypeOK`). The prediction applies a stage per tick of its interval (`Predicted`): `PredictionIs` unfolds the
  recursion of the look-ups, whose cached index stays inside the policy.

`ControlSimulatorProofs`, for any control step and durations: `TypeCorrect`, `StatesWhole`, `PointersSafe`,
`RealTime`, `EndsInTime`, `StopsPromptly`, `FinishedIsQuiet`. The invariant: a thread
between locking and unlocking is the holder (`MutexesHeld`), so that what is half written or half read is
seen by nobody else (`Whole`); the state belongs to a time the clock has passed and
was begun before the end (`InTime`); a thread that has tested `stop_` before it was
set completes one iteration (`Stopping`); who has joined has seen both
threads end (`Joined`).

`CppadParallelProofs`, for any ids and sizes: `TypeCorrect`, `DistinctNumbers`, `NumbersInBounds`. Only the
holder of the mutex is between the test and the insertion, so the size it inserts is still that of the map; numbers
in the map are therefore different and below its size, except the zeros
given out once the map is full. It is full for the size of a section in `announced`, which the map outlives.

The types of `CppadParallel` and `DmsProblem` are proved only; no run lists them.

`DmsProblemProofs`, for any shots, points, settings and number of updates: `TypeCorrect`, `CachesBounded`
(`OneRolloutCached`) and `Refinement` (`ImplementsNlpFunctions`). The invariant says of each shot what its
counts stand for (`CountsVouch`): a count that equals the update count vouches for its result and for the
caches that result was computed from, one that does not for empty caches, so that appending to
them gives one rollout. It is relative to the point the *spline* was computed from: the vector is
overwritten between solves, and what makes the counts valid again is that vector, spline and solver agree from
the first evaluation of a solve on (`PointAgreed`). Each operation of a shot has a lemma that it keeps `CountsVouch` and brings its
result up to date; `LoopDone` carries the results of the shots done so far through the loop.

Only model-checked: everything temporal under fairness (`CallReturns`, `SearchReturns`, `CallsReturn`,
`ShutdownCompletes`, `EndReached`, `FinishReturns`), which is out of this prover's reach.

## 5. Not modelled

* Numerics: integrators, linearizers, cost terms, filters, Riccati recursions, LQR. They have no control
  state; their correctness is a matter of real arithmetic.
* Vendored code (CppAD, CppADCodeGen) and generated code (the derivatives and
  transforms of the robot models). It is by far the larger part of the tree: straight-line arithmetic without state, some
  files of tens of thousands of lines. The modules here therefore stand for a small share of all lines,
  and for nearly all of those that run concurrently, keep time, or
  depend on the order of calls.
* Tables built once and read afterwards: phase sequences, constraint containers, the
  indices and sparsity of DMS. Of DMS also the time grid, the exception of a Hessian without generated code, and
  SNOPT's callback, which asks for what IPOPT's ask for.
* The setters that replace a system, cost function or constraint in all instances; the element-wise data race
  on `x_prev_` after a search; exceptions thrown inside a worker function (they
  terminate the program).
* Of MPC: cold start, custom policy handlers, a separate controller for the prediction, delay
  multipliers other than 1, the statistics printed at the end. Of the simulator: the residue step, subclasses other
  than `MPCSimulator`, of which the repository has none, and a destructor that finds a thread running
  (`ControlSimulator.h:71`). Of trajectories: linear
  interpolation.
