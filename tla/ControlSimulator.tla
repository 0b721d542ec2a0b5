---------------------------- MODULE ControlSimulator ----------------------------
(****************************************************************************)
(* core::ControlSimulator with the handlers MPCSimulator gives it: a thread *)
(* that integrates the controlled system in real time, a thread that        *)
(* computes controllers from the state it finds, and the user who starts,   *)
(* stops and joins them.                                                    *)
(*                                                                          *)
(* Time is in ticks since sim_start_time_.  A state is not its value but    *)
(* the simulated time it belongs to; since x_ is written and read piece by  *)
(* piece, it is a pair.  A controller is the state it was computed from.    *)
(* sim_dt divides control_dt.                                               *)
(****************************************************************************)
EXTENDS Integers

CONSTANTS ControlDt,   \* control_dt_, in ticks
          Durations,   \* durations the user simulates
          MaxRuns,     \* bound on the calls of simulate
          MaxTime      \* bound on what the clock shows

ASSUME TimesAssumption ==
    /\ ControlDt \in Nat \ {0} /\ MaxRuns \in Nat
    /\ Durations \subseteq Nat \ {0}
    /\ MaxTime \in Nat /\ \A d \in Durations : d + ControlDt <= MaxTime

VARIABLES user,        \* where the user is
          runs,        \* calls of simulate so far
          now, duration, stop,
          sys, ctl,    \* where the two threads are
          wallTime,    \* of the system thread: the time its state has reached
          x,           \* x_
          stateMtx, controlMtx,
          seen,        \* of the control thread: x_temp
          controller,  \* controller_
          applied,     \* the controller of system_
          sinceStop    \* history: states and controllers written since stop()

clocks    == <<runs, duration, stop>>
simulated == <<wallTime, x>>
control   == <<seen, controller, applied>>
mutexes   == <<stateMtx, controlMtx>>
vars      == <<user, clocks, now, sys, ctl, simulated, mutexes, control, sinceStop>>

Free     == "free"
At(t)    == <<t, t>>
States   == (0 .. MaxTime) \X (0 .. MaxTime)
NoState  == <<-1, -1>>   \* the controller the user set up without a state
Joining  == {"joinSystem", "joinController"}
Running  == user # "terminated"

--------------------------------------------------------------------------------
Init ==
    /\ user = "idle" /\ runs = 0
    /\ now = 0 /\ duration = 0 /\ stop = FALSE
    /\ sys = "none" /\ ctl = "none"
    /\ wallTime = 0 /\ x = At(0)
    /\ stateMtx = Free /\ controlMtx = Free
    /\ seen = NoState /\ controller = NoState /\ applied = NoState
    /\ sinceStop = [states |-> 0, controllers |-> 0]

(***************************************************************************)
(* The user                                                                *)
(***************************************************************************)
simulate(d) ==
    /\ user = "idle" /\ user' = "simulating"
    /\ runs < MaxRuns /\ runs' = runs + 1
    /\ stop' = FALSE /\ duration' = d /\ now' = 0
    /\ x' = At(0) /\ wallTime' = 0
    /\ sys' = "test" /\ ctl' = "test"
    /\ sinceStop' = [states |-> 0, controllers |-> 0]
    /\ UNCHANGED <<mutexes, control>>

\* Assigning to a std::thread that was not joined terminates the program.
simulateTwice ==
    /\ user = "simulating" /\ user' = "terminated"
    /\ runs < MaxRuns
    /\ UNCHANGED <<clocks, now, sys, ctl, simulated, mutexes, control, sinceStop>>

\* From any thread, at any time
Stop ==
    /\ Running /\ ~stop
    /\ stop' = TRUE
    /\ UNCHANGED <<user, runs, duration, now, sys, ctl, simulated, mutexes, control, sinceStop>>

\* Wrong on purpose: only the system thread is waited for.
finishSystemOnly ==
    /\ \/ user = "simulating" /\ user' = "joinSystem"
       \/ user = "joinSystem" /\ sys = "ended" /\ user' = "idle"
    /\ UNCHANGED <<clocks, now, sys, ctl, simulated, mutexes, control, sinceStop>>

\* finish(): one join after the other.  A simulator that is destroyed has
\* been finished before.
finish ==
    /\ \/ user = "simulating" /\ user' = "joinSystem"
       \/ user = "joinSystem" /\ sys = "ended" /\ user' = "joinController"
       \/ user = "joinController" /\ ctl = "ended" /\ user' = "idle"
    /\ UNCHANGED <<clocks, now, sys, ctl, simulated, mutexes, control, sinceStop>>

(***************************************************************************)
(* simulateSystem                                                          *)
(***************************************************************************)
SystemGoes(from, to)  == Running /\ sys = from /\ sys' = to
ControlGoes(from, to) == Running /\ ctl = from /\ ctl' = to

\* Wrong on purpose: stop_ is not tested, or a step begins at the very end.
LoopOnRegardless == now < duration
LoopOnAtTheEnd   == now <= duration /\ ~stop

LoopOn == now < duration /\ ~stop

testSystem ==
    /\ SystemGoes("test", IF LoopOn THEN "integrate" ELSE "ended")
    /\ UNCHANGED <<user, clocks, now, ctl, simulated, mutexes, control, sinceStop>>

\* Wrong on purpose: the thread never sleeps, or wakes up a tick early.
StepIsAlwaysDue == TRUE
StepIsNearlyDue == now + 1 >= wallTime + ControlDt

\* The integration takes its time.  If it is too slow the thread goes on at
\* once, otherwise it sleeps until the time the state belongs to.
StepIsDue == now >= wallTime + ControlDt

integrate ==
    /\ SystemGoes("integrate", "lockState")
    /\ StepIsDue
    /\ wallTime' = wallTime + ControlDt
    /\ UNCHANGED <<user, clocks, now, ctl, x, mutexes, control, sinceStop>>

\* Wrong on purpose: the mutex is not waited for.
lockStateAnyway ==
    /\ SystemGoes("lockState", "writeState")
    /\ stateMtx' = "system"
    /\ UNCHANGED <<user, clocks, now, ctl, simulated, controlMtx, control, sinceStop>>

lockState ==
    /\ SystemGoes("lockState", "writeState")
    /\ stateMtx = Free /\ stateMtx' = "system"
    /\ UNCHANGED <<user, clocks, now, ctl, simulated, controlMtx, control, sinceStop>>

Later == [sinceStop EXCEPT !.states = IF stop THEN @ + 1 ELSE @]

writeState ==
    /\ \/ /\ SystemGoes("writeState", "writeRest")
          /\ x' = [x EXCEPT ![1] = wallTime]
          /\ UNCHANGED <<stateMtx, sinceStop>>
       \/ /\ SystemGoes("writeRest", "lockControl")
          /\ x' = [x EXCEPT ![2] = wallTime]
          /\ stateMtx' = Free
          /\ sinceStop' = Later
    /\ UNCHANGED <<user, clocks, now, ctl, wallTime, controlMtx, control>>

\* Wrong on purpose: the mutex is not waited for.
lockControlAnyway ==
    /\ SystemGoes("lockControl", "setController")
    /\ controlMtx' = "system"
    /\ UNCHANGED <<user, clocks, now, ctl, simulated, stateMtx, control, sinceStop>>

\* finishSystemIteration: system_->setController(controller_)
lockControl ==
    /\ SystemGoes("lockControl", "setController")
    /\ controlMtx = Free /\ controlMtx' = "system"
    /\ UNCHANGED <<user, clocks, now, ctl, simulated, stateMtx, control, sinceStop>>

setController ==
    /\ SystemGoes("setController", "test")
    /\ applied' = controller
    /\ controlMtx' = Free
    /\ UNCHANGED <<user, clocks, now, ctl, simulated, stateMtx, seen, controller, sinceStop>>

SystemThread ==
    testSystem \/ integrate \/ lockState \/ writeState \/ lockControl \/ setController

(***************************************************************************)
(* simulateController                                                      *)
(***************************************************************************)

testController ==
    /\ ControlGoes("test", IF LoopOn THEN "prepare" ELSE "ended")
    /\ UNCHANGED <<user, clocks, now, sys, simulated, mutexes, control, sinceStop>>

\* prepareControllerIteration: MPC prepares itself without the state.
prepare ==
    /\ ControlGoes("prepare", "awaitState")
    /\ UNCHANGED <<user, clocks, now, sys, simulated, mutexes, control, sinceStop>>

\* finishControllerIteration
awaitState ==
    /\ ControlGoes("awaitState", "readState")
    /\ stateMtx = Free /\ stateMtx' = "controller"
    /\ UNCHANGED <<user, clocks, now, sys, simulated, controlMtx, control, sinceStop>>

readState ==
    /\ \/ /\ ControlGoes("readState", "readRest")
          /\ seen' = [seen EXCEPT ![1] = x[1]]
          /\ UNCHANGED stateMtx
       \/ /\ ControlGoes("readRest", "solve")
          /\ seen' = [seen EXCEPT ![2] = x[2]]
          /\ stateMtx' = Free
    /\ UNCHANGED <<user, clocks, now, sys, simulated, controlMtx, controller, applied, sinceStop>>

\* The solver takes its time and keeps no mutex meanwhile.
solve ==
    /\ ControlGoes("solve", "awaitControl")
    /\ UNCHANGED <<user, clocks, now, sys, simulated, mutexes, control, sinceStop>>

\* An exception of the controller or of the integrator leaves its thread: the
\* program is terminated.
fail ==
    /\ Running /\ (ctl \in {"prepare", "solve"} \/ sys = "integrate")
    /\ user' = "terminated"
    /\ UNCHANGED <<clocks, now, sys, ctl, simulated, mutexes, control, sinceStop>>

awaitControl ==
    /\ ControlGoes("awaitControl", "publish")
    /\ controlMtx = Free /\ controlMtx' = "controller"
    /\ UNCHANGED <<user, clocks, now, sys, simulated, stateMtx, control, sinceStop>>

\* Wrong on purpose: the mutex is kept.
publishAndKeep ==
    /\ ControlGoes("publish", "test")
    /\ controller' = seen
    /\ sinceStop' = [sinceStop EXCEPT !.controllers = IF stop THEN @ + 1 ELSE @]
    /\ UNCHANGED <<user, clocks, now, sys, simulated, mutexes, seen, applied>>

publish ==
    /\ ControlGoes("publish", "test")
    /\ controller' = seen
    /\ controlMtx' = Free
    /\ sinceStop' = [sinceStop EXCEPT !.controllers = IF stop THEN @ + 1 ELSE @]
    /\ UNCHANGED <<user, clocks, now, sys, simulated, stateMtx, seen, applied>>

ControlThread ==
    testController \/ prepare \/ awaitState \/ readState \/ solve \/ awaitControl \/ publish

--------------------------------------------------------------------------------
Tick ==
    /\ user \in {"simulating"} \cup Joining /\ now < MaxTime
    /\ now' = now + 1
    /\ UNCHANGED <<user, clocks, sys, ctl, simulated, mutexes, control, sinceStop>>

\* Nothing happens after the last run or in a program that was terminated.
Over ==
    /\ user = "terminated" \/ (user = "idle" /\ runs = MaxRuns)
    /\ UNCHANGED vars

Next ==
    \/ \E d \in Durations : simulate(d)
    \/ simulateTwice \/ Stop \/ finish
    \/ SystemThread \/ ControlThread \/ fail
    \/ Tick \/ Over

Spec == Init /\ [][Next]_vars

\* Time passes, both threads are scheduled and joins return.  The mutexes
\* need no strong fairness: a thread that could be kept out would be kept
\* out by a loop that ends.
FairSpec ==
    /\ Spec
    /\ WF_vars(Tick) /\ WF_vars(SystemThread) /\ WF_vars(ControlThread)
    /\ WF_vars(user \in Joining /\ finish)

--------------------------------------------------------------------------------
(***************************************************************************)
(* Properties                                                              *)
(***************************************************************************)
TypeOK ==
    /\ user \in {"idle", "simulating", "terminated"} \cup Joining
    /\ runs \in 0 .. MaxRuns
    /\ now \in 0 .. MaxTime /\ duration \in Durations \cup {0} /\ stop \in BOOLEAN
    /\ sys \in {"none", "test", "integrate", "lockState", "writeState", "writeRest",
                "lockControl", "setController", "ended"}
    /\ ctl \in {"none", "test", "prepare", "awaitState", "readState", "readRest", "solve",
                "awaitControl", "publish", "ended"}
    /\ wallTime \in 0 .. MaxTime /\ x \in States
    /\ stateMtx \in {Free, "system", "controller"}
    /\ controlMtx \in {Free, "system", "controller"}
    /\ seen \in (-1 .. MaxTime) \X (-1 .. MaxTime)
    /\ controller \in States \cup {NoState} /\ applied \in States \cup {NoState}
    /\ sinceStop \in [states : Nat, controllers : Nat]

\* Every controller, the applied one too, is computed from a state that the
\* simulation produced, never from parts of two.
StateWhole == controller[1] = controller[2] /\ applied[1] = applied[2]

\* The shared pointer controller_ is not copied while it is assigned to.
PointerSafe == ~(sys = "setController" /\ ctl = "publish")

\* The simulation is in real time: the state a controller finds, and every
\* controller made from it, belongs to a time that has come.
NeverAhead == sys # "none" => wallTime <= now /\ x[1] <= now

\* The last step may pass the end of the simulation, by less than one
\* control step.
NoOvershoot == wallTime < duration + ControlDt \/ sys = "none"

\* stop() lets each thread complete the iteration it is in, and no more.
StopsSoon == sinceStop.states <= 1 /\ sinceStop.controllers <= 1

\* After finish() has returned nothing of the simulation changes any more,
\* until the user simulates again.
QuietWhenFinished ==
    [][user = "idle" /\ user' = "idle" => UNCHANGED <<x, controller, applied, sys, ctl>>]_vars

\* finish() returns, whether the simulation was stopped or its time is over.
FinishReturns == user \in Joining ~> user \in {"idle", "terminated"}
================================================================================
