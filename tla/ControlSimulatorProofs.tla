------------------------- MODULE ControlSimulatorProofs -------------------------
(****************************************************************************)
(* The two threads of ControlSimulator for every control step, duration and *)
(* number of runs: what the mutexes protect, that the simulation never runs *)
(* ahead of the clock, where it ends and when it stops.                     *)
(****************************************************************************)
EXTENDS ControlSimulator, TLAPS

\* A mutex is held exactly while its holder is between lock and unlock.
MutexesHeld ==
    /\ stateMtx = "system" <=> sys \in {"writeState", "writeRest"}
    /\ stateMtx = "controller" <=> ctl \in {"readState", "readRest"}
    /\ controlMtx = "system" <=> sys = "setController"
    /\ controlMtx = "controller" <=> ctl = "publish"

\* Who has been joined has ended.
Joined ==
    /\ user \in {"idle", "joinController"} => sys \in {"none", "ended"}
    /\ user = "idle" => ctl \in {"none", "ended"}

\* What is shared is whole outside of the locked sections.
Whole ==
    /\ sys # "writeRest" => x[1] = x[2]
    /\ sys = "writeRest" => x[1] = wallTime
    /\ ctl = "readRest" => seen[1] = x[1]
    /\ ctl \in {"solve", "awaitControl", "publish"} => seen[1] = seen[2]
    /\ ctl \in {"readRest", "solve", "awaitControl", "publish"} => seen[1] >= 0
    /\ ctl \in {"solve", "awaitControl", "publish"} => seen[2] >= 0

\* The system's time is not ahead of the clock, and a step is begun only
\* before the end.
InTime ==
    /\ wallTime <= now /\ x[1] <= now /\ x[2] <= now
    /\ sys = "integrate" => wallTime < duration
    /\ sys = "none" => duration = 0
    /\ sys # "none" => duration \in Durations

\* A thread that has not written since stop() is in its last iteration.
Stopping ==
    /\ ~stop => sinceStop.states = 0 /\ sinceStop.controllers = 0
    /\ sys \in {"integrate", "lockState", "writeState", "writeRest"} => sinceStop.states = 0
    /\ ctl \in {"prepare", "awaitState", "readState", "readRest", "solve", "awaitControl",
                "publish"} => sinceStop.controllers = 0

IInv == /\ TypeOK /\ MutexesHeld /\ Joined /\ Whole /\ InTime /\ Stopping
        /\ StateWhole /\ NoOvershoot /\ StopsSoon

--------------------------------------------------------------------------------
LEMMA Times ==
    /\ ControlDt \in Nat \ {0} /\ MaxRuns \in Nat /\ MaxTime \in Nat
    /\ \A d \in Durations : d \in Nat \ {0} /\ d + ControlDt <= MaxTime
  BY TimesAssumption

\* A pair whose first or second half is written
LEMMA HalfWritten ==
    ASSUME NEW S, NEW p \in S \X S, NEW v \in S
    PROVE  /\ [p EXCEPT ![1] = v] = <<v, p[2]>> /\ [p EXCEPT ![2] = v] = <<p[1], v>>
           /\ p = <<p[1], p[2]>> /\ p[1] \in S /\ p[2] \in S
  OBVIOUS

LEMMA InitIInv == Init => IInv
  <1> SUFFICES ASSUME Init PROVE IInv
    OBVIOUS
  <1>1. x = <<0, 0>> /\ seen = <<-1, -1>> /\ controller = <<-1, -1>> /\ applied = <<-1, -1>>
    BY DEF Init, At, NoState
  <1>2. TypeOK
    <2>1. seen \in (-1 .. MaxTime) \X (-1 .. MaxTime)
      <3>1. -1 \in -1 .. MaxTime
        BY Times
      <3> QED
        BY <1>1, <3>1
    <2>2. x \in States
      BY <1>1, Times DEF States
    <2>3. stop \in BOOLEAN /\ sinceStop \in [states : Nat, controllers : Nat]
      BY DEF Init
    <2>4. now \in 0 .. MaxTime /\ wallTime \in 0 .. MaxTime /\ runs \in 0 .. MaxRuns
      BY Times DEF Init
    <2>5. controller \in States \cup {NoState} /\ applied \in States \cup {NoState}
      BY DEF Init
    <2>6. user = "idle" /\ duration = 0 /\ sys = "none" /\ ctl = "none"
          /\ stateMtx = Free /\ controlMtx = Free
      BY DEF Init
    <2> QED
      BY <2>1, <2>2, <2>3, <2>4, <2>5, <2>6 DEF TypeOK
  <1> QED
    BY <1>1, <1>2, Times
    DEF Init, IInv, MutexesHeld, Joined, Whole, InTime, Stopping, StateWhole, NoOvershoot,
        StopsSoon, Free

--------------------------------------------------------------------------------
(***************************************************************************)
(* The user                                                                *)
(***************************************************************************)
LEMMA SimulateStep ==
    ASSUME IInv, NEW d \in Durations, simulate(d)
    PROVE  IInv'
  <1>1. x' = <<0, 0>> /\ UNCHANGED <<seen, controller, applied>>
    BY DEF simulate, At, control
  <1>2. sys \in {"none", "ended"} /\ ctl \in {"none", "ended"} /\ d \in Nat \ {0}
    BY Times DEF IInv, Joined, simulate
  <1>3. TypeOK'
    <2>1. x' \in States
      BY <1>1, Times DEF States
    <2>2. runs' \in 0 .. MaxRuns
      BY Times DEF IInv, TypeOK, simulate
    <2>3. stop' \in BOOLEAN /\ sinceStop' \in [states : Nat, controllers : Nat]
      BY DEF simulate
    <2>4. now' \in 0 .. MaxTime /\ wallTime' \in 0 .. MaxTime /\ duration' \in Durations
      BY Times DEF simulate
    <2>5. user' = "simulating" /\ sys' = "test" /\ ctl' = "test" /\ UNCHANGED <<stateMtx, controlMtx>>
      BY DEF simulate, mutexes
    <2> QED
      BY <1>1, <2>1, <2>2, <2>3, <2>4, <2>5 DEF IInv, TypeOK
  <1>4. MutexesHeld' /\ Joined'
    BY <1>2 DEF IInv, MutexesHeld, Joined, simulate, mutexes
  <1>5. Whole' /\ StateWhole'
    BY <1>1 DEF IInv, Whole, StateWhole, simulate
  <1>6. InTime' /\ NoOvershoot' /\ Stopping' /\ StopsSoon'
    BY <1>1, <1>2, Times DEF InTime, NoOvershoot, Stopping, StopsSoon, simulate
  <1> QED
    BY <1>3, <1>4, <1>5, <1>6 DEF IInv

LEMMA TwiceStep ==
    ASSUME IInv, simulateTwice
    PROVE  IInv'
  <1>1. TypeOK'
    BY DEF simulateTwice, IInv, TypeOK, clocks, simulated, control, mutexes
  <1>2. MutexesHeld' /\ Joined'
    BY DEF simulateTwice, IInv, MutexesHeld, Joined, clocks, simulated, control, mutexes
  <1>3. Whole' /\ StateWhole'
    BY DEF simulateTwice, IInv, Whole, StateWhole, clocks, simulated, control, mutexes
  <1>4. InTime' /\ NoOvershoot'
    BY DEF simulateTwice, IInv, InTime, NoOvershoot, clocks, simulated, control, mutexes
  <1>5. Stopping' /\ StopsSoon'
    BY DEF simulateTwice, IInv, Stopping, StopsSoon, clocks, simulated, control, mutexes
  <1> QED
    BY <1>1, <1>2, <1>3, <1>4, <1>5 DEF IInv

LEMMA StopStep ==
    ASSUME IInv, Stop
    PROVE  IInv'
  <1>1. TypeOK'
    BY DEF Stop, IInv, TypeOK, Running, simulated, control, mutexes
  <1>2. MutexesHeld' /\ Joined'
    BY DEF Stop, IInv, MutexesHeld, Joined, Running, simulated, control, mutexes
  <1>3. Whole' /\ StateWhole'
    BY DEF Stop, IInv, Whole, StateWhole, Running, simulated, control, mutexes
  <1>4. InTime' /\ NoOvershoot'
    BY DEF Stop, IInv, InTime, NoOvershoot, Running, simulated, control, mutexes
  <1>5. Stopping' /\ StopsSoon'
    BY DEF Stop, IInv, Stopping, StopsSoon, Running, simulated, control, mutexes
  <1> QED
    BY <1>1, <1>2, <1>3, <1>4, <1>5 DEF IInv

LEMMA FinishStep ==
    ASSUME IInv, finish
    PROVE  IInv'
  <1>1. TypeOK'
    BY DEF finish, IInv, TypeOK, Joining, clocks, simulated, control, mutexes
  <1>2. MutexesHeld' /\ Joined'
    BY DEF finish, IInv, MutexesHeld, Joined, clocks, simulated, control, mutexes
  <1>3. Whole' /\ StateWhole'
    BY DEF finish, IInv, Whole, StateWhole, clocks, simulated, control, mutexes
  <1>4. InTime' /\ NoOvershoot'
    BY DEF finish, IInv, InTime, NoOvershoot, clocks, simulated, control, mutexes
  <1>5. Stopping' /\ StopsSoon'
    BY DEF finish, IInv, Stopping, StopsSoon, clocks, simulated, control, mutexes
  <1> QED
    BY <1>1, <1>2, <1>3, <1>4, <1>5 DEF IInv

--------------------------------------------------------------------------------
(***************************************************************************)
(* The system thread                                                       *)
(***************************************************************************)
LEMMA TestSystemStep ==
    ASSUME IInv, testSystem
    PROVE  IInv'
  <1>1. TypeOK'
    BY DEF testSystem, IInv, TypeOK, SystemGoes, LoopOn, clocks, simulated, control,
           mutexes
  <1>2. MutexesHeld' /\ Joined'
    BY DEF testSystem, IInv, MutexesHeld, Joined, SystemGoes, LoopOn, clocks, simulated,
           control, mutexes
  <1>3. Whole' /\ StateWhole'
    BY DEF testSystem, IInv, Whole, StateWhole, SystemGoes, LoopOn, clocks, simulated,
           control, mutexes
  <1>4. InTime' /\ NoOvershoot'
    BY Times DEF testSystem, IInv, InTime, NoOvershoot, TypeOK, LoopOn, SystemGoes,
                 clocks, simulated, control, mutexes
  <1>5. Stopping' /\ StopsSoon'
    BY DEF testSystem, IInv, Stopping, StopsSoon, SystemGoes, LoopOn, clocks, simulated,
           control, mutexes
  <1> QED
    BY <1>1, <1>2, <1>3, <1>4, <1>5 DEF IInv

LEMMA IntegrateStep ==
    ASSUME IInv, integrate
    PROVE  IInv'
  <1>1. TypeOK'
    BY Times DEF integrate, IInv, TypeOK, InTime, SystemGoes, StepIsDue, clocks, control,
                 mutexes
  <1>2. MutexesHeld' /\ Joined'
    BY DEF integrate, IInv, MutexesHeld, Joined, SystemGoes, StepIsDue, clocks, control,
           mutexes
  <1>3. Whole' /\ StateWhole'
    BY DEF integrate, IInv, Whole, StateWhole, SystemGoes, StepIsDue, clocks, control,
           mutexes
  <1>4. InTime' /\ NoOvershoot'
    BY Times DEF integrate, IInv, InTime, NoOvershoot, TypeOK, StepIsDue, SystemGoes,
                 clocks, control, mutexes
  <1>5. Stopping' /\ StopsSoon'
    BY DEF integrate, IInv, Stopping, StopsSoon, SystemGoes, StepIsDue, clocks, control,
           mutexes
  <1> QED
    BY <1>1, <1>2, <1>3, <1>4, <1>5 DEF IInv

LEMMA LockStateStep ==
    ASSUME IInv, lockState
    PROVE  IInv'
  <1>1. TypeOK'
    BY DEF lockState, IInv, TypeOK, SystemGoes, clocks, simulated, control, Free
  <1>2. MutexesHeld' /\ Joined'
    BY DEF lockState, IInv, MutexesHeld, Joined, SystemGoes, clocks, simulated, control,
           Free
  <1>3. Whole' /\ StateWhole'
    BY DEF lockState, IInv, Whole, StateWhole, MutexesHeld, SystemGoes, clocks,
           simulated, control, Free
  <1>4. InTime' /\ NoOvershoot'
    BY DEF lockState, IInv, InTime, NoOvershoot, SystemGoes, clocks, simulated, control,
           Free
  <1>5. Stopping' /\ StopsSoon'
    BY DEF lockState, IInv, Stopping, StopsSoon, SystemGoes, clocks, simulated, control,
           Free
  <1> QED
    BY <1>1, <1>2, <1>3, <1>4, <1>5 DEF IInv

LEMMA WriteStateStep ==
    ASSUME IInv, writeState
    PROVE  IInv'
  <1>1. TypeOK'
    BY Times, HalfWritten DEF writeState, IInv, TypeOK, States, SystemGoes, Later,
                              clocks, control, Free
  <1>2. MutexesHeld' /\ Joined'
    BY DEF writeState, IInv, MutexesHeld, Joined, SystemGoes, Later, clocks, control,
           Free
  <1>3. Whole' /\ StateWhole'
    BY Times, HalfWritten DEF writeState, IInv, Whole, StateWhole, TypeOK, MutexesHeld,
                              States, SystemGoes, Later, clocks, control, Free
  <1>4. InTime' /\ NoOvershoot'
    BY Times, HalfWritten DEF writeState, IInv, InTime, NoOvershoot, TypeOK, States,
                              SystemGoes, Later, clocks, control, Free
  <1>5. Stopping' /\ StopsSoon'
    BY DEF writeState, IInv, Stopping, StopsSoon, TypeOK, SystemGoes, Later, clocks,
           control, Free
  <1> QED
    BY <1>1, <1>2, <1>3, <1>4, <1>5 DEF IInv

LEMMA LockControlStep ==
    ASSUME IInv, lockControl
    PROVE  IInv'
  <1>1. TypeOK'
    BY DEF lockControl, IInv, TypeOK, SystemGoes, clocks, simulated, control, Free
  <1>2. MutexesHeld' /\ Joined'
    BY DEF lockControl, IInv, MutexesHeld, Joined, SystemGoes, clocks, simulated,
           control, Free
  <1>3. Whole' /\ StateWhole'
    BY DEF lockControl, IInv, Whole, StateWhole, SystemGoes, clocks, simulated, control,
           Free
  <1>4. InTime' /\ NoOvershoot'
    BY DEF lockControl, IInv, InTime, NoOvershoot, SystemGoes, clocks, simulated,
           control, Free
  <1>5. Stopping' /\ StopsSoon'
    BY DEF lockControl, IInv, Stopping, StopsSoon, SystemGoes, clocks, simulated,
           control, Free
  <1> QED
    BY <1>1, <1>2, <1>3, <1>4, <1>5 DEF IInv

LEMMA SetControllerStep ==
    ASSUME IInv, setController
    PROVE  IInv'
  <1>1. TypeOK'
    BY DEF setController, IInv, TypeOK, SystemGoes, clocks, simulated, Free
  <1>2. MutexesHeld' /\ Joined'
    BY DEF setController, IInv, MutexesHeld, Joined, SystemGoes, clocks, simulated, Free
  <1>3. Whole' /\ StateWhole'
    BY DEF setController, IInv, Whole, StateWhole, MutexesHeld, SystemGoes, clocks,
           simulated, Free
  <1>4. InTime' /\ NoOvershoot'
    BY DEF setController, IInv, InTime, NoOvershoot, SystemGoes, clocks, simulated, Free
  <1>5. Stopping' /\ StopsSoon'
    BY DEF setController, IInv, Stopping, StopsSoon, SystemGoes, clocks, simulated, Free
  <1> QED
    BY <1>1, <1>2, <1>3, <1>4, <1>5 DEF IInv

--------------------------------------------------------------------------------
(***************************************************************************)
(* The control thread                                                      *)
(***************************************************************************)
LEMMA TestControllerStep ==
    ASSUME IInv, testController
    PROVE  IInv'
  <1>1. TypeOK'
    BY DEF testController, IInv, TypeOK, ControlGoes, LoopOn, clocks, simulated, control,
           mutexes
  <1>2. MutexesHeld' /\ Joined'
    BY DEF testController, IInv, MutexesHeld, Joined, ControlGoes, LoopOn, clocks,
           simulated, control, mutexes
  <1>3. Whole' /\ StateWhole'
    BY DEF testController, IInv, Whole, StateWhole, ControlGoes, LoopOn, clocks,
           simulated, control, mutexes
  <1>4. InTime' /\ NoOvershoot'
    BY DEF testController, IInv, InTime, NoOvershoot, ControlGoes, LoopOn, clocks,
           simulated, control, mutexes
  <1>5. Stopping' /\ StopsSoon'
    BY DEF testController, IInv, Stopping, StopsSoon, ControlGoes, LoopOn, clocks,
           simulated, control, mutexes
  <1> QED
    BY <1>1, <1>2, <1>3, <1>4, <1>5 DEF IInv

LEMMA PrepareStep ==
    ASSUME IInv, prepare
    PROVE  IInv'
  <1>1. TypeOK'
    BY DEF prepare, IInv, TypeOK, ControlGoes, clocks, simulated, control, mutexes
  <1>2. MutexesHeld' /\ Joined'
    BY DEF prepare, IInv, MutexesHeld, Joined, ControlGoes, clocks, simulated, control,
           mutexes
  <1>3. Whole' /\ StateWhole'
    BY DEF prepare, IInv, Whole, StateWhole, ControlGoes, clocks, simulated, control,
           mutexes
  <1>4. InTime' /\ NoOvershoot'
    BY DEF prepare, IInv, InTime, NoOvershoot, ControlGoes, clocks, simulated, control,
           mutexes
  <1>5. Stopping' /\ StopsSoon'
    BY DEF prepare, IInv, Stopping, StopsSoon, ControlGoes, clocks, simulated, control,
           mutexes
  <1> QED
    BY <1>1, <1>2, <1>3, <1>4, <1>5 DEF IInv

LEMMA AwaitStateStep ==
    ASSUME IInv, awaitState
    PROVE  IInv'
  <1>1. TypeOK'
    BY DEF awaitState, IInv, TypeOK, ControlGoes, clocks, simulated, control, Free
  <1>2. MutexesHeld' /\ Joined'
    BY DEF awaitState, IInv, MutexesHeld, Joined, ControlGoes, clocks, simulated,
           control, Free
  <1>3. Whole' /\ StateWhole'
    BY DEF awaitState, IInv, Whole, StateWhole, ControlGoes, clocks, simulated, control,
           Free
  <1>4. InTime' /\ NoOvershoot'
    BY DEF awaitState, IInv, InTime, NoOvershoot, ControlGoes, clocks, simulated,
           control, Free
  <1>5. Stopping' /\ StopsSoon'
    BY DEF awaitState, IInv, Stopping, StopsSoon, ControlGoes, clocks, simulated,
           control, Free
  <1> QED
    BY <1>1, <1>2, <1>3, <1>4, <1>5 DEF IInv

LEMMA ReadStateStep ==
    ASSUME IInv, readState
    PROVE  IInv'
  <1>1. TypeOK'
    BY Times, HalfWritten DEF readState, IInv, TypeOK, States, ControlGoes, clocks,
                              simulated, Free
  <1>2. MutexesHeld' /\ Joined'
    BY DEF readState, IInv, MutexesHeld, Joined, ControlGoes, clocks, simulated, Free
  <1>3. Whole' /\ StateWhole'
    BY Times, HalfWritten DEF readState, IInv, Whole, StateWhole, TypeOK, MutexesHeld,
                              States, ControlGoes, clocks, simulated, Free
  <1>4. InTime' /\ NoOvershoot'
    BY DEF readState, IInv, InTime, NoOvershoot, ControlGoes, clocks, simulated, Free
  <1>5. Stopping' /\ StopsSoon'
    BY DEF readState, IInv, Stopping, StopsSoon, ControlGoes, clocks, simulated, Free
  <1> QED
    BY <1>1, <1>2, <1>3, <1>4, <1>5 DEF IInv

LEMMA SolveStep ==
    ASSUME IInv, solve
    PROVE  IInv'
  <1>1. TypeOK'
    BY DEF solve, IInv, TypeOK, ControlGoes, clocks, simulated, control, mutexes
  <1>2. MutexesHeld' /\ Joined'
    BY DEF solve, IInv, MutexesHeld, Joined, ControlGoes, clocks, simulated, control,
           mutexes
  <1>3. Whole' /\ StateWhole'
    BY DEF solve, IInv, Whole, StateWhole, ControlGoes, clocks, simulated, control,
           mutexes
  <1>4. InTime' /\ NoOvershoot'
    BY DEF solve, IInv, InTime, NoOvershoot, ControlGoes, clocks, simulated, control,
           mutexes
  <1>5. Stopping' /\ StopsSoon'
    BY DEF solve, IInv, Stopping, StopsSoon, ControlGoes, clocks, simulated, control,
           mutexes
  <1> QED
    BY <1>1, <1>2, <1>3, <1>4, <1>5 DEF IInv

LEMMA FailStep ==
    ASSUME IInv, fail
    PROVE  IInv'
  <1>1. TypeOK'
    BY DEF fail, IInv, TypeOK, Running, clocks, simulated, control, mutexes
  <1>2. MutexesHeld' /\ Joined'
    BY DEF fail, IInv, MutexesHeld, Joined, Running, clocks, simulated, control, mutexes
  <1>3. Whole' /\ StateWhole'
    BY DEF fail, IInv, Whole, StateWhole, Running, clocks, simulated, control, mutexes
  <1>4. InTime' /\ NoOvershoot'
    BY DEF fail, IInv, InTime, NoOvershoot, Running, clocks, simulated, control, mutexes
  <1>5. Stopping' /\ StopsSoon'
    BY DEF fail, IInv, Stopping, StopsSoon, Running, clocks, simulated, control, mutexes
  <1> QED
    BY <1>1, <1>2, <1>3, <1>4, <1>5 DEF IInv

LEMMA AwaitControlStep ==
    ASSUME IInv, awaitControl
    PROVE  IInv'
  <1>1. TypeOK'
    BY DEF awaitControl, IInv, TypeOK, ControlGoes, clocks, simulated, control, Free
  <1>2. MutexesHeld' /\ Joined'
    BY DEF awaitControl, IInv, MutexesHeld, Joined, ControlGoes, clocks, simulated,
           control, Free
  <1>3. Whole' /\ StateWhole'
    BY DEF awaitControl, IInv, Whole, StateWhole, ControlGoes, clocks, simulated,
           control, Free
  <1>4. InTime' /\ NoOvershoot'
    BY DEF awaitControl, IInv, InTime, NoOvershoot, ControlGoes, clocks, simulated,
           control, Free
  <1>5. Stopping' /\ StopsSoon'
    BY DEF awaitControl, IInv, Stopping, StopsSoon, ControlGoes, clocks, simulated,
           control, Free
  <1> QED
    BY <1>1, <1>2, <1>3, <1>4, <1>5 DEF IInv

LEMMA PublishStep ==
    ASSUME IInv, publish
    PROVE  IInv'
  <1>1. TypeOK'
    BY Times, HalfWritten DEF publish, IInv, TypeOK, Whole, States, ControlGoes, clocks,
                              simulated, Free
  <1>2. MutexesHeld' /\ Joined'
    BY DEF publish, IInv, MutexesHeld, Joined, ControlGoes, clocks, simulated, Free
  <1>3. Whole' /\ StateWhole'
    BY HalfWritten DEF publish, IInv, Whole, StateWhole, TypeOK, States, ControlGoes,
                       clocks, simulated, Free
  <1>4. InTime' /\ NoOvershoot'
    BY DEF publish, IInv, InTime, NoOvershoot, ControlGoes, clocks, simulated, Free
  <1>5. Stopping' /\ StopsSoon'
    BY DEF publish, IInv, Stopping, StopsSoon, ControlGoes, clocks, simulated, Free
  <1> QED
    BY <1>1, <1>2, <1>3, <1>4, <1>5 DEF IInv

--------------------------------------------------------------------------------
LEMMA TickStep ==
    ASSUME IInv, Tick
    PROVE  IInv'
  <1>1. TypeOK'
    BY Times DEF Tick, IInv, TypeOK, Joining, clocks, simulated, control, mutexes
  <1>2. MutexesHeld' /\ Joined'
    BY DEF Tick, IInv, MutexesHeld, Joined, Joining, clocks, simulated, control, mutexes
  <1>3. Whole' /\ StateWhole'
    BY DEF Tick, IInv, Whole, StateWhole, Joining, clocks, simulated, control, mutexes
  <1>4. InTime' /\ NoOvershoot'
    BY Times, HalfWritten DEF Tick, IInv, InTime, NoOvershoot, TypeOK, States, Joining,
                              clocks, simulated, control, mutexes
  <1>5. Stopping' /\ StopsSoon'
    BY DEF Tick, IInv, Stopping, StopsSoon, Joining, clocks, simulated, control, mutexes
  <1> QED
    BY <1>1, <1>2, <1>3, <1>4, <1>5 DEF IInv

LEMMA StepIInv ==
    ASSUME IInv, [Next]_vars
    PROVE  IInv'
  <1>1. CASE \E d \in Durations : simulate(d)
    BY <1>1, SimulateStep
  <1>2. CASE simulateTwice \/ Stop \/ finish
    BY <1>2, TwiceStep, StopStep, FinishStep
  <1>3. CASE SystemThread
    BY <1>3, TestSystemStep, IntegrateStep, LockStateStep, WriteStateStep, LockControlStep,
       SetControllerStep DEF SystemThread
  <1>4. CASE ControlThread \/ fail
    BY <1>4, TestControllerStep, PrepareStep, AwaitStateStep, ReadStateStep, SolveStep, FailStep,
       AwaitControlStep, PublishStep DEF ControlThread
  <1>5. CASE Tick
    BY <1>5, TickStep
  <1>6. CASE Over \/ UNCHANGED vars
    <2>1. UNCHANGED vars
      BY <1>6 DEF Over
    <2>2. TypeOK' /\ MutexesHeld' /\ Joined'
      BY <2>1 DEF IInv, TypeOK, MutexesHeld, Joined, vars, clocks, simulated, mutexes, control
    <2>3. Whole' /\ StateWhole' /\ InTime' /\ NoOvershoot' /\ Stopping' /\ StopsSoon'
      BY <2>1 DEF IInv, Whole, StateWhole, InTime, NoOvershoot, Stopping, StopsSoon, vars,
                  clocks, simulated, mutexes, control
    <2> QED
      BY <2>2, <2>3 DEF IInv
  <1> QED
    BY <1>1, <1>2, <1>3, <1>4, <1>5, <1>6 DEF Next

--------------------------------------------------------------------------------
(***************************************************************************)
(* The theorems                                                            *)
(***************************************************************************)

\* However the threads, the user and the clock interleave, every state has
\* the invariant.
THEOREM Invariant == Spec => []IInv
  <1> QED
    BY InitIInv, StepIInv, PTL DEF Spec

\* The variables keep their types.
THEOREM TypeCorrect == Spec => []TypeOK
  <1>1. IInv => TypeOK
    BY DEF IInv
  <1> QED
    BY <1>1, Invariant, PTL

\* No controller is computed from parts of two states.
THEOREM StatesWhole == Spec => []StateWhole
  <1>1. IInv => StateWhole
    BY DEF IInv
  <1> QED
    BY <1>1, Invariant, PTL

\* controller_ is never copied and assigned to at the same time.
THEOREM PointersSafe == Spec => []PointerSafe
  <1>1. IInv => PointerSafe
    BY DEF IInv, MutexesHeld, PointerSafe
  <1> QED
    BY <1>1, Invariant, PTL

\* The state a controller finds belongs to a time that has come.
THEOREM RealTime == Spec => []NeverAhead
  <1>1. IInv => NeverAhead
    BY DEF IInv, InTime, NeverAhead
  <1> QED
    BY <1>1, Invariant, PTL

\* The system is simulated less than one control step beyond the end.
THEOREM EndsInTime == Spec => []NoOvershoot
  <1>1. IInv => NoOvershoot
    BY DEF IInv
  <1> QED
    BY <1>1, Invariant, PTL

\* After stop() each thread writes at most once more.
THEOREM StopsPromptly == Spec => []StopsSoon
  <1>1. IInv => StopsSoon
    BY DEF IInv
  <1> QED
    BY <1>1, Invariant, PTL

\* What finish() has left unmoved stays so: a thread that was joined has
\* ended.
THEOREM FinishedIsQuiet == Spec => QuietWhenFinished
  <1>1. ASSUME IInv, [Next]_vars, user = "idle", user' = "idle"
        PROVE  UNCHANGED <<x, controller, applied, sys, ctl>>
    <2>1. sys \in {"none", "ended"} /\ ctl \in {"none", "ended"}
      BY <1>1 DEF IInv, Joined
    <2>2. ~SystemThread
      BY <2>1 DEF SystemThread, testSystem, integrate, lockState, writeState, lockControl,
                  setController, SystemGoes
    <2>3. ~ControlThread /\ ~fail
      BY <2>1 DEF ControlThread, testController, prepare, awaitState, readState, solve,
                  awaitControl, publish, fail, ControlGoes
    <2>4. CASE (\E d \in Durations : simulate(d)) \/ simulateTwice \/ finish \/ Tick
      BY <1>1, <2>4 DEF simulate, simulateTwice, finish, Tick, Joining
    <2>5. CASE Stop
      BY <2>5 DEF Stop, simulated, control
    <2>6. CASE Over \/ UNCHANGED vars
      BY <2>6 DEF Over, vars, simulated, control
    <2> QED
      BY <1>1, <2>2, <2>3, <2>4, <2>5, <2>6 DEF Next
  <1>2. IInv /\ [Next]_vars
          => [user = "idle" /\ user' = "idle" => UNCHANGED <<x, controller, applied, sys, ctl>>]_vars
    BY <1>1
  <1> QED
    BY <1>2, Invariant, PTL DEF Spec, QuietWhenFinished
================================================================================
