------------------------------ MODULE SolverTasks ------------------------------
(****************************************************************************)
(* The life of a multi-threaded solver seen from its process IDs: the user  *)
(* runs iterations (in one call or in two halves, offline or those of MPC), *)
(* changes the problem in between, and each operation that goes to the      *)
(* worker threads is offered to them under a process ID made of iteration_, *)
(* the task and lqpCounter_.                                                *)
(****************************************************************************)
EXTENDS Algorithms

CONSTANT MaxCount   \* bound: no call is made once lqpCounter_ has reached it

ASSUME MaxCountAssumption == MaxCount \in Nat

VARIABLES iteration,   \* iteration_
          lqpCounter,  \* lqpCounter_
          todo,        \* what is left of the call in progress
          prepared,    \* the half that is done while its other half is not:
                       \* "none", "offline" or "mpc"
          offered      \* history: the process IDs under which work was offered

vars == <<iteration, lqpCounter, todo, prepared, offered>>

Init == /\ iteration = 0 /\ lqpCounter = 0
        /\ todo = <<>> /\ prepared = "none" /\ offered = {}

Idle == todo = <<>> /\ lqpCounter < MaxCount

\* runIteration, as solve() repeats it
RunIteration ==
    /\ Idle /\ prepared = "none"
    /\ todo' = Iteration(iteration)
    /\ UNCHANGED <<iteration, lqpCounter, prepared, offered>>

PrepareIteration ==
    /\ Idle /\ prepared = "none"
    /\ todo' = Prepare(iteration)
    /\ prepared' = "offline"
    /\ UNCHANGED <<iteration, lqpCounter, offered>>

FinishIteration ==
    /\ Idle /\ prepared = "offline"
    /\ todo' = Finish(iteration)
    /\ prepared' = "none"
    /\ UNCHANGED <<iteration, lqpCounter, offered>>

PrepareMPCIteration ==
    /\ Idle /\ prepared = "none"
    /\ todo' = PrepareMPC(iteration)
    /\ prepared' = "mpc"
    /\ UNCHANGED <<iteration, lqpCounter, offered>>

FinishMPCIteration ==
    /\ Idle /\ prepared = "mpc"
    /\ todo' = FinishMPC(iteration)
    /\ prepared' = "none"
    /\ UNCHANGED <<iteration, lqpCounter, offered>>

\* Wrong on purpose: the number of LQ problems is set back as well.
ResetCounters ==
    /\ Idle
    /\ iteration' = 0 /\ lqpCounter' = 0
    /\ UNCHANGED <<todo, prepared, offered>>

\* setInitialGuess, changeInitialState and configure all end in reset().
Reset ==
    /\ Idle
    /\ iteration' = 0
    /\ UNCHANGED <<lqpCounter, todo, prepared, offered>>

\* What the process ID is made of
ProcessIdParts == <<iteration, Head(todo).op, lqpCounter>>

\* The next operation of the call in progress
Offer ==
    /\ todo # <<>> /\ Parallel(Head(todo))
    /\ offered' = offered \cup {ProcessIdParts}
    /\ todo' = Tail(todo)
    /\ UNCHANGED <<iteration, lqpCounter, prepared>>

\* A single stage is done by the main thread.
DoAlone ==
    /\ todo # <<>>
    /\ Head(todo).op \in {"ROLLOUT_SHOTS", "COMPUTE_LQ_PROBLEM"} /\ ~Parallel(Head(todo))
    /\ todo' = Tail(todo)
    /\ UNCHANGED <<iteration, lqpCounter, prepared, offered>>

Count ==
    /\ todo # <<>> /\ Head(todo) = CountLQP
    /\ lqpCounter' = lqpCounter + 1
    /\ todo' = Tail(todo)
    /\ UNCHANGED <<iteration, prepared, offered>>

NextIteration ==
    /\ todo # <<>> /\ Head(todo) = Iterate
    /\ iteration' = iteration + 1
    /\ todo' = Tail(todo)
    /\ UNCHANGED <<lqpCounter, prepared, offered>>

Next == \/ RunIteration \/ PrepareIteration \/ FinishIteration
        \/ PrepareMPCIteration \/ FinishMPCIteration \/ Reset
        \/ Offer \/ DoAlone \/ Count \/ NextIteration

Spec == Init /\ [][Next]_vars

--------------------------------------------------------------------------------
\* generateUniqueProcessID "generates a unique identifier": no two pieces of
\* work are ever offered under the same process ID, so that a worker never
\* takes new work for the work it has just served and sleeps through it.
FreshProcessId == [][Offer => ProcessIdParts \notin offered]_vars

================================================================================
