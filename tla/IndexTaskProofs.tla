---------------------------- MODULE IndexTaskProofs ----------------------------
(****************************************************************************)
(* For any number of workers, stages and calls: the variables of IndexTask  *)
(* have their types, and a call that was not disturbed by a worker of an    *)
(* earlier one returns with exactly its stages worked on.                   *)
(****************************************************************************)
EXTENDS IndexTask, FiniteSetTheorems, TLAPS

--------------------------------------------------------------------------------
(***************************************************************************)
(* Types                                                                   *)
(***************************************************************************)

\* A worker inside a worker function knows which of the two it is in.
JobKnown == \A w \in Workers : pc[w] \in InLoop => job[w] \in Tasks

TypeInv == TypeOK /\ JobKnown

\* A size_t difference is a size_t.
LEMMA MinusType ==
    ASSUME NEW a \in Int, NEW b \in Int
    PROVE  Minus(a, b) \in 0 .. SizeMod - 1
BY SizesAssumption DEF Minus

\* A size_t difference that does not wrap is the difference.
LEMMA MinusExact ==
    ASSUME NEW a \in Int, NEW b \in Int, b <= a, a - b < SizeMod
    PROVE  Minus(a, b) = a - b
BY SizesAssumption DEF Minus

LEMMA RequestType ==
    ASSUME NEW r \in Requests
    PROVE  r.task \in Tasks /\ r.first \in 0 .. K /\ r.last \in 0 .. K - 1
BY RequestsAssumption

LEMMA TerminalType ==
    ASSUME NEW r \in Requests
    PROVE  Terminal(r) \subseteq Tasks \X (0 .. SizeMod)
BY RequestType, SizesAssumption DEF Terminal, Tasks, LQ

LEMMA TypeInit == Init => TypeInv
<1> SUFFICES ASSUME Init PROVE TypeInv
  OBVIOUS
<1>1. TypeOK
  <2>1. /\ pc \in [Threads -> MainPlaces \cup WorkerPlaces]
        /\ \A t \in Threads : pc[t] \in MainPlaces \cap WorkerPlaces
    BY DEF Init, MainPlaces, WorkerPlaces
  <2>2. KMax \in 0 .. K - 1 /\ KMin \in 0 .. K /\ kTaken \in Nat /\ kCompleted \in Nat
    BY SizesAssumption DEF Init
  <2>3. item \in [Workers -> Nat] /\ job \in [Workers -> Tasks \cup {IDLE}]
    BY DEF Init
  <2> QED
    BY <2>1, <2>2, <2>3 DEF Init, TypeOK, Threads
<1>2. JobKnown
  BY ThreadsAssumption DEF Init, JobKnown, Threads, InLoop
<1> QED
  BY <1>1, <1>2 DEF TypeInv

LEMMA TypeNext == TypeInv /\ [Next]_vars => TypeInv'
<1> SUFFICES ASSUME TypeInv, [Next]_vars PROVE TypeInv'
  OBVIOUS
<1> USE ThreadsAssumption, SizesAssumption
    DEF TypeInv, TypeOK, JobKnown, Threads, MainPlaces, WorkerPlaces, InLoop,
        counters, history, Goto
<1>1. ASSUME NEW r \in Requests, CallSingle(r) PROVE TypeInv'
  <2>1. worked' \subseteq Tasks \X (0 .. SizeMod)
    BY <1>1, RequestType, TerminalType DEF CallSingle
  <2> QED
    BY <1>1, <2>1 DEF CallSingle
<1>2. ASSUME NEW r \in Requests, CallParallel(r) PROVE TypeInv'
  BY <1>2, TerminalType DEF CallParallel
<1>3. CASE ResetTaken
  BY <1>3 DEF ResetTaken
<1>4. CASE ResetCompleted
  BY <1>4 DEF ResetCompleted
<1>5. CASE SetKMax
  BY <1>5, RequestType DEF SetKMax, NoRequest
<1>6. CASE SetKMin
  BY <1>6, RequestType DEF SetKMin, NoRequest
<1>7. CASE Publish
  BY <1>7, RequestType DEF Publish, NoRequest
<1>8. CASE NotifyWorkers
  BY <1>8 DEF NotifyWorkers
<1>9. CASE Await
  BY <1>9 DEF Await
<1>10. CASE Block
  BY <1>10 DEF Block
<1>11. CASE Finish
  BY <1>11 DEF Finish
<1>12. CASE Spurious
  BY <1>12 DEF Spurious
<1>13. ASSUME NEW w \in Workers, Dispatch(w) PROVE TypeInv'
  BY <1>13 DEF Dispatch
<1>14. ASSUME NEW w \in Workers, Take(w) PROVE TypeInv'
  BY <1>14 DEF Take
<1>15. ASSUME NEW w \in Workers, Check(w) PROVE TypeInv'
  BY <1>15 DEF Check
<1>16. ASSUME NEW w \in Workers, Work(w) PROVE TypeInv'
  <2>1. job[w] \in Tasks
    BY <1>16 DEF Work
  <2>2. KMax \in Int /\ item[w] \in Int
    OBVIOUS
  <2>3. Minus(KMax, item[w]) \in 0 .. SizeMod - 1
    BY ONLY <2>2, MinusType
  <2>4. Stage(w) \in 0 .. SizeMod
    BY <2>3 DEF Stage
  <2> QED
    BY <1>16, <2>1, <2>4 DEF Work
<1>17. ASSUME NEW w \in Workers, Complete(w) PROVE TypeInv'
  BY <1>17 DEF Complete
<1>18. ASSUME NEW w \in Workers, Exit(w) PROVE TypeInv'
  <2>1. CASE kCompleted > Span
    BY <1>18, <2>1 DEF Exit, NotifyMain, Tasks
  <2>2. CASE ~(kCompleted > Span)
    BY <1>18, <2>2 DEF Exit, Tasks
  <2> QED
    BY <2>1, <2>2
<1>19. CASE UNCHANGED vars
  BY <1>19 DEF vars
<1> QED
  BY <1>1, <1>2, <1>3, <1>4, <1>5, <1>6, <1>7, <1>8, <1>9, <1>10, <1>11, <1>12, <1>13,
     <1>14, <1>15, <1>16, <1>17, <1>18, <1>19
  DEF Next, Call, MainWork, WorkerFunction

\* Whatever the calls and however many threads, the counters, the range and
\* the places of the threads of computeLQApproximation and rolloutShots keep
\* their types.
THEOREM TypeCorrect == Spec => []TypeOK
<1>1. TypeInv => TypeOK
  BY DEF TypeInv
<1> QED
  BY <1>1, TypeInit, TypeNext, PTL DEF Spec

--------------------------------------------------------------------------------
(***************************************************************************)
(* The work of a call                                                      *)
(***************************************************************************)

\* What the solver asks for: no range runs backwards (a GNMS solver with a
\* single shot breaks this), and a single stage that is
\* rolled out begins a shot.
ProperRequests ==
    \A r \in Requests : /\ r.first <= r.last
                        /\ r.first = r.last => HasWork(r.task, r.first)

\* The three parts of a call on the main thread: before the counters are
\* reset, while they are, and while the workers may take offsets.
Before  == {"returned", "resetTaken"}
Setup   == {"resetCompleted", "setKMax", "setKMin", "publish"}
Serving == {"notify", "await", "gap", "blocked", "done"}

\* The offsets of the call that were handed out, less those held by a worker
\* in one of some places: counted ones are held nowhere any more, finished ones
\* are at most waiting to be counted.
Holding        == {"check", "work", "complete"}
Handed(places) == {k \in 0 .. Span :
                      k < kTaken /\ \A w \in Workers : pc[w] \in places => item[w] # k}
Counted        == Handed(Holding)
Finished       == Handed({"check", "work"})

\* The units of work at some offsets of the call
UnitsAt(offsets) == {<<call.task, call.last - k>> :
                        k \in {j \in offsets : HasWork(call.task, call.last - j)}}

\* What the main thread has set up for the call by the time it is where it is
MainInv ==
    /\ pc[Main] \in Before \cup Setup => workerTask = IDLE
    /\ pc[Main] \in Serving => workerTask = call.task
    /\ pc[Main] # "returned" => call \in Requests
    /\ pc[Main] \in {"setKMin", "publish"} \cup Serving => KMax = call.last
    /\ pc[Main] \in {"publish"} \cup Serving => KMin = call.first
    /\ pc[Main] = "done" => kCompleted > Span

\* Between two calls a worker that is still in its function finds no offset
\* left, and the work of the last call is complete.
BeforeInv ==
    pc[Main] \in Before =>
        /\ \A w \in Workers : /\ pc[w] \notin {"work", "complete"}
                              /\ pc[w] = "check" => item[w] > Span
                              /\ pc[w] = "take" => kTaken > Span
        /\ pc[Main] = "returned" /\ call # NoRequest => worked = WorkOf(call)
        /\ pc[Main] = "resetTaken" => worked = Terminal(call)

\* While the counters are reset nobody takes an offset.
SetupInv ==
    pc[Main] \in Setup =>
        /\ \A w \in Workers : pc[w] \notin InLoop
        /\ kTaken = 0
        /\ pc[Main] # "resetCompleted" => kCompleted = 0
        /\ worked = Terminal(call)

\* While the workers serve a call: every offset below kTaken_ was handed out to
\* one worker, who holds it until it is counted.
ServingInv ==
    pc[Main] \in Serving =>
        /\ \A w \in Workers : pc[w] \in InLoop => job[w] = call.task
        /\ \A w \in Workers : pc[w] \in Holding => item[w] < kTaken
        /\ \A w \in Workers : pc[w] \in {"work", "complete"} => item[w] <= Span
        /\ \A v, w \in Workers :
              pc[v] \in Holding /\ pc[w] \in Holding /\ v # w => item[v] # item[w]
        /\ kCompleted = Cardinality(Counted)
        /\ worked = Terminal(call) \cup UnitsAt(Finished)

CallInv == MainInv /\ (~overlap => BeforeInv /\ SetupInv /\ ServingInv)

Inv == TypeInv /\ CallInv

--------------------------------------------------------------------------------
\* The number of offsets of a call, less one, is a size_t.
LEMMA SpanType == TypeInv => Span \in Nat
<1> SUFFICES ASSUME TypeInv PROVE Span \in Nat
  OBVIOUS
<1>1. KMax \in Int /\ KMin \in Int
  BY SizesAssumption DEF TypeInv, TypeOK
<1>2. Minus(KMax, KMin) \in 0 .. SizeMod - 1
  BY ONLY <1>1, MinusType
<1> QED
  BY <1>2, SizesAssumption DEF Span

\* For a range that does not run backwards the difference does not wrap.
LEMMA SpanExact ==
    ASSUME NEW r \in Requests, r.first <= r.last, KMax = r.last, KMin = r.first
    PROVE  Span = r.last - r.first
<1>1. r.first \in 0 .. K /\ r.last \in 0 .. K - 1
  BY RequestType
<1>2. KMax \in Int /\ KMin \in Int /\ KMin <= KMax /\ KMax - KMin < SizeMod
  BY <1>1, SizesAssumption
<1>3. Minus(KMax, KMin) = KMax - KMin
  BY ONLY <1>2, MinusExact
<1> QED
  BY <1>3 DEF Span

\* As many offsets counted as there are: all of them are.
LEMMA FullCount ==
    ASSUME Span \in Nat, Cardinality(Counted) > Span
    PROVE  Counted = 0 .. Span
<1>1. Counted \in SUBSET (0 .. Span)
  BY DEF Counted, Handed
<1>2. IsFiniteSet(0 .. Span) /\ Cardinality(0 .. Span) = Span + 1
  BY FS_Interval
<1>3. IsFiniteSet(Counted) /\ Cardinality(Counted) <= Cardinality(0 .. Span)
  BY <1>1, <1>2, FS_Subset
<1>4. Cardinality(Counted) \in Nat
  BY <1>3, FS_CardinalityType
<1>5. Cardinality(0 .. Span) = Cardinality(Counted)
  BY <1>2, <1>3, <1>4
<1> QED
  BY <1>1, <1>2, <1>5, FS_Subset

\* The work at all offsets is the work of the call.
LEMMA WorkAtAll ==
    ASSUME call \in Requests, call.first <= call.last, Span = call.last - call.first
    PROVE  Terminal(call) \cup UnitsAt(0 .. Span) = WorkOf(call)
<1>1. call.first \in Int /\ call.last \in Int
  BY RequestType
<1>2. ASSUME NEW k \in 0 .. Span
      PROVE  call.last - k \in call.first .. call.last
  BY <1>1
<1>3. ASSUME NEW i \in call.first .. call.last
      PROVE  call.last - i \in 0 .. Span /\ call.last - (call.last - i) = i
  BY <1>1
<1>4. UnitsAt(0 .. Span) =
        {<<call.task, k>> : k \in {i \in call.first .. call.last : HasWork(call.task, i)}}
  BY <1>2, <1>3 DEF UnitsAt
<1> QED
  BY <1>4 DEF WorkOf

LEMMA CallInit == Init => CallInv
<1> SUFFICES ASSUME Init PROVE CallInv
  OBVIOUS
<1>1. pc[Main] = "returned" /\ \A w \in Workers : pc[w] = "returned"
  BY DEF Init, Threads
<1>2. MainInv
  BY <1>1 DEF Init, MainInv, Before, Setup, Serving
<1>3. BeforeInv /\ SetupInv /\ ServingInv
  BY <1>1 DEF Init, BeforeInv, SetupInv, ServingInv, Before, Setup, Serving
<1> QED
  BY <1>2, <1>3 DEF CallInv

\* Every step keeps to the order in which the main thread sets a call up.
LEMMA MainNext == TypeInv /\ MainInv /\ [Next]_vars => MainInv'
<1> SUFFICES ASSUME TypeInv, MainInv, [Next]_vars PROVE MainInv'
  OBVIOUS
<1> USE ThreadsAssumption
    DEF TypeInv, TypeOK, MainInv, Before, Setup, Serving, Threads, counters, history,
        Goto, Span
<1>1. ASSUME NEW r \in Requests, CallSingle(r) PROVE MainInv'
  BY <1>1 DEF CallSingle
<1>2. ASSUME NEW r \in Requests, CallParallel(r) PROVE MainInv'
  BY <1>2 DEF CallParallel
<1>3. CASE ResetTaken
  BY <1>3 DEF ResetTaken
<1>4. CASE ResetCompleted
  BY <1>4 DEF ResetCompleted
<1>5. CASE SetKMax
  BY <1>5 DEF SetKMax
<1>6. CASE SetKMin
  BY <1>6 DEF SetKMin
<1>7. CASE Publish
  BY <1>7 DEF Publish
<1>8. CASE NotifyWorkers
  BY <1>8 DEF NotifyWorkers
<1>9. CASE Await
  BY <1>9 DEF Await
<1>10. CASE Block
  BY <1>10 DEF Block
<1>11. CASE Finish
  BY <1>11 DEF Finish
<1>12. CASE Spurious
  BY <1>12 DEF Spurious
<1>13. ASSUME NEW w \in Workers, Dispatch(w) PROVE MainInv'
  BY <1>13 DEF Dispatch
<1>14. ASSUME NEW w \in Workers, Take(w) PROVE MainInv'
  BY <1>14 DEF Take
<1>15. ASSUME NEW w \in Workers, Check(w) PROVE MainInv'
  BY <1>15 DEF Check
<1>16. ASSUME NEW w \in Workers, Work(w) PROVE MainInv'
  BY <1>16 DEF Work
<1>17. ASSUME NEW w \in Workers, Complete(w) PROVE MainInv'
  <2>1. pc[Main] = "done" => kCompleted' > Span
    BY <1>17, SpanType DEF Complete
  <2> QED
    BY <1>17, <2>1 DEF Complete
<1>18. ASSUME NEW w \in Workers, Exit(w) PROVE MainInv'
  BY <1>18 DEF Exit, NotifyMain
<1>19. CASE UNCHANGED vars
  BY <1>19 DEF vars
<1> QED
  BY <1>1, <1>2, <1>3, <1>4, <1>5, <1>6, <1>7, <1>8, <1>9, <1>10, <1>11, <1>12, <1>13,
     <1>14, <1>15, <1>16, <1>17, <1>18, <1>19
  DEF Next, Call, MainWork, WorkerFunction

\* While the counters are reset nobody can enter a worker function.
LEMMA SetupNext ==
    ASSUME Inv, [Next]_vars, ~overlap'
    PROVE  SetupInv'
<1> USE ThreadsAssumption
    DEF Inv, TypeInv, TypeOK, CallInv, MainInv, BeforeInv, SetupInv, Before, Setup, Serving,
        Threads, counters, history, Goto
<1>1. ASSUME NEW r \in Requests, CallSingle(r) \/ CallParallel(r) PROVE SetupInv'
  BY <1>1 DEF CallSingle, CallParallel
<1>2. CASE ResetTaken
  BY <1>2 DEF ResetTaken
<1>3. CASE ResetCompleted
  BY <1>3 DEF ResetCompleted
<1>4. CASE SetKMax \/ SetKMin \/ Publish
  BY <1>4 DEF SetKMax, SetKMin, Publish
<1>5. CASE NotifyWorkers \/ Await \/ Block \/ Finish \/ Spurious
  BY <1>5 DEF NotifyWorkers, Await, Block, Finish, Spurious
<1>6. ASSUME NEW w \in Workers, Dispatch(w) PROVE SetupInv'
  BY <1>6 DEF Dispatch, Tasks, IDLE, LQ, ROLLOUT
<1>7. ASSUME NEW w \in Workers, Take(w) \/ Check(w) \/ Work(w) \/ Complete(w)
      PROVE SetupInv'
  BY <1>7 DEF Take, Check, Work, Complete, InLoop
<1>8. ASSUME NEW w \in Workers, Exit(w) PROVE SetupInv'
  BY <1>8 DEF Exit, NotifyMain, InLoop
<1>9. CASE UNCHANGED vars
  BY <1>9 DEF vars
<1> QED
  BY <1>1, <1>2, <1>3, <1>4, <1>5, <1>6, <1>7, <1>8, <1>9
  DEF Next, Call, MainWork, WorkerFunction

\* When all offsets are counted, all were handed out and no worker holds one.
LEMMA AllCounted ==
    ASSUME Inv, ~overlap, pc[Main] \in Serving, kCompleted > Span
    PROVE  /\ Counted = 0 .. Span /\ kTaken > Span
           /\ \A w \in Workers : pc[w] \in Holding => item[w] > Span
<1> USE DEF Inv, CallInv
<1>1. Span \in Nat
  BY SpanType
<1>2. Counted = 0 .. Span
  BY <1>1, FullCount DEF ServingInv
<1>3. kTaken > Span
  <2>1. Span \in Counted /\ kTaken \in Nat
    BY <1>1, <1>2 DEF TypeInv, TypeOK
  <2> QED
    BY <1>1, <2>1 DEF Counted, Handed
<1>4. ASSUME NEW w \in Workers, pc[w] \in Holding PROVE item[w] > Span
  <2>1. item[w] \in Nat
    BY DEF TypeInv, TypeOK
  <2>2. item[w] \notin 0 .. Span
    BY <1>2, <1>4 DEF Counted, Handed
  <2> QED
    BY <1>1, <2>1, <2>2
<1> QED
  BY <1>2, <1>3, <1>4

\* When all offsets were handed out and no worker holds one, all are counted.
LEMMA NoneHeld ==
    ASSUME Inv, ~overlap, pc[Main] \in Serving, kTaken > Span,
           \A w \in Workers : pc[w] \notin Holding
    PROVE  kCompleted > Span
<1> USE DEF Inv, CallInv
<1>1. Span \in Nat /\ kTaken \in Nat
  BY SpanType DEF TypeInv, TypeOK
<1>2. Counted = 0 .. Span
  BY <1>1 DEF Counted, Handed
<1>3. Cardinality(Counted) = Span + 1
  BY <1>1, <1>2, FS_Interval
<1> QED
  BY <1>1, <1>3 DEF ServingInv

\* When the main thread leaves the wait, every offset is counted: the work is
\* complete and no worker holds an offset of the range any more.
LEMMA CallComplete ==
    ASSUME ProperRequests, Inv, ~overlap, pc[Main] = "done"
    PROVE  /\ worked = WorkOf(call)
           /\ kTaken > Span
           /\ \A w \in Workers : /\ pc[w] \notin {"work", "complete"}
                                 /\ pc[w] = "check" => item[w] > Span
<1> USE DEF Inv, CallInv, Serving
<1>1. call \in Requests /\ KMax = call.last /\ KMin = call.first /\ kCompleted > Span
  BY DEF MainInv
<1>2. call.first <= call.last
  BY <1>1 DEF ProperRequests
<1>3. Span \in Nat /\ Span = call.last - call.first
  BY <1>1, <1>2, SpanType, SpanExact
<1>4. ServingInv
  OBVIOUS
<1>5. Counted = 0 .. Span /\ kTaken > Span /\ \A w \in Workers : pc[w] \in Holding => item[w] > Span
  BY <1>1, AllCounted
<1>6. Finished = 0 .. Span
  BY <1>5 DEF Counted, Finished, Handed, Holding
<1>7. worked = WorkOf(call)
  BY <1>1, <1>2, <1>3, <1>4, <1>6, WorkAtAll DEF ServingInv
<1>8. ASSUME NEW w \in Workers, pc[w] \in {"work", "complete"} PROVE FALSE
  <2>1. item[w] <= Span /\ item[w] \in Nat
    BY <1>4, <1>8 DEF ServingInv, TypeInv, TypeOK
  <2> QED
    BY <1>3, <1>5, <1>8, <2>1 DEF Holding
<1> QED
  BY <1>5, <1>7, <1>8 DEF Holding

LEMMA BeforeNext ==
    ASSUME ProperRequests, Inv, [Next]_vars, ~overlap'
    PROVE  BeforeInv'
<1> USE ThreadsAssumption
    DEF Inv, TypeInv, TypeOK, CallInv, MainInv, BeforeInv, Before, Setup, Serving,
        Threads, counters, history, Goto, Span
<1>1. ASSUME NEW r \in Requests, CallSingle(r) PROVE BeforeInv'
  <2>1. r.first \in Int /\ r.first .. r.last = {r.first} /\ HasWork(r.task, r.first)
    BY <1>1, RequestType DEF CallSingle, ProperRequests
  <2>2. worked' = WorkOf(r)
    BY <1>1, <2>1 DEF CallSingle, WorkOf
  <2> QED
    BY <1>1, <2>2 DEF CallSingle
<1>2. ASSUME NEW r \in Requests, CallParallel(r) PROVE BeforeInv'
  BY <1>2 DEF CallParallel
<1>3. CASE ResetTaken \/ ResetCompleted \/ SetKMax \/ SetKMin \/ Publish
  BY <1>3 DEF ResetTaken, ResetCompleted, SetKMax, SetKMin, Publish
<1>4. CASE NotifyWorkers \/ Await \/ Block \/ Spurious
  BY <1>4 DEF NotifyWorkers, Await, Block, Spurious
<1>5. CASE Finish
  <2>1. pc[Main] = "done" /\ ~overlap
    BY <1>5 DEF Finish
  <2>2. /\ worked = WorkOf(call) /\ kTaken > Span
        /\ \A w \in Workers : /\ pc[w] \notin {"work", "complete"}
                              /\ pc[w] = "check" => item[w] > Span
    BY <2>1, CallComplete
  <2> QED
    BY <1>5, <2>2 DEF Finish
<1>6. ASSUME NEW w \in Workers, Dispatch(w) PROVE BeforeInv'
  BY <1>6 DEF Dispatch, Tasks, IDLE, LQ, ROLLOUT
<1>7. ASSUME NEW w \in Workers, Take(w) PROVE BeforeInv'
  <2>1. Span \in Nat
    BY SpanType
  <2> QED
    BY <1>7, <2>1 DEF Take
<1>8. ASSUME NEW w \in Workers, Check(w) PROVE BeforeInv'
  BY <1>8 DEF Check
<1>9. ASSUME NEW w \in Workers, Work(w) \/ Complete(w) PROVE BeforeInv'
  BY <1>9 DEF Work, Complete
<1>10. ASSUME NEW w \in Workers, Exit(w) PROVE BeforeInv'
  BY <1>10 DEF Exit, NotifyMain
<1>11. CASE UNCHANGED vars
  BY <1>11 DEF vars
<1> QED
  BY <1>1, <1>2, <1>3, <1>4, <1>5, <1>6, <1>7, <1>8, <1>9, <1>10, <1>11
  DEF Next, Call, MainWork, WorkerFunction

\* The offsets of a call are those of a set of natural numbers up to Span.
LEMMA HandedFinite ==
    ASSUME Span \in Nat
    PROVE  IsFiniteSet(Counted) /\ Cardinality(Counted) \in Nat
<1>1. Counted \in SUBSET (0 .. Span)
  BY DEF Counted, Handed
<1>2. IsFiniteSet(0 .. Span)
  BY FS_Interval
<1>3. IsFiniteSet(Counted)
  BY <1>1, <1>2, FS_Subset
<1> QED
  BY <1>3, FS_CardinalityType

\* The stage at an offset of a proper call
LEMMA StageExact ==
    ASSUME ProperRequests, Inv, ~overlap, pc[Main] \in Serving, NEW w \in Workers,
           pc[w] = "work"
    PROVE  item[w] \in 0 .. Span /\ Stage(w) = call.last - item[w]
<1> USE DEF Inv, CallInv, Serving
<1>1. call \in Requests /\ KMax = call.last /\ KMin = call.first
  BY DEF MainInv
<1>2. call.first \in 0 .. K /\ call.last \in 0 .. K - 1 /\ call.first <= call.last
  BY <1>1, RequestType DEF ProperRequests
<1>3. Span = call.last - call.first
  BY <1>1, <1>2, SpanExact
<1>4. item[w] \in Nat /\ item[w] <= Span
  BY DEF ServingInv, TypeInv, TypeOK
<1>5. KMax \in Int /\ item[w] \in Int /\ item[w] <= KMax /\ KMax - item[w] < SizeMod
  BY <1>1, <1>2, <1>3, <1>4, SizesAssumption
<1>6. Minus(KMax, item[w]) = KMax - item[w]
  BY ONLY <1>5, MinusExact
<1> QED
  BY <1>1, <1>2, <1>3, <1>4, <1>6 DEF Stage

\* Every step of a worker keeps the book of the offsets: a new one is held, a
\* held one is worked on, a finished one is counted.
LEMMA ServingWorker ==
    ASSUME ProperRequests, Inv, ~overlap, pc[Main] \in Serving, NEW w \in Workers,
           Dispatch(w) \/ WorkerFunction(w)
    PROVE  ServingInv'
<1> USE ThreadsAssumption
    DEF Inv, TypeInv, TypeOK, CallInv, Serving, ServingInv, Threads, counters, history, Goto,
        Holding
<1>1. Span \in Nat
  BY SpanType
<1>2. CASE Dispatch(w)
  <2>1. Span' = Span /\ Counted' = Counted /\ Finished' = Finished
    BY <1>2 DEF Dispatch, Span, Counted, Finished, Handed
  <2>2. UnitsAt(Finished)' = UnitsAt(Finished) /\ Terminal(call)' = Terminal(call)
    BY <1>2, <2>1 DEF Dispatch, UnitsAt
  <2> QED
    BY <1>2, <2>1, <2>2 DEF Dispatch, MainInv, InLoop
<1>3. CASE Take(w)
  <2>1. Span' = Span /\ Counted' = Counted /\ Finished' = Finished
    BY <1>1, <1>3 DEF Take, Span, Counted, Finished, Handed
  <2>2. UnitsAt(Finished)' = UnitsAt(Finished) /\ Terminal(call)' = Terminal(call)
    BY <1>3, <2>1 DEF Take, UnitsAt
  <2> QED
    BY <1>3, <2>1, <2>2 DEF Take, InLoop
<1>4. CASE Check(w)
  <2>1. Span' = Span /\ Counted' = Counted
    BY <1>1, <1>4 DEF Check, Span, Counted, Handed
  <2>2. Finished' = Finished
    BY <1>1, <1>4 DEF Check, Span, Finished, Handed
  <2>3. UnitsAt(Finished)' = UnitsAt(Finished) /\ Terminal(call)' = Terminal(call)
    BY <1>4, <2>2 DEF Check, UnitsAt
  <2> QED
    BY <1>1, <1>4, <2>1, <2>3 DEF Check, InLoop
<1>5. CASE Work(w)
  <2> DEFINE k == item[w]
  <2>1. k \in 0 .. Span /\ job[w] = call.task /\ Stage(w) = call.last - k
    BY <1>5, StageExact DEF Work, InLoop
  <2>2. Span' = Span /\ Counted' = Counted
    BY <1>5 DEF Work, Span, Counted, Handed
  <2>3. Finished' = Finished \cup {k}
    BY <1>5, <2>1 DEF Work, Span, Finished, Handed
  <2>4. UnitsAt(Finished)' = UnitsAt(Finished) \cup UnitsAt({k})
    BY <1>5, <2>3 DEF Work, UnitsAt
  <2>5. worked' = worked \cup UnitsAt({k})
    BY <1>5, <2>1 DEF Work, UnitsAt
  <2>6. worked' = Terminal(call)' \cup UnitsAt(Finished)'
    BY <1>5, <2>4, <2>5 DEF Work
  <2> QED
    BY <1>5, <2>2, <2>6 DEF Work, InLoop
<1>6. CASE Complete(w)
  <2> DEFINE k == item[w]
  <2>1. Span' = Span /\ Finished' = Finished
    BY <1>6 DEF Complete, Span, Finished, Handed
  <2>2. k \notin Counted /\ Counted' = Counted \cup {k}
    BY <1>6 DEF Complete, Span, Counted, Handed
  <2>3. Cardinality(Counted') = Cardinality(Counted) + 1
    BY <1>1, <2>2, HandedFinite, FS_AddElement
  <2>4. UnitsAt(Finished)' = UnitsAt(Finished) /\ Terminal(call)' = Terminal(call)
    BY <1>6, <2>1 DEF Complete, UnitsAt
  <2> QED
    BY <1>6, <2>1, <2>3, <2>4 DEF Complete, InLoop
<1>7. CASE Exit(w)
  <2>1. Span' = Span /\ Counted' = Counted /\ Finished' = Finished
    BY <1>7 DEF Exit, NotifyMain, Span, Counted, Finished, Handed
  <2>2. UnitsAt(Finished)' = UnitsAt(Finished) /\ Terminal(call)' = Terminal(call)
    BY <1>7, <2>1 DEF Exit, NotifyMain, UnitsAt
  <2> QED
    BY <1>7, <2>1, <2>2 DEF Exit, NotifyMain, InLoop
<1> QED
  BY <1>2, <1>3, <1>4, <1>5, <1>6, <1>7 DEF WorkerFunction

LEMMA ServingNext ==
    ASSUME ProperRequests, Inv, [Next]_vars, ~overlap'
    PROVE  ServingInv'
<1> USE ThreadsAssumption
    DEF Inv, TypeInv, TypeOK, CallInv, Serving, Threads, counters, history, Goto
<1>1. ASSUME NEW r \in Requests, CallSingle(r) \/ CallParallel(r) PROVE ServingInv'
  BY <1>1 DEF CallSingle, CallParallel, ServingInv
<1>2. CASE ResetTaken \/ ResetCompleted \/ SetKMax \/ SetKMin
  BY <1>2 DEF ResetTaken, ResetCompleted, SetKMax, SetKMin, ServingInv
<1>3. CASE Publish
  <2>1. /\ \A w \in Workers : pc[w] \notin InLoop
        /\ kTaken = 0 /\ kCompleted = 0 /\ worked = Terminal(call)
    BY <1>3 DEF Publish, SetupInv, Setup
  <2>2. Span' \in Nat /\ Counted' = {} /\ Finished' = {}
    BY <1>3, <2>1, SpanType DEF Publish, Span, Counted, Finished, Handed
  <2>3. Cardinality(Counted') = 0
    BY <2>2, FS_EmptySet
  <2>4. UnitsAt(Finished)' = {}
    BY <2>2 DEF UnitsAt
  <2>5. worked' = Terminal(call)'
    BY <1>3, <2>1 DEF Publish
  <2>6. \A w \in Workers : pc'[w] \notin InLoop
    BY <1>3, <2>1 DEF Publish
  <2> QED
    BY <1>3, <2>1, <2>3, <2>4, <2>5, <2>6 DEF Publish, ServingInv, InLoop, Holding
<1>4. CASE NotifyWorkers \/ Await \/ Block \/ Spurious \/ UNCHANGED vars
  <2>1. /\ UNCHANGED <<kTaken, kCompleted, KMax, KMin, item, job, call, worked, overlap>>
        /\ \A w \in Workers : pc'[w] = IF pc[w] = "asleep" THEN "awake" ELSE pc[w]
    BY <1>4 DEF NotifyWorkers, Await, Block, Spurious, vars, WorkerPlaces, InLoop
  <2>2. \A w \in Workers : pc'[w] = pc[w]
    BY <2>1 DEF WorkerPlaces, InLoop
  <2>3. Span' = Span /\ Counted' = Counted /\ Finished' = Finished
    BY <2>1, <2>2 DEF Span, Counted, Finished, Handed
  <2>4. UnitsAt(Finished)' = UnitsAt(Finished) /\ Terminal(call)' = Terminal(call)
    BY <2>1, <2>3 DEF UnitsAt
  <2>5. pc'[Main] \in Serving => pc[Main] \in Serving
    BY <1>4 DEF NotifyWorkers, Await, Block, Spurious, vars
  <2> QED
    BY <2>1, <2>2, <2>3, <2>4, <2>5 DEF ServingInv
<1>5. CASE Finish
  BY <1>5 DEF Finish, ServingInv
<1>6. ASSUME NEW w \in Workers, Dispatch(w) \/ WorkerFunction(w) PROVE ServingInv'
  <2>1. ~overlap
    BY <1>6 DEF Dispatch, WorkerFunction, Take, Check, Work, Complete, Exit
  <2>2. CASE pc[Main] \in Serving
    BY <1>6, <2>1, <2>2, ServingWorker
  <2>3. CASE pc[Main] \notin Serving
    <3>1. pc'[Main] \notin Serving
      BY <1>6, <2>3 DEF Dispatch, WorkerFunction, Take, Check, Work, Complete, Exit, NotifyMain
    <3> QED
      BY <3>1 DEF ServingInv
  <2> QED
    BY <2>2, <2>3
<1> QED
  BY <1>1, <1>2, <1>3, <1>4, <1>5, <1>6 DEF Next, Call, MainWork

LEMMA CallNext ==
    ASSUME ProperRequests, Inv, [Next]_vars
    PROVE  CallInv'
<1>1. MainInv'
  BY MainNext DEF Inv, CallInv
<1>2. ASSUME ~overlap' PROVE BeforeInv' /\ SetupInv' /\ ServingInv'
  BY <1>2, BeforeNext, SetupNext, ServingNext
<1> QED
  BY <1>1, <1>2 DEF CallInv

\* When computeLQApproximation or rolloutShots returns, undisturbed by a worker
\* of an earlier call, the stages worked on are exactly those it was asked for:
\* kCompleted_ counts each offset once, after its work, so that its passing
\* KMax_ - KMin_ means that none is missing.
THEOREM WorkDone == ASSUME ProperRequests PROVE Spec => []AllDone
<1>1. Init => Inv
  BY TypeInit, CallInit DEF Inv
<1>2. Inv /\ [Next]_vars => Inv'
  BY TypeNext, CallNext DEF Inv
<1>3. Inv => AllDone
  <2> SUFFICES ASSUME Inv, pc[Main] \in {"done", "returned"}, call # NoRequest, ~overlap
               PROVE  worked = WorkOf(call)
    BY DEF AllDone
  <2>1. CASE pc[Main] = "done"
    BY <2>1, CallComplete
  <2>2. CASE pc[Main] = "returned"
    BY <2>2 DEF Inv, CallInv, BeforeInv, Before
  <2> QED
    BY <2>1, <2>2
<1> QED
  BY <1>1, <1>2, <1>3, PTL DEF Spec

\* No worker of an undisturbed call gets to a stage beyond the LQ problem's
\* arrays: the offsets it is given end where KMax_ - KMin_ does.
THEOREM StagesInRange == ASSUME ProperRequests PROVE Spec => []StageInRange
<1>1. Init => Inv
  BY TypeInit, CallInit DEF Inv
<1>2. Inv /\ [Next]_vars => Inv'
  BY TypeNext, CallNext DEF Inv
<1>3. Inv => StageInRange
  <2> SUFFICES ASSUME Inv, ~overlap, NEW w \in Workers, pc[w] = "work"
               PROVE  Stage(w) < K
    BY DEF StageInRange
  <2>1. TypeOK /\ MainInv /\ BeforeInv /\ SetupInv /\ ServingInv
    BY DEF Inv, TypeInv, CallInv
  <2>2. pc[Main] \in Serving
    <3>1. pc[Main] \in Before \cup Setup \cup Serving
      BY <2>1, ThreadsAssumption DEF TypeOK, Threads, MainPlaces, Before, Setup, Serving
    <3>2. pc[Main] \notin Before
      BY <2>1 DEF BeforeInv
    <3>3. pc[Main] \notin Setup
      BY <2>1 DEF SetupInv, InLoop
    <3> QED
      BY <3>1, <3>2, <3>3
  <2>3. item[w] \in 0 .. Span /\ Stage(w) = call.last - item[w]
    BY <2>2, StageExact
  <2>4. call.last \in 0 .. K - 1
    BY <2>1, <2>2, RequestType DEF MainInv, Serving
  <2>5. item[w] \in Nat
    BY <2>3, SpanType DEF Inv
  <2> QED
    BY <2>3, <2>4, <2>5, SizesAssumption
<1> QED
  BY <1>1, <1>2, <1>3, PTL DEF Spec

--------------------------------------------------------------------------------
(***************************************************************************)
(* The refinement                                                          *)
(***************************************************************************)

\* Work on a stage does one unit of the call that was not done before, or
\* nothing where no shot begins.
LEMMA WorkDoesOne ==
    ASSUME ProperRequests, Inv, ~overlap, NEW w \in Workers, Work(w)
    PROVE  worked' = worked \/ \E u \in UNION {WorkOf(r) : r \in Requests} : PF!Do(u)
<1> USE DEF Inv, CallInv
<1>1. pc[w] = "work" /\ pc[Main] \in Serving
  <2>1. pc[Main] \in Before \cup Setup \cup Serving
    BY ThreadsAssumption DEF TypeInv, TypeOK, Threads, MainPlaces, Before, Setup, Serving
  <2>2. pc[w] = "work"
    BY DEF Work, Goto
  <2> QED
    BY <2>1, <2>2 DEF BeforeInv, SetupInv, InLoop
<1>2. /\ call \in Requests /\ call.first \in 0 .. K /\ call.last \in 0 .. K - 1
      /\ call.first <= call.last /\ Span = call.last - call.first /\ job[w] = call.task
  <2>1. call \in Requests /\ KMax = call.last /\ KMin = call.first
    BY <1>1 DEF MainInv, Serving
  <2>2. job[w] = call.task
    BY <1>1 DEF ServingInv, InLoop
  <2> QED
    BY <2>1, <2>2, RequestType, SpanExact DEF ProperRequests
<1> DEFINE u == <<call.task, call.last - item[w]>>
<1>3. item[w] \in 0 .. Span /\ Stage(w) = call.last - item[w]
  BY <1>1, StageExact
<1>4. ASSUME HasWork(call.task, call.last - item[w])
      PROVE  PF!Do(u) /\ u \in WorkOf(call)
  <2>1. u \in WorkOf(call)
    <3>1. call.last - item[w] \in call.first .. call.last
      BY <1>2, <1>3
    <3> QED
      BY <1>4, <3>1 DEF WorkOf
  <2>2. u \notin worked
    <3>1. worked = Terminal(call) \cup UnitsAt(Finished)
      BY <1>1 DEF ServingInv
    <3>2. u \notin Terminal(call)
      <4>1. call.last - item[w] # K
        BY <1>2, <1>3, SizesAssumption
      <4> QED
        BY <4>1 DEF Terminal
    <3>3. u \notin UnitsAt(Finished)
      <4>1. item[w] \notin Finished
        BY <1>1 DEF Finished, Handed
      <4>2. Finished \subseteq 0 .. Span
        BY DEF Finished, Handed
      <4>3. ASSUME NEW k \in Finished PROVE call.last - k # call.last - item[w]
        BY <1>2, <1>3, <4>1, <4>2
      <4> QED
        BY <4>3 DEF UnitsAt
    <3> QED
      BY <3>1, <3>2, <3>3
  <2>3. worked' = worked \cup {u} /\ call' = call
    BY <1>2, <1>3, <1>4 DEF Work
  <2>4. (pc[Main] # "returned") /\ (pc'[Main] # "returned")
    BY <1>1, ThreadsAssumption DEF Work, Goto, Serving, TypeInv, TypeOK, Threads
  <2> QED
    BY <2>1, <2>2, <2>3, <2>4 DEF PF!Do
<1>5. ASSUME ~HasWork(call.task, call.last - item[w])
      PROVE  worked' = worked
  BY <1>2, <1>3, <1>5 DEF Work
<1> QED
  BY <1>2, <1>4, <1>5

\* Every step of the threads is a step of the sequential loop, or none of its
\* business, unless a call meets a worker of an earlier one.
LEMMA StepRefines ==
    ASSUME ProperRequests, Inv, [Next]_vars
    PROVE  [PF!Next \/ overlap']_(PF!vars)
<1> SUFFICES ASSUME ~overlap' PROVE PF!Next \/ UNCHANGED PF!vars
  OBVIOUS
<1> USE DEF PF!vars
<1> DEFINE Same == pc'[Main] # "returned" /\ pc[Main] # "returned" /\ UNCHANGED <<call, worked>>
<1>0. Same => UNCHANGED PF!vars
  OBVIOUS
<1>1. ASSUME NEW r \in Requests, CallSingle(r) PROVE PF!Whole(r)
  <2>1. r.first \in Int /\ r.first .. r.last = {r.first} /\ HasWork(r.task, r.first)
    BY <1>1, RequestType DEF CallSingle, ProperRequests
  <2>2. worked' = WorkOf(r)
    BY <1>1, <2>1 DEF CallSingle, WorkOf
  <2> QED
    BY <1>1, <2>2 DEF CallSingle, PF!Whole
<1>2. ASSUME NEW r \in Requests, CallParallel(r) PROVE PF!Begin(r)
  <2>1. Terminal(r) \subseteq WorkOf(r)
    BY DEF WorkOf
  <2> QED
    BY <1>2, <2>1, ThreadsAssumption
    DEF CallParallel, Goto, PF!Begin, Inv, TypeInv, TypeOK, Threads
<1>3. CASE Finish
  <2>1. pc[Main] = "done" /\ ~overlap
    BY <1>3 DEF Finish, Goto, history
  <2>2. worked = WorkOf(call)
    BY <2>1, CallComplete
  <2> QED
    BY <1>3, <2>2, ThreadsAssumption
    DEF Finish, Goto, history, PF!Return, PF!Next, Inv, TypeInv, TypeOK, Threads
<1>4. CASE ResetTaken \/ ResetCompleted \/ SetKMax \/ SetKMin \/ Publish
  BY <1>4, ThreadsAssumption
  DEF ResetTaken, ResetCompleted, SetKMax, SetKMin, Publish, Goto, history, Inv, TypeInv,
      TypeOK, Threads
<1>5. CASE NotifyWorkers \/ Await \/ Block \/ Spurious
  BY <1>5, ThreadsAssumption
  DEF NotifyWorkers, Await, Block, Spurious, Goto, history, Inv, TypeInv, TypeOK, Threads
<1>6. ASSUME NEW w \in Workers, Dispatch(w) \/ Take(w) \/ Check(w) \/ Complete(w)
      PROVE  UNCHANGED PF!vars
  BY <1>6, ThreadsAssumption
  DEF Dispatch, Take, Check, Complete, Goto, history, Inv, TypeInv, TypeOK, Threads
<1>7. ASSUME NEW w \in Workers, Exit(w) PROVE UNCHANGED PF!vars
  BY <1>7, ThreadsAssumption
  DEF Exit, NotifyMain, Goto, history, Inv, TypeInv, TypeOK, Threads
<1>8. ASSUME NEW w \in Workers, Work(w) PROVE PF!Next \/ UNCHANGED PF!vars
  <2>1. ~overlap
    BY <1>8 DEF Work
  <2>2. worked' = worked \/ \E u \in UNION {WorkOf(r) : r \in Requests} : PF!Do(u)
    BY <1>8, <2>1, WorkDoesOne
  <2>3. UNCHANGED <<pc[Main], call>>
    BY <1>8, ThreadsAssumption DEF Work, Goto, Inv, TypeInv, TypeOK, Threads
  <2> QED
    BY <2>2, <2>3 DEF PF!Next
<1>9. CASE UNCHANGED vars
  BY <1>9 DEF vars, history
<1> QED
  BY <1>1, <1>2, <1>3, <1>4, <1>5, <1>6, <1>7, <1>8, <1>9
  DEF Next, Call, MainWork, WorkerFunction, PF!Next

\* computeLQApproximation and rolloutShots of the multi-threaded backend do what
\* a sequential loop over the stages does, for any number of workers.
THEOREM Refinement == ASSUME ProperRequests PROVE Spec => ImplementsParallelFor
<1>1. Init => Inv /\ PF!Init
  <2>1. Init => PF!Init
    BY DEF Init, PF!Init, Threads
  <2> QED
    BY <2>1, TypeInit, CallInit DEF Inv
<1>2. Inv /\ [Next]_vars => Inv'
  BY TypeNext, CallNext DEF Inv
<1>3. Inv /\ [Next]_vars => [PF!Next \/ overlap']_(PF!vars)
  BY StepRefines
<1> QED
  BY <1>1, <1>2, <1>3, PTL DEF Spec, ImplementsParallelFor

--------------------------------------------------------------------------------
(***************************************************************************)
(* Steps of a larger system                                                *)
(*                                                                         *)
(* NLOCBackendMP contains this module's steps, with threadWork in the      *)
(* place of Dispatch.  These lemmas are about its other steps.             *)
(***************************************************************************)

\* A step that leaves the calls alone, whatever it adds to the history
Elsewhere ==
    /\ UNCHANGED <<pc, workerTask, counters, item, job, call, worked>>
    /\ served' \subseteq Workers /\ lost' \in BOOLEAN
    /\ overlap' \in BOOLEAN /\ (overlap => overlap')

\* Types first: these hold disturbed or not.
LEMMA ElsewhereTypes == ASSUME TypeInv, MainInv, Elsewhere PROVE TypeInv' /\ MainInv'
<1> USE DEF Elsewhere, counters
<1>1. TypeInv'
  BY DEF TypeInv, TypeOK, JobKnown
<1>2. MainInv'
  BY DEF MainInv, Span
<1> QED
  BY <1>1, <1>2

LEMMA ElsewhereKeeps == ASSUME Inv, Elsewhere PROVE Inv'
<1> USE DEF Inv, CallInv, Elsewhere, counters
<1>1. TypeInv' /\ MainInv'
  BY ElsewhereTypes
<1>2. Span' = Span /\ Counted' = Counted /\ Finished' = Finished
  BY DEF Span, Counted, Finished, Handed
<1>3. UnitsAt(Finished)' = UnitsAt(Finished) /\ Terminal(call)' = Terminal(call)
  BY <1>2 DEF UnitsAt
<1>5. ASSUME ~overlap' PROVE BeforeInv' /\ SetupInv' /\ ServingInv'
  BY <1>2, <1>3, <1>5 DEF BeforeInv, SetupInv, ServingInv
<1> QED
  BY <1>1, <1>5

\* A worker enters a worker function with the task it has read some time ago.
Enter(w, task) ==
    /\ Goto(w, "returned", "take")
    /\ job' = [job EXCEPT ![w] = task]
    /\ served' \subseteq Workers
    /\ UNCHANGED <<workerTask, counters, item, call, worked, overlap, lost>>

LEMMA EnterTypes ==
    ASSUME TypeInv, MainInv, NEW w \in Workers, NEW task \in Tasks, Enter(w, task)
    PROVE  TypeInv' /\ MainInv'
<1> USE ThreadsAssumption DEF TypeInv, TypeOK, Threads, counters, Goto, Enter
<1>1. TypeInv'
  BY DEF JobKnown, WorkerPlaces, InLoop
<1>2. pc'[Main] = pc[Main] /\ Span' = Span
  BY DEF Span
<1>3. MainInv'
  BY <1>2 DEF MainInv
<1> QED
  BY <1>1, <1>3

\* It does no harm if the task is the one on offer, or when all offsets of the
\* last call were handed out and no other call has begun.
LEMMA EnterKeeps ==
    ASSUME Inv, NEW w \in Workers, NEW task \in Tasks, Enter(w, task),
           ~overlap => \/ pc[Main] \in Before /\ kTaken > Span
                       \/ pc[Main] \in Serving /\ task = call.task
    PROVE  Inv'
<1> USE ThreadsAssumption
    DEF Inv, TypeInv, TypeOK, CallInv, Threads, counters, Goto, Enter
<1>1. TypeInv' /\ MainInv'
  BY EnterTypes
<1>2. Span' = Span /\ Counted' = Counted /\ Finished' = Finished
  BY DEF Span, Counted, Finished, Handed, Holding
<1>3. UnitsAt(Finished)' = UnitsAt(Finished) /\ Terminal(call)' = Terminal(call)
  BY <1>2 DEF UnitsAt
<1>4. pc'[Main] = pc[Main] /\ \A v \in Workers : v # w => pc'[v] = pc[v]
  OBVIOUS
<1>6. ASSUME ~overlap' PROVE BeforeInv' /\ SetupInv' /\ ServingInv'
  <2>1. CASE pc[Main] \in Before /\ kTaken > Span
    BY <1>2, <1>4, <1>6, <2>1 DEF BeforeInv, SetupInv, ServingInv, Before, Setup, Serving
  <2>2. CASE pc[Main] \in Serving /\ task = call.task
    BY <1>2, <1>3, <1>4, <1>6, <2>2
    DEF BeforeInv, SetupInv, ServingInv, Before, Setup, Serving, Holding, InLoop
  <2> QED
    BY <1>6, <2>1, <2>2
<1> QED
  BY <1>1, <1>6

\* A call resets the counters under a worker's feet, or under one's that is on
\* its way.
ResetDisturbed ==
    /\ Goto(Main, "resetTaken", "resetCompleted")
    /\ kTaken' = 0 /\ overlap' = TRUE
    /\ UNCHANGED <<workerTask, kCompleted, KMax, KMin, item, job, call, worked, served, lost>>

LEMMA ResetDisturbedTypes == ASSUME TypeInv, MainInv, ResetDisturbed PROVE TypeInv' /\ MainInv'
<1> USE ThreadsAssumption DEF TypeInv, TypeOK, Threads, Goto, ResetDisturbed
<1>1. TypeInv'
  BY DEF JobKnown, MainPlaces, WorkerPlaces, InLoop
<1>2. MainInv'
  BY DEF MainInv, Before, Setup, Serving, Span
<1> QED
  BY <1>1, <1>2

LEMMA ResetDisturbedKeeps == ASSUME Inv, ResetDisturbed PROVE Inv'
BY ResetDisturbedTypes DEF Inv, CallInv, ResetDisturbed

================================================================================
