------------------------------ MODULE ParallelFor ------------------------------
(****************************************************************************)
(* What a caller of computeLQApproximation(first, last) and of              *)
(* rolloutShots(first, last) relies on, whatever the backend: between call  *)
(* and return every requested unit of work of that very call is done, each  *)
(* one once and in no promised order, and nothing else is touched.          *)
(****************************************************************************)
CONSTANTS Requests,     \* the calls the solver algorithms issue
          WorkOf(_),    \* the units of work a request stands for
          NoRequest     \* before the first call

VARIABLES busy,         \* a call is being served
          request,      \* the last call issued
          done          \* the units of work done since it was issued

vars == <<busy, request, done>>

Init == busy = FALSE /\ request = NoRequest /\ done = {}

\* A call starts.  Part of its work may be done by the caller right away.
Begin(r) ==
    /\ ~busy
    /\ busy' = TRUE
    /\ request' = r
    /\ done' \in SUBSET WorkOf(r)

\* A call whose work the caller does alone, without the pool.
Whole(r) ==
    /\ ~busy
    /\ request' = r
    /\ done' = WorkOf(r)
    /\ UNCHANGED busy

\* One unit of the pending work is done, and it was not done before.
Do(u) ==
    /\ busy
    /\ u \in WorkOf(request) \ done
    /\ done' = done \cup {u}
    /\ UNCHANGED <<busy, request>>

\* The call returns: nothing of its work is missing.
Return ==
    /\ busy
    /\ done = WorkOf(request)
    /\ busy' = FALSE
    /\ UNCHANGED <<request, done>>

Next == \/ \E r \in Requests : Begin(r) \/ Whole(r)
        \/ \E u \in UNION {WorkOf(r) : r \in Requests} : Do(u)
        \/ Return

Spec == Init /\ [][Next]_vars
================================================================================
