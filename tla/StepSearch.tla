------------------------------- MODULE StepSearch -------------------------------
(****************************************************************************)
(* What lineSearch() relies on when it calls performLineSearch(): step      *)
(* sizes alpha_0 * n_alpha^a for a = 0, 1, ... MaxIterations - 1 are tried  *)
(* and one that lowers the merit is kept; "none" is reported only if none   *)
(* of them does.  Which improving step is kept is open, except that no      *)
(* larger step (smaller exponent) is left untried.                          *)
(****************************************************************************)
EXTENDS Naturals

CONSTANT MaxIterations   \* lineSearchSettings.maxIterations

VARIABLES busy,          \* a search is under way
          improving,     \* the exponents whose step lowers the merit
          tried,         \* the exponents evaluated to the end
          kept           \* the exponent kept, MaxIterations for none

vars == <<busy, improving, tried, kept>>

Exponents == 0 .. MaxIterations - 1

Init == /\ busy = FALSE /\ improving = {} /\ tried = {} /\ kept = MaxIterations

\* A search starts; which steps lower the merit is a matter of the problem.
Begin == /\ ~busy /\ busy' = TRUE
         /\ improving' \in SUBSET Exponents
         /\ UNCHANGED <<tried, kept>>

\* What the previous search left behind is dropped.
Forget == /\ busy
          /\ tried' = {}
          /\ kept' \in {kept, MaxIterations}
          /\ UNCHANGED <<busy, improving>>

\* A step is evaluated, and every step is evaluated once.  A thread that lags
\* behind may end an evaluation when the search is over already.
Try(a) == /\ a \in Exponents \ tried
          /\ tried' = tried \cup {a}
          /\ UNCHANGED <<busy, improving, kept>>

\* A step that was evaluated and lowers the merit is kept, perhaps in the place
\* of another one.
Keep(a) == /\ busy /\ a \in tried \cap improving
           /\ kept' = a
           /\ UNCHANGED <<busy, improving, tried>>

\* The search ends with what was kept.
End == /\ busy
       /\ kept \in improving \cup {MaxIterations}
       /\ kept = MaxIterations => improving = {}
       /\ \A a \in Exponents : a < kept => a \in tried
       /\ busy' = FALSE
       /\ UNCHANGED <<improving, tried, kept>>

Next == Begin \/ Forget \/ End \/ \E a \in Exponents : Try(a) \/ Keep(a)

Spec == Init /\ [][Next]_vars
================================================================================
