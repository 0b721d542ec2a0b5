----------------------------- MODULE NlpFunctions -----------------------------
(****************************************************************************)
(* What IPOPT and SNOPT expect of the program they optimise: cost and       *)
(* constraints and their derivatives are functions of the point alone.  An  *)
(* answer is the set of points its numbers were computed from.              *)
(****************************************************************************)
CONSTANTS Points,      \* the optimisation vectors
          Functions    \* the functions that are evaluated

VARIABLES query,       \* the function and the point asked for, or Nothing
          answer       \* the function and the answer, or Nothing

vars == <<query, answer>>

Nothing == <<>>

Init == query = Nothing /\ answer = Nothing

Ask(f, p) == /\ query = Nothing
             /\ query' = <<f, p>>
             /\ answer' = Nothing

Answer == /\ query # Nothing
          /\ answer' = <<query[1], {query[2]}>>
          /\ query' = Nothing

Next == Answer \/ \E f \in Functions, p \in Points : Ask(f, p)

Spec == Init /\ [][Next]_vars
================================================================================
