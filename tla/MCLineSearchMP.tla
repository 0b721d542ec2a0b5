----------------------------- MODULE MCLineSearchMP ----------------------------
(****************************************************************************)
(* Small instances of LineSearchMP.                                         *)
(****************************************************************************)
EXTENDS LineSearchMP

CONSTANTS w1, w2, main, nobody

TwoWorkers == {w1, w2}

\* Nothing is promised once a search was disturbed: such states are checked but
\* not continued.
SearchUndisturbed == ~overlap
================================================================================
