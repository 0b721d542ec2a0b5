------------------------------ MODULE MCDmsProblem ------------------------------
(****************************************************************************)
(* A small instance of DmsProblem: two shots, two points, three updates.    *)
(****************************************************************************)
EXTENDS DmsProblem, TLC

CONSTANTS p1, p2, s1, s2

TwoPoints == {p1, p2}
TwoShots  == {s1, s2}
================================================================================
