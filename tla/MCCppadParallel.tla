---------------------------- MODULE MCCppadParallel ----------------------------
(****************************************************************************)
(* A small instance of CppadParallel: more ids than threads at a time.      *)
(****************************************************************************)
EXTENDS CppadParallel, TLC

CONSTANTS t1, t2, t3

ThreeOthers == {t1, t2, t3}
TwoOrThree  == {2, 3}
Symmetry    == Permutations(ThreeOthers)
================================================================================
