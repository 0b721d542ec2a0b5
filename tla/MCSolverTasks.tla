----------------------------- MODULE MCSolverTasks -----------------------------
(****************************************************************************)
(* Small instances of SolverTasks; every constant is a plain value.         *)
(****************************************************************************)
EXTENDS SolverTasks
================================================================================
