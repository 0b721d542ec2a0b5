--------------------------- MODULE MCControlSimulator ---------------------------
(****************************************************************************)
(* A small instance of ControlSimulator: durations that end within and at   *)
(* the end of a control step.                                               *)
(****************************************************************************)
EXTENDS ControlSimulator

ShortAndLong == {3, 4}
================================================================================
