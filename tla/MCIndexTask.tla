------------------------------ MODULE MCIndexTask ------------------------------
(****************************************************************************)
(* Small instances of IndexTask.                                            *)
(****************************************************************************)
EXTENDS IndexTask

CONSTANTS w1, w2, w3, main

ThreeWorkers == {w1, w2, w3}

\* The ranges the solver asks for: GNMS splits [0, K - 1] behind its first
\* shot (prepareIteration, finishIteration); iLQR and the step without line
\* search ask for all of it.
Ranges(k, s) == {<<0, k - 1>>, <<s, k - 1>>, <<0, s - 1>>}

RequestsOver(k, s) == {[task |-> t, first |-> r[1], last |-> r[2]] :
                          t \in {"COMPUTE_LQ_PROBLEM", "ROLLOUT_SHOTS"}, r \in Ranges(k, s)}

\* 3 stages in shots of 2: the second shot has a single stage
Shots2 == RequestsOver(3, 2)

\* Nothing is promised once a call was disturbed: such states are checked but
\* not continued.
CallsUndisturbed == ~overlap
================================================================================
