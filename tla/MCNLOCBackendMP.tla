---------------------------- MODULE MCNLOCBackendMP ----------------------------
(****************************************************************************)
(* Small instances of NLOCBackendMP: the scripts are what the solver        *)
(* algorithms really ask of the backend.                                    *)
(****************************************************************************)
EXTENDS NLOCBackendMP, TLC

CONSTANTS w1, w2, main, nobody

TwoWorkers == {w1, w2}

ILQR == INSTANCE Algorithms WITH Algorithm <- "ILQR", KShot <- 1,
                                 LineSearchActive <- TRUE, Hpipm <- FALSE
GNMS == INSTANCE Algorithms WITH Algorithm <- "GNMS", KShot <- StepsPerShot,
                                 LineSearchActive <- TRUE, Hpipm <- FALSE

Destroy == <<[op |-> "SHUTDOWN", first |-> 0, last |-> 0]>>

\* An iLQR iteration but for iteration()++, after which the workers are asked
\* for nothing; the first of its operations, then the backend is destroyed
OneIteration == SubSeq(ILQR!Iteration(0), 1, 3)
ApproximateAndDestroy == SubSeq(OneIteration, 1, 1) \o Destroy
\* The first half of a GNMS iteration: roll out the shots, approximate
GNMSPrepare == GNMS!Prepare(0)

Symmetry == Permutations({w1, w2})
================================================================================
