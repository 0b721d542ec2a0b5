--------------------------------- MODULE MCMPC ---------------------------------
(****************************************************************************)
(* Small instances of MPC.                                                  *)
(****************************************************************************)
EXTENDS MPC

Choice(mode, external, measure, delay, truncate) ==
    [mpc_mode |-> mode, minimumTimeHorizonMpc |-> 2, useExternalTiming |-> external,
     measureDelay |-> measure, fixedDelay |-> delay, additionalDelay |-> 0,
     postTruncation |-> truncate, stateForwardIntegration |-> TRUE]

\* NLOC_MPCTest, test B: external timing, fixed final time, fixed delay
FixedFinal == Choice("FIXED_FINAL_TIME", TRUE, FALSE, 1, FALSE)
\* A controller on the wall clock that measures its delay and truncates
Receding == Choice("CONSTANT_RECEDING_HORIZON", FALSE, TRUE, 0, TRUE)
WithMin == [Choice("FIXED_FINAL_TIME_WITH_MIN_TIME_HORIZON", FALSE, FALSE, 1, TRUE)
              EXCEPT !.additionalDelay = 1]
RecedingFinal == [Choice("RECEDING_HORIZON_WITH_FIXED_FINAL_TIME", FALSE, FALSE, 0, FALSE)
                    EXCEPT !.stateForwardIntegration = FALSE]

AllModes     == {FixedFinal, Receding, WithMin, RecedingFinal}
OnlyFixed    == {FixedFinal}
\* Whole stages and a horizon that is rounded to them
TwoHorizons  == {4, 5}
OneHorizon   == {6}
================================================================================
