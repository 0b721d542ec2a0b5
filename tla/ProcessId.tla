------------------------------- MODULE ProcessId -------------------------------
(****************************************************************************)
(* NLOCBackendMP::generateUniqueProcessID: one number for an iteration, a   *)
(* task and a count of LQ problems, by which a worker recognises the task   *)
(* it has served last.                                                      *)
(****************************************************************************)
EXTENDS Integers

CONSTANTS ResetStride,   \* 10e12 in the code
          TaskStride     \* 10e6 in the code

\* enum WORKER_STATE, in the order of its values
WorkerStates == <<"IDLE", "LINE_SEARCH", "ROLLOUT_SHOTS", "COMPUTE_LQ_PROBLEM", "SHUTDOWN">>

Number(state) == (CHOOSE i \in DOMAIN WorkerStates : WorkerStates[i] = state) - 1

ProcessIdOf(iterateNo, workerState, resetCount) ==
    ResetStride * (resetCount + 1) + TaskStride * (workerState + 1) + iterateNo + 1

generateUniqueProcessID(iterateNo, state, resetCount) ==
    ProcessIdOf(iterateNo, Number(state), resetCount)

================================================================================
