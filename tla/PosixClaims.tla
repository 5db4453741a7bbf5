----------------------------- MODULE PosixClaims -----------------------------
(***************************************************************************)
(* What sw/lib/vsync_posix.h and doc/posix_mapping.md say of the system    *)
(* and PosixSystem, the code, does not do.  Each claim is refuted by a run *)
(* of its own; README.md describes the runs.                               *)
(***************************************************************************)
EXTENDS MCPosix

\* "Create a new thread" (pthread_create): one task for one call.  The layer holds
\* its request into the edge at which it sees the answer.
OneTaskPerCreate == births <= 1

\* "CPU acknowledges via ctx_switch_ack=1, resumes at new task's PC": a context
\* switch that has begun ends with the dispatch of the other task.
SwitchEnds == fsm_state = "S_WAIT_CTX_ACK" ~> fsm_state = "S_DISPATCH"
=============================================================================
