---------------------------- MODULE HwRtosClaims ----------------------------
(***************************************************************************)
(* What a comment of hw_rtos.sv says of the hardware RTOS and HwRtos, the  *)
(* code, does not do.  A run refutes it; README.md describes the run.      *)
(***************************************************************************)
EXTENDS HwRtos

\* Nothing is under way: the state machine rests and no latch will move it.
AtRest ==
  /\ fsm_state = "S_IDLE" /\ writes = NoWrites
  /\ ~prio_boost_wr_pending /\ ~tcb_wr_en /\ mutex_out.boost = Mtx!NoBoost
  /\ ~need_reschedule /\ ~timer_tick_pending /\ task_create_pending = NoPrio

\* "Wake the joining task" (S_TASK_EXIT): once a system without other ways to
\* block is at rest, whoever is blocked still waits for a task.
JoinersAreWoken ==
  AtRest => \A t \in Tasks : tcb_valid[t] /\ tcb_state[t] = "BLOCKED" => join_target[t] # NoTask
=============================================================================
