------------------------------ MODULE TcbArray ------------------------------
(***************************************************************************)
(* rtl/rtos/tcb_array.sv: the task control blocks.  The fields that no     *)
(* part of the hardware decides by are left out: the task number stored in *)
(* its own slot, the program counter, the stack pointer; the time slice    *)
(* only as "has expired" (HwRtos).                                         *)
(***************************************************************************)
EXTENDS RtosTasks

VARIABLES tcb_valid,  \* tcb_valid_r: is the slot in use
          tcb_state,  \* tcb_state_r
          tcb_prio    \* tcb_prio_level

tcbVars == <<tcb_valid, tcb_state, tcb_prio>>

\* task_state_t; nothing ever writes TASK_SUSPENDED.
TaskStates == {"READY", "RUNNING", "BLOCKED", "DORMANT"}

TcbInit ==
  /\ tcb_valid = [t \in Tasks |-> FALSE]
  /\ tcb_state = [t \in Tasks |-> "DORMANT"]
  /\ tcb_prio  = [t \in Tasks |-> 0]

\* The write ports at an edge: each is a function from the slots it writes (at
\* most one) to what it writes there, and is empty when its enable is low.
NoPort      == [t \in {} |-> t]
Port(t, v)  == [u \in {t} |-> v]
NoWrites         == [create |-> NoPort, delete |-> {}, state |-> NoPort]
StateWrite(t, s) == [create |-> NoPort, delete |-> {}, state |-> Port(t, s)]
CreateWrite(t, p) == [create |-> Port(t, p), delete |-> {}, state |-> NoPort]
DeleteWrite(t) == [create |-> NoPort, delete |-> {t}, state |-> Port(t, "DORMANT")]

\* f written over g
f ++ g == [t \in DOMAIN f \cup DOMAIN g |-> IF t \in DOMAIN f THEN f[t] ELSE g[t]]

\* The edge of the array: of two ports that write one field of one slot the
\* later statement wins: state write, then full write, delete, create.
TcbStep(wr, full) ==
  /\ tcb_valid' = [t \in DOMAIN full |-> full[t].valid]
                  ++ [t \in wr.delete |-> FALSE]
                  ++ [t \in DOMAIN wr.create |-> TRUE] ++ tcb_valid
  /\ tcb_state' = wr.state
                  ++ [t \in DOMAIN full |-> full[t].state]
                  ++ [t \in wr.delete |-> "DORMANT"]
                  ++ [t \in DOMAIN wr.create |-> "READY"] ++ tcb_state
  /\ tcb_prio'  = [t \in DOMAIN full |-> full[t].prio] ++ wr.create ++ tcb_prio

\* tcb_rd_data
Tcb(t) == [valid |-> tcb_valid[t], state |-> tcb_state[t], prio |-> tcb_prio[t]]

TcbTypeOK ==
  /\ tcb_valid \in [Tasks -> BOOLEAN]
  /\ tcb_state \in [Tasks -> TaskStates]
  /\ tcb_prio  \in [Tasks -> Prios]

ReadyTasks == {t \in Tasks : tcb_valid[t] /\ tcb_state[t] = "READY"}
=============================================================================
