--------------------------- MODULE TaskScheduler ---------------------------
(***************************************************************************)
(* rtl/rtos/task_scheduler.sv: on a trigger, look at one control block per *)
(* clock edge and keep the best READY task, then decide whether it takes   *)
(* over from the current one.  The array is read live: it may be written   *)
(* while the scan is on its way.                                           *)
(***************************************************************************)
EXTENDS TcbArray

VARIABLES sched_state,
          scan,               \* scan_idx, found_ready, best_task_id, best_prio
          next_task_id_reg,   \* the decision
          sched_trigger,      \* port
          current_task_id_r   \* port

schedVars == <<sched_state, scan, next_task_id_reg>>

SchedStates == {"IDLE", "SCAN", "PREEMPT", "SWITCH", "DONE"}
FreshScan   == [idx |-> 0, found |-> FALSE, best |-> 0, prio |-> 0]

sched_busy == sched_state # "IDLE"
sched_done == sched_state = "DONE"

SchedInit ==
  /\ sched_state      = "IDLE"
  /\ scan             = FreshScan
  /\ next_task_id_reg = 0

\* A faulty variant: a run starts from what the last one left.
SchedWaitKeepsBest ==
  /\ sched_state = "IDLE"
  /\ sched_state' = IF sched_trigger THEN "SCAN" ELSE "IDLE"
  /\ scan' = IF sched_trigger THEN [scan EXCEPT !.idx = 0] ELSE scan
  /\ UNCHANGED next_task_id_reg

\* SCHED_IDLE clears the scan registers when a run starts, and only then; a
\* trigger in any other state has no effect.
SchedWait ==
  /\ sched_state = "IDLE"
  /\ sched_state' = IF sched_trigger THEN "SCAN" ELSE "IDLE"
  /\ scan' = IF sched_trigger THEN FreshScan ELSE scan
  /\ UNCHANGED next_task_id_reg

\* Faulty variants, each a slip this code could contain: the model check of
\* each property is shown to notice one of them.
BetterAtInvalid(i) ==
  /\ tcb_state[i] = "READY"
  /\ ~scan.found \/ tcb_prio[i] > scan.prio
AdvancedPastEnd(i) == i + 1
SchedSwitchOnTrigger ==
  /\ sched_state = "SWITCH"
  /\ sched_state' = IF sched_trigger THEN "DONE" ELSE "SWITCH"
  /\ UNCHANGED <<scan, next_task_id_reg>>

\* The condition under which the task at scan_idx replaces the best one.
BetterAt(i) ==
  /\ tcb_valid[i] /\ tcb_state[i] = "READY"
  /\ \/ ~scan.found
     \/ tcb_prio[i] > scan.prio
     \/ tcb_prio[i] = scan.prio /\ i < scan.best

\* SCHED_SCAN
LastTask == MAX_TASKS - 1
Advanced(i) == IF i = LastTask THEN i ELSE i + 1
SchedScan ==
  /\ sched_state = "SCAN"
  /\ LET i == scan.idx
     IN  /\ scan' = IF BetterAt(i)
                    THEN [idx |-> Advanced(i), found |-> TRUE, best |-> i, prio |-> tcb_prio[i]]
                    ELSE [scan EXCEPT !.idx = Advanced(i)]
         /\ sched_state' = IF i = LastTask THEN "PREEMPT" ELSE "SCAN"
  /\ UNCHANGED next_task_id_reg

\* SCHED_PREEMPT: the best READY task takes over if it is more urgent than the
\* current one, or if the current one does not run.
Preempts ==
  /\ scan.found
  /\ scan.best # current_task_id_r
  /\ \/ scan.prio > tcb_prio[current_task_id_r]
     \/ tcb_state[current_task_id_r] # "RUNNING"

SchedPreempt ==
  /\ sched_state = "PREEMPT"
  /\ next_task_id_reg' = IF Preempts THEN scan.best ELSE current_task_id_r
  /\ sched_state'      = IF Preempts THEN "SWITCH" ELSE "DONE"
  /\ UNCHANGED scan

\* SCHED_SWITCH (raises switch_request, which nothing reads) and SCHED_DONE.
SchedSwitch == sched_state = "SWITCH" /\ sched_state' = "DONE" /\ UNCHANGED <<scan, next_task_id_reg>>
SchedDone   == sched_state = "DONE" /\ sched_state' = "IDLE" /\ UNCHANGED <<scan, next_task_id_reg>>

SchedStep == SchedWait \/ SchedScan \/ SchedPreempt \/ SchedSwitch \/ SchedDone

SchedTypeOK ==
  /\ sched_state \in SchedStates
  /\ scan \in [idx : Tasks, found : BOOLEAN, best : Tasks, prio : Prios]
  /\ next_task_id_reg \in Tasks
=============================================================================
