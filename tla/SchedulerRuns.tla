--------------------------- MODULE SchedulerRuns ---------------------------
(***************************************************************************)
(* The scheduler on its own, with what hw_rtos does around it: between two *)
(* runs the array and the current task change at will; during a run only   *)
(* the two writes of a priority loan may reach the array, the priority     *)
(* itself and, an edge later, a copy of the task in slot 0 (HwRtos,        *)
(* FullWrite).  (A BLOCKED task is to the scheduler what a DORMANT one is.) *)
(***************************************************************************)
EXTENDS TaskScheduler

VARIABLE landed  \* the writes of loans that reached the array since the run started

runsVars == <<tcbVars, schedVars, sched_trigger, current_task_id_r, landed>>

PrioWrite == \E t \in Tasks, p \in Prios : TcbStep(NoWrites, Port(t, [Tcb(t) EXCEPT !.prio = p]))
CopyWrite == \E t \in Tasks : TcbStep(NoWrites, Port(0, Tcb(t)))

ArrayWrite ==
  \/ \E t \in Tasks : TcbStep(StateWrite(t, "READY"), NoPort)
  \/ \E t \in Tasks, p \in Prios : TcbStep(CreateWrite(t, p), NoPort)
  \/ \E t \in Tasks : TcbStep(DeleteWrite(t), NoPort)

\* Only a task that becomes the current one is made RUNNING, and it becomes the
\* current one when the one before no longer runs (HwRtos, OnlyCurrentRuns).
MadeCurrent ==
  /\ current_task_id_r = 0 \/ tcb_state[current_task_id_r] # "RUNNING"
  /\ TcbStep(StateWrite(current_task_id_r', "RUNNING"), NoPort)

RunsInit ==
  /\ TcbInit /\ SchedInit
  /\ sched_trigger = FALSE /\ current_task_id_r = 0 /\ landed = {}

Between ==
  /\ ~sched_busy
  /\ \/ (TcbStep(NoWrites, NoPort) \/ PrioWrite \/ CopyWrite \/ ArrayWrite) /\ UNCHANGED current_task_id_r
     \/ current_task_id_r' \in Tasks /\ MadeCurrent
  /\ sched_trigger' \in BOOLEAN
  /\ landed' = {}

During ==
  /\ sched_busy
  /\ \/ TcbStep(NoWrites, NoPort) /\ UNCHANGED landed
     \/ PrioWrite /\ landed' = landed \cup {"loan"}
     \/ CopyWrite /\ landed' = landed \cup {"copy"}
  /\ sched_trigger' = FALSE
  /\ UNCHANGED current_task_id_r

RunsNext == SchedStep /\ (Between \/ During)

RunsSpec == RunsInit /\ [][RunsNext]_runsVars /\ WF_runsVars(RunsNext)
-----------------------------------------------------------------------------
\* The type of the scheduler's registers; scan_idx stays inside the array.
RunsTypeOK ==
  /\ TcbTypeOK /\ SchedTypeOK
  /\ sched_trigger \in BOOLEAN /\ current_task_id_r \in Tasks /\ landed \subseteq {"loan", "copy"}

\* What a run must decide: the most urgent READY task, the lowest id on a tie,
\* takes over from a current task that is less urgent or does not run.
TakesOver(t, current) ==
  /\ t # current
  /\ tcb_prio[t] > tcb_prio[current] \/ tcb_state[current] # "RUNNING"

Decision(current) ==
  IF /\ ReadyTasks # {}
     /\ TakesOver(BestWaiter(ReadyTasks, tcb_prio), current)
  THEN BestWaiter(ReadyTasks, tcb_prio) ELSE current

\* A run that no priority loan disturbed ends in that decision: the best-so-far
\* registers lose no candidate and keep none of the run before (SCHED_SCAN and
\* SCHED_PREEMPT against the definition of the policy).
DecidesByPolicy ==
  sched_done /\ landed = {} => next_task_id_reg = Decision(current_task_id_r)

\* Slot 0 holds no task.  A copy that lands there in the middle of a run may be
\* elected whatever its state has become, or be missed though it is READY.
Blind == IF "copy" \in landed THEN {0} ELSE {}

\* Among the tasks a run never elects one that cannot run, even when the priorities
\* it compares change under it and slot 0 is written over: the decision is a READY
\* task or the current one, and no READY task is left out for want of any candidate
\* (found_ready and best_task_id against the array).
ElectsRunnable ==
  sched_done => \/ next_task_id_reg \in ReadyTasks \cup Blind
                \/ /\ next_task_id_reg = current_task_id_r
                   /\ tcb_state[current_task_id_r] # "RUNNING" =>
                        ReadyTasks \subseteq {current_task_id_r} \cup Blind

\* Every run ends: sched_done follows a trigger taken (SCHED_IDLE to SCHED_DONE).
RunsEnd == (sched_state = "SCAN") ~> sched_done
=============================================================================
