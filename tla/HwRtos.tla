------------------------------- MODULE HwRtos -------------------------------
(***************************************************************************)
(* rtl/rtos/hw_rtos.sv: the state machine of the hardware RTOS around its  *)
(* units: the TCB array and the scheduler, the context-switch unit, and    *)
(* the semaphores, mutexes and message queues.  One step is one rising     *)
(* clock edge at which every unit takes a step; each unit sees the others' *)
(* registers as they were before the edge.                                 *)
(*                                                                         *)
(* scheduler_en is 1 (vsync_top ties it).  Here a request is on the ports  *)
(* for one edge, one request at a time; the ports beside it (join target,  *)
(* creation priority, initial count) are read at the edge that uses them.  *)
(* PosixSystem drives the same edge with the ports of posix_hw_layer.      *)
(***************************************************************************)
EXTENDS TaskScheduler, FiniteSets

CONSTANTS NUM_SEMS, MAX_COUNT, NUM_MUTEXES, NUM_QUEUES, QUEUE_DEPTH, MSG_MAX,
          CTX_REGS,  \* edges of a register save, and of a load; 31 in the source
          MIXES      \* sets of inputs; an instance is driven with those of one

AllCalls == {"create", "exit", "join", "yield", "INIT", "WAIT", "POST",
             "LOCK", "UNLOCK", "SEND", "RECV", "MUTEX3", "MSGQ3", "tick", "resched"}

ASSUME RtosAssumption ==
  /\ {CTX_REGS, NUM_SEMS, NUM_MUTEXES, NUM_QUEUES, QUEUE_DEPTH} \subseteq Nat \ {0}
  /\ {MAX_COUNT, MSG_MAX} \subseteq Nat
  /\ MIXES \subseteq SUBSET AllCalls

VARIABLES calls,                \* the mix of inputs; it never changes
          fsm_state, next_task_id_r, task_active_r,
          need_reschedule, timer_tick_pending,
          task_create_pending,  \* the latched creation: NoPrio or its priority
          wake,                 \* wake_pending, wake_target_id: NoTask or the task
          join_target,          \* join_valid, join_target: NoTask or the target
          writes,               \* the TCB write ports, but the full write
          cs_switch_req, ctx_switch_ack,
          cs,                   \* context_switch: state and registers to go
          op_int, op_pending,   \* per unit: *_op_int with its operands; *_op_pending
          boost,                \* prio_boost_id_r (tcb_rd_id) and prio_boost_val_r
          prio_boost_wr_pending, tcb_wr_en,
          lent,                 \* history: has a loan been written to the array
          done,                 \* the answer strobe: NoAnswer or the answer
          \* registers of the units
          count_r, max_count_r, wait_mask_r, sem_out,
          locked_r, owner_id_r, original_prio_r, mutex_wait_r, mutex_out,
          fifo_mem, wr_ptr_r, rd_ptr_r, msg_count_r, send_wait_r, recv_wait_r, msgq_out

Sem  == INSTANCE HwSemaphore WITH prio <- tcb_prio
Mtx  == INSTANCE HwMutex WITH prio <- tcb_prio
Msgq == INSTANCE HwMsgQueue

taskVars  == <<current_task_id_r, next_task_id_r, task_active_r>>
latchVars == <<need_reschedule, timer_tick_pending, task_create_pending>>
boostVars == <<boost, prio_boost_wr_pending, tcb_wr_en, lent>>
unitVars  == <<count_r, max_count_r, wait_mask_r, sem_out,
               locked_r, owner_id_r, original_prio_r, mutex_wait_r, mutex_out,
               fifo_mem, wr_ptr_r, rd_ptr_r, msg_count_r, send_wait_r, recv_wait_r, msgq_out>>
vars == <<calls, fsm_state, taskVars, latchVars, wake, join_target, writes, sched_trigger,
          cs_switch_req, ctx_switch_ack, cs, op_int, op_pending, boostVars, done,
          tcbVars, schedVars, unitVars>>

FsmStates == {"S_IDLE", "S_TIMER_UPDATE", "S_SCAN_READY", "S_COMPARE_PRIORITY",
  "S_PREEMPT_CHECK", "S_WAIT_CTX_ACK", "S_CONTEXT_SAVE", "S_CONTEXT_LOAD", "S_DISPATCH",
  "S_TASK_CREATE", "S_TASK_EXIT", "S_EXIT_SETTLE", "S_BLOCK_TASK", "S_UNBLOCK_TASK",
  "S_TASK_JOIN"}

NoPrio == -1
-----------------------------------------------------------------------------
\* Requests: an operation with its object and its operand.  MUTEX3 and MSGQ3 are
\* operation code 2'b11, which those units do not know.
Request(op, id, arg) == [op |-> op, id |-> id, arg |-> arg]
NoRequest == Request("none", 0, 0)

Unit == [o \in {"INIT", "WAIT", "POST"} |-> "sem"]
        ++ [o \in {"LOCK", "UNLOCK", "MUTEX3"} |-> "mutex"]
        ++ [o \in {"SEND", "RECV", "MSGQ3"} |-> "msgq"]
UnitOps == DOMAIN Unit
Units   == {"sem", "mutex", "msgq"}

AllRequests ==
  {NoRequest} \cup {Request(o, 0, 0) : o \in {"exit", "join", "yield"}}
    \cup {Request("create", 0, p) : p \in Prios}
    \cup {Request(o, s, 0) : o \in {"INIT", "WAIT", "POST"}, s \in Sem!Sems}
    \cup {Request(o, m, 0) : o \in {"LOCK", "UNLOCK", "MUTEX3"}, m \in Mtx!Mutexes}
    \cup {Request("SEND", q, d) : q \in Msgq!Queues, d \in Msgq!Msgs}
    \cup {Request(o, q, 0) : o \in {"RECV", "MSGQ3"}, q \in Msgq!Queues}
Requests == {r \in AllRequests : r.op \in calls \cup {"none"}}

\* The units are looked at in this order wherever several could speak.
First(us) == IF "sem" \in us THEN "sem" ELSE IF "mutex" \in us THEN "mutex" ELSE "msgq"

UnitOut == [sem |-> sem_out, mutex |-> mutex_out, msgq |-> msgq_out]
Answered(u) == UnitOut[u].success \/ UnitOut[u].block
Waking == {u \in Units : UnitOut[u].wake # NoTask}

\* The latch of the wake-up ports: one task; a new one replaces the last.
WakeLatched == IF Waking = {} THEN wake ELSE UnitOut[First(Waking)].wake

\* An operation code is cleared at the edge that sees its answer.
OpsLeft == [u \in Units |-> IF Answered(u) THEN NoRequest ELSE op_int[u]]

\* Answers to the caller.
Answer(op, ok) == [op |-> op, ok |-> ok]
NoAnswer == Answer("none", FALSE)
-----------------------------------------------------------------------------
\* The registers that are pulses: low unless the state raises them.
Pulses(w, trigger, switch, answer) ==
  /\ writes' = w
  /\ sched_trigger' = trigger
  /\ cs_switch_req' = switch
  /\ done' = answer

Quiet == Pulses(NoWrites, FALSE, FALSE, NoAnswer)

\* What a state that has nothing to do with them does to the other registers.
KeepTasks == UNCHANGED <<taskVars, join_target>>
KeepWake  == wake' = WakeLatched
KeepOps   == op_int' = OpsLeft /\ UNCHANGED op_pending
Keep      == KeepTasks /\ KeepWake /\ KeepOps

\* Faulty variants of the states below, each a slip this code could contain:
\* the model check of each property is shown to notice one of them.
ScanReadyNoWait ==
  /\ fsm_state = "S_SCAN_READY"
  /\ fsm_state' = IF sched_busy THEN "S_COMPARE_PRIORITY" ELSE fsm_state
  /\ next_task_id_r' = next_task_id_reg
  /\ Pulses(NoWrites, ~sched_busy, FALSE, NoAnswer)
  /\ UNCHANGED <<current_task_id_r, task_active_r, join_target>> /\ KeepWake /\ KeepOps
PreemptCheckKeepsRunning ==
  /\ fsm_state = "S_PREEMPT_CHECK"
  /\ fsm_state' = "S_WAIT_CTX_ACK"
  /\ Pulses(NoWrites, FALSE, TRUE, NoAnswer)
  /\ Keep
ContextSaveOnce ==
  /\ fsm_state = "S_CONTEXT_SAVE"
  /\ fsm_state' = IF cs.state = "DONE" THEN "S_CONTEXT_LOAD" ELSE fsm_state
  /\ Quiet /\ Keep
FreeSlotsNotReady == {t \in Tasks \ {0} : tcb_state[t] # "READY"}
TaskCreateNoScan(p) ==
  /\ fsm_state = "S_TASK_CREATE"
  /\ fsm_state' = "S_IDLE"
  /\ LET free == {t \in Tasks \ {0} : ~tcb_valid[t]}
         granted == IF task_create_pending # NoPrio THEN task_create_pending ELSE p
     IN  IF free = {} THEN Pulses(NoWrites, FALSE, FALSE, Answer("create", FALSE))
         ELSE Pulses(CreateWrite(FirstWaiter(free), granted), FALSE, FALSE, Answer("create", TRUE))
  /\ Keep

\* S_IDLE: the next state follows the request, the registers too; they differ
\* in that only the former looks at task_create_pending.
IdleNext(op) ==
  IF op = "create" \/ task_create_pending # NoPrio THEN "S_TASK_CREATE"
  ELSE CASE op = "exit" -> "S_TASK_EXIT"
         [] op = "join" -> "S_TASK_JOIN"
         [] op = "yield" -> "S_SCAN_READY"
         [] op \in UnitOps -> "S_BLOCK_TASK"
         [] OTHER -> IF timer_tick_pending THEN "S_TIMER_UPDATE"
                     ELSE IF need_reschedule THEN "S_SCAN_READY" ELSE "S_IDLE"

Idle(req) ==
  /\ fsm_state = "S_IDLE"
  /\ fsm_state' = IdleNext(req.op)
  /\ Pulses(IF req.op = "yield" /\ task_active_r
            THEN StateWrite(current_task_id_r, "READY") ELSE NoWrites,
            FALSE, FALSE, NoAnswer)
  /\ IF req.op \in UnitOps
     THEN /\ op_int' = [OpsLeft EXCEPT ![Unit[req.op]] = req]
          /\ op_pending' = op_pending \cup {Unit[req.op]}
     ELSE KeepOps
  /\ KeepTasks /\ KeepWake

\* S_TIMER_UPDATE: "expired" says whether the slice has run down to 0; an
\* expired task becomes READY.
TimerUpdate(expired) ==
  /\ fsm_state = "S_TIMER_UPDATE"
  /\ fsm_state' = "S_SCAN_READY"
  /\ Pulses(IF task_active_r /\ expired
            THEN StateWrite(current_task_id_r, "READY") ELSE NoWrites,
            TRUE, FALSE, NoAnswer)
  /\ Keep

\* S_SCAN_READY: start the scheduler unless it runs, take its decision.
ScanReady ==
  /\ fsm_state = "S_SCAN_READY"
  /\ fsm_state' = IF sched_done THEN "S_COMPARE_PRIORITY" ELSE fsm_state
  /\ next_task_id_r' = IF sched_done THEN next_task_id_reg ELSE next_task_id_r
  /\ Pulses(NoWrites, ~sched_busy, FALSE, NoAnswer)
  /\ UNCHANGED <<current_task_id_r, task_active_r, join_target>> /\ KeepWake /\ KeepOps

\* S_COMPARE_PRIORITY
ComparePriority ==
  /\ fsm_state = "S_COMPARE_PRIORITY"
  /\ fsm_state' = IF task_active_r
                  THEN IF next_task_id_reg = current_task_id_r THEN "S_DISPATCH"
                       ELSE "S_PREEMPT_CHECK"
                  ELSE IF next_task_id_reg # 0 THEN "S_DISPATCH" ELSE "S_IDLE"
  /\ Quiet /\ Keep

\* S_PREEMPT_CHECK: start the context switch, give the current task up.
PreemptCheck ==
  /\ fsm_state = "S_PREEMPT_CHECK"
  /\ fsm_state' = "S_WAIT_CTX_ACK"
  /\ Pulses(IF task_active_r THEN StateWrite(current_task_id_r, "READY") ELSE NoWrites,
            FALSE, TRUE, NoAnswer)
  /\ Keep

\* S_WAIT_CTX_ACK: wait for the processor.
WaitCtxAck ==
  /\ fsm_state = "S_WAIT_CTX_ACK"
  /\ fsm_state' = IF ~ctx_switch_ack THEN fsm_state
                  ELSE IF task_active_r THEN "S_CONTEXT_SAVE" ELSE "S_CONTEXT_LOAD"
  /\ Quiet /\ Keep

\* S_CONTEXT_SAVE: at the end of the unit's run, ask it for another one.
cs_switch_done == cs.state = "DONE"
ContextSave ==
  /\ fsm_state = "S_CONTEXT_SAVE"
  /\ fsm_state' = IF cs_switch_done THEN "S_CONTEXT_LOAD" ELSE fsm_state
  /\ Pulses(NoWrites, FALSE, cs_switch_done, NoAnswer)
  /\ Keep

\* S_CONTEXT_LOAD
ContextLoad ==
  /\ fsm_state = "S_CONTEXT_LOAD"
  /\ fsm_state' = IF cs_switch_done THEN "S_DISPATCH" ELSE fsm_state
  /\ Quiet /\ Keep

\* S_DISPATCH: the decision becomes the current, RUNNING task.  A latched
\* wake-up is dropped for a reschedule request (NeedReschedule).
Dispatch ==
  /\ fsm_state = "S_DISPATCH"
  /\ fsm_state' = "S_IDLE"
  /\ current_task_id_r' = next_task_id_r
  /\ task_active_r' = TRUE
  /\ Pulses(StateWrite(next_task_id_r, "RUNNING"), FALSE, FALSE, NoAnswer)
  /\ wake' = IF wake # NoTask THEN NoTask ELSE WakeLatched
  /\ UNCHANGED <<next_task_id_r, join_target>> /\ KeepOps

\* S_TASK_CREATE: the first free slot but slot 0; "p" is the priority port.
FreeSlots == {t \in Tasks \ {0} : ~tcb_valid[t]}
TaskCreate(p) ==
  /\ fsm_state = "S_TASK_CREATE"
  /\ fsm_state' = "S_SCAN_READY"
  /\ LET granted == IF task_create_pending # NoPrio THEN task_create_pending ELSE p
     IN  IF FreeSlots = {} THEN Pulses(NoWrites, FALSE, FALSE, Answer("create", FALSE))
         ELSE Pulses(CreateWrite(FirstWaiter(FreeSlots), granted),
                     TRUE, FALSE, Answer("create", TRUE))
  /\ Keep

\* S_TASK_EXIT: free the slot; latch a wake-up for the last task of the join
\* table that waits for it, and forget all of them.
Joiners == {t \in Tasks : join_target[t] = current_task_id_r}
LastJoiner == CHOOSE t \in Joiners : \A u \in Joiners : u <= t
TaskExit ==
  /\ fsm_state = "S_TASK_EXIT"
  /\ fsm_state' = "S_EXIT_SETTLE"
  /\ IF task_active_r
     THEN /\ Pulses(DeleteWrite(current_task_id_r), FALSE, FALSE, NoAnswer)
          /\ task_active_r' = FALSE
          /\ wake' = IF Joiners = {} THEN WakeLatched ELSE LastJoiner
          /\ join_target' = [t \in Tasks |-> IF t \in Joiners THEN NoTask ELSE join_target[t]]
     ELSE Quiet /\ KeepWake /\ UNCHANGED <<task_active_r, join_target>>
  /\ UNCHANGED <<current_task_id_r, next_task_id_r>> /\ KeepOps

\* S_EXIT_SETTLE
ExitSettle ==
  /\ fsm_state = "S_EXIT_SETTLE"
  /\ fsm_state' = "S_SCAN_READY"
  /\ Pulses(NoWrites, TRUE, FALSE, NoAnswer)
  /\ Keep

\* S_BLOCK_TASK: an exit request aborts the operation; else wait for the unit's
\* answer, pass it on, and block the task if it is a refusal.  The next state
\* follows the first pending unit that has answered, the registers the first
\* pending unit.
BlockAborted(req) ==
  /\ fsm_state = "S_BLOCK_TASK" /\ req.op = "exit"
  /\ fsm_state' = "S_TASK_EXIT"
  /\ op_int' = [u \in Units |-> NoRequest] /\ op_pending' = {}
  /\ Quiet /\ KeepTasks /\ KeepWake

Served == {u \in op_pending : Answered(u)}
BlockNextNoScan ==  \* a faulty variant of BlockNext
  IF Served = {} /\ op_pending # {} THEN "S_BLOCK_TASK"
  ELSE IF wake # NoTask \/ Waking # {} THEN "S_UNBLOCK_TASK" ELSE "S_IDLE"
BlockNext ==
  IF op_pending = {} THEN "S_IDLE"
  ELSE IF Served = {} THEN "S_BLOCK_TASK"
  ELSE IF ~UnitOut[First(Served)].success THEN "S_SCAN_READY"
  ELSE IF wake # NoTask \/ Waking # {} THEN "S_UNBLOCK_TASK" ELSE "S_IDLE"

BlockTask(req) ==
  /\ fsm_state = "S_BLOCK_TASK" /\ req.op # "exit"
  /\ fsm_state' = BlockNext
  /\ LET u == First(op_pending)
         answered == u \in Served
         granted  == answered /\ UnitOut[u].success
         refused  == answered /\ ~granted
     IN  /\ op_pending' = IF answered THEN op_pending \ {u} ELSE op_pending
         /\ task_active_r' = (task_active_r /\ ~refused)
         /\ Pulses(IF refused THEN StateWrite(current_task_id_r, "BLOCKED") ELSE NoWrites,
                   refused, FALSE, IF answered THEN Answer(u, granted) ELSE NoAnswer)
  /\ op_int' = OpsLeft
  /\ UNCHANGED <<current_task_id_r, next_task_id_r, join_target>> /\ KeepWake

\* S_UNBLOCK_TASK: the latched task becomes READY.
UnblockTask ==
  /\ fsm_state = "S_UNBLOCK_TASK"
  /\ fsm_state' = "S_SCAN_READY"
  /\ IF wake # NoTask
     THEN Pulses(StateWrite(wake, "READY"), TRUE, FALSE, NoAnswer) /\ wake' = NoTask
     ELSE Quiet /\ KeepWake
  /\ KeepTasks /\ KeepOps

\* S_TASK_JOIN: block until the target exits, unless it is not there.
TaskJoin(target) ==
  /\ fsm_state = "S_TASK_JOIN"
  /\ fsm_state' = "S_SCAN_READY"
  /\ LET blocks == task_active_r /\ tcb_valid[target]
     IN  /\ join_target' = IF blocks THEN [join_target EXCEPT ![current_task_id_r] = target]
                           ELSE join_target
         /\ task_active_r' = (task_active_r /\ ~blocks)
         /\ Pulses(IF blocks THEN StateWrite(current_task_id_r, "BLOCKED") ELSE NoWrites,
                   blocks, FALSE, Answer("join", TRUE))
  /\ UNCHANGED <<current_task_id_r, next_task_id_r>> /\ KeepWake /\ KeepOps

\* "ports" gives the values that the unlatched operands may have at this edge.
AnyPorts == [prios |-> Prios, targets |-> Tasks, counts |-> Sem!Counts]

Fsm(req, ports) ==
  \/ Idle(req) \/ ScanReady \/ ComparePriority \/ PreemptCheck \/ WaitCtxAck
  \/ ContextSave \/ ContextLoad \/ Dispatch \/ TaskExit \/ ExitSettle
  \/ BlockAborted(req) \/ BlockTask(req) \/ UnblockTask
  \/ \E expired \in BOOLEAN : TimerUpdate(expired)
  \/ \E p \in ports.prios : TaskCreate(p)
  \/ \E target \in ports.targets : TaskJoin(target)
-----------------------------------------------------------------------------
\* Latches that several states clear or set.
TickLatch(tick) ==
  timer_tick_pending' = (fsm_state # "S_TIMER_UPDATE" /\ (tick \/ timer_tick_pending))

CreateLatch(req) ==
  task_create_pending' = IF fsm_state = "S_TASK_CREATE" THEN NoPrio
                         ELSE IF req.op = "create" /\ fsm_state # "S_IDLE" THEN req.arg
                         ELSE task_create_pending

\* "resched" is a write of one to REG_SCHED_TRIGGER.
NeedReschedule(resched) ==
  need_reschedule' = \/ resched
                     \/ fsm_state = "S_DISPATCH" /\ wake # NoTask
                     \/ fsm_state = "S_BLOCK_TASK" /\ Waking # {}
                     \/ fsm_state # "S_DISPATCH" /\ need_reschedule

\* The priority loan: latched when the mutex unit offers it, written to the
\* array when tcb_wr_en is up, an edge after the pending flag.
BoostLatch ==
  LET offered == mutex_out.boost # Mtx!NoBoost
  IN  /\ prio_boost_wr_pending' = offered
      /\ tcb_wr_en' = prio_boost_wr_pending
      /\ boost' = IF offered THEN mutex_out.boost ELSE boost
      /\ lent' = (lent \/ tcb_wr_en)

\* The write multiplexer looks at the pending flag at the edge of the write, when
\* it has fallen again unless the unit offered twice.  A LOCK that blocks is
\* executed at two edges and offers twice: the first write is the loan, the second
\* a copy of the owner to slot 0.  A restore offered once is such a copy only.
LoanLands == tcb_wr_en /\ prio_boost_wr_pending
CopyLands == tcb_wr_en /\ ~prio_boost_wr_pending
Lent(t)   == [Tcb(t) EXCEPT !.prio = boost.val]


FullWrite ==
  IF LoanLands THEN Port(boost.id, Lent(boost.id))
  ELSE IF CopyLands THEN Port(0, Tcb(boost.id)) ELSE NoPort

\* The units, with the current task on their task ports.  The initial count is
\* not latched with the operation.
SemStep(counts) ==
  LET r == op_int["sem"]
  IN  \/ r = NoRequest /\ Sem!SemNop
      \/ r.op = "INIT" /\ \E n \in counts : Sem!SemSetup(r.id, n)
      \/ r.op = "WAIT" /\ Sem!SemWait(r.id, current_task_id_r)
      \/ r.op = "POST" /\ Sem!SemPost(r.id)

MutexStep ==
  LET r == op_int["mutex"]
  IN  \/ (r = NoRequest \/ r.op = "MUTEX3") /\ Mtx!MutexNop
      \/ r.op = "LOCK" /\ Mtx!MutexLock(r.id, current_task_id_r)
      \/ r.op = "UNLOCK" /\ Mtx!MutexUnlock(r.id, current_task_id_r)

MsgqStep ==
  LET r == op_int["msgq"]
  IN  \/ (r = NoRequest \/ r.op = "MSGQ3") /\ Msgq!MsgqNop
      \/ r.op = "SEND" /\ Msgq!MsgqSend(r.id, r.arg, current_task_id_r)
      \/ r.op = "RECV" /\ Msgq!MsgqRecv(r.id, current_task_id_r)

\* context_switch.sv: a request starts a save of CTX_REGS registers, then a load.
CsIdle == [state |-> "IDLE", left |-> 0]
stall_pipeline == cs.state \in {"SAVE", "LOAD"}
CsStep ==
  cs' = CASE cs.state = "IDLE" -> IF cs_switch_req THEN [state |-> "SAVE", left |-> CTX_REGS] ELSE cs
          [] cs.state = "SAVE" -> IF cs.left = 1 THEN [state |-> "LOAD", left |-> CTX_REGS]
                                  ELSE [cs EXCEPT !.left = @ - 1]
          [] cs.state = "LOAD" -> IF cs.left = 1 THEN [state |-> "DONE", left |-> 0]
                                  ELSE [cs EXCEPT !.left = @ - 1]
          [] cs.state = "DONE" -> CsIdle

\* The processor of the test benches: it acknowledges one edge after the request.
CpuStep == ctx_switch_ack' = stall_pipeline

Inputs(c) == IF c \in calls THEN BOOLEAN ELSE {FALSE}

\* An edge of everything but the processor.
Edge(req, ports, tick, resched) ==
  /\ Fsm(req, ports)
  /\ TickLatch(tick) /\ CreateLatch(req) /\ NeedReschedule(resched) /\ BoostLatch
  /\ TcbStep(writes, FullWrite) /\ SchedStep /\ CsStep
  /\ SemStep(ports.counts) /\ MutexStep /\ MsgqStep
  /\ UNCHANGED calls

Step(req, tick, resched) == Edge(req, AnyPorts, tick, resched) /\ CpuStep

Init ==
  /\ calls \in MIXES
  /\ fsm_state = "S_IDLE" /\ current_task_id_r = 0 /\ next_task_id_r = 0
  /\ task_active_r = FALSE /\ need_reschedule = FALSE /\ timer_tick_pending = FALSE
  /\ task_create_pending = NoPrio /\ wake = NoTask
  /\ join_target = [t \in Tasks |-> NoTask]
  /\ writes = NoWrites /\ sched_trigger = FALSE /\ cs_switch_req = FALSE
  /\ ctx_switch_ack = FALSE /\ cs = CsIdle /\ done = NoAnswer
  /\ op_int = [u \in Units |-> NoRequest] /\ op_pending = {}
  /\ boost = Mtx!Boost(0, 0) /\ prio_boost_wr_pending = FALSE /\ tcb_wr_en = FALSE
  /\ lent = FALSE
  /\ TcbInit /\ SchedInit /\ Sem!SemInit /\ Mtx!MutexInit /\ Msgq!MsgqInit

Next == \E req \in Requests, tick \in Inputs("tick"), resched \in Inputs("resched") :
          Step(req, tick, resched)

Spec == Init /\ [][Next]_vars /\ WF_vars(Next)
-----------------------------------------------------------------------------
\* The type of the registers of the state machine (hw_rtos.sv, declarations).
RtosTypeOK ==
  /\ TcbTypeOK /\ SchedTypeOK
  /\ fsm_state \in FsmStates
  /\ current_task_id_r \in Tasks /\ next_task_id_r \in Tasks
  /\ {task_active_r, need_reschedule, timer_tick_pending, sched_trigger, cs_switch_req,
      ctx_switch_ack, prio_boost_wr_pending, tcb_wr_en, lent} \subseteq BOOLEAN
  /\ task_create_pending \in Prios \cup {NoPrio}
  /\ wake \in Tasks \cup {NoTask}
  /\ join_target \in [Tasks -> Tasks \cup {NoTask}]
  /\ op_int \in [Units -> AllRequests] /\ op_pending \subseteq Units
  /\ boost \in [id : Tasks, val : Prios]
  /\ DOMAIN writes.create \cup DOMAIN writes.state \cup writes.delete \subseteq Tasks

\* No two tasks ever believe they have the processor, at no edge of a switch:
\* the one RUNNING slot is the current task's (state writes of S_PREEMPT_CHECK,
\* S_DISPATCH, S_BLOCK_TASK and S_TASK_EXIT, which land an edge later).  Slot 0
\* holds no task; a priority loan leaves a copy of a task there (FullWrite).
OnlyCurrentRuns ==
  \A t \in Tasks \ {0} : tcb_state[t] = "RUNNING" => t = current_task_id_r

\* A system that rests or waits for a unit runs one of its most urgent tasks, and
\* none only if there is none: whatever created, woke or released a task also had
\* the scheduler run after it (all paths of the FSM into S_SCAN_READY).  Once a loan
\* has been written, with its copy of a task in slot 0, the code does not promise it.
MostUrgentRuns ==
  fsm_state \in {"S_IDLE", "S_BLOCK_TASK"} /\ writes = NoWrites /\ ~lent =>
    \A t \in ReadyTasks : task_active_r /\ tcb_prio[t] <= tcb_prio[current_task_id_r]

\* The scheduler decides on one state of the system: while it runs the current task
\* stands still, and the array too, although every write of the state machine lands
\* an edge late (sched_trigger against the write ports); only the two writes of a
\* loan may land, the priority in the task it is for and the copy of it in slot 0.
ScanUntouched ==
  /\ UNCHANGED current_task_id_r
  /\ \A t \in Tasks : \/ UNCHANGED Tcb(t)
                      \/ LoanLands /\ t = boost.id /\ Tcb(t)' = Lent(t)
                      \/ CopyLands /\ t = 0 /\ Tcb(t)' = Tcb(boost.id)
ScanSeesOneArray == [][sched_busy => ScanUntouched]_vars

\* Nobody waits for a mutex behind an owner less urgent than himself once the LOCK
\* is over: the loan the unit offered has reached the owner, through the latch and
\* the multiplexer, and neither a restore nor a copy takes it away (hw_rtos.sv,
\* prio_boost_wr_pending and tcb_wr_data).  Where tasks end the code does not promise
\* it, the slot of an owner that ended may be given to a less urgent task.
LoanQuiet ==
  /\ fsm_state = "S_IDLE" /\ op_int["mutex"] = NoRequest /\ mutex_out.boost = Mtx!NoBoost
  /\ ~prio_boost_wr_pending /\ ~tcb_wr_en

\* Two tasks never share a slot: a creation takes a free one (free_task_id is
\* computed before a deletion or another creation has landed in the array).
CreationTakesFreeSlot == [][\A t \in DOMAIN writes.create : ~tcb_valid[t]]_vars

\* The processor never waits for the RTOS for ever: the state machine comes back
\* to S_IDLE from all its waits for the scheduler, the context switch, the
\* processor and the units, but two: for an answer to a POST at the bound, and for
\* one to operation code 2'b11, which neither hw_mutex nor hw_msgqueue gives.
PostRefused ==
  LET r == op_int["sem"]
  IN  /\ fsm_state = "S_BLOCK_TASK" /\ r.op = "POST" /\ ~Answered("sem")
      /\ wait_mask_r[r.id] = {} /\ count_r[r.id] >= max_count_r[r.id]
CodeUnknown ==
  fsm_state = "S_BLOCK_TASK" /\ (op_int["mutex"].op = "MUTEX3" \/ op_int["msgq"].op = "MSGQ3")
ReturnsToIdle == (fsm_state # "S_IDLE") ~> (fsm_state = "S_IDLE" \/ PostRefused \/ CodeUnknown)
=============================================================================
