----------------------------- MODULE PosixSystem -----------------------------
(***************************************************************************)
(* A program, the processor that runs it, the POSIX layer, the hardware    *)
(* RTOS, the APB path to the devices, the GPIO outputs and the UART        *)
(* (rtl/top/vsync_top.sv).  One step is one rising clock edge of all of    *)
(* them, except that the UART's transmitter, which is slow, steps on its   *)
(* own.  Each reads the others' registers as they were before the edge.    *)
(*                                                                         *)
(* Of the processor there are its two state machines for system calls and  *)
(* for context switches (rv32im_core.sv); between calls the program may    *)
(* compute for as long as it likes.                                        *)
(***************************************************************************)
EXTENDS Examples, HwRtos, Uart

VARIABLES clk,           \* flips at every edge of the clock
          prog,          \* the name of the program; it never changes
          at,            \* its statement: a label, 0 at the end, Lost
          fd,            \* the descriptor its last open returned
          rest,          \* what write() has yet to write
          sys_state,     \* rv32im_core: the system-call state machine
          args,          \* its latched number and arguments
          ctx,           \* rv32im_core: the context-switch state machine
          current_tid_r, \* posix_hw_layer: the current task, an edge late
          periph_state, periph,  \* vsync_top: the APB access of the layer
          gpio_out, gpio_dir,
          accesses,      \* history: APB accesses since the last ecall, up to 2
          births,        \* history: tasks created since the last creating ecall, up to 2
          printed        \* history: the first characters the UART sent

programVars == <<prog, at, fd, rest>>
coreVars    == <<sys_state, args, ctx>>
busVars     == <<periph_state, periph, gpio_out, gpio_dir>>
history     == <<accesses, births, printed>>
sysVars == <<clk, vars, layerVars, uartVars, programVars, coreVars, current_tid_r, busVars, history>>

SysStates == {"IDLE", "READ_A7", "READ_A0", "READ_A1", "READ_A2", "WAIT", "WRITEBACK"}
CtxStates == {"IDLE", "FLUSH", "SAVE_REGS", "SAVE_PC", "WAIT_RESTORE", "RESTORE_REGS", "RESUME"}
CtxIdle == [state |-> "IDLE", count |-> 0]
Lost == -1
-----------------------------------------------------------------------------
\* The program.  A processor that has been through a context switch goes on
\* where it was, but with the registers of the other task: it is lost, and may
\* make any call of the program.
Here == Text(prog, fd)[at]
Makes(s) == IF s.text = <<>> THEN s.calls ELSE {WriteByte(0, s.text)}
AnyCall == UNION {Makes(Text(prog, 0)[i]) : i \in DOMAIN Text(prog, 0)}
NextCalls ==
  IF at = 0 THEN {}
  ELSE IF at = Lost THEN AnyCall
  ELSE IF Here.text = <<>> THEN Here.calls
  ELSE {WriteByte(fd, IF rest = <<>> THEN Here.text ELSE rest)}

\* What the program does with a result; pthread_exit() never returns.
Returned(ret) ==
  IF at \in {0, Lost} THEN UNCHANGED programVars
  ELSE LET left == IF Here.text = <<>> THEN <<>>
                   ELSE LeftToWrite(IF rest = <<>> THEN Here.text ELSE rest, ret)
       IN  /\ rest' = left
           /\ at' = IF args.num = "PTHREAD_EXIT" THEN 0 ELSE IF left # <<>> THEN at ELSE After(Here, ret)
           /\ fd' = IF Here.fails = "negative" THEN ret ELSE fd
           /\ UNCHANGED prog
-----------------------------------------------------------------------------
\* rv32im_core, system calls: an ecall in the EX stage, which a context switch
\* has emptied by the end of its FLUSH.
Ecall(c) ==
  /\ sys_state = "IDLE" /\ ctx.state \in {"IDLE", "FLUSH"}
  /\ sys_state' = "READ_A7" /\ args' = c

Reading == [READ_A7 |-> "READ_A0", READ_A0 |-> "READ_A1", READ_A1 |-> "READ_A2", READ_A2 |-> "WAIT"]
SysStep ==
  \/ \E c \in NextCalls : Ecall(c)
  \/ /\ UNCHANGED args
     /\ \/ sys_state = "IDLE" /\ UNCHANGED sys_state
        \/ sys_state \in DOMAIN Reading /\ sys_state' = Reading[sys_state]
        \/ sys_state = "WAIT" /\ sys_state' = IF syscall_done THEN "WRITEBACK" ELSE "WAIT"
        \/ sys_state = "WRITEBACK" /\ sys_state' = "IDLE"

syscall_active == sys_state # "IDLE"
ecall_req == sys_state = "WAIT"

\* rv32im_core, context switches: a request that meets a system call waits; x0
\* to the last register are saved, and restored for as long as the unit loads.
ctx_switch_req == stall_pipeline
ctx_restore_en == cs.state = "LOAD"
ContextStepRequest == ctx_switch_req /\ ~syscall_active
CtxGoes(state, count) == ctx' = [state |-> state, count |-> count]
CtxStep ==
  \/ ctx.state = "IDLE" /\ CtxGoes(IF ContextStepRequest THEN "FLUSH" ELSE "IDLE", 0)
  \/ ctx.state = "FLUSH" /\ CtxGoes("SAVE_REGS", 0)
  \/ /\ ctx.state = "SAVE_REGS"
     /\ IF ctx.count = CTX_REGS THEN CtxGoes("SAVE_PC", 0) ELSE CtxGoes("SAVE_REGS", ctx.count + 1)
  \/ ctx.state = "SAVE_PC" /\ CtxGoes("WAIT_RESTORE", 0)
  \/ ctx.state = "WAIT_RESTORE" /\ CtxGoes(IF ctx_restore_en THEN "RESTORE_REGS" ELSE "WAIT_RESTORE", 0)
  \/ /\ ctx.state = "RESTORE_REGS"
     /\ IF ctx_restore_en THEN CtxGoes("RESTORE_REGS", ctx.count + 1)
        ELSE CtxGoes(IF ctx.count > 0 THEN "RESUME" ELSE "RESTORE_REGS", ctx.count)
  \/ ctx.state = "RESUME" /\ CtxGoes("IDLE", 0)
CtxAck == ctx_switch_ack' = (ctx'.state = "RESUME")

\* The program goes on after a result, or after a switch.
ProgramStep ==
  IF ctx.state = "RESUME" THEN at' = (IF at = 0 THEN 0 ELSE Lost) /\ fd' = 0 /\ rest' = <<>> /\ UNCHANGED prog
  ELSE IF sys_state = "WRITEBACK" THEN Returned(result_r)
  ELSE UNCHANGED programVars
-----------------------------------------------------------------------------
\* posix_hw_layer to hw_rtos: the request the layer holds, with the operation
\* codes it sends, and the ports that hw_rtos reads as they are.
Num(nums) == Asking /\ call.num \in nums
OpCode ==
  CASE Num({"MUTEX_INIT", "MUTEX_DESTROY"})               -> Request("LOCK", call.a0 % NUM_MUTEXES, 0)
    [] Num({"MUTEX_LOCK", "MUTEX_TRYLOCK"})               -> Request("UNLOCK", call.a0 % NUM_MUTEXES, 0)
    [] Num({"MUTEX_UNLOCK"})                              -> Request("MUTEX3", call.a0 % NUM_MUTEXES, 0)
    [] Num({"SEM_INIT", "SEM_GETVALUE", "SEM_DESTROY"})   -> Request("INIT", call.a0 % NUM_SEMS, 0)
    [] Num({"SEM_WAIT", "SEM_TRYWAIT"})                   -> Request("WAIT", call.a0 % NUM_SEMS, 0)
    [] Num({"SEM_POST"})                                  -> Request("POST", call.a0 % NUM_SEMS, 0)
    [] Num({"MQ_OPEN", "MQ_CLOSE"})                       -> Request("SEND", call.a0 % NUM_QUEUES, 0)
    [] Num({"MQ_SEND"})                                   -> Request("RECV", call.a0 % NUM_QUEUES, 0)
    [] Num({"MQ_RECEIVE"})                                -> Request("MSGQ3", call.a0 % NUM_QUEUES, 0)
    [] Num({"PTHREAD_CREATE"})                            -> Request("create", 0, call.a2 % (PRIO_MAX + 1))
    [] Num({"PTHREAD_JOIN"})                              -> Request("join", 0, 0)
    [] Num({"PTHREAD_EXIT"})                              -> Request("exit", 0, 0)
    [] Num({"PTHREAD_YIELD"})                             -> Request("yield", 0, 0)
    [] OTHER                                              -> NoRequest

RtosPorts ==
  [prios   |-> {IF Num({"PTHREAD_CREATE"}) THEN call.a2 % (PRIO_MAX + 1) ELSE 0},
   targets |-> {IF Num({"PTHREAD_JOIN"}) THEN call.a0 % MAX_TASKS ELSE 0},
   counts  |-> {IF Num({"SEM_INIT"}) THEN call.a1 % (MAX_COUNT + 1) ELSE 0}]

\* hw_rtos to posix_hw_layer: the answer strobes and their results.  Messages are
\* all 0: the code that stores one comes without data.
Category ==
  CASE call.num = "PTHREAD_CREATE" -> "create"
    [] call.num = "PTHREAD_JOIN" -> "join"
    [] call.num \in MutexCalls -> "mutex"
    [] call.num \in SemCalls -> "sem"
    [] OTHER -> "msgq"
RtosResult ==
  CASE done.op = "create" -> IF done.ok THEN CHOOSE t \in DOMAIN writes.create : TRUE ELSE 0
    [] done.op = "mutex" -> IF done.ok THEN 0 ELSE EBUSY
    [] done.op = "sem"   -> IF done.ok THEN 0 ELSE EAGAIN
    [] done.op = "msgq"  -> IF done.ok THEN 0 ELSE EINVAL
    [] OTHER -> 0

LayerStep ==
  \/ state_r = "S_IDLE" /\ ~ecall_req /\ UNCHANGED layerVars
  \/ ecall_req /\ Accept(args)
  \/ Decode \/ Op(current_tid_r) \/ Complete
  \/ state_r = "S_PERIPH_WAIT" /\ periph_state # "DONE" /\ UNCHANGED layerVars
  \/ periph_state = "DONE" /\ PeriphWait(0)
  \/ state_r = "S_WAIT_RTOS" /\ done.op # Category /\ UNCHANGED layerVars
  \/ done.op = Category /\ WaitRtos(RtosResult)
TidStep == current_tid_r' = current_task_id_r
-----------------------------------------------------------------------------
\* vsync_top: the APB access for the layer.  A device takes it at the edge that
\* ends ACCESS; the read data is gone when the layer looks, in DONE.
BridgeStep ==
  \/ /\ periph_state = "IDLE"
     /\ IF PeriphPort = NoAccess THEN UNCHANGED <<periph_state, periph>>
        ELSE periph_state' = "SETUP" /\ periph' = PeriphPort
  \/ periph_state = "SETUP" /\ periph_state' = "ACCESS" /\ UNCHANGED periph
  \/ periph_state = "ACCESS" /\ periph_state' = "DONE" /\ UNCHANGED periph
  \/ periph_state = "DONE" /\ periph_state' = "IDLE" /\ UNCHANGED periph

Accessing(kind, type, offset) ==
  periph_state = "ACCESS" /\ periph.kind = kind /\ periph.type = type /\ periph.offset = offset
DeviceStep ==
  /\ tx_fifo' = IF Accessing("write", FD_TYPE_UART, 0) THEN Pushed(tx_fifo, periph.data) ELSE tx_fifo
  /\ gpio_out' = IF Accessing("write", FD_TYPE_GPIO, GPIO_SET_OUTPUT) THEN periph.data ELSE gpio_out
  /\ gpio_dir' = IF Accessing("write", FD_TYPE_GPIO, GPIO_SET_DIR) THEN periph.data ELSE gpio_dir
  /\ rx_fifo' = IF Accessing("read", FD_TYPE_UART, 4) /\ rx_fifo # <<>> THEN Tail(rx_fifo) ELSE rx_fifo
  /\ UNCHANGED tx_shift

UpTo2(n) == IF n > 2 THEN 2 ELSE n
HistoryStep ==
  LET called == sys_state = "IDLE" /\ sys_state' # "IDLE"
  IN  /\ accesses' = IF called THEN 0
                     ELSE UpTo2(accesses + (IF periph_state = "ACCESS" THEN 1 ELSE 0))
      /\ births' = IF called /\ args'.num = "PTHREAD_CREATE" THEN 0
                   ELSE UpTo2(births + Cardinality(DOMAIN writes.create))
      /\ UNCHANGED printed
-----------------------------------------------------------------------------
\* One edge of the system.
Edges == clk' = ~clk
Clock ==
  /\ Edges
  /\ \E req \in {OpCode}, ports \in {RtosPorts}, tick \in Inputs("tick") : Edge(req, ports, tick, FALSE)
  /\ SysStep /\ CtxStep /\ CtxAck /\ ProgramStep /\ LayerStep /\ TidStep
  /\ BridgeStep /\ DeviceStep /\ HistoryStep

\* The transmitter takes a character from the FIFO, or ends one.
Transmit ==
  /\ TxPop \/ TxStop
  /\ printed' = IF tx_shift = <<>> \/ Len(printed) = Len(Greeting) THEN printed
                ELSE printed \o tx_shift
  /\ UNCHANGED <<clk, vars, layerVars, programVars, coreVars, current_tid_r, busVars, accesses, births>>

Ticking == {"multitask", "gpio_blink"}
SysInit ==
  /\ clk = FALSE /\ prog \in PROGRAMS /\ at = 1 /\ fd = 0 /\ rest = <<>>
  /\ Init /\ calls = (IF prog \in Ticking THEN {"tick"} ELSE {})
  /\ LayerInit /\ UartInit /\ current_tid_r = 0
  /\ sys_state = "IDLE" /\ args = NoCall /\ ctx = CtxIdle
  /\ periph_state = "IDLE" /\ periph = NoAccess /\ gpio_out = 0 /\ gpio_dir = 0
  /\ accesses = 0 /\ births = 0 /\ printed = <<>>

SysNext == Clock \/ Transmit

\* The clock runs, the transmitter shifts, and a program that has a call to make
\* makes it; of a lost one that is not known.
Calling == at # Lost /\ \E c \in NextCalls : Ecall(c)
SysSpec == /\ SysInit /\ [][SysNext]_sysVars
           /\ WF_clk(Edges) /\ WF_uartVars(TxPop \/ TxStop) /\ WF_<<sys_state, args>>(Calling)
-----------------------------------------------------------------------------
\* A system call that goes through to a device accesses it once, any other call
\* not at all: the layer's request is one edge wide, the bridge answers two edges
\* after the access, and the descriptor is looked up at an edge of its own.
ForDevice(c) == \/ c.num \in {"CLOCK_GETTIME", "NANOSLEEP"}
                \/ c.num \in {"READ", "WRITE", "IOCTL"} /\ c.a0 \in Fds /\ fd_table[c.a0] # Closed
OneAccessPerCall ==
  /\ accesses <= 1
  /\ sys_state = "WRITEBACK" => accesses = IF ForDevice(args) THEN 1 ELSE 0

\* Every system call returns, except one that hw_rtos does not answer: the code
\* 2'b11 of its mutex and queue units, a POST at the bound, and any call once a
\* context switch has left its state machine waiting for an end that has passed.
Unanswerable == call.num \in {"MUTEX_UNLOCK", "MQ_RECEIVE"}
SwitchStuck == fsm_state \in {"S_WAIT_CTX_ACK", "S_CONTEXT_SAVE"} /\ cs = CsIdle /\ ~cs_switch_req
CallsReturn ==
  sys_state = "WAIT" ~> (sys_state # "WAIT" \/ Unanswerable \/ PostRefused \/ SwitchStuck)

\* The two examples that do without tasks do what they are for, with the library,
\* the processor, the layer, the bridge and the device between them and the pins,
\* whatever the timer does: the LED goes on and off for ever, and the greeting is
\* sent, whole and in order, however slow the UART.
Led(level) == gpio_dir = LED_BIT /\ gpio_out = level
LedBlinks == prog = "gpio_blink" => []<>Led(LED_BIT) /\ []<>Led(0)
GreetingArrives == prog = "hello_uart" => <>(printed = Greeting)
DemosRun == LedBlinks /\ GreetingArrives
=============================================================================
