----------------------------- MODULE PosixProofs -----------------------------
(***************************************************************************)
(* The descriptors of posix_hw_layer.sv for every size of their table and  *)
(* everything around the layer; then the whole of PosixSystem, for every   *)
(* program, number of tasks, semaphores, mutexes and queues.               *)
(***************************************************************************)
EXTENDS PosixSystem, HwRtosProofs

\* What makes HeldDescriptors inductive: an open or a close is decided in S_OP and
\* waits for nobody, and a close that reports success has cleared its entry.
FileCallsDecideAlone ==
  state_r \in {"S_PERIPH_WAIT", "S_WAIT_RTOS"} => call.num \notin {"OPEN", "CLOSE"}
CloseTook ==
  state_r = "S_COMPLETE" /\ call.num = "CLOSE" /\ result_r = 0 =>
    call.a0 \in Fds /\ fd_table[call.a0] = Closed
LayerIInv == LayerTypeOK /\ HeldDescriptors /\ FileCallsDecideAlone /\ CloseTook

\* The descriptor an open takes is one that is free (free_fd_idx).
LEMMA FreeFdIsFree ==
  ASSUME FreeFds # {}
  PROVE  FreeFd \in FreeFds
<1>1. FreeFds \in SUBSET Nat
  BY LayerAssumption DEF FreeFds
<1>2. \E f \in FreeFds : \A g \in FreeFds : f <= g
  BY <1>1, LeastNat
<1>3. QED
  BY <1>2 DEF FreeFd

\* ... so it is a descriptor beyond the standard ones, whose entry is closed.
LEMMA FreeFdIsFd ==
  ASSUME FreeFds # {}
  PROVE  FreeFd \in Fds /\ FreeFd \in Nat /\ FreeFd > 2 /\ fd_table[FreeFd] = Closed
<1>1. FreeFd \in 3..(MAX_FD - 1) /\ fd_table[FreeFd] = Closed
  BY FreeFdIsFree DEF FreeFds
<1>2. FreeFd \in Fds /\ FreeFd \in Nat /\ FreeFd > 2
  BY <1>1, LayerAssumption DEF Fds
<1>3. QED
  BY <1>1, <1>2

\* After reset the table and its history agree.
LEMMA InitIInv == LayerInit => LayerIInv
<1> SUFFICES ASSUME LayerInit PROVE LayerIInv
  OBVIOUS
<1>1. Standard \in [Fds -> Types \cup {Closed}]
  BY DEF Standard, Types, FD_TYPE_UART, Closed
<1>2. LayerTypeOK
  BY <1>1 DEF LayerInit, LayerTypeOK, LayerStates
<1>3. HeldDescriptors
  BY DEF LayerInit, HeldDescriptors, HeldStayOpen, NewIsFresh
<1>4. FileCallsDecideAlone /\ CloseTook
  BY DEF LayerInit, FileCallsDecideAlone, CloseTook
<1>5. QED
  BY <1>2, <1>3, <1>4 DEF LayerIInv

\* A step that leaves the table alone, and does not report an open or a close as
\* done, disturbs nothing.
LEMMA QuietStep ==
  ASSUME LayerIInv, UNCHANGED <<fd_table, held>>,
         state_r # "S_COMPLETE",
         state_r' \in LayerStates, call' \in Calls, result_r' \in Int,
         state_r' = "S_COMPLETE" =>
           \/ call'.num \notin {"OPEN", "CLOSE"}
           \/ call'.num = "OPEN" /\ result_r' < 0
           \/ call'.num = "CLOSE" /\ result_r' # 0,
         state_r' \in {"S_PERIPH_WAIT", "S_WAIT_RTOS"} => call'.num \notin {"OPEN", "CLOSE"}
  PROVE  LayerIInv'
<1>1. LayerTypeOK'
  BY DEF LayerIInv, LayerTypeOK
<1>2. HeldStayOpen'
  BY DEF LayerIInv, HeldDescriptors, HeldStayOpen, Closing
<1>3. NewIsFresh'
  BY DEF NewIsFresh
<1>4. FileCallsDecideAlone' /\ CloseTook'
  BY DEF FileCallsDecideAlone, CloseTook
<1>5. QED
  BY <1>1, <1>2, <1>3, <1>4 DEF LayerIInv, HeldDescriptors

\* S_FILE_OP, open: the descriptor taken was nobody's.
LEMMA OpenStep ==
  ASSUME LayerIInv, state_r = "S_OP", OpOpen
  PROVE  LayerIInv'
<1> DEFINE type == call.a0 % 8
<1>1. type \in 0..7 /\ call \in Calls /\ call.num = "OPEN"
  BY DEF LayerIInv, LayerTypeOK, Calls, OpOpen
<1>2. CASE FreeFds = {} /\ UNCHANGED fd_table /\ Completes(IF type < 5 THEN EMFILE ELSE ENOENT)
  <2>1. /\ state_r' = "S_COMPLETE" /\ UNCHANGED <<fd_table, held>>
        /\ call' = call /\ result_r' \in Int /\ result_r' < 0
    BY <1>2 DEF Completes, Goes, EMFILE, ENOENT
  <2>2. QED
    BY <1>1, <2>1, QuietStep DEF LayerStates
<1>3. CASE /\ FreeFds # {} /\ fd_table' = [fd_table EXCEPT ![FreeFd] = type]
           /\ Completes(IF type < 5 THEN FreeFd ELSE ENOENT)
  <2>1. FreeFd \in Fds /\ FreeFd \in Nat /\ fd_table[FreeFd] = Closed
    BY <1>3, FreeFdIsFd
  <2>2. /\ state_r' = "S_COMPLETE" /\ held' = held /\ call' = call
        /\ result_r' \in Int /\ (result_r' >= 0 => result_r' = FreeFd)
    BY <1>3, <2>1 DEF Completes, Goes, ENOENT
  <2>3. fd_table \in [Fds -> Types \cup {Closed}] /\ type \in Types
    BY <1>1 DEF LayerIInv, LayerTypeOK, Types
  <2>4. fd_table' \in [Fds -> Types \cup {Closed}]
    BY <1>3, <2>3
  <2>5. LayerTypeOK'
    BY <1>1, <2>2, <2>4 DEF LayerIInv, LayerTypeOK, LayerStates
  <2>6. held[FreeFd] = Closed
    BY <2>1 DEF LayerIInv, HeldDescriptors, HeldStayOpen, Closing
  <2>7. \A f \in Fds \ {FreeFd} : fd_table'[f] = fd_table[f]
    BY <1>3, <2>3
  <2>8. HeldStayOpen'
    BY <2>2, <2>6, <2>7, <1>1 DEF LayerIInv, HeldDescriptors, HeldStayOpen, Closing
  <2>9. fd_table'[FreeFd] = type
    BY <1>3, <2>1, <2>3
  <2>10. NewIsFresh'
    BY <2>1, <2>2, <2>6, <2>9 DEF NewIsFresh
  <2>11. FileCallsDecideAlone' /\ CloseTook'
    BY <1>1, <2>2 DEF FileCallsDecideAlone, CloseTook
  <2>12. QED
    BY <2>5, <2>8, <2>10, <2>11 DEF LayerIInv, HeldDescriptors
<1>4. QED
  BY <1>2, <1>3 DEF OpOpen

\* S_FILE_OP, close: success clears the entry, and only the holder's.
LEMMA CloseStep ==
  ASSUME LayerIInv, state_r = "S_OP", OpClose
  PROVE  LayerIInv'
<1>1. call \in Calls /\ call.num = "CLOSE"
  BY DEF LayerIInv, LayerTypeOK, OpClose
<1>2. ASSUME NEW error \in Int, error # 0, UNCHANGED fd_table, Completes(error)
      PROVE  LayerIInv'
  <2>1. /\ state_r' = "S_COMPLETE" /\ UNCHANGED <<fd_table, held>>
        /\ call' = call /\ result_r' \in Int /\ result_r' # 0
    BY <1>2 DEF Completes, Goes
  <2>2. QED
    BY <1>1, <2>1, QuietStep DEF LayerStates
<1>3. ASSUME IsOpen(call.a0), fd_table' = [fd_table EXCEPT ![call.a0] = Closed], Completes(0)
      PROVE  LayerIInv'
  <2>1. state_r' = "S_COMPLETE" /\ held' = held /\ call' = call /\ result_r' = 0
    BY <1>3 DEF Completes, Goes
  <2>2. fd_table \in [Fds -> Types \cup {Closed}] /\ call.a0 \in Fds
    BY <1>3 DEF LayerIInv, LayerTypeOK, IsOpen
  <2>3. /\ fd_table' \in [Fds -> Types \cup {Closed}]
        /\ \A f \in Fds \ {call.a0} : fd_table'[f] = fd_table[f]
        /\ fd_table'[call.a0] = Closed
    BY <1>3, <2>2
  <2>4. LayerTypeOK'
    BY <1>1, <2>1, <2>3 DEF LayerIInv, LayerTypeOK, LayerStates
  <2>5. HeldStayOpen'
    BY <1>1, <2>1, <2>3 DEF LayerIInv, HeldDescriptors, HeldStayOpen, Closing
  <2>6. NewIsFresh' /\ FileCallsDecideAlone' /\ CloseTook'
    BY <1>1, <2>1, <2>2, <2>3 DEF NewIsFresh, FileCallsDecideAlone, CloseTook
  <2>7. QED
    BY <2>4, <2>5, <2>6 DEF LayerIInv, HeldDescriptors
<1>4. EBADF \in Int /\ EBADF # 0 /\ EPERM \in Int /\ EPERM # 0
  BY DEF EBADF, EPERM
<1>5. \/ UNCHANGED fd_table /\ Completes(EBADF)
      \/ UNCHANGED fd_table /\ Completes(EPERM)
      \/ IsOpen(call.a0) /\ fd_table' = [fd_table EXCEPT ![call.a0] = Closed] /\ Completes(0)
  BY DEF OpClose
<1>6. QED
  BY <1>2, <1>3, <1>4, <1>5

\* The other states of S_OP.
LEMMA OtherOpStep ==
  ASSUME LayerIInv, NEW tid \in Int, state_r = "S_OP",
         OpSeek \/ OpDevice \/ OpBadFd \/ OpRtos \/ OpThread(tid)
  PROVE  LayerIInv'
<1>1. call \in Calls /\ call.a1 \in Int
  BY DEF LayerIInv, LayerTypeOK, Calls
<1>2. call.num \notin {"OPEN", "CLOSE"} /\ UNCHANGED <<fd_table, held, call>>
  BY DEF OpSeek, OpDevice, OpBadFd, OpRtos, OpThread, ToDevice, Awaited, Completes, Goes,
         TimerCalls, MutexCalls, SemCalls, MqCalls, ThreadCalls
<1>3. state_r' \in {"S_COMPLETE", "S_PERIPH_WAIT", "S_WAIT_RTOS"} /\ result_r' \in Int
  BY <1>1 DEF OpSeek, OpDevice, OpBadFd, OpRtos, OpThread, Completes, Goes, EBADF, ESPIPE
<1>4. QED
  BY <1>1, <1>2, <1>3, QuietStep DEF LayerStates

\* S_COMPLETE: the caller learns the result.
LEMMA CompleteStep ==
  ASSUME LayerIInv, Complete
  PROVE  LayerIInv'
<1>1. state_r = "S_COMPLETE" /\ state_r' = "S_IDLE" /\ UNCHANGED <<call, result_r, fd_table>>
  BY DEF Complete
<1>2. /\ call \in Calls /\ held \in [Fds -> Types \cup {Closed}]
      /\ fd_table \in [Fds -> Types \cup {Closed}]
  BY <1>1 DEF LayerIInv, LayerTypeOK
<1>3. CASE call.num = "OPEN" /\ result_r >= 0
  <2>1. held' = [held EXCEPT ![result_r] = call.a0 % 8]
    BY <1>3 DEF Complete
  <2>2. result_r \in Fds /\ fd_table[result_r] = call.a0 % 8
    BY <1>1, <1>3 DEF LayerIInv, HeldDescriptors, NewIsFresh
  <2>3. /\ held' \in [Fds -> Types \cup {Closed}] /\ held'[result_r] = fd_table[result_r]
        /\ \A f \in Fds \ {result_r} : held'[f] = held[f]
    BY <1>2, <2>1, <2>2
  <2>4. HeldStayOpen'
    BY <1>1, <1>3, <2>3 DEF LayerIInv, HeldDescriptors, HeldStayOpen, Closing
  <2>5. LayerTypeOK'
    BY <1>1, <1>2, <2>3 DEF LayerIInv, LayerTypeOK, LayerStates
  <2>6. QED
    BY <1>1, <2>4, <2>5 DEF LayerIInv, HeldDescriptors, NewIsFresh, FileCallsDecideAlone, CloseTook
<1>4. CASE call.num = "CLOSE" /\ result_r = 0
  <2>1. held' = [held EXCEPT ![call.a0] = Closed]
    BY <1>4 DEF Complete
  <2>2. call.a0 \in Fds
    BY <1>1, <1>4 DEF LayerIInv, CloseTook
  <2>3. /\ held' \in [Fds -> Types \cup {Closed}] /\ held'[call.a0] = Closed
        /\ \A f \in Fds \ {call.a0} : held'[f] = held[f]
    BY <1>2, <2>1, <2>2
  <2>4. HeldStayOpen'
    BY <1>1, <1>4, <2>3 DEF LayerIInv, HeldDescriptors, HeldStayOpen, Closing
  <2>5. LayerTypeOK'
    BY <1>1, <1>2, <2>3 DEF LayerIInv, LayerTypeOK, LayerStates
  <2>6. QED
    BY <1>1, <2>4, <2>5 DEF LayerIInv, HeldDescriptors, NewIsFresh, FileCallsDecideAlone, CloseTook
<1>5. CASE ~(call.num = "OPEN" /\ result_r >= 0) /\ ~(call.num = "CLOSE" /\ result_r = 0)
  <2>1. held' = held
    BY <1>5 DEF Complete
  <2>2. HeldStayOpen'
    BY <1>1, <1>5, <2>1 DEF LayerIInv, HeldDescriptors, HeldStayOpen, Closing
  <2>3. LayerTypeOK'
    BY <1>1, <1>2, <2>1 DEF LayerIInv, LayerTypeOK, LayerStates
  <2>4. QED
    BY <1>1, <2>2, <2>3 DEF LayerIInv, HeldDescriptors, NewIsFresh, FileCallsDecideAlone, CloseTook
<1>6. QED
  BY <1>3, <1>4, <1>5

\* Every edge of the layer keeps the invariant.
LEMMA NextIInv == LayerIInv /\ [LayerNext]_layerVars => LayerIInv'
<1> SUFFICES ASSUME LayerIInv, [LayerNext]_layerVars PROVE LayerIInv'
  OBVIOUS
<1>1. ASSUME NEW c \in Calls, Accept(c) PROVE LayerIInv'
  BY <1>1, QuietStep DEF Accept, LayerStates, LayerIInv, LayerTypeOK
<1>2. CASE Decode
  BY <1>2, QuietStep DEF Decode, Goes, LayerStates, LayerIInv, LayerTypeOK
<1>3. CASE Complete
  BY <1>3, CompleteStep
<1>4. ASSUME NEW v \in Int, Op(v) PROVE LayerIInv'
  BY <1>4, OpenStep, CloseStep, OtherOpStep DEF Op
<1>5. ASSUME NEW v \in Int, PeriphWait(v) \/ WaitRtos(v) PROVE LayerIInv'
  <2>1. /\ state_r \in {"S_PERIPH_WAIT", "S_WAIT_RTOS"} /\ state_r' = "S_COMPLETE"
        /\ result_r' = v /\ UNCHANGED <<call, fd_table, held>>
    BY <1>5 DEF PeriphWait, WaitRtos, Completes, Goes
  <2>2. call \in Calls /\ call.num \notin {"OPEN", "CLOSE"}
    BY <2>1 DEF LayerIInv, LayerTypeOK, FileCallsDecideAlone
  <2>3. QED
    BY <2>1, <2>2, QuietStep DEF LayerStates
<1>6. CASE UNCHANGED layerVars
  BY <1>6 DEF layerVars, LayerIInv, LayerTypeOK, HeldDescriptors, HeldStayOpen, Closing,
              NewIsFresh, FileCallsDecideAlone, CloseTook
<1>7. QED
  BY <1>1, <1>2, <1>3, <1>4, <1>5, <1>6 DEF LayerNext

\* The invariant holds in every behaviour of the layer, whatever is around it.
THEOREM LayerInvariant == LayerSpec => []LayerIInv
  BY InitIInv, NextIInv, PTL DEF LayerSpec

\* The registers of the layer have their types (posix_hw_layer.sv, declarations).
THEOREM LayerTypeCorrect == LayerSpec => []LayerTypeOK
<1>1. LayerIInv => LayerTypeOK
  BY DEF LayerIInv
<1>2. QED
  BY <1>1, LayerInvariant, PTL

\* A descriptor belongs to whom open returned it until a close of it succeeds, for
\* every size of the table (fd_valid and fd_type_r against the answers given).
THEOREM DescriptorsAreHeld == LayerSpec => []HeldDescriptors
<1>1. LayerIInv => HeldDescriptors
  BY DEF LayerIInv
<1>2. QED
  BY <1>1, LayerInvariant, PTL
-----------------------------------------------------------------------------
\* What the layer puts on the ports of hw_rtos is a request of hw_rtos: the objects are cut
\* to the number of each kind, the priority to its width.
LEMMA LayerAsksRtos ==
  ASSUME LayerTypeOK
  PROVE  /\ OpCode \in AllRequests
         /\ RtosPorts.prios \subseteq Prios /\ RtosPorts.targets \subseteq Tasks
         /\ RtosPorts.counts \subseteq Sem!Counts
<1>1. /\ NUM_SEMS \in Nat \ {0} /\ NUM_MUTEXES \in Nat \ {0} /\ NUM_QUEUES \in Nat \ {0}
      /\ MAX_COUNT \in Nat /\ MSG_MAX \in Nat /\ MAX_TASKS \in Nat \ {0} /\ PRIO_MAX \in Nat
  BY RtosAssumption, TasksAssumption
<1>2. Asking => call.a0 \in Int /\ call.a1 \in Int /\ call.a2 \in Int
  BY DEF Asking, LayerTypeOK, Calls
<1>3. /\ Asking => call.a0 % NUM_SEMS \in Sem!Sems /\ call.a0 % NUM_MUTEXES \in Mtx!Mutexes
      /\ Asking => call.a0 % NUM_QUEUES \in Msgq!Queues /\ call.a0 % MAX_TASKS \in Tasks
      /\ Asking => call.a1 % (MAX_COUNT + 1) \in Sem!Counts /\ call.a2 % (PRIO_MAX + 1) \in Prios
      /\ 0 \in Msgq!Msgs /\ 0 \in Tasks /\ 0 \in Prios /\ 0 \in Sem!Counts
  BY <1>1, <1>2 DEF Sem!Sems, Mtx!Mutexes, Msgq!Queues, Msgq!Msgs, Tasks, Sem!Counts, Prios
<1>4. /\ NoRequest \in AllRequests
      /\ \A o \in {"exit", "join", "yield"} : Request(o, 0, 0) \in AllRequests
      /\ \A p \in Prios : Request("create", 0, p) \in AllRequests
      /\ \A o \in {"INIT", "WAIT", "POST"}, s \in Sem!Sems : Request(o, s, 0) \in AllRequests
      /\ \A o \in {"LOCK", "UNLOCK", "MUTEX3"}, m \in Mtx!Mutexes : Request(o, m, 0) \in AllRequests
      /\ \A q \in Msgq!Queues, d \in Msgq!Msgs : Request("SEND", q, d) \in AllRequests
      /\ \A o \in {"RECV", "MSGQ3"}, q \in Msgq!Queues : Request(o, q, 0) \in AllRequests
  BY DEF AllRequests
<1>5. OpCode \in AllRequests
  <2> HIDE DEF Asking
  <2>1. CASE Asking
    BY <1>3, <1>4, <2>1 DEF OpCode, Num
  <2>2. CASE ~Asking
    BY <1>4, <2>2 DEF OpCode, Num
  <2>3. QED
    BY <2>1, <2>2
<1>6. /\ RtosPorts.prios \subseteq Prios /\ RtosPorts.targets \subseteq Tasks
      /\ RtosPorts.counts \subseteq Sem!Counts
  BY <1>3 DEF RtosPorts, Num
<1>7. QED
  BY <1>5, <1>6

\* One edge of hw_rtos behind the layer.
LEMMA ClockIsEdge ==
  ASSUME LayerTypeOK, Clock
  PROVE  \E req \in AllRequests, tick \in BOOLEAN : \E ports :
           /\ ports.prios \subseteq Prios /\ ports.targets \subseteq Tasks
           /\ ports.counts \subseteq Sem!Counts
           /\ Edge(req, ports, tick, FALSE) /\ ctx_switch_ack' \in BOOLEAN
<1>1. PICK req \in {OpCode}, ports \in {RtosPorts}, tick \in Inputs("tick") :
        Edge(req, ports, tick, FALSE)
  BY DEF Clock
<1>2. tick \in BOOLEAN
  BY DEF Inputs
<1>3. ctx_switch_ack' \in BOOLEAN
  BY DEF Clock, CtxAck
<1>4. /\ req \in AllRequests
      /\ ports.prios \subseteq Prios /\ ports.targets \subseteq Tasks
      /\ ports.counts \subseteq Sem!Counts
  BY <1>1, LayerAsksRtos
<1>5. QED
  BY <1>1, <1>2, <1>3, <1>4

\* The answer to a creation comes at the edge at which the new task's slot is written, so
\* the layer finds the task's id there.
AnswerWithSlot == done.op = "create" /\ done.ok => DOMAIN writes.create # {}

LEMMA CreationAnswered ==
  ASSUME Typed, NEW req, NEW ports, Fsm(req, ports)
  PROVE  AnswerWithSlot'
<1> USE PortFields DEF AnswerWithSlot, Quiet, Pulses, NoAnswer, Answer
<1>1. CASE Idle(req)
  BY <1>1 DEF Idle
<1>2. CASE ScanReady \/ ComparePriority \/ PreemptCheck \/ WaitCtxAck \/ ContextSave \/ ContextLoad
  BY <1>2 DEF ScanReady, ComparePriority, PreemptCheck, WaitCtxAck, ContextSave, ContextLoad
<1>3. CASE Dispatch \/ TaskExit \/ ExitSettle \/ BlockAborted(req) \/ UnblockTask
  BY <1>3 DEF Dispatch, TaskExit, ExitSettle, BlockAborted, UnblockTask
<1>4. CASE BlockTask(req)
  <2>1. First(op_pending) # "create"
    BY DEF First
  <2>2. QED
    BY <1>4, <2>1 DEF BlockTask
<1>5. CASE \E expired \in BOOLEAN : TimerUpdate(expired)
  BY <1>5 DEF TimerUpdate
<1>6. CASE \E p \in ports.prios : TaskCreate(p)
  BY <1>6 DEF TaskCreate
<1>7. CASE \E target \in ports.targets : TaskJoin(target)
  BY <1>7 DEF TaskJoin
<1>8. QED
  BY <1>1, <1>2, <1>3, <1>4, <1>5, <1>6, <1>7 DEF Fsm

\* So what the layer takes from hw_rtos is a number.
LEMMA ResultIsNumber ==
  ASSUME Typed, AnswerWithSlot
  PROVE  RtosResult \in Int
<1>1. DOMAIN writes.create \subseteq Int
  BY TasksAssumption DEF Typed, RtosTypeOK, Tasks
<1>2. done.op = "create" /\ done.ok => (CHOOSE t \in DOMAIN writes.create : TRUE) \in Int
  <2>1. ASSUME DOMAIN writes.create # {} PROVE (CHOOSE t \in DOMAIN writes.create : TRUE) \in DOMAIN writes.create
    BY <2>1
  <2>2. QED
    BY <1>1, <2>1 DEF AnswerWithSlot
<1>3. QED
  BY <1>2 DEF RtosResult, EBUSY, EAGAIN, EINVAL
-----------------------------------------------------------------------------
\* A statement makes calls of the library, writes numbers, and goes to a label that exists.
StatementFits(s, labels) ==
  /\ s.calls \subseteq Calls /\ s.text \in Seq(Int)
  /\ s.next \in labels /\ s.catch \in labels
TextFits(text, last) ==
  /\ DOMAIN text = 1 .. last
  /\ \A i \in 1 .. last : StatementFits(text[i], 0 .. last)

LEMMA CallsAreCalls ==
  ASSUME NEW num \in SysCalls, NEW a \in Int, NEW b \in Int, NEW c \in Int
  PROVE  Syscall(num, a, b, c) \in Calls
BY DEF Syscall, Calls

\* The shapes of the statements.
LEMMA ShapesFit ==
  ASSUME NEW labels, NEW next \in labels, 0 \in labels
  PROVE  /\ \A c \in Calls : StatementFits(Simply(c, next), labels)
         /\ \A t \in Seq(Int) : StatementFits(Puts(t, next), labels)
         /\ \A c \in Calls, l \in labels : StatementFits(OpenOr(c, l, next), labels)
BY DEF StatementFits, Simply, Puts, OpenOr, Statement

\* The programs of sw/examples.
LEMMA HelloFits ==
  ASSUME NEW f \in Int
  PROVE  TextFits(hello_uart(f), 3)
<1>1. open(FD_TYPE_UART, 0) \in Calls /\ close(f) \in Calls
  BY CallsAreCalls DEF open, close, FD_TYPE_UART, SysCalls, FileCalls
<1>2. Greeting \in Seq(Int)
  BY DEF Greeting
<1> DEFINE text == hello_uart(f)
<1>3. /\ DOMAIN text = 1 .. 3
      /\ text[1] = OpenOr(open(FD_TYPE_UART, 0), 0, 2) /\ text[2] = Puts(Greeting, 3)
      /\ text[3] = Simply(close(f), 0)
  BY DEF hello_uart
<1> HIDE DEF text
<1> DEFINE labels == 0 .. 3
           Fits(i) == StatementFits(text[i], labels)
<1>4. {0, 2, 3} \subseteq labels
  OBVIOUS
<1> HIDE DEF labels
<1>5. Fits(1) /\ Fits(2) /\ Fits(3)
  BY <1>1, <1>2, <1>3, <1>4, ShapesFit
<1> HIDE DEF Fits
<1>6. \A i \in 1 .. 3 : Fits(i)
  BY <1>5
<1>7. QED
  BY <1>3, <1>6 DEF TextFits, text, Fits, labels

LEMMA BlinkFits ==
  ASSUME NEW f \in Int
  PROVE  TextFits(gpio_blink(f), 6)
<1>1. /\ open(FD_TYPE_GPIO, 0) \in Calls /\ ioctl(f, GPIO_SET_DIR, LED_BIT) \in Calls
      /\ ioctl(f, GPIO_SET_OUTPUT, LED_BIT) \in Calls /\ ioctl(f, GPIO_SET_OUTPUT, 0) \in Calls
      /\ nanosleep(NULL, NULL) \in Calls
  BY CallsAreCalls DEF open, ioctl, nanosleep, FD_TYPE_GPIO, GPIO_SET_DIR, GPIO_SET_OUTPUT, LED_BIT,
                       NULL, SysCalls, FileCalls, TimerCalls
<1> DEFINE text == gpio_blink(f)
<1>2. /\ DOMAIN text = 1 .. 6
      /\ text[1] = OpenOr(open(FD_TYPE_GPIO, 0), 0, 2)
      /\ text[2] = Simply(ioctl(f, GPIO_SET_DIR, LED_BIT), 3)
      /\ text[3] = Simply(ioctl(f, GPIO_SET_OUTPUT, LED_BIT), 4)
      /\ text[4] = Simply(nanosleep(NULL, NULL), 5)
      /\ text[5] = Simply(ioctl(f, GPIO_SET_OUTPUT, 0), 6)
      /\ text[6] = Simply(nanosleep(NULL, NULL), 3)
  BY DEF gpio_blink
<1> HIDE DEF text
<1> DEFINE labels == 0 .. 6
           Fits(i) == StatementFits(text[i], labels)
<1>3. {0, 2, 3, 4, 5, 6} \subseteq labels
  OBVIOUS
<1> HIDE DEF labels
<1>4. Fits(1) /\ Fits(2) /\ Fits(3) /\ Fits(4) /\ Fits(5) /\ Fits(6)
  BY <1>1, <1>2, <1>3, ShapesFit
<1> HIDE DEF Fits
<1>5. \A i \in 1 .. 6 : Fits(i)
  BY <1>4
<1>6. QED
  BY <1>2, <1>5 DEF TextFits, text, Fits, labels

LEMMA MultitaskFits ==
  ASSUME NEW f \in Int
  PROVE  TextFits(multitask(f), 12)
<1>1. /\ open(FD_TYPE_UART, 0) \in Calls /\ close(f) \in Calls
      /\ sem_init(sync_sem, 0, 0) \in Calls /\ sem_destroy(sync_sem) \in Calls
  <2>1. {"OPEN", "CLOSE", "SEM_INIT", "SEM_DESTROY"} \subseteq SysCalls
    BY DEF SysCalls, FileCalls, SemCalls
  <2>2. open(FD_TYPE_UART, 0) \in Calls /\ close(f) \in Calls
    BY <2>1, CallsAreCalls DEF open, close, FD_TYPE_UART
  <2>3. sem_init(sync_sem, 0, 0) \in Calls /\ sem_destroy(sync_sem) \in Calls
    BY <2>1, CallsAreCalls DEF sem_init, sem_destroy, sync_sem
  <2>4. QED
    BY <2>2, <2>3
<1>2. Message \in Seq(Int)
  BY DEF Message
<1> DEFINE joins == {pthread_join(t, NULL) : t \in Tasks}
           creates == {pthread_create(NULL, NULL, start) : start \in Prios}
           text == multitask(f)
<1>3. joins \in SUBSET Calls /\ creates \in SUBSET Calls
  <2>1. \A t \in Tasks : t \in Int
    BY TasksAssumption DEF Tasks
  <2>2. \A p \in Prios : p \in Int
    BY TasksAssumption DEF Prios
  <2>3. "PTHREAD_JOIN" \in SysCalls /\ "PTHREAD_CREATE" \in SysCalls
    BY DEF SysCalls, ThreadCalls
  <2>4. \A t \in Tasks : pthread_join(t, NULL) \in Calls
    BY <2>1, <2>3, CallsAreCalls DEF pthread_join, NULL
  <2>5. \A p \in Prios : pthread_create(NULL, NULL, p) \in Calls
    BY <2>2, <2>3, CallsAreCalls DEF pthread_create, NULL
  <2>6. QED
    BY <2>4, <2>5
<1>4. /\ \A l : Joins(l) = Statement(joins, <<>>, "never", 0, l)
      /\ \A k, l : Creates(k, l) = Statement(creates, <<>>, "nonzero", k, l)
  BY DEF Joins, Creates
<1>5. /\ DOMAIN text = 1 .. 12
      /\ text[1] = OpenOr(open(FD_TYPE_UART, 0), 0, 2) /\ text[2] = Puts(Message, 3)
      /\ text[3] = Simply(sem_init(sync_sem, 0, 0), 4)
      /\ text[4] = Creates(12, 5) /\ text[5] = Creates(12, 6) /\ text[6] = Puts(Message, 7)
      /\ text[7] = Joins(8) /\ text[8] = Joins(9) /\ text[9] = Puts(Message, 10)
      /\ text[10] = Simply(sem_destroy(sync_sem), 11) /\ text[11] = Simply(close(f), 0)
      /\ text[12] = Puts(Message, 0)
  BY DEF multitask
<1> HIDE DEF joins, creates, text
<1> DEFINE labels == 0 .. 12
           Fits(i) == StatementFits(text[i], labels)
<1>6. 0 \in labels /\ \A i \in 2 .. 12 : i \in labels
  OBVIOUS
<1> HIDE DEF labels
<1>7. {2, 3, 4, 5, 6, 7, 8, 9, 10, 11, 12} \subseteq labels
  BY <1>6
<1>8. Fits(1) /\ Fits(3) /\ Fits(10) /\ Fits(11)
  BY <1>1, <1>5, <1>6, <1>7, ShapesFit
<1>9. Fits(2) /\ Fits(6) /\ Fits(9) /\ Fits(12)
  BY <1>2, <1>5, <1>6, <1>7, ShapesFit
<1>10. /\ \A l \in labels : StatementFits(Joins(l), labels)
       /\ \A k \in labels, l \in labels : StatementFits(Creates(k, l), labels)
  <2>1. \A l \in labels : StatementFits(Statement(joins, <<>>, "never", 0, l), labels)
    BY <1>3, <1>6 DEF StatementFits, Statement
  <2>2. \A k, l \in labels : StatementFits(Statement(creates, <<>>, "nonzero", k, l), labels)
    BY <1>3 DEF StatementFits, Statement
  <2>3. QED
    BY <1>4, <2>1, <2>2, Zenon
<1>11. Fits(4) /\ Fits(5) /\ Fits(7) /\ Fits(8)
  BY <1>5, <1>7, <1>10
<1> HIDE DEF Fits
<1>12. \A i \in 1 .. 12 : Fits(i)
  BY <1>8, <1>9, <1>11
<1>13. QED
  BY <1>5, <1>12 DEF TextFits, text, Fits, labels

\* Every program of an instance: the last label of each does not depend on the descriptor.
LEMMA ProgramsFit ==
  ASSUME NEW p \in PROGRAMS
  PROVE  \E last \in Nat \ {0} : \A f \in Int : TextFits(Text(p, f), last)
<1>1. CASE p = "hello_uart"
  BY <1>1, HelloFits DEF Text
<1>2. CASE p = "gpio_blink"
  BY <1>2, BlinkFits DEF Text
<1>3. CASE p = "multitask"
  BY <1>3, MultitaskFits DEF Text
<1>4. CASE p \notin {"hello_uart", "gpio_blink", "multitask"}
  <2>1. FREE[p] \in SUBSET Calls
    BY <1>4, ProgramsAssumption
  <2> DEFINE free == Statement(FREE[p], <<>>, "never", 0, 1)
  <2>2. StatementFits(free, 0 .. 1)
    BY <2>1 DEF StatementFits, Statement
  <2>3. \A f : Text(p, f) = <<free>>
    BY <1>4 DEF Text
  <2> HIDE DEF free
  <2>4. \A f \in Int : TextFits(Text(p, f), 1)
    <3>1. DOMAIN <<free>> = 1 .. 1 /\ <<free>>[1] = free
      OBVIOUS
    <3>2. QED
      BY <2>2, <2>3, <3>1 DEF TextFits
  <2>5. QED
    BY <2>4
<1>5. QED
  BY <1>1, <1>2, <1>3, <1>4
-----------------------------------------------------------------------------
\* The program is at one of its statements, at its end, or lost.
ProgramFits ==
  /\ prog \in PROGRAMS /\ fd \in Int /\ rest \in Seq(Int)
  /\ at \in {0, Lost} \/ at \in DOMAIN Text(prog, fd)

\* The processor and the layer: the layer leaves S_IDLE for the call in the processor's
\* registers, and the processor waits until it is back there.
Handshake ==
  /\ sys_state \in SysStates /\ current_tid_r \in Tasks
  /\ sys_state # "IDLE" => args \in Calls
  /\ state_r # "S_IDLE" => sys_state = "WAIT" /\ call = args

\* The layer and the bridge: an access is under way exactly while the layer waits for it,
\* and the count of accesses follows it until the result is written back.
Bridged ==
  /\ periph_state \in {"IDLE", "SETUP", "ACCESS", "DONE"}
  /\ periph_state # "IDLE" <=> state_r = "S_PERIPH_WAIT"
  /\ state_r = "S_PERIPH_WAIT" => ForDevice(call)
  /\ state_r = "S_WAIT_RTOS" => ~ForDevice(call)
  /\ accesses \in {0, 1}
  /\ sys_state \notin {"IDLE", "WRITEBACK"} /\ state_r # "S_COMPLETE" =>
       accesses = IF periph_state = "DONE" THEN 1 ELSE 0
  /\ sys_state = "WRITEBACK" \/ state_r = "S_COMPLETE" =>
       accesses = IF ForDevice(args) THEN 1 ELSE 0

\* The inductive invariant of the system.
SysInv == RtosInv /\ AnswerWithSlot /\ LayerIInv /\ ProgramFits /\ Handshake /\ Bridged

\* What an edge does to the state of the layer: each wait ends with what it waits for.
LEMMA LayerMoves ==
  ASSUME state_r \in LayerStates, LayerStep
  PROVE  /\ state_r = "S_IDLE" =>
              IF ecall_req THEN state_r' = "S_DECODE" /\ call' = args ELSE state_r' = "S_IDLE"
         /\ state_r = "S_DECODE" => state_r' = "S_OP"
         /\ state_r = "S_OP" => /\ state_r' \in {"S_COMPLETE", "S_PERIPH_WAIT", "S_WAIT_RTOS"}
                                /\ state_r' = "S_PERIPH_WAIT" <=> ToDevice
                                /\ ToDevice => call.num \notin {"OPEN", "CLOSE"}
         /\ state_r = "S_PERIPH_WAIT" =>
              state_r' = IF periph_state = "DONE" THEN "S_COMPLETE" ELSE "S_PERIPH_WAIT"
         /\ state_r = "S_WAIT_RTOS" => state_r' \in {"S_WAIT_RTOS", "S_COMPLETE"}
         /\ state_r = "S_COMPLETE" => state_r' = "S_IDLE"
         /\ state_r # "S_IDLE" => call' = call
         /\ state_r # "S_OP" \/ call.num \notin {"OPEN", "CLOSE"} => fd_table' = fd_table
<1> USE DEF layerVars, Completes, Goes
<1>1. CASE state_r = "S_IDLE"
  BY <1>1 DEF LayerStep, Accept, Decode, Op, Complete, PeriphWait, WaitRtos
<1>2. CASE state_r = "S_DECODE"
  BY <1>2 DEF LayerStep, Accept, Decode, Op, Complete, PeriphWait, WaitRtos
<1>3. CASE state_r = "S_PERIPH_WAIT"
  BY <1>3 DEF LayerStep, Accept, Decode, Op, Complete, PeriphWait, WaitRtos
<1>4. CASE state_r = "S_WAIT_RTOS"
  BY <1>4 DEF LayerStep, Accept, Decode, Op, Complete, PeriphWait, WaitRtos
<1>5. CASE state_r = "S_COMPLETE"
  BY <1>5 DEF LayerStep, Accept, Decode, Op, Complete, PeriphWait, WaitRtos
<1>6. CASE state_r = "S_OP"
  <2>1. OpOpen \/ OpClose \/ OpSeek \/ OpDevice \/ OpBadFd \/ OpRtos \/ OpThread(current_tid_r)
    BY <1>6 DEF LayerStep, Accept, Decode, Op, Complete, PeriphWait, WaitRtos
  <2>2. CASE OpOpen \/ OpClose
    BY <1>6, <2>2 DEF OpOpen, OpClose, ToDevice, TimerCalls
  <2>3. CASE OpSeek \/ OpDevice \/ OpBadFd
    BY <1>6, <2>3 DEF OpSeek, OpDevice, OpBadFd, ToDevice, TimerCalls
  <2>4. CASE OpRtos
    BY <1>6, <2>4 DEF OpRtos, Awaited, ToDevice, TimerCalls, MutexCalls, SemCalls, MqCalls
  <2>5. CASE OpThread(current_tid_r)
    BY <1>6, <2>5 DEF OpThread, ToDevice, TimerCalls, ThreadCalls
  <2>6. QED
    BY <2>1, <2>2, <2>3, <2>4, <2>5
<1>7. QED
  BY <1>1, <1>2, <1>3, <1>4, <1>5, <1>6 DEF LayerStates

\* The layer of the system is the layer of PosixLayer: the processor gives it calls, hw_rtos
\* and the bridge give it numbers.
LEMMA LayerStepIsNext ==
  ASSUME RtosInv, AnswerWithSlot, Handshake, LayerStep
  PROVE  [LayerNext]_layerVars
<1>1. CASE UNCHANGED layerVars
  BY <1>1
<1>2. CASE ecall_req /\ Accept(args)
  <2>1. args \in Calls
    BY <1>2 DEF ecall_req, Handshake
  <2>2. QED
    BY <1>2, <2>1 DEF LayerNext
<1>3. CASE Decode \/ Complete
  BY <1>3 DEF LayerNext
<1>4. CASE Op(current_tid_r)
  <2>1. current_tid_r \in Int
    BY TasksAssumption DEF Handshake, Tasks
  <2>2. QED
    BY <1>4, <2>1 DEF LayerNext
<1>5. CASE PeriphWait(0)
  BY <1>5 DEF LayerNext
<1>6. CASE WaitRtos(RtosResult)
  <2>1. RtosResult \in Int
    BY ResultIsNumber DEF RtosInv
  <2>2. PICK v \in Int : WaitRtos(v)
    BY <1>6, <2>1
  <2>3. QED
    BY <2>2 DEF LayerNext
<1>7. QED
  BY <1>1, <1>2, <1>3, <1>4, <1>5, <1>6 DEF LayerStep

\* A program makes calls of the library only, wherever it is and even when it is lost.
LEMMA ProgramCalls ==
  ASSUME ProgramFits
  PROVE  NextCalls \subseteq Calls
<1>1. PICK last \in Nat \ {0} : \A f \in Int : TextFits(Text(prog, f), last)
  BY ProgramsFit DEF ProgramFits
<1>2. \A f \in Int, t \in Seq(Int) : t # <<>> => WriteByte(f, t) \in Calls
  <2> SUFFICES ASSUME NEW f \in Int, NEW t \in Seq(Int), t # <<>> PROVE WriteByte(f, t) \in Calls
    OBVIOUS
  <2>1. Head(t) \in Int /\ "WRITE" \in SysCalls
    BY DEF SysCalls, FileCalls
  <2>2. QED
    BY <2>1, CallsAreCalls DEF WriteByte
<1>3. CASE at = 0
  BY <1>3 DEF NextCalls
<1>4. CASE at = Lost
  <2>1. NextCalls = AnyCall
    BY <1>4 DEF NextCalls, Lost
  <2>2. ASSUME NEW i \in DOMAIN Text(prog, 0) PROVE Makes(Text(prog, 0)[i]) \subseteq Calls
    <3>1. StatementFits(Text(prog, 0)[i], 0 .. last)
      BY <1>1, <2>2 DEF TextFits
    <3>2. PICK s : s = Text(prog, 0)[i] /\ StatementFits(s, 0 .. last)
      BY <3>1
    <3>3. s.text \in Seq(Int) /\ s.calls \subseteq Calls /\ 0 \in Int
      BY <3>2 DEF StatementFits
    <3>4. Makes(s) \subseteq Calls
      BY <1>2, <3>3 DEF Makes
    <3>5. QED
      BY <3>2, <3>4
  <2>3. QED
    BY <2>1, <2>2 DEF AnyCall
<1>5. CASE at \notin {0, Lost}
  <2>1. StatementFits(Here, 0 .. last)
    BY <1>1, <1>5 DEF ProgramFits, TextFits, Here
  <2>2. rest \in Seq(Int) /\ fd \in Int /\ Here.text \in Seq(Int) /\ Here.calls \subseteq Calls
    BY <2>1 DEF ProgramFits, StatementFits
  <2>3. CASE Here.text = <<>>
    BY <1>5, <2>2, <2>3 DEF NextCalls
  <2>4. CASE Here.text # <<>>
    <3> DEFINE t == IF rest = <<>> THEN Here.text ELSE rest
    <3>1. t \in Seq(Int) /\ t # <<>>
      BY <2>2, <2>4
    <3>2. NextCalls = {WriteByte(fd, t)}
      BY <1>5, <2>4 DEF NextCalls
    <3> HIDE DEF t
    <3>3. QED
      BY <1>2, <2>2, <3>1, <3>2
  <2>5. QED
    BY <2>3, <2>4
<1>6. QED
  BY <1>3, <1>4, <1>5

\* ... and goes on at one of its statements, whatever the result.
LEMMA ProgramKept ==
  ASSUME ProgramFits, LayerTypeOK, ProgramStep
  PROVE  ProgramFits'
<1>1. PICK last \in Nat \ {0} : \A f \in Int : TextFits(Text(prog, f), last)
  BY ProgramsFit DEF ProgramFits
<1>2. prog \in PROGRAMS /\ fd \in Int /\ rest \in Seq(Int) /\ result_r \in Int
  BY DEF ProgramFits, LayerTypeOK
<1>3. \A f \in Int : DOMAIN Text(prog, f) = 1 .. last
  BY <1>1 DEF TextFits
<1>4. CASE ctx.state = "RESUME"
  BY <1>2, <1>4 DEF ProgramStep, ProgramFits
<1>5. CASE UNCHANGED programVars
  BY <1>5 DEF programVars, ProgramFits
<1>6. CASE at \notin {0, Lost} /\ Returned(result_r)
  <2> DEFINE left == IF Here.text = <<>> THEN <<>>
                     ELSE LeftToWrite(IF rest = <<>> THEN Here.text ELSE rest, result_r)
  <2>1. at \in DOMAIN Text(prog, fd) /\ at \in 1 .. last
    BY <1>2, <1>3, <1>6 DEF ProgramFits
  <2>2. StatementFits(Here, 0 .. last)
    BY <1>1, <1>2, <2>1 DEF TextFits, Here
  <2>3. left \in Seq(Int)
    <3>1. Here.text \in Seq(Int)
      BY <2>2 DEF StatementFits
    <3> DEFINE t == IF rest = <<>> THEN Here.text ELSE rest
    <3>2. Here.text # <<>> => t \in Seq(Int) /\ t # <<>>
      BY <1>2, <3>1
    <3>3. \A u \in Seq(Int) : u # <<>> => Tail(u) \in Seq(Int)
      OBVIOUS
    <3> HIDE DEF t
    <3>4. left = IF Here.text = <<>> THEN <<>> ELSE LeftToWrite(t, result_r)
      BY DEF t
    <3> HIDE DEF left
    <3>5. QED
      BY <3>2, <3>3, <3>4 DEF LeftToWrite
  <2>4. /\ rest' = left /\ prog' = prog
        /\ fd' = IF Here.fails = "negative" THEN result_r ELSE fd
        /\ at' = IF args.num = "PTHREAD_EXIT" THEN 0
                 ELSE IF left # <<>> THEN at ELSE After(Here, result_r)
    BY <1>6 DEF Returned
  <2> HIDE DEF left
  <2>5. After(Here, result_r) \in 0 .. last
    BY <2>2 DEF After, StatementFits
  <2>6. at' \in 0 .. last
    BY <2>1, <2>4, <2>5
  <2>7. fd' \in Int
    BY <1>2, <2>4
  <2>8. DOMAIN Text(prog', fd') = 1 .. last
    BY <1>3, <2>4, <2>7
  <2>9. at' = 0 \/ at' \in 1 .. last
    BY <2>6
  <2>10. QED
    BY <1>2, <2>3, <2>4, <2>7, <2>8, <2>9 DEF ProgramFits
<1>7. QED
  BY <1>4, <1>5, <1>6 DEF ProgramStep, Returned

\* hw_rtos behind the layer: what is proved of an edge with any request holds of this one.
LEMMA RtosKept ==
  ASSUME RtosInv, LayerTypeOK, Clock
  PROVE  RtosInv' /\ AnswerWithSlot'
<1>1. PICK req \in AllRequests, tick \in BOOLEAN : \E ports :
        /\ ports.prios \subseteq Prios /\ ports.targets \subseteq Tasks
        /\ ports.counts \subseteq Sem!Counts
        /\ Edge(req, ports, tick, FALSE) /\ ctx_switch_ack' \in BOOLEAN
  BY ClockIsEdge
<1>2. PICK ports :
        /\ ports.prios \subseteq Prios /\ ports.targets \subseteq Tasks
        /\ ports.counts \subseteq Sem!Counts
        /\ Edge(req, ports, tick, FALSE) /\ ctx_switch_ack' \in BOOLEAN
  BY <1>1
<1>3. RtosInv'
  <2>1. FALSE \in BOOLEAN
    OBVIOUS
  <2>2. QED
    BY <1>2, <2>1, EdgeKeepsInv
<1>4. AnswerWithSlot'
  <2>1. Typed /\ Fsm(req, ports)
    BY <1>2 DEF RtosInv, Edge
  <2>2. QED
    BY <2>1, CreationAnswered
<1>5. QED
  BY <1>3, <1>4

\* The processor latches a call, waits in WAIT for the layer to be done with it, and is out
\* of WAIT before it can make the next one.
LEMMA HandshakeKept ==
  ASSUME RtosInv, LayerTypeOK, ProgramFits, Handshake, SysStep, LayerStep, TidStep
  PROVE  Handshake'
<1>1. /\ sys_state' \in SysStates
      /\ sys_state' # "IDLE" => args' \in Calls
      /\ sys_state = "WAIT" => args' = args /\ sys_state' = IF syscall_done THEN "WRITEBACK" ELSE "WAIT"
  <2>1. CASE \E c \in NextCalls : Ecall(c)
    BY <2>1, ProgramCalls DEF Ecall, SysStates
  <2>2. CASE ~\E c \in NextCalls : Ecall(c)
    <3>1. /\ args' = args
          /\ \/ sys_state = "IDLE" /\ UNCHANGED sys_state
             \/ sys_state \in DOMAIN Reading /\ sys_state' = Reading[sys_state]
             \/ sys_state = "WAIT" /\ sys_state' = IF syscall_done THEN "WRITEBACK" ELSE "WAIT"
             \/ sys_state = "WRITEBACK" /\ sys_state' = "IDLE"
      BY <2>2 DEF SysStep
    <3>2. /\ DOMAIN Reading = {"READ_A7", "READ_A0", "READ_A1", "READ_A2"}
          /\ \A s \in DOMAIN Reading : Reading[s] \in SysStates
      BY DEF Reading, SysStates
    <3>3. QED
      BY <3>1, <3>2 DEF Handshake, SysStates
  <2>3. QED
    BY <2>1, <2>2 DEF SysStep
<1>2. current_tid_r' \in Tasks
  BY DEF TidStep, RtosInv, Typed, RtosTypeOK
<1>3. state_r' # "S_IDLE" => sys_state' = "WAIT" /\ call' = args'
  <2>1. state_r \in LayerStates
    BY DEF LayerTypeOK
  <2>2. CASE state_r = "S_IDLE"
    BY <1>1, <2>1, <2>2, LayerMoves DEF ecall_req, syscall_done
  <2>3. CASE state_r # "S_IDLE"
    BY <1>1, <2>1, <2>3, LayerMoves DEF Handshake, syscall_done
  <2>4. QED
    BY <2>2, <2>3
<1>4. QED
  BY <1>1, <1>2, <1>3 DEF Handshake

\* The system-call state machine, as far as the count of accesses goes.
LEMMA CallMoves ==
  ASSUME SysStep
  PROVE  /\ sys_state = "WAIT" => /\ args' = args
                                  /\ sys_state' = IF syscall_done THEN "WRITEBACK" ELSE "WAIT"
         /\ sys_state' = "WRITEBACK" => sys_state = "WAIT"
         /\ sys_state \in {"IDLE", "WRITEBACK"} => sys_state' \in {"IDLE", "READ_A7"}
         /\ sys_state = "WRITEBACK" => sys_state' = "IDLE"
<1>1. DOMAIN Reading = {"READ_A7", "READ_A0", "READ_A1", "READ_A2"}
  BY DEF Reading
<1>2. \A s \in DOMAIN Reading : Reading[s] # "WRITEBACK"
  BY DEF Reading
<1>3. QED
  BY <1>1, <1>2 DEF SysStep, Ecall

\* An access begins in S_OP, and takes three edges of which one reaches the device.
LEMMA BridgeMoves ==
  ASSUME periph_state \in {"IDLE", "SETUP", "ACCESS", "DONE"}, BridgeStep
  PROVE  /\ periph_state = "IDLE" =>
              periph_state' = IF state_r = "S_OP" /\ ToDevice THEN "SETUP" ELSE "IDLE"
         /\ periph_state = "SETUP" => periph_state' = "ACCESS"
         /\ periph_state = "ACCESS" => periph_state' = "DONE"
         /\ periph_state = "DONE" => periph_state' = "IDLE"
<1>1. ASSUME state_r = "S_OP", ToDevice PROVE PeriphPort.kind \in {"read", "write"}
  <2>1. call.num \in {"CLOCK_GETTIME", "NANOSLEEP", "READ", "WRITE", "IOCTL"}
    BY <1>1 DEF ToDevice, TimerCalls
  <2>2. QED
    BY <1>1, <2>1 DEF PeriphPort, TimerCalls
<1>2. ~(state_r = "S_OP" /\ ToDevice) => PeriphPort = NoAccess
  BY DEF PeriphPort
<1>3. NoAccess.kind = "none"
  BY DEF NoAccess
<1>4. PeriphPort = NoAccess <=> ~(state_r = "S_OP" /\ ToDevice)
  BY <1>1, <1>2, <1>3
<1>5. QED
  BY <1>4 DEF BridgeStep

\* The access is made once: it starts with the wait of the layer, ends with it, and the
\* count is back at zero before the next call can start one.
LEMMA BridgeKept ==
  ASSUME LayerTypeOK, Handshake, Bridged, SysStep, LayerStep, BridgeStep, HistoryStep
  PROVE  Bridged'
<1> DEFINE called == sys_state = "IDLE" /\ sys_state' # "IDLE"
<1>1. /\ state_r \in LayerStates
      /\ periph_state \in {"IDLE", "SETUP", "ACCESS", "DONE"} /\ accesses \in {0, 1}
      /\ state_r # "S_IDLE" => sys_state = "WAIT" /\ call = args
  BY DEF LayerTypeOK, Handshake, Bridged
<1>2. accesses' = IF called THEN 0 ELSE UpTo2(accesses + (IF periph_state = "ACCESS" THEN 1 ELSE 0))
  BY DEF HistoryStep
<1>3. /\ periph_state = "ACCESS" /\ accesses = 0 /\ ~called => accesses' = 1
      /\ periph_state # "ACCESS" /\ ~called => accesses' = accesses
      /\ called => accesses' = 0
  BY <1>1, <1>2 DEF UpTo2
<1>4. \A c : ForDevice(c) <=> \/ c.num \in {"CLOCK_GETTIME", "NANOSLEEP"}
                              \/ c.num \in {"READ", "WRITE", "IOCTL"} /\ IsOpen(c.a0)
  BY DEF ForDevice, IsOpen
<1>5. ToDevice <=> ForDevice(call)
  BY <1>4 DEF ToDevice, TimerCalls
<1>6. fd_table' = fd_table => (ForDevice(call)' <=> ForDevice(call')) /\ (ForDevice(args)' <=> ForDevice(args'))
  BY DEF ForDevice
<1>7. CASE state_r = "S_IDLE"
  <2>1. /\ state_r' \in {"S_IDLE", "S_DECODE"} /\ fd_table' = fd_table
        /\ periph_state = "IDLE" /\ periph_state' = "IDLE"
    BY <1>1, <1>7, LayerMoves, BridgeMoves DEF Bridged
  <2>2. sys_state' # "WRITEBACK"
    BY <1>7, CallMoves DEF syscall_done
  <2>3. sys_state' # "IDLE" => accesses' = 0
    BY <1>3, <1>7, <2>1, CallMoves DEF Bridged
  <2>4. accesses' \in {0, 1}
    BY <1>1, <1>3, <2>1
  <2>5. QED
    BY <2>1, <2>2, <2>3, <2>4 DEF Bridged
<1>8. CASE state_r # "S_IDLE"
  <2>1. /\ sys_state = "WAIT" /\ call = args /\ args' = args /\ call' = call /\ ~called
        /\ sys_state' = IF state_r = "S_COMPLETE" THEN "WRITEBACK" ELSE "WAIT"
    BY <1>1, <1>8, LayerMoves, CallMoves DEF syscall_done
  <2> HIDE DEF called
  <2>2. CASE state_r = "S_DECODE"
    <3>1. state_r' = "S_OP" /\ periph_state = "IDLE" /\ periph_state' = "IDLE" /\ accesses' = 0
      BY <1>1, <1>3, <2>1, <2>2, LayerMoves, BridgeMoves DEF Bridged
    <3>2. QED
      BY <2>1, <2>2, <3>1 DEF Bridged
  <2>3. CASE state_r = "S_OP"
    <3>1. periph_state = "IDLE" /\ accesses = 0 /\ accesses' = 0
      BY <1>3, <2>1, <2>3 DEF Bridged
    <3>2. CASE ToDevice
      <4>1. /\ state_r' = "S_PERIPH_WAIT" /\ periph_state' = "SETUP" /\ fd_table' = fd_table
            /\ ForDevice(call)
        BY <1>1, <1>5, <2>3, <3>1, <3>2, LayerMoves, BridgeMoves
      <4>2. ForDevice(call)'
        BY <1>6, <2>1, <4>1
      <4>3. QED
        BY <2>1, <2>3, <3>1, <4>1, <4>2 DEF Bridged
    <3>3. CASE ~ToDevice
      <4>1. state_r' \in {"S_COMPLETE", "S_WAIT_RTOS"} /\ periph_state' = "IDLE"
        BY <1>1, <2>3, <3>1, <3>3, LayerMoves, BridgeMoves
      <4>2. ~ForDevice(call)' /\ ~ForDevice(args)'
        <5>1. CASE call.num \in {"OPEN", "CLOSE"}
          BY <2>1, <5>1 DEF ForDevice
        <5>2. CASE call.num \notin {"OPEN", "CLOSE"}
          BY <1>1, <1>5, <1>6, <2>1, <3>3, <5>2, LayerMoves
        <5>3. QED
          BY <5>1, <5>2
      <4>3. QED
        BY <2>1, <2>3, <3>1, <4>1, <4>2 DEF Bridged
    <3>4. QED
      BY <3>2, <3>3
  <2>4. CASE state_r = "S_PERIPH_WAIT"
    <3>1. /\ periph_state \in {"SETUP", "ACCESS", "DONE"} /\ ForDevice(call)
          /\ accesses = IF periph_state = "DONE" THEN 1 ELSE 0
          /\ fd_table' = fd_table
      BY <1>1, <2>1, <2>4, LayerMoves DEF Bridged
    <3>2. ForDevice(call)' /\ ForDevice(args)'
      BY <1>6, <2>1, <3>1
    <3>3. /\ state_r' = IF periph_state = "DONE" THEN "S_COMPLETE" ELSE "S_PERIPH_WAIT"
          /\ periph_state = "SETUP" => periph_state' = "ACCESS"
          /\ periph_state = "ACCESS" => periph_state' = "DONE"
          /\ periph_state = "DONE" => periph_state' = "IDLE"
      BY <1>1, <2>4, LayerMoves, BridgeMoves
    <3>4. accesses' = IF periph_state \in {"ACCESS", "DONE"} THEN 1 ELSE 0
      BY <1>3, <2>1, <3>1
    <3>5. QED
      BY <2>1, <2>4, <3>1, <3>2, <3>3, <3>4 DEF Bridged
  <2>5. CASE state_r = "S_WAIT_RTOS"
    <3>1. /\ state_r' \in {"S_WAIT_RTOS", "S_COMPLETE"} /\ fd_table' = fd_table
          /\ periph_state = "IDLE" /\ periph_state' = "IDLE" /\ accesses' = 0 /\ ~ForDevice(call)
      BY <1>1, <1>3, <2>1, <2>5, LayerMoves, BridgeMoves DEF Bridged
    <3>2. ~ForDevice(call)' /\ ~ForDevice(args)'
      BY <1>6, <2>1, <3>1
    <3>3. QED
      BY <2>1, <2>5, <3>1, <3>2 DEF Bridged
  <2>6. CASE state_r = "S_COMPLETE"
    <3>1. /\ state_r' = "S_IDLE" /\ fd_table' = fd_table /\ sys_state' = "WRITEBACK"
          /\ periph_state = "IDLE" /\ periph_state' = "IDLE"
          /\ accesses = (IF ForDevice(args) THEN 1 ELSE 0) /\ accesses' = accesses
      BY <1>1, <1>3, <2>1, <2>6, LayerMoves, BridgeMoves DEF Bridged
    <3>2. ForDevice(args)' <=> ForDevice(args)
      BY <1>6, <2>1, <3>1
    <3>3. QED
      BY <3>1, <3>2 DEF Bridged
  <2>7. QED
    BY <1>1, <1>8, <2>2, <2>3, <2>4, <2>5, <2>6 DEF LayerStates
<1>9. QED
  BY <1>7, <1>8

LEMMA SysInitInv == SysInit => SysInv
<1> SUFFICES ASSUME SysInit PROVE SysInv
  OBVIOUS
<1> USE DEF SysInit
<1>1. RtosInv
  BY InitInv
<1>2. AnswerWithSlot
  BY DEF Init, AnswerWithSlot, NoAnswer, Answer
<1>3. LayerIInv
  BY InitIInv
<1>4. ProgramFits
  <2>1. PICK last \in Nat \ {0} : \A f \in Int : TextFits(Text(prog, f), last)
    BY ProgramsFit
  <2>2. 1 \in DOMAIN Text(prog, 0)
    BY <2>1 DEF TextFits
  <2>3. QED
    BY <2>2 DEF ProgramFits
<1>5. Handshake
  BY TasksAssumption DEF LayerInit, Handshake, SysStates, Tasks
<1>6. Bridged
  BY DEF LayerInit, Bridged
<1>7. QED
  BY <1>1, <1>2, <1>3, <1>4, <1>5, <1>6 DEF SysInv

\* The UART's transmitter disturbs nothing of it.
LEMMA QuietKeepsSysInv ==
  ASSUME SysInv,
         UNCHANGED <<vars, layerVars, programVars, coreVars, current_tid_r, busVars, accesses>>
  PROVE  SysInv'
<1>1. RtosInv'
  BY StutterKeepsInv DEF SysInv
<1>2. UNCHANGED <<done, writes, fd_table, call, state_r>>
  BY DEF vars, layerVars
<1>3. AnswerWithSlot'
  BY <1>2 DEF SysInv, AnswerWithSlot
<1>4. LayerIInv'
  BY NextIInv DEF SysInv
<1>5. ProgramFits'
  BY DEF SysInv, ProgramFits, programVars
<1>6. Handshake'
  BY <1>2 DEF SysInv, Handshake, coreVars
<1>7. Bridged'
  BY <1>2 DEF SysInv, Bridged, ForDevice, coreVars, busVars
<1>8. QED
  BY <1>1, <1>3, <1>4, <1>5, <1>6, <1>7 DEF SysInv

LEMMA ClockKeepsSysInv ==
  ASSUME SysInv, Clock
  PROVE  SysInv'
<1>1. LayerTypeOK
  BY DEF SysInv, LayerIInv
<1>2. SysStep /\ LayerStep /\ TidStep /\ ProgramStep /\ BridgeStep /\ HistoryStep
  BY DEF Clock
<1>3. RtosInv' /\ AnswerWithSlot'
  BY <1>1, RtosKept DEF SysInv
<1>4. LayerIInv'
  BY <1>2, LayerStepIsNext, NextIInv DEF SysInv
<1>5. ProgramFits'
  BY <1>1, <1>2, ProgramKept DEF SysInv
<1>6. Handshake'
  BY <1>1, <1>2, HandshakeKept DEF SysInv
<1>7. Bridged'
  BY <1>1, <1>2, BridgeKept DEF SysInv
<1>8. QED
  BY <1>3, <1>4, <1>5, <1>6, <1>7 DEF SysInv

\* The invariant of the system: program, processor, layer, bridge and RTOS together.
THEOREM SystemInvariant == SysSpec => []SysInv
<1>1. SysInv /\ [SysNext]_sysVars => SysInv'
  <2> SUFFICES ASSUME SysInv, [SysNext]_sysVars PROVE SysInv'
    OBVIOUS
  <2>1. CASE Clock
    BY <2>1, ClockKeepsSysInv
  <2>2. CASE Transmit
    BY <2>2, QuietKeepsSysInv DEF Transmit
  <2>3. CASE UNCHANGED sysVars
    BY <2>3, QuietKeepsSysInv DEF sysVars, history
  <2>4. QED
    BY <2>1, <2>2, <2>3 DEF SysNext
<1>2. QED
  BY SysInitInv, <1>1, PTL DEF SysSpec

\* The layer between a real program, processor, bridge and RTOS is the layer of PosixLayer,
\* and its theorems hold there.
THEOREM SystemRunsLayer == SysSpec => LayerSpec
<1>1. SysInit => LayerInit
  BY DEF SysInit
<1>2. SysInv /\ [SysNext]_sysVars => [LayerNext]_layerVars
  <2> SUFFICES ASSUME SysInv, [SysNext]_sysVars PROVE [LayerNext]_layerVars
    OBVIOUS
  <2>1. CASE Clock
    BY <2>1, LayerStepIsNext DEF SysInv, Clock
  <2>2. CASE Transmit \/ UNCHANGED sysVars
    BY <2>2 DEF Transmit, sysVars
  <2>3. QED
    BY <2>1, <2>2 DEF SysNext
<1>3. QED
  BY SystemInvariant, <1>1, <1>2, PTL DEF SysSpec, LayerSpec

\* Of every program, with hw_rtos and the devices it has: a descriptor stays with whom open
\* returned it until its close succeeds (the descriptor table, in the whole system).
THEOREM SystemHoldsDescriptors == SysSpec => []HeldDescriptors
  BY SystemRunsLayer, DescriptorsAreHeld, PTL

\* A system call for a device accesses it once and any other not at all, for every program
\* and any calls: the layer's one-edge request, the bridge's four states and the layer's
\* wait keep step, whatever hw_rtos and the context switches do meanwhile.
THEOREM CallsAccessOnce == SysSpec => []OneAccessPerCall
<1>1. SysInv => OneAccessPerCall
  <2> SUFFICES ASSUME SysInv PROVE OneAccessPerCall
    OBVIOUS
  <2>1. accesses \in {0, 1}
    BY DEF SysInv, Bridged
  <2>2. sys_state = "WRITEBACK" => accesses = IF ForDevice(args) THEN 1 ELSE 0
    BY DEF SysInv, Bridged
  <2>3. QED
    BY <2>1, <2>2 DEF OneAccessPerCall
<1>2. QED
  BY SystemInvariant, <1>1, PTL

\* hw_rtos keeps its promises behind the layer too, which holds its requests for as long as
\* it waits: one task believes it runs, and until a loan is written it is a most urgent one.
THEOREM RtosBehindLayer == SysSpec => [](RtosTypeOK /\ OnlyCurrentRuns /\ MostUrgentRuns)
<1>1. SysInv => RtosTypeOK /\ OnlyCurrentRuns /\ MostUrgentRuns
  BY InvOneRuns, InvMostUrgent DEF SysInv, RtosInv, Typed
<1>2. QED
  BY SystemInvariant, <1>1, PTL

\* However often a held request creates, each creation takes a slot that is free.
THEOREM CreationsBehindLayer == SysSpec => CreationTakesFreeSlot
<1>1. SysInv => \A t \in DOMAIN writes.create : ~tcb_valid[t]
  BY DEF SysInv, RtosInv, Pulsed
<1>2. QED
  BY SystemInvariant, <1>1, PTL DEF CreationTakesFreeSlot

\* The semaphores, mutexes and queues keep the contracts they were proved under in the
\* whole system: what the layer sends them, they are made for.
THEOREM UnitsInTheSystem == SysSpec => Sem!Spec /\ Mtx!Spec /\ Msgq!Spec
<1>1. SysInit => Sem!Init /\ Mtx!Init /\ Msgq!MsgqInit
  <2>1. SysInit => tcb_prio \in [Tasks -> Prios]
    BY InitTyped DEF SysInit, Typed, RtosTypeOK, TcbTypeOK
  <2>2. QED
    BY <2>1 DEF SysInit, Init, Sem!Init, Mtx!Init, Sem!Tasks, Mtx!Tasks, Tasks, Sem!Prios, Mtx!Prios, Prios
<1>2. SysInv /\ [SysNext]_sysVars /\ SysInv' =>
        [Sem!Next]_(Sem!semVars) /\ [Mtx!Next]_(Mtx!mutexVars) /\ [Msgq!Next]_(Msgq!msgqVars)
  <2> SUFFICES ASSUME SysInv, [SysNext]_sysVars, SysInv'
               PROVE  [Sem!Next]_(Sem!semVars) /\ [Mtx!Next]_(Mtx!mutexVars) /\ [Msgq!Next]_(Msgq!msgqVars)
    OBVIOUS
  <2>1. CASE Clock
    <3>1. LayerTypeOK /\ Typed /\ TcbTypeOK'
      BY DEF SysInv, LayerIInv, RtosInv, Typed, RtosTypeOK
    <3>2. PICK req \in AllRequests, tick \in BOOLEAN : \E ports :
            /\ ports.prios \subseteq Prios /\ ports.targets \subseteq Tasks
            /\ ports.counts \subseteq Sem!Counts
            /\ Edge(req, ports, tick, FALSE) /\ ctx_switch_ack' \in BOOLEAN
      BY <2>1, <3>1, ClockIsEdge
    <3>3. PICK ports : ports.counts \subseteq Sem!Counts /\ Edge(req, ports, tick, FALSE)
      BY <3>2
    <3>4. PICK counts \in SUBSET Sem!Counts : SemStep(counts)
      BY <3>3 DEF Edge
    <3>5. MutexStep /\ MsgqStep
      BY <3>3 DEF Edge
    <3>6. QED
      BY <3>1, <3>4, <3>5, EdgeOfSem, EdgeOfMutex, EdgeOfMsgq
  <2>2. CASE Transmit \/ UNCHANGED sysVars
    <3>1. UNCHANGED vars
      BY <2>2 DEF Transmit, sysVars
    <3>2. QED
      BY <3>1 DEF vars, unitVars, tcbVars, Sem!semVars, Mtx!mutexVars, Msgq!msgqVars
  <2>3. QED
    BY <2>1, <2>2 DEF SysNext
<1>3. QED
  BY SystemInvariant, <1>1, <1>2, PTL DEF SysSpec, Sem!Spec, Mtx!Spec, Msgq!Spec
=============================================================================
