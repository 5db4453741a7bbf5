----------------------------- MODULE PosixLayer -----------------------------
(***************************************************************************)
(* rtl/posix/posix_hw_layer.sv: the state machine that carries out system  *)
(* calls and the table of file descriptors, for the calls the C library    *)
(* makes (sw/lib/vsync_posix.h).  One step is one rising clock edge.       *)
(*                                                                         *)
(* The states S_THREAD_OP .. S_FILE_OP are one state, S_OP, with the       *)
(* category of the latched call.  A descriptor's base address is that of   *)
(* its type.  Its flags, which nothing reads, are left out.                *)
(***************************************************************************)
EXTENDS Integers

CONSTANT MAX_FD

ASSUME LayerAssumption == MAX_FD \in Nat /\ MAX_FD > 3

VARIABLES state_r, call, result_r,
          fd_table,   \* fd_valid with fd_type_r: Closed or the type
          held        \* history: what open returned and close did not take back
layerVars == <<state_r, call, result_r, fd_table, held>>

\* The numbers of the system calls, by category (bits 7:4).
ThreadCalls == {"PTHREAD_CREATE", "PTHREAD_EXIT", "PTHREAD_JOIN", "PTHREAD_DETACH",
                "PTHREAD_SELF", "PTHREAD_YIELD"}
MutexCalls == {"MUTEX_INIT", "MUTEX_LOCK", "MUTEX_TRYLOCK", "MUTEX_UNLOCK", "MUTEX_DESTROY"}
SemCalls   == {"SEM_INIT", "SEM_WAIT", "SEM_TRYWAIT", "SEM_POST", "SEM_GETVALUE", "SEM_DESTROY"}
MqCalls    == {"MQ_OPEN", "MQ_SEND", "MQ_RECEIVE", "MQ_CLOSE"}
TimerCalls == {"CLOCK_GETTIME", "NANOSLEEP"}
FileCalls  == {"OPEN", "CLOSE", "READ", "WRITE", "IOCTL", "LSEEK"}
SysCalls   == ThreadCalls \cup MutexCalls \cup SemCalls \cup MqCalls \cup TimerCalls \cup FileCalls

\* The contents of a7, a0, a1 and a2 at an ecall; a3 does not reach the layer.
Syscall(num, a0, a1, a2) == [num |-> num, a0 |-> a0, a1 |-> a1, a2 |-> a2]
Calls == [num : SysCalls, a0 : Int, a1 : Int, a2 : Int]
NoCall == Syscall("none", 0, 0, 0)

EPERM  == -1
ENOENT == -2
EBADF  == -9
EAGAIN == -11
EBUSY  == -16
EINVAL == -22
EMFILE == -28
ESPIPE == -29

\* Device types; 5, 6 and 7 are none.
Types == 0..7
FD_TYPE_UART == 1
FD_TYPE_GPIO == 2
FD_TYPE_MEM  == 3
Closed == -1

Fds == 0..(MAX_FD - 1)
Standard == [fd \in Fds |-> IF fd < 3 THEN FD_TYPE_UART ELSE Closed]
IsOpen(fd) == fd \in Fds /\ fd_table[fd] # Closed

FreeFds == {fd \in 3..(MAX_FD - 1) : fd_table[fd] = Closed}
FreeFdAny == CHOOSE fd \in 3..(MAX_FD - 1) : TRUE   \* faulty
FreeFd == CHOOSE fd \in FreeFds : \A g \in FreeFds : fd <= g

LayerStates == {"S_IDLE", "S_DECODE", "S_OP", "S_PERIPH_WAIT", "S_WAIT_RTOS", "S_COMPLETE"}

LayerInit ==
  /\ state_r = "S_IDLE" /\ call = NoCall /\ result_r = 0
  /\ fd_table = Standard /\ held = Standard
-----------------------------------------------------------------------------
Goes(state, result) == state_r' = state /\ result_r' = result /\ UNCHANGED <<call, held>>
Completes(result) == Goes("S_COMPLETE", result)

\* S_IDLE: latch the call of the processor; S_DECODE.
Accept(c) == /\ state_r = "S_IDLE"
             /\ state_r' = "S_DECODE" /\ call' = c
             /\ UNCHANGED <<result_r, fd_table, held>>
Decode == state_r = "S_DECODE" /\ Goes("S_OP", 0) /\ UNCHANGED fd_table

\* S_FILE_OP.  An open with an invalid type takes the descriptor all the same.
OpOpen ==
  /\ call.num = "OPEN"
  /\ LET type == call.a0 % 8
     IN  \/ FreeFds = {} /\ UNCHANGED fd_table /\ Completes(IF type < 5 THEN EMFILE ELSE ENOENT)
         \/ /\ FreeFds # {} /\ fd_table' = [fd_table EXCEPT ![FreeFd] = type]
            /\ Completes(IF type < 5 THEN FreeFd ELSE ENOENT)

OpClose ==
  /\ call.num = "CLOSE"
  /\ \/ ~IsOpen(call.a0) /\ UNCHANGED fd_table /\ Completes(EBADF)
     \/ IsOpen(call.a0) /\ call.a0 <= 2 /\ UNCHANGED fd_table /\ Completes(EPERM)
     \/ /\ IsOpen(call.a0) /\ call.a0 > 2
        /\ fd_table' = [fd_table EXCEPT ![call.a0] = Closed] /\ Completes(0)

OpSeek ==
  /\ call.num = "LSEEK" /\ UNCHANGED fd_table
  /\ \/ ~IsOpen(call.a0) /\ Completes(EBADF)
     \/ IsOpen(call.a0) /\ fd_table[call.a0] # FD_TYPE_MEM /\ Completes(ESPIPE)
     \/ IsOpen(call.a0) /\ fd_table[call.a0] = FD_TYPE_MEM /\ Completes(call.a1)

\* Calls that go through to a device: read, write and ioctl of an open
\* descriptor, and the timer.
ToDeviceUnchecked ==  \* faulty
  call.num \in TimerCalls \/ (call.num \in {"READ", "WRITE", "IOCTL"} /\ call.a0 \in Fds)
ToDevice == call.num \in TimerCalls \/ (call.num \in {"READ", "WRITE", "IOCTL"} /\ IsOpen(call.a0))
OpDevice == ToDevice /\ Goes("S_PERIPH_WAIT", 0) /\ UNCHANGED fd_table
OpBadFd  == /\ call.num \in {"READ", "WRITE", "IOCTL"} /\ ~IsOpen(call.a0)
            /\ Completes(EBADF) /\ UNCHANGED fd_table

\* Calls that hw_rtos answers; exit and yield are put to it for this edge only.
AwaitedDetach ==  \* faulty
  MutexCalls \cup SemCalls \cup MqCalls \cup {"PTHREAD_CREATE", "PTHREAD_JOIN", "PTHREAD_DETACH"}
Awaited == MutexCalls \cup SemCalls \cup MqCalls \cup {"PTHREAD_CREATE", "PTHREAD_JOIN"}
OpRtos == call.num \in Awaited /\ Goes("S_WAIT_RTOS", 0) /\ UNCHANGED fd_table
OpThread(tid) ==
  /\ call.num \in ThreadCalls \ Awaited
  /\ Completes(IF call.num = "PTHREAD_SELF" THEN tid ELSE 0) /\ UNCHANGED fd_table

Op(tid) == /\ state_r = "S_OP"
           /\ OpOpen \/ OpClose \/ OpSeek \/ OpDevice \/ OpBadFd \/ OpRtos \/ OpThread(tid)

\* S_PERIPH_WAIT: the result is the read data, of every call.
PeriphWait(rdata) == state_r = "S_PERIPH_WAIT" /\ Completes(rdata) /\ UNCHANGED fd_table
WaitRtos(result) == state_r = "S_WAIT_RTOS" /\ Completes(result) /\ UNCHANGED fd_table

\* S_COMPLETE: syscall_done.
Complete ==
  /\ state_r = "S_COMPLETE"
  /\ state_r' = "S_IDLE"
  /\ held' = IF call.num = "OPEN" /\ result_r >= 0 THEN [held EXCEPT ![result_r] = call.a0 % 8]
             ELSE IF call.num = "CLOSE" /\ result_r = 0 THEN [held EXCEPT ![call.a0] = Closed]
             ELSE held
  /\ UNCHANGED <<call, result_r, fd_table>>

\* The layer with any processor, RTOS and peripherals around it.
LayerNext ==
  \/ \E c \in Calls : Accept(c)
  \/ Decode \/ Complete
  \/ \E v \in Int : Op(v) \/ PeriphWait(v) \/ WaitRtos(v)

LayerSpec == LayerInit /\ [][LayerNext]_layerVars
-----------------------------------------------------------------------------
\* What the layer asks of the others at an edge, from its registers alone.
syscall_done == state_r = "S_COMPLETE"
Asking == state_r \in {"S_OP", "S_WAIT_RTOS"}

\* periph_read and periph_write with address and data: an offset of a device type
\* ("CLINT" for the counter).
NoAccess == [kind |-> "none", type |-> Closed, offset |-> 0, data |-> 0]
PeriphPort ==
  IF state_r # "S_OP" \/ ~ToDevice THEN NoAccess
  ELSE CASE call.num \in TimerCalls -> [kind |-> "read", type |-> Closed, offset |-> 0, data |-> 0]
         [] call.num = "READ" ->
              [kind |-> "read", type |-> fd_table[call.a0],
               offset |-> IF fd_table[call.a0] = FD_TYPE_UART THEN 4 ELSE 0, data |-> 0]
         [] call.num = "WRITE" ->
              [kind |-> "write", type |-> fd_table[call.a0], offset |-> 0, data |-> call.a1]
         [] call.num = "IOCTL" ->
              [kind |-> "write", type |-> fd_table[call.a0], offset |-> call.a1, data |-> call.a2]
-----------------------------------------------------------------------------
LayerTypeOK ==
  /\ state_r \in LayerStates /\ call \in Calls \cup {NoCall} /\ result_r \in Int
  /\ state_r # "S_IDLE" => call \in Calls
  /\ fd_table \in [Fds -> Types \cup {Closed}] /\ held \in [Fds -> Types \cup {Closed}]

\* A descriptor belongs to whom open returned it until a close of it succeeds: it
\* stays on its device, nobody else's open returns it, and close takes back no
\* other (the table of posix_hw_layer against the answers the callers saw).
Closing(fd) == state_r = "S_COMPLETE" /\ call.num = "CLOSE" /\ result_r = 0 /\ call.a0 = fd
HeldStayOpen == \A fd \in Fds : held[fd] # Closed /\ ~Closing(fd) => fd_table[fd] = held[fd]
NewIsFresh ==
  state_r = "S_COMPLETE" /\ call.num = "OPEN" /\ result_r >= 0 =>
    result_r \in Fds /\ held[result_r] = Closed /\ fd_table[result_r] = call.a0 % 8
HeldDescriptors == HeldStayOpen /\ NewIsFresh
=============================================================================
