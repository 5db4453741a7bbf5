----------------------------- MODULE HwMsgQueue -----------------------------
(***************************************************************************)
(* rtl/rtos/hw_msgqueue.sv: NUM_QUEUES ring buffers of QUEUE_DEPTH messages *)
(* with a wait mask for senders and one for receivers.  One step is one     *)
(* rising clock edge with the operation, queue, message and task on the     *)
(* input ports.                                                             *)
(***************************************************************************)
EXTENDS RtosTasks, Sequences

CONSTANTS NUM_QUEUES, QUEUE_DEPTH,
          MSG_MAX   \* messages are 0 .. MSG_MAX, 2^MSG_WIDTH - 1 in the source

ASSUME MsgqAssumption == /\ NUM_QUEUES \in Nat \ {0}
                         /\ QUEUE_DEPTH \in Nat \ {0}
                         /\ MSG_MAX \in Nat

Queues == 0 .. NUM_QUEUES - 1
Slots  == 0 .. QUEUE_DEPTH - 1
Msgs   == 0 .. MSG_MAX

VARIABLES fifo_mem,     \* the ring buffers
          wr_ptr_r,     \* where the next message is written
          rd_ptr_r,     \* where the next message is read
          msg_count_r,  \* count_r: messages held
          send_wait_r,  \* tasks waiting for space
          recv_wait_r,  \* tasks waiting for a message
          msgq_out      \* output registers

msgqState == <<fifo_mem, wr_ptr_r, rd_ptr_r, msg_count_r, send_wait_r, recv_wait_r>>
msgqVars  == <<fifo_mem, wr_ptr_r, rd_ptr_r, msg_count_r, send_wait_r, recv_wait_r, msgq_out>>

\* Faulty variants of the helpers below, each a slip this code could contain:
\* the model check of each property is shown to notice one of them.
FullOneLate(q)            == msg_count_r[q] = QUEUE_DEPTH + 1
NextSlotWrapsEarly(i)     == IF i >= QUEUE_DEPTH - 2 THEN 0 ELSE i + 1
NextSlotNeverWraps(i)     == i + 1

\* The wake port: the first waiter, if there is one, and the mask without it.
WakePort(waiters) == IF waiters = {} THEN NoTask ELSE FirstWaiter(waiters)
AfterWake(mask)   == IF mask = {} THEN {} ELSE mask \ {FirstWaiter(mask)}

queue_full(q)  == msg_count_r[q] = QUEUE_DEPTH
queue_empty(q) == msg_count_r[q] = 0

\* Where a pointer goes next.
NextSlot(i) == IF i = QUEUE_DEPTH - 1 THEN 0 ELSE i + 1

\* The outputs of an edge.  "data" is msg_data_out, <<>> when it is deasserted.
MsgqIdle  == [success |-> FALSE, block |-> FALSE, data |-> <<>>, wake |-> NoTask]
MsgqBlock == [success |-> FALSE, block |-> TRUE, data |-> <<>>, wake |-> NoTask]
MsgqSuccess(data, waiters) ==
  [success |-> TRUE, block |-> FALSE, data |-> data, wake |-> WakePort(waiters)]

MsgqInit ==
  /\ fifo_mem    = [q \in Queues |-> [i \in Slots |-> 0]]
  /\ wr_ptr_r    = [q \in Queues |-> 0]
  /\ rd_ptr_r    = [q \in Queues |-> 0]
  /\ msg_count_r = [q \in Queues |-> 0]
  /\ send_wait_r = [q \in Queues |-> {}]
  /\ recv_wait_r = [q \in Queues |-> {}]
  /\ msgq_out    = MsgqIdle

\* No operation, and the encoding 2'b11 that the case statement does not list.
MsgqNop == msgq_out' = MsgqIdle /\ UNCHANGED msgqState

\* A faulty variant: wake a receiver only when the queue was empty.
MsgqSendStoreWakesOnEmpty(q, d) ==
  /\ ~queue_full(q)
  /\ fifo_mem'    = [fifo_mem EXCEPT ![q][wr_ptr_r[q]] = d]
  /\ wr_ptr_r'    = [wr_ptr_r EXCEPT ![q] = NextSlot(@)]
  /\ msg_count_r' = [msg_count_r EXCEPT ![q] = @ + 1]
  /\ recv_wait_r' = [recv_wait_r EXCEPT ![q] = IF queue_empty(q) THEN AfterWake(@) ELSE @]
  /\ msgq_out'    = MsgqSuccess(<<>>, IF queue_empty(q) THEN recv_wait_r[q] ELSE {})
  /\ UNCHANGED <<rd_ptr_r, send_wait_r>>

\* MSGQ_SEND with space: store the message, wake the first waiting receiver.
MsgqSendStore(q, d) ==
  /\ ~queue_full(q)
  /\ fifo_mem'    = [fifo_mem EXCEPT ![q][wr_ptr_r[q]] = d]
  /\ wr_ptr_r'    = [wr_ptr_r EXCEPT ![q] = NextSlot(@)]
  /\ msg_count_r' = [msg_count_r EXCEPT ![q] = @ + 1]
  /\ recv_wait_r' = [recv_wait_r EXCEPT ![q] = AfterWake(@)]
  /\ msgq_out'    = MsgqSuccess(<<>>, recv_wait_r[q])
  /\ UNCHANGED <<rd_ptr_r, send_wait_r>>

\* MSGQ_SEND to a full queue: the sender waits, its message is not kept.
MsgqSendBlock(q, t) ==
  /\ queue_full(q)
  /\ send_wait_r' = [send_wait_r EXCEPT ![q] = @ \cup {t}]
  /\ msgq_out'    = MsgqBlock
  /\ UNCHANGED <<fifo_mem, wr_ptr_r, rd_ptr_r, msg_count_r, recv_wait_r>>

\* MSGQ_RECV: hand over the oldest message, wake the first waiting sender.
MsgqRecvTake(q) ==
  /\ ~queue_empty(q)
  /\ rd_ptr_r'    = [rd_ptr_r EXCEPT ![q] = NextSlot(@)]
  /\ msg_count_r' = [msg_count_r EXCEPT ![q] = @ - 1]
  /\ send_wait_r' = [send_wait_r EXCEPT ![q] = AfterWake(@)]
  /\ msgq_out'    = MsgqSuccess(<<fifo_mem[q][rd_ptr_r[q]]>>, send_wait_r[q])
  /\ UNCHANGED <<fifo_mem, wr_ptr_r, recv_wait_r>>

\* MSGQ_RECV from an empty queue: the receiver waits.
MsgqRecvBlock(q, t) ==
  /\ queue_empty(q)
  /\ recv_wait_r' = [recv_wait_r EXCEPT ![q] = @ \cup {t}]
  /\ msgq_out'    = MsgqBlock
  /\ UNCHANGED <<fifo_mem, wr_ptr_r, rd_ptr_r, msg_count_r, send_wait_r>>

MsgqSend(q, d, t) == MsgqSendStore(q, d) \/ MsgqSendBlock(q, t)
MsgqRecv(q, t)    == MsgqRecvTake(q) \/ MsgqRecvBlock(q, t)

Next ==
  \/ MsgqNop
  \/ \E q \in Queues, t \in Tasks : MsgqRecv(q, t) \/ \E d \in Msgs : MsgqSend(q, d, t)

Spec == MsgqInit /\ [][Next]_msgqVars
-----------------------------------------------------------------------------
MsgqOut == [success : BOOLEAN, block : BOOLEAN,
            data : {<<>>} \cup {<<d>> : d \in Msgs}, wake : Tasks \cup {NoTask}]

\* The type of the registers (hw_msgqueue.sv, port and register declarations).
MsgqTypeOK ==
  /\ fifo_mem    \in [Queues -> [Slots -> Msgs]]
  /\ wr_ptr_r    \in [Queues -> Slots]
  /\ rd_ptr_r    \in [Queues -> Slots]
  /\ msg_count_r \in [Queues -> 0 .. QUEUE_DEPTH]
  /\ send_wait_r \in [Queues -> SUBSET Tasks]
  /\ recv_wait_r \in [Queues -> SUBSET Tasks]
  /\ msgq_out    \in MsgqOut

\* The slot n places past slot i of the ring, for n up to the depth.
SlotAfter(i, n) == IF i + n < QUEUE_DEPTH THEN i + n ELSE i + n - QUEUE_DEPTH

\* The count and the two pointers, three registers updated separately, always
\* describe the same ring: the write pointer is the read pointer advanced by
\* the count, modulo the depth (the pointer and count updates of both branches).
RingConsistent ==
  \A q \in Queues : wr_ptr_r[q] = SlotAfter(rd_ptr_r[q], msg_count_r[q])

\* The messages held, oldest first, of a ring f with n messages from slot r on.
Held(f, r, n) == [i \in 1 .. n |-> f[SlotAfter(r, i - 1)]]
Contents == [q \in Queues |-> Held(fifo_mem[q], rd_ptr_r[q], msg_count_r[q])]
Fifo == INSTANCE BoundedFifo
          WITH fifo <- Contents, got <- msgq_out.data, CAPACITY <- QUEUE_DEPTH

\* hw_msgqueue as a bounded FIFO: whatever the pointers do, messages leave in
\* the order they entered, each once (the whole of hw_msgqueue.sv).
ImplementsFifo == Fifo!Spec
=============================================================================
