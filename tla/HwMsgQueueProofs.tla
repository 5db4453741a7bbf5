-------------------------- MODULE HwMsgQueueProofs --------------------------
(***************************************************************************)
(* The safety of hw_msgqueue.sv, for any number of tasks and queues, any   *)
(* depth and any messages; and that it forgets no wake-up.                 *)
(***************************************************************************)
EXTENDS HwMsgQueueHistory, RtosTasksProofs, SequenceTheorems

MsgqInv == MsgqTypeOK /\ RingConsistent

\* The wake port and the mask it leaves, from the lemma about the encoder.
LEMMA WakePortFacts ==
  ASSUME NEW waiters \in SUBSET Tasks
  PROVE  /\ WakePort(waiters) \in Tasks \cup {NoTask}
         /\ AfterWake(waiters) \in SUBSET Tasks
BY FirstWaiterIsLeast DEF WakePort, AfterWake

\* Pointer arithmetic of the ring.
LEMMA RingArithmetic ==
  ASSUME NEW r \in Slots, NEW n \in 0 .. QUEUE_DEPTH
  PROVE  /\ NextSlot(r) \in Slots
         /\ SlotAfter(r, n) \in Slots
         /\ n < QUEUE_DEPTH => SlotAfter(r, n + 1) = NextSlot(SlotAfter(r, n))
         /\ n > 0 => SlotAfter(NextSlot(r), n - 1) = SlotAfter(r, n)
BY MsgqAssumption DEF Slots, NextSlot, SlotAfter

\* The output registers.
LEMMA MsgqOutputs ==
  /\ MsgqIdle \in MsgqOut /\ MsgqBlock \in MsgqOut
  /\ \A w \in SUBSET Tasks : MsgqSuccess(<<>>, w) \in MsgqOut
  /\ \A w \in SUBSET Tasks, d \in Msgs : MsgqSuccess(<<d>>, w) \in MsgqOut
BY WakePortFacts DEF MsgqOut, MsgqIdle, MsgqBlock, MsgqSuccess

LEMMA MsgqInitInv == MsgqInit => MsgqInv
<1> SUFFICES ASSUME MsgqInit PROVE MsgqInv
  OBVIOUS
<1>1. 0 \in Slots /\ 0 \in Msgs /\ 0 \in 0 .. QUEUE_DEPTH /\ SlotAfter(0, 0) = 0
  BY MsgqAssumption DEF Slots, Msgs, SlotAfter
<1>2. MsgqTypeOK
  BY <1>1, MsgqOutputs DEF MsgqInit, MsgqTypeOK
<1>3. RingConsistent
  BY <1>1 DEF MsgqInit, RingConsistent
<1>4. QED
  BY <1>2, <1>3 DEF MsgqInv

\* Every edge keeps the invariant, one step per branch of the case statement.
LEMMA MsgqNextInv == MsgqInv /\ [Next]_msgqVars => MsgqInv'
<1> SUFFICES ASSUME MsgqInv, [Next]_msgqVars PROVE MsgqInv'
  OBVIOUS
<1>1. MsgqTypeOK /\ RingConsistent
  BY DEF MsgqInv
<1> USE DEF MsgqInv, MsgqTypeOK, RingConsistent
<1>2. CASE UNCHANGED msgqVars
  BY <1>1, <1>2 DEF msgqVars
<1>3. CASE Next
  <2>1. CASE MsgqNop
    BY <1>1, <2>1, MsgqOutputs DEF MsgqNop, msgqState
  <2>2. ASSUME NEW q \in Queues, NEW d \in Msgs, MsgqSendStore(q, d) PROVE MsgqInv'
    <3>1. msg_count_r[q] \in 0 .. QUEUE_DEPTH - 1 /\ rd_ptr_r[q] \in Slots
      <4>1. msg_count_r[q] \in 0 .. QUEUE_DEPTH /\ rd_ptr_r[q] \in Slots
        BY <1>1
      <4>2. msg_count_r[q] # QUEUE_DEPTH
        BY <2>2, Zenon DEF MsgqSendStore, queue_full
      <4>3. \A n \in 0 .. QUEUE_DEPTH : n # QUEUE_DEPTH => n \in 0 .. QUEUE_DEPTH - 1
        BY MsgqAssumption
      <4>4. QED
        BY <4>1, <4>2, <4>3, Zenon
    <3>2. msg_count_r' \in [Queues -> 0 .. QUEUE_DEPTH]
      <4>1. msg_count_r' = [msg_count_r EXCEPT ![q] = @ + 1]
        BY <2>2, Zenon DEF MsgqSendStore
      <4>2. msg_count_r \in [Queues -> 0 .. QUEUE_DEPTH]
        BY <1>1
      <4>3. QED
        BY <3>1, <4>1, <4>2, MsgqAssumption
    <3>3. wr_ptr_r' \in [Queues -> Slots]
      <4>1. NextSlot(wr_ptr_r[q]) \in Slots
        BY <1>1, RingArithmetic, MsgqAssumption
      <4>2. QED
        BY <1>1, <2>2, <4>1 DEF MsgqSendStore
    <3>4. recv_wait_r' \in [Queues -> SUBSET Tasks] /\ msgq_out' \in MsgqOut
      <4>1. recv_wait_r[q] \in SUBSET Tasks
        BY <1>1
      <4>2. MsgqSuccess(<<>>, recv_wait_r[q]) \in MsgqOut
        BY <4>1, MsgqOutputs
      <4>3. AfterWake(recv_wait_r[q]) \in SUBSET Tasks
        BY <4>1, WakePortFacts
      <4>4. QED
        BY <1>1, <2>2, <4>2, <4>3 DEF MsgqSendStore
    <3>5. fifo_mem' \in [Queues -> [Slots -> Msgs]]
      BY <1>1, <2>2 DEF MsgqSendStore
    <3>6. wr_ptr_r'[q] = SlotAfter(rd_ptr_r[q], msg_count_r[q] + 1)
      <4>1. SlotAfter(rd_ptr_r[q], msg_count_r[q] + 1) = NextSlot(wr_ptr_r[q])
        <5>1. /\ wr_ptr_r[q] = SlotAfter(rd_ptr_r[q], msg_count_r[q])
              /\ msg_count_r[q] \in 0 .. QUEUE_DEPTH /\ msg_count_r[q] < QUEUE_DEPTH
          BY <1>1, <3>1, MsgqAssumption
        <5>2. QED
          BY <3>1, <5>1, RingArithmetic
      <4>2. QED
        BY <1>1, <2>2, <4>1 DEF MsgqSendStore
    <3>7. RingConsistent'
      BY <1>1, <2>2, <3>6 DEF MsgqSendStore, SlotAfter
    <3>8. QED
      BY <1>1, <2>2, <3>2, <3>3, <3>4, <3>5, <3>7 DEF MsgqSendStore
  <2>3. ASSUME NEW q \in Queues, NEW t \in Tasks, MsgqSendBlock(q, t) PROVE MsgqInv'
    BY <1>1, <2>3, MsgqOutputs DEF MsgqSendBlock, SlotAfter
  <2>4. ASSUME NEW q \in Queues, MsgqRecvTake(q) PROVE MsgqInv'
    <3>1. msg_count_r[q] \in 1 .. QUEUE_DEPTH /\ rd_ptr_r[q] \in Slots
      <4>1. msg_count_r[q] \in 0 .. QUEUE_DEPTH /\ rd_ptr_r[q] \in Slots
        BY <1>1
      <4>2. msg_count_r[q] # 0
        BY <2>4 DEF MsgqRecvTake, queue_empty
      <4>3. QED
        BY <4>1, <4>2, MsgqAssumption
    <3>2. msg_count_r' \in [Queues -> 0 .. QUEUE_DEPTH]
      <4>1. msg_count_r' = [msg_count_r EXCEPT ![q] = @ - 1]
        BY <2>4, Zenon DEF MsgqRecvTake
      <4>2. msg_count_r \in [Queues -> 0 .. QUEUE_DEPTH]
        BY <1>1
      <4>3. QED
        BY <3>1, <4>1, <4>2, MsgqAssumption
    <3>3. rd_ptr_r' \in [Queues -> Slots]
      <4>1. NextSlot(rd_ptr_r[q]) \in Slots
        BY <3>1, RingArithmetic, MsgqAssumption
      <4>2. QED
        BY <1>1, <2>4, <4>1 DEF MsgqRecvTake
    <3>4. send_wait_r' \in [Queues -> SUBSET Tasks] /\ msgq_out' \in MsgqOut
      <4>1. /\ fifo_mem[q][rd_ptr_r[q]] \in Msgs
            /\ send_wait_r[q] \in SUBSET Tasks
        BY <1>1, <3>1
      <4>2. MsgqSuccess(<<fifo_mem[q][rd_ptr_r[q]]>>, send_wait_r[q]) \in MsgqOut
        BY <4>1, MsgqOutputs
      <4>3. AfterWake(send_wait_r[q]) \in SUBSET Tasks
        BY <4>1, WakePortFacts
      <4>4. QED
        BY <1>1, <2>4, <4>2, <4>3 DEF MsgqRecvTake
    <3>5. SlotAfter(NextSlot(rd_ptr_r[q]), msg_count_r[q] - 1) = wr_ptr_r[q]
      BY <1>1, <3>1, RingArithmetic, MsgqAssumption
    <3>6. RingConsistent'
      BY <1>1, <2>4, <3>5 DEF MsgqRecvTake, SlotAfter
    <3>7. QED
      BY <1>1, <2>4, <3>2, <3>3, <3>4, <3>6 DEF MsgqRecvTake
  <2>5. ASSUME NEW q \in Queues, NEW t \in Tasks, MsgqRecvBlock(q, t) PROVE MsgqInv'
    BY <1>1, <2>5, MsgqOutputs DEF MsgqRecvBlock, SlotAfter
  <2>6. QED
    BY <1>3, <2>1, <2>2, <2>3, <2>4, <2>5 DEF Next, MsgqSend, MsgqRecv
<1>4. QED
  BY <1>2, <1>3

LEMMA MsgqInvariant == Spec => []MsgqInv
<1>1. MsgqInit => MsgqInv
  BY MsgqInitInv
<1>2. MsgqInv /\ [Next]_msgqVars => MsgqInv'
  BY MsgqNextInv
<1>3. QED
  BY <1>1, <1>2, PTL DEF Spec

\* The registers of hw_msgqueue.sv keep their declared ranges.
THEOREM MsgqTypeCorrect == Spec => []MsgqTypeOK
<1>1. MsgqInv => MsgqTypeOK
  BY DEF MsgqInv
<1>2. QED
  BY <1>1, MsgqInvariant, PTL

\* Count and pointers describe the same ring after every edge, for a depth that
\* need not be a power of two (the wrap tests of both pointer updates).
THEOREM RingStaysConsistent == Spec => []RingConsistent
<1>1. MsgqInv => RingConsistent
  BY DEF MsgqInv
<1>2. QED
  BY <1>1, MsgqInvariant, PTL

-----------------------------------------------------------------------------
\* A ring with n messages is a sequence of n messages.
LEMMA HeldFacts ==
  ASSUME NEW f \in [Slots -> Msgs], NEW r \in Slots, NEW n \in 0 .. QUEUE_DEPTH
  PROVE  /\ Held(f, r, n) \in Seq(Msgs)
         /\ Len(Held(f, r, n)) = n
         /\ \A i \in 1 .. n : Held(f, r, n)[i] = f[SlotAfter(r, i - 1)]
<1> DEFINE At(i) == f[SlotAfter(r, i - 1)]
<1>1. ASSUME NEW i \in 1 .. n PROVE At(i) \in Msgs
  <2>1. i - 1 \in 0 .. QUEUE_DEPTH
    BY MsgqAssumption
  <2>2. SlotAfter(r, i - 1) \in Slots
    BY <2>1, RingArithmetic
  <2>3. QED
    BY <2>2
<1>2. Held(f, r, n) = [i \in 1 .. n |-> At(i)]
  BY DEF Held
<1>3. \A i \in 1 .. n : Held(f, r, n)[i] = At(i)
  BY <1>2
<1> HIDE DEF At
<1>4. Held(f, r, n) \in Seq(Msgs) /\ Len(Held(f, r, n)) = n
  BY <1>1, <1>2, MsgqAssumption
<1>5. QED
  BY <1>3, <1>4 DEF At

\* Two slots at different distances below the depth differ: a store never
\* overwrites a message that is still held.
LEMMA SlotsApart ==
  ASSUME NEW r \in Slots, NEW i \in 0 .. QUEUE_DEPTH - 1, NEW j \in 0 .. QUEUE_DEPTH - 1,
         i # j
  PROVE  SlotAfter(r, i) # SlotAfter(r, j)
BY MsgqAssumption DEF Slots, SlotAfter

\* Writing the slot behind the last message appends to the messages held.
LEMMA StoreAppends ==
  ASSUME NEW f \in [Slots -> Msgs], NEW r \in Slots, NEW n \in 0 .. QUEUE_DEPTH - 1,
         NEW d \in Msgs, NEW g \in [Slots -> Msgs], g[SlotAfter(r, n)] = d,
         \A x \in Slots : x # SlotAfter(r, n) => g[x] = f[x]
  PROVE  Held(g, r, n + 1) = Append(Held(f, r, n), d)
<1> DEFINE old == Held(f, r, n)
           new == Held(g, r, n + 1)
<1>1. /\ n \in 0 .. QUEUE_DEPTH /\ n + 1 \in 0 .. QUEUE_DEPTH /\ n \in Nat
      /\ SlotAfter(r, n) \in Slots
  <2>1. n \in 0 .. QUEUE_DEPTH /\ n + 1 \in 0 .. QUEUE_DEPTH /\ n \in Nat
    BY MsgqAssumption
  <2>2. SlotAfter(r, n) \in Slots
    BY <2>1, RingArithmetic
  <2>3. QED
    BY <2>1, <2>2
<1>2. /\ old \in Seq(Msgs) /\ Len(old) = n
      /\ \A i \in 1 .. n : old[i] = f[SlotAfter(r, i - 1)]
  BY <1>1, HeldFacts
<1>3. /\ new \in Seq(Msgs) /\ Len(new) = n + 1
      /\ \A i \in 1 .. n + 1 : new[i] = g[SlotAfter(r, i - 1)]
  BY <1>1, HeldFacts
<1>4. ASSUME NEW i \in 1 .. n + 1 PROVE new[i] = Append(old, d)[i]
  <2>1. new[i] = g[SlotAfter(r, i - 1)]
    BY <1>3
  <2>2. CASE i = n + 1
    <3>1. i - 1 = n
      BY <1>1, <2>2
    <3>2. g[SlotAfter(r, n)] = d
      BY <1>1
    <3>3. Append(old, d)[n + 1] = d
      BY <1>1, <1>2
    <3>4. QED
      BY <2>1, <2>2, <3>1, <3>2, <3>3
  <2>3. CASE i \in 1 .. n
    <3>1. i - 1 \in 0 .. QUEUE_DEPTH - 1 /\ i - 1 # n /\ i - 1 \in 0 .. QUEUE_DEPTH
      BY <1>1, <2>3, MsgqAssumption
    <3>2. SlotAfter(r, i - 1) # SlotAfter(r, n)
      BY <3>1, SlotsApart
    <3>3. SlotAfter(r, i - 1) \in Slots
      BY <3>1, RingArithmetic
    <3>4. g[SlotAfter(r, i - 1)] = f[SlotAfter(r, i - 1)]
      BY <3>2, <3>3
    <3>5. Append(old, d)[i] = old[i]
      BY <1>1, <1>2, <2>3
    <3>6. old[i] = f[SlotAfter(r, i - 1)]
      BY <1>2, <2>3
    <3>7. QED
      BY <2>1, <3>4, <3>5, <3>6
  <2>4. i = n + 1 \/ i \in 1 .. n
    BY <1>1
  <2>5. QED
    BY <2>2, <2>3, <2>4, Zenon
<1>5. Append(old, d) \in Seq(Msgs) /\ Len(Append(old, d)) = n + 1
  BY <1>2
<1> HIDE DEF old, new
<1>6. new = Append(old, d)
  BY <1>3, <1>4, <1>5, SeqEqual
<1>7. QED
  BY <1>6 DEF old, new

\* Advancing the read pointer takes the head off the messages held.
LEMMA TakeIsTail ==
  ASSUME NEW f \in [Slots -> Msgs], NEW r \in Slots, NEW n \in 1 .. QUEUE_DEPTH
  PROVE  /\ Held(f, r, n) # <<>>
         /\ Head(Held(f, r, n)) = f[r]
         /\ Held(f, NextSlot(r), n - 1) = Tail(Held(f, r, n))
<1> DEFINE old == Held(f, r, n)
           new == Held(f, NextSlot(r), n - 1)
<1>1. /\ n \in 0 .. QUEUE_DEPTH /\ n - 1 \in 0 .. QUEUE_DEPTH /\ n \in Nat \ {0}
      /\ NextSlot(r) \in Slots
  BY RingArithmetic, MsgqAssumption
<1>2. /\ old \in Seq(Msgs) /\ Len(old) = n
      /\ \A i \in 1 .. n : old[i] = f[SlotAfter(r, i - 1)]
  BY <1>1, HeldFacts
<1>3. /\ new \in Seq(Msgs) /\ Len(new) = n - 1
      /\ \A i \in 1 .. n - 1 : new[i] = f[SlotAfter(NextSlot(r), i - 1)]
  BY <1>1, HeldFacts
<1>4. old # <<>> /\ Head(old) = f[r]
  <2>1. SlotAfter(r, 0) = r
    BY MsgqAssumption DEF SlotAfter, Slots
  <2>2. old[1] = f[r]
    BY <1>1, <1>2, <2>1
  <2>3. QED
    BY <1>1, <1>2, <2>2
<1>5. /\ Tail(old) \in Seq(Msgs) /\ Len(Tail(old)) = n - 1
      /\ \A i \in 1 .. n - 1 : Tail(old)[i] = old[i + 1]
  BY <1>2, <1>4, HeadTailProperties
<1>6. ASSUME NEW i \in 1 .. n - 1 PROVE new[i] = Tail(old)[i]
  <2>1. i \in 1 .. QUEUE_DEPTH /\ i + 1 \in 1 .. n /\ (i + 1) - 1 = i
    BY <1>1, MsgqAssumption
  <2>2. SlotAfter(NextSlot(r), i - 1) = SlotAfter(r, i)
    BY <2>1, MsgqAssumption DEF SlotAfter, NextSlot, Slots
  <2>3. QED
    BY <1>2, <1>3, <1>5, <2>1, <2>2
<1> HIDE DEF old, new
<1>7. new = Tail(old)
  BY <1>1, <1>3, <1>5, <1>6, SeqEqual
<1>8. QED
  BY <1>4, <1>7 DEF old, new

\* The contents after an edge, from the registers after it.
LEMMA ContentsPrimed ==
  Contents' = [p \in Queues |-> Held(fifo_mem'[p], rd_ptr_r'[p], msg_count_r'[p])]
BY DEF Contents, Held, SlotAfter

\* An edge that leaves all but one ring alone changes one entry of Contents.
LEMMA ContentsChange ==
  ASSUME NEW q \in Queues, NEW c, Held(fifo_mem'[q], rd_ptr_r'[q], msg_count_r'[q]) = c,
         \A p \in Queues \ {q} : /\ fifo_mem'[p] = fifo_mem[p] /\ rd_ptr_r'[p] = rd_ptr_r[p]
                                 /\ msg_count_r'[p] = msg_count_r[p]
  PROVE  Contents' = [Contents EXCEPT ![q] = c]
<1> DEFINE new == [p \in Queues |-> Held(fifo_mem'[p], rd_ptr_r'[p], msg_count_r'[p])]
<1>1. \A p \in Queues : new[p] = IF p = q THEN c ELSE Contents[p]
  BY DEF Contents
<1>2. new = [Contents EXCEPT ![q] = c]
  BY <1>1 DEF Contents
<1>3. QED
  BY <1>2, ContentsPrimed

\* hw_msgqueue.sv is a bounded FIFO: every edge puts one message at the end,
\* takes the one at the front and shows it on msg_data_out, or does neither.
THEOREM MsgqRefinesFifo == Spec => ImplementsFifo
<1>1. MsgqInit => Fifo!Init
  <2> SUFFICES ASSUME MsgqInit
               PROVE  Contents = [q \in Queues |-> <<>>] /\ msgq_out.data = <<>>
    BY DEF Fifo!Init
  <2>1. \A f, r : Held(f, r, 0) = <<>>
    BY DEF Held
  <2>2. Contents = [q \in Queues |-> <<>>]
    BY <2>1 DEF MsgqInit, Contents
  <2>3. QED
    BY <2>2 DEF MsgqInit, MsgqIdle
<1>2. ASSUME MsgqInv, [Next]_msgqVars PROVE [Fifo!Next]_(Fifo!fifoVars)
  <2>1. MsgqTypeOK /\ RingConsistent
    BY <1>2 DEF MsgqInv
  <2>2. ASSUME NEW q \in Queues
        PROVE  /\ fifo_mem[q] \in [Slots -> Msgs] /\ rd_ptr_r[q] \in Slots
               /\ msg_count_r[q] \in 0 .. QUEUE_DEPTH
               /\ Contents[q] = Held(fifo_mem[q], rd_ptr_r[q], msg_count_r[q])
               /\ Len(Contents[q]) = msg_count_r[q]
    <3>1. /\ fifo_mem[q] \in [Slots -> Msgs] /\ rd_ptr_r[q] \in Slots
          /\ msg_count_r[q] \in 0 .. QUEUE_DEPTH
      BY <2>1 DEF MsgqTypeOK
    <3>2. QED
      BY <3>1, HeldFacts DEF Contents
  <2>3. ASSUME NEW q \in Queues, NEW d \in Msgs, MsgqSendStore(q, d)
        PROVE  Fifo!Put(q, d)
    <3> DEFINE f == fifo_mem[q]
               r == rd_ptr_r[q]
               n == msg_count_r[q]
    <3>1. /\ n # QUEUE_DEPTH /\ rd_ptr_r' = rd_ptr_r
          /\ fifo_mem' = [fifo_mem EXCEPT ![q][wr_ptr_r[q]] = d]
          /\ msg_count_r' = [msg_count_r EXCEPT ![q] = @ + 1]
          /\ msgq_out' = MsgqSuccess(<<>>, recv_wait_r[q])
      BY <2>3, Zenon DEF MsgqSendStore, queue_full
    <3>2. n \in 0 .. QUEUE_DEPTH - 1 /\ n < QUEUE_DEPTH
      BY <2>2, <3>1, MsgqAssumption
    <3>3. wr_ptr_r[q] = SlotAfter(r, n)
      BY <2>1 DEF RingConsistent
    <3> DEFINE g == [f EXCEPT ![SlotAfter(r, n)] = d]
    <3>4. /\ fifo_mem'[q] = g /\ rd_ptr_r'[q] = r /\ msg_count_r'[q] = n + 1
          /\ \A p \in Queues \ {q} : /\ fifo_mem'[p] = fifo_mem[p]
                                     /\ rd_ptr_r'[p] = rd_ptr_r[p]
                                     /\ msg_count_r'[p] = msg_count_r[p]
      BY <2>1, <3>1, <3>3 DEF MsgqTypeOK
    <3> HIDE DEF g
    <3>5. Held(g, r, n + 1) = Append(Contents[q], d)
      <4>1. f \in [Slots -> Msgs] /\ r \in Slots /\ Contents[q] = Held(f, r, n)
        BY <2>2
      <4>2. SlotAfter(r, n) \in Slots
        BY <2>2, RingArithmetic
      <4>3. /\ g \in [Slots -> Msgs] /\ g[SlotAfter(r, n)] = d
            /\ \A x \in Slots : x # SlotAfter(r, n) => g[x] = f[x]
        BY <4>1, <4>2 DEF g
      <4> HIDE DEF f, r, n
      <4>4. Held(g, r, n + 1) = Append(Held(f, r, n), d)
        BY <3>2, <4>1, <4>3, StoreAppends
      <4>5. QED
        BY <4>1, <4>4, Zenon
    <3>6. Contents' = [Contents EXCEPT ![q] = Append(Contents[q], d)]
      BY <3>4, <3>5, ContentsChange
    <3>7. Len(Contents[q]) < QUEUE_DEPTH
      BY <2>2, <3>2
    <3>8. msgq_out'.data = <<>>
      BY <3>1 DEF MsgqSuccess
    <3>9. QED
      BY <3>6, <3>7, <3>8 DEF Fifo!Put
  <2>4. ASSUME NEW q \in Queues, MsgqRecvTake(q)
        PROVE  Fifo!Get(q)
    <3> DEFINE f == fifo_mem[q]
               r == rd_ptr_r[q]
               n == msg_count_r[q]
    <3>1. /\ n # 0 /\ fifo_mem' = fifo_mem
          /\ rd_ptr_r' = [rd_ptr_r EXCEPT ![q] = NextSlot(r)]
          /\ msg_count_r' = [msg_count_r EXCEPT ![q] = n - 1]
          /\ msgq_out' = MsgqSuccess(<<f[r]>>, send_wait_r[q])
      BY <2>4, Zenon DEF MsgqRecvTake, queue_empty
    <3>2. n \in 1 .. QUEUE_DEPTH
      BY <2>2, <3>1, MsgqAssumption
    <3>3. /\ Contents[q] # <<>> /\ Head(Contents[q]) = f[r]
          /\ Held(f, NextSlot(r), n - 1) = Tail(Contents[q])
      <4>1. f \in [Slots -> Msgs] /\ r \in Slots /\ Contents[q] = Held(f, r, n)
        BY <2>2
      <4> HIDE DEF f, r, n
      <4>2. /\ Held(f, r, n) # <<>> /\ Head(Held(f, r, n)) = f[r]
            /\ Held(f, NextSlot(r), n - 1) = Tail(Held(f, r, n))
        BY <3>2, <4>1, TakeIsTail
      <4>3. QED
        BY <4>1, <4>2, Zenon
    <3>4. Contents' = [Contents EXCEPT ![q] = Tail(Contents[q])]
      <4>1. /\ fifo_mem'[q] = f /\ rd_ptr_r'[q] = NextSlot(r) /\ msg_count_r'[q] = n - 1
            /\ \A p \in Queues \ {q} : /\ fifo_mem'[p] = fifo_mem[p]
                                       /\ rd_ptr_r'[p] = rd_ptr_r[p]
                                       /\ msg_count_r'[p] = msg_count_r[p]
        BY <2>1, <3>1 DEF MsgqTypeOK
      <4>2. Held(fifo_mem'[q], rd_ptr_r'[q], msg_count_r'[q]) = Tail(Contents[q])
        BY <3>3, <4>1
      <4>3. QED
        BY <4>1, <4>2, ContentsChange
    <3>5. msgq_out'.data = <<Head(Contents[q])>>
      BY <3>1, <3>3 DEF MsgqSuccess
    <3>6. QED
      BY <3>3, <3>4, <3>5 DEF Fifo!Get
  <2>5. ASSUME NEW q \in Queues, NEW t \in Tasks, MsgqSendBlock(q, t) \/ MsgqRecvBlock(q, t)
        PROVE  Fifo!Nothing
    <3>1. msgq_out' = MsgqBlock /\ UNCHANGED <<fifo_mem, rd_ptr_r, msg_count_r>>
      BY <2>5, Zenon DEF MsgqSendBlock, MsgqRecvBlock
    <3>2. Contents' = Contents
      BY <3>1, ContentsPrimed DEF Contents
    <3>3. QED
      BY <3>1, <3>2 DEF Fifo!Nothing, MsgqBlock
  <2>6. CASE MsgqNop
    <3>1. msgq_out' = MsgqIdle /\ UNCHANGED <<fifo_mem, rd_ptr_r, msg_count_r>>
      BY <2>6 DEF MsgqNop, msgqState
    <3>2. Contents' = Contents
      BY <3>1, ContentsPrimed DEF Contents
    <3>3. Fifo!Nothing
      BY <3>1, <3>2 DEF Fifo!Nothing, MsgqIdle
    <3>4. QED
      BY <3>3 DEF Fifo!Next
  <2>7. CASE UNCHANGED msgqVars
    <3>1. msgq_out' = msgq_out /\ UNCHANGED <<fifo_mem, rd_ptr_r, msg_count_r>>
      BY <2>7 DEF msgqVars
    <3>2. Contents' = Contents
      BY <3>1, ContentsPrimed DEF Contents
    <3>3. QED
      BY <3>1, <3>2 DEF Fifo!fifoVars
  <2>8. QED
    BY <1>2, <2>3, <2>4, <2>5, <2>6, <2>7 DEF Next, MsgqSend, MsgqRecv, Fifo!Next
<1>3. QED
  BY <1>1, <1>2, MsgqInvariant, PTL DEF Spec, ImplementsFifo, Fifo!Spec
-----------------------------------------------------------------------------
\* One side of a queue: "n" things that its waiters wait for, of which "told" were
\* told to one of them, and the mask.  Nothing is there that nobody was told of.
SideKept(n, told, mask) == mask # {} => n <= told

\* What an edge does to a side: nothing, the refusal of one more waiter when there
\* is nothing, one thing more with one waiter woken for it, one thing less.
Same(n, m, A, B)    == m = n /\ B = A
Joins(n, m, A, B)   == m = 0
Comes(n, m, A, B)   == m = n + 1 /\ (A = {} => B = {})
                       /\ (A # {} => B = AfterWake(A) /\ msgq_out'.wake = FirstWaiter(A))
Goes(n, m, A, B)    == m = n - 1 /\ B = A

\* A side is kept by each, with the history's own count of what was told.
LEMMA SideStep ==
  ASSUME NEW n \in Nat, NEW m \in Nat, NEW told \in Nat, NEW A \in SUBSET Tasks, NEW B,
         SideKept(n, told, A),
         Same(n, m, A, B) \/ Joins(n, m, A, B) \/ Comes(n, m, A, B) \/ Goes(n, m, A, B)
  PROVE  LET then == IF A = {} THEN 0 ELSE Used(told, m < n) + Told(A, B)
         IN  then \in Nat /\ SideKept(m, then, B)
<1> DEFINE then == IF A = {} THEN 0 ELSE Used(told, m < n) + Told(A, B)
<1>1. Used(told, m < n) \in Nat /\ Told(A, B) \in Nat
  BY DEF Used, Told
<1>2. then \in Nat
  BY <1>1
<1>3. ASSUME Same(n, m, A, B) PROVE SideKept(m, then, B)
  BY <1>1, <1>3 DEF Same, SideKept, Used, Told
<1>4. ASSUME Joins(n, m, A, B) PROVE SideKept(m, then, B)
  BY <1>2, <1>4 DEF Joins, SideKept
<1>5. ASSUME Comes(n, m, A, B) PROVE SideKept(m, then, B)
  <2>1. CASE A = {}
    BY <1>5, <2>1 DEF Comes, SideKept
  <2>2. CASE A # {}
    <3>1. FirstWaiter(A) \in A
      BY <2>2, FirstWaiterIsLeast
    <3>2. msgq_out'.wake \in A \ B
      BY <1>5, <2>2, <3>1 DEF Comes, AfterWake
    <3>3. then = told + 1
      BY <1>5, <2>2, <3>2 DEF Comes, Used, Told
    <3>4. QED
      BY <1>5, <2>2, <3>3 DEF Comes, SideKept
  <2>3. QED
    BY <2>1, <2>2
<1>6. ASSUME Goes(n, m, A, B) PROVE SideKept(m, then, B)
  BY <1>1, <1>6 DEF Goes, SideKept, Used, Told
<1>7. QED
  BY <1>2, <1>3, <1>4, <1>5, <1>6

\* The two sides of a queue: receivers wait for messages, senders for free slots.
RecvStep(q) == LET n == msg_count_r[q]  m == msg_count_r'[q]
                   A == recv_wait_r[q]  B == recv_wait_r'[q]
               IN  Same(n, m, A, B) \/ Joins(n, m, A, B) \/ Comes(n, m, A, B) \/ Goes(n, m, A, B)
SendStep(q) == LET n == QUEUE_DEPTH - msg_count_r[q]  m == QUEUE_DEPTH - msg_count_r'[q]
                   A == send_wait_r[q]  B == send_wait_r'[q]
               IN  Same(n, m, A, B) \/ Joins(n, m, A, B) \/ Comes(n, m, A, B) \/ Goes(n, m, A, B)

\* Every edge does one of these to each side of each queue.
LEMMA EdgeSides == MsgqTypeOK /\ Next => \A q \in Queues : RecvStep(q) /\ SendStep(q)
<1> SUFFICES ASSUME MsgqTypeOK, Next, NEW q \in Queues PROVE RecvStep(q) /\ SendStep(q)
  OBVIOUS
<1> USE MsgqAssumption DEF MsgqTypeOK, RecvStep, SendStep
<1>1. ASSUME msg_count_r'[q] = msg_count_r[q], recv_wait_r'[q] = recv_wait_r[q],
             send_wait_r'[q] = send_wait_r[q]
      PROVE  RecvStep(q) /\ SendStep(q)
  BY <1>1 DEF Same
<1>2. CASE MsgqNop
  BY <1>1, <1>2 DEF MsgqNop, msgqState
<1>3. ASSUME NEW p \in Queues, NEW d \in Msgs, MsgqSendStore(p, d)
      PROVE  RecvStep(q) /\ SendStep(q)
  <2>1. CASE p = q
    <3>1. /\ msg_count_r'[q] = msg_count_r[q] + 1
          /\ recv_wait_r'[q] = AfterWake(recv_wait_r[q])
          /\ send_wait_r'[q] = send_wait_r[q]
          /\ msgq_out'.wake = WakePort(recv_wait_r[q])
      BY <1>3, <2>1 DEF MsgqSendStore, MsgqSuccess
    <3>2. Comes(msg_count_r[q], msg_count_r'[q], recv_wait_r[q], recv_wait_r'[q])
      BY <3>1 DEF Comes, WakePort, AfterWake
    <3>3. QED
      BY <3>1, <3>2 DEF Goes
  <2>2. CASE p # q
    BY <1>1, <1>3, <2>2 DEF MsgqSendStore
  <2>3. QED
    BY <2>1, <2>2
<1>4. ASSUME NEW p \in Queues, MsgqRecvTake(p) PROVE RecvStep(q) /\ SendStep(q)
  <2>1. CASE p = q
    <3>1. /\ msg_count_r'[q] = msg_count_r[q] - 1
          /\ send_wait_r'[q] = AfterWake(send_wait_r[q])
          /\ recv_wait_r'[q] = recv_wait_r[q]
          /\ msgq_out'.wake = WakePort(send_wait_r[q])
      BY <1>4, <2>1 DEF MsgqRecvTake, MsgqSuccess
    <3>2. msg_count_r[q] \in Int /\ QUEUE_DEPTH \in Int
      OBVIOUS
    <3>3. QUEUE_DEPTH - msg_count_r'[q] = (QUEUE_DEPTH - msg_count_r[q]) + 1
      BY <3>1, <3>2
    <3>4. Comes(QUEUE_DEPTH - msg_count_r[q], QUEUE_DEPTH - msg_count_r'[q],
                send_wait_r[q], send_wait_r'[q])
      BY <3>1, <3>3 DEF Comes, WakePort, AfterWake
    <3>5. QED
      BY <3>1, <3>4 DEF Goes
  <2>2. CASE p # q
    BY <1>1, <1>4, <2>2 DEF MsgqRecvTake
  <2>3. QED
    BY <2>1, <2>2
<1>5. ASSUME NEW p \in Queues, NEW t \in Tasks, MsgqSendBlock(p, t)
      PROVE  RecvStep(q) /\ SendStep(q)
  BY <1>5 DEF MsgqSendBlock, queue_full, Same, Joins
<1>6. ASSUME NEW p \in Queues, NEW t \in Tasks, MsgqRecvBlock(p, t)
      PROVE  RecvStep(q) /\ SendStep(q)
  BY <1>6 DEF MsgqRecvBlock, queue_empty, Same, Joins
<1>7. QED
  BY <1>2, <1>3, <1>4, <1>5, <1>6 DEF Next, MsgqSend, MsgqRecv

ToldTypeOK == told_recv \in [Queues -> Nat] /\ told_send \in [Queues -> Nat]

\* No message waits unannounced beside a waiting receiver, no free slot beside a
\* waiting sender: the unit forgets no wake-up, for any number of tasks and queues
\* and any depth (the wake port of hw_msgqueue.sv).
THEOREM NothingStaysUntold == HistorySpec => []NothingUntold
<1>1. HistoryInit => MsgqInv /\ ToldTypeOK /\ NothingUntold
  BY MsgqInitInv DEF HistoryInit, MsgqInit, ToldTypeOK, NothingUntold
<1>2. ASSUME MsgqInv, ToldTypeOK, NothingUntold, [HistoryNext]_historyVars
      PROVE  MsgqInv' /\ ToldTypeOK' /\ NothingUntold'
  <2>1. MsgqInv'
    BY <1>2, MsgqNextInv DEF HistoryNext, historyVars
  <2>2. CASE UNCHANGED historyVars
    BY <1>2, <2>1, <2>2 DEF historyVars, msgqVars, ToldTypeOK, NothingUntold
  <2>3. CASE HistoryNext
    <3>1. ASSUME NEW q \in Queues
          PROVE  /\ told_recv'[q] \in Nat
                 /\ SideKept(msg_count_r'[q], told_recv'[q], recv_wait_r'[q])
      <4>1. /\ msg_count_r[q] \in Nat /\ msg_count_r'[q] \in Nat
            /\ told_recv[q] \in Nat /\ recv_wait_r[q] \in SUBSET Tasks
        BY <1>2, <2>1, MsgqAssumption DEF MsgqInv, MsgqTypeOK, ToldTypeOK
      <4>2. SideKept(msg_count_r[q], told_recv[q], recv_wait_r[q])
        BY <1>2 DEF NothingUntold, SideKept
      <4>3. RecvStep(q)
        BY <1>2, <2>3, EdgeSides DEF MsgqInv, HistoryNext
      <4>4. told_recv'[q] = IF recv_wait_r[q] = {} THEN 0
                            ELSE Used(told_recv[q], msg_count_r'[q] < msg_count_r[q])
                                 + Told(recv_wait_r[q], recv_wait_r'[q])
        BY <2>3 DEF HistoryNext
      <4>5. QED
        BY <4>1, <4>2, <4>3, <4>4, SideStep DEF RecvStep
    <3>2. ASSUME NEW q \in Queues
          PROVE  /\ told_send'[q] \in Nat
                 /\ SideKept(QUEUE_DEPTH - msg_count_r'[q], told_send'[q], send_wait_r'[q])
      <4> DEFINE n == QUEUE_DEPTH - msg_count_r[q]
                 m == QUEUE_DEPTH - msg_count_r'[q]
      <4>1. /\ msg_count_r[q] \in 0 .. QUEUE_DEPTH /\ msg_count_r'[q] \in 0 .. QUEUE_DEPTH
            /\ told_send[q] \in Nat /\ send_wait_r[q] \in SUBSET Tasks
        BY <1>2, <2>1, MsgqAssumption DEF MsgqInv, MsgqTypeOK, ToldTypeOK
      <4>2. /\ n \in Nat /\ m \in Nat
            /\ (m < n) = (msg_count_r'[q] > msg_count_r[q])
        BY <4>1, MsgqAssumption
      <4>3. SideKept(n, told_send[q], send_wait_r[q])
        BY <1>2 DEF NothingUntold, SideKept
      <4>4. SendStep(q)
        BY <1>2, <2>3, EdgeSides DEF MsgqInv, HistoryNext
      <4>5. told_send'[q] = IF send_wait_r[q] = {} THEN 0
                            ELSE Used(told_send[q], msg_count_r'[q] > msg_count_r[q])
                                 + Told(send_wait_r[q], send_wait_r'[q])
        BY <2>3 DEF HistoryNext
      <4>6. told_send'[q] = IF send_wait_r[q] = {} THEN 0
                            ELSE Used(told_send[q], m < n)
                                 + Told(send_wait_r[q], send_wait_r'[q])
        BY <4>2, <4>5 DEF Used
      <4>7. \/ Same(n, m, send_wait_r[q], send_wait_r'[q])
            \/ Joins(n, m, send_wait_r[q], send_wait_r'[q])
            \/ Comes(n, m, send_wait_r[q], send_wait_r'[q])
            \/ Goes(n, m, send_wait_r[q], send_wait_r'[q])
        BY <4>4 DEF SendStep
      <4> HIDE DEF n, m
      <4>8. told_send'[q] \in Nat /\ SideKept(m, told_send'[q], send_wait_r'[q])
        BY <4>1, <4>2, <4>3, <4>6, <4>7, SideStep
      <4>9. QED
        BY <4>8 DEF m
    <3>3. ToldTypeOK'
      BY <2>3, <3>1, <3>2 DEF HistoryNext, ToldTypeOK
    <3>4. NothingUntold'
      BY <3>1, <3>2 DEF NothingUntold, SideKept
    <3>5. QED
      BY <2>1, <3>3, <3>4
  <2>4. QED
    BY <1>2, <2>2, <2>3
<1>3. MsgqInv /\ ToldTypeOK /\ NothingUntold => NothingUntold
  OBVIOUS
<1>4. QED
  BY <1>1, <1>2, <1>3, PTL DEF HistorySpec
=============================================================================
