------------------------- MODULE HwMsgQueueHistory -------------------------
(***************************************************************************)
(* HwMsgQueue with history variables: of each queue, how many receivers    *)
(* were told of the messages it holds, and how many senders of its space,  *)
(* since the present waiters began to wait.  hw_msgqueue.sv keeps no such  *)
(* count: it wakes one task a store and one a fetch.                       *)
(***************************************************************************)
EXTENDS HwMsgQueue

VARIABLES told_recv,  \* receivers told of a message that is still held
          told_send   \* senders told of a slot that is still free

historyVars == <<msgqVars, told_recv, told_send>>

\* A task is told when its number is on the wake port as it leaves the mask.
Told(before, after) == IF msgq_out'.wake \in before \ after THEN 1 ELSE 0

\* What was told of is used up, by whoever comes first.
Used(n, gone) == IF gone /\ n > 0 THEN n - 1 ELSE n

HistoryInit == /\ MsgqInit
               /\ told_recv = [q \in Queues |-> 0]
               /\ told_send = [q \in Queues |-> 0]

HistoryNext ==
  /\ Next
  /\ told_recv' =
       [q \in Queues |-> IF recv_wait_r[q] = {} THEN 0
                         ELSE Used(told_recv[q], msg_count_r'[q] < msg_count_r[q])
                              + Told(recv_wait_r[q], recv_wait_r'[q])]
  /\ told_send' =
       [q \in Queues |-> IF send_wait_r[q] = {} THEN 0
                         ELSE Used(told_send[q], msg_count_r'[q] > msg_count_r[q])
                              + Told(send_wait_r[q], send_wait_r'[q])]

HistorySpec == HistoryInit /\ [][HistoryNext]_historyVars
-----------------------------------------------------------------------------
\* The unit forgets no wake-up: while a receiver waits, each message held was
\* told to a receiver that waited before it, and while a sender waits, each free
\* slot to a sender, over any order of stores, fetches and refusals and although
\* whoever comes first may take what another was told of (the wake port in the
\* success branches of MSGQ_SEND and MSGQ_RECV).
NothingUntold ==
  \A q \in Queues :
    /\ recv_wait_r[q] # {} => msg_count_r[q] <= told_recv[q]
    /\ send_wait_r[q] # {} => QUEUE_DEPTH - msg_count_r[q] <= told_send[q]
=============================================================================
