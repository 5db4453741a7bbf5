---------------------------- MODULE BoundedFifo ----------------------------
(***************************************************************************)
(* What a message queue promises: messages come out in the order they went *)
(* in, each once, and never more than CAPACITY are held.                   *)
(***************************************************************************)
EXTENDS Integers, Sequences

CONSTANTS Queues, Msgs, CAPACITY

VARIABLES fifo,  \* the messages held by each queue, oldest first
          got    \* the message handed over by the last step, or <<>>

fifoVars == <<fifo, got>>

TypeOK == /\ fifo \in [Queues -> Seq(Msgs)]
          /\ \A q \in Queues : Len(fifo[q]) <= CAPACITY

Init == fifo = [q \in Queues |-> <<>>] /\ got = <<>>

Put(q, d) == /\ Len(fifo[q]) < CAPACITY
             /\ fifo' = [fifo EXCEPT ![q] = Append(@, d)]
             /\ got'  = <<>>

Get(q) == /\ fifo[q] # <<>>
          /\ fifo' = [fifo EXCEPT ![q] = Tail(@)]
          /\ got'  = <<Head(fifo[q])>>

Nothing == got' = <<>> /\ UNCHANGED fifo

Next == \/ Nothing
        \/ \E q \in Queues : Get(q) \/ \E d \in Msgs : Put(q, d)

Spec == Init /\ [][Next]_fifoVars
=============================================================================
