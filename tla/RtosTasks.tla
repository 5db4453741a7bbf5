----------------------------- MODULE RtosTasks -----------------------------
(***************************************************************************)
(* Task numbers, priorities and the two priority encoders that the         *)
(* blocking units of the hardware RTOS share (rtl/rtos/hw_semaphore.sv,    *)
(* hw_mutex.sv, hw_msgqueue.sv).  A larger priority number is the more     *)
(* urgent one.                                                             *)
(***************************************************************************)
EXTENDS Integers

CONSTANTS MAX_TASKS,  \* number of TCB slots, task ids are 0 .. MAX_TASKS - 1
          PRIO_MAX    \* largest priority level, 2^TASK_PRIORITY_W - 1

ASSUME TasksAssumption == /\ MAX_TASKS \in Nat \ {0}
                          /\ PRIO_MAX \in Nat

Tasks  == 0 .. MAX_TASKS - 1
Prios  == 0 .. PRIO_MAX

\* A wake-up port with its valid line low.
NoTask == -1

\* t is the better choice of the two: more urgent, the lower id on a tie.
Outranks(t, u, prio) == \/ prio[t] > prio[u]
                        \/ prio[t] = prio[u] /\ t <= u

\* The waiter that the priority encoder of a wait mask selects.
BestWaiter(mask, prio) ==
  CHOOSE t \in mask : \A u \in mask : Outranks(t, u, prio)

\* Faulty variant: a later waiter of equal priority wins.
EncoderLoopLater(mask, prio) ==
  LET best[n \in 0 .. MAX_TASKS] ==
        IF n = 0 THEN NoTask
        ELSE LET i == n - 1
             IN  IF i \in mask /\ (best[i] = NoTask \/ prio[i] >= prio[best[i]]) THEN i ELSE best[i]
  IN  best[MAX_TASKS]

\* The for loop of that encoder: best[n] is the choice after n iterations.
EncoderLoop(mask, prio) ==
  LET best[n \in 0 .. MAX_TASKS] ==
        IF n = 0 THEN NoTask
        ELSE LET i == n - 1
             IN  IF i \in mask /\ (best[i] = NoTask \/ prio[i] > prio[best[i]]) THEN i ELSE best[i]
  IN  best[MAX_TASKS]

\* The waiter that the plain (lowest id first) encoder selects.
FirstWaiter(mask) == CHOOSE t \in mask : \A u \in mask : t <= u
============================================================================
