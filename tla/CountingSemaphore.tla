------------------------- MODULE CountingSemaphore -------------------------
(***************************************************************************)
(* What a semaphore promises, in Dijkstra's form: one integer per          *)
(* semaphore.  A positive value is the number of permits left, a negative  *)
(* one the number of tasks queued for a permit.                            *)
(***************************************************************************)
EXTENDS Integers

CONSTANTS Sems,      \* the semaphores
          MAX_COUNT, \* the most permits a semaphore may hold
          MAX_QUEUE  \* the most tasks that can queue

VARIABLE value       \* permits left, or minus the tasks queued

TypeOK == value \in [Sems -> -MAX_QUEUE .. MAX_COUNT]

Init == value = [s \in Sems |-> 0]

\* A semaphore is (re)initialised: it is given permits, its queue is dropped.
Reset(s) == \E n \in 0 .. MAX_COUNT : value' = [value EXCEPT ![s] = n]

\* A permit is taken, or a place in the queue.
P(s) == value' = [value EXCEPT ![s] = @ - 1]

\* A permit is returned, to the queue or to the count, never above the maximum.
V(s) == value[s] < MAX_COUNT /\ value' = [value EXCEPT ![s] = @ + 1]

Next == \E s \in Sems : Reset(s) \/ P(s) \/ V(s)

Spec == Init /\ [][Next]_value
=============================================================================
