---------------------------- MODULE HwSemaphore ----------------------------
(***************************************************************************)
(* rtl/rtos/hw_semaphore.sv: NUM_SEMS counting semaphores with a wait mask *)
(* each.  One step is one rising clock edge; the operation, its semaphore  *)
(* and its task are the values of the input ports at that edge.            *)
(***************************************************************************)
EXTENDS RtosTasks, FiniteSets

CONSTANTS NUM_SEMS,
          MAX_COUNT   \* the max_count port; hw_rtos ties it to 8'hFF

ASSUME SemAssumption == /\ NUM_SEMS \in Nat \ {0}
                        /\ MAX_COUNT \in Nat

Sems   == 0 .. NUM_SEMS - 1
Counts == 0 .. MAX_COUNT

VARIABLES count_r,      \* permits left
          max_count_r,  \* the bound of the count, 0 until INIT
          wait_mask_r,  \* the tasks waiting for a permit
          sem_out,      \* output registers: success, block, wake-up port
          prio          \* the task_priorities port: the TCB's priorities

semState == <<count_r, max_count_r, wait_mask_r>>
semVars  == <<count_r, max_count_r, wait_mask_r, sem_out, prio>>

\* The outputs of an edge; every output that is not named is deasserted.
SemIdle    == [success |-> FALSE, block |-> FALSE, wake |-> NoTask]
SemSuccess == [SemIdle EXCEPT !.success = TRUE]
SemBlock   == [SemIdle EXCEPT !.block = TRUE]
SemWake(t) == [SemSuccess EXCEPT !.wake = t]

SemInit ==
  /\ count_r     = [s \in Sems |-> 0]
  /\ max_count_r = [s \in Sems |-> 0]
  /\ wait_mask_r = [s \in Sems |-> {}]
  /\ sem_out     = SemIdle

\* SEM_NOP
SemNop == sem_out' = SemIdle /\ UNCHANGED semState

\* Faulty variants of the edges, each a slip this code could contain: the
\* model check of each property is shown to notice one of them.
SemPostWakeLowest(s) ==
  /\ wait_mask_r[s] # {}
  /\ LET t == FirstWaiter(wait_mask_r[s])
     IN  /\ wait_mask_r' = [wait_mask_r EXCEPT ![s] = @ \ {t}]
         /\ sem_out'     = SemWake(t)
  /\ UNCHANGED <<count_r, max_count_r>>
SemPostWakeAndCount(s) ==
  /\ wait_mask_r[s] # {}
  /\ LET t == BestWaiter(wait_mask_r[s], prio)
     IN  /\ wait_mask_r' = [wait_mask_r EXCEPT ![s] = @ \ {t}]
         /\ sem_out'     = SemWake(t)
  /\ count_r' = [count_r EXCEPT ![s] = (@ + 1) % (MAX_COUNT + 1)]
  /\ UNCHANGED max_count_r
SemPostCountOffByOne(s) ==
  /\ wait_mask_r[s] = {}
  /\ count_r[s] <= max_count_r[s]
  /\ count_r' = [count_r EXCEPT ![s] = @ + 1]
  /\ sem_out' = SemSuccess
  /\ UNCHANGED <<max_count_r, wait_mask_r>>

\* SEM_INIT: set the count and the bound, forget the waiters.
SemSetup(s, init_count) ==
  /\ count_r'     = [count_r EXCEPT ![s] = init_count]
  /\ max_count_r' = [max_count_r EXCEPT ![s] = MAX_COUNT]
  /\ wait_mask_r' = [wait_mask_r EXCEPT ![s] = {}]
  /\ sem_out'     = SemSuccess

\* SEM_WAIT: take a permit, or enter the wait mask.
SemWaitTake(s) ==
  /\ count_r[s] > 0
  /\ count_r' = [count_r EXCEPT ![s] = @ - 1]
  /\ sem_out' = SemSuccess
  /\ UNCHANGED <<max_count_r, wait_mask_r>>

SemWaitBlock(s, t) ==
  /\ count_r[s] = 0
  /\ wait_mask_r' = [wait_mask_r EXCEPT ![s] = @ \cup {t}]
  /\ sem_out'     = SemBlock
  /\ UNCHANGED <<count_r, max_count_r>>

\* SEM_POST: hand the permit to the best waiter, or return it to the count.
SemPostWake(s) ==
  /\ wait_mask_r[s] # {}
  /\ LET t == BestWaiter(wait_mask_r[s], prio)
     IN  /\ wait_mask_r' = [wait_mask_r EXCEPT ![s] = @ \ {t}]
         /\ sem_out'     = SemWake(t)
  /\ UNCHANGED <<count_r, max_count_r>>

SemPostCount(s) ==
  /\ wait_mask_r[s] = {}
  /\ count_r[s] < max_count_r[s]
  /\ count_r' = [count_r EXCEPT ![s] = @ + 1]
  /\ sem_out' = SemSuccess
  /\ UNCHANGED <<max_count_r, wait_mask_r>>

\* SEM_POST at the bound: nothing changes and nothing is answered.
SemPostFull(s) ==
  /\ wait_mask_r[s] = {}
  /\ count_r[s] >= max_count_r[s]
  /\ SemNop

SemWait(s, t) == SemWaitTake(s) \/ SemWaitBlock(s, t)
SemPost(s)    == SemPostWake(s) \/ SemPostCount(s) \/ SemPostFull(s)

\* The priorities of the TCB array may change between any two edges: tasks
\* come and go and hw_mutex boosts them.
PrioChange == prio' \in [Tasks -> Prios]

Init == SemInit /\ prio \in [Tasks -> Prios]

Next ==
  /\ \/ SemNop
     \/ \E s \in Sems, n \in Counts : SemSetup(s, n)
     \/ \E s \in Sems, t \in Tasks : SemWait(s, t)
     \/ \E s \in Sems : SemPost(s)
  /\ PrioChange

Spec == Init /\ [][Next]_semVars
-----------------------------------------------------------------------------
SemOut == [success : BOOLEAN, block : BOOLEAN, wake : Tasks \cup {NoTask}]

\* The type of the registers: counts and bounds fit SEM_COUNT_W bits, a wake-up
\* port names a task (hw_semaphore.sv, port and register declarations).
SemTypeOK ==
  /\ count_r     \in [Sems -> Counts]
  /\ max_count_r \in [Sems -> Counts]
  /\ wait_mask_r \in [Sems -> SUBSET Tasks]
  /\ sem_out     \in SemOut
  /\ prio        \in [Tasks -> Prios]

\* No permit is stranded: as long as a task waits, no permit is left for a
\* later task to take ahead of it (the POST branch serves waiters first, INIT
\* drops them, WAIT adds one only at zero).
WaitersOnlyAtZero == \A s \in Sems : wait_mask_r[s] # {} => count_r[s] = 0

\* The loop of the priority encoder computes what the edges above use as its
\* result, for every mask and whatever the priorities change to (always_comb
\* block of hw_semaphore.sv; hw_mutex.sv has the same).
EncoderFindsBest ==
  \A s \in Sems : EncoderLoop(wait_mask_r[s], prio) =
                  IF wait_mask_r[s] = {} THEN NoTask ELSE BestWaiter(wait_mask_r[s], prio)

\* The count never passes the bound that INIT set, so it never wraps its
\* SEM_COUNT_W bits (the "count_r < max_count_r" guard of POST).
CountWithinMax == \A s \in Sems : count_r[s] <= max_count_r[s]

\* A wake-up removes exactly the woken task from one mask and leaves behind
\* only tasks it outranks: the permit never overtakes a more urgent waiter
\* (the priority encoder and the wake branch of POST).
WakeServesMostUrgent ==
  [][sem_out'.wake # NoTask =>
       \E s \in Sems :
         /\ sem_out'.wake \in wait_mask_r[s] \ wait_mask_r'[s]
         /\ wait_mask_r[s] = wait_mask_r'[s] \cup {sem_out'.wake}
         /\ \A u \in wait_mask_r'[s] : ~Outranks(u, sem_out'.wake, prio)]_semVars

\* The registers implement the integer of CountingSemaphore.
Value == [s \in Sems |-> count_r[s] - Cardinality(wait_mask_r[s])]
Dijkstra == INSTANCE CountingSemaphore WITH value <- Value, MAX_QUEUE <- MAX_TASKS

\* hw_semaphore as a counting semaphore: each edge takes or returns at most one
\* permit, and a permit returned to a waiter is not counted twice ("count stays
\* the same, resource immediately consumed by woken task").
ImplementsSemaphore == Dijkstra!Spec
=============================================================================
