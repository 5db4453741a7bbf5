------------------------------ MODULE HwMutex ------------------------------
(***************************************************************************)
(* rtl/rtos/hw_mutex.sv: NUM_MUTEXES mutexes with a wait mask and a        *)
(* priority-inheritance port.  One step is one rising clock edge; the      *)
(* operation, its mutex and its task are the input ports at that edge.     *)
(***************************************************************************)
EXTENDS RtosTasks

CONSTANT NUM_MUTEXES

ASSUME MutexAssumption == NUM_MUTEXES \in Nat \ {0}

Mutexes == 0 .. NUM_MUTEXES - 1

VARIABLES locked_r,         \* is the mutex taken
          owner_id_r,       \* by whom; 0 when it is free
          original_prio_r,  \* the owner's priority when it became the owner
          mutex_wait_r,     \* wait_mask_r: the tasks waiting for the mutex
          mutex_out,        \* output registers
          prio              \* the task_priorities port: the TCB's priorities

mutexState == <<locked_r, owner_id_r, original_prio_r, mutex_wait_r>>
mutexVars  == <<locked_r, owner_id_r, original_prio_r, mutex_wait_r, mutex_out, prio>>

\* The outputs of an edge.  "boost" is the prio_boost port: NoBoost when its
\* valid line is low, else the task and the priority it is to be given.
NoBoost      == [id |-> NoTask, val |-> 0]
Boost(t, p)  == [id |-> t, val |-> p]
MutexIdle       == [success |-> FALSE, block |-> FALSE, wake |-> NoTask, boost |-> NoBoost]
MutexDone(w, b) == [success |-> TRUE, block |-> FALSE, wake |-> w, boost |-> b]
MutexBlock(b)   == [success |-> FALSE, block |-> TRUE, wake |-> NoTask, boost |-> b]

MutexInit ==
  /\ locked_r        = [m \in Mutexes |-> FALSE]
  /\ owner_id_r      = [m \in Mutexes |-> 0]
  /\ original_prio_r = [m \in Mutexes |-> 0]
  /\ mutex_wait_r    = [m \in Mutexes |-> {}]
  /\ mutex_out       = MutexIdle

Owns(m, t) == locked_r[m] /\ owner_id_r[m] = t

\* Faulty variants of the edges, each a slip this code could contain: the
\* model check of each property is shown to notice one of them.
MutexLockSteal(m, t) ==
  /\ locked_r'        = [locked_r EXCEPT ![m] = TRUE]
  /\ owner_id_r'      = [owner_id_r EXCEPT ![m] = t]
  /\ original_prio_r' = [original_prio_r EXCEPT ![m] = prio[t]]
  /\ mutex_out'       = MutexDone(NoTask, NoBoost)
  /\ UNCHANGED mutex_wait_r
MutexLockNoLoan(m, t) ==
  /\ locked_r[m]
  /\ mutex_wait_r' = [mutex_wait_r EXCEPT ![m] = @ \cup {t}]
  /\ mutex_out'    = MutexBlock(NoBoost)
  /\ UNCHANGED <<locked_r, owner_id_r, original_prio_r>>
MutexReleaseAlways(m, t) ==
  /\ Owns(m, t)
  /\ locked_r'   = [locked_r EXCEPT ![m] = FALSE]
  /\ owner_id_r' = [owner_id_r EXCEPT ![m] = 0]
  /\ mutex_out'  = MutexDone(NoTask, Boost(t, original_prio_r[m]))
  /\ UNCHANGED <<original_prio_r, mutex_wait_r>>
MutexReleaseToNoTask(m, t) ==
  /\ Owns(m, t)
  /\ mutex_wait_r[m] = {}
  /\ owner_id_r' = [owner_id_r EXCEPT ![m] = MAX_TASKS]
  /\ mutex_out'  = MutexDone(NoTask, NoBoost)
  /\ UNCHANGED <<locked_r, original_prio_r, mutex_wait_r>>
MutexHandOffToFirst(m, t) ==
  /\ Owns(m, t)
  /\ mutex_wait_r[m] # {}
  /\ LET w == FirstWaiter(mutex_wait_r[m])
     IN  /\ owner_id_r'      = [owner_id_r EXCEPT ![m] = w]
         /\ original_prio_r' = [original_prio_r EXCEPT ![m] = prio[w]]
         /\ mutex_wait_r'    = [mutex_wait_r EXCEPT ![m] = @ \ {w}]
         /\ mutex_out'       = MutexDone(w, Boost(t, original_prio_r[m]))
  /\ UNCHANGED locked_r

MutexHandOffKeepsPrio(m, t) ==
  /\ Owns(m, t)
  /\ mutex_wait_r[m] # {}
  /\ LET w == BestWaiter(mutex_wait_r[m], prio)
     IN  /\ owner_id_r'   = [owner_id_r EXCEPT ![m] = w]
         /\ mutex_wait_r' = [mutex_wait_r EXCEPT ![m] = @ \ {w}]
         /\ mutex_out'    = MutexDone(w, Boost(t, original_prio_r[m]))
  /\ UNCHANGED <<locked_r, original_prio_r>>

\* No operation, and the encoding 2'b11 that the case statement does not list.
MutexNop == mutex_out' = MutexIdle /\ UNCHANGED mutexState

\* MUTEX_LOCK of a free mutex: acquire it.
MutexLockFree(m, t) ==
  /\ ~locked_r[m]
  /\ locked_r'        = [locked_r EXCEPT ![m] = TRUE]
  /\ owner_id_r'      = [owner_id_r EXCEPT ![m] = t]
  /\ original_prio_r' = [original_prio_r EXCEPT ![m] = prio[t]]
  /\ mutex_out'       = MutexDone(NoTask, NoBoost)
  /\ UNCHANGED mutex_wait_r

\* MUTEX_LOCK of a taken mutex, by its owner too: wait, and lend the owner the
\* requester's priority when that is the higher one.
MutexLockBlock(m, t) ==
  /\ locked_r[m]
  /\ mutex_wait_r' = [mutex_wait_r EXCEPT ![m] = @ \cup {t}]
  /\ mutex_out'    = MutexBlock(IF prio[t] > prio[owner_id_r[m]]
                               THEN Boost(owner_id_r[m], prio[t]) ELSE NoBoost)
  /\ UNCHANGED <<locked_r, owner_id_r, original_prio_r>>

\* MUTEX_UNLOCK by the owner with a waiter: the best waiter owns the mutex.
MutexHandOff(m, t) ==
  /\ Owns(m, t)
  /\ mutex_wait_r[m] # {}
  /\ LET w == BestWaiter(mutex_wait_r[m], prio)
     IN  /\ owner_id_r'      = [owner_id_r EXCEPT ![m] = w]
         /\ original_prio_r' = [original_prio_r EXCEPT ![m] = prio[w]]
         /\ mutex_wait_r'    = [mutex_wait_r EXCEPT ![m] = @ \ {w}]
         /\ mutex_out'       = MutexDone(w, Boost(t, original_prio_r[m]))
  /\ UNCHANGED locked_r

\* MUTEX_UNLOCK by the owner with no waiter: the mutex is free.
MutexRelease(m, t) ==
  /\ Owns(m, t)
  /\ mutex_wait_r[m] = {}
  /\ locked_r'   = [locked_r EXCEPT ![m] = FALSE]
  /\ owner_id_r' = [owner_id_r EXCEPT ![m] = 0]
  /\ mutex_out'  = MutexDone(NoTask, Boost(t, original_prio_r[m]))
  /\ UNCHANGED <<original_prio_r, mutex_wait_r>>

\* MUTEX_UNLOCK of a free mutex or by another task: answered, nothing done.
MutexUnlockForeign(m, t) ==
  /\ ~Owns(m, t)
  /\ mutex_out' = MutexDone(NoTask, NoBoost)
  /\ UNCHANGED mutexState

MutexLock(m, t)   == MutexLockFree(m, t) \/ MutexLockBlock(m, t)
MutexUnlock(m, t) == MutexHandOff(m, t) \/ MutexRelease(m, t) \/ MutexUnlockForeign(m, t)

PrioChange == prio' \in [Tasks -> Prios]

Init == MutexInit /\ prio \in [Tasks -> Prios]

Next ==
  /\ \/ MutexNop
     \/ \E m \in Mutexes, t \in Tasks : MutexLock(m, t) \/ MutexUnlock(m, t)
  /\ PrioChange

Spec == Init /\ [][Next]_mutexVars
-----------------------------------------------------------------------------
BoostPort == [id : Tasks, val : Prios] \cup {NoBoost}
MutexOut  == [success : BOOLEAN, block : BOOLEAN,
              wake : Tasks \cup {NoTask}, boost : BoostPort]

\* The type of the registers: owners and waiters are tasks, priorities fit
\* PRIORITY_W bits (hw_mutex.sv, port and register declarations).
MutexTypeOK ==
  /\ locked_r        \in [Mutexes -> BOOLEAN]
  /\ owner_id_r      \in [Mutexes -> Tasks]
  /\ original_prio_r \in [Mutexes -> Prios]
  /\ mutex_wait_r    \in [Mutexes -> SUBSET Tasks]
  /\ mutex_out       \in MutexOut
  /\ prio            \in [Tasks -> Prios]

\* A task waits only for a mutex somebody owns: an unlock never frees a mutex
\* over the heads of its waiters, who would then sleep on a free mutex (the
\* hand-off branch of MUTEX_UNLOCK).
WaitersImplyLocked == \A m \in Mutexes : mutex_wait_r[m] # {} => locked_r[m]

\* No inversion goes unreported: a task that joins a wait mask is no more
\* urgent than the owner, or its priority is asked for the owner in the same
\* edge (the inheritance test of MUTEX_LOCK).
WaiterLendsPriority ==
  [][\A m \in Mutexes : \A t \in mutex_wait_r'[m] \ mutex_wait_r[m] :
       \/ prio[t] <= prio[owner_id_r[m]]
       \/ mutex_out'.boost = Boost(owner_id_r[m], prio[t])]_mutexVars

\* Ownership that passes from task to task passes to a waiter that outranks
\* all who keep waiting, so the new owner needs no loan (BestWaiter in the
\* hand-off branch).
HandOffLeavesNoInversion ==
  [][\A m \in Mutexes :
       mutex_out'.wake # NoTask /\ owner_id_r'[m] # owner_id_r[m] =>
         \A u \in mutex_wait_r'[m] : prio[u] <= prio[owner_id_r'[m]]]_mutexVars

\* The registers implement LockWithHandOff: a free mutex has no holder.
Holder == [m \in Mutexes |-> IF locked_r[m] THEN owner_id_r[m] ELSE NoTask]
Lock == INSTANCE LockWithHandOff
          WITH Locks <- Mutexes, None <- NoTask, holder <- Holder, asking <- mutex_wait_r

\* hw_mutex as a lock: one holder at a time, acquired only when free, handed
\* over only to a task that asked (the case statement of hw_mutex.sv).
ImplementsLock == Lock!Spec
=============================================================================
