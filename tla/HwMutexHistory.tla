--------------------------- MODULE HwMutexHistory ---------------------------
(***************************************************************************)
(* HwMutex with a history variable: the priority that the owner of each    *)
(* mutex had in the TCB array when its turn began.  hw_mutex.sv keeps such *)
(* a value in a register of its own, original_prio_r, and gives it back at *)
(* the end; the history is what that register is measured against.         *)
(***************************************************************************)
EXTENDS HwMutex

VARIABLE began  \* the priority of the owner at the edge its turn began with

historyVars == <<mutexVars, began>>

\* A waiter leaves the wait mask only to become the owner.
HandsOn(m) == mutex_wait_r[m] \ mutex_wait_r'[m] # {}

\* A turn begins when a free mutex is taken or a taken one is handed on.  An
\* owner that waits for its own mutex may be its own heir: that is a new turn.
TurnBegins(m) == locked_r'[m] /\ (~locked_r[m] \/ HandsOn(m))
TurnEnds(m)   == locked_r[m] /\ (~locked_r'[m] \/ owner_id_r'[m] # owner_id_r[m] \/ HandsOn(m))

HistoryInit == Init /\ began = [m \in Mutexes |-> 0]

HistoryNext ==
  /\ Next
  /\ began' = [m \in Mutexes |-> IF TurnBegins(m) THEN prio[owner_id_r'[m]] ELSE began[m]]

HistorySpec == HistoryInit /\ [][HistoryNext]_historyVars
-----------------------------------------------------------------------------
\* A turn of an owner ends only at an edge that asks for that owner's priority
\* to be what the array held when the turn began, whatever loans, foreign
\* unlocks and other mutexes came between (original_prio_r in MUTEX_LOCK and in
\* both branches of MUTEX_UNLOCK, against the prio_boost outputs).
OwnershipEndsWithRestore ==
  [][\A m \in Mutexes :
       TurnEnds(m) => mutex_out'.boost = Boost(owner_id_r[m], began[m])]_historyVars
=============================================================================
