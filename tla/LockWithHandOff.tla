-------------------------- MODULE LockWithHandOff --------------------------
(***************************************************************************)
(* What a mutex promises: at most one holder, who alone gives the lock     *)
(* away, and who gives it either to a task that asked for it or, when      *)
(* nobody is asking, to no one.                                            *)
(***************************************************************************)
CONSTANTS Locks, Tasks,
          None   \* no task

VARIABLES holder,   \* the task holding each lock, or None
          asking    \* the tasks that asked for a held lock and still wait

lockVars == <<holder, asking>>

TypeOK == /\ holder \in [Locks -> Tasks \cup {None}]
          /\ asking \in [Locks -> SUBSET Tasks]

Init == /\ holder = [l \in Locks |-> None]
        /\ asking = [l \in Locks |-> {}]

Acquire(l, t) ==
  /\ holder[l] = None
  /\ holder' = [holder EXCEPT ![l] = t]
  /\ UNCHANGED asking

Ask(l, t) ==
  /\ holder[l] # None
  /\ asking' = [asking EXCEPT ![l] = @ \cup {t}]
  /\ UNCHANGED holder

HandOff(l, u) ==
  /\ u \in asking[l]
  /\ holder' = [holder EXCEPT ![l] = u]
  /\ asking' = [asking EXCEPT ![l] = @ \ {u}]

Release(l) ==
  /\ asking[l] = {}
  /\ holder' = [holder EXCEPT ![l] = None]
  /\ UNCHANGED asking

Next == \E l \in Locks :
          \/ Release(l)
          \/ \E t \in Tasks : Acquire(l, t) \/ Ask(l, t) \/ HandOff(l, t)

Spec == Init /\ [][Next]_lockVars
=============================================================================
