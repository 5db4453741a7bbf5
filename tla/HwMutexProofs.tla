--------------------------- MODULE HwMutexProofs ---------------------------
(***************************************************************************)
(* The safety of hw_mutex.sv, for any number of tasks, priorities and      *)
(* mutexes.                                                                *)
(***************************************************************************)
EXTENDS HwMutexHistory, RtosTasksProofs

MutexInv == MutexTypeOK /\ WaitersImplyLocked

\* The outputs of the edges fit the output registers.
LEMMA MutexOutputs ==
  /\ MutexIdle \in MutexOut
  /\ \A w \in Tasks \cup {NoTask}, b \in BoostPort : MutexDone(w, b) \in MutexOut
  /\ \A b \in BoostPort : MutexBlock(b) \in MutexOut
BY DEF MutexOut, MutexIdle, MutexDone, MutexBlock, BoostPort

LEMMA BoostPorts ==
  /\ NoBoost \in BoostPort
  /\ \A t \in Tasks, p \in Prios : Boost(t, p) \in BoostPort
BY DEF BoostPort, Boost

LEMMA MutexInitInv == Init => MutexInv
<1> SUFFICES ASSUME Init PROVE MutexInv
  OBVIOUS
<1>1. 0 \in Tasks /\ 0 \in Prios
  BY TasksAssumption DEF Tasks, Prios
<1>2. MutexIdle \in MutexOut
  BY MutexOutputs, BoostPorts
<1>3. MutexTypeOK
  BY <1>1, <1>2 DEF Init, MutexInit, MutexTypeOK
<1>4. WaitersImplyLocked
  BY DEF Init, MutexInit, WaitersImplyLocked
<1>5. QED
  BY <1>3, <1>4 DEF MutexInv

\* The waiter that an unlock hands the mutex to.
LEMMA MutexHeir ==
  ASSUME MutexTypeOK, NEW m \in Mutexes, mutex_wait_r[m] # {}
  PROVE  /\ BestWaiter(mutex_wait_r[m], prio) \in mutex_wait_r[m]
         /\ BestWaiter(mutex_wait_r[m], prio) \in Tasks
         /\ \A u \in mutex_wait_r[m] :
              Outranks(BestWaiter(mutex_wait_r[m], prio), u, prio)
<1>1. mutex_wait_r[m] \in SUBSET Tasks /\ prio \in [Tasks -> Prios]
  BY DEF MutexTypeOK
<1>2. QED
  BY <1>1, BestWaiterOutranks

\* Every edge keeps the invariant, one step per branch of the case statement.
LEMMA MutexNextInv == MutexInv /\ [Next]_mutexVars => MutexInv'
<1> SUFFICES ASSUME MutexInv, [Next]_mutexVars PROVE MutexInv'
  OBVIOUS
<1> USE DEF MutexInv, MutexTypeOK, WaitersImplyLocked
<1>1. CASE UNCHANGED mutexVars
  BY <1>1 DEF mutexVars
<1>2. CASE Next
  <2>1. prio' \in [Tasks -> Prios]
    BY <1>2 DEF Next, PrioChange
  <2>2. MutexIdle \in MutexOut /\ MutexDone(NoTask, NoBoost) \in MutexOut
    BY MutexOutputs, BoostPorts
  <2>3. CASE MutexNop
    BY <2>1, <2>2, <2>3 DEF MutexNop, mutexState
  <2>4. ASSUME NEW m \in Mutexes, NEW t \in Tasks, MutexLockFree(m, t) PROVE MutexInv'
    BY <2>1, <2>2, <2>4 DEF MutexLockFree
  <2>5. ASSUME NEW m \in Mutexes, NEW t \in Tasks, MutexLockBlock(m, t) PROVE MutexInv'
    <3> DEFINE b == IF prio[t] > prio[owner_id_r[m]]
                    THEN Boost(owner_id_r[m], prio[t]) ELSE NoBoost
    <3>1. b \in BoostPort
      BY BoostPorts
    <3>2. mutex_out' \in MutexOut
      BY <2>5, <3>1, MutexOutputs DEF MutexLockBlock
    <3>3. QED
      BY <2>1, <2>5, <3>2 DEF MutexLockBlock
  <2>6. ASSUME NEW m \in Mutexes, NEW t \in Tasks, MutexHandOff(m, t) PROVE MutexInv'
    <3> DEFINE w == BestWaiter(mutex_wait_r[m], prio)
    <3>1. w \in Tasks /\ prio[w] \in Prios
      BY <2>6, MutexHeir DEF MutexHandOff
    <3>2. mutex_out' \in MutexOut
      BY <2>6, <3>1, MutexOutputs, BoostPorts DEF MutexHandOff
    <3>3. QED
      BY <2>1, <2>6, <3>1, <3>2 DEF MutexHandOff, Owns
  <2>7. ASSUME NEW m \in Mutexes, NEW t \in Tasks, MutexRelease(m, t) PROVE MutexInv'
    <3>1. mutex_out' \in MutexOut
      BY <2>7, MutexOutputs, BoostPorts DEF MutexRelease
    <3>2. 0 \in Tasks
      BY TasksAssumption DEF Tasks
    <3>3. QED
      BY <2>1, <2>7, <3>1, <3>2 DEF MutexRelease
  <2>8. ASSUME NEW m \in Mutexes, NEW t \in Tasks, MutexUnlockForeign(m, t) PROVE MutexInv'
    BY <2>1, <2>2, <2>8 DEF MutexUnlockForeign, mutexState
  <2>9. QED
    BY <1>2, <2>3, <2>4, <2>5, <2>6, <2>7, <2>8 DEF Next, MutexLock, MutexUnlock
<1>3. QED
  BY <1>1, <1>2

LEMMA MutexInvariant == Spec => []MutexInv
<1>1. Init => MutexInv
  BY MutexInitInv
<1>2. MutexInv /\ [Next]_mutexVars => MutexInv'
  BY MutexNextInv
<1>3. QED
  BY <1>1, <1>2, PTL DEF Spec

\* The registers of hw_mutex.sv keep their declared ranges.
THEOREM MutexTypeCorrect == Spec => []MutexTypeOK
<1>1. MutexInv => MutexTypeOK
  BY DEF MutexInv
<1>2. QED
  BY <1>1, MutexInvariant, PTL

\* Nobody ever sleeps on a free mutex: an unlock with waiters hands the mutex
\* over instead of freeing it.
THEOREM NobodySleepsOnFreeMutex == Spec => []WaitersImplyLocked
<1>1. MutexInv => WaitersImplyLocked
  BY DEF MutexInv
<1>2. QED
  BY <1>1, MutexInvariant, PTL
-----------------------------------------------------------------------------
\* What a hand-off does, in the terms the properties use.
LEMMA HandOffFacts ==
  ASSUME MutexTypeOK, NEW m \in Mutexes, NEW t \in Tasks, MutexHandOff(m, t)
  PROVE  LET w == BestWaiter(mutex_wait_r[m], prio)
         IN  /\ w \in mutex_wait_r[m] /\ w \in Tasks
             /\ \A u \in mutex_wait_r[m] : prio[u] <= prio[w]
             /\ owner_id_r' = [owner_id_r EXCEPT ![m] = w]
             /\ mutex_wait_r' = [mutex_wait_r EXCEPT ![m] = @ \ {w}]
             /\ mutex_out'.wake = w
             /\ mutex_out'.boost = Boost(t, original_prio_r[m])
<1> DEFINE w == BestWaiter(mutex_wait_r[m], prio)
<1>1. /\ w \in mutex_wait_r[m] /\ w \in Tasks
      /\ \A u \in mutex_wait_r[m] : Outranks(w, u, prio)
  BY MutexHeir DEF MutexHandOff
<1>2. \A u \in mutex_wait_r[m] : prio[u] \in Int /\ prio[w] \in Int
  BY <1>1 DEF MutexTypeOK, Prios
<1>3. \A u \in mutex_wait_r[m] : prio[u] <= prio[w]
  BY <1>1, <1>2 DEF Outranks
<1>4. QED
  BY <1>1, <1>3 DEF MutexHandOff, MutexDone

\* The history against the register: while a mutex is taken, original_prio_r is
\* the priority its owner had in the array when its turn began.
SavedIsBegan == \A m \in Mutexes : locked_r[m] => began[m] = original_prio_r[m]

\* What an edge does to a mutex: it stays as it is or gets one more waiter, a
\* turn begins at it, or its turn ends with the request for its saved priority.
\* The first and the last line are what SavedIsBegan is kept by, the middle one
\* what a turn saves.
TurnKept(m) ==
  /\ locked_r'[m] = locked_r[m] /\ owner_id_r'[m] = owner_id_r[m]
  /\ original_prio_r'[m] = original_prio_r[m]
  /\ mutex_wait_r[m] \subseteq mutex_wait_r'[m]
Saves(m)    == locked_r'[m] => original_prio_r'[m] = prio[owner_id_r'[m]]
GivesBack(m) == locked_r[m] => mutex_out'.boost = Boost(owner_id_r[m], original_prio_r[m])
Turns(m)    == TurnKept(m) \/ (Saves(m) /\ GivesBack(m) /\ (locked_r'[m] => TurnBegins(m)))

\* Every edge treats every mutex so, one step per branch of the case statement.
LEMMA EdgeTurns == MutexTypeOK /\ Next => \A m \in Mutexes : Turns(m)
<1> SUFFICES ASSUME MutexTypeOK, Next, NEW m \in Mutexes PROVE Turns(m)
  OBVIOUS
<1>1. CASE MutexNop
  BY <1>1 DEF MutexNop, mutexState, Turns, TurnKept
<1>2. ASSUME NEW n \in Mutexes, NEW t \in Tasks, MutexLockFree(n, t) PROVE Turns(m)
  <2>1. CASE n = m
    BY <1>2, <2>1
    DEF MutexTypeOK, MutexLockFree, Turns, Saves, GivesBack, TurnBegins
  <2>2. CASE n # m
    BY <1>2, <2>2 DEF MutexTypeOK, MutexLockFree, Turns, TurnKept
  <2>3. QED
    BY <2>1, <2>2
<1>3. ASSUME NEW n \in Mutexes, NEW t \in Tasks,
             MutexLockBlock(n, t) \/ MutexUnlockForeign(n, t)
      PROVE  Turns(m)
  BY <1>3 DEF MutexTypeOK, MutexLockBlock, MutexUnlockForeign, mutexState, Turns, TurnKept
<1>4. ASSUME NEW n \in Mutexes, NEW t \in Tasks, MutexHandOff(n, t) PROVE Turns(m)
  <2>1. CASE n = m
    <3> DEFINE w == BestWaiter(mutex_wait_r[m], prio)
    <3>1. /\ w \in mutex_wait_r[m]
          /\ owner_id_r' = [owner_id_r EXCEPT ![m] = w]
          /\ mutex_wait_r' = [mutex_wait_r EXCEPT ![m] = @ \ {w}]
          /\ mutex_out'.boost = Boost(t, original_prio_r[m])
      BY <1>4, <2>1, HandOffFacts
    <3>2. /\ locked_r[m] /\ owner_id_r[m] = t /\ locked_r' = locked_r
          /\ original_prio_r' = [original_prio_r EXCEPT ![m] = prio[w]]
      BY <1>4, <2>1 DEF MutexHandOff, Owns
    <3> HIDE DEF w
    <3>3. owner_id_r'[m] = w /\ original_prio_r'[m] = prio[w]
      BY <3>1, <3>2 DEF MutexTypeOK
    <3>4. w \in mutex_wait_r[m] \ mutex_wait_r'[m]
      BY <3>1 DEF MutexTypeOK
    <3>5. Saves(m) /\ GivesBack(m) /\ TurnBegins(m)
      BY <3>1, <3>2, <3>3, <3>4 DEF Saves, GivesBack, TurnBegins, HandsOn
    <3>6. QED
      BY <3>5 DEF Turns
  <2>2. CASE n # m
    BY <1>4, <2>2 DEF MutexTypeOK, MutexHandOff, Turns, TurnKept
  <2>3. QED
    BY <2>1, <2>2
<1>5. ASSUME NEW n \in Mutexes, NEW t \in Tasks, MutexRelease(n, t) PROVE Turns(m)
  <2>1. CASE n = m
    BY <1>5, <2>1
    DEF MutexTypeOK, MutexRelease, MutexDone, Owns, Turns, Saves, GivesBack
  <2>2. CASE n # m
    BY <1>5, <2>2 DEF MutexTypeOK, MutexRelease, Turns, TurnKept
  <2>3. QED
    BY <2>1, <2>2
<1>6. QED
  BY <1>1, <1>2, <1>3, <1>4, <1>5 DEF Next, MutexLock, MutexUnlock

\* Each edge keeps the history beside the register.
LEMMA HistoryInvariant == HistorySpec => [](MutexInv /\ SavedIsBegan)
<1>1. HistoryInit => MutexInv /\ SavedIsBegan
  BY MutexInitInv DEF HistoryInit, Init, MutexInit, SavedIsBegan
<1>2. ASSUME MutexInv, SavedIsBegan, [HistoryNext]_historyVars
      PROVE  MutexInv' /\ SavedIsBegan'
  <2>1. MutexInv'
    BY <1>2, MutexNextInv DEF HistoryNext, historyVars
  <2>2. CASE UNCHANGED historyVars
    BY <1>2, <2>1, <2>2 DEF historyVars, mutexVars, SavedIsBegan
  <2>3. CASE HistoryNext
    <3> SUFFICES ASSUME NEW m \in Mutexes, locked_r'[m]
                 PROVE  began'[m] = original_prio_r'[m]
      BY <2>1 DEF SavedIsBegan
    <3>1. began'[m] = IF TurnBegins(m) THEN prio[owner_id_r'[m]] ELSE began[m]
      BY <2>3 DEF HistoryNext
    <3>2. Turns(m)
      BY <1>2, <2>3, EdgeTurns DEF MutexInv, HistoryNext
    <3>3. CASE TurnKept(m)
      <4>1. ~TurnBegins(m) /\ locked_r[m]
        BY <3>3 DEF TurnKept, TurnBegins, HandsOn
      <4>2. QED
        BY <1>2, <3>1, <3>3, <4>1 DEF TurnKept, SavedIsBegan
    <3>4. CASE ~TurnKept(m)
      BY <3>1, <3>2, <3>4 DEF Turns, Saves
    <3>5. QED
      BY <3>3, <3>4
  <2>4. QED
    BY <1>2, <2>1, <2>2, <2>3
<1>3. QED
  BY <1>1, <1>2, PTL DEF HistorySpec

\* A turn of an owner ends only with the request for the priority it had in the
\* array when the turn began, over hand-offs, loans and foreign unlocks, for any
\* number of tasks, priorities and mutexes (original_prio_r).
THEOREM OwnershipEnds == HistorySpec => OwnershipEndsWithRestore
<1> DEFINE Restored ==
      \A m \in Mutexes : TurnEnds(m) => mutex_out'.boost = Boost(owner_id_r[m], began[m])
<1>1. ASSUME MutexInv, SavedIsBegan, HistoryNext PROVE Restored
  <2> SUFFICES ASSUME NEW m \in Mutexes, TurnEnds(m)
               PROVE  mutex_out'.boost = Boost(owner_id_r[m], began[m])
    OBVIOUS
  <2>1. Turns(m)
    BY <1>1, EdgeTurns DEF MutexInv, HistoryNext
  <2>2. ~TurnKept(m) /\ locked_r[m]
    BY DEF TurnEnds, TurnKept, HandsOn
  <2>3. mutex_out'.boost = Boost(owner_id_r[m], original_prio_r[m])
    BY <2>1, <2>2 DEF Turns, GivesBack
  <2>4. QED
    BY <1>1, <2>2, <2>3 DEF SavedIsBegan
<1>2. MutexInv /\ SavedIsBegan /\ [HistoryNext]_historyVars => [Restored]_historyVars
  BY <1>1
<1>3. QED
  BY <1>2, HistoryInvariant, PTL DEF HistorySpec, OwnershipEndsWithRestore

\* A task that joins a wait mask is no more urgent than the owner, or lends it
\* its priority in the same edge (the inheritance test of MUTEX_LOCK).
THEOREM WaitersLend == Spec => WaiterLendsPriority
<1> DEFINE Lent ==
      \A m \in Mutexes : \A t \in mutex_wait_r'[m] \ mutex_wait_r[m] :
        \/ prio[t] <= prio[owner_id_r[m]]
        \/ mutex_out'.boost = Boost(owner_id_r[m], prio[t])
<1>1. ASSUME MutexTypeOK, Next PROVE Lent
  <2> SUFFICES ASSUME NEW m \in Mutexes, NEW t \in mutex_wait_r'[m] \ mutex_wait_r[m]
               PROVE  \/ prio[t] <= prio[owner_id_r[m]]
                      \/ mutex_out'.boost = Boost(owner_id_r[m], prio[t])
    OBVIOUS
  <2>1. ASSUME NEW n \in Mutexes, NEW u \in Tasks, MutexLockBlock(n, u)
        PROVE  \/ prio[t] <= prio[owner_id_r[m]]
               \/ mutex_out'.boost = Boost(owner_id_r[m], prio[t])
    <3>1. n = m /\ u = t
      BY <1>1, <2>1 DEF MutexLockBlock, MutexTypeOK
    <3>2. prio[t] \in Int /\ prio[owner_id_r[m]] \in Int
      BY <1>1, <3>1 DEF MutexTypeOK, Prios
    <3>3. CASE prio[t] > prio[owner_id_r[m]]
      BY <2>1, <3>1, <3>3 DEF MutexLockBlock, MutexBlock
    <3>4. QED
      BY <3>2, <3>3
  <2>2. CASE ~ \E n \in Mutexes, u \in Tasks : MutexLockBlock(n, u)
    <3>1. \A n \in Mutexes : mutex_wait_r'[n] \subseteq mutex_wait_r[n]
      BY <1>1, <2>2
      DEF Next, MutexNop, MutexLock, MutexUnlock, MutexLockFree, MutexHandOff,
          MutexRelease, MutexUnlockForeign, mutexState, MutexTypeOK
    <3>2. QED
      BY <3>1
  <2>3. QED
    BY <2>1, <2>2
<1>2. MutexInv /\ [Next]_mutexVars => [Lent]_mutexVars
  BY <1>1 DEF MutexInv
<1>3. QED
  BY <1>2, MutexInvariant, PTL DEF Spec, WaiterLendsPriority

\* Ownership that passes from task to task passes to the most urgent waiter.
THEOREM HandOffToMostUrgent == Spec => HandOffLeavesNoInversion
<1> DEFINE NoInversion ==
      \A m \in Mutexes :
        mutex_out'.wake # NoTask /\ owner_id_r'[m] # owner_id_r[m] =>
          \A u \in mutex_wait_r'[m] : prio[u] <= prio[owner_id_r'[m]]
<1>1. ASSUME MutexTypeOK, Next PROVE NoInversion
  <2>1. ASSUME NEW n \in Mutexes, NEW t \in Tasks, MutexHandOff(n, t)
        PROVE  NoInversion
    BY <1>1, <2>1, HandOffFacts DEF MutexTypeOK
  <2>2. CASE ~ \E n \in Mutexes, t \in Tasks : MutexHandOff(n, t)
    <3>1. mutex_out'.wake = NoTask
      BY <1>1, <2>2
      DEF Next, MutexNop, MutexLock, MutexUnlock, MutexLockFree, MutexLockBlock,
          MutexRelease, MutexUnlockForeign, MutexIdle, MutexDone, MutexBlock
    <3>2. QED
      BY <3>1
  <2>3. QED
    BY <2>1, <2>2
<1>2. MutexInv /\ [Next]_mutexVars => [NoInversion]_mutexVars
  BY <1>1 DEF MutexInv
<1>3. QED
  BY <1>2, MutexInvariant, PTL DEF Spec, HandOffLeavesNoInversion

-----------------------------------------------------------------------------
\* An edge that leaves all but one mutex alone changes one entry of Holder.
LEMMA HolderChange ==
  ASSUME NEW m \in Mutexes, NEW h, MutexTypeOK, MutexTypeOK',
         \A x \in Mutexes \ {m} :
           locked_r'[x] = locked_r[x] /\ owner_id_r'[x] = owner_id_r[x],
         h = IF locked_r'[m] THEN owner_id_r'[m] ELSE NoTask
  PROVE  Holder' = [Holder EXCEPT ![m] = h]
BY DEF Holder, MutexTypeOK

\* hw_mutex.sv is a lock with hand-off: one holder at a time, and every change
\* of holder is an acquisition of a free lock, a hand-off to a task that asked,
\* or a release that nobody waits for.
THEOREM MutexRefinesLock == Spec => ImplementsLock
<1>1. Init => Lock!Init
  BY DEF Init, MutexInit, Lock!Init, Holder
<1>2. ASSUME MutexInv, MutexInv', [Next]_mutexVars PROVE [Lock!Next]_(Lock!lockVars)
  <2>1. MutexTypeOK /\ MutexTypeOK' /\ WaitersImplyLocked
    BY <1>2 DEF MutexInv
  <2>2. NoTask \notin Tasks
    BY TasksAssumption DEF NoTask, Tasks
  <2>3. ASSUME NEW m \in Mutexes, NEW t \in Tasks, MutexLockFree(m, t)
        PROVE  Lock!Acquire(m, t)
    <3>1. Holder[m] = NoTask
      BY <2>3 DEF MutexLockFree, Holder
    <3>2. Holder' = [Holder EXCEPT ![m] = t]
      BY <2>1, <2>3, HolderChange DEF MutexLockFree, MutexTypeOK
    <3>3. QED
      BY <2>3, <3>1, <3>2 DEF Lock!Acquire, MutexLockFree
  <2>4. ASSUME NEW m \in Mutexes, NEW t \in Tasks, MutexLockBlock(m, t)
        PROVE  Lock!Ask(m, t)
    <3>1. Holder[m] # NoTask
      BY <2>1, <2>2, <2>4 DEF MutexLockBlock, Holder, MutexTypeOK
    <3>2. Holder' = Holder
      BY <2>4 DEF MutexLockBlock, Holder
    <3>3. QED
      BY <2>4, <3>1, <3>2 DEF Lock!Ask, MutexLockBlock
  <2>5. ASSUME NEW m \in Mutexes, NEW t \in Tasks, MutexHandOff(m, t)
        PROVE  \E w \in Tasks : Lock!HandOff(m, w)
    <3> DEFINE w == BestWaiter(mutex_wait_r[m], prio)
    <3>1. /\ w \in mutex_wait_r[m] /\ w \in Tasks
          /\ owner_id_r' = [owner_id_r EXCEPT ![m] = w]
          /\ mutex_wait_r' = [mutex_wait_r EXCEPT ![m] = @ \ {w}]
      BY <2>1, <2>5, HandOffFacts
    <3>2. locked_r' = locked_r /\ locked_r[m]
      BY <2>5 DEF MutexHandOff, Owns
    <3>3. Holder' = [Holder EXCEPT ![m] = w]
      BY <2>1, <3>1, <3>2, HolderChange DEF MutexTypeOK
    <3>4. QED
      BY <3>1, <3>3 DEF Lock!HandOff
  <2>6. ASSUME NEW m \in Mutexes, NEW t \in Tasks, MutexRelease(m, t)
        PROVE  Lock!Release(m)
    <3>1. Holder' = [Holder EXCEPT ![m] = NoTask]
      BY <2>1, <2>6, HolderChange DEF MutexRelease, MutexTypeOK
    <3>2. QED
      BY <2>6, <3>1 DEF Lock!Release, MutexRelease
  <2>7. CASE \/ MutexNop \/ UNCHANGED mutexVars
             \/ \E m \in Mutexes, t \in Tasks : MutexUnlockForeign(m, t)
    BY <2>7 DEF MutexNop, MutexUnlockForeign, mutexState, mutexVars, Holder, Lock!lockVars
  <2>8. QED
    BY <1>2, <2>3, <2>4, <2>5, <2>6, <2>7 DEF Next, MutexLock, MutexUnlock, Lock!Next
<1>3. QED
  BY <1>1, <1>2, MutexInvariant, PTL DEF Spec, ImplementsLock, Lock!Spec
=============================================================================
