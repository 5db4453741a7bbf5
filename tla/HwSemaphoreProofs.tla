------------------------- MODULE HwSemaphoreProofs -------------------------
(***************************************************************************)
(* The safety of hw_semaphore.sv, for any number of tasks, priorities,     *)
(* semaphores and any count bound.                                         *)
(***************************************************************************)
EXTENDS HwSemaphore, RtosTasksProofs, FiniteSetTheorems

\* SemTypeOK alone is inductive; the two other conjuncts rest on it.
SemInv == SemTypeOK /\ WaitersOnlyAtZero /\ CountWithinMax

\* The outputs the case statement can produce fit the output registers.
LEMMA SemOutputs ==
  /\ SemIdle \in SemOut /\ SemSuccess \in SemOut /\ SemBlock \in SemOut
  /\ \A t \in Tasks : SemWake(t) \in SemOut
  /\ SemIdle.wake = NoTask /\ SemSuccess.wake = NoTask /\ SemBlock.wake = NoTask
  /\ \A t \in Tasks : SemWake(t).wake = t
<1>1. SemIdle \in SemOut /\ SemSuccess \in SemOut /\ SemBlock \in SemOut
  BY DEF SemIdle, SemSuccess, SemBlock, SemOut
<1>2. SemIdle.wake = NoTask /\ SemSuccess.wake = NoTask /\ SemBlock.wake = NoTask
  BY DEF SemIdle, SemSuccess, SemBlock
<1>3. ASSUME NEW t \in Tasks PROVE SemWake(t) \in SemOut /\ SemWake(t).wake = t
  BY DEF SemIdle, SemSuccess, SemWake, SemOut
<1>4. QED
  BY <1>1, <1>2, <1>3

LEMMA SemInitInv == Init => SemInv
<1> SUFFICES ASSUME Init PROVE SemInv
  OBVIOUS
<1> USE SemAssumption DEF Init, SemInit
<1>1. SemTypeOK
  BY SemOutputs DEF SemTypeOK, Counts
<1>2. WaitersOnlyAtZero /\ CountWithinMax
  BY DEF WaitersOnlyAtZero, CountWithinMax
<1>3. QED
  BY <1>1, <1>2 DEF SemInv

\* The waiter that a POST serves, from the lemma about the encoder.
LEMMA SemServed ==
  ASSUME SemTypeOK, NEW s \in Sems, wait_mask_r[s] # {}
  PROVE  /\ BestWaiter(wait_mask_r[s], prio) \in wait_mask_r[s]
         /\ BestWaiter(wait_mask_r[s], prio) \in Tasks
         /\ \A u \in wait_mask_r[s] : Outranks(BestWaiter(wait_mask_r[s], prio), u, prio)
<1>1. wait_mask_r[s] \in SUBSET Tasks /\ prio \in [Tasks -> Prios]
  BY DEF SemTypeOK
<1>2. QED
  BY <1>1, BestWaiterOutranks

\* Every edge keeps the invariant, one step per branch of the case statement.
LEMMA SemNextInv == SemInv /\ [Next]_semVars => SemInv'
<1> SUFFICES ASSUME SemInv, [Next]_semVars PROVE SemInv'
  OBVIOUS
<1> USE SemAssumption DEF SemInv, SemTypeOK, WaitersOnlyAtZero, CountWithinMax, Counts
<1>1. CASE UNCHANGED semVars
  BY <1>1 DEF semVars
<1>2. CASE Next
  <2>1. prio' \in [Tasks -> Prios]
    BY <1>2 DEF Next, PrioChange
  <2>2. CASE SemNop
    BY <2>1, <2>2, SemOutputs DEF SemNop, semState
  <2>3. ASSUME NEW s \in Sems, NEW n \in Counts, SemSetup(s, n) PROVE SemInv'
    BY <2>1, <2>3, SemOutputs DEF SemSetup
  <2>4. ASSUME NEW s \in Sems, SemWaitTake(s) PROVE SemInv'
    BY <2>1, <2>4, SemOutputs DEF SemWaitTake
  <2>5. ASSUME NEW s \in Sems, NEW t \in Tasks, SemWaitBlock(s, t) PROVE SemInv'
    BY <2>1, <2>5, SemOutputs DEF SemWaitBlock
  <2>6. ASSUME NEW s \in Sems, SemPostWake(s) PROVE SemInv'
    <3> DEFINE t == BestWaiter(wait_mask_r[s], prio)
    <3>1. t \in Tasks
      BY <2>6, SemServed DEF SemPostWake
    <3>2. sem_out' \in SemOut
      BY <2>6, <3>1, SemOutputs DEF SemPostWake
    <3>3. wait_mask_r' \in [Sems -> SUBSET Tasks]
      BY <2>6 DEF SemPostWake
    <3>4. \A x \in Sems : wait_mask_r'[x] \subseteq wait_mask_r[x]
      BY <2>6 DEF SemPostWake
    <3>5. QED
      BY <2>1, <2>6, <3>2, <3>3, <3>4 DEF SemPostWake
  <2>7. ASSUME NEW s \in Sems, SemPostCount(s) PROVE SemInv'
    BY <2>1, <2>7, SemOutputs DEF SemPostCount
  <2>8. ASSUME NEW s \in Sems, SemPostFull(s) PROVE SemInv'
    BY <2>1, <2>8, SemOutputs DEF SemPostFull, SemNop, semState
  <2>9. QED
    BY <1>2, <2>2, <2>3, <2>4, <2>5, <2>6, <2>7, <2>8 DEF Next, SemWait, SemPost
<1>3. QED
  BY <1>1, <1>2

\* The invariant holds in every reachable state.
LEMMA SemInvariant == Spec => []SemInv
<1>1. Init => SemInv
  BY SemInitInv
<1>2. SemInv /\ [Next]_semVars => SemInv'
  BY SemNextInv
<1>3. QED
  BY <1>1, <1>2, PTL DEF Spec

\* The registers of hw_semaphore.sv keep their declared ranges.
THEOREM SemTypeCorrect == Spec => []SemTypeOK
<1>1. SemInv => SemTypeOK
  BY DEF SemInv
<1>2. QED
  BY <1>1, SemInvariant, PTL

\* No permit is ever stranded beside a waiting task, whatever the sequence of
\* operations (POST serves waiters first, INIT drops them).
THEOREM NoPermitStranded == Spec => []WaitersOnlyAtZero
<1>1. SemInv => WaitersOnlyAtZero
  BY DEF SemInv
<1>2. QED
  BY <1>1, SemInvariant, PTL

\* The count never passes the bound of its last INIT, so it never wraps.
THEOREM CountNeverWraps == Spec => []CountWithinMax
<1>1. SemInv => CountWithinMax
  BY DEF SemInv
<1>2. QED
  BY <1>1, SemInvariant, PTL

\* What the edges above use as the result of the priority encoder is what its loop computes,
\* whatever mask and whatever priorities it meets (the always_comb block of hw_semaphore.sv).
THEOREM EncoderIsRight == Spec => []EncoderFindsBest
<1>1. ASSUME SemTypeOK PROVE EncoderFindsBest
  <2>1. \A s \in Sems : wait_mask_r[s] \in SUBSET Tasks
    BY <1>1 DEF SemTypeOK
  <2>2. prio \in [Tasks -> Prios]
    BY <1>1 DEF SemTypeOK
  <2>3. ASSUME NEW s \in Sems
        PROVE  EncoderLoop(wait_mask_r[s], prio) =
                 IF wait_mask_r[s] = {} THEN NoTask ELSE BestWaiter(wait_mask_r[s], prio)
    <3>1. PICK mask \in SUBSET Tasks, p \in [Tasks -> Prios] :
            mask = wait_mask_r[s] /\ p = prio
      BY <2>1, <2>2
    <3>2. EncoderLoop(mask, p) = IF mask = {} THEN NoTask ELSE BestWaiter(mask, p)
      BY EncoderLoopFindsBest
    <3>3. QED
      BY <3>1, <3>2
  <2>4. QED
    BY <2>3 DEF EncoderFindsBest
<1>2. QED
  BY <1>1, SemTypeCorrect, PTL

\* Every wake-up serves the most urgent waiter of one semaphore and nobody else
\* (the wake branch of POST).
THEOREM WakeIsMostUrgent == Spec => WakeServesMostUrgent
<1> DEFINE Served ==
      sem_out'.wake # NoTask =>
        \E s \in Sems :
          /\ sem_out'.wake \in wait_mask_r[s] \ wait_mask_r'[s]
          /\ wait_mask_r[s] = wait_mask_r'[s] \cup {sem_out'.wake}
          /\ \A u \in wait_mask_r'[s] : ~Outranks(u, sem_out'.wake, prio)
<1>1. ASSUME SemTypeOK, Next PROVE Served
  <2>1. ASSUME NEW s \in Sems, SemPostWake(s) PROVE Served
    <3> DEFINE t == BestWaiter(wait_mask_r[s], prio)
    <3>1. /\ t \in wait_mask_r[s] /\ t \in Tasks
          /\ \A u \in wait_mask_r[s] : Outranks(t, u, prio)
      BY <1>1, <2>1, SemServed DEF SemPostWake
    <3>2. /\ wait_mask_r'[s] = wait_mask_r[s] \ {t}
          /\ sem_out'.wake = t
      BY <1>1, <2>1, <3>1, SemOutputs DEF SemPostWake, SemTypeOK
    <3>3. ASSUME NEW u \in wait_mask_r[s], u # t PROVE ~Outranks(u, t, prio)
      <4>1. Outranks(t, u, prio)
        BY <3>1
      <4>2. t \in Int /\ u \in Int /\ prio[t] \in Int /\ prio[u] \in Int
        BY <1>1, <3>1, TasksAssumption DEF SemTypeOK, Tasks, Prios
      <4>3. QED
        BY <3>3, <4>1, <4>2 DEF Outranks
    <3>4. QED
      BY <3>1, <3>2, <3>3
  <2>2. CASE \A s \in Sems : ~SemPostWake(s)
    <3>1. sem_out'.wake = NoTask
      BY <1>1, <2>2, SemOutputs
      DEF Next, SemNop, SemSetup, SemWait, SemWaitTake, SemWaitBlock,
          SemPost, SemPostCount, SemPostFull
    <3>2. QED
      BY <3>1
  <2>3. QED
    BY <2>1, <2>2
<1>2. SemInv /\ [Next]_semVars => [Served]_semVars
  BY <1>1 DEF SemInv
<1>3. QED
  BY <1>2, SemInvariant, PTL DEF Spec, WakeServesMostUrgent

-----------------------------------------------------------------------------
\* A wait mask is a finite set, and adding or removing one task moves its size
\* by one: the arithmetic of the refinement mapping.
LEMMA MaskSize ==
  ASSUME NEW mask \in SUBSET Tasks
  PROVE  /\ Cardinality(mask) \in Nat
         /\ mask = {} <=> Cardinality(mask) = 0
         /\ \A t \in mask : Cardinality(mask \ {t}) = Cardinality(mask) - 1
         /\ \A t : t \notin mask => Cardinality(mask \cup {t}) = Cardinality(mask) + 1
<1>1. IsFiniteSet(Tasks)
  BY TasksAssumption, FS_Interval DEF Tasks
<1>2. IsFiniteSet(mask)
  BY <1>1, FS_Subset
<1>3. QED
  BY <1>2, FS_CardinalityType, FS_EmptySet, FS_AddElement, FS_RemoveElement

\* An edge that leaves all but one semaphore alone changes one entry of Value.
LEMMA ValueChange ==
  ASSUME NEW s \in Sems, SemTypeOK, SemTypeOK',
         \A x \in Sems \ {s} : count_r'[x] = count_r[x] /\ wait_mask_r'[x] = wait_mask_r[x]
  PROVE  Value' = [Value EXCEPT ![s] = count_r'[s] - Cardinality(wait_mask_r'[s])]
BY DEF Value, SemTypeOK

\* hw_semaphore.sv is a counting semaphore in Dijkstra's sense: every edge is a
\* reset, a P, a V below the bound, or leaves the integer alone.
THEOREM SemRefinesDijkstra == Spec => ImplementsSemaphore
<1> USE SemAssumption
<1>1. Init => Dijkstra!Init
  <2> SUFFICES ASSUME Init PROVE Value = [s \in Sems |-> 0]
    BY DEF Dijkstra!Init
  <2>1. \A s \in Sems : count_r[s] - Cardinality(wait_mask_r[s]) = 0
    BY FS_EmptySet DEF Init, SemInit
  <2>2. QED
    BY <2>1 DEF Value
<1>2. ASSUME SemInv, SemInv', [Next]_semVars PROVE [Dijkstra!Next]_Value
  <2> DEFINE OnlyAt(s) == \A x \in Sems \ {s} : /\ count_r'[x] = count_r[x]
                                                /\ wait_mask_r'[x] = wait_mask_r[x]
             Size(s)   == Cardinality(wait_mask_r[s])
  <2>1. SemTypeOK /\ SemTypeOK' /\ WaitersOnlyAtZero /\ CountWithinMax
    BY <1>2 DEF SemInv
  <2>2. ASSUME NEW s \in Sems, OnlyAt(s)
        PROVE  Value' = [Value EXCEPT ![s] = count_r'[s] - Cardinality(wait_mask_r'[s])]
    BY <2>1, <2>2, ValueChange
  <2>3. \A s \in Sems : /\ Value[s] = count_r[s] - Size(s)
                        /\ Size(s) \in Nat
                        /\ count_r[s] \in 0 .. MAX_COUNT
                        /\ max_count_r[s] \in 0 .. MAX_COUNT
                        /\ wait_mask_r[s] \in SUBSET Tasks
    BY <2>1, MaskSize DEF Value, SemTypeOK, Counts
  <2>4. ASSUME NEW s \in Sems, NEW n \in Counts, SemSetup(s, n)
        PROVE  Dijkstra!Reset(s)
    <3>1. OnlyAt(s) /\ count_r'[s] = n /\ wait_mask_r'[s] = {}
      BY <2>1, <2>4 DEF SemSetup, SemTypeOK
    <3>2. Value' = [Value EXCEPT ![s] = n]
      BY <2>2, <3>1, FS_EmptySet DEF Counts
    <3>3. QED
      BY <3>2 DEF Dijkstra!Reset, Counts
  <2>5. ASSUME NEW s \in Sems, SemWaitTake(s) PROVE Dijkstra!P(s)
    <3>1. /\ OnlyAt(s)
          /\ count_r'[s] = count_r[s] - 1 /\ wait_mask_r'[s] = wait_mask_r[s]
      BY <2>1, <2>5 DEF SemWaitTake, SemTypeOK
    <3>2. count_r'[s] - Cardinality(wait_mask_r'[s]) = Value[s] - 1
      BY <2>3, <3>1
    <3>3. QED
      BY <2>2, <3>1, <3>2 DEF Dijkstra!P
  <2>6. ASSUME NEW s \in Sems, NEW t \in Tasks, SemWaitBlock(s, t)
        PROVE  Dijkstra!P(s) \/ UNCHANGED Value
    <3>1. /\ OnlyAt(s)
          /\ count_r' = count_r /\ wait_mask_r'[s] = wait_mask_r[s] \cup {t}
      BY <2>1, <2>6 DEF SemWaitBlock, SemTypeOK
    <3>2. CASE t \in wait_mask_r[s]
      <4>1. wait_mask_r' = wait_mask_r
        BY <2>1, <2>6, <3>2 DEF SemWaitBlock, SemTypeOK
      <4>2. QED
        BY <3>1, <4>1 DEF Value
    <3>3. CASE t \notin wait_mask_r[s]
      <4>1. Cardinality(wait_mask_r'[s]) = Size(s) + 1
        BY <2>3, <3>1, <3>3, MaskSize
      <4>2. count_r'[s] - Cardinality(wait_mask_r'[s]) = Value[s] - 1
        BY <2>3, <3>1, <4>1
      <4>3. QED
        BY <2>2, <3>1, <4>2 DEF Dijkstra!P
    <3>4. QED
      BY <3>2, <3>3
  <2>7. ASSUME NEW s \in Sems, SemPostWake(s) PROVE Dijkstra!V(s)
    <3> DEFINE t == BestWaiter(wait_mask_r[s], prio)
    <3>1. /\ OnlyAt(s) /\ count_r' = count_r
          /\ wait_mask_r'[s] = wait_mask_r[s] \ {t} /\ t \in wait_mask_r[s]
      BY <2>1, <2>7, SemServed DEF SemPostWake, SemTypeOK
    <3>2. Cardinality(wait_mask_r'[s]) = Size(s) - 1 /\ Size(s) # 0
      BY <2>3, <3>1, MaskSize
    <3>3. count_r[s] = 0
      BY <2>1, <3>1 DEF WaitersOnlyAtZero
    <3>4. /\ count_r'[s] - Cardinality(wait_mask_r'[s]) = Value[s] + 1
          /\ Value[s] < MAX_COUNT
      <4>1. Value[s] = 0 - Size(s) /\ Size(s) \in Nat \ {0}
        BY <2>3, <3>2, <3>3
      <4>2. count_r'[s] - Cardinality(wait_mask_r'[s]) = 0 - (Size(s) - 1)
        BY <3>1, <3>2, <3>3
      <4>3. QED
        BY <4>1, <4>2
    <3>5. QED
      BY <2>2, <3>1, <3>4 DEF Dijkstra!V
  <2>8. ASSUME NEW s \in Sems, SemPostCount(s) PROVE Dijkstra!V(s)
    <3>1. /\ OnlyAt(s) /\ count_r[s] < max_count_r[s]
          /\ count_r'[s] = count_r[s] + 1 /\ wait_mask_r'[s] = wait_mask_r[s]
      BY <2>1, <2>8 DEF SemPostCount, SemTypeOK
    <3>2. /\ count_r'[s] - Cardinality(wait_mask_r'[s]) = Value[s] + 1
          /\ Value[s] < MAX_COUNT
      BY <2>3, <3>1
    <3>3. QED
      BY <2>2, <3>1, <3>2 DEF Dijkstra!V
  <2>9. CASE SemNop \/ (\E s \in Sems : SemPostFull(s)) \/ UNCHANGED semVars
    BY <2>9 DEF SemPostFull, SemNop, semState, semVars, Value
  <2>10. QED
    BY <1>2, <2>4, <2>5, <2>6, <2>7, <2>8, <2>9
    DEF Next, SemWait, SemPost, Dijkstra!Next
<1>3. QED
  BY <1>1, <1>2, SemInvariant, PTL DEF Spec, ImplementsSemaphore, Dijkstra!Spec
=============================================================================
