-------------------------- MODULE RtosTasksProofs --------------------------
(***************************************************************************)
(* What the priority encoders of RtosTasks select: lemmas for the proofs   *)
(* about the units that use them.                                          *)
(***************************************************************************)
EXTENDS RtosTasks, WellFoundedInduction, TLAPS

\* Every nonempty set of task ids has a least one: the encoder that keeps the
\* first set bit always has something to keep.
LEMMA LeastNat ==
  ASSUME NEW S \in SUBSET Nat, S # {}
  PROVE  \E n \in S : \A m \in S : n <= m
<1>1. PICK n \in S : \A m \in S : ~ (<<m, n>> \in OpToRel(<, Nat))
  BY WFMin, NatLessThanWellFounded, Zenon
<1>2. \A m \in S : ~ (m < n)
  BY <1>1 DEF OpToRel
<1>3. \A m \in S : n <= m
  BY <1>2
<1>4. QED
  BY <1>3

\* The same for the largest priority found in the mask.
LEMMA GreatestNat ==
  ASSUME NEW bound \in Nat, NEW S \in SUBSET (0 .. bound), S # {}
  PROVE  \E n \in S : \A m \in S : m <= n
<1> DEFINE Gap == {bound - n : n \in S}
<1>1. \A n \in S : bound - n \in Nat
  OBVIOUS
<1>2. Gap \in SUBSET Nat /\ Gap # {}
  BY <1>1, Zenon
<1>3. PICK g \in Gap : \A h \in Gap : g <= h
  BY <1>2, LeastNat
<1>4. PICK n \in S : g = bound - n
  BY <1>3
<1>5. ASSUME NEW m \in S PROVE m <= n
  <2>1. bound - m \in Gap
    OBVIOUS
  <2>2. bound - n <= bound - m
    BY <1>3, <1>4, <2>1
  <2>3. QED
    BY <2>2
<1>6. QED
  BY <1>4, <1>5

\* The waiter that the always_comb encoders of hw_semaphore.sv and hw_mutex.sv
\* select is one of the waiters, and no waiter outranks it.
LEMMA BestWaiterOutranks ==
  ASSUME NEW mask \in SUBSET Tasks, mask # {}, NEW p \in [Tasks -> Prios]
  PROVE  /\ BestWaiter(mask, p) \in mask
         /\ \A u \in mask : Outranks(BestWaiter(mask, p), u, p)
<1> USE TasksAssumption
<1> DEFINE Levels == {p[t] : t \in mask}
<1>1. Levels \in SUBSET (0 .. PRIO_MAX) /\ Levels # {}
  BY DEF Prios
<1>2. PICK l \in Levels : \A k \in Levels : k <= l
  BY <1>1, GreatestNat
<1> DEFINE Top == {t \in mask : p[t] = l}
<1>3. Top \in SUBSET Nat /\ Top # {}
  BY <1>2 DEF Tasks
<1>4. PICK t \in Top : \A u \in Top : t <= u
  BY <1>3, LeastNat
<1>5. ASSUME NEW u \in mask PROVE Outranks(t, u, p)
  <2>1. p[u] <= l /\ p[u] \in Int /\ l \in Int /\ p[t] = l
    BY <1>1, <1>2 DEF Prios
  <2>2. CASE p[u] = l
    BY <1>4, <2>1, <2>2 DEF Outranks
  <2>3. CASE p[u] < l
    BY <2>1, <2>3 DEF Outranks
  <2>4. QED
    BY <2>1, <2>2, <2>3
<1>6. \E w \in mask : \A u \in mask : Outranks(w, u, p)
  BY <1>4, <1>5
<1>7. QED
  BY <1>6 DEF BestWaiter

\* The waiter that the plain encoder of hw_msgqueue.sv selects is a waiter.
LEMMA FirstWaiterIsLeast ==
  ASSUME NEW mask \in SUBSET Tasks, mask # {}
  PROVE  /\ FirstWaiter(mask) \in mask
         /\ \A u \in mask : FirstWaiter(mask) <= u
<1>1. mask \in SUBSET Nat
  BY TasksAssumption DEF Tasks
<1>2. \E t \in mask : \A u \in mask : t <= u
  BY <1>1, LeastNat
<1>3. QED
  BY <1>2 DEF FirstWaiter
\* The best waiter is the only one that outranks all: ids break the ties.
LEMMA BestWaiterUnique ==
  ASSUME NEW mask \in SUBSET Tasks, NEW p \in [Tasks -> Prios],
         NEW t \in mask, \A u \in mask : Outranks(t, u, p)
  PROVE  BestWaiter(mask, p) = t
<1>1. /\ BestWaiter(mask, p) \in mask
      /\ \A u \in mask : Outranks(BestWaiter(mask, p), u, p)
  BY BestWaiterOutranks
<1>2. PICK b \in mask : b = BestWaiter(mask, p) /\ Outranks(b, t, p) /\ Outranks(t, b, p)
  BY <1>1
<1>3. b \in Int /\ t \in Int /\ p[b] \in Int /\ p[t] \in Int
  BY TasksAssumption DEF Tasks, Prios
<1>4. QED
  BY <1>2, <1>3 DEF Outranks

\* One more waiter, with an id above all the others, is the best one exactly when it is
\* strictly more urgent than the best so far: the comparison of the encoder's loop.
LEMMA BestWithOneMore ==
  ASSUME NEW S \in SUBSET Tasks, NEW p \in [Tasks -> Prios], NEW i \in Tasks,
         \A t \in S : t < i
  PROVE  /\ S = {} => BestWaiter(S \cup {i}, p) = i
         /\ S # {} => /\ BestWaiter(S, p) \in S
                      /\ BestWaiter(S \cup {i}, p) =
                           IF p[i] > p[BestWaiter(S, p)] THEN i ELSE BestWaiter(S, p)
<1>1. i \in Int /\ p[i] \in Int /\ \A t \in Tasks : t \in Int /\ p[t] \in Int
  BY TasksAssumption DEF Tasks, Prios
<1>2. S \cup {i} \in SUBSET Tasks /\ i \in S \cup {i}
  OBVIOUS
<1>3. ASSUME S = {} PROVE BestWaiter(S \cup {i}, p) = i
  <2>1. \A u \in S \cup {i} : Outranks(i, u, p)
    BY <1>1, <1>3 DEF Outranks
  <2>2. QED
    BY <1>2, <2>1, BestWaiterUnique
<1>4. ASSUME S # {}
      PROVE  /\ BestWaiter(S, p) \in S
             /\ BestWaiter(S \cup {i}, p) =
                  IF p[i] > p[BestWaiter(S, p)] THEN i ELSE BestWaiter(S, p)
  <2>1. PICK b \in S : b = BestWaiter(S, p) /\ \A u \in S : Outranks(b, u, p)
    BY <1>4, BestWaiterOutranks
  <2>2. b < i /\ b \in Int /\ p[b] \in Int /\ b \in S \cup {i}
    BY <1>1
  <2>3. CASE p[i] > p[b]
    <3>1. \A u \in S \cup {i} : Outranks(i, u, p)
      BY <1>1, <2>1, <2>2, <2>3 DEF Outranks
    <3>2. BestWaiter(S \cup {i}, p) = i
      BY <1>2, <3>1, BestWaiterUnique
    <3>3. QED
      BY <2>1, <2>3, <3>2
  <2>4. CASE ~(p[i] > p[b])
    <3>1. \A u \in S \cup {i} : Outranks(b, u, p)
      BY <1>1, <2>1, <2>2, <2>4 DEF Outranks
    <3>2. BestWaiter(S \cup {i}, p) = b
      BY <1>2, <2>2, <3>1, BestWaiterUnique
    <3>3. QED
      BY <2>1, <2>4, <3>2
  <2>5. QED
    BY <2>3, <2>4
<1>5. QED
  BY <1>3, <1>4

\* The for loop of the priority encoder ends with the waiter that BestWaiter names, for any
\* number of tasks: after n iterations it holds the best waiter below n.
LEMMA EncoderLoopFindsBest ==
  ASSUME NEW mask \in SUBSET Tasks, NEW p \in [Tasks -> Prios]
  PROVE  EncoderLoop(mask, p) = IF mask = {} THEN NoTask ELSE BestWaiter(mask, p)
<1> DEFINE Iterations == 0 .. MAX_TASKS
           below == [n \in Iterations |-> {t \in mask : t < n}]
           best == [n \in Iterations |-> IF below[n] = {} THEN NoTask ELSE BestWaiter(below[n], p)]
           After(f, n) == IF n = 0 THEN NoTask
                          ELSE IF n - 1 \in mask /\ (f[n - 1] = NoTask \/ p[n - 1] > p[f[n - 1]])
                               THEN n - 1 ELSE f[n - 1]
           loop == CHOOSE f : f = [n \in Iterations |-> After(f, n)]
<1>0. /\ \A t \in mask : t \in Nat /\ t < MAX_TASKS
      /\ MAX_TASKS \in Nat /\ 0 \in Iterations /\ MAX_TASKS \in Iterations
  BY TasksAssumption DEF Tasks
<1>1. EncoderLoop(mask, p) = loop[MAX_TASKS]
  BY DEF EncoderLoop
<1>2. /\ below[0] = {} /\ below[MAX_TASKS] = mask
      /\ \A n \in Iterations : below[n] \in SUBSET Tasks
  BY <1>0
<1>3. ASSUME NEW n \in Iterations, n # 0
      PROVE  /\ n - 1 \in Iterations /\ n - 1 \in Tasks
             /\ \A t \in below[n - 1] : t < n - 1
             /\ n - 1 \in mask => below[n] = below[n - 1] \cup {n - 1}
             /\ n - 1 \notin mask => below[n] = below[n - 1]
  <2>1. n - 1 \in Iterations /\ n - 1 \in Tasks
    BY <1>0, <1>3 DEF Tasks
  <2>2. below[n] = {t \in mask : t < n} /\ below[n - 1] = {t \in mask : t < n - 1}
    BY <2>1
  <2> HIDE DEF below
  <2>3. \A t \in mask : t < n <=> t < n - 1 \/ t = n - 1
    BY <1>0, <1>3
  <2>4. QED
    BY <2>1, <2>2, <2>3
<1>4. \A n \in Iterations : best[n] = IF below[n] = {} THEN NoTask ELSE BestWaiter(below[n], p)
  OBVIOUS
<1>5. \A t \in Tasks : t # NoTask
  BY TasksAssumption DEF Tasks, NoTask
<1> HIDE DEF below
<1>6. best[0] = NoTask
  BY <1>0, <1>2
<1> HIDE DEF best
<1>7. ASSUME NEW n \in Iterations PROVE best[n] = After(best, n)
  <2>1. CASE n = 0
    BY <2>1, <1>6
  <2>2. CASE n # 0
    <3>1. PICK i \in Tasks : i = n - 1
      BY <1>3, <2>2
    <3>2. /\ i \in Iterations /\ below[i] \in SUBSET Tasks /\ \A t \in below[i] : t < i
          /\ i \in mask => below[n] = below[i] \cup {i}
          /\ i \notin mask => below[n] = below[i]
      BY <1>2, <1>3, <2>2, <3>1
    <3>3. After(best, n) = IF i \in mask /\ (best[i] = NoTask \/ p[i] > p[best[i]])
                           THEN i ELSE best[i]
      BY <2>2, <3>1
    <3> HIDE DEF Iterations, After
    <3>4. CASE i \notin mask
      BY <1>4, <3>2, <3>3, <3>4
    <3>5. CASE i \in mask /\ below[i] = {}
      <4>1. best[i] = NoTask
        BY <1>4, <3>2, <3>5
      <4>2. BestWaiter(below[n], p) = i /\ below[n] # {}
        <5>1. PICK S \in SUBSET Tasks : S = below[i] /\ \A t \in S : t < i
          BY <3>2
        <5>2. BestWaiter(S \cup {i}, p) = i
          BY <3>5, <5>1, BestWithOneMore
        <5>3. QED
          BY <3>2, <3>5, <5>1, <5>2
      <4>3. QED
        BY <1>4, <3>3, <3>5, <4>1, <4>2
    <3>6. CASE i \in mask /\ below[i] # {}
      <4>1. best[i] = BestWaiter(below[i], p)
        BY <1>4, <3>2, <3>6
      <4>2. /\ best[i] \in below[i] /\ below[n] # {}
            /\ BestWaiter(below[n], p) = IF p[i] > p[best[i]] THEN i ELSE best[i]
        <5>1. PICK S \in SUBSET Tasks : S = below[i] /\ \A t \in S : t < i
          BY <3>2
        <5>2. /\ BestWaiter(S, p) \in S
              /\ BestWaiter(S \cup {i}, p) =
                   IF p[i] > p[BestWaiter(S, p)] THEN i ELSE BestWaiter(S, p)
          BY <3>6, <5>1, BestWithOneMore
        <5>3. QED
          BY <3>2, <3>6, <4>1, <5>1, <5>2
      <4>3. best[i] # NoTask
        BY <1>5, <3>2, <4>2
      <4>4. best[n] = BestWaiter(below[n], p)
        BY <1>4, <4>2
      <4>5. QED
        BY <3>3, <3>6, <4>2, <4>3, <4>4
    <3>7. QED
      BY <3>4, <3>5, <3>6
  <2>3. QED
    BY <2>1, <2>2
<1>8. best = [n \in Iterations |-> After(best, n)]
  <2>1. best = [n \in Iterations |-> best[n]]
    BY DEF best
  <2>2. QED
    BY <1>7, <2>1
<1>9. loop = [n \in Iterations |-> After(loop, n)]
  <2>1. \E f : f = [n \in Iterations |-> After(f, n)]
    BY <1>8
  <2>2. QED
    BY <2>1
<1> HIDE DEF loop
<1>10. \A n \in Iterations : loop[n] = After(loop, n)
  <2> HIDE DEF Iterations, After
  <2> QED
    BY <1>9, Zenon
<1>11. \A n \in Iterations : loop[n] = best[n]
  <2> DEFINE wrong == {n \in Iterations : loop[n] # best[n]}
  <2> SUFFICES ASSUME wrong # {} PROVE FALSE
    OBVIOUS
  <2>1. PICK n \in wrong : \A m \in wrong : n <= m
    <3>1. wrong \in SUBSET Nat
      OBVIOUS
    <3>2. QED
      BY <3>1, LeastNat
  <2>2. n # 0
    BY <1>0, <1>6, <1>10, <2>1
  <2>3. n \in Iterations /\ n - 1 \in Iterations /\ ~(n <= n - 1)
    BY <1>3, <2>1, <2>2
  <2>4. loop[n - 1] = best[n - 1]
    BY <2>1, <2>3
  <2>5. After(loop, n) = After(best, n)
    BY <2>4
  <2>6. loop[n] = best[n]
    BY <1>7, <1>10, <2>3, <2>5
  <2>7. QED
    BY <2>1, <2>6
<1>12. QED
  BY <1>0, <1>1, <1>2, <1>4, <1>11
============================================================================
