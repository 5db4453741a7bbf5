---------------------------- MODULE HwRtosProofs ----------------------------
(***************************************************************************)
(* The TCB array, the scheduler and the state machine of hw_rtos.sv, for   *)
(* any number of tasks, priorities and objects.  First the array, then the *)
(* scheduler alone (SchedulerRuns), then the whole (HwRtos).               *)
(***************************************************************************)
EXTENDS HwRtos, SchedulerRuns, RtosTasksProofs

\* Two ports written one over the other.
LEMMA Merge ==
  ASSUME NEW V, NEW A, NEW B, NEW f \in [A -> V], NEW g \in [B -> V]
  PROVE  f ++ g \in [A \cup B -> V]
BY DEF ++

LEMMA LowPort == DOMAIN NoPort = {} /\ \A V : NoPort \in [{} -> V]
BY DEF NoPort

Ports == [valid : BOOLEAN, state : TaskStates, prio : Prios]

\* An edge of the array keeps its type, whatever its ports write.
LEMMA ArrayKeepsType ==
  ASSUME TcbTypeOK,
         NEW C \in SUBSET Tasks, NEW create \in [C -> Prios],
         NEW delete \in SUBSET Tasks,
         NEW S \in SUBSET Tasks, NEW state \in [S -> TaskStates],
         NEW F \in SUBSET Tasks, NEW full \in [F -> Ports],
         TcbStep([create |-> create, delete |-> delete, state |-> state], full)
  PROVE  TcbTypeOK'
<1> DEFINE fv == [t \in DOMAIN full |-> full[t].valid]
           fs == [t \in DOMAIN full |-> full[t].state]
           fp == [t \in DOMAIN full |-> full[t].prio]
           dv == [t \in delete |-> FALSE]
           ds == [t \in delete |-> "DORMANT"]
           cv == [t \in DOMAIN create |-> TRUE]
           made == [t \in DOMAIN create |-> "READY"]
<1>1. /\ tcb_valid' = fv ++ dv ++ cv ++ tcb_valid
      /\ tcb_state' = state ++ fs ++ ds ++ made ++ tcb_state
      /\ tcb_prio'  = fp ++ create ++ tcb_prio
  BY Zenon DEF TcbStep
<1>2. /\ fv \in [F -> BOOLEAN] /\ fs \in [F -> TaskStates] /\ fp \in [F -> Prios]
      /\ dv \in [delete -> BOOLEAN] /\ ds \in [delete -> TaskStates]
      /\ cv \in [C -> BOOLEAN] /\ made \in [C -> TaskStates]
  BY DEF Ports, TaskStates
<1>3. /\ tcb_valid \in [Tasks -> BOOLEAN]
      /\ tcb_state \in [Tasks -> TaskStates]
      /\ tcb_prio \in [Tasks -> Prios]
  BY DEF TcbTypeOK
<1> HIDE DEF fv, fs, fp, dv, ds, cv, made
<1>4. tcb_valid' \in [Tasks -> BOOLEAN]
  <2>1. fv ++ dv \in [F \cup delete -> BOOLEAN]
    BY <1>2, Merge
  <2>2. fv ++ dv ++ cv \in [F \cup delete \cup C -> BOOLEAN]
    BY <1>2, <2>1, Merge
  <2>3. fv ++ dv ++ cv ++ tcb_valid \in [F \cup delete \cup C \cup Tasks -> BOOLEAN]
    BY <1>3, <2>2, Merge
  <2>4. F \cup delete \cup C \cup Tasks = Tasks
    OBVIOUS
  <2>5. QED
    BY <1>1, <2>3, <2>4
<1>5. tcb_state' \in [Tasks -> TaskStates]
  <2>1. state ++ fs \in [S \cup F -> TaskStates]
    BY <1>2, Merge
  <2>2. state ++ fs ++ ds \in [S \cup F \cup delete -> TaskStates]
    BY <1>2, <2>1, Merge
  <2>3. state ++ fs ++ ds ++ made \in [S \cup F \cup delete \cup C -> TaskStates]
    BY <1>2, <2>2, Merge
  <2>4. state ++ fs ++ ds ++ made ++ tcb_state \in [S \cup F \cup delete \cup C \cup Tasks -> TaskStates]
    BY <1>3, <2>3, Merge
  <2>5. S \cup F \cup delete \cup C \cup Tasks = Tasks
    OBVIOUS
  <2>6. QED
    BY <1>1, <2>4, <2>5
<1>6. tcb_prio' \in [Tasks -> Prios]
  <2>1. fp ++ create \in [F \cup C -> Prios]
    BY <1>2, Merge
  <2>2. fp ++ create ++ tcb_prio \in [F \cup C \cup Tasks -> Prios]
    BY <1>3, <2>1, Merge
  <2>3. F \cup C \cup Tasks = Tasks
    OBVIOUS
  <2>4. QED
    BY <1>1, <2>2, <2>3
<1>7. QED
  BY <1>4, <1>5, <1>6 DEF TcbTypeOK

\* What an edge makes of a slot: the last statement that writes a field wins.
LEMMA ArrayAt ==
  ASSUME TcbTypeOK, NEW wr, NEW full, TcbStep(wr, full), NEW t \in Tasks
  PROVE  /\ tcb_valid'[t] = IF t \in DOMAIN full THEN full[t].valid
                            ELSE IF t \in wr.delete THEN FALSE
                            ELSE IF t \in DOMAIN wr.create THEN TRUE ELSE tcb_valid[t]
         /\ tcb_state'[t] = IF t \in DOMAIN wr.state THEN wr.state[t]
                            ELSE IF t \in DOMAIN full THEN full[t].state
                            ELSE IF t \in wr.delete THEN "DORMANT"
                            ELSE IF t \in DOMAIN wr.create THEN "READY" ELSE tcb_state[t]
         /\ tcb_prio'[t] = IF t \in DOMAIN full THEN full[t].prio
                           ELSE IF t \in DOMAIN wr.create THEN wr.create[t] ELSE tcb_prio[t]
<1>1. /\ tcb_valid' = [u \in DOMAIN full |-> full[u].valid]
                     ++ [u \in wr.delete |-> FALSE]
                     ++ [u \in DOMAIN wr.create |-> TRUE] ++ tcb_valid
      /\ tcb_state' = wr.state
                     ++ [u \in DOMAIN full |-> full[u].state]
                     ++ [u \in wr.delete |-> "DORMANT"]
                     ++ [u \in DOMAIN wr.create |-> "READY"] ++ tcb_state
      /\ tcb_prio'  = [u \in DOMAIN full |-> full[u].prio] ++ wr.create ++ tcb_prio
  BY Zenon DEF TcbStep
<1>2. t \in DOMAIN tcb_valid /\ t \in DOMAIN tcb_state /\ t \in DOMAIN tcb_prio
  BY DEF TcbTypeOK
<1>3. tcb_valid'[t] = IF t \in DOMAIN full THEN full[t].valid
                      ELSE IF t \in wr.delete THEN FALSE
                      ELSE IF t \in DOMAIN wr.create THEN TRUE ELSE tcb_valid[t]
  BY <1>1, <1>2 DEF ++
<1>4. tcb_state'[t] = IF t \in DOMAIN wr.state THEN wr.state[t]
                      ELSE IF t \in DOMAIN full THEN full[t].state
                      ELSE IF t \in wr.delete THEN "DORMANT"
                      ELSE IF t \in DOMAIN wr.create THEN "READY" ELSE tcb_state[t]
  BY <1>1, <1>2 DEF ++
<1>5. tcb_prio'[t] = IF t \in DOMAIN full THEN full[t].prio
                     ELSE IF t \in DOMAIN wr.create THEN wr.create[t] ELSE tcb_prio[t]
  BY <1>1, <1>2 DEF ++
<1>6. QED
  BY <1>3, <1>4, <1>5

\* An empty port changes nothing, above or below another.
LEMMA MergeNothing ==
  ASSUME NEW S, NEW V, NEW g \in [S -> V], NEW f, DOMAIN f = {}
  PROVE  f ++ g = g /\ g ++ f = g
BY DEF ++

\* An edge at which at most the full write port is used.
LEMMA FullWriteOnly ==
  ASSUME NEW F, NEW full \in [F -> Ports], TcbStep(NoWrites, full)
  PROVE  /\ tcb_valid' = [t \in F |-> full[t].valid] ++ tcb_valid
         /\ tcb_state' = [t \in F |-> full[t].state] ++ tcb_state
         /\ tcb_prio'  = [t \in F |-> full[t].prio] ++ tcb_prio
<1> DEFINE fv == [t \in F |-> full[t].valid]
           fs == [t \in F |-> full[t].state]
           fp == [t \in F |-> full[t].prio]
           dv == [t \in {} |-> FALSE]
           ds == [t \in {} |-> "DORMANT"]
           cv == [t \in DOMAIN NoPort |-> TRUE]
           made == [t \in DOMAIN NoPort |-> "READY"]
<1>1. /\ tcb_valid' = fv ++ dv ++ cv ++ tcb_valid
      /\ tcb_state' = NoPort ++ fs ++ ds ++ made ++ tcb_state
      /\ tcb_prio'  = fp ++ NoPort ++ tcb_prio
  <2>1. /\ NoWrites.create = NoPort /\ NoWrites.delete = {} /\ NoWrites.state = NoPort
        /\ DOMAIN full = F
    BY DEF NoWrites
  <2>2. QED
    BY <2>1, Zenon DEF TcbStep
<1>2. /\ fv \in [F -> BOOLEAN] /\ fs \in [F -> TaskStates] /\ fp \in [F -> Prios]
      /\ DOMAIN dv = {} /\ DOMAIN ds = {} /\ DOMAIN cv = {} /\ DOMAIN made = {}
      /\ DOMAIN NoPort = {}
  BY LowPort DEF Ports
<1> HIDE DEF fv, fs, fp, dv, ds, cv, made
<1>3. fv ++ dv = fv /\ fv ++ cv = fv
  BY <1>2, MergeNothing
<1>4. NoPort ++ fs = fs /\ fs ++ ds = fs /\ fs ++ made = fs
  BY <1>2, MergeNothing
<1>5. fp ++ NoPort = fp
  BY <1>2, MergeNothing
<1>6. tcb_valid' = fv ++ tcb_valid /\ tcb_state' = fs ++ tcb_state /\ tcb_prio' = fp ++ tcb_prio
  BY <1>1, <1>3, <1>4, <1>5
<1>7. QED
  BY <1>6 DEF fv, fs, fp

\* An edge without writes keeps the array.
LEMMA NoWritesKeep ==
  ASSUME TcbTypeOK, TcbStep(NoWrites, NoPort)
  PROVE  UNCHANGED tcbVars
<1> DEFINE ev == [t \in {} |-> NoPort[t].valid]
           es == [t \in {} |-> NoPort[t].state]
           ep == [t \in {} |-> NoPort[t].prio]
<1>1. tcb_valid' = ev ++ tcb_valid /\ tcb_state' = es ++ tcb_state /\ tcb_prio' = ep ++ tcb_prio
  BY FullWriteOnly, LowPort
<1>2. DOMAIN ev = {} /\ DOMAIN es = {} /\ DOMAIN ep = {}
  OBVIOUS
<1> HIDE DEF ev, es, ep
<1>3. ev ++ tcb_valid = tcb_valid /\ es ++ tcb_state = tcb_state /\ ep ++ tcb_prio = tcb_prio
  BY <1>2, MergeNothing DEF TcbTypeOK
<1>4. QED
  BY <1>1, <1>3 DEF tcbVars

\* The full write port changes the slot it writes, and no other.
LEMMA PortLands ==
  ASSUME TcbTypeOK, NEW t \in Tasks, NEW v \in Ports, TcbStep(NoWrites, Port(t, v))
  PROVE  /\ TcbTypeOK'
         /\ \A u \in Tasks : /\ tcb_valid'[u] = IF u = t THEN v.valid ELSE tcb_valid[u]
                             /\ tcb_state'[u] = IF u = t THEN v.state ELSE tcb_state[u]
                             /\ tcb_prio'[u] = IF u = t THEN v.prio ELSE tcb_prio[u]
<1>1. /\ Port(t, v) \in [{t} -> Ports] /\ DOMAIN Port(t, v) = {t} /\ Port(t, v)[t] = v
      /\ {} \in SUBSET Tasks /\ {t} \in SUBSET Tasks
  BY DEF Port
<1>2. /\ NoWrites.create = NoPort /\ NoWrites.delete = {} /\ NoWrites.state = NoPort
      /\ NoWrites = [create |-> NoPort, delete |-> {}, state |-> NoPort]
  BY DEF NoWrites
<1>3. TcbTypeOK'
  BY <1>1, <1>2, LowPort, ArrayKeepsType, Zenon
<1>4. PICK wr, full : wr = NoWrites /\ full = Port(t, v)
  OBVIOUS
<1>5. TcbTypeOK /\ TcbStep(wr, full)
  BY <1>4
<1>6. \A u \in Tasks :
        /\ tcb_valid'[u] = IF u \in DOMAIN full THEN full[u].valid
                           ELSE IF u \in wr.delete THEN FALSE
                           ELSE IF u \in DOMAIN wr.create THEN TRUE ELSE tcb_valid[u]
        /\ tcb_state'[u] = IF u \in DOMAIN wr.state THEN wr.state[u]
                           ELSE IF u \in DOMAIN full THEN full[u].state
                           ELSE IF u \in wr.delete THEN "DORMANT"
                           ELSE IF u \in DOMAIN wr.create THEN "READY" ELSE tcb_state[u]
        /\ tcb_prio'[u] = IF u \in DOMAIN full THEN full[u].prio
                          ELSE IF u \in DOMAIN wr.create THEN wr.create[u] ELSE tcb_prio[u]
  BY <1>5, ArrayAt
<1>7. /\ DOMAIN full = {t} /\ full[t] = v /\ wr.delete = {}
      /\ DOMAIN wr.create = {} /\ DOMAIN wr.state = {}
  BY <1>1, <1>2, <1>4, LowPort
<1>8. ASSUME NEW u \in Tasks
      PROVE  /\ tcb_valid'[u] = IF u = t THEN v.valid ELSE tcb_valid[u]
             /\ tcb_state'[u] = IF u = t THEN v.state ELSE tcb_state[u]
             /\ tcb_prio'[u] = IF u = t THEN v.prio ELSE tcb_prio[u]
  <2>1. CASE u = t
    BY <1>6, <1>7, <2>1
  <2>2. CASE u # t
    BY <1>6, <1>7, <2>2
  <2>3. QED
    BY <2>1, <2>2
<1>9. QED
  BY <1>3, <1>8

\* The writes of a loan: the priority leaves validity and states alone, the copy
\* those of every slot but slot 0.
LEMMA LoanWriteKeeps ==
  ASSUME TcbTypeOK, PrioWrite \/ CopyWrite
  PROVE  /\ TcbTypeOK'
         /\ \A u \in Tasks : u # 0 \/ PrioWrite =>
              tcb_valid'[u] = tcb_valid[u] /\ tcb_state'[u] = tcb_state[u]
<1>1. ASSUME PrioWrite
      PROVE  TcbTypeOK' /\ \A u \in Tasks : tcb_valid'[u] = tcb_valid[u] /\ tcb_state'[u] = tcb_state[u]
  <2>1. PICK t \in Tasks, p \in Prios : TcbStep(NoWrites, Port(t, [Tcb(t) EXCEPT !.prio = p]))
    BY <1>1 DEF PrioWrite
  <2>0. /\ [Tcb(t) EXCEPT !.prio = p] \in Ports
        /\ [Tcb(t) EXCEPT !.prio = p].valid = tcb_valid[t]
        /\ [Tcb(t) EXCEPT !.prio = p].state = tcb_state[t]
    BY DEF Tcb, TcbTypeOK, Ports
  <2>2. PICK v \in Ports : /\ v = [Tcb(t) EXCEPT !.prio = p]
                           /\ v.valid = tcb_valid[t] /\ v.state = tcb_state[t]
    BY <2>0
  <2>3. TcbStep(NoWrites, Port(t, v))
    BY <2>1, <2>2
  <2>4. QED
    BY <2>2, <2>3, PortLands
<1>2. ASSUME CopyWrite
      PROVE  TcbTypeOK' /\ \A u \in Tasks : u # 0 => tcb_valid'[u] = tcb_valid[u] /\ tcb_state'[u] = tcb_state[u]
  <2>1. PICK t \in Tasks : TcbStep(NoWrites, Port(0, Tcb(t)))
    BY <1>2 DEF CopyWrite
  <2>2. Tcb(t) \in Ports /\ 0 \in Tasks
    BY TasksAssumption DEF Tcb, TcbTypeOK, Ports, Tasks
  <2>3. PICK v \in Ports : v = Tcb(t)
    BY <2>2
  <2>4. TcbStep(NoWrites, Port(0, v))
    BY <2>1, <2>3
  <2>5. QED
    BY <2>2, <2>4, PortLands
<1>3. QED
  BY <1>1, <1>2
-----------------------------------------------------------------------------
\* What the scan registers say of the slots looked at: is one of them READY, and,
\* if it is sure that no loan has landed during the run, which is the best.  Of the
\* blind slots, which were written over in the meantime, they say nothing.
BestSoFar(seen, sure, blind) ==
  /\ ~scan.found => seen \cap ReadyTasks \subseteq blind
  /\ scan.found => scan.best \in (seen \cap ReadyTasks) \cup blind
  /\ scan.found /\ sure =>
       /\ scan.prio = tcb_prio[scan.best]
       /\ \A u \in seen \cap ReadyTasks : Outranks(scan.best, u, tcb_prio)

Elects(blind) ==
  \/ next_task_id_reg \in ReadyTasks \cup blind
  \/ /\ next_task_id_reg = current_task_id_r
     /\ tcb_state[current_task_id_r] # "RUNNING" => ReadyTasks \subseteq {current_task_id_r} \cup blind

Decided(sure, blind) ==
  /\ sure => next_task_id_reg = Decision(current_task_id_r)
  /\ Elects(blind)

Seen == {t \in Tasks : t < scan.idx}
RunHolds(sure, blind) ==
  /\ sched_state = "SCAN" => BestSoFar(Seen, sure, blind)
  /\ sched_state = "PREEMPT" => BestSoFar(Tasks, sure, blind)
  /\ sched_state \in {"SWITCH", "DONE"} => Decided(sure, blind)
RunInv == RunHolds(landed = {}, Blind)

\* What the scheduler reads has its type.
SchedReads == TcbTypeOK /\ SchedTypeOK /\ current_task_id_r \in Tasks

\* What stands still around a running scheduler: of the slots that are not blind
\* the validity and the state, and, if it is to be sure, the priorities and every slot.
Steady(sure, blind) ==
  /\ UNCHANGED current_task_id_r
  /\ \A t \in Tasks \ blind : tcb_valid'[t] = tcb_valid[t] /\ tcb_state'[t] = tcb_state[t]
  /\ sure => tcb_prio' = tcb_prio /\ blind = {}

\* So the READY tasks are the same but for the blind slots.
LEMMA SteadyReady ==
  ASSUME NEW sure, NEW blind, Steady(sure, blind)
  PROVE  /\ \A t \in Tasks \ blind : t \in ReadyTasks' <=> t \in ReadyTasks
         /\ sure => ReadyTasks' = ReadyTasks
BY DEF Steady, ReadyTasks

\* The scheduler's registers keep their type whatever happens around them.
LEMMA SchedKeepsType ==
  ASSUME SchedReads, SchedStep
  PROVE  SchedTypeOK'
<1>1. /\ SchedTypeOK /\ current_task_id_r \in Tasks /\ tcb_prio \in [Tasks -> Prios]
      /\ 0 \in Tasks /\ 0 \in Prios /\ LastTask \in Tasks
      /\ \A i \in Tasks : Advanced(i) \in Tasks
  BY TasksAssumption DEF SchedReads, TcbTypeOK, Tasks, Prios, LastTask, Advanced
<1>2. FreshScan \in [idx : Tasks, found : BOOLEAN, best : Tasks, prio : Prios]
  BY <1>1 DEF FreshScan
<1> USE <1>1, <1>2 DEF SchedTypeOK, SchedStates
<1>3. CASE SchedWait
  BY <1>3 DEF SchedWait
<1>4. CASE SchedScan
  <2>1. /\ scan.idx \in Tasks /\ Advanced(scan.idx) \in Tasks /\ tcb_prio[scan.idx] \in Prios
    OBVIOUS
  <2>2. scan' \in [idx : Tasks, found : BOOLEAN, best : Tasks, prio : Prios]
    BY <1>4, <2>1 DEF SchedScan
  <2>3. QED
    BY <1>4, <2>2 DEF SchedScan
<1>5. CASE SchedPreempt
  BY <1>5 DEF SchedPreempt, Preempts
<1>6. CASE SchedSwitch
  BY <1>6 DEF SchedSwitch
<1>7. CASE SchedDone
  BY <1>7 DEF SchedDone
<1>8. QED
  BY <1>3, <1>4, <1>5, <1>6, <1>7 DEF SchedStep

\* SCHED_SCAN adds one slot to those looked at.
LEMMA ScanAddsSlot ==
  ASSUME NEW sure, NEW blind, SchedReads, Steady(sure, blind), SchedScan,
         NEW i \in Tasks, i = scan.idx, BestSoFar({t \in Tasks : t < i}, sure, blind)
  PROVE  BestSoFar({t \in Tasks : t <= i}, sure, blind)'
<1> DEFINE before == {t \in Tasks : t < i} \cap ReadyTasks
           after  == {t \in Tasks : t <= i} \cap ReadyTasks
           now    == {t \in Tasks : t <= i} \cap ReadyTasks'
<1>1. /\ sure => ReadyTasks' = ReadyTasks /\ tcb_prio' = tcb_prio /\ blind = {} /\ now = after
      /\ now \subseteq after \cup blind /\ after \subseteq now \cup blind
  BY SteadyReady DEF Steady
<1>2. /\ \A t \in Tasks : t \in Int /\ tcb_prio[t] \in Int
      /\ scan \in [idx : Tasks, found : BOOLEAN, best : Tasks, prio : Prios]
  BY TasksAssumption DEF SchedReads, TcbTypeOK, SchedTypeOK, Tasks, Prios
<1>3. /\ \A t \in before : t < i /\ t \in Tasks
      /\ \A t \in after : t \in before \/ t = i
      /\ before \subseteq after
      /\ i \in ReadyTasks => i \in after
      /\ i \notin ReadyTasks => after = before
  BY <1>2
<1>4. /\ ~scan.found => before \subseteq blind
      /\ scan.found => scan.best \in before \cup blind
      /\ scan.found /\ sure =>
           /\ scan.best \in before
           /\ scan.prio = tcb_prio[scan.best]
           /\ \A u \in before : Outranks(scan.best, u, tcb_prio)
      /\ ~scan.found /\ sure => before = {}
  BY <1>1 DEF BestSoFar
<1>5. BetterAt(i) <=> i \in ReadyTasks /\ (\/ ~scan.found
                                           \/ tcb_prio[i] > scan.prio
                                           \/ tcb_prio[i] = scan.prio /\ i < scan.best)
  BY DEF BetterAt, ReadyTasks
<1>6. /\ BetterAt(i) => scan'.found = TRUE /\ scan'.best = i /\ scan'.prio = tcb_prio[i]
      /\ ~BetterAt(i) => scan'.found = scan.found /\ scan'.best = scan.best /\ scan'.prio = scan.prio
  BY <1>2 DEF SchedScan
<1> HIDE DEF before, after, now
<1>7. (~scan'.found => now \subseteq blind) /\ (scan'.found => scan'.best \in now \cup blind)
  <2>1. CASE BetterAt(i)
    BY <2>1, <1>1, <1>3, <1>5, <1>6
  <2>2. CASE ~BetterAt(i)
    <3>1. ~scan.found => after \subseteq blind
      BY <2>2, <1>3, <1>4, <1>5
    <3>2. QED
      BY <2>2, <3>1, <1>1, <1>3, <1>4, <1>6
  <2>3. QED
    BY <2>1, <2>2
<1>8. ASSUME scan'.found, sure
      PROVE  /\ scan'.prio = tcb_prio[scan'.best]
             /\ \A u \in after : Outranks(scan'.best, u, tcb_prio)
  <2>2. CASE BetterAt(i)
    <3>1. ASSUME NEW u \in before PROVE Outranks(i, u, tcb_prio)
      <4>1. scan.found /\ scan.best \in before /\ scan.best < i
        BY <1>3, <1>4, <1>8
      <4>2. tcb_prio[i] > tcb_prio[scan.best]
        BY <1>8, <2>2, <4>1, <1>2, <1>3, <1>4, <1>5
      <4>3. Outranks(scan.best, u, tcb_prio)
        BY <1>8, <1>4, <4>1
      <4>4. tcb_prio[scan.best] >= tcb_prio[u]
        BY <4>1, <4>3, <1>2, <1>3 DEF Outranks
      <4>5. QED
        BY <4>1, <4>2, <4>4, <1>2, <1>3 DEF Outranks
    <3>2. Outranks(i, i, tcb_prio)
      BY <1>2 DEF Outranks
    <3>3. QED
      BY <2>2, <3>1, <3>2, <1>3, <1>6
  <2>3. CASE ~BetterAt(i)
    <3>1. scan.found /\ scan'.best = scan.best /\ scan'.prio = scan.prio
      BY <1>6, <1>8, <2>3
    <3>2. scan.best \in before /\ scan.prio = tcb_prio[scan.best] /\ scan.best < i
      BY <1>8, <3>1, <1>3, <1>4
    <3>3. i \in ReadyTasks => Outranks(scan.best, i, tcb_prio)
      BY <2>3, <3>1, <3>2, <1>2, <1>3, <1>5 DEF Outranks
    <3>4. QED
      BY <1>8, <3>1, <3>2, <3>3, <1>3, <1>4
  <2>4. QED
    BY <2>2, <2>3
<1>9. QED
  BY <1>1, <1>7, <1>8 DEF BestSoFar, now, Outranks

\* SCHED_PREEMPT decides by the policy.
LEMMA PreemptDecides ==
  ASSUME NEW sure, NEW blind, SchedReads, Steady(sure, blind), SchedPreempt, BestSoFar(Tasks, sure, blind)
  PROVE  Decided(sure, blind)'
<1>1. /\ UNCHANGED current_task_id_r
      /\ current_task_id_r \notin blind => tcb_state'[current_task_id_r] = tcb_state[current_task_id_r]
      /\ ReadyTasks' \subseteq ReadyTasks \cup blind /\ ReadyTasks \subseteq ReadyTasks' \cup blind
      /\ sure => ReadyTasks' = ReadyTasks /\ tcb_prio' = tcb_prio /\ blind = {}
  BY SteadyReady DEF Steady, SchedReads, ReadyTasks
<1>2. /\ ReadyTasks \subseteq Tasks /\ Tasks \cap ReadyTasks = ReadyTasks
      /\ tcb_prio \in [Tasks -> Prios]
      /\ \A t \in Tasks : t \in Int /\ tcb_prio[t] \in Int
      /\ scan.found \in BOOLEAN /\ scan.best \in Tasks /\ current_task_id_r \in Tasks
  BY TasksAssumption DEF SchedReads, TcbTypeOK, SchedTypeOK, Tasks, Prios, ReadyTasks
<1>3. /\ ~scan.found => ReadyTasks \subseteq blind
      /\ scan.found => scan.best \in ReadyTasks \cup blind
      /\ sure => (scan.found <=> ReadyTasks # {})
      /\ scan.found /\ sure =>
           /\ scan.best \in ReadyTasks
           /\ scan.prio = tcb_prio[scan.best]
           /\ \A u \in ReadyTasks : Outranks(scan.best, u, tcb_prio)
  BY <1>1, <1>2 DEF BestSoFar
<1>4. next_task_id_reg' = IF Preempts THEN scan.best ELSE current_task_id_r
  BY DEF SchedPreempt
<1>5. sure => next_task_id_reg' = Decision(current_task_id_r)
  <2> SUFFICES ASSUME sure PROVE next_task_id_reg' = Decision(current_task_id_r)
    OBVIOUS
  <2>2. CASE ~scan.found
    BY <2>2, <1>3, <1>4 DEF Preempts, Decision
  <2>3. CASE scan.found
    <3> DEFINE best == BestWaiter(ReadyTasks, tcb_prio)
    <3>1. best \in ReadyTasks /\ \A u \in ReadyTasks : Outranks(best, u, tcb_prio)
      BY <2>3, <1>2, <1>3, BestWaiterOutranks
    <3> HIDE DEF best
    <3>2. scan.best \in ReadyTasks /\ \A u \in ReadyTasks : Outranks(scan.best, u, tcb_prio)
      BY <2>3, <1>3
    <3>3. best \in Tasks /\ Outranks(best, scan.best, tcb_prio) /\ Outranks(scan.best, best, tcb_prio)
      BY <1>2, <3>1, <3>2
    <3>4. best = scan.best
      BY <1>2, <3>3 DEF Outranks
    <3>5. Preempts <=> TakesOver(scan.best, current_task_id_r)
      BY <2>3, <1>3 DEF Preempts, TakesOver
    <3>6. QED
      BY <2>3, <1>3, <1>4, <3>4, <3>5 DEF Decision, best
  <2>4. QED
    BY <2>2, <2>3
<1>6. sure => Decision(current_task_id_r)' = Decision(current_task_id_r)
  BY <1>1 DEF Decision, TakesOver, BestWaiter, Outranks
<1>7. Elects(blind)'
  <2>1. CASE Preempts
    BY <2>1, <1>1, <1>3, <1>4 DEF Preempts, Elects
  <2>2. CASE ~Preempts
    BY <2>2, <1>1, <1>3, <1>4 DEF Preempts, Elects
  <2>3. QED
    BY <2>1, <2>2
<1>8. QED
  BY <1>1, <1>5, <1>6, <1>7 DEF Decided

\* A decision stands until the scheduler is idle again.
LEMMA DecisionStands ==
  ASSUME NEW sure, NEW blind, SchedReads, Steady(sure, blind), Decided(sure, blind),
         next_task_id_reg' = next_task_id_reg
  PROVE  Decided(sure, blind)'
<1>1. /\ UNCHANGED current_task_id_r
      /\ current_task_id_r \notin blind => tcb_state'[current_task_id_r] = tcb_state[current_task_id_r]
      /\ ReadyTasks' \subseteq ReadyTasks \cup blind /\ ReadyTasks \subseteq ReadyTasks' \cup blind
      /\ sure => ReadyTasks' = ReadyTasks /\ tcb_prio' = tcb_prio /\ blind = {}
  BY SteadyReady DEF Steady, SchedReads, ReadyTasks
<1>2. sure => Decision(current_task_id_r)' = Decision(current_task_id_r)
  BY <1>1 DEF Decision, TakesOver, BestWaiter, Outranks
<1>3. Elects(blind)'
  BY <1>1 DEF Decided, Elects
<1>4. QED
  BY <1>1, <1>2, <1>3 DEF Decided

\* One edge of the scheduler, with nothing but loans around it while it runs, and
\* not even those if it is to be sure.
LEMMA SchedKeepsRun ==
  ASSUME NEW sure, NEW blind, SchedReads, SchedStep, RunHolds(sure, blind),
         sched_busy => Steady(sure, blind)
  PROVE  RunHolds(sure, blind)'
<1>1. CASE SchedWait
  <2>1. sched_state' = "SCAN" => BestSoFar(Seen, sure, blind)'
    <3> SUFFICES ASSUME sched_state' = "SCAN" PROVE BestSoFar(Seen, sure, blind)'
      OBVIOUS
    <3>1. scan' = FreshScan
      BY <1>1 DEF SchedWait
    <3>2. Seen' = {} /\ ~scan'.found
      BY <3>1 DEF FreshScan, Tasks, Seen
    <3>3. QED
      BY <3>2 DEF BestSoFar
  <2>2. sched_state' \in {"SCAN", "IDLE"}
    BY <1>1 DEF SchedWait
  <2>3. QED
    BY <2>1, <2>2 DEF RunHolds
<1>2. CASE SchedScan
  <2>0. PICK i \in Tasks : i = scan.idx
    BY DEF SchedReads, SchedTypeOK
  <2>1. LastTask \in Tasks /\ \A t \in Tasks : t \in Int /\ t <= LastTask
    BY TasksAssumption DEF Tasks, LastTask
  <2>2. Steady(sure, blind) /\ BestSoFar({t \in Tasks : t < i}, sure, blind)
    BY <1>2, <2>0 DEF SchedScan, RunHolds, sched_busy, Seen
  <2>3. /\ sched_state' = IF i = LastTask THEN "PREEMPT" ELSE "SCAN"
        /\ scan'.idx = Advanced(i)
    BY <1>2, <2>0 DEF SchedScan, SchedReads, SchedTypeOK
  <2>4. BestSoFar({t \in Tasks : t <= i}, sure, blind)'
    BY <1>2, <2>0, <2>2, ScanAddsSlot
  <2>5. CASE i = LastTask
    <3>1. {t \in Tasks : t <= i} = Tasks
      BY <2>1, <2>5
    <3>2. QED
      BY <2>3, <2>4, <2>5, <3>1 DEF RunHolds, BestSoFar
  <2>6. CASE i # LastTask
    <3>1. Seen' = {t \in Tasks : t <= i}
      BY <2>0, <2>1, <2>3, <2>6 DEF Advanced, Tasks, Seen
    <3>2. QED
      BY <2>3, <2>4, <2>6, <3>1 DEF RunHolds, BestSoFar
  <2>7. QED
    BY <2>5, <2>6
<1>3. CASE SchedPreempt
  <2>1. Decided(sure, blind)'
    BY <1>3, PreemptDecides DEF SchedPreempt, RunHolds, sched_busy
  <2>2. sched_state' \in {"SWITCH", "DONE"}
    BY <1>3 DEF SchedPreempt
  <2>3. QED
    BY <2>1, <2>2 DEF RunHolds
<1>4. CASE SchedSwitch
  <2>1. Decided(sure, blind)'
    BY <1>4, DecisionStands DEF SchedSwitch, RunHolds, sched_busy
  <2>2. QED
    BY <1>4, <2>1 DEF SchedSwitch, RunHolds
<1>5. CASE SchedDone
  BY <1>5 DEF SchedDone, RunHolds
<1>6. QED
  BY <1>1, <1>2, <1>3, <1>4, <1>5 DEF SchedStep
-----------------------------------------------------------------------------
LEMMA RunsInitInv == RunsInit => RunsTypeOK /\ RunInv
<1> SUFFICES ASSUME RunsInit PROVE RunsTypeOK /\ RunInv
  OBVIOUS
<1>1. 0 \in Tasks /\ 0 \in Prios
  BY TasksAssumption DEF Tasks, Prios
<1>2. TcbTypeOK
  BY <1>1 DEF RunsInit, TcbInit, TcbTypeOK, TaskStates
<1>3. SchedTypeOK
  BY <1>1 DEF RunsInit, SchedInit, SchedTypeOK, SchedStates, FreshScan
<1>4. QED
  BY <1>1, <1>2, <1>3 DEF RunsInit, SchedInit, RunsTypeOK, RunInv, RunHolds

\* The array keeps its type in every step.
LEMMA RunsArray ==
  ASSUME RunsTypeOK, Between \/ During
  PROVE  TcbTypeOK'
<1>1. TcbTypeOK
  BY DEF RunsTypeOK
<1>2. CASE TcbStep(NoWrites, NoPort)
  BY <1>1, <1>2, NoWritesKeep DEF TcbTypeOK, tcbVars
<1>3. CASE PrioWrite \/ CopyWrite
  BY <1>1, <1>3, LoanWriteKeeps
<1>4. ASSUME NEW t \in Tasks, NEW s \in {"READY", "RUNNING"}, TcbStep(StateWrite(t, s), NoPort)
      PROVE  TcbTypeOK'
  <2>1. {} \in SUBSET Tasks /\ {t} \in SUBSET Tasks /\ Port(t, s) \in [{t} -> TaskStates]
    BY DEF Port, TaskStates
  <2>2. TcbStep([create |-> NoPort, delete |-> {}, state |-> Port(t, s)], NoPort)
    BY <1>4, Zenon DEF StateWrite
  <2>3. QED
    BY <1>1, <2>1, <2>2, LowPort, ArrayKeepsType, Zenon
<1>5. CASE ArrayWrite
  <2>0. {} \in SUBSET Tasks /\ \A t \in Tasks : {t} \in SUBSET Tasks
    OBVIOUS
  <2>2. ASSUME NEW t \in Tasks, NEW p \in Prios, TcbStep(CreateWrite(t, p), NoPort)
        PROVE  TcbTypeOK'
    <3>1. {t} \in SUBSET Tasks /\ Port(t, p) \in [{t} -> Prios]
      BY <2>0 DEF Port
    <3>2. TcbStep([create |-> Port(t, p), delete |-> {}, state |-> NoPort], NoPort)
      BY <2>2, Zenon DEF CreateWrite
    <3>3. QED
      BY <1>1, <2>0, <3>1, <3>2, LowPort, ArrayKeepsType, Zenon
  <2>3. ASSUME NEW t \in Tasks, TcbStep(DeleteWrite(t), NoPort)
        PROVE  TcbTypeOK'
    <3>1. {t} \in SUBSET Tasks /\ Port(t, "DORMANT") \in [{t} -> TaskStates]
      BY <2>0 DEF Port, TaskStates
    <3>2. TcbStep([create |-> NoPort, delete |-> {t}, state |-> Port(t, "DORMANT")], NoPort)
      BY <2>3, Zenon DEF DeleteWrite
    <3>3. QED
      BY <1>1, <2>0, <3>1, <3>2, LowPort, ArrayKeepsType, Zenon
  <2>4. QED
    BY <1>4, <1>5, <2>2, <2>3 DEF ArrayWrite
<1>6. CASE current_task_id_r' \in Tasks /\ MadeCurrent
  BY <1>4, <1>6 DEF MadeCurrent
<1>7. QED
  BY <1>2, <1>3, <1>5, <1>6 DEF Between, During

\* During a run everything stands still that no loan has written over.
LEMMA RunsBusy ==
  ASSUME RunsTypeOK, During
  PROVE  Steady(landed' = {}, Blind') /\ landed \subseteq landed'
<1>1. UNCHANGED current_task_id_r /\ landed \subseteq landed'
  BY DEF During
<1>2. CASE TcbStep(NoWrites, NoPort) /\ UNCHANGED landed
  BY <1>1, <1>2, NoWritesKeep DEF RunsTypeOK, tcbVars, Steady, Blind
<1>3. CASE PrioWrite /\ landed' = landed \cup {"loan"}
  BY <1>1, <1>3, LoanWriteKeeps DEF RunsTypeOK, Steady
<1>4. CASE CopyWrite /\ landed' = landed \cup {"copy"}
  BY <1>1, <1>4, LoanWriteKeeps DEF RunsTypeOK, Steady, Blind
<1>5. QED
  BY <1>1, <1>2, <1>3, <1>4 DEF During

LEMMA RunsType ==
  ASSUME RunsTypeOK, RunsNext
  PROVE  RunsTypeOK'
<1>1. TcbTypeOK' /\ SchedTypeOK'
  BY RunsArray, SchedKeepsType DEF RunsNext, RunsTypeOK, SchedReads
<1>2. sched_trigger' \in BOOLEAN /\ current_task_id_r' \in Tasks /\ landed' \subseteq {"loan", "copy"}
  BY DEF RunsNext, Between, During, RunsTypeOK
<1>3. QED
  BY <1>1, <1>2 DEF RunsTypeOK

LEMMA RunsKeepInv ==
  ASSUME RunsTypeOK, RunInv, RunsNext
  PROVE  RunInv'
<1>1. sched_busy => During
  BY DEF RunsNext, Between
<1>2. ASSUME NEW sure, NEW blind, sure <=> landed' = {}, blind = Blind'
      PROVE  RunInv'
  <2>1. sched_busy => Steady(sure, blind)
    BY <1>1, <1>2, RunsBusy DEF Steady
  <2>2. RunHolds(sure, blind)
    <3>1. CASE sched_busy
      <4>1. (sure => landed = {}) /\ Blind \subseteq blind
        BY <1>1, <1>2, <3>1, RunsBusy DEF Blind
      <4>2. QED
        BY <4>1 DEF RunInv, RunHolds, BestSoFar, Decided, Elects
    <3>2. CASE ~sched_busy
      BY <3>2 DEF RunHolds, sched_busy
    <3>3. QED
      BY <3>1, <3>2
  <2>3. RunHolds(sure, blind)'
    BY <2>1, <2>2, SchedKeepsRun DEF RunsNext, RunsTypeOK, SchedReads
  <2>4. QED
    BY <1>2, <2>3 DEF RunInv, RunHolds, BestSoFar, Decided, Elects
<1>3. QED
  BY <1>2
-----------------------------------------------------------------------------
LEMMA RunsInvariant == RunsSpec => [](RunsTypeOK /\ RunInv)
<1>1. RunsTypeOK /\ RunInv /\ [RunsNext]_runsVars => (RunsTypeOK /\ RunInv)'
  <2> SUFFICES ASSUME RunsTypeOK, RunInv, [RunsNext]_runsVars PROVE (RunsTypeOK /\ RunInv)'
    OBVIOUS
  <2>1. CASE RunsNext
    BY <2>1, RunsType, RunsKeepInv
  <2>2. CASE UNCHANGED runsVars
    BY <2>2 DEF runsVars, tcbVars, schedVars, RunsTypeOK, RunInv, RunHolds, Seen, TcbTypeOK, SchedTypeOK,
                BestSoFar, Decided, Elects, Blind, ReadyTasks, Decision, TakesOver, BestWaiter, Outranks
  <2>3. QED
    BY <2>1, <2>2
<1>2. QED
  BY RunsInitInv, <1>1, PTL DEF RunsSpec

\* The registers of the scheduler keep their ranges; in particular scan_idx
\* never leaves the array (SCHED_SCAN's end test), whatever its size.
THEOREM RunsTypeCorrect == RunsSpec => []RunsTypeOK
BY RunsInvariant, PTL

\* A run that no loan disturbed ends in the decision of the policy: the most
\* urgent READY task, the lowest id on a tie, if it takes over (SCHED_SCAN and
\* SCHED_PREEMPT), for any number of tasks and priorities.
THEOREM RunsDecideByPolicy == RunsSpec => []DecidesByPolicy
<1>1. RunInv => DecidesByPolicy
  BY DEF RunInv, RunHolds, Decided, DecidesByPolicy, sched_done
<1>2. QED
  BY RunsInvariant, <1>1, PTL

\* Among the tasks a run elects one that can run even when the writes of loans, the
\* priority and the copy to slot 0, land in the middle of it; of slot 0 itself it
\* promises nothing then (found_ready and best_task_id against the array).
THEOREM RunsElectRunnable == RunsSpec => []ElectsRunnable
<1>1. RunInv => ElectsRunnable
  BY DEF RunInv, RunHolds, Decided, Elects, ElectsRunnable, sched_done
<1>2. QED
  BY RunsInvariant, <1>1, PTL
-----------------------------------------------------------------------------
\* What the units hold and say of tasks.
UnitPortsOK ==
  /\ wait_mask_r \in [Sem!Sems -> SUBSET Tasks]
  /\ sem_out.wake \in Tasks \cup {NoTask}
  /\ mutex_wait_r \in [Mtx!Mutexes -> SUBSET Tasks]
  /\ owner_id_r \in [Mtx!Mutexes -> Tasks]
  /\ original_prio_r \in [Mtx!Mutexes -> Prios]
  /\ mutex_out.wake \in Tasks \cup {NoTask} /\ mutex_out.boost \in Mtx!BoostPort
  /\ send_wait_r \in [Msgq!Queues -> SUBSET Tasks]
  /\ recv_wait_r \in [Msgq!Queues -> SUBSET Tasks]
  /\ msgq_out.wake \in Tasks \cup {NoTask}

\* The write ports carry nothing, or one write of one of the states of the FSM.
WritesOK ==
  \/ writes = NoWrites
  \/ \E t \in Tasks, s \in TaskStates : writes = StateWrite(t, s)
  \/ \E t \in Tasks, p \in Prios : writes = CreateWrite(t, p)
  \/ \E t \in Tasks : writes = DeleteWrite(t)

\* An operation code goes to the unit that knows it.
OpsFit == \A u \in Units : op_int[u] = NoRequest \/ Unit[op_int[u].op] = u

Typed == RtosTypeOK /\ WritesOK /\ OpsFit /\ UnitPortsOK

\* The state a slot is in once the pending state write has landed.
Lands(t) == IF t \in DOMAIN writes.state THEN writes.state[t] ELSE tcb_state[t]

\* The fields of the write ports.
LEMMA PortFields ==
  /\ DOMAIN NoWrites.create = {} /\ NoWrites.delete = {} /\ DOMAIN NoWrites.state = {}
  /\ \A t, s : /\ DOMAIN StateWrite(t, s).create = {} /\ StateWrite(t, s).delete = {}
               /\ DOMAIN StateWrite(t, s).state = {t} /\ StateWrite(t, s).state[t] = s
  /\ \A t, p : /\ DOMAIN CreateWrite(t, p).create = {t} /\ CreateWrite(t, p).create[t] = p
               /\ CreateWrite(t, p).delete = {} /\ DOMAIN CreateWrite(t, p).state = {}
  /\ \A t : /\ DOMAIN DeleteWrite(t).create = {} /\ DeleteWrite(t).delete = {t}
            /\ DOMAIN DeleteWrite(t).state = {t} /\ DeleteWrite(t).state[t] = "DORMANT"
BY DEF NoWrites, StateWrite, CreateWrite, DeleteWrite, NoPort, Port

\* The fields of the pending write.
LEMMA PendingFields ==
  ASSUME WritesOK
  PROVE  /\ writes = [create |-> writes.create, delete |-> writes.delete, state |-> writes.state]
         /\ DOMAIN writes.create \in SUBSET Tasks /\ writes.create \in [DOMAIN writes.create -> Prios]
         /\ writes.delete \in SUBSET Tasks /\ writes.delete \subseteq DOMAIN writes.state
         /\ DOMAIN writes.state \in SUBSET Tasks
         /\ writes.state \in [DOMAIN writes.state -> TaskStates]
         /\ \A t \in DOMAIN writes.create : t \notin DOMAIN writes.state
<1>1. \E C \in SUBSET Tasks, D \in SUBSET Tasks, S \in SUBSET Tasks :
        /\ D \subseteq S /\ C \cap S = {}
        /\ \E c \in [C -> Prios], s \in [S -> TaskStates] :
             writes = [create |-> c, delete |-> D, state |-> s]
  <2>0. /\ \A V : NoPort \in [{} -> V]
        /\ \A t, v, V : v \in V => Port(t, v) \in [{t} -> V]
        /\ "DORMANT" \in TaskStates /\ {} \in SUBSET Tasks
        /\ \A t \in Tasks : {t} \in SUBSET Tasks
    BY DEF NoPort, Port, TaskStates
  <2>1. CASE writes = NoWrites
    BY <2>0, <2>1 DEF NoWrites
  <2>2. CASE \E t \in Tasks, s \in TaskStates : writes = StateWrite(t, s)
    <3>1. PICK t \in Tasks, s \in TaskStates : writes = StateWrite(t, s)
      BY <2>2
    <3>2. Port(t, s) \in [{t} -> TaskStates] /\ {t} \in SUBSET Tasks
      BY <2>0
    <3>3. QED
      BY <2>0, <3>1, <3>2 DEF StateWrite
  <2>3. CASE \E t \in Tasks, p \in Prios : writes = CreateWrite(t, p)
    <3>1. PICK t \in Tasks, p \in Prios : writes = CreateWrite(t, p)
      BY <2>3
    <3>2. Port(t, p) \in [{t} -> Prios] /\ {t} \in SUBSET Tasks
      BY <2>0
    <3>3. QED
      BY <2>0, <3>1, <3>2 DEF CreateWrite
  <2>4. CASE \E t \in Tasks : writes = DeleteWrite(t)
    <3>1. PICK t \in Tasks : writes = DeleteWrite(t)
      BY <2>4
    <3>2. Port(t, "DORMANT") \in [{t} -> TaskStates] /\ {t} \in SUBSET Tasks
      BY <2>0
    <3>3. QED
      BY <2>0, <3>1, <3>2 DEF DeleteWrite
  <2>5. QED
    BY <2>1, <2>2, <2>3, <2>4 DEF WritesOK
<1>2. PICK C \in SUBSET Tasks, D \in SUBSET Tasks, S \in SUBSET Tasks :
        /\ D \subseteq S /\ C \cap S = {}
        /\ \E c \in [C -> Prios], s \in [S -> TaskStates] :
             writes = [create |-> c, delete |-> D, state |-> s]
  BY <1>1
<1>3. PICK c \in [C -> Prios], s \in [S -> TaskStates] :
        writes = [create |-> c, delete |-> D, state |-> s]
  BY <1>2
<1>4. writes.create = c /\ writes.delete = D /\ writes.state = s /\ DOMAIN c = C /\ DOMAIN s = S
  BY <1>3
<1>5. QED
  BY <1>2, <1>3, <1>4

\* The full write touches one slot: a loan's own, of which it changes the
\* priority only, or slot 0.
LEMMA FullWriteFits ==
  ASSUME Typed
  PROVE  /\ DOMAIN FullWrite \in SUBSET Tasks /\ FullWrite \in [DOMAIN FullWrite -> Ports]
         /\ ~tcb_wr_en => FullWrite = NoPort
         /\ \A t \in DOMAIN FullWrite \ {0} :
              FullWrite[t].valid = tcb_valid[t] /\ FullWrite[t].state = tcb_state[t]
<1>1. /\ tcb_valid \in [Tasks -> BOOLEAN] /\ tcb_state \in [Tasks -> TaskStates]
      /\ tcb_prio \in [Tasks -> Prios] /\ boost.id \in Tasks /\ boost.val \in Prios
      /\ 0 \in Tasks
  BY TasksAssumption DEF Typed, RtosTypeOK, TcbTypeOK, Tasks
<1>2. CASE ~tcb_wr_en
  BY <1>2, LowPort DEF FullWrite, LoanLands, CopyLands, Lent
<1>3. CASE tcb_wr_en /\ prio_boost_wr_pending
  <2>1. FullWrite = Port(boost.id, [Tcb(boost.id) EXCEPT !.prio = boost.val])
    BY <1>3 DEF FullWrite, LoanLands, CopyLands, Lent
  <2>2. QED
    BY <1>1, <1>3, <2>1 DEF Port, Ports, Tcb
<1>4. CASE tcb_wr_en /\ ~prio_boost_wr_pending
  <2>1. FullWrite = Port(0, Tcb(boost.id))
    BY <1>4 DEF FullWrite, LoanLands, CopyLands, Lent
  <2>2. QED
    BY <1>1, <1>4, <2>1 DEF Port, Ports, Tcb
<1>5. QED
  BY <1>2, <1>3, <1>4

\* The edge of the array in the whole: the pending write lands, and a loan, if one
\* is written, disturbs no state but that of slot 0.
LEMMA ArrayLands ==
  ASSUME Typed, TcbStep(writes, FullWrite)
  PROVE  /\ TcbTypeOK'
         /\ \A t \in Tasks \ {0} :
              /\ tcb_state'[t] \in {Lands(t), "READY"}
              /\ t \notin DOMAIN writes.create => tcb_state'[t] = Lands(t)
              /\ tcb_valid'[t] => tcb_valid[t] \/ t \in DOMAIN writes.create
         /\ ~tcb_wr_en => \A t \in Tasks :
              /\ t \notin DOMAIN writes.create =>
                   /\ tcb_state'[t] = Lands(t) /\ tcb_prio'[t] = tcb_prio[t]
                   /\ tcb_valid'[t] <=> tcb_valid[t] /\ t \notin writes.delete
              /\ t \in DOMAIN writes.create => tcb_state'[t] = "READY"
<1>1. TcbTypeOK /\ WritesOK
  BY DEF Typed, RtosTypeOK
<1>2. PICK wr, full : wr = writes /\ full = FullWrite
  OBVIOUS
<1>3. /\ wr = [create |-> wr.create, delete |-> wr.delete, state |-> wr.state]
      /\ DOMAIN wr.create \in SUBSET Tasks /\ wr.create \in [DOMAIN wr.create -> Prios]
      /\ wr.delete \in SUBSET Tasks /\ wr.delete \subseteq DOMAIN wr.state
      /\ DOMAIN wr.state \in SUBSET Tasks /\ wr.state \in [DOMAIN wr.state -> TaskStates]
      /\ \A t \in DOMAIN wr.create : t \notin DOMAIN wr.state
  BY <1>1, <1>2, PendingFields
<1>4. /\ DOMAIN full \in SUBSET Tasks /\ full \in [DOMAIN full -> Ports]
      /\ ~tcb_wr_en => DOMAIN full = {}
      /\ \A t \in DOMAIN full \ {0} : full[t].valid = tcb_valid[t] /\ full[t].state = tcb_state[t]
  BY <1>2, FullWriteFits, LowPort
<1>5. TcbStep(wr, full)
  BY <1>2
<1>6. TcbTypeOK'
  <2>1. TcbStep([create |-> wr.create, delete |-> wr.delete, state |-> wr.state], full)
    BY <1>3, <1>5, Zenon
  <2>2. QED
    BY <1>1, <1>3, <1>4, <2>1, ArrayKeepsType, Zenon
<1>7. \A t \in Tasks :
        /\ tcb_valid'[t] = IF t \in DOMAIN full THEN full[t].valid
                           ELSE IF t \in wr.delete THEN FALSE
                           ELSE IF t \in DOMAIN wr.create THEN TRUE ELSE tcb_valid[t]
        /\ tcb_state'[t] = IF t \in DOMAIN wr.state THEN wr.state[t]
                           ELSE IF t \in DOMAIN full THEN full[t].state
                           ELSE IF t \in wr.delete THEN "DORMANT"
                           ELSE IF t \in DOMAIN wr.create THEN "READY" ELSE tcb_state[t]
        /\ tcb_prio'[t] = IF t \in DOMAIN full THEN full[t].prio
                          ELSE IF t \in DOMAIN wr.create THEN wr.create[t] ELSE tcb_prio[t]
  BY <1>1, <1>5, ArrayAt
<1>8. ASSUME NEW t \in Tasks
      PROVE  Lands(t) = IF t \in DOMAIN wr.state THEN wr.state[t] ELSE tcb_state[t]
  BY <1>2 DEF Lands
<1>9. ASSUME NEW t \in Tasks \ {0}
      PROVE  /\ tcb_state'[t] \in {Lands(t), "READY"}
             /\ t \notin DOMAIN wr.create => tcb_state'[t] = Lands(t)
             /\ tcb_valid'[t] => tcb_valid[t] \/ t \in DOMAIN wr.create
  BY <1>3, <1>4, <1>7, <1>8
<1>10. ASSUME ~tcb_wr_en, NEW t \in Tasks
       PROVE  /\ t \notin DOMAIN wr.create =>
                   /\ tcb_state'[t] = Lands(t) /\ tcb_prio'[t] = tcb_prio[t]
                   /\ tcb_valid'[t] <=> tcb_valid[t] /\ t \notin wr.delete
              /\ t \in DOMAIN wr.create => tcb_state'[t] = "READY"
  <2>1. tcb_valid \in [Tasks -> BOOLEAN]
    BY <1>1 DEF TcbTypeOK
  <2>2. QED
    BY <1>3, <1>4, <1>7, <1>8, <1>10, <2>1
<1>11. QED
  BY <1>2, <1>6, <1>9, <1>10

\* The object of a request is one its unit has.
LEMMA RequestIds ==
  ASSUME NEW r \in AllRequests
  PROVE  /\ r.op \in {"INIT", "WAIT", "POST"} => r.id \in Sem!Sems
         /\ r.op \in {"LOCK", "UNLOCK"} => r.id \in Mtx!Mutexes
         /\ r.op = "SEND" => r.id \in Msgq!Queues /\ r.arg \in Msgq!Msgs
         /\ r.op = "RECV" => r.id \in Msgq!Queues
         /\ r.op = "create" => r.arg \in Prios
<1>0. \A o, i, a : Request(o, i, a).op = o /\ Request(o, i, a).id = i /\ Request(o, i, a).arg = a
  BY DEF Request
<1>1. CASE r = NoRequest
  BY <1>0, <1>1 DEF NoRequest
<1>2. CASE \E o \in {"exit", "join", "yield"} : r = Request(o, 0, 0)
  BY <1>0, <1>2
<1>3. CASE \E p \in Prios : r = Request("create", 0, p)
  BY <1>0, <1>3
<1>4. CASE \E o \in {"INIT", "WAIT", "POST"}, s \in Sem!Sems : r = Request(o, s, 0)
  BY <1>0, <1>4
<1>5. CASE \E o \in {"LOCK", "UNLOCK", "MUTEX3"}, m \in Mtx!Mutexes : r = Request(o, m, 0)
  BY <1>0, <1>5
<1>6. CASE \E q \in Msgq!Queues, d \in Msgq!Msgs : r = Request("SEND", q, d)
  BY <1>0, <1>6
<1>7. CASE \E o \in {"RECV", "MSGQ3"}, q \in Msgq!Queues : r = Request(o, q, 0)
  BY <1>0, <1>7
<1> DEFINE calls1 == {Request(o, 0, 0) : o \in {"exit", "join", "yield"}}
           calls2 == {Request("create", 0, p) : p \in Prios}
           sems == {Request(o, s, 0) : o \in {"INIT", "WAIT", "POST"}, s \in Sem!Sems}
           mutexes == {Request(o, m, 0) : o \in {"LOCK", "UNLOCK", "MUTEX3"}, m \in Mtx!Mutexes}
           sends == {Request("SEND", q, d) : q \in Msgq!Queues, d \in Msgq!Msgs}
           recvs == {Request(o, q, 0) : o \in {"RECV", "MSGQ3"}, q \in Msgq!Queues}
<1>8. AllRequests = {NoRequest} \cup calls1 \cup calls2 \cup sems \cup mutexes \cup sends \cup recvs
  BY DEF AllRequests
<1>9. /\ r \in calls1 => \E o \in {"exit", "join", "yield"} : r = Request(o, 0, 0)
      /\ r \in calls2 => \E p \in Prios : r = Request("create", 0, p)
      /\ r \in sems => \E o \in {"INIT", "WAIT", "POST"}, s \in Sem!Sems : r = Request(o, s, 0)
      /\ r \in mutexes => \E o \in {"LOCK", "UNLOCK", "MUTEX3"}, m \in Mtx!Mutexes : r = Request(o, m, 0)
      /\ r \in sends => \E q \in Msgq!Queues, d \in Msgq!Msgs : r = Request("SEND", q, d)
      /\ r \in recvs => \E o \in {"RECV", "MSGQ3"}, q \in Msgq!Queues : r = Request(o, q, 0)
  OBVIOUS
<1> HIDE DEF calls1, calls2, sems, mutexes, sends, recvs
<1>10. QED
  BY <1>1, <1>2, <1>3, <1>4, <1>5, <1>6, <1>7, <1>8, <1>9

\* What the units hold and say stays about tasks.
LEMMA SemKeepsPorts ==
  ASSUME Typed, NEW counts, SemStep(counts)
  PROVE  wait_mask_r' \in [Sem!Sems -> SUBSET Tasks] /\ sem_out'.wake \in Tasks \cup {NoTask}
<1> DEFINE r == op_int["sem"]
<1>1. /\ wait_mask_r \in [Sem!Sems -> SUBSET Tasks] /\ current_task_id_r \in Tasks
      /\ tcb_prio \in [Tasks -> Prios] /\ r \in AllRequests
  BY DEF Typed, UnitPortsOK, RtosTypeOK, TcbTypeOK, Units
<1>2. /\ Sem!SemIdle.wake = NoTask /\ Sem!SemSuccess.wake = NoTask /\ Sem!SemBlock.wake = NoTask
      /\ \A t : Sem!SemWake(t).wake = t
  BY DEF Sem!SemIdle, Sem!SemSuccess, Sem!SemBlock, Sem!SemWake, Sem!NoTask, NoTask
<1>3. CASE Sem!SemNop
  BY <1>1, <1>2, <1>3 DEF Sem!SemNop, Sem!semState
<1>4. CASE \E n \in counts : Sem!SemSetup(r.id, n)
  BY <1>1, <1>2, <1>4 DEF Sem!SemSetup
<1>5. CASE Sem!SemWait(r.id, current_task_id_r)
  BY <1>1, <1>2, <1>5 DEF Sem!SemWait, Sem!SemWaitTake, Sem!SemWaitBlock
<1>6. CASE r.op = "POST" /\ Sem!SemPost(r.id)
  <2>1. r.id \in Sem!Sems
    BY <1>1, <1>6, RequestIds
  <2>2. CASE Sem!SemPostWake(r.id)
    <3>1. wait_mask_r[r.id] \in SUBSET Tasks /\ wait_mask_r[r.id] # {}
      BY <1>1, <2>1, <2>2 DEF Sem!SemPostWake
    <3>2. BestWaiter(wait_mask_r[r.id], tcb_prio) \in Tasks
      BY <1>1, <3>1, BestWaiterOutranks
    <3>3. QED
      BY <1>1, <1>2, <2>2, <3>2 DEF Sem!SemPostWake, Sem!BestWaiter, BestWaiter, Sem!Outranks, Outranks
  <2>3. CASE Sem!SemPostCount(r.id) \/ Sem!SemPostFull(r.id)
    BY <1>1, <1>2, <2>3 DEF Sem!SemPostCount, Sem!SemPostFull, Sem!SemNop, Sem!semState
  <2>4. QED
    BY <1>6, <2>2, <2>3 DEF Sem!SemPost
<1>7. QED
  BY <1>3, <1>4, <1>5, <1>6 DEF SemStep
LEMMA MutexKeepsPorts ==
  ASSUME Typed, MutexStep
  PROVE  /\ mutex_wait_r' \in [Mtx!Mutexes -> SUBSET Tasks]
         /\ owner_id_r' \in [Mtx!Mutexes -> Tasks]
         /\ original_prio_r' \in [Mtx!Mutexes -> Prios]
         /\ mutex_out'.wake \in Tasks \cup {NoTask} /\ mutex_out'.boost \in Mtx!BoostPort
<1> DEFINE r == op_int["mutex"]
           t == current_task_id_r
           m == r.id
<1>1. /\ mutex_wait_r \in [Mtx!Mutexes -> SUBSET Tasks]
      /\ owner_id_r \in [Mtx!Mutexes -> Tasks]
      /\ original_prio_r \in [Mtx!Mutexes -> Prios]
      /\ tcb_prio \in [Tasks -> Prios] /\ t \in Tasks /\ r \in AllRequests /\ 0 \in Tasks
  BY TasksAssumption DEF Typed, UnitPortsOK, RtosTypeOK, TcbTypeOK, Units, Tasks
<1>2. /\ Mtx!MutexIdle.wake = NoTask /\ Mtx!MutexIdle.boost = Mtx!NoBoost
      /\ \A w, b : Mtx!MutexDone(w, b).wake = w /\ Mtx!MutexDone(w, b).boost = b
      /\ \A b : Mtx!MutexBlock(b).wake = NoTask /\ Mtx!MutexBlock(b).boost = b
      /\ Mtx!NoBoost \in Mtx!BoostPort
      /\ \A u \in Tasks, p \in Prios : Mtx!Boost(u, p) \in Mtx!BoostPort
  BY DEF Mtx!MutexIdle, Mtx!MutexDone, Mtx!MutexBlock, Mtx!BoostPort, Mtx!Boost, Mtx!NoBoost,
         Mtx!Tasks, Tasks, Mtx!Prios, Prios, Mtx!NoTask, NoTask
<1>3. CASE Mtx!MutexNop
  BY <1>1, <1>2, <1>3 DEF Mtx!MutexNop, Mtx!mutexState
<1>4. CASE r.op = "LOCK" /\ Mtx!MutexLock(m, t)
  <2>1. m \in Mtx!Mutexes
    BY <1>1, <1>4, RequestIds
  <2>2. CASE Mtx!MutexLockFree(m, t)
    BY <1>1, <1>2, <2>1, <2>2 DEF Mtx!MutexLockFree, Mtx!NoTask, NoTask
  <2>3. CASE Mtx!MutexLockBlock(m, t)
    BY <1>1, <1>2, <2>1, <2>3 DEF Mtx!MutexLockBlock
  <2>4. QED
    BY <1>4, <2>2, <2>3 DEF Mtx!MutexLock
<1>5. CASE r.op = "UNLOCK" /\ Mtx!MutexUnlock(m, t)
  <2>1. m \in Mtx!Mutexes
    BY <1>1, <1>5, RequestIds
  <2>2. CASE Mtx!MutexHandOff(m, t)
    <3>1. mutex_wait_r[m] \in SUBSET Tasks /\ mutex_wait_r[m] # {}
      BY <1>1, <2>1, <2>2 DEF Mtx!MutexHandOff
    <3>2. PICK w \in Tasks : w = Mtx!BestWaiter(mutex_wait_r[m], tcb_prio)
      BY <1>1, <3>1, BestWaiterOutranks DEF Mtx!BestWaiter, BestWaiter, Mtx!Outranks, Outranks
    <3>3. /\ owner_id_r'      = [owner_id_r EXCEPT ![m] = w]
          /\ original_prio_r' = [original_prio_r EXCEPT ![m] = tcb_prio[w]]
          /\ mutex_wait_r'    = [mutex_wait_r EXCEPT ![m] = @ \ {w}]
          /\ mutex_out'       = Mtx!MutexDone(w, Mtx!Boost(t, original_prio_r[m]))
      BY <2>2, <3>2 DEF Mtx!MutexHandOff
    <3>4. QED
      BY <1>1, <1>2, <2>1, <3>3
  <2>3. CASE Mtx!MutexRelease(m, t)
    BY <1>1, <1>2, <2>1, <2>3 DEF Mtx!MutexRelease, Mtx!NoTask, NoTask
  <2>4. CASE Mtx!MutexUnlockForeign(m, t)
    BY <1>1, <1>2, <2>1, <2>4 DEF Mtx!MutexUnlockForeign, Mtx!mutexState, Mtx!NoTask, NoTask
  <2>5. QED
    BY <1>5, <2>2, <2>3, <2>4 DEF Mtx!MutexUnlock
<1>6. QED
  BY <1>3, <1>4, <1>5 DEF MutexStep

LEMMA MsgqKeepsPorts ==
  ASSUME Typed, MsgqStep
  PROVE  /\ send_wait_r' \in [Msgq!Queues -> SUBSET Tasks]
         /\ recv_wait_r' \in [Msgq!Queues -> SUBSET Tasks]
         /\ msgq_out'.wake \in Tasks \cup {NoTask}
<1> DEFINE r == op_int["msgq"]
           t == current_task_id_r
           q == r.id
<1>1. /\ send_wait_r \in [Msgq!Queues -> SUBSET Tasks]
      /\ recv_wait_r \in [Msgq!Queues -> SUBSET Tasks]
      /\ t \in Tasks /\ r \in AllRequests
  BY DEF Typed, UnitPortsOK, RtosTypeOK, Units
<1>2. /\ Msgq!MsgqIdle.wake = NoTask /\ Msgq!MsgqBlock.wake = NoTask
      /\ \A d, w : Msgq!MsgqSuccess(d, w).wake = Msgq!WakePort(w)
      /\ \A w \in SUBSET Tasks : Msgq!WakePort(w) \in Tasks \cup {NoTask} /\ Msgq!AfterWake(w) \in SUBSET Tasks
  BY FirstWaiterIsLeast DEF Msgq!MsgqIdle, Msgq!MsgqBlock, Msgq!MsgqSuccess, Msgq!WakePort, Msgq!AfterWake,
     Msgq!FirstWaiter, FirstWaiter, Msgq!NoTask, NoTask
<1>3. CASE Msgq!MsgqNop
  BY <1>1, <1>2, <1>3 DEF Msgq!MsgqNop, Msgq!msgqState
<1>4. CASE r.op = "SEND" /\ Msgq!MsgqSend(q, r.arg, t)
  <2>1. q \in Msgq!Queues
    BY <1>1, <1>4, RequestIds
  <2>2. CASE Msgq!MsgqSendStore(q, r.arg)
    BY <1>1, <1>2, <2>1, <2>2 DEF Msgq!MsgqSendStore
  <2>3. CASE Msgq!MsgqSendBlock(q, t)
    BY <1>1, <1>2, <2>1, <2>3 DEF Msgq!MsgqSendBlock
  <2>4. QED
    BY <1>4, <2>2, <2>3 DEF Msgq!MsgqSend
<1>5. CASE r.op = "RECV" /\ Msgq!MsgqRecv(q, t)
  <2>1. q \in Msgq!Queues
    BY <1>1, <1>5, RequestIds
  <2>2. CASE Msgq!MsgqRecvTake(q)
    BY <1>1, <1>2, <2>1, <2>2 DEF Msgq!MsgqRecvTake
  <2>3. CASE Msgq!MsgqRecvBlock(q, t)
    BY <1>1, <1>2, <2>1, <2>3 DEF Msgq!MsgqRecvBlock
  <2>4. QED
    BY <1>5, <2>2, <2>3 DEF Msgq!MsgqRecv
<1>6. QED
  BY <1>3, <1>4, <1>5 DEF MsgqStep
\* What the state machine takes from the units and the join table are tasks.
LEMMA WakesTask ==
  ASSUME Typed
  PROVE  WakeLatched \in Tasks \cup {NoTask}
<1>1. /\ UnitOut["sem"] = sem_out /\ UnitOut["mutex"] = mutex_out /\ UnitOut["msgq"] = msgq_out
      /\ sem_out.wake \in Tasks \cup {NoTask} /\ mutex_out.wake \in Tasks \cup {NoTask}
      /\ msgq_out.wake \in Tasks \cup {NoTask} /\ wake \in Tasks \cup {NoTask}
  BY DEF Typed, UnitPortsOK, RtosTypeOK, UnitOut
<1>2. First(Waking) \in {"sem", "mutex", "msgq"}
  BY DEF First
<1>3. QED
  BY <1>1, <1>2 DEF WakeLatched

LEMMA JoinerIsTask ==
  ASSUME Typed, Joiners # {}
  PROVE  LastJoiner \in Tasks
<1>1. PICK n \in Nat : Tasks = 0 .. n
  BY TasksAssumption DEF Tasks
<1>2. Joiners \in SUBSET (0 .. n) /\ Joiners \subseteq Tasks
  BY <1>1 DEF Joiners
<1>3. \E t \in Joiners : \A u \in Joiners : u <= t
  BY <1>1, <1>2, GreatestNat
<1>4. QED
  BY <1>2, <1>3 DEF LastJoiner

LEMMA OpsStayFit ==
  ASSUME Typed
  PROVE  /\ OpsLeft \in [Units -> AllRequests]
         /\ \A u \in Units : OpsLeft[u] = NoRequest \/ Unit[OpsLeft[u].op] = u
         /\ NoRequest \in AllRequests
<1>1. NoRequest \in AllRequests
  BY DEF AllRequests
<1>2. op_int \in [Units -> AllRequests]
  BY DEF Typed, RtosTypeOK
<1>3. QED
  BY <1>1, <1>2 DEF Typed, OpsFit, OpsLeft

\* The first free slot is a slot, is free and is not slot 0.
LEMMA FreeSlot ==
  ASSUME FreeSlots # {}
  PROVE  FirstWaiter(FreeSlots) \in Tasks \ {0} /\ ~tcb_valid[FirstWaiter(FreeSlots)]
<1>1. FreeSlots \in SUBSET Tasks
  BY DEF FreeSlots
<1>2. FirstWaiter(FreeSlots) \in FreeSlots
  BY <1>1, FirstWaiterIsLeast
<1>3. QED
  BY <1>2 DEF FreeSlots

\* The registers that the state machine drives.
FsmTyped ==
  /\ fsm_state \in FsmStates /\ current_task_id_r \in Tasks /\ next_task_id_r \in Tasks
  /\ task_active_r \in BOOLEAN /\ sched_trigger \in BOOLEAN /\ cs_switch_req \in BOOLEAN
  /\ wake \in Tasks \cup {NoTask} /\ join_target \in [Tasks -> Tasks \cup {NoTask}]
  /\ op_int \in [Units -> AllRequests] /\ op_pending \subseteq Units
  /\ WritesOK /\ OpsFit

\* An edge of the state machine, in any state and with any request, keeps the type
\* of the registers it drives.
LEMMA FsmKeepsType ==
  ASSUME Typed, NEW req \in AllRequests,
         NEW ports, ports.prios \subseteq Prios, ports.targets \subseteq Tasks, Fsm(req, ports)
  PROVE  FsmTyped'
<1>1. /\ FsmTyped
      /\ next_task_id_reg \in Tasks /\ task_create_pending \in Prios \cup {NoPrio}
  BY DEF Typed, RtosTypeOK, SchedTypeOK, FsmTyped
<1>2. /\ WakeLatched \in Tasks \cup {NoTask}
      /\ Joiners # {} => LastJoiner \in Tasks
      /\ OpsLeft \in [Units -> AllRequests]
      /\ \A u \in Units : OpsLeft[u] = NoRequest \/ Unit[OpsLeft[u].op] = u
      /\ NoRequest \in AllRequests
      /\ FreeSlots # {} => FirstWaiter(FreeSlots) \in Tasks
  BY WakesTask, JoinerIsTask, OpsStayFit, FreeSlot
<1>3. /\ \A t \in Tasks : writes' = StateWrite(t, "READY") \/ writes' = StateWrite(t, "RUNNING")
                           \/ writes' = StateWrite(t, "BLOCKED") => WritesOK'
      /\ \A t \in Tasks, p \in Prios : writes' = CreateWrite(t, p) => WritesOK'
      /\ \A t \in Tasks : writes' = DeleteWrite(t) => WritesOK'
      /\ writes' = NoWrites => WritesOK'
  BY DEF WritesOK, TaskStates
<1>4. KeepOps => op_int' \in [Units -> AllRequests] /\ op_pending' \subseteq Units /\ OpsFit'
  BY <1>1, <1>2 DEF KeepOps, FsmTyped, OpsFit
<1>5. KeepWake => wake' \in Tasks \cup {NoTask}
  BY <1>2 DEF KeepWake
<1>6. Keep => /\ op_int' \in [Units -> AllRequests] /\ op_pending' \subseteq Units /\ OpsFit'
              /\ wake' \in Tasks \cup {NoTask} /\ join_target' \in [Tasks -> Tasks \cup {NoTask}]
              /\ current_task_id_r' \in Tasks /\ next_task_id_r' \in Tasks /\ task_active_r' \in BOOLEAN
  BY <1>1, <1>4, <1>5 DEF Keep, KeepTasks, taskVars, FsmTyped
<1> USE <1>1, <1>2, <1>3, <1>4, <1>5, <1>6 DEF FsmTyped, FsmStates, Quiet, Pulses
<1>11. CASE Idle(req)
  <2>1. fsm_state' \in FsmStates
    BY <1>11 DEF Idle, IdleNext
  <2>2. WritesOK'
    BY <1>11 DEF Idle
  <2>3. op_int' \in [Units -> AllRequests] /\ op_pending' \subseteq Units /\ OpsFit'
    <3>1. CASE req.op \in UnitOps
      <4>1. Unit[req.op] \in Units
        BY <3>1 DEF Unit, UnitOps, Units, ++
      <4>2. /\ op_int' = [OpsLeft EXCEPT ![Unit[req.op]] = req]
            /\ op_pending' = op_pending \cup {Unit[req.op]}
        BY <1>11, <3>1 DEF Idle
      <4>3. QED
        BY <4>1, <4>2 DEF OpsFit
    <3>2. CASE req.op \notin UnitOps
      BY <1>11, <3>2 DEF Idle
    <3>3. QED
      BY <3>1, <3>2
  <2>4. QED
    BY <1>11, <2>1, <2>2, <2>3 DEF Idle, KeepTasks, taskVars
<1>12. CASE ScanReady
  BY <1>12 DEF ScanReady
<1>13. CASE ComparePriority
  BY <1>13 DEF ComparePriority
<1>14. CASE PreemptCheck
  BY <1>14 DEF PreemptCheck
<1>15. CASE WaitCtxAck
  BY <1>15 DEF WaitCtxAck
<1>16. CASE ContextSave
  BY <1>16 DEF ContextSave, cs_switch_done
<1>17. CASE ContextLoad
  BY <1>17 DEF ContextLoad, cs_switch_done
<1>18. CASE Dispatch
  BY <1>18 DEF Dispatch
<1>19. CASE TaskExit
  BY <1>19 DEF TaskExit
<1>20. CASE ExitSettle
  BY <1>20 DEF ExitSettle
<1>21. CASE BlockAborted(req)
  <2>1. op_int' \in [Units -> AllRequests] /\ op_pending' \subseteq Units /\ OpsFit'
    BY <1>21 DEF BlockAborted, OpsFit
  <2>2. QED
    BY <1>21, <2>1 DEF BlockAborted, KeepTasks, taskVars
<1>22. CASE BlockTask(req)
  <2>1. op_int' \in [Units -> AllRequests] /\ op_pending' \subseteq Units /\ OpsFit'
    BY <1>22 DEF BlockTask, OpsFit
  <2>2. fsm_state' \in FsmStates
    BY <1>22 DEF BlockTask, BlockNext
  <2>3. WritesOK' /\ sched_trigger' \in BOOLEAN /\ cs_switch_req' \in BOOLEAN /\ task_active_r' \in BOOLEAN
    BY <1>22 DEF BlockTask
  <2>4. QED
    BY <1>22, <2>1, <2>2, <2>3 DEF BlockTask
<1>23. CASE UnblockTask
  BY <1>23 DEF UnblockTask, KeepTasks, taskVars
<1>24. CASE \E expired \in BOOLEAN : TimerUpdate(expired)
  BY <1>24 DEF TimerUpdate
<1>25. CASE \E p \in ports.prios : TaskCreate(p)
  BY <1>25 DEF TaskCreate
<1>26. CASE \E target \in ports.targets : TaskJoin(target)
  BY <1>26 DEF TaskJoin
<1>27. QED
  BY <1>11, <1>12, <1>13, <1>14, <1>15, <1>16, <1>17, <1>18, <1>19, <1>20, <1>21, <1>22, <1>23,
     <1>24, <1>25, <1>26 DEF Fsm
\* An edge keeps the type of everything, whichever requests and operands drive it.
LEMMA EdgeKeepsType ==
  ASSUME Typed, NEW req \in AllRequests, NEW tick \in BOOLEAN, NEW resched \in BOOLEAN,
         NEW ports, ports.prios \subseteq Prios, ports.targets \subseteq Tasks,
         Edge(req, ports, tick, resched), ctx_switch_ack' \in BOOLEAN
  PROVE  Typed'
<1>1. FsmTyped'
  BY FsmKeepsType DEF Edge
<1>2. TcbTypeOK' /\ SchedTypeOK'
  BY ArrayLands, SchedKeepsType DEF Edge, Typed, RtosTypeOK, SchedReads
<1>3. UnitPortsOK'
  <2>1. SemStep(ports.counts) /\ MutexStep /\ MsgqStep
    BY DEF Edge
  <2>2. PICK counts : SemStep(counts)
    BY <2>1
  <2>3. QED
    BY <2>1, <2>2, SemKeepsPorts, MutexKeepsPorts, MsgqKeepsPorts DEF UnitPortsOK
<1>4. need_reschedule' \in BOOLEAN /\ timer_tick_pending' \in BOOLEAN
  BY DEF Edge, NeedReschedule, TickLatch
<1>5. task_create_pending' \in Prios \cup {NoPrio}
  BY RequestIds DEF Edge, CreateLatch, Typed, RtosTypeOK
<1>6. /\ prio_boost_wr_pending' \in BOOLEAN /\ tcb_wr_en' \in BOOLEAN /\ lent' \in BOOLEAN
      /\ boost' \in [id : Tasks, val : Prios]
  <2>1. /\ BoostLatch /\ mutex_out.boost \in Mtx!BoostPort
        /\ prio_boost_wr_pending \in BOOLEAN /\ tcb_wr_en \in BOOLEAN /\ lent \in BOOLEAN
        /\ boost \in [id : Tasks, val : Prios]
    BY DEF Edge, Typed, RtosTypeOK, UnitPortsOK
  <2>2. mutex_out.boost # Mtx!NoBoost => mutex_out.boost \in [id : Tasks, val : Prios]
    BY <2>1 DEF Mtx!BoostPort, Mtx!Tasks, Tasks, Mtx!Prios, Prios
  <2>3. QED
    BY <2>1, <2>2 DEF BoostLatch
<1>7. DOMAIN writes'.create \cup DOMAIN writes'.state \cup writes'.delete \subseteq Tasks
  <2>1. WritesOK' => DOMAIN writes'.create \cup DOMAIN writes'.state \cup writes'.delete \subseteq Tasks
    BY PortFields DEF WritesOK
  <2>2. QED
    BY <1>1, <2>1 DEF FsmTyped
<1>8. QED
  BY <1>1, <1>2, <1>3, <1>4, <1>5, <1>6, <1>7 DEF Typed, RtosTypeOK, FsmTyped

LEMMA InitTyped == Init => Typed
<1> SUFFICES ASSUME Init PROVE Typed
  OBVIOUS
<1>1. 0 \in Tasks /\ 0 \in Prios
  BY TasksAssumption DEF Tasks, Prios
<1>2. TcbTypeOK /\ SchedTypeOK
  BY <1>1 DEF Init, TcbInit, TcbTypeOK, TaskStates, SchedInit, SchedTypeOK, SchedStates, FreshScan
<1>3. UnitPortsOK
  <2>1. /\ wait_mask_r \in [Sem!Sems -> SUBSET Tasks] /\ sem_out.wake = NoTask
    BY DEF Init, Sem!SemInit, Sem!SemIdle, Sem!NoTask, NoTask
  <2>2. /\ mutex_wait_r \in [Mtx!Mutexes -> SUBSET Tasks]
        /\ owner_id_r \in [Mtx!Mutexes -> Tasks] /\ original_prio_r \in [Mtx!Mutexes -> Prios]
        /\ mutex_out.wake = NoTask /\ mutex_out.boost \in Mtx!BoostPort
    BY <1>1 DEF Init, Mtx!MutexInit, Mtx!MutexIdle, Mtx!NoTask, NoTask, Mtx!BoostPort
  <2>3. /\ send_wait_r \in [Msgq!Queues -> SUBSET Tasks] /\ recv_wait_r \in [Msgq!Queues -> SUBSET Tasks]
        /\ msgq_out.wake = NoTask
    BY DEF Init, Msgq!MsgqInit, Msgq!MsgqIdle, Msgq!NoTask, NoTask
  <2>4. QED
    BY <2>1, <2>2, <2>3 DEF UnitPortsOK
<1>4. op_int = [u \in Units |-> NoRequest] /\ NoRequest \in AllRequests /\ OpsFit
  BY DEF Init, AllRequests, OpsFit
<1>5. boost \in [id : Tasks, val : Prios]
  BY <1>1 DEF Init, Mtx!Boost
<1>6. WritesOK /\ DOMAIN writes.create \cup DOMAIN writes.state \cup writes.delete \subseteq Tasks
  BY PortFields DEF Init, WritesOK
<1>7. QED
  BY <1>1, <1>2, <1>3, <1>4, <1>5, <1>6 DEF Init, Typed, RtosTypeOK, FsmStates

\* An edge of the whole is an edge with some requests and operands.
LEMMA NextIsEdge ==
  ASSUME Next
  PROVE  \E req \in AllRequests, tick \in BOOLEAN, resched \in BOOLEAN :
           Edge(req, AnyPorts, tick, resched) /\ CpuStep
BY DEF Next, Requests, Inputs, Step

LEMMA TypedInvariant == Spec => []Typed
<1>1. Typed /\ [Next]_vars => Typed'
  <2> SUFFICES ASSUME Typed, [Next]_vars PROVE Typed'
    OBVIOUS
  <2>1. CASE Next
    <3>1. AnyPorts.prios \subseteq Prios /\ AnyPorts.targets \subseteq Tasks
      BY DEF AnyPorts
    <3>2. PICK req \in AllRequests, tick \in BOOLEAN, resched \in BOOLEAN :
            Edge(req, AnyPorts, tick, resched) /\ CpuStep
      BY <2>1, NextIsEdge
    <3>3. ctx_switch_ack' \in BOOLEAN
      BY <3>2 DEF CpuStep, stall_pipeline
    <3>4. QED
      BY <3>1, <3>2, <3>3, EdgeKeepsType
  <2>2. CASE UNCHANGED vars
    BY <2>2 DEF vars, taskVars, latchVars, boostVars, unitVars, tcbVars, schedVars, Typed, RtosTypeOK,
                TcbTypeOK, SchedTypeOK, WritesOK, OpsFit, UnitPortsOK
  <2>3. QED
    BY <2>1, <2>2
<1>2. QED
  BY InitTyped, <1>1, PTL DEF Spec

\* The registers of the whole keep their ranges (declarations of hw_rtos.sv and of the
\* units' task ports), whatever mix of requests, ticks and loans drives the edges and for
\* any number of tasks, priorities and objects.
THEOREM RtosTypeCorrect == Spec => []RtosTypeOK
<1>1. Typed => RtosTypeOK
  BY DEF Typed
<1>2. QED
  BY TypedInvariant, <1>1, PTL
-----------------------------------------------------------------------------
Switching == {"S_PREEMPT_CHECK", "S_WAIT_CTX_ACK", "S_CONTEXT_SAVE", "S_CONTEXT_LOAD"}
Deciding  == Switching \cup {"S_COMPARE_PRIORITY", "S_DISPATCH"}

\* How the state machine keeps the scheduler and the write ports apart: a scan runs only
\* in S_SCAN_READY, with no write on its way; a creation waits at the port for one edge,
\* and its slot is still free; from the answer to the dispatch the decision stands.
Pulsed ==
  /\ sched_trigger \/ sched_busy => fsm_state = "S_SCAN_READY"
  /\ sched_busy => writes = NoWrites
  /\ fsm_state \in {"S_COMPARE_PRIORITY", "S_PREEMPT_CHECK", "S_DISPATCH"} => writes = NoWrites
  /\ \A t \in DOMAIN writes.create : fsm_state = "S_SCAN_READY" /\ t # 0 /\ ~tcb_valid[t]
  /\ fsm_state \in Deciding => next_task_id_r = next_task_id_reg

\* A unit looked at first among all that are pending is first among those served.
LEMMA FirstServed ==
  ASSUME op_pending \subseteq Units, First(op_pending) \in Served
  PROVE  First(Served) = First(op_pending) /\ op_pending # {} /\ Served # {}
BY DEF First, Served, Units

\* What an edge of the state machine does to the scheduler's trigger, to the
\* write ports and to the decision.
LEMMA FsmControl ==
  ASSUME Typed, NEW req, NEW ports, Fsm(req, ports)
  PROVE  /\ sched_trigger' => fsm_state' = "S_SCAN_READY"
         /\ fsm_state = "S_SCAN_READY" =>
              /\ writes' = NoWrites /\ UNCHANGED <<current_task_id_r, task_active_r>>
              /\ fsm_state' = IF sched_done THEN "S_COMPARE_PRIORITY" ELSE "S_SCAN_READY"
         /\ fsm_state' \in {"S_COMPARE_PRIORITY", "S_PREEMPT_CHECK", "S_DISPATCH"} => writes' = NoWrites
         /\ \A t \in DOMAIN writes'.create :
              /\ fsm_state = "S_TASK_CREATE" /\ fsm_state' = "S_SCAN_READY"
              /\ t \in Tasks \ {0} /\ ~tcb_valid[t]
         /\ fsm_state' \in Deciding =>
              \/ fsm_state \in Deciding /\ next_task_id_r' = next_task_id_r
              \/ fsm_state = "S_SCAN_READY" /\ sched_done /\ next_task_id_r' = next_task_id_reg
<1> USE PortFields DEF Deciding, Switching, Quiet, Pulses, Keep, KeepTasks, taskVars
<1>1. CASE Idle(req)
  BY <1>1 DEF Idle, IdleNext
<1>2. CASE ScanReady
  BY <1>2 DEF ScanReady, sched_done, sched_busy
<1>3. CASE ComparePriority
  BY <1>3 DEF ComparePriority
<1>4. CASE PreemptCheck
  BY <1>4 DEF PreemptCheck
<1>5. CASE WaitCtxAck
  BY <1>5 DEF WaitCtxAck
<1>6. CASE ContextSave
  BY <1>6 DEF ContextSave
<1>7. CASE ContextLoad
  BY <1>7 DEF ContextLoad
<1>8. CASE Dispatch
  BY <1>8 DEF Dispatch
<1>9. CASE TaskExit
  BY <1>9 DEF TaskExit
<1>10. CASE ExitSettle
  BY <1>10 DEF ExitSettle
<1>11. CASE BlockAborted(req)
  BY <1>11 DEF BlockAborted
<1>12. CASE BlockTask(req)
  <2>1. op_pending \subseteq Units
    BY DEF Typed, RtosTypeOK
  <2>2. First(op_pending) \in Served => First(Served) = First(op_pending) /\ op_pending # {} /\ Served # {}
    BY <2>1, FirstServed
  <2>3. sched_trigger' => fsm_state' = "S_SCAN_READY"
    BY <1>12, <2>2 DEF BlockTask, BlockNext
  <2>4. DOMAIN writes'.create = {}
    BY <1>12 DEF BlockTask
  <2>5. fsm_state' \notin Deciding
    BY <1>12 DEF BlockTask, BlockNext
  <2>6. QED
    BY <1>12, <2>3, <2>4, <2>5 DEF BlockTask
<1>13. CASE UnblockTask
  BY <1>13 DEF UnblockTask
<1>14. CASE \E expired \in BOOLEAN : TimerUpdate(expired)
  BY <1>14 DEF TimerUpdate
<1>15. CASE \E p \in ports.prios : TaskCreate(p)
  <2>1. PICK p \in ports.prios : TaskCreate(p)
    BY <1>15
  <2>2. CASE FreeSlots = {}
    BY <2>1, <2>2 DEF TaskCreate
  <2>3. CASE FreeSlots # {}
    <3>1. PICK granted : writes' = CreateWrite(FirstWaiter(FreeSlots), granted)
      BY <2>1, <2>3 DEF TaskCreate
    <3>2. DOMAIN writes'.create = {FirstWaiter(FreeSlots)}
      BY <3>1
    <3>3. QED
      BY <2>1, <2>3, <3>2, FreeSlot DEF TaskCreate
  <2>4. QED
    BY <2>2, <2>3
<1>16. CASE \E target \in ports.targets : TaskJoin(target)
  BY <1>16 DEF TaskJoin
<1>17. QED
  BY <1>1, <1>2, <1>3, <1>4, <1>5, <1>6, <1>7, <1>8, <1>9, <1>10, <1>11, <1>12, <1>13,
     <1>14, <1>15, <1>16, Zenon DEF Fsm

LEMMA PulsesKept ==
  ASSUME Typed, Pulsed, NEW req, NEW ports, NEW tick, NEW resched, Edge(req, ports, tick, resched)
  PROVE  Pulsed'
<1>1. Fsm(req, ports) /\ SchedStep /\ TcbStep(writes, FullWrite)
  BY DEF Edge
<1>2. /\ sched_trigger' => fsm_state' = "S_SCAN_READY"
      /\ fsm_state = "S_SCAN_READY" =>
           /\ writes' = NoWrites
           /\ fsm_state' = IF sched_done THEN "S_COMPARE_PRIORITY" ELSE "S_SCAN_READY"
      /\ fsm_state' \in {"S_COMPARE_PRIORITY", "S_PREEMPT_CHECK", "S_DISPATCH"} => writes' = NoWrites
      /\ \A t \in DOMAIN writes'.create :
           /\ fsm_state = "S_TASK_CREATE" /\ fsm_state' = "S_SCAN_READY"
           /\ t \in Tasks \ {0} /\ ~tcb_valid[t]
      /\ fsm_state' \in Deciding =>
           \/ fsm_state \in Deciding /\ next_task_id_r' = next_task_id_r
           \/ fsm_state = "S_SCAN_READY" /\ sched_done /\ next_task_id_r' = next_task_id_reg
  BY <1>1, FsmControl
<1>3. /\ sched_busy' => fsm_state = "S_SCAN_READY" /\ ~sched_done
      /\ fsm_state # "S_SCAN_READY" \/ sched_done => next_task_id_reg' = next_task_id_reg
  BY <1>1 DEF SchedStep, SchedWait, SchedScan, SchedPreempt, SchedSwitch, SchedDone, sched_busy,
              sched_done, Pulsed
<1>4. \A t \in DOMAIN writes'.create : ~tcb_valid'[t]
  <2>1. \A t \in Tasks \ {0} : tcb_valid'[t] => tcb_valid[t] \/ t \in DOMAIN writes.create
    BY <1>1, ArrayLands
  <2>2. fsm_state = "S_TASK_CREATE" => DOMAIN writes.create = {}
    BY DEF Pulsed
  <2>3. QED
    BY <1>2, <2>1, <2>2
<1>5. fsm_state' \in Deciding => next_task_id_r' = next_task_id_reg'
  BY <1>2, <1>3 DEF Pulsed, Deciding, Switching
<1>6. QED
  BY <1>2, <1>3, <1>4, <1>5 DEF Pulsed
-----------------------------------------------------------------------------
\* Who runs, as the array will say once the pending write has landed.
OneRunner ==
  /\ \A t \in Tasks \ {0} : Lands(t) = "RUNNING" \/ tcb_state[t] = "RUNNING" => t = current_task_id_r
  /\ ~task_active_r => current_task_id_r = 0 \/ Lands(current_task_id_r) # "RUNNING"
  /\ fsm_state \in {"S_WAIT_CTX_ACK", "S_CONTEXT_SAVE", "S_CONTEXT_LOAD", "S_DISPATCH"} =>
       current_task_id_r \in {0, next_task_id_r} \/ Lands(current_task_id_r) # "RUNNING"
  /\ fsm_state = "S_PREEMPT_CHECK" => task_active_r

\* What an edge of the state machine does to the current task.
LEMMA FsmRuns ==
  ASSUME Typed, NEW req, NEW ports, Fsm(req, ports)
  PROVE  /\ \A t \in DOMAIN writes'.state : writes'.state[t] = "RUNNING" => fsm_state = "S_DISPATCH"
         /\ fsm_state # "S_DISPATCH" =>
              current_task_id_r' = current_task_id_r /\ (task_active_r' => task_active_r)
         /\ fsm_state = "S_DISPATCH" =>
              /\ current_task_id_r' = next_task_id_r /\ task_active_r' /\ fsm_state' = "S_IDLE"
              /\ writes' = StateWrite(next_task_id_r, "RUNNING")
         /\ task_active_r /\ ~task_active_r' => current_task_id_r \in DOMAIN writes'.state
         /\ fsm_state' \in {"S_WAIT_CTX_ACK", "S_CONTEXT_SAVE", "S_CONTEXT_LOAD", "S_DISPATCH"} =>
              /\ next_task_id_r' = next_task_id_r
              /\ \/ fsm_state \in {"S_WAIT_CTX_ACK", "S_CONTEXT_SAVE", "S_CONTEXT_LOAD"}
                 \/ fsm_state = "S_PREEMPT_CHECK" /\ (task_active_r => current_task_id_r \in DOMAIN writes'.state)
                 \/ fsm_state = "S_COMPARE_PRIORITY" /\ (task_active_r => next_task_id_reg = current_task_id_r)
         /\ fsm_state' = "S_PREEMPT_CHECK" => task_active_r'
<1> USE PortFields DEF Quiet, Pulses, Keep, KeepTasks, taskVars
<1>1. CASE Idle(req)
  BY <1>1 DEF Idle, IdleNext
<1>2. CASE ScanReady
  BY <1>2 DEF ScanReady
<1>3. CASE ComparePriority
  BY <1>3 DEF ComparePriority
<1>4. CASE PreemptCheck
  BY <1>4 DEF PreemptCheck
<1>5. CASE WaitCtxAck
  BY <1>5 DEF WaitCtxAck
<1>6. CASE ContextSave
  BY <1>6 DEF ContextSave
<1>7. CASE ContextLoad
  BY <1>7 DEF ContextLoad
<1>8. CASE Dispatch
  BY <1>8 DEF Dispatch
<1>9. CASE TaskExit
  BY <1>9 DEF TaskExit
<1>10. CASE ExitSettle
  BY <1>10 DEF ExitSettle
<1>11. CASE BlockAborted(req)
  BY <1>11 DEF BlockAborted
<1>12. CASE BlockTask(req)
  <2>1. fsm_state' \in {"S_IDLE", "S_BLOCK_TASK", "S_SCAN_READY", "S_UNBLOCK_TASK"}
    BY <1>12 DEF BlockTask, BlockNext
  <2>2. \/ writes' = NoWrites /\ task_active_r' = task_active_r
        \/ writes' = StateWrite(current_task_id_r, "BLOCKED")
    BY <1>12 DEF BlockTask, Typed, RtosTypeOK
  <2>3. /\ fsm_state = "S_BLOCK_TASK" /\ current_task_id_r' = current_task_id_r
        /\ task_active_r' => task_active_r
    BY <1>12 DEF BlockTask
  <2>4. QED
    BY <2>1, <2>2, <2>3
<1>13. CASE UnblockTask
  BY <1>13 DEF UnblockTask
<1>14. CASE \E expired \in BOOLEAN : TimerUpdate(expired)
  BY <1>14 DEF TimerUpdate
<1>15. CASE \E p \in ports.prios : TaskCreate(p)
  <2>1. PICK p \in ports.prios : TaskCreate(p)
    BY <1>15
  <2>2. CASE FreeSlots = {}
    BY <2>1, <2>2 DEF TaskCreate
  <2>3. CASE FreeSlots # {}
    <3>1. PICK granted : writes' = CreateWrite(FirstWaiter(FreeSlots), granted)
      BY <2>1, <2>3 DEF TaskCreate
    <3>2. DOMAIN writes'.state = {}
      BY <3>1
    <3>3. QED
      BY <2>1, <3>2 DEF TaskCreate
  <2>4. QED
    BY <2>2, <2>3
<1>16. CASE \E target \in ports.targets : TaskJoin(target)
  <2>1. PICK target \in ports.targets : TaskJoin(target)
    BY <1>16
  <2>2. \/ writes' = NoWrites /\ task_active_r' = task_active_r
        \/ writes' = StateWrite(current_task_id_r, "BLOCKED")
    BY <2>1 DEF TaskJoin, Typed, RtosTypeOK
  <2>3. QED
    BY <2>1, <2>2 DEF TaskJoin
<1>17. QED
  BY <1>1, <1>2, <1>3, <1>4, <1>5, <1>6, <1>7, <1>8, <1>9, <1>10, <1>11, <1>12, <1>13,
     <1>14, <1>15, <1>16, Zenon DEF Fsm

LEMMA RunnerKept ==
  ASSUME Typed, Pulsed, OneRunner,
         NEW req, NEW ports, NEW tick, NEW resched, Edge(req, ports, tick, resched)
  PROVE  OneRunner'
<1>1. Fsm(req, ports) /\ TcbStep(writes, FullWrite)
  BY DEF Edge
<1>2. /\ \A t \in DOMAIN writes'.state : writes'.state[t] = "RUNNING" => fsm_state = "S_DISPATCH"
      /\ fsm_state # "S_DISPATCH" =>
           current_task_id_r' = current_task_id_r /\ (task_active_r' => task_active_r)
      /\ fsm_state = "S_DISPATCH" =>
           /\ current_task_id_r' = next_task_id_r /\ task_active_r' /\ fsm_state' = "S_IDLE"
           /\ writes' = StateWrite(next_task_id_r, "RUNNING")
      /\ task_active_r /\ ~task_active_r' => current_task_id_r \in DOMAIN writes'.state
      /\ fsm_state' \in {"S_WAIT_CTX_ACK", "S_CONTEXT_SAVE", "S_CONTEXT_LOAD", "S_DISPATCH"} =>
           /\ next_task_id_r' = next_task_id_r
           /\ \/ fsm_state \in {"S_WAIT_CTX_ACK", "S_CONTEXT_SAVE", "S_CONTEXT_LOAD"}
              \/ fsm_state = "S_PREEMPT_CHECK" /\ (task_active_r => current_task_id_r \in DOMAIN writes'.state)
              \/ fsm_state = "S_COMPARE_PRIORITY" /\ (task_active_r => next_task_id_reg = current_task_id_r)
      /\ fsm_state' = "S_PREEMPT_CHECK" => task_active_r'
  BY <1>1, FsmRuns
<1>3. current_task_id_r \in Tasks
  BY DEF Typed, RtosTypeOK
\* a task that will run without being dispatched at this edge runs now
<1>4. ASSUME NEW t \in Tasks \ {0}, tcb_state'[t] = "RUNNING" \/ Lands(t)' = "RUNNING"
      PROVE  \/ Lands(t) = "RUNNING" /\ (Lands(t)' = "RUNNING" => t \notin DOMAIN writes'.state \/ fsm_state = "S_DISPATCH")
             \/ fsm_state = "S_DISPATCH" /\ t = next_task_id_r
  <2>1. tcb_state'[t] \in {Lands(t), "READY"}
    BY <1>1, ArrayLands
  <2>2. Lands(t)' = IF t \in DOMAIN writes'.state THEN writes'.state[t] ELSE tcb_state'[t]
    BY DEF Lands
  <2>3. fsm_state = "S_DISPATCH" => DOMAIN writes'.state = {next_task_id_r}
    BY <1>2, PortFields
  <2>4. QED
    BY <1>2, <1>4, <2>1, <2>2, <2>3
<1>5. \A t \in Tasks \ {0} : Lands(t)' = "RUNNING" \/ tcb_state'[t] = "RUNNING" => t = current_task_id_r'
  BY <1>2, <1>4 DEF OneRunner
<1>6. ~task_active_r' => current_task_id_r' = 0 \/ Lands(current_task_id_r)' # "RUNNING"
  <2> SUFFICES ASSUME ~task_active_r', current_task_id_r' # 0, Lands(current_task_id_r)' = "RUNNING"
               PROVE  FALSE
    OBVIOUS
  <2>1. fsm_state # "S_DISPATCH" /\ current_task_id_r' = current_task_id_r
    BY <1>2
  <2>2. Lands(current_task_id_r) = "RUNNING" /\ current_task_id_r \notin DOMAIN writes'.state
    BY <1>3, <1>4, <2>1
  <2>3. QED
    BY <1>2, <2>1, <2>2 DEF OneRunner
<1>7. fsm_state' \in {"S_WAIT_CTX_ACK", "S_CONTEXT_SAVE", "S_CONTEXT_LOAD", "S_DISPATCH"} =>
        current_task_id_r' \in {0, next_task_id_r'} \/ Lands(current_task_id_r)' # "RUNNING"
  <2> SUFFICES ASSUME fsm_state' \in {"S_WAIT_CTX_ACK", "S_CONTEXT_SAVE", "S_CONTEXT_LOAD", "S_DISPATCH"},
                      current_task_id_r' \notin {0, next_task_id_r'},
                      Lands(current_task_id_r)' = "RUNNING"
               PROVE  FALSE
    OBVIOUS
  <2>1. fsm_state # "S_DISPATCH" /\ current_task_id_r' = current_task_id_r /\ next_task_id_r' = next_task_id_r
    BY <1>2
  <2>2. Lands(current_task_id_r) = "RUNNING" /\ current_task_id_r \notin DOMAIN writes'.state
    BY <1>3, <1>4, <2>1
  <2>3. QED
    BY <1>2, <2>1, <2>2 DEF OneRunner, Pulsed, Deciding
<1>8. QED
  BY <1>2, <1>5, <1>6, <1>7 DEF OneRunner
-----------------------------------------------------------------------------
\* What an edge of the state machine does on the ways between a decision and rest.
LEMMA FsmRests ==
  ASSUME Typed, NEW req, NEW ports, Fsm(req, ports)
  PROVE  /\ fsm_state' \in {"S_IDLE", "S_BLOCK_TASK"} =>
              \/ /\ fsm_state \in {"S_IDLE", "S_BLOCK_TASK"} /\ writes' = NoWrites
                 /\ UNCHANGED <<current_task_id_r, task_active_r>>
              \/ /\ fsm_state = "S_COMPARE_PRIORITY" /\ writes' = NoWrites
                 /\ ~task_active_r /\ next_task_id_reg = 0
              \/ fsm_state = "S_DISPATCH"
         /\ task_active_r' /\ fsm_state # "S_DISPATCH" =>
              \A t \in DOMAIN writes'.state : writes'.state[t] = "READY"
         /\ fsm_state' \in Switching \cup {"S_DISPATCH"} =>
              \/ fsm_state \in Switching
              \/ fsm_state = "S_COMPARE_PRIORITY" /\ (next_task_id_reg # 0 \/ task_active_r)
         /\ fsm_state' \in {"S_COMPARE_PRIORITY", "S_PREEMPT_CHECK"} =>
              \/ fsm_state = "S_SCAN_READY" /\ sched_done
              \/ fsm_state = "S_COMPARE_PRIORITY" /\ task_active_r /\ next_task_id_reg # current_task_id_r
         /\ fsm_state = "S_COMPARE_PRIORITY" /\ fsm_state' # "S_DISPATCH" /\ task_active_r =>
              next_task_id_reg # current_task_id_r
         /\ fsm_state \in Deciding \ {"S_DISPATCH"} =>
              \/ writes' = NoWrites
              \/ /\ fsm_state = "S_PREEMPT_CHECK" /\ task_active_r
                 /\ writes' = StateWrite(current_task_id_r, "READY")
<1> USE PortFields DEF Deciding, Switching, Quiet, Pulses, Keep, KeepTasks, taskVars
<1>1. CASE Idle(req)
  <2>1. /\ fsm_state = "S_IDLE" /\ fsm_state' = IdleNext(req.op)
        /\ UNCHANGED <<current_task_id_r, task_active_r>>
        /\ \/ writes' = NoWrites
           \/ req.op = "yield" /\ writes' = StateWrite(current_task_id_r, "READY")
    BY <1>1 DEF Idle
  <2>2. IdleNext(req.op) \in {"S_TASK_CREATE", "S_TASK_EXIT", "S_TASK_JOIN", "S_SCAN_READY",
                             "S_BLOCK_TASK", "S_TIMER_UPDATE", "S_IDLE"}
    BY DEF IdleNext
  <2>3. req.op = "yield" => IdleNext(req.op) \in {"S_TASK_CREATE", "S_SCAN_READY"}
    <3>1. "yield" \notin UnitOps
      BY DEF UnitOps, Unit, ++
    <3>2. QED
      BY <3>1 DEF IdleNext
  <2>4. CASE writes' = NoWrites
    <3>1. DOMAIN writes'.state = {}
      BY <2>4
    <3>2. /\ fsm_state = "S_IDLE" /\ UNCHANGED <<current_task_id_r, task_active_r>>
          /\ fsm_state' \notin Deciding
      BY <2>1, <2>2
    <3>3. QED
      BY <2>4, <3>1, <3>2
  <2>5. CASE req.op = "yield" /\ writes' = StateWrite(current_task_id_r, "READY")
    <3>1. \A t \in DOMAIN writes'.state : writes'.state[t] = "READY"
      BY <2>5
    <3>2. fsm_state' \in {"S_TASK_CREATE", "S_SCAN_READY"}
      BY <2>1, <2>3, <2>5
    <3>3. QED
      BY <2>1, <3>1, <3>2
  <2>6. QED
    BY <2>1, <2>4, <2>5
<1>2. CASE ScanReady
  BY <1>2 DEF ScanReady
<1>3. CASE ComparePriority
  BY <1>3 DEF ComparePriority, Typed, RtosTypeOK
<1>4. CASE PreemptCheck
  BY <1>4 DEF PreemptCheck
<1>5. CASE WaitCtxAck
  BY <1>5 DEF WaitCtxAck
<1>6. CASE ContextSave
  BY <1>6 DEF ContextSave
<1>7. CASE ContextLoad
  BY <1>7 DEF ContextLoad
<1>8. CASE Dispatch
  BY <1>8 DEF Dispatch
<1>9. CASE TaskExit
  BY <1>9 DEF TaskExit
<1>10. CASE ExitSettle
  BY <1>10 DEF ExitSettle
<1>11. CASE BlockAborted(req)
  BY <1>11 DEF BlockAborted
<1>12. CASE BlockTask(req)
  <2>1. op_pending \subseteq Units /\ task_active_r \in BOOLEAN
    BY DEF Typed, RtosTypeOK
  <2>2. First(op_pending) \in Served => First(Served) = First(op_pending) /\ op_pending # {} /\ Served # {}
    BY <2>1, FirstServed
  <2>3. /\ fsm_state = "S_BLOCK_TASK" /\ current_task_id_r' = current_task_id_r
        /\ fsm_state' \in {"S_IDLE", "S_BLOCK_TASK", "S_SCAN_READY", "S_UNBLOCK_TASK"}
    BY <1>12 DEF BlockTask, BlockNext
  <2>4. \/ writes' = NoWrites /\ task_active_r' = task_active_r
        \/ ~task_active_r' /\ fsm_state' = "S_SCAN_READY"
    BY <1>12, <2>1, <2>2 DEF BlockTask, BlockNext
  <2>5. QED
    BY <2>3, <2>4
<1>13. CASE UnblockTask
  BY <1>13 DEF UnblockTask
<1>14. CASE \E expired \in BOOLEAN : TimerUpdate(expired)
  BY <1>14 DEF TimerUpdate
<1>15. CASE \E p \in ports.prios : TaskCreate(p)
  <2>1. PICK p \in ports.prios : TaskCreate(p)
    BY <1>15
  <2>2. DOMAIN writes'.state = {}
    <3>1. CASE FreeSlots = {}
      BY <2>1, <3>1 DEF TaskCreate
    <3>2. CASE FreeSlots # {}
      <4>1. PICK granted : writes' = CreateWrite(FirstWaiter(FreeSlots), granted)
        BY <2>1, <3>2 DEF TaskCreate
      <4>2. QED
        BY <4>1
    <3>3. QED
      BY <3>1, <3>2
  <2>3. QED
    BY <2>1, <2>2 DEF TaskCreate
<1>16. CASE \E target \in ports.targets : TaskJoin(target)
  <2>1. PICK target \in ports.targets : TaskJoin(target)
    BY <1>16
  <2>2. writes' = NoWrites \/ ~task_active_r'
    BY <2>1 DEF TaskJoin
  <2>3. QED
    BY <2>1, <2>2 DEF TaskJoin
<1>17. QED
  BY <1>1, <1>2, <1>3, <1>4, <1>5, <1>6, <1>7, <1>8, <1>9, <1>10, <1>11, <1>12, <1>13,
     <1>14, <1>15, <1>16, Zenon DEF Fsm
\* The tasks that are READY once the pending write has landed, none of them above t.
LandsReady   == {t \in Tasks : tcb_valid[t] /\ t \notin writes.delete /\ Lands(t) = "READY"}
NoneAbove(t) == \A u \in LandsReady : tcb_prio[u] <= tcb_prio[t]

\* Before the first loan: slot 0 holds no task, an active task can run, a decision and
\* then the current task have none above them.
NoTaskInZero == ~tcb_valid[0] /\ Lands(0) # "RUNNING" /\ tcb_state[0] # "RUNNING"
Active ==
  task_active_r =>
    /\ current_task_id_r # 0
    /\ Lands(current_task_id_r) \in {"READY", "RUNNING"} \/ current_task_id_r \in DOMAIN writes.create
Rests ==
  fsm_state \in {"S_IDLE", "S_BLOCK_TASK"} /\ LandsReady # {} =>
    task_active_r /\ NoneAbove(current_task_id_r)
Decides ==
  /\ fsm_state \in Deciding => NoneAbove(next_task_id_r)
  /\ fsm_state = "S_COMPARE_PRIORITY" /\ next_task_id_r = 0 => LandsReady = {}
  /\ fsm_state \in Switching \cup {"S_DISPATCH"} => next_task_id_r # 0
  /\ fsm_state \in {"S_COMPARE_PRIORITY", "S_PREEMPT_CHECK"} /\ task_active_r
       /\ next_task_id_r # current_task_id_r =>
       /\ next_task_id_r # 0
       /\ tcb_valid[current_task_id_r] => tcb_prio[current_task_id_r] <= tcb_prio[next_task_id_r]
Unlent == NoTaskInZero /\ Active /\ Rests /\ Decides /\ RunHolds(TRUE, {})

\* An edge without a loan, seen by a slot that is not being created.
LEMMA QuietEdge ==
  ASSUME Typed, ~tcb_wr_en, TcbStep(writes, FullWrite),
         NEW t \in Tasks, t \notin DOMAIN writes.create
  PROVE  /\ tcb_state'[t] = Lands(t) /\ tcb_prio'[t] = tcb_prio[t]
         /\ tcb_valid'[t] <=> tcb_valid[t] /\ t \notin writes.delete
         /\ t \in LandsReady' => t \in LandsReady \/ (t \in DOMAIN writes'.state /\ writes'.state[t] = "READY")
         /\ writes' = NoWrites => (t \in LandsReady' <=> t \in LandsReady)
<1>1. /\ tcb_state'[t] = Lands(t) /\ tcb_prio'[t] = tcb_prio[t]
      /\ tcb_valid'[t] <=> tcb_valid[t] /\ t \notin writes.delete
  BY ArrayLands
<1>2. Lands(t)' = IF t \in DOMAIN writes'.state THEN writes'.state[t] ELSE tcb_state'[t]
  BY DEF Lands
<1>3. writes' = NoWrites => DOMAIN writes'.state = {} /\ writes'.delete = {}
  BY PortFields
<1>4. t \in LandsReady' <=> tcb_valid'[t] /\ t \notin writes'.delete /\ Lands(t)' = "READY"
  BY DEF LandsReady
<1>5. t \in LandsReady <=> tcb_valid[t] /\ t \notin writes.delete /\ Lands(t) = "READY"
  BY DEF LandsReady
<1>6. t \in LandsReady' =>
        t \in LandsReady \/ (t \in DOMAIN writes'.state /\ writes'.state[t] = "READY")
  <2>1. CASE t \in DOMAIN writes'.state
    BY <1>2, <1>4, <2>1
  <2>2. CASE t \notin DOMAIN writes'.state
    <3>1. Lands(t)' = Lands(t)
      BY <1>1, <1>2, <2>2
    <3>2. QED
      BY <1>1, <1>4, <1>5, <3>1, Zenon
  <2>3. QED
    BY <2>1, <2>2
<1>7. writes' = NoWrites => (t \in LandsReady' <=> t \in LandsReady)
  <2> SUFFICES ASSUME writes' = NoWrites PROVE t \in LandsReady' <=> t \in LandsReady
    OBVIOUS
  <2>1. Lands(t)' = Lands(t) /\ t \notin writes'.delete
    BY <1>1, <1>2, <1>3
  <2>2. QED
    BY <1>1, <1>4, <1>5, <2>1, Zenon
<1>8. QED
  BY <1>1, <1>6, <1>7, Zenon

\* While the scheduler runs and no loan is written, nothing around it changes.
LEMMA ScanUndisturbed ==
  ASSUME Typed, Pulsed, sched_busy, NEW req, NEW ports, NEW tick, NEW resched,
         Edge(req, ports, tick, resched)
  PROVE  UNCHANGED <<current_task_id_r, task_active_r>> /\ (UNCHANGED tcbVars \/ tcb_wr_en)
<1>1. Fsm(req, ports) /\ TcbStep(writes, FullWrite) /\ TcbTypeOK
  BY DEF Edge, Typed, RtosTypeOK
<1>2. fsm_state = "S_SCAN_READY" /\ writes = NoWrites
  BY DEF Pulsed
<1>3. UNCHANGED <<current_task_id_r, task_active_r>>
  BY <1>1, <1>2, FsmControl
<1>4. ~tcb_wr_en => FullWrite = NoPort
  BY DEF FullWrite, LoanLands, CopyLands
<1>5. ~tcb_wr_en => UNCHANGED tcbVars
  <2>1. PICK wr, full : wr = writes /\ full = FullWrite
    OBVIOUS
  <2>2. TcbStep(wr, full)
    BY <1>1, <2>1
  <2>3. ~tcb_wr_en => TcbStep(NoWrites, NoPort)
    BY <1>2, <1>4, <2>1, <2>2
  <2>4. QED
    BY <1>1, <2>3, NoWritesKeep
<1>6. QED
  BY <1>3, <1>5

\* While the scheduler runs the writes of a loan are all that lands.
LEMMA OnlyLoansLand ==
  ASSUME TcbTypeOK, boost \in [id : Tasks, val : Prios], TcbStep(NoWrites, FullWrite), NEW t \in Tasks
  PROVE  \/ UNCHANGED Tcb(t)
         \/ LoanLands /\ t = boost.id /\ Tcb(t)' = Lent(t)
         \/ CopyLands /\ t = 0 /\ Tcb(t)' = Tcb(boost.id)
<1>1. /\ boost.id \in Tasks /\ boost.val \in Prios /\ 0 \in Tasks
      /\ \A u \in Tasks : /\ Tcb(u) \in Ports /\ Lent(u) \in Ports
                          /\ Tcb(u) = [valid |-> tcb_valid[u], state |-> tcb_state[u], prio |-> tcb_prio[u]]
                          /\ Lent(u) = [valid |-> tcb_valid[u], state |-> tcb_state[u], prio |-> boost.val]
  BY TasksAssumption DEF TcbTypeOK, Ports, Tcb, Lent, Tasks
<1>2. Tcb(t)' = [valid |-> tcb_valid'[t], state |-> tcb_state'[t], prio |-> tcb_prio'[t]]
  BY DEF Tcb
<1>3. CASE LoanLands
  <2>1. PICK v \in Ports, b \in Tasks : v = Lent(boost.id) /\ b = boost.id
    BY <1>1
  <2>2. TcbStep(NoWrites, Port(b, v))
    BY <1>3, <2>1 DEF FullWrite
  <2>3. /\ tcb_valid'[t] = IF t = b THEN v.valid ELSE tcb_valid[t]
        /\ tcb_state'[t] = IF t = b THEN v.state ELSE tcb_state[t]
        /\ tcb_prio'[t]  = IF t = b THEN v.prio ELSE tcb_prio[t]
    BY <2>2, PortLands
  <2>4. QED
    BY <1>1, <1>2, <1>3, <2>1, <2>3
<1>4. CASE CopyLands
  <2>1. PICK v \in Ports : v = Tcb(boost.id)
    BY <1>1
  <2>2. TcbStep(NoWrites, Port(0, v))
    BY <1>4, <2>1 DEF FullWrite, LoanLands, CopyLands
  <2>3. /\ tcb_valid'[t] = IF t = 0 THEN v.valid ELSE tcb_valid[t]
        /\ tcb_state'[t] = IF t = 0 THEN v.state ELSE tcb_state[t]
        /\ tcb_prio'[t]  = IF t = 0 THEN v.prio ELSE tcb_prio[t]
    BY <1>1, <2>2, PortLands
  <2>4. QED
    BY <1>1, <1>2, <1>4, <2>1, <2>3
<1>5. CASE ~LoanLands /\ ~CopyLands
  <2>1. TcbStep(NoWrites, NoPort)
    BY <1>5 DEF FullWrite
  <2>2. UNCHANGED tcbVars
    BY <2>1, NoWritesKeep
  <2>3. QED
    BY <1>1, <1>2, <2>2 DEF tcbVars
<1>6. QED
  BY <1>3, <1>4, <1>5

\* What a finished run that no loan disturbed says of the array.
LEMMA RunDecides ==
  ASSUME Typed, Pulsed, NoTaskInZero, Active, Decided(TRUE, {}), writes = NoWrites
  PROVE  /\ LandsReady = ReadyTasks
         /\ \A u \in ReadyTasks : tcb_prio[u] <= tcb_prio[next_task_id_reg]
         /\ next_task_id_reg = 0 => ReadyTasks = {}
         /\ task_active_r /\ next_task_id_reg # current_task_id_r =>
              /\ next_task_id_reg # 0
              /\ tcb_valid[current_task_id_r] =>
                   tcb_prio[current_task_id_r] <= tcb_prio[next_task_id_reg]
<1> DEFINE c == current_task_id_r
           best == BestWaiter(ReadyTasks, tcb_prio)
<1>1. /\ c \in Tasks /\ tcb_prio \in [Tasks -> Prios] /\ ReadyTasks \in SUBSET Tasks
      /\ \A t \in Tasks : tcb_prio[t] \in Int
  BY DEF Typed, RtosTypeOK, TcbTypeOK, ReadyTasks, Prios
<1>2. DOMAIN writes.state = {} /\ writes.delete = {} /\ DOMAIN writes.create = {}
  BY PortFields
<1>3. LandsReady = ReadyTasks
  BY <1>2 DEF LandsReady, ReadyTasks, Lands
<1>4. 0 \notin ReadyTasks /\ tcb_state[0] # "RUNNING"
  BY DEF NoTaskInZero, ReadyTasks
<1>5. next_task_id_reg = Decision(c)
  BY DEF Decided
<1>6. next_task_id_reg = 0 => ReadyTasks = {}
  BY <1>4 DEF Decided, Elects
<1>7. CASE ReadyTasks = {}
  <2>1. next_task_id_reg = c
    BY <1>5, <1>7 DEF Decision
  <2>2. QED
    BY <1>3, <1>7, <2>1
<1>8. CASE ReadyTasks # {}
  <2>1. best \in ReadyTasks /\ \A u \in ReadyTasks : Outranks(best, u, tcb_prio)
    BY <1>1, <1>8, BestWaiterOutranks
  <2>2. \A u \in ReadyTasks : tcb_prio[u] <= tcb_prio[best]
    BY <1>1, <2>1 DEF Outranks
  <2>3. next_task_id_reg = IF TakesOver(best, c) THEN best ELSE c
    BY <1>5, <1>8 DEF Decision
  <2>4. TakesOver(best, c) <=> best # c /\ (tcb_prio[best] > tcb_prio[c] \/ tcb_state[c] # "RUNNING")
    BY DEF TakesOver
  <2> HIDE DEF best
  <2>5. CASE ~TakesOver(best, c)
    <3>1. tcb_prio[best] <= tcb_prio[c]
      BY <1>1, <2>1, <2>4, <2>5
    <3>2. \A u \in ReadyTasks : tcb_prio[u] <= tcb_prio[c]
      BY <1>1, <2>1, <2>2, <3>1
    <3>3. QED
      BY <1>3, <1>6, <2>3, <2>5, <3>2
  <2>6. CASE TakesOver(best, c)
    <3>1. best # 0
      BY <1>4, <2>1
    <3>2. task_active_r /\ tcb_valid[c] => tcb_prio[c] <= tcb_prio[best]
      <4> SUFFICES ASSUME task_active_r, tcb_valid[c] PROVE tcb_prio[c] <= tcb_prio[best]
        OBVIOUS
      <4>1. tcb_state[c] \in {"READY", "RUNNING"}
        BY <1>2 DEF Active, Lands
      <4>2. CASE tcb_state[c] = "READY"
        BY <1>1, <2>2, <4>2 DEF ReadyTasks
      <4>3. CASE tcb_state[c] = "RUNNING"
        BY <1>1, <2>1, <2>4, <2>6, <4>3
      <4>4. QED
        BY <4>1, <4>2, <4>3
    <3>3. QED
      BY <1>3, <1>6, <2>2, <2>3, <2>6, <3>1, <3>2
  <2>7. QED
    BY <2>5, <2>6
<1>9. QED
  BY <1>7, <1>8
\* An edge without a loan keeps the policy, whatever the state machine does at it.
LEMMA PolicyKept ==
  ASSUME Typed, Pulsed, ~lent => Unlent,
         NEW req, NEW ports, NEW tick, NEW resched, Edge(req, ports, tick, resched), ~lent'
  PROVE  Unlent'
<1> DEFINE c == current_task_id_r
           n == next_task_id_r
<1>1. /\ ~tcb_wr_en /\ Unlent
      /\ Fsm(req, ports) /\ TcbStep(writes, FullWrite) /\ SchedStep
      /\ c \in Tasks /\ n \in Tasks /\ 0 \in Tasks
  BY TasksAssumption DEF Edge, BoostLatch, Typed, RtosTypeOK, Tasks
<1>2. \A t \in Tasks : t \notin DOMAIN writes.create =>
        /\ tcb_state'[t] = Lands(t) /\ tcb_prio'[t] = tcb_prio[t]
        /\ tcb_valid'[t] <=> tcb_valid[t] /\ t \notin writes.delete
        /\ t \in LandsReady' =>
             t \in LandsReady \/ (t \in DOMAIN writes'.state /\ writes'.state[t] = "READY")
        /\ writes' = NoWrites => (t \in LandsReady' <=> t \in LandsReady)
  BY <1>1, QuietEdge
<1>3. \A t \in Tasks : t \in DOMAIN writes.create => tcb_state'[t] = "READY"
  BY <1>1, ArrayLands
<1>4. \A t : Lands(t)' = IF t \in DOMAIN writes'.state THEN writes'.state[t] ELSE tcb_state'[t]
  BY DEF Lands
<1>5. /\ \A t \in DOMAIN writes'.state : writes'.state[t] = "RUNNING" => fsm_state = "S_DISPATCH"
      /\ fsm_state # "S_DISPATCH" => c' = c /\ (task_active_r' => task_active_r)
      /\ fsm_state = "S_DISPATCH" =>
           /\ c' = n /\ task_active_r' /\ fsm_state' = "S_IDLE" /\ writes' = StateWrite(n, "RUNNING")
           /\ DOMAIN writes'.state = {n} /\ writes'.state[n] = "RUNNING"
  BY <1>1, FsmRuns, PortFields
<1>6. /\ fsm_state' \in {"S_IDLE", "S_BLOCK_TASK"} =>
           \/ /\ fsm_state \in {"S_IDLE", "S_BLOCK_TASK"} /\ writes' = NoWrites
              /\ c' = c /\ task_active_r' = task_active_r
           \/ /\ fsm_state = "S_COMPARE_PRIORITY" /\ writes' = NoWrites
              /\ ~task_active_r /\ next_task_id_reg = 0
           \/ fsm_state = "S_DISPATCH"
      /\ task_active_r' /\ fsm_state # "S_DISPATCH" =>
           \A t \in DOMAIN writes'.state : writes'.state[t] = "READY"
      /\ fsm_state' \in Switching \cup {"S_DISPATCH"} =>
           \/ fsm_state \in Switching
           \/ fsm_state = "S_COMPARE_PRIORITY" /\ (next_task_id_reg # 0 \/ task_active_r)
      /\ fsm_state' \in {"S_COMPARE_PRIORITY", "S_PREEMPT_CHECK"} =>
           \/ fsm_state = "S_SCAN_READY" /\ sched_done
           \/ fsm_state = "S_COMPARE_PRIORITY" /\ task_active_r /\ next_task_id_reg # c
      /\ fsm_state \in Deciding \ {"S_DISPATCH"} =>
           \/ writes' = NoWrites
           \/ /\ fsm_state = "S_PREEMPT_CHECK" /\ task_active_r
              /\ DOMAIN writes'.state = {c} /\ writes'.state[c] = "READY"
  BY <1>1, FsmRests, PortFields
<1>7. fsm_state # "S_SCAN_READY" => DOMAIN writes.create = {}
  BY DEF Pulsed
<1>8. /\ fsm_state' \in Deciding =>
           \/ fsm_state \in Deciding /\ n' = n
           \/ fsm_state = "S_SCAN_READY" /\ sched_done /\ n' = next_task_id_reg
      /\ fsm_state = "S_SCAN_READY" =>
           writes' = NoWrites /\ c' = c /\ task_active_r' = task_active_r
  BY <1>1, FsmControl
<1>9. RunHolds(TRUE, {})'
  <2>1. sched_busy => Steady(TRUE, {})
    BY <1>1, ScanUndisturbed DEF Steady, tcbVars
  <2>2. SchedReads /\ RunHolds(TRUE, {})
    BY <1>1 DEF Typed, RtosTypeOK, SchedReads, Unlent
  <2>3. QED
    BY <1>1, <2>1, <2>2, SchedKeepsRun
<1>10. NoTaskInZero'
  <2>1. 0 \notin DOMAIN writes.create /\ NoTaskInZero
    BY <1>1 DEF Pulsed, Unlent
  <2>2. ~tcb_valid'[0] /\ tcb_state'[0] # "RUNNING"
    BY <1>1, <1>2, <2>1 DEF NoTaskInZero
  <2>3. fsm_state = "S_DISPATCH" => n # 0
    BY <1>1 DEF Unlent, Decides
  <2>4. Lands(0)' # "RUNNING"
    BY <1>4, <1>5, <2>2, <2>3
  <2>5. QED
    BY <2>2, <2>4 DEF NoTaskInZero
<1>11. Active'
  <2> SUFFICES ASSUME task_active_r'
               PROVE  c' # 0 /\ Lands(c)' \in {"READY", "RUNNING"}
    BY DEF Active
  <2>1. CASE fsm_state = "S_DISPATCH"
    <3>1. n # 0
      BY <1>1, <2>1 DEF Unlent, Decides
    <3>2. Lands(c)' = "RUNNING"
      BY <1>4, <1>5, <2>1
    <3>3. QED
      BY <1>5, <2>1, <3>1, <3>2
  <2>2. CASE fsm_state # "S_DISPATCH"
    <3>1. task_active_r /\ c' = c
      BY <1>5, <2>2
    <3>2. c # 0 /\ (Lands(c) \in {"READY", "RUNNING"} \/ c \in DOMAIN writes.create)
      BY <1>1, <3>1 DEF Unlent, Active
    <3>3. tcb_state'[c] \in {"READY", "RUNNING"}
      BY <1>1, <1>2, <1>3, <3>2
    <3>4. Lands(c)' \in {"READY", "RUNNING"}
      BY <1>4, <1>6, <2>2, <3>1, <3>3
    <3>5. QED
      BY <3>1, <3>2, <3>4
  <2>3. QED
    BY <2>1, <2>2
<1>12. Rests'
  <2> SUFFICES ASSUME fsm_state' \in {"S_IDLE", "S_BLOCK_TASK"}, LandsReady' # {}
               PROVE  task_active_r' /\ NoneAbove(c)'
    BY DEF Rests
  <2>1. DOMAIN writes.create = {} /\ LandsReady' \subseteq Tasks /\ LandsReady \subseteq Tasks
    BY <1>6, <1>7 DEF LandsReady
  <2>2. CASE /\ fsm_state \in {"S_IDLE", "S_BLOCK_TASK"} /\ writes' = NoWrites
             /\ c' = c /\ task_active_r' = task_active_r
    <3>1. LandsReady' = LandsReady
      BY <1>2, <2>1, <2>2
    <3>2. task_active_r /\ \A u \in LandsReady : tcb_prio[u] <= tcb_prio[c]
      BY <1>1, <2>2, <3>1 DEF Unlent, Rests, NoneAbove
    <3>3. QED
      BY <1>1, <1>2, <2>1, <2>2, <3>1, <3>2 DEF NoneAbove
  <2>3. CASE /\ fsm_state = "S_COMPARE_PRIORITY" /\ writes' = NoWrites
             /\ ~task_active_r /\ next_task_id_reg = 0
    <3>1. LandsReady = {}
      BY <1>1, <2>3 DEF Unlent, Decides, Pulsed, Deciding
    <3>2. QED
      BY <1>2, <2>1, <2>3, <3>1
  <2>4. CASE fsm_state = "S_DISPATCH"
    <3>1. LandsReady' \subseteq LandsReady
      BY <1>2, <1>5, <2>1, <2>4
    <3>2. \A u \in LandsReady : tcb_prio[u] <= tcb_prio[n]
      BY <1>1, <2>4 DEF Unlent, Decides, NoneAbove, Deciding
    <3>3. QED
      BY <1>1, <1>2, <1>5, <2>1, <2>4, <3>1, <3>2 DEF NoneAbove
  <2>5. QED
    BY <1>6, <2>2, <2>3, <2>4
<1>13. CASE fsm_state = "S_SCAN_READY" /\ fsm_state' \in Deciding
  <2>1. sched_done /\ n' = next_task_id_reg /\ fsm_state' = "S_COMPARE_PRIORITY"
    BY <1>1, <1>8, <1>13, FsmControl DEF Deciding, Switching
  <2>2. writes = NoWrites /\ Decided(TRUE, {}) /\ NoTaskInZero /\ Active
    BY <1>1, <2>1 DEF Pulsed, sched_busy, sched_done, Unlent, RunHolds
  <2>3. /\ LandsReady = ReadyTasks
        /\ \A u \in ReadyTasks : tcb_prio[u] <= tcb_prio[next_task_id_reg]
        /\ next_task_id_reg = 0 => ReadyTasks = {}
        /\ task_active_r /\ next_task_id_reg # c =>
             /\ next_task_id_reg # 0
             /\ tcb_valid[c] => tcb_prio[c] <= tcb_prio[next_task_id_reg]
    BY <2>2, RunDecides
  <2>4. next_task_id_reg \in Tasks /\ DOMAIN writes.create = {} /\ writes.delete = {}
    BY <2>2, PortFields DEF Typed, RtosTypeOK, SchedTypeOK
  <2>5. LandsReady' = LandsReady /\ LandsReady \subseteq Tasks
    BY <1>2, <1>8, <1>13, <2>4 DEF LandsReady
  <2>6. /\ \A t \in Tasks : tcb_prio'[t] = tcb_prio[t]
        /\ tcb_valid'[c] => tcb_valid[c]
    BY <1>1, <1>2, <2>4
  <2>7. Decides'
    BY <1>1, <1>8, <1>13, <2>1, <2>3, <2>4, <2>5, <2>6 DEF Decides, NoneAbove, Deciding, Switching
  <2>8. QED
    BY <1>9, <1>10, <1>11, <1>12, <2>7 DEF Unlent
<1>14. CASE fsm_state \in Deciding /\ fsm_state' \in Deciding
  <2>1. /\ n' = n /\ n = next_task_id_reg /\ c' = c /\ DOMAIN writes.create = {}
        /\ fsm_state \in Deciding \ {"S_DISPATCH"}
    BY <1>5, <1>7, <1>8, <1>14 DEF Pulsed, Deciding, Switching
  <2>2. /\ \A t \in Tasks : tcb_prio'[t] = tcb_prio[t]
        /\ tcb_valid'[c] => tcb_valid[c]
        /\ LandsReady' \subseteq Tasks /\ LandsReady \subseteq Tasks
    BY <1>1, <1>2, <2>1 DEF LandsReady
  <2>3. \A u \in LandsReady : tcb_prio[u] <= tcb_prio[n]
    BY <1>1, <1>14 DEF Unlent, Decides, NoneAbove
  <2>4. NoneAbove(n)'
    <3>1. CASE writes' = NoWrites
      BY <1>1, <1>2, <2>1, <2>2, <2>3, <3>1 DEF NoneAbove
    <3>2. CASE /\ fsm_state = "S_PREEMPT_CHECK" /\ task_active_r
               /\ DOMAIN writes'.state = {c} /\ writes'.state[c] = "READY"
      <4>1. tcb_valid[c] => tcb_prio[c] <= tcb_prio[n]
        <5>1. n = c \/ (tcb_valid[c] => tcb_prio[c] <= tcb_prio[n])
          BY <1>1, <3>2 DEF Unlent, Decides
        <5>2. tcb_prio[c] <= tcb_prio[c]
          BY <1>1 DEF Typed, RtosTypeOK, TcbTypeOK, Prios
        <5>3. QED
          BY <5>1, <5>2
      <4>2. \A u \in LandsReady' : tcb_valid'[u] /\ (u \in LandsReady \/ u = c)
        BY <1>2, <2>1, <2>2, <3>2 DEF LandsReady
      <4>3. QED
        BY <1>1, <2>1, <2>2, <2>3, <4>1, <4>2 DEF NoneAbove
    <3>3. QED
      BY <1>6, <2>1, <3>1, <3>2
  <2>5. fsm_state' = "S_COMPARE_PRIORITY" /\ n' = 0 => LandsReady' = {}
    <3> SUFFICES ASSUME fsm_state' = "S_COMPARE_PRIORITY", n' = 0 PROVE LandsReady' = {}
      OBVIOUS
    <3>1. fsm_state = "S_COMPARE_PRIORITY"
      BY <1>6, <2>1 DEF Deciding, Switching
    <3>2. LandsReady = {} /\ writes' = NoWrites
      BY <1>1, <1>6, <2>1, <3>1 DEF Unlent, Decides
    <3>3. QED
      BY <1>2, <2>1, <2>2, <3>2
  <2>6. fsm_state' \in Switching \cup {"S_DISPATCH"} => n' # 0
    <3>1. fsm_state \in Switching => n # 0
      BY <1>1 DEF Unlent, Decides
    <3>2. fsm_state = "S_COMPARE_PRIORITY" /\ task_active_r => n # 0
      <4>1. task_active_r => c # 0
        BY <1>1 DEF Unlent, Active
      <4>2. fsm_state = "S_COMPARE_PRIORITY" /\ task_active_r /\ n # c => n # 0
        BY <1>1 DEF Unlent, Decides
      <4>3. QED
        BY <4>1, <4>2
    <3>3. QED
      BY <1>6, <2>1, <3>1, <3>2
  <2>7. fsm_state' \in {"S_COMPARE_PRIORITY", "S_PREEMPT_CHECK"} =>
          /\ fsm_state = "S_COMPARE_PRIORITY" /\ n # 0
          /\ tcb_valid[c] => tcb_prio[c] <= tcb_prio[n]
    <3>1. fsm_state # "S_SCAN_READY"
      BY <2>1 DEF Deciding, Switching
    <3>2. QED
      BY <1>1, <1>6, <2>1, <3>1 DEF Unlent, Decides
  <2>8. Decides'
    BY <1>1, <2>1, <2>2, <2>4, <2>5, <2>6, <2>7 DEF Decides
  <2>9. QED
    BY <1>9, <1>10, <1>11, <1>12, <2>8 DEF Unlent
<1>15. CASE fsm_state' \notin Deciding
  <2>1. Decides'
    BY <1>15 DEF Decides, Deciding, Switching
  <2>2. QED
    BY <1>9, <1>10, <1>11, <1>12, <2>1 DEF Unlent
<1>16. QED
  BY <1>8, <1>13, <1>14, <1>15
-----------------------------------------------------------------------------
\* The inductive invariant of the whole.
RtosInv == Typed /\ Pulsed /\ OneRunner /\ (~lent => Unlent)

LEMMA InitInv == Init => RtosInv
<1> SUFFICES ASSUME Init PROVE RtosInv
  OBVIOUS
<1>1. /\ fsm_state = "S_IDLE" /\ ~task_active_r /\ writes = NoWrites /\ ~sched_trigger
      /\ sched_state = "IDLE"
      /\ tcb_valid = [t \in Tasks |-> FALSE] /\ tcb_state = [t \in Tasks |-> "DORMANT"]
      /\ current_task_id_r = 0 /\ 0 \in Tasks
  BY TasksAssumption DEF Init, TcbInit, SchedInit, Tasks
<1>2. DOMAIN writes.state = {} /\ DOMAIN writes.create = {} /\ writes.delete = {}
  BY <1>1, PortFields
<1>3. /\ \A t \in Tasks : Lands(t) = "DORMANT"
      /\ LandsReady = {}
  BY <1>1, <1>2 DEF Lands, LandsReady
<1>4. Pulsed
  BY <1>1, <1>2 DEF Pulsed, Deciding, Switching, sched_busy
<1>5. OneRunner
  BY <1>1, <1>3 DEF OneRunner
<1>6. Unlent
  BY <1>1, <1>3 DEF Unlent, NoTaskInZero, Active, Rests, Decides, RunHolds, Deciding, Switching, NoneAbove
<1>7. QED
  BY <1>4, <1>5, <1>6, InitTyped DEF RtosInv

\* One edge, with whatever requests and operands.
LEMMA EdgeKeepsInv ==
  ASSUME RtosInv, NEW req \in AllRequests, NEW tick \in BOOLEAN, NEW resched \in BOOLEAN,
         NEW ports, ports.prios \subseteq Prios, ports.targets \subseteq Tasks,
         Edge(req, ports, tick, resched), ctx_switch_ack' \in BOOLEAN
  PROVE  RtosInv'
<1>1. Typed /\ Pulsed /\ OneRunner /\ (~lent => Unlent)
  BY DEF RtosInv
<1>2. Typed'
  BY <1>1, EdgeKeepsType
<1>3. Pulsed'
  BY <1>1, PulsesKept
<1>4. OneRunner'
  BY <1>1, RunnerKept
<1>5. ~lent' => Unlent'
  BY <1>1, PolicyKept
<1>6. QED
  BY <1>2, <1>3, <1>4, <1>5 DEF RtosInv

\* Nothing of the invariant looks at more than the variables of the whole.
LEMMA StutterKeepsInv ==
  ASSUME RtosInv, UNCHANGED vars
  PROVE  RtosInv'
<1> USE DEF vars, taskVars, latchVars, boostVars, unitVars, tcbVars, schedVars
<1>1. Typed'
  BY DEF RtosInv, Typed, RtosTypeOK, TcbTypeOK, SchedTypeOK, WritesOK, OpsFit, UnitPortsOK
<1>2. Pulsed'
  BY DEF RtosInv, Pulsed, sched_busy
<1>3. \A t : Lands(t)' = Lands(t)
  BY DEF Lands
<1>4. OneRunner'
  BY <1>3 DEF RtosInv, OneRunner
<1>5. LandsReady' = LandsReady /\ \A t : NoneAbove(t)' <=> NoneAbove(t)
  BY <1>3 DEF LandsReady, NoneAbove
<1>6. RunHolds(TRUE, {})' <=> RunHolds(TRUE, {})
  BY DEF RunHolds, BestSoFar, Decided, Elects, Seen, ReadyTasks, Decision, TakesOver, BestWaiter, Outranks
<1>7. NoTaskInZero' <=> NoTaskInZero
  BY <1>3 DEF NoTaskInZero
<1>8. Active' <=> Active
  BY <1>3 DEF Active
<1>9. Rests' <=> Rests
  BY <1>5 DEF Rests, NoneAbove
<1>10. Decides' <=> Decides
  BY <1>5 DEF Decides, NoneAbove
<1>11. (~lent => Unlent)'
  BY <1>6, <1>7, <1>8, <1>9, <1>10 DEF RtosInv, Unlent
<1>12. QED
  BY <1>1, <1>2, <1>4, <1>11 DEF RtosInv

LEMMA RtosInvariant == Spec => []RtosInv
<1>1. RtosInv /\ [Next]_vars => RtosInv'
  <2> SUFFICES ASSUME RtosInv, [Next]_vars PROVE RtosInv'
    OBVIOUS
  <2>1. CASE Next
    <3>1. AnyPorts.prios \subseteq Prios /\ AnyPorts.targets \subseteq Tasks
      BY DEF AnyPorts
    <3>2. PICK req \in AllRequests, tick \in BOOLEAN, resched \in BOOLEAN :
            Edge(req, AnyPorts, tick, resched) /\ CpuStep
      BY <2>1, NextIsEdge
    <3>3. ctx_switch_ack' \in BOOLEAN
      BY <3>2 DEF CpuStep, stall_pipeline
    <3>4. QED
      BY <3>1, <3>2, <3>3, EdgeKeepsInv
  <2>2. CASE UNCHANGED vars
    BY <2>2, StutterKeepsInv
  <2>3. QED
    BY <2>1, <2>2
<1>2. QED
  BY InitInv, <1>1, PTL DEF Spec

\* At no edge of a switch do two tasks have the processor, with loans or without (the
\* state writes of S_PREEMPT_CHECK, S_DISPATCH, S_BLOCK_TASK, S_TASK_EXIT and their delay).
LEMMA InvOneRuns == RtosInv => OnlyCurrentRuns
BY DEF RtosInv, OneRunner, OnlyCurrentRuns

THEOREM RtosOnlyCurrentRuns == Spec => []OnlyCurrentRuns
BY RtosInvariant, InvOneRuns, PTL

\* Until a loan is written, a system that rests runs one of its most urgent tasks: on every
\* way out of S_IDLE and back, for any number of tasks and priorities.
LEMMA InvMostUrgent == RtosInv => MostUrgentRuns
<1> SUFFICES ASSUME RtosInv, fsm_state \in {"S_IDLE", "S_BLOCK_TASK"}, writes = NoWrites, ~lent,
                    NEW t \in ReadyTasks
             PROVE  task_active_r /\ tcb_prio[t] <= tcb_prio[current_task_id_r]
  BY DEF MostUrgentRuns
<1>1. DOMAIN writes.state = {} /\ writes.delete = {}
  BY PortFields
<1>2. t \in LandsReady
  BY <1>1 DEF LandsReady, ReadyTasks, Lands
<1>3. QED
  BY <1>2 DEF RtosInv, Unlent, Rests, NoneAbove
THEOREM RtosMostUrgentRuns == Spec => []MostUrgentRuns
BY RtosInvariant, InvMostUrgent, PTL

\* While the scheduler runs the current task stands still, and of the array all but what
\* the two writes of a loan put there, the priority in its task and the copy in slot 0
\* (sched_trigger against the write ports; tcb_wr_data).
THEOREM RtosScanSeesOneArray == Spec => ScanSeesOneArray
<1>1. ASSUME RtosInv, [Next]_vars
      PROVE  [sched_busy => ScanUntouched]_vars
  <2> SUFFICES ASSUME Next, sched_busy PROVE ScanUntouched
    BY <1>1
  <2>1. PICK req \in AllRequests, tick \in BOOLEAN, resched \in BOOLEAN :
          Edge(req, AnyPorts, tick, resched) /\ CpuStep
    BY <1>1, NextIsEdge
  <2>2. UNCHANGED current_task_id_r
    BY <1>1, <2>1, ScanUndisturbed DEF RtosInv
  <2>3. /\ TcbTypeOK /\ boost \in [id : Tasks, val : Prios]
        /\ TcbStep(writes, FullWrite) /\ writes = NoWrites
    BY <1>1, <2>1 DEF RtosInv, Typed, RtosTypeOK, Pulsed, Edge
  <2>4. QED
    BY <2>2, <2>3, OnlyLoansLand DEF ScanUntouched
<1>2. QED
  BY RtosInvariant, <1>1, PTL DEF Spec, ScanSeesOneArray

\* A creation takes a slot that is still free when its write lands, although the slot was
\* picked an edge earlier (free_task_id in S_TASK_CREATE).
THEOREM RtosCreationTakesFreeSlot == Spec => CreationTakesFreeSlot
<1>1. RtosInv => \A t \in DOMAIN writes.create : ~tcb_valid[t]
  BY DEF RtosInv, Pulsed
<1>2. QED
  BY RtosInvariant, <1>1, PTL DEF CreationTakesFreeSlot
-----------------------------------------------------------------------------
\* The units inside the whole: every edge of the whole is an edge that the unit alone
\* could take, so what is proved of a unit by itself holds of it here.
LEMMA EdgeOfSem ==
  ASSUME Typed, TcbTypeOK', NEW counts \in SUBSET Sem!Counts, SemStep(counts)
  PROVE  Sem!Next
<1> DEFINE r == op_int["sem"]
<1>1. r \in AllRequests /\ current_task_id_r \in Sem!Tasks /\ tcb_prio' \in [Sem!Tasks -> Sem!Prios]
  BY DEF Typed, RtosTypeOK, TcbTypeOK, Units, Sem!Tasks, Tasks, Sem!Prios, Prios
<1>2. r.op \in {"INIT", "WAIT", "POST"} => r.id \in Sem!Sems
  BY <1>1, RequestIds
<1>3. SemStep(counts)
  OBVIOUS
<1> HIDE DEF r
<1>4. \/ Sem!SemNop
      \/ \E s \in Sem!Sems, n \in Sem!Counts : Sem!SemSetup(s, n)
      \/ \E s \in Sem!Sems, t \in Sem!Tasks : Sem!SemWait(s, t)
      \/ \E s \in Sem!Sems : Sem!SemPost(s)
  BY <1>1, <1>2, <1>3 DEF SemStep, r
<1>5. QED
  BY <1>1, <1>4 DEF Sem!Next, Sem!PrioChange

LEMMA EdgeOfMutex ==
  ASSUME Typed, TcbTypeOK', MutexStep
  PROVE  Mtx!Next
<1> DEFINE r == op_int["mutex"]
<1>1. r \in AllRequests /\ current_task_id_r \in Mtx!Tasks /\ tcb_prio' \in [Mtx!Tasks -> Mtx!Prios]
  BY DEF Typed, RtosTypeOK, TcbTypeOK, Units, Mtx!Tasks, Tasks, Mtx!Prios, Prios
<1>2. r.op \in {"LOCK", "UNLOCK"} => r.id \in Mtx!Mutexes
  BY <1>1, RequestIds
<1>3. MutexStep
  OBVIOUS
<1> HIDE DEF r
<1>4. \/ Mtx!MutexNop
      \/ \E m \in Mtx!Mutexes, t \in Mtx!Tasks : Mtx!MutexLock(m, t) \/ Mtx!MutexUnlock(m, t)
  BY <1>1, <1>2, <1>3 DEF MutexStep, r
<1>5. QED
  BY <1>1, <1>4 DEF Mtx!Next, Mtx!PrioChange

LEMMA EdgeOfMsgq ==
  ASSUME Typed, MsgqStep
  PROVE  Msgq!Next
<1> DEFINE r == op_int["msgq"]
<1>1. r \in AllRequests /\ current_task_id_r \in Msgq!Tasks
  BY DEF Typed, RtosTypeOK, Units, Msgq!Tasks, Tasks
<1>2. /\ r.op = "SEND" => r.id \in Msgq!Queues /\ r.arg \in Msgq!Msgs
      /\ r.op = "RECV" => r.id \in Msgq!Queues
  BY <1>1, RequestIds
<1>3. MsgqStep
  OBVIOUS
<1> HIDE DEF r
<1>4. QED
  BY <1>1, <1>2, <1>3 DEF MsgqStep, r, Msgq!Next

\* The semaphores, mutexes and queues of hw_rtos.sv keep the contracts of HwSemaphore,
\* HwMutex and HwMsgQueue, whose theorems assume no more than those specifications: the
\* ports that the state machine drives never leave what the units were proved for.
THEOREM UnitsInTheWhole == Spec => Sem!Spec /\ Mtx!Spec /\ Msgq!Spec
<1>1. Init => Sem!Init /\ Mtx!Init /\ Msgq!MsgqInit
  <2>1. Init => tcb_prio \in [Tasks -> Prios]
    BY InitTyped DEF Typed, RtosTypeOK, TcbTypeOK
  <2>2. QED
    BY <2>1 DEF Init, Sem!Init, Mtx!Init, Sem!Tasks, Mtx!Tasks, Tasks, Sem!Prios, Mtx!Prios, Prios
<1>2. RtosInv /\ [Next]_vars /\ RtosInv' =>
        [Sem!Next]_(Sem!semVars) /\ [Mtx!Next]_(Mtx!mutexVars) /\ [Msgq!Next]_(Msgq!msgqVars)
  <2> SUFFICES ASSUME RtosInv, [Next]_vars, RtosInv'
               PROVE  [Sem!Next]_(Sem!semVars) /\ [Mtx!Next]_(Mtx!mutexVars) /\ [Msgq!Next]_(Msgq!msgqVars)
    OBVIOUS
  <2>1. CASE Next
    <3>1. PICK req \in AllRequests, tick \in BOOLEAN, resched \in BOOLEAN :
            Edge(req, AnyPorts, tick, resched)
      BY <2>1, NextIsEdge
    <3>2. SemStep(Sem!Counts) /\ MutexStep /\ MsgqStep
      BY <3>1 DEF Edge, AnyPorts
    <3>3. Typed /\ TcbTypeOK'
      BY DEF RtosInv, Typed, RtosTypeOK
    <3>4. Sem!Counts \in SUBSET Sem!Counts
      OBVIOUS
    <3>5. QED
      BY <3>2, <3>3, <3>4, EdgeOfSem, EdgeOfMutex, EdgeOfMsgq
  <2>2. CASE UNCHANGED vars
    BY <2>2 DEF vars, unitVars, tcbVars, Sem!semVars, Mtx!mutexVars, Msgq!msgqVars
  <2>3. QED
    BY <2>1, <2>2
<1>3. QED
  BY RtosInvariant, <1>1, <1>2, PTL DEF Spec, Sem!Spec, Mtx!Spec, Msgq!Spec
=============================================================================
