\* Three tasks: created, ended and preempted in every order, no unit called; on a
\* semaphore of one permit, with two waiters and a third to post; or on a mutex.
CONSTANTS
  MAX_TASKS = 4
  PRIO_MAX = 1
  NUM_SEMS = 1
  MAX_COUNT = 1
  NUM_MUTEXES = 1
  NUM_QUEUES = 1
  QUEUE_DEPTH = 1
  MSG_MAX = 0
  CTX_REGS = 2
  MIXES = {{"create", "exit", "yield", "tick", "resched"},
           {"create", "INIT", "WAIT", "POST"},
           {"create", "LOCK", "UNLOCK"}}
SPECIFICATION Spec
INVARIANTS
  RtosTypeOK
  OnlyCurrentRuns
  MostUrgentRuns
  
PROPERTIES
  CreationTakesFreeSlot
  ScanSeesOneArray
