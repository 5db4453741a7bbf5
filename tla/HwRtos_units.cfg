\* Two tasks: with every kind of call, a few kinds at a time.
CONSTANTS
  MAX_TASKS = 3
  PRIO_MAX = 1
  NUM_SEMS = 1
  MAX_COUNT = 1
  NUM_MUTEXES = 1
  NUM_QUEUES = 1
  QUEUE_DEPTH = 1
  MSG_MAX = 0
  CTX_REGS = 2
  MIXES = {{"create", "exit", "yield", "tick", "resched"},
           {"create", "join", "exit"},
           {"create", "SEND", "exit"},
           {"create", "SEND", "RECV"},
           {"create", "LOCK", "UNLOCK"},
           {"create", "MUTEX3", "exit"},
           {"create", "MSGQ3", "exit"},
           {"create", "INIT", "WAIT", "POST"}}
SPECIFICATION Spec
INVARIANTS
  MostUrgentRuns
PROPERTIES
  ReturnsToIdle
