\* Tasks that join and exit.
CONSTANTS
  MAX_TASKS = 3
  PRIO_MAX = 1
  NUM_SEMS = 1
  MAX_COUNT = 1
  NUM_MUTEXES = 1
  NUM_QUEUES = 1
  QUEUE_DEPTH = 1
  MSG_MAX = 0
  CTX_REGS = 2
  MIXES = {{"create", "join", "exit"}}
SPECIFICATION Spec
INVARIANTS
  JoinersAreWoken
