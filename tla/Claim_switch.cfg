\* Threads of two priorities.
CONSTANTS
  MAX_FD = 5
  FREE <- MCFree
  PROGRAMS = {"threads"}
  FIFO_DEPTH = 2
  Chars = {1, 2}
  MAX_TASKS = 4
  PRIO_MAX = 1
  NUM_SEMS = 1
  MAX_COUNT = 1
  NUM_MUTEXES = 1
  NUM_QUEUES = 1
  QUEUE_DEPTH = 1
  MSG_MAX = 0
  CTX_REGS = 7
  MIXES = {{}, {"tick"}}
SPECIFICATION SysSpec
PROPERTIES
  SwitchEnds
