\* Three tasks on two mutexes, two priority levels.
CONSTANTS
  MAX_TASKS   = 3
  PRIO_MAX    = 1
  NUM_MUTEXES = 2
SPECIFICATION HistorySpec
INVARIANTS
  MutexTypeOK
  WaitersImplyLocked
PROPERTIES
  OwnershipEndsWithRestore
  WaiterLendsPriority
  HandOffLeavesNoInversion
  ImplementsLock
