\* Three tasks on two semaphores that hold at most two permits.
CONSTANTS
  MAX_TASKS = 3
  PRIO_MAX  = 1
  NUM_SEMS  = 2
  MAX_COUNT = 2
SPECIFICATION Spec
INVARIANTS
  SemTypeOK
  WaitersOnlyAtZero
  EncoderFindsBest
PROPERTIES
  WakeServesMostUrgent
  ImplementsSemaphore
