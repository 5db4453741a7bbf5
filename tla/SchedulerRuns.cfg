\* Three tasks of two priorities.
CONSTANTS
  MAX_TASKS = 3
  PRIO_MAX  = 1
SPECIFICATION RunsSpec
INVARIANTS
  DecidesByPolicy
  ElectsRunnable
PROPERTY RunsEnd
