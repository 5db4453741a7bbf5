\* Five tasks, each of which may send and receive, on one queue of three slots:
\* the pointers wrap, and both masks can hold several tasks.
CONSTANTS
  MAX_TASKS   = 5
  PRIO_MAX    = 0
  NUM_QUEUES  = 1
  QUEUE_DEPTH = 3
  MSG_MAX     = 2
SPECIFICATION HistorySpec
INVARIANTS
  MsgqTypeOK
  RingConsistent
  NothingUntold
PROPERTIES
  ImplementsFifo
