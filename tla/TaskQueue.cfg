\* The task queue: safety, its refinement of WorkPool, and what it promises although
\* a command may never return.
SPECIFICATION Spec
CONSTANTS
  Worker = {w1, w2, w3}
  Main = main
  Task = {t1, t2, t3}
  NULL = null
INVARIANTS TypeOK ListIsFifo OneHolderPerTask WakeupsCoverTasks ExitMeansDrained
PROPERTIES PoolSpec EveryTaskIsTaken
CHECK_DEADLOCK FALSE
