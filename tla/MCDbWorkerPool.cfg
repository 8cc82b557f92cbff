SPECIFICATION FairSpec
CONSTANTS
  WorkerCount = 2
  MaxQueue = 1
  Tasks = {t1, t2, t3, t4}
  None = None
INVARIANTS
  WorkConserving
  TasksAccounted
  AnswerIsOwn
PROPERTIES
  EveryQuerySettles
  CloseEndsEveryThread
CHECK_DEADLOCK FALSE
