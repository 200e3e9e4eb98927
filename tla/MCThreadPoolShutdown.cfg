SPECIFICATION FairSpec
CONSTANTS
  Worker = {w1, w2}
  Task = {t1}
  NoTask = NoTask
PROPERTIES
  DestructorReturns
CHECK_DEADLOCK FALSE
