SPECIFICATION FairSpec
CONSTANTS
  Worker = {w1}
  Task = {t1}
  NoTask = NoTask
PROPERTIES
  PickedUpWhenEnqueued
CHECK_DEADLOCK FALSE
