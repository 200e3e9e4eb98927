SPECIFICATION FairSpec
CONSTANTS
  Worker = {w1, w2}
  Task = {t1, t2, t3}
  NoTask = NoTask
INVARIANTS
  TypeOK
  NotStranded
PROPERTIES
  ImplementsTaskPool
  SubmittedRuns
  DestructorReturnsIfAwake
CHECK_DEADLOCK FALSE
