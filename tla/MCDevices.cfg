SPECIFICATION Spec
CONSTANTS
  Thread = {t1, t2}
  DevId = {d1, d2}
  Program = {p1}
  Addr = {a1, a2}
  Calls <- MCCalls
  Null = Null
  Stale = Stale
CHECK_DEADLOCK FALSE
INVARIANTS
  TypeOK
  OneManager
  PointersStand
  ListFits
PROPERTIES
  GetInstanceReturns
