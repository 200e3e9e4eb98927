SPECIFICATION Spec
CONSTANTS
  Thread = {t1, t2, t3}
  Session = {s1, s2, s3}
  Addr = {a1, a2}
  NoSession = NoSession
  NoAddr = NoAddr
SYMMETRY Symmetry
INVARIANTS
  HandleIsSession
  NoEntryLeftBehind
  LearnFindsSession
CHECK_DEADLOCK FALSE
