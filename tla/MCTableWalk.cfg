SPECIFICATION Spec
CONSTANTS
  Id <- MCId
  Name <- MCName
  NoName = ""
  Null = Null
  Schema <- MCSchema
  Feature <- MCFeature
  Known <- MCKnown
INVARIANTS
  TypeOK
  WalkIsSafe
  MirrorAgrees
CHECK_DEADLOCK FALSE
