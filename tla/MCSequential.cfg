SPECIFICATION SequentialSpec
CONSTANTS
  Token <- MCToken
  EmptyToken <- MCEmpty
  Name <- MCName
  Id = {1, 2}
  MaxObjects = 3
  Precedes <- LexLess
  f1 = f1
  f2 = f2
  f3 = f3
  f4 = f4
  f5 = f5
  Field = {f1, f2, f3, f4, f5}
  Oneofs <- MCOneofs
  NoId = 0
  ActionId = {0, 1}
  ContainerId = {0, 2}
  Obj <- MCObj
  ByteBits = 3
  WordBytes = 2
  MaxWidth = 8
  MatchType <- MCMatchType
  NoMatch = NoMatch
  Null = Null
INVARIANTS
  TypeOK
  ResolvesUniqueClaimant
  IdBelongsToFirst
  FieldsTypeOK
  OneofExclusive
  HandlesTypeOK
  OneOwner
  NothingLeaks
  ValuesTypeOK
  AcceptedIffFits
  ReadsBack
PROPERTIES
  ImplementsResolution
  ImplementsActiveFields
CHECK_DEADLOCK FALSE
