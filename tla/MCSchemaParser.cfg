SPECIFICATION Spec
CONSTANTS
  Id <- MCId
  Name <- MCName
  NoName = ""
  Null = Null
  Element <- MCElement
  MaxElements = 3
  MaxTables = 2
  MaxFiles = 2
INVARIANTS
  TypeOK
  OneofsPartition
  LookupsAgree
  ListsMatchLookups
PROPERTY FirstDeclarationStands
CHECK_DEADLOCK FALSE
