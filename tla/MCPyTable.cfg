SPECIFICATION Spec
CONSTANTS
  Key <- MCKey
  Handle <- MCHandle
  Commands <- MCCommands
  Page = 2
  Null = Null
INVARIANTS
  TypeOK
  NoUseAfterFree
  OnlyTheseLeak
  DumpIsWhole
PROPERTY
  CallEnds
  CallAdvances
