SPECIFICATION FieldsSpec
CONSTANTS
  f1 = f1
  f2 = f2
  f3 = f3
  f4 = f4
  f5 = f5
  Field = {f1, f2, f3, f4, f5}
  Oneofs <- MCOneofs
  NoId = 0
  ActionId = {0, 1}
  ContainerId = {0, 2}
INVARIANT EmptyMeansAll
