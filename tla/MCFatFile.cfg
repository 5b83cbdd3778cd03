SPECIFICATION Spec
CONSTANTS
  a = a
  b = b
  Name = {a, b}
  Cluster = {2, 3, 4, 5}
  Eoc = Eoc
  Free = Free
  head <- MCHead
  Length <- MCLength
  fat <- MCFat
  ClusterBytes = 2
  Byte = {0, 1}
  Image <- MCImage
  Slot = {0, 1}
  MaxCount = 2
  Offset <- MCOffset
INVARIANTS
  InStep
PROPERTY ImplementsFiles
