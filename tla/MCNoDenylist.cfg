CONSTANTS
  Capacities <- MCCapacities
  BigPool = 3
  Tenths = 3
  Line = Line
  Empty = Empty
  MaxLines = 7
  NoFile = NoFile
SPECIFICATION Spec
INVARIANT DenylistOptional
