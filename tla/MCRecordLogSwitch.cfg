SPECIFICATION Spec
CONSTANTS
  FileBlocks = 12
  Skip = 5
  Interval = 4
  BlockTicks = 2
  PositionLimit = 15
  Faults = 0
INVARIANTS
  RecordsOnlyAfterSwitch
CHECK_DEADLOCK FALSE
