SPECIFICATION Spec
CONSTANTS
  TicksPerHour = 5
  BlockTicks = 4
  Threshold = 2
  DaysPerYear = 3
  StartYears = {3}
  StartHours = {23}
  MaxBlocks = 13
  MaxOthers = 2
  MaxSlips = 1
  From = 0
  To = 20
INVARIANTS
  GoodLogIsRead
CHECK_DEADLOCK FALSE
