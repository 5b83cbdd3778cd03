\* Four readings a block, so that every header step happens; offset_search lasts just longer than the two buffers a
\* previous run may have left. The power board sends two of three registers, and its loop may end.
SPECIFICATION MCSpec
CONSTANTS
  ReadCount = 4
  Settle = 10
  Sessions = 2
  Null = Null
  Count = 2
  Registers = 3
  MaxFaults = 2
INVARIANTS
  QueueWellFormed
  Ownership
  WrittenInOrder
  NoSleepOnCompleted
  LostOnlyOnOverrun
  HeaderFresh
  MessageHeld
  WriteAgrees
  HeaderIsFresh
PROPERTIES
  Handled
  ReadyAgain
CHECK_DEADLOCK FALSE
