\* The sample and average commands queue at once, with no offset search.
SPECIFICATION Spec
CONSTANTS
  ReadCount = 4
  Settle = 0
  Sessions = 2
  Null = Null
INVARIANTS
  QueueWellFormed
CHECK_DEADLOCK FALSE
