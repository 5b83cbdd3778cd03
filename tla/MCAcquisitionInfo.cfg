\* The command run twice in one boot, as from the shell after a key press.
SPECIFICATION Spec
CONSTANTS
  ReadCount = 4
  Settle = 10
  Sessions = 2
  Null = Null
INVARIANTS
  InfoIntact
CHECK_DEADLOCK FALSE
