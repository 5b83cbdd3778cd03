\* The shell: lines of four characters, two arguments, two errors kept.
\* The timer: a counter of eight values, so that a tick of three wraps at every place of it.
\* The front end: a DAC of two bits, two channels, one hang of the bus.
SPECIFICATION MCSpec
CONSTANTS
  Sectors = 3
  BytesPerBlock = 2
  Byte = {0, 1}
  Device = {0, 1}
  Start <- MCStart
  MaxOffset = 3
  LineLength = 5
  ArgvLength = 2
  Letter = {"a", "b"}
  CommandName <- MCCommandName
  ModuleCount = 2
  ERROR_STACK_MAX_ENTRIES = 2
  MaxDepth = 3
  MaxKeys = 6
  Counts = 8
  ARCH_TIMER_COUNT = 3
  DigitSize = 2
  MaxTime = 18
  MaxCalls = 1
  MaxOther = 2
  Channel = {0, 1}
  Bits = 2
  Level = {0, 5}
  MaxCommands = 2
  MaxHangs = 1
INVARIANTS
  CopyIsTrue
  CommandAsTyped
  CyclesInCall
  TicksKeepTime
  OffsetsHold
PROPERTIES
  ImplementsStore
CHECK_DEADLOCK FALSE
