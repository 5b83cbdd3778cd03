\* The three positions of a data file of twelve blocks a run may begin at; directories of two entries a sector,
\* a root of eight, two handles of each kind; a log of thirteen blocks; two elements of the
\* error stack; initialize() may fail twice; contents for two Strings and a temporary. The host's programs end.
SPECIFICATION MCSpec
CONSTANTS
  FileBlocks = 12
  Skip = 5
  Interval = 4
  BlockTicks = 2
  PositionLimit = 15
  Faults = 0
  FileName <- MCName
  MaxDirs = 2
  MaxFiles = 2
  MaxBlocks = 5
  MaxPartitions = 2
  ENTRIES_PER_SECTOR = 2
  ROOT_DIRECTORY_ENTRIES = 8
  TicksPerHour = 5
  TicksPerBlock = 4
  Threshold = 2
  DaysPerYear = 3
  StartYears = {1}
  StartHours = {1, 9, 11, 19, 20, 23}
  LogBlocks = 13
  MaxOthers = 2
  MaxSlips = 1
  From = 0
  To = 20
  Length = 2
  MaxDepth = 4
  MaxErrors = 3
  MaxClears = 1
  SysModule = {a, b, c}
  MaxFailures = 2
  Variable = {s, t}
  Character = {"first"}
  Nul = Nul
  Unknown = Unknown
  None = None
  Addresses = 3
  MaxLength = 2
  MaxPadding = 1
CONSTRAINT OneDisplaced
INVARIANTS
  NextStartIsClear
  MetaBehindData
  PrefixOnDisk
  CrashLosesOneBlock
  HandlesComeBack
  DirectoriesAgree
  DeliveredTrue
  HeldUntilTold
  GoodLogIsRead
  ErrorsAreKept
  DependenciesFirst
  StringsKeepTheirText
PROPERTIES
  NoOverwrite
CHECK_DEADLOCK FALSE
