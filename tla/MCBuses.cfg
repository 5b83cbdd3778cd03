\* Timeouts of one and two turns: a card may answer at once, in the last turn, or too late. Ten ticks a second, so
\* that a year of them is a number of TLC. Four slots: full, empty and wrapped rings all occur.
SPECIFICATION MCSpec
CONSTANTS
  adc = adc
  aux = aux
  rtc = rtc
  MainMessage <- MCMain
  TickMessage <- MCTick
  Checked = {adc}
  Shape <- MCShape
  MaxCount = 2
  Null = Null
  Sectors = 3
  BytesPerBlock = 2
  Data = {d1, d2}
  None = None
  Kind = {"mmc", "v1", "v2", "hc"}
  ReadTimeout = 1
  WriteTimeout = 2
  InitTimeout = 2
  TicksPerSecond = 10
  Starts <- MCStarts
  Dates <- MCDates
  Times <- MCTimes
  MaxTicks = 2
  MaxCommands = 2
  Unknown = Unknown
  Size = 4
  Byte = {x, y}
CONSTRAINT Intact
INVARIANTS
  BusInOrder
  ClockAgrees
PROPERTIES
  DoneMeansDone
  Served
  ImplementsDevice
  CallReturns
  ImplementsQueue
  ReadReturns
