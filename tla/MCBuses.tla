------------------------------ MODULE MCBuses ------------------------------
(***************************************************************************)
(* The two wire bus and the clock on it, the card and the serial port for  *)
(* TLC, each in behaviours of its own: running says which one moves, the   *)
(* others stand where they begin.                                          *)
(*                                                                         *)
(* TwiMaster: a message of the main thread, one of the tick that is queued *)
(* only when it is done and one that is queued without a look.             *)
(* RealTimeClock: the last tick of a day, at the ends of months and years. *)
(* SdCard: cards of every kind, three blocks of two values.                *)
(* UartRing: four slots.                                                   *)
(***************************************************************************)
EXTENDS TwiMaster

CONSTANTS
  adc, aux, rtc,
  Sectors, BytesPerBlock, Data, None, Kind, ReadTimeout, WriteTimeout, InitTimeout,
  TicksPerSecond, Starts, Dates, Times, MaxTicks, MaxCommands, Unknown,
  Size, Byte

VARIABLES
  running,
  sd, pc, call, turn, reply, card,
  chip, clock, clock_pc, clock_call, due, ticks, commands,
  ring_head, ring_tail, overflow, data, at, ring_next, taken, answer

sdcard == <<sd, pc, call, turn, reply, card>>
time   == <<chip, clock, clock_pc, clock_call, due, ticks, commands>>
ring   == <<ring_head, ring_tail, overflow, data, at, ring_next, taken, answer>>

\* The last tick of a day; ends of a February of either kind, of a month, of a year and of the century.
At(date, month, year) == <<TicksPerSecond - 1, 59, 59, 23, date, month, year>>
MCStarts ==
  {At(28, 2, 0), At(28, 2, 3), At(29, 2, 4), At(30, 6, 9), At(31, 12, 4), At(31, 12, 99)}
\* Dates and times, one that is no date, and numbers that do not fit.
MCDates == {<<1, 3, 0>>, <<31, 12, 4>>, <<31, 2, 4>>, <<257, 13, 100>>}
MCTimes == {<<0, 0, 0>>, <<9, 59, 59>>, <<24, 60, 256>>}

Sd == INSTANCE SdCard
Clock == INSTANCE RealTimeClock WITH rtc <- clock, pc <- clock_pc, call <- clock_call
Ring == INSTANCE UartRing WITH head <- ring_head, tail <- ring_tail, next <- ring_next

MCMain == {rtc}
MCTick == {adc, aux}

\* analog_disc.c queues its aux message in three shapes, scaled down here.
MCShape(m) ==
  CASE m = adc -> {<<1, 2>>}
    [] m = aux -> {<<1, 2>>, <<2, 0>>, <<0, 2>>}
    [] m = rtc -> {<<1, 2>>, <<2, 0>>, <<0, 1>>}

ASSUME CardAssumption == Sd!ConstantsOK
ASSUME ClockAssumption == Clock!ConstantsOK
ASSUME RingAssumption == Ring!ConstantsOK

Blank == [s \in Sd!Sector |-> CHOOSE d \in Data : TRUE]

MCInit ==
  /\ Init /\ Sd!Init /\ Clock!Init /\ Ring!Init
  /\ running \in {"twi", "card", "clock", "serial"}
  /\ running # "card" => card = Sd!NewCard("v1", TRUE, Blank)
  /\ running # "clock" => due = CHOOSE t \in Starts : TRUE

Twi(action) ==
  running = "twi" /\ action /\ UNCHANGED <<running, sdcard, time, ring>>
Card(action) ==
  running = "card" /\ action /\ UNCHANGED <<running, vars, time, ring>>
Clocks(action) ==
  running = "clock" /\ action /\ UNCHANGED <<running, vars, sdcard, ring>>
Serial(action) ==
  running = "serial" /\ action /\ UNCHANGED <<running, vars, sdcard, time>>

MCVars == <<running, vars, sdcard, time, ring>>

\* Nobody need touch the clock any more: that is no deadlock.
Rests == running = "clock" /\ UNCHANGED MCVars

MCNext ==
  \/ Twi(Next) \/ Card(Sd!Next) \/ Clocks(Clock!Next) \/ Serial(Ring!Next) \/ Rests

\* The fairness of the specifications.
MCSpec ==
  /\ MCInit /\ [][MCNext]_MCVars
  /\ WF_MCVars(Twi(Interrupt)) /\ WF_MCVars(Twi(Enqueue))
  /\ WF_MCVars(Card(Sd!Step))
  /\ WF_MCVars(Serial(Ring!Take)) /\ WF_MCVars(Serial(Ring!Return))

----------------------------------------------------------------------------
\* Bound: what comes after somebody wrote to a message that the bus had; the properties of the queue say nothing
\* of it, and MCTwiTimeout goes on.
Intact == ~overwritten

\* The card driver and the card are a block device, whatever the card does and the unit it counts in.
ImplementsDevice == Sd!ImplementsDevice

\* No call of the card driver hangs.
CallReturns == Sd!CallReturns

\* The clock shows what was typed, and rtc_ticks counts with it.
ClockAgrees == Clock!ClockAgrees

\* The receive ring is a queue of characters.
ImplementsQueue == Ring!ImplementsQueue

\* uart_read returns when a character is there.
ReadReturns == Ring!ReadReturns
=============================================================================
