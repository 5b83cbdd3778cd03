---------------------------- MODULE RealTimeClock ----------------------------
(***************************************************************************)
(* The clock on the two wire bus as libs/rtc sets and reads it: rtc_date   *)
(* and rtc_time read all of it, change one half and write all of it back;  *)
(* rtc_ticks turns its registers into the tick of the year by which a      *)
(* recording is dated.                                                     *)
(*                                                                         *)
(* The chip is external: it counts in BCD, from 0 to 23 hours, and a tick  *)
(* may come between a command's read and its write.  A message is one step *)
(* here, TwiMaster has how the bus serves it; one that fails may have      *)
(* reached the chip in part.                                               *)
(*                                                                         *)
(* A time is the sequence of tick, second, minute, hour, date, month and   *)
(* year, as rtc_write sends them.                                          *)
(***************************************************************************)
EXTENDS Integers, Sequences

CONSTANTS
  TicksPerSecond,  \* hundredths: 100
  Starts,          \* the times the chip may show at first
  Dates, Times,    \* what is typed: date, month, year and hour, minute, second
  MaxTicks,        \* bound: ticks of the chip
  MaxCommands,     \* bound: commands typed
  Unknown          \* the time of a chip that was given no date of the calendar

VARIABLES
  chip,      \* its registers
  rtc,       \* the global of that name
  pc, call,  \* the command in progress
  due,       \* history: the time the chip should show
  ticks, commands

vars == <<chip, rtc, pc, call, due, ticks, commands>>

binary_to_bcd(n) == IF n > 99 THEN 99 ELSE (n \div 10) * 16 + (n % 10)
bcd_to_binary(n) == (n \div 16) * 10 + (n % 16)
Encoded(numbers) == [i \in DOMAIN numbers |-> binary_to_bcd(numbers[i])]
Decoded(registers) == [i \in DOMAIN registers |-> bcd_to_binary(registers[i])]

----------------------------------------------------------------------------
(* The calendar of the chip, for the years 2000 to 2099 *)

DaysInMonth(month, year) ==
  CASE month = 2 -> IF year % 4 = 0 THEN 29 ELSE 28
    [] month \in {4, 6, 9, 11} -> 30
    [] OTHER -> 31

IsTime(time) == time[6] \in 1 .. 12 /\ time[5] \in 1 .. DaysInMonth(time[6], time[7])

NewYear == <<0, 0, 0, 0, 1, 1, 0>>
Last(time) == <<TicksPerSecond - 1, 59, 59, 23, DaysInMonth(time[6], time[7]), 12, 99>>

\* A tick later: what is at its end with all before it begins again, and the next goes on.
Later(time) ==
  [i \in 1 .. 7 |->
     IF \E j \in 1 .. i - 1 : time[j] < Last(time)[j] THEN time[i]
     ELSE IF time[i] = Last(time)[i] THEN NewYear[i] ELSE time[i] + 1]

IsNewYear(time) == SubSeq(time, 1, 6) = SubSeq(NewYear, 1, 6)

\* What the constants are: hundredths have two digits, the chip starts at a time of its calendar, and three numbers
\* are typed.
ConstantsOK ==
  /\ TicksPerSecond \in 1 .. 100
  /\ \A t \in Starts : t \in Seq(Nat) /\ Len(t) = 7 /\ IsTime(t) /\ \A i \in 1 .. 7 : t[i] <= Last(t)[i]
  /\ \A t \in Dates \cup Times : t \in Seq(Nat) /\ Len(t) = 3
  /\ Unknown \notin Seq(Nat)

----------------------------------------------------------------------------
(* The ticks of the year *)

days_month ==
  << <<0, 31, 59, 90, 120, 151, 181, 212, 243, 273, 304, 334, 365>>,
     <<0, 31, 60, 91, 121, 152, 182, 213, 244, 274, 305, 335, 366>> >>

leapyear(year) == year % 4 = 0 /\ (year % 100 # 0 \/ (year \div 100) % 4 = 0)

rtc_ticks(registers) ==
  LET t == Decoded(registers)
      days == days_month[IF leapyear(t[7]) THEN 2 ELSE 1][t[6]] + t[5] - 1
  IN  (((days * 24 + t[4]) * 60 + t[3]) * 60 + t[2]) * TicksPerSecond + t[1]

----------------------------------------------------------------------------
Idle == [op |-> "none", typed |-> <<0, 0, 0>>, shown |-> NewYear]

Init ==
  /\ due \in Starts /\ chip = Encoded(due)
  /\ rtc = [i \in 1 .. 7 |-> 0]
  /\ pc = "ready" /\ call = Idle
  /\ ticks = 0 /\ commands = 0

\* What the chip makes of a date that is none is not said: it stands still here.
Advance ==
  /\ ticks < MaxTicks /\ IsTime(Decoded(chip))
  /\ ticks' = ticks + 1
  /\ chip' = Encoded(Later(Decoded(chip)))
  /\ due' = IF due = Unknown THEN Unknown ELSE Later(due)
  /\ UNCHANGED <<rtc, pc, call, commands>>

\* rtc_command, rtc_set_date_command and rtc_set_time_command
Command(op, typed) ==
  /\ pc = "ready" /\ commands < MaxCommands
  /\ commands' = commands + 1
  /\ pc' = "read" /\ call' = [Idle EXCEPT !.op = op, !.typed = typed]
  /\ UNCHANGED <<chip, rtc, due, ticks>>

\* Wrong: what the last command read will do.
Read_Stale(registers) == IF rtc[6] = 0 THEN registers ELSE rtc

\* The registers a read leaves in rtc.
Read(registers) == registers

rtc_read ==
  /\ pc = "read"
  /\ rtc' = Read(chip)
  /\ pc' = IF call.op = "rtc" THEN "ready" ELSE "write"
  /\ call' = [call EXCEPT !.shown = Decoded(chip)]
  /\ UNCHANGED <<chip, due, ticks, commands>>

\* The message of a command fails, and the command with it: its read before anything has changed.
ReadFails ==
  /\ pc = "read"
  /\ pc' = "ready" /\ call' = Idle
  /\ UNCHANGED <<chip, rtc, due, ticks, commands>>

----------------------------------------------------------------------------
\* A number typed, as the eight bits that are kept of it, and no more than the field can hold.
Capped(typed, limit) ==
  [i \in 1 .. 3 |-> IF typed[i] % 256 > limit[i] THEN limit[i] ELSE typed[i] % 256]

\* A time with the half that was typed.
WithDate(time, d) == SubSeq(time, 1, 4) \o d
WithTime(time, t) == <<0, t[3], t[2], t[1]>> \o SubSeq(time, 5, 7)

With(time, half) == IF call.op = "rtc_date" THEN WithDate(time, half) ELSE WithTime(time, half)

Limit == IF call.op = "rtc_date" THEN <<31, 12, 99>> ELSE <<23, 59, 59>>
Changed == With(rtc, Encoded(Capped(call.typed, Limit)))

\* The time that was asked for, if it is one.
Asked == With(call.shown, call.typed)
AskedTime == call.typed = Capped(call.typed, Limit) /\ IsTime(Asked)

\* rtc_write, all of it or up to a register.
rtc_write(sent) ==
  /\ pc = "write"
  /\ rtc' = Changed
  /\ chip' = SubSeq(Changed, 1, sent) \o SubSeq(chip, sent + 1, 7)
  /\ due' = IF sent = 7 /\ AskedTime THEN Asked
            ELSE IF IsTime(Decoded(chip')) THEN Decoded(chip') ELSE Unknown
  /\ pc' = "ready" /\ call' = Idle
  /\ UNCHANGED <<ticks, commands>>

Next ==
  \/ Advance
  \/ \E typed \in Dates : Command("rtc_date", typed)
  \/ \E typed \in Times : Command("rtc_time", typed)
  \/ Command("rtc", <<0, 0, 0>>)
  \/ rtc_read \/ ReadFails
  \/ \E sent \in 0 .. 7 : rtc_write(sent)

Spec == Init /\ [][Next]_vars

----------------------------------------------------------------------------
\* The chip shows what was typed last and has counted since: a command that sets one half leaves the other as it
\* read it, whatever else was read or cut short before; and rtc_ticks counts with the chip, through every month,
\* leap year and century, from 0 at New Year (rtc_read, rtc_write, rtc_set_date_command, rtc_set_time_command,
\* rtc_ticks).
ClockAgrees ==
  due # Unknown =>
    /\ Decoded(chip) = due
    /\ rtc_ticks(Encoded(Later(due))) = IF IsNewYear(Later(due)) THEN 0 ELSE rtc_ticks(chip) + 1
=============================================================================
