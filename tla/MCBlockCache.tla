---------------------------- MODULE MCBlockCache ----------------------------
(***************************************************************************)
(* BlockCache for TLC: a card of three sectors with a partition that       *)
(* starts at sector 1, and two bytes to a sector.                          *)
(*                                                                         *)
(* Three more libraries of the CPU board are checked beside it, each in    *)
(* behaviours of its own, as they share no state: the shell, the tick      *)
(* timer and the analog front end.  running says which one a behaviour is  *)
(* about; the others stand still.                                          *)
(***************************************************************************)
EXTENDS BlockCache, TLC, SequencesExt

CONSTANTS
  LineLength, ArgvLength, Letter, CommandName, ModuleCount, ERROR_STACK_MAX_ENTRIES, MaxDepth, MaxKeys,
  Counts, ARCH_TIMER_COUNT, DigitSize, MaxTime, MaxCalls, MaxOther,
  Channel, Bits, Level, MaxCommands, MaxHangs

VARIABLES
  running,
  place, boot_index, line, index, parse, argv, error_count, typed, keys,
  now, pending, enabled, handler, shadow, OCR2A, overflow, check, handlers, ticks, pc, read, calls,
    other, begun, late, overtaken,
  output, gain, response, _dac_offset, offset, command, channel, search, queued, commands, hangs, loose

shell == <<place, boot_index, line, index, parse, argv, error_count, typed, keys>>
timer == <<now, pending, enabled, handler, shadow, OCR2A, overflow, check, handlers, ticks, pc, read,
           calls, other, begun, late, overtaken>>
front == <<output, gain, response, _dac_offset, offset, command, channel, search, queued, commands,
           hangs, loose>>

Sh == INSTANCE Shell WITH pc <- place
Timer == INSTANCE TickTimer
Analog == INSTANCE AnalogFront WITH late <- queued

ASSUME ShellAssumption == Sh!ConstantsOK
ASSUME TimerAssumption == Timer!ConstantsOK
ASSUME FrontAssumption == Analog!ConstantsOK

MCStart == 0 :> 0 @@ 1 :> 1

\* One command, of one letter.
MCCommandName == {<<"a">>}

\* Each component starts as it may; one that does not run stands in one of its initial states.
ChosenOrFixed ==
  /\ running \in {"cache", "shell", "timer", "front"}
  /\ running # "cache" => card = [s \in Sector |-> [c \in Column |-> 0]]
  /\ running # "shell" => line = [i \in 0 .. LineLength - 1 |-> Sh!End]
  /\ running # "front" => \A i \in DOMAIN response : response[i] = 0

MCInit == Init /\ Sh!Init /\ Timer!Init /\ Analog!Init /\ ChosenOrFixed

MCNext ==
  \/ running = "cache" /\ Next /\ UNCHANGED <<running, shell, timer, front>>
  \/ running = "shell" /\ Sh!Next /\ UNCHANGED <<running, vars, timer, front>>
  \/ running = "timer" /\ Timer!Next /\ UNCHANGED <<running, vars, shell, front>>
  \/ running = "front" /\ Analog!Next /\ UNCHANGED <<running, vars, shell, timer>>

MCSpec == MCInit /\ [][MCNext]_<<running, vars, shell, timer, front>>

----------------------------------------------------------------------------
\* The arguments of a command are those of the line as it was edited, and the errors printed after it are its
\* own (read_line, parse_line and shell_run).
CommandAsTyped == Sh!CommandAsTyped

\* arch_cycles returns a time of its call, but for the one case its loop does not see.
CyclesInCall == Timer!CyclesInCall

\* The ticks keep time with the counter, however late within a period each is handled.
TicksKeepTime == Timer!TicksKeepTime

\* A finished offset search has centred its channel, and the DAC holds what the commands keep.
OffsetsHold == Analog!OffsetsHold

----------------------------------------------------------------------------
\* parse_number and what it calls give the value of the digits before the first other character.
Strings == UNION {[1 .. n -> {"0", "x", "1", "a", Sh!Blank}] : n \in 0 .. 4}

ValueOf(string, base) ==
  LET c == SelectSeq(string, LAMBDA x : x # Sh!Blank)
      n == CHOOSE k \in 0 .. Len(c) :
             /\ \A i \in 1 .. k : Sh!IsDigit(c[i], base)
             /\ k < Len(c) => ~ Sh!IsDigit(c[k + 1], base)
  IN  FoldFunction(+, 0, [i \in 1 .. n |-> Sh!Digit[c[i]] * base ^ (n - i)]) % 100

ASSUME NumbersAreRead ==
  \A s \in Strings : \A base \in {8, 10, 16} : Sh!ParseDigits(s, base, 100) = ValueOf(s, base)

\* A sample survives its packing: the two high bits of four values, then their low bytes.
Edge == {0, 255, 256, 1023}
ASSUME SamplesSurvive ==
  \A v \in [1 .. 4 -> Edge \cup {511, 682}] : Analog!Unpack(Analog!Pack(v)) = v
=============================================================================
