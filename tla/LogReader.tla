----------------------------- MODULE LogReader -----------------------------
(***************************************************************************)
(* tools/process: the host program that reads a recording back.            *)
(* Wavefile::read takes the blocks of a file one by one and groups them     *)
(* into sequences; Sequence checks that the time stamps of a sequence       *)
(* follow on, and repairs those an early version of the firmware wrote,     *)
(* whose clock confused some hours with others.  Blocks are handed to       *)
(* process_block as soon as their time is known.                            *)
(*                                                                         *)
(* The file is external: it is made up as it is read, from what record.c    *)
(* can leave on a card (RecordLog).  Times count from the start of year 0.  *)
(***************************************************************************)
EXTENDS Integers, Sequences, SequencesExt, FiniteSets

CONSTANTS
  TicksPerHour,  \* 360000
  BlockTicks,    \* 200
  Threshold,     \* 20
  DaysPerYear,   \* 365
  StartYears,    \* years a recording may begin in
  StartHours,    \* hours of the day a recording may begin in
  MaxBlocks,     \* blocks in the file
  MaxOthers,     \* blocks in it that hold no readings
  MaxSlips,      \* ticks off schedule in the file, early or late
  From, To       \* the window of time the user asks for

ticks_per_day == 24 * TicksPerHour

ConstantsOK ==
  /\ TicksPerHour \in Nat /\ Threshold \in 2 .. TicksPerHour - 1
  /\ BlockTicks \in Nat /\ DaysPerYear \in Nat /\ MaxBlocks \in Nat \ {0}
  /\ StartYears \subseteq 0 .. 98 /\ StartHours \subseteq 0 .. 23

\* No recording reaches into a leap year of the calendar: it begins in a year
\* with none behind it, and is over within a year.
ClearOfLeapYears ==
  /\ \A year \in StartYears : year % 4 \in {1, 2}
  /\ (MaxBlocks + 1) * (BlockTicks + 1) <= DaysPerYear * ticks_per_day
  /\ ticks_per_day + MaxBlocks + 1 <= DaysPerYear * ticks_per_day

----------------------------------------------------------------------------
(* Times *)

hour_conversion ==
  [h \in 0 .. 23 |-> CASE h \in {0, 12, 20} -> 11
                       [] h \in 1 .. 11 \union 13 .. 19 -> h - 1
                       [] h \in 21 .. 23 -> h - 21]
\* Wrong: eleven o'clock counts among them.
hour_invertable_Eleven == 3 .. 18
\* The hours the clock shows for one hour of the day only.
hour_invertable == 3 .. 10 \union 12 .. 18
hour_inverse(hour) == hour + 1

Hour(ticks) == (ticks \div TicksPerHour) % 24
\* zero_hour_from_ticks
ZeroHour(ticks) ==
  (ticks \div ticks_per_day) * ticks_per_day + (ticks % TicksPerHour)

convert_ticks(ticks) ==
  ZeroHour(ticks) + hour_conversion[Hour(ticks)] * TicksPerHour + ticks_per_day

invert_ticks(ticks) ==
  ZeroHour(ticks) + hour_inverse(Hour(ticks)) * TicksPerHour - ticks_per_day

Near(difference) == difference \in (1 - Threshold) .. (Threshold - 1)

blocks_are_contiguous(previous, current) == Near(current - previous)

\* How far apart two times are within the hour.
\* Wrong: an hour that turns over between the two is not seen.
broken_ticks_difference_SameHour(previous, current) ==
  (current % TicksPerHour) - (previous % TicksPerHour)

broken_ticks_difference(previous, current) ==
  LET d == (current % TicksPerHour) - (previous % TicksPerHour)
  IN IF Near(d) THEN d
     ELSE IF Near(d - TicksPerHour) THEN d - TicksPerHour
     ELSE d + TicksPerHour

\* Block::read: the time of a year and of a tick in it.
Ticks(year, tick) ==
  (DaysPerYear * year + year \div 4 + 1) * ticks_per_day + tick

\* The calendar: year 0 has a leap day, and so has every fourth year.
YearStart(year) ==
  (DaysPerYear * year + (year + 3) \div 4) * ticks_per_day
YearOf(time) == CHOOSE y \in 0 .. 99 :
  YearStart(y) <= time /\ time < YearStart(y + 1)

----------------------------------------------------------------------------

Running == 1

VARIABLES
  pc,        \* where main and Wavefile::read are
  status,    \* what main returned
  block,     \* the blocks read so far, _block the last: type, _ticks, _reference_count
  seq,       \* the Sequence being read
  delivered, \* the calls of process_block: block, ticks, did it matter
  log        \* the file: the true time of each block, and what may come next

vars == <<pc, status, block, seq, delivered, log>>

Current == block[Len(block)]
IsData(type) == type \in {"data", "broken"}

----------------------------------------------------------------------------
(* The file *)

\* rtc_ticks, from a clock set to 24 hours: the tick of the year.
rtc_ticks(time) == time - YearStart(YearOf(time))

\* What the reader makes of a block written at a time.  The early firmware
\* showed a wrong hour.
Stamp(type, time) ==
  LET t == Ticks(YearOf(time), rtc_ticks(time))
  IN IF type = "broken" THEN convert_ticks(t) ELSE t

\* A recording begins with a header, goes on without a gap and stops anywhere,
\* right behind the header too; a restart leaves blocks empty; a file ends
\* anywhere.  slips counts the ticks by which blocks are off schedule.  A file
\* that is not a recording has a block of another kind in it.
Follows(type, time) ==
  IsData(type) =>
    /\ log.last \in {"header", type}
    /\ log.slips + (IF time < log.now THEN log.now - time
                    ELSE time - log.now) <= MaxSlips

Others == Cardinality({b \in DOMAIN block : block[b].type \in {"header", "empty"}})

Starts == { YearStart(y + 1) - (24 - h) * TicksPerHour :
              y \in StartYears, h \in StartHours }

\* Block::read: the next block, and what the file is after it.
Read(blocks) ==
  \E type \in {"header", "data", "broken", "empty", "invalid", "eof"},
     slip \in {-1, 0, 1} :
    LET time == log.now + slip
        last == Len(blocks) + 1
    IN /\ last > MaxBlocks \/ (~IsData(type) /\ Others = MaxOthers)
            => type \in {"eof", "invalid"}
       /\ ~IsData(type) => slip = 0
       /\ Follows(type, time)
       /\ block' = Append(blocks,
            [type |-> type, references |-> 1,
             ticks |-> IF IsData(type) THEN Stamp(type, time) ELSE 0])
       /\ log' = [log EXCEPT
            !.last = type,
            !.good = @ /\ type # "invalid",
            !.slips = IF slip = 0 THEN @ ELSE @ + 1,
            !.now = IF IsData(type) THEN time + BlockTicks ELSE @,
            !.time = Append(@, time)]

----------------------------------------------------------------------------
(* Wavefile *)

Released(blocks, b) == [blocks EXCEPT ![b].references = @ - 1]

\* match: the last block is let go and the next one read.
Match(blocks) == Read(Released(blocks, Len(blocks)))

Stop == UNCHANGED <<block, log>>

\* main: the arguments and the output file; without them nothing is read.
Start ==
  /\ pc = "main"
  /\ pc' \in {"open", "failed"}
  /\ log' = [log EXCEPT !.good = @ /\ pc' = "open"]
  /\ UNCHANGED <<status, block, seq, delivered>>

Exit ==
  /\ pc \in {"done", "failed"} /\ status = Running
  /\ status' = IF pc = "done" THEN 0 ELSE -1
  /\ UNCHANGED <<pc, block, seq, delivered, log>>

\* process_block for a data block; a header makes no row.
Deliver(blocks, b) ==
  [block |-> b, ticks |-> blocks[b].ticks,
   matters |-> blocks[b].ticks + BlockTicks >= From /\ blocks[b].ticks < To]

NoSequence == [start |-> -1, stop |-> -1, scanning |-> TRUE, blocks |-> <<>>]

\* Wavefile::read: the first block, and the empty ones before a sequence.
Open ==
  /\ pc = "open"
  /\ Match(block)
  /\ pc' = "between"
  /\ UNCHANGED <<status, seq, delivered>>

SkipEmpty ==
  /\ pc = "between" /\ Current.type = "empty"
  /\ Match(block)
  /\ UNCHANGED <<pc, status, seq, delivered>>

Finish ==
  /\ pc = "between" /\ Current.type = "eof"
  /\ pc' = "done"
  /\ Stop
  /\ UNCHANGED <<status, seq, delivered>>

\* read_sequence
BeginSequence ==
  /\ pc = "between" /\ Current.type = "header"
  /\ Match(block)
  /\ seq' = NoSequence
  /\ pc' = "sequence"
  /\ UNCHANGED <<status, delivered>>

EndSequence ==
  /\ pc = "sequence" /\ ~IsData(Current.type)
  /\ pc' = "between"
  /\ Stop
  /\ UNCHANGED <<status, seq, delivered>>

\* A block that does not match, or that a sequence refuses, ends the reading.
Mismatch ==
  /\ pc = "between" /\ Current.type \notin {"empty", "eof", "header"}
  /\ pc' = "failed"
  /\ Stop
  /\ UNCHANGED <<status, seq, delivered>>

----------------------------------------------------------------------------
(* Sequence *)

Contiguous ==
  \/ seq.start = -1
  \/ IF Current.type = "data"
     THEN blocks_are_contiguous(seq.stop, Current.ticks)
     ELSE Near(broken_ticks_difference(seq.stop, Current.ticks))

\* The true times of the scanned blocks, worked out backwards from the last,
\* whose hour is known.
Repaired(scanned) ==
  LET times[i \in 1 .. Len(scanned)] ==
        LET before == IF i = Len(scanned) THEN invert_ticks(Current.ticks)
                                          ELSE times[i + 1] - BlockTicks
        IN before + broken_ticks_difference(before, block[scanned[i]].ticks)
  IN times

\* CheckStringB: each repaired time would have been shown as it was.
Sound(scanned, times) ==
  \A i \in DOMAIN scanned : convert_ticks(times[i]) = block[scanned[i]].ticks

Refuse ==
  /\ pc' = "failed"
  /\ Stop
  /\ UNCHANGED <<status, seq, delivered>>

add_block ==
  /\ pc = "sequence" /\ Current.type = "data"
  /\ IF Contiguous
     THEN /\ delivered' = Append(delivered, Deliver(block, Len(block)))
          /\ seq' = [seq EXCEPT
               !.start = IF @ = -1 THEN Current.ticks ELSE @,
               !.stop = Current.ticks + BlockTicks]
          /\ Match(block)
          /\ UNCHANGED <<pc, status>>
     ELSE Refuse

\* Wrong: the sequence keeps the block without a reference of its own.
Scan_Borrowed ==
  /\ pc = "sequence" /\ Current.type = "broken" /\ seq.scanning /\ Contiguous
  /\ Hour(Current.ticks) \notin hour_invertable
  /\ seq' = [seq EXCEPT !.blocks = Append(@, Len(block))]
  /\ Match(block)
  /\ UNCHANGED <<pc, status, delivered>>

\* add_broken_block while the hour is not known yet.
Scan ==
  /\ pc = "sequence" /\ Current.type = "broken" /\ seq.scanning /\ Contiguous
  /\ Hour(Current.ticks) \notin hour_invertable
  /\ seq' = [seq EXCEPT !.blocks = Append(@, Len(block))]
  /\ Match([block EXCEPT ![Len(block)].references = @ + 1])
  /\ UNCHANGED <<pc, status, delivered>>

\* The first block whose hour is known settles the others.
Resolve ==
  /\ pc = "sequence" /\ Current.type = "broken" /\ seq.scanning /\ Contiguous
  /\ Hour(Current.ticks) \in hour_invertable
  /\ LET scanned == Append(seq.blocks, Len(block))
         times == Repaired(scanned)
         At(b) == CHOOSE i \in DOMAIN scanned : scanned[i] = b
         \* The reference taken for the last one goes again at once.
         fixed == [b \in DOMAIN block |->
                     IF b \in ToSet(scanned)
                     THEN [block[b] EXCEPT !.ticks = times[At(b)],
                             !.references = IF b = Len(block) THEN @ ELSE @ - 1]
                     ELSE block[b]]
     IN IF Sound(scanned, times)
        THEN /\ delivered' = delivered \o
                  [i \in DOMAIN scanned |-> Deliver(fixed, scanned[i])]
             /\ seq' = [start |-> times[1],
                        stop |-> invert_ticks(Current.ticks) + BlockTicks,
                        scanning |-> FALSE, blocks |-> scanned]
             /\ Match(fixed)
             /\ UNCHANGED <<pc, status>>
        ELSE Refuse

\* add_broken_block once the hour is known.
Continue ==
  /\ pc = "sequence" /\ Current.type = "broken" /\ ~seq.scanning /\ Contiguous
  /\ LET inverse == seq.stop + broken_ticks_difference(seq.stop, Current.ticks)
         fixed == [block EXCEPT ![Len(block)].ticks = inverse]
     IN IF convert_ticks(inverse) = Current.ticks
        THEN /\ delivered' = Append(delivered, Deliver(fixed, Len(block)))
             /\ seq' = [seq EXCEPT !.stop = inverse + BlockTicks]
             /\ Match(fixed)
             /\ UNCHANGED <<pc, status>>
        ELSE Refuse

NotContiguous ==
  /\ pc = "sequence" /\ Current.type = "broken" /\ ~Contiguous
  /\ Refuse

Init ==
  /\ pc = "main"
  /\ status = Running
  /\ block = << [type |-> "invalid", ticks |-> 0, references |-> 1] >>
  /\ seq = NoSequence
  /\ delivered = <<>>
  /\ \E now \in Starts :
       log = [last |-> "empty", now |-> now, slips |-> 0, good |-> TRUE,
              time |-> <<now>>]

Next ==
  \/ Start \/ Exit
  \/ Open \/ SkipEmpty \/ Finish \/ BeginSequence \/ EndSequence \/ Mismatch
  \/ add_block \/ Scan \/ Resolve \/ Continue \/ NotContiguous

Spec == Init /\ [][Next]_vars

----------------------------------------------------------------------------
(* Properties *)

\* The data blocks read before the one at hand.
Past == { b \in 1 .. Len(block) - 1 : IsData(block[b].type) }
Handed == { delivered[i].block : i \in DOMAIN delivered }

\* Every block is handed on in the order of the file, once, and with the time
\* at which its first sample was taken, repaired or not.
DeliveredTrue ==
  \A i, j \in DOMAIN delivered :
    /\ delivered[i].ticks = log.time[delivered[i].block]
    /\ i < j => delivered[i].block < delivered[j].block

\* A block is held back only in a sequence that has shown no hour that can be
\* told yet, and lives exactly until it is handed on (block.cpp:160-170).
SameSequence(a, b) ==
  \A c \in (a .. b) \union (b .. a) : block[c].type \notin {"header", "empty"}
HeldUntilTold ==
  \A b \in 1 .. Len(block) - 1 :
    /\ block[b].references = (IF b \in Past \ Handed THEN 1 ELSE 0)
    /\ b \in Past \ Handed =>
         \A c \in Past : SameSequence(b, c) =>
           Hour(block[c].ticks) \notin hour_invertable

\* main fails only on a file that is not a recording, or for want of a file
\* (block.cpp:93).
GoodLogIsRead == status = -1 => ~log.good
=============================================================================
