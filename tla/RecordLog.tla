----------------------------- MODULE RecordLog -----------------------------
(***************************************************************************)
(* The recording protocol of CPUDisc/record.c: where a restarted device    *)
(* goes on writing, and what a crash may cost.                             *)
(*                                                                         *)
(* The data file is a fixed array of 512 byte blocks; the meta data file   *)
(* holds one position.  Both are reached through the one-block write back  *)
(* buffer of libs/buffer/buffer.c: a block stays dirty in RAM until the    *)
(* next block is touched or the file is synced.  A crash (power loss, the  *)
(* watchdog, rtc_reset_stack) loses everything in RAM at any step.         *)
(*                                                                         *)
(* Positions count blocks.  Time counts ticks, and it decides both when a  *)
(* block is ready and when the position is saved.                          *)
(***************************************************************************)
EXTENDS Integers, FiniteSets

CONSTANTS
  FileBlocks,     \* blocks in the data file
  Skip,           \* blocks a restart moves ahead: 100
  Interval,       \* meta_interval, in ticks: 10000
  BlockTicks,     \* ticks to fill a block: 200
  PositionLimit,  \* bound: no restart takes the position past this
  Faults          \* device writes that may fail, unnoticed by block_write

ASSUME FileAssumption == FileBlocks \in Nat \ {0}
ASSUME TicksAssumption == Interval \in Nat /\ BlockTicks \in Nat \ {0}
\* The code skips 100 blocks, and 10000 \div 200 + 3 is 53.
ASSUME SkipAssumption == Skip \in Nat /\ Skip >= (Interval \div BlockTicks) + 3
ASSUME LimitAssumption == PositionLimit \in Nat
ASSUME FaultsAssumption == Faults \in Nat

Block == 0 .. FileBlocks - 1
Invalid == -1          \* 0xffffffff in the meta data file
Blank == [id |-> 0, kind |-> "blank"]

VARIABLES
  disk,      \* the data file on the SD card
  meta,      \* the position in the meta data file on the SD card
  cached,    \* the dirty block of the data file in RAM, or NoBlock
  content,   \* what that block holds
  pc,        \* where record_command is
  position,  \* the file position of record_command, then of the open file
  age,       \* start_ticks - last_meta_ticks at the top of the loop
  hold,      \* ticks since then
  filled,    \* complete blocks waiting for the main thread: 0, 1 or 2
  progress,  \* ticks spent on the block being filled
  base,      \* history: the position the last run of the command started from
  lastId,    \* history: blocks written by fs_file_write so far
  switched,  \* history: the magnetic switch has been activated
  faults     \* history: device writes that failed

persistent == <<disk, meta>>
buffer     == <<cached, content>>
time       == <<age, hold, filled, progress>>
history    == <<base, lastId, switched, faults>>
vars       == <<persistent, buffer, pc, position, time, history>>

NoBlock == -1
Location == {"off", "switch", "quit", "save", "seek", "info", "loop",
             "wait", "write", "check", "flush", "meta", "shell"}
Looping == {"loop", "wait", "write", "check", "flush", "meta"}

----------------------------------------------------------------------------
(* buffer_sync of the data block: the device takes the block, or it does   *)
(* not and block_write reports success all the same.                       *)

Flush ==
  /\ cached' = NoBlock
  /\ UNCHANGED content
  /\ IF cached = NoBlock
     THEN UNCHANGED <<disk, faults>>
     ELSE \/ disk' = [disk EXCEPT ![cached] = content] /\ UNCHANGED faults
          \/ faults < Faults /\ faults' = faults + 1 /\ UNCHANGED disk

\* Wrong: the dirty block is replaced without being written.
Put_DropsDirty(kind) ==
  /\ cached' = position
  /\ content' = [id |-> lastId + 1, kind |-> kind]
  /\ lastId' = lastId + 1
  /\ position' = position + 1
  /\ UNCHANGED <<disk, faults>>

\* fs_file_write of one block at the file position: the previous dirty block
\* goes to the device before this one takes its place in RAM.
Put(kind) ==
  /\ cached' = position
  /\ content' = [id |-> lastId + 1, kind |-> kind]
  /\ IF cached = NoBlock
     THEN UNCHANGED <<disk, faults>>
     ELSE \/ disk' = [disk EXCEPT ![cached] = content] /\ UNCHANGED faults
          \/ faults < Faults /\ faults' = faults + 1 /\ UNCHANGED disk
  /\ lastId' = lastId + 1
  /\ position' = position + 1

\* fs_file_seek, fs_file_write and fs_file_sync of the meta data file, once
\* the buffer is free.
SaveMeta(p) ==
  \/ meta' = p /\ UNCHANGED faults
  \/ faults < Faults /\ faults' = faults + 1 /\ UNCHANGED meta

----------------------------------------------------------------------------
(* record_command up to the loop *)

Init ==
  /\ disk = [b \in Block |-> Blank]
  /\ meta = Invalid
  /\ cached = NoBlock /\ content = Blank
  /\ pc = "off" /\ position = 0
  /\ age = 0 /\ hold = 0 /\ filled = 0 /\ progress = 0
  /\ base = 0 /\ lastId = 0 /\ switched = FALSE /\ faults = 0

\* Wrong: a restart goes on at the position it finds.
CheckFilePosition_NoSkip ==
  /\ pc \in {"off", "shell"}
  /\ IF meta = Invalid
     THEN pc' = "switch" /\ UNCHANGED position
     ELSE position' = meta /\ pc' = "save"
  /\ UNCHANGED <<persistent, buffer, time, history>>

\* check_file_position, and the record command typed again at the shell.
CheckFilePosition ==
  /\ pc \in {"off", "shell"}
  /\ IF meta = Invalid
     THEN pc' = "switch" /\ UNCHANGED position
     ELSE /\ meta + Skip <= PositionLimit
          /\ position' = meta + Skip
          /\ pc' = "save"
  /\ UNCHANGED <<persistent, buffer, time, history>>

SwitchOn ==
  /\ pc = "switch"
  /\ switched' = TRUE
  /\ position' = 0
  /\ pc' = "save"
  /\ UNCHANGED <<persistent, buffer, time, base, lastId, faults>>

\* A key instead of the switch: quit is set, and the position is still saved.
SwitchQuit ==
  /\ pc = "switch"
  /\ position' = 0
  /\ pc' = "quit"
  /\ UNCHANGED <<persistent, buffer, time, history>>

\* Wrong: the position is not saved before recording starts.
SaveFilePosition_Skipped ==
  /\ pc \in {"save", "quit"}
  /\ base' = position
  /\ pc' = IF pc = "save" THEN "seek" ELSE "shell"
  /\ UNCHANGED <<persistent, buffer, position, time, lastId, switched, faults>>

SaveFilePosition ==
  /\ pc \in {"save", "quit"}
  /\ SaveMeta(position)
  /\ base' = position
  /\ pc' = IF pc = "save" THEN "seek" ELSE "shell"
  /\ UNCHANGED <<disk, buffer, position, time, lastId, switched>>

\* The file is full: the seek fails, and the command with it.
SeekFails ==
  /\ pc = "seek" /\ position >= FileBlocks
  /\ pc' = "shell"
  /\ UNCHANGED <<persistent, buffer, position, time, history>>

Seek ==
  /\ pc = "seek" /\ position < FileBlocks
  /\ pc' = "info"
  /\ UNCHANGED <<persistent, buffer, position, time, history>>

\* The info block, and then both messages to the interrupt handler.  The clock
\* has run since boot and last_meta_ticks starts at zero.
WriteInfo ==
  /\ pc = "info"
  /\ Put("info")
  /\ \E t \in 0 .. Interval + 1 : age' = t
  /\ hold' = 0 /\ filled' = 0 /\ progress' = 0
  /\ pc' = "loop"
  /\ UNCHANGED <<meta, base, switched>>

----------------------------------------------------------------------------
(* The loop *)

AtMost(n, max) == IF n > max THEN max ELSE n

\* A tick.  The main thread holds one message from its wait to its queueing,
\* and the interrupt handler fills one of those it does not hold.
Held == IF pc \in {"check", "flush", "meta"} THEN 1 ELSE 0
Tick ==
  /\ pc \in Looping
  /\ hold' = AtMost(hold + 1, Interval + 1)
  /\ IF filled + Held < 2
     THEN IF progress + 1 < BlockTicks
          THEN progress' = progress + 1 /\ UNCHANGED filled
          ELSE progress' = 0 /\ filled' = filled + 1
     ELSE UNCHANGED <<filled, progress>>
  /\ UNCHANGED <<persistent, buffer, pc, position, age, history>>

\* start_ticks is read.
LoopTop ==
  /\ pc = "loop"
  /\ age' = AtMost(age + hold, Interval + 1)
  /\ hold' = 0
  /\ pc' = "wait"
  /\ UNCHANGED <<persistent, buffer, position, filled, progress, history>>

\* A character came: both files are closed, and closing syncs the buffer.
Quit ==
  /\ pc = "loop"
  /\ Flush
  /\ pc' = "shell"
  /\ UNCHANGED <<meta, position, time, base, lastId, switched>>

WaitMessage ==
  /\ pc = "wait" /\ filled > 0
  /\ pc' = "write"
  /\ UNCHANGED <<persistent, buffer, position, time, history>>

WriteBlock ==
  /\ pc = "write" /\ position < FileBlocks
  /\ Put("data")
  /\ filled' = filled - 1
  /\ pc' = "check"
  /\ UNCHANGED <<meta, age, hold, progress, base, switched>>

\* The file is full: the error is shown, and the files are closed.
WriteFails ==
  /\ pc = "write" /\ position >= FileBlocks
  /\ Flush
  /\ pc' = "shell"
  /\ UNCHANGED <<meta, position, time, base, lastId, switched>>

\* The message goes back to the interrupt handler.
NotDue ==
  /\ pc = "check" /\ age <= Interval
  /\ pc' = "loop"
  /\ UNCHANGED <<persistent, buffer, position, time, history>>

\* Wrong: the position goes to the card before the data block does.
Due_MetaFirst ==
  /\ pc = "check" /\ age > Interval
  /\ pc' = "meta"
  /\ UNCHANGED <<persistent, buffer, position, time, history>>

Due ==
  /\ pc = "check" /\ age > Interval
  /\ pc' = "flush"
  /\ UNCHANGED <<persistent, buffer, position, time, history>>

\* The first byte of the position takes the buffer from the data block.
MetaTakesBuffer ==
  /\ pc = "flush"
  /\ Flush
  /\ pc' = "meta"
  /\ UNCHANGED <<meta, position, time, base, lastId, switched>>

MetaSync ==
  /\ pc = "meta"
  /\ SaveMeta(position)
  /\ age' = 0
  /\ pc' = "loop"
  /\ UNCHANGED <<disk, buffer, position, hold, filled, progress, base, lastId,
                 switched>>

----------------------------------------------------------------------------
Crash ==
  /\ pc # "off"
  /\ pc' = "off"
  /\ cached' = NoBlock /\ content' = Blank
  /\ position' = 0
  /\ age' = 0 /\ hold' = 0 /\ filled' = 0 /\ progress' = 0
  /\ UNCHANGED <<persistent, history>>

Next ==
  \/ CheckFilePosition \/ SwitchOn \/ SwitchQuit \/ SaveFilePosition
  \/ SeekFails \/ Seek \/ WriteInfo
  \/ Tick \/ LoopTop \/ Quit \/ WaitMessage \/ WriteBlock \/ WriteFails
  \/ NotDue \/ Due \/ MetaTakesBuffer \/ MetaSync
  \/ Crash

Spec == Init /\ [][Next]_vars

----------------------------------------------------------------------------
(* Properties *)

TypeOK ==
  /\ disk \in [Block -> [id : Nat, kind : {"blank", "info", "data"}]]
  /\ meta \in {Invalid} \cup 0 .. PositionLimit + FileBlocks
  /\ cached \in {NoBlock} \cup Block
  /\ content \in [id : Nat, kind : {"blank", "info", "data"}]
  /\ pc \in Location
  /\ position \in 0 .. PositionLimit + FileBlocks
  /\ age \in 0 .. Interval + 1 /\ hold \in 0 .. Interval + 1
  /\ filled \in 0 .. 2 /\ progress \in 0 .. BlockTicks - 1
  /\ base \in Nat /\ lastId \in Nat
  /\ switched \in BOOLEAN /\ faults \in 0 .. Faults

Recorded(b) == disk[b] # Blank

\* No block of the data file that holds a recording is written again, whatever
\* the crashes, the restarts and the commands typed (record.c:159-173).
NoOverwrite ==
  [][\A b \in Block : Recorded(b) => disk'[b] = disk[b]]_vars

\* Whenever the device stops, the block its next start begins at lies past
\* every block on the card and in RAM.
NextStart == IF meta = Invalid THEN 0 ELSE meta + Skip
NextStartIsClear ==
  \A b \in Block : Recorded(b) \/ b = cached => b < NextStart

\* A position saved in the loop is never ahead of the data: every block from
\* the recording's info block up to it is on the card.
MetaBehindData ==
  \A b \in Block : base <= b /\ b < meta => Recorded(b)

\* Every data block on the card follows the block written just before it: a
\* recording survives as a prefix, with its info block first.
PrefixOnDisk ==
  \A b \in Block :
    disk[b].kind = "data" =>
      b > 0 /\ Recorded(b - 1) /\ disk[b - 1].id = disk[b].id - 1

\* A crash in the loop costs at most the last block written.
CrashLosesOneBlock ==
  pc \in Looping => \A b \in base .. position - 2 : Recorded(b)

\* Data is recorded only once the switch has been activated (record.c:147-150).
RecordsOnlyAfterSwitch == (\E b \in Block : Recorded(b)) => switched

=============================================================================
