# Specifications of wavelogger

wavelogger is the firmware and the host tools of a wave height logger: a CPU
board (atmega644p) samples two analog channels a hundred times a second and
records them on an SD card for months, unattended; a power board (attiny85)
answers for the battery; a host program turns the card's contents into wave
files. What matters is that a recording survives: no reading dropped without
need, no block written twice or over another, nothing lost to a reset beyond
the block in RAM.

The modules here model that path and check it. The source is in `src/`, one
commit, and every definition names its lines in `PROJECT.json` under `map`.

## 1. The system

### Components, their state and operations

| Component | Source | State | Operations | Correct when |
|---|---|---|---|---|
| Record command | `CPUDisc/record.c` | two static messages and buffers, the file position, the time of the last save | `record_command`, `check_file_position`, `wait_on_switch`, `offset_search` | blocks reach the file complete and in order; a restart never writes over a recording |
| Analog capture | `libs/analog_disc` | `_analog`: message queue, current message, index, the ADC and the auxiliary bus message | `analog_tick` (interrupt), `analog_queue_message`, `analog_wait_message` | a buffer belongs to one side at a time; every tick stores a reading; block headers hold their own time and voltage |
| Device queue | `libs/device` | `head`, `tail`, `next` and `state` of each message | `message_queue`, `device_get_next_message`, `message_wait` | the pointers spell a list, whatever the interrupt sees |
| CPU sleep | `libs/os/arch/*/sleep.c` | `_inhibit_deep_sleep` | `os_sleep_cpu` | no wakeup is lost |
| Ticks | `libs/os/os.c`, `libs/os/arch/*/tick_timer.c` | tick count, overflow count, handler list | `os_ticks`, `arch_cycles`, the timer interrupts | a reader gets a time that was |
| Two wire bus | `libs/twi/master.c` | `_twi`, the counts and state of each message | `twi_queue_message`, `twi_wait_message`, the bus interrupt | each message answered once, in order, within its buffer |
| Buffer cache | `libs/buffer` | one 512 byte block, `valid`, `dirty`, its name | byte reads and writes, `buffer_sync`, `buffer_set_address` | it and the card are one memory |
| Blocks, partitions | `libs/block`, `libs/partition` | table of block devices, table of partitions | `block_read`, `block_write`, the partition's two | addresses fall where they should; failures are reported |
| File system | `libs/file_system` | open files and directories: cluster, offset in it, position | open, seek, read, write, sync, close | cluster chain and position stay in step |
| SD card | `libs/sdcard` | card type, timeouts | `sd_init`, `sd_block_read`, `sd_block_write` | a block written is on the card or an error is returned |
| Serial port | `libs/serial` | the receive ring | `uart_read`, `uart_character_ready`, the receive interrupt | a queue of 15 characters |
| Shell, console, error stack, boot | `libs/shell`, `libs/stdio/console.c`, `libs/error`, `libs/os/os.c`, `CPUDisc/main.c` | one line buffer split in place, the error stack, `boot_index` | `read_line`, `parse_line`, `shell_run`, `os_boot` | a command gets the words that were typed; errors shown after it are its own |
| Analog front end | `libs/adc`, `libs/dac`, `libs/gain`, `libs/analog_disc/commands.c` | the chips' registers, `_dac_offset`, `info->offset` | offset search, `dac`, `gain`, `up`, `down` | a search that ends has centred its channel; the DAC holds what the commands keep |
| Clock chip | `libs/rtc` | the global `rtc`, the chip's registers | `rtc_read`, `rtc_write`, `rtc_ticks`, the set commands, `rtc_reset_stack` | the chip shows what was typed and time stamps grow with it |
| led, eeprom, cylinder, spi | `libs/*` | small or none | sequential calls | - |
| Power board | `PowerDisc` | `_usi`: state, registers, message | two bus interrupts, the sampling loop | the master always gets an answer |
| Log reader | `tools/process` | sequences and their blocks, reference counts | `Block::read`, `Sequence::add_block`, `add_broken_block`, `Wavefile::read`, `process_block` | every block is handed on once, in order, with its time; a recording is not refused |
| Host libraries | `tools/libs/error`, `sys`, `string` | the error stack, the list of modules, shared string contents | the Check macros, module registration, string operations | errors are neither lost nor invented; dependencies come first; strings that share contents do not feel it |
| Other host libraries, build files, boards | `tools/libs`, `build`, `eagle` | - | - | - |

### How they interact

- `record_command` gives its two messages to `analog_tick` through the device
  queue and sleeps in `os_sleep_cpu` until the state of one changes. The queue,
  the states and the buffers are shared with an interrupt handler; only the
  insertion runs with interrupts disabled.
- `analog_tick` runs in the timer interrupt and uses the bus by queueing
  `TWIMessage`s; the bus interrupt runs them and changes their state. The main
  thread queues bus messages of its own and polls them.
- `record_command` writes blocks with `fs_file_write`, which goes through the
  one-block buffer to `block_write`, the partition and the card. The meta data
  file goes through the same buffer, so touching one file pushes out the other's
  block. This is what orders the writes.
- Quitting, a crash, the watchdog or `rtc_reset_stack` may stop all this at any
  step. What is in RAM is lost, except when the command merely returns: then the
  tick handler keeps the two messages and goes on filling them.

### What is hard

Interrupts between any two steps of the main thread (device queue, bus queue,
serial ring, sleep); resets between any two writes; a dropped error
(`block.c:49,63`); the command run again while the tick handler still has its
messages; limits (both buffers full, the ring full, the end of the file); cards
that keep silent, refuse or stay busy past a timeout; messages given up by
their caller and carried out later; calendars, wrapping counters and the ends of
years.
`PROJECT.json` lists these as `hazards`, each at its line, with the properties
that watch over it or a note saying why none does yet.

## 2. The modules

| Module | Kind | Models |
|---|---|---|
| `Acquisition` | system | device queue, `analog_tick`, the loop of `record_command`, `os_sleep_cpu` |
| `RecordLog` | system | where a restarted recording goes on, the order of writes, crashes |
| `BlockStore` | abstract | a memory of bytes of which a crash can lose the block written last |
| `BlockCache` | system | `buffer.c` over `block.c` and a partition; implements `BlockStore` |
| `TwiMaster` | system | `twi_queue_message`, `twi_wait_message`, `SIG_2WIRE_SERIAL` |
| `CharacterQueue` | abstract | a bounded queue of characters that remembers an overflow |
| `UartRing` | system | the ring of `usart.c`; implements `CharacterQueue` |
| `FlatFiles` | abstract | files as arrays of bytes, with two open at a time |
| `FatFile` | system | open, seek, read and write of `file_system.c` along a chain of clusters; implements `FlatFiles` |
| `PowerBoard` | system | `PowerDisc`: the two bus interrupts and the main loop, against what the CPU board asks |
| `BlockDevice` | abstract | a device whose successful reads and writes are true, and whose given-up write may still arrive |
| `SdCard` | system | `sdcard.c` against a card; implements `BlockDevice` |
| `Volume` | system | partition table, `fs_init`, directories, handles, and the commands that use them |
| `LogReader` | system | `tools/process` over every file `record.c` can leave |
| `Shell` | system | boot, line editing, splitting and command lookup of the CPU board |
| `TickTimer` | system | both interrupts of timer 2, `os_tick` and `arch_cycles` |
| `AnalogFront` | system | offset search and converter commands over `adc.c`, `dac.c`, `gain.c` |
| `RealTimeClock` | system | the clock's commands, `rtc_read`, `rtc_write`, `rtc_ticks` |
| `HostErrors`, `HostModules`, `HostString` | system | the error stack, module initialization and strings of `tools/libs` |
| `AcquisitionProofs`, `BlockCacheProofs`, `BusesProofs`, `FatFileProofs`, `LogProofs`, `PowerBoardProofs`, `ReaderProofs`, `SdCardProofs` | proofs | see section 5 |
| `MC*` | checking | constants for TLC |

Definitions named `X_Y` after an operator `X`, with a comment that begins
"Wrong:", are mutations of `X`: plausible mistakes, never used by the
specification. Substituting one for `X` makes TLC refute the property named
with it in `PROJECT.json`.

### Acquisition

The variables are the fields of `_analog` and of the two messages (`head`,
`tail`, `next`, `state`, `current`, `index`), what the two buffers hold
(`block`), the two bus messages (`adc`, `aux`), and the main thread (`pc`,
`turn`, `start`). History variables say which buffers were filled and not yet
written, whether a tick stored nothing (`gap`) and whether the main thread was
awake for a whole buffer of ticks on end (`overrun`).

`analog_tick` is five actions by its early returns: `TickIdle` (nothing to
fill), `TickPrime` (lines 39-58), `TickReading` (75-190), `TickSwap` (63-73 and
on to the first reading of the next buffer) and `TickDry` (63-70). Each is one
step, as interrupt handlers do not nest. The main thread takes one step per
access to shared state: `message_queue` is `QueuePrepare` (lines 36-37,
interrupts enabled) and `QueueAppend` (45-60). `SleepCheck` is one step because
`sei` takes effect after the instruction that follows it, the sleep.

A buffer is abstracted to its kind, the pairs of readings stored, what its
header holds and whether a transfer used for the header had failed or was late
(`tainted`). File calls may only fail here; `RecordLog` has them in detail. The
offset search lasts `Settle` ticks: 4 channels, 12 steps, 10 times 20 ms, 960
ticks of 10 ms.

### RecordLog

One data file of blocks, one meta data file holding a position, one dirty block
in RAM. `Put` is `fs_file_write` of a block: it takes the buffer, and the dirty
block it finds there goes to the card first. `MetaTakesBuffer` and `MetaSync`
are the two card writes of lines 299-302 of `record.c`: the first byte of the
position pushes out the data block, the sync writes the position. `Crash` is
possible at every step and keeps only the card.

Time matters here because the position is saved when `start_ticks` is more than
`meta_interval` past the last save, and how many blocks can be written before
the next save bounds what a restart must skip. `age` is `start_ticks -
last_meta_ticks` as of the top of the loop, `hold` the ticks since. `filled` and
`progress` abstract `Acquisition`: complete buffers and ticks spent on the next.
The first `age` is free, as `last_meta_ticks` starts at zero and the clock does
not. Reading and checking the position, and zeroing the buffers, take no time;
`age` restarts with every run of the command.

### BlockCache and BlockStore

`buffer_fill`, `buffer_sync`, `buffer_set_address` and the byte accessors as
they stand; `Physical` adds the start of the partition. `BlockStore` is what the
file system relies on: one memory, of which a crash loses no block but the one
written last, and nothing after a sync. The refinement maps the memory to the
card overlaid with the dirty block. `SetAddress` has the precondition the
callers keep: files are closed, and so synced, before another device is chosen.

### TwiMaster

One action per status the bus reports, and `Finish` for what every end of a
message does. `Prepare` and `Enqueue` split `twi_queue_message` where interrupts
are disabled. The hardware is external: after each operation the handler starts
it may report any status that operation can end in, including a bus error at any
time. `order` and `moved` are history: the messages linked and the bytes moved.

`TimeOut` is the other way out of `twi_wait_message`: the caller returns, and its
message stays linked, in a stack frame that is used again. `Prepare` then clears
`next` of a linked message when the same command is given again, and `Reuse` is any
other call, which leaves something else in that frame. `TickQueue` looks at the state
of the messages in `Checked` first, as `analog_tick` does with `adc_message`;
`aux_message` it queues without a look, though a slow bus may still have it. A step
that writes to a message the bus has sets `overwritten`. What the handler does
after that is as the code does it, along whatever pointers are left, and the
safety properties claim nothing from there on. The run `buses` goes no further
than `overwritten` (the constraint `Intact`): until then messages that were given
up are linked among the others, and everything holds. The run `bus_timeout` goes on from
there and shows what the queue comes to.

### UartRing and CharacterQueue

`uart_read` is three steps (where to look; spin and take; free the slot), the
interrupt one. The refinement maps the ring to the sequence of slots after
`tail`.

### FatFile and FlatFiles

An open file is its position, its current cluster and the offset in it, which
every call must move together. A turn of the loop of `fs_file_read` or
`fs_file_write` is a step, including the turn that moves nothing because the
cluster is used up. `Arrive` is the walk of `fs_file_seek`. In `FlatFiles` a
file is an array and a transfer moves any number of bytes a step, so the
refinement hides chain, cluster and boundary; its fairness says every call ends.
The volume is assumed consistent (`VolumeAssumption`): chains are as long as the
directory says and share no cluster. The end-of-chain tests of lines 396 and 465
then never decide anything, and their difference on FAT32 does not show.

### PowerBoard

One action per state the overflow interrupt can find, joined with what the
master sees at that clock, since both sides move at the end of a byte or of an
acknowledge bit. The main loop is split where the interrupts can see it: each
register, the two parts of `message_queue`, the wait. Two clients use the bus,
`analog_tick` (write at one tick, read at the next, whatever became of the write)
and the shell's commands (read at once after a write that succeeded). `GiveUp`
is a reset of the CPU board or a bus error between any two clocks; a slave that
still holds the data line then is not modelled. Once `main` has returned,
nothing answers. Time enters in one place: a tick of ten milliseconds is longer
than a measurement of two, so `analog_tick` reads a board that is waiting again,
unless somebody else has written in between (`TimeFor`); then nothing is claimed
of what it gets, and a torn value is possible.

### SdCard and BlockDevice

A step of the driver is one command or one turn of a loop that waits for the
card: the initialisation of `sd_init` command by command, the wait for a data
token, the wait while the card is busy. The card is external. It may answer any
command with silence, refuse a block, or take longer over one than the driver
waits (`Program` comes when it likes); while it is busy it hears nothing and
holds its output low, which `sd_command` cannot tell from an answer without
error bits. `Reset` is a reset of the CPU in the middle of a call: the card
keeps its state. `BlockDevice` is what the block layer may rely on: a read that
succeeds returns what was written last, a write that succeeds is on the device,
and one that fails may still arrive, but before anything else is read or
written. The refinement maps its memory to the card's and its pending write to
the block the card is busy with. What makes it true is that a busy card cannot
send the token or the data response that a success needs.

### Volume

Boot reads the partition table from its last entry to its first until a table
is full, and `fs_init` takes the first volume it can. A turn of the loop of
`fs_dir_read` is a step. Commands are `ls`, `cd`, those that open a file, and
`record_config` in `record.c`; each takes a directory handle, perhaps a file
handle, and must give both back on every way out, which is what their cleanup
labels are for. The disks to insert are constants: nothing in the firmware
changes a directory. `DisksOK` says when they are well formed: a disk whose directory
entries lead out of it is not modelled, as the code would read what lies there.

### LogReader

`Wavefile::read` takes blocks one by one; `add_block` and `add_broken_block` are
the two kinds of sequence. The file is made up while it is read (`Follows`):
headers, runs of data blocks of either kind whose times follow on but for a few
ticks, empty blocks (behind a header too, as a reset just after the info block
leaves them), an end or a block of no kind at any place. Blocks of the
early firmware show a wrong hour; some hours cannot be told apart, so the blocks
are held back until one can, and then dated backwards (`Scan`, `Resolve`).
`references` is the block's reference count, and `Released` its decrement.
Times count from the start of the year 2000 in ticks; a day has 24 hours, an
hour is scaled down.

### Shell

A step is a key, a turn of `parse_line`'s loop, or a step of `shell_run`. The
line buffer is never cleared, the words are moved to its front one behind the
other with their quotes and extra blanks taken out, and `argv` points into it.
`CommandAsTyped` compares what `argv` then spells with a definition of the words
of a line (`Starts`, `Word`) that looks at nothing but the keys; a word is counted by
its rank among them (`Ordinal`). A command succeeds, or fails and
leaves entries on the error stack, which is printed and emptied before the next.

### TickTimer

The main thread moves one instruction at a time, because what matters is where
an interrupt falls. The processor's rules are in the model: pending interrupts
are taken between two instructions, the compare interrupt before the overflow
interrupt; handlers do not nest; one instruction runs between two handlers.
Time passes at any point. `late` says an interrupt was held off for a whole
period of its own, after which nothing is claimed. `overtaken` says that in this
call of `arch_cycles` the compare interrupt was served while an overflow was
pending, so that the overflow interrupt could be held off until after the turn's
test: then the result may be one wrap of the counter short. `CyclesInCall` excepts that
case, see section 4.

### AnalogFront

A step is one bus message of a command. It is carried out, or refused, or the
bus hangs and `twi_wait_message` gives up after its 50 ticks; the command then
ends, and its message is still queued, on a stack frame that is gone. When the
bus comes back it is carried out with whatever its memory holds (`Late`). The
search is `analog_offset_search`, a binary search over the bits of the DAC,
with the channel's amplifier as a threshold. `spoilt` marks a search a late
message disturbed, `loose` the channels whose DAC somebody else wrote last.
`Pack` and `Unpack` are the two halves of the sample format, compared over edge
values by an assumption of `MCBlockCache`.

### RealTimeClock

Two commands read the clock's registers, change one half, and write all of them
back; the chip may tick in between, a read may fail, and a write may reach the
chip in part. `due` is the time the chip should show, from what was typed and
has passed since, and is `Unknown` after a date that is none. `rtc_ticks` must
count with it through every month and leap year. A month of zero is accepted by
the command and used as an index by `rtc_ticks`; it is not among the inputs.

### HostErrors, HostModules, HostString

`HostErrors`: the program is any tree of calls, each through one of the macros
of `error_stack.h`. A macro records an error and returns, jumps to a label,
exits, or (`IgnoreError`) takes the stack back to the height it had. `kept` is
what the stack should hold. A print or clear inside an `IgnoreError` is followed
by a destructor that raises the stack to its old height and brings cleared
elements back; `revived` marks that, and nothing is claimed from there until
the next clear.

`HostModules`: any table of dependencies and any order of registration. Each
registration runs `initialize_modules` over all modules not yet initialized,
newest first; the recursion is the sequence `calls`. `DependenciesFirst` says what
holds of every order; `OnlyCyclesFail` what the comment says and does not hold.

`HostString`: contents on a heap, their reference counts, and variables that
name them. Every operation makes new contents and assigns a temporary.
`meaning` is the text each variable should have by its own operations, which for
`replace`, `insert` and `erase` is what `string.h` says of them (`Replaced`). A
replace whose suffix would have to move does not do that (`InPlace`), nor does one
behind the end of a String; `displaced` has the variables whose text comes from
one, and `StringsKeepTheirText` claims no text of those, only that their contents
are counted. See section 4. The static `String::empty` counts among the references of the empty contents only
if the linker placed its construction after theirs, so both cases are initial.

## 3. The runs

Components that share no state are checked in one run with behaviours of their
own: the initial state chooses which one moves (`running`), and the others stay
where they begin. Nothing is gained or lost by that but the time of a start.

| Run | Components | Bounds | Shows |
|---|---|---|---|
| `acquisition` | `Acquisition` | 4 readings a block, 2 sessions, `Settle` 10 | no buffer is shared, lost, repeated or swapped; no lost wakeup; a gap only after an overrun; headers fresh; messages are handled |
| | `PowerBoard` | messages of 2 bytes, 3 registers, 2 transfers given up | both sides agree on messages; a fresh whole measurement; the board is ready again unless a message is cut short |
| `acquisition_info` | `Acquisition` | the same | refutes `InfoIntact` |
| `acquisition_requeue` | `Acquisition` | `Settle` 0 | refutes `QueueWellFormed` |
| `recordlog` | `RecordLog` | 12 blocks, skip 5, interval 4, 2 ticks a block | nothing overwritten; the position never ahead; a prefix survives; one block lost |
| | `Volume` | 3 disks, 2 handles of each kind | handles come back; `ls`, `cd` and the rest see one directory |
| | `LogReader` | 13 blocks, 6 starting hours, a tick off schedule | every block once, in order, with its time; held only as long as needed; recordings are read |
| | `HostErrors` | a stack of 2, 4 calls deep, 3 errors | errors neither lost nor invented |
| | `HostModules` | 3 modules, every table of up to 2 dependencies each, 2 failures | dependencies first, once, as soon as may be |
| | `HostString` | 2 variables, texts of up to 2, replaced up to one behind the end, one displaced at a time | every variable keeps its text |
| `recordlog_faults` | `RecordLog` | one failed write | refutes `NoOverwrite` |
| `recordlog_switch` | `RecordLog` | the same | refutes `RecordsOnlyAfterSwitch` |
| `log_leap` | `LogReader` | the New Year before a leap year | refutes `GoodLogIsRead` |
| `module_cycle` | `HostModules` | a chain of three | refutes `OnlyCyclesFail` |
| `bus_timeout` | `TwiMaster` | those of `buses`, one shape a message | refutes `AlwaysRunning` |
| `blockcache` | `BlockCache` | 3 sectors of 2 bytes, a partition | implements `BlockStore` |
| | `Shell` | lines of 4 characters, 2 arguments, 6 keys | commands get what was typed |
| | `TickTimer` | a counter of 8, ticks of 3, 18 counts | cycles and ticks keep time |
| | `AnalogFront` | 2 channels, 2 bits, 2 commands, one hang | a search that ends has centred its channel |
| `buses` | `TwiMaster` | 3 messages of up to 2 bytes a phase, until one the bus has is written to | queue, engine state and bounds agree; completion; service |
| | `SdCard` | 4 kinds of card, 3 blocks, timeouts of 1 and 2 turns | implements `BlockDevice`; calls return |
| | `RealTimeClock` | 6 ends of months and years, 2 commands, 2 ticks | the chip and `rtc_ticks` agree with the calendar |
| | `UartRing` | 4 slots, 2 characters | implements `CharacterQueue`; reads return |
| `fatfile` | `FatFile` | clusters of 2 bytes, files of 5 and 1, calls of up to 2 bytes, offsets -3 to 4 | cluster and position in step; implements `FlatFiles` |

Why the bounds are enough. Four readings are the fewest at which every case of
the switch in `analog_tick` runs, and the block length enters the handler only
through one comparison. `Settle` 10 is the least value that outlasts two buffers
of four readings (2 * 4 + 2), which the real 960 does for two of 200 (402); two
sessions are needed for the second to meet what the first left. In `RecordLog`
`Skip` is the least that `SkipAssumption` allows, so the margin is tight, and
`PositionLimit` allows two restarts and a run into the end of the file.
The disks of `Volume` have a volume of each kind, more FAT partitions than there
is room for, none at all, and a name that occurs twice, deleted and as a label;
with two handles of each kind, one kept by mistake shows at the second command.
Thirteen blocks of four ticks cross ten hours of five, so a recording begun in
any hour whose reading is ambiguous reaches one whose reading is not, and
crosses midnight; the starting hours lie around the ambiguous ones. Two elements
of the error stack are full at the second error, four calls nest `IgnoreError`
in itself. Three modules make a chain, a fork and every cycle. Two variables
share contents, a third counts for the temporary. Behaviours are not followed past
a state in which both variables are displaced and do not share contents
(`OneDisplaced`): no text is left to claim there, and the counts do not depend on texts.

Three sectors let a block, its neighbour and a block of the partition differ. Four
characters hold two words, a quoted blank and a trailing blank, and a line that
is full. A tick of three counts and a counter of eight meet at every phase. Two bits
of the DAC have a first and a last step of the search.

Three messages give a queue with a head, a middle and a tail, and two bytes a
phase tell the first byte from the last. `Intact` cuts a behaviour where all the
properties of `TwiMaster` have ended. Timeouts of one and two turns let a card answer
at once, in the last turn and too late; of three blocks one is addressed, one was
given up and one lies between. Five bytes in clusters of two have an inner
cluster, seeks over two links and a last cluster half full; two bytes a call
start, cross and end at every boundary. Two bytes a message of the power board
have a first and a last; the third register shows an index that was not reset;
one transfer given up stops the board, the second comes to a board that went on.
Four slots give a full, an empty and a wrapped ring.

Deadlock is checked for `buses` and `fatfile`. In `buses` the clock's behaviours
may come to rest when nobody types (`Rests`). The other runs stop where their
bounds on sessions, positions, commands and errors are reached or where the
program ends, as `LogReader` does.

### Fairness

- `Acquisition`: weak fairness of `Tick` (the timer is started at boot and never
  stopped) and of `MainStep` (the one thread of the CPU runs whenever it is not
  asleep, since every interrupt handler ends). Nothing is assumed of the bus, the
  operator or the file calls' success.
- `TwiMaster`: weak fairness of `Interrupt` (the bus hardware reports the end of
  every operation) and of `Enqueue` (the main thread goes on). A bus that hangs
  for ever is excluded; one that takes as long as it likes over an operation is
  not, and its messages time out meanwhile. That the main thread waits to the end, or
  gives up, is not assumed.
- `SdCard`: weak fairness of `Step`, the driver's own loops. Nothing is assumed of
  the card: it need never answer nor become ready.
- `UartRing`: weak fairness of `Take` and `Return`, the steps of a running
  thread. That characters come is not assumed.
- `PowerBoard`: weak fairness of `MainStep` and `Overflow` (the processor and the
  bus clock run) and strong fairness of `Start("tick")`: a recording is being
  made, and the bus queue is first come first served, so the shell cannot keep
  `analog_tick` from its turn for ever.
- `FatFile`: weak fairness of `Transfer` and `Return`: a call that has begun runs
  to its end. That calls are made is not assumed.

## 4. Disagreements found

- `InfoIntact` (`record.c:242`). After a quit the tick handler still has both
  messages. When the command is given again in the same boot, it fills `data[0]`
  with readings while the offset search is running, and the block written as the
  info block is a mixture. `record.c:172` relies on the info block.
- `QueueWellFormed` with `Settle` 0 (`device.c:36`). The sample and average
  commands queue static messages at once. After an interrupted run the message
  may still be linked, and clearing its `next` with interrupts enabled cuts the
  list or ties it to itself. The comment at `device.c:40` asks for an atomic
  operation.
- `NoOverwrite` with one failed write (`block.c:63`). The result of the device's
  write is dropped, so a position that is not on the card counts as saved, and
  the promise of `record.c:159-163` is broken.
- `RecordsOnlyAfterSwitch` (`record.c:175`). A key pressed at the switch still
  saves position 0, and the next start finds it valid.
- `GoodLogIsRead` across New Year into a leap year (`block.cpp:95`). The reader
  counts the leap day from January 1, so the first block of the leap year is
  dated a day after the last of the year before, and the recording is refused.
  `DeliveredTrue` is therefore checked for years without a leap day.
- `OnlyCyclesFail` (`module.cpp:101`). A module that was put off for want of
  another stays in the state "initializing", and one that depends on it is
  refused as part of a cycle, for good.
- `AlwaysRunning` (`master.c:118`). When `twi_wait_message` gives up, its message
  stays linked, on the stack of a call that returns. The same command given again
  has the same frame, and `twi_queue_message` clears `next` of a message that is
  linked: what `analog_tick` has queued behind it is cut off. `adc_message` then stays
  pending for ever, and as `analog_disc.c:117` queues it only when it is
  not, no reading is taken until the next reset. The comments at `master.c:79-80` and
  `128-129` ask for a queue that changes in atomic steps and say that the state
  machine is always running. The run takes `aux_message` to be queued only when it is
  done, so that what it shows is the timeout's doing alone.

Smaller ones, without a run:

- An `IgnoreError` around a call that clears the error stack brings the cleared
  errors back (`error_stack.cpp:175`).
- `String::replace` takes the characters behind the gap from `position + addition`
  instead of `position + count` (`string.cpp:157`), so an insertion or erasure in the
  middle of a string gives a wrong text, where `string.h:127-129` and `158-166` say
  that the characters behind it are moved to fill the gap. `StringsKeepTheirText`
  leaves such texts out (`displaced`): it shows nothing of them, and nothing of what is
  made of them.
- The comment at `tick_timer.c:99-101` says the loop of `arch_cycles` prevents the
  race with the overflow interrupt. It does not when the compare interrupt, which has
  priority, holds an overflow off until the test: the result is then 256 counts short.
  `CyclesInCall` names that one case (`overtaken`) and excludes every other.
- `record.c:252` calls the interval of 10000 ticks 100 sample blocks; it is 50
  blocks of 200 ticks.

## 5. Proofs

TLAPS checks these for every value of the constants that satisfies the named
assumptions.

`LogProofs`, the recording, assuming `Faults = 0`: `TypeOK`, `NoOverwrite`,
`NextStartIsClear`, `MetaBehindData`, `PrefixOnDisk`, `CrashLosesOneBlock`. None
of them is inductive. The invariant adds where the position stands with respect
to the last one saved: while blocks are being written, the position is at most
`meta` plus the blocks that fit in the ticks since the save. That count is
bounded through a lag, the ticks between the save and the oldest block not yet
written, which the loop keeps below the interval plus three blocks;
`SkipAssumption` (`Skip >= Interval \div BlockTicks + 3`) is exactly what turns
this into `position <= meta + Skip`. The code has 100 >= 53. One lemma per action
shows that the invariant is kept.

`BlockCacheProofs`: `CopyIsTrue` with `TypeOK` is inductive as it stands, and
under it every action of `BlockCache` is an action of `BlockStore` or leaves its
variables alone.

`AcquisitionProofs`, assuming `SettleIsLong` (`Settle >= 2 * ReadCount + 2`):
`TypeOK`, `QueueWellFormed`, `Ownership`, `NoSleepOnCompleted`. The invariant
adds that the state of a message agrees with its place, that a message about to
be appended points nowhere, and that the ticks the handler needs to get rid of
what an earlier run left (`Drain`) never exceed what is left of the offset
search. Without the last part the second run of the command breaks the queue,
which is what `acquisition_requeue` shows.

On the same invariant stand `WrittenInOrder` and `LostOnlyOnOverrun`. They need
the line the two blocks stand in (`InLine`): while a recording is being made, the
block whose turn it is and the other one are each in one of three places, full,
being filled or queued, and the first is never behind the second. `Filled` says
how far a block in each place is, `Late` that the handler is left with one buffer
only as long as the main thread has been awake, counted in ticks: that is what
makes the loss of a reading the main thread's fault. `HeaderFresh` is proved from
an invariant of its own (`HInv`), which assumes nothing of `Settle` or the queue:
`index` tells which request was made last, so a transfer that has succeeded
left what the next copy is to find.

`BusesProofs`, the two wire bus: `BusInOrder`, which has the type invariant as its first
conjunct, and the action property `DoneMeansDone`. The invariant adds that the
main thread has one message at a time, that a pending message has a byte to
move, and which byte the engine is at in each state of the bus. The lemmas about
the linked list are stated for `Link` and `Finish`, the two that change it. All of it
is kept as long as nobody has written to a message that the bus has (`Kept`), and
once somebody has, that stays so (`StaysWritten`); messages that were given up and
are still linked are no exception.

`BusesProofs`, the serial port, assuming `ConstantsOK` (two slots at least, a character that is
not `None`): the refinement of `CharacterQueue`, with the stability of the slot
being read. The work is in the arithmetic: what `& 0x0f` does to a difference of
two slots. The sequence the ring maps to grows at its end when the interrupt
stores and loses its head when `uart_read` frees a slot.

`BusesProofs`, the clock: `ClockAgrees`, assuming `ConstantsOK` of `RealTimeClock` (at most
a hundred ticks a second, which is what two digits hold; the chip starts at a time of
its calendar; three numbers are typed). The invariant (`ClockInv`) says that every
register stays in its range even where a message cut short leaves no date of the
calendar, and that a command about to write has in `rtc` what it was shown. That
the ticks of the year go on by one is arithmetic: the fields up to some k are at
their end (`SomeCarry`) and the k-th goes on (`LaterIs`), and `days_month` adds up over
the twelve months of both kinds of year (`MonthsAdd`, `TicksCount`).

`SdCardProofs`, assuming `ConstantsOK` (what the constants are): the refinement
of `BlockDevice`. The invariant says that each step of a call is in a call of its
kind, that the driver counts in the card's unit from the moment it asks for the
capacity (a card that was busy and held its output low does not get it that far),
and that the card never transfers a block, or has one to write, that is not the
call's. One lemma per command says what the card can answer.

`PowerBoardProofs`, assuming `ConstantsOK` (the registers hold a message of a byte at least): `MessageHeld`, which includes the types, `WriteAgrees` and
`HeaderIsFresh`. The invariant adds where a transfer is in each state the next
overflow will find, and `FreshInStep`: from the moment the board has taken the
message of `analog_tick`, its main loop passes through measuring, copying and
queueing with the registers filled up to where the copy is, and it is ready again
before a read of `analog_tick` begins. So a read never meets a copy.

`BlockCacheProofs`, the tick timer, assuming `ConstantsOK` (a tick is shorter than a turn of the
counter, which the preprocessor conditions at `tick_timer.c:22-45` see to):
`TicksKeepTime` and `CyclesInCall`. The compare register is
`(n + 1) * ARCH_TIMER_COUNT` modulo the counter, where n ticks have been handled,
and the time lies within one tick of where that says; times less than a turn
apart are told apart by the counter (`SameRest`). For `arch_cycles` the invariant
says which moment of the call the bytes read so far belong to, and that an
overflow can only go unseen (`Unseen`) when the compare interrupt overtook it.

`LogProofs`, the modules of the host: `DependenciesFirst`, without an assumption, for
every table of dependencies. The recursion is in the sequence `calls`, and the
invariant is about it: each open call waits for the next (`Chain`), no module has
two, all that a call has passed have been tried, and among the modules that
registered after what they depend on the calls go strictly down the list
(`Descends`). The last is why such a module is never refused for a cycle or a
missing module (`StuckIsNotSettled`), and so why it has been tried by the time
the registration is over.

`LogProofs`, the handles: `HandlesComeBack`, assuming `ConstantsOK` of `Volume` (a
directory handle, two file handles; the code has two of each), for every card.
The invariant says whose handles are open at each point of a command; that
`record` reads its configuration to the end before it opens the data files is
what makes two enough.

`LogProofs`, the error stack: `ErrorsAreKept`, assuming a `Length` in `Nat`. Each
Top parts what is kept into the elements older than itself, below its bottom, and
the others (`TopsPart`); the Tops nest, those from before a clear below those from
after it (`TopsNest`).

`ReaderProofs`, the strings of the host: `StringsKeepTheirText`, which excepts the texts
a replace has displaced, assuming `ConstantsOK` of
`HostString` (finitely many variables, and a heap with room for contents for each
and one more: `new` does not fail), for texts of any length and Strings made from
any text (`AnyTexts`). The counts make it inductive: `Fresh` finds contents nobody
names (`FreshIsFree`, an injection from the heap to the variables otherwise), and
every operation comes down to one variable that names other contents
(`MoveKeeps`), the temporary of a result included, which is counted and given back
within the step (`TemporaryKeeps`). On the way it is proved that `substring` returns
the part asked for and that `replace` keeps its promise where `InPlace` says
(`SubstringIsPart`, `ReplaceKeepsPromise`).

`ReaderProofs`: `HeldUntilTold`, without an assumption: what a block waits
for is its sequence, whatever the hours are called. The invariant (`ReaderInv`) adds
that the data blocks of the sequence at hand are of one kind, the last one read
included (`Scanned`): so no block of the current firmware, which is handed on at once,
stands beside one held back. While the sequence scans, the blocks it keeps are those
of the early firmware in it, none of them handed on; once it does not, all have been.
The steps come down to two: a block that is none of a sequence is let go
(`SkipKeeps`), or one joins its sequence and some are handed on (`JoinKeeps`).

On top of it, `DeliveredTrue` and `GoodLogIsRead`. `TimesInv` says what the reader
knows of the calendar: the blocks of a sequence follow one another, the times
`Repaired` works out backwards for those held back are the times they were made at, and
so are those already handed on. That is an induction over the blocks held back, from
the last to the first: the time one block before the next is a guess that is off by a
slip, and the least correction of it that agrees with the block on the minute of
the hour (`broken_ticks_difference`) is that slip. It is
proved for every recording with no block in a leap year (`OrdinaryYearsAreTold`),
and `SpanInv` shows that a recording has none when `ClearOfLeapYears` holds: it
begins a year or more ahead of one and is over within a year (`ClearRecordingsAreTold`).
The second half is what a data file gives: a block of 512 bytes takes 200 ticks, so a
year takes some eight gigabytes, twice what the 32 bits of a file's length can say. The first is
an assumption the code needs, for at the New Year of a leap year the
property fails, as `log_leap` shows. `MCLog` evaluates both for its constants.

`LogProofs`, the directories: `DirectoriesAgree`, for any cards that satisfy
`DisksOK`: a directory is as long as its first cluster, a cluster named by a
directory entry holds a directory, and there is a sector where a partition begins; a
volume that cannot be mounted need satisfy nothing. The invariant follows the walk of
`fs_dir_read` (`DirectoriesInv`): what has been found is what is visible of the
entries passed, counted by their rank, and nothing passed is visible and missing. The
partitions boot keeps, taken from the last entry of the table down until there are
enough, need an induction over the table.

`FatFileProofs`, assuming `VolumeAssumption`, for any chains and sizes of cluster:
`InStep`, and that every step of an open file is a step of `FlatFiles` or changes
none of its variables. The invariant (`FatInv`) adds what a call in progress keeps of
its arguments (`Calls`). An open file is either where its position says (`Settled`) or
at the far end of the cluster before (`UsedUp`), and the proof is about what each turn
of a loop makes of that. A chain followed by k links and then by n is followed by k + n
(`FollowOn`), which is what seeking on from the current cluster relies on; places
inside a cluster move along with the position (`Along`). That no other byte of a file
changes by a write takes the other half of `VolumeAssumption`: a cluster holds one
stretch of one file.

`BlockCacheProofs`, the shell, assuming `ConstantsOK` of `Shell`: `CommandAsTyped`, for lines of
any length and any number of arguments. A character is written at its rank among
those that are written (`Written`, the first blank after a word included), so a place
that has been written is behind the place that is read; what `parse_line` has
written of the characters passed (`Moved`) and the words that began in them (`Listed`)
are as much of the invariant as what it has still to read (`Parsing`). The quotes passed
tell whether a blank ends a word (`QuotedNext`, `SkippedAre`). That the string read out of the line is the
word typed is then a matter of ranks (`WordIsRead`).

`BlockCacheProofs`, the analog front end: `OffsetsHold`, assuming `ConstantsOK` of
`AnalogFront` (channels of the four there are, a DAC of one bit at least, and that a
power of two more is twice as much, arithmetic the provers do not have and TLC
evaluates for the exponents in use). The invariant says what a search has narrowed the offset to: the range
left is as wide as the bits still to try can tell apart, and the centre is in it
(`Narrows`); a channel under search is loose (`Loosened`), and every other DAC holds
what is kept for it (`DacsHold`).

A component that a run INSTANCEs beside another moves or stands still there, so
every behaviour of the run's specification is one of the component's.
`AcquisitionProofs`, `BusesProofs`, `BlockCacheProofs`, `LogProofs` and `ReaderProofs` extend
`MCCapture`, `MCBuses`, `MCBlockCache` and `MCLog` and carry the theorems over to the properties the runs check:
`RunHoldsMessages`, `RunAgreesOnWrites`, `RunReadsFreshHeaders`, `RunIsAQueue`, `RunIsADevice`, `RunKeepsTime`, `RunReadsCycles`, `RunKeepsOffsets`,
`RunSplitsLines`, `RunKeepsTheClock`, `RunInitializesInOrder`, `RunGivesHandlesBack`, `RunReadsDirectories`,
`RunKeepsErrors`, `RunKeepsTexts`, `RunHoldsBlocks`, `RunDeliversTrue` and `RunReadsGoodLogs`.

Every property was checked by TLC before it was proved. A proof module
without a stated assumption has none but the `ASSUME`s of its component, which the
runs evaluate; `MCCapture`, `MCBuses`, `MCBlockCache` and `MCLog` evaluate `ConstantsOK` of the
components they instantiate. `SettleIsLong` is no `ASSUME`, since
`acquisition_requeue` shows what comes without it: the code has 960 >= 402.

The type invariants of the first three are proved and no longer part of a run;
the types of `TwiMaster`, `PowerBoard` and `FatFile` are conjuncts of
`BusInOrder`, `MessageHeld` and `InStep`.

Where a result is about data of any length (a chain, a table, a sequence of blocks, a
line), the proof is by the least number for which it would fail: a set of natural numbers that is
not empty has a least element, by the library's well-foundedness of `<`. A recursive
function is then the one function that satisfies its equation, which is shown to exist first.
What is read so is stated without the operators that have no definition to reason
from (selection and folding of sequences): by recursive functions, and by the rank of an
element, the number of those up to it.

Every safety invariant the runs check is proved. Model-checked only:

- The liveness properties `Handled`, `Served`, `ReadReturns`, `CallReturns` and
  `ReadyAgain`, and the fairness in `ImplementsFiles`: liveness needs `ENABLED`, which the prover does
  not have. The safety part of `ImplementsFiles` is `FilesAreFlat`.
- `parse_number` of the shell, which `MCBlockCache` compares with a reference for every
  string in `Strings` by an `ASSUME`: it is a fold.

## 6. What is left out, and why

- A reading the ADC did not deliver in time is stored as zeros or repeated;
  `Acquisition` counts it as stored, since `analog_tick` does not wait for it.
- What becomes of the queue of the two wire bus once a linked message was written to is
  modelled as far as the pointers and states go; that the dead frame also holds the
  counts, the address and the buffer of the message, which another call may change under the
  handler, is not. Nothing is claimed there. `Acquisition` takes each of its bus
  transfers to end, in time or late, and `AnalogFront` has one message that is carried out late.
- A write of the clock that timed out may reach the chip after the next command;
  `RealTimeClock` has a write that is cut short, and not one that comes late.
- A read of the power board's registers while they are copied may be torn, by the shell's
  commands; by `analog_tick` it cannot be, for the ten milliseconds between its write and its
  read (`TimeFor`), which is a fact of time that `PowerBoard` assumes.
- `os_ticks` reads four bytes that the tick interrupt may increment in between. A
  torn value ends a wait early or saves a position early; both are outcomes the
  models allow anyway, and nothing in the code promises more.
- `BlockCache` takes reads of the card to succeed; `SdCard` has those that fail.
  The two are not composed yet.
- `LogReader` leaves out samples, output files and options; `SdCard` the registers
  that are only displayed; `HostModules` the shutdown at exit; `HostString` search,
  comparison and formatting.
- Deep sleep modes, hardware registers, SPI, LEDs, EEPROM, the trace of the two
  wire bus, board and build files, and of the host libraries logging, command
  line, arrays and files carry no state these properties depend on.

## 7. What could be added

1. `SdCard` composed with `BlockCache`: failed reads under the buffer.
2. `FatFile`: a volume whose chain ends before the length.
3. The host libraries' command line and logging.
