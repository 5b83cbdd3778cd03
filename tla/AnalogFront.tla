---------------------------- MODULE AnalogFront ----------------------------
(***************************************************************************)
(* The shell's commands for the analog front end (analog_disc/commands.c)  *)
(* and record's search for the offsets, over the drivers of the            *)
(* converters and the gain (adc.c, dac.c, gain.c).  Every driver puts a    *)
(* message on its stack, queues it and waits at most 50 ticks for it.      *)
(*                                                                         *)
(* A step is one message: it is carried out, or a chip refuses it, or the  *)
(* bus hangs and the driver gives up.  Then the message is still queued,   *)
(* and when the bus comes back it is carried out with what its memory      *)
(* holds by then.                                                          *)
(***************************************************************************)
EXTENDS Integers, FiniteSets

CONSTANTS
    Channel,            \* channels in use, a subset of 0 .. 3
    Bits,               \* bits of the DAC, 12 in the hardware
    Level,              \* values the dac and gain commands are given
    MaxCommands,        \* bound: commands in a behaviour
    MaxHangs            \* bound: times the bus hangs

DacRange == 2 ^ Bits

\* The last conjunct is arithmetic: a power of two more is twice as much.
ConstantsOK ==
    /\ Channel \subseteq 0 .. 3 /\ Channel # {} /\ Level \subseteq Nat /\ Bits \in Nat \ {0}
    /\ 2 ^ 0 = 1 /\ \A n \in 0 .. Bits : 2 ^ n \in Nat \ {0} /\ (n < Bits => 2 ^ (n + 1) = 2 * 2 ^ n)

VARIABLES
    output,             \* DAC outputs
    gain,               \* the two gain chips
    response,           \* of each input: the DAC value from which it reads below the middle
    _dac_offset,        \* commands.c: the offsets search found, moved by up and down
    offset,             \* record.c: info->offset
    command,            \* the command that runs
    channel,            \* its loop over the channels
    search,             \* analog_offset_search: its loop, and whether a late message disturbed it
    late,               \* messages given up and still queued
    commands,
    hangs,
    loose               \* history: channels last written by something else, or not for sure

chips == <<output, gain, response>>
memory == <<_dac_offset, offset>>
running == <<command, channel, search>>
vars == <<chips, memory, running, late, commands, hangs, loose>>

\* adc.c and dac.c: the converter's input, and the DAC, of a channel of the board.
adc_table == [c \in 0 .. 3 |-> <<1, 3, 2, 0>>[c + 1]]
dac_table == [c \in 0 .. 3 |-> c]

\* The board: the DAC that moves each input of the converter.
Moves == [input \in 0 .. 3 |-> <<3, 0, 2, 1>>[input + 1]]

First == CHOOSE c \in Channel : \A d \in Channel : c <= d
Following(c) == {d \in Channel : d > c}

NoSearch == [bit |-> 0, low |-> 0, high |-> DacRange, set |-> FALSE, spoilt |-> FALSE]

Init ==
    /\ output = [d \in 0 .. 3 |-> 0] /\ gain = [i \in 0 .. 1 |-> 0]
    /\ response \in [{adc_table[c] : c \in Channel} -> 0 .. DacRange]
    /\ _dac_offset = [c \in Channel |-> 0] /\ offset = [c \in Channel |-> 0]
    /\ command = "none" /\ channel = First /\ search = NoSearch
    /\ late = 0 /\ commands = 0 /\ hangs = 0 /\ loose = {}

-----------------------------------------------------------------------------
(* A message.                                                              *)

Done == command' = "none" /\ channel' = First /\ search' = NoSearch

\* The command goes on to the next channel, or is done after the last.
NextChannel ==
    IF Following(channel) = {} THEN Done
    ELSE /\ channel' = CHOOSE c \in Following(channel) : \A d \in Following(channel) : c <= d
         /\ search' = NoSearch
         /\ UNCHANGED command

\* twi_wait_message fails: the command ends at once.  A message it gave up on stays in the queue.
Fails ==
    /\ Done
    /\ \/ UNCHANGED <<late, hangs>>
       \/ hangs < MaxHangs /\ hangs' = hangs + 1 /\ late' = late + 1
    /\ UNCHANGED <<chips, memory, commands>>

\* A message given up before is carried out, from memory that holds something else by now.
Late ==
    /\ late > 0
    /\ late' = late - 1
    /\ \/ \E c \in Channel, value \in 0 .. DacRange - 1 :
             /\ output' = [output EXCEPT ![dac_table[c]] = value]
             /\ loose' = loose \cup {c}
             /\ UNCHANGED gain
       \/ \E i \in 0 .. 1, value \in Level :
             /\ gain' = [gain EXCEPT ![i] = value]
             /\ UNCHANGED <<output, loose>>
       \/ UNCHANGED <<output, gain, loose>>
    /\ search' = [search EXCEPT !.spoilt = TRUE]
    /\ UNCHANGED <<response, memory, command, channel, commands, hangs>>

\* dac_write: the low bits of the value.
dac_write(c, value) == output' = [output EXCEPT ![dac_table[c]] = value % DacRange]

\* What adc_read gives, as far as offset_search looks: whether the input is at least in the middle.
adc_read(c) == output[Moves[adc_table[c]]] < response[adc_table[c]]

Begin(name) ==
    /\ command = "none" /\ commands < MaxCommands
    /\ command' = name
    /\ commands' = commands + 1
    /\ channel' = First /\ search' = NoSearch

-----------------------------------------------------------------------------
(* The commands of one message, or of the same for each channel.           *)

DacStart == Begin("dac") /\ UNCHANGED <<chips, memory, late, hangs, loose>>

\* dac with a channel and a value, or with a value for all of them, in one message either way.
DacCommand ==
    /\ command = "dac"
    /\ \E set \in {{c} : c \in Channel} \cup {Channel} :
          /\ loose' = loose \cup set
          /\ \/ /\ \E value \in Level :
                      output' = [d \in 0 .. 3 |-> IF \E c \in set : d = dac_table[c]
                                                  THEN value % DacRange ELSE output[d]]
                /\ Done
                /\ UNCHANGED <<gain, response, memory, late, commands, hangs>>
             \/ Fails

GainStart == Begin("gain") /\ UNCHANGED <<chips, memory, late, hangs, loose>>

\* gain_write_all: one chip, then the other.
GainCommand ==
    /\ command = "gain"
    /\ UNCHANGED loose
    /\ \/ \E value \in Level :
             /\ gain' = [gain EXCEPT ![0] = value]
             /\ command' = "gain2"
             /\ UNCHANGED <<output, response, memory, channel, search, late, commands, hangs>>
       \/ Fails

GainSecond ==
    /\ command = "gain2"
    /\ UNCHANGED loose
    /\ \/ /\ gain' = [gain EXCEPT ![1] = gain[0]] /\ Done
          /\ UNCHANGED <<output, response, memory, late, commands, hangs>>
       \/ Fails

UpStart ==
    /\ Begin("up") \/ Begin("down")
    /\ UNCHANGED <<chips, memory, late, hangs, loose>>

\* up and down: the offset is moved, a uint16 that wraps, and then written.
Moved == IF command = "up" THEN _dac_offset[channel] + 1 ELSE _dac_offset[channel] - 1

UpCommand ==
    /\ command \in {"up", "down"}
    /\ _dac_offset' = [_dac_offset EXCEPT ![channel] = Moved % (16 * DacRange)]
    /\ \/ /\ dac_write(channel, _dac_offset'[channel])
          /\ loose' = loose \ {channel}
          /\ NextChannel
          /\ UNCHANGED <<gain, response, offset, late, commands, hangs>>
       \/ /\ Done /\ loose' = loose \cup {channel}
          /\ \/ UNCHANGED <<late, hangs>>
             \/ hangs < MaxHangs /\ hangs' = hangs + 1 /\ late' = late + 1
          /\ UNCHANGED <<chips, offset, commands>>

-----------------------------------------------------------------------------
(* analog_offset_search, for the search command and for record.            *)

SearchStart ==
    /\ Begin("search") \/ Begin("record")
    /\ UNCHANGED <<chips, memory, late, hangs, loose>>

\* Wrong: the last bit is not searched.
Searched_Short == search.bit = Bits - 1

\* Whether the search has halved the range down to one value.
Searched == search.bit = Bits

Middle == (search.high + search.low) \div 2

SetMiddle ==
    /\ command \in {"search", "record"} /\ ~ Searched /\ ~ search.set
    /\ loose' = loose \cup {channel}
    /\ \/ /\ dac_write(channel, Middle)
          /\ search' = [search EXCEPT !.set = TRUE]
          /\ UNCHANGED <<gain, response, memory, command, channel, late, commands, hangs>>
       \/ Fails

Halve ==
    /\ command \in {"search", "record"} /\ ~ Searched /\ search.set
    /\ UNCHANGED loose
    /\ \/ /\ search' = [bit |-> search.bit + 1, set |-> FALSE, spoilt |-> search.spoilt,
                        low |-> IF adc_read(channel) THEN Middle ELSE search.low,
                        high |-> IF adc_read(channel) THEN search.high ELSE Middle]
          /\ UNCHANGED <<chips, memory, command, channel, late, commands, hangs>>
       \/ Fails

\* search_command keeps the offset before it is written to the DAC, offset_search of record after.
SearchDone ==
    /\ command = "search" /\ Searched
    /\ _dac_offset' = [_dac_offset EXCEPT ![channel] = search.low]
    /\ \/ /\ dac_write(channel, search.low) /\ NextChannel
          /\ loose' = loose \ {channel}
          /\ UNCHANGED <<gain, response, offset, late, commands, hangs>>
       \/ /\ Done
          /\ \/ UNCHANGED <<late, hangs>>
             \/ hangs < MaxHangs /\ hangs' = hangs + 1 /\ late' = late + 1
          /\ UNCHANGED <<chips, offset, commands, loose>>

OffsetSearched ==
    /\ command = "record" /\ Searched
    /\ UNCHANGED loose
    /\ \/ /\ dac_write(channel, search.low) /\ NextChannel
          /\ offset' = [offset EXCEPT ![channel] = search.low]
          /\ UNCHANGED <<gain, response, _dac_offset, late, commands, hangs>>
       \/ Fails

Next ==
    \/ Late
    \/ DacStart \/ DacCommand \/ GainStart \/ GainCommand \/ GainSecond
    \/ UpStart \/ UpCommand
    \/ SearchStart \/ SetMiddle \/ Halve \/ SearchDone \/ OffsetSearched

Spec == Init /\ [][Next]_vars

-----------------------------------------------------------------------------
(* A sample of four channels in five bytes: analog_tick packs it, sample   *)
(* and average and the host's reader take it apart.                        *)

Pack(value) ==
    << (value[1] \div 256) * 64 + (value[2] \div 256) * 16 + (value[3] \div 256) * 4 + value[4] \div 256,
       value[1] % 256, value[2] % 256, value[3] % 256, value[4] % 256 >>

Unpack(data) ==
    << (data[1] \div 64) * 256 + data[2], ((data[1] \div 16) % 4) * 256 + data[3],
       ((data[1] \div 4) % 4) * 256 + data[4], (data[1] % 4) * 256 + data[5] >>

-----------------------------------------------------------------------------
\* The DAC value at which an input is still at least in the middle, and at the next no longer.
Centre(c) == LET r == response[adc_table[c]] IN IF r = 0 THEN 0 ELSE r - 1

\* A finished search has the one offset that centres its channel, at the first value and the last of the
\* range too (analog_offset_search); and a channel's DAC holds the low bits of the offset the commands keep
\* for it, through up and down past either end and through commands that fail half way, except where the
\* last write was not theirs or is not known to have happened.
OffsetsHold ==
    /\ command \in {"search", "record"} /\ Searched /\ ~ search.spoilt => search.low = Centre(channel)
    /\ \A c \in Channel \ loose : output[dac_table[c]] = _dac_offset[c] % DacRange
=============================================================================
