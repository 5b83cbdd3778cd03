---------------------------- MODULE Acquisition ----------------------------
(***************************************************************************)
(* The capture path of the CPU board: the message queue of                 *)
(* libs/device/device.c, the timer interrupt handler analog_tick of        *)
(* libs/analog_disc/analog_disc.c, and the double buffered loop of         *)
(* record_command in CPUDisc/record.c that sleeps in os_sleep_cpu.         *)
(*                                                                         *)
(* Two actors share the two messages and their buffers: the main thread,   *)
(* whose steps are its accesses to shared state, and the interrupt         *)
(* handlers, which run with interrupts disabled and so are atomic.  A tick *)
(* may come between any two steps of the main thread.                      *)
(*                                                                         *)
(* The TWI driver is seen here only through the states of the two messages *)
(* analog_tick owns.  A transfer ends at any time, with either result.     *)
(***************************************************************************)
EXTENDS Integers, Sequences

CONSTANTS
  ReadCount,  \* readings per block: message.read_count, 200 in record.c
  Settle,     \* ticks offset_search lasts, 960: 4 channels, 12 steps, 200 ms
  Sessions,   \* how many times the command is run in one boot
  Null        \* the null pointer

Message == 0 .. 1
Other(m) == 1 - m

ASSUME NullAssumption == Null \notin Message
ASSUME ReadCountAssumption ==
  ReadCount \in Nat /\ ReadCount > 0 /\ ReadCount % 2 = 0
ASSUME SettleAssumption == Settle \in Nat
ASSUME SessionsAssumption == Sessions \in Nat

VARIABLES
  head, tail,  \* _analog.device
  next,        \* Message.next of the two messages
  state,       \* Message.state of the two messages
  current,     \* _analog.current
  index,       \* _analog.index
  block,       \* the two buffers, data[0] and data[1]
  adc,         \* _analog.adc_message is queued or in transfer
  aux,         \* _analog.aux_message: the request in transfer, whether the
               \* last one succeeded, and what aux_buffer holds
  pc, turn,    \* the main thread: where it is, and its own index
  start,       \* it is still queueing the two messages for the first time
  settle,      \* ticks spent in offset_search
  session,     \* runs of the command so far
  full,        \* history: the buffers filled and not yet written, in order
  primed,      \* history: a buffer was taken since the messages were queued
  busy,        \* history: ticks since the main thread last slept
  overrun,     \* history: the main thread was busy for ReadCount ticks
  gap          \* history: a tick of the recording stored no reading

device    == <<head, tail, next, state>>
analog    == <<current, index, adc, aux, block>>
main      == <<pc, turn, start, settle, session>>
history   == <<full, primed, busy, overrun, gap>>
vars      == <<device, analog, main, history>>

Pending == {"queued", "reading"}  \* the states with bit 0x80
Location == {"shell", "search", "info", "prepare", "append", "loop", "wait",
             "asleep", "stamp", "write", "switch"}
\* The main thread has queued a message and has not left the command.
Recording ==
  \/ pc \in {"loop", "wait", "asleep", "stamp", "write", "switch"}
  \/ pc \in {"prepare", "append"} /\ (start => turn = 1)

ZeroBlock == [kind |-> "zero", pairs |-> 0, header |-> "clear",
              tainted |-> FALSE]

NoTransfer == [request |-> "none", ok |-> FALSE, data |-> "junk"]

----------------------------------------------------------------------------
(* device.c *)

\* Wrong: the queue is emptied, whatever follows its head.
Pop_DropsRest ==
  /\ head' = Null /\ tail' = Null
  /\ next' = [next EXCEPT ![head] = Null]

\* device_get_next_message: what becomes of the list when its head is taken.
Pop ==
  /\ head' = next[head]
  /\ tail' = IF next[head] = Null THEN Null ELSE tail
  /\ next' = [next EXCEPT ![head] = Null]

\* Wrong: the tail is not moved, so the next message replaces this one.
Link_LeavesTail(m) ==
  /\ head' = IF head = Null THEN m ELSE head
  /\ next' = IF head = Null THEN next ELSE [next EXCEPT ![tail] = m]
  /\ tail' = IF head = Null THEN m ELSE tail

\* The part of message_queue that runs with interrupts disabled.
Link(m) ==
  /\ head' = IF head = Null THEN m ELSE head
  /\ next' = IF head = Null THEN next ELSE [next EXCEPT ![tail] = m]
  /\ tail' = m

----------------------------------------------------------------------------
(* The tick interrupt: every handler of the tick runs, then the CPU wakes. *)

Clock ==
  /\ settle' = IF pc = "search" /\ settle < Settle THEN settle + 1 ELSE settle
  /\ pc' = IF pc = "asleep" THEN "wait" ELSE pc
  /\ busy' = IF pc = "asleep" THEN 0
             ELSE IF busy < ReadCount THEN busy + 1 ELSE busy
  /\ overrun' = (overrun \/ busy' = ReadCount)
  /\ UNCHANGED <<turn, start, session>>

\* twi_queue_message for the ADC, which analog_tick calls only when the
\* message is not pending.
QueueAdc == adc' = TRUE

\* twi_queue_message for the auxiliary message, called without looking at its
\* state.  What the driver makes of a message queued twice is not relied on.
QueueAux(request, data) ==
  aux' = [request |-> IF aux.request = "none" THEN request ELSE "confused",
          ok      |-> FALSE,
          data    |-> data]

\* What a buffer holds once reading i has been taken.  Readings are stored in
\* pairs.  The time is copied with the second, the battery voltage with the
\* fourth, and neither copy looks at the state of the transfer: tainted
\* remembers that one had failed or was not over.
Stored(b, i) ==
  IF i = 0
  THEN [ZeroBlock EXCEPT !.kind = "data"]
  ELSE [kind    |-> IF (i % 2) = 1 /\ b.kind # "data" THEN "mixed" ELSE b.kind,
        pairs   |-> b.pairs + (i % 2),
        header  |-> CASE i = 1 -> IF aux.data = "rtc" THEN "rtc" ELSE "bad"
                      [] i = 3 -> IF b.header = "rtc" /\ aux.data = "battery"
                                  THEN "both" ELSE "bad"
                      [] OTHER -> b.header,
        tainted |-> b.tainted \/ (i \in 1 .. 3 /\ ~aux.ok)]

\* Wrong: the conversion is read a tick late, after the header is filled.
AuxRequest_Late(i) ==
  \/ i = 0 /\ QueueAux("rtc", "junk")
  \/ i = 1 /\ QueueAux("convert", "junk")
  \/ i = 3 /\ QueueAux("battery", aux.data)
  \/ i \notin {0, 1, 3} /\ UNCHANGED aux

AuxRequest(i) ==
  \/ i = 0 /\ QueueAux("rtc", "junk")
  \/ i = 1 /\ QueueAux("convert", "junk")
  \/ i = 2 /\ QueueAux("battery", aux.data)
  \/ i > 2 /\ UNCHANGED aux

\* One reading of message m: the body of analog_tick from line 75 on.
Take(m, i) ==
  /\ block' = [block EXCEPT ![m] = Stored(@, i)]
  /\ QueueAdc
  /\ AuxRequest(i)
  /\ index' = i + 1

\* The tick found nothing to fill and so stored no reading.
Missed == gap' = (gap \/ (Recording /\ primed))

TickIdle ==
  /\ current = Null /\ head = Null
  /\ index' = 0
  /\ Missed
  /\ Clock
  /\ UNCHANGED <<device, current, adc, aux, block, full, primed>>

\* A buffer waits: take it and start the conversion its first reading needs.
TickPrime ==
  /\ current = Null /\ head # Null
  /\ current' = head
  /\ index' = 0
  /\ Pop
  /\ state' = [state EXCEPT ![head] = "reading"]
  /\ QueueAdc
  /\ Missed
  /\ primed' = TRUE
  /\ Clock
  /\ UNCHANGED <<aux, block, full>>

TickReading ==
  /\ current # Null /\ index < ReadCount
  /\ Take(current, index)
  /\ Clock
  /\ UNCHANGED <<device, current, full, primed, gap>>

\* Wrong: the next buffer is left for the next tick.
TickSwap_LeavesNext ==
  /\ current # Null /\ index >= ReadCount /\ head # Null
  /\ current' = Null
  /\ index' = 0
  /\ state' = [state EXCEPT ![current] = "success"]
  /\ full' = Append(full, current)
  /\ Clock
  /\ UNCHANGED <<head, tail, next, adc, aux, block, primed, gap>>

\* The buffer is full and another waits: hand the first over and store the
\* first reading of the other in the same tick.
TickSwap ==
  /\ current # Null /\ index >= ReadCount /\ head # Null
  /\ current' = head
  /\ Pop
  /\ state' = [state EXCEPT ![current] = "success", ![head] = "reading"]
  /\ Take(head, 0)
  /\ full' = Append(full, current)
  /\ primed' = TRUE
  /\ Clock
  /\ UNCHANGED gap

\* The buffer is full and none waits.
TickDry ==
  /\ current # Null /\ index >= ReadCount /\ head = Null
  /\ current' = Null
  /\ index' = 0
  /\ state' = [state EXCEPT ![current] = "success"]
  /\ full' = Append(full, current)
  /\ Missed
  /\ Clock
  /\ UNCHANGED <<head, tail, next, adc, aux, block, primed>>

Tick == TickIdle \/ TickPrime \/ TickReading \/ TickSwap \/ TickDry

----------------------------------------------------------------------------
(* The other interrupts.  Each of them also wakes the CPU. *)

Wake == pc' = IF pc = "asleep" THEN "wait" ELSE pc

AdcDone ==
  /\ adc
  /\ adc' = FALSE
  /\ Wake
  /\ UNCHANGED <<device, current, index, aux, block, turn, start, settle,
                 session, history>>

\* The conversion request writes and reads nothing back.
AuxDone ==
  /\ aux.request # "none"
  /\ \/ /\ aux.request # "confused"
        /\ aux' = [request |-> "none", ok |-> TRUE,
                   data |-> IF aux.request = "convert" THEN aux.data
                            ELSE aux.request]
     \/ aux' = [request |-> "none", ok |-> FALSE, data |-> "junk"]
  /\ Wake
  /\ UNCHANGED <<device, current, index, adc, block, turn, start, settle,
                 session, history>>

\* Wrong: whatever wakes the CPU, the message is taken for complete.
OtherInterrupt_NoRecheck ==
  /\ pc = "asleep"
  /\ pc' = "stamp"
  /\ UNCHANGED <<device, analog, turn, start, settle, session, history>>

\* A character from the UART, a timer overflow, a byte on the TWI bus.
OtherInterrupt ==
  /\ pc = "asleep"
  /\ pc' = "wait"
  /\ UNCHANGED <<device, analog, turn, start, settle, session, history>>

----------------------------------------------------------------------------
(* The main thread: record_command from its first access to the shared     *)
(* state.  The file calls of record.c are actions of module RecordLog;     *)
(* here a call may only fail.                                              *)

Goto(p) == pc' = p

\* Both buffers are zeroed and the first one becomes the info block.
RecordStart ==
  /\ pc = "shell" /\ session < Sessions
  /\ session' = session + 1
  /\ block' = [m \in Message |-> IF m = 0 THEN [ZeroBlock EXCEPT !.kind = "info"]
                                 ELSE ZeroBlock]
  /\ settle' = 0
  /\ Goto("search")
  /\ UNCHANGED <<device, current, index, adc, aux, turn, start, history>>

OffsetsFound ==
  /\ pc = "search" /\ settle = Settle
  /\ Goto("info")
  /\ UNCHANGED <<device, analog, turn, start, settle, session, history>>

\* The info block goes to the file, and both messages are to be queued.
WriteInfo ==
  /\ pc = "info"
  /\ Goto("prepare")
  /\ turn' = 0
  /\ start' = TRUE
  /\ UNCHANGED <<device, analog, settle, session, history>>

\* message_queue, before interrupts are disabled.
QueuePrepare ==
  /\ pc = "prepare"
  /\ next' = [next EXCEPT ![turn] = Null]
  /\ state' = [state EXCEPT ![turn] = "queued"]
  /\ Goto("append")
  /\ UNCHANGED <<head, tail, analog, turn, start, settle, session, history>>

\* Wrong: the main thread stays with the message it has just queued.
QueueAppend_SameTurn ==
  /\ pc = "append"
  /\ Link(turn)
  /\ turn' = IF start THEN Other(turn) ELSE turn
  /\ start' = (start /\ turn = 0)
  /\ Goto(IF start THEN (IF turn = 0 THEN "prepare" ELSE "loop") ELSE "switch")
  /\ IF start /\ turn = 0
     THEN full' = <<>> /\ primed' = FALSE /\ busy' = 0 /\ overrun' = FALSE
          /\ gap' = FALSE
     ELSE UNCHANGED history
  /\ UNCHANGED <<state, analog, settle, session>>

\* message_queue, with interrupts disabled; then the main thread turns to the
\* other message.  The history of a recording starts with its first message.
QueueAppend ==
  /\ pc = "append"
  /\ Link(turn)
  /\ turn' = Other(turn)
  /\ start' = (start /\ turn = 0)
  /\ Goto(IF start THEN (IF turn = 0 THEN "prepare" ELSE "loop") ELSE "switch")
  /\ IF start /\ turn = 0
     THEN full' = <<>> /\ primed' = FALSE /\ busy' = 0 /\ overrun' = FALSE
          /\ gap' = FALSE
     ELSE UNCHANGED history
  /\ UNCHANGED <<state, analog, settle, session>>

\* No character has come: on to the next block.
LoopWait ==
  /\ pc = "loop"
  /\ Goto("wait")
  /\ UNCHANGED <<device, analog, turn, start, settle, session, history>>

\* A character has come: record_command returns and leaves both messages with
\* the interrupt handler.
Quit ==
  /\ pc = "loop"
  /\ Goto("shell")
  /\ UNCHANGED <<device, analog, turn, start, settle, session, history>>

\* Wrong: sleep first, check afterwards.
SleepCheck_Unguarded ==
  /\ pc = "wait"
  /\ Goto("asleep") /\ busy' = 0
  /\ UNCHANGED <<device, analog, turn, start, settle, session, full, primed,
                 overrun, gap>>

\* os_sleep_cpu: the check and the sleep are one step, because interrupts are
\* disabled in between and sei takes effect after the sleep instruction.
SleepCheck ==
  /\ pc = "wait"
  /\ IF state[turn] \in Pending
     THEN Goto("asleep") /\ busy' = 0
     ELSE Goto("stamp") /\ UNCHANGED busy
  /\ UNCHANGED <<device, analog, turn, start, settle, session, full, primed,
                 overrun, gap>>

\* The wait time and the checksum go into the block.
Stamp ==
  /\ pc = "stamp"
  /\ Goto("write")
  /\ UNCHANGED <<device, analog, turn, start, settle, session, history>>

\* The block goes to the file.
WriteBlock ==
  /\ pc = "write"
  /\ full' = IF full = <<>> THEN full ELSE Tail(full)
  /\ Goto("prepare")
  /\ UNCHANGED <<device, analog, turn, start, settle, session, primed, busy,
                 overrun, gap>>

\* A call failed, or a key was pressed instead of the switch: the error is shown
\* until a character comes, and record_command returns with the message in hand
\* not queued again.
WriteFails ==
  /\ pc \in {"search", "info", "write"}
  /\ Goto("shell")
  /\ UNCHANGED <<device, analog, turn, start, settle, session, history>>

SwitchOpen ==
  /\ pc = "switch"
  /\ Goto("loop")
  /\ UNCHANGED <<device, analog, turn, start, settle, session, history>>

Init ==
  /\ head = Null /\ tail = Null
  /\ next = [m \in Message |-> Null]
  /\ state = [m \in Message |-> "new"]
  /\ current = Null /\ index = 0
  /\ block = [m \in Message |-> ZeroBlock]
  /\ adc = FALSE
  /\ aux = NoTransfer
  /\ pc = "shell" /\ turn = 0 /\ start = FALSE /\ settle = 0 /\ session = 0
  /\ full = <<>> /\ primed = FALSE /\ busy = 0 /\ overrun = FALSE /\ gap = FALSE

\* rtc_reset_stack: the clock chip resets the CPU, and everything is in RAM.
\* When the reset does not come the error is ignored, as in SwitchOpen.
ResetStack ==
  /\ pc = "switch"
  /\ head' = Null /\ tail' = Null
  /\ next' = [m \in Message |-> Null]
  /\ state' = [m \in Message |-> "new"]
  /\ current' = Null /\ index' = 0
  /\ block' = [m \in Message |-> ZeroBlock]
  /\ adc' = FALSE
  /\ aux' = NoTransfer
  /\ pc' = "shell" /\ turn' = 0 /\ start' = FALSE /\ settle' = 0 /\ session' = 0
  /\ full' = <<>> /\ primed' = FALSE /\ busy' = 0 /\ overrun' = FALSE /\ gap' = FALSE

MainStep ==
  \/ RecordStart \/ OffsetsFound \/ WriteInfo \/ QueuePrepare \/ QueueAppend
  \/ LoopWait \/ SleepCheck \/ Stamp \/ WriteBlock \/ SwitchOpen

Next ==
  \/ Tick \/ AdcDone \/ AuxDone \/ OtherInterrupt
  \/ MainStep \/ Quit \/ WriteFails \/ ResetStack

\* The timer never stops, and the main thread runs whenever it is not asleep.
\* Nothing is assumed of the TWI bus or of the operator.
Fairness == WF_vars(Tick) /\ WF_vars(MainStep)

Spec == Init /\ [][Next]_vars
FairSpec == Spec /\ Fairness

----------------------------------------------------------------------------
(* Properties *)

TypeOK ==
  /\ head \in Message \cup {Null} /\ tail \in Message \cup {Null}
  /\ next \in [Message -> Message \cup {Null}]
  /\ state \in [Message -> {"new", "success"} \cup Pending]
  /\ current \in Message \cup {Null}
  /\ index \in 0 .. ReadCount
  /\ block \in [Message -> [kind : {"zero", "info", "data", "mixed"},
                            pairs : Nat,
                            header : {"clear", "rtc", "both", "bad"},
                            tainted : BOOLEAN]]
  /\ adc \in BOOLEAN
  /\ aux \in [request : {"none", "rtc", "convert", "battery", "confused"},
              ok : BOOLEAN,
              data : {"junk", "rtc", "battery"}]
  /\ pc \in Location /\ turn \in Message /\ start \in BOOLEAN
  /\ settle \in 0 .. Settle /\ session \in 0 .. Sessions
  /\ full \in Seq(Message)
  /\ primed \in BOOLEAN /\ busy \in 0 .. ReadCount
  /\ overrun \in BOOLEAN /\ gap \in BOOLEAN

\* The queue, from head to tail.
EmptyQueue    == head = Null /\ tail = Null
OneQueued(m)  == head = m /\ tail = m /\ next[m] = Null
TwoQueued(m)  == /\ head = m /\ tail = Other(m)
                 /\ next[m] = Other(m) /\ next[Other(m)] = Null
Queued(m)     == OneQueued(m) \/ TwoQueued(m) \/ TwoQueued(Other(m))

\* The pointers always spell a list of distinct messages that ends at tail, and
\* the message being filled is not in it: no message can be lost, or met twice,
\* by device_get_next_message (device.c:39-41, 70-83).
QueueWellFormed ==
  /\ EmptyQueue \/ \E m \in Message : OneQueued(m) \/ TwoQueued(m)
  /\ current # Null => ~Queued(current)

\* While the main thread stamps, writes or queues a message, the interrupt
\* handler neither fills it nor will come to it.
MainHolds(m) == pc \in {"stamp", "write", "prepare", "append"} /\ turn = m
Ownership == \A m \in Message : MainHolds(m) => current # m /\ ~Queued(m)

\* The block being stamped and written is complete, and it is the oldest block
\* filled and not yet written: none is skipped, repeated or swapped.
WrittenInOrder ==
  pc \in {"stamp", "write"} =>
    /\ full # <<>> /\ Head(full) = turn
    /\ block[turn].kind = "data" /\ block[turn].pairs = ReadCount \div 2

\* The CPU never sleeps on a message that is already complete (sleep.c:47-58).
NoSleepOnCompleted == pc = "asleep" => state[turn] \in Pending

\* Two buffers are enough: a tick of the recording stores no reading only if
\* the main thread was awake for ReadCount ticks on end.
LostOnlyOnOverrun == gap => overrun

\* A block whose auxiliary transfers had all succeeded in time for the tick that
\* uses them holds the time and the battery voltage those transfers fetched,
\* though one buffer serves all three of them (analog_disc.c:140-186).
HeaderFresh ==
  ReadCount >= 4 =>
    \A m \in Message :
      /\ block[m].kind = "data"
      /\ block[m].pairs = ReadCount \div 2
      /\ ~block[m].tainted
      => block[m].header = "both"

\* What is written as the info block is the info block (record.c:234-244).
InfoIntact == pc = "info" => block[0].kind = "info"

\* A message given to the interrupt handler is filled, and a filled one is
\* written, unless the command returns.
Handled ==
  \A m \in Message :
    (Recording /\ state[m] \in Pending /\ ~MainHolds(m))
      ~> ((pc = "write" /\ turn = m) \/ pc = "shell")

=============================================================================
