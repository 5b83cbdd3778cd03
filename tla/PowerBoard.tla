----------------------------- MODULE PowerBoard -----------------------------
(***************************************************************************)
(* The power board (PowerDisc/slave.c and main.c) as the CPU board meets   *)
(* it.  The main loop measures battery and temperature once for each       *)
(* message it is sent, and two interrupts serve the bus: one at a start    *)
(* condition, one at the end of each byte and each acknowledge bit.  A     *)
(* write of Count bytes is the message; a read gets what the last          *)
(* measurement put in the registers.                                       *)
(*                                                                         *)
(* The CPU board is external but for what it asks: analog_tick writes at   *)
(* one tick and reads at the next, and the shell's battery and temperature *)
(* commands read as soon as they have written.  Its messages and its bus   *)
(* engine are in TwiMaster.                                                *)
(***************************************************************************)
EXTENDS Integers, Sequences

CONSTANTS
  Count,       \* bytes in a message and in an answer
  Registers,   \* USI_REGISERS
  MaxFaults    \* bound on the transfers given up midway

\* What the constants are: the registers hold a message of a byte at least.
ConstantsOK ==
  /\ Count \in Nat \ {0} /\ Registers \in Nat /\ Count <= Registers
  /\ MaxFaults \in Nat

VARIABLES
  pc, copied,     \* main: where it is, and registers copied so far
  sample,         \* which of two values the last measurement gave
  registers,
  head, state,    \* whether the message is queued, and its state
  usi,            \* the other fields of _usi
  usidr,          \* the register byte being sent
  bus,            \* the transfer in progress
  want,           \* what each client asks for next
  \* history:
  outcome,        \* how the last transfer ended
  taken,          \* the transfer completed the board's message
  asked,          \* what sample was when analog_tick's write was taken
  header,         \* what its last read got
  faults, cut     \* transfers given up, and whether one was a message

board == <<pc, copied, sample, registers>>
cpu   == <<bus, want, outcome, asked, header, faults, cut>>
vars  == <<pc, copied, sample, registers, head, state, usi, usidr, bus, want,
           outcome, taken, asked, header, faults, cut>>

Client == {"tick", "shell"}
No     == "no"
Value  == {"even", "odd"}   \* measurements, told apart by their turn
Sample == Value \cup {"zero"}
Other(v) == IF v = "even" THEN "odd" ELSE "even"
Free   == bus.client = No
\* When main has returned, the C library turns interrupts off for good.
Serving == pc # "ended"
Answer(op, result) == [op |-> op, result |-> result]
Quiet  == [client |-> No, op |-> No, done |-> 0, got |-> <<>>]

TypeOK ==
  /\ pc \in {"copy", "prepare", "append", "wait", "sample", "ended"}
  /\ copied \in 0 .. Count /\ sample \in Value
  /\ registers \in [0 .. Registers - 1 -> Sample]
  /\ head \in BOOLEAN
  /\ state \in {No, "queued", "reading", "success", "failure"}
  /\ usi \in [state : {"check_address", "send_data", "request_reply",
                       "check_reply", "request_data", "get_data", "nack",
                       "nacked"},
              current : 0 .. Count, index : 0 .. Registers - 1,
              message : BOOLEAN]
  /\ usidr \in Sample
  /\ bus \in [client : Client \cup {No}, op : {"write", "read", No},
              done : 0 .. Count,
              got : UNION {[1 .. k -> Sample] : k \in 0 .. Count}]
  /\ want \in [Client -> {"write", "read"}]
  /\ outcome \in [op : {"write", "read", No}, result :
                  {No, "success", "address_nack", "data_nack", "given_up"}]
  /\ taken \in BOOLEAN /\ asked \in Value \cup {No}
  /\ faults \in 0 .. MaxFaults /\ cut \in BOOLEAN

-----------------------------------------------------------------------------
\* The first message is queued with nothing to write to the registers.
Init ==
  /\ pc = "prepare" /\ copied = 0 /\ sample = "even"
  /\ registers = [r \in 0 .. Registers - 1 |-> "zero"]
  /\ head = FALSE /\ state = No
  /\ usi = [state |-> "check_address", current |-> 0, index |-> 0,
            message |-> FALSE]
  /\ usidr = "zero"
  /\ bus = Quiet
  /\ want = [c \in Client |-> "write"]
  /\ outcome = Answer(No, No) /\ taken = FALSE /\ asked = No
  /\ header = [asked |-> No, got |-> <<>>]
  /\ faults = 0 /\ cut = FALSE

-----------------------------------------------------------------------------
(* The main loop: usi_queue_message, usi_wait_message, the measurements.   *)
(* The registers are written one by one with interrupts enabled.           *)

Copy ==
  /\ pc = "copy"
  /\ IF copied < Count
     THEN /\ registers' = [registers EXCEPT ![copied] = sample]
          /\ copied' = copied + 1
          /\ UNCHANGED pc
     ELSE pc' = "prepare" /\ copied' = 0 /\ UNCHANGED registers
  /\ UNCHANGED <<sample, head, state, usi, usidr, taken, cpu>>

\* message_queue, before interrupts are disabled, and after
Prepare ==
  /\ pc = "prepare"
  /\ pc' = "append" /\ state' = "queued"
  /\ UNCHANGED <<copied, sample, registers, head, usi, usidr, taken, cpu>>

\* Wrong: read_count was left at zero, so there is nothing to wait for.
AppendMessage_NothingToRead ==
  /\ pc = "append"
  /\ pc' = "wait" /\ state' = "success"
  /\ UNCHANGED <<copied, sample, registers, head, usi, usidr, taken, cpu>>

AppendMessage ==
  /\ pc = "append"
  /\ pc' = "wait" /\ head' = TRUE
  /\ UNCHANGED <<copied, sample, registers, state, usi, usidr, taken, cpu>>

\* A message that failed ends the loop.
Wait ==
  /\ pc = "wait"
  /\ \/ state = "success" /\ pc' = "sample"
     \/ state = "failure" /\ pc' = "ended"
  /\ UNCHANGED <<copied, sample, registers, head, state, usi, usidr, taken,
                 cpu>>

Measure ==
  /\ pc = "sample"
  /\ pc' = "copy" /\ sample' = Other(sample)
  /\ UNCHANGED <<copied, registers, head, state, usi, usidr, taken, cpu>>

MainStep == Copy \/ Prepare \/ AppendMessage \/ Wait \/ Measure

-----------------------------------------------------------------------------
(* The start condition interrupt (USI_START_VECTOR).                       *)

\* Wrong: the message it fails stays the current one.
StartCondition_KeepsMessage ==
  /\ state' = IF usi.message THEN "failure" ELSE state
  /\ usi' = [usi EXCEPT !.state = "check_address"]
  /\ UNCHANGED <<head, usidr>>

StartCondition ==
  /\ state' = IF usi.message THEN "failure" ELSE state
  /\ usi' = [usi EXCEPT !.state = "check_address", !.message = FALSE]
  /\ UNCHANGED <<head, usidr>>

\* analog_tick reads a tick after it wrote, and a measurement takes two
\* milliseconds of the ten.  How far the board is is not known if somebody
\* else has written since.
TimeFor(c) ==
  c = "tick" /\ want[c] = "read" /\ asked # No => head

Start(c) ==
  /\ Serving /\ Free /\ TimeFor(c)
  /\ bus' = [client |-> c, op |-> want[c], done |-> 0, got |-> <<>>]
  /\ asked' = IF want[c] = "write" THEN No ELSE asked
  /\ StartCondition
  /\ taken' = FALSE
  /\ UNCHANGED <<board, want, outcome, header, faults, cut>>

\* A transfer with another device: its address is not ours.
StartOther ==
  /\ Serving /\ Free
  /\ StartCondition
  /\ taken' = FALSE /\ outcome' = Answer(No, No)
  /\ UNCHANGED <<board, bus, want, asked, header, faults, cut>>

-----------------------------------------------------------------------------
(* The overflow interrupt (USI_OVERFLOW_VECTOR), one action per state it   *)
(* finds, each with what the master sees at that clock.                    *)

\* The master is through.  analog_tick does not look at how it went.
Ends(result, got) ==
  LET c == bus.client
  IN /\ bus' = Quiet
     /\ outcome' = Answer(bus.op, result)
     /\ want' = [want EXCEPT ![c] =
          IF bus.op = "write" /\ (c = "tick" \/ result = "success")
          THEN "read" ELSE "write"]
     /\ header' = IF c = "tick" /\ bus.op = "read"
                  THEN [asked |-> IF result = "success" THEN asked ELSE No,
                        got |-> got]
                  ELSE header
     /\ UNCHANGED <<asked, faults, cut>>

GoesOn(done, got) ==
  /\ bus' = [bus EXCEPT !.done = done, !.got = got]
  /\ UNCHANGED <<want, outcome, header, asked, faults, cut>>

\* Wrong: a read goes on where the last one stopped.
Addressed_KeepsIndex ==
  IF bus.op = "read"
  THEN /\ usi' = [usi EXCEPT !.state = "send_data", !.current = 0]
       /\ UNCHANGED <<head, state>>
  ELSE IF head
  THEN /\ usi' = [usi EXCEPT !.state = "request_data", !.current = 0,
                             !.message = TRUE]
       /\ head' = FALSE /\ state' = "reading"
  ELSE /\ usi' = [usi EXCEPT !.state = "nack", !.current = 0]
       /\ UNCHANGED <<head, state>>

Addressed ==
  LET fresh == [usi EXCEPT !.current = 0, !.index = 0]
  IN IF bus.op = "read"
     THEN /\ usi' = [fresh EXCEPT !.state = "send_data"]
          /\ UNCHANGED <<head, state>>
     ELSE IF head
     THEN /\ usi' = [fresh EXCEPT !.state = "request_data", !.message = TRUE]
          /\ head' = FALSE /\ state' = "reading"
     ELSE /\ usi' = [fresh EXCEPT !.state = "nack"]
          /\ UNCHANGED <<head, state>>

CheckAddress ==
  /\ Serving /\ ~Free /\ usi.state = "check_address"
  /\ Addressed
  /\ UNCHANGED <<board, usidr, taken, cpu>>

\* The next register goes out.
SendRegister ==
  /\ usidr' = registers[usi.index]
  /\ usi' = [usi EXCEPT !.state = "request_reply",
                        !.index = (@ + 1) % Registers]

SendData ==
  /\ Serving /\ ~Free /\ usi.state = "send_data"
  /\ SendRegister
  /\ UNCHANGED <<board, head, state, taken, cpu>>

\* A byte has gone out: the master has it, and replies.
RequestReply ==
  /\ Serving /\ ~Free /\ usi.state = "request_reply"
  /\ usi' = [usi EXCEPT !.state = "check_reply"]
  /\ GoesOn(bus.done + 1, Append(bus.got, usidr))
  /\ UNCHANGED <<board, head, state, usidr, taken>>

\* The master acknowledges every byte but the last.
CheckReply ==
  /\ Serving /\ ~Free /\ usi.state = "check_reply"
  /\ IF bus.done = Count
     THEN /\ usi' = [usi EXCEPT !.state = "check_address"]
          /\ Ends("success", bus.got)
          /\ UNCHANGED usidr
     ELSE SendRegister /\ UNCHANGED cpu
  /\ UNCHANGED <<board, head, state, taken>>

\* The acknowledge bit is out, and the master sends a byte.
RequestData ==
  /\ Serving /\ ~Free /\ usi.state = "request_data"
  /\ IF bus.done = Count
     THEN Ends("success", <<>>) /\ UNCHANGED usi
     ELSE /\ usi' = [usi EXCEPT !.state = "get_data"]
          /\ GoesOn(bus.done + 1, <<>>)
  /\ UNCHANGED <<board, head, state, usidr, taken>>

\* Wrong: the last byte is taken to be the one before it.
Stored_Early ==
  LET current == usi.current + 1
  IN IF current < Count - 1
     THEN /\ usi' = [usi EXCEPT !.current = current, !.state = "request_data"]
          /\ UNCHANGED <<state, taken, asked>>
     ELSE /\ usi' = [usi EXCEPT !.current = current, !.state = "nack",
                                !.message = FALSE]
          /\ state' = "success" /\ taken' = TRUE
          /\ asked' = IF bus.client = "tick" THEN sample ELSE No

\* The byte is stored; the last one completes the message and is refused.
Stored ==
  LET current == usi.current + 1
  IN IF current < Count
     THEN /\ usi' = [usi EXCEPT !.current = current, !.state = "request_data"]
          /\ UNCHANGED <<state, taken, asked>>
     ELSE /\ usi' = [usi EXCEPT !.current = current, !.state = "nack",
                                !.message = FALSE]
          /\ state' = "success" /\ taken' = TRUE
          /\ asked' = IF bus.client = "tick" THEN sample ELSE No

GetData ==
  /\ Serving /\ ~Free /\ usi.state = "get_data"
  /\ Stored
  /\ UNCHANGED <<board, head, usidr, bus, want, outcome, header, faults, cut>>

\* The refusal is out.  After the last byte it is a success to the master.
Nack ==
  /\ Serving /\ ~Free /\ usi.state = "nack"
  /\ usi' = [usi EXCEPT !.state = "nacked"]
  /\ Ends(CASE bus.done = 0     -> "address_nack"
            [] bus.done = Count -> "success"
            [] OTHER            -> "data_nack", <<>>)
  /\ UNCHANGED <<board, head, state, usidr, taken>>

Overflow ==
  \/ CheckAddress \/ SendData \/ RequestReply \/ CheckReply
  \/ RequestData \/ GetData \/ Nack

\* The CPU board is reset or meets a bus error in the middle of a transfer.
GiveUp ==
  /\ ~Free /\ faults < MaxFaults
  /\ bus' = Quiet /\ outcome' = Answer(bus.op, "given_up")
  /\ want' = [c \in Client |-> "write"]
  /\ faults' = faults + 1
  /\ cut' = (cut \/ usi.message)
  /\ asked' = No
  /\ UNCHANGED <<board, head, state, usi, usidr, taken, header>>

-----------------------------------------------------------------------------
Next ==
  \/ MainStep
  \/ Overflow
  \/ \E c \in Client : Start(c)
  \/ StartOther
  \/ GiveUp

\* The board runs, the bus clock runs, and a recording is being made.
Spec ==
  /\ Init /\ [][Next]_vars
  /\ WF_vars(MainStep) /\ WF_vars(Overflow) /\ SF_vars(Start("tick"))

-----------------------------------------------------------------------------
(* Properties *)

(* The overflow interrupt never stores through a null message, and a       *)
(* message is in one place: queued, with the interrupt, or back with main  *)
(* (slave.c:121-133, 177-183, 199-214).                                    *)
MessageHeld ==
  /\ TypeOK
  /\ usi.state \in {"request_data", "get_data"} => usi.message
  /\ usi.message => ~head /\ state = "reading" /\ pc = "wait"
  /\ head => state = "queued" /\ pc = "wait"

(* The two sides agree on a message: the master counts a write as done     *)
(* just when the board has all of it, although the board refuses the last  *)
(* byte (slave.c:207-213, master.c:195-214).                               *)
WriteAgrees ==
  Free /\ outcome.op = "write" /\ outcome.result # "given_up" =>
    (outcome.result = "success" <=> taken)

(* What analog_tick reads after a write of its own that nobody disturbed   *)
(* is one measurement, made after that write, although the registers are   *)
(* written while the interrupt may be sending them (analog_disc.c:150-185, *)
(* slave.c:98-99, 249).                                                    *)
HeaderIsFresh ==
  header.asked # No =>
    header.got = [j \in 1 .. Count |-> Other(header.asked)]

(* The board is ready for a message again and again, and a read or an      *)
(* address given up does it no harm: its loop ends only when a message was *)
(* given up midway (main.c:90-91, slave.c:121-131).                        *)
Ready == head \/ (pc = "ended" /\ cut)
ReadyAgain == []<>Ready
=============================================================================
