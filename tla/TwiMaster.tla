----------------------------- MODULE TwiMaster -----------------------------
(***************************************************************************)
(* libs/twi/master.c: the queue of messages for the two wire bus and the   *)
(* interrupt handler that runs them, byte by byte.                         *)
(*                                                                         *)
(* Three kinds of actor share the queue: the main thread, which queues a   *)
(* message in two steps, polls its state and may give it up; the tick      *)
(* interrupt, whose handlers queue theirs in one; and the bus interrupt.   *)
(* Interrupt handlers are atomic and come between any two steps of the     *)
(* main thread.                                                            *)
(*                                                                         *)
(* A message of the main thread lies in the frame of a call.  When the     *)
(* call gives up, the message stays linked in a frame that is used again.  *)
(*                                                                         *)
(* The bus is external: it is known by the status it may report after each *)
(* operation the handler starts.                                           *)
(***************************************************************************)
EXTENDS Integers, Sequences

CONSTANTS
  MainMessage,  \* messages on the stack of the main thread
  TickMessage,  \* adc_message and aux_message of analog_tick
  Checked,      \* those of them queued only when they are done: adc_message
  Shape(_),     \* the counts a message may be queued with: <<write, read>>
  MaxCount,     \* bound on both counts, which are uint8
  Null

Message == MainMessage \cup TickMessage

ASSUME NullAssumption == Null \notin Message
ASSUME MessageAssumption == MainMessage \cap TickMessage = {}
ASSUME CheckedAssumption == Checked \subseteq TickMessage
ASSUME CountAssumption == MaxCount \in Nat
\* CheckB of twi_queue_message: a message has at least one byte.
ASSUME ShapeAssumption ==
  \A m \in Message :
    Shape(m) \subseteq (0 .. MaxCount) \X (0 .. MaxCount) \ {<<0, 0>>}

VARIABLES
  head, tail,  \* _twi
  current,     \* _twi.current: the next byte of the buffer
  next, state, write_count, read_count,  \* the fields of each message
  twie,        \* the bus interrupt is enabled
  bus,         \* the operation the bus is about to report on
  main,        \* the main thread: its place, and the message in hand
  order,       \* history: the messages linked and not yet done, in order
  moved,       \* history: bytes of the head's message sent and received
  overwritten  \* history: a message was written to while the bus had it;
               \* order and moved are kept up to there

queue    == <<head, tail, next>>
counts   == <<write_count, read_count>>
history  == <<order, moved>>
vars     == <<queue, current, state, counts, twie, bus, main, history, overwritten>>

Pending   == {"queued", "writing", "reading"}  \* the states with bit 0x80
\* Bound: what a call leaves in the state of a frame it uses again.
Garbage   == {"new", "queued", "reading"}
Failed    == {"failure", "address_nack", "data_nack", "arbitration_lost"}
Operation == {"idle", "start", "write_address", "read_address", "write",
              "read_ack", "read_nack"}

Nothing == [sent |-> 0, got |-> 0]

Init ==
  /\ head = Null /\ tail = Null /\ current = 0
  /\ next = [m \in Message |-> Null]
  /\ state = [m \in Message |-> "new"]
  /\ write_count = [m \in Message |-> 0]
  /\ read_count = [m \in Message |-> 0]
  /\ twie = FALSE /\ bus = "idle"
  /\ main = [at |-> "idle", message |-> Null]
  /\ order = <<>> /\ moved = Nothing /\ overwritten = FALSE

Linked(m) == \E i \in DOMAIN order : order[i] = m

\* A step of a caller that writes to m.
Writing(m) == overwritten' = (overwritten \/ Linked(m))

\* What the other histories become, as long as they are kept.
Recorded(o, mv) ==
  /\ order' = IF overwritten' THEN <<>> ELSE o
  /\ moved' = IF overwritten' THEN Nothing ELSE mv

----------------------------------------------------------------------------
(* twi_queue_message *)

\* The state a message starts from.
First(writes) == IF writes > 0 THEN "writing" ELSE "reading"

\* Before interrupts are disabled.
Prepared(m, shape, then) ==
  /\ write_count' = [write_count EXCEPT ![m] = shape[1]]
  /\ read_count' = [read_count EXCEPT ![m] = shape[2]]
  /\ state' = [state EXCEPT ![m] = then]

\* What the list becomes with m behind it, from the pointers there are.
Link(m, pointers) ==
  /\ head' = IF tail = Null THEN m ELSE head
  /\ next' = IF tail = Null THEN pointers ELSE [pointers EXCEPT ![tail] = m]
  /\ tail' = m

\* An idle bus is started; a busy one will come to the message.
Kick(m) ==
  /\ twie' = TRUE
  /\ bus' = IF twie THEN bus ELSE "start"
  /\ Recorded(Append(order, m), IF twie THEN moved ELSE Nothing)

\* The frame may be the one of a message that was given up.
Prepare(m) ==
  /\ main.at = "idle"
  /\ main' = [at |-> "prepared", message |-> m]
  /\ Writing(m)
  /\ \E shape \in Shape(m) : Prepared(m, shape, First(shape[1]))
  /\ next' = [next EXCEPT ![m] = Null]
  /\ Recorded(order, moved)
  /\ UNCHANGED <<head, tail, current, twie, bus>>

\* With interrupts disabled.
Enqueue ==
  /\ main.at = "prepared"
  /\ UNCHANGED overwritten
  /\ Link(main.message, next)
  /\ Kick(main.message)
  /\ state' = IF twie THEN [state EXCEPT ![main.message] = "queued"] ELSE state
  /\ main' = [main EXCEPT !.at = "waiting"]
  /\ UNCHANGED <<current, counts>>

\* analog_tick queues a message.  It looks whether adc_message is done
\* (analog_disc.c:54, 117), and does not look at aux_message.
TickQueue(m) ==
  /\ m \in Checked => state[m] \notin Pending
  /\ Writing(m)
  /\ \E shape \in Shape(m) :
       Prepared(m, shape, IF twie THEN "queued" ELSE First(shape[1]))
  /\ Link(m, [next EXCEPT ![m] = Null])
  /\ Kick(m)
  /\ UNCHANGED <<current, main>>

\* twi_wait_message polls the state, and its caller returns.
Wait ==
  /\ main.at = "waiting" /\ state[main.message] \notin Pending
  /\ main' = [at |-> "idle", message |-> Null]
  /\ UNCHANGED <<queue, current, state, counts, twie, bus, history, overwritten>>

\* The timeout, after 50 ticks or as soon as a torn os_ticks says so: the
\* caller returns, and the message stays where it is.
TimeOut ==
  /\ main.at = "waiting" /\ state[main.message] \in Pending
  /\ main' = [at |-> "idle", message |-> Null]
  /\ UNCHANGED <<queue, current, state, counts, twie, bus, history, overwritten>>

\* Another call has the frame of a message given up, and leaves anything in it.
Reuse(m) ==
  /\ main.at = "idle" /\ Linked(m)
  /\ Writing(m)
  /\ \E then \in Garbage, pointer \in Message \cup {Null} :
       /\ state' = [state EXCEPT ![m] = then]
       /\ next' = [next EXCEPT ![m] = pointer]
  /\ Recorded(order, moved)
  /\ UNCHANGED <<head, tail, current, counts, twie, bus, main>>

----------------------------------------------------------------------------
(* SIG_2WIRE_SERIAL: one action per status the bus reports *)

Writes == write_count[head]
Reads  == read_count[head]

\* The head stays, and the bus is given its next operation.
Continue(operation) ==
  /\ bus' = operation
  /\ UNCHANGED <<queue, counts, twie, main>>

\* Wrong: the tail still points at the last message.
Finish_KeepsTail(result) ==
  /\ Recorded(Tail(order), Nothing)
  /\ UNCHANGED <<counts, main>>
  /\ \/ /\ next[head] # Null
        /\ head' = next[head]
        /\ next' = [next EXCEPT ![head] = Null]
        /\ state' = [state EXCEPT ![head] = result,
                                  ![head'] = First(write_count[head'])]
        /\ bus' = "start"
        /\ UNCHANGED <<tail, twie>>
     \/ /\ next[head] = Null
        /\ head' = Null
        /\ state' = [state EXCEPT ![head] = result]
        /\ bus' = "idle" /\ twie' = FALSE
        /\ UNCHANGED <<next, tail>>

\* Wrong: the bus is stopped though another message waits.
Finish_Stops(result) ==
  /\ Recorded(Tail(order), Nothing)
  /\ head' = next[head]
  /\ tail' = IF next[head] = Null THEN Null ELSE tail
  /\ next' = [next EXCEPT ![head] = Null]
  /\ state' = [state EXCEPT ![head] = result]
  /\ bus' = "idle" /\ twie' = FALSE
  /\ UNCHANGED <<counts, main>>

\* The head is done: on to the next message, or stop.
Finish(result) ==
  /\ Recorded(Tail(order), Nothing)
  /\ UNCHANGED <<counts, main>>
  /\ \/ /\ next[head] # Null
        /\ head' = next[head]
        /\ next' = [next EXCEPT ![head] = Null]
        /\ state' = [state EXCEPT ![head] = result,
                                  ![head'] = First(write_count[head'])]
        /\ bus' = "start"
        /\ UNCHANGED <<tail, twie>>
     \/ /\ next[head] = Null
        /\ head' = Null /\ tail' = Null
        /\ state' = [state EXCEPT ![head] = result]
        /\ bus' = "idle" /\ twie' = FALSE
        /\ UNCHANGED next

\* TWI_START, TWI_REP_START
Started ==
  /\ bus = "start"
  /\ \/ /\ state[head] \in {"writing", "reading"}
        /\ current' = 0
        /\ Continue(IF state[head] = "writing" THEN "write_address"
                    ELSE "read_address")
        /\ UNCHANGED <<state, history>>
     \/ /\ state[head] \notin {"writing", "reading"}
        /\ Finish("failure")
        /\ UNCHANGED current

\* All bytes are written: read the answer, if there is one.
Written ==
  \/ /\ Reads > 0
     /\ state' = [state EXCEPT ![head] = "reading"]
     /\ Continue("start")
     /\ UNCHANGED <<current, history>>
  \/ /\ Reads = 0
     /\ Finish("success")
     /\ UNCHANGED current

\* Wrong: the last byte is forgotten.
WriteAcked_LastForgotten ==
  /\ bus \in {"write_address", "write"}
  /\ IF current + 1 < Writes
     THEN /\ current' = current + 1
          /\ Recorded(order, [moved EXCEPT !.sent = @ + 1])
          /\ Continue("write")
          /\ UNCHANGED state
     ELSE Written

\* TWI_MTX_ADR_ACK, TWI_MTX_DATA_ACK
WriteAcked ==
  /\ bus \in {"write_address", "write"}
  /\ IF current < Writes
     THEN /\ current' = current + 1
          /\ Recorded(order, [moved EXCEPT !.sent = @ + 1])
          /\ Continue("write")
          /\ UNCHANGED state
     ELSE Written

\* TWI_MTX_DATA_NACK: the last byte may be refused.
WriteRefused ==
  /\ bus = "write"
  /\ IF current = Writes THEN Written
     ELSE Finish("data_nack") /\ UNCHANGED current

\* Wrong: one byte too many is acknowledged.
ReadNext_OffByOne(read) == IF read < Reads THEN "read_ack" ELSE "read_nack"

\* Every byte but the last is acknowledged.
ReadNext(read) == IF read < Reads - 1 THEN "read_ack" ELSE "read_nack"

\* TWI_MRX_ADR_ACK
ReadAddressed ==
  /\ bus = "read_address"
  /\ Continue(ReadNext(current))
  /\ UNCHANGED <<current, state, history>>

\* TWI_MRX_DATA_ACK
ReadAcked ==
  /\ bus = "read_ack"
  /\ current' = current + 1
  /\ Recorded(order, [moved EXCEPT !.got = @ + 1])
  /\ Continue(ReadNext(current + 1))
  /\ UNCHANGED state

\* TWI_MRX_DATA_NACK: the byte is stored, and the message is done.
ReadLast ==
  /\ bus = "read_nack"
  /\ Finish("success")
  /\ current' = current + 1

\* TWI_MTX_ADR_NACK, TWI_MRX_ADR_NACK
AddressRefused ==
  /\ bus \in {"write_address", "read_address"}
  /\ Finish("address_nack")
  /\ UNCHANGED current

\* TWI_ARB_LOST: another master drives the bus, or a stuck slave does.
ArbitrationLost ==
  /\ bus \notin {"idle", "start"}
  /\ Finish("arbitration_lost")
  /\ UNCHANGED current

\* TWI_BUS_ERROR and every other status
BusError ==
  /\ bus # "idle"
  /\ Finish("failure")
  /\ UNCHANGED current

Interrupt ==
  /\ twie /\ UNCHANGED overwritten
  /\ \/ Started \/ WriteAcked \/ WriteRefused
     \/ ReadAddressed \/ ReadAcked \/ ReadLast
     \/ AddressRefused \/ ArbitrationLost \/ BusError

----------------------------------------------------------------------------
Next ==
  \/ \E m \in MainMessage : Prepare(m)
  \/ Enqueue
  \/ \E m \in TickMessage : TickQueue(m)
  \/ Wait \/ TimeOut
  \/ \E m \in MainMessage : Reuse(m)
  \/ Interrupt

\* Every operation of the bus ends, and the main thread runs.
Spec     == Init /\ [][Next]_vars
FairSpec == Spec /\ WF_vars(Interrupt) /\ WF_vars(Enqueue)

----------------------------------------------------------------------------
(* Properties *)

TypeOK ==
  /\ head \in Message \cup {Null} /\ tail \in Message \cup {Null}
  /\ current \in 0 .. MaxCount
  /\ next \in [Message -> Message \cup {Null}]
  /\ state \in [Message -> {"new", "success"} \cup Failed \cup Pending]
  /\ write_count \in [Message -> 0 .. MaxCount]
  /\ read_count \in [Message -> 0 .. MaxCount]
  /\ twie \in BOOLEAN /\ bus \in Operation
  /\ main \in [at : {"idle", "prepared", "waiting"},
               message : Message \cup {Null}]
  /\ order \in Seq(Message)
  /\ moved \in [sent : Nat, got : Nat]

\* The pointers spell the messages queued and not yet done, each once and in
\* the order they were queued (master.c:73-106, 245-273).
QueueWellFormed ==
  /\ \A i, j \in DOMAIN order : order[i] = order[j] => i = j
  /\ head = (IF order = <<>> THEN Null ELSE Head(order))
  /\ tail = (IF order = <<>> THEN Null ELSE order[Len(order)])
  /\ \A i \in DOMAIN order :
       next[order[i]] = (IF i = Len(order) THEN Null ELSE order[i + 1])

\* The handler is running exactly when there is a message, it runs the head,
\* and every other message waits (master.c:98-101, 254-268).
EngineAgrees ==
  /\ twie <=> order # <<>>
  /\ twie <=> bus # "idle"
  /\ \A i \in DOMAIN order :
       state[order[i]] \in IF i = 1 THEN {"writing", "reading"} ELSE {"queued"}

\* The handler never reads or writes past the buffer of the message, which both
\* phases of a transfer use from its start (master.c:163-192, 206).
InBuffer ==
  /\ bus \in {"write_address", "write"} => current <= Writes
  /\ bus \in {"read_ack", "read_nack"} => current < Reads

\* As long as nobody wrote to a message that the bus had, the queue is well
\* formed and the engine agrees with the message it serves and stays in its
\* buffer, whatever the messages given up that are still linked
\* (twi_queue_message, twi_wait_message, SIG_2WIRE_SERIAL).
BusInOrder ==
  ~overwritten => TypeOK /\ QueueWellFormed /\ EngineAgrees /\ InBuffer

\* A message is reported done once every byte of it has crossed the bus, and
\* only when it is at the head of the queue, as long as nobody wrote to a
\* message that the bus had (master.c:163-222).
DoneMeansDone ==
  [][\A m \in Message :
       state[m] \in Pending /\ state'[m] \notin Pending /\ ~overwritten' =>
         /\ order # <<>> /\ m = Head(order)
         /\ state'[m] = "success" =>
              /\ moved.sent = write_count[m]
              /\ moved.got + (IF bus = "read_nack" THEN 1 ELSE 0)
                   = read_count[m]]_vars

\* A message queued is answered, however many come before it and whoever gave
\* up waiting for one of them, until somebody writes to a message that the bus
\* has: aux_message by a bus slow by a tick, a frame after a timeout.
Served ==
  \A m \in Message :
    state[m] \in Pending ~> state[m] \notin Pending \/ overwritten

\* What the comments promise (master.c:79-80, 128-129): the queue is changed by
\* steps that are atomic, and the state machine is always running.  So what the
\* tick queues is answered, whatever the main thread does.
AlwaysRunning ==
  \A m \in TickMessage : state[m] \in Pending ~> state[m] \notin Pending
=============================================================================
