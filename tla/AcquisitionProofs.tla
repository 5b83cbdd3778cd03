-------------------------- MODULE AcquisitionProofs -------------------------
(***************************************************************************)
(* The queue of device.c and the ownership of the two buffers, the headers *)
(* of the blocks, and the order in which they reach the file, for every    *)
(* number of readings and of sessions, as long as offset_search outlasts   *)
(* what the interrupt handler may have left to do.                         *)
(***************************************************************************)
EXTENDS MCCapture, TLAPS

----------------------------------------------------------------------------
(* The inductive invariant *)

\* Two messages to fill, and a tick to take the first and one to end.
SettleIsLong == Settle >= 2 * ReadCount + 2

\* The interrupt handler has the messages whose state says so.
StateAgrees ==
  \A m \in Message :
    /\ Queued(m) => state[m] = "queued"
    /\ current = m => state[m] = "reading"

\* The ticks it takes the interrupt handler to have no message left.
Drain ==
  IF current # Null
  THEN ReadCount - index + 1 + (IF head # Null THEN ReadCount ELSE 0)
  ELSE IF head = Null THEN 0
       ELSE IF head = tail THEN ReadCount + 2 ELSE 2 * ReadCount + 2

\* A new recording waits for all of them before it touches a message.
Drained ==
  /\ pc = "search" => Drain <= Settle - settle
  /\ pc = "info" \/ (pc \in {"prepare", "append"} /\ start /\ turn = 0) =>
       EmptyQueue /\ current = Null

\* A message about to be appended points nowhere.
Detached == pc = "append" => next[turn] = Null /\ state[turn] = "queued"

\* Both messages are new to a recording only while it queues them.
Starting == start => pc \in {"prepare", "append"}

IInv ==
  /\ TypeOK /\ QueueWellFormed /\ Ownership /\ NoSleepOnCompleted
  /\ StateAgrees /\ Detached /\ Starting /\ Drained
----------------------------------------------------------------------------
(* The queue *)

Shape == EmptyQueue \/ \E m \in Message : OneQueued(m) \/ TwoQueued(m)

\* device_get_next_message takes the head and nothing else off the list.
LEMMA PopTakesHead ==
  ASSUME TypeOK, Shape, head # Null, Pop
  PROVE  /\ Shape'
         /\ \A m \in Message : Queued(m)' <=> Queued(m) /\ m # head
         /\ head' # Null => head' = tail'
         /\ head' = Null <=> head = tail
<1>1. /\ head \in Message /\ Null \notin Message
      /\ next \in [Message -> Message \cup {Null}]
  BY NullAssumption DEF TypeOK
<1>2. CASE OneQueued(head)
  BY <1>1, <1>2
  DEF Pop, Shape, EmptyQueue, OneQueued, TwoQueued, Queued, Message, Other
<1>3. CASE TwoQueued(head)
  BY <1>1, <1>3
  DEF Pop, Shape, EmptyQueue, OneQueued, TwoQueued, Queued, Message, Other
<1> QED
  BY <1>1, <1>2, <1>3 DEF Shape, EmptyQueue, OneQueued, TwoQueued

\* message_queue puts one message behind the others.
LEMMA LinkAdds ==
  ASSUME TypeOK, Shape, NEW m \in Message, ~Queued(m), next[m] = Null, Link(m)
  PROVE  /\ Shape'
         /\ \A k \in Message : Queued(k)' <=> Queued(k) \/ k = m
<1>1. /\ Null \notin Message /\ next \in [Message -> Message \cup {Null}]
  BY NullAssumption DEF TypeOK
<1>2. CASE EmptyQueue
  BY <1>1, <1>2
  DEF Link, Shape, EmptyQueue, OneQueued, TwoQueued, Queued, Message, Other
<1>3. ASSUME NEW h \in Message, OneQueued(h)
      PROVE  /\ Shape'
             /\ \A k \in Message : Queued(k)' <=> Queued(k) \/ k = m
  BY <1>1, <1>3
  DEF Link, Shape, EmptyQueue, OneQueued, TwoQueued, Queued, Message, Other
<1>4. \A h \in Message : ~TwoQueued(h)
  BY DEF Queued, TwoQueued, Message, Other
<1> QED
  BY <1>2, <1>3, <1>4 DEF Shape

\* Steps that leave the list alone.
LEMMA QueueKept ==
  ASSUME UNCHANGED <<head, tail, next>>
  PROVE  /\ Shape' <=> Shape
         /\ \A m \in Message : Queued(m)' <=> Queued(m)
         /\ EmptyQueue' <=> EmptyQueue
  BY DEF Shape, EmptyQueue, OneQueued, TwoQueued, Queued

LEMMA HeadQueued ==
  ASSUME TypeOK, Shape, head # Null
  PROVE  head \in Message /\ Queued(head)
  BY DEF TypeOK, Shape, EmptyQueue, OneQueued, TwoQueued, Queued

\* An empty queue has no message.
LEMMA EmptyHasNone ==
  ASSUME EmptyQueue
  PROVE  \A m \in Message : ~Queued(m)
  BY NullAssumption DEF EmptyQueue, Queued, OneQueued, TwoQueued, Message,
     Other

----------------------------------------------------------------------------
(* A reading *)

BlockType == [kind : {"zero", "info", "data", "mixed"}, pairs : Nat,
              header : {"clear", "rtc", "both", "bad"}, tainted : BOOLEAN]
AuxType == [request : {"none", "rtc", "convert", "battery", "confused"},
            ok : BOOLEAN, data : {"junk", "rtc", "battery"}]

\* A reading leaves a block (analog_disc.c:104-188).
LEMMA StoredType ==
  ASSUME aux \in AuxType, NEW b \in BlockType, NEW i \in Nat
  PROVE  Stored(b, i) \in BlockType
<1>1. CASE i = 0
  BY <1>1 DEF Stored, ZeroBlock, BlockType
<1>2. CASE i # 0
  <2>1. b.pairs + (i % 2) \in Nat
    BY DEF BlockType
  <2>2. Stored(b, i).kind \in {"zero", "info", "data", "mixed"}
    BY <1>2 DEF Stored, BlockType
  <2>3. Stored(b, i).header \in {"clear", "rtc", "both", "bad"}
    BY <1>2 DEF Stored, BlockType
  <2>4. (b.tainted \/ (i \in 1 .. 3 /\ ~aux.ok)) \in BOOLEAN
    OBVIOUS
  <2> QED
    BY <1>2, <2>1, <2>2, <2>3, <2>4 DEF Stored, BlockType
<1> QED
  BY <1>1, <1>2

\* A request leaves a transfer (analog_disc.c:126-178).
LEMMA QueueAuxType ==
  ASSUME aux \in AuxType,
         NEW request \in {"rtc", "convert", "battery"},
         NEW data \in {"junk", "rtc", "battery"},
         QueueAux(request, data)
  PROVE  aux' \in AuxType
<1>1. (IF aux.request = "none" THEN request ELSE "confused")
        \in {"none", "rtc", "convert", "battery", "confused"}
  OBVIOUS
<1> QED
  BY <1>1 DEF QueueAux, AuxType

\* What a reading changes (analog_disc.c:75-190).
LEMMA TakeType ==
  ASSUME block \in [Message -> BlockType], aux \in AuxType,
         NEW m \in Message, NEW i \in Nat, Take(m, i)
  PROVE  /\ block' \in [Message -> BlockType]
         /\ aux' \in AuxType
         /\ adc' = TRUE
         /\ index' = i + 1
<1>1. Stored(block[m], i) \in BlockType
  BY StoredType
<1>2. aux' \in AuxType
  <2>1. aux.data \in {"junk", "rtc", "battery"}
    BY DEF AuxType
  <2> QED
    BY <2>1, QueueAuxType DEF Take, AuxRequest
<1> QED
  BY <1>1, <1>2 DEF Take, QueueAdc

\* What the end of a tick changes (os.c:29-37).
LEMMA ClockType ==
  ASSUME TypeOK, Clock
  PROVE  /\ settle' \in 0 .. Settle /\ pc' \in Location
         /\ busy' \in 0 .. ReadCount /\ overrun' \in BOOLEAN
         /\ UNCHANGED <<turn, start, session>>
<1>1. settle' \in 0 .. Settle
  BY SettleAssumption DEF TypeOK, Clock
<1>2. pc' \in Location
  BY DEF TypeOK, Clock, Location
<1>3. busy' \in 0 .. ReadCount
  BY ReadCountAssumption DEF TypeOK, Clock
<1>4. overrun' \in BOOLEAN
  BY DEF TypeOK, Clock
<1> QED
  BY <1>1, <1>2, <1>3, <1>4 DEF Clock

\* Types after a tick that takes a message.
LEMMA TickPrimeType == ASSUME TypeOK, Shape, TickPrime PROVE TypeOK'
<1>1. head \in Message
  BY HeadQueued DEF TickPrime
<1>2. /\ head' \in Message \cup {Null} /\ tail' \in Message \cup {Null}
      /\ next' \in [Message -> Message \cup {Null}]
  BY <1>1 DEF TickPrime, Pop, TypeOK
<1>3. state' \in [Message -> {"new", "success"} \cup Pending]
  BY <1>1 DEF TickPrime, TypeOK, Pending
<1>4. primed' \in BOOLEAN /\ gap' \in BOOLEAN /\ adc' \in BOOLEAN
  BY DEF TickPrime, TypeOK, Missed, QueueAdc
<1> QED
  BY <1>1, <1>2, <1>3, <1>4, ClockType, ReadCountAssumption DEF TickPrime,
     TypeOK

\* Types after a tick that ends a block and starts another.
LEMMA TickSwapType == ASSUME TypeOK, Shape, TickSwap PROVE TypeOK'
<1>1. head \in Message /\ current \in Message
  BY HeadQueued DEF TickSwap, TypeOK
<1>2. /\ head' \in Message \cup {Null} /\ tail' \in Message \cup {Null}
      /\ next' \in [Message -> Message \cup {Null}]
  BY <1>1 DEF TickSwap, Pop, TypeOK
<1>3. state' \in [Message -> {"new", "success"} \cup Pending]
  BY <1>1 DEF TickSwap, TypeOK, Pending
<1>4. primed' \in BOOLEAN /\ gap' \in BOOLEAN
  BY DEF TickSwap, TypeOK
<1>5. full' \in Seq(Message)
  BY <1>1 DEF TickSwap, TypeOK
<1>6. /\ block' \in [Message -> BlockType] /\ aux' \in AuxType
      /\ adc' = TRUE /\ index' = 1
  <2>1. Take(head, 0)
    BY DEF TickSwap
  <2>2. block' \in [Message -> BlockType] /\ aux' \in AuxType
    BY <1>1, <2>1, TakeType DEF TypeOK, BlockType, AuxType
  <2> QED
    BY <2>1, <2>2 DEF Take, QueueAdc
<1>7. index' \in 0 .. ReadCount
  BY <1>6, ReadCountAssumption
<1> QED
  BY <1>1, <1>2, <1>3, <1>4, <1>5, <1>6, <1>7, ClockType DEF TickSwap, TypeOK,
     BlockType, AuxType

\* Types after a reading: the index stays within the block.
LEMMA TickReadingType == ASSUME TypeOK, TickReading PROVE TypeOK'
<1>1. current \in Message /\ index \in Nat /\ index + 1 \in 0 .. ReadCount
  BY ReadCountAssumption DEF TickReading, TypeOK
<1>2. /\ block' \in [Message -> BlockType] /\ aux' \in AuxType
      /\ adc' = TRUE /\ index' = index + 1
  <2>1. block \in [Message -> BlockType] /\ aux \in AuxType
    BY DEF TypeOK, BlockType, AuxType
  <2> QED
    BY <1>1, <2>1, TakeType DEF TickReading
<1> QED
  BY <1>1, <1>2, ClockType DEF TickReading, TypeOK, BlockType, AuxType, device

\* Types after the end of a transfer.
LEMMA AdcDoneType == ASSUME TypeOK, AdcDone PROVE TypeOK'
<1>1. pc' \in Location
  BY DEF AdcDone, Wake, TypeOK, Location
<1>2. adc' \in BOOLEAN
  BY DEF AdcDone
<1> QED
  BY <1>1, <1>2 DEF AdcDone, TypeOK, device, history

\* Types after the end of an auxiliary transfer.
LEMMA AuxDoneType == ASSUME TypeOK, AuxDone PROVE TypeOK'
<1>1. pc' \in Location
  BY DEF AuxDone, Wake, TypeOK, Location
<1>2. aux \in AuxType
  BY DEF TypeOK, AuxType
<1>3. aux' \in AuxType
  <2>1. \/ (IF aux.request = "convert" THEN aux.data ELSE aux.request)
             \in {"junk", "rtc", "battery"}
        \/ aux.request = "confused" \/ aux.request = "none"
    BY <1>2 DEF AuxType
  <2>2. CASE aux' = [request |-> "none", ok |-> FALSE, data |-> "junk"]
    BY <2>2 DEF AuxType
  <2>3. CASE /\ aux.request # "confused"
             /\ aux' = [request |-> "none", ok |-> TRUE,
                         data |-> IF aux.request = "convert" THEN aux.data
                                  ELSE aux.request]
    <3>1. aux.request # "none"
      BY DEF AuxDone
    <3> QED
      BY <2>1, <2>3, <3>1 DEF AuxType
  <2> QED
    BY <2>2, <2>3 DEF AuxDone
<1> QED
  BY <1>1, <1>3 DEF AuxDone, TypeOK, device, history, AuxType

\* Types after a reset.
LEMMA ResetStackType == ASSUME TypeOK, ResetStack PROVE TypeOK'
<1>1. ZeroBlock \in BlockType
  BY DEF ZeroBlock, BlockType
<1>2. NoTransfer \in AuxType
  BY DEF NoTransfer, AuxType
<1>3. block' \in [Message -> BlockType] /\ aux' \in AuxType
  BY <1>1, <1>2 DEF ResetStack
<1>4. /\ index' \in 0 .. ReadCount /\ settle' \in 0 .. Settle
      /\ session' \in 0 .. Sessions /\ busy' \in 0 .. ReadCount
  BY ReadCountAssumption, SettleAssumption, SessionsAssumption DEF ResetStack
<1>5. /\ adc' \in BOOLEAN /\ start' \in BOOLEAN /\ primed' \in BOOLEAN
      /\ overrun' \in BOOLEAN /\ gap' \in BOOLEAN
  BY DEF ResetStack
<1>6. /\ head' \in Message \cup {Null} /\ tail' \in Message \cup {Null}
  /\ next' \in [Message -> Message \cup {Null}]
  /\ state' \in [Message -> {"new", "success"} \cup Pending]
  /\ current' \in Message \cup {Null}
  /\ pc' \in Location /\ turn' \in Message
  /\ full' \in Seq(Message)
  BY DEF ResetStack, Message, Location
<1> QED
  BY <1>3, <1>4, <1>5, <1>6 DEF TypeOK, BlockType, AuxType

\* Types after the start of the command.
LEMMA RecordStartType == ASSUME TypeOK, RecordStart PROVE TypeOK'
<1>1. /\ ZeroBlock \in BlockType
      /\ [ZeroBlock EXCEPT !.kind = "info"] \in BlockType
  BY DEF ZeroBlock, BlockType
<1>2. block' \in [Message -> BlockType]
  BY <1>1 DEF RecordStart
<1>3. settle' \in 0 .. Settle /\ session' \in 0 .. Sessions
  BY SettleAssumption, SessionsAssumption DEF RecordStart, TypeOK
<1>4. pc' \in Location
  BY DEF RecordStart, Goto, Location
<1>5. UNCHANGED <<device, current, index, adc, aux, turn, start, history>>
      /\ UNCHANGED <<head, tail, next, state>>
      /\ UNCHANGED <<full, primed, busy, overrun, gap>>
  BY DEF RecordStart, device, history
<1>6. /\ head' \in Message \cup {Null} /\ tail' \in Message \cup {Null}
      /\ next' \in [Message -> Message \cup {Null}]
      /\ state' \in [Message -> {"new", "success"} \cup Pending]
      /\ current' \in Message \cup {Null} /\ index' \in 0 .. ReadCount
      /\ adc' \in BOOLEAN /\ turn' \in Message /\ start' \in BOOLEAN
      /\ full' \in Seq(Message) /\ primed' \in BOOLEAN /\ busy' \in 0 .. ReadCount
      /\ overrun' \in BOOLEAN /\ gap' \in BOOLEAN
  BY <1>5 DEF TypeOK
<1>7. aux' \in AuxType
  BY <1>5 DEF TypeOK, AuxType
<1> QED
  BY <1>2, <1>3, <1>4, <1>6, <1>7 DEF TypeOK, BlockType, AuxType

\* Types after a message is queued.
LEMMA QueueAppendType == ASSUME TypeOK, QueueAppend PROVE TypeOK'
<1>1. head' \in Message \cup {Null} /\ tail' \in Message \cup {Null} 
  BY DEF QueueAppend, Link, TypeOK
<1>2. next' \in [Message -> Message \cup {Null}]
  BY DEF QueueAppend, Link, TypeOK
<1>3. turn' \in Message
  BY DEF QueueAppend, TypeOK, Message, Other
<1>4. pc' \in Location /\ start' \in BOOLEAN
  BY DEF QueueAppend, TypeOK, Location, Goto
<1>5. full' \in Seq(Message)
  <2>1. full' = <<>> \/ full' = full
    BY DEF QueueAppend, history
  <2>2. <<>> \in Seq(Message)
    OBVIOUS
  <2> QED
    BY <2>1, <2>2 DEF TypeOK
<1>7. primed' \in BOOLEAN /\ overrun' \in BOOLEAN /\ gap' \in BOOLEAN
  BY DEF QueueAppend, TypeOK, history
<1>6. busy' \in 0 .. ReadCount 
  BY ReadCountAssumption DEF QueueAppend, TypeOK, history
<1> QED
  BY <1>1, <1>2, <1>3, <1>4, <1>5, <1>6, <1>7 DEF QueueAppend, TypeOK, analog

\* Two messages to fill and the ticks to take and to end them are all there
\* can be.
LEMMA DrainBounds ==
  ASSUME TypeOK
  PROVE  /\ Drain \in Nat /\ Drain <= 2 * ReadCount + 2
         /\ Drain = 0 => current = Null /\ head = Null
<1>1. ReadCount \in Nat /\ index \in Nat /\ index <= ReadCount
  BY ReadCountAssumption DEF TypeOK
<1> QED
  BY <1>1 DEF Drain

\* Every tick brings the interrupt handler closer to having nothing left.
LEMMA DrainFalls ==
  ASSUME TypeOK, QueueWellFormed, Tick
  PROVE  Drain' \in Int /\ (Drain' = 0 \/ Drain' <= Drain - 1)
<1>1. ReadCount \in Nat /\ ReadCount > 0 /\ index \in Nat /\ index <= ReadCount
  BY ReadCountAssumption DEF TypeOK
<1>2. Shape
  BY DEF QueueWellFormed, Shape
<1>3. CASE TickIdle
  BY <1>3 DEF TickIdle, Drain, device
<1>4. CASE TickPrime
  BY <1>1, <1>2, <1>4, PopTakesHead, HeadQueued, NullAssumption
  DEF TickPrime, Drain
<1>5. CASE TickReading
  BY <1>1, <1>5 DEF TickReading, Take, Drain, device
<1>6. CASE TickSwap
  <2>1. head = tail
    BY <1>6 DEF TickSwap, QueueWellFormed, EmptyQueue, OneQueued, TwoQueued,
       Queued, TypeOK, Message, Other
  <2>2. head' = Null /\ current' = head
    BY <1>2, <1>6, <2>1, PopTakesHead DEF TickSwap
  <2>3. index' = 1 /\ head # Null /\ current # Null
    BY <1>6 DEF TickSwap, Take
  <2> QED
    BY <1>1, <2>2, <2>3 DEF Drain
<1>7. CASE TickDry
  BY <1>7 DEF TickDry, Drain
<1> QED
  BY <1>3, <1>4, <1>5, <1>6, <1>7 DEF Tick

\* While offset_search lasts, what the handler has left to do fits the time
\* left (record.c:234-236).
LEMMA TickDrained ==
  ASSUME TypeOK, QueueWellFormed, Drained, Tick
  PROVE  pc' = "search" => Drain' <= Settle - settle'
<1>1. SUFFICES ASSUME pc' = "search" PROVE Drain' <= Settle - settle'
  OBVIOUS
<1>2. Clock
  BY DEF Tick, TickIdle, TickPrime, TickReading, TickSwap, TickDry
<1>3. /\ pc = "search" /\ Settle \in Nat /\ settle \in 0 .. Settle
      /\ settle' = IF settle < Settle THEN settle + 1 ELSE settle
  BY <1>1, <1>2, SettleAssumption DEF Clock, TypeOK
<1>4. Drain \in Nat /\ Drain <= Settle - settle
  BY <1>3, DrainBounds DEF Drained
<1>5. Drain' \in Int /\ (Drain' = 0 \/ Drain' <= Drain - 1)
  BY DrainFalls
<1> QED
  BY <1>3, <1>4, <1>5

\* Clearing the pointer of a message that is in no list leaves the lists
\* alone (device.c:36).
LEMMA PrepareKeeps ==
  ASSUME TypeOK, Shape, NEW m \in Message, ~Queued(m),
         next' = [next EXCEPT ![m] = Null], UNCHANGED <<head, tail>>
  PROVE  /\ Shape'
         /\ \A k \in Message : Queued(k)' <=> Queued(k)
         /\ EmptyQueue' <=> EmptyQueue
<1>1. next \in [Message -> Message \cup {Null}] /\ Null \notin Message
  BY NullAssumption DEF TypeOK
<1>2. EmptyQueue' <=> EmptyQueue
  BY DEF EmptyQueue
<1>3. \A k \in Message :
        (OneQueued(k)' <=> OneQueued(k)) /\ (TwoQueued(k)' <=> TwoQueued(k))
  BY <1>1 DEF Shape, EmptyQueue, Queued, OneQueued, TwoQueued, Message, Other
<1>4. \A k \in Message : Queued(k)' <=> Queued(k)
  BY <1>3 DEF Queued, Message, Other
<1> QED
  BY <1>2, <1>3, <1>4 DEF Shape

\* The message in hand is free, so the queue does not change
\* (device.c:36-37).
LEMMA QueuePrepareQueue ==
  ASSUME SettleIsLong, IInv, QueuePrepare
  PROVE  /\ QueueWellFormed' /\ StateAgrees' /\ Ownership'
         /\ Detached' /\ Starting' /\ Drained'
<1>1. /\ TypeOK /\ QueueWellFormed /\ StateAgrees /\ Ownership
      /\ Starting /\ Drained
      /\ Shape /\ turn \in Message /\ pc = "prepare"
  BY DEF IInv, QueueWellFormed, Shape, TypeOK, QueuePrepare
<1>2. current # turn /\ ~Queued(turn)
  BY <1>1 DEF Ownership, MainHolds
<1>3. /\ Shape' /\ \A k \in Message : Queued(k)' <=> Queued(k)
      /\ EmptyQueue' <=> EmptyQueue
  BY <1>1, <1>2, PrepareKeeps DEF QueuePrepare
<1>4. /\ UNCHANGED <<current, turn, start, settle>>
      /\ pc' = "append" /\ current \in Message \cup {Null}
  BY <1>1 DEF QueuePrepare, Goto, analog, TypeOK
<1>5. QueueWellFormed'
  BY <1>1, <1>3, <1>4 DEF QueueWellFormed, Shape
<1>6. StateAgrees'
  BY <1>1, <1>2, <1>3, <1>4 DEF StateAgrees, QueuePrepare, TypeOK
<1>7. Ownership' /\ Detached'
  BY <1>1, <1>2, <1>3, <1>4 DEF Ownership, MainHolds, Detached, QueuePrepare,
     TypeOK
<1>8. Starting' /\ Drained'
  BY <1>1, <1>3, <1>4 DEF Starting, Drained
<1> QED BY <1>5, <1>6, <1>7, <1>8

\* A reset leaves an empty queue.
LEMMA ResetStackQueue ==
  ASSUME SettleIsLong, IInv, ResetStack
  PROVE  QueueWellFormed' /\ StateAgrees'
<1>1. EmptyQueue' /\ current' = Null
  BY DEF ResetStack, EmptyQueue
<1>2. \A m \in Message : ~Queued(m)'
  BY <1>1, NullAssumption DEF EmptyQueue, Queued, OneQueued, TwoQueued,
     Message, Other
<1> QED
  BY <1>1, <1>2, NullAssumption DEF QueueWellFormed, StateAgrees

\* The time offset_search lasts is enough for all the handler may have left.
LEMMA RecordStartDrained ==
  ASSUME SettleIsLong, IInv, RecordStart
  PROVE  Starting' /\ Drained'
<1>1. /\ pc' = "search" /\ settle' = 0
      /\ UNCHANGED <<head, tail, current, index, start>>
  BY DEF RecordStart, Goto, device
<1>2. Drain' = Drain
  BY <1>1 DEF Drain
<1>3. Drain <= Settle - 0
  BY DrainBounds, ReadCountAssumption, SettleAssumption DEF SettleIsLong, IInv
<1>4. ~start
  BY DEF IInv, Starting, RecordStart
<1> QED
  BY <1>1, <1>2, <1>3, <1>4 DEF Starting, Drained

\* No time is left, so nothing is left to do.
LEMMA OffsetsFoundDrained ==
  ASSUME SettleIsLong, IInv, OffsetsFound
  PROVE  Starting' /\ Drained'
<1>1. /\ pc = "search" /\ settle = Settle /\ pc' = "info"
      /\ UNCHANGED <<head, tail, current, start>>
  BY DEF OffsetsFound, Goto, device, analog
<1>2. Drain = 0
  BY <1>1, DrainBounds, SettleAssumption DEF IInv, Drained
<1>3. current = Null /\ head = Null
  BY <1>2, DrainBounds DEF IInv
<1>4. EmptyQueue
  BY <1>3, NullAssumption DEF IInv, QueueWellFormed, EmptyQueue, OneQueued,
     TwoQueued
<1> QED
  BY <1>1, <1>3, <1>4 DEF Starting, Drained, EmptyQueue, IInv

\* Once both messages are queued the recording has started.
LEMMA QueueAppendDrained ==
  ASSUME SettleIsLong, IInv, QueueAppend
  PROVE  Starting' /\ Drained'
<1>1. start' <=> start /\ turn = 0
  BY DEF QueueAppend
<1>2. turn' = 1 - turn /\ turn \in 0 .. 1
  BY DEF QueueAppend, Other, IInv, TypeOK, Message
<1>3. /\ start' => pc' = "prepare"
      /\ pc' \in {"prepare", "loop", "switch"}
      /\ pc' = "prepare" => turn = 0
  BY <1>1, <1>2 DEF QueueAppend, Goto
<1> QED
  BY <1>1, <1>2, <1>3 DEF Starting, Drained

\* A message is taken only where one may wait.
LEMMA TickPrimeDrained ==
  ASSUME SettleIsLong, IInv, TickPrime
  PROVE  Starting' /\ Drained'
<1>1. /\ pc' = pc \/ (pc' = "wait" /\ pc = "asleep")
      /\ turn' = turn /\ start' = start
  BY DEF TickPrime, Clock
<1>2. head # Null
  BY DEF TickPrime
<1> QED
  BY <1>1, <1>2, TickDrained DEF Starting, Drained, IInv, Tick, EmptyQueue

----------------------------------------------------------------------------
(* The initial state, and one lemma per action *)

\* Nothing is queued and nothing is being filled.
LEMMA InitInv == SettleIsLong /\ Init => IInv
<1> SUFFICES ASSUME SettleIsLong, Init PROVE IInv
  OBVIOUS
<1>1. TypeOK
  <2>1. block \in [Message -> BlockType]
    BY DEF Init, ZeroBlock, BlockType
  <2>2. aux \in AuxType
    BY DEF Init, NoTransfer, AuxType
  <2>3. /\ index \in 0 .. ReadCount /\ settle \in 0 .. Settle
        /\ session \in 0 .. Sessions /\ busy \in 0 .. ReadCount
    BY ReadCountAssumption, SettleAssumption, SessionsAssumption DEF Init
  <2>4. /\ adc \in BOOLEAN /\ start \in BOOLEAN /\ primed \in BOOLEAN
        /\ overrun \in BOOLEAN /\ gap \in BOOLEAN
    BY DEF Init
  <2>5. /\ head \in Message \cup {Null} /\ tail \in Message \cup {Null}
        /\ next \in [Message -> Message \cup {Null}]
        /\ state \in [Message -> {"new", "success"} \cup Pending]
        /\ current \in Message \cup {Null}
        /\ pc \in Location /\ turn \in Message
    BY DEF Init, Message, Location
  <2>6. full \in Seq(Message)
    BY DEF Init
  <2> QED
    BY <2>1, <2>2, <2>3, <2>4, <2>5, <2>6 DEF TypeOK, BlockType, AuxType
<1>2. EmptyQueue /\ current = Null
  BY DEF Init, EmptyQueue
<1>3. \A m \in Message : ~Queued(m)
  BY <1>2, EmptyHasNone
<1>4. QueueWellFormed
  BY <1>2 DEF QueueWellFormed
<1>5. StateAgrees
  BY <1>2, <1>3, NullAssumption DEF StateAgrees
<1>6. pc = "shell" /\ ~start
  BY DEF Init
<1>7. Ownership /\ NoSleepOnCompleted /\ Detached /\ Starting /\ Drained
  BY <1>6 DEF Ownership, MainHolds, NoSleepOnCompleted, Detached, Starting,
     Drained
<1> QED
  BY <1>1, <1>4, <1>5, <1>7 DEF IInv

\* A new run of the command gives the interrupt handler Settle ticks to end
\* what the last one left (record.c:197-199, 234-236).
LEMMA RecordStartKeeps == ASSUME SettleIsLong, IInv, RecordStart PROVE IInv'
<1>1. TypeOK'
  BY RecordStartType DEF IInv
<1>2. QueueWellFormed' /\ StateAgrees'
  BY QueueKept DEF RecordStart, IInv, QueueWellFormed, StateAgrees, Shape,
     TypeOK, device
<1>3. Ownership' /\ Detached'
  BY DEF RecordStart, IInv, Ownership, MainHolds, Detached, Goto
<1>4. NoSleepOnCompleted'
  BY DEF RecordStart, IInv, NoSleepOnCompleted, Goto
<1>5. Starting' /\ Drained'
  BY RecordStartDrained
<1> QED
  BY <1>1, <1>2, <1>3, <1>4, <1>5 DEF IInv

\* By the end of offset_search it has nothing left (record.c:234-236).
LEMMA OffsetsFoundKeeps ==
  ASSUME SettleIsLong, IInv, OffsetsFound
  PROVE  IInv'
<1>1. TypeOK'
  BY DEF OffsetsFound, IInv, TypeOK, Location, device, analog, history, Goto
<1>2. QueueWellFormed' /\ StateAgrees'
  BY QueueKept DEF OffsetsFound, IInv, QueueWellFormed, StateAgrees, Shape,
     TypeOK, device, analog
<1>3. Ownership' /\ Detached'
  BY DEF OffsetsFound, IInv, Ownership, MainHolds, Detached, Goto
<1>4. NoSleepOnCompleted'
  BY DEF OffsetsFound, IInv, NoSleepOnCompleted, Goto
<1>5. Starting' /\ Drained'
  BY OffsetsFoundDrained
<1> QED
  BY <1>1, <1>2, <1>3, <1>4, <1>5 DEF IInv

\* Both messages are free to be queued (record.c:237-250).
LEMMA WriteInfoKeeps == ASSUME SettleIsLong, IInv, WriteInfo PROVE IInv'
<1>1. TypeOK'
  BY DEF WriteInfo, IInv, TypeOK, Location, Message, device, analog, history,
     Goto
<1>2. QueueWellFormed' /\ StateAgrees'
  BY QueueKept DEF WriteInfo, IInv, QueueWellFormed, StateAgrees, Shape,
     TypeOK, device, analog
<1>3. Ownership' /\ Detached'
  BY QueueKept, NullAssumption, EmptyHasNone DEF WriteInfo, IInv, Ownership,
     Detached, Drained, device, analog, Goto
<1>4. NoSleepOnCompleted'
  BY DEF WriteInfo, IInv, NoSleepOnCompleted, Goto
<1>5. Starting' /\ Drained'
  BY QueueKept DEF WriteInfo, IInv, Starting, Drained, device, analog, Goto
<1> QED
  BY <1>1, <1>2, <1>3, <1>4, <1>5 DEF IInv

\* The message in hand is in no list, so clearing its pointer cuts none
\* (device.c:36-37).
LEMMA QueuePrepareKeeps ==
  ASSUME SettleIsLong, IInv, QueuePrepare
  PROVE  IInv'
<1>1. QueueWellFormed' /\ StateAgrees' /\ Ownership' /\ Detached' /\
      Starting' /\ Drained'
  BY QueuePrepareQueue
<1>2. TypeOK'
  BY DEF QueuePrepare, IInv, TypeOK, Location, Pending, analog, history, Goto
<1>3. NoSleepOnCompleted'
  BY DEF QueuePrepare, IInv, NoSleepOnCompleted, Goto
<1> QED
  BY <1>1, <1>2, <1>3 DEF IInv

\* The message in hand goes behind the others (device.c:45-60).
LEMMA QueueAppendKeeps == ASSUME SettleIsLong, IInv, QueueAppend PROVE IInv'
<1>1. TypeOK'
  BY QueueAppendType DEF IInv
<1>2. QueueWellFormed' /\ StateAgrees'
  BY LinkAdds DEF QueueAppend, IInv, QueueWellFormed, StateAgrees, Shape,
     TypeOK, Ownership, MainHolds, Detached, analog
<1>3. Ownership' /\ Detached'
  BY LinkAdds, EmptyHasNone, NullAssumption DEF QueueAppend, IInv, Shape,
     Message, Other, Ownership, MainHolds, Detached, Drained, analog, Goto
<1>4. NoSleepOnCompleted'
  BY DEF QueueAppend, IInv, NoSleepOnCompleted, Goto
<1>5. Starting' /\ Drained'
  BY QueueAppendDrained
<1> QED
  BY <1>1, <1>2, <1>3, <1>4, <1>5 DEF IInv

\* The loop moves on (record.c:256-261).
LEMMA LoopWaitKeeps == ASSUME SettleIsLong, IInv, LoopWait PROVE IInv'
<1>1. TypeOK'
  BY DEF LoopWait, IInv, TypeOK, Location, device, analog, history, Goto
<1>2. QueueWellFormed' /\ StateAgrees'
  BY QueueKept DEF LoopWait, IInv, QueueWellFormed, StateAgrees, Shape,
     TypeOK, device, analog
<1>3. Ownership' /\ Detached'
  BY DEF LoopWait, IInv, Ownership, MainHolds, Detached, Goto
<1>4. NoSleepOnCompleted'
  BY DEF LoopWait, IInv, NoSleepOnCompleted, Goto
<1>5. Starting' /\ Drained'
  BY DEF LoopWait, IInv, Starting, Drained, Goto
<1> QED
  BY <1>1, <1>2, <1>3, <1>4, <1>5 DEF IInv

\* The CPU sleeps on a pending message only, and what it wakes for is
\* complete and in no list (sleep.c:43-63).
LEMMA SleepCheckKeeps == ASSUME SettleIsLong, IInv, SleepCheck PROVE IInv'
<1>1. TypeOK'
  BY ReadCountAssumption DEF SleepCheck, IInv, TypeOK, Location, device,
     analog, Goto
<1>2. QueueWellFormed' /\ StateAgrees'
  BY QueueKept DEF SleepCheck, IInv, QueueWellFormed, StateAgrees, Shape,
     TypeOK, device, analog
<1>3. Ownership' /\ Detached'
  BY QueueKept DEF SleepCheck, IInv, StateAgrees, Ownership, MainHolds,
     Detached, Pending, device, analog, Goto
<1>4. NoSleepOnCompleted'
  BY DEF SleepCheck, IInv, NoSleepOnCompleted, device, Goto
<1>5. Starting' /\ Drained'
  BY DEF SleepCheck, IInv, Starting, Drained, Goto
<1> QED
  BY <1>1, <1>2, <1>3, <1>4, <1>5 DEF IInv

\* Stamping changes no pointer (record.c:263-284).
LEMMA StampKeeps == ASSUME SettleIsLong, IInv, Stamp PROVE IInv'
<1>1. TypeOK'
  BY DEF Stamp, IInv, TypeOK, Location, device, analog, history, Goto
<1>2. QueueWellFormed' /\ StateAgrees'
  BY QueueKept DEF Stamp, IInv, QueueWellFormed, StateAgrees, Shape, TypeOK,
     device, analog
<1>3. Ownership' /\ Detached'
  BY QueueKept DEF Stamp, IInv, Ownership, MainHolds, Detached, device,
     analog, Goto
<1>4. NoSleepOnCompleted'
  BY DEF Stamp, IInv, NoSleepOnCompleted, Goto
<1>5. Starting' /\ Drained'
  BY DEF Stamp, IInv, Starting, Drained, Goto
<1> QED
  BY <1>1, <1>2, <1>3, <1>4, <1>5 DEF IInv

\* Nor does writing (record.c:286-289).
LEMMA WriteBlockKeeps == ASSUME SettleIsLong, IInv, WriteBlock PROVE IInv'
<1>1. TypeOK'
  BY DEF WriteBlock, IInv, TypeOK, Location, device, analog, Goto
<1>2. QueueWellFormed' /\ StateAgrees'
  BY QueueKept DEF WriteBlock, IInv, QueueWellFormed, StateAgrees, Shape,
     TypeOK, device, analog
<1>3. Ownership' /\ Detached'
  BY QueueKept DEF WriteBlock, IInv, Ownership, MainHolds, Detached, device,
     analog, Goto
<1>4. NoSleepOnCompleted'
  BY DEF WriteBlock, IInv, NoSleepOnCompleted, Goto
<1>5. Starting' /\ Drained'
  BY DEF WriteBlock, IInv, Starting, Drained, Goto
<1> QED
  BY <1>1, <1>2, <1>3, <1>4, <1>5 DEF IInv

\* The switch is off (record.c:310-315).
LEMMA SwitchOpenKeeps == ASSUME SettleIsLong, IInv, SwitchOpen PROVE IInv'
<1>1. TypeOK'
  BY DEF SwitchOpen, IInv, TypeOK, Location, device, analog, history, Goto
<1>2. QueueWellFormed' /\ StateAgrees'
  BY QueueKept DEF SwitchOpen, IInv, QueueWellFormed, StateAgrees, Shape,
     TypeOK, device, analog
<1>3. Ownership' /\ Detached'
  BY DEF SwitchOpen, IInv, Ownership, MainHolds, Detached, Goto
<1>4. NoSleepOnCompleted'
  BY DEF SwitchOpen, IInv, NoSleepOnCompleted, Goto
<1>5. Starting' /\ Drained'
  BY DEF SwitchOpen, IInv, Starting, Drained, Goto
<1> QED
  BY <1>1, <1>2, <1>3, <1>4, <1>5 DEF IInv

\* A tick with nothing to fill (analog_disc.c:39-58).
LEMMA TickIdleKeeps == ASSUME SettleIsLong, IInv, TickIdle PROVE IInv'
<1>1. TypeOK'
  BY ReadCountAssumption, ClockType DEF TickIdle, IInv, TypeOK, device, Missed
<1>2. QueueWellFormed' /\ StateAgrees'
  BY QueueKept DEF TickIdle, IInv, QueueWellFormed, StateAgrees, Shape, device
<1>3. Ownership' /\ Detached'
  BY QueueKept DEF TickIdle, IInv, Ownership, MainHolds, Detached, device,
     Clock
<1>4. NoSleepOnCompleted'
  BY DEF TickIdle, IInv, NoSleepOnCompleted, Clock
<1>5. Starting' /\ Drained'
  BY QueueKept, TickDrained DEF TickIdle, IInv, Starting, Drained, device,
     Clock, Tick
<1> QED
  BY <1>1, <1>2, <1>3, <1>4, <1>5 DEF IInv

\* A tick that takes the first message (analog_disc.c:39-58).
LEMMA TickPrimeKeeps == ASSUME SettleIsLong, IInv, TickPrime PROVE IInv'
<1>1. TypeOK'
  BY TickPrimeType DEF IInv, QueueWellFormed, Shape
<1>2. QueueWellFormed' /\ StateAgrees'
  BY PopTakesHead DEF TickPrime, IInv, QueueWellFormed, StateAgrees, Shape,
     TypeOK
<1>3. Ownership' /\ Detached'
  BY PopTakesHead, HeadQueued DEF TickPrime, IInv, QueueWellFormed, Shape,
     Ownership, MainHolds, Detached, Pop, Clock
<1>4. NoSleepOnCompleted'
  BY DEF TickPrime, IInv, NoSleepOnCompleted, Clock
<1>5. Starting' /\ Drained'
  BY TickPrimeDrained
<1> QED
  BY <1>1, <1>2, <1>3, <1>4, <1>5 DEF IInv

\* A tick that stores a reading (analog_disc.c:75-190).
LEMMA TickReadingKeeps == ASSUME SettleIsLong, IInv, TickReading PROVE IInv'
<1>1. TypeOK'
  BY TickReadingType DEF IInv
<1>2. QueueWellFormed' /\ StateAgrees'
  BY QueueKept DEF TickReading, IInv, QueueWellFormed, StateAgrees, Shape,
     TypeOK, device
<1>3. Ownership' /\ Detached'
  BY QueueKept DEF TickReading, IInv, Ownership, MainHolds, Detached, device,
     Clock
<1>4. NoSleepOnCompleted'
  BY DEF TickReading, IInv, NoSleepOnCompleted, Clock
<1>5. Starting' /\ Drained'
  BY TickDrained DEF TickReading, IInv, Starting, Drained, Clock, Tick
<1> QED
  BY <1>1, <1>2, <1>3, <1>4, <1>5 DEF IInv

\* A tick that ends a block and starts another (analog_disc.c:63-73).
LEMMA TickSwapKeeps == ASSUME SettleIsLong, IInv, TickSwap PROVE IInv'
<1>1. TypeOK'
  BY TickSwapType DEF IInv, QueueWellFormed, Shape
<1>2. QueueWellFormed' /\ StateAgrees'
  BY PopTakesHead DEF TickSwap, IInv, QueueWellFormed, StateAgrees, Shape,
     TypeOK
<1>3. Ownership' /\ Detached'
  BY PopTakesHead, HeadQueued DEF TickSwap, IInv, QueueWellFormed, Shape,
     TypeOK, Ownership, MainHolds, Detached, Pop, Clock
<1>4. NoSleepOnCompleted'
  BY DEF TickSwap, IInv, NoSleepOnCompleted, Clock
<1>5. Starting' /\ Drained'
  BY TickDrained DEF TickSwap, IInv, Starting, Drained, Clock, Tick
<1> QED
  BY <1>1, <1>2, <1>3, <1>4, <1>5 DEF IInv

\* A tick that ends a block and finds no other (analog_disc.c:63-73).
LEMMA TickDryKeeps == ASSUME SettleIsLong, IInv, TickDry PROVE IInv'
<1>1. TypeOK'
  BY ReadCountAssumption, ClockType DEF TickDry, IInv, TypeOK, Missed
<1>2. QueueWellFormed' /\ StateAgrees'
  BY QueueKept, NullAssumption DEF TickDry, IInv, QueueWellFormed,
     StateAgrees, Shape
<1>3. Ownership' /\ Detached'
  BY QueueKept, NullAssumption DEF TickDry, IInv, TypeOK, Ownership,
     MainHolds, Detached, Clock
<1>4. NoSleepOnCompleted'
  BY DEF TickDry, IInv, NoSleepOnCompleted, Clock
<1>5. Starting' /\ Drained'
  BY TickDrained DEF TickDry, IInv, Starting, Drained, Clock, Tick
<1> QED
  BY <1>1, <1>2, <1>3, <1>4, <1>5 DEF IInv

\* The end of a transfer wakes the CPU (master.c:126-280).
LEMMA AdcDoneKeeps == ASSUME SettleIsLong, IInv, AdcDone PROVE IInv'
<1>1. TypeOK'
  BY AdcDoneType DEF IInv
<1>2. QueueWellFormed' /\ StateAgrees'
  BY QueueKept DEF AdcDone, IInv, QueueWellFormed, StateAgrees, Shape, TypeOK,
     device
<1>3. Ownership' /\ Detached'
  BY QueueKept DEF AdcDone, IInv, Ownership, MainHolds, Detached, device, Wake
<1>4. NoSleepOnCompleted'
  BY DEF AdcDone, IInv, NoSleepOnCompleted, Wake
<1>5. Starting' /\ Drained'
  BY QueueKept DEF AdcDone, IInv, Starting, Drained, Drain, device, Wake
<1> QED
  BY <1>1, <1>2, <1>3, <1>4, <1>5 DEF IInv

\* So does the end of an auxiliary transfer (master.c:126-280).
LEMMA AuxDoneKeeps == ASSUME SettleIsLong, IInv, AuxDone PROVE IInv'
<1>1. TypeOK'
  BY AuxDoneType DEF IInv
<1>2. QueueWellFormed' /\ StateAgrees'
  BY QueueKept DEF AuxDone, IInv, QueueWellFormed, StateAgrees, Shape, TypeOK,
     device
<1>3. Ownership' /\ Detached'
  BY QueueKept DEF AuxDone, IInv, Ownership, MainHolds, Detached, device, Wake
<1>4. NoSleepOnCompleted'
  BY DEF AuxDone, IInv, NoSleepOnCompleted, Wake
<1>5. Starting' /\ Drained'
  BY QueueKept DEF AuxDone, IInv, Starting, Drained, Drain, device, Wake
<1> QED
  BY <1>1, <1>2, <1>3, <1>4, <1>5 DEF IInv

\* And so does any other interrupt (sleep.c:43-63).
LEMMA OtherInterruptKeeps ==
  ASSUME SettleIsLong, IInv, OtherInterrupt
  PROVE  IInv'
<1>1. TypeOK'
  BY DEF OtherInterrupt, IInv, TypeOK, Location, device, analog, history
<1>2. QueueWellFormed' /\ StateAgrees'
  BY QueueKept DEF OtherInterrupt, IInv, QueueWellFormed, StateAgrees, Shape,
     TypeOK, device, analog
<1>3. Ownership' /\ Detached'
  BY DEF OtherInterrupt, IInv, Ownership, MainHolds, Detached
<1>4. NoSleepOnCompleted'
  BY DEF OtherInterrupt, IInv, NoSleepOnCompleted
<1>5. Starting' /\ Drained'
  BY DEF OtherInterrupt, IInv, Starting, Drained
<1> QED
  BY <1>1, <1>2, <1>3, <1>4, <1>5 DEF IInv

\* The command returns with both messages where they are (record.c:226-231,
\* 317-319).
LEMMA QuitKeeps == ASSUME SettleIsLong, IInv, Quit PROVE IInv'
<1>1. TypeOK'
  BY DEF Quit, IInv, TypeOK, Location, device, analog, history, Goto
<1>2. QueueWellFormed' /\ StateAgrees'
  BY QueueKept DEF Quit, IInv, QueueWellFormed, StateAgrees, Shape, TypeOK,
     device, analog
<1>3. Ownership' /\ Detached'
  BY DEF Quit, IInv, Ownership, MainHolds, Detached, Goto
<1>4. NoSleepOnCompleted'
  BY DEF Quit, IInv, NoSleepOnCompleted, Goto
<1>5. Starting' /\ Drained'
  BY DEF Quit, IInv, Starting, Drained, Goto
<1> QED
  BY <1>1, <1>2, <1>3, <1>4, <1>5 DEF IInv

\* The command returns with the message in hand not queued
\* (record.c:321-338).
LEMMA WriteFailsKeeps == ASSUME SettleIsLong, IInv, WriteFails PROVE IInv'
<1>1. TypeOK'
  BY DEF WriteFails, IInv, TypeOK, Location, device, analog, history, Goto
<1>2. QueueWellFormed' /\ StateAgrees'
  BY QueueKept DEF WriteFails, IInv, QueueWellFormed, StateAgrees, Shape,
     TypeOK, device, analog
<1>3. Ownership' /\ Detached'
  BY DEF WriteFails, IInv, Ownership, MainHolds, Detached, Goto
<1>4. NoSleepOnCompleted'
  BY DEF WriteFails, IInv, NoSleepOnCompleted, Goto
<1>5. Starting' /\ Drained'
  BY DEF WriteFails, IInv, Starting, Drained, Goto
<1> QED
  BY <1>1, <1>2, <1>3, <1>4, <1>5 DEF IInv

\* A reset empties the queue (device.c:26-30).
LEMMA ResetStackKeeps == ASSUME SettleIsLong, IInv, ResetStack PROVE IInv'
<1>1. TypeOK'
  BY ResetStackType DEF IInv
<1>2. QueueWellFormed' /\ StateAgrees'
  BY ResetStackQueue
<1>3. Ownership' /\ Detached'
  BY DEF ResetStack, IInv, Ownership, MainHolds, Detached
<1>4. NoSleepOnCompleted'
  BY DEF ResetStack, IInv, NoSleepOnCompleted
<1>5. Starting' /\ Drained'
  BY DEF ResetStack, IInv, Starting, Drained
<1> QED
  BY <1>1, <1>2, <1>3, <1>4, <1>5 DEF IInv

\* Every step of the program keeps the invariant.
LEMMA Inductive == ASSUME SettleIsLong, IInv, [Next]_vars PROVE IInv'
<1>1. CASE UNCHANGED vars
  BY <1>1 DEF vars, device, analog, main, history, IInv, TypeOK,
     QueueWellFormed, EmptyQueue, OneQueued, TwoQueued, Queued, Ownership,
     MainHolds, NoSleepOnCompleted, StateAgrees, Detached, Starting, Drained,
     Drain
<1>2. CASE Tick
  BY <1>2, TickIdleKeeps, TickPrimeKeeps, TickReadingKeeps, TickSwapKeeps,
     TickDryKeeps DEF Tick
<1>3. CASE MainStep
  BY <1>3, RecordStartKeeps, OffsetsFoundKeeps, WriteInfoKeeps,
     QueuePrepareKeeps, QueueAppendKeeps, LoopWaitKeeps, SleepCheckKeeps,
     StampKeeps, WriteBlockKeeps, SwitchOpenKeeps DEF MainStep
<1>4. CASE AdcDone \/ AuxDone \/ OtherInterrupt
  BY <1>4, AdcDoneKeeps, AuxDoneKeeps, OtherInterruptKeeps
<1>5. CASE Quit \/ WriteFails \/ ResetStack
  BY <1>5, QuitKeeps, WriteFailsKeeps, ResetStackKeeps
<1> QED
  BY <1>1, <1>2, <1>3, <1>4, <1>5 DEF Next

----------------------------------------------------------------------------
(* The theorems *)

\* The invariant holds throughout, for every number of readings and sessions.
THEOREM Invariance == ASSUME SettleIsLong PROVE Spec => []IInv
<1>1. IInv /\ [Next]_vars => IInv'
  BY Inductive
<1>2. Init => IInv
  BY InitInv
<1> QED
  BY <1>1, <1>2, PTL DEF Spec

\* The message queue is a list of distinct messages at every step of either
\* actor (device.c:32-92), though its first two assignments are made with
\* interrupts enabled (device.c:36-37).
THEOREM QueueIsAList == ASSUME SettleIsLong PROVE Spec => []QueueWellFormed
<1>1. IInv => QueueWellFormed
  BY DEF IInv
<1> QED
  BY <1>1, Invariance, PTL

\* No buffer is written by the interrupt handler while the main thread
\* stamps or writes it (record.c:263-289, analog_disc.c:75-118).
THEOREM BuffersAreOwned == ASSUME SettleIsLong PROVE Spec => []Ownership
<1>1. IInv => Ownership
  BY DEF IInv
<1> QED
  BY <1>1, Invariance, PTL

\* The CPU never goes to sleep on a message that has been completed,
\* whenever the completing tick comes (sleep.c:47-58).
THEOREM NoLostWakeup == ASSUME SettleIsLong PROVE Spec => []NoSleepOnCompleted
<1>1. IInv => NoSleepOnCompleted
  BY DEF IInv
<1> QED
  BY <1>1, Invariance, PTL

\* Every variable keeps its type: in particular the index never passes the
\* end of a buffer (analog_disc.c:63, 104-110).
THEOREM TypeCorrect == ASSUME SettleIsLong PROVE Spec => []TypeOK
<1>1. IInv => TypeOK
  BY DEF IInv
<1> QED
  BY <1>1, Invariance, PTL

----------------------------------------------------------------------------
(* Headers *)

\* A transfer ends once, with what its request asks for; index tells which
\* request was the last.
AuxInStep ==
  /\ aux.ok => aux.request = "none"
  /\ index = 1 => /\ aux.request \in {"none", "rtc", "confused"}
                  /\ aux.ok => aux.data = "rtc"
  /\ index = 3 => /\ aux.request \in {"none", "battery", "confused"}
                  /\ aux.ok => aux.data = "battery"

\* An untainted block has the part of the header its readings have passed.
HeaderSoFar(m) ==
  block[m].kind = "data" /\ ~block[m].tainted =>
    IF m = current /\ index \in 1 .. 3
    THEN /\ block[m].pairs = index \div 2
         /\ index > 1 => block[m].header = "rtc"
    ELSE block[m].header = "both"

\* What a header can be told from.
HeaderTyped ==
  /\ head \in Message \cup {Null} /\ next \in [Message -> Message \cup {Null}]
  /\ current \in Message \cup {Null}
  /\ index \in 0 .. ReadCount
  /\ block \in [Message -> BlockType]
  /\ aux \in AuxType

HInv ==
  /\ HeaderTyped /\ AuxInStep
  /\ ReadCount >= 4 => \A m \in Message : HeaderSoFar(m)

----------------------------------------------------------------------------
(* The line of blocks *)

\* Where a message is that the main thread does not hold: full, being filled
\* or queued; and both of them, with m before the other.
OneOut(m) ==
  \/ full = <<m>> /\ current = Null /\ EmptyQueue
  \/ full = <<>>  /\ current = m    /\ EmptyQueue
  \/ full = <<>>  /\ current = Null /\ OneQueued(m)

TwoOut(m) ==
  \/ full = <<m, Other(m)>> /\ current = Null     /\ EmptyQueue
  \/ full = <<m>>           /\ current = Other(m) /\ EmptyQueue
  \/ full = <<m>>           /\ current = Null     /\ OneQueued(Other(m))
  \/ full = <<>>            /\ current = m        /\ OneQueued(Other(m))
  \/ full = <<>>            /\ current = Null     /\ TwoQueued(m)

\* The main thread is at turn, and the handler gives it the blocks in turn.
InLine ==
  Recording =>
    IF pc \in {"prepare", "append"} THEN OneOut(Other(turn))
    ELSE TwoOut(turn) /\ (pc \in {"stamp", "write"} => full # <<>>)

\* A block is complete when it is full, and as far as index while it is filled.
Complete(m) == /\ block[m].kind = "data" /\ block[m].pairs = ReadCount \div 2
               /\ state[m] = "success"
InFull(m) == \E i \in DOMAIN full : full[i] = m
Filled ==
  Recording =>
    /\ current # Null /\ index > 0 =>
         block[current].kind = "data" /\ block[current].pairs = index \div 2
    /\ \A m \in Message : InFull(m) => Complete(m)

\* The handler is without another buffer only while the main thread is awake,
\* and comes to have none at all only when it was awake for a whole block.
Late ==
  /\ Recording =>
       /\ current # Null /\ EmptyQueue => busy >= index - 1 \/ overrun
       /\ primed /\ current = Null => overrun
  /\ gap => overrun

RInv == IInv /\ InLine /\ Filled /\ Late

----------------------------------------------------------------------------
(* Headers: the steps *)

\* No buffer holds data at first.
LEMMA InitHeaders == Init => HInv
<1> SUFFICES ASSUME Init PROVE HInv
  OBVIOUS
<1>1. ZeroBlock \in BlockType /\ NoTransfer \in AuxType
  BY DEF ZeroBlock, BlockType, NoTransfer, AuxType
<1>2. HeaderTyped
  BY <1>1, ReadCountAssumption DEF Init, HeaderTyped
<1>3. AuxInStep
  BY DEF Init, AuxInStep, NoTransfer
<1>4. \A m \in Message : HeaderSoFar(m)
  BY DEF Init, HeaderSoFar, ZeroBlock
<1> QED
  BY <1>2, <1>3, <1>4 DEF HInv

\* A request that is made is not over.
LEMMA RequestInStep ==
  ASSUME aux \in AuxType, NEW i \in Nat, AuxRequest(i), index' = i + 1,
         AuxInStep
  PROVE  AuxInStep'
<1>1. CASE i = 0
  <2>1. QueueAux("rtc", "junk") /\ index' = 1
    BY <1>1 DEF AuxRequest
  <2> QED
    BY <2>1 DEF QueueAux, AuxInStep
<1>2. CASE i = 1
  <2>1. QueueAux("convert", "junk") /\ index' = 2
    BY <1>2 DEF AuxRequest
  <2> QED
    BY <2>1 DEF QueueAux, AuxInStep
<1>3. CASE i = 2
  <2>1. QueueAux("battery", aux.data) /\ index' = 3
    BY <1>3 DEF AuxRequest
  <2> QED
    BY <2>1 DEF QueueAux, AuxInStep
<1>4. CASE i > 2
  <2>1. UNCHANGED aux /\ index' # 1 /\ index' # 3
    BY <1>4 DEF AuxRequest
  <2> QED
    BY <2>1 DEF AuxInStep
<1> QED
  BY <1>1, <1>2, <1>3, <1>4

\* The reading that is taken extends the header of the block being filled, and
\* the fourth completes it.
LEMMA ReadingHeader ==
  ASSUME HInv, TickReading
  PROVE  HInv'
<1>1. /\ HeaderTyped /\ AuxInStep /\ current \in Message
      /\ index \in Nat /\ index < ReadCount /\ index' = index + 1
      /\ UNCHANGED <<head, next, current>>
      /\ block' = [block EXCEPT ![current] = Stored(@, index)]
      /\ AuxRequest(index) /\ Take(current, index)
  BY DEF HInv, HeaderTyped, TickReading, Take, device
<1>2. block' \in [Message -> BlockType] /\ aux' \in AuxType
  BY <1>1, TakeType DEF HeaderTyped
<1>3. HeaderTyped'
  BY <1>1, <1>2, ReadCountAssumption DEF HeaderTyped
<1>4. AuxInStep'
  BY <1>1, RequestInStep DEF HeaderTyped
<1>5. ASSUME ReadCount >= 4, NEW m \in Message
      PROVE  HeaderSoFar(m)'
  <2>1. HeaderSoFar(m)
    BY <1>5 DEF HInv
  <2>2. CASE m # current
    BY <1>1, <2>1, <2>2 DEF HeaderSoFar, HeaderTyped
  <2>3. CASE m = current
    <3> DEFINE b == block[m]
    <3>1. /\ block'[m] = Stored(b, index) /\ b \in BlockType
          /\ current' = m
      BY <1>1, <2>3 DEF HeaderTyped
    <3>2. CASE index = 0
      BY <1>1, <3>1, <3>2 DEF HeaderSoFar, Stored, ZeroBlock
    <3>3. CASE index = 1
      <4>1. /\ block'[m].kind = (IF b.kind # "data" THEN "mixed" ELSE b.kind)
            /\ block'[m].pairs = b.pairs + 1
            /\ block'[m].header = (IF aux.data = "rtc" THEN "rtc" ELSE "bad")
            /\ block'[m].tainted = (b.tainted \/ ~aux.ok)
        BY <3>1, <3>3 DEF Stored
      <4>2. index' = 2 /\ 1 \div 2 = 0 /\ 2 \div 2 = 1
        BY <1>1, <3>3
      <4>3. aux.ok => aux.data = "rtc"
        BY <1>1, <3>3 DEF AuxInStep
      <4>4. block'[m].kind = "data" /\ ~block'[m].tainted =>
              b.kind = "data" /\ ~b.tainted /\ aux.ok
        BY <4>1
      <4>5. b.kind = "data" /\ ~b.tainted => b.pairs = 0
        BY <2>1, <2>3, <3>3, <4>2 DEF HeaderSoFar
      <4> QED
        BY <3>1, <4>1, <4>2, <4>3, <4>4, <4>5 DEF HeaderSoFar
    <3>4. CASE index = 2
      <4>1. /\ block'[m].kind = b.kind /\ block'[m].pairs = b.pairs
            /\ block'[m].header = b.header
            /\ block'[m].tainted = (b.tainted \/ ~aux.ok)
        BY <3>1, <3>4 DEF Stored, BlockType
      <4> QED
        BY <1>1, <2>1, <2>3, <3>1, <3>4, <4>1 DEF HeaderSoFar, BlockType
    <3>5. CASE index = 3
      <4>1. /\ block'[m].kind = (IF b.kind # "data" THEN "mixed" ELSE b.kind)
            /\ block'[m].header = (IF b.header = "rtc" /\ aux.data = "battery"
                                    THEN "both" ELSE "bad")
            /\ block'[m].tainted = (b.tainted \/ ~aux.ok)
        BY <3>1, <3>5 DEF Stored
      <4>2. index' = 4
        BY <1>1, <3>5
      <4>3. aux.ok => aux.data = "battery"
        BY <1>1, <3>5 DEF AuxInStep
      <4>4. block'[m].kind = "data" /\ ~block'[m].tainted =>
              b.kind = "data" /\ ~b.tainted /\ aux.ok
        BY <4>1
      <4>5. b.kind = "data" /\ ~b.tainted => b.header = "rtc"
        BY <2>1, <2>3, <3>5 DEF HeaderSoFar
      <4> QED
        BY <3>1, <4>1, <4>2, <4>3, <4>4, <4>5 DEF HeaderSoFar
    <3>6. CASE index > 3
      <4>1. /\ block'[m].kind = b.kind \/ block'[m].kind = "mixed"
            /\ block'[m].header = b.header
            /\ block'[m].tainted = b.tainted
        BY <1>1, <3>1, <3>6 DEF Stored, BlockType
      <4> QED
        BY <1>1, <2>1, <2>3, <3>1, <3>6, <4>1 DEF HeaderSoFar
    <3> QED
      BY <1>1, <3>2, <3>3, <3>4, <3>5, <3>6
  <2> QED
    BY <2>2, <2>3
<1> QED
  BY <1>3, <1>4, <1>5 DEF HInv

\* The block that is handed over has all of its header.
LEMMA SwapHeader ==
  ASSUME HInv, TickSwap
  PROVE  HInv'
<1>1. /\ HeaderTyped /\ AuxInStep /\ current \in Message /\ head \in Message
      /\ index = ReadCount /\ index' = 1 /\ current' = head
      /\ block' = [block EXCEPT ![head] = Stored(@, 0)]
      /\ AuxRequest(0) /\ Take(head, 0) /\ Pop
  BY ReadCountAssumption DEF HInv, HeaderTyped, TickSwap, Take
<1>2. block' \in [Message -> BlockType] /\ aux' \in AuxType
  BY <1>1, TakeType DEF HeaderTyped
<1>3. HeaderTyped'
  BY <1>1, <1>2, ReadCountAssumption DEF HeaderTyped, Pop
<1>4. AuxInStep'
  BY <1>1, RequestInStep DEF HeaderTyped
<1>5. ASSUME ReadCount >= 4, NEW m \in Message
      PROVE  HeaderSoFar(m)'
  <2>1. HeaderSoFar(m)
    BY <1>5 DEF HInv
  <2>2. CASE m # head
    BY <1>1, <1>5, <2>1, <2>2 DEF HeaderSoFar, HeaderTyped
  <2>3. CASE m = head
    BY <1>1, <2>3 DEF HeaderSoFar, HeaderTyped, Stored, ZeroBlock
  <2> QED
    BY <2>2, <2>3
<1> QED
  BY <1>3, <1>4, <1>5 DEF HInv

\* So has the one handed over when no other waits; and a buffer that is taken
\* keeps its old header until its first reading.
LEMMA RestHeader ==
  ASSUME HInv, TickIdle \/ TickPrime \/ TickDry
  PROVE  HInv'
<1>1. /\ UNCHANGED <<aux, block>> /\ index' = 0
      /\ HeaderTyped /\ AuxInStep
      /\ current = Null \/ index = ReadCount
      /\ current' \in {Null, head}
  BY ReadCountAssumption
  DEF HInv, HeaderTyped, TickIdle, TickPrime, TickDry
<1>2. HeaderTyped'
  BY <1>1, ReadCountAssumption
  DEF HeaderTyped, TickIdle, TickPrime, TickDry, Pop, device
<1>3. AuxInStep'
  BY <1>1 DEF AuxInStep
<1>4. ASSUME ReadCount >= 4, NEW m \in Message
      PROVE  HeaderSoFar(m)'
  <2>1. HeaderSoFar(m) /\ Null \notin Message
    BY <1>4, NullAssumption DEF HInv
  <2> QED
    BY <1>1, <1>4, <2>1 DEF HeaderSoFar
<1> QED
  BY <1>2, <1>3, <1>4 DEF HInv

\* A transfer that succeeds brings what was asked for last.
LEMMA AuxDoneHeader ==
  ASSUME HInv, AuxDone
  PROVE  HInv'
<1>1. /\ HeaderTyped /\ AuxInStep
      /\ UNCHANGED <<head, next, current, index, block>>
  BY DEF HInv, AuxDone, device
<1>2. \/ /\ aux.request \notin {"none", "confused"}
         /\ aux' = [request |-> "none", ok |-> TRUE,
                    data |-> IF aux.request = "convert" THEN aux.data
                             ELSE aux.request]
      \/ aux' = [request |-> "none", ok |-> FALSE, data |-> "junk"]
  BY DEF AuxDone
<1>3. aux' \in AuxType
  <2>1. aux \in AuxType
    BY <1>1 DEF HeaderTyped
  <2>2. /\ aux.request \in {"none", "rtc", "convert", "battery", "confused"}
        /\ aux.data \in {"junk", "rtc", "battery"}
    BY <2>1 DEF AuxType
  <2>3. aux.request \notin {"none", "confused"} =>
          (IF aux.request = "convert" THEN aux.data ELSE aux.request)
            \in {"junk", "rtc", "battery"}
    BY <2>2
  <2>4. CASE aux' = [request |-> "none", ok |-> FALSE, data |-> "junk"]
    BY <2>4 DEF AuxType
  <2>5. CASE /\ aux.request \notin {"none", "confused"}
             /\ aux' = [request |-> "none", ok |-> TRUE,
                        data |-> IF aux.request = "convert" THEN aux.data
                                 ELSE aux.request]
    BY <2>3, <2>5 DEF AuxType
  <2> QED
    BY <1>2, <2>4, <2>5
<1>4. AuxInStep'
  BY <1>1, <1>2 DEF AuxInStep
<1>5. HeaderTyped'
  BY <1>1, <1>3 DEF HeaderTyped
<1>6. ASSUME NEW m \in Message, HeaderSoFar(m)
      PROVE  HeaderSoFar(m)'
  BY <1>1, <1>6 DEF HeaderSoFar
<1> QED
  BY <1>4, <1>5, <1>6 DEF HInv

\* The buffers that are cleared are no data.
LEMMA ClearedHeader ==
  ASSUME HInv, RecordStart \/ ResetStack
  PROVE  HInv'
<1>1. /\ ZeroBlock \in BlockType /\ NoTransfer \in AuxType
      /\ [ZeroBlock EXCEPT !.kind = "info"] \in BlockType
      /\ [ZeroBlock EXCEPT !.kind = "info"].kind = "info"
      /\ ZeroBlock.kind = "zero"
  BY DEF ZeroBlock, BlockType, NoTransfer, AuxType
<1>2. CASE RecordStart
  <2>1. /\ UNCHANGED <<head, next, current, index, aux>>
        /\ block' = [m \in Message |->
             IF m = 0 THEN [ZeroBlock EXCEPT !.kind = "info"] ELSE ZeroBlock]
    BY <1>2 DEF RecordStart, device
  <2>2. \A m \in Message : block'[m].kind # "data"
    BY <1>1, <2>1
  <2>3. block' \in [Message -> BlockType]
    BY <1>1, <2>1
  <2>4. HeaderTyped' /\ AuxInStep'
    BY <2>1, <2>3 DEF HInv, HeaderTyped, AuxInStep
  <2> QED
    BY <2>2, <2>4 DEF HInv, HeaderSoFar
<1>3. CASE ResetStack
  <2>1. /\ head' = Null /\ next' = [m \in Message |-> Null]
        /\ current' = Null /\ index' = 0
        /\ block' = [m \in Message |-> ZeroBlock] /\ aux' = NoTransfer
    BY <1>3 DEF ResetStack
  <2>2. \A m \in Message : block'[m].kind # "data"
    BY <1>1, <2>1
  <2>3. HeaderTyped' /\ AuxInStep'
    BY <1>1, <2>1, ReadCountAssumption DEF HeaderTyped, AuxInStep, NoTransfer
  <2> QED
    BY <2>2, <2>3 DEF HInv, HeaderSoFar
<1> QED
  BY <1>2, <1>3

\* No other step touches a buffer, and the main thread's use of the queue does
\* not matter here.
LEMMA OtherHeader ==
  ASSUME HInv, UNCHANGED <<current, index, block, aux>>,
         head' \in Message \cup {Null},
         next' \in [Message -> Message \cup {Null}]
  PROVE  HInv'
<1>1. HeaderTyped' /\ AuxInStep'
  BY DEF HInv, HeaderTyped, AuxInStep
<1>2. \A m \in Message : HeaderSoFar(m)' <=> HeaderSoFar(m)
  BY DEF HeaderSoFar
<1> QED
  BY <1>1, <1>2 DEF HInv

\* Every step keeps the headers.
LEMMA HeaderInductive == ASSUME HInv, [Next]_vars, turn \in Message PROVE HInv'
<1>1. CASE AdcDone \/ OtherInterrupt \/ OffsetsFound \/ WriteInfo \/ LoopWait
           \/ SleepCheck \/ Stamp \/ WriteBlock \/ SwitchOpen \/ Quit
           \/ WriteFails \/ UNCHANGED vars
  <2>1. UNCHANGED <<head, next, current, index, block, aux>>
    BY <1>1 DEF AdcDone, OtherInterrupt, OffsetsFound, WriteInfo, LoopWait,
      SleepCheck, Stamp, WriteBlock, SwitchOpen, Quit, WriteFails, vars,
      device, analog
  <2> QED
    BY <2>1, OtherHeader DEF HInv, HeaderTyped
<1>2. CASE QueuePrepare \/ QueueAppend
  <2>1. UNCHANGED <<current, index, block, aux>>
    BY <1>2 DEF QueuePrepare, QueueAppend, analog
  <2>2. /\ head' \in Message \cup {Null}
        /\ next' \in [Message -> Message \cup {Null}]
    BY <1>2 DEF QueuePrepare, QueueAppend, Link, HInv, HeaderTyped
  <2> QED
    BY <2>1, <2>2, OtherHeader
<1> QED
  BY <1>1, <1>2, ReadingHeader, SwapHeader, RestHeader, AuxDoneHeader,
     ClearedHeader DEF Next, Tick, MainStep

\* The main thread's index is that of a message.
LEMMA TurnType == Spec => [](turn \in Message)
<1>1. Init => turn \in Message
  BY DEF Init, Message
<1>2. turn \in Message /\ [Next]_vars => (turn \in Message)'
  BY DEF Message, Other, Next, vars, main, Tick, TickIdle, TickPrime, TickReading,
    TickSwap, TickDry, Clock, AdcDone, AuxDone, OtherInterrupt, MainStep,
    RecordStart, OffsetsFound, WriteInfo, QueuePrepare, QueueAppend, LoopWait, SleepCheck,
    Stamp, WriteBlock, SwitchOpen, Quit, WriteFails, ResetStack
<1> QED
  BY <1>1, <1>2, PTL DEF Spec

\* A complete block whose three transfers succeeded in time holds the time and
\* the battery voltage, though one buffer serves all of them and nothing is
\* assumed of the bus, of the queue or of the time offset_search takes
\* (analog_disc.c:126-186).
THEOREM HeadersAreFresh == Spec => []HeaderFresh
<1>1. HInv => HeaderFresh
  <2> SUFFICES ASSUME HInv, ReadCount >= 4, NEW m \in Message,
                      block[m].kind = "data",
                      block[m].pairs = ReadCount \div 2, ~block[m].tainted
               PROVE  block[m].header = "both"
    BY DEF HeaderFresh
  <2>1. ReadCount \div 2 >= 2
    BY ReadCountAssumption
  <2>2. HeaderSoFar(m)
    BY DEF HInv
  <2>3. ~(m = current /\ index \in 1 .. 3)
    BY <2>1, <2>2 DEF HeaderSoFar
  <2> QED
    BY <2>2, <2>3 DEF HeaderSoFar
<1>2. HInv /\ turn \in Message /\ [Next]_vars => HInv'
  BY HeaderInductive
<1> QED
  BY <1>1, <1>2, InitHeaders, TurnType, PTL DEF Spec

----------------------------------------------------------------------------
(* The line of blocks: the steps *)

\* Sequences as short as the line of full blocks.
LEMMA ShortLines ==
  ASSUME NEW a \in Message, NEW b \in Message
  PROVE  /\ Append(<<>>, a) = <<a>> /\ Append(<<a>>, b) = <<a, b>>
         /\ Tail(<<a, b>>) = <<b>> /\ Tail(<<a>>) = <<>>
         /\ Head(<<a, b>>) = a /\ Head(<<a>>) = a
         /\ <<a>> # <<>> /\ <<a, b>> # <<>>
<1>1. Append(<<>>, a) = <<a>>
  OBVIOUS
<1>2. Append(<<a>>, b) = <<a, b>>
  <2> DEFINE s == Append(<<a>>, b)
  <2>1. s \in Seq(Message) /\ Len(s) = 2 /\ s[1] = a /\ s[2] = b
    OBVIOUS
  <2>2. DOMAIN s = 1 .. 2 /\ s = [i \in 1 .. 2 |-> s[i]]
    BY <2>1
  <2>3. DOMAIN <<a, b>> = 1 .. 2 /\ <<a, b>> = [i \in 1 .. 2 |-> <<a, b>>[i]]
    OBVIOUS
  <2>4. \A i \in 1 .. 2 : s[i] = <<a, b>>[i]
    BY <2>1
  <2> HIDE DEF s
  <2>5. s = <<a, b>>
    BY <2>2, <2>3, <2>4
  <2> QED
    BY <2>5 DEF s
<1>3. Tail(<<a, b>>) = <<b>>
  OBVIOUS
<1>4. Tail(<<a>>) = <<>>
  OBVIOUS
<1>5. Head(<<a, b>>) = a /\ Head(<<a>>) = a
  OBVIOUS
<1>6. <<a>> # <<>> /\ <<a, b>> # <<>>
  OBVIOUS
<1> QED
  BY <1>1, <1>2, <1>3, <1>4, <1>5, <1>6

\* Who is in such a line.
LEMMA ShortMembers ==
  ASSUME NEW a \in Message, NEW b \in Message, NEW m \in Message
  PROVE  /\ full = <<>> => ~InFull(m)
         /\ full = <<a>> => (InFull(m) <=> m = a)
         /\ full = <<a, b>> => (InFull(m) <=> m = a \/ m = b)
<1>1. full = <<>> => DOMAIN full = {}
  OBVIOUS
<1>2. full = <<a>> => DOMAIN full = {1} /\ full[1] = a
  OBVIOUS
<1>3. full = <<a, b>> => DOMAIN full = {1, 2} /\ full[1] = a /\ full[2] = b
  OBVIOUS
<1> QED
  BY <1>1, <1>2, <1>3 DEF InFull

\* What a recording knows of its two blocks: where the main thread is not
\* appending, both are out; where it is, the other one is.
LEMMA BothOut ==
  ASSUME RInv, Recording
  PROVE  /\ turn \in Message /\ Other(turn) \in Message
         /\ Other(turn) # turn /\ Other(Other(turn)) = turn
         /\ pc \notin {"prepare", "append"} => TwoOut(turn)
         /\ pc \in {"prepare", "append"} => OneOut(Other(turn))
<1>1. turn \in Message
  BY DEF RInv, IInv, TypeOK
<1> QED
  BY <1>1 DEF RInv, InLine, Message, Other

\* A full block is neither being filled nor queued, nor in the main thread's
\* hands to be queued again.
LEMMA FullIsOut ==
  ASSUME RInv, Recording, NEW m \in Message, InFull(m)
  PROVE  /\ m # current /\ ~Queued(m)
         /\ pc \in {"prepare", "append"} => m # turn
<1>1. /\ turn \in Message /\ Other(turn) \in Message
      /\ Other(turn) # turn /\ Other(Other(turn)) = turn /\ Null \notin Message
  BY BothOut, NullAssumption
<1>2. CASE pc \in {"prepare", "append"}
  <2>1. full = <<Other(turn)>> /\ current = Null /\ EmptyQueue
    BY <1>1, <1>2, BothOut, ShortMembers DEF OneOut
  <2> QED
    BY <1>1, <2>1, ShortMembers, EmptyHasNone
<1>3. CASE pc \notin {"prepare", "append"}
  <2>1. TwoOut(turn)
    BY <1>3, BothOut
  <2>2. CASE full = <<turn, Other(turn)>> /\ current = Null /\ EmptyQueue
    BY <1>1, <1>3, <2>2, EmptyHasNone
  <2>3. CASE full = <<turn>> /\ current = Other(turn) /\ EmptyQueue
    <3>1. m = turn
      BY <1>1, <2>3, ShortMembers
    <3> QED
      BY <1>1, <1>3, <2>3, <3>1, EmptyHasNone
  <2>4. CASE full = <<turn>> /\ current = Null /\ OneQueued(Other(turn))
    <3>1. m = turn
      BY <1>1, <2>4, ShortMembers
    <3>2. ~Queued(turn)
      BY <1>1, <2>4 DEF Queued, OneQueued, TwoQueued
    <3> QED
      BY <1>1, <1>3, <2>4, <3>1, <3>2
  <2>5. full # <<>>
    BY <1>1, ShortMembers
  <2> QED
    BY <2>1, <2>2, <2>3, <2>4, <2>5 DEF TwoOut
<1> QED
  BY <1>2, <1>3

\* The main thread sleeps on a block that is not full, so the handler has
\* another one when it is filling one.
LEMMA AsleepHasNext ==
  ASSUME RInv, Recording, pc \in {"asleep", "wait"}, state[turn] \in Pending,
         current # Null
  PROVE  ~EmptyQueue
<1>1. /\ turn \in Message /\ Other(turn) \in Message
      /\ TwoOut(turn) /\ Null \notin Message
  BY BothOut, NullAssumption
<1>2. ~InFull(turn)
  BY <1>1 DEF RInv, Filled, Complete, Pending
<1>3. full # <<turn>>
  BY <1>1, <1>2, ShortMembers
<1>4. \A m \in Message : OneQueued(m) => ~EmptyQueue
  BY NullAssumption DEF OneQueued, EmptyQueue
<1> QED
  BY <1>1, <1>3, <1>4 DEF TwoOut

\* A tick leaves the main thread where it was, but awake.
LEMMA TickMain ==
  ASSUME RInv, Tick
  PROVE  /\ turn' = turn /\ start' = start
         /\ pc' = IF pc = "asleep" THEN "wait" ELSE pc
         /\ Recording' <=> Recording
         /\ overrun => overrun'
<1>1. Clock
  BY DEF Tick, TickIdle, TickPrime, TickReading, TickSwap, TickDry
<1> QED
  BY <1>1 DEF Clock, Recording

\* The handler moves each block on by one place, from the queue to the one
\* being filled and from there to the full ones.
LEMMA TickInLine == ASSUME RInv, Tick PROVE InLine'
<1> SUFFICES ASSUME Recording PROVE InLine'
  BY TickMain DEF InLine
<1>1. /\ turn \in Message /\ Other(turn) \in Message
      /\ Other(turn) # turn /\ Other(Other(turn)) = turn
  BY BothOut
<1>2. /\ turn' = turn
      /\ pc' \in {"prepare", "append"} <=> pc \in {"prepare", "append"}
      /\ pc' \in {"stamp", "write"} => pc \in {"stamp", "write"}
  BY TickMain
<1>4. Null \notin Message
  BY NullAssumption
<1>5. CASE TickIdle \/ TickReading
  <2>1. UNCHANGED <<head, tail, next, current, full>>
    BY <1>5 DEF TickIdle, TickReading, device
  <2>2. \A m \in Message : (OneOut(m)' <=> OneOut(m)) /\ (TwoOut(m)' <=> TwoOut(m))
    BY <2>1 DEF OneOut, TwoOut, EmptyQueue, OneQueued, TwoQueued
  <2> QED
    BY <1>1, <1>2, <2>1, <2>2 DEF RInv, InLine
<1>6. CASE TickPrime
  <2>1. /\ current = Null /\ head # Null /\ current' = head /\ Pop /\ full' = full
    BY <1>6 DEF TickPrime
  <2>2. next \in [Message -> Message \cup {Null}]
    BY DEF RInv, IInv, TypeOK
  <2>3. ASSUME NEW m \in Message, OneOut(m) PROVE OneOut(m)'
    BY <1>4, <2>1, <2>2, <2>3
    DEF OneOut, EmptyQueue, OneQueued, Pop
  <2>4. ASSUME NEW m \in Message, TwoOut(m) PROVE TwoOut(m)' /\ full' = full
    <3>1. Other(m) \in Message /\ Other(m) # m
      BY DEF Message, Other
    <3> QED
      BY <1>4, <2>1, <2>2, <2>4, <3>1
      DEF TwoOut, EmptyQueue, OneQueued, TwoQueued, Pop
  <2> QED
    BY <1>1, <1>2, <2>1, <2>3, <2>4 DEF RInv, InLine
<1>7. CASE TickSwap
  <2>1. /\ current # Null /\ head # Null /\ current' = head /\ Pop
        /\ full' = Append(full, current)
    BY <1>7 DEF TickSwap
  <2>2. next \in [Message -> Message \cup {Null}]
    BY DEF RInv, IInv, TypeOK
  <2>3. \A m \in Message : ~OneOut(m)
    BY <1>4, <2>1 DEF OneOut, EmptyQueue
  <2>4. pc \notin {"prepare", "append"} /\ TwoOut(turn)
    BY <1>1, <2>3, BothOut
  <2>5. full = <<>> /\ current = turn /\ OneQueued(Other(turn))
    BY <2>1, <2>4 DEF TwoOut, EmptyQueue
  <2>6. full' = <<turn>> /\ current' = Other(turn) /\ EmptyQueue'
    BY <1>1, <1>4, <2>1, <2>2, <2>5, ShortLines DEF OneQueued, EmptyQueue, Pop
  <2>7. full' # <<>>
    BY <1>1, <2>6, ShortLines
  <2> QED
    BY <1>2, <2>4, <2>6, <2>7 DEF InLine, TwoOut
<1>8. CASE TickDry
  <2>1. /\ current # Null /\ head = Null /\ current' = Null
        /\ full' = Append(full, current) /\ UNCHANGED <<head, tail, next>>
    BY <1>8 DEF TickDry
  <2>2. \A m \in Message : ~OneQueued(m)
    BY <1>4, <2>1 DEF OneQueued
  <2>3. EmptyQueue' <=> EmptyQueue
    BY <2>1 DEF EmptyQueue
  <2>4. ASSUME NEW m \in Message, OneOut(m) PROVE OneOut(m)'
    <3>1. full = <<>> /\ current = m /\ EmptyQueue
      BY <2>1, <2>2, <2>4 DEF OneOut
    <3>2. full' = <<m>>
      BY <2>1, <3>1, ShortLines
    <3> QED
      BY <2>1, <2>3, <3>1, <3>2 DEF OneOut
  <2>5. ASSUME NEW m \in Message, TwoOut(m) PROVE TwoOut(m)' /\ full' # <<>>
    <3>1. Other(m) \in Message
      BY DEF Message, Other
    <3>2. full = <<m>> /\ current = Other(m) /\ EmptyQueue
      BY <2>1, <2>2, <2>5, <3>1 DEF TwoOut
    <3>3. full' = <<m, Other(m)>> /\ full' # <<>>
      BY <2>1, <3>1, <3>2, ShortLines
    <3> QED
      BY <2>1, <2>3, <3>2, <3>3 DEF TwoOut
  <2> QED
    BY <1>1, <1>2, <2>4, <2>5 DEF RInv, InLine
<1> QED
  BY <1>5, <1>6, <1>7, <1>8 DEF Tick

\* A reading fills the block further, and a block is complete when it ends.
LEMMA TickFilled == ASSUME RInv, Tick PROVE Filled'
<1> SUFFICES ASSUME Recording PROVE Filled'
  BY TickMain DEF Filled
<1>1. /\ current # Null /\ index > 0 =>
           block[current].kind = "data" /\ block[current].pairs = index \div 2
      /\ \A m \in Message : InFull(m) => Complete(m)
  BY DEF RInv, Filled
<1>2. /\ current \in Message \cup {Null} /\ Null \notin Message
      /\ index \in 0 .. ReadCount /\ ReadCount \in Nat /\ ReadCount > 0
      /\ block \in [Message -> BlockType] /\ aux \in AuxType
      /\ state \in [Message -> {"new", "success"} \cup Pending]
      /\ full \in Seq(Message)
  BY NullAssumption, ReadCountAssumption
  DEF RInv, IInv, TypeOK, BlockType, AuxType
<1>3. Shape
  BY DEF RInv, IInv, QueueWellFormed, Shape
<1>4. CASE TickIdle
  BY <1>1, <1>4 DEF TickIdle, Filled, Complete, InFull, device
<1>5. CASE TickPrime
  <2>1. /\ head \in Message /\ index' = 0 /\ UNCHANGED <<block, full>>
        /\ state' = [state EXCEPT ![head] = "reading"] /\ Queued(head)
    BY <1>3, <1>5, HeadQueued DEF TickPrime, RInv, IInv
  <2>2. ~InFull(head)
    BY <2>1, FullIsOut
  <2>3. \A m \in Message : InFull(m)' => InFull(m) /\ m # head
    BY <2>1, <2>2 DEF InFull
  <2> QED
    BY <1>1, <1>2, <2>1, <2>3 DEF Filled, Complete
<1>6. CASE TickReading
  <2>1. /\ current \in Message /\ index \in Nat /\ index' = index + 1
        /\ UNCHANGED <<current, full, state>>
        /\ block' = [block EXCEPT ![current] = Stored(@, index)]
    BY <1>2, <1>6 DEF TickReading, Take, device
  <2> DEFINE b == block[current]
  <2>2. b \in BlockType /\ block'[current] = Stored(b, index)
    BY <1>2, <2>1
  <2>3. /\ block'[current].kind = "data"
        /\ block'[current].pairs = (index + 1) \div 2
    <3>1. CASE index = 0
      <4>1. 1 \div 2 = 0
        OBVIOUS
      <4> QED
        BY <2>2, <3>1, <4>1 DEF Stored, ZeroBlock
    <3>2. CASE index > 0
      <4>1. /\ block'[current].kind =
                 (IF (index % 2) = 1 /\ b.kind # "data" THEN "mixed" ELSE b.kind)
            /\ block'[current].pairs = b.pairs + (index % 2)
        BY <2>2, <3>2 DEF Stored
      <4>2. index \div 2 + (index % 2) = (index + 1) \div 2
        BY <2>1
      <4> QED
        BY <1>1, <1>2, <2>1, <3>2, <4>1, <4>2
    <3> QED
      BY <2>1, <3>1, <3>2
  <2>4. ~InFull(current)
    BY <2>1, FullIsOut
  <2>5. \A m \in Message : InFull(m)' => InFull(m) /\ m # current
    BY <2>1, <2>4 DEF InFull
  <2>6. \A m \in Message : InFull(m)' => Complete(m)'
    BY <1>1, <1>2, <2>1, <2>5 DEF Complete
  <2> QED
    BY <2>1, <2>3, <2>6 DEF Filled
<1>7. CASE TickSwap \/ TickDry
  <2>1. /\ current \in Message /\ index = ReadCount
        /\ full' = Append(full, current)
        /\ state'[current] = "success"
    <3>1. current \in Message /\ index = ReadCount /\ full' = Append(full, current)
      BY <1>2, <1>7 DEF TickSwap, TickDry
    <3>2. head # current
      <4>1. CASE head \in Message
        BY <1>3, <1>7, <3>1, <4>1, HeadQueued, <1>2
        DEF RInv, IInv, QueueWellFormed
      <4> QED
        BY <3>1, <4>1
    <3>3. state'[current] = "success"
      BY <1>2, <1>7, <3>1, <3>2 DEF TickSwap, TickDry
    <3> QED
      BY <3>1, <3>3
  <2>2. block[current].kind = "data" /\ block[current].pairs = ReadCount \div 2
    BY <1>1, <1>2, <2>1
  <2>3. \A m \in Message : InFull(m)' => InFull(m) \/ m = current
    <3>1. \A i \in DOMAIN full' : \/ i \in DOMAIN full /\ full'[i] = full[i]
                                  \/ full'[i] = current
      BY <1>2, <2>1
    <3> QED
      BY <3>1 DEF InFull
  <2>4. ~InFull(current)
    BY <2>1, FullIsOut
  <2>5. CASE TickDry
    <3>1. current' = Null /\ UNCHANGED block
          /\ state' = [state EXCEPT ![current] = "success"]
      BY <2>5 DEF TickDry
    <3> QED
      BY <1>1, <1>2, <2>1, <2>2, <2>3, <3>1 DEF Filled, Complete
  <2>6. CASE TickSwap
    <3>1. /\ head \in Message /\ Queued(head) /\ head # current
          /\ current' = head /\ index' = 1
          /\ block' = [block EXCEPT ![head] = Stored(@, 0)]
          /\ state' = [state EXCEPT ![current] = "success", ![head] = "reading"]
      BY <1>3, <2>1, <2>6, HeadQueued
      DEF TickSwap, Take, RInv, IInv, QueueWellFormed
    <3>2. ~InFull(head)
      BY <3>1, FullIsOut
    <3>3. \A m \in Message : InFull(m)' => Complete(m)'
      BY <1>1, <1>2, <2>1, <2>2, <2>3, <3>1, <3>2 DEF Complete
    <3>4. block'[head].kind = "data" /\ block'[head].pairs = 0
      BY <1>2, <3>1 DEF Stored, ZeroBlock
    <3>5. 1 \div 2 = 0
      OBVIOUS
    <3> QED
      BY <3>1, <3>3, <3>4, <3>5 DEF Filled
  <2> QED
    BY <1>7, <2>5, <2>6
<1> QED
  BY <1>4, <1>5, <1>6, <1>7 DEF Tick

\* The main thread is awake while the handler works on its only block, and has
\* been for the whole of it when the handler finds no other.
LEMMA TickLate == ASSUME RInv, Tick PROVE Late'
<1>1. /\ busy \in 0 .. ReadCount /\ index \in 0 .. ReadCount
      /\ ReadCount \in Nat /\ ReadCount > 0 /\ Null \notin Message
      /\ current \in Message \cup {Null}
  BY NullAssumption, ReadCountAssumption DEF RInv, IInv, TypeOK
<1>2. /\ busy' \in 0 .. ReadCount
      /\ pc # "asleep" => busy' = busy + 1 \/ busy' = ReadCount
      /\ busy' = ReadCount => overrun'
      /\ overrun => overrun'
  <2>1. /\ busy' = IF pc = "asleep" THEN 0
                   ELSE IF busy < ReadCount THEN busy + 1 ELSE busy
        /\ overrun' = (overrun \/ busy' = ReadCount)
    BY DEF Tick, TickIdle, TickPrime, TickReading, TickSwap, TickDry, Clock
  <2>2. overrun => overrun'
    BY <2>1
  <2>3. busy' = ReadCount => overrun'
    BY <2>1
  <2>4. /\ busy' \in 0 .. ReadCount
        /\ pc # "asleep" => busy' = busy + 1 \/ busy' = ReadCount
    BY <1>1, <2>1
  <2> QED
    BY <2>2, <2>3, <2>4
<1>3. /\ Recording /\ current # Null /\ EmptyQueue => busy >= index - 1 \/ overrun
      /\ Recording /\ primed /\ current = Null => overrun
      /\ gap => overrun
  BY DEF RInv, Late
<1>4. Recording' <=> Recording
  BY TickMain
<1>5. Recording /\ current # Null /\ EmptyQueue => pc # "asleep"
  BY AsleepHasNext DEF RInv, IInv, NoSleepOnCompleted
<1>6. CASE TickIdle
  BY <1>2, <1>3, <1>4, <1>6 DEF TickIdle, Missed, Late
<1>7. CASE TickPrime
  <2>1. /\ current = Null /\ current' # Null /\ index' = 0
        /\ gap' = (gap \/ (Recording /\ primed))
    BY <1>7 DEF TickPrime, Missed
  <2>2. gap' => overrun'
    BY <1>2, <1>3, <2>1
  <2>3. busy' >= index' - 1
    BY <1>2, <2>1
  <2> QED
    BY <2>1, <2>2, <2>3 DEF Late
<1>8. CASE TickReading
  <2>1. /\ current # Null /\ index' = index + 1 /\ index < ReadCount
        /\ current' = current /\ (primed' <=> primed) /\ (gap' <=> gap)
        /\ EmptyQueue' <=> EmptyQueue
    BY <1>8 DEF TickReading, Take, device, EmptyQueue
  <2>2. Recording /\ EmptyQueue => busy' >= index' - 1 \/ overrun'
    <3> SUFFICES ASSUME Recording, EmptyQueue, ~overrun'
                 PROVE  busy' >= index' - 1
      OBVIOUS
    <3>1. busy >= index - 1 /\ pc # "asleep"
      BY <1>2, <1>3, <1>5, <2>1
    <3>2. index \in Int /\ busy \in Int
      BY <1>1
    <3> QED
      BY <1>1, <1>2, <2>1, <3>1, <3>2
  <2>3. gap' => overrun'
    BY <1>2, <1>3, <2>1
  <2> QED
    BY <1>4, <2>1, <2>2, <2>3 DEF Late
<1>9. CASE TickSwap
  <2>1. current' # Null /\ index' = 1 /\ UNCHANGED gap
    BY <1>9 DEF TickSwap, Take
  <2> QED
    BY <1>1, <1>2, <1>3, <1>4, <2>1 DEF Late
<1>10. CASE TickDry
  <2>1. /\ current # Null /\ current' = Null /\ index = ReadCount /\ head = Null
        /\ gap' = (gap \/ (Recording /\ primed))
    BY <1>1, <1>10 DEF TickDry, Missed
  <2>2. EmptyQueue
    BY <1>1, <2>1 DEF RInv, IInv, QueueWellFormed, EmptyQueue, OneQueued, TwoQueued
  <2>3. Recording => overrun'
    BY <1>1, <1>2, <1>3, <1>5, <2>1, <2>2
  <2> QED
    BY <1>2, <1>3, <1>4, <2>1, <2>3 DEF Late
<1> QED
  BY <1>6, <1>7, <1>8, <1>9, <1>10 DEF Tick

\* What a step has to keep beside IInv.
LineInv == InLine /\ Filled /\ Late

\* Steps of the main thread between its accesses to the queue, and interrupts
\* that only wake it.
LEMMA SteadyKeepsLine ==
  ASSUME RInv, UNCHANGED <<device, current, index, block, history, turn>>,
         Recording' => Recording,
         pc' \in {"prepare", "append"} <=> pc \in {"prepare", "append"},
         pc' \in {"stamp", "write"} => pc \in {"stamp", "write"}
  PROVE  LineInv'
<1>1. /\ head' = head /\ tail' = tail /\ next' = next /\ state' = state
      /\ full' = full /\ (primed' <=> primed) /\ busy' = busy
      /\ (overrun' <=> overrun) /\ (gap' <=> gap)
      /\ current' = current /\ index' = index /\ block' = block /\ turn' = turn
  BY DEF device, history
<1>2. \A m \in Message : /\ (OneOut(m)' <=> OneOut(m)) /\ (TwoOut(m)' <=> TwoOut(m))
                         /\ (InFull(m)' <=> InFull(m))
                         /\ (Complete(m)' <=> Complete(m))
  BY <1>1 DEF OneOut, TwoOut, EmptyQueue, OneQueued, TwoQueued, InFull, Complete
<1>3. Recording => turn \in Message /\ Other(turn) \in Message
  BY BothOut
<1>4. InLine'
  BY <1>1, <1>2, <1>3 DEF RInv, InLine
<1>5. Filled'
  BY <1>1, <1>2 DEF RInv, Filled
<1>6. Late'
  <2>1. EmptyQueue' <=> EmptyQueue
    BY <1>1 DEF EmptyQueue
  <2>2. /\ Recording /\ current # Null /\ EmptyQueue => busy >= index - 1 \/ overrun
        /\ Recording /\ primed /\ current = Null => overrun
        /\ gap => overrun
    BY DEF RInv, Late
  <2> QED
    BY <1>1, <2>1, <2>2 DEF Late
<1> QED
  BY <1>4, <1>5, <1>6 DEF LineInv

\* The block the main thread finds complete is in front of the line.
LEMMA SleepKeepsLine == ASSUME RInv, SleepCheck PROVE LineInv'
<1>1. /\ pc = "wait" /\ Recording /\ Recording'
      /\ pc' \in {"asleep", "stamp"}
      /\ turn' = turn
      /\ UNCHANGED <<head, tail, next, state, current, index, block, full>>
      /\ (primed' <=> primed) /\ (overrun' <=> overrun) /\ (gap' <=> gap)
      /\ IF state[turn] \in Pending THEN pc' = "asleep"
         ELSE pc' = "stamp" /\ busy' = busy
  BY DEF SleepCheck, Goto, Recording, device, analog
<1>2. /\ turn \in Message /\ Other(turn) \in Message
      /\ Other(turn) # turn /\ TwoOut(turn)
  BY <1>1, BothOut
<1>3. TwoOut(turn)' /\ (EmptyQueue' <=> EmptyQueue)
  BY <1>1, <1>2 DEF TwoOut, EmptyQueue, OneQueued, TwoQueued
<1>4. InLine'
  <2>1. ASSUME pc' = "stamp", full = <<>> PROVE FALSE
    <3>1. state[turn] \notin Pending
      BY <1>1, <2>1
    <3>2. ~Queued(turn) /\ current # turn
      BY <1>2, <3>1 DEF RInv, IInv, StateAgrees, Pending
    <3>3. full # <<turn, Other(turn)>> /\ full # <<turn>>
      BY <1>2, <2>1, ShortLines
    <3> QED
      BY <1>2, <3>2, <3>3 DEF TwoOut, Queued
  <2> QED
    BY <1>1, <1>3, <2>1 DEF InLine
<1>5. Filled'
  BY <1>1 DEF RInv, Filled, Complete, InFull
<1>6. Late'
  <2>1. /\ current # Null /\ EmptyQueue => busy >= index - 1 \/ overrun
        /\ primed /\ current = Null => overrun
        /\ gap => overrun
    BY <1>1 DEF RInv, Late
  <2>2. current # Null /\ EmptyQueue => busy' = busy
    BY <1>1, AsleepHasNext
  <2> QED
    BY <1>1, <1>3, <2>1, <2>2 DEF Late
<1> QED
  BY <1>4, <1>5, <1>6 DEF LineInv

\* The block that was written leaves the line, and the other is next.
LEMMA WriteKeepsLine == ASSUME RInv, WriteBlock PROVE LineInv'
<1>1. /\ pc = "write" /\ Recording /\ pc' = "prepare"
      /\ UNCHANGED <<head, tail, next, state, current, index, block, turn, start>>
      /\ (primed' <=> primed) /\ (overrun' <=> overrun) /\ (gap' <=> gap)
      /\ busy' = busy
      /\ full # <<>> => full' = Tail(full)
  BY DEF WriteBlock, Goto, Recording, device, analog
<1>2. /\ turn \in Message /\ Other(turn) \in Message
      /\ Other(turn) # turn /\ TwoOut(turn) /\ full # <<>> /\ full \in Seq(Message)
  BY <1>1, BothOut DEF RInv, InLine, IInv, TypeOK
<1>3. ~start
  BY <1>1 DEF RInv, IInv, Starting
<1>4. Recording'
  BY <1>1, <1>3 DEF Recording
<1>5. EmptyQueue' <=> EmptyQueue
  BY <1>1 DEF EmptyQueue
<1>6. OneOut(Other(turn))'
  <2>1. CASE full = <<turn, Other(turn)>> /\ current = Null /\ EmptyQueue
    <3>1. full' = <<Other(turn)>>
      BY <1>1, <1>2, <2>1, ShortLines
    <3> QED
      BY <1>1, <1>5, <2>1, <3>1 DEF OneOut
  <2>2. CASE full = <<turn>>
    <3>1. full' = <<>>
      BY <1>1, <1>2, <2>2, ShortLines
    <3>2. full # <<turn, Other(turn)>>
      BY <1>2, <2>2
    <3>3. OneQueued(Other(turn))' <=> OneQueued(Other(turn))
      BY <1>1 DEF OneQueued
    <3> QED
      BY <1>1, <1>2, <1>5, <2>2, <3>1, <3>2, <3>3 DEF OneOut, TwoOut
  <2> QED
    BY <1>2, <2>1, <2>2 DEF TwoOut
<1>7. InLine'
  BY <1>1, <1>6 DEF InLine
<1>8. Filled'
  <2>1. \A m \in Message : InFull(m)' => InFull(m)
    <3>1. \A i \in DOMAIN full' : i + 1 \in DOMAIN full /\ full'[i] = full[i + 1]
      BY <1>1, <1>2
    <3> QED
      BY <3>1 DEF InFull
  <2> QED
    BY <1>1, <2>1 DEF RInv, Filled, Complete
<1>9. Late'
  BY <1>1, <1>5 DEF RInv, Late
<1> QED
  BY <1>7, <1>8, <1>9 DEF LineInv

\* message_queue makes the message it is given the last of the line.
LEMMA PrepareKeepsLine == ASSUME RInv, QueuePrepare PROVE LineInv'
<1>1. /\ pc = "prepare" /\ pc' = "append" /\ (Recording' <=> Recording)
      /\ UNCHANGED <<head, tail, current, index, block, turn, start, full>>
      /\ (primed' <=> primed) /\ (overrun' <=> overrun) /\ (gap' <=> gap)
      /\ busy' = busy
      /\ next' = [next EXCEPT ![turn] = Null]
      /\ state' = [state EXCEPT ![turn] = "queued"]
  BY DEF QueuePrepare, Goto, Recording, analog, history
<1>2. EmptyQueue' <=> EmptyQueue
  BY <1>1 DEF EmptyQueue
<1>3. InLine'
  <2> SUFFICES ASSUME Recording PROVE OneOut(Other(turn))'
    BY <1>1 DEF InLine
  <2>1. /\ turn \in Message /\ Other(turn) \in Message
        /\ Other(turn) # turn /\ OneOut(Other(turn))
        /\ next \in [Message -> Message \cup {Null}]
    BY <1>1, BothOut DEF RInv, IInv, TypeOK
  <2>2. next'[Other(turn)] = next[Other(turn)] /\ Other(turn)' = Other(turn)
    BY <1>1, <2>1 DEF Other
  <2> QED
    BY <1>1, <1>2, <2>1, <2>2 DEF OneOut, OneQueued
<1>4. Filled'
  <2> SUFFICES ASSUME Recording PROVE Filled'
    BY <1>1 DEF Filled
  <2>1. /\ \A m \in Message : InFull(m) => m # turn
        /\ state \in [Message -> {"new", "success"} \cup Pending]
    BY <1>1, FullIsOut DEF RInv, IInv, TypeOK
  <2> QED
    BY <1>1, <2>1 DEF RInv, Filled, Complete, InFull
<1>5. Late'
  BY <1>1, <1>2 DEF RInv, Late
<1> QED
  BY <1>3, <1>4, <1>5 DEF LineInv

\* The two messages of a new recording start an empty line.
LEMMA AppendKeepsLine == ASSUME RInv, QueueAppend PROVE LineInv'
<1>1. /\ pc = "append" /\ Link(turn) /\ turn' = Other(turn)
      /\ UNCHANGED <<state, current, index, block>>
      /\ turn \in Message /\ Null \notin Message
      /\ turn # Null /\ Other(turn) \in Message /\ Other(turn) # turn
      /\ next \in [Message -> Message \cup {Null}]
      /\ next[turn] = Null
      /\ start' = (start /\ turn = 0) /\ start \in BOOLEAN
  BY NullAssumption
  DEF QueueAppend, analog, RInv, IInv, TypeOK, Detached, Message, Other
<1>2. ~EmptyQueue'
  BY <1>1 DEF Link, EmptyQueue
<1>3. CASE start /\ turn = 0
  <2>1. /\ EmptyQueue /\ current = Null
    BY <1>1, <1>3 DEF RInv, IInv, Drained
  <2>2. /\ pc' = "prepare" /\ full' = <<>> /\ ~primed' /\ ~gap'
        /\ turn' = 1 /\ Other(turn') = turn
    BY <1>1, <1>3 DEF QueueAppend, Goto, Other
  <2>3. OneOut(Other(turn))'
    <3>1. (Other(turn))' = 0 /\ turn = 0
      BY <1>3, <2>2 DEF Other
    <3>2. head' = 0 /\ tail' = 0 /\ next'[0] = Null
      BY <1>1, <1>3, <2>1, <3>1 DEF Link, EmptyQueue
    <3> QED
      BY <1>1, <2>1, <2>2, <3>1, <3>2 DEF OneOut, OneQueued
  <2>4. InLine'
    BY <2>2, <2>3 DEF InLine
  <2>5. Filled'
    <3>1. DOMAIN full' = {}
      BY <2>2
    <3> QED
      BY <1>1, <2>1, <3>1 DEF Filled, InFull
  <2>6. Late'
    BY <1>1, <1>2, <2>1, <2>2 DEF Late
  <2> QED
    BY <2>4, <2>5, <2>6 DEF LineInv
<1>4. CASE ~(start /\ turn = 0)
  <2>1. /\ pc' \in {"loop", "switch"} /\ full' = full
        /\ (primed' <=> primed) /\ (overrun' <=> overrun) /\ (gap' <=> gap)
        /\ busy' = busy
    BY <1>1, <1>4 DEF QueueAppend, Goto, history, Message
  <2>2. Recording
    BY <1>1, <1>4 DEF Recording, Message
  <2>3. OneOut(Other(turn))
    BY <1>1, <2>2, BothOut
  <2>4. TwoOut(turn)'
    <3>1. (Other(turn))' = turn /\ turn' = Other(turn)
      BY <1>1 DEF Other, Message
    <3>2. CASE EmptyQueue
      <4>1. head' = turn /\ tail' = turn /\ next'[turn] = Null
        BY <1>1, <3>2 DEF Link, EmptyQueue
      <4>2. ~OneQueued(Other(turn))
        BY <1>1, <3>2 DEF OneQueued, EmptyQueue
      <4> QED
        BY <1>1, <2>1, <2>3, <3>1, <4>1, <4>2
        DEF OneOut, TwoOut, OneQueued, EmptyQueue
    <3>3. CASE full = <<>> /\ current = Null /\ OneQueued(Other(turn))
      <4>1. /\ head' = Other(turn) /\ tail' = turn
            /\ next'[Other(turn)] = turn /\ next'[turn] = Null
        BY <1>1, <3>3 DEF Link, OneQueued
      <4> QED
        BY <1>1, <2>1, <3>1, <3>3, <4>1 DEF TwoOut, TwoQueued
    <3> QED
      BY <2>3, <3>2, <3>3 DEF OneOut
  <2>5. InLine'
    BY <2>1, <2>4 DEF InLine
  <2>6. Filled'
    BY <1>1, <2>1, <2>2 DEF RInv, Filled, Complete, InFull
  <2>7. Late'
    BY <1>1, <1>2, <2>1, <2>2 DEF RInv, Late
  <2> QED
    BY <2>5, <2>6, <2>7 DEF LineInv
<1> QED
  BY <1>3, <1>4

\* Outside a recording there is no line.
LEMMA ApartKeepsLine ==
  ASSUME RInv, RecordStart \/ OffsetsFound \/ WriteInfo \/ Quit \/ WriteFails
               \/ ResetStack
  PROVE  LineInv'
<1>1. ~Recording'
  BY DEF RecordStart, OffsetsFound, WriteInfo, Quit, WriteFails, ResetStack,
    Recording, Goto
<1>2. ((gap' <=> gap) /\ (overrun' <=> overrun)) \/ ~gap'
  BY DEF RecordStart, OffsetsFound, WriteInfo, Quit, WriteFails, ResetStack,
    history
<1> QED
  BY <1>1, <1>2 DEF RInv, LineInv, InLine, Filled, Late

\* Every step keeps the line.
LEMMA LineInductive ==
  ASSUME SettleIsLong, RInv, [Next]_vars
  PROVE  RInv'
<1>1. ASSUME Tick PROVE LineInv'
  BY <1>1, TickInLine, TickFilled, TickLate DEF LineInv
<1>2. ASSUME AdcDone \/ AuxDone \/ OtherInterrupt \/ LoopWait \/ Stamp
               \/ SwitchOpen \/ UNCHANGED vars
      PROVE  LineInv'
  <2>1. /\ UNCHANGED <<device, current, index, block, history, turn>>
        /\ start' = start
    BY <1>2 DEF AdcDone, AuxDone, OtherInterrupt, LoopWait, Stamp, SwitchOpen,
      vars, analog, main
  <2>2. /\ pc' \in {"prepare", "append"} <=> pc \in {"prepare", "append"}
        /\ pc' \in {"stamp", "write"} => pc \in {"stamp", "write"}
        /\ pc' = pc \/ pc \in {"loop", "wait", "asleep", "stamp", "switch"}
    BY <1>2 DEF AdcDone, AuxDone, OtherInterrupt, LoopWait, Stamp, SwitchOpen,
      vars, main, Wake, Goto
  <2>3. Recording' => Recording
    BY <2>1, <2>2 DEF Recording
  <2> QED
    BY <2>1, <2>2, <2>3, SteadyKeepsLine
<1>3. LineInv'
  BY <1>1, <1>2, SleepKeepsLine, WriteKeepsLine, PrepareKeepsLine,
    AppendKeepsLine, ApartKeepsLine DEF Next, MainStep
<1>4. IInv'
  BY Inductive DEF RInv
<1> QED
  BY <1>3, <1>4 DEF RInv, LineInv

\* So it holds throughout.
LEMMA LineInvariance == ASSUME SettleIsLong PROVE Spec => []RInv
<1>1. Init => RInv
  <2> SUFFICES ASSUME Init PROVE RInv
    OBVIOUS
  <2>1. ~Recording /\ ~gap
    BY DEF Init, Recording
  <2> QED
    BY <2>1, InitInv DEF RInv, InLine, Filled, Late
<1>2. RInv /\ [Next]_vars => RInv'
  BY LineInductive
<1> QED
  BY <1>1, <1>2, PTL DEF Spec

\* The blocks reach the file complete and in the order they were filled, none
\* skipped, repeated or swapped, however the ticks fall between the steps of
\* the main thread (record.c:247-289, analog_disc.c:63-98).
THEOREM BlocksInOrder == ASSUME SettleIsLong PROVE Spec => []WrittenInOrder
<1>1. RInv => WrittenInOrder
  <2> SUFFICES ASSUME RInv, pc \in {"stamp", "write"}
               PROVE  /\ full # <<>> /\ Head(full) = turn
                      /\ block[turn].kind = "data"
                      /\ block[turn].pairs = ReadCount \div 2
    BY DEF WrittenInOrder
  <2>1. Recording /\ full # <<>>
    BY DEF RInv, InLine, Recording
  <2>2. turn \in Message /\ Other(turn) \in Message /\ TwoOut(turn)
    BY <2>1, BothOut
  <2>3. full = <<turn>> \/ full = <<turn, Other(turn)>>
    BY <2>1, <2>2 DEF TwoOut
  <2>4. Head(full) = turn /\ InFull(turn)
    BY <2>2, <2>3, ShortLines, ShortMembers
  <2> QED
    BY <2>1, <2>2, <2>4 DEF RInv, Filled, Complete
<1> QED
  BY <1>1, LineInvariance, PTL

\* With two buffers a reading is lost only when the main thread stayed awake
\* for as many ticks as fill a whole block (record.c:247-289).
THEOREM TwoBuffersAreEnough ==
  ASSUME SettleIsLong PROVE Spec => []LostOnlyOnOverrun
<1>1. RInv => LostOnlyOnOverrun
  BY DEF RInv, Late, LostOnlyOnOverrun
<1> QED
  BY <1>1, LineInvariance, PTL
----------------------------------------------------------------------------
(* The power board beside it *)

BoardProofs == INSTANCE PowerBoardProofs WITH pc <- board_pc, head <- board_head, state <- board_state

\* A behaviour of the run is one of the power board, which moves or stands still.
LEMMA RunsTheBoard == MCSpec => BoardProofs!Init /\ [][BoardProofs!Next]_BoardProofs!vars
<1>1. MCInit => BoardProofs!Init
  BY DEF MCInit,
        Board!Init, BoardProofs!Init, Board!Quiet, BoardProofs!Quiet, Board!No, BoardProofs!No,
        Board!Client, BoardProofs!Client, Board!Answer, BoardProofs!Answer
<1>2. [MCNext]_MCVars => [Board!Next]_Board!vars
  BY DEF MCNext, MCVars, Cpu, Boards, board, Board!vars
<1>3. [Board!Next]_Board!vars => [BoardProofs!Next]_BoardProofs!vars
  BY DEF
        Board!Next, BoardProofs!Next, Board!vars, BoardProofs!vars, Board!board, BoardProofs!board,
        Board!cpu, BoardProofs!cpu, Board!Client, BoardProofs!Client, Board!No, BoardProofs!No,
        Board!Value, BoardProofs!Value, Board!Sample, BoardProofs!Sample, Board!Other, BoardProofs!Other,
        Board!Free, BoardProofs!Free, Board!Serving, BoardProofs!Serving, Board!Answer, BoardProofs!Answer,
        Board!Quiet, BoardProofs!Quiet, Board!Copy, BoardProofs!Copy, Board!Prepare, BoardProofs!Prepare,
        Board!AppendMessage, BoardProofs!AppendMessage, Board!Wait, BoardProofs!Wait,
        Board!Measure, BoardProofs!Measure, Board!MainStep, BoardProofs!MainStep,
        Board!StartCondition, BoardProofs!StartCondition, Board!TimeFor, BoardProofs!TimeFor,
        Board!Start, BoardProofs!Start, Board!StartOther, BoardProofs!StartOther,
        Board!Ends, BoardProofs!Ends, Board!GoesOn, BoardProofs!GoesOn,
        Board!Addressed, BoardProofs!Addressed, Board!CheckAddress, BoardProofs!CheckAddress,
        Board!SendRegister, BoardProofs!SendRegister, Board!SendData, BoardProofs!SendData,
        Board!RequestReply, BoardProofs!RequestReply, Board!CheckReply, BoardProofs!CheckReply,
        Board!RequestData, BoardProofs!RequestData, Board!Stored, BoardProofs!Stored,
        Board!GetData, BoardProofs!GetData, Board!Nack, BoardProofs!Nack,
        Board!Overflow, BoardProofs!Overflow, Board!GiveUp, BoardProofs!GiveUp
<1> QED
  BY <1>1, <1>2, <1>3, PTL DEF MCSpec

LEMMA RunIsSafe == MCSpec => [](MessageHeld /\ WriteAgrees /\ HeaderIsFresh)
<1>1. BoardProofs!ConstantsOK
  BY BoardAssumption DEF Board!ConstantsOK, BoardProofs!ConstantsOK
<1>2. BoardProofs!Init /\ [][BoardProofs!Next]_BoardProofs!vars =>
        [](BoardProofs!MessageHeld /\ BoardProofs!WriteAgrees /\ BoardProofs!HeaderIsFresh)
  BY <1>1, BoardProofs!StepsAreSafe
<1>3. BoardProofs!MessageHeld /\ BoardProofs!WriteAgrees /\ BoardProofs!HeaderIsFresh =>
        MessageHeld /\ WriteAgrees /\ HeaderIsFresh
  BY DEF MessageHeld, WriteAgrees, HeaderIsFresh,
        Board!MessageHeld, BoardProofs!MessageHeld, Board!TypeOK, BoardProofs!TypeOK,
        Board!Value, BoardProofs!Value, Board!Sample, BoardProofs!Sample, Board!Client, BoardProofs!Client,
        Board!No, BoardProofs!No, Board!WriteAgrees, BoardProofs!WriteAgrees, Board!Free, BoardProofs!Free,
        Board!HeaderIsFresh, BoardProofs!HeaderIsFresh, Board!Other, BoardProofs!Other
<1> QED
  BY <1>2, <1>3, RunsTheBoard, PTL

\* The power board's interrupt never stores through a null message, and the message is in one place at a time,
\* however the transfers come, are refused and given up (slave.c:121-133, 177-183, 199-214).
THEOREM RunHoldsMessages == MCSpec => []MessageHeld
BY RunIsSafe, PTL

\* The bus master counts a write as done just when the power board has all of it (slave.c:207-213,
\* master.c:195-214).
THEOREM RunAgreesOnWrites == MCSpec => []WriteAgrees
BY RunIsSafe, PTL

\* What analog_tick reads after a write that nobody disturbed is one measurement made after it
\* (analog_disc.c:150-185, slave.c:98-99, 249).
THEOREM RunReadsFreshHeaders == MCSpec => []HeaderIsFresh
BY RunIsSafe, PTL
=============================================================================
