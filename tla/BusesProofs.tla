---------------------------- MODULE BusesProofs ----------------------------
(***************************************************************************)
(* The queue of the two wire bus and the interrupt that empties it, for    *)
(* any number of messages of the main thread and of the tick, and for      *)
(* messages of any length; the receive buffer of the serial port, for      *)
(* every size of the ring; the clock, for all that is typed; and these,    *)
(* with the card of SdCardProofs, in the behaviours of MCBuses.            *)
(***************************************************************************)
EXTENDS MCBuses, SequenceTheorems, TLAPS

----------------------------------------------------------------------------
(* The inductive invariant *)

\* The message that the main thread is about to queue is not in the queue.
MainInHand ==
  /\ main.at \in {"prepared", "waiting"} => main.message \in MainMessage
  /\ main.at = "prepared" =>
       /\ ~Linked(main.message)
       /\ next[main.message] = Null
       /\ state[main.message] = First(write_count[main.message])

\* A message in the queue, or about to be, has a byte to move.
HasBytes == \A m \in Message : state[m] \in Pending =>
              write_count[m] > 0 \/ read_count[m] > 0

\* The bytes moved are those the engine has passed in the buffer.
Counted ==
  /\ bus \in {"write_address", "write"} =>
       /\ state[head] = "writing"
       /\ moved.sent = current /\ moved.got = 0
  /\ bus \in {"read_address", "read_ack", "read_nack"} =>
       /\ state[head] = "reading"
       /\ moved.sent = Writes /\ moved.got = current
  /\ bus = "start" =>
       /\ moved.got = 0
       /\ moved.sent = IF state[head] = "writing" THEN 0 ELSE Writes

\* The engine reads only what is left, and knows the last byte.
Reading ==
  /\ bus # "idle" /\ state[head] = "reading" => Reads > 0
  /\ bus = "read_address" => current = 0
  /\ bus = "read_ack" => current < Reads - 1
  /\ bus = "read_nack" => current = Reads - 1

IInv ==
  /\ TypeOK /\ QueueWellFormed /\ EngineAgrees /\ InBuffer
  /\ MainInHand /\ HasBytes /\ Counted /\ Reading

\* As long as nobody wrote to a message that the bus had.
Kept == ~overwritten => IInv

----------------------------------------------------------------------------
(* The queue *)

\* The head of the queue is there exactly when order is not empty.
LEMMA HeadFirst ==
  ASSUME TypeOK, QueueWellFormed
  PROVE  /\ DOMAIN order = 1 .. Len(order) /\ Len(order) \in Nat
         /\ order = <<>> <=> Len(order) = 0
         /\ order # <<>> => head = order[1] /\ head \in Message /\ tail = order[Len(order)] /\ tail \in Message
         /\ order = <<>> => head = Null /\ tail = Null
         /\ tail = Null <=> order = <<>>
<1>1. /\ order \in Seq(Message) /\ Null \notin Message
  BY NullAssumption DEF TypeOK
<1>2. /\ DOMAIN order = 1 .. Len(order) /\ Len(order) \in Nat
      /\ order = <<>> <=> Len(order) = 0
      /\ \A i \in 1 .. Len(order) : order[i] \in Message
  BY <1>1
<1>3. order # <<>> => Head(order) = order[1] /\ 1 \in 1 .. Len(order) /\ Len(order) \in 1 .. Len(order)
  BY <1>1, <1>2
<1> QED
  BY <1>1, <1>2, <1>3 DEF QueueWellFormed

\* twi_queue_message puts a new message behind the others.
LEMMA LinkAppends ==
  ASSUME TypeOK, QueueWellFormed, NEW m \in Message,
         NEW pointers \in [Message -> Message \cup {Null}],
         pointers[m] = Null,
         \A k \in Message : k # m => pointers[k] = next[k],
         Link(m, pointers), order' = Append(order, m), ~Linked(m)
  PROVE  /\ QueueWellFormed'
         /\ order' \in Seq(Message) /\ Len(order') = Len(order) + 1
         /\ order'[Len(order) + 1] = m
         /\ \A i \in 1 .. Len(order) : order'[i] = order[i]
         /\ head' \in Message /\ tail' \in Message
         /\ next' \in [Message -> Message \cup {Null}]
         /\ head' = IF order = <<>> THEN m ELSE head
<1>1. /\ order \in Seq(Message) /\ Null \notin Message
      /\ next \in [Message -> Message \cup {Null}]
      /\ order' = Append(order, m)
      /\ \A i \in DOMAIN order : order[i] # m
  BY NullAssumption DEF TypeOK, Linked
<1>2. /\ order' \in Seq(Message) /\ Len(order') = Len(order) + 1
      /\ order'[Len(order) + 1] = m
      /\ \A i \in 1 .. Len(order) : order'[i] = order[i]
      /\ order' # <<>> /\ Head(order') = order'[1]
      /\ DOMAIN order' = 1 .. Len(order) + 1
  BY <1>1, HeadFirst
<1>3. /\ head' = (IF order = <<>> THEN m ELSE head)
      /\ tail' = m
      /\ next' \in [Message -> Message \cup {Null}]
  BY <1>1, HeadFirst DEF Link
<1>4. \A i, j \in DOMAIN order' : order'[i] = order'[j] => i = j
  BY <1>1, <1>2, HeadFirst DEF QueueWellFormed
<1>5. head' = order'[1] /\ tail' = order'[Len(order')]
  BY <1>2, <1>3, HeadFirst
<1>6. ASSUME NEW i \in DOMAIN order'
      PROVE  next'[order'[i]] = IF i = Len(order') THEN Null ELSE order'[i + 1]
  <2>1. CASE i = Len(order) + 1
    BY <1>1, <1>2, <2>1, HeadFirst DEF Link
  <2>2. CASE i = Len(order) /\ i > 0
    <3>1. next' = [pointers EXCEPT ![tail] = m]
      BY <2>2, HeadFirst DEF Link
    <3>2. order'[i] = tail /\ tail # m /\ tail \in Message
      BY <1>1, <1>2, <2>2, HeadFirst
    <3> QED
      BY <1>1, <1>2, <2>2, <3>1, <3>2, HeadFirst
  <2>3. CASE i \in 1 .. Len(order) - 1
    <3>1. next' = [pointers EXCEPT ![tail] = m]
      BY <2>3, HeadFirst DEF Link
    <3>2. order'[i] = order[i] /\ order[i] # m /\ order[i] # tail /\ order[i] \in Message
      BY <1>1, <1>2, <2>3, HeadFirst DEF QueueWellFormed
    <3>3. next[order[i]] = order[i + 1] /\ order'[i + 1] = order[i + 1]
      BY <1>2, <2>3, HeadFirst DEF QueueWellFormed
    <3> QED
      BY <1>1, <1>2, <2>3, <3>1, <3>2, <3>3, HeadFirst
  <2> QED
    BY <1>2, <2>1, <2>2, <2>3, HeadFirst
<1>7. QueueWellFormed'
  BY <1>2, <1>4, <1>5, <1>6 DEF QueueWellFormed
<1> QED
  BY <1>2, <1>3, <1>5, <1>7, HeadFirst

\* The handler takes the head off the queue, and nothing else.
LEMMA FinishShifts ==
  ASSUME TypeOK, QueueWellFormed, order # <<>>, NEW result, Finish(result),
         ~overwritten'
  PROVE  /\ QueueWellFormed'
         /\ order' \in Seq(Message) /\ Len(order') = Len(order) - 1
         /\ \A i \in 1 .. Len(order) - 1 :
              order'[i] = order[i + 1] /\ order'[i] # head
         /\ head' \in Message \cup {Null} /\ tail' \in Message \cup {Null}
         /\ next' \in [Message -> Message \cup {Null}]
         /\ next[head] = Null <=> order' = <<>>
         /\ order' # <<>> => head' = order'[1] /\ head' # head
<1>1. /\ order \in Seq(Message) /\ Null \notin Message
      /\ next \in [Message -> Message \cup {Null}]
      /\ order' = Tail(order) /\ Len(order) > 0 /\ 1 \in DOMAIN order
  BY NullAssumption, HeadFirst DEF TypeOK, Finish, Recorded
<1>2. /\ order' \in Seq(Message) /\ Len(order') = Len(order) - 1
      /\ \A i \in 1 .. Len(order) - 1 : order'[i] = order[i + 1]
      /\ DOMAIN order' = 1 .. Len(order) - 1
      /\ order' = <<>> <=> Len(order) = 1
      /\ order' # <<>> => Head(order') = order'[1]
  <2>1. order' \in Seq(Message) /\ Len(order') = Len(order) - 1
    BY <1>1, HeadFirst
  <2>2. \A i \in 1 .. Len(order) - 1 : order'[i] = order[i + 1]
    BY <1>1, HeadFirst
  <2>3. order' = <<>> <=> Len(order') = 0
    BY <2>1, EmptySeq
  <2>4. DOMAIN order' = 1 .. Len(order')
    BY <2>1
  <2> QED
    BY <1>1, <2>1, <2>2, <2>3, <2>4, HeadFirst
<1>3. \A i \in 1 .. Len(order) - 1 :
        order'[i] # head /\ order'[i] \in Message
  <2> TAKE i \in 1 .. Len(order) - 1
  <2>1. i + 1 \in DOMAIN order /\ 1 \in DOMAIN order /\ i + 1 # 1
    BY <1>1, HeadFirst
  <2>2. order[i + 1] # order[1]
    BY <2>1 DEF QueueWellFormed
  <2> QED
    BY <1>1, <1>2, <2>1, <2>2, HeadFirst
<1>4. \A i, j \in DOMAIN order' : order'[i] = order'[j] => i = j
  <2> TAKE i, j \in DOMAIN order'
  <2>1. i + 1 \in DOMAIN order /\ j + 1 \in DOMAIN order
    BY <1>1, <1>2, HeadFirst
  <2>2. order[i + 1] = order[j + 1] => i + 1 = j + 1
    BY <2>1 DEF QueueWellFormed
  <2> QED
    BY <1>1, <1>2, <2>1, <2>2, HeadFirst
<1>next. \A i \in DOMAIN order :
        next[order[i]] = IF i = Len(order) THEN Null ELSE order[i + 1]
  BY DEF QueueWellFormed
<1>5. next[head] = IF Len(order) = 1 THEN Null ELSE order[2]
  BY <1>1, <1>next, HeadFirst
<1>6. Len(order) # 1 => order[2] \in Message /\ order[2] # Null
  BY <1>1, HeadFirst
<1>7. CASE Len(order) = 1
  <2>1. head' = Null /\ tail' = Null /\ next' = next
    BY <1>5, <1>7 DEF Finish
  <2> QED
    BY <1>1, <1>2, <1>5, <1>7, <2>1 DEF QueueWellFormed
<1>8. CASE Len(order) # 1
  <2>1. /\ head' = order[2] /\ tail' = tail
        /\ next' = [next EXCEPT ![head] = Null]
    BY <1>5, <1>6, <1>8 DEF Finish
  <2>2. head' = order'[1] /\ tail' = order'[Len(order')] /\ order' # <<>>
    BY <1>1, <1>2, <1>8, <2>1, HeadFirst
  <2>3. ASSUME NEW i \in DOMAIN order'
        PROVE  next'[order'[i]] = IF i = Len(order') THEN Null ELSE order'[i + 1]
    <3>1. i + 1 \in DOMAIN order
      BY <1>2, HeadFirst
    <3>2. next[order[i + 1]] = IF i + 1 = Len(order) THEN Null ELSE order[i + 2]
      BY <1>1, <1>next, <3>1, HeadFirst
    <3>3. next'[order'[i]] = next[order'[i]]
      BY <1>1, <1>2, <1>3, <2>1
    <3> QED
      BY <1>1, <1>2, <3>1, <3>2, <3>3, HeadFirst
  <2>4. QueueWellFormed'
    BY <1>2, <1>4, <2>2, <2>3 DEF QueueWellFormed
  <2> QED
    <3>1. next' \in [Message -> Message \cup {Null}]
      BY <1>1, <2>1
    <3>2. head' \in Message /\ tail' \in Message /\ head' # head
      <4>1. 1 \in 1 .. Len(order) - 1 /\ tail \in Message
        BY <1>1, <1>8, HeadFirst
      <4> QED
        BY <1>3, <1>6, <1>8, <2>1, <2>2, <4>1
    <3>3. order' # <<>> /\ next[head] # Null
      BY <1>5, <1>6, <1>8, <2>2
    <3> QED
      BY <1>2, <1>3, <2>2, <2>4, <3>1, <3>2, <3>3
<1> QED
  BY <1>7, <1>8

----------------------------------------------------------------------------
(* A message that is done *)

\* What every outcome but success leaves in the state of a message.
Results == {"success"} \cup Failed

\* The head leaves the queue with a result, and the next one is started.
LEMMA FinishKeeps ==
  ASSUME IInv, twie, NEW result \in Results, Finish(result),
         current' \in 0 .. MaxCount, ~overwritten'
  PROVE  IInv'
<1> DEFINE n == Len(order)
<1>1. /\ TypeOK /\ QueueWellFormed /\ EngineAgrees /\ Null \notin Message
      /\ order # <<>> /\ n \in Nat /\ n > 0
      /\ head = order[1] /\ head \in Message
  BY NullAssumption, HeadFirst DEF IInv, EngineAgrees
<1>2. /\ QueueWellFormed'
      /\ order' \in Seq(Message) /\ Len(order') = n - 1
      /\ \A i \in 1 .. n - 1 : order'[i] = order[i + 1] /\ order'[i] # head
      /\ head' \in Message \cup {Null} /\ tail' \in Message \cup {Null}
      /\ next' \in [Message -> Message \cup {Null}]
      /\ next[head] = Null <=> order' = <<>>
      /\ order' # <<>> => head' = order'[1] /\ head' # head
  BY <1>1, FinishShifts
<1>3. /\ moved' = Nothing /\ UNCHANGED <<counts, main>>
      /\ state' = IF order' = <<>> THEN [state EXCEPT ![head] = result]
                  ELSE [state EXCEPT ![head] = result,
                                     ![head'] = First(write_count[head'])]
      /\ bus' = IF order' = <<>> THEN "idle" ELSE "start"
      /\ twie' = (order' # <<>>)
  BY <1>1, <1>2 DEF Finish, Recorded, IInv, TypeOK
<1>4. /\ state \in [Message -> {"new"} \cup Results \cup Pending]
      /\ state' \in [Message -> {"new"} \cup Results \cup Pending]
  BY <1>1, <1>2, <1>3 DEF TypeOK, First, Results, Pending
<1>5. TypeOK'
  BY <1>1, <1>2, <1>3, <1>4
  DEF TypeOK, Results, Operation, Nothing, counts
<1>6. \A i \in DOMAIN order' : i + 1 \in DOMAIN order /\ i \in 1 .. n - 1
  BY <1>1, <1>2, HeadFirst
<1>7. EngineAgrees'
  <2>1. ASSUME NEW i \in DOMAIN order'
        PROVE  state'[order'[i]] \in IF i = 1 THEN {"writing", "reading"} ELSE {"queued"}
    <3>1. state[order[i + 1]] \in {"queued"} /\ order' # <<>>
      <4>1. i + 1 \in DOMAIN order /\ i + 1 # 1 /\ order' # <<>>
        BY <1>1, <1>2, <1>6
      <4> QED
        BY <1>1, <4>1 DEF EngineAgrees
    <3>2. i # 1 => order'[i] # head'
      BY <1>2, <3>1 DEF QueueWellFormed
    <3>3. order'[i] \in Message /\ order'[i] # head /\ order'[i] = order[i + 1]
      BY <1>2, <1>6
    <3> QED
      BY <1>2, <1>3, <1>4, <3>1, <3>2, <3>3 DEF First
  <2> QED
    BY <1>3, <2>1 DEF EngineAgrees
<1>8. InBuffer' /\ Counted' /\ Reading'
  <2>1. CASE order' = <<>>
    BY <1>3, <2>1 DEF InBuffer, Counted, Reading, Nothing
  <2>2. CASE order' # <<>>
    <3>1. /\ head' \in Message /\ head' # head /\ bus' = "start"
          /\ state'[head'] = First(write_count[head'])
          /\ write_count[head'] \in Nat /\ read_count[head'] \in Nat
      BY <1>1, <1>2, <1>3, <1>4, <2>2, CountAssumption DEF TypeOK
    <3>2. 1 \in DOMAIN order' /\ order'[1] = order[2] /\ 2 \in DOMAIN order
      BY <1>1, <1>2, <2>2, HeadFirst
    <3>3. write_count[head'] > 0 \/ read_count[head'] > 0
      BY <1>1, <1>2, <2>2, <3>1, <3>2 DEF IInv, HasBytes, EngineAgrees, Pending
    <3> QED
      BY <1>3, <3>1, <3>3
      DEF InBuffer, Counted, Reading, Nothing, Writes, Reads, First, counts
  <2> QED
    BY <2>1, <2>2
<1>9. HasBytes'
  <2>1. \A m \in Message : state'[m] \in Pending => state[m] \in Pending
    <3> TAKE m \in Message
    <3>1. order' # <<>> => state[head'] \in Pending
      <4>1. CASE order' # <<>>
        <5>1. 1 \in DOMAIN order' /\ order'[1] = order[2] /\ 2 \in DOMAIN order
          BY <1>1, <1>2, <4>1, HeadFirst
        <5>2. state[order[2]] \in {"queued"}
          BY <1>1, <5>1 DEF EngineAgrees
        <5> QED
          BY <1>2, <4>1, <5>1, <5>2 DEF Pending
      <4> QED
        BY <4>1
    <3> QED
      BY <1>3, <1>4, <3>1 DEF Results, Failed, Pending
  <2> QED
    BY <1>3, <2>1 DEF HasBytes, IInv, counts
<1>10. MainInHand'
  <2>1. ASSUME main.at = "prepared"
        PROVE  main.message # head /\ (order' # <<>> => main.message # head')
    BY <1>1, <1>2, <1>6, <2>1, HeadFirst DEF IInv, MainInHand, Linked
  <2>2. main.at = "prepared" =>
          /\ state'[main.message] = state[main.message]
          /\ next'[main.message] = next[main.message]
    <3>1. /\ next' = next \/ next' = [next EXCEPT ![head] = Null]
          /\ next \in [Message -> Message \cup {Null}]
      BY <1>1 DEF Finish, TypeOK
    <3> QED
      BY <1>1, <1>3, <1>4, <2>1, <3>1 DEF IInv, MainInHand, Message
  <2>3. \A i \in DOMAIN order' : order'[i] = order[i + 1] /\ i + 1 \in DOMAIN order
    BY <1>2, <1>6
  <2> QED
    BY <1>3, <2>2, <2>3 DEF IInv, MainInHand, Linked, counts
<1> QED
  BY <1>2, <1>5, <1>7, <1>8, <1>9, <1>10 DEF IInv

----------------------------------------------------------------------------
(* The steps *)

LEMMA InitInv == Init => IInv
<1> SUFFICES ASSUME Init PROVE IInv
  OBVIOUS
<1>1. order = <<>> /\ order \in Seq(Message) /\ DOMAIN order = {}
  BY DEF Init
<1>2. TypeOK
  <2>1. /\ 0 \in 0 .. MaxCount
        /\ moved \in [sent : Nat, got : Nat]
        /\ main \in [at : {"idle", "prepared", "waiting"},
                     message : Message \cup {Null}]
    BY CountAssumption DEF Init, Nothing
  <2>2. /\ next \in [Message -> Message \cup {Null}]
        /\ state \in [Message -> {"new", "success"} \cup Failed \cup Pending]
        /\ write_count \in [Message -> 0 .. MaxCount]
        /\ read_count \in [Message -> 0 .. MaxCount]
    BY <2>1 DEF Init
  <2> QED
    BY <1>1, <2>1, <2>2 DEF Init, TypeOK, Operation
<1>3. QueueWellFormed /\ EngineAgrees /\ InBuffer
  BY <1>1 DEF Init, QueueWellFormed, EngineAgrees, InBuffer
<1>4. MainInHand /\ HasBytes /\ Counted /\ Reading
  BY <1>1 DEF Init, MainInHand, HasBytes, Counted, Reading, Pending
<1> QED
  BY <1>2, <1>3, <1>4 DEF IInv

\* A message not in the queue is given a shape and a state.
LEMMA ShapeOf ==
  ASSUME NEW m \in Message, NEW shape \in Shape(m)
  PROVE  /\ shape[1] \in 0 .. MaxCount /\ shape[2] \in 0 .. MaxCount
         /\ shape[1] > 0 \/ shape[2] > 0
<1>1. shape \in (0 .. MaxCount) \X (0 .. MaxCount) /\ shape # <<0, 0>>
  BY ShapeAssumption
<1>2. /\ shape = <<shape[1], shape[2]>>
      /\ shape[1] \in 0 .. MaxCount /\ shape[2] \in 0 .. MaxCount
  BY <1>1
<1>3. shape[1] # 0 \/ shape[2] # 0
  BY <1>1, <1>2
<1> QED
  BY <1>2, <1>3, CountAssumption

\* twi_queue_message before it disables interrupts.
LEMMA PrepareKeeps ==
  ASSUME IInv, NEW m \in MainMessage, Prepare(m), ~overwritten' PROVE IInv'
<1> DEFINE n == Len(order)
<1>1. /\ TypeOK /\ QueueWellFormed /\ EngineAgrees /\ m \in Message
      /\ Null \notin Message
      /\ \A i \in DOMAIN order : order[i] # m
      /\ order # <<>> => head \in Message /\ head # m
  <2>1. \A i \in DOMAIN order : order[i] # m
    BY DEF Prepare, Writing, Linked
  <2>2. TypeOK /\ QueueWellFormed
    BY DEF IInv
  <2>3. order # <<>> => 1 \in DOMAIN order
    BY <2>2, HeadFirst
  <2> QED
    BY <2>1, <2>2, <2>3, HeadFirst, NullAssumption DEF IInv, Message
<1>2. PICK shape \in Shape(m) : Prepared(m, shape, First(shape[1]))
  BY DEF Prepare
<1>3. /\ shape[1] \in 0 .. MaxCount /\ shape[2] \in 0 .. MaxCount
      /\ shape[1] > 0 \/ shape[2] > 0
  BY <1>1, ShapeOf
<1>4. /\ UNCHANGED <<head, tail, current, twie, bus, order, moved>>
      /\ main' = [at |-> "prepared", message |-> m]
      /\ next' = [next EXCEPT ![m] = Null]
      /\ write_count' = [write_count EXCEPT ![m] = shape[1]]
      /\ read_count' = [read_count EXCEPT ![m] = shape[2]]
      /\ state' = [state EXCEPT ![m] = First(shape[1])]
  BY <1>2 DEF Prepare, Prepared, Recorded
<1>5. TypeOK'
  BY <1>1, <1>3, <1>4 DEF TypeOK, First, Pending
<1>6. QueueWellFormed'
  BY <1>1, <1>4 DEF QueueWellFormed, TypeOK
<1>7. EngineAgrees'
  BY <1>1, <1>4 DEF EngineAgrees, TypeOK
<1>8. InBuffer' /\ Counted' /\ Reading'
  <2>1. CASE order = <<>>
    BY <1>1, <1>4, <2>1 DEF EngineAgrees, InBuffer, Counted, Reading
  <2>2. CASE order # <<>>
    <3>1. state'[head] = state[head] /\ Writes' = Writes /\ Reads' = Reads
      BY <1>1, <1>4, <2>2 DEF TypeOK, Writes, Reads
    <3> QED
      BY <1>4, <3>1 DEF IInv, InBuffer, Counted, Reading
  <2> QED
    BY <2>1, <2>2
<1>9. HasBytes'
  BY <1>1, <1>3, <1>4 DEF IInv, HasBytes, TypeOK
<1>10. MainInHand'
  <2>1. state'[m] = First(write_count'[m]) /\ next'[m] = Null
    BY <1>1, <1>4 DEF TypeOK
  <2> QED
    BY <1>1, <1>4, <2>1 DEF MainInHand, Linked
<1> QED
  BY <1>5, <1>6, <1>7, <1>8, <1>9, <1>10 DEF IInv

\* A message linked behind the others leaves the engine with the one it has,
\* or is the one it starts.
LEMMA EnqueuedKeeps ==
  ASSUME IInv, NEW m \in Message,
         NEW pointers \in [Message -> Message \cup {Null}],
         pointers[m] = Null,
         \A k \in Message : k # m => pointers[k] = next[k],
         Link(m, pointers), Kick(m), ~Linked(m), ~overwritten',
         TypeOK', HasBytes', MainInHand', current' = current,
         \A k \in Message : k # m =>
           /\ state'[k] = state[k]
           /\ write_count'[k] = write_count[k]
           /\ read_count'[k] = read_count[k],
         state'[m] = IF twie THEN "queued" ELSE First(write_count'[m])
  PROVE  IInv'
<1> DEFINE n == Len(order)
<1>1. /\ TypeOK /\ QueueWellFormed /\ EngineAgrees /\ Null \notin Message
      /\ n \in Nat /\ DOMAIN order = 1 .. n /\ order = <<>> <=> n = 0
      /\ \A i \in DOMAIN order : order[i] \in Message
      /\ order # <<>> => head \in Message /\ head # m
      /\ order' = Append(order, m)
  <2>1. TypeOK /\ QueueWellFormed
    BY DEF IInv
  <2>2. order # <<>> => 1 \in DOMAIN order
    BY <2>1, HeadFirst
  <2>3. \A i \in DOMAIN order : order[i] \in Message
    BY <2>1 DEF TypeOK
  <2> QED
    BY <2>1, <2>2, <2>3, HeadFirst, NullAssumption DEF IInv, Kick, Recorded, Linked
<1>2. /\ QueueWellFormed'
      /\ Len(order') = n + 1 /\ DOMAIN order' = 1 .. n + 1
      /\ order'[n + 1] = m /\ \A i \in 1 .. n : order'[i] = order[i]
      /\ head' = IF order = <<>> THEN m ELSE head
  <2>1. order' \in Seq(Message) /\ Len(order') = n + 1
    BY <1>1, LinkAppends
  <2>2. DOMAIN order' = 1 .. n + 1
    BY <2>1
  <2> QED
    BY <1>1, <2>1, <2>2, LinkAppends
<1>3. EngineAgrees'
  <2>1. twie' /\ bus' # "idle" /\ order' # <<>>
    BY <1>1, <1>2 DEF Kick, EngineAgrees
  <2>2. ASSUME NEW i \in DOMAIN order'
        PROVE  state'[order'[i]] \in IF i = 1 THEN {"writing", "reading"} ELSE {"queued"}
    <3>1. CASE i = n + 1
      BY <1>1, <1>2, <3>1 DEF First, EngineAgrees
    <3>2. CASE i \in 1 .. n
      BY <1>1, <1>2, <3>2 DEF EngineAgrees, Linked
    <3> QED
      BY <1>1, <1>2, <3>1, <3>2
  <2> QED
    BY <2>1, <2>2 DEF EngineAgrees
<1>4. InBuffer' /\ Counted' /\ Reading'
  <2>1. CASE order = <<>>
    <3>1. /\ head' = m /\ bus' = "start" /\ moved' = Nothing
          /\ state'[m] = First(write_count'[m])
      BY <1>1, <1>2, <2>1 DEF EngineAgrees, Kick, Recorded
    <3>2. /\ write_count'[m] \in Nat /\ read_count'[m] \in Nat
          /\ write_count'[m] > 0 \/ read_count'[m] > 0
      BY <3>1, CountAssumption DEF TypeOK, HasBytes, First, Pending
    <3> QED
      BY <3>1, <3>2
      DEF InBuffer, Counted, Reading, Nothing, Writes, Reads, First
  <2>2. CASE order # <<>>
    <3>1. /\ head' = head /\ bus' = bus /\ moved' = moved
          /\ state'[head] = state[head] /\ Writes' = Writes /\ Reads' = Reads
      BY <1>1, <1>2, <2>2 DEF Kick, Recorded, EngineAgrees, Writes, Reads
    <3> QED
      BY <3>1 DEF IInv, InBuffer, Counted, Reading
  <2> QED
    BY <2>1, <2>2
<1> QED
  BY <1>2, <1>3, <1>4 DEF IInv

\* The rest of twi_queue_message, for the main thread.
LEMMA EnqueueKeeps == ASSUME IInv, Enqueue, ~overwritten' PROVE IInv'
<1> DEFINE m == main.message
<1>1. /\ TypeOK /\ QueueWellFormed /\ m \in Message /\ m \in MainMessage
      /\ ~Linked(m) /\ next[m] = Null
      /\ next \in [Message -> Message \cup {Null}]
  BY DEF IInv, TypeOK, MainInHand, Enqueue, Message
<1>2. /\ Link(m, next) /\ Kick(m) /\ order' = Append(order, m) /\ UNCHANGED <<current, counts>>
      /\ main' = [main EXCEPT !.at = "waiting"]
      /\ state' = IF twie THEN [state EXCEPT ![m] = "queued"] ELSE state
      /\ state[m] = First(write_count[m])
  BY DEF Enqueue, Kick, Recorded, IInv, MainInHand
<1>3. /\ order' \in Seq(Message) /\ Len(order') = Len(order) + 1
      /\ order'[Len(order) + 1] = m
      /\ \A i \in 1 .. Len(order) : order'[i] = order[i]
      /\ head' \in Message /\ tail' \in Message
      /\ next' \in [Message -> Message \cup {Null}]
  BY <1>1, <1>2, LinkAppends
<1>4. /\ state' \in [Message -> {"new", "success"} \cup Failed \cup Pending]
      /\ state'[m] = IF twie THEN "queued" ELSE First(write_count[m])
      /\ \A k \in Message : k # m => state'[k] = state[k]
  BY <1>1, <1>2 DEF TypeOK, Pending
<1>5. TypeOK'
  BY <1>1, <1>2, <1>3, <1>4 DEF TypeOK, Kick, Recorded, Operation, Nothing, counts
<1>6. HasBytes'
  BY <1>1, <1>2, <1>4 DEF IInv, HasBytes, First, Pending, counts
<1>7. MainInHand'
  <2>1. main'.at = "waiting" /\ main'.message = m
    BY <1>1, <1>2 DEF TypeOK
  <2> QED
    BY <1>1, <2>1 DEF MainInHand
<1> QED
  BY <1>1, <1>2, <1>4, <1>5, <1>6, <1>7, EnqueuedKeeps DEF counts

\* analog_tick queues a message.
LEMMA TickQueueKeeps ==
  ASSUME IInv, NEW m \in TickMessage, TickQueue(m), ~overwritten'
  PROVE  IInv'
<1> DEFINE pointers == [next EXCEPT ![m] = Null]
<1>1. /\ TypeOK /\ QueueWellFormed /\ m \in Message /\ m \notin MainMessage
      /\ ~Linked(m)
      /\ pointers \in [Message -> Message \cup {Null}] /\ pointers[m] = Null
      /\ \A k \in Message : k # m => pointers[k] = next[k]
  BY MessageAssumption DEF IInv, TypeOK, TickQueue, Writing, Message
<1>2. PICK shape \in Shape(m) :
        Prepared(m, shape, IF twie THEN "queued" ELSE First(shape[1]))
  BY DEF TickQueue
<1>3. /\ shape[1] \in 0 .. MaxCount /\ shape[2] \in 0 .. MaxCount
      /\ shape[1] > 0 \/ shape[2] > 0
  BY <1>1, ShapeOf
<1>4. /\ Link(m, pointers) /\ Kick(m) /\ order' = Append(order, m)
      /\ UNCHANGED <<current, main>>
  BY DEF TickQueue, Kick, Recorded
<1>5. /\ order' \in Seq(Message) /\ Len(order') = Len(order) + 1
      /\ order'[Len(order) + 1] = m
      /\ \A i \in 1 .. Len(order) : order'[i] = order[i]
      /\ head' \in Message /\ tail' \in Message
      /\ next' \in [Message -> Message \cup {Null}]
  BY <1>1, <1>4, LinkAppends
<1>6. /\ state' \in [Message -> {"new", "success"} \cup Failed \cup Pending]
      /\ write_count' \in [Message -> 0 .. MaxCount]
      /\ read_count' \in [Message -> 0 .. MaxCount]
      /\ state'[m] = IF twie THEN "queued" ELSE First(shape[1])
      /\ write_count'[m] = shape[1] /\ read_count'[m] = shape[2]
      /\ \A k \in Message : k # m =>
           /\ state'[k] = state[k]
           /\ write_count'[k] = write_count[k]
           /\ read_count'[k] = read_count[k]
  BY <1>1, <1>2, <1>3 DEF TypeOK, Prepared, First, Pending
<1>7. TypeOK'
  BY <1>1, <1>4, <1>5, <1>6 DEF TypeOK, Kick, Recorded, Operation, Nothing
<1>8. HasBytes'
  BY <1>1, <1>3, <1>6 DEF IInv, HasBytes
<1>9. MainInHand'
  <2>1. \A i \in DOMAIN order' : i \in DOMAIN order \/ i = Len(order) + 1
    BY <1>1, <1>5, HeadFirst
  <2>2. \A i \in DOMAIN order' :
          (i \in DOMAIN order /\ order'[i] = order[i]) \/ order'[i] = m
    BY <1>1, <1>5, <2>1, HeadFirst
  <2>3. main.at = "prepared" =>
          /\ main.message \in Message /\ main.message # m
          /\ main.message # tail
    <3>1. order # <<>> => tail = order[Len(order)] /\ Len(order) \in DOMAIN order
      BY <1>1, HeadFirst
    <3> QED
      BY <1>1, <3>1, HeadFirst, NullAssumption DEF IInv, MainInHand, Message, Linked
  <2>4. main.at = "prepared" => next'[main.message] = next[main.message]
    BY <1>1, <1>4, <2>3 DEF Link
  <2> QED
    BY <1>4, <1>6, <2>2, <2>3, <2>4 DEF IInv, MainInHand, Linked
<1> QED
  BY <1>1, <1>4, <1>6, <1>7, <1>8, <1>9, EnqueuedKeeps

\* twi_wait_message returns, and leaves the queue as it is.
LEMMA WaitKeeps == ASSUME IInv, Wait \/ TimeOut PROVE IInv'
<1>1. /\ UNCHANGED <<head, tail, next, current, state, write_count, read_count>>
      /\ UNCHANGED <<twie, bus, order, moved>>
      /\ main' = [at |-> "idle", message |-> Null]
  BY DEF Wait, TimeOut, queue, counts, history
<1>2. MainInHand'
  BY <1>1 DEF MainInHand
<1> QED
  BY <1>1, <1>2
  DEF IInv, TypeOK, QueueWellFormed, EngineAgrees, InBuffer, HasBytes,
      Counted, Reading, Writes, Reads

\* The engine goes on with the head: the bus, the place in the buffer and the
\* bytes moved are all that changes.
LEMMA ContinueKeeps ==
  ASSUME IInv, twie, UNCHANGED <<queue, counts, twie, main, order>>,
         current' \in 0 .. MaxCount, bus' \in Operation \ {"idle"},
         moved' \in [sent : Nat, got : Nat],
         \/ state' = state
         \/ state[head] = "writing" /\ state' = [state EXCEPT ![head] = "reading"],
         InBuffer', Counted', Reading'
  PROVE  IInv'
<1>1. /\ TypeOK /\ QueueWellFormed /\ EngineAgrees /\ order # <<>>
      /\ head \in Message /\ head = order[1] /\ 1 \in DOMAIN order
      /\ UNCHANGED <<head, tail, next, write_count, read_count>>
  <2>1. TypeOK /\ QueueWellFormed /\ EngineAgrees /\ order # <<>>
    BY DEF IInv, EngineAgrees
  <2>2. head \in Message /\ head = order[1] /\ 1 \in DOMAIN order
    BY <2>1, HeadFirst
  <2> QED
    BY <2>1, <2>2 DEF queue, counts
<1>2. \A m \in Message : m # head => state'[m] = state[m]
  BY <1>1 DEF TypeOK
<1>3. state'[head] = state[head] \/ (state[head] = "writing" /\ state'[head] = "reading")
  BY <1>1 DEF TypeOK
<1>4. TypeOK'
  <2>1. state' \in [Message -> {"new", "success"} \cup Failed \cup Pending]
    BY <1>1 DEF TypeOK, Pending
  <2> QED
    BY <1>1, <2>1 DEF TypeOK
<1>5. QueueWellFormed'
  BY <1>1 DEF QueueWellFormed
<1>6. EngineAgrees'
  <2>1. \A i \in DOMAIN order : order[i] \in Message /\ (i # 1 => order[i] # head)
    BY <1>1 DEF TypeOK, QueueWellFormed
  <2>2. order' = order /\ bus' # "idle"
    OBVIOUS
  <2>3. \A i \in DOMAIN order' :
          state'[order'[i]] \in IF i = 1 THEN {"writing", "reading"} ELSE {"queued"}
    BY <1>1, <1>2, <1>3, <2>1, <2>2 DEF EngineAgrees
  <2> QED
    BY <1>1, <2>2, <2>3 DEF EngineAgrees
<1>7. MainInHand'
  <2>1. main.at = "prepared" => main.message \in Message /\ main.message # head
    BY <1>1 DEF IInv, MainInHand, Message, Linked
  <2>2. main.at = "prepared" => state'[main.message] = state[main.message]
    BY <1>2, <2>1
  <2> QED
    BY <1>1, <2>2 DEF IInv, MainInHand, Linked
<1>8. HasBytes'
  <2>1. \A m \in Message : state'[m] \in Pending => state[m] \in Pending
    BY <1>2, <1>3 DEF Pending
  <2> QED
    BY <1>1, <2>1 DEF IInv, HasBytes
<1> QED
  BY <1>4, <1>5, <1>6, <1>7, <1>8 DEF IInv

----------------------------------------------------------------------------
(* The bus interrupt *)

\* A transfer that fails, whatever byte it has come to.
LEMMA FailsKeep ==
  ASSUME IInv, twie, NEW result \in Failed, Finish(result),
         UNCHANGED current, ~overwritten'
  PROVE  IInv'
<1>1. current' \in 0 .. MaxCount
  BY DEF IInv, TypeOK
<1> QED
  BY <1>1, FinishKeeps DEF Results

\* The message at the head of the queue while the interrupt is on.
LEMMA HeadServed ==
  ASSUME IInv, twie
  PROVE  /\ TypeOK /\ EngineAgrees /\ InBuffer /\ HasBytes /\ Counted /\ Reading
         /\ head \in Message /\ state[head] \in {"writing", "reading"}
         /\ Writes \in 0 .. MaxCount /\ Reads \in 0 .. MaxCount
         /\ Writes \in Nat /\ Reads \in Nat
<1>1. TypeOK /\ QueueWellFormed /\ EngineAgrees /\ InBuffer /\ HasBytes /\ Counted /\ Reading
  BY DEF IInv
<1>2. order # <<>>
  BY <1>1 DEF EngineAgrees
<1>3. head \in Message /\ head = order[1] /\ 1 \in DOMAIN order
  BY <1>1, <1>2, HeadFirst
<1>4. state[head] \in {"writing", "reading"}
  BY <1>1, <1>3 DEF EngineAgrees
<1>5. Writes \in 0 .. MaxCount /\ Reads \in 0 .. MaxCount
  BY <1>1, <1>3 DEF TypeOK, Writes, Reads
<1> QED
  BY <1>1, <1>3, <1>4, <1>5, CountAssumption

\* TWI_START, TWI_REP_START
LEMMA StartedKeeps == ASSUME IInv, twie, Started, ~overwritten' PROVE IInv'
<1>1. TypeOK /\ HasBytes /\ Counted /\ Reading /\ EngineAgrees
  BY HeadServed
<1>2. head \in Message /\ state[head] \in {"writing", "reading"}
  BY HeadServed
<1>3. /\ current' = 0 /\ UNCHANGED <<queue, counts, twie, main, order, state, moved>>
      /\ bus' = IF state[head] = "writing" THEN "write_address" ELSE "read_address"
  BY <1>2 DEF Started, Continue, history
<1>4. /\ current' \in 0 .. MaxCount /\ bus' \in Operation \ {"idle"}
      /\ moved' \in [sent : Nat, got : Nat]
  BY <1>1, <1>3, CountAssumption DEF TypeOK, Operation
<1>5. /\ Writes' = Writes /\ Reads' = Reads /\ Writes \in Nat /\ Reads \in Nat
      /\ state'[head'] = state[head]
  BY <1>1, <1>2, <1>3, CountAssumption DEF TypeOK, Writes, Reads, queue, counts
<1>6. /\ moved.got = 0
      /\ moved.sent = IF state[head] = "writing" THEN 0 ELSE Writes
      /\ state[head] = "reading" => Reads > 0
  BY <1>1, <1>2, <1>3 DEF Started, Counted, Reading
<1>7. CASE state[head] = "writing"
  <2>1. bus' = "write_address" /\ moved'.sent = 0 /\ moved'.got = 0 /\ state'[head'] = "writing"
    BY <1>3, <1>5, <1>6, <1>7
  <2>2. InBuffer' /\ Counted' /\ Reading'
    BY <1>3, <1>5, <2>1 DEF InBuffer, Counted, Reading
  <2> QED
    BY <1>3, <1>4, <2>2, ContinueKeeps
<1>8. CASE state[head] = "reading"
  <2>1. /\ bus' = "read_address" /\ moved'.sent = Writes' /\ moved'.got = 0
        /\ state'[head'] = "reading" /\ Reads' > 0
    BY <1>3, <1>5, <1>6, <1>8
  <2>2. InBuffer' /\ Counted' /\ Reading'
    BY <1>3, <1>5, <2>1 DEF InBuffer, Counted, Reading
  <2> QED
    BY <1>3, <1>4, <2>2, ContinueKeeps
<1> QED
  BY <1>2, <1>7, <1>8

\* All bytes are written.
LEMMA WrittenKeeps ==
  ASSUME IInv, twie, bus \in {"write_address", "write"}, current = Writes,
         Written, ~overwritten'
  PROVE  IInv'
<1>1. /\ TypeOK /\ Counted /\ Reading /\ head \in Message
      /\ state[head] = "writing" /\ Writes \in Nat /\ Reads \in Nat
  BY HeadServed DEF Counted
<1>2. CASE Reads > 0
  <2>1. /\ state' = [state EXCEPT ![head] = "reading"] /\ bus' = "start"
        /\ UNCHANGED <<queue, counts, twie, main, order, current, moved>>
    <3>1. Reads # 0
      BY <1>2
    <3> QED
      BY <3>1 DEF Written, Continue, history
  <2>2. /\ current' \in 0 .. MaxCount /\ bus' \in Operation \ {"idle"}
        /\ moved' \in [sent : Nat, got : Nat]
    BY <1>1, <2>1 DEF TypeOK, Operation
  <2>3. Writes' = Writes /\ Reads' = Reads /\ state'[head'] = "reading"
    BY <1>1, <2>1 DEF TypeOK, Writes, Reads, queue, counts
  <2>4. InBuffer' /\ Counted' /\ Reading'
    BY <1>1, <1>2, <2>1, <2>3 DEF InBuffer, Counted, Reading
  <2> QED
    BY <1>1, <2>1, <2>2, <2>4, ContinueKeeps
<1>3. CASE Reads = 0
  <2>1. Finish("success") /\ current' \in 0 .. MaxCount
    BY <1>1, <1>3 DEF Written, TypeOK
  <2> QED
    BY <2>1, FinishKeeps DEF Results
<1> QED
  BY <1>1, <1>2, <1>3

\* TWI_MTX_ADR_ACK, TWI_MTX_DATA_ACK
LEMMA WriteAckedKeeps == ASSUME IInv, twie, WriteAcked, ~overwritten' PROVE IInv'
<1>1. /\ TypeOK /\ Counted /\ Reading /\ InBuffer /\ head \in Message
      /\ state[head] = "writing" /\ Writes \in 0 .. MaxCount /\ Reads \in Nat
      /\ bus \in {"write_address", "write"} /\ current <= Writes
  BY HeadServed DEF Counted, WriteAcked, InBuffer
<1>2. CASE current < Writes
  <2>1. /\ current' = current + 1 /\ bus' = "write" /\ state' = state
        /\ moved' = [moved EXCEPT !.sent = @ + 1]
        /\ UNCHANGED <<queue, counts, twie, main, order>>
    BY <1>2 DEF WriteAcked, Continue, Recorded
  <2>2. /\ current' \in 0 .. MaxCount /\ bus' \in Operation \ {"idle"}
        /\ moved' \in [sent : Nat, got : Nat]
        /\ moved'.sent = moved.sent + 1 /\ moved'.got = moved.got
    <3>1. current + 1 \in 0 .. MaxCount
      BY <1>1, <1>2, CountAssumption DEF TypeOK
    <3>2. moved \in [sent : Nat, got : Nat]
      BY <1>1 DEF TypeOK
    <3>3. /\ moved' \in [sent : Nat, got : Nat]
          /\ moved'.sent = moved.sent + 1 /\ moved'.got = moved.got
      BY <2>1, <3>2
    <3> QED
      BY <2>1, <3>1, <3>3 DEF Operation
  <2>3. Writes' = Writes /\ Reads' = Reads /\ state'[head'] = "writing"
    BY <1>1, <2>1 DEF TypeOK, Writes, Reads, queue, counts
  <2>4. InBuffer' /\ Counted' /\ Reading'
    <3>1. current \in Int /\ current + 1 <= Writes
      BY <1>1, <1>2, CountAssumption DEF TypeOK
    <3> QED
      BY <1>1, <2>1, <2>2, <2>3, <3>1 DEF InBuffer, Counted, Reading
  <2> QED
    BY <2>1, <2>2, <2>4, ContinueKeeps
<1>3. CASE ~(current < Writes)
  <2>1. current = Writes /\ Written
    BY <1>1, <1>3, CountAssumption DEF TypeOK, WriteAcked
  <2> QED
    BY <1>1, <2>1, WrittenKeeps
<1> QED
  BY <1>2, <1>3

\* TWI_MRX_ADR_ACK, TWI_MRX_DATA_ACK: another byte is asked for.
LEMMA ReadContinues ==
  ASSUME IInv, twie, ReadAddressed \/ ReadAcked, ~overwritten'
  PROVE  IInv'
<1>1. /\ TypeOK /\ Counted /\ Reading /\ EngineAgrees /\ head \in Message
      /\ bus \in {"read_address", "read_ack"}
      /\ state[head] = "reading" /\ Writes \in Nat /\ Reads \in 0 .. MaxCount
      /\ current \in Nat /\ Reads \in Nat
  <2>1. /\ TypeOK /\ Counted /\ Reading /\ EngineAgrees /\ QueueWellFormed
        /\ bus \in {"read_address", "read_ack"}
    BY DEF IInv, ReadAddressed, ReadAcked
  <2>2. head \in Message
    BY <2>1, HeadFirst DEF EngineAgrees
  <2> QED
    BY <2>1, <2>2, CountAssumption DEF Counted, TypeOK, Writes, Reads
<1>2. /\ UNCHANGED <<queue, counts, twie, main, order, state>>
      /\ bus' = ReadNext(current')
      /\ current' = IF bus = "read_address" THEN current ELSE current + 1
      /\ moved'.sent = moved.sent
      /\ moved'.got = IF bus = "read_address" THEN moved.got ELSE moved.got + 1
      /\ moved' \in [sent : Nat, got : Nat]
  <2>1. moved \in [sent : Nat, got : Nat]
    BY <1>1 DEF TypeOK
  <2>2. CASE ReadAddressed
    BY <1>1, <2>1, <2>2 DEF ReadAddressed, Continue, history
  <2>3. CASE ReadAcked
    BY <1>1, <2>1, <2>3 DEF ReadAcked, Continue, Recorded
  <2> QED
    BY <2>2, <2>3
<1>3. current' \in Nat /\ current' < Reads
  BY <1>1, <1>2 DEF Reading
<1>4. current' \in 0 .. MaxCount /\ bus' \in Operation \ {"idle"}
  BY <1>1, <1>2, <1>3, CountAssumption DEF Operation, ReadNext
<1>5. Writes' = Writes /\ Reads' = Reads /\ state'[head'] = "reading"
  BY <1>1, <1>2 DEF Writes, Reads, queue, counts
<1>6. InBuffer' /\ Counted' /\ Reading'
  BY <1>1, <1>2, <1>3, <1>5 DEF InBuffer, Counted, Reading, ReadNext
<1> QED
  BY <1>2, <1>4, <1>6, ContinueKeeps

\* SIG_2WIRE_SERIAL
LEMMA InterruptKeeps == ASSUME IInv, Interrupt, ~overwritten' PROVE IInv'
<1>1. twie
  BY DEF Interrupt
<1>2. CASE WriteRefused
  <2>1. CASE current = Writes
    BY <1>1, <1>2, <2>1, WrittenKeeps DEF WriteRefused
  <2>2. CASE current # Writes
    BY <1>1, <1>2, <2>2, FailsKeep DEF WriteRefused, Failed
  <2> QED
    BY <2>1, <2>2
<1>3. CASE ReadLast
  <2>1. current' \in 0 .. MaxCount
    BY <1>3, HeadFirst, CountAssumption
    DEF ReadLast, IInv, Reading, TypeOK, Reads, EngineAgrees
  <2> QED
    BY <1>1, <1>3, <2>1, FinishKeeps DEF ReadLast, Results
<1>4. CASE AddressRefused \/ ArbitrationLost \/ BusError
  BY <1>1, <1>4, FailsKeep DEF AddressRefused, ArbitrationLost, BusError, Failed
<1> QED
  BY <1>1, <1>2, <1>3, <1>4, StartedKeeps, WriteAckedKeeps, ReadContinues
  DEF Interrupt

\* A step that writes to no message that the bus has keeps the order.
LEMMA StepKeeps == ASSUME IInv, [Next]_vars, ~overwritten' PROVE IInv'
<1>1. CASE UNCHANGED vars
  BY <1>1
  DEF vars, queue, counts, history, IInv, TypeOK, QueueWellFormed, EngineAgrees,
      InBuffer, MainInHand, Linked, HasBytes, Counted, Reading, Writes, Reads
<1>2. ASSUME NEW m \in MainMessage, Reuse(m)
      PROVE  FALSE
  BY <1>2 DEF Reuse, Writing
<1> QED
  BY <1>1, <1>2, PrepareKeeps, EnqueueKeeps, TickQueueKeeps, WaitKeeps, InterruptKeeps
  DEF Next

\* What is written to a message that the bus has is not undone.
LEMMA StaysWritten == ASSUME [Next]_vars, overwritten PROVE overwritten'
<1>1. CASE Interrupt
  BY <1>1 DEF Interrupt
<1> QED
  BY <1>1 DEF Next, vars, Prepare, Enqueue, TickQueue, Wait, TimeOut, Reuse, Writing

LEMMA Inductive == ASSUME Kept, [Next]_vars PROVE Kept'
  BY StepKeeps, StaysWritten DEF Kept

----------------------------------------------------------------------------
(* The theorems *)

LEMMA Invariance == Spec => []Kept
<1>1. Init => Kept
  BY InitInv DEF Kept
<1>2. Kept /\ [Next]_vars => Kept'
  BY Inductive
<1> QED
  BY <1>1, <1>2, PTL DEF Spec

\* As long as nobody writes to a message that the bus has, the queue is a list
\* without repetition and the engine runs its head, byte by byte and inside its
\* buffer, though the main thread and the tick both queue, the interrupt comes
\* between their steps, and the main thread leaves messages behind that it gave
\* up (master.c:73-106, 109-124, 163-273).
THEOREM BusKeepsOrder == Spec => []BusInOrder
<1>1. Kept => BusInOrder
  BY DEF Kept, IInv, BusInOrder
<1> QED
  BY <1>1, Invariance, PTL

\* Only the head becomes done, and it is a success only when each of its bytes
\* has crossed the bus.
LEMMA DoneStep ==
  ASSUME IInv, [Next]_vars, ~overwritten', NEW m \in Message,
         state[m] \in Pending, state'[m] \notin Pending
  PROVE  /\ order # <<>> /\ m = Head(order)
         /\ state'[m] = "success" =>
              /\ moved.sent = write_count[m]
              /\ moved.got + (IF bus = "read_nack" THEN 1 ELSE 0) = read_count[m]
<1>1. TypeOK /\ QueueWellFormed /\ EngineAgrees /\ Counted /\ Reading /\ InBuffer
  BY DEF IInv
<1>2. CASE Interrupt
  <2>1. order # <<>> /\ head \in Message /\ head = Head(order)
    BY <1>1, <1>2, HeadFirst DEF Interrupt, EngineAgrees, QueueWellFormed
  <2>2. state[head] \in {"writing", "reading"}
    BY <1>1, <2>1, HeadFirst DEF EngineAgrees
  <2>3. /\ current \in Nat /\ Writes \in Nat /\ Reads \in Nat
        /\ moved.sent \in Nat /\ moved.got \in Nat
    BY <1>1, <2>1, CountAssumption DEF TypeOK, Writes, Reads
  <2>4. ASSUME NEW result, Finish(result)
        PROVE  m = head /\ state'[m] = result
    <3>1. First(write_count[head']) \in Pending
      BY DEF First, Pending
    <3>2. next[head] \in Message \cup {Null}
      BY <1>1, <2>1 DEF TypeOK
    <3>3. next[head] # Null => next[head] # head /\ next[head] \in Message
      <4>1. next[head] # Null => order' # <<>>
        BY <1>1, <2>1, <2>4, FinishShifts
      <4> QED
        BY <1>1, <2>1, <2>4, <3>2, <4>1, FinishShifts DEF Finish
    <3> QED
      BY <1>1, <2>1, <2>4, <3>1, <3>3 DEF Finish, TypeOK
  <2>5. ASSUME Written, bus \in {"write_address", "write"}, current = Writes
        PROVE  /\ m = head
               /\ state'[m] = "success" =>
                    moved.sent = Writes /\ moved.got = 0 /\ Reads = 0
    <3>1. CASE Finish("success") /\ Reads = 0
      BY <1>1, <2>4, <2>5, <3>1 DEF Counted
    <3>2. CASE state' = [state EXCEPT ![head] = "reading"]
      BY <1>1, <2>1, <3>2 DEF TypeOK, Pending
    <3> QED
      BY <2>5, <3>1, <3>2 DEF Written
  <2>6. CASE Started
    BY <1>1, <2>1, <2>2, <2>6 DEF Started, Pending
  <2>7. CASE WriteAcked
    <3>1. bus \in {"write_address", "write"} /\ Written /\ current = Writes
      BY <1>1, <2>3, <2>7 DEF WriteAcked, InBuffer
    <3>2. /\ m = head
          /\ state'[m] = "success" =>
               moved.sent = Writes /\ moved.got = 0 /\ Reads = 0
      BY <2>5, <3>1
    <3>3. bus # "read_nack"
      BY <3>1
    <3> QED
      BY <2>1, <2>3, <3>2, <3>3 DEF Writes, Reads
  <2>8. CASE WriteRefused
    <3>1. CASE current = Writes
      <4>1. bus = "write" /\ Written
        BY <2>8, <3>1 DEF WriteRefused
      <4> QED
        BY <2>1, <2>3, <2>5, <3>1, <4>1 DEF Writes, Reads
    <3>2. CASE current # Writes
      BY <2>1, <2>4, <2>8, <3>2 DEF WriteRefused
    <3> QED
      BY <3>1, <3>2
  <2>9. CASE ReadAddressed \/ ReadAcked
    BY <2>9 DEF ReadAddressed, ReadAcked
  <2>10. CASE ReadLast
    <3>1. m = head /\ bus = "read_nack"
      BY <2>4, <2>10 DEF ReadLast
    <3>2. moved.sent = Writes /\ moved.got = Reads - 1
      BY <1>1, <3>1 DEF Counted, Reading
    <3> QED
      BY <2>1, <2>3, <3>1, <3>2 DEF Writes, Reads
  <2>11. CASE AddressRefused \/ ArbitrationLost \/ BusError
    BY <2>1, <2>4, <2>11 DEF AddressRefused, ArbitrationLost, BusError
  <2> QED
    BY <1>2, <2>6, <2>7, <2>8, <2>9, <2>10, <2>11 DEF Interrupt
<1>3. CASE \E k \in MainMessage : Prepare(k)
  <2>1. PICK k \in MainMessage : Prepare(k)
    BY <1>3
  <2>2. PICK shape \in Shape(k) : state' = [state EXCEPT ![k] = First(shape[1])]
    BY <2>1 DEF Prepare, Prepared
  <2> QED
    BY <1>1, <2>2 DEF TypeOK, First, Pending
<1>4. CASE Enqueue
  BY <1>1, <1>4 DEF Enqueue, TypeOK, Pending
<1>5. CASE \E k \in TickMessage : TickQueue(k)
  <2>1. PICK k \in TickMessage : TickQueue(k)
    BY <1>5
  <2>2. state'[k] \in Pending /\ \A j \in Message : j # k => state'[j] = state[j]
    BY <1>1, <2>1 DEF TickQueue, Prepared, TypeOK, First, Pending, Message
  <2> QED
    BY <2>2
<1>6. CASE Wait \/ TimeOut \/ UNCHANGED vars
  BY <1>6 DEF Wait, TimeOut, vars
<1>7. CASE \E k \in MainMessage : Reuse(k)
  BY <1>7 DEF Reuse, Writing
<1> QED
  BY <1>2, <1>3, <1>4, <1>5, <1>6, <1>7 DEF Next

\* A message is reported done once, and a success means that every byte of it
\* has crossed the bus, as long as nobody writes to a message that the bus has
\* (master.c:163-222).
THEOREM DoneIsDone == Spec => DoneMeansDone
<1>1. Kept /\ [Next]_vars =>
        [\A m \in Message :
           state[m] \in Pending /\ state'[m] \notin Pending /\ ~overwritten' =>
             /\ order # <<>> /\ m = Head(order)
             /\ state'[m] = "success" =>
                  /\ moved.sent = write_count[m]
                  /\ moved.got + (IF bus = "read_nack" THEN 1 ELSE 0)
                       = read_count[m]]_vars
  BY DoneStep, StaysWritten DEF Kept
<1> QED
  BY <1>1, Invariance, PTL DEF Spec, DoneMeansDone

----------------------------------------------------------------------------
(* The receive buffer: arithmetic on slots *)

\* & 0x0f on numbers less than a turn outside the ring.
LEMMA Wraps ==
  ASSUME Ring!ConstantsOK, NEW n \in Ring!Slot
  PROVE  Ring!Wrap(n) = n /\ Ring!Wrap(n + Size) = n /\ Ring!Wrap(n - Size) = n
<1>1. n \in Int /\ 0 <= n /\ n < Size /\ Size \in Nat /\ Size > 1
  BY DEF Ring!Slot, Ring!ConstantsOK
<1>2. n % Size = n
  BY <1>1
<1>3. (n + Size) % Size = n
  BY <1>1
<1>4. (n - Size) % Size = n
  BY <1>1
<1> QED
  BY <1>2, <1>3, <1>4 DEF Ring!Wrap

\* The slot i places after t.
LEMMA After ==
  ASSUME Ring!ConstantsOK, NEW t \in Ring!Slot, NEW i \in 0 .. Size
  PROVE  /\ Ring!Wrap(t + i) = IF t + i < Size THEN t + i ELSE t + i - Size
         /\ Ring!Wrap(t + i) \in Ring!Slot
<1>1. t \in Int /\ i \in Int /\ 0 <= t /\ t < Size /\ Size \in Nat
  BY DEF Ring!Slot, Ring!ConstantsOK
<1>2. CASE t + i < Size
  <2>1. t + i \in Ring!Slot
    BY <1>1, <1>2 DEF Ring!Slot
  <2> QED
    BY <1>2, <2>1, Wraps
<1>3. CASE t + i >= Size
  <2>1. t + i - Size \in Ring!Slot /\ (t + i - Size) + Size = t + i
    BY <1>1, <1>3 DEF Ring!Slot
  <2>2. Ring!Wrap(t + i) = t + i - Size
    BY <2>1, Wraps
  <2> QED
    BY <1>1, <1>3, <2>1, <2>2
<1> QED
  BY <1>1, <1>2, <1>3

\* How many characters there are from behind t up to h.
Between(h, t) == IF h > t THEN h - t - 1 ELSE h - t - 1 + Size

LEMMA Counts ==
  ASSUME Ring!ConstantsOK, NEW h \in Ring!Slot, NEW t \in Ring!Slot
  PROVE  Ring!Wrap(h - t - 1) = Between(h, t) /\ Between(h, t) \in 0 .. Size - 1
<1>1. h \in Int /\ t \in Int /\ 0 <= t /\ t < Size /\ 0 <= h /\ h < Size
      /\ Size \in Nat
  BY DEF Ring!Slot, Ring!ConstantsOK
<1>2. Between(h, t) \in Ring!Slot
  BY <1>1 DEF Between, Ring!Slot
<1>3. CASE h > t
  BY <1>2, <1>3, Wraps DEF Between, Ring!Slot
<1>4. CASE ~(h > t)
  <2>1. Between(h, t) - Size = h - t - 1
    BY <1>1, <1>4 DEF Between
  <2> QED
    BY <1>2, <2>1, Wraps DEF Ring!Slot
<1> QED
  BY <1>3, <1>4

----------------------------------------------------------------------------
(* The slots *)

LEMMA StableInit == ASSUME Ring!ConstantsOK, Ring!Init PROVE Ring!SlotIsStable
<1>1. (CHOOSE c \in Byte : TRUE) \in Byte
  BY DEF Ring!ConstantsOK
<1>2. 0 \in Ring!Slot /\ Size - 1 \in Ring!Slot
  BY DEF Ring!Slot, Ring!ConstantsOK
<1> QED
  BY <1>1, <1>2 DEF Ring!Init, Ring!SlotIsStable, Ring!TypeOK

\* The interrupt writes the slot before the one that is read at most.
LEMMA ReceiveStable ==
  ASSUME Ring!ConstantsOK, Ring!SlotIsStable, NEW c \in Byte, Ring!Receive(c)
  PROVE  Ring!SlotIsStable'
<1>1. /\ ring_head \in Ring!Slot /\ ring_tail \in Ring!Slot /\ Size \in Nat /\ Size > 1
      /\ data \in [Ring!Slot -> Byte]
  BY DEF Ring!SlotIsStable, Ring!TypeOK, Ring!ConstantsOK
<1>2. CASE ring_head = ring_tail
  BY <1>2 DEF Ring!Receive, Ring!SlotIsStable, Ring!TypeOK, Ring!reader
<1>3. CASE ring_head # ring_tail
  <2>1. /\ data' = [data EXCEPT ![ring_head] = c] /\ ring_head' = Ring!Wrap(ring_head + 1)
        /\ overflow' = overflow /\ ring_tail' = ring_tail
        /\ at' = at /\ ring_next' = ring_next /\ taken' = taken /\ answer' = answer
    BY <1>3 DEF Ring!Receive, Ring!reader
  <2>2. /\ Ring!Wrap(ring_head + 1) \in Ring!Slot
        /\ Ring!Wrap(ring_head + 1) = IF ring_head + 1 < Size THEN ring_head + 1 ELSE ring_head + 1 - Size
        /\ Ring!Wrap(ring_tail + 1) = IF ring_tail + 1 < Size THEN ring_tail + 1 ELSE ring_tail + 1 - Size
    BY <1>1, After
  <2>3. Ring!Wrap(ring_head + 1) # Ring!Wrap(ring_tail + 1)
    BY <1>1, <1>3, <2>2 DEF Ring!Slot
  <2>4. Ring!TypeOK'
    BY <1>1, <2>1, <2>2 DEF Ring!SlotIsStable, Ring!TypeOK
  <2> QED
    BY <1>1, <2>1, <2>3, <2>4 DEF Ring!SlotIsStable, Ring!TypeOK
<1> QED
  BY <1>2, <1>3

\* uart_read stays at its slot until it has freed it.
LEMMA ReaderStable ==
  ASSUME Ring!ConstantsOK, Ring!SlotIsStable, Ring!Begin \/ Ring!Take \/ Ring!Return
  PROVE  Ring!SlotIsStable'
<1>1. /\ ring_head \in Ring!Slot /\ ring_tail \in Ring!Slot /\ ring_next \in Ring!Slot
      /\ data \in [Ring!Slot -> Byte] /\ 1 \in 0 .. Size
  BY DEF Ring!SlotIsStable, Ring!TypeOK, Ring!ConstantsOK
<1>2. Ring!Wrap(ring_tail + 1) \in Ring!Slot
  BY <1>1, After
<1>3. CASE Ring!Begin
  BY <1>2, <1>3 DEF Ring!Begin, Ring!SlotIsStable, Ring!TypeOK, Ring!ring
<1>4. CASE Ring!Take
  BY <1>1, <1>4 DEF Ring!Take, Ring!SlotIsStable, Ring!TypeOK, Ring!ring
<1>5. CASE Ring!Return
  BY <1>1, <1>5 DEF Ring!Return, Ring!SlotIsStable, Ring!TypeOK
<1> QED
  BY <1>3, <1>4, <1>5

LEMMA Stable == ASSUME Ring!ConstantsOK, Ring!SlotIsStable, [Ring!Next]_Ring!vars PROVE Ring!SlotIsStable'
<1>1. CASE UNCHANGED Ring!vars
  BY <1>1 DEF Ring!vars, Ring!ring, Ring!reader, Ring!SlotIsStable, Ring!TypeOK
<1> QED
  BY <1>1, ReceiveStable, ReaderStable DEF Ring!Next

----------------------------------------------------------------------------
(* The queue *)

\* The characters from behind t up to h, oldest first.
Line(h, t, d) == [i \in 1 .. Ring!Wrap(h - t - 1) |-> d[Ring!Wrap(t + i)]]
Waiting == Line(ring_head, ring_tail, data)

\* The queue is as long as the ring says, and each place of it is a slot.
LEMMA LineIs ==
  ASSUME Ring!ConstantsOK, NEW h \in Ring!Slot, NEW t \in Ring!Slot, NEW d \in [Ring!Slot -> Byte]
  PROVE  /\ Between(h, t) \in 0 .. Size - 1
         /\ Line(h, t, d) \in Seq(Byte) /\ Len(Line(h, t, d)) = Between(h, t)
         /\ \A i \in 1 .. Between(h, t) : /\ Line(h, t, d)[i] = d[Ring!Wrap(t + i)]
                                         /\ Ring!Wrap(t + i) \in Ring!Slot
<1>1. Size \in Nat
  BY DEF Ring!ConstantsOK
<1>2. Ring!Wrap(h - t - 1) = Between(h, t) /\ Between(h, t) \in 0 .. Size - 1
  BY Counts
<1>3. \A i \in 1 .. Between(h, t) : Ring!Wrap(t + i) \in Ring!Slot
  BY <1>1, <1>2, After
<1>4. Line(h, t, d) = [i \in 1 .. Between(h, t) |-> d[Ring!Wrap(t + i)]]
  BY <1>2 DEF Line
<1> HIDE DEF Between, Line
<1> QED
  BY <1>1, <1>2, <1>3, <1>4

\* A character that is received goes to the end of the queue, or is lost.
LEMMA ReceiveQueues ==
  ASSUME Ring!ConstantsOK, Ring!SlotIsStable, Ring!SlotIsStable', NEW c \in Byte, Ring!Receive(c)
  PROVE  Ring!Characters!Accept(c) \/ Ring!Characters!Lose
<1> DEFINE n == Between(ring_head, ring_tail)
<1>1. /\ ring_head \in Ring!Slot /\ ring_tail \in Ring!Slot /\ ring_head' \in Ring!Slot /\ ring_tail' \in Ring!Slot
      /\ data \in [Ring!Slot -> Byte] /\ data' \in [Ring!Slot -> Byte]
      /\ Size \in Nat /\ Size > 1
  BY DEF Ring!SlotIsStable, Ring!TypeOK, Ring!ConstantsOK
<1>2. /\ n \in 0 .. Size - 1 /\ Waiting \in Seq(Byte) /\ Len(Waiting) = n
      /\ \A i \in 1 .. n : /\ Waiting[i] = data[Ring!Wrap(ring_tail + i)]
                           /\ Ring!Wrap(ring_tail + i) \in Ring!Slot
  BY <1>1, LineIs DEF Waiting
<1>3. CASE ring_head = ring_tail
  <2>1. n = Size - 1
    BY <1>1, <1>3 DEF Between, Ring!Slot
  <2>2. /\ overflow' = TRUE /\ UNCHANGED <<ring_head, data, ring_tail, answer>>
    BY <1>3 DEF Ring!Receive, Ring!reader
  <2>3. Waiting' = Waiting
    BY <2>2 DEF Waiting
  <2> QED
    BY <1>2, <2>1, <2>2, <2>3 DEF Ring!Characters!Lose, Waiting, Line, Ring!Count
<1>4. CASE ring_head # ring_tail
  <2>1. /\ data' = [data EXCEPT ![ring_head] = c] /\ ring_head' = Ring!Wrap(ring_head + 1)
        /\ overflow' = overflow /\ ring_tail' = ring_tail /\ answer' = answer
    BY <1>4 DEF Ring!Receive, Ring!reader
  <2>2. Ring!Wrap(ring_head + 1) = IF ring_head + 1 < Size THEN ring_head + 1 ELSE ring_head + 1 - Size
    BY <1>1, After
  <2>3. Between(ring_head', ring_tail') = n + 1 /\ n < Size - 1
    BY <1>1, <1>4, <2>1, <2>2 DEF Between, Ring!Slot
  <2>4. /\ Waiting' \in Seq(Byte) /\ Len(Waiting') = n + 1
        /\ \A i \in 1 .. n + 1 : Waiting'[i] = data'[Ring!Wrap(ring_tail + i)]
    <3> DEFINE k == Between(ring_head', ring_tail')
    <3>1. /\ Line(ring_head', ring_tail', data') \in Seq(Byte)
          /\ Len(Line(ring_head', ring_tail', data')) = k
          /\ \A i \in 1 .. k :
               Line(ring_head', ring_tail', data')[i] = data'[Ring!Wrap(ring_tail' + i)]
      BY <1>1, LineIs
    <3>2. Waiting' = Line(ring_head', ring_tail', data') /\ ring_tail' = ring_tail /\ k = n + 1
      BY <2>1, <2>3 DEF Waiting
    <3> HIDE DEF k, n
    <3> QED
      BY <3>1, <3>2
  <2>5. ASSUME NEW i \in 1 .. n PROVE Ring!Wrap(ring_tail + i) # ring_head
    <3>1. i \in 0 .. Size
      BY <1>1, <1>2
    <3>2. Ring!Wrap(ring_tail + i) = IF ring_tail + i < Size THEN ring_tail + i ELSE ring_tail + i - Size
      BY <1>1, <3>1, After
    <3>3. n = IF ring_head > ring_tail THEN ring_head - ring_tail - 1 ELSE ring_head - ring_tail - 1 + Size
      BY DEF Between
    <3> HIDE DEF n
    <3> QED
      BY <1>1, <1>2, <3>2, <3>3 DEF Ring!Slot
  <2>6. Ring!Wrap(ring_tail + (n + 1)) = ring_head
    <3>1. n + 1 \in 0 .. Size
      BY <1>1, <2>3, <1>2
    <3>2. Ring!Wrap(ring_tail + (n + 1)) = IF ring_tail + (n + 1) < Size
                                 THEN ring_tail + (n + 1) ELSE ring_tail + (n + 1) - Size
      BY <1>1, <3>1, After
    <3>3. n = IF ring_head > ring_tail THEN ring_head - ring_tail - 1 ELSE ring_head - ring_tail - 1 + Size
      BY DEF Between
    <3> HIDE DEF n
    <3> QED
      BY <1>1, <1>2, <1>4, <3>2, <3>3 DEF Ring!Slot
  <2> HIDE DEF n
  <2>7. Waiting' = Append(Waiting, c)
    <3>1. \A i \in 1 .. n : Waiting'[i] = Waiting[i]
      BY <1>1, <1>2, <2>1, <2>4, <2>5
    <3>2. Waiting'[n + 1] = c
      BY <1>1, <1>2, <2>1, <2>4, <2>6
    <3>3. /\ Append(Waiting, c) \in Seq(Byte) /\ Len(Append(Waiting, c)) = n + 1
          /\ \A i \in 1 .. n : Append(Waiting, c)[i] = Waiting[i]
          /\ Append(Waiting, c)[n + 1] = c
      BY <1>2
    <3>4. \A i \in 1 .. n + 1 : Waiting'[i] = Append(Waiting, c)[i]
      BY <1>2, <3>1, <3>2, <3>3
    <3> QED
      BY <1>2, <2>4, <3>3, <3>4, SeqEqual
  <2> QED
    BY <1>1, <1>2, <2>1, <2>3, <2>7 DEF Ring!Characters!Accept, Waiting, Line, Ring!Count
<1> QED
  BY <1>3, <1>4

\* The character that is returned is the oldest.
LEMMA ReturnReads ==
  ASSUME Ring!ConstantsOK, Ring!SlotIsStable, Ring!SlotIsStable', Ring!Return
  PROVE  Ring!Characters!Read
<1> DEFINE n == Between(ring_head, ring_tail)
<1>1. /\ ring_head \in Ring!Slot /\ ring_tail \in Ring!Slot /\ Size \in Nat /\ Size > 1
      /\ data \in [Ring!Slot -> Byte] /\ ring_next \in Ring!Slot
      /\ ring_next = Ring!Wrap(ring_tail + 1) /\ ring_next # ring_head /\ data[ring_next] = taken
      /\ ring_tail' = ring_next /\ answer' = taken
      /\ ring_head' = ring_head /\ data' = data /\ overflow' = overflow
  BY DEF Ring!SlotIsStable, Ring!TypeOK, Ring!Return, Ring!ConstantsOK
<1>2. /\ n \in 0 .. Size - 1 /\ Waiting \in Seq(Byte) /\ Len(Waiting) = n
      /\ \A i \in 1 .. n : Waiting[i] = data[Ring!Wrap(ring_tail + i)]
  BY <1>1, LineIs DEF Waiting
<1>3. ring_next = IF ring_tail + 1 < Size THEN ring_tail + 1 ELSE ring_tail + 1 - Size
  BY <1>1, After
<1>4. n > 0 /\ Between(ring_head, ring_next) = n - 1
  <2>1. /\ n = IF ring_head > ring_tail THEN ring_head - ring_tail - 1 ELSE ring_head - ring_tail - 1 + Size
        /\ Between(ring_head, ring_next) =
             IF ring_head > ring_next THEN ring_head - ring_next - 1 ELSE ring_head - ring_next - 1 + Size
    BY DEF Between
  <2>2. /\ ring_head \in Int /\ ring_tail \in Int /\ 0 <= ring_head /\ ring_head < Size
        /\ 0 <= ring_tail /\ ring_tail < Size
    BY <1>1 DEF Ring!Slot
  <2> HIDE DEF n
  <2>3. CASE ring_tail + 1 < Size
    BY <1>1, <1>3, <2>1, <2>2, <2>3
  <2>4. CASE ring_tail + 1 >= Size
    BY <1>1, <1>3, <2>1, <2>2, <2>4
  <2> QED
    BY <1>1, <2>2, <2>3, <2>4
<1>5. /\ Waiting' \in Seq(Byte) /\ Len(Waiting') = n - 1
      /\ \A i \in 1 .. n - 1 : Waiting'[i] = data[Ring!Wrap(ring_next + i)]
  <2> DEFINE k == Between(ring_head, ring_next)
  <2>1. /\ Line(ring_head, ring_next, data) \in Seq(Byte)
        /\ Len(Line(ring_head, ring_next, data)) = k
        /\ \A i \in 1 .. k : Line(ring_head, ring_next, data)[i] = data[Ring!Wrap(ring_next + i)]
    BY <1>1, LineIs
  <2>2. Waiting' = Line(ring_head, ring_next, data) /\ k = n - 1
    BY <1>1, <1>4 DEF Waiting
  <2> HIDE DEF k, n
  <2> QED
    BY <2>1, <2>2
<1>6. ASSUME NEW i \in 1 .. n - 1 PROVE Ring!Wrap(ring_next + i) = Ring!Wrap(ring_tail + (i + 1))
  <2> HIDE DEF n
  <2>1. i \in 0 .. Size /\ i + 1 \in 0 .. Size
    BY <1>1, <1>2
  <2>2. Ring!Wrap(ring_next + i) = IF ring_next + i < Size THEN ring_next + i ELSE ring_next + i - Size
    BY <1>1, <2>1, After
  <2>3. Ring!Wrap(ring_tail + (i + 1)) = IF ring_tail + (i + 1) < Size THEN ring_tail + (i + 1)
                               ELSE ring_tail + (i + 1) - Size
    BY <1>1, <2>1, After
  <2>4. ring_tail \in Int /\ 0 <= ring_tail /\ ring_tail < Size /\ i \in Int /\ 0 < i /\ i + 1 < Size
    BY <1>1, <1>2 DEF Ring!Slot
  <2>5. CASE ring_tail + 1 < Size
    BY <1>1, <1>3, <2>2, <2>3, <2>4, <2>5
  <2>6. CASE ring_tail + 1 >= Size
    BY <1>1, <1>3, <2>2, <2>3, <2>4, <2>6
  <2> QED
    BY <1>1, <2>4, <2>5, <2>6
<1> HIDE DEF n
<1>7. n \in Nat /\ n > 0
  BY <1>2, <1>4
<1>8. Head(Waiting) = taken /\ Waiting # <<>>
  BY <1>1, <1>2, <1>7
<1>9. Waiting' = Tail(Waiting)
  <2>1. ASSUME NEW i \in 1 .. n - 1 PROVE Waiting'[i] = Waiting[i + 1]
    <3>1. i + 1 \in 1 .. n
      BY <1>7
    <3>2. Waiting[i + 1] = data[Ring!Wrap(ring_tail + (i + 1))]
      BY <1>2, <3>1
    <3> QED
      BY <1>5, <1>6, <3>2
  <2>2. /\ Tail(Waiting) \in Seq(Byte) /\ Len(Tail(Waiting)) = n - 1
        /\ \A i \in 1 .. n - 1 : Tail(Waiting)[i] = Waiting[i + 1]
    BY <1>2, <1>7
  <2> QED
    BY <1>5, <1>7, <2>1, <2>2, SeqEqual
<1> QED
  BY <1>1, <1>8, <1>9 DEF Ring!Characters!Read, Waiting, Line, Ring!Count

\* Nothing else touches the ring.
LEMMA RingRefines ==
  ASSUME Ring!ConstantsOK, Ring!SlotIsStable, Ring!SlotIsStable', [Ring!Next]_Ring!vars
  PROVE  [Ring!Characters!Next]_Ring!Characters!vars
<1>1. CASE Ring!Begin \/ Ring!Take \/ UNCHANGED Ring!vars
  <2>1. UNCHANGED <<ring_head, ring_tail, data, overflow, answer>>
    BY <1>1 DEF Ring!Begin, Ring!Take, Ring!vars, Ring!ring, Ring!reader
  <2> QED
    BY <2>1 DEF Ring!Characters!vars, Ring!Count
<1> QED
  BY <1>1, ReceiveQueues, ReturnReads DEF Ring!Next, Ring!Characters!Next

\* The ring is a queue of Size - 1 characters and the slot that is read is
\* never the one the interrupt writes, wherever the interrupt falls in
\* uart_read (usart.c:38-50, 98-110).
THEOREM RingIsAQueue == ASSUME Ring!ConstantsOK PROVE Ring!Spec => Ring!ImplementsQueue
<1>1. Ring!Init => Ring!SlotIsStable
  BY StableInit
<1>2. Ring!SlotIsStable /\ [Ring!Next]_Ring!vars => Ring!SlotIsStable'
  BY Stable
<1>3. Ring!Init => Ring!Characters!Init
  <2> SUFFICES ASSUME Ring!Init PROVE Ring!Characters!Init
    OBVIOUS
  <2>1. Ring!Count = 0
    <3>1. ring_head \in Ring!Slot /\ ring_tail \in Ring!Slot /\ ring_head = 0 /\ ring_tail = Size - 1
      BY DEF Ring!Init, Ring!Slot, Ring!ConstantsOK
    <3>2. Ring!Count = Between(ring_head, ring_tail)
      BY <3>1, Counts DEF Ring!Count
    <3> QED
      BY <3>1, <3>2 DEF Between, Ring!ConstantsOK
  <2>2. [i \in 1 .. 0 |-> data[Ring!Wrap(ring_tail + i)]] = <<>>
    OBVIOUS
  <2> QED
    BY <2>1, <2>2 DEF Ring!Init, Ring!Characters!Init
<1>4. Ring!SlotIsStable /\ Ring!SlotIsStable' /\ [Ring!Next]_Ring!vars
        => [Ring!Characters!Next]_Ring!Characters!vars
  BY RingRefines
<1> QED
  BY <1>1, <1>2, <1>3, <1>4, PTL DEF Ring!Spec, Ring!ImplementsQueue, Ring!Characters!Spec

----------------------------------------------------------------------------
(* The three side by side *)

\* A behaviour of the run is one of each component, which moves or stands still.
LEMMA RunsTheBus == MCSpec => Spec
<1>1. [MCNext]_MCVars => [Next]_vars
  BY DEF MCNext, MCVars, Twi, Card, Clocks, Serial, Rests
<1> QED
  BY <1>1, PTL DEF MCSpec, MCInit, Spec

\* The ring is a queue in every behaviour of the run, whatever its constants
\* (usart.c:38-50, 98-110).
THEOREM RunIsAQueue == MCSpec => ImplementsQueue
<1>1. [MCNext]_MCVars => [Ring!Next]_Ring!vars
  BY DEF MCNext, MCVars, Twi, Card, Clocks, Serial, Rests, ring, Ring!vars, Ring!ring, Ring!reader
<1>2. MCSpec => Ring!Spec
  BY <1>1, PTL DEF MCSpec, MCInit, Ring!Spec
<1> QED
  BY <1>2, RingIsAQueue, RingAssumption, PTL DEF ImplementsQueue

CardProofs == INSTANCE SdCardProofs

LEMMA RunsTheCard == MCSpec => CardProofs!Init /\ [][CardProofs!Next]_CardProofs!vars
<1>1. MCInit => CardProofs!Init
  BY DEF MCInit,
        Sd!Init, CardProofs!Init, Sd!NewCard, CardProofs!NewCard, Sd!Sector, CardProofs!Sector,
        Sd!Zeroed, CardProofs!Zeroed, Sd!sdcard_initializer, CardProofs!sdcard_initializer
<1>2. [MCNext]_MCVars => [Sd!Next]_Sd!vars
  BY DEF MCNext, MCVars, Twi, Card, Clocks, Serial, Rests, sdcard, Sd!vars
<1>3. [Sd!Next]_Sd!vars => [CardProofs!Next]_CardProofs!vars
  BY DEF Sd!Next, CardProofs!Next,
        Sd!vars, CardProofs!vars, Sd!AllKinds, CardProofs!AllKinds, Sd!Sector, CardProofs!Sector,
        Sd!WriteCall, CardProofs!WriteCall, Sd!ReadCall, CardProofs!ReadCall, Sd!Call,
        CardProofs!Call, Sd!Busy, CardProofs!Busy, Sd!Idle, CardProofs!Idle, Sd!Addressed,
        CardProofs!Addressed, Sd!Negotiate, CardProofs!Negotiate, Sd!Answer, CardProofs!Answer,
        Sd!Executed, CardProofs!Executed, Sd!Silent, CardProofs!Silent, Sd!Held, CardProofs!Held,
        Sd!sd_command, CardProofs!sd_command, Sd!Program, CardProofs!Program, Sd!Deselected,
        CardProofs!Deselected, Sd!Return, CardProofs!Return, Sd!Failure, CardProofs!Failure,
        Sd!Proceed, CardProofs!Proceed, Sd!Begin, CardProofs!Begin, Sd!sdcard_initializer,
        CardProofs!sdcard_initializer, Sd!Zeroed, CardProofs!Zeroed, Sd!sd_init, CardProofs!sd_init,
        Sd!sd_shutdown, CardProofs!sd_shutdown, Sd!GoIdle, CardProofs!GoIdle, Sd!IfCondition,
        CardProofs!IfCondition, Sd!Voltage, CardProofs!Voltage, Sd!Capability,
        CardProofs!Capability, Sd!Poll, CardProofs!Poll, Sd!HighCapacity, CardProofs!HighCapacity,
        Sd!Capacity, CardProofs!Capacity, Sd!CardDetect, CardProofs!CardDetect, Sd!Argument,
        CardProofs!Argument, Sd!sd_block_read, CardProofs!sd_block_read, Sd!sd_block_write,
        CardProofs!sd_block_write, Sd!sd_read_csd, CardProofs!sd_read_csd, Sd!Refuse,
        CardProofs!Refuse, Sd!ReadCommand, CardProofs!ReadCommand, Sd!Token, CardProofs!Token,
        Sd!ReadData, CardProofs!ReadData, Sd!ReadWait, CardProofs!ReadWait, Sd!ReadGiveUp,
        CardProofs!ReadGiveUp, Sd!WriteCommand, CardProofs!WriteCommand, Sd!WriteData,
        CardProofs!WriteData, Sd!Settled, CardProofs!Settled, Sd!SettleWait, CardProofs!SettleWait,
        Sd!Reset, CardProofs!Reset, Sd!Step, CardProofs!Step
<1> QED
  BY <1>1, <1>2, <1>3, PTL DEF MCSpec

\* The driver and the card are a block device in every behaviour of the run,
\* whatever its constants (sdcard.c:163-268, 321-371, 388-441).
THEOREM RunIsADevice == MCSpec => ImplementsDevice
<1>1. CardProofs!Init /\ [][CardProofs!Next]_CardProofs!vars => CardProofs!ImplementsDevice
  <2>1. CardProofs!ConstantsOK
    BY CardAssumption
    DEF Sd!ConstantsOK, CardProofs!ConstantsOK, Sd!Sector, CardProofs!Sector, Sd!Call,
        CardProofs!Call, Sd!ReadCall, CardProofs!ReadCall, Sd!WriteCall, CardProofs!WriteCall
  <2> QED
    BY <2>1, CardProofs!StepsOfADevice
<1>2. CardProofs!Device!Init => Sd!Device!Init
  BY DEF Sd!Device!Init, CardProofs!Device!Init, Sd!Sector, CardProofs!Sector
<1>3. [CardProofs!Device!Next]_CardProofs!Device!vars => [Sd!Device!Next]_Sd!Device!vars
  BY DEF Sd!Device!Next, CardProofs!Device!Next,
        Sd!Device!Call, CardProofs!Device!Call, Sd!Device!Request, CardProofs!Device!Request,
        Sd!Device!Accept, CardProofs!Device!Accept, Sd!Device!Land, CardProofs!Device!Land,
        Sd!Device!Return, CardProofs!Device!Return, Sd!Device!Fail, CardProofs!Device!Fail,
        Sd!Device!Restart, CardProofs!Device!Restart, Sd!Device!vars, CardProofs!Device!vars,
        Sd!Sector, CardProofs!Sector
<1> QED
  BY <1>1, <1>2, <1>3, RunsTheCard, PTL
  DEF ImplementsDevice, Sd!Device!Spec, CardProofs!Device!Spec, Sd!ImplementsDevice, CardProofs!ImplementsDevice

----------------------------------------------------------------------------
(* The clock *)

\* The most each field of a time can show, and the times and half times, whatever they show.
Most == <<TicksPerSecond - 1, 59, 59, 23, 31, 12, 99>>
Sevens == {t \in Seq(Nat) : Len(t) = 7}
Triples == {t \in Seq(Nat) : Len(t) = 3}
InRange(t) == t \in Sevens /\ \A i \in 1 .. 7 : t[i] <= Most[i]

\* Every field of the chip is in its range, if not always in the calendar; a command about to write has in rtc
\* what it was shown; and what is due, if anything, is what the chip shows.
ClockInv ==
  /\ chip \in Sevens /\ InRange(Clock!Decoded(chip)) /\ clock \in Sevens
  /\ clock_call \in [op : {"none", "rtc", "rtc_date", "rtc_time"}, typed : Triples, shown : Sevens]
  /\ clock_pc = "write" => clock_call.shown = Clock!Decoded(clock) /\ InRange(Clock!Decoded(clock))
  /\ due # Unknown => due = Clock!Decoded(chip) /\ Clock!IsTime(due)

----------------------------------------------------------------------------
LEMMA OfItsLength ==
  ASSUME NEW S, NEW k \in Nat, NEW s \in [1 .. k -> S]
  PROVE  s \in Seq(S) /\ Len(s) = k
<1>1. s \in Seq(S)
  OBVIOUS
<1> QED
  BY <1>1, LenProperties

LEMMA SevenOf ==
  ASSUME NEW f, f \in [1 .. 7 -> Nat]
  PROVE  f \in Sevens
<1> DEFINE k == 7
<1>1. k \in Nat /\ f \in [1 .. k -> Nat]
  OBVIOUS
<1> HIDE DEF k
<1>2. f \in Seq(Nat) /\ Len(f) = k
  BY <1>1, OfItsLength
<1> QED
  BY <1>2 DEF Sevens, k

LEMMA SevenIs ==
  ASSUME NEW t \in Sevens
  PROVE  t \in [1 .. 7 -> Nat] /\ DOMAIN t = 1 .. 7 /\ t \in Seq(Nat) /\ Len(t) = 7
<1>1. t \in Seq(Nat) /\ Len(t) = 7
  BY DEF Sevens
<1>2. DOMAIN t = 1 .. 7 /\ t \in [1 .. 7 -> Nat]
  BY <1>1, LenProperties
<1> QED
  BY <1>1, <1>2

LEMMA SameSevens ==
  ASSUME NEW t \in Sevens, NEW u \in Sevens, \A i \in 1 .. 7 : t[i] = u[i]
  PROVE  t = u
<1>1. t \in [1 .. 7 -> Nat] /\ u \in [1 .. 7 -> Nat]
  BY SevenIs
<1> QED
  BY <1>1

LEMMA TripleIs ==
  ASSUME NEW t \in Triples
  PROVE  t \in [1 .. 3 -> Nat] /\ DOMAIN t = 1 .. 3 /\ t \in Seq(Nat) /\ Len(t) = 3
<1>1. t \in Seq(Nat) /\ Len(t) = 3
  BY DEF Triples
<1>2. DOMAIN t = 1 .. 3 /\ t \in [1 .. 3 -> Nat]
  BY <1>1, LenProperties
<1> QED
  BY <1>1, <1>2

\* A number of two digits survives its encoding.
LEMMA Digits ==
  /\ \A n \in Nat : Clock!binary_to_bcd(n) \in Nat /\ Clock!bcd_to_binary(n) \in Nat
  /\ \A n \in 0 .. 99 : Clock!bcd_to_binary(Clock!binary_to_bcd(n)) = n
  /\ Clock!bcd_to_binary(0) = 0
<1>1. \A n \in Nat : Clock!binary_to_bcd(n) \in Nat /\ Clock!bcd_to_binary(n) \in Nat
  BY DEF Clock!binary_to_bcd, Clock!bcd_to_binary
<1>2. \A n \in 0 .. 99 : Clock!bcd_to_binary(Clock!binary_to_bcd(n)) = n
  <2> TAKE n \in 0 .. 99
  <2> DEFINE a == n \div 10
             b == n % 10
  <2>1. a \in 0 .. 9 /\ b \in 0 .. 9 /\ n = a * 10 + b
    OBVIOUS
  <2>2. Clock!binary_to_bcd(n) = a * 16 + b
    BY DEF Clock!binary_to_bcd
  <2> HIDE DEF a, b
  <2>3. (a * 16 + b) \div 16 = a /\ (a * 16 + b) % 16 = b
    BY <2>1
  <2> QED
    BY <2>1, <2>2, <2>3 DEF Clock!bcd_to_binary
<1>3. Clock!bcd_to_binary(0) = 0
  BY DEF Clock!bcd_to_binary
<1> QED
  BY <1>1, <1>2, <1>3

LEMMA Coded ==
  ASSUME NEW t \in Sevens
  PROVE  /\ Clock!Encoded(t) \in Sevens /\ Clock!Decoded(t) \in Sevens
         /\ \A i \in 1 .. 7 : Clock!Encoded(t)[i] = Clock!binary_to_bcd(t[i])
              /\ Clock!Decoded(t)[i] = Clock!bcd_to_binary(t[i])
<1>1. t \in [1 .. 7 -> Nat] /\ DOMAIN t = 1 .. 7
  BY SevenIs
<1>2. Clock!Encoded(t) \in [1 .. 7 -> Nat] /\ Clock!Decoded(t) \in [1 .. 7 -> Nat]
  BY <1>1, Digits DEF Clock!Encoded, Clock!Decoded
<1>3. Clock!Encoded(t) \in Sevens /\ Clock!Decoded(t) \in Sevens
  BY <1>2, SevenOf
<1> QED
  BY <1>1, <1>3 DEF Clock!Encoded, Clock!Decoded

LEMMA MostIs ==
  /\ Most[1] = TicksPerSecond - 1 /\ Most[2] = 59 /\ Most[3] = 59 /\ Most[4] = 23
  /\ Most[5] = 31 /\ Most[6] = 12 /\ Most[7] = 99
  /\ \A i \in 1 .. 7 : Most[i] \in 0 .. 99
<1>1. /\ Most[1] = TicksPerSecond - 1 /\ Most[2] = 59 /\ Most[3] = 59 /\ Most[4] = 23
      /\ Most[5] = 31 /\ Most[6] = 12 /\ Most[7] = 99
  BY DEF Most
<1>2. TicksPerSecond \in 1 .. 100
  BY ClockAssumption DEF Clock!ConstantsOK
<1>3. ASSUME NEW i \in 1 .. 7 PROVE Most[i] \in 0 .. 99
  <2>1. i = 1 \/ i = 2 \/ i = 3 \/ i = 4 \/ i = 5 \/ i = 6 \/ i = 7
    OBVIOUS
  <2> QED
    BY <1>1, <1>2, <2>1
<1> QED
  BY <1>1, <1>3

LEMMA YearIs ==
  ASSUME NEW t, InRange(t)
  PROVE  t \in Sevens /\ t \in [1 .. 7 -> Nat] /\ t[7] \in 0 .. 99
<1>1. t \in Sevens /\ t[7] <= Most[7]
  BY DEF InRange
<1>2. t \in [1 .. 7 -> Nat]
  BY <1>1, SevenIs
<1>3. t[7] \in Nat /\ Most[7] = 99
  BY <1>2, MostIs
<1> QED
  BY <1>1, <1>2, <1>3

LEMMA CodeSurvives ==
  ASSUME NEW t, InRange(t)
  PROVE  Clock!Encoded(t) \in Sevens /\ Clock!Decoded(Clock!Encoded(t)) = t
<1>1. t \in Sevens /\ t \in [1 .. 7 -> Nat]
  BY SevenIs DEF InRange
<1>2. Clock!Encoded(t) \in Sevens /\ Clock!Decoded(Clock!Encoded(t)) \in Sevens
  BY <1>1, Coded
<1>3. ASSUME NEW i \in 1 .. 7 PROVE Clock!Decoded(Clock!Encoded(t))[i] = t[i]
  <2>1. t[i] \in 0 .. 99
    <3>1. t[i] \in Nat /\ t[i] <= Most[i] /\ Most[i] \in 0 .. 99
      BY <1>1, MostIs DEF InRange
    <3> QED
      BY <3>1
  <2>2. Clock!Decoded(Clock!Encoded(t))[i] = Clock!bcd_to_binary(Clock!binary_to_bcd(t[i]))
    BY <1>1, <1>2, Coded
  <2> QED
    BY <2>1, <2>2, Digits
<1> QED
  BY <1>1, <1>2, <1>3, SameSevens

----------------------------------------------------------------------------
(* The calendar *)

LEMMA MonthsAdd ==
  ASSUME NEW m \in 1 .. 12, NEW y \in 0 .. 99
  PROVE  LET before == Clock!days_month[IF Clock!leapyear(y) THEN 2 ELSE 1]
         IN  /\ before[m] \in Nat /\ before[1] = 0
             /\ m < 12 => before[m + 1] = before[m] + Clock!DaysInMonth(m, y)
             /\ Clock!DaysInMonth(m, y) \in 28 .. 31 /\ (m = 12 => Clock!DaysInMonth(m, y) = 31)
<1>1. Clock!leapyear(y) <=> y % 4 = 0
  BY DEF Clock!leapyear
<1>2. m = 1 \/ m = 2 \/ m = 3 \/ m = 4 \/ m = 5 \/ m = 6 \/ m = 7 \/ m = 8 \/ m = 9 \/ m = 10 \/ m = 11 \/ m = 12
  OBVIOUS
<1>3. Clock!DaysInMonth(m, y) = IF m = 2 THEN (IF Clock!leapyear(y) THEN 29 ELSE 28)
                          ELSE IF m \in {4, 6, 9, 11} THEN 30 ELSE 31
  BY <1>1 DEF Clock!DaysInMonth
<1>4. CASE Clock!leapyear(y)
  <2> DEFINE before == <<0, 31, 60, 91, 121, 152, 182, 213, 244, 274, 305, 335, 366>>
  <2>1. Clock!days_month[IF Clock!leapyear(y) THEN 2 ELSE 1] = before
    BY <1>4 DEF Clock!days_month
  <2>2. /\ before[1] = 0 /\ before[2] = 31 /\ before[3] = 60 /\ before[4] = 91 /\ before[5] = 121
        /\ before[6] = 152 /\ before[7] = 182 /\ before[8] = 213 /\ before[9] = 244 /\ before[10] = 274
        /\ before[11] = 305 /\ before[12] = 335
    OBVIOUS
  <2> HIDE DEF before
  <2> QED
    BY <1>2, <1>3, <1>4, <2>1, <2>2
<1>5. CASE ~ Clock!leapyear(y)
  <2> DEFINE before == <<0, 31, 59, 90, 120, 151, 181, 212, 243, 273, 304, 334, 365>>
  <2>1. Clock!days_month[IF Clock!leapyear(y) THEN 2 ELSE 1] = before
    BY <1>5 DEF Clock!days_month
  <2>2. /\ before[1] = 0 /\ before[2] = 31 /\ before[3] = 59 /\ before[4] = 90 /\ before[5] = 120
        /\ before[6] = 151 /\ before[7] = 181 /\ before[8] = 212 /\ before[9] = 243 /\ before[10] = 273
        /\ before[11] = 304 /\ before[12] = 334
    OBVIOUS
  <2> HIDE DEF before
  <2> QED
    BY <1>2, <1>3, <1>5, <2>1, <2>2
<1> QED
  BY <1>4, <1>5

LEMMA LastIs ==
  ASSUME NEW t, InRange(t), Clock!IsTime(t)
  PROVE  /\ Clock!Last(t)[1] = TicksPerSecond - 1 /\ Clock!Last(t)[2] = 59 /\ Clock!Last(t)[3] = 59
              /\ Clock!Last(t)[4] = 23
         /\ Clock!Last(t)[5] = Clock!DaysInMonth(t[6], t[7]) /\ Clock!Last(t)[6] = 12 /\ Clock!Last(t)[7] = 99
         /\ \A i \in 1 .. 7 : t[i] \in Nat /\ Clock!Last(t)[i] \in Nat /\ t[i] <= Clock!Last(t)[i]
              /\ Clock!Last(t)[i] <= Most[i]
<1>1. /\ Clock!Last(t)[1] = TicksPerSecond - 1 /\ Clock!Last(t)[2] = 59 /\ Clock!Last(t)[3] = 59
           /\ Clock!Last(t)[4] = 23
      /\ Clock!Last(t)[5] = Clock!DaysInMonth(t[6], t[7]) /\ Clock!Last(t)[6] = 12 /\ Clock!Last(t)[7] = 99
  BY DEF Clock!Last
<1>2. t[6] \in 1 .. 12 /\ t[5] \in 1 .. Clock!DaysInMonth(t[6], t[7]) /\ t \in [1 .. 7 -> Nat]
  BY SevenIs DEF Clock!IsTime, InRange
<1>3. t[7] \in 0 .. 99 /\ TicksPerSecond \in 1 .. 100
  <2>1. t[7] \in 0 .. 99
    BY YearIs
  <2>2. TicksPerSecond \in 1 .. 100
    BY ClockAssumption DEF Clock!ConstantsOK
  <2> QED
    BY <2>1, <2>2
<1>4. Clock!DaysInMonth(t[6], t[7]) \in 28 .. 31
  BY <1>2, <1>3, MonthsAdd
<1>5. ASSUME NEW i \in 1 .. 7
      PROVE  t[i] \in Nat /\ Clock!Last(t)[i] \in Nat /\ t[i] <= Clock!Last(t)[i] /\ Clock!Last(t)[i] <= Most[i]
  <2>1. i = 1 \/ i = 2 \/ i = 3 \/ i = 4 \/ i = 5 \/ i = 6 \/ i = 7
    OBVIOUS
  <2>2. t[i] \in Nat /\ t[i] <= Most[i]
    BY <1>2 DEF InRange
  <2> QED
    BY <1>1, <1>2, <1>3, <1>4, <2>1, <2>2, MostIs
<1> QED
  BY <1>1, <1>5

\* The fields before the k-th are at their end, and the k-th is not.
Carries(t, k) == (\A j \in 1 .. k - 1 : t[j] = Clock!Last(t)[j]) /\ (k < 8 => t[k] < Clock!Last(t)[k])

LEMMA SomeCarry ==
  ASSUME NEW t, InRange(t), Clock!IsTime(t)
  PROVE  \E k \in 1 .. 8 : Carries(t, k)
<1>1. \A i \in 1 .. 7 : t[i] \in Nat /\ Clock!Last(t)[i] \in Nat
        /\ (t[i] = Clock!Last(t)[i] \/ t[i] < Clock!Last(t)[i])
  <2>1. \A i \in 1 .. 7 : t[i] \in Nat /\ Clock!Last(t)[i] \in Nat /\ t[i] <= Clock!Last(t)[i]
    BY LastIs
  <2> QED
    BY <2>1
<1> DEFINE Ends(i) == t[i] = Clock!Last(t)[i]
<1>2. Ends(1) \/ Carries(t, 1)
  BY <1>1 DEF Carries
<1>3. Ends(1) => Ends(2) \/ Carries(t, 2)
  BY <1>1 DEF Carries
<1>4. Ends(1) /\ Ends(2) => Ends(3) \/ Carries(t, 3)
  BY <1>1 DEF Carries
<1>5. Ends(1) /\ Ends(2) /\ Ends(3) => Ends(4) \/ Carries(t, 4)
  BY <1>1 DEF Carries
<1>6. Ends(1) /\ Ends(2) /\ Ends(3) /\ Ends(4) => Ends(5) \/ Carries(t, 5)
  BY <1>1 DEF Carries
<1>7. Ends(1) /\ Ends(2) /\ Ends(3) /\ Ends(4) /\ Ends(5) => Ends(6) \/ Carries(t, 6)
  BY <1>1 DEF Carries
<1>8. Ends(1) /\ Ends(2) /\ Ends(3) /\ Ends(4) /\ Ends(5) /\ Ends(6) => Ends(7) \/ Carries(t, 7)
  BY <1>1 DEF Carries
<1>9. Ends(1) /\ Ends(2) /\ Ends(3) /\ Ends(4) /\ Ends(5) /\ Ends(6) /\ Ends(7) => Carries(t, 8)
  BY DEF Carries
<1> HIDE DEF Ends
<1> QED
  BY <1>2, <1>3, <1>4, <1>5, <1>6, <1>7, <1>8, <1>9

LEMMA NewYearIs ==
  /\ Clock!NewYear[1] = 0 /\ Clock!NewYear[2] = 0 /\ Clock!NewYear[3] = 0 /\ Clock!NewYear[4] = 0
  /\ Clock!NewYear[5] = 1 /\ Clock!NewYear[6] = 1 /\ Clock!NewYear[7] = 0
  /\ Clock!NewYear \in Sevens
<1>1. /\ Clock!NewYear[1] = 0 /\ Clock!NewYear[2] = 0 /\ Clock!NewYear[3] = 0 /\ Clock!NewYear[4] = 0
      /\ Clock!NewYear[5] = 1 /\ Clock!NewYear[6] = 1 /\ Clock!NewYear[7] = 0
  BY DEF Clock!NewYear
<1>2. Clock!NewYear \in Seq(Nat) /\ Len(Clock!NewYear) = 7
  BY DEF Clock!NewYear
<1> QED
  BY <1>1, <1>2 DEF Sevens

LEMMA LaterIs ==
  ASSUME NEW t, InRange(t), Clock!IsTime(t), NEW k \in 1 .. 8, Carries(t, k), NEW i \in 1 .. 7
  PROVE  Clock!Later(t)[i] = IF i < k THEN Clock!NewYear[i] ELSE IF i = k THEN t[i] + 1 ELSE t[i]
<1>1. \A j \in 1 .. 7 : t[j] \in Nat /\ Clock!Last(t)[j] \in Nat
  BY LastIs
<1>2. Clock!Later(t)[i] = IF \E j \in 1 .. i - 1 : t[j] < Clock!Last(t)[j] THEN t[i]
                    ELSE IF t[i] = Clock!Last(t)[i] THEN Clock!NewYear[i] ELSE t[i] + 1
  BY DEF Clock!Later
<1>3. CASE i < k
  <2>1. t[i] = Clock!Last(t)[i] /\ \A j \in 1 .. i - 1 : ~ (t[j] < Clock!Last(t)[j])
    <3>1. \A j \in 1 .. k - 1 : t[j] = Clock!Last(t)[j] /\ t[j] \in Nat
      BY <1>1 DEF Carries
    <3> QED
      BY <1>3, <3>1
  <2> QED
    BY <1>2, <1>3, <2>1
<1>4. CASE i = k
  <2>1. t[i] # Clock!Last(t)[i] /\ \A j \in 1 .. i - 1 : ~ (t[j] < Clock!Last(t)[j])
    <3>1. \A j \in 1 .. k - 1 : t[j] = Clock!Last(t)[j] /\ t[j] \in Nat
      BY <1>1 DEF Carries
    <3>2. t[k] < Clock!Last(t)[k]
      BY <1>4 DEF Carries
    <3> QED
      BY <1>1, <1>4, <3>1, <3>2
  <2> QED
    BY <1>2, <1>4, <2>1
<1>5. CASE i > k
  <2>1. k \in 1 .. i - 1 /\ t[k] < Clock!Last(t)[k]
    BY <1>5 DEF Carries
  <2> QED
    BY <1>2, <1>5, <2>1
<1> QED
  BY <1>3, <1>4, <1>5

\* A tick later is a time of the calendar again.
LEMMA LaterIsTime ==
  ASSUME NEW t, InRange(t), Clock!IsTime(t)
  PROVE  InRange(Clock!Later(t)) /\ Clock!IsTime(Clock!Later(t))
<1>1. PICK k \in 1 .. 8 : Carries(t, k)
  BY SomeCarry
<1>2. \A i \in 1 .. 7 : Clock!Later(t)[i] = IF i < k THEN Clock!NewYear[i] ELSE IF i = k THEN t[i] + 1 ELSE t[i]
  BY <1>1, LaterIs
<1>3. \A i \in 1 .. 7 : t[i] \in Nat /\ Clock!Last(t)[i] \in Nat /\ t[i] <= Clock!Last(t)[i]
        /\ Clock!Last(t)[i] <= Most[i]
                        /\ Most[i] \in 0 .. 99 /\ Clock!NewYear[i] \in Nat /\ Clock!NewYear[i] <= Most[i]
  <2>1. \A i \in 1 .. 7 : t[i] \in Nat /\ Clock!Last(t)[i] \in Nat /\ t[i] <= Clock!Last(t)[i]
          /\ Clock!Last(t)[i] <= Most[i]
    BY LastIs
  <2>2. \A i \in 1 .. 7 : Most[i] \in 0 .. 99
    BY MostIs
  <2>3. ASSUME NEW i \in 1 .. 7 PROVE Clock!NewYear[i] \in Nat /\ Clock!NewYear[i] <= Most[i]
    <3>1. i = 1 \/ i = 2 \/ i = 3 \/ i = 4 \/ i = 5 \/ i = 6 \/ i = 7
      OBVIOUS
    <3>2. Most[i] \in 0 .. 99
      BY <2>2
    <3> QED
      BY <3>1, <3>2, MostIs, NewYearIs
  <2> QED
    BY <2>1, <2>2, <2>3
<1>4. \A i \in 1 .. 7 : Clock!Later(t)[i] \in Nat /\ Clock!Later(t)[i] <= Most[i]
  <2> TAKE i \in 1 .. 7
  <2>1. CASE i < k
    BY <2>1, <1>2, <1>3
  <2>2. CASE i = k
    <3>1. t[i] < Clock!Last(t)[i]
      BY <1>1, <2>2 DEF Carries
    <3>2. Clock!Later(t)[i] = t[i] + 1
      BY <2>2, <1>2
    <3>3. t[i] \in Nat /\ Clock!Last(t)[i] \in Nat /\ Clock!Last(t)[i] <= Most[i] /\ Most[i] \in 0 .. 99
      BY <1>3
    <3> QED
      BY <3>1, <3>2, <3>3
  <2>3. CASE i > k
    <3>1. Clock!Later(t)[i] = t[i]
      BY <2>3, <1>2
    <3>2. t[i] \in Nat /\ t[i] <= Clock!Last(t)[i] /\ Clock!Last(t)[i] <= Most[i]
            /\ Clock!Last(t)[i] \in Nat /\ Most[i] \in Nat
      BY <1>3
    <3> QED
      BY <3>1, <3>2
  <2> QED
    BY <2>1, <2>2, <2>3
<1>5. Clock!Later(t) \in Sevens
  <2>1. Clock!Later(t) = [i \in 1 .. 7 |-> Clock!Later(t)[i]]
    BY DEF Clock!Later
  <2>2. Clock!Later(t) \in [1 .. 7 -> Nat]
    BY <1>4, <2>1
  <2> QED
    BY <2>2, SevenOf
<1>6. Clock!IsTime(Clock!Later(t))
  <2> DEFINE l == Clock!Later(t)
  <2>1. t[6] \in 1 .. 12 /\ t[5] \in 1 .. Clock!DaysInMonth(t[6], t[7]) /\ Clock!Last(t)[6] = 12
        /\ Clock!Last(t)[5] = Clock!DaysInMonth(t[6], t[7])
    BY LastIs DEF Clock!IsTime
  <2>2. l[7] \in 0 .. 99 /\ t[7] \in 0 .. 99
    BY <1>3, <1>4, MostIs DEF InRange
  <2>3. l[6] \in 1 .. 12
    <3>1. l[6] = IF 6 < k THEN 1 ELSE IF 6 = k THEN t[6] + 1 ELSE t[6]
      BY <1>2, NewYearIs
    <3>2. 6 = k => t[6] < 12
      BY <1>1, <2>1 DEF Carries
    <3> QED
      BY <2>1, <3>1, <3>2
  <2>4. Clock!DaysInMonth(l[6], l[7]) \in 28 .. 31
    BY <2>2, <2>3, MonthsAdd
  <2>5. l[5] = IF 5 < k THEN 1 ELSE IF 5 = k THEN t[5] + 1 ELSE t[5]
    BY <1>2, NewYearIs
  <2>6. CASE k > 5
    BY <2>3, <2>4, <2>5, <2>6 DEF Clock!IsTime
  <2>7. CASE k <= 5
    <3>1. l[6] = t[6] /\ l[7] = t[7]
      BY <1>2, <2>7
    <3>2. 5 = k => t[5] < Clock!DaysInMonth(t[6], t[7])
      BY <1>1, <2>1 DEF Carries
    <3>3. t[5] \in Nat /\ Clock!DaysInMonth(t[6], t[7]) \in 28 .. 31
      BY <2>1, <2>4, <3>1
    <3>4. l[5] \in 1 .. Clock!DaysInMonth(t[6], t[7])
      BY <2>1, <2>5, <2>7, <3>2, <3>3
    <3> QED
      BY <2>3, <3>1, <3>4 DEF Clock!IsTime
  <2> QED
    BY <2>6, <2>7
<1> QED
  BY <1>4, <1>5, <1>6 DEF InRange

----------------------------------------------------------------------------
(* The ticks of the year *)

DaysOf(t) == Clock!days_month[IF Clock!leapyear(t[7]) THEN 2 ELSE 1][t[6]] + t[5] - 1
SecondsOf(t) == ((DaysOf(t) * 24 + t[4]) * 60 + t[3]) * 60 + t[2]

LEMMA TicksAre ==
  ASSUME NEW r
  PROVE  Clock!rtc_ticks(r) = SecondsOf(Clock!Decoded(r)) * TicksPerSecond + Clock!Decoded(r)[1]
BY DEF Clock!rtc_ticks, SecondsOf, DaysOf

LEMMA OneMore ==
  ASSUME NEW s \in Int, NEW n \in Int
  PROVE  (s + 1) * n = s * n + n
OBVIOUS

\* A tick later, the next of the year or, at New Year, the first.
LEMMA TicksCount ==
  ASSUME NEW t, InRange(t), Clock!IsTime(t)
  PROVE  SecondsOf(Clock!Later(t)) * TicksPerSecond + Clock!Later(t)[1] =
           IF Clock!IsNewYear(Clock!Later(t)) THEN 0 ELSE SecondsOf(t) * TicksPerSecond + t[1] + 1
<1> DEFINE l == Clock!Later(t)
           n == TicksPerSecond
<1>1. PICK k \in 1 .. 8 : Carries(t, k)
  BY SomeCarry
<1>2. /\ l[1] = IF 1 < k THEN 0 ELSE IF 1 = k THEN t[1] + 1 ELSE t[1]
      /\ l[2] = IF 2 < k THEN 0 ELSE IF 2 = k THEN t[2] + 1 ELSE t[2]
      /\ l[3] = IF 3 < k THEN 0 ELSE IF 3 = k THEN t[3] + 1 ELSE t[3]
      /\ l[4] = IF 4 < k THEN 0 ELSE IF 4 = k THEN t[4] + 1 ELSE t[4]
      /\ l[5] = IF 5 < k THEN 1 ELSE IF 5 = k THEN t[5] + 1 ELSE t[5]
      /\ l[6] = IF 6 < k THEN 1 ELSE IF 6 = k THEN t[6] + 1 ELSE t[6]
      /\ k < 7 => l[7] = t[7]
  <2>1. \A i \in 1 .. 7 : l[i] = IF i < k THEN Clock!NewYear[i] ELSE IF i = k THEN t[i] + 1 ELSE t[i]
    BY <1>1, LaterIs
  <2> HIDE DEF l
  <2> QED
    BY <2>1, NewYearIs
<1>3. /\ k > 1 => t[1] = n - 1
      /\ k > 2 => t[2] = 59
      /\ k > 3 => t[3] = 59
      /\ k > 4 => t[4] = 23
      /\ k > 5 => t[5] = Clock!DaysInMonth(t[6], t[7])
      /\ k > 6 => t[6] = 12
      /\ k = 6 => t[6] < 12
  <2>1. \A j \in 1 .. k - 1 : t[j] = Clock!Last(t)[j]
    BY <1>1 DEF Carries
  <2>2. /\ Clock!Last(t)[1] = n - 1 /\ Clock!Last(t)[2] = 59 /\ Clock!Last(t)[3] = 59 /\ Clock!Last(t)[4] = 23
        /\ Clock!Last(t)[5] = Clock!DaysInMonth(t[6], t[7]) /\ Clock!Last(t)[6] = 12
    BY LastIs
  <2>3. k = 6 => t[6] < Clock!Last(t)[6]
    BY <1>1 DEF Carries
  <2> QED
    BY <2>1, <2>2, <2>3
<1>4. /\ t[1] \in Nat /\ t[2] \in Nat /\ t[3] \in Nat /\ t[4] \in Nat /\ t[5] \in Nat \ {0}
      /\ t[6] \in 1 .. 12 /\ t[7] \in 0 .. 99 /\ n \in 1 .. 100
  <2>1. t \in [1 .. 7 -> Nat] /\ t[7] \in 0 .. 99
    BY YearIs
  <2>2. t[6] \in 1 .. 12 /\ t[5] # 0
    BY DEF Clock!IsTime
  <2>3. n \in 1 .. 100
    BY ClockAssumption DEF Clock!ConstantsOK
  <2> QED
    BY <2>1, <2>2, <2>3
<1>5. Clock!IsNewYear(l) <=> l[1] = 0 /\ l[2] = 0 /\ l[3] = 0 /\ l[4] = 0 /\ l[5] = 1 /\ l[6] = 1
  <2>1. l \in Seq(Nat) /\ Len(l) = 7 /\ Clock!NewYear \in Seq(Nat) /\ Len(Clock!NewYear) = 7
    BY LaterIsTime, SevenIs, NewYearIs DEF InRange
  <2>2. ASSUME NEW u \in Seq(Nat), Len(u) = 7
        PROVE  /\ SubSeq(u, 1, 6) \in Seq(Nat) /\ Len(SubSeq(u, 1, 6)) = 6
               /\ \A i \in 1 .. 6 : SubSeq(u, 1, 6)[i] = u[i]
    <3>1. 1 \in Int /\ 6 \in Int /\ \A i \in 1 .. 6 : u[i] \in Nat
      <4>1. u \in [1 .. 7 -> Nat]
        BY <2>2, SevenIs DEF Sevens
      <4> QED
        BY <4>1
    <3>2. /\ SubSeq(u, 1, 6) \in Seq(Nat)
          /\ Len(SubSeq(u, 1, 6)) = IF 1 <= 6 THEN 6 - 1 + 1 ELSE 0
          /\ \A i \in 1 .. 6 - 1 + 1 : SubSeq(u, 1, 6)[i] = u[1 + i - 1]
      BY <3>1, SubSeqProperties
    <3> QED
      BY <3>2
  <2> HIDE DEF l
  <2>3. SubSeq(l, 1, 6) = SubSeq(Clock!NewYear, 1, 6) <=> \A i \in 1 .. 6 : l[i] = Clock!NewYear[i]
    <3>1. /\ SubSeq(l, 1, 6) \in Seq(Nat) /\ Len(SubSeq(l, 1, 6)) = 6
          /\ \A i \in 1 .. 6 : SubSeq(l, 1, 6)[i] = l[i]
      BY <2>1, <2>2
    <3>2. /\ SubSeq(Clock!NewYear, 1, 6) \in Seq(Nat) /\ Len(SubSeq(Clock!NewYear, 1, 6)) = 6
          /\ \A i \in 1 .. 6 : SubSeq(Clock!NewYear, 1, 6)[i] = Clock!NewYear[i]
      BY <2>1, <2>2
    <3>3. ASSUME SubSeq(l, 1, 6) = SubSeq(Clock!NewYear, 1, 6) PROVE \A i \in 1 .. 6 : l[i] = Clock!NewYear[i]
      BY <3>1, <3>2, <3>3
    <3>4. ASSUME \A i \in 1 .. 6 : l[i] = Clock!NewYear[i] PROVE SubSeq(l, 1, 6) = SubSeq(Clock!NewYear, 1, 6)
      BY <3>1, <3>2, <3>4, SeqEqual
    <3> QED
      BY <3>3, <3>4
  <2>4. (\A i \in 1 .. 6 : l[i] = Clock!NewYear[i]) <=> l[1] = 0 /\ l[2] = 0 /\ l[3] = 0 /\ l[4] = 0
          /\ l[5] = 1 /\ l[6] = 1
    <3>1. \A i \in 1 .. 6 : i = 1 \/ i = 2 \/ i = 3 \/ i = 4 \/ i = 5 \/ i = 6
      OBVIOUS
    <3> QED
      BY <3>1, NewYearIs
  <2> QED
    BY <2>3, <2>4 DEF Clock!IsNewYear
<1> HIDE DEF l, n
<1>6. CASE k > 6
  <2>1. Clock!IsNewYear(l)
    BY <1>2, <1>5, <1>6
  <2>2. DaysOf(l) = 0
    <3>1. l[7] \in 0 .. 99
      <4>1. InRange(l)
        BY LaterIsTime DEF l
      <4> QED
        BY <4>1, YearIs
    <3>2. l[6] = 1 /\ l[5] = 1
      BY <1>2, <1>6
    <3>3. 1 \in 1 .. 12
      OBVIOUS
    <3>4. Clock!days_month[IF Clock!leapyear(l[7]) THEN 2 ELSE 1][1] = 0
      BY <3>1, <3>3, MonthsAdd
    <3> QED
      BY <3>2, <3>4 DEF DaysOf
  <2>3. SecondsOf(l) = 0 /\ l[1] = 0
    BY <1>2, <1>6, <2>2 DEF SecondsOf
  <2>4. 0 * n + 0 = 0
    BY <1>4
  <2> QED
    BY <2>1, <2>3, <2>4 DEF l, n
<1>7. CASE k <= 6
  <2>1. ~ Clock!IsNewYear(l)
    BY <1>2, <1>4, <1>5, <1>7
  <2>2. DaysOf(t) \in Int
    <3>1. Clock!days_month[IF Clock!leapyear(t[7]) THEN 2 ELSE 1][t[6]] \in Nat
      BY <1>4, MonthsAdd
    <3> QED
      BY <1>4, <3>1 DEF DaysOf
  <2>3. DaysOf(l) = IF k > 4 THEN DaysOf(t) + 1 ELSE DaysOf(t)
    <3> DEFINE before == Clock!days_month[IF Clock!leapyear(t[7]) THEN 2 ELSE 1]
    <3>1. l[7] = t[7]
      BY <1>2, <1>7
    <3>2. DaysOf(l) = before[l[6]] + l[5] - 1 /\ DaysOf(t) = before[t[6]] + t[5] - 1
      BY <3>1 DEF DaysOf
    <3>3. before[t[6]] \in Nat /\ (t[6] < 12 => before[t[6] + 1] = before[t[6]] + Clock!DaysInMonth(t[6], t[7]))
      BY <1>4, MonthsAdd
    <3> HIDE DEF before
    <3>4. CASE k = 6
      <4>1. l[6] = t[6] + 1 /\ l[5] = 1 /\ t[5] = Clock!DaysInMonth(t[6], t[7]) /\ t[6] < 12
        BY <1>2, <1>3, <3>4
      <4> QED
        BY <1>4, <3>2, <3>3, <3>4, <4>1
    <3>5. CASE k = 5
      BY <1>2, <1>4, <3>2, <3>3, <3>5
    <3>6. CASE k < 5
      BY <1>2, <1>4, <3>2, <3>3, <3>6
    <3> QED
      BY <1>7, <3>4, <3>5, <3>6
  <2>4. SecondsOf(t) \in Int
    BY <1>4, <2>2 DEF SecondsOf
  <2> DEFINE d == DaysOf(t)
             s == SecondsOf(t)
  <2>5. SecondsOf(l) = IF k > 1 THEN s + 1 ELSE s
    <3>1. s = ((d * 24 + t[4]) * 60 + t[3]) * 60 + t[2]
      BY DEF SecondsOf
    <3>2. SecondsOf(l) = (((IF k > 4 THEN d + 1 ELSE d) * 24 + l[4]) * 60 + l[3]) * 60 + l[2]
      BY <2>3 DEF SecondsOf
    <3>3. d \in Int /\ s \in Int
      BY <2>2, <2>4
    <3> HIDE DEF d, s
    <3>4. CASE k > 4
      <4>1. l[4] = 0 /\ l[3] = 0 /\ l[2] = 0 /\ t[4] = 23 /\ t[3] = 59 /\ t[2] = 59
        BY <1>2, <1>3, <3>4
      <4> QED
        BY <3>1, <3>2, <3>3, <3>4, <4>1
    <3>5. CASE k = 4
      <4>1. l[4] = t[4] + 1 /\ l[3] = 0 /\ l[2] = 0 /\ t[3] = 59 /\ t[2] = 59
        BY <1>2, <1>3, <3>5
      <4> QED
        BY <1>4, <3>1, <3>2, <3>3, <3>5, <4>1
    <3>6. CASE k = 3
      <4>1. l[4] = t[4] /\ l[3] = t[3] + 1 /\ l[2] = 0 /\ t[2] = 59
        BY <1>2, <1>3, <3>6
      <4> QED
        BY <1>4, <3>1, <3>2, <3>3, <3>6, <4>1
    <3>7. CASE k = 2
      <4>1. l[4] = t[4] /\ l[3] = t[3] /\ l[2] = t[2] + 1
        BY <1>2, <3>7
      <4> QED
        BY <1>4, <3>1, <3>2, <3>3, <3>7, <4>1
    <3>8. CASE k = 1
      <4>1. l[4] = t[4] /\ l[3] = t[3] /\ l[2] = t[2]
        BY <1>2, <3>8
      <4> QED
        BY <3>1, <3>2, <3>8, <4>1
    <3> QED
      BY <3>4, <3>5, <3>6, <3>7, <3>8
  <2> HIDE DEF s
  <2>6. s \in Int
    BY <2>4 DEF s
  <2>7. SecondsOf(l) * n + l[1] = s * n + t[1] + 1
    <3>1. CASE k = 1
      <4>1. l[1] = t[1] + 1 /\ SecondsOf(l) = s
        BY <1>2, <2>5, <3>1
      <4>2. s * n \in Int
        BY <1>4, <2>6
      <4> HIDE DEF s
      <4> QED
        BY <1>4, <4>1, <4>2
    <3>2. CASE k > 1
      <4>1. l[1] = 0 /\ t[1] = n - 1 /\ SecondsOf(l) = s + 1
        BY <1>2, <1>3, <2>5, <3>2
      <4>2. (s + 1) * n = s * n + n /\ s * n \in Int
        BY <1>4, <2>6, OneMore
      <4> QED
        BY <1>4, <4>1, <4>2
    <3> QED
      BY <3>1, <3>2
  <2> QED
    BY <2>1, <2>7 DEF l, n, s
<1> QED
  BY <1>6, <1>7

----------------------------------------------------------------------------
(* Half a time *)

LEMMA Joined ==
  ASSUME NEW a \in Seq(Nat), NEW b \in Seq(Nat), NEW k \in 0 .. 7, Len(a) = k, Len(b) = 7 - k
  PROVE  /\ a \o b \in Sevens
         /\ \A i \in 1 .. 7 : (a \o b)[i] = IF i <= k THEN a[i] ELSE b[i - k]
<1>1. /\ a \o b \in Seq(Nat) /\ Len(a \o b) = Len(a) + Len(b)
      /\ \A i \in 1 .. Len(a) + Len(b) : (a \o b)[i] = IF i <= Len(a) THEN a[i] ELSE b[i - Len(a)]
  BY ConcatProperties
<1>2. Len(a) + Len(b) = 7
  OBVIOUS
<1> QED
  BY <1>1, <1>2 DEF Sevens

LEMMA DateIs ==
  ASSUME NEW t \in Sevens, NEW h \in Triples
  PROVE  /\ Clock!WithDate(t, h) \in Sevens
         /\ \A i \in 1 .. 7 : Clock!WithDate(t, h)[i] = IF i <= 4 THEN t[i] ELSE h[i - 4]
<1> DEFINE u == SubSeq(t, 1, 4)
<1>1. t \in [1 .. 7 -> Nat] /\ h \in Seq(Nat) /\ Len(h) = 3
  BY SevenIs, TripleIs
<1>2. u \in Seq(Nat) /\ Len(u) = 4 /\ \A i \in 1 .. 4 : u[i] = t[i]
  <2>1. 1 \in Int /\ 4 \in Int /\ \A i \in 1 .. 4 : t[i] \in Nat
    BY <1>1
  <2>2. u \in Seq(Nat) /\ Len(u) = (IF 1 <= 4 THEN 4 - 1 + 1 ELSE 0)
          /\ \A i \in 1 .. 4 - 1 + 1 : u[i] = t[1 + i - 1]
    BY <2>1, SubSeqProperties
  <2> QED
    BY <2>2
<1>3. Clock!WithDate(t, h) = u \o h
  BY DEF Clock!WithDate
<1> HIDE DEF u
<1>4. /\ u \o h \in Sevens
      /\ \A i \in 1 .. 7 : (u \o h)[i] = IF i <= 4 THEN u[i] ELSE h[i - 4]
  <2>1. u \in Seq(Nat) /\ h \in Seq(Nat) /\ 4 \in 0 .. 7 /\ Len(u) = 4 /\ Len(h) = 7 - 4
    BY <1>1, <1>2
  <2> QED
    BY <2>1, Joined
<1>5. ASSUME NEW i \in 1 .. 7
      PROVE  (u \o h)[i] = IF i <= 4 THEN t[i] ELSE h[i - 4]
  <2>1. (u \o h)[i] = IF i <= 4 THEN u[i] ELSE h[i - 4]
    BY <1>4
  <2>2. i <= 4 => u[i] = t[i]
    BY <1>2
  <2> HIDE <1>4
  <2> QED
    BY <2>1, <2>2
<1>6. u \o h \in Sevens /\ \A i \in 1 .. 7 : (u \o h)[i] = IF i <= 4 THEN t[i] ELSE h[i - 4]
  <2>1. u \o h \in Sevens
    BY <1>4
  <2>2. \A i \in 1 .. 7 : (u \o h)[i] = IF i <= 4 THEN t[i] ELSE h[i - 4]
    BY <1>5
  <2> QED
    BY <2>1, <2>2
<1> QED
  BY <1>6 DEF u, Clock!WithDate

LEMMA TimeIs ==
  ASSUME NEW t \in Sevens, NEW h \in Triples
  PROVE  /\ Clock!WithTime(t, h) \in Sevens
         /\ \A i \in 1 .. 7 : Clock!WithTime(t, h)[i] = IF i = 1 THEN 0 ELSE IF i <= 4 THEN h[5 - i] ELSE t[i]
<1> DEFINE u == SubSeq(t, 5, 7)
           v == <<0, h[3], h[2], h[1]>>
<1>1. t \in [1 .. 7 -> Nat] /\ h \in [1 .. 3 -> Nat]
  BY SevenIs, TripleIs
<1>2. u \in Seq(Nat) /\ Len(u) = 3 /\ \A i \in 1 .. 3 : u[i] = t[i + 4]
  <2>1. 5 \in Int /\ 7 \in Int /\ \A i \in 5 .. 7 : t[i] \in Nat
    BY <1>1
  <2>2. u \in Seq(Nat) /\ Len(u) = (IF 5 <= 7 THEN 7 - 5 + 1 ELSE 0)
          /\ \A i \in 1 .. 7 - 5 + 1 : u[i] = t[5 + i - 1]
    BY <2>1, SubSeqProperties
  <2>3. \A i \in 1 .. 3 : 5 + i - 1 = i + 4
    OBVIOUS
  <2> QED
    BY <2>2, <2>3
<1>3. Clock!WithTime(t, h) = v \o u
  BY DEF Clock!WithTime
<1>4. Len(v) = 4 /\ v[1] = 0 /\ v[2] = h[3] /\ v[3] = h[2] /\ v[4] = h[1]
  OBVIOUS
<1>5. v \in Seq(Nat)
  <2>1. h[1] \in Nat /\ h[2] \in Nat /\ h[3] \in Nat /\ 0 \in Nat
    BY <1>1
  <2> QED
    BY <2>1
<1> HIDE DEF u, v
<1>6. /\ v \o u \in Sevens
      /\ \A i \in 1 .. 7 : (v \o u)[i] = IF i <= 4 THEN v[i] ELSE u[i - 4]
  <2>1. v \in Seq(Nat) /\ u \in Seq(Nat) /\ 4 \in 0 .. 7 /\ Len(v) = 4 /\ Len(u) = 7 - 4
    BY <1>2, <1>4, <1>5
  <2> QED
    BY <2>1, Joined
<1>7. ASSUME NEW i \in 1 .. 7
      PROVE  (v \o u)[i] = IF i = 1 THEN 0 ELSE IF i <= 4 THEN h[5 - i] ELSE t[i]
  <2>1. CASE i > 4
    <3>1. i - 4 \in 1 .. 3 /\ (i - 4) + 4 = i
      BY <2>1
    <3>2. u[i - 4] = t[i]
      BY <1>2, <3>1
    <3>3. (v \o u)[i] = u[i - 4]
      <4>1. i \in 1 .. 7
        OBVIOUS
      <4>2. (v \o u)[i] = IF i <= 4 THEN v[i] ELSE u[i - 4]
        BY <1>6, <4>1
      <4> QED
        BY <2>1, <4>2
    <3>4. i # 1 /\ ~ i <= 4
      BY <2>1
    <3> QED
      BY <3>2, <3>3, <3>4
  <2>2. CASE i <= 4
    <3>1. i = 1 \/ i = 2 \/ i = 3 \/ i = 4
      BY <2>2
    <3>2. v[i] = IF i = 1 THEN 0 ELSE h[5 - i]
      BY <1>4, <3>1
    <3>3. (v \o u)[i] = v[i]
      BY <1>6, <2>2
    <3> QED
      BY <2>2, <3>2, <3>3
  <2>3. i > 4 \/ i <= 4
    OBVIOUS
  <2> QED
    BY <2>1, <2>2, <2>3
<1> QED
  BY <1>3, <1>6, <1>7

\* What is sent up to a register, and what the chip had behind it.
LEMMA PartSent ==
  ASSUME NEW t \in Sevens, NEW u \in Sevens, NEW n \in 0 .. 7
  PROVE  LET s == SubSeq(t, 1, n) \o SubSeq(u, n + 1, 7)
         IN  s \in Sevens /\ \A i \in 1 .. 7 : s[i] = IF i <= n THEN t[i] ELSE u[i]
<1> DEFINE a == SubSeq(t, 1, n)
           b == SubSeq(u, n + 1, 7)
<1>1. t \in Seq(Nat) /\ Len(t) = 7 /\ t \in [1 .. 7 -> Nat]
      /\ u \in Seq(Nat) /\ Len(u) = 7 /\ u \in [1 .. 7 -> Nat]
  BY SevenIs
<1>2. a \in Seq(Nat) /\ Len(a) = n /\ \A i \in 1 .. n : a[i] = t[i]
  <2>0. \A i \in 1 .. n : i \in 1 .. 7
    OBVIOUS
  <2>1. 1 \in Int /\ n \in Int /\ \A i \in 1 .. n : t[i] \in Nat
    <3>1. t \in [1 .. 7 -> Nat]
      BY SevenIs
    <3>2. \A i \in 1 .. n : t[i] \in Nat
      BY <2>0, <3>1
    <3> QED
      BY <3>2
  <2>2. a \in Seq(Nat) /\ Len(a) = (IF 1 <= n THEN n - 1 + 1 ELSE 0)
          /\ \A i \in 1 .. n - 1 + 1 : a[i] = t[1 + i - 1]
    BY <2>1, SubSeqProperties
  <2>3. Len(a) = n
    <3> HIDE DEF a
    <3> QED
      BY <2>2
  <2>4. \A i \in 1 .. n : i \in 1 .. n - 1 + 1 /\ 1 + i - 1 = i
    OBVIOUS
  <2> QED
    BY <2>2, <2>3, <2>4
<1>3. b \in Seq(Nat) /\ Len(b) = 7 - n /\ \A i \in 1 .. 7 - n : b[i] = u[i + n]
  <2>0. \A i \in n + 1 .. 7 : i \in 1 .. 7
    OBVIOUS
  <2>1. n + 1 \in Int /\ 7 \in Int /\ \A i \in n + 1 .. 7 : u[i] \in Nat
    <3>1. u \in [1 .. 7 -> Nat]
      BY SevenIs
    <3>2. \A i \in n + 1 .. 7 : u[i] \in Nat
      BY <2>0, <3>1
    <3> QED
      BY <3>2
  <2>2. b \in Seq(Nat) /\ Len(b) = (IF n + 1 <= 7 THEN 7 - (n + 1) + 1 ELSE 0)
        /\ \A i \in 1 .. 7 - (n + 1) + 1 : b[i] = u[(n + 1) + i - 1]
    BY <2>1, SubSeqProperties
  <2>3. Len(b) = 7 - n
    <3> HIDE DEF b
    <3> QED
      BY <2>2
  <2>4. \A i \in 1 .. 7 - n : i \in 1 .. 7 - (n + 1) + 1 /\ (n + 1) + i - 1 = i + n
    OBVIOUS
  <2> QED
    BY <2>2, <2>3, <2>4
<1> HIDE DEF a, b
<1>5. a \o b \in Sevens /\ \A i \in 1 .. 7 : (a \o b)[i] = IF i <= n THEN a[i] ELSE b[i - n]
  <2>1. a \in Seq(Nat) /\ b \in Seq(Nat) /\ Len(a) = n /\ Len(b) = 7 - n
    BY <1>2, <1>3
  <2> QED
    BY <2>1, Joined
<1>6. ASSUME NEW i \in 1 .. 7 PROVE (a \o b)[i] = IF i <= n THEN t[i] ELSE u[i]
  <2>1. (a \o b)[i] = IF i <= n THEN a[i] ELSE b[i - n]
    BY <1>5
  <2>2. i > n => i - n \in 1 .. 7 - n /\ (i - n) + n = i
    OBVIOUS
  <2>3. i > n => b[i - n] = u[i]
    BY <1>3, <2>2
  <2>4. i <= n => a[i] = t[i]
    BY <1>2
  <2> QED
    BY <2>1, <2>3, <2>4
<1> QED
  BY <1>5, <1>6 DEF a, b

\* What is kept of the numbers typed: two digits each, in their limits.
LEMMA CappedIs ==
  ASSUME NEW h \in Triples, NEW l \in Triples, \A i \in 1 .. 3 : l[i] \in 0 .. 99
  PROVE  /\ Clock!Capped(h, l) \in Triples /\ Clock!Encoded(Clock!Capped(h, l)) \in Triples
         /\ \A i \in 1 .. 3 : /\ Clock!Capped(h, l)[i] \in 0 .. 99 /\ Clock!Capped(h, l)[i] <= l[i]
                              /\ Clock!bcd_to_binary(Clock!Encoded(Clock!Capped(h, l))[i]) = Clock!Capped(h, l)[i]
<1> DEFINE c == Clock!Capped(h, l)
<1>1. \A i \in 1 .. 3 : h[i] \in Nat /\ l[i] \in 0 .. 99
  BY TripleIs
<1>2. \A i \in 1 .. 3 : c[i] = IF h[i] % 256 > l[i] THEN l[i] ELSE h[i] % 256
  BY DEF Clock!Capped
<1>3. ASSUME NEW i \in 1 .. 3 PROVE c[i] \in 0 .. 99 /\ c[i] <= l[i]
  <2>1. h[i] % 256 \in Nat
    BY <1>1
  <2>2. c[i] = IF h[i] % 256 > l[i] THEN l[i] ELSE h[i] % 256
    BY <1>2
  <2>3. l[i] \in 0 .. 99
    BY <1>1
  <2> HIDE DEF c
  <2> QED
    BY <2>1, <2>2, <2>3
<1>4. c \in [1 .. 3 -> Nat] /\ DOMAIN c = 1 .. 3
  <2>1. c = [i \in 1 .. 3 |-> c[i]]
    BY DEF Clock!Capped
  <2>2. \A i \in 1 .. 3 : c[i] \in Nat
    BY <1>3
  <2> HIDE DEF c
  <2> QED
    BY <2>1, <2>2
<1> HIDE DEF c
<1>5. Clock!Encoded(c) = [i \in 1 .. 3 |-> Clock!binary_to_bcd(c[i])]
  BY <1>4 DEF Clock!Encoded
<1>6. Clock!Encoded(c) \in [1 .. 3 -> Nat]
  <2>1. \A i \in 1 .. 3 : Clock!binary_to_bcd(c[i]) \in Nat
    BY <1>4, Digits
  <2> QED
    BY <1>5, <2>1
<1>7. c \in Triples /\ Clock!Encoded(c) \in Triples
  <2>1. 3 \in Nat
    OBVIOUS
  <2>2. c \in Seq(Nat) /\ Len(c) = 3
    BY <1>4, <2>1, OfItsLength
  <2>3. Clock!Encoded(c) \in Seq(Nat) /\ Len(Clock!Encoded(c)) = 3
    BY <1>6, <2>1, OfItsLength
  <2> QED
    BY <2>2, <2>3 DEF Triples
<1>8. \A i \in 1 .. 3 : Clock!bcd_to_binary(Clock!Encoded(c)[i]) = c[i]
  <2>1. \A i \in 1 .. 3 : Clock!Encoded(c)[i] = Clock!binary_to_bcd(c[i])
    BY <1>5
  <2> QED
    BY <1>3, <2>1, Digits
<1> QED
  BY <1>3, <1>7, <1>8 DEF c

LEMMA LimitIs ==
  /\ Clock!Limit \in Triples /\ \A i \in 1 .. 3 : Clock!Limit[i] \in 0 .. 99
  /\ clock_call.op = "rtc_date" => Clock!Limit[1] = 31 /\ Clock!Limit[2] = 12 /\ Clock!Limit[3] = 99
  /\ clock_call.op # "rtc_date" => Clock!Limit[1] = 23 /\ Clock!Limit[2] = 59 /\ Clock!Limit[3] = 59
<1>1. CASE clock_call.op = "rtc_date"
  <2>1. Clock!Limit = <<31, 12, 99>>
    BY <1>1 DEF Clock!Limit
  <2> QED
    BY <1>1, <2>1 DEF Triples
<1>2. CASE clock_call.op # "rtc_date"
  <2>1. Clock!Limit = <<23, 59, 59>>
    BY <1>2 DEF Clock!Limit
  <2> QED
    BY <1>2, <2>1 DEF Triples
<1> QED
  BY <1>1, <1>2

\* What a command is about to send shows the time it read with what it keeps of the half that was typed.
LEMMA ChangedShows ==
  ASSUME clock \in Sevens, InRange(Clock!Decoded(clock)),
         clock_call.shown = Clock!Decoded(clock), clock_call.typed \in Triples
  PROVE  /\ Clock!Changed \in Sevens /\ InRange(Clock!Decoded(Clock!Changed))
         /\ Clock!Decoded(Clock!Changed) = Clock!With(clock_call.shown, Clock!Capped(clock_call.typed, Clock!Limit))
<1> DEFINE c == Clock!Capped(clock_call.typed, Clock!Limit)
           e == Clock!Encoded(c)
           d == Clock!Decoded(clock)
<1>1. /\ c \in Triples /\ e \in Triples
      /\ \A i \in 1 .. 3 : c[i] \in 0 .. 99 /\ c[i] <= Clock!Limit[i] /\ Clock!bcd_to_binary(e[i]) = c[i]
  BY LimitIs, CappedIs
<1>2. d \in Sevens /\ \A i \in 1 .. 7 : d[i] = Clock!bcd_to_binary(clock[i]) /\ d[i] <= Most[i]
  BY Coded DEF InRange
<1>3. Clock!Changed = Clock!With(clock, e) /\ Clock!With(clock_call.shown, c) = Clock!With(d, c)
  BY DEF Clock!Changed
<1> HIDE DEF c, e, d
<1>4. CASE clock_call.op = "rtc_date"
  <2> DEFINE w == Clock!WithDate(clock, e)
             a == Clock!WithDate(d, c)
  <2>1. Clock!Changed = w /\ Clock!With(clock_call.shown, c) = a
    BY <1>3, <1>4 DEF Clock!With
  <2>2. w \in Sevens /\ \A i \in 1 .. 7 : w[i] = IF i <= 4 THEN clock[i] ELSE e[i - 4]
    BY <1>1, DateIs
  <2>3. a \in Sevens /\ \A i \in 1 .. 7 : a[i] = IF i <= 4 THEN d[i] ELSE c[i - 4]
    BY <1>1, <1>2, DateIs
  <2> HIDE DEF w, a
  <2>4. Clock!Decoded(w) \in Sevens /\ \A i \in 1 .. 7 : Clock!Decoded(w)[i] = Clock!bcd_to_binary(w[i])
    BY <2>2, Coded
  <2>5. ASSUME NEW i \in 1 .. 7 PROVE Clock!Decoded(w)[i] = a[i] /\ a[i] <= Most[i]
    <3>1. CASE i <= 4
      <4>1. w[i] = clock[i] /\ a[i] = d[i]
        BY <2>2, <2>3, <3>1
      <4> QED
        BY <1>2, <2>4, <4>1
    <3>2. CASE i > 4
      <4>1. i - 4 \in 1 .. 3 /\ (i = 5 \/ i = 6 \/ i = 7)
        BY <3>2
      <4>2. w[i] = e[i - 4] /\ a[i] = c[i - 4]
        BY <2>2, <2>3, <3>2
      <4>3. Clock!bcd_to_binary(e[i - 4]) = c[i - 4] /\ c[i - 4] <= Clock!Limit[i - 4]
        BY <1>1, <4>1
      <4>4. Clock!Limit[i - 4] = Most[i]
        BY <1>4, <4>1, LimitIs, MostIs
      <4> QED
        BY <2>4, <4>2, <4>3, <4>4
    <3>3. i <= 4 \/ i > 4
      OBVIOUS
    <3> QED
      BY <3>1, <3>2, <3>3
  <2>6. Clock!Decoded(w) = a
    BY <2>3, <2>4, <2>5, SameSevens
  <2> QED
    BY <2>1, <2>2, <2>3, <2>5, <2>6 DEF InRange, c
<1>5. CASE clock_call.op # "rtc_date"
  <2> DEFINE w == Clock!WithTime(clock, e)
             a == Clock!WithTime(d, c)
  <2>1. Clock!Changed = w /\ Clock!With(clock_call.shown, c) = a
    BY <1>3, <1>5 DEF Clock!With
  <2>2. w \in Sevens /\ \A i \in 1 .. 7 : w[i] = IF i = 1 THEN 0 ELSE IF i <= 4 THEN e[5 - i] ELSE clock[i]
    BY <1>1, TimeIs
  <2>3. a \in Sevens /\ \A i \in 1 .. 7 : a[i] = IF i = 1 THEN 0 ELSE IF i <= 4 THEN c[5 - i] ELSE d[i]
    BY <1>1, <1>2, TimeIs
  <2> HIDE DEF w, a
  <2>4. Clock!Decoded(w) \in Sevens /\ \A i \in 1 .. 7 : Clock!Decoded(w)[i] = Clock!bcd_to_binary(w[i])
    BY <2>2, Coded
  <2>5. ASSUME NEW i \in 1 .. 7 PROVE Clock!Decoded(w)[i] = a[i] /\ a[i] <= Most[i]
    <3>1. CASE i > 4
      <4>1. w[i] = clock[i] /\ a[i] = d[i]
        BY <2>2, <2>3, <3>1
      <4> QED
        BY <1>2, <2>4, <4>1
    <3>2. CASE i = 1
      <4>1. w[i] = 0 /\ a[i] = 0
        BY <2>2, <2>3, <3>2
      <4>2. Most[i] \in 0 .. 99
        BY MostIs
      <4> QED
        BY <2>4, <4>1, <4>2, Digits
    <3>3. CASE i \in 2 .. 4
      <4>1. 5 - i \in 1 .. 3 /\ (i = 2 \/ i = 3 \/ i = 4)
        BY <3>3
      <4>2. w[i] = e[5 - i] /\ a[i] = c[5 - i]
        BY <2>2, <2>3, <3>3
      <4>3. Clock!bcd_to_binary(e[5 - i]) = c[5 - i] /\ c[5 - i] <= Clock!Limit[5 - i]
        BY <1>1, <4>1
      <4>4. Clock!Limit[5 - i] = Most[i]
        BY <1>5, <4>1, LimitIs, MostIs
      <4> QED
        BY <2>4, <4>2, <4>3, <4>4
    <3>4. i > 4 \/ i = 1 \/ i \in 2 .. 4
      OBVIOUS
    <3> QED
      BY <3>1, <3>2, <3>3, <3>4
  <2>6. Clock!Decoded(w) = a
    BY <2>3, <2>4, <2>5, SameSevens
  <2> QED
    BY <2>1, <2>2, <2>3, <2>5, <2>6 DEF InRange, c
<1> QED
  BY <1>4, <1>5

----------------------------------------------------------------------------
LEMMA IdleIs == Clock!Idle \in [op : {"none", "rtc", "rtc_date", "rtc_time"}, typed : Triples, shown : Sevens]
<1>1. <<0, 0, 0>> \in Triples
  BY DEF Triples
<1> QED
  BY <1>1, NewYearIs DEF Clock!Idle

LEMMA InitClock == Clock!Init => ClockInv
<1> SUFFICES ASSUME Clock!Init PROVE ClockInv
  OBVIOUS
<1>1. due \in Starts /\ chip = Clock!Encoded(due) /\ clock = [i \in 1 .. 7 |-> 0] /\ clock_pc = "ready"
        /\ clock_call = Clock!Idle
  BY DEF Clock!Init
<1>2. due \in Sevens /\ Clock!IsTime(due) /\ \A i \in 1 .. 7 : due[i] <= Most[i]
  <2>1. due \in Sevens /\ Clock!IsTime(due) /\ \A i \in 1 .. 7 : due[i] <= Clock!Last(due)[i]
    BY <1>1, ClockAssumption DEF Clock!ConstantsOK, Sevens
  <2>2. /\ Clock!Last(due)[1] = TicksPerSecond - 1 /\ Clock!Last(due)[2] = 59 /\ Clock!Last(due)[3] = 59
             /\ Clock!Last(due)[4] = 23
        /\ Clock!Last(due)[5] = Clock!DaysInMonth(due[6], due[7]) /\ Clock!Last(due)[6] = 12
             /\ Clock!Last(due)[7] = 99
    BY DEF Clock!Last
  <2>3. due[7] \in 0 .. 99 /\ due[6] \in 1 .. 12
    <3>1. due \in [1 .. 7 -> Nat]
      BY <2>1, SevenIs
    <3> QED
      BY <2>1, <2>2, <3>1 DEF Clock!IsTime
  <2>4. Clock!DaysInMonth(due[6], due[7]) \in 28 .. 31
    BY <2>3, MonthsAdd
  <2>5. due[5] \in Nat
    BY <2>1, SevenIs
  <2>6. ASSUME NEW i \in 1 .. 7 PROVE due[i] <= Most[i]
    <3>1. i = 1 \/ i = 2 \/ i = 3 \/ i = 4 \/ i = 5 \/ i = 6 \/ i = 7
      OBVIOUS
    <3>2. due[i] <= Clock!Last(due)[i]
      BY <2>1
    <3> QED
      BY <2>2, <2>4, <2>5, <3>1, <3>2, MostIs
  <2> QED
    BY <2>1, <2>6
<1>3. InRange(due) /\ chip \in Sevens /\ Clock!Decoded(chip) = due
  <2>1. InRange(due)
    BY <1>2 DEF InRange
  <2>2. Clock!Encoded(due) \in Sevens
    BY <1>2, Coded
  <2>3. Clock!Decoded(Clock!Encoded(due)) = due
    BY <2>1, CodeSurvives
  <2> QED
    BY <1>1, <2>1, <2>2, <2>3
<1>4. clock \in Sevens
  <2>1. clock \in [1 .. 7 -> Nat]
    BY <1>1
  <2> QED
    BY <2>1, SevenOf
<1> QED
  BY <1>1, <1>2, <1>3, <1>4, IdleIs DEF ClockInv

LEMMA AdvanceKeeps ==
  ASSUME ClockInv, Clock!Advance
  PROVE  ClockInv'
<1> DEFINE l == Clock!Later(Clock!Decoded(chip))
<1>1. /\ Clock!IsTime(Clock!Decoded(chip)) /\ chip' = Clock!Encoded(l)
      /\ due' = IF due = Unknown THEN Unknown ELSE Clock!Later(due)
      /\ clock' = clock /\ clock_pc' = clock_pc /\ clock_call' = clock_call
  BY DEF Clock!Advance
<1>2. /\ InRange(Clock!Decoded(chip)) /\ clock \in Sevens
      /\ clock_call \in [op : {"none", "rtc", "rtc_date", "rtc_time"}, typed : Triples, shown : Sevens]
      /\ clock_pc = "write" => clock_call.shown = Clock!Decoded(clock) /\ InRange(Clock!Decoded(clock))
      /\ due # Unknown => due = Clock!Decoded(chip)
  BY DEF ClockInv
<1>3. InRange(l) /\ Clock!IsTime(l)
  BY <1>1, <1>2, LaterIsTime
<1>4. Clock!Decoded(chip') = l /\ chip' \in Sevens
  <2>1. l \in Sevens
    BY <1>3 DEF InRange
  <2>2. Clock!Encoded(l) \in Sevens /\ Clock!Decoded(Clock!Encoded(l)) = l
    BY <1>3, <2>1, Coded, CodeSurvives
  <2> QED
    BY <1>1, <2>2
<1>5. due' # Unknown => due' = l
  BY <1>1, <1>2
<1> HIDE DEF l
<1>6. /\ clock' \in Sevens
      /\ clock_call' \in [op : {"none", "rtc", "rtc_date", "rtc_time"}, typed : Triples, shown : Sevens]
      /\ clock_pc' = "write" => clock_call'.shown = Clock!Decoded(clock') /\ InRange(Clock!Decoded(clock'))
  BY <1>1, <1>2
<1>7. InRange(Clock!Decoded(chip'))
  BY <1>3, <1>4
<1>8. due' # Unknown => due' = Clock!Decoded(chip') /\ Clock!IsTime(due')
  BY <1>3, <1>4, <1>5
<1> QED
  BY <1>4, <1>6, <1>7, <1>8 DEF ClockInv

LEMMA QuietKeeps ==
  ASSUME ClockInv, chip' = chip, due' = due, clock' = clock \/ clock' = chip,
         clock_call' \in [op : {"none", "rtc", "rtc_date", "rtc_time"}, typed : Triples, shown : Sevens],
         clock_pc' = "write" => clock_call'.shown = Clock!Decoded(clock') /\ InRange(Clock!Decoded(clock'))
  PROVE  ClockInv'
BY DEF ClockInv

LEMMA CommandKeeps ==
  ASSUME ClockInv, NEW op \in {"rtc", "rtc_date", "rtc_time"}, NEW typed \in Triples, Clock!Command(op, typed)
  PROVE  ClockInv'
<1>1. clock_pc' = "read" /\ clock_call' = [Clock!Idle EXCEPT !.op = op, !.typed = typed] /\ chip' = chip
        /\ clock' = clock /\ due' = due
  BY DEF Clock!Command
<1>2. clock_call' \in [op : {"none", "rtc", "rtc_date", "rtc_time"}, typed : Triples, shown : Sevens]
  BY <1>1, IdleIs
<1> QED
  BY <1>1, <1>2, QuietKeeps

LEMMA ReadKeeps ==
  ASSUME ClockInv, Clock!rtc_read
  PROVE  ClockInv'
<1>1. /\ clock' = chip /\ clock_call' = [clock_call EXCEPT !.shown = Clock!Decoded(chip)]
      /\ clock_pc' = (IF clock_call.op = "rtc" THEN "ready" ELSE "write") /\ chip' = chip /\ due' = due
  BY DEF Clock!rtc_read, Clock!Read
<1>2. /\ clock_call \in [op : {"none", "rtc", "rtc_date", "rtc_time"}, typed : Triples, shown : Sevens]
      /\ InRange(Clock!Decoded(chip)) /\ Clock!Decoded(chip) \in Sevens
  BY DEF ClockInv, InRange
<1>3. /\ clock_call' \in [op : {"none", "rtc", "rtc_date", "rtc_time"}, typed : Triples, shown : Sevens]
      /\ clock_call'.shown = Clock!Decoded(chip)
  BY <1>1, <1>2
<1>4. clock_call'.shown = Clock!Decoded(clock') /\ InRange(Clock!Decoded(clock'))
  BY <1>1, <1>2, <1>3
<1> QED
  BY <1>1, <1>3, <1>4, QuietKeeps

LEMMA WriteKeeps ==
  ASSUME ClockInv, NEW sent \in 0 .. 7, Clock!rtc_write(sent)
  PROVE  ClockInv'
<1> DEFINE s == SubSeq(Clock!Changed, 1, sent) \o SubSeq(chip, sent + 1, 7)
<1>1. /\ clock_pc = "write" /\ clock' = Clock!Changed /\ chip' = s
      /\ due' = IF sent = 7 /\ Clock!AskedTime THEN Clock!Asked
                ELSE IF Clock!IsTime(Clock!Decoded(chip')) THEN Clock!Decoded(chip') ELSE Unknown
      /\ clock_pc' = "ready" /\ clock_call' = Clock!Idle
  BY DEF Clock!rtc_write
<1>2. /\ chip \in Sevens /\ InRange(Clock!Decoded(chip)) /\ clock \in Sevens /\ clock_call.typed \in Triples
      /\ clock_call.shown = Clock!Decoded(clock) /\ InRange(Clock!Decoded(clock))
  BY <1>1 DEF ClockInv
<1>3. /\ Clock!Changed \in Sevens /\ InRange(Clock!Decoded(Clock!Changed))
      /\ Clock!Decoded(Clock!Changed) = Clock!With(clock_call.shown, Clock!Capped(clock_call.typed, Clock!Limit))
  BY <1>2, ChangedShows
<1>4. s \in Sevens /\ \A i \in 1 .. 7 : s[i] = IF i <= sent THEN Clock!Changed[i] ELSE chip[i]
  BY <1>2, <1>3, PartSent
<1> HIDE DEF s
<1>5. InRange(Clock!Decoded(s))
  <2>1. Clock!Decoded(s) \in Sevens /\ \A i \in 1 .. 7 : Clock!Decoded(s)[i] = Clock!bcd_to_binary(s[i])
    BY <1>4, Coded
  <2>2. \A i \in 1 .. 7 :
          /\ Clock!Decoded(chip)[i] = Clock!bcd_to_binary(chip[i]) /\ Clock!Decoded(chip)[i] <= Most[i]
          /\ Clock!Decoded(Clock!Changed)[i] = Clock!bcd_to_binary(Clock!Changed[i])
          /\ Clock!Decoded(Clock!Changed)[i] <= Most[i]
    BY <1>2, <1>3, Coded DEF InRange
  <2>3. \A i \in 1 .. 7 : Clock!Decoded(s)[i] <= Most[i]
    BY <1>4, <2>1, <2>2
  <2> QED
    BY <2>1, <2>3 DEF InRange
<1>6. sent = 7 /\ Clock!AskedTime => Clock!Asked = Clock!Decoded(s) /\ Clock!IsTime(Clock!Asked)
  <2>1. SUFFICES ASSUME sent = 7, Clock!AskedTime PROVE Clock!Asked = Clock!Decoded(s) /\ Clock!IsTime(Clock!Asked)
    OBVIOUS
  <2>2. s = Clock!Changed
    <3>1. \A i \in 1 .. 7 : s[i] = Clock!Changed[i]
      BY <1>4, <2>1
    <3> QED
      BY <1>3, <1>4, <3>1, SameSevens
  <2>3. clock_call.typed = Clock!Capped(clock_call.typed, Clock!Limit) /\ Clock!IsTime(Clock!Asked)
    BY <2>1 DEF Clock!AskedTime
  <2>4. Clock!Asked = Clock!With(clock_call.shown, clock_call.typed)
    BY DEF Clock!Asked
  <2>5. Clock!With(clock_call.shown, Clock!Capped(clock_call.typed, Clock!Limit))
          = Clock!With(clock_call.shown, clock_call.typed)
    BY <2>3
  <2> QED
    BY <1>3, <2>2, <2>3, <2>4, <2>5
<1>7. due' # Unknown => due' = Clock!Decoded(s) /\ Clock!IsTime(due')
  <2>1. CASE sent = 7 /\ Clock!AskedTime
    BY <1>1, <1>6, <2>1
  <2>2. CASE ~ (sent = 7 /\ Clock!AskedTime)
    <3>1. due' = IF Clock!IsTime(Clock!Decoded(s)) THEN Clock!Decoded(s) ELSE Unknown
      BY <1>1, <2>2
    <3> QED
      BY <3>1
  <2> QED
    BY <2>1, <2>2
<1>8. chip' \in Sevens /\ InRange(Clock!Decoded(chip'))
      /\ (due' # Unknown => due' = Clock!Decoded(chip') /\ Clock!IsTime(due'))
  BY <1>1, <1>4, <1>5, <1>7
<1>9. clock' \in Sevens /\ clock_pc' # "write"
  BY <1>1, <1>3
<1>10. clock_call' \in [op : {"none", "rtc", "rtc_date", "rtc_time"}, typed : Triples, shown : Sevens]
  BY <1>1, IdleIs
<1> QED
  BY <1>8, <1>9, <1>10 DEF ClockInv

LEMMA ClockKeeps ==
  ASSUME ClockInv, [Clock!Next]_Clock!vars
  PROVE  ClockInv'
<1>1. CASE UNCHANGED Clock!vars
  <2>1. chip' = chip /\ clock' = clock /\ clock_pc' = clock_pc /\ clock_call' = clock_call /\ due' = due
    BY <1>1 DEF Clock!vars
  <2> QED
    BY <2>1 DEF ClockInv
<1>2. CASE Clock!ReadFails
  <2>1. chip' = chip /\ clock' = clock /\ clock_pc' = "ready" /\ clock_call' = Clock!Idle /\ due' = due
    BY <1>2 DEF Clock!ReadFails
  <2> QED
    BY <2>1, IdleIs, QuietKeeps
<1>3. ASSUME NEW op \in {"rtc", "rtc_date", "rtc_time"},
             NEW typed \in Dates \cup Times \cup {<<0, 0, 0>>}, Clock!Command(op, typed)
      PROVE  ClockInv'
  <2>1. typed \in Triples
    <3>1. \A t \in Dates \cup Times : t \in Triples
      BY ClockAssumption DEF Clock!ConstantsOK, Triples
    <3>2. <<0, 0, 0>> \in Triples
      BY DEF Triples
    <3> QED
      BY <3>1, <3>2
  <2> QED
    BY <1>3, <2>1, CommandKeeps
<1>4. ASSUME NEW typed \in Dates, Clock!Command("rtc_date", typed) PROVE ClockInv'
  BY <1>3, <1>4
<1>5. ASSUME NEW typed \in Times, Clock!Command("rtc_time", typed) PROVE ClockInv'
  BY <1>3, <1>5
<1>6. CASE Clock!Command("rtc", <<0, 0, 0>>)
  BY <1>3, <1>6
<1>7. CASE Clock!Advance
  BY <1>7, AdvanceKeeps
<1>8. CASE Clock!rtc_read
  BY <1>8, ReadKeeps
<1>9. ASSUME NEW sent \in 0 .. 7, Clock!rtc_write(sent) PROVE ClockInv'
  BY <1>9, WriteKeeps
<1> QED
  BY <1>1, <1>2, <1>4, <1>5, <1>6, <1>7, <1>8, <1>9 DEF Clock!Next

\* The chip shows what it was given and has counted since, and rtc_ticks goes on by one with each tick of it, for
\* any ticks of a second, starts and times typed, however many ticks come between a read and its write and
\* wherever a message is cut short (rtc/commands.c:32-89, rtc.c:37-142).
THEOREM ClockIsRight == Clock!Spec => []ClockAgrees
<1>1. ClockInv => ClockAgrees
  <2> SUFFICES ASSUME ClockInv, due # Unknown
               PROVE  /\ Clock!Decoded(chip) = due
                      /\ Clock!rtc_ticks(Clock!Encoded(Clock!Later(due))) =
                           IF Clock!IsNewYear(Clock!Later(due)) THEN 0 ELSE Clock!rtc_ticks(chip) + 1
    BY DEF ClockAgrees, Clock!ClockAgrees
  <2>1. due = Clock!Decoded(chip) /\ Clock!IsTime(due) /\ InRange(due)
    BY DEF ClockInv
  <2>2. InRange(Clock!Later(due))
    BY <2>1, LaterIsTime
  <2>3. Clock!Decoded(Clock!Encoded(Clock!Later(due))) = Clock!Later(due)
    BY <2>2, CodeSurvives
  <2>4. Clock!rtc_ticks(Clock!Encoded(Clock!Later(due))) =
          SecondsOf(Clock!Later(due)) * TicksPerSecond + Clock!Later(due)[1]
    BY <2>3, TicksAre
  <2>5. Clock!rtc_ticks(chip) = SecondsOf(due) * TicksPerSecond + due[1]
    BY <2>1, TicksAre
  <2>6. SecondsOf(Clock!Later(due)) * TicksPerSecond + Clock!Later(due)[1] =
          IF Clock!IsNewYear(Clock!Later(due)) THEN 0 ELSE SecondsOf(due) * TicksPerSecond + due[1] + 1
    BY <2>1, TicksCount
  <2> QED
    BY <2>1, <2>4, <2>5, <2>6
<1> QED
  BY <1>1, InitClock, ClockKeeps, PTL DEF Clock!Spec

\* So it is in every behaviour of the run.
THEOREM RunKeepsTheClock == MCSpec => []ClockAgrees
<1>1. MCInit => Clock!Init
  BY DEF MCInit
<1>2. [MCNext]_MCVars => [Clock!Next]_Clock!vars
  BY DEF MCNext, MCVars, Twi, Card, Clocks, Serial, Rests, time, Clock!vars
<1>3. MCSpec => Clock!Spec
  BY <1>1, <1>2, PTL DEF MCSpec, Clock!Spec
<1> QED
  BY <1>3, ClockIsRight, PTL
=============================================================================
