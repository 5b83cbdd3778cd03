-------------------------- MODULE PowerBoardProofs --------------------------
(***************************************************************************)
(* The power board's message, its agreement with the bus master on a       *)
(* write, and the measurement that gets into the header of a block, for    *)
(* every length of a message and every number of registers that hold it.   *)
(***************************************************************************)
EXTENDS PowerBoard, SequenceTheorems, TLAPS

----------------------------------------------------------------------------
(* The inductive invariant *)

\* The message is with the interrupt while bytes are stored in it.
MessageInStep ==
  /\ usi.message <=> usi.state \in {"request_data", "get_data"}
  /\ pc = "append" => state = "queued"
  /\ pc # "copy" => copied = 0

\* Where a transfer is, by the state the next overflow will find.
BusInStep ==
  ~Free =>
    /\ bus.client \in Client /\ usi.state # "nacked"
    /\ bus.op \in {"write", "read"}
    /\ usi.state \in {"send_data", "request_reply", "check_reply"} => bus.op = "read"
    /\ usi.state \in {"request_data", "get_data", "nack"} => bus.op = "write"
    /\ usi.state = "check_address" => bus.done = 0
    /\ usi.state = "send_data" => bus.done = 0 /\ usi.index = 0
    /\ usi.state = "request_reply" =>
         /\ bus.done < Count
         /\ bus.done + 1 < Registers => usi.index = bus.done + 1
    /\ usi.state = "check_reply" => (bus.done < Registers => usi.index = bus.done)
    /\ usi.state = "request_data" => bus.done = usi.current /\ usi.current < Count
    /\ usi.state = "get_data" => bus.done = usi.current + 1 /\ usi.current < Count
    /\ usi.state = "nack" => bus.done \in {0, Count}
    /\ taken <=> usi.state = "nack" /\ bus.done = Count
    /\ bus.got \in [1 .. (IF bus.op = "read" THEN bus.done ELSE 0) -> Sample]

\* What the board does once it has taken the message of analog_tick: it
\* measures, copies and queues its message, and then the registers stay as they
\* are until the next message is sent.
FreshInStep ==
  asked # No =>
    /\ ~usi.message /\ pc # "ended"
    /\ pc = "wait" /\ ~head => state = "success"
    /\ pc = "sample" \/ (pc = "wait" /\ ~head) => sample = asked
    /\ pc = "copy" =>
         /\ sample = Other(asked)
         /\ \A r \in 0 .. copied - 1 : registers[r] = Other(asked)
    /\ pc \in {"prepare", "append"} \/ head =>
         \A r \in 0 .. Count - 1 : registers[r] = Other(asked)
    /\ ~Free /\ bus.op = "write" => usi.state = "nack"
    /\ ~Free /\ bus.client = "tick" /\ bus.op = "read" =>
         /\ head
         /\ \A j \in 1 .. bus.done : bus.got[j] = Other(asked)
         /\ usi.state = "request_reply" => usidr = Other(asked)

PInv == MessageHeld /\ MessageInStep /\ BusInStep /\ WriteAgrees /\ FreshInStep
        /\ HeaderIsFresh

----------------------------------------------------------------------------
(* The steps of the main loop: they touch neither the bus nor the interrupt *)

\* A step of the main loop keeps the invariant: it measures and writes the
\* registers only when it has got its message back, and its message is never
\* with the interrupt by then.
LEMMA MainKeeps == ASSUME ConstantsOK, PInv, MainStep PROVE PInv'
<1>1. /\ TypeOK /\ Count \in Nat /\ Count > 0 /\ Registers \in Nat
      /\ Count <= Registers
      /\ UNCHANGED <<usi, usidr, taken, bus, want, outcome, asked, header, faults, cut>>
  BY DEF ConstantsOK, PInv, MessageHeld, MainStep, Copy, Prepare,
    AppendMessage, Wait, Measure, cpu
<1>2. BusInStep'
  BY <1>1 DEF PInv, BusInStep, Free
<1>3. WriteAgrees' /\ HeaderIsFresh'
  BY <1>1 DEF PInv, WriteAgrees, HeaderIsFresh, Free
<1>4. CASE Copy
  <2>1. /\ copied \in 0 .. Count /\ sample \in Value
        /\ registers \in [0 .. Registers - 1 -> Sample] /\ Value \subseteq Sample
        /\ pc = "copy" /\ UNCHANGED <<sample, head, state>>
    BY <1>1, <1>4 DEF Copy, TypeOK, Sample
  <2>2. CASE copied < Count
    <3>1. /\ registers' = [registers EXCEPT ![copied] = sample]
          /\ copied' = copied + 1 /\ pc' = pc
      BY <1>4, <2>2 DEF Copy
    <3>2. registers' \in [0 .. Registers - 1 -> Sample] /\ copied' \in 0 .. Count
      BY <1>1, <2>1, <2>2, <3>1
    <3>3. TypeOK'
      BY <1>1, <2>1, <3>1, <3>2 DEF TypeOK
    <3>4. MessageHeld' /\ MessageInStep'
      BY <1>1, <2>1, <3>1, <3>3 DEF PInv, MessageHeld, MessageInStep
    <3>5. \A r \in 0 .. copied' - 1 :
            \/ r \in 0 .. copied - 1 /\ registers'[r] = registers[r]
            \/ registers'[r] = sample
      BY <1>1, <2>1, <2>2, <3>1
    <3>6. ~head
      BY <2>1 DEF PInv, MessageHeld
    <3>7. FreshInStep'
      BY <1>1, <2>1, <3>1, <3>5, <3>6 DEF PInv, FreshInStep, Free
    <3> QED
      BY <1>2, <1>3, <3>4, <3>7 DEF PInv
  <2>3. CASE copied = Count
    <3>1. registers' = registers /\ copied' = 0 /\ pc' = "prepare"
      BY <1>1, <1>4, <2>3 DEF Copy
    <3>2. TypeOK'
      BY <1>1, <2>1, <3>1 DEF TypeOK
    <3>3. MessageHeld' /\ MessageInStep'
      BY <1>1, <2>1, <3>1, <3>2 DEF PInv, MessageHeld, MessageInStep
    <3>4. FreshInStep'
      BY <1>1, <2>1, <2>3, <3>1 DEF PInv, FreshInStep, Free
    <3> QED
      BY <1>2, <1>3, <3>3, <3>4 DEF PInv
  <2> QED
    BY <1>1, <2>1, <2>2, <2>3
<1>5. CASE Prepare
  <2>1. TypeOK'
    BY <1>1, <1>5 DEF Prepare, TypeOK, Other, Value, Sample, cpu
  <2>2. MessageHeld' /\ MessageInStep'
    BY <1>1, <1>5, <2>1 DEF Prepare, PInv, MessageHeld, MessageInStep
  <2>3. FreshInStep'
    BY <1>1, <1>5 DEF Prepare, PInv, TypeOK, MessageHeld, MessageInStep, FreshInStep, Free
  <2> QED
    BY <1>2, <1>3, <2>2, <2>3 DEF PInv
<1>6. CASE AppendMessage
  <2>1. TypeOK'
    BY <1>1, <1>6 DEF AppendMessage, TypeOK, Other, Value, Sample, cpu
  <2>2. MessageHeld' /\ MessageInStep'
    BY <1>1, <1>6, <2>1 DEF AppendMessage, PInv, MessageHeld, MessageInStep
  <2>3. FreshInStep'
    BY <1>1, <1>6 DEF AppendMessage, PInv, TypeOK, MessageHeld, MessageInStep, FreshInStep, Free
  <2> QED
    BY <1>2, <1>3, <2>2, <2>3 DEF PInv
<1>7. CASE Wait
  <2>1. TypeOK'
    BY <1>1, <1>7 DEF Wait, TypeOK, Other, Value, Sample, cpu
  <2>2. MessageHeld' /\ MessageInStep'
    BY <1>1, <1>7, <2>1 DEF Wait, PInv, MessageHeld, MessageInStep
  <2>3. FreshInStep'
    BY <1>1, <1>7 DEF Wait, PInv, TypeOK, MessageHeld, MessageInStep, FreshInStep, Free
  <2> QED
    BY <1>2, <1>3, <2>2, <2>3 DEF PInv
<1>8. CASE Measure
  <2>1. TypeOK'
    BY <1>1, <1>8 DEF Measure, TypeOK, Other, Value, Sample, cpu
  <2>2. MessageHeld' /\ MessageInStep'
    BY <1>1, <1>8, <2>1 DEF Measure, PInv, MessageHeld, MessageInStep
  <2>3. FreshInStep'
    BY <1>1, <1>8 DEF Measure, PInv, TypeOK, MessageHeld, MessageInStep, FreshInStep, Free
  <2> QED
    BY <1>2, <1>3, <2>2, <2>3 DEF PInv
<1> QED
  BY <1>4, <1>5, <1>6, <1>7, <1>8 DEF MainStep

----------------------------------------------------------------------------
(* The ends of a transfer and its beginning *)

\* The answer read so far has one of the lengths of its type.
LEMMA AnswerType ==
  ASSUME NEW k \in 0 .. Count, NEW got \in [1 .. k -> Sample]
  PROVE  got \in UNION {[1 .. m -> Sample] : m \in 0 .. Count}
OBVIOUS

\* Nothing has been read yet.
LEMMA NothingRead == <<>> \in [1 .. 0 -> Sample]
OBVIOUS

\* The index of the next register is one of the registers, and it is one more
\* than the last one's as long as there is one.
LEMMA NextIndex ==
  ASSUME ConstantsOK, NEW n \in Int, 0 <= n, n < Registers
  PROVE  /\ (n + 1) % Registers \in 0 .. Registers - 1
         /\ n + 1 < Registers => (n + 1) % Registers = n + 1
BY DEF ConstantsOK

\* A start condition takes the message from the interrupt, and main hears of it.
LEMMA StartKeeps == ASSUME ConstantsOK, PInv, NEW c \in Client, Start(c) PROVE PInv'
<1>1. /\ TypeOK /\ Free /\ usi.message \in BOOLEAN /\ want[c] \in {"write", "read"}
      /\ Count \in Nat /\ Count > 0
  BY DEF ConstantsOK, PInv, MessageHeld, TypeOK, Start
<1>2. /\ bus' = [client |-> c, op |-> want[c], done |-> 0, got |-> <<>>]
      /\ asked' = (IF want[c] = "write" THEN No ELSE asked)
      /\ state' = (IF usi.message THEN "failure" ELSE state)
      /\ usi' = [usi EXCEPT !.state = "check_address", !.message = FALSE]
      /\ taken' = FALSE /\ TimeFor(c)
      /\ UNCHANGED <<pc, copied, sample, registers, head, usidr, want, outcome,
                     header, faults, cut>>
  BY DEF Start, StartCondition, board
<1>3. /\ usi'.state = "check_address" /\ ~usi'.message
      /\ usi' \in [state : {"check_address", "send_data", "request_reply",
                       "check_reply", "request_data", "get_data", "nack",
                       "nacked"},
              current : 0 .. Count, index : 0 .. Registers - 1,
              message : BOOLEAN]
  BY <1>1, <1>2 DEF TypeOK
<1>4. /\ bus'.client = c /\ bus'.op = want[c] /\ bus'.done = 0 /\ bus'.got = <<>>
      /\ c # No
  BY <1>2 DEF Client, No
<1>5. bus' \in [client : Client \cup {No}, op : {"write", "read", No},
              done : 0 .. Count,
              got : UNION {[1 .. k -> Sample] : k \in 0 .. Count}]
  <2>1. <<>> \in UNION {[1 .. k -> Sample] : k \in 0 .. Count}
    BY <1>1, NothingRead, AnswerType
  <2> QED
    BY <1>1, <1>2, <2>1
<1>6. TypeOK'
  <2>1. state' \in {No, "queued", "reading", "success", "failure"} /\ asked' \in Value \cup {No}
    BY <1>1, <1>2 DEF TypeOK
  <2>2. /\ UNCHANGED <<pc, copied, sample, registers, head, usidr, want, outcome, faults, cut>>
        /\ taken' \in BOOLEAN
    BY <1>2
  <2> QED
    BY <1>1, <1>3, <1>5, <2>1, <2>2 DEF TypeOK
<1>7. MessageHeld' /\ MessageInStep'
  BY <1>1, <1>2, <1>3, <1>6 DEF PInv, MessageHeld, MessageInStep
<1>8. BusInStep'
  BY <1>1, <1>2, <1>3, <1>4, NothingRead DEF BusInStep, Free
<1>9. WriteAgrees' /\ HeaderIsFresh'
  BY <1>2, <1>4 DEF PInv, WriteAgrees, HeaderIsFresh, Free
<1>10. FreshInStep'
  <2> SUFFICES ASSUME asked' # No PROVE FreshInStep'
    BY DEF FreshInStep
  <2>1. asked # No /\ asked' = asked /\ want[c] = "read"
    BY <1>1, <1>2
  <2>2. ~usi.message /\ state' = state
    BY <1>2, <2>1 DEF PInv, FreshInStep
  <2>3. c = "tick" => head
    BY <1>2, <2>1 DEF TimeFor
  <2> QED
    BY <1>2, <1>3, <1>4, <2>1, <2>2, <2>3 DEF PInv, FreshInStep, Free
<1> QED
  BY <1>7, <1>8, <1>9, <1>10 DEF PInv

\* So does one that is not for the board.
LEMMA OtherKeeps == ASSUME ConstantsOK, PInv, StartOther PROVE PInv'
<1>1. TypeOK /\ Free /\ usi.message \in BOOLEAN
  BY DEF PInv, MessageHeld, TypeOK, StartOther
<1>2. /\ state' = (IF usi.message THEN "failure" ELSE state)
      /\ usi' = [usi EXCEPT !.state = "check_address", !.message = FALSE]
      /\ taken' = FALSE /\ outcome' = [op |-> No, result |-> No]
      /\ UNCHANGED <<pc, copied, sample, registers, head, usidr, bus, want,
                     asked, header, faults, cut>>
  BY DEF StartOther, StartCondition, board, Answer
<1>3. /\ usi'.state = "check_address" /\ ~usi'.message
      /\ usi' \in [state : {"check_address", "send_data", "request_reply",
                       "check_reply", "request_data", "get_data", "nack",
                       "nacked"},
              current : 0 .. Count, index : 0 .. Registers - 1,
              message : BOOLEAN]
  BY <1>1, <1>2 DEF TypeOK
<1>4. TypeOK'
  <2>1. /\ state' \in {No, "queued", "reading", "success", "failure"}
        /\ outcome' \in [op : {"write", "read", No}, result :
                         {No, "success", "address_nack", "data_nack", "given_up"}]
    BY <1>1, <1>2 DEF TypeOK
  <2> QED
    BY <1>1, <1>2, <1>3, <2>1 DEF TypeOK
<1>5. MessageHeld' /\ MessageInStep'
  BY <1>1, <1>2, <1>3, <1>4 DEF PInv, MessageHeld, MessageInStep
<1>6. BusInStep' /\ WriteAgrees' /\ HeaderIsFresh'
  BY <1>1, <1>2 DEF PInv, BusInStep, WriteAgrees, HeaderIsFresh, Free, No
<1>7. FreshInStep'
  BY <1>1, <1>2, <1>3 DEF PInv, FreshInStep, Free
<1> QED
  BY <1>5, <1>6, <1>7 DEF PInv

\* A transfer given up is one the master does not count, whatever the board has.
LEMMA GiveUpKeeps == ASSUME ConstantsOK, PInv, GiveUp PROVE PInv'
<1>1. /\ bus' = Quiet /\ outcome' = Answer(bus.op, "given_up")
      /\ want' = [c \in Client |-> "write"] /\ asked' = No
      /\ faults' \in 0 .. MaxFaults /\ cut' \in BOOLEAN
      /\ UNCHANGED <<pc, copied, sample, registers, head, state, usi, usidr,
                     taken, header>>
  BY DEF ConstantsOK, GiveUp, board, PInv, MessageHeld, TypeOK
<1>2. TypeOK /\ bus.op \in {"write", "read", No}
  BY DEF PInv, MessageHeld, TypeOK
<1>3. bus' \in [client : Client \cup {No}, op : {"write", "read", No},
              done : 0 .. Count,
              got : UNION {[1 .. k -> Sample] : k \in 0 .. Count}]
  <2>1. <<>> \in UNION {[1 .. k -> Sample] : k \in 0 .. Count}
    BY NothingRead, AnswerType DEF ConstantsOK
  <2>2. 0 \in 0 .. Count
    BY DEF ConstantsOK
  <2> QED
    BY <1>1, <2>1, <2>2, Zenon DEF Quiet
<1>4. TypeOK'
  BY <1>1, <1>2, <1>3 DEF TypeOK, Answer
<1>5. bus'.client = No /\ outcome'.result = "given_up"
  BY <1>1 DEF Quiet, Answer
<1> QED
  BY <1>1, <1>4, <1>5 DEF PInv, MessageHeld, MessageInStep, BusInStep, WriteAgrees,
    FreshInStep, HeaderIsFresh, Free

----------------------------------------------------------------------------
(* The end of each byte and of each acknowledge bit *)

USIType == [state : {"check_address", "send_data", "request_reply",
            "check_reply", "request_data", "get_data", "nack",
            "nacked"},
            current : 0 .. Count, index : 0 .. Registers - 1,
            message : BOOLEAN]
BusType == [client : Client \cup {No}, op : {"write", "read", No},
            done : 0 .. Count,
            got : UNION {[1 .. k -> Sample] : k \in 0 .. Count}]

\* What every overflow finds.
LEMMA OverflowFinds ==
  ASSUME ConstantsOK, PInv, ~Free
  PROVE  /\ TypeOK /\ usi \in USIType /\ bus \in BusType
         /\ usi.message \in BOOLEAN /\ usi.index \in 0 .. Registers - 1
         /\ usi.current \in 0 .. Count /\ bus.done \in 0 .. Count
         /\ bus.op \in {"write", "read"} /\ bus.client \in Client
         /\ bus.client # No
         /\ registers \in [0 .. Registers - 1 -> Sample] /\ usidr \in Sample
         /\ Count \in Nat /\ Count > 0 /\ Registers \in Nat /\ Count <= Registers
BY DEF ConstantsOK, PInv, MessageHeld, TypeOK, BusInStep, Free, USIType, BusType

\* The board answers a read from its first register, takes its message out for a
\* write, and refuses a write when it has no message.
LEMMA CheckAddressKeeps == ASSUME ConstantsOK, PInv, CheckAddress PROVE PInv'
<1>1. /\ ~Free /\ usi.state = "check_address" /\ bus.done = 0
      /\ UNCHANGED <<pc, copied, sample, registers, usidr, taken, bus, want,
                     outcome, asked, header, faults, cut>>
      /\ ~taken
  BY DEF CheckAddress, board, cpu, PInv, BusInStep
<1>2. /\ TypeOK /\ usi \in USIType /\ bus.op \in {"write", "read"}
      /\ bus.client \in Client /\ Count \in Nat /\ Count > 0
      /\ Registers \in Nat /\ Count <= Registers
  BY <1>1, OverflowFinds
<1>3. \/ /\ bus.op = "read" /\ UNCHANGED <<head, state>>
         /\ usi' = [state |-> "send_data", current |-> 0, index |-> 0,
                    message |-> usi.message]
      \/ /\ bus.op = "write" /\ head /\ head' = FALSE /\ state' = "reading"
         /\ usi' = [state |-> "request_data", current |-> 0, index |-> 0,
                    message |-> TRUE]
      \/ /\ bus.op = "write" /\ ~head /\ UNCHANGED <<head, state>>
         /\ usi' = [state |-> "nack", current |-> 0, index |-> 0,
                    message |-> usi.message]
  BY <1>2 DEF CheckAddress, Addressed, USIType
<1>4. usi' \in USIType
  <2>1. 0 \in 0 .. Registers - 1 /\ 0 \in 0 .. Count /\ usi.message \in BOOLEAN
    BY <1>1, <1>2, OverflowFinds
  <2>2. CASE usi' = [state |-> "send_data", current |-> 0, index |-> 0,
                     message |-> usi.message]
    BY <2>1, <2>2 DEF USIType
  <2>3. CASE usi' = [state |-> "request_data", current |-> 0, index |-> 0,
                     message |-> TRUE]
    BY <2>1, <2>3 DEF USIType
  <2>4. CASE usi' = [state |-> "nack", current |-> 0, index |-> 0,
                     message |-> usi.message]
    BY <2>1, <2>4 DEF USIType
  <2> QED
    BY <1>3, <2>2, <2>3, <2>4
<1>5. TypeOK'
  <2>1. head' \in BOOLEAN
        /\ state' \in {No, "queued", "reading", "success", "failure"}
    BY <1>2, <1>3 DEF TypeOK
  <2> QED
    BY <1>1, <1>2, <1>4, <2>1 DEF TypeOK, USIType
<1>6. MessageHeld' /\ MessageInStep'
  BY <1>1, <1>2, <1>3, <1>5 DEF PInv, MessageHeld, MessageInStep
<1>7. BusInStep'
  <2>1. bus.got \in [1 .. 0 -> Sample]
    BY <1>1, <1>2 DEF PInv, BusInStep
  <2> QED
    BY <1>1, <1>2, <1>3, <2>1 DEF BusInStep, Free
<1>8. WriteAgrees' /\ HeaderIsFresh'
  BY <1>1 DEF PInv, WriteAgrees, HeaderIsFresh, Free
<1>9. FreshInStep'
  BY <1>1, <1>2, <1>3 DEF PInv, FreshInStep, Free
<1> QED
  BY <1>6, <1>7, <1>8, <1>9 DEF PInv

\* A register goes out.
LEMMA SendDataKeeps == ASSUME ConstantsOK, PInv, SendData PROVE PInv'
<1>1. /\ ~Free /\ usi.state = "send_data" /\ bus.done = 0 /\ usi.index = 0
      /\ usidr' = registers[0] /\ bus.op = "read" /\ ~taken
      /\ usi' = [usi EXCEPT !.state = "request_reply", !.index = (0 + 1) % Registers]
      /\ UNCHANGED <<pc, copied, sample, registers, head, state, taken, bus, want,
                     outcome, asked, header, faults, cut>>
  BY DEF SendData, SendRegister, board, cpu, PInv, BusInStep
<1>2. /\ TypeOK /\ usi \in USIType /\ registers \in [0 .. Registers - 1 -> Sample]
      /\ bus.client \in Client /\ Count \in Nat /\ Count > 0
      /\ Registers \in Nat /\ Count <= Registers
  BY <1>1, OverflowFinds
<1>3. /\ (0 + 1) % Registers \in 0 .. Registers - 1
      /\ 0 + 1 < Registers => (0 + 1) % Registers = 0 + 1
  BY <1>2, NextIndex
<1>4. /\ usi' \in USIType /\ usi'.state = "request_reply" /\ usi'.message = usi.message
      /\ usi'.index = (0 + 1) % Registers
  BY <1>1, <1>2, <1>3 DEF USIType
<1>5. usidr' \in Sample
  BY <1>1, <1>2
<1>6. TypeOK'
  BY <1>1, <1>2, <1>4, <1>5 DEF TypeOK, USIType
<1>7. MessageHeld' /\ MessageInStep'
  BY <1>1, <1>4, <1>6 DEF PInv, MessageHeld, MessageInStep
<1>8. BusInStep'
  <2>1. /\ bus.done + 1 < Registers => usi'.index = bus.done + 1
        /\ bus.done < Count
    BY <1>1, <1>2, <1>3, <1>4
  <2> QED
    BY <1>1, <1>2, <1>4, <2>1 DEF PInv, BusInStep, Free
<1>9. WriteAgrees' /\ HeaderIsFresh'
  BY <1>1 DEF PInv, WriteAgrees, HeaderIsFresh, Free
<1>10. FreshInStep'
  <2>1. 0 \in 0 .. Count - 1
    BY <1>2
  <2> QED
    BY <1>1, <1>2, <1>4, <2>1 DEF PInv, FreshInStep, Free
<1> QED
  BY <1>7, <1>8, <1>9, <1>10 DEF PInv

\* The master has the byte that went out.
LEMMA RequestReplyKeeps == ASSUME ConstantsOK, PInv, RequestReply PROVE PInv'
<1>1. /\ ~Free /\ usi.state = "request_reply" /\ bus.op = "read"
      /\ usi' = [usi EXCEPT !.state = "check_reply"]
      /\ bus' = [bus EXCEPT !.done = bus.done + 1, !.got = Append(bus.got, usidr)]
      /\ bus.done < Count
      /\ bus.done + 1 < Registers => usi.index = bus.done + 1
      /\ bus.got \in [1 .. bus.done -> Sample] /\ ~taken
      /\ UNCHANGED <<pc, copied, sample, registers, head, state, usidr, taken, want,
                     outcome, asked, header, faults, cut>>
  BY DEF RequestReply, GoesOn, board, PInv, BusInStep
<1>2. /\ TypeOK /\ usi \in USIType /\ bus \in BusType /\ usidr \in Sample
      /\ bus.client \in Client /\ bus.client # No /\ Count \in Nat /\ Count > 0
      /\ Registers \in Nat /\ Count <= Registers /\ bus.done \in 0 .. Count
  BY <1>1, OverflowFinds
<1>3. /\ usi' \in USIType /\ usi'.state = "check_reply" /\ usi'.message = usi.message
      /\ usi'.index = usi.index
  BY <1>1, <1>2 DEF USIType
<1>4. /\ Append(bus.got, usidr) \in [1 .. bus.done + 1 -> Sample]
      /\ \A j \in 1 .. bus.done : Append(bus.got, usidr)[j] = bus.got[j]
      /\ Append(bus.got, usidr)[bus.done + 1] = usidr
  <2>1. bus.got \in Seq(Sample) /\ Len(bus.got) = bus.done
    BY <1>1, <1>2
  <2>2. /\ Append(bus.got, usidr) \in Seq(Sample)
        /\ Len(Append(bus.got, usidr)) = bus.done + 1
        /\ \A j \in 1 .. bus.done : Append(bus.got, usidr)[j] = bus.got[j]
        /\ Append(bus.got, usidr)[bus.done + 1] = usidr
    BY <1>2, <2>1
  <2>3. Append(bus.got, usidr) \in [1 .. bus.done + 1 -> Sample]
    BY <2>2, LenProperties
  <2> QED
    BY <2>2, <2>3
<1>5. /\ bus' \in BusType /\ bus'.done = bus.done + 1 /\ bus'.op = "read"
      /\ bus'.client = bus.client /\ bus'.got = Append(bus.got, usidr)
  <2>1. bus.done + 1 \in 0 .. Count
    BY <1>1, <1>2
  <2>2. Append(bus.got, usidr) \in UNION {[1 .. m -> Sample] : m \in 0 .. Count}
    BY <1>4, <2>1, AnswerType
  <2> QED
    BY <1>1, <1>2, <2>1, <2>2 DEF BusType
<1>6. TypeOK'
  BY <1>1, <1>2, <1>3, <1>5 DEF TypeOK, USIType, BusType
<1>7. MessageHeld' /\ MessageInStep'
  BY <1>1, <1>3, <1>6 DEF PInv, MessageHeld, MessageInStep
<1>8. BusInStep'
  <2>1. bus'.done < Registers => usi'.index = bus'.done
    BY <1>1, <1>3, <1>5
  <2> QED
    BY <1>1, <1>2, <1>3, <1>4, <1>5, <2>1 DEF BusInStep, Free
<1>9. WriteAgrees' /\ HeaderIsFresh'
  BY <1>1, <1>2, <1>5 DEF PInv, WriteAgrees, HeaderIsFresh, Free
<1>10. FreshInStep'
  <2>1. \A j \in 1 .. bus.done + 1 : j \in 1 .. bus.done \/ j = bus.done + 1
    BY <1>2
  <2> QED
    BY <1>1, <1>2, <1>3, <1>4, <1>5, <2>1 DEF PInv, FreshInStep, Free
<1> QED
  BY <1>7, <1>8, <1>9, <1>10 DEF PInv

\* What the end of a transfer leaves.
LEMMA EndsQuiet ==
  ASSUME ConstantsOK, ~Free, bus \in BusType, bus.op \in {"write", "read"},
         want \in [Client -> {"write", "read"}], bus.client \in Client,
         NEW result \in {"success", "address_nack", "data_nack"}, NEW got,
         Ends(result, got)
  PROVE  /\ bus' \in BusType /\ bus'.client = No
         /\ outcome' \in [op : {"write", "read", No}, result :
                  {No, "success", "address_nack", "data_nack", "given_up"}]
         /\ outcome'.op = bus.op /\ outcome'.result = result
         /\ want' \in [Client -> {"write", "read"}]
         /\ header' = (IF bus.client = "tick" /\ bus.op = "read"
                       THEN [asked |-> IF result = "success" THEN asked ELSE No,
                             got |-> got]
                       ELSE header)
         /\ UNCHANGED <<asked, faults, cut>>
<1>1. <<>> \in UNION {[1 .. k -> Sample] : k \in 0 .. Count} /\ 0 \in 0 .. Count
  <2>1. 0 \in 0 .. Count
    BY DEF ConstantsOK
  <2> QED
    BY <2>1, NothingRead, AnswerType
<1>2. bus' = Quiet /\ outcome' = Answer(bus.op, result)
  BY DEF Ends
<1>3. bus' \in BusType /\ bus'.client = No
  BY <1>1, <1>2 DEF Quiet, BusType
<1>4. /\ outcome' \in [op : {"write", "read", No}, result :
                  {No, "success", "address_nack", "data_nack", "given_up"}]
      /\ outcome'.op = bus.op /\ outcome'.result = result
  BY <1>2 DEF Answer
<1>5. want' \in [Client -> {"write", "read"}]
  BY DEF Ends
<1>6. /\ header' = (IF bus.client = "tick" /\ bus.op = "read"
                       THEN [asked |-> IF result = "success" THEN asked ELSE No,
                             got |-> got]
                       ELSE header)
      /\ UNCHANGED <<asked, faults, cut>>
  BY DEF Ends
<1> QED
  BY <1>3, <1>4, <1>5, <1>6

\* The master's acknowledge asks for the next register; its refusal ends the
\* read, and the answer is then a whole one.
LEMMA CheckReplyKeeps == ASSUME ConstantsOK, PInv, CheckReply PROVE PInv'
<1>1. /\ ~Free /\ usi.state = "check_reply" /\ bus.op = "read" /\ ~taken
      /\ bus.done < Registers => usi.index = bus.done
      /\ bus.got \in [1 .. bus.done -> Sample]
      /\ UNCHANGED <<pc, copied, sample, registers, head, state, taken>>
  BY DEF CheckReply, board, PInv, BusInStep
<1>2. /\ TypeOK /\ usi \in USIType /\ bus \in BusType /\ usidr \in Sample
      /\ registers \in [0 .. Registers - 1 -> Sample]
      /\ bus.client \in Client /\ bus.client # No /\ Count \in Nat /\ Count > 0
      /\ Registers \in Nat /\ Count <= Registers /\ bus.done \in 0 .. Count
      /\ usi.index \in 0 .. Registers - 1
  BY <1>1, OverflowFinds
<1>3. CASE bus.done = Count
  <2>1. /\ usi' = [usi EXCEPT !.state = "check_address"] /\ usidr' = usidr
        /\ Ends("success", bus.got)
    BY <1>3 DEF CheckReply
  <2>2. /\ bus' \in BusType /\ bus'.client = No
        /\ outcome' \in [op : {"write", "read", No}, result :
                  {No, "success", "address_nack", "data_nack", "given_up"}]
        /\ outcome'.op = "read"
        /\ want' \in [Client -> {"write", "read"}]
        /\ header' = (IF bus.client = "tick"
                      THEN [asked |-> asked, got |-> bus.got]
                      ELSE header)
        /\ UNCHANGED <<asked, faults, cut>>
    <3>1. want \in [Client -> {"write", "read"}]
      BY <1>2 DEF TypeOK
    <3> QED
      BY <1>1, <1>2, <2>1, <3>1, EndsQuiet
  <2>3. usi' \in USIType /\ usi'.state = "check_address" /\ usi'.message = usi.message
    BY <1>2, <2>1 DEF USIType
  <2>4. TypeOK'
    BY <1>1, <1>2, <2>1, <2>2, <2>3 DEF TypeOK, USIType, BusType
  <2>5. MessageHeld' /\ MessageInStep'
    BY <1>1, <2>3, <2>4 DEF PInv, MessageHeld, MessageInStep
  <2>6. BusInStep' /\ WriteAgrees'
    BY <2>2 DEF BusInStep, WriteAgrees, Free
  <2>7. HeaderIsFresh'
    <3>1. CASE bus.client = "tick" /\ asked # No
      <4>1. \A j \in 1 .. Count : bus.got[j] = Other(asked)
        BY <1>1, <1>3, <3>1 DEF PInv, FreshInStep
      <4>2. bus.got = [j \in 1 .. Count |-> Other(asked)]
        BY <1>1, <1>3, <4>1
      <4>3. header'.asked = asked /\ header'.got = bus.got
        BY <2>2, <3>1
      <4> QED
        BY <4>2, <4>3 DEF HeaderIsFresh
    <3>2. CASE bus.client = "tick" /\ asked = No
      BY <2>2, <3>2 DEF HeaderIsFresh
    <3>3. CASE bus.client # "tick"
      BY <2>2, <3>3 DEF PInv, HeaderIsFresh
    <3> QED
      BY <3>1, <3>2, <3>3
  <2>8. FreshInStep'
    BY <1>1, <2>2, <2>3 DEF PInv, FreshInStep, Free
  <2> QED
    BY <2>5, <2>6, <2>7, <2>8 DEF PInv
<1>4. CASE bus.done # Count
  <2>1. bus.done < Count /\ usi.index = bus.done
    BY <1>1, <1>2, <1>4
  <2>2. /\ usidr' = registers[bus.done]
        /\ usi' = [usi EXCEPT !.state = "request_reply",
                              !.index = (bus.done + 1) % Registers]
        /\ UNCHANGED <<bus, want, outcome, asked, header, faults, cut>>
    BY <1>2, <1>4, <2>1 DEF CheckReply, SendRegister, cpu, USIType
  <2>3. /\ (bus.done + 1) % Registers \in 0 .. Registers - 1
        /\ bus.done + 1 < Registers => (bus.done + 1) % Registers = bus.done + 1
    BY <1>2, <2>1, NextIndex
  <2>4. /\ usi' \in USIType /\ usi'.state = "request_reply"
        /\ usi'.message = usi.message
        /\ usi'.index = (bus.done + 1) % Registers
    BY <1>2, <2>2, <2>3 DEF USIType
  <2>5. usidr' \in Sample
    BY <1>2, <2>1, <2>2
  <2>6. TypeOK'
    BY <1>1, <1>2, <2>2, <2>4, <2>5 DEF TypeOK, USIType
  <2>7. MessageHeld' /\ MessageInStep'
    BY <1>1, <2>4, <2>6 DEF PInv, MessageHeld, MessageInStep
  <2>8. BusInStep'
    BY <1>1, <1>2, <2>1, <2>2, <2>3, <2>4 DEF BusInStep, Free
  <2>9. WriteAgrees' /\ HeaderIsFresh'
    BY <1>1, <2>2 DEF PInv, WriteAgrees, HeaderIsFresh, Free
  <2>10. FreshInStep'
    <3>1. bus.done \in 0 .. Count - 1
      BY <1>2, <2>1
    <3> QED
      BY <1>1, <2>2, <2>4, <3>1 DEF PInv, FreshInStep, Free
  <2> QED
    BY <2>7, <2>8, <2>9, <2>10 DEF PInv
<1> QED
  BY <1>3, <1>4

\* The master sends a byte: the board has not had the last one yet.
LEMMA RequestDataKeeps == ASSUME ConstantsOK, PInv, RequestData PROVE PInv'
<1>1. /\ ~Free /\ usi.state = "request_data" /\ bus.op = "write" /\ ~taken
      /\ bus.done = usi.current /\ usi.current < Count
      /\ UNCHANGED <<pc, copied, sample, registers, head, state, usidr, taken>>
  BY DEF RequestData, board, PInv, BusInStep
<1>2. /\ TypeOK /\ usi \in USIType /\ bus \in BusType
      /\ bus.client \in Client /\ bus.client # No /\ Count \in Nat /\ Count > 0
      /\ Registers \in Nat /\ Count <= Registers /\ bus.done \in 0 .. Count
  BY <1>1, OverflowFinds
<1>3. /\ usi' = [usi EXCEPT !.state = "get_data"]
      /\ bus' = [bus EXCEPT !.done = bus.done + 1, !.got = <<>>]
      /\ UNCHANGED <<want, outcome, header, asked, faults, cut>>
  BY <1>1, <1>2 DEF RequestData, GoesOn
<1>4. /\ usi' \in USIType /\ usi'.state = "get_data" /\ usi'.message = usi.message
      /\ usi'.current = usi.current
  BY <1>2, <1>3 DEF USIType
<1>5. /\ bus' \in BusType /\ bus'.done = bus.done + 1 /\ bus'.op = "write"
      /\ bus'.client = bus.client /\ bus'.got = <<>>
  <2>1. bus.done + 1 \in 0 .. Count
    BY <1>1, <1>2
  <2>2. <<>> \in UNION {[1 .. k -> Sample] : k \in 0 .. Count}
    BY <1>2, NothingRead, AnswerType
  <2> QED
    BY <1>1, <1>2, <1>3, <2>1, <2>2 DEF BusType
<1>6. TypeOK'
  BY <1>1, <1>2, <1>3, <1>4, <1>5 DEF TypeOK, USIType, BusType
<1>7. MessageHeld' /\ MessageInStep'
  BY <1>1, <1>4, <1>6 DEF PInv, MessageHeld, MessageInStep
<1>8. BusInStep'
  BY <1>1, <1>2, <1>4, <1>5, NothingRead DEF BusInStep, Free
<1>9. WriteAgrees' /\ HeaderIsFresh'
  BY <1>2, <1>3, <1>5 DEF PInv, WriteAgrees, HeaderIsFresh, Free
<1>10. FreshInStep'
  BY <1>1, <1>3 DEF PInv, FreshInStep
<1> QED
  BY <1>7, <1>8, <1>9, <1>10 DEF PInv

\* A byte is stored.  The last one gives main its message back, before it has
\* measured again.
LEMMA GetDataKeeps == ASSUME ConstantsOK, PInv, GetData PROVE PInv'
<1>1. /\ ~Free /\ usi.state = "get_data" /\ bus.op = "write" /\ ~taken
      /\ bus.done = usi.current + 1 /\ usi.current < Count
      /\ usi.message /\ ~head /\ state = "reading" /\ pc = "wait"
      /\ asked = No /\ bus.got \in [1 .. 0 -> Sample] /\ copied = 0
      /\ UNCHANGED <<pc, copied, sample, registers, head, usidr, bus, want, outcome,
                     header, faults, cut>>
  BY DEF GetData, board, PInv, BusInStep, FreshInStep, MessageHeld, MessageInStep
<1>2. /\ TypeOK /\ usi \in USIType /\ bus.client \in Client /\ bus.client # No
      /\ Count \in Nat /\ Count > 0 /\ usi.current \in 0 .. Count
      /\ Registers \in Nat /\ Count <= Registers /\ bus.done \in 0 .. Count
      /\ sample \in Value
  BY <1>1, OverflowFinds DEF TypeOK
<1>3. CASE usi.current + 1 < Count
  <2>1. /\ usi' = [usi EXCEPT !.current = usi.current + 1, !.state = "request_data"]
        /\ UNCHANGED <<state, taken, asked>>
    BY <1>3 DEF GetData, Stored
  <2>2. /\ usi' \in USIType /\ usi'.state = "request_data"
        /\ usi'.message = usi.message /\ usi'.current = usi.current + 1
    <3>1. usi.current + 1 \in 0 .. Count
      BY <1>2, <1>3
    <3> QED
      BY <1>2, <2>1, <3>1 DEF USIType
  <2>3. TypeOK'
    BY <1>1, <1>2, <2>1, <2>2 DEF TypeOK, USIType
  <2>4. MessageHeld' /\ MessageInStep'
    BY <1>1, <2>1, <2>2, <2>3 DEF MessageHeld, MessageInStep
  <2>5. BusInStep'
    BY <1>1, <1>2, <1>3, <2>1, <2>2 DEF BusInStep, Free
  <2>6. WriteAgrees' /\ HeaderIsFresh' /\ FreshInStep'
    BY <1>1, <2>1 DEF PInv, WriteAgrees, HeaderIsFresh, FreshInStep, Free
  <2> QED
    BY <2>4, <2>5, <2>6 DEF PInv
<1>4. CASE ~(usi.current + 1 < Count)
  <2>1. /\ usi' = [usi EXCEPT !.current = usi.current + 1, !.state = "nack",
                              !.message = FALSE]
        /\ state' = "success" /\ taken' = TRUE
        /\ asked' = (IF bus.client = "tick" THEN sample ELSE No)
        /\ usi.current + 1 = Count
    BY <1>1, <1>2, <1>4 DEF GetData, Stored
  <2>2. usi' \in USIType /\ usi'.state = "nack" /\ ~usi'.message
    <3>1. usi.current + 1 \in 0 .. Count
      BY <1>2, <2>1
    <3> QED
      BY <1>2, <2>1, <3>1 DEF USIType
  <2>3. TypeOK'
    BY <1>1, <1>2, <2>1, <2>2 DEF TypeOK, USIType
  <2>4. MessageHeld' /\ MessageInStep'
    BY <1>1, <2>1, <2>2, <2>3 DEF MessageHeld, MessageInStep
  <2>5. BusInStep'
    BY <1>1, <1>2, <2>1, <2>2 DEF BusInStep, Free
  <2>6. WriteAgrees' /\ HeaderIsFresh'
    BY <1>1 DEF PInv, WriteAgrees, HeaderIsFresh, Free
  <2>7. FreshInStep'
    BY <1>1, <2>1, <2>2 DEF FreshInStep, Free
  <2> QED
    BY <2>4, <2>5, <2>6, <2>7 DEF PInv
<1> QED
  BY <1>3, <1>4

\* The refusal ends a write, and the master counts it as done just when the board
\* has all of the message.
LEMMA NackKeeps == ASSUME ConstantsOK, PInv, Nack PROVE PInv'
<1>1. /\ ~Free /\ usi.state = "nack" /\ bus.op = "write" /\ bus.done \in {0, Count}
      /\ taken <=> bus.done = Count
      /\ usi' = [usi EXCEPT !.state = "nacked"]
      /\ UNCHANGED <<pc, copied, sample, registers, head, state, usidr, taken>>
  BY DEF Nack, board, PInv, BusInStep
<1>2. /\ TypeOK /\ usi \in USIType /\ bus \in BusType
      /\ bus.client \in Client /\ Count \in Nat /\ Count > 0
      /\ want \in [Client -> {"write", "read"}]
  BY <1>1, OverflowFinds DEF TypeOK
<1>3. \/ bus.done = 0 /\ Ends("address_nack", <<>>)
      \/ bus.done = Count /\ Ends("success", <<>>)
  <2>1. CASE bus.done = 0
    BY <2>1 DEF Nack
  <2>2. CASE bus.done = Count
    <3>1. bus.done # 0
      BY <1>2, <2>2
    <3> QED
      BY <2>2, <3>1 DEF Nack
  <2> QED
    BY <1>1, <2>1, <2>2
<1>4. /\ bus' \in BusType /\ bus'.client = No
      /\ outcome' \in [op : {"write", "read", No}, result :
                  {No, "success", "address_nack", "data_nack", "given_up"}]
      /\ outcome'.op = "write" /\ (outcome'.result = "success" <=> bus.done = Count)
      /\ want' \in [Client -> {"write", "read"}]
      /\ UNCHANGED <<header, asked, faults, cut>>
  <2>1. CASE bus.done = 0 /\ Ends("address_nack", <<>>)
    BY <1>1, <1>2, <2>1, EndsQuiet
  <2>2. CASE bus.done = Count /\ Ends("success", <<>>)
    BY <1>1, <1>2, <2>2, EndsQuiet
  <2> QED
    BY <1>3, <2>1, <2>2
<1>5. usi' \in USIType /\ usi'.state = "nacked" /\ usi'.message = usi.message
  BY <1>1, <1>2 DEF USIType
<1>6. TypeOK'
  BY <1>1, <1>2, <1>4, <1>5 DEF TypeOK, USIType, BusType
<1>7. MessageHeld' /\ MessageInStep'
  BY <1>1, <1>5, <1>6 DEF PInv, MessageHeld, MessageInStep
<1>8. BusInStep' /\ WriteAgrees' /\ HeaderIsFresh'
  BY <1>1, <1>4 DEF PInv, BusInStep, WriteAgrees, HeaderIsFresh, Free
<1>9. FreshInStep'
  BY <1>1, <1>4, <1>5 DEF PInv, FreshInStep, Free
<1> QED
  BY <1>7, <1>8, <1>9 DEF PInv

----------------------------------------------------------------------------
(* The theorems *)

\* The board starts with its message still to be queued and the bus free.
LEMMA InitHolds == ASSUME ConstantsOK PROVE Init => PInv
<1> SUFFICES ASSUME Init PROVE PInv
  OBVIOUS
<1>1. /\ Count \in Nat /\ Count > 0 /\ Registers \in Nat /\ Count <= Registers
      /\ MaxFaults \in Nat
  BY DEF ConstantsOK
<1>2. bus \in BusType /\ bus.client = No
  <2>1. <<>> \in UNION {[1 .. k -> Sample] : k \in 0 .. Count}
    BY <1>1, NothingRead, AnswerType
  <2> QED
    <3>1. 0 \in 0 .. Count /\ bus = Quiet
      BY <1>1 DEF Init
    <3> QED
      BY <2>1, <3>1 DEF Quiet, BusType
<1>3. /\ usi \in USIType /\ usi.state = "check_address" /\ ~usi.message
  BY <1>1 DEF Init, USIType
<1>4. TypeOK
  <2>1. /\ pc \in {"copy", "prepare", "append", "wait", "sample", "ended"}
        /\ copied \in 0 .. Count /\ sample \in Value
        /\ registers \in [0 .. Registers - 1 -> Sample]
        /\ head \in BOOLEAN /\ state \in {No, "queued", "reading", "success", "failure"}
        /\ usidr \in Sample /\ want \in [Client -> {"write", "read"}]
    <3>1. /\ pc = "prepare" /\ copied = 0 /\ sample = "even" /\ usidr = "zero"
          /\ registers = [r \in 0 .. Registers - 1 |-> "zero"] /\ head = FALSE /\ state = No
          /\ want = [c \in Client |-> "write"]
      BY DEF Init
    <3>2. "zero" \in Sample /\ 0 \in 0 .. Count /\ "even" \in Value
      BY <1>1 DEF Sample, Value
    <3> HIDE DEF Sample, Value, No
    <3> QED
      BY <3>1, <3>2
  <2>2. /\ outcome \in [op : {"write", "read", No}, result :
                        {No, "success", "address_nack", "data_nack", "given_up"}]
        /\ taken \in BOOLEAN /\ asked \in Value \cup {No}
        /\ faults \in 0 .. MaxFaults /\ cut \in BOOLEAN
    <3>1. /\ outcome = [op |-> No, result |-> No] /\ taken = FALSE /\ asked = No
          /\ faults = 0 /\ cut = FALSE
      BY DEF Init, Answer
    <3>2. outcome \in [op : {"write", "read", No}, result :
                      {No, "success", "address_nack", "data_nack", "given_up"}]
      BY <3>1, Zenon
    <3>3. faults \in 0 .. MaxFaults
      BY <1>1, <3>1
    <3> QED
      BY <3>1, <3>2, <3>3
  <2>3. USIType = [state : {"check_address", "send_data", "request_reply", "check_reply",
                            "request_data", "get_data", "nack", "nacked"},
                   current : 0 .. Count, index : 0 .. Registers - 1, message : BOOLEAN]
    BY DEF USIType
  <2>4. BusType = [client : Client \cup {No}, op : {"write", "read", No}, done : 0 .. Count,
                   got : UNION {[1 .. k -> Sample] : k \in 0 .. Count}]
    BY DEF BusType
  <2> HIDE DEF Client, No, Sample
  <2> QED
    BY <1>2, <1>3, <2>1, <2>2, <2>3, <2>4, Zenon DEF TypeOK
<1> QED
  BY <1>2, <1>3, <1>4 DEF Init, PInv, MessageHeld, MessageInStep, BusInStep, WriteAgrees,
    FreshInStep, HeaderIsFresh, Free, Answer, No

\* Every step keeps the invariant.
LEMMA Inductive == ASSUME ConstantsOK PROVE PInv /\ [Next]_vars => PInv'
<1> SUFFICES ASSUME PInv, [Next]_vars PROVE PInv'
  OBVIOUS
<1>1. CASE MainStep
  BY <1>1, MainKeeps
<1>2. CASE Overflow
  BY <1>2, CheckAddressKeeps, SendDataKeeps, RequestReplyKeeps, CheckReplyKeeps,
    RequestDataKeeps, GetDataKeeps, NackKeeps DEF Overflow
<1>3. CASE \E c \in Client : Start(c)
  BY <1>3, StartKeeps
<1>4. CASE StartOther
  BY <1>4, OtherKeeps
<1>5. CASE GiveUp
  BY <1>5, GiveUpKeeps
<1>6. CASE UNCHANGED vars
  BY <1>6 DEF vars, PInv, MessageHeld, TypeOK, MessageInStep, BusInStep, WriteAgrees,
    FreshInStep, HeaderIsFresh, Free
<1> QED
  BY <1>1, <1>2, <1>3, <1>4, <1>5, <1>6 DEF Next

\* The invariant holds throughout.
LEMMA Throughout == ASSUME ConstantsOK PROVE Init /\ [][Next]_vars => []PInv
<1>1. Init => PInv
  BY InitHolds
<1>2. PInv /\ [Next]_vars => PInv'
  BY Inductive
<1> QED
  BY <1>1, <1>2, PTL

\* The three properties need no fairness.
LEMMA StepsAreSafe ==
  ASSUME ConstantsOK
  PROVE  Init /\ [][Next]_vars => [](MessageHeld /\ WriteAgrees /\ HeaderIsFresh)
<1>1. PInv => MessageHeld /\ WriteAgrees /\ HeaderIsFresh
  BY DEF PInv
<1> QED
  BY <1>1, Throughout, PTL DEF Spec

\* The overflow interrupt never stores through a null message, and the message is
\* in one place at a time, however the transfers come, are refused and given up
\* (slave.c:121-133, 177-183, 199-214).
THEOREM MessageIsInOnePlace == ASSUME ConstantsOK PROVE Spec => []MessageHeld
<1>1. PInv => MessageHeld
  BY DEF PInv
<1> QED
  BY <1>1, Throughout, PTL DEF Spec

\* The master counts a write as done just when the board has the whole message,
\* although the board refuses the last byte (slave.c:207-213, master.c:195-214).
THEOREM BothSidesAgree == ASSUME ConstantsOK PROVE Spec => []WriteAgrees
<1>1. PInv => WriteAgrees
  BY DEF PInv
<1> QED
  BY <1>1, Throughout, PTL DEF Spec

\* The header of a block gets one measurement and no mixture of two, made after
\* analog_tick asked for it, if the read came when the board was ready again
\* (analog_disc.c:150-185, slave.c:98-99, 249).
THEOREM HeadersGetOneMeasurement == ASSUME ConstantsOK PROVE Spec => []HeaderIsFresh
<1>1. PInv => HeaderIsFresh
  BY DEF PInv
<1> QED
  BY <1>1, Throughout, PTL DEF Spec

=============================================================================
