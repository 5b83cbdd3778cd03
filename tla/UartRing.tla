----------------------------- MODULE UartRing -----------------------------
(***************************************************************************)
(* The receive buffer of libs/serial/usart.c (and uart.c, its twin for the *)
(* atmega8): a ring the receive interrupt fills and the main thread        *)
(* empties, with no lock.  head and tail are bytes, so each access to them *)
(* is one step; the interrupt comes between any two steps of uart_read.    *)
(***************************************************************************)
EXTENDS Integers, Sequences

CONSTANTS
  Size,  \* slots of the ring: 16, more than one
  Byte,  \* the characters
  None   \* no character, none of Byte

\* A ring of one slot is full as soon as it is empty.
ConstantsOK == Size \in Nat /\ Size > 1 /\ Byte # {} /\ None \notin Byte

Slot == 0 .. Size - 1
\* & 0x0f
Wrap(n) == n % Size

VARIABLES
  head, tail, overflow, data,  \* the Buffer read
  at, next, taken,  \* uart_read: its place, its next, and the character taken
  answer            \* what it returned last

ring   == <<head, tail, overflow, data>>
reader == <<at, next, taken, answer>>
vars   == <<ring, reader>>

Init ==
  /\ head = 0 /\ tail = Size - 1 /\ overflow = FALSE
  /\ data = [s \in Slot |-> CHOOSE c \in Byte : TRUE]  \* all zero
  /\ at = "idle" /\ next = 0 /\ taken = None /\ answer = None

\* Wrong: the last free slot is not used.
Receive_Early(c) ==
  /\ IF Wrap(head + 1) = tail
     THEN overflow' = TRUE /\ UNCHANGED <<head, data>>
     ELSE /\ data' = [data EXCEPT ![head] = c]
          /\ head' = Wrap(head + 1)
          /\ UNCHANGED overflow
  /\ UNCHANGED <<tail, reader>>

\* SIG_USART_RECV
Receive(c) ==
  /\ IF head = tail
     THEN overflow' = TRUE /\ UNCHANGED <<head, data>>
     ELSE /\ data' = [data EXCEPT ![head] = c]
          /\ head' = Wrap(head + 1)
          /\ UNCHANGED overflow
  /\ UNCHANGED <<tail, reader>>

\* Wrong: the character read last is read again.
Begin_OffByOne ==
  /\ at = "idle"
  /\ next' = tail
  /\ at' = "spin"
  /\ UNCHANGED <<ring, taken, answer>>

\* uart_read finds where the next character is or will be.
Begin ==
  /\ at = "idle"
  /\ next' = Wrap(tail + 1)
  /\ at' = "spin"
  /\ UNCHANGED <<ring, taken, answer>>

\* It spins until there is one, and reads it.
Take ==
  /\ at = "spin" /\ next # head
  /\ taken' = data[next]
  /\ at' = "taken"
  /\ UNCHANGED <<ring, next, answer>>

\* The slot is free, and the character is returned.
Return ==
  /\ at = "taken"
  /\ tail' = next
  /\ answer' = taken
  /\ at' = "idle"
  /\ UNCHANGED <<head, overflow, data, next, taken>>

Next == (\E c \in Byte : Receive(c)) \/ Begin \/ Take \/ Return

Spec     == Init /\ [][Next]_vars
FairSpec == Spec /\ WF_vars(Take) /\ WF_vars(Return)

----------------------------------------------------------------------------
(* Properties *)

\* uart_character_ready
Ready == Wrap(tail + 1) # head

TypeOK ==
  /\ head \in Slot /\ tail \in Slot /\ overflow \in BOOLEAN
  /\ data \in [Slot -> Byte]
  /\ at \in {"idle", "spin", "taken"} /\ next \in Slot
  /\ taken \in Byte \cup {None} /\ answer \in Byte \cup {None}

\* The interrupt never writes the slot uart_read is reading, and the character
\* it has taken is still there when the slot is freed (usart.c:38-50, 98-110).
SlotIsStable ==
  /\ TypeOK
  /\ at # "idle" => next = Wrap(tail + 1)
  /\ at = "taken" => next # head /\ data[next] = taken

\* The ring is a queue of Size - 1 characters: head = tail is full, and a tail
\* just behind the head is empty; and the slots it is read from are stable.
Count == Wrap(head - tail - 1)
Characters == INSTANCE CharacterQueue WITH
  Capacity <- Size - 1,
  queue    <- [i \in 1 .. Count |-> data[Wrap(tail + i)]],
  lost     <- overflow,
  answer   <- answer
ImplementsQueue == Characters!Spec /\ []SlotIsStable

\* A character that is there is read by a uart_read that has begun: the promise
\* its callers rely on when uart_character_ready says so (usart.c:52-57).
ReadReturns == at # "idle" /\ Ready ~> at = "idle"
=============================================================================
