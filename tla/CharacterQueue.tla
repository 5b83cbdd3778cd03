-------------------------- MODULE CharacterQueue --------------------------
(***************************************************************************)
(* What libs/serial promises its callers: the characters received are read *)
(* once each and in order; when Capacity of them wait, those that come are *)
(* lost, and that is remembered.                                           *)
(***************************************************************************)
EXTENDS Integers, Sequences

CONSTANTS
  Byte,      \* the characters
  None,      \* no character
  Capacity   \* how many may wait

VARIABLES
  queue,   \* received and not yet read
  lost,    \* a character came when Capacity of them waited
  answer   \* the character read last, or None

vars == <<queue, lost, answer>>

Init == queue = <<>> /\ lost = FALSE /\ answer = None

Accept(c) ==
  /\ Len(queue) < Capacity
  /\ queue' = Append(queue, c)
  /\ UNCHANGED <<lost, answer>>

Lose ==
  /\ Len(queue) = Capacity
  /\ lost' = TRUE
  /\ UNCHANGED <<queue, answer>>

Read ==
  /\ queue # <<>>
  /\ answer' = Head(queue)
  /\ queue' = Tail(queue)
  /\ UNCHANGED lost

Next == (\E c \in Byte : Accept(c)) \/ Lose \/ Read

Spec == Init /\ [][Next]_vars
=============================================================================
