----------------------------- MODULE FlatFiles -----------------------------
(***************************************************************************)
(* What libs/file_system promises the commands: a file is an array of      *)
(* bytes of a fixed length, and an open file a position in it.  A read or  *)
(* a write moves bytes in pieces, and ends when all are moved or the file  *)
(* ends.                                                                   *)
(***************************************************************************)
EXTENDS Integers, Sequences

CONSTANTS
  Name, Length,  \* the files, and how long each is
  Byte,
  Slot, Free,    \* the table of open files, and an entry not in use
  MaxCount       \* bound on the length of a read or write

VARIABLES
  content,   \* the byte at each place of each file
  opened,    \* the file in each slot
  position,
  call,      \* the read or write in progress
  reply      \* how the last call ended, and what it has read

vars == <<content, opened, position, call, reply>>

Place  == UNION {{n} \X (0 .. Length[n] - 1) : n \in Name}
Idle   == call.op = "none"
NoCall == [op |-> "none", slot |-> Free, left |-> 0, bytes |-> <<>>]
Answer(result) == [result |-> result, bytes |-> <<>>]

Init ==
  /\ content \in [Place -> Byte]
  /\ opened = [s \in Slot |-> Free]
  /\ position = [s \in Slot |-> 0]
  /\ call = NoCall
  /\ reply = Answer("none")

Open(s, n) ==
  /\ Idle /\ reply' = Answer("success")
  /\ opened[s] = Free
  /\ opened' = [opened EXCEPT ![s] = n]
  /\ position' = [position EXCEPT ![s] = 0]
  /\ UNCHANGED <<content, call>>

Close(s) ==
  /\ Idle /\ reply' = Answer("success")
  /\ opened[s] # Free
  /\ opened' = [opened EXCEPT ![s] = Free]
  /\ position' = [position EXCEPT ![s] = 0]
  /\ UNCHANGED <<content, call>>

Seek(s, target) ==
  /\ Idle /\ reply' = Answer("success")
  /\ opened[s] # Free
  /\ position' = [position EXCEPT ![s] = target]
  /\ UNCHANGED <<content, opened, call>>

\* Nothing to open it in, or nowhere to go to: the call does nothing.
Refuse ==
  /\ Idle
  /\ reply' = Answer("failure")
  /\ UNCHANGED <<content, opened, position, call>>

Begin(op, s, count, bytes) ==
  /\ Idle
  /\ call' = [op |-> op, slot |-> s, left |-> count, bytes |-> bytes]
  /\ opened[s] # Free
  /\ reply' = Answer("none")
  /\ UNCHANGED <<content, opened, position>>

\* The next k bytes cross, from or to the place the position says.
At(i) == <<opened[call.slot], position[call.slot] + i>>

Move(k) ==
  /\ ~Idle /\ k <= call.left
  /\ position[call.slot] + k <= Length[opened[call.slot]]
  /\ position' = [position EXCEPT ![call.slot] = @ + k]
  /\ \/ /\ call.op = "read"
        /\ reply' = [reply EXCEPT !.bytes =
                       @ \o [i \in 1 .. k |-> content[At(i - 1)]]]
        /\ call' = [call EXCEPT !.left = @ - k]
        /\ UNCHANGED content
     \/ /\ call.op = "write"
        /\ content' = [x \in Place |->
             IF \E i \in 1 .. k : x = At(i - 1)
             THEN call.bytes[x[2] - position[call.slot] + 1]
             ELSE content[x]]
        /\ call' = [call EXCEPT !.left = @ - k,
                                !.bytes = SubSeq(@, k + 1, Len(@))]
        /\ UNCHANGED reply
  /\ UNCHANGED opened

End ==
  /\ ~Idle
  /\ \/ /\ call.left = 0
        /\ reply' = [reply EXCEPT !.result = "success"]
     \/ /\ call.left > 0
        /\ position[call.slot] = Length[opened[call.slot]]
        /\ reply' = [reply EXCEPT !.result = "end_of_file"]
  /\ call' = NoCall
  /\ UNCHANGED <<content, opened, position>>

Next ==
  \/ \E s \in Slot :
       \/ \E n \in Name : Open(s, n)
       \/ Close(s)
       \/ /\ opened[s] # Free
          /\ \E p \in 0 .. Length[opened[s]] - 1 : Seek(s, p)
       \/ \E c \in 1 .. MaxCount : Begin("read", s, c, <<>>)
       \/ \E c \in 1 .. MaxCount, b \in [1 .. MaxCount -> Byte] :
            Begin("write", s, c, SubSeq(b, 1, c))
  \/ Refuse
  \/ \E k \in 1 .. MaxCount : Move(k)
  \/ End

Spec ==
  /\ Init /\ [][Next]_vars
  /\ WF_vars(\E k \in 1 .. MaxCount : Move(k)) /\ WF_vars(End)
=============================================================================
