---------------------------- MODULE BlockStore ----------------------------
(***************************************************************************)
(* What libs/buffer promises the file system: a memory of bytes that reads *)
(* back what was written, of which a crash can lose only the block written *)
(* last, and nothing once it has been synced.                              *)
(***************************************************************************)
EXTENDS Integers

CONSTANTS
  Sectors,        \* blocks on the card
  BytesPerBlock,  \* 512
  Byte,           \* the values of a byte
  MaxOffset       \* the largest offset a caller passes: offsets are uint16

Sector == 0 .. Sectors - 1
Column == 0 .. BytesPerBlock - 1

VARIABLES
  memory,   \* what a reader sees
  durable,  \* what a crash leaves
  place,    \* the sector that offset 0 stands for
  reply     \* the last call and its result

vars == <<memory, durable, place, reply>>

\* Where an offset falls.
At(offset)  == place + offset \div BytesPerBlock
Col(offset) == offset % BytesPerBlock

Init ==
  /\ memory \in [Sector -> [Column -> Byte]]
  /\ durable = memory
  /\ place = 0
  /\ reply = <<"boot">>

Select(p) ==
  /\ place' = p
  /\ reply' = <<"select">>
  /\ UNCHANGED <<memory, durable>>

Read(offset) ==
  /\ reply' = <<"read", memory[At(offset)][Col(offset)]>>
  /\ durable' \in {durable, memory}
  /\ UNCHANGED <<memory, place>>

\* Every block but the one being written is safe by the time the call returns.
Write(offset, value) ==
  /\ memory' = [memory EXCEPT ![At(offset)][Col(offset)] = value]
  /\ durable' \in {durable, memory}
  /\ \A s \in Sector \ {At(offset)} : durable'[s] = memory'[s]
  /\ reply' = <<"write">>
  /\ UNCHANGED place

Sync ==
  /\ durable' = memory
  /\ reply' = <<"sync">>
  /\ UNCHANGED <<memory, place>>

Crash ==
  /\ memory' = durable
  /\ place' = 0
  /\ reply' = <<"boot">>
  /\ UNCHANGED durable

Next ==
  \/ \E p \in Sector : Select(p)
  \/ \E offset \in 0 .. MaxOffset :
       At(offset) \in Sector
         /\ (Read(offset) \/ \E v \in Byte : Write(offset, v))
  \/ Sync
  \/ Crash

Spec == Init /\ [][Next]_vars
=============================================================================
