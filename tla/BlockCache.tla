---------------------------- MODULE BlockCache ----------------------------
(***************************************************************************)
(* libs/buffer/buffer.c on libs/block/block.c and libs/partition: the      *)
(* one-block write back buffer through which every file system access      *)
(* goes, the table of block devices behind it, and the offset a partition  *)
(* adds.  Device 0 is the SD card; the others are its partitions.          *)
(*                                                                         *)
(* The card itself is external: here its reads and writes succeed, and     *)
(* RecordLog says what a failed one costs.                                 *)
(***************************************************************************)
EXTENDS Integers

CONSTANTS
  Sectors, BytesPerBlock, Byte,
  Device,     \* indexes in use in _block_table
  Start,      \* the sector each device starts at: 0, or Partition.start
  MaxOffset   \* the largest offset a caller passes: offsets are uint16

ASSUME SectorsAssumption == Sectors \in Nat \ {0}
ASSUME BytesAssumption   == BytesPerBlock \in Nat \ {0}
ASSUME ByteAssumption    == Byte # {}
ASSUME DeviceAssumption  ==
  /\ 0 \in Device
  /\ Start \in [Device -> 0 .. Sectors - 1]
  /\ Start[0] = 0
ASSUME OffsetAssumption  == MaxOffset \in Nat

Sector == 0 .. Sectors - 1
Column == 0 .. BytesPerBlock - 1

VARIABLES
  card,    \* the contents of the SD card
  buffer,  \* _buffer
  reply    \* the last call and its result

vars == <<card, buffer, reply>>

\* partition_block_read and partition_block_write, and the card itself.
Physical(device, address) == Start[device] + address

\* buffer_sync: what it leaves on the card.
Synced ==
  IF buffer.dirty
  THEN [card EXCEPT ![Physical(buffer.block, buffer.address)] = buffer.buffer]
  ELSE card

\* buffer_fill
Address(offset) == buffer.base + offset \div BytesPerBlock
Hit(offset)     == buffer.valid /\ Address(offset) = buffer.address
\* Wrong: a dirty block is replaced without being written.
CardAfterFill_NoSync(offset) == card
CardAfterFill(offset) == IF Hit(offset) THEN card ELSE Synced

Filled(offset) ==
  IF Hit(offset)
  THEN buffer
  ELSE [buffer EXCEPT !.dirty = FALSE, !.valid = TRUE,
                      !.address = Address(offset),
                      !.buffer = Synced[Physical(buffer.block, Address(offset))]]

\* Callers stay on the card.
InRange(offset) == Physical(buffer.block, Address(offset)) \in Sector

----------------------------------------------------------------------------
(* One action per call *)

\* Wrong: the buffer stays valid when the device changes.
SetAddress_StaysValid(index, base) ==
  /\ buffer.dirty => index = buffer.block
  /\ Physical(index, base) \in Sector
  /\ buffer' = [buffer EXCEPT !.block = index, !.base = base]
  /\ reply' = <<"select">>
  /\ UNCHANGED card

\* Callers close their files, and so sync, before they turn to another device
\* (file_system.c:286, and the commands of libs/buffer and libs/file_system).
SetAddress(index, base) ==
  /\ buffer.dirty => index = buffer.block
  /\ Physical(index, base) \in Sector
  /\ buffer' = IF buffer.block # index \/ buffer.base # base
               THEN [buffer EXCEPT !.block = index, !.base = base,
                                   !.valid = FALSE]
               ELSE buffer
  /\ reply' = <<"select">>
  /\ UNCHANGED card

Uint8(offset) ==
  /\ InRange(offset)
  /\ card' = CardAfterFill(offset)
  /\ buffer' = Filled(offset)
  /\ reply' = <<"read", Filled(offset).buffer[offset % BytesPerBlock]>>

SetUint8(offset, value) ==
  /\ InRange(offset)
  /\ card' = CardAfterFill(offset)
  /\ buffer' = [Filled(offset) EXCEPT !.buffer[offset % BytesPerBlock] = value,
                                      !.dirty = TRUE]
  /\ reply' = <<"write">>

Sync ==
  /\ card' = Synced
  /\ buffer' = [buffer EXCEPT !.dirty = FALSE]
  /\ reply' = <<"sync">>

\* Static storage after a reset.
Empty(data) == [valid |-> FALSE, dirty |-> FALSE, block |-> 0, base |-> 0,
                address |-> 0, buffer |-> data]

Zeroed == [c \in Column |-> CHOOSE v \in Byte : TRUE]

Crash ==
  /\ buffer' = Empty(Zeroed)
  /\ reply' = <<"boot">>
  /\ UNCHANGED card

Init ==
  /\ card \in [Sector -> [Column -> Byte]]
  /\ buffer = Empty(Zeroed)
  /\ reply = <<"boot">>

Next ==
  \/ \E index \in Device, base \in Sector : SetAddress(index, base)
  \/ \E offset \in 0 .. MaxOffset :
       Uint8(offset) \/ \E value \in Byte : SetUint8(offset, value)
  \/ Sync
  \/ Crash

Spec == Init /\ [][Next]_vars

----------------------------------------------------------------------------
(* Properties *)

TypeOK ==
  /\ card \in [Sector -> [Column -> Byte]]
  /\ buffer \in [valid : BOOLEAN, dirty : BOOLEAN, block : Device,
                 base : Sector, address : Sector, buffer : [Column -> Byte]]

\* A clean buffer marked valid is a true copy of the block it is named after,
\* and a dirty one is named after a block of the card.
CopyIsTrue ==
  /\ buffer.valid /\ ~buffer.dirty =>
       buffer.buffer = card[Physical(buffer.block, buffer.address)]
  /\ buffer.valid \/ buffer.dirty =>
       Physical(buffer.block, buffer.address) \in Sector

\* The buffer and the card together are the memory of BlockStore: what was
\* written is read back, and a crash loses at most one block.
Store == INSTANCE BlockStore WITH
  memory  <- Synced,
  durable <- card,
  place   <- Physical(buffer.block, buffer.base),
  reply   <- reply
ImplementsStore == Store!Spec
=============================================================================
