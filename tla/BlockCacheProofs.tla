------------------------- MODULE BlockCacheProofs -------------------------
(***************************************************************************)
(* The one-block write back buffer is the memory of BlockStore, for every  *)
(* card, block size and table of devices.  Beside it stand the other parts *)
(* that MCBlockCache runs: the ticks counted keep time and arch_cycles     *)
(* returns a time of its call, a search for an offset finds it and the     *)
(* commands agree with the converters, and the shell calls a command with  *)
(* the words that were typed.                                              *)
(***************************************************************************)
EXTENDS MCBlockCache, SequenceTheorems, FiniteSetTheorems, WellFoundedInduction, TLAPS

----------------------------------------------------------------------------
(* Helpers *)

\* What a restarted RAM holds is a block of bytes.
LEMMA ZeroedType == Zeroed \in [Column -> Byte]
<1>1. (CHOOSE v \in Byte : TRUE) \in Byte
  BY ByteAssumption
<1> QED
  BY <1>1 DEF Zeroed

\* An offset splits into a block and a column of it (buffer.c:37-51).
LEMMA ColumnOf ==
  ASSUME NEW o \in 0 .. MaxOffset
  PROVE  /\ o % BytesPerBlock \in Column
         /\ o \div BytesPerBlock \in Nat
  BY OffsetAssumption, BytesAssumption DEF Column

\* What buffer_sync leaves on the card.
LEMMA SyncedType ==
  ASSUME TypeOK, CopyIsTrue
  PROVE  /\ Synced \in [Sector -> [Column -> Byte]]
         /\ buffer.valid \/ buffer.dirty =>
              Synced[Physical(buffer.block, buffer.address)] = buffer.buffer
  BY DEF TypeOK, CopyIsTrue, Synced

\* buffer_fill leaves in RAM the block the offset falls in, and changes nothing
\* a reader can see.
LEMMA FillIsTrue ==
  ASSUME TypeOK, CopyIsTrue, NEW o \in 0 .. MaxOffset, InRange(o)
  PROVE  LET p == Physical(buffer.block, Address(o))
             f == Filled(o)
         IN  /\ f \in [valid : {TRUE}, dirty : BOOLEAN, block : {buffer.block},
                       base : {buffer.base}, address : {Address(o)},
                       buffer : [Column -> Byte]]
             /\ Address(o) \in Sector
             /\ p \in Sector
             /\ f.buffer = Synced[p]
             /\ CardAfterFill(o) \in {card, Synced}
             /\ f.dirty => Hit(o) /\ buffer.dirty
             /\ ~f.dirty => CardAfterFill(o) = Synced
<1>1. Synced \in [Sector -> [Column -> Byte]]
  BY SyncedType
<1>2. Physical(buffer.block, Address(o)) \in Sector
  BY DEF InRange
<1>3. Address(o) \in Sector
  BY <1>2, ColumnOf, DeviceAssumption, SectorsAssumption
  DEF TypeOK, Physical, Address, Sector
<1>4. CASE Hit(o)
  BY <1>1, <1>2, <1>3, <1>4, SyncedType
  DEF Hit, Filled, CardAfterFill, TypeOK, Synced
<1>5. CASE ~Hit(o)
  BY <1>1, <1>2, <1>3, <1>5 DEF Filled, CardAfterFill, TypeOK
<1> QED
  BY <1>4, <1>5

----------------------------------------------------------------------------
(* Invariants *)

Inv == TypeOK /\ CopyIsTrue

\* Nothing is selected, so nothing is copied.
LEMMA InitInv == Init => Inv
  BY ZeroedType, DeviceAssumption, SectorsAssumption
  DEF Init, Inv, TypeOK, CopyIsTrue, Empty, Sector

\* Every call keeps the copy true.
LEMMA StepInv ==
  ASSUME Inv, [Next]_vars
  PROVE  Inv'
<1> USE DEF Inv
<1>1. ASSUME NEW entry \in Device, NEW base \in Sector, SetAddress(entry, base)
      PROVE  Inv'
  <2>1. TypeOK'
    BY <1>1 DEF SetAddress, TypeOK
  <2>2. CopyIsTrue'
    BY <1>1 DEF SetAddress, TypeOK, CopyIsTrue
  <2> QED
    BY <2>1, <2>2
<1>2. ASSUME NEW o \in 0 .. MaxOffset, Uint8(o)
      PROVE  Inv'
  <2>1. TypeOK'
    BY <1>2, FillIsTrue, SyncedType DEF Uint8, TypeOK
  <2>2. CopyIsTrue'
    BY <1>2, FillIsTrue DEF Uint8, TypeOK, CopyIsTrue, Physical
  <2> QED
    BY <2>1, <2>2
<1>3. ASSUME NEW o \in 0 .. MaxOffset, NEW value \in Byte,
             SetUint8(o, value)
      PROVE  Inv'
  <2>1. TypeOK'
    BY <1>3, FillIsTrue, SyncedType, ColumnOf DEF SetUint8, TypeOK
  <2>2. CopyIsTrue'
    BY <1>3, FillIsTrue DEF SetUint8, TypeOK, CopyIsTrue, Physical
  <2> QED
    BY <2>1, <2>2
<1>4. CASE Sync
  <2>1. TypeOK'
    BY <1>4, SyncedType DEF Sync, TypeOK
  <2>2. CopyIsTrue'
    BY <1>4, SyncedType DEF Sync, TypeOK, CopyIsTrue
  <2> QED
    BY <2>1, <2>2
<1>5. CASE Crash
  BY <1>5, ZeroedType, DeviceAssumption, SectorsAssumption
  DEF Crash, TypeOK, CopyIsTrue, Empty, Sector
<1>6. CASE UNCHANGED vars
  BY <1>6 DEF vars, TypeOK, CopyIsTrue
<1> QED
  BY <1>1, <1>2, <1>3, <1>4, <1>5, <1>6 DEF Next

\* A clean buffer is a true copy of its block and a dirty one belongs to the
\* card, whatever the callers do (buffer.c:37-79).
THEOREM CopyInvariance == Spec => [](TypeOK /\ CopyIsTrue)
<1>1. Inv /\ [Next]_vars => Inv'
  BY StepInv
<1> QED
  BY <1>1, InitInv, PTL DEF Spec, Inv

----------------------------------------------------------------------------
(* Refinement *)

\* The initial states are those of BlockStore.
LEMMA StoreInit == Init => Store!Init
  BY DeviceAssumption
  DEF Init, Store!Init, Empty, Synced, Physical, Store!Sector, Store!Column,
    Sector, Column

\* The sector BlockStore sees an offset in is the one the buffer fills from.
LEMMA AtPhysical ==
  ASSUME TypeOK, NEW o \in 0 .. MaxOffset
  PROVE  Store!At(o) = Physical(buffer.block, Address(o))
<1>1. Start[buffer.block] \in Int /\ buffer.base \in Int
  BY DeviceAssumption, SectorsAssumption DEF TypeOK, Sector
<1>2. o \div BytesPerBlock \in Int
  BY ColumnOf
<1> QED
  BY <1>1, <1>2 DEF Store!At, Physical, Address

\* Every call is the call of BlockStore, or a stutter of it.
LEMMA StoreStep ==
  ASSUME Inv, [Next]_vars
  PROVE  [Store!Next]_(Store!vars)
<1> USE DEF Inv
<1>1. ASSUME NEW entry \in Device, NEW base \in Sector, SetAddress(entry, base)
      PROVE  Store!Next
  <2>1. Synced' = Synced
    BY <1>1 DEF SetAddress, Synced, TypeOK
  <2>2. Physical(buffer.block, buffer.base)' = Physical(entry, base)
    BY <1>1 DEF SetAddress, Physical, TypeOK
  <2>3. Store!Select(Physical(entry, base))
    BY <1>1, <2>1, <2>2 DEF SetAddress, Store!Select
  <2> QED
    BY <1>1, <2>3 DEF SetAddress, Store!Next, Store!Sector, Sector
<1>2. ASSUME NEW o \in 0 .. MaxOffset, Uint8(o)
      PROVE  Store!Next
  <2> DEFINE p == Physical(buffer.block, Address(o))
  <2>1. Store!At(o) = p /\ p \in Sector
    BY <1>2, FillIsTrue, AtPhysical DEF Uint8
  <2>2. /\ Synced' = Synced
        /\ card' \in {card, Synced}
        /\ Physical(buffer.block, buffer.base)'
             = Physical(buffer.block, buffer.base)
    BY <1>2, FillIsTrue DEF Uint8, Synced, Physical, Hit, Filled, CardAfterFill
  <2>3. reply' = <<"read", Synced[Store!At(o)][Store!Col(o)]>>
    BY <1>2, <2>1, FillIsTrue DEF Uint8, Store!Col
  <2>4. Store!Read(o)
    BY <2>2, <2>3 DEF Store!Read
  <2> QED
    BY <2>1, <2>4 DEF Store!Next, Store!Sector, Sector
<1>3. ASSUME NEW o \in 0 .. MaxOffset, NEW value \in Byte,
             SetUint8(o, value)
      PROVE  Store!Next
  <2> DEFINE p == Physical(buffer.block, Address(o))
             c == o % BytesPerBlock
  <2>1. Store!At(o) = p /\ p \in Sector
    BY <1>3, FillIsTrue, AtPhysical DEF SetUint8
  <2>2. /\ card' \in {card, Synced}
        /\ Physical(buffer.block, buffer.base)'
             = Physical(buffer.block, buffer.base)
    BY <1>3, FillIsTrue DEF SetUint8, Physical
  <2>3. Synced' = [card' EXCEPT ![p] = [Synced[p] EXCEPT ![c] = value]]
    BY <1>3, FillIsTrue DEF SetUint8, Synced, Physical
  <2>4. /\ Synced \in [Sector -> [Column -> Byte]]
        /\ card \in [Sector -> [Column -> Byte]]
    BY SyncedType DEF TypeOK
  <2>5. \A s \in Sector \ {p} : card'[s] = Synced[s]
    BY <1>3, FillIsTrue DEF SetUint8, Synced, Hit, CardAfterFill, TypeOK
  <2>6. Synced' = [Synced EXCEPT ![p][c] = value]
    BY <2>1, <2>2, <2>3, <2>4, <2>5
  <2>7. \A s \in Sector \ {p} : card'[s] = Synced'[s]
    BY <2>1, <2>4, <2>5, <2>6
  <2>8. Store!Write(o, value)
    BY <1>3, <2>1, <2>2, <2>6, <2>7
    DEF Store!Write, SetUint8, Store!Col, Store!Sector, Sector
  <2> QED
    BY <2>1, <2>8 DEF Store!Next, Store!Sector, Sector
<1>4. CASE Sync
  BY <1>4 DEF Sync, Synced, Physical, Store!Next, Store!Sync, TypeOK
<1>5. CASE Crash
  BY <1>5, DeviceAssumption
  DEF Crash, Empty, Synced, Physical, Store!Next, Store!Crash
<1>6. CASE UNCHANGED vars
  BY <1>6 DEF vars, Store!vars, Synced, Physical
<1> QED
  BY <1>1, <1>2, <1>3, <1>4, <1>5, <1>6 DEF Next

\* What is written through the buffer is read back, whatever is selected or
\* flushed in between, and a crash loses at most the block written last
\* (buffer.c:37-122).
THEOREM Implements == Spec => ImplementsStore
<1>1. Inv /\ [Next]_vars => Inv'
  BY StepInv
<1>2. Inv /\ [Next]_vars => [Store!Next]_(Store!vars)
  BY StoreStep
<1> QED
  BY <1>1, <1>2, InitInv, StoreInit, PTL DEF Spec, ImplementsStore, Store!Spec

----------------------------------------------------------------------------
(* The tick timer beside it: the inductive invariant *)

InCall == {"clear", "low", "high", "value", "test", "done"}

Types ==
  /\ now \in Nat /\ pending \subseteq {"compare", "overflow"}
  /\ enabled \in BOOLEAN /\ shadow \in BOOLEAN
  /\ handler \in {"none", "compare", "walk", "overflow", "return"}
  /\ OCR2A \in Nat /\ overflow \in Nat /\ ticks \in Nat
  /\ check \in BOOLEAN /\ late \in BOOLEAN /\ overtaken \in BOOLEAN
  /\ pc \in {"add", "sei", "idle"} \cup InCall
  /\ read \in [low : Nat, high : Nat, value : Nat]
  /\ begun \in Nat

\* The interrupts are on only when there is a handler to call.
Started ==
  /\ handlers = <<>> => pc = "add"
  /\ pc \in {"add", "sei"} <=> ~enabled
  /\ handler # "none" => enabled

\* The ticks the compare register has been moved on for.
Handled == ticks + (IF handler = "walk" THEN 1 ELSE 0)

\* The register holds the end of the tick under way, or of the one before if the
\* handler has still to move it.
RegisterInStep ==
  /\ OCR2A = ((Handled + 1) * ARCH_TIMER_COUNT) % Counts
  /\ ~late =>
       /\ ~("compare" \in pending /\ handler = "compare")
       /\ ~Timer!CompareWaits =>
            /\ Handled * ARCH_TIMER_COUNT <= now
            /\ now < (Handled + 1) * ARCH_TIMER_COUNT
       /\ Timer!CompareWaits =>
            /\ (Handled + 1) * ARCH_TIMER_COUNT <= now
            /\ now < (Handled + 2) * ARCH_TIMER_COUNT

\* Every overflow has been counted, waits, or is being handled.
OverflowsCounted ==
  ~late =>
    overflow + (IF "overflow" \in pending THEN 1 ELSE 0)
             + (IF handler = "overflow" THEN 1 ELSE 0) = now \div Counts

\* An overflow that has not been counted, and would be before the test but for the
\* compare interrupt.
Unseen ==
  /\ "overflow" \in pending \/ handler = "overflow"
  /\ overtaken \/ (~shadow /\ handler \in {"none", "overflow"})

\* What a turn of arch_cycles has read, if no overflow was counted since it began.
ReadInStep ==
  /\ pc \in InCall => begun <= now
  /\ pc \in {"high", "value", "test"} /\ ~check => read.low = overflow % DigitSize
  /\ pc \in {"value", "test"} /\ ~check => read.high = overflow \div DigitSize
  /\ pc = "test" /\ ~check /\ ~late =>
       \/ Timer!Moment(overflow * Counts + read.value)
       \/ Unseen /\ Timer!Moment((overflow + 1) * Counts + read.value)

TInv ==
  Types /\ Started /\ RegisterInStep /\ OverflowsCounted /\ ReadInStep /\ Timer!CyclesInCall

----------------------------------------------------------------------------
(* Turns of the counter *)

\* A number is its quotient and its remainder.
LEMMA Division ==
  ASSUME NEW m \in Nat \ {0}, NEW x \in Int
  PROVE  x \div m \in Int /\ x % m \in 0 .. m - 1 /\ x = m * (x \div m) + (x % m)
<1>1. x \div m \in Int
  OBVIOUS
<1>2. x % m \in 0 .. m - 1
  OBVIOUS
<1>3. x = m * (x \div m) + (x % m)
  OBVIOUS
<1> QED
  BY <1>1, <1>2, <1>3

\* A multiple is not smaller.
LEMMA Larger ==
  ASSUME NEW m \in Nat \ {0}, NEW k \in Int, k >= 1
  PROVE  m * k \in Int /\ m * k >= m
OBVIOUS

\* There is only one quotient and one remainder.
LEMMA OneQuotient ==
  ASSUME NEW m \in Nat \ {0}, NEW q \in Int, NEW r \in 0 .. m - 1
  PROVE  (m * q + r) \div m = q /\ (m * q + r) % m = r
<1> DEFINE x == m * q + r
           p == x \div m
           s == x % m
<1>1. x \in Int /\ p \in Int /\ s \in 0 .. m - 1 /\ x = m * p + s
  BY Division
<1>2. m * (p - q) = r - s /\ m * (q - p) = s - r
  BY <1>1
<1>3. ~(p - q >= 1) /\ ~(q - p >= 1)
  <2>1. p - q \in Int /\ q - p \in Int
    BY <1>1
  <2>2. p - q >= 1 => m * (p - q) >= m
    BY <2>1, Larger
  <2>3. q - p >= 1 => m * (q - p) >= m
    BY <2>1, Larger
  <2>4. r - s < m /\ s - r < m
    BY <1>1
  <2> HIDE DEF p, s, x
  <2> QED
    BY <1>1, <1>2, <2>1, <2>2, <2>3, <2>4
<1>4. p = q
  <2> HIDE DEF p, s, x
  <2> QED
    BY <1>1, <1>3
<1>5. s = r
  BY <1>1, <1>4
<1> QED
  BY <1>4, <1>5

\* A remainder may be taken before a sum: the register is moved on by a tick and keeps its place.
LEMMA SumOfRests ==
  ASSUME NEW m \in Nat \ {0}, NEW x \in Int, NEW a \in Int
  PROVE  ((x % m) + a) % m = (x + a) % m
<1> DEFINE q == x \div m
           y == (x % m) + a
           s == y \div m
<1>1. q \in Int /\ x % m \in Int /\ x = m * q + (x % m)
  BY Division
<1>2. y \in Int /\ s \in Int /\ y % m \in 0 .. m - 1 /\ y = m * s + (y % m)
  <2>1. y \in Int
    BY <1>1
  <2> HIDE DEF y
  <2> QED
    BY <2>1, Division
<1>3. x + a = m * (q + s) + (y % m)
  <2>1. x = m * q + (y - a)
    BY <1>1
  <2>2. m * (q + s) = m * q + m * s
    BY <1>1, <1>2
  <2>3. m * q \in Int /\ m * s \in Int
    BY <1>1, <1>2
  <2> HIDE DEF s, q, y
  <2> QED
    BY <1>1, <1>2, <2>1, <2>2, <2>3
<1>4. (m * (q + s) + (y % m)) % m = y % m
  <2>1. q + s \in Int
    BY <1>1, <1>2
  <2> HIDE DEF s, q, y
  <2> QED
    BY <1>2, <2>1, OneQuotient
<1> QED
  BY <1>3, <1>4

\* Times less than a turn apart are told apart by the counter, and so is how far apart they are.
LEMMA SameRest ==
  ASSUME NEW m \in Nat \ {0}, NEW x \in Int, NEW y \in Int,
         0 <= x - y, x - y < m
  PROVE  /\ (x % m = y % m) <=> (x = y)
         /\ (x - (y % m)) % m = x - y
<1> DEFINE d == x - y
           q == y \div m
           r == y % m
<1>1. q \in Int /\ r \in 0 .. m - 1 /\ y = m * q + r /\ d \in 0 .. m - 1
  BY Division
<1>2. x = m * q + (r + d) /\ x - r = m * q + d
  <2> HIDE DEF q, r
  <2> QED
    BY <1>1
<1>3. (x - r) % m = d
  <2> HIDE DEF q, r, d
  <2> QED
    BY <1>1, <1>2, OneQuotient
<1>4. CASE r + d < m
  <2>1. r + d \in 0 .. m - 1
    BY <1>1, <1>4
  <2>2. x % m = r + d
    <3> HIDE DEF q, r, d
    <3> QED
      BY <1>1, <1>2, <2>1, OneQuotient
  <2>3. r + d = r <=> d = 0
    <3> HIDE DEF q, r, d
    <3> QED
      BY <1>1
  <2> QED
    BY <1>3, <2>2, <2>3
<1>5. CASE r + d >= m
  <2>1. r + d - m \in 0 .. m - 1 /\ q + 1 \in Int
    BY <1>1, <1>5
  <2>2. x = m * (q + 1) + (r + d - m)
    <3> HIDE DEF q, r
    <3> QED
      BY <1>1, <1>2
  <2>3. x % m = r + d - m
    <3> HIDE DEF q, r, d
    <3> QED
      BY <2>1, <2>2, OneQuotient
  <2>4. r + d - m # r /\ d # 0
    <3> HIDE DEF q, r, d
    <3> QED
      BY <1>1, <1>5
  <2> QED
    BY <1>3, <2>3, <2>4
<1> QED
  BY <1>1, <1>4, <1>5

\* The quotient goes up just when the remainder starts again.
LEMMA NextQuotient ==
  ASSUME NEW m \in Nat \ {0}, NEW x \in Int
  PROVE  /\ (x + 1) % m = 0 => (x + 1) \div m = x \div m + 1
         /\ (x + 1) % m # 0 => (x + 1) \div m = x \div m
<1> DEFINE q == x \div m
           r == x % m
<1>1. q \in Int /\ r \in 0 .. m - 1 /\ x = m * q + r
  BY Division
<1>2. CASE r + 1 < m
  <2>1. x + 1 = m * q + (r + 1) /\ r + 1 \in 0 .. m - 1
    BY <1>1, <1>2
  <2>2. (x + 1) \div m = q /\ (x + 1) % m = r + 1
    <3> HIDE DEF q, r
    <3> QED
      BY <1>1, <2>1, OneQuotient
  <2> QED
    BY <1>1, <2>2
<1>3. CASE r + 1 = m
  <2>1. x + 1 = m * (q + 1) + 0 /\ 0 \in 0 .. m - 1 /\ q + 1 \in Int
    <3> HIDE DEF q, r
    <3> QED
      BY <1>1, <1>3
  <2>2. (x + 1) \div m = q + 1 /\ (x + 1) % m = 0
    <3> HIDE DEF q, r
    <3> QED
      BY <2>1, OneQuotient
  <2> QED
    BY <2>2
<1> QED
  BY <1>1, <1>2, <1>3

\* The quotient by its bounds.
LEMMA QuotientBounds ==
  ASSUME NEW m \in Nat \ {0}, NEW x \in Int, NEW k \in Int,
         k * m <= x, x < (k + 1) * m
  PROVE  x \div m = k
<1>1. x = m * k + (x - k * m) /\ x - k * m \in 0 .. m - 1
  OBVIOUS
<1> QED
  BY <1>1, OneQuotient

----------------------------------------------------------------------------
(* The steps *)

\* Every variable keeps its type.
LEMMA TypesKeep == ASSUME Timer!ConstantsOK, Types, Timer!Next PROVE Types'
<1> USE DEF Timer!hardware, Timer!counted, Timer!main, Timer!history, InCall
<1>1. /\ Counts \in Nat \ {0} /\ ARCH_TIMER_COUNT \in Nat /\ DigitSize \in Nat \ {0}
      /\ Timer!NextCompare \in Nat
  <2>1. /\ Counts \in Nat \ {0} /\ ARCH_TIMER_COUNT \in Nat /\ DigitSize \in Nat \ {0}
    BY DEF Timer!ConstantsOK
  <2>2. OCR2A + ARCH_TIMER_COUNT \in Int
    BY <2>1 DEF Types
  <2>3. (OCR2A + ARCH_TIMER_COUNT) % Counts \in 0 .. Counts - 1
    BY <2>1, <2>2, Division
  <2> QED
    BY <2>1, <2>3 DEF Timer!NextCompare
<1>2. CASE Timer!Count
  <2>1. pending' \subseteq {"compare", "overflow"}
    BY <1>2 DEF Timer!Count, Timer!Raised, Types
  <2>2. now' \in Nat /\ late' \in BOOLEAN
    BY <1>2 DEF Timer!Count, Types
  <2> QED
    BY <1>2, <2>1, <2>2 DEF Timer!Count, Types
<1>3. CASE \E source \in {"compare", "overflow"} : Timer!Interrupt(source)
  BY <1>3 DEF Timer!Interrupt, Types
<1>4. CASE Timer!OtherInterrupt
  BY <1>4 DEF Timer!OtherInterrupt, Types
<1>5. CASE Timer!Return
  BY <1>5 DEF Timer!Return, Types
<1>6. CASE Timer!Overflow
  BY <1>6 DEF Timer!Overflow, Types
<1>7. CASE Timer!Compare
  BY <1>1, <1>7 DEF Timer!Compare, Types
<1>8. CASE Timer!Walk
  BY <1>8 DEF Timer!Walk, Types
<1>9. CASE Timer!Add
  BY <1>9 DEF Timer!Add, Timer!Instruction, Types
<1>10. CASE Timer!Sei
  BY <1>10 DEF Timer!Sei, Timer!Instruction, Types
<1>11. CASE Timer!AddAnalog
  BY <1>11 DEF Timer!AddAnalog, Timer!Instruction, Types
<1>12. CASE Timer!arch_cycles
  BY <1>12 DEF Timer!arch_cycles, Timer!Instruction, Types
<1>13. CASE Timer!Clear
  BY <1>13 DEF Timer!Clear, Timer!Instruction, Types
<1>14. CASE Timer!ReadLow
  <2>1. overflow % DigitSize \in Nat
    <3>1. overflow % DigitSize \in 0 .. DigitSize - 1
      BY <1>1, Division DEF Types
    <3> QED
      BY <1>1, <3>1
  <2> QED
    BY <1>14, <2>1 DEF Timer!ReadLow, Timer!Instruction, Types
<1>15. CASE Timer!ReadHigh
  <2>1. overflow \div DigitSize \in Nat
    BY <1>1 DEF Types
  <2> QED
    BY <1>15, <2>1 DEF Timer!ReadHigh, Timer!Instruction, Types
<1>16. CASE Timer!ReadValue
  <2>1. now % Counts \in Nat
    <3>1. now % Counts \in 0 .. Counts - 1
      BY <1>1, Division DEF Types
    <3> QED
      BY <1>1, <3>1
  <2> QED
    BY <1>16, <2>1 DEF Timer!ReadValue, Timer!TCNT2, Timer!Instruction, Types
<1>17. CASE Timer!Test
  BY <1>17 DEF Timer!Test, Timer!Instruction, Types
<1>18. CASE Timer!CyclesReturn
  BY <1>18 DEF Timer!CyclesReturn, Timer!Instruction, Types, Timer!NoRead
<1> QED
  BY <1>2, <1>3, <1>4, <1>5, <1>6, <1>7, <1>8, <1>9, <1>10, <1>11, <1>12, <1>13, <1>14,
    <1>15, <1>16, <1>17, <1>18 DEF Timer!Next

\* There is a handler in the list when the interrupts come on.
LEMMA StartedKeeps == ASSUME Types, Started, Timer!Next PROVE Started'
<1> USE DEF Timer!hardware, Timer!counted, Timer!main, Timer!history
<1>1. \A h \in {"os_tick", "analog_tick"} : <<h>> \o handlers # <<>>
  OBVIOUS
<1>2. CASE Timer!Count
  BY <1>2 DEF Timer!Count, Started
<1>3. CASE \E source \in {"compare", "overflow"} : Timer!Interrupt(source)
  BY <1>3 DEF Timer!Interrupt, Started
<1>4. CASE Timer!OtherInterrupt
  BY <1>4 DEF Timer!OtherInterrupt, Started
<1>5. CASE Timer!Return \/ Timer!Overflow \/ Timer!Compare \/ Timer!Walk
  BY <1>5 DEF Timer!Return, Timer!Overflow, Timer!Compare, Timer!Walk, Started, Types
<1>6. CASE Timer!Add
  BY <1>6 DEF Timer!Add, Timer!Instruction, Started, Types
<1>7. CASE Timer!Sei
  BY <1>7 DEF Timer!Sei, Timer!Instruction, Started, Types
<1>8. CASE Timer!AddAnalog
  BY <1>8 DEF Timer!AddAnalog, Timer!Instruction, Started, Types
<1>9. CASE Timer!arch_cycles \/ Timer!Clear \/ Timer!ReadLow \/ Timer!ReadHigh \/ Timer!ReadValue \/ Timer!Test \/ Timer!CyclesReturn
  BY <1>9 DEF Timer!arch_cycles, Timer!Clear, Timer!ReadLow, Timer!ReadHigh, Timer!ReadValue, Timer!Test,
     Timer!CyclesReturn,
    Timer!Instruction, Started, Types
<1> QED
  BY <1>2, <1>3, <1>4, <1>5, <1>6, <1>7, <1>8, <1>9 DEF Timer!Next

\* The steps that leave the time, the handlers and what they count as they are.
LEMMA MainSteps ==
  ASSUME Timer!Next
  PROVE  \/ Timer!Count \/ Timer!OtherInterrupt \/ Timer!Return \/ Timer!Overflow \/ Timer!Compare \/ Timer!Walk
         \/ Timer!Interrupt("compare") \/ Timer!Interrupt("overflow")
         \/ /\ UNCHANGED <<now, pending, handler, OCR2A, ticks, overflow, late>>
            /\ shadow' = FALSE
            /\ handler = "none" /\ (pending = {} \/ shadow \/ ~enabled)
            /\ \/ Timer!Add \/ Timer!Sei \/ Timer!AddAnalog \/ Timer!arch_cycles \/ Timer!Clear \/ Timer!ReadLow
               \/ Timer!ReadHigh \/ Timer!ReadValue \/ Timer!Test \/ Timer!CyclesReturn
BY DEF Timer!Next, Timer!Add, Timer!Sei, Timer!AddAnalog, Timer!arch_cycles, Timer!Clear, Timer!ReadLow,
   Timer!ReadHigh, Timer!ReadValue,
  Timer!Test, Timer!CyclesReturn, Timer!Instruction, Timer!counted, Timer!main, Timer!history

\* The register stays in step: a count reaches it just when a tick is over, and
\* the handler moves it on by a tick from where it is.
LEMMA RegisterKeeps ==
  ASSUME Timer!ConstantsOK, Types, Started, RegisterInStep, Timer!Next PROVE RegisterInStep'
<1> USE DEF Timer!hardware, Timer!counted, Timer!main, Timer!history
<1> DEFINE A == ARCH_TIMER_COUNT
<1>1. /\ Counts \in Nat \ {0} /\ A \in Nat /\ 1 <= A /\ A < Counts
      /\ Handled \in Nat /\ now \in Nat /\ OCR2A \in Nat
      /\ Handled * A \in Nat
      /\ (Handled + 1) * A = Handled * A + A /\ (Handled + 2) * A = Handled * A + A + A
  <2>1. /\ Counts \in Nat \ {0} /\ A \in Nat /\ 1 <= A /\ A < Counts
        /\ Handled \in Nat /\ now \in Nat /\ OCR2A \in Nat
    BY DEF Timer!ConstantsOK, Types, Handled
  <2>2. Handled * A \in Nat
    BY <2>1
  <2> HIDE DEF A
  <2>3. (Handled + 1) * A = Handled * A + A /\ (Handled + 2) * A = Handled * A + A + A
    BY <2>1
  <2> QED
    BY <2>1, <2>2, <2>3
<1>2. CASE Timer!Count
  <2> USE <1>2
  <2>1. /\ now' = now + 1 /\ ~late /\ pending' = pending \cup Timer!Raised
        /\ UNCHANGED <<handler, OCR2A, ticks>>
        /\ Handled' = Handled
    BY DEF Timer!Count, Handled
  <2>2. OCR2A' = ((Handled' + 1) * A) % Counts
    BY <2>1 DEF RegisterInStep
  <2>3. CASE Timer!CompareWaits
    <3> DEFINE d == now - (Handled + 1) * A
    <3>1. 0 <= d /\ d < A /\ d \in Int /\ (Handled + 1) * A \in Int
      <4> HIDE DEF A
      <4>1. (Handled + 1) * ARCH_TIMER_COUNT <= now /\ now < (Handled + 2) * ARCH_TIMER_COUNT
        BY <2>1, <2>3 DEF RegisterInStep
      <4> QED
        BY <1>1, <4>1 DEF A
    <3>2. Timer!Elapsed = d
      <4> HIDE DEF A
      <4>1. /\ (Handled + 1) * A \in Int /\ 0 <= now - (Handled + 1) * A
            /\ now - (Handled + 1) * A < Counts /\ now \in Int
        BY <1>1, <3>1
      <4>2. (now - (((Handled + 1) * A) % Counts)) % Counts = now - (Handled + 1) * A
        <5> DEFINE y == (Handled + 1) * A
        <5>1. y \in Int /\ 0 <= now - y /\ now - y < Counts /\ now \in Int
          BY <4>1
        <5> HIDE DEF y
        <5>2. (now - (y % Counts)) % Counts = now - y
          BY <1>1, <5>1, SameRest
        <5> QED
          BY <5>2 DEF y
      <4> QED
        BY <4>2, <2>2, <2>1 DEF Timer!Elapsed, A
    <3>3. d + 1 < A => "compare" \notin Timer!Raised
      <4> SUFFICES ASSUME d + 1 < A PROVE (now + 1) % Counts # OCR2A
        BY DEF Timer!Raised
      <4> HIDE DEF A
      <4>1. /\ (Handled + 1) * A \in Int /\ 0 <= (now + 1) - (Handled + 1) * A
            /\ (now + 1) - (Handled + 1) * A < Counts /\ now + 1 \in Int
            /\ now + 1 # (Handled + 1) * A
        BY <1>1, <3>1
      <4>2. (now + 1) % Counts # ((Handled + 1) * A) % Counts
        BY <1>1, <4>1, SameRest
      <4> QED
        BY <4>2, <2>2, <2>1
    <3>4. d + 1 = A => late'
      BY <3>2, <2>3 DEF Timer!Count
    <3>5. CASE d + 1 < A
      <4>1. Timer!CompareWaits' /\ ("compare" \in pending' <=> "compare" \in pending)
        BY <2>1, <2>3, <3>3, <3>5 DEF Timer!CompareWaits
      <4>2. /\ (Handled' + 1) * A <= now' /\ now' < (Handled' + 2) * A
        <5> HIDE DEF A
        <5> QED
          BY <1>1, <2>1, <3>1, <3>5
      <4> QED
        BY <2>1, <2>2, <4>1, <4>2 DEF RegisterInStep
    <3>6. CASE d + 1 = A
      BY <2>2, <3>4, <3>6 DEF RegisterInStep
    <3> QED
      <4>1. d + 1 < A \/ d + 1 = A
        BY <1>1, <3>1
      <4> QED
        BY <3>5, <3>6, <4>1
  <2>4. CASE ~Timer!CompareWaits
    <3>1. Handled * A <= now /\ now < (Handled + 1) * A
      BY <2>1, <2>4 DEF RegisterInStep
    <3>2. (now + 1) % Counts = OCR2A <=> now + 1 = (Handled + 1) * A
      <4> HIDE DEF A
      <4>1. /\ (Handled + 1) * A \in Int /\ 0 <= (Handled + 1) * A - (now + 1)
            /\ (Handled + 1) * A - (now + 1) < Counts /\ now + 1 \in Int
        BY <1>1, <3>1
      <4>2. ((Handled + 1) * A) % Counts = (now + 1) % Counts <=> (Handled + 1) * A = now + 1
        BY <1>1, <4>1, SameRest
      <4> QED
        BY <4>2, <2>2, <2>1
    <3>3. "compare" \in pending' <=> now + 1 = (Handled + 1) * A
      BY <2>1, <2>4, <3>2 DEF Timer!Raised, Timer!CompareWaits
    <3>4. Timer!CompareWaits' <=> now + 1 = (Handled + 1) * A
      BY <2>1, <2>4, <3>3 DEF Timer!CompareWaits
    <3>5. handler' # "compare"
      BY <2>1, <2>4 DEF Timer!CompareWaits
    <3>6. CASE now + 1 = (Handled + 1) * A
      <4>1. (Handled' + 1) * A <= now' /\ now' < (Handled' + 2) * A
        <5> HIDE DEF A
        <5> QED
          BY <1>1, <2>1, <3>6
      <4> QED
        BY <2>2, <3>4, <3>5, <3>6, <4>1 DEF RegisterInStep
    <3>7. CASE now + 1 # (Handled + 1) * A
      <4>1. Handled' * A <= now' /\ now' < (Handled' + 1) * A
        <5> HIDE DEF A
        <5> QED
          BY <1>1, <2>1, <3>1, <3>7
      <4> QED
        BY <2>2, <3>4, <3>5, <3>7, <4>1 DEF RegisterInStep
    <3> QED
      BY <3>6, <3>7
  <2> QED
    BY <2>3, <2>4
<1>3. CASE Timer!Compare
  <2>1. /\ handler = "compare" /\ handler' = "walk" /\ OCR2A' = Timer!NextCompare
        /\ UNCHANGED <<now, pending, ticks, late>>
        /\ Handled' = Handled + 1
    BY <1>1, <1>3 DEF Timer!Compare, Handled, Types
  <2>2. OCR2A' = ((Handled' + 1) * A) % Counts
    <3> HIDE DEF A
    <3>1. ((((Handled + 1) * A) % Counts) + A) % Counts = ((Handled + 1) * A + A) % Counts
      <4>1. (Handled + 1) * A \in Int /\ A \in Int
        BY <1>1
      <4> QED
        BY <1>1, <4>1, SumOfRests
    <3>2. (Handled + 1) * A + A = (Handled' + 1) * A
      BY <1>1, <2>1
    <3>3. OCR2A' = (OCR2A + A) % Counts /\ OCR2A = ((Handled + 1) * A) % Counts
      BY <2>1 DEF Timer!NextCompare, RegisterInStep, A
    <3> QED
      BY <3>1, <3>2, <3>3
  <2>3. ~late => ~Timer!CompareWaits'
    BY <2>1 DEF RegisterInStep, Timer!CompareWaits
  <2>4. ~late => Handled' * A <= now' /\ now' < (Handled' + 1) * A
    <3>1. ~late => (Handled + 1) * A <= now /\ now < (Handled + 2) * A
      BY <2>1 DEF RegisterInStep, Timer!CompareWaits
    <3> HIDE DEF A
    <3> QED
      BY <1>1, <2>1, <3>1
  <2> QED
    BY <2>1, <2>2, <2>3, <2>4 DEF RegisterInStep
<1>4. CASE Timer!Walk
  <2>1. handlers # <<>>
    BY <1>4 DEF Timer!Walk, Started
  <2>2. /\ handler = "walk" /\ handler' = "return" /\ ticks' = ticks + 1
        /\ UNCHANGED <<now, pending, OCR2A, late>>
    BY <1>4, <2>1 DEF Timer!Walk
  <2>3. Handled' = Handled /\ Timer!CompareWaits' = Timer!CompareWaits
    BY <2>2 DEF Handled, Timer!CompareWaits, Types
  <2> QED
    BY <2>2, <2>3 DEF RegisterInStep
<1>5. CASE Timer!Interrupt("compare")
  <2>1. /\ handler = "none" /\ handler' = "compare" /\ "compare" \in pending
        /\ pending' = pending \ {"compare"} /\ UNCHANGED <<now, OCR2A, ticks, late>>
    BY <1>5 DEF Timer!Interrupt
  <2>2. Handled' = Handled /\ Timer!CompareWaits' /\ Timer!CompareWaits /\ "compare" \notin pending'
    BY <2>1 DEF Handled, Timer!CompareWaits
  <2> QED
    BY <2>1, <2>2 DEF RegisterInStep
<1>6. CASE Timer!Interrupt("overflow") \/ Timer!OtherInterrupt \/ Timer!Return \/ Timer!Overflow
  <2>1. /\ UNCHANGED <<now, OCR2A, ticks, late>>
        /\ handler \notin {"compare", "walk"} /\ handler' \notin {"compare", "walk"}
        /\ "compare" \in pending' <=> "compare" \in pending
    BY <1>6 DEF Timer!Interrupt, Timer!OtherInterrupt, Timer!Return, Timer!Overflow
  <2>2. Handled' = Handled /\ (Timer!CompareWaits' <=> Timer!CompareWaits)
    BY <2>1 DEF Handled, Timer!CompareWaits
  <2> QED
    BY <2>1, <2>2 DEF RegisterInStep
<1>7. CASE UNCHANGED <<now, pending, handler, OCR2A, ticks, overflow, late>>
  <2>1. Handled' = Handled /\ (Timer!CompareWaits' <=> Timer!CompareWaits)
    BY <1>7 DEF Handled, Timer!CompareWaits
  <2> QED
    BY <1>7, <2>1 DEF RegisterInStep
<1> QED
  BY <1>2, <1>3, <1>4, <1>5, <1>6, <1>7, MainSteps

\* No overflow is lost.
LEMMA OverflowsKeep ==
  ASSUME Timer!ConstantsOK, Types, OverflowsCounted, Timer!Next PROVE OverflowsCounted'
<1> USE DEF Timer!hardware, Timer!counted, Timer!main, Timer!history
<1>1. CASE Timer!Count
  <2>1. /\ now' = now + 1 /\ ~late /\ pending' = pending \cup Timer!Raised
        /\ UNCHANGED <<handler, overflow>>
    BY <1>1 DEF Timer!Count
  <2>2. "overflow" \in Timer!Raised <=> (now + 1) % Counts = 0
    BY DEF Timer!Raised
  <2>3. /\ (now + 1) % Counts = 0 => (now + 1) \div Counts = now \div Counts + 1
        /\ (now + 1) % Counts # 0 => (now + 1) \div Counts = now \div Counts
    <3>1. Counts \in Nat \ {0} /\ now \in Int
      BY DEF Timer!ConstantsOK, Types
    <3> QED
      BY <3>1, NextQuotient
  <2>4. "overflow" \in Timer!Raised /\ "overflow" \in pending => late'
    BY <1>1 DEF Timer!Count
  <2>5. overflow \in Int
    BY DEF Types
  <2>6. CASE "overflow" \in Timer!Raised
    BY <2>1, <2>2, <2>3, <2>4, <2>5, <2>6 DEF OverflowsCounted
  <2>7. CASE "overflow" \notin Timer!Raised
    BY <2>1, <2>2, <2>3, <2>5, <2>7 DEF OverflowsCounted
  <2> QED
    BY <2>6, <2>7
<1>2. CASE Timer!Interrupt("overflow")
  BY <1>2 DEF Timer!Interrupt, OverflowsCounted, Types
<1>3. CASE Timer!Interrupt("compare")
  BY <1>3 DEF Timer!Interrupt, OverflowsCounted, Types
<1>4. CASE Timer!Overflow
  BY <1>4 DEF Timer!Overflow, OverflowsCounted, Types
<1>5. CASE Timer!OtherInterrupt \/ Timer!Return \/ Timer!Compare \/ Timer!Walk
  BY <1>5 DEF Timer!OtherInterrupt, Timer!Return, Timer!Compare, Timer!Walk, OverflowsCounted, Types
<1>6. CASE UNCHANGED <<now, pending, handler, OCR2A, ticks, overflow, late>>
  BY <1>6 DEF OverflowsCounted
<1> QED
  BY <1>1, <1>2, <1>3, <1>4, <1>5, <1>6, MainSteps

\* A moment of the call stays one while time passes.
LEMMA MomentsStay ==
  ASSUME NEW t \in Int, now \in Nat, now' \in Nat, now <= now', begun' = begun,
         begun \in Nat, Timer!Moment(t)
  PROVE  Timer!Moment(t)'
BY DEF Timer!Moment

\* What a turn has read stays what it was, until an overflow is counted.
LEMMA ReadsKeep ==
  ASSUME Timer!ConstantsOK, Types, Started, OverflowsCounted, ReadInStep, Timer!Next PROVE ReadInStep'
<1> USE DEF Timer!hardware, Timer!counted, Timer!main, Timer!history, InCall
<1> DEFINE X == overflow * Counts + read.value
           Y == (overflow + 1) * Counts + read.value
<1>1. /\ Counts \in Nat \ {0} /\ now \in Nat /\ begun \in Nat /\ overflow \in Nat
      /\ read \in [low : Nat, high : Nat, value : Nat]
      /\ X \in Int /\ Y \in Int
  BY DEF Timer!ConstantsOK, Types
<1>2. CASE \/ Timer!Count \/ Timer!Interrupt("compare") \/ Timer!Interrupt("overflow")
           \/ Timer!OtherInterrupt \/ Timer!Return \/ Timer!Compare \/ Timer!Walk
  <2>1. /\ UNCHANGED <<pc, read, begun, overflow, check>>
        /\ now' \in Nat /\ now <= now' /\ (~late' => ~late)
    <3>1. CASE Timer!Count
      BY <1>1, <3>1 DEF Timer!Count, Types
    <3>2. CASE Timer!Interrupt("compare") \/ Timer!Interrupt("overflow") \/ Timer!OtherInterrupt
      BY <1>1, <3>2 DEF Timer!Interrupt, Timer!OtherInterrupt
    <3>3. CASE Timer!Return \/ Timer!Compare \/ Timer!Walk
      BY <1>1, <3>3 DEF Timer!Return, Timer!Compare, Timer!Walk
    <3> QED
      BY <1>2, <3>1, <3>2, <3>3
  <2>2. Unseen => Unseen'
    <3>1. CASE Timer!Count
      BY <3>1 DEF Timer!Count, Unseen
    <3>2. CASE Timer!Interrupt("compare")
      <4> SUFFICES ASSUME Unseen PROVE Unseen'
        OBVIOUS
      <4>1. handler = "none" /\ "overflow" \in pending
        BY <3>2 DEF Timer!Interrupt, Unseen
      <4>2. pending = {"compare", "overflow"}
        BY <3>2, <4>1 DEF Timer!Interrupt, Types
      <4> QED
        BY <3>2, <4>1, <4>2 DEF Timer!Interrupt, Unseen
    <3>3. CASE Timer!Interrupt("overflow")
      BY <3>3 DEF Timer!Interrupt, Unseen
    <3>4. CASE Timer!OtherInterrupt
      BY <3>4 DEF Timer!OtherInterrupt, Unseen
    <3>5. CASE Timer!Return \/ Timer!Compare \/ Timer!Walk
      BY <3>5 DEF Timer!Return, Timer!Compare, Timer!Walk, Unseen
    <3> QED
      BY <1>2, <3>1, <3>2, <3>3, <3>4, <3>5
  <2>3. X' = X /\ Y' = Y
    BY <2>1
  <2>4. (Timer!Moment(X) => Timer!Moment(X)') /\ (Timer!Moment(Y) => Timer!Moment(Y)')
    <3>1. \A t \in Int : Timer!Moment(t) => begun <= t /\ t <= now'
      BY <1>1, <2>1 DEF Timer!Moment
    <3> QED
      BY <1>1, <2>1, <2>3, <3>1 DEF Timer!Moment
  <2>5. pc' = "test" /\ ~check' /\ ~late' => Timer!Moment(X)' \/ (Unseen' /\ Timer!Moment(Y)')
    BY <2>1, <2>2, <2>4 DEF ReadInStep
  <2>6. pc' \in InCall => begun' <= now'
    BY <1>1, <2>1 DEF ReadInStep
  <2> QED
    BY <2>1, <2>5, <2>6 DEF ReadInStep
<1>3. CASE Timer!Overflow
  <2>1. check' = TRUE /\ UNCHANGED <<pc, begun, now>>
    BY <1>3 DEF Timer!Overflow
  <2> QED
    BY <2>1 DEF ReadInStep
<1>4. CASE Timer!Add \/ Timer!Sei \/ Timer!AddAnalog \/ Timer!CyclesReturn
  <2>1. pc' \notin InCall
    BY <1>4 DEF Timer!Add, Timer!Sei, Timer!AddAnalog, Timer!CyclesReturn
  <2> QED
    BY <2>1 DEF ReadInStep
<1>5. CASE Timer!arch_cycles \/ Timer!Clear \/ Timer!Test
  <2>1. pc' \in {"clear", "low", "done"} /\ begun' <= now'
    BY <1>1, <1>5 DEF Timer!arch_cycles, Timer!Clear, Timer!Test, Timer!Instruction, ReadInStep
  <2> QED
    BY <2>1 DEF ReadInStep
<1>6. CASE Timer!ReadLow
  <2>1. /\ pc = "low" /\ pc' = "high" /\ UNCHANGED <<overflow, begun, now>>
        /\ read'.low = overflow % DigitSize
    BY <1>1, <1>6 DEF Timer!ReadLow, Timer!Instruction
  <2> QED
    BY <2>1 DEF ReadInStep
<1>7. CASE Timer!ReadHigh
  <2>1. /\ pc = "high" /\ pc' = "value" /\ UNCHANGED <<overflow, begun, now, check>>
        /\ read'.low = read.low /\ read'.high = overflow \div DigitSize
    BY <1>1, <1>7 DEF Timer!ReadHigh, Timer!Instruction
  <2> QED
    BY <2>1 DEF ReadInStep
<1>8. CASE Timer!ReadValue
  <2>1. /\ pc = "value" /\ pc' = "test" /\ shadow' = FALSE
        /\ UNCHANGED <<overflow, begun, now, check, handler, pending, late, overtaken>>
        /\ read'.low = read.low /\ read'.high = read.high /\ read'.value = now % Counts
        /\ handler = "none"
    BY <1>1, <1>8 DEF Timer!ReadValue, Timer!Instruction, Timer!TCNT2
  <2>2. /\ now = Counts * (now \div Counts) + (now % Counts)
        /\ now \div Counts \in Int /\ now % Counts \in Int /\ begun <= now
    <3>1. begun <= now
      BY <2>1 DEF ReadInStep
    <3> QED
      BY <1>1, <3>1, Division
  <2>3. CASE "overflow" \notin pending
    <3>1. ~late => overflow = now \div Counts
      BY <1>1, <2>1, <2>3 DEF OverflowsCounted
    <3>2. ~late => X' = now
      BY <1>1, <2>1, <2>2, <3>1
    <3>3. ~late' => Timer!Moment(X)'
      BY <1>1, <2>1, <2>2, <3>2 DEF Timer!Moment
    <3> QED
      BY <2>1, <2>2, <3>3 DEF ReadInStep
  <2>4. CASE "overflow" \in pending
    <3>1. ~late => overflow + 1 = now \div Counts
      BY <1>1, <2>1, <2>4 DEF OverflowsCounted
    <3>2. ~late => Y' = now
      BY <1>1, <2>1, <2>2, <3>1
    <3>3. ~late' => Timer!Moment(Y)'
      BY <1>1, <2>1, <2>2, <3>2 DEF Timer!Moment
    <3>4. Unseen'
      BY <2>1, <2>4 DEF Unseen
    <3> QED
      BY <2>1, <2>2, <3>3, <3>4 DEF ReadInStep
  <2> QED
    BY <2>3, <2>4
<1> QED
  BY <1>2, <1>3, <1>4, <1>5, <1>6, <1>7, <1>8, MainSteps

\* The test lets nothing pass but what was the time, or one overflow behind it if
\* the compare interrupt was taken first.
LEMMA CyclesKeep ==
  ASSUME Timer!ConstantsOK, Types, Started, ReadInStep, Timer!CyclesInCall, Timer!Next PROVE Timer!CyclesInCall'
<1> USE DEF Timer!hardware, Timer!counted, Timer!main, Timer!history, InCall
<1>1. /\ Counts \in Nat \ {0} /\ DigitSize \in Nat \ {0} /\ now \in Nat /\ begun \in Nat
      /\ overflow \in Nat /\ read \in [low : Nat, high : Nat, value : Nat]
  BY DEF Timer!ConstantsOK, Types
<1>2. CASE Timer!Test
  <2> SUFFICES ASSUME pc' = "done", ~late'
               PROVE  Timer!Moment(Timer!Cycles)' \/ (overtaken' /\ Timer!Moment(Timer!Cycles + Counts)')
    BY DEF Timer!CyclesInCall
  <2>1. /\ pc = "test" /\ ~check /\ handler = "none" /\ (pending = {} \/ shadow)
        /\ UNCHANGED <<now, begun, read, overflow, late, overtaken>>
    BY <1>2 DEF Timer!Test, Timer!Repeated, Timer!Instruction, Started
  <2>2. /\ Timer!Cycles' = overflow * Counts + read.value
        /\ Timer!Cycles' + Counts = (overflow + 1) * Counts + read.value
    <3>1. /\ read.low = overflow % DigitSize /\ read.high = overflow \div DigitSize
          /\ read'.low = read.low /\ read'.high = read.high /\ read'.value = read.value
      BY <2>1 DEF ReadInStep
    <3>2. DigitSize * (overflow \div DigitSize) + (overflow % DigitSize) = overflow
      BY <1>1, Division
    <3>3. read.high * DigitSize + read.low = overflow
      BY <1>1, <3>1, <3>2
    <3>4. Timer!Cycles' = overflow * Counts + read.value
      BY <3>1, <3>3 DEF Timer!Cycles
    <3>5. overflow * Counts + read.value + Counts = (overflow + 1) * Counts + read.value
      BY <1>1
    <3> QED
      BY <3>4, <3>5
  <2>3. CASE Timer!Moment(overflow * Counts + read.value)
    BY <2>1, <2>2, <2>3 DEF Timer!Moment
  <2>4. CASE Unseen /\ Timer!Moment((overflow + 1) * Counts + read.value)
    <3>1. overtaken
      BY <2>1, <2>4 DEF Unseen
    <3> QED
      BY <2>1, <2>2, <2>4, <3>1 DEF Timer!Moment
  <2> QED
    BY <2>1, <2>3, <2>4 DEF ReadInStep
<1>3. CASE pc = "done" /\ pc' = "done"
  <2> SUFFICES ASSUME ~late'
               PROVE  Timer!Moment(Timer!Cycles)' \/ (overtaken' /\ Timer!Moment(Timer!Cycles + Counts)')
    BY DEF Timer!CyclesInCall
  <2>1. /\ UNCHANGED <<read, begun>> /\ now' \in Nat /\ now <= now'
        /\ ~late /\ (overtaken => overtaken')
    BY <1>1, <1>3 DEF Timer!Next, Timer!Count, Timer!Interrupt, Timer!OtherInterrupt, Timer!Return,
       Timer!Overflow, Timer!Compare,
      Timer!Walk, Timer!Add, Timer!Sei, Timer!AddAnalog, Timer!arch_cycles, Timer!Clear, Timer!ReadLow, Timer!ReadHigh, Timer!ReadValue, Timer!Test,
      Timer!CyclesReturn, Timer!Instruction, Types
  <2>2. Timer!Cycles \in Int /\ Timer!Cycles + Counts \in Int /\ Timer!Cycles' = Timer!Cycles
    BY <1>1, <2>1 DEF Timer!Cycles
  <2>3. \A t \in Int : Timer!Moment(t) => begun' <= t /\ t <= now'
    BY <1>1, <2>1 DEF Timer!Moment
  <2>4. Timer!Moment(Timer!Cycles) => Timer!Moment(Timer!Cycles)'
    BY <2>2, <2>3 DEF Timer!Moment
  <2>5. Timer!Moment(Timer!Cycles + Counts) => Timer!Moment(Timer!Cycles + Counts)'
    BY <2>2, <2>3 DEF Timer!Moment
  <2> QED
    BY <1>3, <2>1, <2>4, <2>5 DEF Timer!CyclesInCall
<1>4. ASSUME ~Timer!Test, pc # "done"
      PROVE  pc' # "done"
  BY <1>4 DEF Timer!Next, Timer!Count, Timer!Interrupt, Timer!OtherInterrupt, Timer!Return, Timer!Overflow,
     Timer!Compare,
    Timer!Walk, Timer!Add, Timer!Sei, Timer!AddAnalog, Timer!arch_cycles, Timer!Clear, Timer!ReadLow, Timer!ReadHigh, Timer!ReadValue,
    Timer!CyclesReturn, Timer!Instruction
<1> QED
  BY <1>2, <1>3, <1>4 DEF Timer!CyclesInCall

----------------------------------------------------------------------------
(* The theorems *)

\* os_boot has just started the timer.
LEMMA InitHolds == Timer!ConstantsOK /\ Timer!Init => TInv
<1> SUFFICES ASSUME Timer!ConstantsOK, Timer!Init PROVE TInv
  OBVIOUS
<1>1. Types /\ Started /\ ReadInStep /\ Timer!CyclesInCall
  <2>1. Types
    <3>1. Timer!NoRead \in [low : Nat, high : Nat, value : Nat]
      BY DEF Timer!NoRead
    <3>2. ARCH_TIMER_COUNT \in Nat
      BY DEF Timer!ConstantsOK
    <3> QED
      BY <3>1, <3>2 DEF Timer!Init, Types, InCall
  <2>2. Started
    BY DEF Timer!Init, Started
  <2>3. ReadInStep /\ Timer!CyclesInCall
    BY DEF Timer!Init, ReadInStep, Timer!CyclesInCall, InCall
  <2> QED
    BY <2>1, <2>2, <2>3
<1>2. OverflowsCounted
  <2>1. 0 \div Counts = 0
    BY QuotientBounds DEF Timer!ConstantsOK
  <2> QED
    BY <2>1 DEF Timer!Init, OverflowsCounted
<1>3. RegisterInStep
  <2>1. /\ ARCH_TIMER_COUNT = Counts * 0 + ARCH_TIMER_COUNT
        /\ Counts \in Nat \ {0} /\ ARCH_TIMER_COUNT \in 0 .. Counts - 1
        /\ ARCH_TIMER_COUNT > 0
    BY DEF Timer!ConstantsOK
  <2>2. ARCH_TIMER_COUNT % Counts = ARCH_TIMER_COUNT
    BY <2>1, OneQuotient
  <2>3. /\ (0 + 1) * ARCH_TIMER_COUNT = ARCH_TIMER_COUNT /\ 0 * ARCH_TIMER_COUNT = 0
    BY <2>1
  <2>4. Handled = 0 /\ ~Timer!CompareWaits
    BY DEF Timer!Init, Handled, Timer!CompareWaits
  <2> QED
    BY <2>1, <2>2, <2>3, <2>4 DEF Timer!Init, RegisterInStep
<1> QED
  BY <1>1, <1>2, <1>3 DEF TInv

\* Every step keeps the invariant.
LEMMA Inductive == Timer!ConstantsOK /\ TInv /\ [Timer!Next]_Timer!vars => TInv'
<1> SUFFICES ASSUME Timer!ConstantsOK, TInv, [Timer!Next]_Timer!vars PROVE TInv'
  OBVIOUS
<1>1. CASE Timer!Next
  BY <1>1, TypesKeep, StartedKeeps, RegisterKeeps, OverflowsKeep, ReadsKeep, CyclesKeep
    DEF TInv
<1>2. CASE UNCHANGED Timer!vars
  BY <1>2 DEF Timer!vars, Timer!hardware, Timer!counted, Timer!main, Timer!history, TInv, Types, Started,
     RegisterInStep,
    Handled, Timer!CompareWaits, OverflowsCounted, ReadInStep, Unseen, Timer!CyclesInCall, Timer!Cycles, Timer!Moment
<1> QED
  BY <1>1, <1>2

\* The invariant holds throughout.
LEMMA Throughout == ASSUME Timer!ConstantsOK PROVE Timer!Spec => []TInv
<1>1. Timer!Init => TInv
  BY InitHolds
<1>2. TInv /\ [Timer!Next]_Timer!vars => TInv'
  BY Inductive
<1> QED
  BY <1>1, <1>2, PTL DEF Timer!Spec

\* The ticks counted, with the one under way, are the periods passed since the
\* timer was started, as long as no interrupt is held off for a whole period:
\* whatever the length of a tick and wherever the counter wraps within it
\* (tick_timer.c:47-76, os.c:29-37).
THEOREM TicksAreTime == ASSUME Timer!ConstantsOK PROVE Timer!Spec => []Timer!TicksKeepTime
<1>1. TInv => Timer!TicksKeepTime
  <2> SUFFICES ASSUME TInv, ~late PROVE Timer!TicksKeepTime
    BY DEF Timer!TicksKeepTime
  <2>1. /\ ARCH_TIMER_COUNT \in Nat \ {0} /\ now \in Nat /\ Handled \in Nat /\ ticks \in Nat
    BY DEF Timer!ConstantsOK, TInv, Types, Handled
  <2>2. CASE Timer!CompareWaits
    <3>1. now \div ARCH_TIMER_COUNT = Handled + 1
      <4>1. /\ (Handled + 1) * ARCH_TIMER_COUNT <= now
            /\ now < (Handled + 2) * ARCH_TIMER_COUNT
            /\ Handled + 2 = (Handled + 1) + 1 /\ Handled + 1 \in Int
        BY <2>1, <2>2 DEF TInv, RegisterInStep
      <4> QED
        BY <2>1, <4>1, QuotientBounds
    <3> QED
      BY <2>1, <2>2, <3>1 DEF TInv, RegisterInStep, Timer!CompareWaits, Handled, Timer!TicksKeepTime
  <2>3. CASE ~Timer!CompareWaits
    <3>1. now \div ARCH_TIMER_COUNT = Handled
      BY <2>1, <2>3, QuotientBounds DEF TInv, RegisterInStep
    <3> QED
      BY <2>1, <2>3, <3>1 DEF TInv, RegisterInStep, Timer!CompareWaits, Handled, Timer!TicksKeepTime
  <2> QED
    BY <2>2, <2>3
<1> QED
  BY <1>1, Throughout, PTL

\* arch_cycles returns a time of its call, or one overflow less in the one case its
\* loop does not see, whatever interrupts it between the bytes and whatever their
\* width (tick_timer.c:54-59, 93-111).
THEOREM CyclesAreATime == ASSUME Timer!ConstantsOK PROVE Timer!Spec => []Timer!CyclesInCall
<1>1. TInv => Timer!CyclesInCall
  BY DEF TInv
<1> QED
  BY <1>1, Throughout, PTL

\* A behaviour of the run is one of the timer, which moves or stands still.
LEMMA RunsTheTimer == MCSpec => Timer!Spec
<1>1. MCInit => Timer!Init
  BY DEF MCInit
<1>2. [MCNext]_<<running, vars, shell, timer, front>> => [Timer!Next]_Timer!vars
  BY DEF MCNext, timer, Timer!vars, Timer!hardware, Timer!counted, Timer!main, Timer!history
<1> QED
  BY <1>1, <1>2, PTL DEF MCSpec, Timer!Spec

\* The ticks keep time with the counter in every behaviour of the run, whatever
\* its constants (tick_timer.c:47-76, os.c:29-37).
THEOREM RunKeepsTime == MCSpec => []TicksKeepTime
<1>1. Timer!Spec => []Timer!TicksKeepTime
  BY TicksAreTime, TimerAssumption
<1>2. Timer!TicksKeepTime => TicksKeepTime
  BY DEF TicksKeepTime
<1> QED
  BY <1>1, <1>2, RunsTheTimer, PTL

\* So does what arch_cycles returns (tick_timer.c:54-59, 93-111).
THEOREM RunReadsCycles == MCSpec => []CyclesInCall
<1>1. Timer!Spec => []Timer!CyclesInCall
  BY CyclesAreATime, TimerAssumption
<1>2. Timer!CyclesInCall => CyclesInCall
  BY DEF CyclesInCall
<1> QED
  BY <1>1, <1>2, RunsTheTimer, PTL

----------------------------------------------------------------------------
(* The analog front end beside it *)

Searching == command \in {"search", "record"}

FrontTypes ==
  /\ output \in [0 .. 3 -> Int]
  /\ response \in [{Analog!adc_table[c] : c \in Channel} -> 0 .. Analog!DacRange]
  /\ _dac_offset \in [Channel -> Int]
  /\ channel \in Channel
  /\ search \in [bit : 0 .. Bits, low : Nat, high : Nat, set : BOOLEAN, spoilt : BOOLEAN]

\* The channel is centred somewhere in the range that is left, which its bits still to search tell apart, and
\* the input has been set to the middle of it.
Narrows ==
  LET r == response[Analog!adc_table[channel]]
  IN  Searching /\ search.spoilt = FALSE =>
        /\ search.high = search.low + 2 ^ (Bits - search.bit) /\ search.high <= Analog!DacRange
        /\ search.low = 0 \/ search.low < r
        /\ r <= search.high
        /\ search.set = TRUE => output[Analog!dac_table[channel]] = Analog!Middle

\* A channel that is searched is loose from the first value on.
Loosened == Searching /\ (search.bit > 0 \/ search.set = TRUE) => channel \in loose

DacsHold == \A c \in Channel \ loose : output[Analog!dac_table[c]] = _dac_offset[c] % Analog!DacRange

FrontInv == FrontTypes /\ Narrows /\ Loosened /\ DacsHold

----------------------------------------------------------------------------
LEMMA Powers ==
  /\ Analog!DacRange \in Nat \ {0} /\ Analog!DacRange = 2 ^ Bits
  /\ 2 ^ 0 = 1
  /\ \A n \in 0 .. Bits : 2 ^ n \in Nat \ {0} /\ (n < Bits => 2 ^ (n + 1) = 2 * 2 ^ n)
BY FrontAssumption DEF Analog!ConstantsOK, Analog!DacRange

LEMMA Tables ==
  /\ \A c \in Channel : c \in 0 .. 3 /\ Analog!dac_table[c] = c
  /\ \A c \in Channel : Analog!Moves[Analog!adc_table[c]] = c
<1> SUFFICES ASSUME NEW c \in Channel
             PROVE  c \in 0 .. 3 /\ Analog!dac_table[c] = c /\ Analog!Moves[Analog!adc_table[c]] = c
  OBVIOUS
<1>1. c \in 0 .. 3
  BY FrontAssumption DEF Analog!ConstantsOK
<1>2. Analog!dac_table[c] = c
  BY <1>1 DEF Analog!dac_table
<1>3. c = 0 \/ c = 1 \/ c = 2 \/ c = 3
  BY <1>1
<1>4. Analog!Moves[Analog!adc_table[c]] = c
  <2>1. /\ Analog!adc_table[0] = 1 /\ Analog!adc_table[1] = 3 /\ Analog!adc_table[2] = 2 /\ Analog!adc_table[3] = 0
    BY DEF Analog!adc_table
  <2>2. Analog!Moves[1] = 0 /\ Analog!Moves[3] = 1 /\ Analog!Moves[2] = 2 /\ Analog!Moves[0] = 3
    BY DEF Analog!Moves
  <2> QED
    BY <1>3, <2>1, <2>2
<1> QED
  BY <1>1, <1>2, <1>4

LEMMA LeastOf ==
  ASSUME NEW S, S \subseteq 0 .. 3, S # {}
  PROVE  (CHOOSE c \in S : \A d \in S : c <= d) \in S
<1>1. \E c \in S : \A d \in S : c <= d
  <2>1. CASE 0 \in S
    BY <2>1
  <2>2. CASE 0 \notin S /\ 1 \in S
    BY <2>2
  <2>3. CASE 0 \notin S /\ 1 \notin S /\ 2 \in S
    BY <2>3
  <2>4. CASE 0 \notin S /\ 1 \notin S /\ 2 \notin S
    <3>1. \A d \in S : d = 3
      BY <2>4
    <3>2. PICK c \in S : TRUE
      OBVIOUS
    <3>3. \A d \in S : c <= d
      BY <3>1, <3>2
    <3> QED
      BY <3>2, <3>3
  <2> QED
    BY <2>1, <2>2, <2>3, <2>4
<1> QED
  BY <1>1

LEMMA Firsts ==
  /\ Analog!First \in Channel
  /\ \A c \in Channel :
       Analog!Following(c) # {} =>
         (CHOOSE d \in Analog!Following(c) : \A e \in Analog!Following(c) : d <= e) \in Channel
<1>1. Channel \subseteq 0 .. 3 /\ Channel # {}
  BY FrontAssumption DEF Analog!ConstantsOK
<1>2. Analog!First \in Channel
  BY <1>1, LeastOf DEF Analog!First
<1>3. ASSUME NEW c \in Channel, Analog!Following(c) # {}
      PROVE  (CHOOSE d \in Analog!Following(c) : \A e \in Analog!Following(c) : d <= e) \in Channel
  <2>1. Analog!Following(c) \subseteq Channel
    BY DEF Analog!Following
  <2>2. (CHOOSE d \in Analog!Following(c) : \A e \in Analog!Following(c) : d <= e) \in Analog!Following(c)
    BY <1>1, <1>3, <2>1, LeastOf
  <2> QED
    BY <2>1, <2>2
<1> QED
  BY <1>2, <1>3

\* The middle halves the range, and is a value of the DAC.
LEMMA MiddleHalves ==
  ASSUME FrontTypes, Narrows, Searching, search.spoilt = FALSE, ~ Analog!Searched
  PROVE  /\ Analog!Middle \in 0 .. Analog!DacRange - 1
         /\ Analog!Middle = search.low + 2 ^ (Bits - (search.bit + 1))
         /\ search.high = Analog!Middle + 2 ^ (Bits - (search.bit + 1))
<1> DEFINE n == Bits - (search.bit + 1)
<1>1. /\ search.bit \in 0 .. Bits /\ search.bit # Bits /\ Bits \in Nat
      /\ search.low \in Nat /\ search.high \in Nat
  BY FrontAssumption DEF FrontTypes, Analog!Searched, Analog!ConstantsOK
<1>2. n \in 0 .. Bits /\ n < Bits /\ Bits - search.bit = n + 1
  BY <1>1
<1> HIDE DEF n
<1>3. 2 ^ n \in Nat \ {0} /\ 2 ^ (n + 1) = 2 * 2 ^ n
  BY <1>2, Powers
<1> DEFINE w == 2 ^ n
<1>4. search.high = search.low + 2 * w /\ search.high <= Analog!DacRange
  BY <1>2, <1>3 DEF Narrows
<1>5. w \in Nat \ {0}
  BY <1>3
<1> HIDE DEF w
<1>6. (search.high + search.low) \div 2 = search.low + w
  BY <1>1, <1>4, <1>5
<1>7. Analog!Middle = search.low + w
  BY <1>6 DEF Analog!Middle
<1>8. Analog!Middle \in 0 .. Analog!DacRange - 1 /\ search.high = Analog!Middle + w
  BY <1>1, <1>4, <1>5, <1>7, Powers
<1> QED
  BY <1>7, <1>8 DEF w, n

\* What a finished search has found.
LEMMA FoundIsCentre ==
  ASSUME FrontTypes, Narrows, Searching, Analog!Searched, search.spoilt = FALSE
  PROVE  search.low = Analog!Centre(channel)
<1> DEFINE r == response[Analog!adc_table[channel]]
<1>1. search.low \in Nat /\ r \in 0 .. Analog!DacRange /\ Bits \in Nat /\ Analog!DacRange \in Nat
  BY FrontAssumption, Powers DEF FrontTypes, Analog!ConstantsOK
<1>2. Bits - search.bit = 0
  BY <1>1 DEF Analog!Searched
<1>3. search.high = search.low + 1
  BY <1>2, Powers DEF Narrows
<1>4. (search.low = 0 \/ search.low < r) /\ r <= search.low + 1
  BY <1>3 DEF Narrows
<1> QED
  BY <1>1, <1>4 DEF Analog!Centre

----------------------------------------------------------------------------
LEMMA InitFront == Analog!Init => FrontInv
<1> SUFFICES ASSUME Analog!Init PROVE FrontInv
  OBVIOUS
<1>1. FrontTypes
  BY Firsts, Powers, FrontAssumption DEF Analog!Init, FrontTypes, Analog!NoSearch, Analog!ConstantsOK
<1>2. Narrows /\ Loosened
  BY DEF Analog!Init, Narrows, Loosened, Searching
<1>3. DacsHold
  <2>1. 0 % Analog!DacRange = 0
    BY Powers
  <2> QED
    BY <2>1, Tables DEF Analog!Init, DacsHold
<1> QED
  BY <1>1, <1>2, <1>3 DEF FrontInv

\* Where no search begins or goes on there is nothing to narrow.
LEMMA NewSearch ==
  ASSUME NEW c \in Channel, search' = Analog!NoSearch, channel' = c, FrontTypes, UNCHANGED response
  PROVE  /\ channel' \in Channel
         /\ search' \in [bit : 0 .. Bits, low : Nat, high : Nat, set : BOOLEAN, spoilt : BOOLEAN]
         /\ Narrows' /\ Loosened'
<1>1. search' = [bit |-> 0, low |-> 0, high |-> Analog!DacRange, set |-> FALSE, spoilt |-> FALSE]
  BY DEF Analog!NoSearch
<1>2. search'.bit = 0 /\ search'.low = 0 /\ search'.high = Analog!DacRange /\ search'.set = FALSE
  BY <1>1
<1>3. Bits \in Nat /\ Bits - 0 = Bits /\ Analog!DacRange \in Nat /\ Analog!DacRange = 2 ^ Bits
  BY FrontAssumption, Powers DEF Analog!ConstantsOK
<1>4. search' \in [bit : 0 .. Bits, low : Nat, high : Nat, set : BOOLEAN, spoilt : BOOLEAN]
  BY <1>1, <1>3
<1>5. response'[Analog!adc_table[channel']] \in 0 .. Analog!DacRange
  BY DEF FrontTypes
<1>6. Narrows'
  <2>1. search'.high = search'.low + 2 ^ (Bits - search'.bit) /\ search'.high <= Analog!DacRange
    BY <1>2, <1>3
  <2>2. response'[Analog!adc_table[channel']] <= search'.high
    BY <1>2, <1>3, <1>5
  <2> QED
    BY <1>2, <2>1, <2>2 DEF Narrows
<1>7. Loosened'
  BY <1>2 DEF Loosened
<1> QED
  BY <1>4, <1>6, <1>7

LEMMA DoneIsNew ==
  ASSUME FrontTypes, Analog!Done \/ Analog!NextChannel
  PROVE  \E c \in Channel : search' = Analog!NoSearch /\ channel' = c
BY Firsts DEF Analog!Done, Analog!NextChannel, FrontTypes

\* The search and its channel stay as they are.
LEMMA SameSearch ==
  ASSUME FrontInv, UNCHANGED <<search, channel, response, command>>, loose \subseteq loose',
         Searching /\ search.set = TRUE => output'[Analog!dac_table[channel]] = output[Analog!dac_table[channel]]
  PROVE  Narrows' /\ Loosened'
<1>1. Searching' <=> Searching
  BY DEF Searching
<1>2. Analog!Middle' = Analog!Middle
  BY DEF Analog!Middle
<1>3. Narrows'
  BY <1>1, <1>2 DEF FrontInv, Narrows
<1>4. Loosened'
  BY <1>1 DEF FrontInv, Loosened
<1> QED
  BY <1>3, <1>4

----------------------------------------------------------------------------
\* The steps that write no DAC and keep no offset.
LEMMA QuietKeeps ==
  ASSUME FrontInv, UNCHANGED <<output, response, _dac_offset>>, loose \subseteq loose',
         (\E c \in Channel : search' = Analog!NoSearch /\ channel' = c) \/ UNCHANGED <<search, channel, command>>
  PROVE  FrontInv'
<1>1. DacsHold'
  BY DEF FrontInv, DacsHold
<1>2. CASE \E c \in Channel : search' = Analog!NoSearch /\ channel' = c
  <2>1. PICK c \in Channel : search' = Analog!NoSearch /\ channel' = c
    BY <1>2
  <2>2. /\ channel' \in Channel
        /\ search' \in [bit : 0 .. Bits, low : Nat, high : Nat, set : BOOLEAN, spoilt : BOOLEAN]
        /\ Narrows' /\ Loosened'
    BY <2>1, NewSearch DEF FrontInv
  <2> QED
    BY <1>1, <2>2 DEF FrontInv, FrontTypes
<1>3. CASE UNCHANGED <<search, channel, command>>
  <2>1. Narrows' /\ Loosened'
    BY <1>3, SameSearch
  <2> QED
    BY <1>1, <1>3, <2>1 DEF FrontInv, FrontTypes
<1> QED
  BY <1>2, <1>3

\* The first loop of every command, and a command that fails.
LEMMA BeginKeeps ==
  ASSUME FrontInv, NEW name, Analog!Begin(name), UNCHANGED <<Analog!chips, Analog!memory, loose>>
  PROVE  FrontInv'
BY QuietKeeps, Firsts DEF Analog!Begin, Analog!chips, Analog!memory

LEMMA FailsKeeps ==
  ASSUME FrontInv, Analog!Fails, loose \subseteq loose'
  PROVE  FrontInv'
<1>1. \E c \in Channel : search' = Analog!NoSearch /\ channel' = c
  BY DoneIsNew DEF Analog!Fails, FrontInv
<1> QED
  BY <1>1, QuietKeeps DEF Analog!Fails, Analog!chips, Analog!memory

LEMMA LateKeeps ==
  ASSUME FrontInv, Analog!Late
  PROVE  FrontInv'
<1>1. /\ search' = [search EXCEPT !.spoilt = TRUE]
      /\ UNCHANGED <<response, _dac_offset, command, channel>>
  BY DEF Analog!Late, Analog!memory
<1>2. /\ search' \in [bit : 0 .. Bits, low : Nat, high : Nat, set : BOOLEAN, spoilt : BOOLEAN]
      /\ search'.spoilt = TRUE /\ search'.bit = search.bit /\ search'.set = search.set
  BY <1>1 DEF FrontInv, FrontTypes
<1>3. Narrows'
  BY <1>2 DEF Narrows
<1>4. CASE UNCHANGED <<output, loose>>
  BY <1>1, <1>2, <1>3, <1>4 DEF FrontInv, FrontTypes, Loosened, Searching, DacsHold
<1>5. CASE \E c \in Channel, value \in 0 .. Analog!DacRange - 1 :
             output' = [output EXCEPT ![Analog!dac_table[c]] = value] /\ loose' = loose \cup {c}
  <2>1. PICK c \in Channel, value \in 0 .. Analog!DacRange - 1 :
             output' = [output EXCEPT ![Analog!dac_table[c]] = value] /\ loose' = loose \cup {c}
    BY <1>5
  <2>2. value \in Int /\ output \in [0 .. 3 -> Int]
    BY Powers DEF FrontInv, FrontTypes
  <2>3. output' = [output EXCEPT ![c] = value] /\ c \in 0 .. 3
    BY <2>1, Tables
  <2>4. DacsHold'
    BY <1>1, <2>1, <2>2, <2>3, Tables DEF FrontInv, DacsHold
  <2>5. output' \in [0 .. 3 -> Int]
    BY <2>2, <2>3
  <2> QED
    BY <1>1, <1>2, <1>3, <2>1, <2>4, <2>5 DEF FrontInv, FrontTypes, Loosened, Searching
<1> QED
  BY <1>4, <1>5 DEF Analog!Late

\* A command writes the DAC of its channel.
LEMMA WriteKeepsOthers ==
  ASSUME FrontInv, NEW value \in Int, Analog!dac_write(channel, value)
  PROVE  /\ output' \in [0 .. 3 -> Int] /\ output'[Analog!dac_table[channel]] = value % Analog!DacRange
         /\ \A c \in Channel : c # channel => output'[Analog!dac_table[c]] = output[Analog!dac_table[c]]
<1>1. channel \in Channel /\ output \in [0 .. 3 -> Int]
  BY DEF FrontInv, FrontTypes
<1>2. channel \in 0 .. 3 /\ output' = [output EXCEPT ![channel] = value % Analog!DacRange]
  BY <1>1, Tables DEF Analog!dac_write
<1>3. value % Analog!DacRange \in Int
  BY Powers
<1> QED
  BY <1>1, <1>2, <1>3, Tables

LEMMA DacKeeps ==
  ASSUME FrontInv, Analog!DacCommand
  PROVE  FrontInv'
<1>1. PICK set \in {{c} : c \in Channel} \cup {Channel} :
          /\ loose' = loose \cup set
          /\ \/ /\ \E value \in Level :
                      output' = [d \in 0 .. 3 |-> IF \E c \in set : d = Analog!dac_table[c]
                                                  THEN value % Analog!DacRange ELSE output[d]]
                /\ Analog!Done
                /\ UNCHANGED <<gain, response, Analog!memory, queued, commands, hangs>>
             \/ Analog!Fails
  BY DEF Analog!DacCommand
<1>2. CASE Analog!Fails
  BY <1>1, <1>2, FailsKeeps
<1>3. ASSUME NEW value \in Level, Analog!Done, UNCHANGED <<response, Analog!memory>>,
             output' = [d \in 0 .. 3 |->
                           IF \E c \in set : d = Analog!dac_table[c] THEN value % Analog!DacRange ELSE output[d]]
      PROVE  FrontInv'
  <2>1. value % Analog!DacRange \in Int
    BY Powers, FrontAssumption DEF Analog!ConstantsOK
  <2>2. output' \in [0 .. 3 -> Int]
    BY <1>3, <2>1 DEF FrontInv, FrontTypes
  <2>3. set \subseteq Channel
    BY <1>1
  <2>4. ASSUME NEW c \in Channel, c \notin set
        PROVE  output'[Analog!dac_table[c]] = output[Analog!dac_table[c]]
    <3>1. c \in 0 .. 3 /\ ~ \E d \in set : c = Analog!dac_table[d]
      BY <2>3, <2>4, Tables
    <3> QED
      BY <1>3, <3>1, Tables
  <2>5. DacsHold'
    BY <1>1, <1>3, <2>4 DEF FrontInv, DacsHold, Analog!memory
  <2>6. PICK c \in Channel : search' = Analog!NoSearch /\ channel' = c
    BY <1>3, DoneIsNew DEF FrontInv
  <2>7. /\ channel' \in Channel
        /\ search' \in [bit : 0 .. Bits, low : Nat, high : Nat, set : BOOLEAN, spoilt : BOOLEAN]
        /\ Narrows' /\ Loosened'
    BY <1>3, <2>6, NewSearch DEF FrontInv
  <2> QED
    BY <1>3, <2>2, <2>5, <2>7 DEF FrontInv, FrontTypes, Analog!memory
<1> QED
  BY <1>1, <1>2, <1>3

LEMMA GainKeeps ==
  ASSUME FrontInv, Analog!GainCommand \/ Analog!GainSecond
  PROVE  FrontInv'
<1>1. CASE Analog!Fails /\ UNCHANGED loose
  BY <1>1, FailsKeeps
<1>2. CASE Analog!Done /\ UNCHANGED <<output, response, Analog!memory, loose>>
  BY <1>2, DoneIsNew, QuietKeeps DEF FrontInv, Analog!memory
<1>3. CASE /\ command = "gain" /\ command' = "gain2"
           /\ UNCHANGED <<output, response, Analog!memory, channel, search, loose>>
  <2>1. Searching' = FALSE
    BY <1>3 DEF Searching
  <2> QED
    BY <1>3, <2>1 DEF FrontInv, FrontTypes, Narrows, Loosened, DacsHold, Analog!memory
<1> QED
  BY <1>1, <1>2, <1>3 DEF Analog!GainCommand, Analog!GainSecond

\* A channel's offset is kept, and its DAC written or the channel loose.
LEMMA KeptKeeps ==
  ASSUME FrontInv, NEW value \in Int, _dac_offset' = [_dac_offset EXCEPT ![channel] = value],
         UNCHANGED response, Analog!Done \/ Analog!NextChannel,
         \/ Analog!dac_write(channel, value) /\ loose' = loose \ {channel}
         \/ UNCHANGED output /\ loose \subseteq loose' /\ channel \in loose'
  PROVE  FrontInv'
<1>1. channel \in Channel /\ _dac_offset' \in [Channel -> Int]
      /\ _dac_offset'[channel] = value /\ \A c \in Channel : c # channel => _dac_offset'[c] = _dac_offset[c]
  BY DEF FrontInv, FrontTypes
<1>2. PICK c \in Channel : search' = Analog!NoSearch /\ channel' = c
  BY DoneIsNew DEF FrontInv
<1>3. /\ channel' \in Channel
      /\ search' \in [bit : 0 .. Bits, low : Nat, high : Nat, set : BOOLEAN, spoilt : BOOLEAN]
      /\ Narrows' /\ Loosened'
  BY <1>2, NewSearch DEF FrontInv
<1>4. output' \in [0 .. 3 -> Int] /\ DacsHold'
  <2>1. CASE Analog!dac_write(channel, value) /\ loose' = loose \ {channel}
    <3>1. /\ output' \in [0 .. 3 -> Int] /\ output'[Analog!dac_table[channel]] = value % Analog!DacRange
          /\ \A d \in Channel : d # channel => output'[Analog!dac_table[d]] = output[Analog!dac_table[d]]
      BY <2>1, WriteKeepsOthers
    <3> QED
      BY <1>1, <2>1, <3>1 DEF FrontInv, DacsHold
  <2>2. CASE UNCHANGED output /\ loose \subseteq loose' /\ channel \in loose'
    BY <1>1, <2>2 DEF FrontInv, FrontTypes, DacsHold
  <2> QED
    BY <2>1, <2>2
<1> QED
  BY <1>1, <1>3, <1>4 DEF FrontInv, FrontTypes

LEMMA UpKeeps ==
  ASSUME FrontInv, Analog!UpCommand
  PROVE  FrontInv'
<1> DEFINE value == Analog!Moved % (16 * Analog!DacRange)
<1>1. value \in Int
  <2>1. _dac_offset[channel] \in Int /\ Analog!DacRange \in Nat \ {0}
    BY Powers DEF FrontInv, FrontTypes
  <2>2. Analog!Moved \in Int /\ 16 * Analog!DacRange \in Nat \ {0}
    BY <2>1 DEF Analog!Moved
  <2> QED
    BY <2>2
<1>2. /\ _dac_offset' = [_dac_offset EXCEPT ![channel] = value]
      /\ \/ Analog!dac_write(channel, _dac_offset'[channel]) /\ loose' = loose \ {channel} /\ Analog!NextChannel /\ UNCHANGED response
         \/ Analog!Done /\ loose' = loose \cup {channel} /\ UNCHANGED Analog!chips
  BY DEF Analog!UpCommand
<1>3. _dac_offset'[channel] = value
  BY <1>2 DEF FrontInv, FrontTypes
<1> HIDE DEF value
<1> QED
  BY <1>1, <1>2, <1>3, KeptKeeps DEF Analog!chips

----------------------------------------------------------------------------
LEMMA SetKeeps ==
  ASSUME FrontInv, Analog!SetMiddle
  PROVE  FrontInv'
<1>1. CASE Analog!Fails
  BY <1>1, FailsKeeps DEF Analog!SetMiddle
<1>2. CASE /\ Analog!dac_write(channel, Analog!Middle) /\ search' = [search EXCEPT !.set = TRUE]
           /\ UNCHANGED <<response, Analog!memory, command, channel>>
  <2>1. Searching /\ ~ Analog!Searched /\ loose' = loose \cup {channel}
    BY DEF Analog!SetMiddle, Searching
  <2>2. /\ search' \in [bit : 0 .. Bits, low : Nat, high : Nat, set : BOOLEAN, spoilt : BOOLEAN]
        /\ search'.bit = search.bit /\ search'.low = search.low /\ search'.high = search.high
        /\ search'.spoilt = search.spoilt
    BY <1>2 DEF FrontInv, FrontTypes
  <2>3. Analog!Middle' = Analog!Middle /\ (Searching' <=> Searching)
    BY <1>2, <2>2 DEF Analog!Middle, Searching
  <2>4. Analog!Middle \in Int
    BY DEF Analog!Middle, FrontInv, FrontTypes
  <2>5. /\ output' \in [0 .. 3 -> Int] /\ output'[Analog!dac_table[channel]] = Analog!Middle % Analog!DacRange
        /\ \A c \in Channel : c # channel => output'[Analog!dac_table[c]] = output[Analog!dac_table[c]]
    BY <1>2, <2>4, WriteKeepsOthers
  <2>6. Narrows'
    <3>1. search.spoilt = FALSE => output'[Analog!dac_table[channel]] = Analog!Middle
      <4> SUFFICES ASSUME search.spoilt = FALSE PROVE output'[Analog!dac_table[channel]] = Analog!Middle
        OBVIOUS
      <4>1. Analog!Middle \in 0 .. Analog!DacRange - 1
        BY <2>1, MiddleHalves DEF FrontInv
      <4> QED
        BY <2>5, <4>1, Powers
    <3> QED
      BY <1>2, <2>1, <2>2, <2>3, <3>1 DEF FrontInv, Narrows
  <2>7. Loosened' /\ DacsHold'
    BY <1>2, <2>1, <2>5 DEF FrontInv, Loosened, DacsHold, Analog!memory
  <2> QED
    BY <1>2, <2>2, <2>5, <2>6, <2>7 DEF FrontInv, FrontTypes, Analog!memory
<1> QED
  BY <1>1, <1>2 DEF Analog!SetMiddle

LEMMA HalveKeeps ==
  ASSUME FrontInv, Analog!Halve
  PROVE  FrontInv'
<1>1. CASE Analog!Fails
  BY <1>1, FailsKeeps DEF Analog!Halve
<1>2. CASE /\ search' = [bit |-> search.bit + 1, set |-> FALSE, spoilt |-> search.spoilt,
                         low |-> IF Analog!adc_read(channel) THEN Analog!Middle ELSE search.low,
                         high |-> IF Analog!adc_read(channel) THEN search.high ELSE Analog!Middle]
           /\ UNCHANGED <<Analog!chips, Analog!memory, command, channel>>
  <2>1. Searching /\ ~ Analog!Searched /\ search.set = TRUE /\ loose' = loose
    BY DEF Analog!Halve, Searching, FrontInv, FrontTypes
  <2>2. Analog!Middle \in Nat
    BY DEF Analog!Middle, FrontInv, FrontTypes
  <2>3. search.bit \in 0 .. Bits /\ search.bit + 1 \in 0 .. Bits /\ search.low \in Nat /\ search.high \in Nat
        /\ search.spoilt \in BOOLEAN
    BY <2>1, FrontAssumption DEF FrontInv, FrontTypes, Analog!Searched, Analog!ConstantsOK
  <2>4. /\ search'.bit = search.bit + 1 /\ search'.set = FALSE /\ search'.spoilt = search.spoilt
        /\ search'.low = (IF Analog!adc_read(channel) THEN Analog!Middle ELSE search.low)
        /\ search'.high = (IF Analog!adc_read(channel) THEN search.high ELSE Analog!Middle)
        /\ search' \in [bit : 0 .. Bits, low : Nat, high : Nat, set : BOOLEAN, spoilt : BOOLEAN]
    BY <1>2, <2>2, <2>3
  <2>5. Narrows'
    <3> SUFFICES ASSUME search.spoilt = FALSE
                 PROVE  LET r == response[Analog!adc_table[channel]]
                        IN  /\ search'.high = search'.low + 2 ^ (Bits - search'.bit) /\ search'.high <= Analog!DacRange
                            /\ search'.low = 0 \/ search'.low < r
                            /\ r <= search'.high
      BY <1>2, <2>4 DEF Narrows, Analog!chips
    <3> DEFINE r == response[Analog!adc_table[channel]]
               w == 2 ^ (Bits - (search.bit + 1))
    <3>1. Analog!Middle \in 0 .. Analog!DacRange - 1 /\ Analog!Middle = search.low + w /\ search.high = Analog!Middle + w
      BY <2>1, MiddleHalves DEF FrontInv
    <3>2. (search.low = 0 \/ search.low < r) /\ r <= search.high /\ search.high <= Analog!DacRange
          /\ output[Analog!dac_table[channel]] = Analog!Middle
      BY <2>1 DEF FrontInv, Narrows
    <3>3. Analog!adc_read(channel) <=> Analog!Middle < r
      BY <3>2, Tables DEF Analog!adc_read, FrontInv, FrontTypes
    <3>4. r \in Int /\ Analog!DacRange \in Nat
      BY Powers DEF FrontInv, FrontTypes
    <3>5. 2 ^ (Bits - search'.bit) = w
      BY <2>4
    <3> HIDE DEF r, w
    <3>6. CASE Analog!Middle < r
      BY <2>4, <3>1, <3>2, <3>3, <3>5, <3>6 DEF r
    <3>7. CASE ~ (Analog!Middle < r)
      <4>1. r <= Analog!Middle /\ Analog!Middle <= Analog!DacRange
        BY <2>2, <3>1, <3>4, <3>7
      <4> QED
        BY <2>4, <3>1, <3>2, <3>3, <3>5, <3>7, <4>1 DEF r
    <3> QED
      BY <3>6, <3>7
  <2>6. Loosened'
    BY <1>2, <2>1 DEF FrontInv, Loosened
  <2>7. DacsHold' /\ output' = output
    BY <1>2, <2>1 DEF FrontInv, DacsHold, Analog!chips, Analog!memory
  <2> QED
    BY <1>2, <2>4, <2>5, <2>6, <2>7 DEF FrontInv, FrontTypes, Analog!chips, Analog!memory
<1> QED
  BY <1>1, <1>2 DEF Analog!Halve

LEMMA SearchDoneKeeps ==
  ASSUME FrontInv, Analog!SearchDone \/ Analog!OffsetSearched
  PROVE  FrontInv'
<1>1. channel \in loose /\ channel \in Channel /\ search.low \in Int
  <2>1. Searching /\ search.bit = Bits /\ Bits > 0
    BY FrontAssumption DEF Analog!SearchDone, Analog!OffsetSearched, Searching, Analog!Searched,
       Analog!ConstantsOK
  <2> QED
    BY <2>1 DEF FrontInv, FrontTypes, Loosened
<1>2. CASE Analog!SearchDone
  <2>1. /\ _dac_offset' = [_dac_offset EXCEPT ![channel] = search.low]
        /\ \/ Analog!dac_write(channel, search.low) /\ loose' = loose \ {channel} /\ Analog!NextChannel /\ UNCHANGED response
           \/ Analog!Done /\ UNCHANGED <<Analog!chips, loose>>
    BY <1>2 DEF Analog!SearchDone
  <2> QED
    BY <1>1, <2>1, KeptKeeps DEF Analog!chips
<1>3. CASE Analog!OffsetSearched
  <2>1. CASE Analog!Fails /\ UNCHANGED loose
    BY <2>1, FailsKeeps
  <2>2. CASE Analog!dac_write(channel, search.low) /\ Analog!NextChannel /\ UNCHANGED <<response, _dac_offset, loose>>
    <3>1. /\ output' \in [0 .. 3 -> Int]
          /\ \A c \in Channel : c # channel => output'[Analog!dac_table[c]] = output[Analog!dac_table[c]]
      BY <1>1, <2>2, WriteKeepsOthers
    <3>2. DacsHold'
      BY <1>1, <2>2, <3>1 DEF FrontInv, DacsHold
    <3>3. PICK c \in Channel : search' = Analog!NoSearch /\ channel' = c
      BY <2>2, DoneIsNew DEF FrontInv
    <3>4. /\ channel' \in Channel
          /\ search' \in [bit : 0 .. Bits, low : Nat, high : Nat, set : BOOLEAN, spoilt : BOOLEAN]
          /\ Narrows' /\ Loosened'
      BY <2>2, <3>3, NewSearch DEF FrontInv
    <3> QED
      BY <2>2, <3>1, <3>2, <3>4 DEF FrontInv, FrontTypes
  <2> QED
    BY <1>3, <2>1, <2>2 DEF Analog!OffsetSearched
<1> QED
  BY <1>2, <1>3

LEMMA FrontKeeps ==
  ASSUME FrontInv, [Analog!Next]_Analog!vars
  PROVE  FrontInv'
<1>1. CASE UNCHANGED Analog!vars
  BY <1>1, QuietKeeps DEF Analog!vars, Analog!chips, Analog!memory, Analog!running
<1>2. CASE Analog!DacStart \/ Analog!GainStart
  BY <1>2, BeginKeeps DEF Analog!DacStart, Analog!GainStart
<1>3. CASE Analog!UpStart \/ Analog!SearchStart
  BY <1>3, BeginKeeps DEF Analog!UpStart, Analog!SearchStart
<1> QED
  BY <1>1, <1>2, <1>3, LateKeeps, DacKeeps, GainKeeps, UpKeeps, SetKeeps, HalveKeeps, SearchDoneKeeps
     DEF Analog!Next

\* A finished search has centred its channel, and the DACs hold what the commands keep, for every set of
\* channels and width of the DAC, however many commands, refused messages and late ones there are
\* (analog_disc/commands.c:28-225, analog_disc.c:225-253, CPUDisc/record.c:123-143).
THEOREM FrontIsKept == Analog!Spec => []OffsetsHold
<1>1. FrontInv => OffsetsHold
  <2> SUFFICES ASSUME FrontInv PROVE OffsetsHold
    OBVIOUS
  <2>1. Searching /\ Analog!Searched /\ ~ search.spoilt => search.low = Analog!Centre(channel)
    BY FoundIsCentre DEF FrontInv, FrontTypes
  <2> QED
    BY <2>1 DEF FrontInv, DacsHold, OffsetsHold, Analog!OffsetsHold, Searching
<1> QED
  BY <1>1, InitFront, FrontKeeps, PTL DEF Analog!Spec

\* So it is in every behaviour of the run.
THEOREM RunKeepsOffsets == MCSpec => []OffsetsHold
<1>1. MCInit => Analog!Init
  BY DEF MCInit
<1>2. [MCNext]_<<running, vars, shell, timer, front>> => [Analog!Next]_Analog!vars
  BY DEF MCNext, front, Analog!vars, Analog!chips, Analog!memory, Analog!running
<1>3. MCSpec => Analog!Spec
  BY <1>1, <1>2, PTL DEF MCSpec, Analog!Spec
<1> QED
  BY <1>3, FrontIsKept, PTL

----------------------------------------------------------------------------
(* The shell: the least of some numbers *)

LEMMA LeastNumber ==
  ASSUME NEW T, T \subseteq Nat, T # {}
  PROVE  \E a \in T : \A b \in T : a <= b
<1>1. PICK a \in T : \A b \in T : <<b, a>> \notin OpToRel(<, Nat)
  BY NatLessThanWellFounded, WFMin
<1>2. \A b \in T : ~ (b < a)
  BY <1>1, Zenon DEF OpToRel
<1> QED
  BY <1>2

LEMMA MinIs ==
  ASSUME NEW T, T \subseteq Nat, T # {}
  PROVE  Sh!Min(T) \in T /\ \A b \in T : Sh!Min(T) <= b
BY LeastNumber DEF Sh!Min

----------------------------------------------------------------------------
(* How many there are up to a place *)

LEMMA CountsAlike == \A S : Sh!Cardinality(S) = Cardinality(S)
BY Zenon DEF Sh!Cardinality, Cardinality

LEMMA OrdinalOf ==
  ASSUME NEW T, (\A q \in T : q \in Nat /\ q # 0), NEW i \in Nat
  PROVE  /\ IsFiniteSet({j \in T : j <= i})
         /\ Sh!Ordinal(T, i) = Cardinality({j \in T : j <= i})
         /\ Sh!Ordinal(T, i) \in 0 .. i
<1>1. {j \in T : j <= i} \subseteq 1 .. i
  OBVIOUS
<1>2. IsFiniteSet(1 .. i) /\ Cardinality(1 .. i) = i
  BY FS_Interval
<1>3. IsFiniteSet({j \in T : j <= i}) /\ Cardinality({j \in T : j <= i}) <= i
  BY <1>1, <1>2, FS_Subset
<1>4. Cardinality({j \in T : j <= i}) \in Nat
  BY <1>3, FS_CardinalityType
<1> QED
  BY <1>3, <1>4, CountsAlike DEF Sh!Ordinal

LEMMA OrdinalIn ==
  ASSUME NEW T, (\A q \in T : q \in Nat /\ q # 0), NEW i \in Nat
  PROVE  Sh!Ordinal(T, i) \in Nat /\ Sh!Ordinal(T, i) <= i
<1>1. Sh!Ordinal(T, i) \in 0 .. i
  BY OrdinalOf
<1> QED
  BY <1>1

LEMMA OrdinalNone ==
  ASSUME NEW T, \A q \in T : q \in Nat /\ q # 0
  PROVE  Sh!Ordinal(T, 0) = 0
<1>1. Sh!Ordinal(T, 0) \in Nat /\ Sh!Ordinal(T, 0) <= 0
  BY OrdinalIn
<1> QED
  BY <1>1

LEMMA OrdinalNext ==
  ASSUME NEW T, (\A q \in T : q \in Nat /\ q # 0), NEW i \in Nat
  PROVE  Sh!Ordinal(T, i + 1) = Sh!Ordinal(T, i) + (IF i + 1 \in T THEN 1 ELSE 0)
<1> DEFINE A == {j \in T : j <= i}
           B == {j \in T : j <= i + 1}
<1>1. IsFiniteSet(A) /\ Sh!Ordinal(T, i) = Cardinality(A)
  BY OrdinalOf
<1>2. Sh!Ordinal(T, i + 1) = Cardinality(B)
  BY OrdinalOf
<1>3. CASE i + 1 \in T
  <2>1. B = A \cup {i + 1} /\ i + 1 \notin A
    BY <1>3
  <2> HIDE DEF A, B
  <2>2. Cardinality(A \cup {i + 1}) = Cardinality(A) + 1
    BY <1>1, <2>1, FS_AddElement
  <2> QED
    BY <1>1, <1>2, <1>3, <2>1, <2>2
<1>4. CASE i + 1 \notin T
  <2>1. B = A
    BY <1>4
  <2>2. Sh!Ordinal(T, i) \in Nat
    BY OrdinalIn
  <2> HIDE DEF A, B
  <2> QED
    BY <1>1, <1>2, <1>4, <2>1, <2>2
<1> QED
  BY <1>3, <1>4

LEMMA OrdinalGrows ==
  ASSUME NEW T, (\A q \in T : q \in Nat /\ q # 0), NEW i \in Nat, NEW k \in Nat, i <= k
  PROVE  Sh!Ordinal(T, i) <= Sh!Ordinal(T, k)
<1> DEFINE A == {j \in T : j <= i}
           B == {j \in T : j <= k}
<1>1. A \subseteq B
  OBVIOUS
<1>2. IsFiniteSet(B) /\ Sh!Ordinal(T, i) = Cardinality(A) /\ Sh!Ordinal(T, k) = Cardinality(B)
  BY OrdinalOf
<1> HIDE DEF A, B
<1> QED
  BY <1>1, <1>2, FS_Subset

\* Nothing in between, or something.
LEMMA OrdinalSame ==
  ASSUME NEW T, (\A q \in T : q \in Nat /\ q # 0), NEW i \in Nat, NEW k \in Nat, i <= k,
         \A j \in i + 1 .. k : j \notin T
  PROVE  Sh!Ordinal(T, i) = Sh!Ordinal(T, k)
<1> DEFINE A == {j \in T : j <= i}
           B == {j \in T : j <= k}
<1>1. A = B
  OBVIOUS
<1>2. Sh!Ordinal(T, i) = Cardinality(A) /\ Sh!Ordinal(T, k) = Cardinality(B)
  BY OrdinalOf
<1> QED
  BY <1>1, <1>2

LEMMA OrdinalPasses ==
  ASSUME NEW T, (\A q \in T : q \in Nat /\ q # 0), NEW i \in Nat, NEW j \in T, i < j
  PROVE  Sh!Ordinal(T, i) < Sh!Ordinal(T, j)
<1>1. j - 1 \in Nat /\ i <= j - 1 /\ (j - 1) + 1 = j /\ j \in Nat
  OBVIOUS
<1>2. Sh!Ordinal(T, i) <= Sh!Ordinal(T, j - 1)
  BY <1>1, OrdinalGrows
<1>3. Sh!Ordinal(T, j) = Sh!Ordinal(T, j - 1) + 1
  <2>1. Sh!Ordinal(T, (j - 1) + 1) = Sh!Ordinal(T, j - 1) + (IF (j - 1) + 1 \in T THEN 1 ELSE 0)
    BY <1>1, OrdinalNext
  <2> QED
    BY <1>1, <2>1
<1>4. Sh!Ordinal(T, i) \in Nat /\ Sh!Ordinal(T, j - 1) \in Nat
  BY <1>1, OrdinalIn
<1> QED
  BY <1>1, <1>2, <1>3, <1>4

LEMMA OrdinalOne ==
  ASSUME NEW T, (\A q \in T : q \in Nat /\ q # 0), NEW j \in T
  PROVE  Sh!Ordinal(T, j) \in Nat /\ 0 < Sh!Ordinal(T, j)
<1>1. 0 \in Nat /\ j \in Nat /\ 0 < j
  OBVIOUS
<1>2. Sh!Ordinal(T, 0) < Sh!Ordinal(T, j) /\ Sh!Ordinal(T, 0) = 0
  BY <1>1, OrdinalPasses, OrdinalNone
<1>3. Sh!Ordinal(T, j) \in Nat
  BY <1>1, OrdinalIn
<1> QED
  BY <1>2, <1>3

\* Every number up to the last is that of an element, and of one only.
LEMMA OrdinalReached ==
  ASSUME NEW T, (\A q \in T : q \in Nat /\ q # 0), NEW n \in Nat, NEW m \in Nat, 1 <= m, m <= Sh!Ordinal(T, n)
  PROVE  \E j \in T : j <= n /\ Sh!Ordinal(T, j) = m
<1> DEFINE U == {i \in Nat : m <= Sh!Ordinal(T, i)}
<1>1. PICK j \in U : \A i \in U : j <= i
  <2>1. U # {} /\ U \subseteq Nat
    OBVIOUS
  <2> QED
    BY <2>1, LeastNumber
<1>2. j \in Nat /\ m <= Sh!Ordinal(T, j) /\ j <= n
  BY <1>1
<1>3. j # 0
  BY <1>2, OrdinalNone
<1>4. j - 1 \in Nat /\ (j - 1) + 1 = j /\ j - 1 \notin U
  BY <1>1, <1>2, <1>3
<1>5. Sh!Ordinal(T, j - 1) < m /\ Sh!Ordinal(T, j - 1) \in Nat
  <2>1. Sh!Ordinal(T, j - 1) \in Nat
    BY <1>4, OrdinalIn
  <2> QED
    BY <1>4, <2>1
<1>6. Sh!Ordinal(T, (j - 1) + 1) = Sh!Ordinal(T, j - 1) + (IF (j - 1) + 1 \in T THEN 1 ELSE 0)
  BY <1>4, OrdinalNext
<1>7. j \in T
  BY <1>2, <1>4, <1>5, <1>6
<1>8. Sh!Ordinal(T, j) = m
  BY <1>2, <1>4, <1>5, <1>6, <1>7
<1> QED
  BY <1>2, <1>7, <1>8

LEMMA OrdinalIsOf ==
  ASSUME NEW T, (\A q \in T : q \in Nat /\ q # 0), NEW i \in T, NEW j \in T, Sh!Ordinal(T, i) = Sh!Ordinal(T, j)
  PROVE  i = j
<1>1. i \in Nat /\ j \in Nat /\ Sh!Ordinal(T, i) \in Nat /\ Sh!Ordinal(T, j) \in Nat
  BY OrdinalIn
<1>2. ASSUME i < j PROVE FALSE
  <2>1. Sh!Ordinal(T, i) < Sh!Ordinal(T, j)
    BY <1>1, <1>2, OrdinalPasses
  <2> QED
    BY <1>1, <2>1
<1>3. ASSUME j < i PROVE FALSE
  <2>1. Sh!Ordinal(T, j) < Sh!Ordinal(T, i)
    BY <1>1, <1>3, OrdinalPasses
  <2> QED
    BY <1>1, <2>1
<1> QED
  BY <1>1, <1>2, <1>3

LEMMA OrdinalLast ==
  ASSUME NEW n \in Nat, NEW T, T \subseteq 1 .. n
  PROVE  Sh!Ordinal(T, n) = Cardinality(T) /\ Cardinality(T) \in Nat
<1>0. \A q \in T : q \in Nat /\ q # 0 /\ q <= n
  OBVIOUS
<1>1. T = {j \in T : j <= n} /\ \A q \in T : q \in Nat /\ q # 0
  BY <1>0
<1>2. Sh!Ordinal(T, n) = Cardinality({j \in T : j <= n}) /\ Sh!Ordinal(T, n) \in Nat
  BY <1>1, OrdinalOf, OrdinalIn
<1> QED
  BY <1>1, <1>2

\* Counting a part of T from where the part begins.
LEMMA OrdinalWithin ==
  ASSUME NEW T, (\A q \in T : q \in Nat /\ q # 0), NEW i \in Nat, NEW k \in Nat,
         NEW P, P = {j \in T : i < j /\ j <= k}, NEW n \in Nat, i <= n, n <= k
  PROVE  Sh!Ordinal(T, n) = Sh!Ordinal(T, i) + Sh!Ordinal(P, n)
<1>1. \A q \in P : q \in Nat /\ q # 0
  OBVIOUS
<1> DEFINE U == {m \in Nat : i <= m /\ m <= k /\ Sh!Ordinal(T, m) # Sh!Ordinal(T, i) + Sh!Ordinal(P, m)}
<1>2. SUFFICES ASSUME U # {} PROVE FALSE
  OBVIOUS
<1>3. PICK m \in U : \A j \in U : m <= j
  <2>1. U \subseteq Nat
    OBVIOUS
  <2> QED
    BY <1>2, <2>1, LeastNumber
<1>4. m \in Nat /\ i <= m /\ m <= k /\ Sh!Ordinal(T, m) # Sh!Ordinal(T, i) + Sh!Ordinal(P, m)
  BY <1>3
<1>5. m # i
  <2>1. Sh!Ordinal(P, 0) = Sh!Ordinal(P, i)
    BY <1>1, OrdinalSame
  <2>2. Sh!Ordinal(P, i) = 0 /\ Sh!Ordinal(T, i) \in Nat
    BY <1>1, <2>1, OrdinalNone, OrdinalIn
  <2> QED
    BY <1>4, <2>2
<1>6. m - 1 \in Nat /\ i <= m - 1 /\ (m - 1) + 1 = m /\ m - 1 \notin U
  BY <1>3, <1>4, <1>5
<1>7. Sh!Ordinal(T, m - 1) = Sh!Ordinal(T, i) + Sh!Ordinal(P, m - 1)
  BY <1>4, <1>6
<1>8. Sh!Ordinal(T, (m - 1) + 1) = Sh!Ordinal(T, m - 1) + (IF (m - 1) + 1 \in T THEN 1 ELSE 0)
  BY <1>6, OrdinalNext
<1>9. Sh!Ordinal(P, (m - 1) + 1) = Sh!Ordinal(P, m - 1) + (IF (m - 1) + 1 \in P THEN 1 ELSE 0)
  BY <1>1, <1>6, OrdinalNext
<1>10. m \in T <=> m \in P
  BY <1>4, <1>6
<1>11. Sh!Ordinal(T, i) \in Nat /\ Sh!Ordinal(P, m - 1) \in Nat
  BY <1>1, <1>6, OrdinalIn
<1> HIDE DEF U
<1> QED
  BY <1>4, <1>6, <1>7, <1>8, <1>9, <1>10, <1>11

----------------------------------------------------------------------------
(* The line as it was edited *)

\* The line that the keys t leave, and the lines that their first ones leave.
EditedAs(t) ==
  LET held[i \in 0 .. Len(t)] == IF i = 0 THEN <<>> ELSE Sh!Edit(held[i - 1], t[i])
  IN  held[Len(t)]
Edits(f, k, t) == f = [i \in 0 .. k |-> IF i = 0 THEN <<>> ELSE Sh!Edit(f[i - 1], t[i])]

LEMMA EditedIs == Sh!Edited = EditedAs(typed)
BY Zenon DEF Sh!Edited, EditedAs

LEMMA EditsAre ==
  ASSUME NEW k \in Nat, NEW t, NEW f, Edits(f, k, t)
  PROVE  /\ DOMAIN f = 0 .. k
         /\ f[0] = <<>>
         /\ \A i \in 1 .. k : f[i] = Sh!Edit(f[i - 1], t[i])
<1> DEFINE g == [i \in 0 .. k |-> IF i = 0 THEN <<>> ELSE Sh!Edit(f[i - 1], t[i])]
<1>1. f = g
  BY DEF Edits
<1>2. DOMAIN g = 0 .. k /\ g[0] = <<>>
  OBVIOUS
<1>3. ASSUME NEW i \in 1 .. k PROVE g[i] = Sh!Edit(f[i - 1], t[i])
  OBVIOUS
<1> HIDE DEF g
<1> QED
  BY <1>1, <1>2, <1>3

LEMMA EditsExist ==
  ASSUME NEW k \in Nat, NEW t
  PROVE  \E f : Edits(f, k, t)
<1> DEFINE T == {j \in Nat : ~ \E f : Edits(f, j, t)}
<1>1. SUFFICES ASSUME T # {} PROVE FALSE
  OBVIOUS
<1>2. PICK m \in T : \A j \in T : m <= j
  <2>1. T \subseteq Nat
    OBVIOUS
  <2> QED
    BY <1>1, <2>1, LeastNumber
<1>3. m \in Nat /\ ~ \E f : Edits(f, m, t)
  BY <1>2
<1>4. CASE m = 0
  <2> DEFINE f == [i \in 0 .. 0 |-> <<>>]
             g == [i \in 0 .. m |-> IF i = 0 THEN <<>> ELSE Sh!Edit(f[i - 1], t[i])]
  <2>1. f = g
    BY <1>4
  <2>2. Edits(f, m, t)
    BY <2>1 DEF Edits
  <2> QED
    BY <1>3, <2>2
<1>5. CASE m # 0
  <2>1. m - 1 \in Nat /\ ~ (m <= m - 1)
    BY <1>3, <1>5
  <2>2. PICK f : Edits(f, m - 1, t)
    BY <1>2, <2>1
  <2>3. /\ DOMAIN f = 0 .. m - 1
        /\ f[0] = <<>>
        /\ \A i \in 1 .. m - 1 : f[i] = Sh!Edit(f[i - 1], t[i])
    BY <2>1, <2>2, EditsAre
  <2> DEFINE g == [i \in 0 .. m |-> IF i = m THEN Sh!Edit(f[m - 1], t[m]) ELSE f[i]]
             h == [i \in 0 .. m |-> IF i = 0 THEN <<>> ELSE Sh!Edit(g[i - 1], t[i])]
  <2>4. ASSUME NEW i \in 0 .. m PROVE g[i] = h[i]
    <3>1. CASE i = 0
      BY <1>3, <1>5, <2>3, <3>1
    <3>2. CASE i = m
      <4>1. g[i] = Sh!Edit(f[m - 1], t[m]) /\ h[i] = Sh!Edit(g[m - 1], t[m])
        BY <1>3, <1>5, <3>2
      <4>2. g[m - 1] = f[m - 1]
        BY <1>3, <1>5
      <4> QED
        BY <4>1, <4>2
    <3>3. CASE i # 0 /\ i # m
      <4>1. i \in 1 .. m - 1
        BY <3>3, <1>3
      <4>2. g[i] = f[i] /\ h[i] = Sh!Edit(g[i - 1], t[i]) /\ g[i - 1] = f[i - 1]
        BY <3>3, <1>3, <4>1
      <4> QED
        BY <4>1, <4>2, <2>3
    <3> QED
      BY <3>1, <3>2, <3>3
  <2>5. g = h
    BY <2>4
  <2>6. Edits(g, m, t)
    BY <2>5 DEF Edits
  <2> QED
    BY <1>3, <2>6
<1> QED
  BY <1>4, <1>5

LEMMA EditedHas ==
  ASSUME NEW t, Len(t) \in Nat
  PROVE  \E f : Edits(f, Len(t), t) /\ EditedAs(t) = f[Len(t)]
<1> DEFINE f == CHOOSE f : Edits(f, Len(t), t)
<1>1. Edits(f, Len(t), t)
  BY EditsExist
<1>2. EditedAs(t) = f[Len(t)]
  BY Zenon DEF EditedAs, Edits
<1> QED
  BY <1>1, <1>2

\* The same keys leave the same lines.
LEMMA EditsAgree ==
  ASSUME NEW k \in Nat, NEW n \in Nat, NEW t, NEW u, NEW f, NEW g,
         Edits(f, k, t), Edits(g, n, u), \A i \in 1 .. k : t[i] = u[i], k <= n
  PROVE  f[k] = g[k]
<1> DEFINE T == {j \in Nat : j <= k /\ f[j] # g[j]}
<1>1. SUFFICES ASSUME T # {} PROVE FALSE
  OBVIOUS
<1>2. PICK m \in T : \A j \in T : m <= j
  <2>1. T \subseteq Nat
    OBVIOUS
  <2> QED
    BY <1>1, <2>1, LeastNumber
<1>3. m \in Nat /\ m <= k /\ f[m] # g[m]
  BY <1>2
<1>4. /\ f[0] = <<>> /\ \A j \in 1 .. k : f[j] = Sh!Edit(f[j - 1], t[j])
      /\ g[0] = <<>> /\ \A j \in 1 .. n : g[j] = Sh!Edit(g[j - 1], u[j])
  BY EditsAre
<1>5. m # 0
  BY <1>3, <1>4
<1>6. m - 1 \in Nat /\ ~ (m <= m - 1) /\ m - 1 <= k
  BY <1>3, <1>5
<1>7. m - 1 \notin T
  BY <1>2, <1>6
<1>8. f[m - 1] = g[m - 1]
  BY <1>6, <1>7
<1>9. m \in 1 .. k /\ m \in 1 .. n
  BY <1>3, <1>5
<1> QED
  BY <1>3, <1>4, <1>8, <1>9

LEMMA EditedNone == EditedAs(<<>>) = <<>>
<1>1. PICK f : Edits(f, 0, <<>>) /\ EditedAs(<<>>) = f[0]
  <2>1. Len(<<>>) = 0
    OBVIOUS
  <2> QED
    BY <2>1, EditedHas
<1> QED
  BY <1>1, EditsAre

LEMMA EditedNext ==
  ASSUME NEW S, NEW t \in Seq(S), NEW key \in S
  PROVE  EditedAs(Append(t, key)) = Sh!Edit(EditedAs(t), key)
<1> DEFINE u == Append(t, key)
           k == Len(t)
<1>1. /\ k \in Nat /\ Len(u) = k + 1 /\ u[k + 1] = key
      /\ \A i \in 1 .. k : t[i] = u[i]
  OBVIOUS
<1> HIDE DEF u, k
<1>2. PICK f : Edits(f, k, t) /\ EditedAs(t) = f[k]
  BY <1>1, EditedHas DEF k
<1>3. PICK g : Edits(g, k + 1, u) /\ EditedAs(u) = g[k + 1]
  BY <1>1, EditedHas
<1>4. \A i \in 1 .. k + 1 : g[i] = Sh!Edit(g[i - 1], u[i])
  BY <1>1, <1>3, EditsAre
<1>5. g[k + 1] = Sh!Edit(g[k], key)
  BY <1>1, <1>4
<1>6. f[k] = g[k]
  BY <1>1, <1>2, <1>3, EditsAgree
<1> QED
  BY <1>2, <1>3, <1>5, <1>6 DEF u

Char == Letter \cup {Sh!Blank, Sh!Quote}

LEMMA KeysAre ==
  /\ Sh!Delete \notin Char /\ Sh!Enter \notin Char /\ Sh!End \notin Char /\ Sh!Blank # Sh!Quote
  /\ Sh!Keys = Char \cup {Sh!Delete, Sh!Enter}
  /\ LineLength \in Nat \ {0} /\ ArgvLength \in Nat
BY ShellAssumption DEF Sh!ConstantsOK, Char, Sh!Keys, Sh!Blank, Sh!Quote, Sh!Delete, Sh!Enter, Sh!End

\* What a key does to the line, and to what is held of it.
LEMMA EditIs ==
  ASSUME NEW s \in Seq(Char), Len(s) < LineLength, NEW key \in Sh!Keys, key # Sh!Enter
  PROVE  /\ Sh!Edit(s, key) \in Seq(Char)
         /\ key = Sh!Delete /\ Len(s) > 0 => Len(Sh!Edit(s, key)) = Len(s) - 1
         /\ key = Sh!Delete /\ Len(s) = 0 => Len(Sh!Edit(s, key)) = 0
         /\ key # Sh!Delete /\ Len(s) < LineLength - 1 => Len(Sh!Edit(s, key)) = Len(s) + 1
         /\ key # Sh!Delete /\ ~ (Len(s) < LineLength - 1) => Len(Sh!Edit(s, key)) = Len(s)
         /\ \A i \in 1 .. Len(Sh!Edit(s, key)) : Sh!Edit(s, key)[i] = IF i <= Len(s) THEN s[i] ELSE key
<1>0. Len(s) \in Nat /\ LineLength \in Nat
  BY KeysAre
<1>1. CASE key = Sh!Delete /\ Len(s) > 0
  <2>1. Sh!Edit(s, key) = SubSeq(s, 1, Len(s) - 1)
    BY <1>1 DEF Sh!Edit
  <2>2. /\ SubSeq(s, 1, Len(s) - 1) \in Seq(Char) /\ Len(SubSeq(s, 1, Len(s) - 1)) = Len(s) - 1
        /\ \A i \in 1 .. Len(s) - 1 : SubSeq(s, 1, Len(s) - 1)[i] = s[i]
    <3>1. Len(s) - 1 \in 1 - 1 .. Len(s) /\ 1 \in 1 .. Len(s) + 1 /\ (Len(s) - 1) - 1 + 1 = Len(s) - 1
      BY <1>0, <1>1
    <3>2. \A i \in 1 .. Len(s) - 1 : 1 + i - 1 = i
      BY <1>0
    <3> QED
      BY <3>1, <3>2, SubSeqProperties
  <2> QED
    BY <1>0, <1>1, <2>1, <2>2
<1>2. CASE key = Sh!Delete /\ Len(s) = 0
  <2>1. Sh!Edit(s, key) = SubSeq(s, 1, Len(s) - 1)
    BY <1>2 DEF Sh!Edit
  <2>2. s = <<>> /\ SubSeq(s, 1, Len(s) - 1) = <<>>
    BY <1>2
  <2>3. <<>> \in Seq(Char) /\ Len(<<>>) = 0
    OBVIOUS
  <2> QED
    BY <1>0, <1>2, <2>1, <2>2, <2>3
<1>3. CASE key # Sh!Delete /\ Len(s) < LineLength - 1
  <2>1. Sh!Edit(s, key) = Append(s, key) /\ key \in Char
    BY <1>3, KeysAre DEF Sh!Edit
  <2>2. /\ Append(s, key) \in Seq(Char) /\ Len(Append(s, key)) = Len(s) + 1
        /\ \A i \in 1 .. Len(s) + 1 : Append(s, key)[i] = IF i <= Len(s) THEN s[i] ELSE key
    BY <1>0, <2>1
  <2> QED
    BY <1>0, <1>3, <2>1, <2>2
<1>4. CASE key # Sh!Delete /\ ~ (Len(s) < LineLength - 1)
  <2>1. Sh!Edit(s, key) = s
    BY <1>4 DEF Sh!Edit
  <2> QED
    BY <1>0, <1>4, <2>1
<1> QED
  BY <1>0, <1>1, <1>2, <1>3, <1>4

----------------------------------------------------------------------------
(* Quotes, blanks and words *)

Quotes(s) == {j \in 1 .. Len(s) : s[j] = Sh!Quote}

LEMMA Odd ==
  ASSUME NEW n \in Nat
  PROVE  (n + 1) % 2 = 1 <=> ~ (n % 2 = 1)
OBVIOUS

LEMMA QuotedIs ==
  ASSUME NEW s
  PROVE  \A i : Sh!Quoted(s, i) <=> Sh!Ordinal(Quotes(s), i - 1) % 2 = 1
BY DEF Sh!Quoted, Quotes

LEMMA QuotedFirst ==
  ASSUME NEW s \in Seq(Char)
  PROVE  ~ Sh!Quoted(s, 1)
<1>1. Sh!Ordinal(Quotes(s), 0) = 0
  BY OrdinalNone DEF Quotes
<1>2. 1 - 1 = 0 /\ 0 % 2 = 0
  OBVIOUS
<1> QED
  BY <1>1, <1>2, QuotedIs

\* A quote begins or ends what is quoted, and nothing else does.
LEMMA QuotedNext ==
  ASSUME NEW s \in Seq(Char), NEW j \in 1 .. Len(s)
  PROVE  Sh!Quoted(s, j + 1) <=> IF s[j] = Sh!Quote THEN ~ Sh!Quoted(s, j) ELSE Sh!Quoted(s, j)
<1> DEFINE T == Quotes(s)
<1>1. (\A q \in T : q \in Nat /\ q # 0) /\ (j \in T <=> s[j] = Sh!Quote)
  BY DEF Quotes
<1>2. j - 1 \in Nat /\ (j - 1) + 1 = j /\ (j + 1) - 1 = j
  OBVIOUS
<1> HIDE DEF T
<1>3. Sh!Ordinal(T, (j - 1) + 1) = Sh!Ordinal(T, j - 1) + (IF (j - 1) + 1 \in T THEN 1 ELSE 0)
  BY <1>1, <1>2, OrdinalNext
<1>4. Sh!Ordinal(T, j - 1) \in Nat
  BY <1>1, <1>2, OrdinalIn
<1> DEFINE x == Sh!Ordinal(T, j - 1)
           y == Sh!Ordinal(T, j)
<1>5. x \in Nat /\ (s[j] = Sh!Quote => y = x + 1) /\ (s[j] # Sh!Quote => y = x)
  BY <1>1, <1>2, <1>3, <1>4
<1>6. (Sh!Quoted(s, j) <=> x % 2 = 1) /\ (Sh!Quoted(s, j + 1) <=> y % 2 = 1)
  BY <1>2, QuotedIs DEF T
<1> HIDE DEF x, y
<1>7. (x + 1) % 2 = 1 <=> ~ (x % 2 = 1)
  BY <1>5, Odd
<1> QED
  BY <1>5, <1>6, <1>7

\* Nothing changes over a stretch without quotes.
LEMMA QuotedSame ==
  ASSUME NEW s \in Seq(Char), NEW r \in Nat, NEW m \in Nat, r <= m, m <= Len(s),
         \A j \in r + 1 .. m : s[j] # Sh!Quote
  PROVE  Sh!Quoted(s, m + 1) <=> Sh!Quoted(s, r + 1)
<1> DEFINE T == Quotes(s)
<1>1. (\A q \in T : q \in Nat /\ q # 0) /\ \A j \in r + 1 .. m : j \notin T
  BY DEF Quotes
<1>2. Sh!Ordinal(T, r) = Sh!Ordinal(T, m)
  BY <1>1, OrdinalSame
<1>3. (m + 1) - 1 = m /\ (r + 1) - 1 = r
  OBVIOUS
<1> QED
  BY <1>2, <1>3, QuotedIs

\* What parse_line writes, and where: every character but the quotes, and an end for the first blank after a word.
Written(s) == {j \in 1 .. Len(s) : s[j] # Sh!Quote /\ (Sh!Gap(s, j) => j # 1 /\ ~ Sh!Gap(s, j - 1))}
Put(s, j) == IF Sh!Gap(s, j) THEN Sh!End ELSE s[j]

LEMMA WrittenAre ==
  ASSUME NEW s \in Seq(Char)
  PROVE  /\ \A q \in Written(s) : q \in Nat /\ q # 0 /\ q <= Len(s)
         /\ \A q \in Sh!Starts(s) : q \in Nat /\ q # 0 /\ q <= Len(s) + 1
         /\ Len(s) \in Nat
<1>1. Len(s) \in Nat
  OBVIOUS
<1>2. \A q \in Written(s) : q \in 1 .. Len(s)
  BY DEF Written
<1>3. \A q \in Sh!Starts(s) : q \in 1 .. Len(s) \/ q = Len(s) + 1
  BY DEF Sh!Starts
<1> QED
  BY <1>1, <1>2, <1>3

LEMMA PutIs ==
  ASSUME NEW s \in Seq(Char), NEW j \in 1 .. Len(s)
  PROVE  /\ Put(s, j) \in Char \cup {Sh!End} /\ s[j] \in Char
         /\ Put(s, j) = Sh!End <=> Sh!Gap(s, j)
         /\ Sh!Gap(s, j) => s[j] = Sh!Blank /\ ~ Sh!Quoted(s, j)
BY KeysAre DEF Put, Sh!Gap

----------------------------------------------------------------------------
(* The line while it is split *)

\* What parse_line has written of the first r characters, and where their words begin.
Moved(l, s, r) == \A j \in Written(s) : j <= r => l[Sh!Ordinal(Written(s), j) - 1] = Put(s, j)
Listed(a, s, r) ==
  /\ a \in Seq(Nat)
  /\ Len(a) = IF Sh!Ordinal(Sh!Starts(s), r) <= ArgvLength THEN Sh!Ordinal(Sh!Starts(s), r) ELSE ArgvLength
  /\ \A i \in Sh!Starts(s) : i <= r /\ Sh!Ordinal(Sh!Starts(s), i) <= ArgvLength =>
       a[Sh!Ordinal(Sh!Starts(s), i)] = Sh!Ordinal(Written(s), i - 1)

LineTypes == [0 .. LineLength - 1 -> Char \cup {Sh!End}]

\* One character is written, or none.
LEMMA MovedOn ==
  ASSUME NEW s \in Seq(Char), Len(s) < LineLength, NEW j \in 1 .. Len(s), NEW l \in LineTypes,
         Moved(l, s, j - 1), NEW w, w = Sh!Ordinal(Written(s), j - 1), NEW k,
         k = IF j \in Written(s) THEN [l EXCEPT ![w] = Put(s, j)] ELSE l
  PROVE  /\ Moved(k, s, j) /\ k \in LineTypes
         /\ Sh!Ordinal(Written(s), j) = w + (IF j \in Written(s) THEN 1 ELSE 0)
         /\ w \in Nat /\ w < j
         /\ \A i \in 0 .. LineLength - 1 : j <= i => k[i] = l[i]
<1> DEFINE T == Written(s)
<1>1. /\ \A q \in T : q \in Nat /\ q # 0 /\ q <= Len(s)
      /\ Len(s) \in Nat /\ LineLength \in Nat
  BY WrittenAre, KeysAre
<1>2. j - 1 \in Nat /\ (j - 1) + 1 = j /\ j \in Nat
  OBVIOUS
<1> HIDE DEF T
<1>3. Sh!Ordinal(T, (j - 1) + 1) = Sh!Ordinal(T, j - 1) + (IF (j - 1) + 1 \in T THEN 1 ELSE 0)
  BY <1>1, <1>2, OrdinalNext
<1>4. Sh!Ordinal(T, j - 1) \in Nat /\ Sh!Ordinal(T, j - 1) <= j - 1
  BY <1>1, <1>2, OrdinalIn
<1>5. w \in Nat /\ w < j /\ w \in 0 .. LineLength - 1
  BY <1>1, <1>4 DEF T
<1>6. Sh!Ordinal(T, j) = w + (IF j \in T THEN 1 ELSE 0)
  BY <1>2, <1>3 DEF T
<1>7. k \in LineTypes
  BY <1>5, PutIs DEF LineTypes
<1>8. \A i \in 0 .. LineLength - 1 : i # w => k[i] = l[i]
  BY <1>5 DEF LineTypes
<1>9. Moved(k, s, j)
  <2> SUFFICES ASSUME NEW q \in T, q <= j PROVE k[Sh!Ordinal(T, q) - 1] = Put(s, q)
    BY DEF Moved, T
  <2>1. CASE q = j
    <3>1. Sh!Ordinal(T, q) - 1 = w
      BY <1>5, <1>6, <2>1
    <3>2. k[w] = Put(s, j)
      BY <1>5, <2>1 DEF LineTypes, T
    <3> QED
      BY <2>1, <3>1, <3>2
  <2>2. CASE q # j
    <3>1. q \in Nat /\ q <= j - 1 /\ q # 0
      BY <1>1, <1>2, <2>2
    <3>2. l[Sh!Ordinal(T, q) - 1] = Put(s, q)
      BY <3>1 DEF Moved, T
    <3>3. Sh!Ordinal(T, q) <= Sh!Ordinal(T, j - 1) /\ Sh!Ordinal(T, q) \in Nat
      BY <1>1, <1>2, <3>1, OrdinalGrows, OrdinalIn
    <3>4. 0 < Sh!Ordinal(T, q)
      BY <1>1, OrdinalOne
    <3>5. Sh!Ordinal(T, j - 1) = w
      BY DEF T
    <3>6. Sh!Ordinal(T, q) - 1 \in 0 .. LineLength - 1 /\ Sh!Ordinal(T, q) - 1 # w
      BY <1>1, <1>5, <3>3, <3>4, <3>5
    <3> QED
      BY <1>8, <3>2, <3>6
  <2> QED
    BY <2>1, <2>2
<1> QED
  BY <1>5, <1>6, <1>7, <1>8, <1>9 DEF T

\* Characters that are not written and at which no word begins change nothing.
LEMMA MovedSame ==
  ASSUME NEW s \in Seq(Char), NEW r \in Nat, NEW m \in Nat, r <= m, NEW l, NEW a,
         \A i \in r + 1 .. m : i \notin Written(s) /\ i \notin Sh!Starts(s),
         Moved(l, s, r), Listed(a, s, r)
  PROVE  /\ Moved(l, s, m) /\ Listed(a, s, m)
         /\ Sh!Ordinal(Written(s), m) = Sh!Ordinal(Written(s), r)
         /\ Sh!Ordinal(Sh!Starts(s), m) = Sh!Ordinal(Sh!Starts(s), r)
<1>1. /\ \A q \in Written(s) : q \in Nat /\ q # 0
      /\ \A q \in Sh!Starts(s) : q \in Nat /\ q # 0
  BY WrittenAre
<1>2. Sh!Ordinal(Written(s), r) = Sh!Ordinal(Written(s), m)
  <2>1. \A i \in r + 1 .. m : i \notin Written(s)
    OBVIOUS
  <2> QED
    BY <1>1, <2>1, OrdinalSame
<1>3. Sh!Ordinal(Sh!Starts(s), r) = Sh!Ordinal(Sh!Starts(s), m)
  <2>1. \A i \in r + 1 .. m : i \notin Sh!Starts(s)
    OBVIOUS
  <2> QED
    BY <1>1, <2>1, OrdinalSame
<1>4. \A i \in Written(s) : i <= m => i <= r
  BY <1>1
<1>5. \A i \in Sh!Starts(s) : i <= m => i <= r
  BY <1>1
<1>6. Moved(l, s, m)
  BY <1>4 DEF Moved
<1>7. Listed(a, s, m)
  BY <1>3, <1>5 DEF Listed
<1> QED
  BY <1>2, <1>3, <1>6, <1>7

\* A word begins, if there is room for it in argv, or none does.
LEMMA ListedOn ==
  ASSUME NEW s \in Seq(Char), NEW j \in Nat, j # 0, NEW a, NEW b, Listed(a, s, j - 1),
         b = IF j \in Sh!Starts(s) /\ Len(a) < ArgvLength THEN Append(a, Sh!Ordinal(Written(s), j - 1)) ELSE a
  PROVE  Listed(b, s, j)
<1> DEFINE T == Sh!Starts(s)
           w == Sh!Ordinal(Written(s), j - 1)
           x == Sh!Ordinal(T, j - 1)
           y == Sh!Ordinal(T, j)
<1>1. /\ \A q \in T : q \in Nat /\ q # 0
      /\ \A q \in Written(s) : q \in Nat /\ q # 0
      /\ ArgvLength \in Nat
  BY WrittenAre, KeysAre
<1>2. j - 1 \in Nat /\ (j - 1) + 1 = j
  OBVIOUS
<1>3. w \in Nat
  BY <1>1, <1>2, OrdinalIn
<1> HIDE DEF T
<1>4. Sh!Ordinal(T, (j - 1) + 1) = Sh!Ordinal(T, j - 1) + (IF (j - 1) + 1 \in T THEN 1 ELSE 0)
  BY <1>1, <1>2, OrdinalNext
<1>5. x \in Nat /\ y = x + (IF j \in T THEN 1 ELSE 0)
  BY <1>1, <1>2, <1>4, OrdinalIn
<1>6. /\ a \in Seq(Nat) /\ Len(a) = IF x <= ArgvLength THEN x ELSE ArgvLength
      /\ \A i \in T : i <= j - 1 /\ Sh!Ordinal(T, i) <= ArgvLength =>
           a[Sh!Ordinal(T, i)] = Sh!Ordinal(Written(s), i - 1)
  BY DEF Listed, T
<1>7. \A i \in T : i < j => Sh!Ordinal(T, i) \in Nat /\ 0 < Sh!Ordinal(T, i) /\ Sh!Ordinal(T, i) <= x
  <2> SUFFICES ASSUME NEW i \in T, i < j
               PROVE  Sh!Ordinal(T, i) \in Nat /\ 0 < Sh!Ordinal(T, i) /\ Sh!Ordinal(T, i) <= x
    OBVIOUS
  <2>1. i \in Nat /\ i # 0 /\ i <= j - 1
    BY <1>1, <1>2
  <2>2. 0 < Sh!Ordinal(T, i)
    BY <1>1, OrdinalOne
  <2>3. Sh!Ordinal(T, i) <= Sh!Ordinal(T, j - 1) /\ Sh!Ordinal(T, i) \in Nat
    BY <1>1, <1>2, <2>1, OrdinalGrows, OrdinalIn
  <2> QED
    BY <2>2, <2>3
<1> HIDE DEF x, y, w
<1>8. CASE j \in T /\ Len(a) < ArgvLength
  <2>1. b = Append(a, w)
    BY <1>8 DEF T, w
  <2>2. x < ArgvLength /\ Len(a) = x /\ y = x + 1 /\ y <= ArgvLength
    BY <1>1, <1>5, <1>6, <1>8
  <2>3. /\ b \in Seq(Nat) /\ Len(b) = x + 1 /\ b[x + 1] = w
        /\ \A i \in 1 .. x : b[i] = a[i]
    BY <1>3, <1>6, <2>1, <2>2, AppendProperties
  <2>4. \A i \in T : i <= j /\ Sh!Ordinal(T, i) <= ArgvLength => b[Sh!Ordinal(T, i)] = Sh!Ordinal(Written(s), i - 1)
    <3> SUFFICES ASSUME NEW i \in T, i <= j, Sh!Ordinal(T, i) <= ArgvLength
                 PROVE  b[Sh!Ordinal(T, i)] = Sh!Ordinal(Written(s), i - 1)
      OBVIOUS
    <3>1. CASE i = j
      BY <2>2, <2>3, <3>1 DEF y, w
    <3>2. CASE i # j
      <4>1. i < j /\ i <= j - 1
        BY <1>1, <3>2
      <4>2. Sh!Ordinal(T, i) \in 1 .. x
        BY <1>5, <1>7, <4>1
      <4> QED
        BY <1>6, <2>3, <4>1, <4>2
    <3> QED
      BY <3>1, <3>2
  <2>5. Len(b) = IF y <= ArgvLength THEN y ELSE ArgvLength
    BY <2>2, <2>3
  <2> QED
    BY <2>3, <2>4, <2>5 DEF Listed, T, y
<1>9. CASE ~ (j \in T /\ Len(a) < ArgvLength)
  <2>1. b = a
    BY <1>9 DEF T
  <2>2. Len(a) = IF y <= ArgvLength THEN y ELSE ArgvLength
    BY <1>1, <1>5, <1>6, <1>9
  <2>3. \A i \in T : i <= j /\ Sh!Ordinal(T, i) <= ArgvLength => a[Sh!Ordinal(T, i)] = Sh!Ordinal(Written(s), i - 1)
    <3> SUFFICES ASSUME NEW i \in T, i <= j, Sh!Ordinal(T, i) <= ArgvLength
                 PROVE  a[Sh!Ordinal(T, i)] = Sh!Ordinal(Written(s), i - 1)
      OBVIOUS
    <3>1. i # j
      <4> SUFFICES ASSUME i = j PROVE FALSE
        OBVIOUS
      <4>1. y <= ArgvLength /\ j \in T
        BY DEF y
      <4> QED
        BY <1>1, <1>5, <1>6, <1>9, <4>1
    <3>2. i <= j - 1
      BY <1>1, <3>1
    <3> QED
      BY <1>6, <3>2
  <2> QED
    BY <1>6, <2>1, <2>2, <2>3 DEF Listed, T, y
<1> QED
  BY <1>8, <1>9

----------------------------------------------------------------------------
(* What a command is called with *)

\* An argument read out of the line is the word that begins there.
LEMMA WordIsRead ==
  ASSUME NEW s \in Seq(Char), Len(s) < LineLength, line \in LineTypes, Moved(line, s, Len(s)),
         line[Sh!Ordinal(Written(s), Len(s))] = Sh!End, NEW i \in Sh!Starts(s)
  PROVE  Sh!StringAt(Sh!Ordinal(Written(s), i - 1)) = Sh!Word(s, i)
<1> DEFINE n == Len(s)
           T == Written(s)
           ends == {j \in i .. Len(s) : Sh!Gap(s, j)} \cup {Len(s) + 1}
           e == Sh!Min(ends)
           last == Sh!Min({j \in i .. Len(s) : Sh!Gap(s, j)} \cup {Len(s) + 1}) - 1
           kept == {j \in i .. last : s[j] # Sh!Quote}
           spot(k) == CHOOSE j \in kept : Sh!Ordinal(kept, j) = k
           o == Sh!Ordinal(T, i - 1)
           c == Cardinality(kept)
<1>1. /\ \A q \in T : q \in Nat /\ q # 0 /\ q <= n
      /\ n \in Nat /\ LineLength \in Nat /\ i \in Nat /\ i # 0 /\ i <= n + 1
  BY WrittenAre, KeysAre
<1>2. i - 1 \in Nat /\ i - 1 <= n
  BY <1>1
<1>3. e \in ends /\ \A j \in ends : e <= j
  <2>1. ends \subseteq Nat /\ ends # {}
    BY <1>1
  <2> HIDE DEF ends
  <2> QED
    BY <2>1, MinIs
<1>4. /\ e \in Nat /\ i <= e /\ e <= n + 1 /\ last = e - 1 /\ last \in Nat
      /\ e # n + 1 => Sh!Gap(s, e)
      /\ \A j \in i .. last : j \in 1 .. n /\ ~ Sh!Gap(s, j)
  <2>1. e \in Nat /\ i <= e /\ e <= n + 1 /\ (e # n + 1 => Sh!Gap(s, e))
    BY <1>1, <1>3
  <2>2. last = e - 1 /\ last \in Nat
    BY <1>1, <2>1
  <2>3. ASSUME NEW j \in i .. last PROVE j \in 1 .. n /\ ~ Sh!Gap(s, j)
    <3>1. j \in Nat /\ i <= j /\ j < e
      BY <1>1, <2>1, <2>2
    <3>2. j \in 1 .. n
      BY <1>1, <2>1, <3>1
    <3>3. j \notin ends
      BY <1>3, <3>1
    <3> QED
      BY <3>1, <3>2, <3>3
  <2> HIDE DEF e, last, ends
  <2> QED
    BY <2>1, <2>2, <2>3
<1>5. kept = {j \in T : i - 1 < j /\ j <= last}
  <2>1. ASSUME NEW j \in kept PROVE j \in T /\ i - 1 < j /\ j <= last
    <3>1. j \in i .. last /\ s[j] # Sh!Quote
      OBVIOUS
    <3>2. j \in 1 .. n /\ ~ Sh!Gap(s, j)
      BY <1>4, <3>1
    <3>3. i - 1 < j /\ j <= last
      BY <1>1, <1>4, <3>1
    <3> QED
      BY <3>1, <3>2, <3>3 DEF Written
  <2>2. ASSUME NEW j \in T, i - 1 < j, j <= last PROVE j \in kept
    <3>1. j \in i .. last
      BY <1>1, <1>4, <2>2
    <3>2. s[j] # Sh!Quote
      BY DEF Written
    <3> QED
      BY <3>1, <3>2
  <2> HIDE DEF kept, T, last
  <2> QED
    BY <2>1, <2>2
<1>6. i - 1 <= last /\ last <= n /\ \A q \in kept : q \in Nat /\ q # 0 /\ q <= last /\ q \in T /\ q \in i .. last /\ i - 1 < q
  <2>1. i - 1 <= last /\ last <= n
    BY <1>1, <1>4
  <2>2. \A q \in kept : q \in T /\ q <= last /\ q \in i .. last /\ i - 1 < q
    BY <1>5
  <2> HIDE DEF kept, last, T
  <2> QED
    BY <1>1, <2>1, <2>2
<1>60. o \in Nat
  BY <1>1, <1>2, OrdinalIn
<1> HIDE DEF T, ends, e, last, kept
<1>7. ASSUME NEW m \in Nat, i - 1 <= m, m <= last
      PROVE  Sh!Ordinal(T, m) = o + Sh!Ordinal(kept, m)
  BY <1>1, <1>2, <1>4, <1>5, <1>7, OrdinalWithin
<1>8. c = Sh!Ordinal(kept, last) /\ c \in Nat
  <2>1. kept \subseteq 1 .. last
    BY <1>4, <1>6
  <2> QED
    BY <1>4, <2>1, OrdinalLast
<1>9. Sh!Ordinal(T, last) = o + c
  BY <1>4, <1>6, <1>7, <1>8
<1> HIDE DEF o
<1>10. o + c \in 0 .. LineLength - 1
  <2>1. Sh!Ordinal(T, last) \in Nat /\ Sh!Ordinal(T, last) <= last
    BY <1>1, <1>4, OrdinalIn
  <2> QED
    BY <1>1, <1>4, <1>6, <1>8, <1>9, <1>60, <2>1
<1>11. line[o + c] = Sh!End
  <2>1. CASE e = n + 1
    <3>1. last = n
      BY <1>1, <1>4, <2>1
    <3>2. Sh!Ordinal(T, n) = o + c
      BY <1>9, <3>1
    <3> QED
      BY <3>2 DEF T
  <2>2. CASE e # n + 1
    <3>1. e \in 1 .. n /\ Sh!Gap(s, e) /\ i <= n
      BY <1>1, <1>4, <2>2
    <3>2. ~ Sh!Gap(s, i)
      <4>1. i \in 1 .. n
        BY <1>1, <3>1
      <4>2. i # n + 1
        BY <1>1, <3>1
      <4> QED
        BY <4>1, <4>2 DEF Sh!Starts
    <3>3. e # i
      BY <3>1, <3>2
    <3>4. e - 1 \in i .. last /\ e - 1 = last
      BY <1>1, <1>4, <3>3
    <3>5. ~ Sh!Gap(s, e - 1) /\ e # 1
      BY <1>1, <1>4, <3>3, <3>4
    <3>6. s[e] # Sh!Quote /\ Put(s, e) = Sh!End
      BY <3>1, PutIs, KeysAre
    <3>7. e \in T
      BY <3>1, <3>5, <3>6 DEF T, Written
    <3>8. Sh!Ordinal(T, last + 1) = Sh!Ordinal(T, last) + (IF last + 1 \in T THEN 1 ELSE 0)
      BY <1>1, <1>4, OrdinalNext
    <3>9. last + 1 = e
      BY <1>4
    <3>10. Sh!Ordinal(T, e) - 1 = o + c
      BY <1>8, <1>60, <1>9, <3>7, <3>8, <3>9
    <3>11. line[Sh!Ordinal(T, e) - 1] = Put(s, e)
      BY <1>1, <3>1, <3>7 DEF Moved, T
    <3> QED
      BY <3>6, <3>10, <3>11
  <2> QED
    BY <2>1, <2>2
<1>12. ASSUME NEW k \in 1 .. c
       PROVE  /\ spot(k) \in kept /\ Sh!Ordinal(kept, spot(k)) = k
              /\ line[o + k - 1] = s[spot(k)] /\ s[spot(k)] # Sh!End
  <2>1. \E j \in kept : Sh!Ordinal(kept, j) = k
    <3>1. k \in Nat /\ 1 <= k /\ k <= Sh!Ordinal(kept, last)
      BY <1>8
    <3>2. \A q \in kept : q \in Nat /\ q # 0
      BY <1>6
    <3> QED
      BY <1>4, <3>1, <3>2, OrdinalReached
  <2> DEFINE j == spot(k)
  <2>2. j \in kept /\ Sh!Ordinal(kept, j) = k
    BY <2>1
  <2>20. j = spot(k)
    OBVIOUS
  <2> HIDE DEF j, spot
  <2>3. j \in Nat /\ j <= last /\ j \in T /\ i - 1 <= j /\ j <= n
    BY <1>1, <1>6, <2>2, <1>4
  <2>4. Sh!Ordinal(T, j) = o + k
    BY <1>7, <2>2, <2>3
  <2>5. line[Sh!Ordinal(T, j) - 1] = Put(s, j)
    BY <2>3 DEF Moved, T
  <2>6. j \in 1 .. n /\ ~ Sh!Gap(s, j)
    BY <1>4, <1>6, <2>2
  <2>7. Put(s, j) = s[j] /\ Put(s, j) # Sh!End
    <3>1. Put(s, j) = Sh!End <=> Sh!Gap(s, j)
      BY <2>6, PutIs
    <3> QED
      BY <2>6, <3>1 DEF Put
  <2>8. line[o + k - 1] = s[j] /\ s[j] # Sh!End
    <3>1. Sh!Ordinal(T, j) - 1 = o + k - 1
      BY <1>60, <2>4
    <3> QED
      BY <2>5, <2>7, <3>1
  <2>9. j \in kept /\ Sh!Ordinal(kept, j) = k /\ line[o + k - 1] = s[j] /\ s[j] # Sh!End
    BY <2>2, <2>8
  <2> QED
    BY <2>9, <2>20, Zenon
<1>13. Sh!Min({x \in o .. LineLength - 1 : line[x] = Sh!End}) = o + c
  <2> DEFINE X == {x \in o .. LineLength - 1 : line[x] = Sh!End}
  <2>1. o + c \in X /\ X \subseteq Nat /\ X # {}
    BY <1>8, <1>60, <1>10, <1>11, <1>1
  <2>2. ASSUME NEW x \in X, x < o + c PROVE FALSE
    <3>1. x \in Nat /\ o <= x /\ line[x] = Sh!End
      BY <1>60
    <3>2. x - o + 1 \in 1 .. c /\ o + (x - o + 1) - 1 = x
      BY <1>8, <1>60, <2>2, <3>1
    <3>3. PICK k : k = x - o + 1
      OBVIOUS
    <3>4. k \in 1 .. c /\ o + k - 1 = x
      BY <3>2, <3>3
    <3> QED
      BY <1>12, <3>1, <3>4
  <2> HIDE DEF X
  <2>3. Sh!Min(X) \in X /\ \A x \in X : Sh!Min(X) <= x
    BY <2>1, MinIs
  <2>4. Sh!Min(X) \in Nat /\ Sh!Min(X) <= o + c /\ ~ (Sh!Min(X) < o + c)
    BY <2>1, <2>2, <2>3
  <2> QED
    BY <1>8, <1>60, <2>4 DEF X
<1>14. Sh!StringAt(o) = [k \in 1 .. c |-> line[o + k - 1]]
  <2>1. Sh!StringAt(o) = [k \in 1 .. (o + c) - 1 - o + 1 |-> line[o + k - 1]]
    BY <1>13 DEF Sh!StringAt
  <2>2. (o + c) - 1 - o + 1 = c
    BY <1>8, <1>60
  <2> QED
    BY <2>1, <2>2
<1>15. Sh!Word(s, i) = [k \in 1 .. c |-> s[spot(k)]]
  BY CountsAlike, Zenon DEF Sh!Word, kept, last
<1>16. [k \in 1 .. c |-> line[o + k - 1]] = [k \in 1 .. c |-> s[spot(k)]]
  BY <1>12
<1> QED
  BY <1>14, <1>15, <1>16 DEF o, T

----------------------------------------------------------------------------
(* The invariant *)

\* The parts of the line that parse_line has read and written when it comes to its next character.
Parsing(s, p, l, a) ==
  /\ p.read \in 0 .. Len(s)
  /\ p.write = Sh!Ordinal(Written(s), p.read)
  /\ \A i \in p.read .. Len(s) - 1 : l[i] = s[i + 1]
  /\ l[Len(s)] = Sh!End
  /\ p.quoted = TRUE <=> Sh!Quoted(s, p.read + 1)
  /\ p.scanning = TRUE <=> (p.read = 0 \/ Sh!Gap(s, p.read))
  /\ p.read # 0 /\ Sh!Gap(s, p.read) => p.read # 1 /\ ~ Sh!Gap(s, p.read - 1)
  /\ Moved(l, s, p.read)
  /\ Listed(a, s, p.read)

\* The line and argv when parse_line returns.
Split(s, l, a) ==
  /\ Moved(l, s, Len(s))
  /\ l[Sh!Ordinal(Written(s), Len(s))] = Sh!End
  /\ Listed(a, s, Len(s) + 1)

ShellInv ==
  /\ line \in LineTypes
  /\ typed \in Seq(Sh!Keys)
  /\ parse \in [read : Nat, write : Nat, quoted : BOOLEAN, scanning : BOOLEAN]
  /\ error_count \in Nat
  /\ place \in {"read", "parse", "dispatch", "command"} => error_count = 0
  /\ EditedAs(typed) \in Seq(Char) /\ Len(EditedAs(typed)) = index /\ index < LineLength
  /\ place \in {"boot", "signal"} => index = 0
  /\ place = "read" => \A i \in 0 .. index - 1 : line[i] = EditedAs(typed)[i + 1]
  /\ place = "parse" => Parsing(EditedAs(typed), parse, line, argv)
  /\ place = "dispatch" => Split(EditedAs(typed), line, argv)

LEMMA Failures ==
  ASSUME error_count \in Nat, NEW depth \in Nat, Sh!Failed(depth)
  PROVE  error_count' \in Nat
<1> DEFINE T == {ERROR_STACK_MAX_ENTRIES, error_count + depth}
<1>1. T \subseteq Nat /\ T # {}
  BY ShellAssumption DEF Sh!ConstantsOK
<1>2. error_count' = Sh!Min(T)
  BY DEF Sh!Failed
<1> HIDE DEF T
<1>3. Sh!Min(T) \in T
  BY <1>1, MinIs
<1> QED
  BY <1>1, <1>2, <1>3

LEMMA ShellStarts == Sh!Init => ShellInv
<1> SUFFICES ASSUME Sh!Init PROVE ShellInv
  OBVIOUS
<1>1. /\ place = "boot" /\ index = 0 /\ parse = Sh!NoParse /\ error_count = 0 /\ typed = <<>>
      /\ line \in {[i \in 0 .. LineLength - 1 |-> garbage] : garbage \in Letter \cup {Sh!End}}
  BY DEF Sh!Init
<1>2. line \in LineTypes
  BY <1>1 DEF LineTypes, Char
<1>3. EditedAs(typed) = <<>> /\ typed \in Seq(Sh!Keys)
  BY <1>1, EditedNone
<1>4. EditedAs(typed) \in Seq(Char) /\ Len(EditedAs(typed)) = 0
  BY <1>3
<1>5. parse \in [read : Nat, write : Nat, quoted : BOOLEAN, scanning : BOOLEAN]
  BY <1>1 DEF Sh!NoParse
<1> QED
  BY <1>1, <1>2, <1>3, <1>4, <1>5, KeysAre DEF ShellInv

\* Steps outside of the line: boot, the command and what it prints.
LEMMA OtherKeep ==
  ASSUME ShellInv, Sh!Booted \/ Sh!BootFailed \/ Sh!Record \/ Sh!Signalled \/ Sh!CallCommand \/ Sh!CommandReturns
  PROVE  ShellInv'
<1>1. /\ line' = line /\ typed' = typed /\ parse' = parse /\ index' = index
      /\ place' \notin {"parse", "dispatch"}
      /\ place' = "read" => error_count' = 0 /\ index = 0
      /\ place' \in {"boot", "signal"} => index = 0
      /\ place' = "command" => error_count' = 0
  BY DEF ShellInv, Sh!Booted, Sh!BootFailed, Sh!Record, Sh!Signalled, Sh!CallCommand, Sh!CommandReturns, Sh!error_stack_print
<1>2. error_count' \in Nat
  <2>1. error_count \in Nat /\ MaxDepth \in Nat
    BY ShellAssumption DEF ShellInv, Sh!ConstantsOK
  <2>2. \/ error_count' = error_count \/ error_count' = 0
        \/ \E depth \in 1 .. MaxDepth : Sh!Failed(depth)
    BY <2>1 DEF Sh!Booted, Sh!BootFailed, Sh!Record, Sh!Signalled, Sh!CallCommand, Sh!CommandReturns, Sh!error_stack_print
  <2>3. CASE \E depth \in 1 .. MaxDepth : Sh!Failed(depth)
    BY <2>1, <2>3, Failures
  <2> QED
    BY <2>1, <2>2, <2>3
<1>3. \A i \in 0 .. 0 - 1 : FALSE
  OBVIOUS
<1> QED
  BY <1>1, <1>2, <1>3 DEF ShellInv

LEMMA AgainKeeps ==
  ASSUME ShellInv, Sh!NotFound \/ Sh!PrintErrors
  PROVE  ShellInv'
<1>1. /\ line' = line /\ typed' = <<>> /\ parse' = parse /\ index' = 0 /\ place' = "read" /\ error_count' = 0
  BY DEF ShellInv, Sh!NotFound, Sh!PrintErrors, Sh!ReadAgain, Sh!error_stack_print
<1>2. EditedAs(typed') = <<>>
  BY <1>1, EditedNone
<1>3. EditedAs(typed') \in Seq(Char) /\ Len(EditedAs(typed')) = 0 /\ typed' \in Seq(Sh!Keys)
  <2>1. <<>> \in Seq(Char) /\ Len(<<>>) = 0 /\ <<>> \in Seq(Sh!Keys)
    OBVIOUS
  <2> QED
    BY <1>1, <1>2, <2>1
<1>4. \A i \in 0 .. 0 - 1 : FALSE
  OBVIOUS
<1> QED
  BY <1>1, <1>3, <1>4, KeysAre DEF ShellInv

LEMMA KeyKeeps ==
  ASSUME ShellInv, NEW key \in Sh!Keys, Sh!Key(key)
  PROVE  ShellInv'
<1> DEFINE s == EditedAs(typed)
           u == Sh!Edit(s, key)
<1>1. /\ line \in LineTypes /\ typed \in Seq(Sh!Keys) /\ s \in Seq(Char) /\ Len(s) = index /\ index < LineLength
      /\ index \in Nat /\ LineLength \in Nat /\ key # Sh!Enter
      /\ \A i \in 0 .. index - 1 : line[i] = s[i + 1]
  BY KeysAre DEF ShellInv, Sh!Key
<1>2. place' = "read" /\ typed' = Append(typed, key) /\ parse' = parse /\ error_count' = error_count /\ error_count = 0
  BY DEF Sh!Key, ShellInv
<1>3. EditedAs(typed') = u /\ typed' \in Seq(Sh!Keys)
  <2>1. EditedAs(Append(typed, key)) = u
    BY <1>1, EditedNext
  <2> QED
    BY <1>1, <1>2, <2>1
<1> HIDE DEF s, u
<1>4. /\ u \in Seq(Char)
      /\ key = Sh!Delete /\ Len(s) > 0 => Len(u) = Len(s) - 1
      /\ key = Sh!Delete /\ Len(s) = 0 => Len(u) = 0
      /\ key # Sh!Delete /\ Len(s) < LineLength - 1 => Len(u) = Len(s) + 1
      /\ key # Sh!Delete /\ ~ (Len(s) < LineLength - 1) => Len(u) = Len(s)
      /\ \A i \in 1 .. Len(u) : u[i] = IF i <= Len(s) THEN s[i] ELSE key
  BY <1>1, EditIs DEF u
<1>5. /\ key = Sh!Delete => line' = line /\ index' = IF index > 0 THEN index - 1 ELSE 0
      /\ key # Sh!Delete /\ index < LineLength - 1 => line' = [line EXCEPT ![index] = key] /\ index' = index + 1
      /\ key # Sh!Delete /\ ~ (index < LineLength - 1) => line' = line /\ index' = index
  BY DEF Sh!Key
<1>6. Len(u) = index' /\ index' < LineLength /\ index' \in Nat
  BY <1>1, <1>4, <1>5
<1>7. line' \in LineTypes /\ \A i \in 0 .. index' - 1 : line'[i] = u[i + 1]
  <2>1. CASE key # Sh!Delete /\ index < LineLength - 1
    <3>1. key \in Char /\ index \in 0 .. LineLength - 1
      BY <1>1, <2>1, KeysAre
    <3>2. line' \in LineTypes /\ line'[index] = key /\ \A i \in 0 .. index - 1 : line'[i] = line[i]
      BY <1>1, <1>5, <2>1, <3>1 DEF LineTypes
    <3>3. ASSUME NEW i \in 0 .. index' - 1 PROVE line'[i] = u[i + 1]
      <4>1. i \in Nat /\ i <= index /\ i + 1 \in 1 .. Len(u)
        BY <1>1, <1>5, <1>6, <2>1
      <4>2. CASE i = index
        BY <1>1, <1>4, <3>2, <4>1, <4>2
      <4>3. CASE i # index
        <5>1. i \in 0 .. index - 1 /\ i + 1 <= Len(s)
          BY <1>1, <4>1, <4>3
        <5> QED
          BY <1>1, <1>4, <3>2, <4>1, <5>1
      <4> QED
        BY <4>2, <4>3
    <3> QED
      BY <3>2, <3>3
  <2>2. CASE ~ (key # Sh!Delete /\ index < LineLength - 1)
    <3>1. line' = line /\ index' <= index
      BY <1>1, <1>5, <2>2
    <3>2. ASSUME NEW i \in 0 .. index' - 1 PROVE line[i] = u[i + 1]
      <4>0. PICK x : x = index'
        OBVIOUS
      <4>1. i \in Nat /\ i <= index' - 1
        <5>1. x \in Nat /\ i \in 0 .. x - 1
          BY <1>6, <4>0
        <5>2. i \in Nat /\ i <= x - 1
          BY <5>1
        <5> QED
          BY <4>0, <5>2
      <4>2. x \in Nat /\ x <= index /\ index \in Nat /\ i <= x - 1 /\ Len(u) = x /\ Len(s) = index
        BY <1>1, <1>6, <3>1, <4>0, <4>1
      <4>3. i \in 0 .. index - 1 /\ i + 1 \in 1 .. x /\ i + 1 <= index
        BY <4>1, <4>2
      <4>4. i \in 0 .. index - 1 /\ i + 1 \in 1 .. Len(u) /\ i + 1 <= Len(s)
        BY <4>2, <4>3
      <4> QED
        BY <1>1, <1>4, <4>4
    <3> QED
      BY <1>1, <3>1, <3>2
  <2> QED
    BY <2>1, <2>2
<1>8. parse \in [read : Nat, write : Nat, quoted : BOOLEAN, scanning : BOOLEAN]
  BY DEF ShellInv
<1> QED
  BY <1>2, <1>3, <1>4, <1>6, <1>7, <1>8 DEF ShellInv

\* A line without words so far.
LEMMA NothingListed ==
  ASSUME NEW s \in Seq(Char), NEW l
  PROVE  Moved(l, s, 0) /\ Listed(<<>>, s, 0) /\ Sh!Ordinal(Written(s), 0) = 0
<1>1. /\ \A q \in Written(s) : q \in Nat /\ q # 0
      /\ \A q \in Sh!Starts(s) : q \in Nat /\ q # 0
      /\ ArgvLength \in Nat
  BY WrittenAre, KeysAre
<1>2. Sh!Ordinal(Sh!Starts(s), 0) = 0 /\ Sh!Ordinal(Written(s), 0) = 0
  BY <1>1, OrdinalNone
<1>3. Moved(l, s, 0)
  BY <1>1 DEF Moved
<1>4. <<>> \in Seq(Nat) /\ Len(<<>>) = 0
  OBVIOUS
<1>5. \A i \in Sh!Starts(s) : ~ (i <= 0)
  BY <1>1
<1>6. Listed(<<>>, s, 0)
  BY <1>1, <1>2, <1>4, <1>5 DEF Listed
<1> QED
  BY <1>2, <1>3, <1>6

LEMMA EnterKeeps ==
  ASSUME ShellInv, Sh!EnterKey
  PROVE  ShellInv'
<1>1. PICK s : s = EditedAs(typed)
  OBVIOUS
<1>2. /\ line \in LineTypes /\ s \in Seq(Char) /\ Len(s) = index /\ index < LineLength
      /\ index \in Nat /\ LineLength \in Nat
      /\ \A i \in 0 .. index - 1 : line[i] = s[i + 1]
  BY <1>1, KeysAre DEF ShellInv, Sh!EnterKey
<1>3. /\ line' = [line EXCEPT ![index] = Sh!End] /\ parse' = Sh!NoParse /\ argv' = <<>> /\ place' = "parse"
      /\ index' = index /\ typed' = typed /\ error_count' = error_count /\ error_count = 0
  BY DEF Sh!EnterKey, ShellInv
<1>4. index \in 0 .. LineLength - 1
  BY <1>2
<1>5. line' \in LineTypes /\ line'[index] = Sh!End /\ \A i \in 0 .. index - 1 : line'[i] = s[i + 1]
  BY <1>2, <1>3, <1>4 DEF LineTypes
<1>6. /\ parse'.read = 0 /\ parse'.write = 0 /\ parse'.quoted = FALSE /\ parse'.scanning = TRUE
      /\ parse' \in [read : Nat, write : Nat, quoted : BOOLEAN, scanning : BOOLEAN]
  BY <1>3 DEF Sh!NoParse
<1>7. Parsing(s, parse', line', argv')
  <2>1. Moved(line', s, 0) /\ Listed(argv', s, 0) /\ Sh!Ordinal(Written(s), 0) = 0
    BY <1>2, <1>3, NothingListed
  <2>2. ~ Sh!Quoted(s, 0 + 1)
    <3>1. 0 + 1 = 1
      OBVIOUS
    <3> QED
      BY <1>2, <3>1, QuotedFirst
  <2> QED
    BY <1>2, <1>5, <1>6, <2>1, <2>2 DEF Parsing
<1> QED
  BY <1>1, <1>2, <1>3, <1>5, <1>6, <1>7 DEF ShellInv

\* Where the next character is found, and what lies before it.
LEMMA ReadAtIs ==
  ASSUME ShellInv, place = "parse", NEW s, s = EditedAs(typed)
  PROVE  /\ Sh!ReadAt \in Nat /\ parse.read \in Nat /\ parse.read <= Sh!ReadAt /\ Sh!ReadAt <= Len(s) /\ Len(s) < LineLength
         /\ line[Sh!ReadAt] = Sh!End <=> Sh!ReadAt = Len(s)
         /\ Sh!ReadAt # Len(s) => line[Sh!ReadAt] = s[Sh!ReadAt + 1]
         /\ parse.scanning # TRUE => Sh!ReadAt = parse.read
         /\ parse.scanning = TRUE => line[Sh!ReadAt] # Sh!Blank
         /\ \A i \in parse.read + 1 .. Sh!ReadAt : i \in 1 .. Len(s) /\ s[i] = Sh!Blank
         /\ line[parse.read] = Sh!End <=> parse.read = Len(s)
<1> DEFINE r == parse.read
           n == Len(s)
           T == {i \in r .. LineLength - 1 : line[i] # Sh!Blank}
<1>1. /\ s \in Seq(Char) /\ n < LineLength /\ n \in Nat /\ LineLength \in Nat
      /\ r \in 0 .. n /\ parse.scanning \in BOOLEAN
      /\ line[n] = Sh!End
      /\ \A i \in r .. n - 1 : line[i] = s[i + 1]
  <2>1. /\ s \in Seq(Char) /\ n < LineLength /\ LineLength \in Nat
        /\ parse.scanning \in BOOLEAN /\ Parsing(s, parse, line, argv)
    BY KeysAre DEF ShellInv
  <2>2. n \in Nat
    BY <2>1, WrittenAre
  <2> QED
    BY <2>1, <2>2 DEF Parsing
<1>2. \A i \in r .. n : line[i] = Sh!End <=> i = n
  <2>1. ASSUME NEW i \in r .. n, i # n PROVE line[i] # Sh!End
    <3>1. i \in r .. n - 1 /\ i + 1 \in 1 .. n
      BY <1>1, <2>1
    <3>2. line[i] = s[i + 1] /\ s[i + 1] \in Char
      BY <1>1, <3>1
    <3> QED
      BY <3>2, KeysAre
  <2> QED
    BY <1>1, <2>1
<1>3. CASE parse.scanning # TRUE
  <2>1. Sh!ReadAt = r
    BY <1>1, <1>3 DEF Sh!ReadAt
  <2>2. \A i \in r + 1 .. r : FALSE
    BY <1>1
  <2> HIDE DEF r
  <2>3. r \in r .. n /\ r \in Nat /\ r <= n /\ r <= r
    BY <1>1 DEF r
  <2>4. line[r] = Sh!End <=> r = n
    BY <1>2, <2>3 DEF r
  <2>5. r # n => line[r] = s[r + 1]
    <3>1. r # n => r \in r .. n - 1
      BY <1>1, <2>3
    <3> QED
      BY <1>1, <3>1 DEF r
  <2> QED
    BY <1>1, <1>3, <2>1, <2>2, <2>3, <2>4, <2>5 DEF r
<1>4. CASE parse.scanning = TRUE
  <2>1. n \in T /\ T \subseteq Nat /\ T # {}
    BY <1>1, KeysAre DEF Char
  <2>2. Sh!ReadAt = Sh!Min(T)
    BY <1>4 DEF Sh!ReadAt
  <2> HIDE DEF T
  <2>3. Sh!Min(T) \in T /\ \A i \in T : Sh!Min(T) <= i
    BY <2>1, MinIs
  <2>4. Sh!ReadAt \in r .. LineLength - 1 /\ line[Sh!ReadAt] # Sh!Blank /\ Sh!ReadAt <= n
    BY <2>1, <2>2, <2>3 DEF T
  <2>5. ASSUME NEW i \in r + 1 .. Sh!ReadAt PROVE i \in 1 .. n /\ s[i] = Sh!Blank
    <3>1. i \in 1 .. n /\ i - 1 \in r .. n - 1 /\ i - 1 < Sh!ReadAt /\ (i - 1) + 1 = i /\ i - 1 \in Nat
      BY <1>1, <2>4
    <3>2. i - 1 \notin T
      BY <1>1, <2>2, <2>3, <2>4, <3>1
    <3>3. line[i - 1] = Sh!Blank
      BY <1>1, <3>1, <3>2 DEF T
    <3> QED
      BY <1>1, <3>1, <3>3
  <2>6. Sh!ReadAt \in r .. n /\ r \in r .. n /\ Sh!ReadAt \in Nat /\ r \in Nat /\ r <= Sh!ReadAt /\ Sh!ReadAt <= n
    BY <1>1, <2>4
  <2>7. (line[Sh!ReadAt] = Sh!End <=> Sh!ReadAt = n) /\ (line[r] = Sh!End <=> r = n)
    BY <1>2, <2>6
  <2>8. Sh!ReadAt # n => line[Sh!ReadAt] = s[Sh!ReadAt + 1]
    <3>1. Sh!ReadAt # n => Sh!ReadAt \in r .. n - 1
      BY <1>1, <2>6
    <3> QED
      BY <1>1, <3>1
  <2> HIDE DEF r, n
  <2> QED
    BY <1>1, <1>4, <2>4, <2>5, <2>6, <2>7, <2>8 DEF r, n
<1> QED
  BY <1>3, <1>4

\* The blanks that are skipped are gaps in which nothing is written.
LEMMA SkippedAre ==
  ASSUME ShellInv, place = "parse", NEW s, s = EditedAs(typed), NEW m, m = Sh!ReadAt
  PROVE  /\ Sh!Quoted(s, m + 1) <=> parse.quoted = TRUE
         /\ parse.scanning = TRUE => ~ Sh!Quoted(s, m + 1) /\ (m = 0 \/ Sh!Gap(s, m))
         /\ \A i \in parse.read + 1 .. m : i \notin Written(s) /\ i \notin Sh!Starts(s)
         /\ Moved(line, s, m) /\ Listed(argv, s, m) /\ parse.write = Sh!Ordinal(Written(s), m)
         /\ parse.read # m => Sh!Gap(s, m) /\ (m = 1 \/ Sh!Gap(s, m - 1))
<1> DEFINE r == parse.read
           n == Len(s)
<1>1. /\ m \in Nat /\ r \in Nat /\ r <= m /\ m <= n /\ n < LineLength /\ n \in Nat
      /\ \A i \in r + 1 .. m : i \in 1 .. n /\ s[i] = Sh!Blank
      /\ parse.scanning # TRUE => m = r
  <2>1. /\ Sh!ReadAt \in Nat /\ parse.read \in Nat /\ parse.read <= Sh!ReadAt /\ Sh!ReadAt <= Len(s)
        /\ Len(s) < LineLength
        /\ \A i \in parse.read + 1 .. Sh!ReadAt : i \in 1 .. Len(s) /\ s[i] = Sh!Blank
        /\ parse.scanning # TRUE => Sh!ReadAt = parse.read
    BY ReadAtIs
  <2>2. Len(s) \in Nat
    BY WrittenAre DEF ShellInv
  <2> QED
    BY <2>1, <2>2
<1>2. /\ s \in Seq(Char)
      /\ parse.quoted = TRUE <=> Sh!Quoted(s, r + 1)
      /\ parse.scanning = TRUE <=> (r = 0 \/ Sh!Gap(s, r))
      /\ parse.write = Sh!Ordinal(Written(s), r)
      /\ Moved(line, s, r) /\ Listed(argv, s, r)
  BY DEF ShellInv, Parsing
<1> HIDE DEF r, n
<1>3. ASSUME NEW k \in Nat, r <= k, k <= m PROVE Sh!Quoted(s, k + 1) <=> Sh!Quoted(s, r + 1)
  <2>1. \A i \in r + 1 .. k : s[i] # Sh!Quote
    BY <1>1, <1>3, KeysAre
  <2>2. k <= Len(s)
    BY <1>1, <1>3 DEF n
  <2> QED
    BY <1>1, <1>2, <1>3, <2>1, <2>2, QuotedSame
<1>4. parse.scanning = TRUE => ~ Sh!Quoted(s, r + 1)
  <2> SUFFICES ASSUME parse.scanning = TRUE PROVE ~ Sh!Quoted(s, r + 1)
    OBVIOUS
  <2>1. CASE r = 0
    BY <1>2, <2>1, QuotedFirst
  <2>2. CASE r # 0
    <3>1. Sh!Gap(s, r) /\ r \in 1 .. Len(s)
      BY <1>1, <1>2, <2>2 DEF n
    <3>2. s[r] = Sh!Blank /\ ~ Sh!Quoted(s, r)
      BY <1>2, <3>1, PutIs
    <3>3. s[r] # Sh!Quote
      BY <3>2, KeysAre
    <3> QED
      BY <1>2, <3>1, <3>2, <3>3, QuotedNext
  <2> QED
    BY <2>1, <2>2
<1>5. ASSUME NEW i \in r + 1 .. m PROVE Sh!Gap(s, i) /\ (i = 1 \/ Sh!Gap(s, i - 1))
  <2>1. parse.scanning = TRUE
    <3>1. r # m
      BY <1>1
    <3>2. parse.scanning # TRUE => m = r
      BY <1>1
    <3> QED
      BY <3>1, <3>2, Zenon
  <2>2. ASSUME NEW k \in r + 1 .. m PROVE Sh!Gap(s, k)
    <3>1. k - 1 \in Nat /\ r <= k - 1 /\ k - 1 <= m /\ (k - 1) + 1 = k
      BY <1>1
    <3>2. Sh!Quoted(s, (k - 1) + 1) <=> Sh!Quoted(s, r + 1)
      BY <1>3, <3>1
    <3> QED
      BY <1>1, <1>4, <2>1, <3>1, <3>2 DEF Sh!Gap
  <2>3. CASE i = r + 1
    <3>1. i - 1 = r
      BY <1>1, <2>3
    <3> QED
      BY <1>1, <1>2, <2>1, <2>2, <2>3, <3>1
  <2>4. CASE i # r + 1
    <3>1. i - 1 \in r + 1 .. m
      BY <1>1, <2>4
    <3> QED
      BY <2>2, <3>1
  <2> QED
    BY <2>3, <2>4
<1>6. ASSUME NEW i \in r + 1 .. m PROVE i \notin Written(s) /\ i \notin Sh!Starts(s)
  <2>1. Sh!Gap(s, i) /\ (i = 1 \/ Sh!Gap(s, i - 1)) /\ i \in 1 .. Len(s) /\ Len(s) \in Nat
    BY <1>1, <1>5 DEF n
  <2>2. i # Len(s) + 1
    BY <2>1
  <2> QED
    BY <2>1, <2>2 DEF Written, Sh!Starts
<1>7. /\ Moved(line, s, m) /\ Listed(argv, s, m)
      /\ Sh!Ordinal(Written(s), m) = Sh!Ordinal(Written(s), r)
  BY <1>1, <1>2, <1>6, MovedSame
<1>8. r # m => m \in r + 1 .. m
  BY <1>1
<1>9. Sh!Quoted(s, m + 1) <=> Sh!Quoted(s, r + 1)
  BY <1>1, <1>3
<1>10. parse.scanning = TRUE => (m = 0 \/ Sh!Gap(s, m))
  BY <1>2, <1>5, <1>8
<1> QED
  BY <1>2, <1>4, <1>5, <1>6, <1>7, <1>8, <1>9, <1>10 DEF r

\* What a character does to the line and to parse_line's indices and flags.
LEMMA CharacterIs ==
  ASSUME ShellInv, Sh!ParseCharacter, NEW s, s = EditedAs(typed), NEW m, m = Sh!ReadAt
  PROVE  /\ m \in Nat /\ m < Len(s) /\ m + 1 \in 1 .. Len(s)
         /\ line' = IF m + 1 \in Written(s) THEN [line EXCEPT ![parse.write] = Put(s, m + 1)] ELSE line
         /\ parse'.read = m + 1
         /\ parse'.write = parse.write + (IF m + 1 \in Written(s) THEN 1 ELSE 0)
         /\ parse'.quoted = TRUE <=> Sh!Quoted(s, (m + 1) + 1)
         /\ parse'.scanning = TRUE <=> Sh!Gap(s, m + 1)
         /\ parse'.quoted \in BOOLEAN /\ parse'.scanning \in BOOLEAN
         /\ parse' = [read |-> parse'.read, write |-> parse'.write, quoted |-> parse'.quoted,
                      scanning |-> parse'.scanning]
         /\ Sh!Gap(s, m + 1) => m + 1 # 1 /\ ~ Sh!Gap(s, m)
         /\ m + 1 \in Sh!Starts(s) <=> parse.scanning = TRUE
<1>0. place = "parse" /\ line[Sh!ReadAt] # Sh!End
  BY DEF Sh!ParseCharacter
<1>1. /\ m \in Nat /\ m # Len(s) /\ m <= Len(s) /\ Len(s) \in Nat /\ s \in Seq(Char)
      /\ line[m] = s[m + 1] /\ parse.quoted \in BOOLEAN /\ parse.scanning \in BOOLEAN
      /\ parse.scanning # TRUE => m = parse.read
      /\ parse.scanning = TRUE => s[m + 1] # Sh!Blank
  <2>1. /\ Sh!ReadAt \in Nat /\ Sh!ReadAt <= Len(s)
        /\ line[Sh!ReadAt] = Sh!End <=> Sh!ReadAt = Len(s)
        /\ Sh!ReadAt # Len(s) => line[Sh!ReadAt] = s[Sh!ReadAt + 1]
        /\ parse.scanning # TRUE => Sh!ReadAt = parse.read
        /\ parse.scanning = TRUE => line[Sh!ReadAt] # Sh!Blank
    BY <1>0, ReadAtIs
  <2>2. s \in Seq(Char) /\ parse.quoted \in BOOLEAN /\ parse.scanning \in BOOLEAN
    BY DEF ShellInv
  <2>3. Len(s) \in Nat
    BY <2>2, WrittenAre
  <2> QED
    BY <1>0, <2>1, <2>2, <2>3
<1>2. m < Len(s) /\ m + 1 \in 1 .. Len(s) /\ (m + 1) - 1 = m
  BY <1>1
<1>3. /\ Sh!Quoted(s, m + 1) <=> parse.quoted = TRUE
      /\ parse.scanning = TRUE => ~ Sh!Quoted(s, m + 1) /\ (m = 0 \/ Sh!Gap(s, m))
  BY <1>0, SkippedAre
<1>4. parse.scanning # TRUE => m # 0 /\ ~ Sh!Gap(s, m)
  <2>1. parse.scanning = TRUE <=> (parse.read = 0 \/ Sh!Gap(s, parse.read))
    BY <1>0 DEF ShellInv, Parsing
  <2> QED
    BY <1>1, <2>1
<1> DEFINE byte == s[m + 1]
           put == IF byte = Sh!Quote THEN Sh!Quote ELSE IF Sh!Gap(s, m + 1) THEN Sh!End ELSE byte
<1>5. byte \in Char /\ byte # Sh!End /\ Sh!Blank # Sh!Quote /\ Sh!End # Sh!Quote
  <2>1. Sh!End \notin Char /\ Sh!Quote \in Char /\ Sh!Blank # Sh!Quote
    BY KeysAre DEF Char
  <2> QED
    BY <1>1, <1>2, <2>1
<1>6. Sh!Gap(s, m + 1) <=> byte = Sh!Blank /\ parse.quoted # TRUE
  BY <1>3 DEF Sh!Gap
<1>7. Sh!Gap(s, m + 1) => m + 1 # 1 /\ ~ Sh!Gap(s, m)
  <2>1. m # 0 => m + 1 # 1
    BY <1>1
  <2>2. Sh!Gap(s, m + 1) => parse.scanning # TRUE
    BY <1>1, <1>6, Zenon
  <2> QED
    BY <1>4, <2>1, <2>2, Zenon
<1>8. m + 1 \in Written(s) <=> byte # Sh!Quote
  <2>1. m + 1 \in Written(s) <=> byte # Sh!Quote /\ (Sh!Gap(s, m + 1) => m + 1 # 1 /\ ~ Sh!Gap(s, m))
    BY <1>2 DEF Written
  <2> QED
    BY <1>7, <2>1
<1>9. m + 1 \in Sh!Starts(s) <=> parse.scanning = TRUE
  <2>1. m + 1 # Len(s) + 1
    BY <1>1
  <2>2. m + 1 \in Sh!Starts(s) <=> ~ Sh!Gap(s, m + 1) /\ (m + 1 = 1 \/ Sh!Gap(s, m))
    BY <1>2, <2>1 DEF Sh!Starts
  <2>3. m + 1 = 1 <=> m = 0
    BY <1>1
  <2>4. parse.scanning = TRUE => ~ Sh!Gap(s, m + 1)
    BY <1>1, <1>6
  <2> QED
    BY <1>3, <1>4, <2>2, <2>3, <2>4
<1>10. Sh!Quoted(s, (m + 1) + 1) <=> IF byte = Sh!Quote THEN ~ Sh!Quoted(s, m + 1) ELSE Sh!Quoted(s, m + 1)
  BY <1>1, <1>2, QuotedNext
<1>11. /\ line' = IF put = Sh!Quote THEN line ELSE [line EXCEPT ![parse.write] = put]
       /\ parse' = [read |-> m + 1, write |-> parse.write + (IF put = Sh!Quote THEN 0 ELSE 1),
                    quoted |-> IF byte = Sh!Quote THEN ~ parse.quoted
                               ELSE IF Sh!Gap(s, m + 1) THEN FALSE ELSE parse.quoted,
                    scanning |-> IF byte = Sh!Quote THEN FALSE ELSE IF Sh!Gap(s, m + 1) THEN TRUE ELSE FALSE]
  <2>1. byte = line[Sh!ReadAt] /\ m = Sh!ReadAt
    BY <1>1
  <2>2. CASE byte = Sh!Quote
    BY <1>5, <2>1, <2>2 DEF Sh!ParseCharacter
  <2>3. CASE byte # Sh!Quote /\ Sh!Gap(s, m + 1)
    <3>1. byte = Sh!Blank /\ ~ parse.quoted
      BY <1>1, <1>6, <2>3
    <3> QED
      BY <1>5, <2>1, <2>3, <3>1 DEF Sh!ParseCharacter
  <2>4. CASE byte # Sh!Quote /\ ~ Sh!Gap(s, m + 1)
    <3>1. ~ (byte = Sh!Blank /\ ~ parse.quoted)
      BY <1>1, <1>6, <2>4
    <3> QED
      BY <1>5, <2>1, <2>4, <3>1 DEF Sh!ParseCharacter
  <2> QED
    BY <2>2, <2>3, <2>4
<1>12. /\ put = Sh!Quote <=> byte = Sh!Quote
       /\ byte # Sh!Quote => put = Put(s, m + 1)
  BY <1>5 DEF Put
<1> HIDE DEF put, byte
<1>13. line' = IF m + 1 \in Written(s) THEN [line EXCEPT ![parse.write] = Put(s, m + 1)] ELSE line
  BY <1>8, <1>11, <1>12
<1>14. /\ parse'.read = m + 1
       /\ parse'.write = parse.write + (IF m + 1 \in Written(s) THEN 1 ELSE 0)
       /\ parse' = [read |-> parse'.read, write |-> parse'.write, quoted |-> parse'.quoted,
                    scanning |-> parse'.scanning]
  BY <1>8, <1>11, <1>12
<1>15. /\ parse'.quoted \in BOOLEAN /\ parse'.scanning \in BOOLEAN
       /\ parse'.quoted = TRUE <=> Sh!Quoted(s, (m + 1) + 1)
  BY <1>1, <1>3, <1>6, <1>10, <1>11
<1>16. parse'.scanning = TRUE <=> Sh!Gap(s, m + 1)
  BY <1>5, <1>6, <1>11
<1> QED
  BY <1>1, <1>2, <1>7, <1>9, <1>13, <1>14, <1>15, <1>16

LEMMA CharacterKeeps ==
  ASSUME ShellInv, Sh!ParseCharacter
  PROVE  ShellInv'
<1>1. PICK s : s = EditedAs(typed)
  OBVIOUS
<1>2. PICK m : m = Sh!ReadAt
  OBVIOUS
<1> DEFINE j == m + 1
           w == Sh!Ordinal(Written(s), m)
<1>3. /\ m \in Nat /\ m < Len(s) /\ j \in 1 .. Len(s)
      /\ line' = IF j \in Written(s) THEN [line EXCEPT ![parse.write] = Put(s, j)] ELSE line
      /\ parse'.read = j
      /\ parse'.write = parse.write + (IF j \in Written(s) THEN 1 ELSE 0)
      /\ parse'.quoted = TRUE <=> Sh!Quoted(s, j + 1)
      /\ parse'.scanning = TRUE <=> Sh!Gap(s, j)
      /\ parse'.quoted \in BOOLEAN /\ parse'.scanning \in BOOLEAN
      /\ parse' = [read |-> parse'.read, write |-> parse'.write, quoted |-> parse'.quoted,
                   scanning |-> parse'.scanning]
      /\ Sh!Gap(s, j) => j # 1 /\ ~ Sh!Gap(s, m)
      /\ j \in Sh!Starts(s) <=> parse.scanning = TRUE
  BY <1>1, <1>2, CharacterIs
<1>4. /\ place = "parse" /\ place' = place /\ index' = index /\ error_count' = error_count /\ typed' = typed
      /\ argv' = Sh!Begun
  BY DEF Sh!ParseCharacter
<1>5. /\ s \in Seq(Char) /\ line \in LineTypes /\ Len(s) = index /\ index < LineLength
      /\ Len(s) \in Nat /\ LineLength \in Nat /\ error_count = 0 /\ typed \in Seq(Sh!Keys)
      /\ parse.scanning \in BOOLEAN
      /\ Parsing(s, parse, line, argv)
  BY <1>1, <1>4, WrittenAre, KeysAre DEF ShellInv
<1>6. Moved(line, s, m) /\ Listed(argv, s, m) /\ parse.write = w
  BY <1>1, <1>2, <1>4, SkippedAre
<1>7. /\ parse.read \in Nat /\ parse.read <= m
      /\ line[parse.read] = Sh!End <=> parse.read = Len(s)
  BY <1>1, <1>2, <1>4, ReadAtIs
<1>8. argv' = IF j \in Sh!Starts(s) /\ Len(argv) < ArgvLength THEN Append(argv, w) ELSE argv
  <2>1. line[parse.read] # Sh!End
    BY <1>3, <1>5, <1>7
  <2> QED
    BY <1>3, <1>4, <1>5, <1>6, <2>1 DEF Sh!Begun
<1>9. j - 1 = m /\ j \in Nat /\ j # 0
  BY <1>3
<1> HIDE DEF j
<1>10. Listed(argv', s, j)
  BY <1>5, <1>6, <1>8, <1>9, ListedOn
<1>11. line' = IF j \in Written(s) THEN [line EXCEPT ![w] = Put(s, j)] ELSE line
  BY <1>3, <1>6
<1> HIDE DEF w
<1>12. PICK k : k = line'
  OBVIOUS
<1>13. /\ Moved(k, s, j) /\ k \in LineTypes
       /\ Sh!Ordinal(Written(s), j) = w + (IF j \in Written(s) THEN 1 ELSE 0)
       /\ w \in Nat /\ w < j
       /\ \A i \in 0 .. LineLength - 1 : j <= i => k[i] = line[i]
  <2>1. k = IF j \in Written(s) THEN [line EXCEPT ![w] = Put(s, j)] ELSE line
    BY <1>11, <1>12
  <2>2. w = Sh!Ordinal(Written(s), j - 1) /\ Moved(line, s, j - 1)
    BY <1>6, <1>9 DEF w
  <2>3. j \in 1 .. Len(s) /\ Len(s) < LineLength
    BY <1>3, <1>5
  <2> QED
    BY <1>5, <2>1, <2>2, <2>3, MovedOn
<1>14. line'[Len(s)] = Sh!End /\ \A i \in j .. Len(s) - 1 : line'[i] = s[i + 1]
  <2>1. line[Len(s)] = Sh!End /\ \A i \in parse.read .. Len(s) - 1 : line[i] = s[i + 1]
    BY <1>5 DEF Parsing
  <2>2. Len(s) \in 0 .. LineLength - 1 /\ j <= Len(s)
    BY <1>3, <1>5
  <2>3. ASSUME NEW i \in j .. Len(s) - 1
        PROVE  i \in 0 .. LineLength - 1 /\ j <= i /\ i \in parse.read .. Len(s) - 1
    BY <1>3, <1>5, <1>7, <1>9
  <2> QED
    BY <1>12, <1>13, <2>1, <2>2, <2>3
<1>15. parse'.read \in Nat /\ parse'.write \in Nat /\ parse'.write = Sh!Ordinal(Written(s), j)
  BY <1>3, <1>6, <1>9, <1>13
<1>16. parse' \in [read : Nat, write : Nat, quoted : BOOLEAN, scanning : BOOLEAN]
  <2>1. PICK p : p = parse'
    OBVIOUS
  <2>2. /\ p = [read |-> p.read, write |-> p.write, quoted |-> p.quoted, scanning |-> p.scanning]
        /\ p.read \in Nat /\ p.write \in Nat /\ p.quoted \in BOOLEAN /\ p.scanning \in BOOLEAN
    BY <1>3, <1>15, <2>1
  <2>3. p \in [read : Nat, write : Nat, quoted : BOOLEAN, scanning : BOOLEAN]
    BY <2>2
  <2> QED
    BY <2>1, <2>3
<1>17. Parsing(s, parse', line', argv')
  <2>1. PICK p : p = parse'
    OBVIOUS
  <2>2. /\ p.read = j /\ j \in 0 .. Len(s) /\ j # 0 /\ j - 1 = m
        /\ p.write = Sh!Ordinal(Written(s), j)
        /\ p.quoted = TRUE <=> Sh!Quoted(s, j + 1)
        /\ p.scanning = TRUE <=> Sh!Gap(s, j)
        /\ Sh!Gap(s, j) => j # 1 /\ ~ Sh!Gap(s, m)
    BY <1>3, <1>9, <1>15, <2>1
  <2>3. Moved(line', s, j)
    BY <1>12, <1>13
  <2>4. Parsing(s, p, line', argv')
    BY <1>10, <1>14, <2>2, <2>3 DEF Parsing
  <2> QED
    BY <2>1, <2>4
<1>18. line' \in LineTypes
  BY <1>12, <1>13
<1> QED
  BY <1>1, <1>4, <1>5, <1>16, <1>17, <1>18 DEF ShellInv

LEMMA EndKeeps ==
  ASSUME ShellInv, Sh!ParseEnd
  PROVE  ShellInv'
<1>1. PICK s : s = EditedAs(typed)
  OBVIOUS
<1>2. PICK m : m = Sh!ReadAt
  OBVIOUS
<1> DEFINE n == Len(s)
           w == Sh!Ordinal(Written(s), n)
<1>3. /\ place = "parse" /\ line[Sh!ReadAt] = Sh!End /\ argv' = Sh!Begun /\ line' = [line EXCEPT ![parse.write] = Sh!End]
      /\ place' = "dispatch" /\ index' = index /\ parse' = parse /\ error_count' = error_count /\ typed' = typed
  BY DEF Sh!ParseEnd
<1>4. /\ s \in Seq(Char) /\ line \in LineTypes /\ n = index /\ index < LineLength
      /\ n \in Nat /\ LineLength \in Nat /\ error_count = 0 /\ typed \in Seq(Sh!Keys)
      /\ parse.scanning \in BOOLEAN
      /\ parse.scanning = TRUE <=> (parse.read = 0 \/ Sh!Gap(s, parse.read))
      /\ parse.read # 0 /\ Sh!Gap(s, parse.read) => parse.read # 1 /\ ~ Sh!Gap(s, parse.read - 1)
  BY <1>1, <1>3, WrittenAre, KeysAre DEF ShellInv, Parsing
<1>5. /\ m = n /\ (line[parse.read] = Sh!End <=> parse.read = n) /\ parse.read \in Nat /\ parse.read <= n
      /\ parse.scanning # TRUE => parse.read = n
  BY <1>1, <1>2, <1>3, ReadAtIs
<1>6. /\ Moved(line, s, n) /\ Listed(argv, s, n) /\ parse.write = w
      /\ parse.read # n => Sh!Gap(s, n) /\ (n = 1 \/ Sh!Gap(s, n - 1))
  BY <1>1, <1>2, <1>3, <1>5, SkippedAre
<1>7. n + 1 \in Sh!Starts(s) <=> n > 0 /\ Sh!Gap(s, n) /\ (n = 1 \/ Sh!Gap(s, n - 1))
  <2>1. n + 1 \notin 1 .. n
    BY <1>4
  <2> QED
    BY <2>1 DEF Sh!Starts
<1>8. n + 1 \in Sh!Starts(s) <=> (parse.scanning = TRUE /\ parse.read # n)
  <2>1. CASE parse.read # n
    <3>1. n > 0
      BY <1>4, <1>5, <2>1
    <3> QED
      BY <1>5, <1>6, <1>7, <2>1, <3>1
  <2>2. CASE parse.read = n
    <3>1. n > 0 <=> n # 0
      BY <1>4
    <3> QED
      BY <1>4, <1>7, <2>2, <3>1
  <2> QED
    BY <2>1, <2>2
<1>9. argv' = IF n + 1 \in Sh!Starts(s) /\ Len(argv) < ArgvLength THEN Append(argv, w) ELSE argv
  BY <1>3, <1>4, <1>5, <1>6, <1>8 DEF Sh!Begun
<1>10. Listed(argv', s, n + 1)
  <2>1. PICK j : j = n + 1
    OBVIOUS
  <2>2. j \in Nat /\ j # 0 /\ j - 1 = n
    BY <1>4, <2>1
  <2>3. /\ argv' = IF j \in Sh!Starts(s) /\ Len(argv) < ArgvLength THEN Append(argv, Sh!Ordinal(Written(s), j - 1)) ELSE argv
        /\ Listed(argv, s, j - 1)
    BY <1>6, <1>9, <2>1, <2>2
  <2>4. Listed(argv', s, j)
    BY <1>4, <2>2, <2>3, ListedOn
  <2> QED
    BY <2>1, <2>4
<1>11. w \in Nat /\ w <= n
  <2>1. \A q \in Written(s) : q \in Nat /\ q # 0
    BY <1>4, WrittenAre
  <2> QED
    BY <1>4, <2>1, OrdinalIn
<1> HIDE DEF n
<1>12. line' = [line EXCEPT ![w] = Sh!End] /\ w \in 0 .. LineLength - 1
  BY <1>3, <1>4, <1>6, <1>11
<1>13. line' \in LineTypes /\ line'[w] = Sh!End
  BY <1>4, <1>12 DEF LineTypes
<1>14. Moved(line', s, n)
  <2> SUFFICES ASSUME NEW q \in Written(s), q <= n PROVE line'[Sh!Ordinal(Written(s), q) - 1] = Put(s, q)
    BY DEF Moved
  <2>1. \A x \in Written(s) : x \in Nat /\ x # 0
    BY <1>4, WrittenAre
  <2>2. Sh!Ordinal(Written(s), q) \in Nat /\ 0 < Sh!Ordinal(Written(s), q) /\ Sh!Ordinal(Written(s), q) <= w
    BY <1>4, <2>1, OrdinalOne, OrdinalGrows
  <2>3. line[Sh!Ordinal(Written(s), q) - 1] = Put(s, q)
    BY <1>6 DEF Moved
  <2>4. Sh!Ordinal(Written(s), q) - 1 \in 0 .. LineLength - 1 /\ Sh!Ordinal(Written(s), q) - 1 # w
    BY <1>11, <1>12, <2>2, <1>4
  <2> HIDE DEF w
  <2> QED
    BY <1>4, <1>12, <2>3, <2>4 DEF LineTypes
<1>15. Split(s, line', argv')
  BY <1>10, <1>13, <1>14 DEF Split, n
<1>16. parse' \in [read : Nat, write : Nat, quoted : BOOLEAN, scanning : BOOLEAN]
  BY <1>3 DEF ShellInv
<1> QED
  BY <1>1, <1>3, <1>4, <1>13, <1>15, <1>16 DEF ShellInv, n

LEMMA NextKeepsShell == ShellInv /\ [Sh!Next]_Sh!vars => ShellInv'
<1> SUFFICES ASSUME ShellInv, [Sh!Next]_Sh!vars PROVE ShellInv'
  OBVIOUS
<1>1. CASE UNCHANGED Sh!vars
  BY <1>1 DEF ShellInv, Sh!vars
<1>2. CASE Sh!Next
  BY <1>2, OtherKeep, AgainKeeps, KeyKeeps, EnterKeeps, CharacterKeeps, EndKeeps DEF Sh!Next
<1> QED
  BY <1>1, <1>2

LEMMA CalledAsTyped ==
  ASSUME ShellInv, place = "dispatch"
  PROVE  /\ Len(Sh!Arguments) = Sh!Min({ArgvLength, Sh!Cardinality(Sh!Starts(Sh!Edited))})
         /\ \A i \in Sh!Starts(Sh!Edited) : Sh!Ordinal(Sh!Starts(Sh!Edited), i) <= ArgvLength =>
              Sh!Arguments[Sh!Ordinal(Sh!Starts(Sh!Edited), i)] = Sh!Word(Sh!Edited, i)
<1>1. PICK s : s = EditedAs(typed)
  OBVIOUS
<1>2. Sh!Edited = s
  BY <1>1, EditedIs
<1> DEFINE T == Sh!Starts(s)
           n == Len(s)
           x == Sh!Ordinal(T, n + 1)
<1>3. /\ s \in Seq(Char) /\ line \in LineTypes /\ n < LineLength /\ n \in Nat
      /\ Split(s, line, argv) /\ ArgvLength \in Nat
  BY <1>1, WrittenAre, KeysAre DEF ShellInv
<1>4. \A q \in T : q \in Nat /\ q # 0 /\ q <= n + 1
  BY <1>3, WrittenAre
<1>5. /\ argv \in Seq(Nat) /\ Len(argv) = IF x <= ArgvLength THEN x ELSE ArgvLength
      /\ \A i \in T : i <= n + 1 /\ Sh!Ordinal(T, i) <= ArgvLength =>
           argv[Sh!Ordinal(T, i)] = Sh!Ordinal(Written(s), i - 1)
  BY <1>3 DEF Split, Listed
<1>6. x = Sh!Cardinality(T) /\ x \in Nat
  <2>1. T \subseteq 1 .. n + 1 /\ n + 1 \in Nat
    BY <1>3, <1>4
  <2> HIDE DEF T
  <2> QED
    BY <2>1, OrdinalLast, CountsAlike
<1>7. Sh!Min({ArgvLength, x}) = IF x <= ArgvLength THEN x ELSE ArgvLength
  <2> DEFINE X == {ArgvLength, x}
  <2>1. X \subseteq Nat /\ X # {}
    BY <1>3, <1>6
  <2> HIDE DEF X
  <2>2. Sh!Min(X) \in X /\ \A y \in X : Sh!Min(X) <= y
    BY <2>1, MinIs
  <2> HIDE DEF x
  <2> QED
    BY <1>3, <1>6, <2>2 DEF X
<1>8. Len(Sh!Arguments) = Len(argv) /\ \A k \in 1 .. Len(argv) : Sh!Arguments[k] = Sh!StringAt(argv[k])
  <2> DEFINE f == [k \in 1 .. Len(argv) |-> Sh!StringAt(argv[k])]
  <2>1. Sh!Arguments = f
    BY DEF Sh!Arguments
  <2>2. Len(argv) \in Nat
    BY <1>5
  <2>3. Len(f) = Len(argv) /\ \A k \in 1 .. Len(argv) : f[k] = Sh!StringAt(argv[k])
    BY <2>2
  <2> HIDE DEF f
  <2> QED
    BY <2>1, <2>3
<1>9. ASSUME NEW i \in T, Sh!Ordinal(T, i) <= ArgvLength PROVE Sh!Arguments[Sh!Ordinal(T, i)] = Sh!Word(s, i)
  <2>1. i \in Nat /\ i <= n + 1
    BY <1>4
  <2>2. argv[Sh!Ordinal(T, i)] = Sh!Ordinal(Written(s), i - 1)
    BY <1>5, <1>9, <2>1
  <2>3. Sh!Ordinal(T, i) \in Nat /\ 0 < Sh!Ordinal(T, i) /\ Sh!Ordinal(T, i) <= x
    <3>1. n + 1 \in Nat
      BY <1>3
    <3> QED
      BY <1>4, <2>1, <3>1, OrdinalOne, OrdinalGrows
  <2>4. Sh!Ordinal(T, i) \in 1 .. Len(argv)
    BY <1>3, <1>5, <1>6, <1>9, <2>3
  <2>5. Sh!StringAt(Sh!Ordinal(Written(s), i - 1)) = Sh!Word(s, i)
    BY <1>3, WordIsRead DEF Split
  <2> QED
    BY <1>8, <2>2, <2>4, <2>5
<1> HIDE DEF T, x
<1> QED
  BY <1>2, <1>5, <1>6, <1>7, <1>8, <1>9 DEF T

LEMMA TypedIsKept == ShellInv => CommandAsTyped
<1> SUFFICES ASSUME ShellInv PROVE CommandAsTyped
  OBVIOUS
<1>1. index < LineLength /\ (place \in {"read", "parse", "dispatch", "command"} => error_count = 0)
  BY DEF ShellInv
<1>2. place = "parse" => parse.write <= parse.read /\ parse.read < LineLength
  <2> SUFFICES ASSUME place = "parse" PROVE parse.write <= parse.read /\ parse.read < LineLength
    OBVIOUS
  <2>1. PICK s : s = EditedAs(typed)
    OBVIOUS
  <2>2. /\ s \in Seq(Char) /\ Len(s) < LineLength /\ Len(s) \in Nat /\ LineLength \in Nat
        /\ parse.read \in 0 .. Len(s) /\ parse.write = Sh!Ordinal(Written(s), parse.read)
    BY <2>1, WrittenAre, KeysAre DEF ShellInv, Parsing
  <2>3. \A q \in Written(s) : q \in Nat /\ q # 0
    BY <2>2, WrittenAre
  <2>4. parse.read \in Nat
    BY <2>2
  <2>5. Sh!Ordinal(Written(s), parse.read) <= parse.read
    BY <2>3, <2>4, OrdinalIn
  <2> QED
    BY <2>2, <2>5
<1> QED
  BY <1>1, <1>2, CalledAsTyped DEF CommandAsTyped, Sh!CommandAsTyped

\* Lines of any length, any keys and any number of arguments: a command is called with the first words of the
\* line as it was edited, split in place without an index that leaves it, and prints no errors but its own
\* (console.c:60-109, shell.c:161-288).
THEOREM LinesAreSplit == Sh!Spec => []CommandAsTyped
<1> QED
  BY ShellStarts, NextKeepsShell, TypedIsKept, PTL DEF Sh!Spec

\* So it does in every behaviour of the run.
THEOREM RunSplitsLines == MCSpec => []CommandAsTyped
<1>1. MCInit => Sh!Init
  BY DEF MCInit
<1>2. [MCNext]_<<running, vars, shell, timer, front>> => [Sh!Next]_Sh!vars
  BY DEF MCNext, shell, Sh!vars
<1>3. MCSpec => Sh!Spec
  BY <1>1, <1>2, PTL DEF MCSpec, Sh!Spec
<1> QED
  BY <1>3, LinesAreSplit, PTL
=============================================================================
