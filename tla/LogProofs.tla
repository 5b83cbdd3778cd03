----------------------------- MODULE LogProofs -----------------------------
(***************************************************************************)
(* The recording, for every file size, interval and pace; and the parts of *)
(* MCLog that keep books: the modules of the host's libraries, for every   *)
(* set of modules and every table of what they depend on; the handles and  *)
(* directories of the commands, for every card; and the host's error       *)
(* stack, for every length of it.  Each in a section of its own, which is  *)
(* over that part's variables, and the books in the behaviours of MCLog.   *)
(***************************************************************************)
EXTENDS MCLog, SequenceTheorems, FiniteSetTheorems, WellFoundedInduction, TLAPS

LEMMA OfItsLength ==
  ASSUME NEW S, NEW k \in Nat, NEW s \in [1 .. k -> S]
  PROVE  s \in Seq(S) /\ Len(s) = k
<1>1. s \in Seq(S)
  OBVIOUS
<1> QED
  BY <1>1, LenProperties

LEMMA ElementsOf ==
  ASSUME NEW S, NEW s \in Seq(S)
  PROVE  /\ Len(s) \in Nat /\ DOMAIN s = 1 .. Len(s)
         /\ \A k \in DOMAIN s : s[k] \in S
BY LenProperties

LEMMA LeastOf ==
  ASSUME NEW T, T \subseteq Nat, T # {}
  PROVE  \E a \in T : \A b \in T : a <= b
<1>1. PICK a \in T : \A b \in T : <<b, a>> \notin OpToRel(<, Nat)
  BY NatLessThanWellFounded, WFMin
<1>2. \A b \in T : ~ (b < a)
  BY <1>1, Zenon DEF OpToRel
<1> QED
  BY <1>2

----------------------------------------------------------------------------
(* The recording: the inductive invariant *)

\* Blocks written since the position was last saved.
Unsaved == position - meta

\* How pc, the position and the meta data file go together.
Stage ==
  /\ pc = "switch" => meta = Invalid
  /\ pc \in {"save", "quit"} => position = NextStart
  /\ pc \in {"seek", "info"} => meta = position /\ base = position
  /\ pc = "info" => position < FileBlocks
  /\ pc \in Looping =>
       /\ meta # Invalid /\ base <= meta /\ meta <= position
       /\ base < position /\ position <= FileBlocks

\* From the moment the position is known, everything written lies before it.
Placed == {"save", "quit", "seek", "info"} \cup Looping
Behind ==
  pc \in Placed => \A b \in Block : Recorded(b) \/ b = cached => b < position

\* The dirty block is the last one written, and a new one.
Dirty ==
  /\ cached # NoBlock =>
       /\ pc \in Looping /\ pc # "meta"
       /\ cached = position - 1
       /\ ~Recorded(cached)
       /\ content.id = lastId /\ content.kind # "blank"
  /\ cached # NoBlock /\ content.kind = "data" =>
       /\ cached > 0 /\ Recorded(cached - 1)
       /\ disk[cached - 1].id = content.id - 1
  /\ cached = NoBlock /\ pc \in Looping =>
       Recorded(position - 1) /\ disk[position - 1].id = lastId

\* The recording that is open has no hole.
Written ==
  pc \in Looping =>
    \A b \in Block : base <= b /\ b < position => Recorded(b) \/ b = cached

\* The two messages: one filled and one held leave none to fill.
Messages ==
  /\ filled + Held <= 2
  /\ filled + Held = 2 => progress = 0
  /\ pc = "write" => filled > 0

\* A block takes BlockTicks ticks, so the clock bounds the blocks there are.
Pace ==
  pc \in Looping =>
    \/ age > Interval
    \/ hold > Interval
    \/ BlockTicks * (Unsaved + filled - 1) + progress <= age + hold

\* How many blocks are written before the position is saved again.
K == Interval \div BlockTicks
Lag ==
  /\ pc = "loop" => Unsaved <= K + 2
  /\ pc \in {"wait", "write"} =>
       Unsaved <= K + 2 /\ (age <= Interval => Unsaved <= K + 1)
  /\ pc = "check" =>
       Unsaved <= K + 3 /\ (age <= Interval => Unsaved <= K + 2)
  /\ pc \in {"flush", "meta"} => Unsaved <= K + 3

IInv ==
  /\ TypeOK
  /\ Stage /\ Behind /\ Dirty /\ Written /\ Messages /\ Pace /\ Lag
  /\ NextStartIsClear /\ MetaBehindData /\ PrefixOnDisk

----------------------------------------------------------------------------
(* Arithmetic *)

\* The whole number of blocks a time allows.
LEMMA DivBound ==
  ASSUME NEW x \in Int, BlockTicks * x <= Interval
  PROVE  x <= K
<1>1. /\ K \in Int /\ Interval % BlockTicks < BlockTicks
      /\ Interval % BlockTicks \in Int
      /\ Interval = BlockTicks * K + (Interval % BlockTicks)
  BY TicksAssumption DEF K
<1>2. SUFFICES ASSUME x >= K + 1 PROVE FALSE
  BY <1>1
<1>3. PICK d \in Nat : x = K + 1 + d
  BY <1>1, <1>2
<1>4. BlockTicks * x = BlockTicks * K + BlockTicks + BlockTicks * d
  BY <1>1, <1>3, TicksAssumption
<1>5. BlockTicks * d >= 0
  BY TicksAssumption, <1>3
<1> QED
  BY <1>1, <1>4, <1>5, TicksAssumption

\* The number of blocks between two positions is a natural number.
LEMMA KIsNat == K \in Nat
  BY TicksAssumption DEF K

\* The time read at the top of the loop bounds the blocks written since the
\* position was last saved (record.c:256-291): had one more been written,
\* the position would be due.
LEMMA LoopTopLag ==
  ASSUME Faults = 0, IInv, LoopTop
  PROVE Lag'
<1>1. pc = "loop" /\ pc' = "wait" /\ Unsaved' = Unsaved /\ Unsaved \in Int
  BY DEF LoopTop, IInv, TypeOK, Unsaved, persistent, Invalid
<1>2. Unsaved <= K + 2
  BY <1>1 DEF IInv, Lag
<1>3. ASSUME age' <= Interval PROVE Unsaved <= K + 1
  <2>1. age + hold <= Interval /\ age <= Interval /\ hold <= Interval
    BY <1>3, TicksAssumption DEF LoopTop, AtMost, IInv, TypeOK
  <2>2. BlockTicks * (Unsaved + filled - 1) + progress <= Interval
    BY <1>1, <2>1, TicksAssumption DEF IInv, TypeOK, Pace, Looping
  <2>3. Unsaved + filled - 1 \in Int /\ filled \in Nat /\ progress \in Nat
    BY <1>1, TicksAssumption DEF IInv, TypeOK
  <2>4. BlockTicks * (Unsaved + filled - 1) <= Interval
    <3> DEFINE w == BlockTicks * (Unsaved + filled - 1)
    <3>1. w \in Int
      BY <2>3, TicksAssumption
    <3> HIDE DEF w
    <3>2. w + progress <= Interval => w <= Interval
      BY <3>1, <2>3, TicksAssumption
    <3> QED BY <2>2, <3>2 DEF w
  <2>5. Unsaved + filled - 1 <= K
    BY <2>3, <2>4, DivBound
  <2> QED
    BY <1>1, <2>3, <2>5, KIsNat
<1> QED
  BY <1>1, <1>2, <1>3 DEF Lag

\* Only the info block lies past the saved position (record.c:237-244).
LEMMA WriteInfoLag ==
  ASSUME Faults = 0, IInv, WriteInfo
  PROVE Lag'
<1>1. pc' = "loop" /\ Unsaved' = 1
  BY DEF WriteInfo, Put, IInv, TypeOK, Stage, Unsaved, Invalid
<1> QED
  BY <1>1, KIsNat DEF Lag

----------------------------------------------------------------------------
(* The initial state, and one lemma per action *)

\* A new card satisfies the invariant.
LEMMA InitInv == Init => IInv
<1> SUFFICES ASSUME Init PROVE IInv
  OBVIOUS
<1>1. TypeOK
  <2>1. Blank \in [id : Nat, kind : {"blank", "info", "data"}]
    BY DEF Blank
  <2>2. disk \in [Block -> [id : Nat, kind : {"blank", "info", "data"}]]
    BY <2>1 DEF Init
  <2>3. /\ position \in 0 .. PositionLimit + FileBlocks
        /\ age \in 0 .. Interval + 1 /\ hold \in 0 .. Interval + 1
        /\ progress \in 0 .. BlockTicks - 1 /\ faults \in 0 .. Faults
    BY FileAssumption, TicksAssumption, LimitAssumption, FaultsAssumption
    DEF Init
  <2> QED
    <3>1. /\ meta \in {Invalid} \cup 0 .. PositionLimit + FileBlocks
          /\ cached \in {NoBlock} \cup Block
          /\ filled \in 0 .. 2 /\ base \in Nat /\ lastId \in Nat
      BY DEF Init
    <3>2. /\ pc \in Location
          /\ content \in [id : Nat, kind : {"blank", "info", "data"}]
      BY <2>1 DEF Init, Location
    <3>3. switched \in BOOLEAN
      BY DEF Init
    <3> QED BY <2>2, <2>3, <3>1, <3>2, <3>3 DEF TypeOK
<1>2. Stage /\ Behind /\ Written /\ Pace
  BY DEF Init, Stage, Behind, Written, Pace, Placed, Looping
<1>3. Dirty
  BY DEF Init, Dirty, Looping
<1>4. Messages /\ Lag
  BY DEF Init, Messages, Lag, Held
<1>5. \A b \in Block : ~Recorded(b) /\ b # cached
  BY DEF Init, Recorded, Block, NoBlock
<1>6. NextStartIsClear /\ PrefixOnDisk
  BY <1>5 DEF Init, NextStartIsClear, PrefixOnDisk, Blank
<1>7. MetaBehindData
  BY DEF Init, MetaBehindData, Invalid, Block
<1> QED
  BY <1>1, <1>2, <1>3, <1>4, <1>6, <1>7 DEF IInv

\* A restart goes on past everything written: check_file_position
\* (record.c:141-165).
LEMMA CheckFilePositionKeeps ==
  ASSUME Faults = 0, IInv, CheckFilePosition
  PROVE  IInv'
<1>1. TypeOK'
  BY FileAssumption, SkipAssumption, LimitAssumption DEF CheckFilePosition,
     persistent, buffer, time, history, IInv, TypeOK, Location
<1>2. Stage'
  BY DEF CheckFilePosition, persistent, IInv, Stage, Looping, NextStart
<1>3. Behind'
  BY DEF CheckFilePosition, persistent, buffer, IInv, Behind, Recorded,
     Block, NextStartIsClear, NextStart
<1>4. Dirty' /\ Written' /\ Messages' /\ Pace' /\ Lag'
  BY DEF CheckFilePosition, buffer, IInv, Dirty, Looping, Written, time,
     Messages, Held, Pace, Lag
<1>5. NextStartIsClear' /\ MetaBehindData' /\ PrefixOnDisk'
  BY DEF CheckFilePosition, persistent, buffer, history, IInv,
     NextStartIsClear, NextStart, Recorded, MetaBehindData, PrefixOnDisk
<1> QED
  BY <1>1, <1>2, <1>3, <1>4, <1>5 DEF IInv

\* The first position is zero, and nothing is written yet
\* (record.c:145-156).
LEMMA SwitchOnKeeps == ASSUME Faults = 0, IInv, SwitchOn PROVE IInv'
<1>1. TypeOK'
  BY FileAssumption, LimitAssumption DEF SwitchOn, persistent, buffer, time,
     IInv, TypeOK, Location
<1>2. Stage'
  BY DEF SwitchOn, persistent, IInv, Stage, Looping, NextStart
<1>3. Behind'
  BY DEF SwitchOn, persistent, buffer, IInv, Behind, Recorded,
     NextStartIsClear, NextStart, Stage
<1>4. Dirty' /\ Written' /\ Messages' /\ Pace' /\ Lag'
  BY DEF SwitchOn, buffer, IInv, Dirty, Looping, Written, Block, time,
     Messages, Held, Pace, Lag
<1>5. NextStartIsClear' /\ MetaBehindData' /\ PrefixOnDisk'
  BY DEF SwitchOn, persistent, buffer, IInv, NextStartIsClear, NextStart,
     Recorded, MetaBehindData, PrefixOnDisk
<1> QED
  BY <1>1, <1>2, <1>3, <1>4, <1>5 DEF IInv

\* The same when a key ends the wait (record.c:145-156).
LEMMA SwitchQuitKeeps == ASSUME Faults = 0, IInv, SwitchQuit PROVE IInv'
<1>1. TypeOK'
  BY FileAssumption, LimitAssumption DEF SwitchQuit, persistent, buffer,
     time, history, IInv, TypeOK, Location
<1>2. Stage'
  BY DEF SwitchQuit, persistent, IInv, Stage, Looping, NextStart
<1>3. Behind'
  BY DEF SwitchQuit, persistent, buffer, IInv, Behind, Recorded,
     NextStartIsClear, NextStart, Stage
<1>4. Dirty' /\ Written' /\ Messages' /\ Pace' /\ Lag'
  BY DEF SwitchQuit, buffer, IInv, Dirty, Looping, Written, Block, time,
     Messages, Held, Pace, Lag
<1>5. NextStartIsClear' /\ MetaBehindData' /\ PrefixOnDisk'
  BY DEF SwitchQuit, persistent, buffer, history, IInv, NextStartIsClear,
     NextStart, Recorded, MetaBehindData, PrefixOnDisk
<1> QED
  BY <1>1, <1>2, <1>3, <1>4, <1>5 DEF IInv

\* The new position reaches the card before any block does
\* (record.c:167-176).
LEMMA SaveFilePositionKeeps ==
  ASSUME Faults = 0, IInv, SaveFilePosition
  PROVE  IInv'
<1>1. TypeOK'
  BY DEF SaveFilePosition, SaveMeta, buffer, time, IInv, TypeOK, Location
<1>2. Stage'
  BY DEF SaveFilePosition, SaveMeta, IInv, Stage, Looping, TypeOK
<1>3. Behind'
  BY DEF SaveFilePosition, SaveMeta, buffer, IInv, Behind, Placed, Recorded
<1>4. NextStartIsClear'
  BY SkipAssumption DEF SaveFilePosition, SaveMeta, buffer, IInv,
     NextStartIsClear, NextStart, Recorded, Block, Invalid, Stage, TypeOK
<1>5. MetaBehindData'
  BY DEF SaveFilePosition, SaveMeta, IInv, MetaBehindData, Block, TypeOK
<1>6. Dirty' /\ Written' /\ Messages' /\ Pace' /\ Lag'
  BY DEF SaveFilePosition, SaveMeta, buffer, IInv, Dirty, Looping, Written,
     time, Messages, Held, Pace, Lag
<1>7. PrefixOnDisk'
  BY DEF SaveFilePosition, SaveMeta, IInv, PrefixOnDisk, Recorded
<1> QED
  BY <1>1, <1>2, <1>3, <1>4, <1>5, <1>6, <1>7 DEF IInv

\* A full file ends the command (record.c:224, 331-333).
LEMMA SeekFailsKeeps == ASSUME Faults = 0, IInv, SeekFails PROVE IInv'
<1>1. TypeOK'
  BY DEF SeekFails, persistent, buffer, time, history, IInv, TypeOK,
     Location
<1>2. Stage'
  BY DEF SeekFails, IInv, Stage, Looping
<1>3. Behind'
  BY DEF SeekFails, IInv, Behind, Placed, Looping
<1>4. Dirty' /\ Written' /\ Messages' /\ Pace' /\ Lag'
  BY DEF SeekFails, buffer, IInv, Dirty, Looping, Written, time, Messages,
     Held, Pace, Lag
<1>5. NextStartIsClear' /\ MetaBehindData' /\ PrefixOnDisk'
  BY DEF SeekFails, persistent, buffer, history, IInv, NextStartIsClear,
     NextStart, Recorded, MetaBehindData, PrefixOnDisk
<1> QED
  BY <1>1, <1>2, <1>3, <1>4, <1>5 DEF IInv

\* The file takes the position (record.c:224).
LEMMA SeekKeeps == ASSUME Faults = 0, IInv, Seek PROVE IInv'
<1>1. TypeOK'
  BY DEF Seek, persistent, buffer, time, history, IInv, TypeOK, Location
<1>2. Stage'
  BY DEF Seek, persistent, history, IInv, Stage, Looping
<1>3. Behind'
  BY DEF Seek, persistent, buffer, IInv, Behind, Placed, Recorded
<1>4. Dirty' /\ Written' /\ Messages' /\ Pace' /\ Lag'
  BY DEF Seek, buffer, IInv, Dirty, Looping, Written, time, Messages, Held,
     Pace, Lag
<1>5. NextStartIsClear' /\ MetaBehindData' /\ PrefixOnDisk'
  BY DEF Seek, persistent, buffer, history, IInv, NextStartIsClear,
     NextStart, Recorded, MetaBehindData, PrefixOnDisk
<1> QED
  BY <1>1, <1>2, <1>3, <1>4, <1>5 DEF IInv

\* The info block is the first of the recording (record.c:237-250).
LEMMA WriteInfoKeeps == ASSUME Faults = 0, IInv, WriteInfo PROVE IInv'
<1>1. TypeOK'
  BY FileAssumption, TicksAssumption, LimitAssumption DEF WriteInfo, Put,
     IInv, TypeOK, Block, Location, Stage, Dirty
<1>2. Stage'
  BY FileAssumption DEF WriteInfo, Put, IInv, Stage, Invalid, TypeOK
<1>3. Behind'
  BY FileAssumption DEF WriteInfo, Put, IInv, Behind, Placed, Recorded,
     Block, TypeOK
<1>4. Dirty'
  BY FileAssumption DEF WriteInfo, Put, IInv, Dirty, Looping, Recorded,
     Block, TypeOK, Stage, Behind, Placed
<1>5. Written'
  BY DEF WriteInfo, Put, IInv, Written, Block, Stage, TypeOK
<1>6. Messages'
  BY DEF WriteInfo, Put, IInv, Messages, Held
<1>7. Pace'
  BY TicksAssumption DEF WriteInfo, Put, IInv, Pace, Unsaved, TypeOK, Stage
<1>8. Lag'
  BY WriteInfoLag
<1>9. NextStartIsClear'
  BY TicksAssumption, SkipAssumption DEF WriteInfo, Put, IInv,
     NextStartIsClear, NextStart, Recorded, Block, Invalid, Looping, Dirty,
     Stage
<1>10. MetaBehindData'
  BY DEF WriteInfo, Put, IInv, MetaBehindData, Recorded, Looping, Dirty
<1>11. PrefixOnDisk'
  BY DEF WriteInfo, Put, IInv, PrefixOnDisk, Recorded, Dirty, Looping
<1> QED
  BY <1>1, <1>2, <1>3, <1>4, <1>5, <1>6, <1>7, <1>8, <1>9, <1>10, <1>11 DEF
     IInv

\* A tick fills a block no faster than BlockTicks allows
\* (analog_disc.c:31-191).
LEMMA TickKeeps == ASSUME Faults = 0, IInv, Tick PROVE IInv'
<1>1. TypeOK'
  BY TicksAssumption DEF Tick, AtMost, persistent, buffer, history, IInv,
     TypeOK, Held
<1>2. Messages'
  BY DEF Tick, AtMost, IInv, Messages, Held, TypeOK
<1>3. Pace'
  BY TicksAssumption DEF Tick, AtMost, persistent, IInv, Pace, Unsaved,
     TypeOK, Invalid
<1>4. Stage' /\ Behind' /\ Dirty' /\ Written' /\ Lag' /\
      NextStartIsClear' /\ MetaBehindData' /\ PrefixOnDisk'
  BY DEF Tick, AtMost, persistent, buffer, history, IInv, Stage, NextStart,
     Behind, Placed, Recorded, Dirty, Written, Lag, Unsaved,
     NextStartIsClear, MetaBehindData, PrefixOnDisk
<1> QED
  BY <1>1, <1>2, <1>3, <1>4 DEF IInv

\* The clock is read at the top of the loop (record.c:256-261).
LEMMA LoopTopKeeps == ASSUME Faults = 0, IInv, LoopTop PROVE IInv'
<1>1. TypeOK'
  BY TicksAssumption DEF LoopTop, AtMost, persistent, buffer, history, IInv,
     TypeOK, Location
<1>2. Stage'
  BY DEF LoopTop, AtMost, persistent, history, IInv, Stage, Looping
<1>3. Behind'
  BY DEF LoopTop, AtMost, persistent, buffer, IInv, Behind, Placed, Looping,
     Recorded
<1>4. Dirty'
  BY DEF LoopTop, AtMost, persistent, buffer, history, IInv, Dirty, Looping,
     Recorded
<1>5. Written'
  BY DEF LoopTop, AtMost, persistent, buffer, history, IInv, Written,
     Looping, Recorded
<1>6. Messages'
  BY DEF LoopTop, AtMost, IInv, Messages, Held
<1>7. Pace'
  BY TicksAssumption DEF LoopTop, AtMost, persistent, IInv, Pace, Looping,
     Unsaved, TypeOK
<1>8. Lag'
  BY LoopTopLag
<1>9. NextStartIsClear' /\ MetaBehindData' /\ PrefixOnDisk'
  BY DEF LoopTop, AtMost, persistent, buffer, history, IInv,
     NextStartIsClear, NextStart, Recorded, MetaBehindData, PrefixOnDisk
<1> QED
  BY <1>1, <1>2, <1>3, <1>4, <1>5, <1>6, <1>7, <1>8, <1>9 DEF IInv

\* Closing the file writes the last block (record.c:317-319).
LEMMA QuitKeeps == ASSUME Faults = 0, IInv, Quit PROVE IInv'
<1>1. TypeOK'
  BY DEF Quit, Flush, time, IInv, TypeOK, Location
<1>2. Stage'
  BY DEF Quit, Flush, IInv, Stage, Looping
<1>3. Behind'
  BY DEF Quit, Flush, IInv, Behind, Placed, Looping
<1>4. Dirty'
  BY DEF Quit, Flush, IInv, Dirty, Looping
<1>5. Written'
  BY DEF Quit, Flush, IInv, Written, Looping
<1>6. Messages'
  BY DEF Quit, Flush, time, IInv, Messages, Held
<1>7. Pace'
  BY DEF Quit, Flush, IInv, Pace, Looping
<1>8. Lag'
  BY DEF Quit, Flush, IInv, Lag
<1>9. NextStartIsClear'
  BY FileAssumption DEF Quit, Flush, IInv, NextStartIsClear, NextStart,
     Recorded, Block, NoBlock, TypeOK
<1>10. MetaBehindData'
  BY FileAssumption, TicksAssumption, LimitAssumption DEF Quit, Flush, IInv,
     MetaBehindData, Recorded, Dirty, TypeOK
<1>11. PrefixOnDisk'
  BY FileAssumption, TicksAssumption, LimitAssumption, SMTT(30) DEF Quit,
     Flush, time, IInv, PrefixOnDisk, Recorded, Block, Blank, Dirty,
     NoBlock, TypeOK, Invalid
<1> QED
  BY <1>1, <1>2, <1>3, <1>4, <1>5, <1>6, <1>7, <1>8, <1>9, <1>10, <1>11 DEF
     IInv

\* A complete message ends the wait (record.c:260).
LEMMA WaitMessageKeeps == ASSUME Faults = 0, IInv, WaitMessage PROVE IInv'
<1>1. TypeOK'
  BY DEF WaitMessage, persistent, buffer, time, history, IInv, TypeOK,
     Location
<1>2. Stage'
  BY DEF WaitMessage, persistent, history, IInv, Stage, Looping
<1>3. Behind'
  BY DEF WaitMessage, persistent, buffer, IInv, Behind, Placed, Looping,
     Recorded
<1>4. Dirty'
  BY DEF WaitMessage, persistent, buffer, history, IInv, Dirty, Looping,
     Recorded
<1>5. Written'
  BY DEF WaitMessage, persistent, buffer, history, IInv, Written, Looping,
     Recorded
<1>6. Messages'
  BY DEF WaitMessage, time, IInv, Messages, Held
<1>7. Pace'
  BY DEF WaitMessage, persistent, time, IInv, Pace, Looping, Unsaved
<1>8. Lag'
  BY DEF WaitMessage, persistent, time, IInv, Lag, Unsaved
<1>9. NextStartIsClear' /\ MetaBehindData' /\ PrefixOnDisk'
  BY DEF WaitMessage, persistent, buffer, history, IInv, NextStartIsClear,
     NextStart, Recorded, MetaBehindData, PrefixOnDisk
<1> QED
  BY <1>1, <1>2, <1>3, <1>4, <1>5, <1>6, <1>7, <1>8, <1>9 DEF IInv

\* Each block goes right after the one before it (record.c:286-289).
LEMMA WriteBlockKeeps == ASSUME Faults = 0, IInv, WriteBlock PROVE IInv'
<1>1. TypeOK'
  BY FileAssumption, TicksAssumption, SkipAssumption, LimitAssumption,
     SMTT(30) DEF WriteBlock, Put, IInv, TypeOK, Block, Invalid, NoBlock,
     Location, Looping, Blank, Stage, NextStart, Dirty, Recorded, Messages
<1>2. Stage'
  BY FileAssumption DEF WriteBlock, Put, IInv, Stage, Looping, TypeOK
<1>3. Behind'
  BY FileAssumption DEF WriteBlock, Put, IInv, Behind, Placed, Looping,
     Recorded, Block, TypeOK
<1>4. Dirty'
  <2>1. /\ TypeOK /\ Stage /\ Behind /\ Dirty /\ pc = "write" /\ pc' = "check"
        /\ cached' = position /\ content' = [id |-> lastId + 1, kind |-> "data"]
        /\ lastId' = lastId + 1 /\ position' = position + 1 /\ position < FileBlocks
    BY DEF WriteBlock, Put, IInv
  <2>2. /\ position \in Block /\ position \in Nat /\ position > 0 /\ lastId \in Nat
        /\ disk \in [Block -> [id : Nat, kind : {"blank", "info", "data"}]]
        /\ cached \in {NoBlock} \cup Block
        /\ content \in [id : Nat, kind : {"blank", "info", "data"}]
    BY <2>1, FileAssumption DEF Stage, Looping, TypeOK, Block
  <2>3. /\ cached # NoBlock => disk' = [disk EXCEPT ![cached] = content]
        /\ cached = NoBlock => disk' = disk
    BY <2>1 DEF WriteBlock, Put, TypeOK
  <2>4. ~Recorded(position) /\ cached # position
    BY <2>1, <2>2 DEF Behind, Placed, Looping
  <2>5. disk'[position] = disk[position]
    BY <2>2, <2>3, <2>4
  <2>6. disk'[position - 1] # Blank /\ disk'[position - 1].id = lastId
    <3>1. CASE cached # NoBlock
      <4>1. /\ cached = position - 1 /\ cached \in Block
            /\ content.id = lastId /\ content.kind # "blank"
        BY <2>1, <2>2, <3>1 DEF Dirty
      <4>2. disk'[position - 1] = content
        BY <2>2, <2>3, <3>1, <4>1
      <4> QED
        BY <4>1, <4>2 DEF Blank
    <3>2. CASE cached = NoBlock
      BY <2>1, <2>3, <3>2 DEF Dirty, Looping, Recorded
    <3> QED
      BY <3>1, <3>2
  <2>7. ~Recorded(cached)' /\ Recorded(cached - 1)'
    BY <2>1, <2>4, <2>5, <2>6 DEF Recorded
  <2>8. /\ pc' \in Looping /\ pc' # "meta" /\ cached' = position' - 1
        /\ cached' # NoBlock /\ cached' > 0
        /\ content'.id = lastId' /\ content'.kind = "data" /\ content'.id - 1 = lastId
    BY <2>1, <2>2 DEF Looping, NoBlock
  <2> QED
    BY <2>1, <2>6, <2>7, <2>8 DEF Dirty
<1>5. Written'
  BY FileAssumption, TicksAssumption DEF WriteBlock, Put, IInv, Written,
     Looping, Recorded, Block, Dirty, NoBlock, Blank, TypeOK
<1>6. Messages'
  BY DEF WriteBlock, Put, IInv, Messages, Held, TypeOK
<1>7. Pace'
  BY DEF WriteBlock, Put, IInv, Pace, Looping, Unsaved, TypeOK, Invalid
<1>8. Lag'
  BY TicksAssumption DEF WriteBlock, Put, IInv, Lag, Unsaved, K, TypeOK,
     Invalid
<1>9. NextStartIsClear'
  BY FileAssumption, TicksAssumption, SkipAssumption, SMTT(30) DEF
     WriteBlock, Put, IInv, NextStartIsClear, NextStart, Recorded, Looping,
     Stage, TypeOK, Lag, Unsaved, K
<1>10. MetaBehindData'
  BY FileAssumption, TicksAssumption DEF WriteBlock, Put, IInv,
     MetaBehindData, Recorded, Dirty, TypeOK
<1>11. PrefixOnDisk'
  BY FileAssumption, TicksAssumption, LimitAssumption, SMTT(30) DEF
     WriteBlock, Put, IInv, PrefixOnDisk, Recorded, Block, Blank, Dirty,
     Looping, NoBlock, TypeOK, Invalid, Location
<1> QED
  BY <1>1, <1>2, <1>3, <1>4, <1>5, <1>6, <1>7, <1>8, <1>9, <1>10, <1>11 DEF
     IInv

\* A full file ends the loop, and closing it writes the last block
\* (record.c:286-289).
LEMMA WriteFailsKeeps == ASSUME Faults = 0, IInv, WriteFails PROVE IInv'
<1>1. TypeOK'
  BY SMTT(30) DEF WriteFails, Flush, time, IInv, TypeOK, Location
<1>2. Stage'
  BY DEF WriteFails, Flush, IInv, Stage, Looping
<1>3. Behind'
  BY DEF WriteFails, Flush, IInv, Behind, Placed, Looping
<1>4. Dirty'
  BY DEF WriteFails, Flush, IInv, Dirty, Looping
<1>5. Written'
  BY DEF WriteFails, Flush, IInv, Written, Looping
<1>6. Messages'
  BY DEF WriteFails, Flush, time, IInv, Messages, Held
<1>7. Pace'
  BY DEF WriteFails, Flush, IInv, Pace, Looping
<1>8. Lag'
  BY DEF WriteFails, Flush, IInv, Lag
<1>9. NextStartIsClear'
  BY FileAssumption DEF WriteFails, Flush, IInv, NextStartIsClear,
     NextStart, Recorded, Block, NoBlock, TypeOK
<1>10. MetaBehindData'
  BY FileAssumption, TicksAssumption DEF WriteFails, Flush, IInv,
     MetaBehindData, Recorded, Dirty, TypeOK
<1>11. PrefixOnDisk'
  BY FileAssumption, TicksAssumption, SMTT(30) DEF WriteFails, Flush, time,
     IInv, PrefixOnDisk, Recorded, Block, Blank, Dirty, Looping, NoBlock,
     TypeOK, Invalid, Location
<1> QED
  BY <1>1, <1>2, <1>3, <1>4, <1>5, <1>6, <1>7, <1>8, <1>9, <1>10, <1>11 DEF
     IInv

\* The position is not due (record.c:291).
LEMMA NotDueKeeps == ASSUME Faults = 0, IInv, NotDue PROVE IInv'
<1>1. TypeOK'
  BY DEF NotDue, persistent, buffer, time, history, IInv, TypeOK, Location
<1>2. Stage'
  BY DEF NotDue, persistent, history, IInv, Stage, Looping
<1>3. Behind'
  BY DEF NotDue, persistent, buffer, IInv, Behind, Placed, Looping, Recorded
<1>4. Dirty'
  BY DEF NotDue, persistent, buffer, history, IInv, Dirty, Looping, Recorded
<1>5. Written'
  BY DEF NotDue, persistent, buffer, history, IInv, Written, Looping,
     Recorded
<1>6. Messages'
  BY DEF NotDue, time, IInv, Messages, Held, TypeOK
<1>7. Pace'
  BY DEF NotDue, persistent, time, IInv, Pace, Looping, Unsaved
<1>8. Lag'
  BY DEF NotDue, persistent, IInv, Lag, Unsaved
<1>9. NextStartIsClear' /\ MetaBehindData' /\ PrefixOnDisk'
  BY DEF NotDue, persistent, buffer, history, IInv, NextStartIsClear,
     NextStart, Recorded, MetaBehindData, PrefixOnDisk
<1> QED
  BY <1>1, <1>2, <1>3, <1>4, <1>5, <1>6, <1>7, <1>8, <1>9 DEF IInv

\* The position is due (record.c:291).
LEMMA DueKeeps == ASSUME Faults = 0, IInv, Due PROVE IInv'
<1>1. TypeOK'
  BY DEF Due, persistent, buffer, time, history, IInv, TypeOK, Location
<1>2. Stage'
  BY DEF Due, persistent, history, IInv, Stage, Looping
<1>3. Behind'
  BY DEF Due, persistent, buffer, IInv, Behind, Placed, Looping, Recorded
<1>4. Dirty'
  BY DEF Due, persistent, buffer, history, IInv, Dirty, Looping, Recorded
<1>5. Written'
  BY DEF Due, persistent, buffer, history, IInv, Written, Looping, Recorded
<1>6. Messages'
  BY DEF Due, time, IInv, Messages, Held
<1>7. Pace'
  BY DEF Due, time, IInv, Pace
<1>8. Lag'
  BY DEF Due, persistent, IInv, Lag, Unsaved
<1>9. NextStartIsClear' /\ MetaBehindData' /\ PrefixOnDisk'
  BY DEF Due, persistent, buffer, history, IInv, NextStartIsClear,
     NextStart, Recorded, MetaBehindData, PrefixOnDisk
<1> QED
  BY <1>1, <1>2, <1>3, <1>4, <1>5, <1>6, <1>7, <1>8, <1>9 DEF IInv

\* The data block leaves the buffer before the position is written
\* (record.c:299-301).
LEMMA MetaTakesBufferKeeps ==
  ASSUME Faults = 0, IInv, MetaTakesBuffer
  PROVE  IInv'
<1>1. TypeOK'
  BY DEF MetaTakesBuffer, Flush, time, IInv, TypeOK, Location
<1>2. Stage'
  BY DEF MetaTakesBuffer, Flush, IInv, Stage, Looping
<1>3. Behind'
  BY FileAssumption DEF MetaTakesBuffer, Flush, IInv, Behind, Placed,
     Looping, Recorded, NoBlock, TypeOK
<1>4. Dirty'
  BY FileAssumption DEF MetaTakesBuffer, Flush, IInv, Dirty, Looping,
     Recorded, Blank, TypeOK
<1>5. Written'
  BY FileAssumption DEF MetaTakesBuffer, Flush, IInv, Written, Looping,
     Recorded, Dirty, Blank, TypeOK
<1>6. Messages'
  BY DEF MetaTakesBuffer, Flush, time, IInv, Messages, Held
<1>7. Pace'
  BY DEF MetaTakesBuffer, Flush, time, IInv, Pace, Looping, Unsaved
<1>8. Lag'
  BY DEF MetaTakesBuffer, Flush, IInv, Lag, Unsaved
<1>9. NextStartIsClear'
  BY FileAssumption DEF MetaTakesBuffer, Flush, IInv, NextStartIsClear,
     NextStart, Recorded, Block, NoBlock, TypeOK
<1>10. MetaBehindData'
  BY FileAssumption, TicksAssumption, LimitAssumption DEF MetaTakesBuffer,
     Flush, IInv, MetaBehindData, Recorded, Dirty, TypeOK
<1>11. PrefixOnDisk'
  BY FileAssumption, TicksAssumption, LimitAssumption, SMTT(30) DEF
     MetaTakesBuffer, Flush, time, IInv, PrefixOnDisk, Recorded, Block,
     Blank, Dirty, NoBlock, TypeOK, Invalid
<1> QED
  BY <1>1, <1>2, <1>3, <1>4, <1>5, <1>6, <1>7, <1>8, <1>9, <1>10, <1>11 DEF
     IInv

\* The position on the card catches up with the file (record.c:301-304).
LEMMA MetaSyncKeeps == ASSUME Faults = 0, IInv, MetaSync PROVE IInv'
<1>1. TypeOK'
  BY TicksAssumption DEF MetaSync, SaveMeta, buffer, IInv, TypeOK, Location
<1>2. Stage'
  BY DEF MetaSync, SaveMeta, IInv, Stage, Looping, Invalid, TypeOK
<1>3. Behind'
  BY DEF MetaSync, SaveMeta, buffer, IInv, Behind, Placed, Looping, Recorded
<1>4. Dirty'
  BY DEF MetaSync, SaveMeta, buffer, IInv, Dirty, Looping, Recorded
<1>5. Written'
  BY DEF MetaSync, SaveMeta, buffer, IInv, Written, Looping, Recorded
<1>6. Messages'
  BY DEF MetaSync, SaveMeta, IInv, Messages, Held, TypeOK
<1>7. Pace'
  BY TicksAssumption DEF MetaSync, SaveMeta, IInv, Pace, Unsaved, TypeOK,
     Messages, Held
<1>8. Lag'
  BY TicksAssumption DEF MetaSync, SaveMeta, IInv, Lag, Unsaved, K, TypeOK
<1>9. NextStartIsClear'
  BY SkipAssumption DEF MetaSync, SaveMeta, buffer, IInv, NextStartIsClear,
     NextStart, Recorded, Block, Invalid, Looping, Stage, TypeOK
<1>10. MetaBehindData'
  BY DEF MetaSync, SaveMeta, IInv, MetaBehindData, Recorded, Block, Written,
     Looping, Dirty, NoBlock
<1>11. PrefixOnDisk'
  BY DEF MetaSync, SaveMeta, IInv, PrefixOnDisk, Recorded
<1> QED
  BY <1>1, <1>2, <1>3, <1>4, <1>5, <1>6, <1>7, <1>8, <1>9, <1>10, <1>11 DEF
     IInv

\* A crash loses the buffer and nothing else (record.c:310-315).
LEMMA CrashKeeps == ASSUME Faults = 0, IInv, Crash PROVE IInv'
<1>1. TypeOK'
  BY FileAssumption, TicksAssumption, LimitAssumption DEF Crash, persistent,
     history, IInv, TypeOK, Location, Blank
<1>2. Stage'
  BY DEF Crash, IInv, Stage, Looping
<1>3. Behind'
  BY DEF Crash, IInv, Behind, Placed, Looping
<1>4. NextStartIsClear'
  BY DEF Crash, persistent, IInv, NextStartIsClear, NextStart, Recorded,
     Block, NoBlock
<1>5. Dirty' /\ Written' /\ Messages' /\ Pace' /\ Lag'
  BY DEF Crash, IInv, Dirty, Looping, Written, Block, Messages, Held, Pace,
     Lag
<1>6. MetaBehindData' /\ PrefixOnDisk'
  BY DEF Crash, persistent, history, IInv, MetaBehindData, Recorded,
     PrefixOnDisk
<1> QED
  BY <1>1, <1>2, <1>3, <1>4, <1>5, <1>6 DEF IInv

\* Every step of the program keeps the invariant.
LEMMA Inductive == ASSUME Faults = 0, IInv, [Next]_vars PROVE IInv'
<1>1. CASE UNCHANGED vars
  BY <1>1 DEF vars, persistent, buffer, time, history, IInv, TypeOK, Stage,
     NextStart, Behind, Dirty, Written, Messages, Held, Pace, Lag, Unsaved,
     NextStartIsClear, MetaBehindData, PrefixOnDisk, Recorded
<1>2. CASE Next
  BY <1>2, CheckFilePositionKeeps, SwitchOnKeeps, SwitchQuitKeeps,
     SaveFilePositionKeeps, SeekFailsKeeps, SeekKeeps, WriteInfoKeeps,
     TickKeeps, LoopTopKeeps, QuitKeeps, WaitMessageKeeps, WriteBlockKeeps,
     WriteFailsKeeps, NotDueKeeps, DueKeeps, MetaTakesBufferKeeps,
     MetaSyncKeeps, CrashKeeps DEF Next
<1> QED
  BY <1>1, <1>2

----------------------------------------------------------------------------
(* The theorems *)

\* The invariant holds throughout, for every file size, block time and
\* saving interval that satisfy SkipAssumption.
THEOREM Invariance == ASSUME Faults = 0 PROVE Spec => []IInv
<1>1. IInv /\ [Next]_vars => IInv'
  BY Inductive
<1> QED
  BY <1>1, InitInv, PTL DEF Spec

\* A step changes the dirty block only, and that block is new.
LEMMA StepKeepsBlocks ==
  ASSUME Faults = 0, IInv, [Next]_vars
  PROVE  \A b \in Block : Recorded(b) => disk'[b] = disk[b]
<1> SUFFICES ASSUME NEW b \in Block, Recorded(b) PROVE disk'[b] = disk[b]
  OBVIOUS
<1>1. b # cached
  BY DEF IInv, Dirty, Block, NoBlock
<1>2. disk \in [Block -> [id : Nat, kind : {"blank", "info", "data"}]]
  BY DEF IInv, TypeOK
<1>3. \/ UNCHANGED disk
      \/ disk' = [disk EXCEPT ![cached] = content]
  BY DEF Next, vars, persistent, Flush, Put, CheckFilePosition, SwitchOn,
     SwitchQuit, SaveFilePosition, SeekFails, Seek, WriteInfo, Tick, LoopTop,
     Quit, WaitMessage, WriteBlock, WriteFails, NotDue, Due, MetaTakesBuffer,
     MetaSync, Crash
<1> QED
  BY <1>1, <1>2, <1>3

\* No block that holds a recording is written again: the 100 blocks a
\* restart skips (record.c:159-163) are enough whenever they are more than
\* the position may lag behind the data by record.c:252, 291-304.
THEOREM BlocksAreKept == ASSUME Faults = 0 PROVE Spec => NoOverwrite
<1>1. IInv /\ [Next]_vars
      => [\A b \in Block : Recorded(b) => disk'[b] = disk[b]]_vars
  BY StepKeepsBlocks
<1> QED
  BY <1>1, Invariance, PTL DEF Spec, NoOverwrite

\* Wherever the device stops, its next start begins past every block it
\* wrote (record.c:157-165).
THEOREM NextStartClear == ASSUME Faults = 0 PROVE Spec => []NextStartIsClear
<1>1. IInv => NextStartIsClear
  BY DEF IInv
<1> QED
  BY <1>1, Invariance, PTL

\* Whenever the loop is cut short, every block but the last is on the card
\* (record.c:286-304, 310-315).
THEOREM CrashCost == ASSUME Faults = 0 PROVE Spec => []CrashLosesOneBlock
<1>1. IInv => CrashLosesOneBlock
  BY FileAssumption DEF IInv, CrashLosesOneBlock, Written, Dirty, TypeOK,
     Stage, Block, NoBlock, Looping
<1> QED
  BY <1>1, Invariance, PTL

\* A position on the card never promises a block that is not there
\* (record.c:291-304): what lies between the start of a recording and its last
\* saved position is recorded.
THEOREM MetaNeverAhead == ASSUME Faults = 0 PROVE Spec => []MetaBehindData
<1>1. IInv => MetaBehindData
  BY DEF IInv
<1> QED
  BY <1>1, Invariance, PTL

\* What is on the card of a recording is a prefix of it, after its info block,
\* whatever the crash (record.c:237-244, 286-289).
THEOREM PrefixSurvives == ASSUME Faults = 0 PROVE Spec => []PrefixOnDisk
<1>1. IInv => PrefixOnDisk
  BY DEF IInv
<1> QED
  BY <1>1, Invariance, PTL

\* Every variable keeps its type, the bounds of the position and of the
\* message count included.
THEOREM TypeCorrect == ASSUME Faults = 0 PROVE Spec => []TypeOK
<1>1. IInv => TypeOK
  BY DEF IInv
<1> QED
  BY <1>1, Invariance, PTL

----------------------------------------------------------------------------
(* Modules: the inductive invariant *)

\* The same modules with any table of what they depend on.
AnyTable == INSTANCE HostModules WITH Module <- SysModule, Dependancies <- [SysModule -> Seq(SysModule)]

Ran == {tried[n].module : n \in DOMAIN tried}
Place(m, a) == a \in DOMAIN _initializer_list /\ _initializer_list[a] = m
NeedsOf(k) == dependancies[calls[k].module]

ModuleTypes ==
  /\ dependancies \in [SysModule -> Seq(SysModule)]
  /\ _initializer_list \in Seq(SysModule)
  /\ _state \in [SysModule -> {"uninitialized", "initializing", "initialized", "failed"}]
  /\ current \in 0 .. Len(_initializer_list)
  /\ calls \in Seq([module : SysModule, i : Nat \ {0}])
  /\ tried \in Seq([module : SysModule, succeeded : BOOLEAN])

CallsOpen ==
  /\ Modules!Idle => calls = <<>>
  /\ calls # <<>> => calls[1].module = _initializer_list[current]
  /\ \A k \in DOMAIN calls :
       /\ calls[k].module \in Modules!Registered
       /\ _state[calls[k].module] = "initializing"
       /\ \A j \in DOMAIN NeedsOf(k) : j < calls[k].i => NeedsOf(k)[j] \in Ran

Chain ==
  /\ \A k \in DOMAIN calls : k # Len(calls) =>
       calls[k].i \in DOMAIN NeedsOf(k) /\ NeedsOf(k)[calls[k].i] = calls[k + 1].module
  /\ \A k, l \in DOMAIN calls : calls[k].module = calls[l].module => k = l

Outcomes ==
  /\ \A m \in SysModule \ Modules!Registered : _state[m] = "uninitialized"
  /\ \A m \in SysModule : _state[m] = "initialized" => m \in Ran
  /\ \A n \in DOMAIN tried :
       tried[n].succeeded => _state[tried[n].module] = "initialized"

Firsts ==
  \A n \in DOMAIN tried :
    /\ Modules!DependsOn(tried[n].module) \subseteq Modules!TriedBefore(n)
    /\ tried[n].succeeded => \A k \in Modules!Tries(tried[n].module) : k <= n

Once ==
  \A a, b \in DOMAIN _initializer_list : _initializer_list[a] = _initializer_list[b] => a = b

InTime ==
  \A m \in Modules!Settled :
    /\ _state[m] = "initializing" => \E k \in DOMAIN calls : calls[k].module = m
    /\ m \in Ran \/ (current = 1 /\ m = _initializer_list[1])

Descends ==
  \A k, l \in DOMAIN calls : k < l /\ calls[k].module \in Modules!Settled =>
    /\ calls[l].module \in Modules!Settled
    /\ \A a, b : Place(calls[k].module, a) /\ Place(calls[l].module, b) => a < b

ModulesInv == ModuleTypes /\ CallsOpen /\ Chain /\ Outcomes /\ Firsts /\ Once /\ InTime /\ Descends

----------------------------------------------------------------------------

LEMMA PlaceIsNat ==
  ASSUME ModuleTypes, NEW m, NEW a, Place(m, a)
  PROVE  a \in Nat
<1>1. a \in 1 .. Len(_initializer_list) /\ Len(_initializer_list) \in Nat
  BY LenProperties DEF Place, ModuleTypes
<1> QED
  BY <1>1

\* S holds, of each module in it, all it depends on, further on in the list.
HoldsNeeds(S) ==
  \A i \in DOMAIN _initializer_list : _initializer_list[i] \in S =>
    Modules!DependsOn(_initializer_list[i]) \subseteq
      {_initializer_list[j] : j \in i + 1 .. Len(_initializer_list)} \cap S

LEMMA SettledIs ==
  Modules!Settled = {m \in Modules!Registered : \E S \in SUBSET Modules!Registered : m \in S /\ HoldsNeeds(S)}
BY DEF Modules!Settled, HoldsNeeds

\* What a settled module depends on is settled too, and further on in the list.
LEMMA SettledNeeds ==
  ASSUME ModuleTypes, Once, NEW m \in Modules!Settled, NEW d \in Modules!DependsOn(m)
  PROVE  /\ d \in Modules!Settled /\ d \in Modules!Registered /\ m \in Modules!Registered
         /\ \A a, b : Place(m, a) /\ Place(d, b) => a < b
<1>1. PICK S \in SUBSET Modules!Registered : m \in S /\ HoldsNeeds(S)
  BY SettledIs
<1>2. PICK a \in DOMAIN _initializer_list : _initializer_list[a] = m
  BY <1>1 DEF Modules!Registered
<1>3. d \in S /\ d \in Modules!Registered /\ m \in Modules!Registered
  BY <1>1, <1>2 DEF HoldsNeeds
<1>4. d \in Modules!Settled
  BY <1>1, <1>3, SettledIs
<1>5. ASSUME NEW p, NEW q, Place(m, p), Place(d, q)
      PROVE  p < q
  <2>1. d \in {_initializer_list[j] : j \in p + 1 .. Len(_initializer_list)}
    BY <1>1, <1>5 DEF HoldsNeeds, Place
  <2>2. PICK j \in p + 1 .. Len(_initializer_list) : _initializer_list[j] = d
    BY <2>1
  <2>3. p \in Nat /\ j \in DOMAIN _initializer_list
    <3>1. p \in 1 .. Len(_initializer_list) /\ Len(_initializer_list) \in Nat
      BY <1>5, LenProperties DEF Place, ModuleTypes
    <3>2. DOMAIN _initializer_list = 1 .. Len(_initializer_list)
      BY LenProperties DEF ModuleTypes
    <3>3. j \in 1 .. Len(_initializer_list)
      BY <2>2, <3>1
    <3> QED
      BY <3>1, <3>2, <3>3
  <2>4. j = q
    BY <1>5, <2>2, <2>3 DEF Once, Place
  <2> QED
    BY <2>3, <2>4
<1> QED
  BY <1>3, <1>4, <1>5

LEMMA InitModules == AnyTable!Init => ModulesInv
<1> SUFFICES ASSUME AnyTable!Init PROVE ModulesInv
  OBVIOUS
<1>1. DOMAIN calls = {} /\ DOMAIN tried = {} /\ DOMAIN _initializer_list = {}
  BY DEF AnyTable!Init
<1>2. ModuleTypes
  BY DEF AnyTable!Init, ModuleTypes
<1>3. Modules!Registered = {} /\ Modules!Settled = {}
  BY <1>1 DEF Modules!Registered, Modules!Settled
<1> QED
  BY <1>1, <1>2, <1>3 DEF AnyTable!Init, ModulesInv, CallsOpen, Chain, Outcomes, Firsts, Once, InTime, Descends,
     Modules!Idle

\* The steps that leave the list alone leave what is settled alone.
LEMMA SameList ==
  ASSUME UNCHANGED <<dependancies, _initializer_list>>
  PROVE  /\ Modules!Registered' = Modules!Registered /\ Modules!Settled' = Modules!Settled
         /\ \A m : Modules!DependsOn(m)' = Modules!DependsOn(m)
         /\ \A m, a : Place(m, a)' <=> Place(m, a)
         /\ Once' <=> Once
<1>1. Modules!Registered' = Modules!Registered
  BY DEF Modules!Registered
<1>2. \A m : Modules!DependsOn(m)' = Modules!DependsOn(m)
  BY DEF Modules!DependsOn
<1>3. Modules!Settled' = Modules!Settled
  BY <1>1, <1>2 DEF Modules!Settled
<1> QED
  BY <1>1, <1>2, <1>3 DEF Place, Once

\* The elements of the two sequences of records.
LEMMA CallRecords ==
  ASSUME ModuleTypes
  PROVE  /\ Len(calls) \in Nat /\ DOMAIN calls = 1 .. Len(calls)
         /\ \A k \in DOMAIN calls : calls[k].module \in SysModule /\ calls[k].i \in Nat \ {0}
         /\ Len(tried) \in Nat /\ DOMAIN tried = 1 .. Len(tried)
         /\ \A n \in DOMAIN tried : tried[n].module \in SysModule /\ tried[n].succeeded \in BOOLEAN
<1>1. calls \in Seq([module : SysModule, i : Nat \ {0}]) /\ tried \in Seq([module : SysModule, succeeded : BOOLEAN])
  BY DEF ModuleTypes
<1>2. calls \in [1 .. Len(calls) -> [module : SysModule, i : Nat \ {0}]] /\ Len(calls) \in Nat
  BY <1>1, LenProperties
<1>3. tried \in [1 .. Len(tried) -> [module : SysModule, succeeded : BOOLEAN]] /\ Len(tried) \in Nat
  BY <1>1, LenProperties
<1>4. \A k \in DOMAIN calls : calls[k] \in [module : SysModule, i : Nat \ {0}]
  BY <1>2
<1>5. \A n \in DOMAIN tried : tried[n] \in [module : SysModule, succeeded : BOOLEAN]
  BY <1>3
<1> QED
  BY <1>2, <1>3, <1>4, <1>5

LEMMA SameTries ==
  ASSUME UNCHANGED <<dependancies, tried>>, Firsts
  PROVE  Firsts'
<1>1. \A m : Modules!DependsOn(m)' = Modules!DependsOn(m)
  BY DEF Modules!DependsOn
<1>2. \A n : Modules!TriedBefore(n)' = Modules!TriedBefore(n)
  BY DEF Modules!TriedBefore
<1>3. \A m : Modules!Tries(m)' = Modules!Tries(m)
  BY DEF Modules!Tries
<1> QED
  BY <1>1, <1>2, <1>3 DEF Firsts

----------------------------------------------------------------------------
LEMMA ConstructKeeps ==
  ASSUME ModulesInv, NEW m \in SysModule, Modules!Construct(m)
  PROVE  ModulesInv'
<1> USE DEF ModulesInv
<1>1. /\ Modules!Idle /\ m \notin Modules!Registered /\ calls = <<>> /\ calls' = <<>>
      /\ _initializer_list' = <<m>> \o _initializer_list
      /\ current' = 1 /\ UNCHANGED <<dependancies, _state, _error, tried>>
  BY DEF Modules!Construct, CallsOpen
<1>2. /\ _initializer_list \in Seq(SysModule) /\ _initializer_list' \in Seq(SysModule)
      /\ Len(_initializer_list) \in Nat
      /\ Len(_initializer_list') = Len(_initializer_list) + 1
      /\ DOMAIN _initializer_list = 1 .. Len(_initializer_list)
      /\ DOMAIN _initializer_list' = 1 .. Len(_initializer_list) + 1
      /\ _initializer_list'[1] = m
      /\ \A j \in 1 .. Len(_initializer_list) : _initializer_list'[j + 1] = _initializer_list[j]
      /\ \A j \in 2 .. Len(_initializer_list) + 1 : _initializer_list'[j] = _initializer_list[j - 1]
  BY <1>1, LenProperties DEF ModuleTypes
<1>3. Modules!Registered' = Modules!Registered \cup {m}
  <2>1. \A x \in Modules!Registered' : x \in Modules!Registered \cup {m}
    <3> TAKE x \in Modules!Registered'
    <3>1. PICK j \in 1 .. Len(_initializer_list) + 1 : _initializer_list'[j] = x
      BY <1>2 DEF Modules!Registered
    <3>2. CASE j = 1
      BY <3>1, <3>2, <1>2
    <3>3. CASE j # 1
      <4>1. j - 1 \in 1 .. Len(_initializer_list) /\ _initializer_list[j - 1] = x
        BY <3>1, <3>3, <1>2
      <4> QED
        BY <4>1, <1>2 DEF Modules!Registered
    <3> QED
      BY <3>2, <3>3
  <2>2. m \in Modules!Registered'
    BY <1>2 DEF Modules!Registered
  <2>3. \A x \in Modules!Registered : x \in Modules!Registered'
    <3> TAKE x \in Modules!Registered
    <3>1. PICK j \in 1 .. Len(_initializer_list) : _initializer_list[j] = x
      BY <1>2 DEF Modules!Registered
    <3>2. j + 1 \in DOMAIN _initializer_list' /\ _initializer_list'[j + 1] = x
      BY <3>1, <1>2
    <3> QED
      BY <3>2 DEF Modules!Registered
  <2> QED
    BY <2>1, <2>2, <2>3
<1>4. DOMAIN calls' = {}
  BY <1>1
<1>5. ModuleTypes'
  <2>1. current' \in 0 .. Len(_initializer_list')
    BY <1>1, <1>2
  <2> QED
    BY <1>1, <1>2, <2>1 DEF ModuleTypes
<1>6. CallsOpen' /\ Chain' /\ Descends'
  BY <1>1, <1>4 DEF CallsOpen, Chain, Descends, Modules!Idle
<1>7. Outcomes'
  BY <1>1, <1>3 DEF Outcomes, Ran
<1>8. Firsts'
  BY <1>1, SameTries
<1>9. Once'
  <2> SUFFICES ASSUME NEW a \in DOMAIN _initializer_list', NEW b \in DOMAIN _initializer_list',
                      _initializer_list'[a] = _initializer_list'[b]
               PROVE  a = b
    BY DEF Once
  <2>1. ASSUME NEW j \in 2 .. Len(_initializer_list) + 1
        PROVE  _initializer_list'[j] \in Modules!Registered
    <3>1. j - 1 \in DOMAIN _initializer_list
      BY <1>2
    <3>2. _initializer_list'[j] = _initializer_list[j - 1]
      BY <1>2
    <3> QED
      BY <3>1, <3>2 DEF Modules!Registered
  <2>2. CASE a = 1 \/ b = 1
    BY <2>1, <2>2, <1>1, <1>2
  <2>3. CASE a # 1 /\ b # 1
    <3>1. /\ a - 1 \in DOMAIN _initializer_list /\ b - 1 \in DOMAIN _initializer_list
          /\ _initializer_list[a - 1] = _initializer_list[b - 1]
      BY <2>3, <1>2
    <3>2. a - 1 = b - 1
      BY <3>1 DEF Once
    <3> QED
      BY <3>2, <1>2
  <2> QED
    BY <2>2, <2>3
<1>10. InTime'
  <2> SUFFICES ASSUME NEW x \in Modules!Settled'
               PROVE  /\ _state'[x] = "initializing" => \E k \in DOMAIN calls' : calls'[k].module = x
                      /\ x \in Ran' \/ (current' = 1 /\ x = _initializer_list'[1])
    BY DEF InTime
  <2>1. CASE x = m
    <3>1. _state'[m] = "uninitialized"
      BY <1>1 DEF Outcomes
    <3> QED
      BY <2>1, <3>1, <1>1, <1>2
  <2>2. CASE x # m
    <3>1. PICK S \in SUBSET (Modules!Registered') : x \in S /\ HoldsNeeds(S)'
      BY DEF Modules!Settled, HoldsNeeds
    <3> DEFINE T == S \ {m}
    <3>2. T \in SUBSET Modules!Registered /\ x \in T
      BY <3>1, <2>2, <1>3
    <3>6. \A i \in DOMAIN _initializer_list' : _initializer_list'[i] \in S =>
            Modules!DependsOn(_initializer_list'[i]) \subseteq
              {_initializer_list'[j] : j \in i + 1 .. Len(_initializer_list')} \cap S
      <4>1. \A y : Modules!DependsOn(y)' = Modules!DependsOn(y)
        BY <1>1 DEF Modules!DependsOn
      <4> QED
        BY <3>1, <4>1 DEF HoldsNeeds
    <3>3. HoldsNeeds(T)
      <4> SUFFICES ASSUME NEW i \in DOMAIN _initializer_list, _initializer_list[i] \in T,
                          NEW d \in Modules!DependsOn(_initializer_list[i])
                   PROVE  d \in {_initializer_list[j] : j \in i + 1 .. Len(_initializer_list)} \cap T
        BY DEF HoldsNeeds
      <4>1. i + 1 \in DOMAIN _initializer_list' /\ _initializer_list'[i + 1] = _initializer_list[i]
        BY <1>2
      <4>2. Modules!DependsOn(_initializer_list[i]) \subseteq
              {_initializer_list'[j] : j \in (i + 1) + 1 .. Len(_initializer_list')} \cap S
        BY <3>6, <4>1
      <4>3. d \in {_initializer_list'[j] : j \in i + 2 .. Len(_initializer_list')} \cap S
        <5>1. (i + 1) + 1 = i + 2
          BY <1>2
        <5> QED
          BY <4>2, <5>1
      <4>4. PICK j \in i + 2 .. Len(_initializer_list) + 1 : _initializer_list'[j] = d
        BY <4>3, <1>2
      <4>5. j - 1 \in i + 1 .. Len(_initializer_list) /\ _initializer_list[j - 1] = d
        BY <4>4, <1>2
      <4>6. d \in Modules!Registered
        BY <4>5, <1>2 DEF Modules!Registered
      <4> QED
        BY <4>3, <4>5, <4>6, <1>1
    <3>4. x \in Modules!Settled
      BY <3>2, <3>3, SettledIs
    <3>5. x \in Ran /\ _state[x] # "initializing"
      BY <3>4, <1>1, <1>4 DEF InTime, Modules!Idle
    <3> QED
      BY <3>5, <1>1 DEF Ran
  <2> QED
    BY <2>1, <2>2
<1> QED
  BY <1>5, <1>6, <1>7, <1>8, <1>9, <1>10

LEMMA SkipOverKeeps == ModulesInv /\ Modules!SkipOver => ModulesInv'
<1> SUFFICES ASSUME ModulesInv, Modules!SkipOver PROVE ModulesInv'
  OBVIOUS
<1> USE DEF ModulesInv
<1>1. /\ calls = <<>> /\ current \in DOMAIN _initializer_list
      /\ _state[_initializer_list[current]] = "initialized"
      /\ UNCHANGED <<dependancies, _initializer_list, _state, _error, calls, tried>>
      /\ current' \in 0 .. Len(_initializer_list)
  BY LenProperties DEF Modules!SkipOver, Modules!Idle, Modules!register, Modules!Onwards, ModuleTypes
<1>2. _initializer_list[current] \in Ran
  BY <1>1 DEF Outcomes, ModuleTypes
<1>3. ModuleTypes' /\ CallsOpen' /\ Chain'
  BY <1>1 DEF ModuleTypes, CallsOpen, Chain, Modules!Registered, NeedsOf, Ran
<1>4. Outcomes' /\ Firsts' /\ Once'
  BY <1>1, SameList, SameTries DEF Outcomes, Ran
<1>5. InTime'
  BY <1>1, <1>2, SameList DEF InTime, Ran
<1>6. Descends'
  BY <1>1, SameList DEF Descends
<1> QED
  BY <1>3, <1>4, <1>5, <1>6

LEMMA TryKeeps == ModulesInv /\ Modules!Try => ModulesInv'
<1> SUFFICES ASSUME ModulesInv, Modules!Try PROVE ModulesInv'
  OBVIOUS
<1> USE DEF ModulesInv
<1> DEFINE m == _initializer_list[current]
<1>1. /\ calls = <<>> /\ current \in DOMAIN _initializer_list /\ ~ Modules!Idle
      /\ _state[m] # "initialized"
      /\ calls' = Append(calls, [module |-> m, i |-> 1])
      /\ _state' = [_state EXCEPT ![m] = "initializing"]
      /\ UNCHANGED <<dependancies, _initializer_list, _error, current, tried>>
  BY LenProperties DEF Modules!Try, Modules!Open, Modules!Idle, ModuleTypes
<1>2. m \in SysModule /\ m \in Modules!Registered
  BY <1>1 DEF ModuleTypes, Modules!Registered
<1> HIDE DEF m
<1>3. /\ calls' = <<[module |-> m, i |-> 1]>>
      /\ DOMAIN calls' = {1} /\ Len(calls') = 1
      /\ calls'[1].module = m /\ calls'[1].i = 1
  BY <1>1, <1>2
<1>4. _state'[m] = "initializing" /\ \A x \in SysModule : x # m => _state'[x] = _state[x]
  BY <1>1, <1>2 DEF ModuleTypes
<1>5. ModuleTypes'
  BY <1>1, <1>2, <1>3 DEF ModuleTypes
<1>6. CallsOpen'
  <2>1. DOMAIN dependancies'[m] = 1 .. Len(dependancies[m])
    BY <1>1, <1>2, LenProperties DEF ModuleTypes
  <2> QED
    BY <1>1, <1>2, <1>3, <1>4, <2>1, SameList DEF CallsOpen, NeedsOf, Modules!Idle, m
<1>7. Chain'
  BY <1>3 DEF Chain
<1>8. Outcomes'
  <2>1. \A n \in DOMAIN tried : tried[n].module \in SysModule
    BY CallRecords
  <2> QED
    BY <1>1, <1>2, <1>4, <2>1, SameList DEF Outcomes, Ran
<1>9. Firsts' /\ Once'
  BY <1>1, SameList, SameTries
<1>10. InTime'
  <2>1. \A x \in Modules!Settled : x \in SysModule
    BY DEF Modules!Settled, Modules!Registered, ModuleTypes
  <2>2. \A x \in Modules!Settled : x # m => _state'[x] # "initializing"
    BY <1>1, <1>4, <2>1 DEF InTime
  <2> QED
    BY <1>1, <1>3, <2>2, SameList DEF InTime, Ran
<1>11. Descends'
  BY <1>3 DEF Descends
<1> QED
  BY <1>5, <1>6, <1>7, <1>8, <1>9, <1>10, <1>11

----------------------------------------------------------------------------
\* The innermost call, and the module it waits for.
LEMMA InnermostCall ==
  ASSUME ModulesInv, calls # <<>>
  PROVE  /\ Len(calls) \in DOMAIN calls /\ Len(calls) >= 1
         /\ Modules!Innermost.module \in SysModule /\ Modules!Innermost.module \in Modules!Registered
         /\ Modules!Innermost.i \in Nat \ {0}
         /\ DOMAIN dependancies[Modules!Innermost.module] = 1 .. Len(dependancies[Modules!Innermost.module])
         /\ Len(dependancies[Modules!Innermost.module]) \in Nat
         /\ Modules!Waits => /\ Modules!Innermost.i \in DOMAIN dependancies[Modules!Innermost.module]
                     /\ Modules!Parent \in SysModule /\ Modules!Parent \in Modules!DependsOn(Modules!Innermost.module)
<1> USE DEF ModulesInv
<1>1. Len(calls) \in Nat /\ DOMAIN calls = 1 .. Len(calls) /\ Len(calls) # 0
  <2>1. calls \in Seq([module : SysModule, i : Nat \ {0}])
    BY DEF ModuleTypes
  <2> QED
    BY <2>1, CallRecords
<1>2. Len(calls) \in DOMAIN calls /\ Len(calls) >= 1
  BY <1>1
<1>3. Modules!Innermost.module \in SysModule /\ Modules!Innermost.i \in Nat \ {0} /\ Modules!Innermost.module \in Modules!Registered
  BY <1>2, CallRecords DEF Modules!Innermost, CallsOpen
<1>4. dependancies[Modules!Innermost.module] \in Seq(SysModule)
  BY <1>3 DEF ModuleTypes
<1>5. /\ DOMAIN dependancies[Modules!Innermost.module] = 1 .. Len(dependancies[Modules!Innermost.module])
      /\ Len(dependancies[Modules!Innermost.module]) \in Nat
      /\ \A j \in 1 .. Len(dependancies[Modules!Innermost.module]) : dependancies[Modules!Innermost.module][j] \in SysModule
  BY <1>4, LenProperties
<1>6. Modules!Waits => /\ Modules!Innermost.i \in DOMAIN dependancies[Modules!Innermost.module]
               /\ Modules!Parent \in SysModule /\ Modules!Parent \in Modules!DependsOn(Modules!Innermost.module)
  BY <1>3, <1>5 DEF Modules!Waits, Modules!Parent, Modules!DependsOn
<1> QED
  BY <1>2, <1>3, <1>5, <1>6

\* A settled call has only settled ones inside it, and the module they wait for is settled too.
LEMMA SettledCalls ==
  ASSUME ModulesInv, Modules!Waits, NEW k \in DOMAIN calls, calls[k].module \in Modules!Settled
  PROVE  /\ Modules!Parent \in Modules!Settled
         /\ \A a, b : Place(calls[k].module, a) /\ Place(Modules!Parent, b) => a < b
<1> USE DEF ModulesInv
<1>1. calls # <<>> /\ Len(calls) \in DOMAIN calls /\ k <= Len(calls)
  BY InnermostCall, CallRecords DEF Modules!Waits
<1>2. Modules!Innermost.module \in Modules!Settled
  <2>1. CASE k = Len(calls)
    BY <2>1 DEF Modules!Innermost
  <2>2. CASE k # Len(calls)
    <3>1. k < Len(calls)
      BY <1>1, <2>2, CallRecords
    <3> QED
      BY <1>1, <3>1 DEF Descends, Modules!Innermost
  <2> QED
    BY <2>1, <2>2
<1>3. Modules!Parent \in Modules!DependsOn(Modules!Innermost.module)
  BY <1>1, InnermostCall
<1>4. /\ Modules!Parent \in Modules!Settled
      /\ \A a, b : Place(Modules!Innermost.module, a) /\ Place(Modules!Parent, b) => a < b
  BY <1>2, <1>3, SettledNeeds
<1>5. ASSUME NEW a, NEW b, Place(calls[k].module, a), Place(Modules!Parent, b)
      PROVE  a < b
  <2>1. CASE k = Len(calls)
    BY <2>1, <1>4, <1>5 DEF Modules!Innermost
  <2>2. CASE k # Len(calls)
    <3>1. k < Len(calls)
      BY <1>1, <2>2, CallRecords
    <3>2. PICK c : Place(Modules!Innermost.module, c)
      BY <1>1, InnermostCall DEF Modules!Registered, Place
    <3>3. a < c
      BY <1>1, <1>5, <3>1, <3>2 DEF Descends, Modules!Innermost
    <3>4. c < b
      BY <1>4, <1>5, <3>2
    <3>5. a \in Nat /\ b \in Nat /\ c \in Nat
      BY <1>5, <3>2, PlaceIsNat
    <3> QED
      BY <3>3, <3>4, <3>5
  <2> QED
    BY <2>1, <2>2
<1> QED
  BY <1>4, <1>5

\* A module that is missing or waits itself is not waited for by a settled one.
LEMMA StuckIsNotSettled ==
  ASSUME ModulesInv, Modules!Waits, Modules!Parent \notin Modules!Registered \/ _state[Modules!Parent] = "initializing"
  PROVE  \A k \in DOMAIN calls : calls[k].module \notin Modules!Settled
<1> USE DEF ModulesInv
<1> SUFFICES ASSUME NEW k \in DOMAIN calls, calls[k].module \in Modules!Settled
             PROVE  FALSE
  OBVIOUS
<1>1. /\ Modules!Parent \in Modules!Settled
      /\ \A a, b : Place(calls[k].module, a) /\ Place(Modules!Parent, b) => a < b
  BY SettledCalls
<1>2. Modules!Parent \in Modules!Registered
  BY <1>1 DEF Modules!Settled
<1>3. PICK l \in DOMAIN calls : calls[l].module = Modules!Parent
  BY <1>1, <1>2 DEF InTime
<1>4. \A a, b : Place(calls[l].module, a) /\ Place(Modules!Parent, b) => a < b
  BY <1>1, <1>3, SettledCalls
<1>5. PICK a : Place(Modules!Parent, a)
  BY <1>2 DEF Modules!Registered, Place
<1>6. a < a /\ a \in Nat
  BY <1>3, <1>4, <1>5, PlaceIsNat
<1> QED
  BY <1>6

LEMMA AbandonKeeps ==
  ASSUME ModulesInv, Modules!Waits, NEW error, Modules!Abandon(error),
         Modules!Parent \notin Modules!Registered \/ _state[Modules!Parent] = "initializing"
  PROVE  ModulesInv'
<1> USE DEF ModulesInv
<1>1. /\ calls # <<>> /\ calls' = <<>> /\ DOMAIN calls' = {} /\ current' = Modules!Onwards
      /\ UNCHANGED <<dependancies, _initializer_list, _state, tried>>
  BY DEF Modules!Abandon, Modules!Waits
<1>2. current \in 1 .. Len(_initializer_list) /\ Len(_initializer_list) \in Nat
  BY <1>1, LenProperties DEF CallsOpen, Modules!Idle, ModuleTypes
<1>3. current' \in 0 .. Len(_initializer_list')
  BY <1>1, <1>2 DEF Modules!Onwards
<1>4. ModuleTypes'
  BY <1>1, <1>3 DEF ModuleTypes
<1>5. CallsOpen' /\ Chain' /\ Descends'
  BY <1>1 DEF CallsOpen, Chain, Descends
<1>6. Outcomes' /\ Firsts' /\ Once'
  BY <1>1, SameList, SameTries DEF Outcomes, Ran
<1>7. InTime'
  <2>1. \A k \in DOMAIN calls : calls[k].module \notin Modules!Settled
    BY StuckIsNotSettled
  <2>2. _initializer_list[current] \notin Modules!Settled
    <3>1. 1 \in DOMAIN calls
      BY <1>1, InnermostCall, CallRecords
    <3> QED
      BY <2>1, <3>1, <1>1 DEF CallsOpen
  <2>3. \A x \in Modules!Settled : _state[x] # "initializing" /\ x \in Ran
    BY <2>1, <2>2 DEF InTime
  <2> QED
    BY <2>3, <1>1, SameList DEF InTime, Ran
<1> QED
  BY <1>4, <1>5, <1>6, <1>7

LEMMA SatisfiedKeeps == ModulesInv /\ Modules!Satisfied => ModulesInv'
<1> SUFFICES ASSUME ModulesInv, Modules!Satisfied PROVE ModulesInv'
  OBVIOUS
<1> USE DEF ModulesInv
<1> DEFINE n == Len(calls)
<1>1. /\ Modules!Waits /\ calls # <<>> /\ _state[Modules!Parent] = "initialized" /\ calls' = [calls EXCEPT ![n].i = @ + 1]
      /\ UNCHANGED <<dependancies, _initializer_list, _state, _error, current, tried>>
  BY DEF Modules!Satisfied, Modules!InitializedAlready, Modules!Passed, Modules!Waits, Modules!register
<1>2. /\ n \in DOMAIN calls /\ Modules!Innermost = calls[n] /\ Modules!Parent \in SysModule
      /\ Modules!Innermost.module \in SysModule /\ calls[n].i \in DOMAIN dependancies[calls[n].module]
      /\ DOMAIN dependancies[calls[n].module] \subseteq Int
      /\ Modules!Parent = dependancies[calls[n].module][calls[n].i]
  BY <1>1, InnermostCall DEF Modules!Innermost, Modules!Parent
<1>3. /\ calls' \in Seq([module : SysModule, i : Nat \ {0}])
      /\ DOMAIN calls' = DOMAIN calls /\ Len(calls') = n
      /\ \A k \in DOMAIN calls : calls'[k].module = calls[k].module
      /\ calls'[n].i = calls[n].i + 1
      /\ \A k \in DOMAIN calls : k # n => calls'[k].i = calls[k].i
  <2>1. calls \in Seq([module : SysModule, i : Nat \ {0}])
    BY DEF ModuleTypes
  <2>2. /\ \A k \in DOMAIN calls : calls[k] \in [module : SysModule, i : Nat \ {0}]
        /\ DOMAIN calls = 1 .. Len(calls) /\ Len(calls) \in Nat
    BY <2>1, ElementsOf
  <2>3. [calls[n] EXCEPT !.i = @ + 1] \in [module : SysModule, i : Nat \ {0}]
    BY <2>2, <1>2
  <2>4. calls' = [calls EXCEPT ![n] = [calls[n] EXCEPT !.i = @ + 1]]
    BY <1>1
  <2> HIDE DEF n
  <2>5. calls' \in [1 .. Len(calls) -> [module : SysModule, i : Nat \ {0}]]
    BY <2>1, <2>2, <2>3, <2>4, <1>2
  <2>6. calls' \in Seq([module : SysModule, i : Nat \ {0}]) /\ Len(calls') = Len(calls)
    BY <2>2, <2>5, OfItsLength
  <2> QED
    BY <2>2, <2>4, <2>6, <1>2 DEF n
<1>4. Modules!Parent \in Ran
  BY <1>1, <1>2 DEF Outcomes
<1> HIDE DEF n
<1>5. ModuleTypes'
  BY <1>1, <1>3 DEF ModuleTypes
<1>6. CallsOpen'
  <2>1. \A k \in DOMAIN calls : \A j \in DOMAIN dependancies[calls[k].module] :
          j < calls'[k].i => dependancies[calls[k].module][j] \in Ran
    <3> SUFFICES ASSUME NEW k \in DOMAIN calls, NEW j \in DOMAIN dependancies[calls[k].module],
                        j < calls'[k].i
                 PROVE  dependancies[calls[k].module][j] \in Ran
      OBVIOUS
    <3>1. CASE k # n
      BY <3>1, <1>3 DEF CallsOpen, NeedsOf
    <3>2. CASE k = n
      <4>1. j \in Int /\ calls[n].i \in Int
        BY <3>2, <1>2
      <4>2. j < calls[n].i + 1
        BY <3>2, <1>3
      <4>3. j < calls[n].i \/ j = calls[n].i
        BY <4>1, <4>2
      <4> QED
        BY <4>3, <3>2, <1>2, <1>4 DEF CallsOpen, NeedsOf
    <3> QED
      BY <3>1, <3>2
  <2> QED
    BY <1>1, <1>2, <1>3, <2>1, SameList DEF CallsOpen, NeedsOf, Ran, Modules!Idle
<1>7. Chain'
  BY <1>1, <1>3 DEF Chain, NeedsOf, n
<1>8. Outcomes' /\ Firsts' /\ Once'
  BY <1>1, SameList, SameTries DEF Outcomes, Ran
<1>9. InTime'
  BY <1>1, <1>3, SameList DEF InTime, Ran
<1>10. Descends'
  BY <1>1, <1>3, SameList DEF Descends
<1> QED
  BY <1>5, <1>6, <1>7, <1>8, <1>9, <1>10

LEMMA DescendKeeps == ModulesInv /\ Modules!Descend => ModulesInv'
<1> SUFFICES ASSUME ModulesInv, Modules!Descend PROVE ModulesInv'
  OBVIOUS
<1> USE DEF ModulesInv
<1> DEFINE n == Len(calls)
           d == Modules!Parent
<1>1. /\ Modules!Waits /\ calls # <<>> /\ d \in Modules!Registered
      /\ _state[d] \in {"uninitialized", "failed"}
      /\ calls' = Append(calls, [module |-> d, i |-> 1])
      /\ _state' = [_state EXCEPT ![d] = "initializing"]
      /\ UNCHANGED <<dependancies, _initializer_list, _error, current, tried>>
  BY DEF Modules!Descend, Modules!Open, Modules!Waits
<1>2. /\ n \in DOMAIN calls /\ n >= 1 /\ Modules!Innermost = calls[n] /\ d \in SysModule
      /\ d \in Modules!DependsOn(calls[n].module)
      /\ calls[n].i \in DOMAIN dependancies[calls[n].module]
      /\ d = dependancies[calls[n].module][calls[n].i]
  BY <1>1, InnermostCall DEF Modules!Innermost, Modules!Parent
<1>3. \A k \in DOMAIN calls : calls[k].module \in Modules!Settled =>
        d \in Modules!Settled /\ \A a, b : Place(calls[k].module, a) /\ Place(d, b) => a < b
  BY <1>1, SettledCalls
<1> HIDE DEF d
<1>4. /\ calls' \in Seq([module : SysModule, i : Nat \ {0}])
      /\ n \in Nat /\ DOMAIN calls = 1 .. n /\ DOMAIN calls' = 1 .. n + 1 /\ Len(calls') = n + 1
      /\ \A k \in 1 .. n : calls'[k] = calls[k]
      /\ calls'[n + 1] = [module |-> d, i |-> 1]
  <2>1. calls \in Seq([module : SysModule, i : Nat \ {0}])
    BY DEF ModuleTypes
  <2>2. [module |-> d, i |-> 1] \in [module : SysModule, i : Nat \ {0}]
    BY <1>2
  <2> QED
    BY <2>1, <2>2, <1>1, AppendProperties, LenProperties
<1>5. \A k \in 1 .. n : calls[k].module # d
  BY <1>1, <1>4 DEF CallsOpen
<1>6. _state'[d] = "initializing" /\ \A x \in SysModule : x # d => _state'[x] = _state[x]
  BY <1>1, <1>2 DEF ModuleTypes
<1> HIDE DEF n
<1>7. ModuleTypes'
  BY <1>1, <1>2, <1>4 DEF ModuleTypes
<1>8. CallsOpen'
  <2> SUFFICES ASSUME NEW k \in DOMAIN calls'
               PROVE  /\ calls'[k].module \in Modules!Registered'
                      /\ _state'[calls'[k].module] = "initializing"
                      /\ \A j \in DOMAIN NeedsOf(k)' : j < calls'[k].i => NeedsOf(k)'[j] \in Ran'
    <3>1. calls'[1] = calls[1]
      BY <1>2, <1>4
    <3> QED
      BY <1>1, <3>1 DEF CallsOpen, Modules!Idle
  <2>1. CASE k = n + 1
    <3>1. dependancies[d] \in Seq(SysModule)
      BY <1>2 DEF ModuleTypes
    <3>2. DOMAIN dependancies[d] = 1 .. Len(dependancies[d])
      BY <3>1, LenProperties
    <3>3. \A j \in DOMAIN NeedsOf(k)' : ~ (j < calls'[k].i)
      BY <1>1, <1>4, <2>1, <3>2 DEF NeedsOf
    <3> QED
      BY <1>1, <1>4, <1>6, <2>1, <3>3, SameList
  <2>2. CASE k # n + 1
    <3>1. k \in DOMAIN calls /\ calls'[k] = calls[k]
      BY <1>4, <2>2
    <3>2. calls[k].module \in SysModule
      BY <3>1, CallRecords
    <3> QED
      BY <1>1, <1>4, <1>5, <1>6, <3>1, <3>2, SameList DEF CallsOpen, NeedsOf, Ran
  <2> QED
    BY <2>1, <2>2
<1>9. Chain'
  <2>1. ASSUME NEW k \in DOMAIN calls', k # Len(calls')
        PROVE  /\ calls'[k].i \in DOMAIN NeedsOf(k)'
               /\ NeedsOf(k)'[calls'[k].i] = calls'[k + 1].module
    <3>1. k \in DOMAIN calls /\ calls'[k] = calls[k]
      BY <1>4, <2>1
    <3>2. CASE k = n
      <4>1. calls'[k + 1].module = d
        BY <1>4, <3>2
      <4>2. NeedsOf(k)' = dependancies[calls[n].module]
        BY <1>1, <3>1, <3>2 DEF NeedsOf
      <4> QED
        BY <1>2, <3>1, <3>2, <4>1, <4>2
    <3>3. CASE k # n
      <4>1. k + 1 \in 1 .. n
        BY <1>4, <3>1, <3>3
      <4> QED
        BY <1>1, <1>4, <3>1, <3>3, <4>1 DEF NeedsOf, Chain, n
    <3> QED
      BY <3>2, <3>3
  <2>2. ASSUME NEW k \in DOMAIN calls', NEW l \in DOMAIN calls', calls'[k].module = calls'[l].module
        PROVE  k = l
    <3>1. CASE k = n + 1 \/ l = n + 1
      <4>1. \A j \in DOMAIN calls' : calls'[j].module = d => j = n + 1
        BY <1>4, <1>5
      <4>2. calls'[n + 1].module = d
        BY <1>4
      <4> QED
        BY <2>2, <3>1, <4>1, <4>2
    <3>2. CASE k # n + 1 /\ l # n + 1
      BY <1>4, <2>2, <3>2 DEF Chain
    <3> QED
      BY <3>1, <3>2
  <2> QED
    BY <2>1, <2>2 DEF Chain
<1>10. Outcomes'
  <2>1. \A k \in DOMAIN tried : tried[k].module \in SysModule
    BY CallRecords
  <2> QED
    BY <1>1, <1>2, <1>6, <2>1, SameList DEF Outcomes, Ran
<1>11. Firsts' /\ Once'
  BY <1>1, SameList, SameTries
<1>12. InTime'
  <2>1. \A x \in Modules!Settled : x \in SysModule
    BY DEF Modules!Settled, Modules!Registered, ModuleTypes
  <2>2. \A x \in Modules!Settled : _state'[x] = "initializing" => \E k \in DOMAIN calls' : calls'[k].module = x
    <3> SUFFICES ASSUME NEW x \in Modules!Settled, _state'[x] = "initializing"
                 PROVE  \E k \in DOMAIN calls' : calls'[k].module = x
      OBVIOUS
    <3>1. CASE x = d
      <4>1. n + 1 \in DOMAIN calls' /\ calls'[n + 1].module = x
        BY <1>4, <3>1
      <4> QED
        BY <4>1
    <3>2. CASE x # d
      <4>1. PICK k \in DOMAIN calls : calls[k].module = x
        BY <1>6, <2>1, <3>2 DEF InTime
      <4>2. k \in DOMAIN calls' /\ calls'[k].module = x
        BY <1>4, <4>1
      <4> QED
        BY <4>2
    <3> QED
      BY <3>1, <3>2
  <2> QED
    BY <1>1, <2>2, SameList DEF InTime, Ran
<1>13. Descends'
  <2> SUFFICES ASSUME NEW k \in DOMAIN calls', NEW l \in DOMAIN calls', k < l,
                      calls'[k].module \in Modules!Settled
               PROVE  /\ calls'[l].module \in Modules!Settled
                      /\ \A a, b : Place(calls'[k].module, a) /\ Place(calls'[l].module, b) => a < b
    <3>1. Modules!Settled' = Modules!Settled /\ \A m, a : Place(m, a)' <=> Place(m, a)
      BY <1>1, SameList
    <3> QED
      BY <3>1 DEF Descends
  <2>1. k \in DOMAIN calls /\ calls'[k] = calls[k]
    BY <1>4
  <2>2. CASE l = n + 1
    BY <1>3, <1>4, <2>1, <2>2
  <2>3. CASE l # n + 1
    <3>1. l \in DOMAIN calls /\ calls'[l] = calls[l]
      BY <1>4, <2>3
    <3> QED
      BY <2>1, <3>1 DEF Descends
  <2> QED
    BY <2>2, <2>3
<1> QED
  BY <1>7, <1>8, <1>9, <1>10, <1>11, <1>12, <1>13

----------------------------------------------------------------------------
\* The calls that are left when the innermost returns.
LEMMA ReturnedIs ==
  ASSUME calls \in Seq([module : SysModule, i : Nat \ {0}]), Len(calls) >= 2
  PROVE  LET n == Len(calls)
         IN  /\ Modules!Returned \in Seq([module : SysModule, i : Nat \ {0}])
             /\ DOMAIN Modules!Returned = 1 .. n - 1 /\ Len(Modules!Returned) = n - 1
             /\ \A k \in 1 .. n - 1 : Modules!Returned[k].module = calls[k].module
             /\ \A k \in 1 .. n - 1 :
                   Modules!Returned[k].i = IF k = n - 1 THEN calls[k].i + 1 ELSE calls[k].i
<1> DEFINE R == [module : SysModule, i : Nat \ {0}]
           n == Len(calls)
           callers == SubSeq(calls, 1, n - 1)
<1>1. /\ calls \in Seq(R) /\ n \in Nat /\ n >= 2 /\ n - 1 \in Nat /\ n - 1 \in 1 .. n - 1
      /\ calls \in [1 .. n -> R]
  <2>1. calls \in Seq(R) /\ n >= 2
    OBVIOUS
  <2> HIDE DEF R
  <2>2. n \in Nat /\ calls \in [1 .. n -> R]
    BY <2>1, LenProperties
  <2> QED
    BY <2>1, <2>2
<1>2. Modules!Returned = [callers EXCEPT ![Len(callers)].i = @ + 1]
  BY <1>1 DEF Modules!Returned
<1> HIDE DEF n, R
<1>3. callers = [k \in 1 .. n - 1 |-> calls[k]] /\ Len(callers) = n - 1
  <2>1. Len(callers) = n - 1 /\ callers \in Seq(R) /\ \A k \in 1 .. n - 1 : callers[k] = calls[k]
    BY <1>1, SubSeqProperties DEF n
  <2> QED
    BY <2>1, <1>1, LenProperties
<1> HIDE DEF callers
<1>4. calls[n - 1] \in R /\ \A k \in 1 .. n - 1 : calls[k] \in R
  BY <1>1
<1>5. [calls[n - 1] EXCEPT !.i = @ + 1] \in R
  BY <1>4 DEF R
<1>6. callers[n - 1] = calls[n - 1]
  BY <1>1, <1>3
<1>7. Modules!Returned = [callers EXCEPT ![n - 1] = [calls[n - 1] EXCEPT !.i = @ + 1]]
  BY <1>2, <1>3, <1>6
<1> HIDE DEF Modules!Returned
<1>8. Modules!Returned \in [1 .. n - 1 -> R]
  BY <1>3, <1>4, <1>5, <1>7
<1>9. Modules!Returned \in Seq(R) /\ Len(Modules!Returned) = n - 1 /\ DOMAIN Modules!Returned = 1 .. n - 1
  BY <1>1, <1>8, OfItsLength
<1>10. \A k \in 1 .. n - 1 : k # n - 1 => Modules!Returned[k] = calls[k]
  BY <1>3, <1>7
<1>11. Modules!Returned[n - 1] = [calls[n - 1] EXCEPT !.i = @ + 1]
  BY <1>1, <1>3, <1>7
<1>12. Modules!Returned[n - 1].module = calls[n - 1].module /\ Modules!Returned[n - 1].i = calls[n - 1].i + 1
  BY <1>4, <1>11 DEF R
<1> QED
  BY <1>9, <1>10, <1>12 DEF n, R

LEMMA InitializeKeeps ==
  ASSUME ModulesInv, NEW succeeded \in BOOLEAN, Modules!Initialize(succeeded)
  PROVE  ModulesInv'
<1> USE DEF ModulesInv
<1> DEFINE n == Len(calls)
           m == calls[n].module
           p == Len(tried)
<1>1. /\ calls # <<>> /\ ~ Modules!Waits
      /\ _state' = [_state EXCEPT ![m] = IF succeeded THEN "initialized" ELSE "failed"]
      /\ tried' = Append(tried, [module |-> m, succeeded |-> succeeded])
      /\ calls' = Modules!Returned
      /\ current' = IF n = 1 THEN Modules!Onwards ELSE current
      /\ UNCHANGED <<dependancies, _initializer_list>>
  BY DEF Modules!Initialize, Modules!Innermost
<1>2. /\ n \in Nat \ {0} /\ DOMAIN calls = 1 .. n /\ m \in SysModule /\ m \in Modules!Registered
      /\ _state[m] = "initializing"
      /\ \A k \in 1 .. n : calls[k].module = m => k = n
      /\ \A j \in DOMAIN dependancies[m] : dependancies[m][j] \in Ran
  <2>1. n \in Nat \ {0} /\ DOMAIN calls = 1 .. n /\ n \in DOMAIN calls
    BY <1>1, InnermostCall, CallRecords
  <2>2. m \in SysModule /\ m \in Modules!Registered /\ _state[m] = "initializing"
    BY <2>1, CallRecords DEF CallsOpen
  <2>3. \A k \in 1 .. n : calls[k].module = m => k = n
    BY <2>1 DEF Chain
  <2>4. \A j \in DOMAIN dependancies[m] : j < calls[n].i
    <3>1. /\ DOMAIN dependancies[m] = 1 .. Len(dependancies[m]) /\ Len(dependancies[m]) \in Nat
          /\ calls[n].i \in Nat
      BY <1>1, InnermostCall DEF Modules!Innermost
    <3>2. ~ (calls[n].i <= Len(dependancies[m]))
      BY <1>1 DEF Modules!Waits, Modules!Innermost
    <3> QED
      BY <3>1, <3>2
  <2> QED
    BY <2>1, <2>2, <2>3, <2>4 DEF CallsOpen, NeedsOf
<1>3. /\ calls' \in Seq([module : SysModule, i : Nat \ {0}])
      /\ DOMAIN calls' = 1 .. n - 1 /\ Len(calls') = n - 1
      /\ \A k \in 1 .. n - 1 : calls'[k].module = calls[k].module
      /\ \A k \in 1 .. n - 1 : calls'[k].i = IF k = n - 1 THEN calls[k].i + 1 ELSE calls[k].i
  <2>1. CASE n = 1
    BY <1>1, <2>1 DEF Modules!Returned
  <2>2. CASE n # 1
    <3>1. n >= 2
      <4> HIDE DEF n
      <4> QED
        BY <1>2, <2>2
    <3>3. calls \in Seq([module : SysModule, i : Nat \ {0}])
      BY DEF ModuleTypes
    <3>2. calls' = Modules!Returned /\ Len(calls) # 1
      BY <1>1, <2>2
    <3> QED
      BY <3>1, <3>2, <3>3, ReturnedIs
  <2> QED
    BY <2>1, <2>2
<1>4. /\ tried' \in Seq([module : SysModule, succeeded : BOOLEAN])
      /\ p \in Nat /\ DOMAIN tried = 1 .. p /\ DOMAIN tried' = 1 .. p + 1
      /\ \A k \in 1 .. p : tried'[k] = tried[k]
      /\ tried'[p + 1] = [module |-> m, succeeded |-> succeeded]
  <2>1. tried \in Seq([module : SysModule, succeeded : BOOLEAN])
    BY DEF ModuleTypes
  <2>2. [module |-> m, succeeded |-> succeeded] \in [module : SysModule, succeeded : BOOLEAN]
    BY <1>2
  <2> QED
    BY <2>1, <2>2, <1>1, AppendProperties, LenProperties
<1>5. /\ _state'[m] = IF succeeded THEN "initialized" ELSE "failed"
      /\ \A x \in SysModule : x # m => _state'[x] = _state[x]
  BY <1>1, <1>2 DEF ModuleTypes
<1>6. Ran' = Ran \cup {m}
  <2>1. DOMAIN tried' = DOMAIN tried \cup {p + 1}
    BY <1>4
  <2>2. tried'[p + 1].module = m /\ \A k \in DOMAIN tried : tried'[k].module = tried[k].module
    BY <1>4
  <2> HIDE DEF m
  <2> QED
    BY <2>1, <2>2 DEF Ran
<1>7. current' \in 0 .. Len(_initializer_list) /\ (current = 1 /\ n # 1 => current' = 1)
  <2>1. current \in 1 .. Len(_initializer_list) /\ Len(_initializer_list) \in Nat
    BY <1>1, LenProperties DEF CallsOpen, Modules!Idle, ModuleTypes
  <2> QED
    BY <1>1, <2>1 DEF Modules!Onwards
<1>8. \A x \in Modules!Settled : x \in SysModule
  BY DEF Modules!Settled, Modules!Registered, ModuleTypes
<1> HIDE DEF n, m, p
<1>9. ModuleTypes'
  BY <1>1, <1>2, <1>3, <1>4, <1>7 DEF ModuleTypes
<1>10. CallsOpen'
  <2>1. ASSUME NEW k \in DOMAIN calls'
        PROVE  /\ calls'[k].module \in Modules!Registered
               /\ _state'[calls'[k].module] = "initializing"
               /\ \A j \in DOMAIN dependancies[calls'[k].module] :
                     j < calls'[k].i => dependancies[calls'[k].module][j] \in Ran'
    <3>1. /\ k \in DOMAIN calls /\ k # n /\ calls'[k].module = calls[k].module
          /\ calls[k].module # m /\ calls[k].module \in SysModule
      BY <2>1, <1>2, <1>3, CallRecords
    <3>2. calls[k].module \in Modules!Registered /\ _state'[calls[k].module] = "initializing"
      BY <3>1, <1>5 DEF CallsOpen
    <3>3. ASSUME NEW j \in DOMAIN dependancies[calls[k].module], j < calls'[k].i
          PROVE  dependancies[calls[k].module][j] \in Ran'
      <4>1. CASE j < calls[k].i
        <5>1. dependancies[calls[k].module][j] \in Ran
          BY <3>1, <3>3, <4>1 DEF CallsOpen, NeedsOf
        <5> QED
          BY <5>1, <1>6
      <4>2. CASE ~ (j < calls[k].i)
        <5>1. k = n - 1 /\ calls'[k].i = calls[k].i + 1
          BY <3>1, <3>3, <4>2, <1>2, <1>3
        <5>2. DOMAIN dependancies[calls[k].module] = 1 .. Len(dependancies[calls[k].module])
          <6>1. dependancies[calls[k].module] \in Seq(SysModule)
            BY <3>1 DEF ModuleTypes
          <6> QED
            BY <6>1, LenProperties
        <5>3. calls[k].i \in Nat
          BY <3>1, CallRecords
        <5>4. j = calls[k].i
          BY <3>3, <4>2, <5>1, <5>2, <5>3
        <5>5. dependancies[calls[k].module][calls[k].i] = calls[k + 1].module /\ k + 1 = n
          <6>1. k + 1 = n
            BY <5>1, <1>2
          <6> QED
            BY <3>1, <6>1 DEF Chain, NeedsOf, n
        <5> QED
          <6>1. dependancies[calls[k].module][j] = m
            BY <5>4, <5>5 DEF m
          <6> QED
            BY <6>1, <1>6
      <4> QED
        BY <4>1, <4>2
    <3> QED
      BY <3>1, <3>2, <3>3
  <2>2. calls' # <<>> => ~ Modules!Idle' /\ calls'[1].module = _initializer_list'[current']
    <3> SUFFICES ASSUME calls' # <<>> PROVE ~ Modules!Idle' /\ calls'[1].module = _initializer_list'[current']
      OBVIOUS
    <3>1. n # 1 /\ 1 \in 1 .. n - 1
      BY <1>2, <1>3
    <3>2. current' = current /\ calls'[1].module = calls[1].module
      BY <3>1, <1>1, <1>3 DEF n
    <3> QED
      BY <3>2, <1>1 DEF CallsOpen, Modules!Idle
  <2>3. Modules!Registered' = Modules!Registered
    BY <1>1, SameList
  <2> QED
    BY <1>1, <2>1, <2>2, <2>3 DEF CallsOpen, NeedsOf
<1>11. Chain'
  <2>1. ASSUME NEW k \in DOMAIN calls', k # Len(calls')
        PROVE  /\ calls'[k].i \in DOMAIN NeedsOf(k)'
               /\ NeedsOf(k)'[calls'[k].i] = calls'[k + 1].module
    <3>1. /\ k \in 1 .. n - 1 /\ k # n - 1 /\ k + 1 \in 1 .. n - 1 /\ k \in DOMAIN calls /\ k # n
      BY <2>1, <1>2, <1>3
    <3>2. calls'[k].module = calls[k].module /\ calls'[k].i = calls[k].i
      BY <3>1, <1>3
    <3>3. calls'[k + 1].module = calls[k + 1].module
      BY <3>1, <1>3
    <3>4. calls[k].i \in DOMAIN NeedsOf(k) /\ NeedsOf(k)[calls[k].i] = calls[k + 1].module
      BY <3>1 DEF Chain, n
    <3>5. NeedsOf(k)' = NeedsOf(k)
      BY <3>2, <1>1 DEF NeedsOf
    <3> QED
      BY <3>2, <3>3, <3>4, <3>5
  <2>2. ASSUME NEW k \in DOMAIN calls', NEW l \in DOMAIN calls', calls'[k].module = calls'[l].module
        PROVE  k = l
    <3>1. k \in DOMAIN calls /\ l \in DOMAIN calls /\ calls[k].module = calls[l].module
      BY <2>2, <1>2, <1>3
    <3> QED
      BY <3>1 DEF Chain
  <2> QED
    BY <2>1, <2>2 DEF Chain
<1>12. Outcomes'
  <2>1. \A x \in SysModule \ Modules!Registered : _state'[x] = "uninitialized"
    BY <1>2, <1>5 DEF Outcomes
  <2>2. \A x \in SysModule : _state'[x] = "initialized" => x \in Ran'
    BY <1>2, <1>5, <1>6 DEF Outcomes
  <2>3. ASSUME NEW k \in DOMAIN tried', tried'[k].succeeded
        PROVE  _state'[tried'[k].module] = "initialized"
    <3>1. CASE k = p + 1
      BY <2>3, <3>1, <1>4, <1>5
    <3>2. CASE k # p + 1
      <4>1. k \in DOMAIN tried /\ tried'[k] = tried[k]
        BY <3>2, <1>4
      <4>2. _state[tried[k].module] = "initialized" /\ tried[k].module \in SysModule
        BY <2>3, <4>1, CallRecords DEF Outcomes
      <4> QED
        BY <4>1, <4>2, <1>2, <1>5
    <3> QED
      BY <3>1, <3>2
  <2>4. Modules!Registered' = Modules!Registered
    BY <1>1, SameList
  <2> QED
    BY <2>1, <2>2, <2>3, <2>4 DEF Outcomes
<1>13. Firsts'
  <2>1. \A x : Modules!DependsOn(x)' = Modules!DependsOn(x)
    BY <1>1, SameList
  <2>2. ASSUME NEW k \in DOMAIN tried'
        PROVE  /\ Modules!DependsOn(tried'[k].module) \subseteq Modules!TriedBefore(k)'
               /\ tried'[k].succeeded => \A l \in DOMAIN tried' : tried'[l].module = tried'[k].module => l <= k
    <3>1. CASE k = p + 1
      <4>1. tried'[k].module = m
        BY <3>1, <1>4
      <4>2. ASSUME NEW x \in Modules!DependsOn(m)
            PROVE  x \in Modules!TriedBefore(k)'
        <5>1. PICK j \in DOMAIN dependancies[m] : dependancies[m][j] = x
          BY <4>2 DEF Modules!DependsOn
        <5>2. PICK l \in DOMAIN tried : tried[l].module = x
          BY <5>1, <1>2 DEF Ran
        <5>3. l \in 1 .. k - 1 /\ tried'[l].module = x
          BY <5>2, <3>1, <1>4
        <5> QED
          BY <5>3 DEF Modules!TriedBefore
      <4> QED
        BY <4>1, <4>2, <3>1, <1>4
    <3>2. CASE k # p + 1
      <4>1. k \in DOMAIN tried /\ tried'[k] = tried[k] /\ k \in 1 .. p
        BY <3>2, <1>4
      <4>2. \A l \in 1 .. k - 1 : tried'[l] = tried[l]
        BY <4>1, <1>4
      <4>3. Modules!TriedBefore(k)' = Modules!TriedBefore(k)
        BY <4>2 DEF Modules!TriedBefore
      <4>4. Modules!DependsOn(tried[k].module) \subseteq Modules!TriedBefore(k)
        BY <4>1 DEF Firsts
      <4>5. ASSUME tried[k].succeeded, NEW l \in DOMAIN tried', tried'[l].module = tried[k].module
            PROVE  l <= k
        <5>1. tried[k].module # m
          BY <4>1, <4>5, <1>2 DEF Outcomes
        <5>2. l \in DOMAIN tried /\ tried[l].module = tried[k].module
          BY <4>5, <5>1, <1>4
        <5> QED
          BY <4>1, <4>5, <5>2 DEF Firsts, Modules!Tries
      <4> QED
        BY <4>1, <4>3, <4>4, <4>5
    <3> QED
      BY <3>1, <3>2
  <2> QED
    BY <2>1, <2>2 DEF Firsts, Modules!Tries
<1>14. Once'
  BY <1>1, SameList
<1>15. InTime'
  <2> SUFFICES ASSUME NEW x \in Modules!Settled
               PROVE  /\ _state'[x] = "initializing" => \E k \in DOMAIN calls' : calls'[k].module = x
                      /\ x \in Ran' \/ (current' = 1 /\ x = _initializer_list'[1])
    <3>1. Modules!Settled' = Modules!Settled
      BY <1>1, SameList
    <3> QED
      BY <3>1 DEF InTime
  <2>1. CASE x = m
    BY <2>1, <1>5, <1>6
  <2>2. CASE x # m
    <3>1. _state'[x] = _state[x]
      BY <2>2, <1>5, <1>8
    <3>2. ASSUME _state[x] = "initializing"
          PROVE  \E k \in DOMAIN calls' : calls'[k].module = x
      <4>1. PICK k \in DOMAIN calls : calls[k].module = x
        BY <3>2 DEF InTime
      <4>2. k # n
        BY <4>1, <2>2 DEF m
      <4>3. k \in DOMAIN calls' /\ calls'[k].module = x
        BY <4>1, <4>2, <1>2, <1>3
      <4> QED
        BY <4>3
    <3>3. x \in Ran \/ (current = 1 /\ x = _initializer_list[1])
      BY DEF InTime
    <3>4. ~ x \in Ran => n # 1
      BY <3>3, <2>2, <1>1 DEF CallsOpen, m, n
    <3> QED
      BY <3>1, <3>2, <3>3, <3>4, <1>1, <1>6, <1>7
  <2> QED
    BY <2>1, <2>2
<1>16. Descends'
  <2>1. Modules!Settled' = Modules!Settled /\ \A y, a : Place(y, a)' <=> Place(y, a)
    BY <1>1, SameList
  <2>2. ASSUME NEW k \in DOMAIN calls', NEW l \in DOMAIN calls', k < l, calls'[k].module \in Modules!Settled
        PROVE  /\ calls'[l].module \in Modules!Settled
               /\ \A a, b : Place(calls'[k].module, a) /\ Place(calls'[l].module, b) => a < b
    <3>1. /\ k \in DOMAIN calls /\ l \in DOMAIN calls
          /\ calls'[k].module = calls[k].module /\ calls'[l].module = calls[l].module
      BY <1>2, <1>3
    <3> QED
      BY <2>2, <3>1 DEF Descends
  <2> QED
    BY <2>1, <2>2 DEF Descends
<1> QED
  BY <1>9, <1>10, <1>11, <1>12, <1>13, <1>14, <1>15, <1>16

----------------------------------------------------------------------------
LEMMA ModulesKeep == ModulesInv /\ [Modules!Next]_Modules!vars => ModulesInv'
<1> SUFFICES ASSUME ModulesInv, [Modules!Next]_Modules!vars PROVE ModulesInv'
  OBVIOUS
<1>1. CASE \E m \in SysModule : Modules!Construct(m)
  BY <1>1, ConstructKeeps
<1>2. CASE Modules!SkipOver
  BY <1>2, SkipOverKeeps
<1>3. CASE Modules!Try
  BY <1>3, TryKeeps
<1>4. CASE Modules!Missing
  BY <1>4, AbandonKeeps DEF Modules!Missing
<1>5. CASE Modules!Cycle
  BY <1>5, AbandonKeeps DEF Modules!Cycle
<1>6. CASE Modules!Satisfied
  BY <1>6, SatisfiedKeeps
<1>7. CASE Modules!Descend
  BY <1>7, DescendKeeps
<1>8. CASE \E succeeded \in BOOLEAN : Modules!Initialize(succeeded)
  BY <1>8, InitializeKeeps
<1>9. CASE UNCHANGED Modules!vars
  <2> USE DEF ModulesInv
  <2>1. UNCHANGED <<dependancies, _initializer_list, _state, _error, current, calls, tried>>
    BY <1>9 DEF Modules!vars, Modules!register
  <2>2. ModuleTypes' /\ CallsOpen' /\ Chain'
    BY <2>1, SameList DEF ModuleTypes, CallsOpen, Chain, NeedsOf, Ran, Modules!Idle
  <2>3. Outcomes' /\ Firsts' /\ Once'
    BY <2>1, SameList, SameTries DEF Outcomes, Ran
  <2>4. InTime' /\ Descends'
    BY <2>1, SameList DEF InTime, Descends, Ran
  <2> QED
    BY <2>2, <2>3, <2>4
<1> QED
  BY <1>1, <1>2, <1>3, <1>4, <1>5, <1>6, <1>7, <1>8, <1>9 DEF Modules!Next

LEMMA InTurn == ModulesInv => Modules!DependenciesFirst
<1> SUFFICES ASSUME ModulesInv, Modules!Idle, NEW m \in Modules!Settled PROVE Modules!Tries(m) # {}
  BY DEF ModulesInv, Firsts, Modules!DependenciesFirst
<1>1. m \in Ran
  BY DEF ModulesInv, ModuleTypes, InTime, Modules!Idle
<1> QED
  BY <1>1 DEF Ran, Modules!Tries

\* Whatever the modules depend on, and in whatever order they register: initialize() of a module runs only after
\* that of every module it depends on, once if it succeeds, and in its turn (module.cpp:58-133).
THEOREM AnyTableIsKept == AnyTable!Init /\ [][Modules!Next]_Modules!vars => []DependenciesFirst
<1>1. AnyTable!Init /\ [][Modules!Next]_Modules!vars => []ModulesInv
  BY InitModules, ModulesKeep, PTL
<1>2. ModulesInv => DependenciesFirst
  BY InTurn DEF DependenciesFirst
<1> QED
  BY <1>1, <1>2, PTL

LEMMA TablesOfTheRun == MCDependancies \subseteq [SysModule -> Seq(SysModule)]
<1>1. \A m \in SysModule : \A s \in MayNeed(m) : s \in Seq(SysModule)
  <2> SUFFICES ASSUME NEW m \in SysModule, NEW s \in MayNeed(m) PROVE s \in Seq(SysModule)
    OBVIOUS
  <2>1. CASE s = <<>>
    BY <2>1, EmptySeq
  <2>2. CASE \E d \in SysModule : s = <<d>>
    BY <2>2
  <2>3. CASE \E d, e \in SysModule : s = <<d, e>>
    BY <2>3
  <2> QED
    BY <2>1, <2>2, <2>3 DEF MayNeed
<1> QED
  BY <1>1 DEF MCDependancies, Needs

----------------------------------------------------------------------------
(* Handles *)

\* The same commands on any card.
CONSTANT Cards
AnyCard == INSTANCE Volume WITH disk <- card, Name <- FileName, Disk <- Cards

OpenedFiles == {command.opened[j] : j \in DOMAIN command.opened}

VolumeTypes ==
  /\ DOMAIN command = {"op", "at", "want", "opened", "dir", "found"}
  /\ command.at \in {"boot", "mount", "idle", "open", "read", "found", "use"}
  /\ command.want \in Seq(FileName) /\ command.opened \in Seq(Int)
  /\ DOMAIN directory = 0 .. MaxDirs - 1 /\ DOMAIN file = 0 .. MaxFiles - 1
  /\ \A i \in DOMAIN directory : DOMAIN directory[i] = {"initialized", "head", "current_entry"}

\* The handles a command has, and those it has yet to open.
HandlesHeld ==
  /\ \A i \in DOMAIN directory :
       directory[i].initialized => command.at \in {"read", "found"} /\ i = command.dir
  /\ \A i \in DOMAIN file : file[i].initialized => i \in OpenedFiles
  /\ command.at \in {"boot", "mount", "idle"} => command.opened = <<>>
  /\ command.op \in {"ls", "cd"} => command.opened = <<>>
  /\ command.at \in {"open", "read", "found"} =>
       command.opened = <<>> \/ (Len(command.opened) = 1 /\ Len(command.want) = 1)
  /\ command.op \in {"cat", "record"} /\ command.at \in {"open", "read", "found"} =>
       Len(command.want) \in 1 .. 3
  /\ command.at = "use" => Len(command.want) # 2 \/ Len(command.opened) = 1

VolumeInv == VolumeTypes /\ HandlesHeld


\* What Init says of the commands.
NothingOpen ==
  /\ directory = [i \in 0 .. MaxDirs - 1 |-> Dir!Closed]
  /\ file = [i \in 0 .. MaxFiles - 1 |-> Dir!Closed]
  /\ command = [Dir!Idle EXCEPT !.at = "boot"]

LEMMA InitVolume == NothingOpen => VolumeInv
<1> SUFFICES ASSUME NothingOpen PROVE VolumeInv
  OBVIOUS
<1>1. /\ command = [op |-> "none", at |-> "boot", want |-> <<>>, opened |-> <<>>, dir |-> -1, found |-> <<>>]
      /\ directory = [i \in 0 .. MaxDirs - 1 |-> Dir!Closed]
      /\ file = [i \in 0 .. MaxFiles - 1 |-> Dir!Closed]
  BY DEF NothingOpen, Dir!Idle
<1> QED
  BY <1>1 DEF VolumeInv, VolumeTypes, HandlesHeld, OpenedFiles, Dir!Closed

\* A command that stops has closed its files.
LEMMA AbandonCloses ==
  ASSUME VolumeInv, Dir!Abandon(file)
  PROVE  /\ DOMAIN file' = DOMAIN file /\ command' = Dir!Idle
         /\ \A i \in DOMAIN file : ~ file'[i].initialized
<1> USE DEF VolumeInv
<1>1. command' = Dir!Idle /\ DOMAIN file' = DOMAIN file
  BY DEF Dir!Abandon
<1>2. ASSUME NEW i \in DOMAIN file
      PROVE  ~ file'[i].initialized
  <2>1. CASE i \in OpenedFiles
    <3>1. file'[i] = Dir!Closed
      BY <2>1 DEF Dir!Abandon, OpenedFiles
    <3> QED
      BY <3>1 DEF Dir!Closed
  <2>2. CASE i \notin OpenedFiles
    <3>1. file'[i] = file[i]
      BY <2>2 DEF Dir!Abandon, OpenedFiles
    <3> QED
      BY <3>1, <2>2 DEF HandlesHeld
  <2> QED
    BY <2>1, <2>2
<1> QED
  BY <1>1, <1>2

\* No command runs, and nothing is open.
LEMMA NothingHeld ==
  ASSUME VolumeInv, command' = Dir!Idle,
         DOMAIN directory' = DOMAIN directory, DOMAIN file' = DOMAIN file,
         \A i \in DOMAIN directory : DOMAIN directory'[i] = {"initialized", "head", "current_entry"},
         \A i \in DOMAIN directory : ~ directory'[i].initialized,
         \A i \in DOMAIN file : ~ file'[i].initialized
  PROVE  VolumeInv'
BY DEF VolumeInv, VolumeTypes, HandlesHeld, OpenedFiles, Dir!Idle

LEMMA HandlesSame ==
  ASSUME VolumeInv, UNCHANGED <<directory, file, command>>
  PROVE  VolumeInv'
<1>1. OpenedFiles' = OpenedFiles
  BY DEF OpenedFiles
<1>2. VolumeTypes'
  BY DEF VolumeInv, VolumeTypes
<1>3. HandlesHeld'
  BY <1>1 DEF VolumeInv, HandlesHeld
<1> QED
  BY <1>2, <1>3 DEF VolumeInv

\* The directory a command has open is closed.
LEMMA DirClosed ==
  ASSUME VolumeInv, Dir!fs_dir_close(command.dir)
  PROVE  /\ DOMAIN directory' = DOMAIN directory
         /\ \A i \in DOMAIN directory : DOMAIN directory'[i] = {"initialized", "head", "current_entry"}
         /\ \A i \in DOMAIN directory : ~ directory'[i].initialized
<1>1. directory' = [directory EXCEPT ![command.dir] = Dir!Closed]
  BY DEF Dir!fs_dir_close
<1>2. \A i \in DOMAIN directory : directory'[i] = IF i = command.dir THEN Dir!Closed ELSE directory[i]
  BY <1>1
<1> QED
  BY <1>1, <1>2 DEF VolumeInv, VolumeTypes, HandlesHeld, Dir!Closed



LEMMA VolumeKeeps == VolumeInv /\ [Dir!Next]_Dir!vars => VolumeInv'
<1> SUFFICES ASSUME VolumeInv, [Dir!Next]_Dir!vars PROVE VolumeInv'
  OBVIOUS
<1>1. CASE Dir!BootCard \/ Dir!BootVolume
  <2>1. /\ UNCHANGED <<directory, file>> /\ command.at \in {"boot", "mount"}
        /\ \/ command' = Dir!Idle \/ command' = [Dir!Idle EXCEPT !.at = "mount"]
           \/ command' = [Dir!Idle EXCEPT !.at = "idle"]
    BY <1>1 DEF Dir!BootCard, Dir!BootVolume
  <2>2. /\ DOMAIN command' = {"op", "at", "want", "opened", "dir", "found"}
        /\ command'.at \in {"idle", "mount"} /\ command'.op = "none"
        /\ command'.want = <<>> /\ command'.opened = <<>>
    BY <2>1 DEF Dir!Idle
  <2>3. command.opened = <<>>
    BY <2>1 DEF VolumeInv, HandlesHeld
  <2>4. VolumeTypes'
    <3>1. <<>> \in Seq(FileName) /\ <<>> \in Seq(Int)
      OBVIOUS
    <3> QED
      BY <2>1, <2>2, <3>1 DEF VolumeInv, VolumeTypes
  <2>5. HandlesHeld'
    BY <2>1, <2>2, <2>3 DEF VolumeInv, HandlesHeld, OpenedFiles
  <2> QED
    BY <2>4, <2>5 DEF VolumeInv
<1>2. CASE Dir!Type
  <2>1. PICK op \in {"ls", "cd", "cat", "record"}, n \in [1 .. 3 -> FileName] :
          /\ command.at = "idle" /\ UNCHANGED <<directory, file>>
          /\ command' = [Dir!Idle EXCEPT !.op = op, !.at = "open",
               !.want = CASE op = "ls" -> <<>>
                          [] op = "record" -> n
                          [] OTHER -> <<n[1]>>]
    BY <1>2 DEF Dir!Type
  <2>2. /\ command'.want \in Seq(FileName)
        /\ op \in {"cat", "record"} => Len(command'.want) \in 1 .. 3
    <3>1. n \in Seq(FileName) /\ Len(n) = 3
      BY OfItsLength
    <3>2. <<n[1]>> \in Seq(FileName) /\ Len(<<n[1]>>) = 1 /\ <<>> \in Seq(FileName)
      OBVIOUS
    <3>3. command'.want = CASE op = "ls" -> <<>> [] op = "record" -> n [] OTHER -> <<n[1]>>
      BY <2>1 DEF Dir!Idle
    <3> QED
      BY <3>1, <3>2, <3>3
  <2>3. /\ DOMAIN command' = {"op", "at", "want", "opened", "dir", "found"}
        /\ command'.at = "open" /\ command'.opened = <<>> /\ command'.op = op
    BY <2>1 DEF Dir!Idle
  <2>4. command.opened = <<>>
    BY <2>1 DEF VolumeInv, HandlesHeld
  <2>5. VolumeTypes'
    <3>1. <<>> \in Seq(Int)
      OBVIOUS
    <3> QED
      BY <2>1, <2>2, <2>3, <3>1 DEF VolumeInv, VolumeTypes
  <2>6. HandlesHeld'
    BY <2>1, <2>2, <2>3, <2>4 DEF VolumeInv, HandlesHeld, OpenedFiles
  <2> QED
    BY <2>5, <2>6 DEF VolumeInv
<1>3. CASE \E b \in 0 .. MaxBlocks - 1 : Dir!fs_init_command(b)
  <2>1. UNCHANGED <<directory, file, command>>
    BY <1>3 DEF Dir!fs_init_command
  <2> QED
    BY <2>1, HandlesSame
<1>4. CASE Dir!fs_dir_open
  <2>1. ASSUME NEW d \in Dir!Unused(directory),
               directory' = [directory EXCEPT ![d] =
                 [initialized |-> TRUE, head |-> volume.current, current_entry |-> 0]],
               command' = [command EXCEPT !.at = "read", !.dir = d, !.found = <<>>],
               UNCHANGED file
        PROVE  VolumeInv'
    <3>1. command.at = "open"
      BY <1>4 DEF Dir!fs_dir_open
    <3>2. \A i \in DOMAIN directory : ~ directory[i].initialized
      BY <3>1 DEF VolumeInv, HandlesHeld
    <3>3. /\ DOMAIN command' = DOMAIN command /\ command'.at = "read" /\ command'.dir = d
          /\ command'.want = command.want /\ command'.opened = command.opened /\ command'.op = command.op
      BY <2>1 DEF VolumeInv, VolumeTypes
    <3>4. /\ DOMAIN directory' = DOMAIN directory
          /\ \A i \in DOMAIN directory : i # d => directory'[i] = directory[i]
          /\ d \in DOMAIN directory
          /\ directory'[d] = [initialized |-> TRUE, head |-> volume.current, current_entry |-> 0]
      BY <2>1 DEF Dir!Unused
    <3>5. OpenedFiles' = OpenedFiles
      BY <3>3 DEF OpenedFiles
    <3>6. VolumeTypes'
      BY <2>1, <3>3, <3>4 DEF VolumeInv, VolumeTypes
    <3>7. HandlesHeld'
      BY <2>1, <3>1, <3>2, <3>3, <3>4, <3>5 DEF VolumeInv, HandlesHeld
    <3> QED
      BY <3>6, <3>7 DEF VolumeInv
  <2>2. ASSUME Dir!Abandon(file), UNCHANGED directory
        PROVE  VolumeInv'
    <3>1. command.at = "open"
      BY <1>4 DEF Dir!fs_dir_open
    <3>2. \A i \in DOMAIN directory : ~ directory[i].initialized
      BY <3>1 DEF VolumeInv, HandlesHeld
    <3>3. /\ DOMAIN file' = DOMAIN file /\ command' = Dir!Idle
          /\ \A i \in DOMAIN file : ~ file'[i].initialized
      BY <2>2, AbandonCloses
    <3>4. \A i \in DOMAIN directory : DOMAIN directory[i] = {"initialized", "head", "current_entry"}
      BY DEF VolumeInv, VolumeTypes
    <3> QED
      BY <2>2, <3>2, <3>3, <3>4, NothingHeld
  <2> QED
    BY <1>4, <2>1, <2>2 DEF Dir!fs_dir_open
<1>5. CASE Dir!fs_dir_read
  <2>1. /\ command.at = "read" /\ UNCHANGED file
        /\ directory' = [directory EXCEPT ![command.dir].current_entry = @ + 1]
        /\ \/ command' = command
           \/ command' = [command EXCEPT !.found = Append(@, Dir!Seen(Dir!Entry))]
           \/ command' = [command EXCEPT !.found = <<Dir!Seen(Dir!Entry)>>, !.at = "found"]
    BY <1>5 DEF Dir!fs_dir_read
  <2>2. /\ DOMAIN command' = DOMAIN command /\ command'.at \in {"read", "found"}
        /\ command'.dir = command.dir /\ command'.want = command.want /\ command'.opened = command.opened
        /\ command'.op = command.op
    BY <2>1 DEF VolumeInv, VolumeTypes
  <2>3. /\ DOMAIN directory' = DOMAIN directory
        /\ \A i \in DOMAIN directory :
             DOMAIN directory'[i] = DOMAIN directory[i] /\ directory'[i].initialized = directory[i].initialized
    BY <2>1 DEF VolumeInv, VolumeTypes
  <2>4. OpenedFiles' = OpenedFiles
    BY <2>2 DEF OpenedFiles
  <2>5. VolumeTypes'
    <3>1. <<>> \in Seq(Int)
      OBVIOUS
    <3> QED
      BY <2>1, <2>2, <2>3, <3>1 DEF VolumeInv, VolumeTypes
  <2>6. HandlesHeld'
    BY <2>1, <2>2, <2>3, <2>4 DEF VolumeInv, HandlesHeld
  <2> QED
    BY <2>5, <2>6 DEF VolumeInv
<1>6. CASE Dir!Listed \/ Dir!fs_cd
  <2>1. /\ Dir!fs_dir_close(command.dir) /\ command' = Dir!Idle /\ UNCHANGED file
        /\ command.op \in {"ls", "cd"} /\ command.at \in {"read", "found"}
    BY <1>6 DEF Dir!Listed, Dir!fs_cd
  <2>2. command.opened = <<>>
    BY <2>1 DEF VolumeInv, HandlesHeld
  <2>3. \A i \in DOMAIN file : ~ file'[i].initialized
    BY <2>1, <2>2 DEF VolumeInv, HandlesHeld, OpenedFiles
  <2> QED
    BY <2>1, <2>3, DirClosed, NothingHeld
<1>7. CASE Dir!LookupFailure
  <2>1. Dir!fs_dir_close(command.dir) /\ Dir!Abandon(file)
    BY <1>7 DEF Dir!LookupFailure
  <2> QED
    BY <2>1, DirClosed, AbandonCloses, NothingHeld
<1>8. CASE Dir!file_open
  <2>1. command.at = "found" /\ Dir!fs_dir_close(command.dir)
    BY <1>8 DEF Dir!file_open
  <2>2. CASE Dir!Abandon(file)
    BY <2>1, <2>2, DirClosed, AbandonCloses, NothingHeld
  <2>3. ASSUME NEW f \in Dir!Unused(file),
               file' = [file EXCEPT ![f] =
                 [initialized |-> TRUE, head |-> command.found[1].cluster, current_entry |-> 0]],
               command' = [command EXCEPT !.opened = Append(@, f), !.want = Tail(@),
                 !.at = IF Len(command.want) = 2 THEN "open" ELSE "use"]
        PROVE  VolumeInv'
    <3>1. /\ DOMAIN command' = DOMAIN command /\ command'.opened = Append(command.opened, f)
          /\ command'.want = Tail(command.want)
          /\ command'.at = IF Len(command.want) = 2 THEN "open" ELSE "use"
      BY <2>3 DEF VolumeInv, VolumeTypes
    <3>2. command.op \in {"cat", "record"} /\ Len(command.want) \in 1 .. 3
      BY <1>8, <2>1 DEF Dir!file_open, VolumeInv, HandlesHeld
    <3>3. command'.want \in Seq(FileName) /\ Len(command'.want) = Len(command.want) - 1
      <4>1. command.want \in Seq(FileName) /\ Len(command.want) \in Nat
        BY LenProperties DEF VolumeInv, VolumeTypes
      <4>2. command.want # <<>>
        <5>1. Len(command.want) # 0
          <6>1. Len(command.want) \in 1 .. 3
            BY <3>2
          <6>2. \A j \in 1 .. 3 : j # 0
            OBVIOUS
          <6> QED
            BY <6>1, <6>2
        <5> QED
          BY <5>1, <4>1, EmptySeq
      <4> QED
        BY <3>1, <4>1, <4>2, HeadTailProperties
    <3>4. f \in DOMAIN file /\ f \in Int
      BY DEF Dir!Unused, VolumeInv, VolumeTypes
    <3>5. /\ command'.opened \in Seq(Int) /\ Len(command'.opened) = Len(command.opened) + 1
          /\ OpenedFiles' = OpenedFiles \cup {f}
      <4>1. command.opened \in Seq(Int)
        BY DEF VolumeInv, VolumeTypes
      <4>2. /\ command'.opened \in Seq(Int) /\ Len(command'.opened) = Len(command.opened) + 1
            /\ DOMAIN command'.opened = 1 .. Len(command.opened) + 1
            /\ DOMAIN command.opened = 1 .. Len(command.opened) /\ Len(command.opened) \in Nat
            /\ \A j \in 1 .. Len(command.opened) : command'.opened[j] = command.opened[j]
            /\ command'.opened[Len(command.opened) + 1] = f
        BY <3>1, <3>4, <4>1, AppendProperties, LenProperties
      <4>3. DOMAIN command'.opened = DOMAIN command.opened \cup {Len(command.opened) + 1}
        BY <4>2
      <4>4. \A j \in DOMAIN command.opened : command'.opened[j] = command.opened[j]
        BY <4>2
      <4>5. OpenedFiles' = {command'.opened[j] : j \in DOMAIN command'.opened}
        BY DEF OpenedFiles
      <4> DEFINE before == command.opened
                 after == command'.opened
      <4>6. after[Len(before) + 1] = f
        BY <4>2
      <4>7. OpenedFiles' = {after[j] : j \in DOMAIN after} /\ OpenedFiles = {before[j] : j \in DOMAIN before}
        BY <4>5 DEF OpenedFiles
      <4>8. DOMAIN after = DOMAIN before \cup {Len(before) + 1} /\ \A j \in DOMAIN before : after[j] = before[j]
        BY <4>3, <4>4
      <4>9. {after[j] : j \in DOMAIN after} = {before[j] : j \in DOMAIN before} \cup {f}
        <5> HIDE DEF before, after
        <5> QED
          BY <4>6, <4>8
      <4> QED
        BY <4>2, <4>7, <4>9
    <3>6. /\ DOMAIN file' = DOMAIN file
          /\ \A i \in DOMAIN file : file'[i].initialized => file[i].initialized \/ i = f
      BY <2>3
    <3>7. VolumeTypes'
      BY <3>1, <3>3, <3>5, <3>6, <2>1, DirClosed DEF VolumeInv, VolumeTypes
    <3>8. command.opened = <<>> \/ (Len(command.opened) = 1 /\ Len(command.want) = 1)
      BY <2>1 DEF VolumeInv, HandlesHeld
    <3>9. command.opened = <<>> => Len(command'.opened) = 1
      <4>1. Len(<<>>) = 0
        BY EmptySeq
      <4> QED
        BY <3>5, <4>1
    <3>10. command'.at \in {"open", "use"} /\ command'.op = command.op
      BY <2>3, <3>1 DEF VolumeInv, VolumeTypes
    <3>11. command'.at = "open" => Len(command'.opened) = 1 /\ Len(command'.want) = 1
      <4>1. command'.at = "open" => Len(command.want) = 2
        BY <3>1
      <4>2. Len(command.want) = 2 => command.opened = <<>> /\ Len(command'.want) = 1
        BY <3>3, <3>8
      <4> QED
        BY <3>9, <4>1, <4>2
    <3>12. command'.at = "use" => Len(command'.want) # 2 \/ Len(command'.opened) = 1
      <4>1. command'.at = "use" => Len(command.want) # 2
        BY <3>1
      <4>2. Len(command.want) = 3 => command.opened = <<>>
        BY <3>8
      <4>3. Len(command.want) = 1 => Len(command'.want) = 0
        BY <3>3
      <4> QED
        BY <3>2, <3>9, <4>1, <4>2, <4>3
    <3>13. \A i \in DOMAIN file' : file'[i].initialized => i \in OpenedFiles'
      BY <3>5, <3>6 DEF VolumeInv, HandlesHeld
    <3>14. \A i \in DOMAIN directory' : ~ directory'[i].initialized
      BY <2>1, DirClosed
    <3>15. HandlesHeld'
      BY <3>2, <3>10, <3>11, <3>12, <3>13, <3>14 DEF HandlesHeld
    <3> QED
      BY <3>7, <3>15 DEF VolumeInv
  <2> QED
    BY <1>8, <2>2, <2>3 DEF Dir!file_open
<1>9. CASE Dir!ConfigRead
  <2>1. /\ command.at = "use" /\ Len(command.want) = 2 /\ UNCHANGED directory
        /\ file' = [file EXCEPT ![command.opened[1]] = Dir!Closed]
        /\ command' = [command EXCEPT !.at = "open", !.opened = <<>>]
    BY <1>9 DEF Dir!ConfigRead
  <2>2. /\ DOMAIN command' = DOMAIN command /\ command'.at = "open" /\ command'.opened = <<>>
        /\ command'.want = command.want /\ command'.op = command.op
    BY <2>1 DEF VolumeInv, VolumeTypes
  <2>3. Len(command.opened) = 1 /\ DOMAIN command.opened = 1 .. Len(command.opened)
    <3>1. Len(command.opened) = 1
      BY <2>1 DEF VolumeInv, HandlesHeld
    <3> QED
      BY <3>1, LenProperties DEF VolumeInv, VolumeTypes
  <2>4. OpenedFiles = {command.opened[1]}
    BY <2>3 DEF OpenedFiles
  <2>5. DOMAIN file' = DOMAIN file /\ \A i \in DOMAIN file : ~ file'[i].initialized
    BY <2>1, <2>4 DEF VolumeInv, HandlesHeld, Dir!Closed
  <2>6. VolumeTypes'
    <3>1. <<>> \in Seq(Int)
      OBVIOUS
    <3> QED
      BY <2>1, <2>2, <2>5, <3>1 DEF VolumeInv, VolumeTypes
  <2>7. HandlesHeld'
    BY <2>1, <2>2, <2>5 DEF VolumeInv, HandlesHeld
  <2> QED
    BY <2>6, <2>7 DEF VolumeInv
<1>10. CASE Dir!End
  <2>1. command.at = "use" /\ Dir!Abandon(file) /\ UNCHANGED directory
    BY <1>10 DEF Dir!End
  <2>2. /\ \A i \in DOMAIN directory : DOMAIN directory[i] = {"initialized", "head", "current_entry"}
        /\ \A i \in DOMAIN directory : ~ directory[i].initialized
    BY <2>1 DEF VolumeInv, VolumeTypes, HandlesHeld
  <2> QED
    BY <2>1, <2>2, AbandonCloses, NothingHeld
<1>11. CASE UNCHANGED Dir!vars
  BY <1>11, HandlesSame DEF Dir!vars
<1> QED
  BY <1>1, <1>2, <1>3, <1>4, <1>5, <1>6, <1>7, <1>8, <1>9, <1>10, <1>11 DEF Dir!Next

LEMMA HandlesFree == VolumeInv => Dir!HandlesComeBack
<1> SUFFICES ASSUME VolumeInv PROVE Dir!HandlesComeBack
  OBVIOUS
<1>1. command.at = "idle" => /\ \A i \in DOMAIN directory : ~ directory[i].initialized
                             /\ \A i \in DOMAIN file : ~ file[i].initialized
  BY DEF VolumeInv, HandlesHeld, OpenedFiles
<1>2. ASSUME command.at = "open"
      PROVE  Dir!Unused(directory) # {}
  <2>1. 0 \in DOMAIN directory /\ \A i \in DOMAIN directory : ~ directory[i].initialized /\ i >= 0
    BY <1>2, HandlesAssumption DEF VolumeInv, VolumeTypes, HandlesHeld, Dir!ConstantsOK
  <2>2. 0 \in Dir!Unused(directory)
    BY <2>1 DEF Dir!Unused, VolumeInv, VolumeTypes
  <2> QED
    BY <2>2
<1>3. ASSUME command.at = "found"
      PROVE  Dir!Unused(file) # {}
  <2>1. command.opened = <<>> \/ Len(command.opened) = 1
    BY <1>3 DEF VolumeInv, HandlesHeld
  <2>2. \A i, j \in OpenedFiles : i = j
    BY <2>1, LenProperties DEF VolumeInv, VolumeTypes, OpenedFiles
  <2>3. 0 \in DOMAIN file /\ 1 \in DOMAIN file /\ DOMAIN file = 0 .. MaxFiles - 1 /\ MaxFiles \in Nat
    BY HandlesAssumption DEF VolumeInv, VolumeTypes, Dir!ConstantsOK
  <2>4. CASE ~ file[0].initialized
    <3>1. 0 \in Dir!Unused(file)
      BY <2>3, <2>4 DEF Dir!Unused
    <3> QED
      BY <3>1
  <2>5. CASE file[0].initialized
    <3>1. ~ file[1].initialized
      BY <2>2, <2>3, <2>5 DEF VolumeInv, HandlesHeld
    <3>2. 1 \in Dir!Unused(file)
      BY <2>3, <2>5, <3>1 DEF Dir!Unused
    <3> QED
      BY <3>2
  <2> QED
    BY <2>4, <2>5
<1> QED
  BY <1>1, <1>2, <1>3 DEF Dir!HandlesComeBack

\* Every way out of a command gives back the handles it took, so that none is refused for want of one, whatever
\* is on the card (file_system/commands.c:68-93, record.c:56-83 and 323-342).
THEOREM AnyCardIsClosed == AnyCard!Init /\ [][Dir!Next]_Dir!vars => []HandlesComeBack
<1>1. AnyCard!Init => NothingOpen
  BY DEF AnyCard!Init, AnyCard!Closed, AnyCard!Idle, NothingOpen, Dir!Closed, Dir!Idle
<1>3. AnyCard!Init /\ [][Dir!Next]_Dir!vars => []VolumeInv
  BY <1>1, InitVolume, VolumeKeeps, PTL
<1>2. VolumeInv => HandlesComeBack
  BY HandlesFree DEF HandlesComeBack
<1> QED
  BY <1>2, <1>3, PTL

----------------------------------------------------------------------------
(* Directories *)

LEMMA CountsAlike == \A S : Dir!Cardinality(S) = Cardinality(S)
BY Zenon DEF Dir!Cardinality, Cardinality

\* What is computed from a value by n steps, each from what the one before has left.
Leads(f, n, V, first, by) ==
  f \in [0 .. n -> V] /\ f[0] = first /\ \A i \in 1 .. n : f[i] = by[<<i, f[i - 1]>>]

LEMMA StepsLead ==
  ASSUME NEW n \in Nat, NEW V, NEW first \in V, NEW by, by \in [(1 .. n) \X V -> V]
  PROVE  \E f : Leads(f, n, V, first, by)
<1> DEFINE T == {m \in Nat : m <= n /\ ~ \E f : Leads(f, m, V, first, by)}
<1>1. SUFFICES ASSUME T # {} PROVE FALSE
  <2>1. n \notin T => \E f : Leads(f, n, V, first, by)
    OBVIOUS
  <2> QED
    BY <1>1, <2>1
<1>2. PICK m \in T : \A j \in T : m <= j
  BY <1>1, LeastOf
<1>3. m \in Nat /\ m <= n /\ ~ \E f : Leads(f, m, V, first, by)
  BY <1>2
<1>4. CASE m = 0
  <2> DEFINE f == [i \in 0 .. 0 |-> first]
  <2>1. Leads(f, m, V, first, by)
    BY <1>4 DEF Leads
  <2> QED
    BY <1>3, <2>1
<1>5. CASE m # 0
  <2>1. m - 1 \in Nat /\ m - 1 <= n /\ ~ (m <= m - 1)
    BY <1>3, <1>5
  <2>2. m - 1 \notin T
    BY <1>2, <2>1
  <2>3. PICK f : Leads(f, m - 1, V, first, by)
    BY <2>1, <2>2
  <2> USE DEF Leads
  <2> DEFINE g == [i \in 0 .. m |-> IF i = m THEN by[<<m, f[m - 1]>>] ELSE f[i]]
  <2>4. f[m - 1] \in V /\ by[<<m, f[m - 1]>>] \in V
    BY <1>3, <2>1, <2>3
  <2>5. g \in [0 .. m -> V]
    BY <2>1, <2>3, <2>4
  <2>6. ASSUME NEW i \in 1 .. m PROVE g[i] = by[<<i, g[i - 1]>>]
    <3>1. CASE i = m
      <4>1. g[i] = by[<<m, f[m - 1]>>] /\ g[i - 1] = f[m - 1]
        BY <2>1, <3>1
      <4> QED
        BY <3>1, <4>1
    <3>2. CASE i # m
      <4>1. i \in 1 .. m - 1 /\ g[i] = f[i] /\ g[i - 1] = f[i - 1]
        BY <2>1, <3>2
      <4>2. f[i] = by[<<i, f[i - 1]>>]
        BY <2>3, <4>1
      <4> QED
        BY <4>1, <4>2
    <3> QED
      BY <3>1, <3>2
  <2>7. Leads(g, m, V, first, by)
    <3>1. g[0] = first
      BY <1>3, <1>5, <2>1, <2>3
    <3> HIDE DEF g
    <3> QED
      BY <2>5, <2>6, <3>1
  <2> QED
    BY <1>3, <2>5, <2>7
<1> QED
  BY <1>4, <1>5

----------------------------------------------------------------------------
\* The partitions of a disk that are of a FAT type.
FatEntries == {e \in Dir!ToSet(card.table) : Dir!FatType(e)}
IsLast(f) ==
  f = [i \in 0 .. Len(card.table) |->
        IF i = 0 THEN <<>>
        ELSE IF Dir!FatType(card.table[Len(card.table) - i + 1]) THEN Append(f[i - 1], card.table[Len(card.table) - i + 1])
        ELSE f[i - 1]]

LEMMA LastIs ==
  ASSUME card.table \in Seq(Dir!ToSet(card.table))
  PROVE  /\ IsLast(CHOOSE f : IsLast(f))
         /\ (CHOOSE f : IsLast(f))[Len(card.table)] \in Seq(FatEntries)
<1> DEFINE n == Len(card.table)
           E(i) == card.table[n - i + 1]
           V == Seq(FatEntries)
           by == [p \in (1 .. n) \X V |-> IF Dir!FatType(E(p[1])) THEN Append(p[2], E(p[1])) ELSE p[2]]
           L == CHOOSE f : IsLast(f)
<1>1. n \in Nat
  BY ElementsOf
<1>2. ASSUME NEW i \in 1 .. n, Dir!FatType(E(i)) PROVE E(i) \in FatEntries
  <2>1. n - i + 1 \in DOMAIN card.table
    BY <1>1, ElementsOf
  <2> QED
    BY <1>2, <2>1 DEF FatEntries, Dir!ToSet
<1>3. ASSUME NEW i \in 1 .. n, NEW s \in V
      PROVE  (IF Dir!FatType(E(i)) THEN Append(s, E(i)) ELSE s) \in V
  <2> HIDE DEF E
  <2> QED
    BY <1>2, <1>3, AppendProperties
<1>4. by \in [(1 .. n) \X V -> V]
  <2> HIDE DEF V, E, n
  <2> QED
    BY <1>3
<1>5. <<>> \in V
  OBVIOUS
<1>6. PICK f : f \in [0 .. n -> V] /\ f[0] = <<>> /\ \A i \in 1 .. n : f[i] = by[<<i, f[i - 1]>>]
  <2> HIDE DEF by, V, n
  <2>1. \E f : Leads(f, n, V, <<>>, by)
    BY <1>1, <1>4, <1>5, StepsLead
  <2> QED
    BY <2>1 DEF Leads
<1>7. IsLast(f)
  <2>1. ASSUME NEW i \in 0 .. n
        PROVE  f[i] = IF i = 0 THEN <<>> ELSE IF Dir!FatType(E(i)) THEN Append(f[i - 1], E(i)) ELSE f[i - 1]
    <3>1. CASE i = 0
      BY <1>6, <3>1
    <3>2. CASE i # 0
      <4>0. i \in 1 .. n /\ i - 1 \in 0 .. n
        BY <1>1, <3>2
      <4>1. i \in 1 .. n /\ i - 1 \in 0 .. n /\ f[i - 1] \in V /\ f[i] = by[<<i, f[i - 1]>>]
        <5> HIDE DEF V, by, n
        <5> QED
          BY <1>6, <3>2, <4>0
      <4>2. <<i, f[i - 1]>> \in (1 .. n) \X V
        BY <4>1
      <4>3. by[<<i, f[i - 1]>>] = IF Dir!FatType(E(i)) THEN Append(f[i - 1], E(i)) ELSE f[i - 1]
        <5> HIDE DEF E, V, n
        <5> QED
          BY <4>2
      <4> QED
        BY <3>2, <4>1, <4>3
    <3> QED
      BY <3>1, <3>2
  <2>2. f = [i \in 0 .. n |-> f[i]]
    BY <1>6
  <2>3. f = [i \in 0 .. n |-> IF i = 0 THEN <<>> ELSE IF Dir!FatType(E(i)) THEN Append(f[i - 1], E(i)) ELSE f[i - 1]]
    <3> HIDE DEF E, n
    <3> QED
      BY <2>1, <2>2
  <2> QED
    BY <2>3, Zenon DEF IsLast
<1>8. IsLast(L)
  <2> HIDE DEF IsLast
  <2> QED
    BY <1>7, Zenon
<1> HIDE DEF L
<1>9. L = [i \in 0 .. n |-> IF i = 0 THEN <<>> ELSE IF Dir!FatType(E(i)) THEN Append(L[i - 1], E(i)) ELSE L[i - 1]]
  BY <1>8, Zenon DEF IsLast
<1> DEFINE T == {i \in Nat : i <= n /\ L[i] \notin V}
<1>10. T = {}
  <2> SUFFICES ASSUME T # {} PROVE FALSE
    OBVIOUS
  <2>1. PICK m \in T : \A j \in T : m <= j
    BY LeastOf
  <2>2. m \in Nat /\ m <= n /\ L[m] \notin V
    BY <2>1
  <2>3. m # 0
    BY <1>1, <1>9, <2>2
  <2>4. m - 1 \in Nat /\ m - 1 <= n /\ ~ (m <= m - 1) /\ m \in 1 .. n /\ m \in 0 .. n
    BY <1>1, <2>2, <2>3
  <2>5. m - 1 \notin T
    BY <2>1, <2>4
  <2>6. L[m - 1] \in V
    BY <2>4, <2>5
  <2>7. L[m] = IF Dir!FatType(E(m)) THEN Append(L[m - 1], E(m)) ELSE L[m - 1]
    <3> HIDE DEF E, n
    <3> QED
      BY <1>9, <2>3, <2>4
  <2> HIDE DEF V, E, n
  <2> QED
    BY <1>3, <2>2, <2>4, <2>6, <2>7
<1>11. L[n] \in V
  BY <1>1, <1>10
<1> QED
  BY <1>8, <1>11 DEF L

LEMMA FoundAre ==
  ASSUME card.table \in Seq(Dir!ToSet(card.table))
  PROVE  Dir!Partitions.found \in Seq(FatEntries)
<1> DEFINE L == CHOOSE f : IsLast(f)
           valid == IF card.signature THEN L[Len(card.table)] ELSE <<>>
           room == IF MaxPartitions < MaxBlocks - 1 THEN MaxPartitions ELSE MaxBlocks - 1
           most == IF Len(valid) < room THEN Len(valid) ELSE room
<1>1. Dir!Partitions = [found |-> SubSeq(valid, 1, most), ok |-> card.signature /\ Len(valid) <= room]
  BY Zenon DEF Dir!Partitions, IsLast
<1>2. L[Len(card.table)] \in Seq(FatEntries)
  BY LastIs
<1> HIDE DEF L
<1>3. valid \in Seq(FatEntries) /\ Len(valid) \in Nat
  BY <1>2, ElementsOf
<1> HIDE DEF valid
<1>4. room \in Int
  BY HandlesAssumption DEF Dir!ConstantsOK
<1> HIDE DEF room
<1>5. most \in Int /\ most <= Len(valid)
  BY <1>3, <1>4
<1> HIDE DEF most
<1>6. SubSeq(valid, 1, most) \in Seq(FatEntries)
  <2>1. \A i \in 1 .. most : valid[i] \in FatEntries
    BY <1>3, <1>5, ElementsOf
  <2> QED
    BY <1>3, <1>5, <2>1, SubSeqProperties
<1> QED
  BY <1>1, <1>6

----------------------------------------------------------------------------
\* The block devices are the disk and partitions of it.
DevicesOK ==
  \A k \in DOMAIN device :
    device[k] = 0 \/ (device[k] \in DOMAIN partition /\ partition[device[k]].start \in DOMAIN card.boot)

\* What fs_init and fs_cd leave.
VolumeOK ==
  /\ volume.initialized => volume.block \in DOMAIN device /\ Dir!Mountable(Dir!BootSector(volume.block))
  /\ volume.initialized => volume = [Dir!Mounted(volume.block) EXCEPT !.current = volume.current]
  /\ volume.initialized => volume.current \in Dir!Directories

\* The normal entries among the first n of e, and ls when it has shown these.
Shown(e, n) == {i \in 1 .. n : Dir!Normal(e[i])}
ShowsFirst(found, e, n) ==
  /\ found \in Seq({Dir!Seen(x) : x \in Dir!ToSet(e)}) /\ Len(found) = Cardinality(Shown(e, n))
  /\ \A i \in Shown(e, n) : found[Cardinality({j \in Shown(e, n) : j <= i})] = Dir!Seen(e[i])
NotYet(e, n) == \A i \in Shown(e, n) : ~ Dir!Wanted(Dir!Seen(e[i]))

\* A walk through the entries e of a directory has n of them behind it.
WalkOK(e, n) ==
  /\ n \in 0 .. Dir!max_entries /\ \A j \in 1 .. n : e[j].kind # "end"
  /\ command.at = "read" => IF command.op = "ls" THEN ShowsFirst(command.found, e, n) ELSE NotYet(e, n)
  /\ command.at = "found" =>
       /\ n # 0 /\ Dir!Normal(e[n]) /\ Dir!Wanted(Dir!Seen(e[n])) /\ NotYet(e, n - 1)
       /\ command.found = <<Dir!Seen(e[n])>>

DirectoriesInv ==
  /\ Dir!DiskOK(card) /\ DevicesOK /\ VolumeOK
  /\ command.at = "boot" => ~ volume.initialized
  /\ command.at \in {"read", "found"} =>
       /\ volume.initialized /\ command.dir \in DOMAIN directory /\ Dir!Handle.head = volume.current
       /\ WalkOK(Dir!Entries(volume.current), Dir!Handle.current_entry)

LEMMA BootSectorIs ==
  ASSUME Dir!DiskOK(card), DevicesOK, NEW number \in DOMAIN device
  PROVE  \E s \in DOMAIN card.boot : Dir!BootSector(number) = card.boot[s]
BY DEF Dir!DiskOK, DevicesOK, Dir!BootSector

LEMMA LimitIs ==
  ASSUME NEW n \in Nat
  PROVE  Dir!Limit(n) \in Nat
<1> DEFINE p == n * ENTRIES_PER_SECTOR
<1>1. p \in Nat /\ ROOT_DIRECTORY_ENTRIES \in Nat
  BY HandlesAssumption DEF Dir!ConstantsOK
<1> HIDE DEF p
<1>2. Dir!Limit(n) = IF p < ROOT_DIRECTORY_ENTRIES THEN p ELSE ROOT_DIRECTORY_ENTRIES
  BY DEF Dir!Limit, p
<1> QED
  BY <1>1, <1>2

\* The volume that is mounted, and each of its directories.
LEMMA DirectoryIs ==
  ASSUME Dir!DiskOK(card), DevicesOK, VolumeOK, volume.initialized
  PROVE  /\ Dir!max_entries \in Nat
         /\ \A c \in Dir!Directories :
              /\ DOMAIN Dir!Entries(c) = 1 .. Len(Dir!Entries(c)) /\ Len(Dir!Entries(c)) \in Nat
              /\ Len(Dir!Entries(c)) >= Dir!max_entries
              /\ \A i \in DOMAIN Dir!Entries(c) :
                   Dir!Entries(c)[i].kind = "directory" => Dir!cluster_head(Dir!Entries(c)[i]) \in Dir!Directories
<1> DEFINE b == Dir!BootSector(volume.block)
<1>1. /\ volume.block \in DOMAIN device /\ Dir!Mountable(b) /\ volume = [Dir!Mounted(volume.block) EXCEPT !.current = volume.current]
  BY DEF VolumeOK
<1>2. /\ volume.sectors_per_cluster = b.sectors_per_cluster
      /\ volume.root = IF b.root_entries = 0 THEN b.root_cluster ELSE 0
      /\ volume.type = IF b.root_entries = 0 THEN "fat32" ELSE "fat16"
  BY <1>1 DEF Dir!Mounted
<1>3. Dir!WellFormed(b)
  BY <1>1, BootSectorIs DEF Dir!DiskOK
<1>4. b.sectors_per_cluster \in Nat
  BY <1>1 DEF Dir!Mountable, Dir!power_of_two
<1>5. Dir!max_entries \in Nat /\ Dir!max_entries = Dir!Limit(b.sectors_per_cluster)
  BY <1>2, <1>4, LimitIs DEF Dir!max_entries
<1> HIDE DEF b
<1>6. Dir!Directories = {volume.root} \union {e.cluster : e \in {x \in UNION {Dir!ToSet(b.entries[c]) : c \in DOMAIN b.entries} :
                                                             x.kind = "directory" /\ x.cluster # 0}}
  BY DEF Dir!Directories, b
<1>7. ASSUME NEW c \in Dir!Directories PROVE c \in DOMAIN b.entries
  <2>1. CASE c = volume.root
    BY <1>2, <1>3, <2>1 DEF Dir!WellFormed
  <2>2. ASSUME NEW d \in DOMAIN b.entries, NEW e \in Dir!ToSet(b.entries[d]), e.kind = "directory", e.cluster # 0, c = e.cluster
        PROVE  c \in DOMAIN b.entries
    BY <1>3, <2>2 DEF Dir!WellFormed
  <2> QED
    BY <1>6, <1>7, <2>1, <2>2
<1>8. ASSUME NEW c \in Dir!Directories
      PROVE  /\ Dir!Entries(c) \in Seq(Dir!ToSet(Dir!Entries(c))) /\ Len(Dir!Entries(c)) >= Dir!max_entries
             /\ Dir!Entries(c) = b.entries[c]
  BY <1>3, <1>5, <1>7, <1>8 DEF Dir!Entries, Dir!WellFormed, b
<1>9. ASSUME NEW c \in Dir!Directories, NEW i \in DOMAIN Dir!Entries(c), Dir!Entries(c)[i].kind = "directory"
      PROVE  Dir!cluster_head(Dir!Entries(c)[i]) \in Dir!Directories
  <2> DEFINE e == Dir!Entries(c)[i]
  <2>1. e \in Dir!ToSet(b.entries[c]) /\ c \in DOMAIN b.entries /\ e.kind = "directory"
    BY <1>7, <1>8, <1>9 DEF Dir!ToSet
  <2> HIDE DEF e
  <2>2. CASE e.cluster # 0
    <3>1. e.cluster \in Dir!Directories
      BY <1>6, <2>1, <2>2
    <3> QED
      BY <2>2, <3>1 DEF Dir!cluster_head, e
  <2>3. CASE e.cluster = 0
    <3>1. Dir!cluster_head(e) = volume.root
      BY <1>2, <2>3 DEF Dir!cluster_head
    <3> QED
      BY <1>6, <3>1 DEF e
  <2> QED
    BY <2>2, <2>3
<1>10. ASSUME NEW c \in Dir!Directories PROVE DOMAIN Dir!Entries(c) = 1 .. Len(Dir!Entries(c)) /\ Len(Dir!Entries(c)) \in Nat
  BY <1>8, ElementsOf
<1> QED
  BY <1>5, <1>8, <1>9, <1>10

LEMMA HandleIs ==
  ASSUME DirectoriesInv, command.at \in {"read", "found"}
  PROVE  /\ volume.initialized /\ Dir!Handle.head = volume.current /\ volume.current \in Dir!Directories
         /\ command.dir \in DOMAIN directory
         /\ WalkOK(Dir!Entries(volume.current), Dir!Handle.current_entry)
BY DEF DirectoriesInv, VolumeOK

\* A reader of the disk sees the entries a walk has behind it, when that has come to an end or found one.
LEMMA WalkAgrees == DirectoriesInv => Dir!DirectoriesAgree
<1> SUFFICES ASSUME DirectoriesInv PROVE Dir!DirectoriesAgree
  OBVIOUS
<1> DEFINE c == volume.current
           e == Dir!Entries(c)
           n == Dir!Handle.current_entry
<1>1. volume.initialized => volume.current \in Dir!Directories
  BY DEF DirectoriesInv, VolumeOK
<1>2. ASSUME command.at \in {"read", "found"}
      PROVE  /\ Dir!Handle.head = c /\ c \in Dir!Directories /\ WalkOK(e, n) /\ n \in Nat /\ n <= Dir!max_entries /\ Dir!max_entries \in Nat
             /\ DOMAIN e = 1 .. Len(e) /\ Len(e) \in Nat /\ Len(e) >= Dir!max_entries
             /\ \A j \in 1 .. n : e[j].kind # "end"
  <2>1. Dir!Handle.head = c /\ c \in Dir!Directories /\ WalkOK(e, n) /\ volume.initialized
    BY <1>2, HandleIs
  <2>2. /\ Dir!max_entries \in Nat /\ DOMAIN e = 1 .. Len(e) /\ Len(e) \in Nat /\ Len(e) >= Dir!max_entries
    BY <2>1, DirectoryIs DEF DirectoriesInv
  <2> QED
    BY <2>1, <2>2 DEF WalkOK
<1> HIDE DEF c, e, n
<1>3. ASSUME command.at \in {"read", "found"}
      PROVE  Dir!Visible(c) = {i \in 1 .. Len(e) : i <= Dir!max_entries /\ Dir!Normal(e[i]) /\ \A j \in 1 .. i : e[j].kind # "end"}
  BY <1>2, <1>3 DEF Dir!Visible, e
<1>4. ASSUME command.at = "read", Dir!AtEnd PROVE Dir!Visible(c) = Shown(e, n)
  <2>1. n < Dir!max_entries => n + 1 \in 1 .. Len(e) /\ e[n + 1].kind = "end"
    BY <1>2, <1>4 DEF Dir!AtEnd, Dir!Entry, e, n
  <2> QED
    BY <1>2, <1>3, <1>4, <2>1 DEF Shown
<1>5. ASSUME command.at = "read", Dir!AtEnd
      PROVE  IF command.op = "ls" THEN Dir!Shows(command.found, Dir!Handle.head) ELSE Dir!Matches(Dir!Handle.head) = {}
  <2>1. Dir!Visible(c) = Shown(e, n) /\ Dir!Handle.head = c /\ Dir!Entries(c) = e
    BY <1>2, <1>4, <1>5 DEF e
  <2>2. IF command.op = "ls" THEN ShowsFirst(command.found, e, n) ELSE NotYet(e, n)
    BY <1>2, <1>5 DEF WalkOK
  <2>3. CASE command.op = "ls"
    <3> DEFINE V == Dir!Visible(c)
               F == command.found
    <3>1. Dir!Shows(F, c)
      <4>1. ShowsFirst(F, e, n)
        BY <2>2, <2>3
      <4>2. V = Shown(e, n) /\ Dir!Entries(c) = e
        BY <2>1
      <4>3. /\ Len(F) = Cardinality(V)
            /\ \A i \in V : F[Cardinality({j \in V : j <= i})] = Dir!Seen(e[i])
        <5> HIDE DEF V, F
        <5> QED
          BY <4>1, <4>2 DEF ShowsFirst
      <4>4. V = Dir!Visible(c)
        OBVIOUS
      <4> HIDE DEF V, F
      <4>5. /\ Len(F) = Cardinality(Dir!Visible(c))
            /\ \A i \in Dir!Visible(c) :
                 F[Cardinality({j \in Dir!Visible(c) : j <= i})] = Dir!Seen(Dir!Entries(c)[i])
        BY <4>2, <4>3, <4>4, Zenon
      <4> QED
        BY <4>5, CountsAlike, Zenon DEF Dir!Shows
    <3> QED
      BY <2>1, <2>3, <3>1
  <2>4. CASE command.op # "ls"
    <3>1. Dir!Matches(c) = {}
      BY <2>1, <2>2, <2>4 DEF Dir!Matches, NotYet
    <3> QED
      BY <2>1, <2>4, <3>1
  <2> QED
    BY <2>3, <2>4
<1>6. ASSUME command.at = "found"
      PROVE  \E i \in Dir!Matches(Dir!Handle.head) :
               /\ command.found = <<Dir!Seen(Dir!Entries(Dir!Handle.head)[i])>>
               /\ \A j \in Dir!Matches(Dir!Handle.head) : i <= j
  <2>1. /\ n # 0 /\ Dir!Normal(e[n]) /\ Dir!Wanted(Dir!Seen(e[n])) /\ NotYet(e, n - 1)
        /\ command.found = <<Dir!Seen(e[n])>>
    BY <1>2, <1>6 DEF WalkOK
  <2>2. Dir!Handle.head = c /\ Dir!Entries(c) = e
    BY <1>2, <1>6 DEF e
  <2>3. n \in Dir!Visible(c)
    BY <1>2, <1>3, <1>6, <2>1
  <2>4. n \in Dir!Matches(c)
    BY <2>1, <2>2, <2>3 DEF Dir!Matches
  <2>5. ASSUME NEW j \in Dir!Matches(c) PROVE n <= j
    <3>1. j \in 1 .. Len(e) /\ Dir!Normal(e[j]) /\ Dir!Wanted(Dir!Seen(e[j]))
      BY <1>3, <1>6, <2>2, <2>5 DEF Dir!Matches
    <3>2. j < n => j \in Shown(e, n - 1)
      BY <1>2, <1>6, <3>1 DEF Shown
    <3> QED
      BY <1>2, <1>6, <2>1, <3>1, <3>2 DEF NotYet
  <2> QED
    BY <2>1, <2>2, <2>4, <2>5
<1> QED
  BY <1>1, <1>5, <1>6 DEF Dir!DirectoriesAgree

LEMMA ShownGrows ==
  ASSUME NEW e, NEW n \in Nat
  PROVE  /\ Shown(e, n) \subseteq 1 .. n /\ IsFiniteSet(Shown(e, n))
         /\ Shown(e, n + 1) = IF Dir!Normal(e[n + 1]) THEN Shown(e, n) \cup {n + 1} ELSE Shown(e, n)
         /\ n + 1 \notin Shown(e, n)
<1>1. Shown(e, n) \subseteq 1 .. n
  BY DEF Shown
<1>2. IsFiniteSet(Shown(e, n))
  BY <1>1, FS_Interval, FS_Subset
<1>3. n + 1 \notin Shown(e, n)
  BY <1>1
<1>4. 1 .. n + 1 = (1 .. n) \cup {n + 1}
  OBVIOUS
<1>5. Shown(e, n + 1) = IF Dir!Normal(e[n + 1]) THEN Shown(e, n) \cup {n + 1} ELSE Shown(e, n)
  BY <1>4, Zenon DEF Shown
<1> QED
  BY <1>1, <1>2, <1>3, <1>5

LEMMA ShowsOneMore ==
  ASSUME NEW e, NEW n \in Nat, n + 1 \in DOMAIN e, NEW found, ShowsFirst(found, e, n)
  PROVE  ShowsFirst(IF Dir!Normal(e[n + 1]) THEN Append(found, Dir!Seen(e[n + 1])) ELSE found, e, n + 1)
<1> DEFINE s == Shown(e, n)
           t == Shown(e, n + 1)
           x == Dir!Seen(e[n + 1])
           S == {Dir!Seen(y) : y \in Dir!ToSet(e)}
           Rank(u, i) == Cardinality({j \in u : j <= i})
<1>1. s \subseteq 1 .. n /\ IsFiniteSet(s) /\ n + 1 \notin s
  BY ShownGrows
<1>2. found \in Seq(S) /\ Len(found) = Cardinality(s) /\ \A i \in s : found[Rank(s, i)] = Dir!Seen(e[i])
  BY DEF ShowsFirst
<1>3. CASE ~ Dir!Normal(e[n + 1])
  <2>1. t = s
    BY <1>3, ShownGrows
  <2> QED
    BY <1>2, <1>3, <2>1 DEF ShowsFirst
<1>4. CASE Dir!Normal(e[n + 1])
  <2>1. t = s \cup {n + 1}
    BY <1>4, ShownGrows
  <2> HIDE DEF s, t
  <2>2. Cardinality(t) = Cardinality(s) + 1 /\ Cardinality(s) \in Nat
    BY <1>1, <2>1, FS_AddElement, FS_CardinalityType
  <2>7. x \in S
    BY DEF Dir!ToSet
  <2> HIDE DEF S
  <2>3. /\ Append(found, x) \in Seq(S) /\ Len(Append(found, x)) = Cardinality(t)
        /\ \A k \in 1 .. Cardinality(s) : Append(found, x)[k] = found[k]
        /\ Append(found, x)[Cardinality(t)] = x
    BY <1>2, <2>2, <2>7, AppendProperties, ElementsOf
  <2>4. ASSUME NEW i \in s PROVE Append(found, x)[Rank(t, i)] = Dir!Seen(e[i])
    <3>1. {j \in t : j <= i} = {j \in s : j <= i}
      BY <1>1, <2>1
    <3> DEFINE r == {j \in s : j <= i}
    <3>2. r \subseteq s /\ i \in r
      BY <1>1
    <3> HIDE DEF r
    <3>3. IsFiniteSet(r) /\ Cardinality(r) <= Cardinality(s)
      BY <1>1, <3>2, FS_Subset
    <3>4. Cardinality(r) \in Nat /\ Cardinality(r) # 0
      BY <3>2, <3>3, FS_CardinalityType, FS_EmptySet
    <3>5. Cardinality(r) \in 1 .. Cardinality(s)
      BY <2>2, <3>3, <3>4
    <3>6. found[Cardinality(r)] = Dir!Seen(e[i])
      BY <1>2 DEF r
    <3>7. Rank(t, i) = Cardinality(r)
      BY <3>1 DEF r
    <3> HIDE DEF Rank
    <3> QED
      BY <2>3, <3>5, <3>6, <3>7
  <2>5. Append(found, x)[Rank(t, n + 1)] = x
    <3>0. \A j \in t : j <= n + 1
      BY <1>1, <2>1
    <3>1. {j \in t : j <= n + 1} = t
      BY <3>0
    <3> QED
      BY <2>3, <3>1
  <2>6. \A i \in t : Append(found, x)[Rank(t, i)] = Dir!Seen(e[i])
    <3> HIDE DEF Rank
    <3> QED
      BY <2>1, <2>4, <2>5
  <2> QED
    BY <1>4, <2>3, <2>6 DEF ShowsFirst, t, S
<1> QED
  BY <1>3, <1>4

----------------------------------------------------------------------------
\* The disk and what is mounted of it stay.
LEMMA VolumeSame ==
  ASSUME UNCHANGED <<card, partition, device, volume>>
  PROVE  /\ (Dir!DiskOK(card) => Dir!DiskOK(card)') /\ (DevicesOK => DevicesOK') /\ (VolumeOK => VolumeOK')
         /\ Dir!max_entries' = Dir!max_entries /\ \A c : Dir!Entries(c)' = Dir!Entries(c)
         /\ \A x : Dir!Seen(x)' = Dir!Seen(x)
<1>1. \A number : Dir!BootSector(number)' = Dir!BootSector(number)
  BY DEF Dir!BootSector
<1>2. Dir!Directories' = Dir!Directories
  BY <1>1 DEF Dir!Directories
<1>3. \A number : Dir!Mounted(number)' = Dir!Mounted(number)
  BY <1>1 DEF Dir!Mounted
<1>4. Dir!DiskOK(card)' <=> Dir!DiskOK(card)
  BY DEF Dir!DiskOK
<1>5. DevicesOK' <=> DevicesOK
  BY DEF DevicesOK
<1>6. VolumeOK => VolumeOK'
  BY <1>1, <1>2, <1>3 DEF VolumeOK
<1>7. Dir!max_entries' = Dir!max_entries /\ \A c : Dir!Entries(c)' = Dir!Entries(c)
  BY <1>1 DEF Dir!max_entries, Dir!Entries
<1>8. \A x : Dir!Seen(x)' = Dir!Seen(x)
  BY DEF Dir!Seen, Dir!cluster_head
<1> QED
  BY <1>4, <1>5, <1>6, <1>7, <1>8

LEMMA NoWalk ==
  ASSUME DirectoriesInv, UNCHANGED <<card, partition, device, volume>>, command'.at \notin {"boot", "read", "found"}
  PROVE  DirectoriesInv'
BY VolumeSame DEF DirectoriesInv

\* fs_init, when no directory is open.
LEMMA Mounts ==
  ASSUME DirectoriesInv, NEW number, Dir!fs_init(number), UNCHANGED <<card, partition, device>>,
         command'.at \notin {"boot", "read", "found"}
  PROVE  DirectoriesInv'
<1>1. CASE UNCHANGED volume
  BY <1>1, NoWalk
<1>2. CASE /\ ~ volume.initialized /\ number \in DOMAIN device /\ Dir!Mountable(Dir!BootSector(number))
           /\ volume' = Dir!Mounted(number)
  <2>3. volume'.block = number /\ volume'.current = volume'.root
    BY <1>2 DEF Dir!Mounted
  <2>4. volume' = [Dir!Mounted(number) EXCEPT !.current = volume'.current]
    BY <1>2 DEF Dir!Mounted
  <2>5. volume'.root \in Dir!Directories'
    BY DEF Dir!Directories
  <2>6. VolumeOK'
    <3>1. Dir!BootSector(volume.block)' = Dir!BootSector(number)
      BY <2>3 DEF Dir!BootSector
    <3>2. volume'.block \in DOMAIN device' /\ Dir!Mountable(Dir!BootSector(volume.block))'
      BY <1>2, <2>3, <3>1 DEF Dir!Mountable
    <3>3. Dir!Mounted(volume.block)' = Dir!Mounted(number)
      BY <2>3, <3>1 DEF Dir!Mounted
    <3>4. volume' = [Dir!Mounted(volume.block)' EXCEPT !.current = volume'.current]
      BY <2>4, <3>3
    <3> QED
      BY <2>3, <2>5, <3>2, <3>4 DEF VolumeOK
  <2>7. Dir!DiskOK(card)' /\ DevicesOK'
    BY DEF DirectoriesInv, Dir!DiskOK, DevicesOK
  <2> QED
    BY <2>6, <2>7 DEF DirectoriesInv
<1> QED
  BY <1>1, <1>2 DEF Dir!fs_init

LEMMA BootFinds == DirectoriesInv /\ Dir!BootCard => DirectoriesInv'
<1> SUFFICES ASSUME DirectoriesInv, Dir!BootCard PROVE DirectoriesInv'
  OBVIOUS
<1>1. /\ partition' = Dir!Partitions.found /\ device' = [i \in 0 .. Len(Dir!Partitions.found) |-> i]
      /\ UNCHANGED <<card, volume>> /\ command.at = "boot"
      /\ command' = [Dir!Idle EXCEPT !.at = IF Dir!Partitions.ok THEN "mount" ELSE "idle"]
  BY DEF Dir!BootCard
<1>2. command'.at \in {"mount", "idle"}
  BY <1>1 DEF Dir!Idle
<1>3. Dir!DiskOK(card) /\ ~ volume.initialized
  BY <1>1 DEF DirectoriesInv
<1>4. Dir!DiskOK(card)' /\ VolumeOK'
  BY <1>1, <1>3 DEF Dir!DiskOK, VolumeOK
<1>5. Dir!Partitions.found \in Seq(FatEntries)
  BY <1>3, FoundAre DEF Dir!DiskOK
<1> DEFINE found == Dir!Partitions.found
<1>6. DOMAIN found = 1 .. Len(found) /\ Len(found) \in Nat /\ \A k \in 1 .. Len(found) : found[k] \in FatEntries
  BY <1>5, ElementsOf
<1>7. \A k \in 1 .. Len(found) : found[k].start \in DOMAIN card.boot
  BY <1>3, <1>6 DEF Dir!DiskOK, FatEntries
<1> HIDE DEF found
<1>8. DevicesOK'
  BY <1>1, <1>6, <1>7 DEF DevicesOK, found
<1> QED
  BY <1>2, <1>4, <1>8 DEF DirectoriesInv

LEMMA DirectoryOpens == VolumeInv /\ DirectoriesInv /\ Dir!fs_dir_open => DirectoriesInv'
<1> SUFFICES ASSUME VolumeInv, DirectoriesInv, Dir!fs_dir_open PROVE DirectoriesInv'
  OBVIOUS
<1>1. UNCHANGED <<card, partition, device, volume>>
  BY DEF Dir!fs_dir_open, Dir!Unchanged
<1>2. CASE Dir!Abandon(file)
  BY <1>1, <1>2, NoWalk DEF Dir!Abandon, Dir!Idle
<1>3. ASSUME NEW d \in Dir!Unused(directory), volume.initialized,
             directory' = [directory EXCEPT ![d] = [initialized |-> TRUE, head |-> volume.current, current_entry |-> 0]],
             command' = [command EXCEPT !.at = "read", !.dir = d, !.found = <<>>]
      PROVE  DirectoriesInv'
  <2> DEFINE e == Dir!Entries(volume.current)
  <2>1. /\ command'.at = "read" /\ command'.dir = d /\ command'.found = <<>>
    BY <1>3 DEF VolumeInv, VolumeTypes
  <2>2. d \in DOMAIN directory'
    BY <1>3 DEF Dir!Unused
  <2>3. Dir!Handle' = [initialized |-> TRUE, head |-> volume.current, current_entry |-> 0]
    BY <1>3, <2>1, <2>2 DEF Dir!Handle
  <2>4. Dir!Handle'.head = volume.current /\ Dir!Handle'.current_entry = 0
    BY <2>3
  <2>5. Dir!max_entries' = Dir!max_entries /\ Dir!max_entries \in Nat /\ e' = e
    BY <1>1, <1>3, VolumeSame, DirectoryIs DEF DirectoriesInv
  <2>6. 1 .. 0 = {} /\ Shown(e, 0) = {}
    BY DEF Shown
  <2>7. ShowsFirst(<<>>, e, 0)' /\ NotYet(e, 0)'
    <3>1. Len(<<>>) = 0 /\ Cardinality({}) = 0
      BY FS_EmptySet
    <3>2. Shown(e, 0)' = {}
      BY DEF Shown
    <3>3. \A S : <<>> \in Seq(S)
      OBVIOUS
    <3> QED
      BY <3>1, <3>2, <3>3 DEF ShowsFirst, NotYet
  <2>8. WalkOK(e, 0)'
    <3> HIDE DEF e
    <3> QED
      BY <2>1, <2>5, <2>7 DEF WalkOK
  <2>9. Dir!DiskOK(card)' /\ DevicesOK' /\ VolumeOK'
    BY <1>1, VolumeSame DEF DirectoriesInv
  <2> QED
    <3> HIDE DEF e
    <3>1. volume'.initialized /\ command'.dir \in DOMAIN directory' /\ Dir!Handle'.head = volume'.current
      BY <1>1, <1>3, <2>1, <2>2, <2>4
    <3>2. WalkOK(Dir!Entries(volume.current), Dir!Handle.current_entry)'
      BY <2>4, <2>8 DEF WalkOK, e, ShowsFirst, NotYet, Shown
    <3> QED
      BY <2>1, <2>9, <3>1, <3>2 DEF DirectoriesInv
<1> QED
  BY <1>2, <1>3 DEF Dir!fs_dir_open

LEMMA WalkGoesOn == VolumeInv /\ DirectoriesInv /\ Dir!fs_dir_read => DirectoriesInv'
<1> SUFFICES ASSUME VolumeInv, DirectoriesInv, Dir!fs_dir_read PROVE DirectoriesInv'
  OBVIOUS
<1> DEFINE e == Dir!Entries(volume.current)
           n == Dir!Handle.current_entry
           x == e[n + 1]
<1>1. UNCHANGED <<card, partition, device, volume>> /\ command.at = "read" /\ ~ Dir!AtEnd
  BY DEF Dir!fs_dir_read, Dir!Unchanged
<1>2. /\ volume.initialized /\ Dir!Handle.head = volume.current /\ volume.current \in Dir!Directories
      /\ command.dir \in DOMAIN directory /\ WalkOK(e, n)
  BY <1>1, HandleIs
<1>3. /\ n \in Nat /\ n <= Dir!max_entries /\ Dir!max_entries \in Nat /\ \A j \in 1 .. n : e[j].kind # "end"
      /\ IF command.op = "ls" THEN ShowsFirst(command.found, e, n) ELSE NotYet(e, n)
  BY <1>1, <1>2, DirectoryIs DEF WalkOK, DirectoriesInv
<1>4. n < Dir!max_entries /\ Dir!Entry = x /\ x.kind # "end"
  BY <1>1, <1>2, <1>3 DEF Dir!AtEnd, Dir!Entry
<1>5. /\ directory' = [directory EXCEPT ![command.dir].current_entry = n + 1]
      /\ command' = IF ~ Dir!Normal(x) THEN command
                    ELSE IF command.op = "ls" THEN [command EXCEPT !.found = Append(@, Dir!Seen(x))]
                    ELSE IF Dir!Wanted(Dir!Seen(x)) THEN [command EXCEPT !.found = <<Dir!Seen(x)>>, !.at = "found"]
                    ELSE command
  <2>1. command' = IF ~ Dir!Normal(Dir!Entry) THEN command
                   ELSE IF command.op = "ls" THEN [command EXCEPT !.found = Append(@, Dir!Seen(Dir!Entry))]
                   ELSE IF Dir!Wanted(Dir!Seen(Dir!Entry)) THEN [command EXCEPT !.found = <<Dir!Seen(Dir!Entry)>>, !.at = "found"]
                   ELSE command
    BY DEF Dir!fs_dir_read
  <2>2. directory' = [directory EXCEPT ![command.dir].current_entry = n + 1]
    BY DEF Dir!fs_dir_read, Dir!Handle
  <2> HIDE DEF x, n
  <2> QED
    BY <1>4, <2>1, <2>2
<1> HIDE DEF x, n, e
<1>6. /\ command'.dir = command.dir /\ command'.op = command.op /\ command'.want = command.want
      /\ command'.at \in {"read", "found"}
      /\ command'.at = "read" => command'.found = IF Dir!Normal(x) /\ command.op = "ls" THEN Append(command.found, Dir!Seen(x))
                                                                                    ELSE command.found
      /\ command'.at = "read" /\ command.op # "ls" => ~ (Dir!Normal(x) /\ Dir!Wanted(Dir!Seen(x)))
      /\ command'.at = "found" => /\ command.op # "ls" /\ Dir!Normal(x) /\ Dir!Wanted(Dir!Seen(x))
                                  /\ command'.found = <<Dir!Seen(x)>>
  BY <1>1, <1>5 DEF VolumeInv, VolumeTypes
<1>7. /\ DOMAIN directory' = DOMAIN directory /\ Dir!Handle'.head = volume.current /\ Dir!Handle'.current_entry = n + 1
  <2>1. DOMAIN directory[command.dir] = {"initialized", "head", "current_entry"}
    BY <1>2 DEF VolumeInv, VolumeTypes
  <2>2. Dir!Handle = directory[command.dir] /\ Dir!Handle' = directory'[command.dir]
    BY <1>6 DEF Dir!Handle
  <2> QED
    BY <1>2, <1>5, <2>1, <2>2
<1>8. Dir!max_entries' = Dir!max_entries /\ Dir!Entries(volume.current)' = e /\ \A y : Dir!Seen(y)' = Dir!Seen(y)
  BY <1>1, VolumeSame DEF e
<1>9. \A y : Dir!Wanted(y)' <=> Dir!Wanted(y)
  BY <1>6 DEF Dir!Wanted
<1>10. n + 1 \in 0 .. Dir!max_entries /\ \A j \in 1 .. n + 1 : e[j].kind # "end"
  BY <1>3, <1>4 DEF x
<1>16. n + 1 \in DOMAIN e
  <2>1. DOMAIN e = 1 .. Len(e) /\ Len(e) \in Nat /\ Len(e) >= Dir!max_entries
    BY <1>2, DirectoryIs DEF e, DirectoriesInv
  <2> QED
    BY <1>3, <1>4, <2>1
<1>11. ASSUME command.op = "ls" PROVE ShowsFirst(command'.found, e, n + 1)
  <2>1. command'.at = "read" /\ ShowsFirst(command.found, e, n)
    BY <1>3, <1>6, <1>11
  <2>2. ShowsFirst(IF Dir!Normal(x) THEN Append(command.found, Dir!Seen(x)) ELSE command.found, e, n + 1)
    BY <1>3, <1>16, <2>1, ShowsOneMore DEF x
  <2> QED
    BY <1>6, <1>11, <2>1, <2>2
<1>12. ASSUME command.op # "ls" PROVE NotYet(e, n) /\ (command'.at = "read" => NotYet(e, n + 1))
  <2>1. Shown(e, n + 1) = IF Dir!Normal(x) THEN Shown(e, n) \cup {n + 1} ELSE Shown(e, n)
    BY <1>3, ShownGrows DEF x
  <2> QED
    BY <1>3, <1>6, <1>12, <2>1 DEF NotYet, x
<1>13. WalkOK(Dir!Entries(volume.current), Dir!Handle.current_entry)'
  <2> DEFINE m == n + 1
  <2>1. /\ Shown(Dir!Entries(volume.current), Dir!Handle.current_entry)' = Shown(e, m)
        /\ Shown(Dir!Entries(volume.current), Dir!Handle.current_entry - 1)' = Shown(e, n)
    <3>1. m - 1 = n /\ Dir!Handle'.current_entry - 1 = n
      BY <1>3, <1>7
    <3> QED
      BY <1>7, <1>8, <3>1 DEF Shown
  <2>2. command.op = "ls" => ShowsFirst(command.found, Dir!Entries(volume.current), Dir!Handle.current_entry)'
    BY <1>8, <1>11, <2>1 DEF ShowsFirst
  <2>3. /\ NotYet(Dir!Entries(volume.current), Dir!Handle.current_entry)' <=> NotYet(e, m)
        /\ NotYet(Dir!Entries(volume.current), Dir!Handle.current_entry - 1)' <=> NotYet(e, n)
    BY <1>8, <1>9, <2>1 DEF NotYet
  <2>4. /\ Dir!Handle'.current_entry \in 0 .. Dir!max_entries' /\ Dir!Handle'.current_entry # 0
        /\ \A j \in 1 .. Dir!Handle'.current_entry : Dir!Entries(volume.current)'[j].kind # "end"
    BY <1>3, <1>7, <1>8, <1>10
  <2>5. /\ Dir!Seen(Dir!Entries(volume.current)[Dir!Handle.current_entry])' = Dir!Seen(x)
        /\ Dir!Wanted(Dir!Seen(Dir!Entries(volume.current)[Dir!Handle.current_entry]))' <=> Dir!Wanted(Dir!Seen(x))
        /\ Dir!Normal(Dir!Entries(volume.current)[Dir!Handle.current_entry])' <=> Dir!Normal(x)
    <3>1. Dir!Entries(volume.current)'[Dir!Handle'.current_entry] = x
      BY <1>7, <1>8 DEF x
    <3>2. Dir!Seen(Dir!Entries(volume.current)[Dir!Handle.current_entry])' = Dir!Seen(x)
      BY <1>1, <3>1 DEF Dir!Seen, Dir!cluster_head
    <3>3. Dir!Wanted(Dir!Seen(Dir!Entries(volume.current)[Dir!Handle.current_entry]))' <=> Dir!Wanted(Dir!Seen(x))
      BY <1>6, <3>2 DEF Dir!Wanted
    <3>4. Dir!Normal(Dir!Entries(volume.current)[Dir!Handle.current_entry])' <=> Dir!Normal(x)
      BY <3>1 DEF Dir!Normal
    <3> QED
      BY <3>2, <3>3, <3>4
  <2>6. command'.at = "read" =>
          IF command'.op = "ls" THEN ShowsFirst(command.found, Dir!Entries(volume.current), Dir!Handle.current_entry)'
                                ELSE NotYet(Dir!Entries(volume.current), Dir!Handle.current_entry)'
    BY <1>6, <1>12, <2>2, <2>3
  <2>7. command'.at = "found" =>
          /\ Dir!Handle'.current_entry # 0 /\ Dir!Normal(Dir!Entries(volume.current)[Dir!Handle.current_entry])'
          /\ Dir!Wanted(Dir!Seen(Dir!Entries(volume.current)[Dir!Handle.current_entry]))'
          /\ NotYet(Dir!Entries(volume.current), Dir!Handle.current_entry - 1)'
          /\ command'.found = <<Dir!Seen(Dir!Entries(volume.current)[Dir!Handle.current_entry])'>>
    BY <1>6, <1>12, <2>3, <2>4, <2>5
  <2> QED
    BY <2>4, <2>6, <2>7 DEF WalkOK
<1>14. Dir!DiskOK(card)' /\ DevicesOK' /\ VolumeOK'
  BY <1>1, VolumeSame DEF DirectoriesInv
<1>15. volume'.initialized /\ command'.dir \in DOMAIN directory' /\ Dir!Handle'.head = volume'.current
  BY <1>1, <1>2, <1>6, <1>7
<1> QED
  BY <1>6, <1>13, <1>14, <1>15 DEF DirectoriesInv

LEMMA CurrentMoves == VolumeInv /\ DirectoriesInv /\ Dir!fs_cd => DirectoriesInv'
<1> SUFFICES ASSUME VolumeInv, DirectoriesInv, Dir!fs_cd PROVE DirectoriesInv'
  OBVIOUS
<1> DEFINE c == volume.current
           n == Dir!Handle.current_entry
           x == Dir!Entries(c)[n]
<1>1. /\ UNCHANGED <<card, partition, device>> /\ command.at = "found" /\ command' = Dir!Idle
      /\ volume' = IF command.found[1].kind = "directory" THEN [volume EXCEPT !.current = command.found[1].cluster] ELSE volume
  BY DEF Dir!fs_cd
<1>2. command'.at = "idle"
  BY <1>1 DEF Dir!Idle
<1>3. /\ volume.initialized /\ c \in Dir!Directories /\ WalkOK(Dir!Entries(c), n)
  BY <1>1, HandleIs
<1>4. n \in 0 .. Dir!max_entries /\ n # 0 /\ command.found = <<Dir!Seen(x)>>
  BY <1>1, <1>3 DEF WalkOK
<1>5. n \in DOMAIN Dir!Entries(c) /\ (x.kind = "directory" => Dir!cluster_head(x) \in Dir!Directories)
  BY <1>3, <1>4, DirectoryIs DEF DirectoriesInv
<1>6. command.found[1] = Dir!Seen(x) /\ Dir!Seen(x).kind = x.kind /\ Dir!Seen(x).cluster = Dir!cluster_head(x)
  BY <1>4 DEF Dir!Seen
<1>7. CASE UNCHANGED volume
  BY <1>1, <1>2, <1>7, NoWalk
<1>8. CASE x.kind = "directory" /\ volume' = [volume EXCEPT !.current = Dir!cluster_head(x)]
  <2> DEFINE to == Dir!cluster_head(x)
  <2>1. to \in Dir!Directories
    BY <1>5, <1>8
  <2> HIDE DEF to, x, n
  <2>2. /\ volume = [Dir!Mounted(volume.block) EXCEPT !.current = volume.current]
        /\ volume.block \in DOMAIN device /\ Dir!Mountable(Dir!BootSector(volume.block))
    BY <1>3 DEF DirectoriesInv, VolumeOK
  <2>3. /\ volume' = [Dir!Mounted(volume.block) EXCEPT !.current = to]
        /\ volume'.block = volume.block /\ volume'.root = volume.root /\ volume'.current = to
    BY <1>8, <2>2 DEF Dir!Mounted, to
  <2>4. Dir!BootSector(volume.block)' = Dir!BootSector(volume.block)
    BY <1>1, <2>3 DEF Dir!BootSector
  <2>5. Dir!Directories' = Dir!Directories
    BY <2>3, <2>4 DEF Dir!Directories
  <2>6. Dir!Mounted(volume.block)' = Dir!Mounted(volume.block)
    BY <2>3, <2>4 DEF Dir!Mounted
  <2>7. VolumeOK'
    <3>1. Dir!Mountable(Dir!BootSector(volume.block))'
      BY <2>2, <2>4 DEF Dir!Mountable
    <3>2. volume' = [Dir!Mounted(volume.block)' EXCEPT !.current = volume'.current]
      BY <2>3, <2>6
    <3> QED
      BY <1>1, <2>1, <2>2, <2>3, <2>5, <3>1, <3>2 DEF VolumeOK
  <2>8. Dir!DiskOK(card)' /\ DevicesOK'
    BY <1>1 DEF DirectoriesInv, Dir!DiskOK, DevicesOK
  <2> QED
    BY <1>2, <2>7, <2>8 DEF DirectoriesInv
<1> QED
  <2> HIDE DEF x, n
  <2> QED
    BY <1>1, <1>6, <1>7, <1>8

LEMMA DirectoriesKeep == VolumeInv /\ DirectoriesInv /\ [Dir!Next]_Dir!vars => DirectoriesInv'
<1> SUFFICES ASSUME VolumeInv, DirectoriesInv, [Dir!Next]_Dir!vars PROVE DirectoriesInv'
  OBVIOUS
<1>1. ASSUME UNCHANGED Dir!vars PROVE DirectoriesInv'
  <2>1. UNCHANGED <<card, partition, device, volume, directory, command>>
    BY <1>1 DEF Dir!vars
  <2>2. \A y : Dir!Wanted(y)' <=> Dir!Wanted(y)
    BY <2>1 DEF Dir!Wanted
  <2>3. Dir!Handle' = Dir!Handle
    BY <2>1 DEF Dir!Handle
  <2>4. \A e, n : WalkOK(e, n)' <=> WalkOK(e, n)
    BY <2>1, <2>2, VolumeSame DEF WalkOK, ShowsFirst, NotYet, Shown
  <2> QED
    BY <2>1, <2>3, <2>4, VolumeSame DEF DirectoriesInv
<1>2. CASE Dir!BootCard
  BY <1>2, BootFinds
<1>3. CASE Dir!BootVolume
  BY <1>3, Mounts DEF Dir!BootVolume, Dir!Idle
<1>4. ASSUME NEW number \in 0 .. MaxBlocks - 1, Dir!fs_init_command(number) PROVE DirectoriesInv'
  <2>1. command'.at = "idle"
    BY <1>4 DEF Dir!fs_init_command
  <2> QED
    BY <1>4, <2>1, Mounts DEF Dir!fs_init_command
<1>5. CASE Dir!Type
  <2>1. /\ UNCHANGED <<card, partition, device, volume>> /\ \E op, w : command' = [Dir!Idle EXCEPT !.op = op, !.at = "open", !.want = w]
    BY <1>5 DEF Dir!Type, Dir!Unchanged
  <2>2. command'.at = "open"
    BY <2>1 DEF Dir!Idle
  <2> QED
    BY <2>1, <2>2, NoWalk
<1>6. CASE Dir!fs_dir_open
  BY <1>6, DirectoryOpens
<1>7. CASE Dir!fs_dir_read
  BY <1>7, WalkGoesOn
<1>8. CASE Dir!Listed \/ Dir!LookupFailure \/ Dir!End
  <2>1. UNCHANGED <<card, partition, device, volume>> /\ command' = Dir!Idle
    BY <1>8 DEF Dir!Listed, Dir!LookupFailure, Dir!End, Dir!Abandon, Dir!Unchanged
  <2> QED
    BY <2>1, NoWalk DEF Dir!Idle
<1>9. CASE Dir!fs_cd
  BY <1>9, CurrentMoves
<1>10. CASE Dir!file_open \/ Dir!ConfigRead
  <2>1. UNCHANGED <<card, partition, device, volume>>
    BY <1>10 DEF Dir!file_open, Dir!ConfigRead, Dir!Unchanged
  <2>2. command'.at \in {"open", "use", "idle"}
    <3>1. DOMAIN command = {"op", "at", "want", "opened", "dir", "found"}
      BY DEF VolumeInv, VolumeTypes
    <3>2. CASE Dir!ConfigRead
      BY <3>1, <3>2 DEF Dir!ConfigRead
    <3>3. CASE Dir!file_open
      <4>1. CASE Dir!Abandon(file)
        BY <4>1 DEF Dir!Abandon, Dir!Idle
      <4>2. ASSUME NEW f \in Dir!Unused(file),
                   command' = [command EXCEPT !.opened = Append(@, f), !.want = Tail(@),
                                              !.at = IF Len(command.want) = 2 THEN "open" ELSE "use"]
            PROVE  command'.at \in {"open", "use", "idle"}
        BY <3>1, <4>2
      <4> QED
        BY <3>3, <4>1, <4>2 DEF Dir!file_open
    <3> QED
      BY <1>10, <3>2, <3>3
  <2> QED
    BY <2>1, <2>2, NoWalk
<1> QED
  BY <1>1, <1>2, <1>3, <1>4, <1>5, <1>6, <1>7, <1>8, <1>9, <1>10 DEF Dir!Next

LEMMA InitDirectories == AnyCard!Init /\ AnyCard!DisksOK => DirectoriesInv
<1> SUFFICES ASSUME AnyCard!Init, AnyCard!DisksOK PROVE DirectoriesInv
  OBVIOUS
<1>1. AnyCard!DiskOK(card) /\ DevicesOK
  BY DEF AnyCard!Init, AnyCard!DisksOK, DevicesOK
<1>2. ASSUME NEW b PROVE AnyCard!WellFormed(b) => Dir!WellFormed(b)
  BY Zenon DEF AnyCard!WellFormed, Dir!WellFormed, AnyCard!Limit, Dir!Limit, AnyCard!ToSet, Dir!ToSet
<1>3. ASSUME NEW b PROVE Dir!Mountable(b) => AnyCard!Mountable(b)
  BY Zenon DEF AnyCard!Mountable, Dir!Mountable, AnyCard!power_of_two, Dir!power_of_two
<1>4. ASSUME NEW e PROVE Dir!FatType(e) => AnyCard!FatType(e)
  BY Zenon DEF AnyCard!FatType, Dir!FatType
<1>5. Dir!DiskOK(card)
  BY <1>1, <1>2, <1>3, <1>4, Zenon DEF AnyCard!DiskOK, Dir!DiskOK, AnyCard!ToSet, Dir!ToSet
<1>6. ~ volume.initialized /\ command.at = "boot"
  BY DEF AnyCard!Init, AnyCard!NotMounted, AnyCard!Idle
<1> QED
  BY <1>1, <1>5, <1>6 DEF DirectoriesInv, VolumeOK

\* The directories are read as they are, on any cards that are well formed and with a table of any length and any
\* number of handles (partition.c:40-124, file_system.c:221-231 and 591-671).
THEOREM AnyDirectoryIsRead ==
  ASSUME AnyCard!DisksOK
  PROVE  AnyCard!Init /\ [][Dir!Next]_Dir!vars => []DirectoriesAgree
<1>1. AnyCard!Init => NothingOpen
  BY DEF AnyCard!Init, AnyCard!Closed, AnyCard!Idle, NothingOpen, Dir!Closed, Dir!Idle
<1>2. AnyCard!Init => VolumeInv /\ DirectoriesInv
  BY <1>1, InitVolume, InitDirectories
<1>3. DirectoriesInv => DirectoriesAgree
  BY WalkAgrees DEF DirectoriesAgree
<1> QED
  BY <1>2, <1>3, VolumeKeeps, DirectoriesKeep, PTL

----------------------------------------------------------------------------
(* Errors *)

FrameTypes == [type : Errors!CheckType \cup {"main", "plain"}, _new_bottom : 0 .. Length, before : Nat,
               cleared : BOOLEAN, state : {"runs", "returns", "cleanup"}]

ErrorTypes ==
  /\ _array \in [1 .. Length -> Nat] /\ _current \in 0 .. Length
  /\ frames \in Seq(FrameTypes)
  /\ made \in Nat /\ revived \in BOOLEAN

\* What is kept is what is on the stack.
KeptIs ==
  ~ revived =>
    /\ kept \in Seq(Nat) /\ Len(kept) = _current
    /\ \A i \in 1 .. _current : kept[i] = _array[i] /\ kept[i] <= made

\* An IgnoreError's Top, if nothing was cleared since, parts what is kept into the elements made
\* before it, which are those below its bottom, and those made since.
Parts(f) ==
  /\ f._new_bottom <= _current
  /\ \A i \in 1 .. _current : i <= f._new_bottom <=> kept[i] <= f.before

TopsPart ==
  \A k \in DOMAIN frames : frames[k].type = "ignore" =>
    /\ frames[k].before <= made
    /\ ~ revived /\ frames[k].cleared => \A i \in 1 .. _current : kept[i] > frames[k].before
    /\ ~ revived /\ ~ frames[k].cleared => Parts(frames[k])

\* The Tops that were there when the stack was cleared lie below those that were not, which nest.
TopsNest ==
  ~ revived =>
    \A k, l \in DOMAIN frames :
      k < l /\ frames[k].type = "ignore" /\ frames[l].type = "ignore" =>
        /\ frames[l].cleared => frames[k].cleared
        /\ ~ frames[k].cleared => frames[k]._new_bottom <= frames[l]._new_bottom

ErrorsInv == ErrorTypes /\ KeptIs /\ TopsPart /\ TopsNest

----------------------------------------------------------------------------

\* The frames by their places.
LEMMA FramesAre ==
  ASSUME NEW s \in Seq(FrameTypes)
  PROVE  /\ Len(s) \in Nat /\ DOMAIN s = 1 .. Len(s)
         /\ \A k \in DOMAIN s : s[k] \in FrameTypes
BY LenProperties

LEMMA InitErrors == Errors!Init => ErrorsInv
<1> SUFFICES ASSUME Errors!Init PROVE ErrorsInv
  OBVIOUS
<1>1. Errors!Frame("main", 0, 0) \in FrameTypes /\ Errors!Frame("main", 0, 0).type # "ignore"
  BY LengthAssumption DEF Errors!Frame, FrameTypes, Errors!ConstantsOK, Errors!CheckType
<1>2. frames = <<Errors!Frame("main", 0, 0)>>
  BY DEF Errors!Init
<1>3. frames \in Seq(FrameTypes) /\ DOMAIN frames = {1} /\ frames[1].type # "ignore"
  BY <1>1, <1>2
<1>4. /\ _array = [i \in 1 .. Length |-> 0] /\ _current = 0 /\ made = 0 /\ kept = <<>> /\ revived = FALSE
  BY DEF Errors!Init
<1>5. ErrorTypes
  <2>1. _array \in [1 .. Length -> Nat] /\ _current \in 0 .. Length
    BY <1>4, LengthAssumption DEF Errors!ConstantsOK
  <2> QED
    BY <1>3, <1>4, <2>1 DEF ErrorTypes
<1>6. KeptIs
  BY <1>4, EmptySeq DEF KeptIs
<1> QED
  BY <1>3, <1>5, <1>6 DEF ErrorsInv, TopsPart, TopsNest

\* The frames below the innermost, whose caller may note that it returns.
LEMMA BelowFrames ==
  ASSUME ErrorTypes, Len(frames) > 1, NEW s,
         s = Errors!Below \/ s = [Errors!Below EXCEPT ![Len(Errors!Below)] = Errors!After(Errors!Top.type, @)]
  PROVE  /\ s \in Seq(FrameTypes) /\ Len(s) = Len(frames) - 1 /\ DOMAIN s = 1 .. Len(frames) - 1
         /\ \A k \in 1 .. Len(frames) - 1 :
              /\ s[k].type = frames[k].type /\ s[k]._new_bottom = frames[k]._new_bottom
              /\ s[k].before = frames[k].before /\ s[k].cleared = frames[k].cleared
<1> DEFINE n == Len(frames)
<1>1. /\ frames \in Seq(FrameTypes) /\ n \in Nat /\ n > 1 /\ DOMAIN frames = 1 .. n
      /\ \A k \in 1 .. n : frames[k] \in FrameTypes
  BY FramesAre DEF ErrorTypes
<1>2. Errors!Below \in Seq(FrameTypes) /\ Len(Errors!Below) = n - 1 /\ \A k \in 1 .. n - 1 : Errors!Below[k] = frames[k]
  BY <1>1, SubSeqProperties DEF Errors!Below
<1> HIDE DEF n
<1>3. DOMAIN Errors!Below = 1 .. n - 1 /\ n - 1 \in 1 .. n - 1 /\ n - 1 \in Nat
  BY <1>1, <1>2, FramesAre
<1>4. ASSUME NEW f \in FrameTypes
      PROVE  /\ Errors!After(Errors!Top.type, f) \in FrameTypes
             /\ Errors!After(Errors!Top.type, f).type = f.type /\ Errors!After(Errors!Top.type, f)._new_bottom = f._new_bottom
             /\ Errors!After(Errors!Top.type, f).before = f.before /\ Errors!After(Errors!Top.type, f).cleared = f.cleared
  BY <1>4 DEF Errors!After, FrameTypes
<1>5. CASE s = Errors!Below
  BY <1>2, <1>3, <1>5 DEF n
<1>6. CASE s = [Errors!Below EXCEPT ![Len(Errors!Below)] = Errors!After(Errors!Top.type, @)]
  <2>1. s = [Errors!Below EXCEPT ![n - 1] = Errors!After(Errors!Top.type, frames[n - 1])]
    BY <1>2, <1>3, <1>6
  <2>2. frames[n - 1] \in FrameTypes
    BY <1>1, <1>3
  <2>3. s \in [1 .. n - 1 -> FrameTypes]
    <3>1. Errors!Below \in [1 .. n - 1 -> FrameTypes]
      BY <1>2, <1>3, LenProperties
    <3> QED
      BY <2>1, <2>2, <3>1, <1>4
  <2>4. s \in Seq(FrameTypes) /\ Len(s) = n - 1
    BY <2>3, <1>3, OfItsLength
  <2>5. s[n - 1] = Errors!After(Errors!Top.type, frames[n - 1]) /\ \A k \in 1 .. n - 1 : k # n - 1 => s[k] = frames[k]
    BY <2>1, <1>2, <1>3
  <2> QED
    BY <2>2, <2>3, <2>4, <2>5, <1>4 DEF n
<1> QED
  BY <1>5, <1>6

LEMMA ClearedFrames ==
  ASSUME NEW s \in Seq(FrameTypes)
  PROVE  /\ Errors!Cleared(s) \in Seq(FrameTypes) /\ Len(Errors!Cleared(s)) = Len(s) /\ DOMAIN Errors!Cleared(s) = DOMAIN s
         /\ \A k \in DOMAIN s :
              /\ Errors!Cleared(s)[k].type = s[k].type /\ Errors!Cleared(s)[k].before = s[k].before
              /\ s[k].type = "ignore" => Errors!Cleared(s)[k].cleared
<1>1. Len(s) \in Nat /\ DOMAIN s = 1 .. Len(s) /\ \A k \in DOMAIN s : s[k] \in FrameTypes
  BY FramesAre
<1>2. \A k \in DOMAIN s : Errors!Cleared(s)[k] = [s[k] EXCEPT !.cleared = (s[k].type = "ignore")]
  BY DEF Errors!Cleared
<1>3. ASSUME NEW k \in DOMAIN s
      PROVE  /\ Errors!Cleared(s)[k] \in FrameTypes
             /\ Errors!Cleared(s)[k].type = s[k].type /\ Errors!Cleared(s)[k].before = s[k].before
             /\ s[k].type = "ignore" => Errors!Cleared(s)[k].cleared
  <2>1. s[k] \in FrameTypes
    BY <1>1
  <2>2. CASE s[k].type = "ignore"
    <3>1. Errors!Cleared(s)[k] = [s[k] EXCEPT !.cleared = TRUE]
      <4>1. (s[k].type = "ignore") = TRUE
        BY <2>2
      <4> QED
        BY <1>2, <4>1
    <3> QED
      BY <2>1, <3>1 DEF FrameTypes
  <2>3. CASE s[k].type # "ignore"
    <3>1. Errors!Cleared(s)[k] = [s[k] EXCEPT !.cleared = FALSE]
      <4>1. (s[k].type = "ignore") = FALSE
        BY <2>3
      <4> QED
        BY <1>2, <4>1
    <3> QED
      BY <2>1, <2>3, <3>1 DEF FrameTypes
  <2> QED
    BY <2>2, <2>3
<1>4. Errors!Cleared(s) \in [1 .. Len(s) -> FrameTypes]
  BY <1>1, <1>3 DEF Errors!Cleared
<1> QED
  BY <1>1, <1>3, <1>4, OfItsLength

\* s are frames of the innermost ones that are left, the Tops as they were.
FewerFrames(s) ==
  /\ DOMAIN s \subseteq DOMAIN frames
  /\ \A k \in DOMAIN s :
       /\ s[k].type = frames[k].type /\ s[k]._new_bottom = frames[k]._new_bottom
       /\ s[k].before = frames[k].before /\ s[k].cleared = frames[k].cleared

----------------------------------------------------------------------------
\* A print or a clear, unless it is inside the Top that ends.
LEMMA StackCleared ==
  ASSUME ErrorTypes', kept' = <<>>, revived' = FALSE => _current' = 0,
         \A k \in DOMAIN frames' : frames'[k].type = "ignore" =>
           frames'[k].cleared /\ frames'[k].before <= made'
  PROVE  ErrorsInv'
<1>1. KeptIs'
  BY EmptySeq DEF KeptIs, ErrorTypes
<1>2. TopsPart'
  BY DEF TopsPart, ErrorTypes
<1>3. TopsNest'
  BY DEF TopsNest
<1> QED
  BY <1>1, <1>2, <1>3 DEF ErrorsInv

LEMMA InnermostFrame ==
  ASSUME ErrorTypes, Len(frames) >= 1
  PROVE  Len(frames) \in DOMAIN frames /\ Errors!Top = frames[Len(frames)] /\ Errors!Top \in FrameTypes
BY FramesAre DEF ErrorTypes, Errors!Top

\* An IgnoreError's Top ends, above which all is what is kept with at most one more element.
LEMMA TopEnds ==
  ASSUME ErrorsInv, ErrorTypes', Len(frames) > 1, Errors!Top.type = "ignore", frames' = Errors!Below,
         _current' = Errors!Top._new_bottom,
         NEW all, kept' = Errors!WithoutIgnored(all), all = kept \/ all = Append(kept, made + 1),
         revived' = (revived \/ Errors!Revives(Errors!Top.cleared)),
         made' \in {made, made + 1},
         \A i \in 1 .. _current : _array'[i] = _array[i]
  PROVE  ErrorsInv'
<1> USE DEF ErrorsInv
<1> DEFINE n == Len(frames)
           b == Errors!Top._new_bottom
<1>1. n \in Nat /\ n > 1 /\ n \in DOMAIN frames /\ Errors!Top = frames[n] /\ Errors!Top \in FrameTypes /\ DOMAIN frames = 1 .. n
  BY InnermostFrame, FramesAre DEF ErrorTypes
<1>2. b \in Nat /\ Errors!Top.before \in Nat /\ Errors!Top.cleared \in BOOLEAN
  BY <1>1, LengthAssumption DEF FrameTypes, Errors!ConstantsOK
<1>3. /\ DOMAIN frames' = 1 .. n - 1
      /\ \A k \in 1 .. n - 1 :
           /\ frames'[k].type = frames[k].type /\ frames'[k]._new_bottom = frames[k]._new_bottom
           /\ frames'[k].before = frames[k].before /\ frames'[k].cleared = frames[k].cleared
  BY BelowFrames
<1>4. _current \in Nat /\ made \in Nat
  BY LengthAssumption DEF ErrorTypes, Errors!ConstantsOK
<1> HIDE DEF b, n
<1>5. ASSUME revived' = FALSE
      PROVE  /\ revived = FALSE /\ b <= _current
             /\ kept' \in Seq(Nat) /\ Len(kept') = b
             /\ \A i \in 1 .. b : kept'[i] = kept[i]
  <2>1. revived = FALSE /\ (Errors!Top.cleared => b = 0)
    BY <1>2, <1>5 DEF Errors!Revives, ErrorTypes, b
  <2>2. /\ kept \in Seq(Nat) /\ Len(kept) = _current /\ DOMAIN kept = 1 .. _current
        /\ \A i \in 1 .. _current : kept[i] \in Nat
    BY <2>1, LenProperties DEF KeptIs
  <2>3. b <= _current /\ \A i \in 1 .. _current : i <= b <=> kept[i] <= Errors!Top.before
    <3>1. CASE Errors!Top.cleared
      <4>1. b = 0 /\ \A i \in 1 .. _current : kept[i] > Errors!Top.before
        BY <2>1, <3>1, <1>1 DEF TopsPart
      <4> QED
        BY <4>1, <1>2, <1>4, <2>2
    <3>2. CASE ~ Errors!Top.cleared
      BY <2>1, <3>2, <1>1 DEF TopsPart, Parts, b
    <3> QED
      BY <3>1, <3>2, <1>2
  <2>4. Errors!Top.before <= made
    BY <1>1 DEF TopsPart
  <2>5. {j \in DOMAIN all : all[j] <= Errors!Top.before} = 1 .. b /\ \A j \in 1 .. b : all[j] = kept[j]
    <3>1. CASE all = kept
      BY <3>1, <2>2, <2>3, <1>2, <1>4
    <3>2. CASE all = Append(kept, made + 1)
      <4>1. /\ DOMAIN all = 1 .. _current + 1 /\ all[_current + 1] = made + 1
            /\ \A i \in 1 .. _current : all[i] = kept[i]
        <5>1. /\ Len(all) = _current + 1 /\ all[_current + 1] = made + 1 /\ all \in Seq(Nat)
              /\ \A i \in 1 .. _current : all[i] = kept[i]
          BY <3>2, <2>2, <1>4, AppendProperties
        <5> QED
          BY <5>1, LenProperties
      <4>2. ~ (all[_current + 1] <= Errors!Top.before)
        BY <4>1, <2>4, <1>2, <1>4
      <4>3. \A j \in 1 .. b : j \in 1 .. _current
        BY <2>3, <1>2, <1>4
      <4>4. \A j \in 1 .. _current + 1 : all[j] <= Errors!Top.before <=> j \in 1 .. b
        <5> SUFFICES ASSUME NEW j \in 1 .. _current + 1
                     PROVE  all[j] <= Errors!Top.before <=> j \in 1 .. b
          OBVIOUS
        <5>1. CASE j = _current + 1
          BY <5>1, <4>2, <2>3, <1>2, <1>4
        <5>2. CASE j # _current + 1
          BY <5>2, <4>1, <2>3, <1>2, <1>4
        <5> QED
          BY <5>1, <5>2
      <4>5. \A j \in 1 .. b : j \in 1 .. _current + 1
        BY <2>3, <1>2, <1>4
      <4> QED
        BY <4>1, <4>3, <4>4, <4>5
    <3> QED
      BY <3>1, <3>2
  <2>6. kept' = [i \in 1 .. b |-> all[i]]
    BY <2>5 DEF Errors!WithoutIgnored
  <2>7. kept' \in [1 .. b -> Nat] /\ b \in Nat
    BY <2>2, <2>3, <2>5, <2>6, <1>2, <1>4
  <2> QED
    BY <2>1, <2>3, <2>5, <2>6, <2>7, OfItsLength
<1>6. KeptIs'
  <2> SUFFICES ASSUME revived' = FALSE
               PROVE  /\ kept' \in Seq(Nat) /\ Len(kept') = _current'
                      /\ \A i \in 1 .. _current' : kept'[i] = _array'[i] /\ kept'[i] <= made'
    BY DEF KeptIs, ErrorTypes
  <2>4. b <= _current
    BY <1>5
  <2>1. \A i \in 1 .. b : i \in 1 .. _current
    BY <2>4, <1>2, <1>4
  <2>2. \A i \in 1 .. _current : kept[i] = _array[i] /\ kept[i] <= made /\ kept[i] \in Nat
    BY <1>5, LenProperties DEF KeptIs
  <2>5. \A i \in 1 .. b : kept'[i] = kept[i]
    BY <1>5
  <2>3. \A i \in 1 .. b : kept'[i] = _array'[i] /\ kept'[i] <= made'
    BY <2>1, <2>2, <2>5, <1>4
  <2> QED
    BY <2>3, <1>5 DEF b
<1>7. TopsPart'
  <2>6. /\ DOMAIN frames' = 1 .. n - 1 /\ _current' = b
        /\ \A l \in 1 .. n - 1 :
             /\ frames'[l].type = frames[l].type /\ frames'[l].before = frames[l].before
             /\ frames'[l].cleared = frames[l].cleared /\ frames'[l]._new_bottom = frames[l]._new_bottom
    BY <1>3 DEF b
  <2>7. (~ revived') = (revived' = FALSE)
    BY DEF ErrorTypes
  <2> SUFFICES ASSUME NEW k \in 1 .. n - 1, frames'[k].type = "ignore"
               PROVE  /\ frames'[k].before <= made'
                      /\ revived' = FALSE /\ frames'[k].cleared => \A i \in 1 .. _current' : kept'[i] > frames'[k].before
                      /\ revived' = FALSE /\ ~ frames'[k].cleared =>
                           /\ frames'[k]._new_bottom <= _current'
                           /\ \A i \in 1 .. _current' : i <= frames'[k]._new_bottom <=> kept'[i] <= frames'[k].before
    BY <2>6, <2>7 DEF TopsPart, Parts
  <2>8. frames[k].type = "ignore"
    BY <2>6
  <2>1. k \in DOMAIN frames /\ frames[k] \in FrameTypes /\ k < n
    BY <1>1, FramesAre DEF ErrorTypes
  <2>2. frames[k].before <= made' /\ frames[k].before \in Nat /\ frames[k]._new_bottom \in Int
    BY <2>1, <2>8, <1>4 DEF TopsPart, FrameTypes
  <2>3. ASSUME revived' = FALSE
        PROVE  \A i \in 1 .. b : i \in 1 .. _current /\ kept'[i] = kept[i]
    <3>1. b <= _current /\ \A i \in 1 .. b : kept'[i] = kept[i]
      BY <2>3, <1>5
    <3> QED
      BY <3>1, <1>2, <1>4
  <2>4. ASSUME revived' = FALSE, frames[k].cleared
        PROVE  \A i \in 1 .. b : kept'[i] > frames[k].before
    BY <2>1, <2>3, <2>4, <2>8, <1>5 DEF TopsPart
  <2>5. ASSUME revived' = FALSE, ~ frames[k].cleared
        PROVE  /\ frames[k]._new_bottom <= b
               /\ \A i \in 1 .. b : i <= frames[k]._new_bottom <=> kept'[i] <= frames[k].before
    <3>1. frames[k]._new_bottom <= b
      BY <2>1, <2>5, <2>8, <1>1, <1>5 DEF TopsNest, b
    <3> QED
      BY <2>1, <2>3, <2>5, <2>8, <3>1, <1>5 DEF TopsPart, Parts
  <2> QED
    BY <2>2, <2>4, <2>5, <2>6
<1>8. TopsNest'
  <2>1. ASSUME revived' = FALSE, NEW k \in 1 .. n - 1, NEW l \in 1 .. n - 1, k < l,
               frames[k].type = "ignore", frames[l].type = "ignore"
        PROVE  /\ frames[l].cleared => frames[k].cleared
               /\ ~ frames[k].cleared => frames[k]._new_bottom <= frames[l]._new_bottom
    <3>1. k \in DOMAIN frames /\ l \in DOMAIN frames
      BY <1>1
    <3> QED
      BY <3>1, <2>1, <1>5 DEF TopsNest
  <2>2. ASSUME revived' = FALSE, NEW k \in DOMAIN frames', NEW l \in DOMAIN frames', k < l,
               frames'[k].type = "ignore", frames'[l].type = "ignore"
        PROVE  /\ frames'[l].cleared => frames'[k].cleared
               /\ ~ frames'[k].cleared => frames'[k]._new_bottom <= frames'[l]._new_bottom
    <3>1. k \in 1 .. n - 1 /\ l \in 1 .. n - 1
      BY <2>2, <1>3
    <3>2. frames[k].type = "ignore" /\ frames[l].type = "ignore"
      BY <2>2, <3>1, <1>3
    <3>3. /\ frames[l].cleared => frames[k].cleared
          /\ ~ frames[k].cleared => frames[k]._new_bottom <= frames[l]._new_bottom
      BY <2>1, <2>2, <3>1, <3>2
    <3>4. /\ frames'[k].cleared = frames[k].cleared /\ frames'[l].cleared = frames[l].cleared
          /\ frames'[k]._new_bottom = frames[k]._new_bottom
          /\ frames'[l]._new_bottom = frames[l]._new_bottom
      BY <3>1, <1>3
    <3> QED
      BY <3>3, <3>4
  <2>3. (~ revived') => revived' = FALSE
    BY DEF ErrorTypes
  <2> QED
    BY <2>2, <2>3 DEF TopsNest
<1> QED
  BY <1>6, <1>7, <1>8

\* Another element: a full stack drops it, and so does what is kept.
LEMMA Pushing ==
  ASSUME ErrorsInv, ErrorTypes', FewerFrames(frames'),
         _array' = Errors!Pushed, _current' = Errors!Height, made' = made + 1, kept' = Errors!PushKept,
         revived' = revived
  PROVE  ErrorsInv'
<1> USE DEF ErrorsInv
<1>1. _current \in Nat /\ Length \in Nat /\ made \in Nat /\ _current <= Length
  BY LengthAssumption DEF ErrorTypes, Errors!ConstantsOK
<1>2. ASSUME revived = FALSE
      PROVE  /\ kept' \in Seq(Nat) /\ Len(kept') = _current' /\ _current' \in {_current, _current + 1}
             /\ \A i \in 1 .. _current : kept'[i] = kept[i] /\ _array'[i] = _array[i]
             /\ \A i \in 1 .. _current' : i > _current => kept'[i] = made + 1 /\ _array'[i] = made + 1
  <2>1. kept \in Seq(Nat) /\ Len(kept) = _current
    BY <1>2 DEF KeptIs
  <2>2. CASE _current < Length
    <3>1. kept' = Append(kept, made + 1) /\ _current' = _current + 1 /\ _array' = [_array EXCEPT ![_current + 1] = made + 1]
      BY <2>1, <2>2 DEF Errors!PushKept, Errors!Height, Errors!Pushed
    <3>2. /\ kept' \in Seq(Nat) /\ Len(kept') = _current + 1 /\ kept'[_current + 1] = made + 1
          /\ \A i \in 1 .. _current : kept'[i] = kept[i]
      BY <2>1, <3>1, <1>1, AppendProperties
    <3>3. _current + 1 \in 1 .. Length /\ \A i \in 1 .. _current : i \in 1 .. Length /\ i # _current + 1
      BY <2>2, <1>1
    <3>4. _array'[_current + 1] = made + 1 /\ \A i \in 1 .. _current : _array'[i] = _array[i]
      BY <3>1, <3>3 DEF ErrorTypes
    <3>5. \A i \in 1 .. _current + 1 : i > _current => i = _current + 1
      BY <1>1
    <3> QED
      BY <3>1, <3>2, <3>4, <3>5
  <2>3. CASE ~ (_current < Length)
    <3>1. kept' = kept /\ _current' = _current /\ _array' = _array
      BY <2>1, <2>3 DEF Errors!PushKept, Errors!Height, Errors!Pushed
    <3> QED
      BY <2>1, <3>1, <1>1
  <2> QED
    BY <2>2, <2>3
<1>3. (~ revived') => revived = FALSE
  BY DEF ErrorTypes
<1>4. ASSUME revived = FALSE, NEW i \in 1 .. _current'
      PROVE  i \in Nat /\ (i \in 1 .. _current \/ (i > _current /\ i = _current + 1))
  <2>1. _current' \in {_current, _current + 1}
    BY <1>2, <1>4
  <2> QED
    BY <2>1, <1>1
<1>5. KeptIs'
  <2>1. ASSUME revived = FALSE, NEW i \in 1 .. _current'
        PROVE  kept'[i] = _array'[i] /\ kept'[i] <= made'
    <3>1. CASE i \in 1 .. _current
      <4>1. kept[i] = _array[i] /\ kept[i] <= made /\ kept[i] \in Nat
        BY <2>1, <3>1, LenProperties DEF KeptIs
      <4>2. kept'[i] = kept[i] /\ _array'[i] = _array[i]
        BY <2>1, <3>1, <1>2
      <4> QED
        BY <4>1, <4>2, <1>1
    <3>2. CASE i > _current
      <4>1. kept'[i] = made + 1 /\ _array'[i] = made + 1
        BY <2>1, <3>2, <1>2
      <4> QED
        BY <4>1, <1>1
    <3> QED
      BY <2>1, <3>1, <3>2, <1>4
  <2> QED
    BY <2>1, <1>2, <1>3 DEF KeptIs
<1>6. TopsPart'
  <2>1. ASSUME NEW k \in DOMAIN frames, frames[k].type = "ignore"
        PROVE  /\ frames[k].before <= made + 1
               /\ revived = FALSE /\ frames[k].cleared => \A i \in 1 .. _current' : kept'[i] > frames[k].before
               /\ revived = FALSE /\ ~ frames[k].cleared =>
                    /\ frames[k]._new_bottom <= _current'
                    /\ \A i \in 1 .. _current' : i <= frames[k]._new_bottom <=> kept'[i] <= frames[k].before
    <3>1. frames[k].before \in Nat /\ frames[k]._new_bottom \in Int /\ frames[k].before <= made
      <4>1. frames[k] \in FrameTypes
        BY <2>1, FramesAre DEF ErrorTypes
      <4>2. frames[k].before \in Nat /\ frames[k]._new_bottom \in Int
        BY <4>1, <1>1 DEF FrameTypes
      <4> QED
        BY <2>1, <4>2 DEF TopsPart
    <3>2. ASSUME revived = FALSE, frames[k].cleared, NEW i \in 1 .. _current'
          PROVE  kept'[i] > frames[k].before
      <4>1. CASE i \in 1 .. _current
        BY <2>1, <3>2, <4>1, <1>2 DEF TopsPart
      <4>2. CASE i > _current
        <5>1. kept'[i] = made + 1
          BY <3>2, <4>2, <1>2
        <5> QED
          BY <5>1, <3>1, <1>1
      <4> QED
        BY <3>2, <4>1, <4>2, <1>4
    <3>3. ASSUME revived = FALSE, ~ frames[k].cleared
          PROVE  frames[k]._new_bottom <= _current /\ frames[k]._new_bottom <= _current'
      <4>1. frames[k]._new_bottom <= _current
        BY <2>1, <3>3 DEF TopsPart, Parts
      <4>2. _current' \in {_current, _current + 1}
        BY <3>3, <1>2
      <4> QED
        BY <4>1, <4>2, <3>1, <1>1
    <3>4. ASSUME revived = FALSE, ~ frames[k].cleared, NEW i \in 1 .. _current'
          PROVE  i <= frames[k]._new_bottom <=> kept'[i] <= frames[k].before
      <4>1. CASE i \in 1 .. _current
        <5>1. i <= frames[k]._new_bottom <=> kept[i] <= frames[k].before
          BY <2>1, <3>4, <4>1 DEF TopsPart, Parts
        <5>2. kept'[i] = kept[i]
          BY <3>4, <4>1, <1>2
        <5> QED
          BY <5>1, <5>2
      <4>2. CASE i > _current
        <5>1. kept'[i] = made + 1
          BY <3>4, <4>2, <1>2
        <5>2. i \in Nat /\ frames[k]._new_bottom <= _current
          BY <3>3, <3>4, <1>4
        <5> QED
          BY <5>1, <5>2, <4>2, <3>1, <1>1
      <4> QED
        BY <3>4, <4>1, <4>2, <1>4
    <3>5. frames[k].before <= made + 1
      BY <3>1, <1>1
    <3> QED
      BY <3>2, <3>3, <3>4, <3>5
  <2>2. ASSUME NEW k \in DOMAIN frames', frames'[k].type = "ignore"
        PROVE  /\ k \in DOMAIN frames /\ frames[k].type = "ignore"
               /\ frames'[k]._new_bottom = frames[k]._new_bottom
               /\ frames'[k].before = frames[k].before /\ frames'[k].cleared = frames[k].cleared
    BY <2>2 DEF FewerFrames
  <2> QED
    BY <2>1, <2>2, <1>3 DEF TopsPart, Parts
<1>7. TopsNest'
  BY <1>3 DEF TopsNest, FewerFrames
<1> QED
  BY <1>5, <1>6, <1>7

----------------------------------------------------------------------------
LEMMA PushTypes ==
  ASSUME ErrorTypes
  PROVE  Errors!Pushed \in [1 .. Length -> Nat] /\ Errors!Height \in 0 .. Length /\ made + 1 \in Nat
         /\ \A i \in 1 .. _current : Errors!Pushed[i] = _array[i]
<1>1. _current \in 0 .. Length /\ Length \in Nat /\ made \in Nat /\ _array \in [1 .. Length -> Nat]
  BY LengthAssumption DEF ErrorTypes, Errors!ConstantsOK
<1>2. CASE _current < Length
  <2>1. Errors!Pushed = [_array EXCEPT ![_current + 1] = made + 1] /\ Errors!Height = _current + 1
    BY <1>2 DEF Errors!Pushed, Errors!Height
  <2>2. \A i \in 1 .. _current : i # _current + 1 /\ i \in 1 .. Length
    BY <1>1
  <2> QED
    BY <1>1, <1>2, <2>1, <2>2
<1>3. CASE ~ (_current < Length)
  BY <1>1, <1>3 DEF Errors!Pushed, Errors!Height
<1> QED
  BY <1>2, <1>3

LEMMA CallKeeps ==
  ASSUME ErrorsInv, NEW type \in Errors!CheckType \cup {"plain"}, Errors!Call(type)
  PROVE  ErrorsInv'
<1> USE DEF ErrorsInv
<1> DEFINE n == Len(frames)
           f == IF type = "ignore" THEN Errors!Frame(type, _current, made) ELSE Errors!Frame(type, 0, 0)
<1>1. /\ frames' = Append(frames, f)
      /\ UNCHANGED <<_array, _current, made, kept, revived>>
  BY DEF Errors!Call, Errors!object
<1>2. _current \in 0 .. Length /\ Length \in Nat /\ made \in Nat /\ _current \in Nat
  BY LengthAssumption DEF ErrorTypes, Errors!ConstantsOK
<1>3. f \in FrameTypes
  BY <1>2 DEF Errors!Frame, FrameTypes, Errors!CheckType
<1>4. f.type = "ignore" => f._new_bottom = _current /\ f.before = made /\ f.cleared = FALSE
  BY DEF Errors!Frame
<1> HIDE DEF f, n
<1>5. /\ frames' \in Seq(FrameTypes) /\ n \in Nat
      /\ DOMAIN frames = 1 .. n /\ DOMAIN frames' = 1 .. n + 1
      /\ frames'[n + 1] = f /\ \A k \in 1 .. n : frames'[k] = frames[k]
  <2>1. frames \in Seq(FrameTypes)
    BY DEF ErrorTypes
  <2>2. frames' \in Seq(FrameTypes) /\ Len(frames') = n + 1
        /\ frames'[n + 1] = f /\ \A k \in 1 .. n : frames'[k] = frames[k]
    BY <2>1, <1>1, <1>3, AppendProperties DEF n
  <2> QED
    BY <2>1, <2>2, FramesAre DEF n
<1>6. ErrorTypes' /\ KeptIs'
  BY <1>1, <1>5 DEF ErrorTypes, KeptIs
<1>7. TopsPart'
  <2> SUFFICES ASSUME NEW k \in 1 .. n + 1, frames'[k].type = "ignore"
               PROVE  /\ frames'[k].before <= made
                      /\ ~ revived /\ frames'[k].cleared => \A i \in 1 .. _current : kept[i] > frames'[k].before
                      /\ ~ revived /\ ~ frames'[k].cleared => Parts(frames'[k])
    BY <1>1, <1>5 DEF TopsPart, Parts
  <2>1. CASE k \in 1 .. n
    BY <2>1, <1>5 DEF TopsPart
  <2>2. CASE k = n + 1
    <3>1. f.type = "ignore" /\ frames'[k] = f
      BY <2>2, <1>5
    <3>2. ~ revived => \A i \in 1 .. _current : i <= _current /\ kept[i] <= made
      BY <1>2 DEF KeptIs
    <3> QED
      BY <3>1, <3>2, <1>2, <1>4 DEF Parts
  <2> QED
    BY <2>1, <2>2, <1>5
<1>8. TopsNest'
  <2> SUFFICES ASSUME ~ revived, NEW k \in 1 .. n + 1, NEW l \in 1 .. n + 1, k < l,
                      frames'[k].type = "ignore", frames'[l].type = "ignore"
               PROVE  /\ frames'[l].cleared => frames'[k].cleared
                      /\ ~ frames'[k].cleared => frames'[k]._new_bottom <= frames'[l]._new_bottom
    BY <1>1, <1>5 DEF TopsNest
  <2>1. k \in 1 .. n /\ frames'[k] = frames[k]
    BY <1>5
  <2>2. CASE l \in 1 .. n
    BY <2>1, <2>2, <1>5 DEF TopsNest
  <2>3. CASE l = n + 1
    <3>1. ~ frames[k].cleared => frames[k]._new_bottom <= _current
      BY <2>1, <1>5 DEF TopsPart, Parts
    <3>2. frames'[l] = f
      BY <2>3, <1>5
    <3> QED
      BY <2>1, <3>1, <3>2, <1>4
  <2> QED
    BY <2>2, <2>3, <1>5
<1> QED
  BY <1>6, <1>7, <1>8

\* A function ends, and the Tops that are left are as they were.
LEMMA FramesLeft ==
  ASSUME ErrorsInv, ErrorTypes', FewerFrames(frames'), UNCHANGED <<_array, _current, made, kept, revived>>
  PROVE  ErrorsInv'
<1> USE DEF ErrorsInv
<1>1. KeptIs'
  BY DEF KeptIs
<1>2. TopsPart'
  BY DEF TopsPart, Parts, FewerFrames
<1>3. TopsNest'
  BY DEF TopsNest, FewerFrames
<1> QED
  BY <1>1, <1>2, <1>3

LEMMA Ends ==
  ASSUME ErrorTypes, Len(frames) > 1, NEW s,
         s = Errors!Below \/ s = [Errors!Below EXCEPT ![Len(Errors!Below)] = Errors!After(Errors!Top.type, @)]
  PROVE  s \in Seq(FrameTypes) /\ FewerFrames(s)
<1>1. Len(frames) \in Nat /\ DOMAIN frames = 1 .. Len(frames)
  BY FramesAre DEF ErrorTypes
<1>2. 1 .. Len(frames) - 1 \subseteq DOMAIN frames
  BY <1>1
<1>3. /\ s \in Seq(FrameTypes) /\ DOMAIN s = 1 .. Len(frames) - 1
      /\ \A k \in 1 .. Len(frames) - 1 :
              /\ s[k].type = frames[k].type /\ s[k]._new_bottom = frames[k]._new_bottom
              /\ s[k].before = frames[k].before /\ s[k].cleared = frames[k].cleared
  BY BelowFrames
<1> QED
  BY <1>2, <1>3 DEF FewerFrames

\* The same where the stack is cleared as well.
LEMMA EndsCleared ==
  ASSUME ErrorsInv, NEW s \in Seq(FrameTypes), FewerFrames(s),
         frames' = Errors!Cleared(s), kept' = <<>>, revived' \in BOOLEAN, ~ revived' => _current' = 0,
         _array' \in [1 .. Length -> Nat], _current' \in 0 .. Length, made' \in {made, made + 1}
  PROVE  ErrorsInv'
<1>1. /\ frames' \in Seq(FrameTypes) /\ DOMAIN frames' = DOMAIN s
      /\ \A k \in DOMAIN s :
           /\ frames'[k].type = s[k].type /\ frames'[k].before = s[k].before
           /\ s[k].type = "ignore" => frames'[k].cleared
  BY ClearedFrames
<1>2. made \in Nat /\ made' \in Nat
  BY DEF ErrorsInv, ErrorTypes
<1>3. ErrorTypes'
  BY <1>1, <1>2 DEF ErrorTypes
<1>4. ASSUME NEW k \in DOMAIN frames', frames'[k].type = "ignore"
      PROVE  frames'[k].cleared /\ frames'[k].before <= made'
  <2>1. k \in DOMAIN frames /\ frames[k].type = "ignore" /\ frames'[k].before = frames[k].before
        /\ frames'[k].cleared
    BY <1>1, <1>4 DEF FewerFrames
  <2>2. frames[k].before <= made /\ frames[k].before \in Nat
    <3>1. frames[k] \in FrameTypes
      BY <2>1, FramesAre DEF ErrorsInv, ErrorTypes
    <3> QED
      BY <2>1, <3>1 DEF ErrorsInv, TopsPart, FrameTypes
  <2> QED
    BY <2>1, <2>2, <1>2
<1> QED
  BY <1>3, <1>4, StackCleared

LEMMA FailKeeps == ErrorsInv /\ Errors!Fail => ErrorsInv'
<1> SUFFICES ASSUME ErrorsInv, Errors!Fail PROVE ErrorsInv'
  OBVIOUS
<1>1. /\ Len(frames) > 1 /\ _array' = Errors!Pushed /\ _current' = Errors!Height /\ made' = made + 1 /\ kept' = Errors!PushKept
      /\ frames' = [Errors!Below EXCEPT ![Len(Errors!Below)] = Errors!After(Errors!Top.type, @)] /\ revived' = revived
  BY DEF Errors!Fail, Errors!ReturnsTo
<1>2. frames' \in Seq(FrameTypes) /\ FewerFrames(frames')
  BY <1>1, Ends DEF ErrorsInv
<1>3. ErrorTypes'
  BY <1>1, <1>2, PushTypes DEF ErrorsInv, ErrorTypes
<1> QED
  BY <1>1, <1>2, <1>3, Pushing

LEMMA FailPrintsKeeps == ErrorsInv /\ Errors!FailPrints => ErrorsInv'
<1> SUFFICES ASSUME ErrorsInv, Errors!FailPrints PROVE ErrorsInv'
  OBVIOUS
<1> DEFINE s == [Errors!Below EXCEPT ![Len(Errors!Below)] = Errors!After(Errors!Top.type, @)]
<1>1. /\ Len(frames) > 1 /\ _array' = Errors!Pushed /\ _current' = 0 /\ made' = made + 1 /\ kept' = <<>>
      /\ frames' = Errors!Cleared(s) /\ revived' = FALSE
  BY DEF Errors!FailPrints, Errors!ReturnsTo
<1>2. s \in Seq(FrameTypes) /\ FewerFrames(s)
  BY <1>1, Ends DEF ErrorsInv
<1>3. _array' \in [1 .. Length -> Nat] /\ _current' \in 0 .. Length
  BY <1>1, PushTypes, LengthAssumption DEF ErrorsInv, Errors!ConstantsOK
<1> HIDE DEF s
<1> QED
  BY <1>1, <1>2, <1>3, EndsCleared

LEMMA FailIgnoredKeeps == ErrorsInv /\ Errors!FailIgnored => ErrorsInv'
<1> SUFFICES ASSUME ErrorsInv, Errors!FailIgnored PROVE ErrorsInv'
  OBVIOUS
<1>1. /\ Len(frames) > 1 /\ Errors!Top.type = "ignore" /\ _array' = Errors!Pushed /\ made' = made + 1
      /\ _current' = Errors!Top._new_bottom
      /\ revived' = (revived \/ Errors!Revives(Errors!Top.cleared \/ "ignore" \in _will_print))
      /\ kept' = IF "ignore" \in _will_print THEN <<>> ELSE Errors!WithoutIgnored(Errors!PushKept)
      /\ frames' = IF "ignore" \in _will_print THEN Errors!Cleared(Errors!Below) ELSE Errors!Below
  BY DEF Errors!FailIgnored, Errors!ReturnsTo, Errors!pop_stack
<1>2. Errors!Below \in Seq(FrameTypes) /\ FewerFrames(Errors!Below)
  BY <1>1, Ends DEF ErrorsInv
<1>3. _array' \in [1 .. Length -> Nat] /\ made' \in Nat /\ \A i \in 1 .. _current : _array'[i] = _array[i]
  BY <1>1, PushTypes DEF ErrorsInv
<1>4. _current' \in 0 .. Length
  BY <1>1, InnermostFrame DEF ErrorsInv, FrameTypes
<1>5. revived' \in BOOLEAN
  BY <1>1
<1>6. CASE "ignore" \in _will_print
  <2>1. ~ revived' => _current' = 0
    <3>1. Errors!Top._new_bottom \in Nat
      BY <1>1, <1>4, LengthAssumption DEF Errors!ConstantsOK
    <3>2. ~ revived' => ~ (Errors!Top._new_bottom > 0)
      BY <1>1, <1>6 DEF Errors!Revives
    <3> QED
      BY <1>1, <3>1, <3>2
  <2> QED
    BY <1>1, <1>2, <1>3, <1>4, <1>5, <1>6, <2>1, EndsCleared
<1>7. CASE "ignore" \notin _will_print
  <2>1. frames' = Errors!Below /\ kept' = Errors!WithoutIgnored(Errors!PushKept) /\ (Errors!PushKept = kept \/ Errors!PushKept = Append(kept, made + 1))
    BY <1>1, <1>7 DEF Errors!PushKept
  <2>2. revived' = (revived \/ Errors!Revives(Errors!Top.cleared))
    <3>1. Errors!Top.cleared \in BOOLEAN
      BY <1>1, InnermostFrame DEF ErrorsInv, FrameTypes
    <3>2. (Errors!Top.cleared \/ "ignore" \in _will_print) = Errors!Top.cleared
      BY <1>7, <3>1
    <3> QED
      BY <1>1, <3>2
  <2>3. ErrorTypes'
    BY <1>2, <1>3, <1>4, <1>5, <2>1 DEF ErrorTypes
  <2> QED
    BY <1>1, <1>3, <2>1, <2>2, <2>3, TopEnds
<1> QED
  BY <1>6, <1>7

LEMMA ReturnKeeps == ErrorsInv /\ Errors!Return => ErrorsInv'
<1> SUFFICES ASSUME ErrorsInv, Errors!Return PROVE ErrorsInv'
  OBVIOUS
<1>1. Len(frames) > 1 /\ frames' = Errors!Below /\ UNCHANGED <<_array, made>>
  BY DEF Errors!Return
<1>2. frames' \in Seq(FrameTypes) /\ FewerFrames(frames')
  BY <1>1, Ends DEF ErrorsInv
<1>3. CASE Errors!Top.type = "ignore"
  <2>1. /\ _current' = Errors!Top._new_bottom /\ kept' = Errors!WithoutIgnored(kept)
        /\ revived' = (revived \/ Errors!Revives(Errors!Top.cleared))
    BY <1>3 DEF Errors!Return, Errors!pop_stack
  <2>2. _current' \in 0 .. Length
    BY <1>1, <2>1, InnermostFrame DEF ErrorsInv, FrameTypes
  <2>3. ErrorTypes'
    BY <1>1, <1>2, <2>1, <2>2 DEF ErrorsInv, ErrorTypes
  <2> QED
    BY <1>1, <1>3, <2>1, <2>3, TopEnds
<1>4. CASE Errors!Top.type # "ignore"
  <2>1. UNCHANGED <<_current, kept, revived>>
    BY <1>4 DEF Errors!Return
  <2>2. ErrorTypes'
    BY <1>1, <1>2, <2>1 DEF ErrorsInv, ErrorTypes
  <2> QED
    BY <1>1, <1>2, <2>1, <2>2, FramesLeft
<1> QED
  BY <1>3, <1>4

LEMMA ExitKeeps == ErrorsInv /\ Errors!Exit => ErrorsInv'
<1> SUFFICES ASSUME ErrorsInv, Errors!Exit PROVE ErrorsInv'
  OBVIOUS
<1>1. /\ _array' = Errors!Pushed /\ made' = made + 1 /\ frames' = <<>>
      /\ \/ _current' = 0 /\ kept' = <<>> /\ revived' = FALSE
         \/ _current' = Errors!Height /\ kept' = Errors!PushKept /\ revived' = revived
  BY DEF Errors!Exit
<1>2. frames' \in Seq(FrameTypes) /\ DOMAIN frames' = {}
  BY <1>1
<1>3. ErrorTypes'
  <2>1. _array' \in [1 .. Length -> Nat] /\ made' \in Nat /\ revived' \in BOOLEAN
    BY <1>1, PushTypes DEF ErrorsInv, ErrorTypes
  <2>2. _current' \in 0 .. Length
    BY <1>1, PushTypes, LengthAssumption DEF ErrorsInv, Errors!ConstantsOK
  <2> QED
    BY <1>2, <2>1, <2>2 DEF ErrorTypes
<1>4. FewerFrames(frames')
  BY <1>2 DEF FewerFrames
<1>5. CASE _current' = 0 /\ kept' = <<>> /\ revived' = FALSE
  BY <1>2, <1>3, <1>5, StackCleared
<1>6. CASE _current' = Errors!Height /\ kept' = Errors!PushKept /\ revived' = revived
  BY <1>1, <1>3, <1>4, <1>6, Pushing
<1> QED
  BY <1>1, <1>5, <1>6

LEMMA ErrorsKeep == ErrorsInv /\ [Errors!Next]_Errors!vars => ErrorsInv'
<1> SUFFICES ASSUME ErrorsInv, [Errors!Next]_Errors!vars PROVE ErrorsInv'
  OBVIOUS
<1>1. CASE \E type \in Errors!CheckType \cup {"plain"} : Errors!Call(type)
  BY <1>1, CallKeeps
<1>2. CASE Errors!Return
  BY <1>2, ReturnKeeps
<1>3. CASE Errors!Fail
  BY <1>3, FailKeeps
<1>4. CASE Errors!FailPrints
  BY <1>4, FailPrintsKeeps
<1>5. CASE Errors!FailIgnored
  BY <1>5, FailIgnoredKeeps
<1>6. CASE Errors!FailPlain
  <2>1. Len(frames) > 1 /\ frames' = Errors!Below /\ UNCHANGED <<_array, _current, made, kept, revived>>
    BY <1>6 DEF Errors!FailPlain, Errors!ReturnsTo, Errors!object
  <2>2. frames' \in Seq(FrameTypes) /\ FewerFrames(frames')
    BY <2>1, Ends DEF ErrorsInv
  <2>3. ErrorTypes'
    BY <2>1, <2>2 DEF ErrorsInv, ErrorTypes
  <2> QED
    BY <2>1, <2>2, <2>3, FramesLeft
<1>7. CASE Errors!Exit
  BY <1>7, ExitKeeps
<1>8. CASE Errors!Clear
  <2>1. /\ frames' = Errors!Cleared(frames) /\ kept' = <<>> /\ _current' = 0 /\ revived' = FALSE
        /\ UNCHANGED <<_array, made>>
    BY <1>8 DEF Errors!Clear
  <2>2. frames \in Seq(FrameTypes) /\ FewerFrames(frames) /\ _array' \in [1 .. Length -> Nat]
        /\ _current' \in 0 .. Length
    BY <2>1, LengthAssumption DEF ErrorsInv, ErrorTypes, FewerFrames, Errors!ConstantsOK
  <2> QED
    BY <2>1, <2>2, EndsCleared
<1>9. CASE Errors!PrintControl \/ UNCHANGED Errors!vars
  <2>1. UNCHANGED <<_array, _current, frames, made, kept, revived>>
    BY <1>9 DEF Errors!PrintControl, Errors!vars, Errors!object
  <2>2. ErrorTypes' /\ FewerFrames(frames')
    BY <2>1 DEF ErrorsInv, ErrorTypes, FewerFrames
  <2> QED
    BY <2>1, <2>2, FramesLeft
<1> QED
  BY <1>1, <1>2, <1>3, <1>4, <1>5, <1>6, <1>7, <1>8, <1>9 DEF Errors!Next

LEMMA StackIsKept == ErrorsInv => Errors!ErrorsAreKept
<1> SUFFICES ASSUME ErrorsInv, ~ revived PROVE Errors!Stack = kept
  BY DEF Errors!ErrorsAreKept
<1>1. /\ _array \in [1 .. Length -> Nat] /\ _current \in 0 .. Length /\ Length \in Nat
      /\ kept \in Seq(Nat) /\ Len(kept) = _current /\ \A i \in 1 .. _current : kept[i] = _array[i]
  BY LengthAssumption DEF ErrorsInv, ErrorTypes, KeptIs, Errors!ConstantsOK
<1>2. _array \in Seq(Nat) /\ Len(_array) = Length
  BY <1>1, OfItsLength
<1>3. _current <= Length /\ _current \in Int
  BY <1>1
<1>4. Errors!Stack \in Seq(Nat) /\ Len(Errors!Stack) = _current /\ \A i \in 1 .. _current : Errors!Stack[i] = _array[i]
  <2>1. Len(Errors!Stack) = IF 1 <= _current THEN _current - 1 + 1 ELSE 0
    BY <1>1, <1>2, <1>3, SubSeqProperties DEF Errors!Stack
  <2> QED
    BY <1>1, <1>2, <1>3, <2>1, SubSeqProperties DEF Errors!Stack
<1> QED
  BY <1>1, <1>4, SeqEqual

\* An IgnoreError takes back exactly what was recorded inside it, however deep the calls and however full the
\* stack (error_stack.cpp:79-147).
THEOREM StackOfAnyLength == Errors!Spec => []ErrorsAreKept
<1>1. Errors!Spec => []ErrorsInv
  BY InitErrors, ErrorsKeep, PTL DEF Errors!Spec
<1>2. ErrorsInv => ErrorsAreKept
  BY StackIsKept DEF ErrorsAreKept
<1> QED
  BY <1>1, <1>2, PTL

----------------------------------------------------------------------------
(* In the behaviours of the run *)

\* Each step of the run is one of a part, or leaves its variables alone.
LEMMA StepsOfTheParts ==
  [MCNext]_<<running, vars, mounted, reader, host>> =>
    /\ [Modules!Next]_Modules!vars /\ [Dir!Next]_Dir!vars /\ [Errors!Next]_Errors!vars
<1> SUFFICES ASSUME [MCNext]_<<running, vars, mounted, reader, host>>
             PROVE  /\ [Modules!Next]_Modules!vars /\ [Dir!Next]_Dir!vars /\ [Errors!Next]_Errors!vars
  OBVIOUS
<1>1. [Modules!Next]_Modules!vars
  BY DEF MCNext, Record, Mounted, Reads, Fails, Registers, Writes, host, modules, Modules!vars, Modules!register
<1>2. [Dir!Next]_Dir!vars
  BY DEF MCNext, Record, Mounted, Reads, Fails, Registers, Writes, mounted, Dir!vars
<1>3. [Errors!Next]_Errors!vars
  BY DEF MCNext, Record, Mounted, Reads, Fails, Registers, Writes, host, errors, Errors!vars, Errors!object
<1> QED
  BY <1>1, <1>2, <1>3

\* The modules are initialized in order in every behaviour of the run (module.cpp:58-133).
THEOREM RunInitializesInOrder == MCSpec => []DependenciesFirst
<1>1. MCInit => AnyTable!Init
  BY TablesOfTheRun DEF MCInit, Modules!Init, AnyTable!Init
<1> QED
  BY <1>1, StepsOfTheParts, AnyTableIsKept, PTL DEF MCSpec

\* The commands give their handles back in every behaviour of the run (file_system/commands.c:68-93).
THEOREM RunGivesHandlesBack == MCSpec => []HandlesComeBack
<1>1. MCInit => VolumeInv
  BY InitVolume DEF MCInit, Dir!Init, NothingOpen
<1>2. MCSpec => []VolumeInv
  BY <1>1, StepsOfTheParts, VolumeKeeps, PTL DEF MCSpec
<1>3. VolumeInv => HandlesComeBack
  BY HandlesFree DEF HandlesComeBack
<1> QED
  BY <1>2, <1>3, PTL

\* The error stack holds what it should in every behaviour of the run (error_stack.cpp:79-147).
THEOREM RunKeepsErrors == MCSpec => []ErrorsAreKept
<1>1. MCSpec => Errors!Spec
  BY StepsOfTheParts, PTL DEF MCSpec, MCInit, Errors!Spec
<1> QED
  BY <1>1, StackOfAnyLength, PTL

\* ls, cd and the commands on files see one directory in every behaviour of the run (file_system.c:591-671).
THEOREM RunReadsDirectories == MCSpec => []DirectoriesAgree
<1>1. MCInit => VolumeInv
  BY InitVolume DEF MCInit, Dir!Init, NothingOpen
<1>2. MCInit => DirectoriesInv
  BY DisksAssumption DEF MCInit, Dir!Init, Dir!DisksOK, Dir!NotMounted, Dir!Idle, DirectoriesInv, DevicesOK, VolumeOK
<1>3. DirectoriesInv => DirectoriesAgree
  BY WalkAgrees DEF DirectoriesAgree
<1> QED
  BY <1>1, <1>2, <1>3, StepsOfTheParts, VolumeKeeps, DirectoriesKeep, PTL DEF MCSpec
=============================================================================
