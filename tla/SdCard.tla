------------------------------- MODULE SdCard -------------------------------
(***************************************************************************)
(* libs/sdcard/sdcard.c: the driver of the SD card, one step per command or *)
(* per turn of a loop that waits for the card.                              *)
(*                                                                         *)
(* The card is external.  It may leave a command unanswered, refuse a block *)
(* or take longer over it than the driver waits.  While it writes a block   *)
(* it hears no command and holds its output low, which the driver cannot    *)
(* tell from an answer without error bits.                                  *)
(***************************************************************************)
EXTENDS Integers

CONSTANTS
  Sectors,        \* blocks on the card
  BytesPerBlock,  \* BYTES_PER_BLOCK
  Data,           \* what a block may hold
  None,
  Kind,           \* the cards on the market: a subset of AllKinds
  ReadTimeout,    \* turns of the loop in sd_read_base
  WriteTimeout,   \* turns of the loop in sd_block_write
  InitTimeout     \* turns of the loop in sd_init: response_timeout

AllKinds == {"mmc", "v1", "v2", "hc"}
Sector == 0 .. Sectors - 1

\* The calls of the driver that take more than one step.
ReadCall  == [op : {"read"}, sector : Sector]
WriteCall == [op : {"write"}, sector : Sector, data : Data]
Call == [op : {"init", "csd"}] \union ReadCall \union WriteCall

ConstantsOK ==
  /\ Sectors \in Nat
  /\ BytesPerBlock \in Nat /\ BytesPerBlock > 0
  /\ None \notin Sector /\ None # "csd" /\ None \notin Call

VARIABLES
  sd,    \* _sdcard[0]
  pc,    \* where the driver is: "ready" between calls
  call,  \* the call in progress, or None
  turn,  \* i of the loop the driver is in
  reply, \* what the last read or write returned
  card   \* the card

vars == <<sd, pc, call, turn, reply, card>>

----------------------------------------------------------------------------
(* The card *)

NewCard(kind, volts, memory) ==
  [kind |-> kind, volts |-> volts, memory |-> memory,
   power |-> "cold",     \* or "idle", "ready"
   hcs |-> FALSE,        \* told that the host knows high capacity
   transfer |-> None,    \* the sector it is about to send or to receive
   writing |-> None]     \* the block it is busy with

Busy == card.writing # None

Idle == IF card.power = "idle" THEN {"idle"} ELSE {}

\* An argument as a sector: high capacity cards count blocks, others bytes.
Addressed(argument) ==
  IF card.kind = "hc" THEN argument ELSE argument \div BytesPerBlock

\* A step of the card's initialisation, which may or may not end it.
Negotiate(hcs) ==
  LET told == card.hcs \/ hcs
      able == card.kind = "hc" => told
  IN { [card EXCEPT !.hcs = told, !.power = p] :
         p \in {card.power} \union (IF able THEN {"ready"} ELSE {}) }

Answer(flags, c) == [ok |-> TRUE, flags |-> flags, ocr |-> {}, card |-> c]

\* What a card that hears a command answers, and becomes.
Executed(command, argument) ==
  CASE command = "cmd_0" ->
         { Answer({"idle"}, [card EXCEPT !.power = "idle", !.hcs = FALSE]) }
    [] command = "cmd_8" ->
         { Answer(Idle \union
                  (IF card.kind \in {"v2", "hc"} THEN {} ELSE {"illegal"}),
                  card) }
    [] command = "cmd_58" ->
         { [Answer(Idle, card) EXCEPT !.ocr =
              (IF card.volts THEN {"volts"} ELSE {}) \union
              (IF card.power = "ready" /\ card.kind = "hc"
               THEN {"ccs"} ELSE {})] }
    [] command = "acmd_41" ->
         IF card.kind = "mmc"
         THEN { Answer(Idle \union {"illegal"}, card) }
         ELSE { Answer(IF c.power = "idle" THEN {"idle"} ELSE {}, c) :
                  c \in Negotiate(argument # 0) }
    [] command = "cmd_1" ->
         { Answer(IF c.power = "idle" THEN {"idle"} ELSE {}, c) :
             c \in Negotiate(FALSE) }
    [] command = "acmd_42" -> { Answer(Idle, card) }
    [] command = "cmd_9" -> { Answer(Idle, [card EXCEPT !.transfer = "csd"]) }
    [] command \in {"cmd_17", "cmd_24"} ->
         IF card.power = "ready" /\ Addressed(argument) \in Sector
         THEN { Answer({}, [card EXCEPT !.transfer = Addressed(argument)]) }
         ELSE { Answer(Idle \union {"parameter"}, card) }

\* No answer: bit 7 of the response stays set until the driver gives up.
Silent == [ok |-> FALSE, flags |-> {}, ocr |-> {}, card |-> card]
\* The output held low: bit 7 is clear, and so is every other bit.
Held == Answer({}, card)

\* sd_command: only bit 7 of the answer is looked at.
sd_command(command, argument) ==
  {Silent} \union
  (IF Busy THEN {Held}
   ELSE IF card.power = "cold" /\ command # "cmd_0" THEN {}
   ELSE Executed(command, argument))

\* The block is in the card's memory at last.
Program ==
  /\ Busy
  /\ card' = [card EXCEPT
       !.memory[card.writing.sector] = card.writing.data, !.writing = None]
  /\ UNCHANGED <<sd, pc, call, turn, reply>>

----------------------------------------------------------------------------
(* The driver *)

\* sd_disable: a card that is not selected gives up its transfer.
Deselected(c) == [c EXCEPT !.transfer = None]

Return(result) ==
  /\ pc' = "ready"
  /\ call' = None
  /\ turn' = 0
  /\ reply' = IF call # None /\ call.op \in {"read", "write"}
              THEN result ELSE None

Failure(c) ==
  /\ Return([ok |-> FALSE])
  /\ card' = Deselected(c)

\* The next step of a call after an answer; without one the call fails.
Proceed(answer, step, driver) ==
  IF answer.ok
  THEN /\ pc' = step
       /\ card' = answer.card
       /\ sd' = driver
       /\ turn' = 0
       /\ UNCHANGED <<call, reply>>
  ELSE /\ Failure(card)
       /\ UNCHANGED sd

Begin(op, step) ==
  /\ pc = "ready"
  /\ pc' = step
  /\ call' = op
  /\ reply' = None
  /\ UNCHANGED <<turn, card>>

sdcard_initializer ==
  [initialized |-> FALSE, compatible |-> FALSE, high_capacity |-> FALSE,
   idle |-> TRUE, version |-> "unknown"]

\* _sdcard before the first sd_init: static storage.
Zeroed == [sdcard_initializer EXCEPT !.idle = FALSE]

sd_init ==
  /\ ~sd.initialized
  /\ Begin([op |-> "init"], "cmd_0")
  /\ sd' = sdcard_initializer

\* Line 328.
sd_shutdown ==
  /\ pc = "ready"
  /\ sd' = [sd EXCEPT !.initialized = FALSE]
  /\ UNCHANGED <<pc, call, turn, reply, card>>

GoIdle ==
  /\ pc = "cmd_0"
  /\ \E a \in sd_command("cmd_0", 0) : Proceed(a, "cmd_8", sd)

IfCondition ==
  /\ pc = "cmd_8"
  /\ \E a \in sd_command("cmd_8", 0) :
       Proceed(a, "ocr", [sd EXCEPT !.version =
         IF "illegal" \in a.flags THEN "v1xx" ELSE "v200"])

\* CheckB(_sdcard[card].compatible): a card still busy fails here, as its
\* voltage bits read as zero.
Voltage ==
  /\ pc = "ocr"
  /\ \E a \in sd_command("cmd_58", 0) :
       IF a.ok /\ "volts" \notin a.ocr
       THEN /\ Failure(a.card)
            /\ sd' = [sd EXCEPT !.compatible = FALSE]
       ELSE Proceed(a, "acmd_41", [sd EXCEPT !.compatible = TRUE])

\* cmd_55 and acmd_41 with ACMD41_HCS.
Capability ==
  /\ pc = "acmd_41"
  /\ \E a \in sd_command("acmd_41", 1) :
       Proceed(a, "poll", [sd EXCEPT !.version =
         IF "illegal" \in a.flags THEN "mmc" ELSE sd.version])

\* One turn of the loop: cmd_1, or cmd_55 and acmd_41, then 10 ms of sleep.
Poll ==
  /\ pc = "poll"
  /\ \E a \in (IF sd.version = "mmc" THEN sd_command("cmd_1", 0)
                                     ELSE sd_command("acmd_41", 0)) :
       CASE a.ok /\ "idle" \notin a.flags ->
              Proceed(a, "capacity", [sd EXCEPT !.idle = FALSE])
         [] a.ok /\ "idle" \in a.flags /\ turn + 1 < InitTimeout ->
              /\ turn' = turn + 1
              /\ card' = a.card
              /\ UNCHANGED <<sd, pc, call, reply>>
         [] OTHER -> Failure(a.card) /\ UNCHANGED sd

\* Wrong: a card is high capacity when it is of version 2.
HighCapacity_ByVersion(answer) == sd.version = "v200"
HighCapacity(answer) == "ccs" \in answer.ocr

Capacity ==
  /\ pc = "capacity"
  /\ \E a \in sd_command("cmd_58", 0) :
       Proceed(a, "acmd_42", [sd EXCEPT !.high_capacity = HighCapacity(a)])

\* cmd_55 and acmd_42, the last of sd_init.
CardDetect ==
  /\ pc = "acmd_42"
  /\ \E a \in sd_command("acmd_42", 0) :
       IF a.ok
       THEN /\ sd' = [sd EXCEPT !.initialized = TRUE]
            /\ Return([ok |-> TRUE])
            /\ card' = a.card
       ELSE Failure(card) /\ UNCHANGED sd

\* Both calls begin with the address in the card's unit and the checks.
Argument(address) ==
  IF sd.high_capacity THEN address ELSE address * BytesPerBlock

sd_block_read(address) ==
  Begin([op |-> "read", sector |-> address], "cmd_17") /\ UNCHANGED sd

sd_block_write(address, data) ==
  Begin([op |-> "write", sector |-> address, data |-> data], "cmd_24")
    /\ UNCHANGED sd

\* sd_read_cid is the same with cmd_10.
sd_read_csd == Begin([op |-> "csd"], "cmd_9") /\ UNCHANGED sd

\* The two checks of sd_block_read and sd_block_write.
Refuse ==
  /\ pc \in {"cmd_17", "cmd_24"}
  /\ ~sd.initialized
  /\ Failure(card)
  /\ UNCHANGED sd

ReadCommand ==
  /\ \/ pc = "cmd_17" /\ sd.initialized
     \/ pc = "cmd_9"
  /\ \E a \in sd_command(pc, IF pc = "cmd_9" THEN 0 ELSE Argument(call.sector)) :
       Proceed(a, "token", sd)

\* Does the card send 0xfe?
Token == card.transfer # None

\* A turn of the loop of sd_read_base that sees the token, and the data.
ReadData ==
  /\ pc = "token" /\ turn < ReadTimeout
  /\ Token
  /\ Return([ok |-> TRUE, data |->
       IF card.transfer \in Sector THEN card.memory[card.transfer] ELSE None])
  /\ card' = Deselected(card)
  /\ UNCHANGED sd

\* A turn that sees something else: the card may be slow, or send an error.
ReadWait ==
  /\ pc = "token"
  /\ turn < ReadTimeout
  /\ turn' = turn + 1
  /\ UNCHANGED <<sd, pc, call, reply, card>>

ReadGiveUp ==
  /\ pc = "token"
  /\ turn = ReadTimeout
  /\ Failure(card)
  /\ UNCHANGED sd

WriteCommand ==
  /\ pc = "cmd_24" /\ sd.initialized
  /\ \E a \in sd_command("cmd_24", Argument(call.sector)) :
       Proceed(a, "data", sd)

\* The block goes out, and the data response is one of the card's.
WriteData ==
  /\ pc = "data"
  /\ \/ /\ card.transfer # None
        /\ card' = [card EXCEPT !.transfer = None,
             !.writing = [op |-> "write", sector |-> card.transfer,
                          data |-> call.data]]
        /\ pc' = "settle"
        /\ UNCHANGED <<call, turn, reply>>
     \/ Failure(card)
  /\ UNCHANGED sd

\* A turn of the loop of sd_block_write: is the byte 0xff?
Settled ==
  /\ pc = "settle" /\ turn < WriteTimeout
  /\ ~Busy
  /\ Return([ok |-> TRUE])
  /\ card' = Deselected(card)
  /\ UNCHANGED sd

\* Wrong: the wait has no end.
SettleWait_NoTimeout ==
  /\ pc = "settle"
  /\ Busy
  /\ UNCHANGED vars

\* A busy turn; after the last one the block is given up, even if the card
\* finishes with it just then.
SettleWait ==
  /\ pc = "settle"
  /\ \/ /\ turn < WriteTimeout /\ Busy
        /\ turn' = turn + 1
        /\ UNCHANGED <<pc, call, reply, card>>
     \/ /\ turn = WriteTimeout
        /\ Failure(card)
  /\ UNCHANGED sd

\* The CPU restarts in the middle of anything; the card keeps its power.
Reset ==
  /\ sd' = Zeroed
  /\ pc' = "ready"
  /\ call' = None
  /\ turn' = 0
  /\ reply' = None
  /\ card' = Deselected(card)

Step ==
  \/ GoIdle \/ IfCondition \/ Voltage \/ Capability \/ Poll \/ Capacity
  \/ CardDetect
  \/ Refuse \/ ReadCommand \/ ReadData \/ ReadWait \/ ReadGiveUp
  \/ WriteCommand \/ WriteData \/ Settled \/ SettleWait

Init ==
  /\ sd = Zeroed
  /\ pc = "ready"
  /\ call = None
  /\ turn = 0
  /\ reply = None
  /\ \E k \in Kind, volts \in BOOLEAN, m \in [Sector -> Data] :
       card = NewCard(k, volts, m)

Next ==
  \/ sd_init \/ sd_shutdown \/ sd_read_csd
  \/ \E a \in Sector : sd_block_read(a) \/ \E d \in Data : sd_block_write(a, d)
  \/ Step
  \/ Program
  \/ Reset

\* A call that has begun goes on: its loops count their turns.
Spec == Init /\ [][Next]_vars /\ WF_vars(Step)

----------------------------------------------------------------------------
(* Properties *)

\* The driver and the card are a BlockDevice: a success means that the block
\* is on the card, or comes from it, even when the card was still busy with a
\* block given up, or the CPU was reset in the middle of a call, and whatever
\* unit the card counts in.
Device == INSTANCE BlockDevice WITH
  memory  <- card.memory,
  pending <- card.writing,
  request <- IF call # None /\ call.op \in {"read", "write"}
             THEN call ELSE None,
  answer  <- reply
ImplementsDevice == Device!Spec

\* No call hangs, whatever the card does or fails to do (sdcard.c:181, 339,
\* 421).  A Reset ends a call too.
CallReturns == pc # "ready" ~> pc = "ready"
=============================================================================
