---------------------------- MODULE SdCardProofs ----------------------------
(***************************************************************************)
(* The driver of the SD card and the card are a block device, for every    *)
(* number of sectors, size of a block, and timeout.                        *)
(***************************************************************************)
EXTENDS SdCard, TLAPS

----------------------------------------------------------------------------
(* The inductive invariant *)

CardType ==
  [kind : Kind, volts : BOOLEAN, memory : [Sector -> Data],
   power : {"cold", "idle", "ready"}, hcs : BOOLEAN,
   transfer : Sector \union {"csd", None}, writing : WriteCall \union {None}]
Version == {"unknown", "v1xx", "v200", "mmc"}
DriverType ==
  [initialized : BOOLEAN, compatible : BOOLEAN, high_capacity : BOOLEAN,
   idle : BOOLEAN, version : Version]

Woken == {"cmd_8", "ocr", "acmd_41", "poll", "capacity", "acmd_42"}
Initializing == {"cmd_0"} \union Woken

\* Each step of a call is in a call of that kind.
CallInStep ==
  /\ pc \in {"ready", "cmd_17", "cmd_24", "cmd_9", "token", "data", "settle"}
            \union Initializing
  /\ pc = "ready" <=> call = None
  /\ call \in Call \union {None}
  /\ pc \in Initializing => call.op = "init"
  /\ pc = "cmd_17" => call \in ReadCall
  /\ pc = "cmd_9" => call.op = "csd"
  /\ pc = "token" => call \in ReadCall \/ call.op = "csd"
  /\ pc \in {"cmd_24", "data", "settle"} => call \in WriteCall

\* The driver knows the unit of the card it uses: no card that was busy, and
\* held its output low, gets as far as the question.
UnitKnown ==
  /\ Busy => card.power = "ready"
  /\ pc \in Woken => card.power # "cold"
  /\ pc \in {"acmd_41", "poll", "capacity", "acmd_42"} => ~Busy
  /\ pc = "capacity" => card.power = "ready"
  /\ pc \in Initializing => ~sd.initialized
  /\ pc = "acmd_42" \/ sd.initialized =>
       (sd.high_capacity <=> card.kind = "hc")

\* The card transfers the block the call is about, and no other write is under
\* way; the block of the call is being written or has been.
TransferInStep ==
  /\ card.transfer # None =>
       /\ ~Busy /\ pc \in {"token", "data"}
       /\ call.op # "csd" => card.transfer = call.sector /\ card.power = "ready"
  /\ pc = "settle" => IF Busy THEN card.writing = call
                      ELSE card.memory[call.sector] = call.data

CInv ==
  /\ card \in CardType /\ sd \in DriverType
  /\ CallInStep /\ UnitKnown /\ TransferInStep

----------------------------------------------------------------------------
(* What the card answers *)

\* A card that has not moved on with its blocks.
SameBlocks(c) ==
  /\ c \in CardType
  /\ c.memory = card.memory /\ c.writing = card.writing /\ c.kind = card.kind

LEMMA NegotiateKeeps ==
  ASSUME card \in CardType, NEW hcs \in BOOLEAN, NEW c \in Negotiate(hcs)
  PROVE  /\ SameBlocks(c) /\ c.transfer = card.transfer
         /\ c.power \in {card.power, "ready"}
<1>1. PICK told \in BOOLEAN, p \in {card.power, "ready"} :
        c = [card EXCEPT !.hcs = told, !.power = p]
  <2> DEFINE told == card.hcs \/ hcs
             able == card.kind = "hc" => told
  <2>1. told \in BOOLEAN
    OBVIOUS
  <2>2. \E p \in {card.power} \union (IF able THEN {"ready"} ELSE {}) :
          c = [card EXCEPT !.hcs = told, !.power = p]
    BY DEF Negotiate
  <2> QED
    BY <2>1, <2>2
<1>2. card.power \in {"cold", "idle", "ready"}
  BY DEF CardType
<1> QED
  BY <1>1, <1>2 DEF SameBlocks, CardType

\* A card that is busy does not hear a command, and one that does not answer
\* stays as it is.
LEMMA Unheard ==
  ASSUME card \in CardType, NEW command, NEW argument,
         NEW a \in sd_command(command, argument)
  PROVE  \/ a.ok = FALSE /\ a.card = card /\ a.ocr = {}
         \/ a.ok = TRUE /\ Busy /\ a.card = card /\ a.ocr = {}
         \/ ~Busy /\ a \in Executed(command, argument)
BY DEF sd_command, Silent, Held, Answer

\* The commands of sd_init move no block.
LEMMA InitCommand ==
  ASSUME card \in CardType,
         NEW command \in {"cmd_0", "cmd_8", "cmd_58", "acmd_41", "cmd_1",
                          "acmd_42"},
         NEW argument \in Int, NEW a \in sd_command(command, argument)
  PROVE  /\ SameBlocks(a.card) /\ a.card.transfer = card.transfer
         /\ a.ok \in BOOLEAN
         /\ Busy => a.card = card
         /\ a.card.power \in {card.power, "idle", "ready"}
         /\ command = "cmd_0" /\ a.ok /\ ~Busy => a.card.power = "idle"
         /\ "volts" \in a.ocr => ~Busy
         /\ command = "cmd_58" /\ a.ok /\ ~Busy /\ card.power = "ready" =>
              ("ccs" \in a.ocr <=> card.kind = "hc")
         /\ /\ command \in {"cmd_1", "acmd_41"} /\ a.ok /\ ~Busy
            /\ "idle" \notin a.flags /\ card.power # "cold"
            => a.card.power = "ready"
         /\ command = "cmd_58" => a.card.power = card.power
<1>1. card.power \in {"cold", "idle", "ready"} /\ SameBlocks(card)
  BY DEF CardType, SameBlocks
<1>2. CASE a.ok = FALSE /\ a.card = card /\ a.ocr = {}
  BY <1>1, <1>2
<1>3. CASE a.ok = TRUE /\ Busy /\ a.card = card /\ a.ocr = {}
  BY <1>1, <1>3
<1>4. CASE ~Busy /\ a \in Executed(command, argument)
  <2>1. CASE command = "cmd_0"
    <3>1. a = Answer({"idle"}, [card EXCEPT !.power = "idle", !.hcs = FALSE])
      BY <1>4, <2>1 DEF Executed
    <3> QED
      BY <1>4, <2>1, <3>1 DEF Answer, SameBlocks, CardType
  <2>2. CASE command \in {"cmd_8", "acmd_42"}
    <3>1. a.card = card /\ a.ok = TRUE /\ a.ocr = {}
      <4>1. CASE command = "cmd_8"
        BY <1>4, <4>1 DEF Executed, Answer
      <4>2. CASE command = "acmd_42"
        BY <1>4, <4>2 DEF Executed, Answer
      <4> QED
        BY <2>2, <4>1, <4>2
    <3> QED
      BY <1>1, <1>4, <2>2, <3>1
  <2>3. CASE command = "cmd_58"
    <3>1. a = [Answer(Idle, card) EXCEPT !.ocr =
                (IF card.volts THEN {"volts"} ELSE {}) \union
                (IF card.power = "ready" /\ card.kind = "hc"
                 THEN {"ccs"} ELSE {})]
      BY <1>4, <2>3 DEF Executed
    <3>2. /\ a.card = card /\ a.ok = TRUE
          /\ "ccs" \in a.ocr <=> card.power = "ready" /\ card.kind = "hc"
      BY <3>1 DEF Answer
    <3> QED
      BY <1>1, <1>4, <2>3, <3>2
  <2>4. ASSUME NEW hcs \in BOOLEAN,
               \E c \in Negotiate(hcs) :
                 a = Answer(IF c.power = "idle" THEN {"idle"} ELSE {}, c),
               command \in {"cmd_1", "acmd_41"}
        PROVE  /\ SameBlocks(a.card) /\ a.card.transfer = card.transfer
               /\ a.ok = TRUE /\ a.ocr = {}
               /\ a.card.power \in {card.power, "ready"}
               /\ "idle" \notin a.flags => a.card.power # "idle"
    <3>1. PICK c \in Negotiate(hcs) :
            a = Answer(IF c.power = "idle" THEN {"idle"} ELSE {}, c)
      BY <2>4
    <3>2. /\ SameBlocks(c) /\ c.transfer = card.transfer
          /\ c.power \in {card.power, "ready"}
      BY <3>1, NegotiateKeeps
    <3> QED
      BY <3>1, <3>2 DEF Answer
  <2>5. CASE command = "cmd_1"
    <3>1. \E c \in Negotiate(FALSE) :
            a = Answer(IF c.power = "idle" THEN {"idle"} ELSE {}, c)
      BY <1>4, <2>5 DEF Executed
    <3> QED
      BY <1>1, <1>4, <2>4, <2>5, <3>1
  <2>6. CASE command = "acmd_41" /\ card.kind # "mmc"
    <3>1. \E c \in Negotiate(argument # 0) :
            a = Answer(IF c.power = "idle" THEN {"idle"} ELSE {}, c)
      BY <1>4, <2>6 DEF Executed
    <3>2. (argument # 0) \in BOOLEAN
      OBVIOUS
    <3> QED
      BY <1>1, <1>4, <2>4, <2>6, <3>1, <3>2
  <2>7. CASE command = "acmd_41" /\ card.kind = "mmc"
    <3>1. a = Answer(Idle \union {"illegal"}, card)
      BY <1>4, <2>7 DEF Executed
    <3> QED
      BY <1>1, <1>4, <2>7, <3>1 DEF Answer, Idle
  <2> QED
    BY <2>1, <2>2, <2>3, <2>5, <2>6, <2>7
<1> QED
  BY <1>2, <1>3, <1>4, Unheard

\* The commands that move a block begin it, when the card is ready.
LEMMA BlockCommand ==
  ASSUME card \in CardType, NEW command \in {"cmd_17", "cmd_24"},
         NEW argument, NEW a \in sd_command(command, argument)
  PROVE  /\ SameBlocks(a.card) /\ a.card.power = card.power
         /\ \/ a.card.transfer = card.transfer
            \/ /\ ~Busy /\ card.power = "ready"
               /\ Addressed(argument) \in Sector
               /\ a.card.transfer = Addressed(argument)
<1>1. CASE a.card = card
  BY <1>1 DEF SameBlocks
<1>2. CASE ~Busy /\ a \in Executed(command, argument)
  <2>1. CASE card.power = "ready" /\ Addressed(argument) \in Sector
    <3>1. a = Answer({}, [card EXCEPT !.transfer = Addressed(argument)])
      BY <1>2, <2>1 DEF Executed
    <3> QED
      BY <1>2, <2>1, <3>1 DEF Answer, SameBlocks, CardType
  <2>2. CASE ~(card.power = "ready" /\ Addressed(argument) \in Sector)
    <3>1. a = Answer(Idle \union {"parameter"}, card)
      BY <1>2, <2>2 DEF Executed
    <3> QED
      BY <3>1 DEF Answer, SameBlocks
  <2> QED
    BY <2>1, <2>2
<1> QED
  BY <1>1, <1>2, Unheard

\* The register is no block.
LEMMA RegisterCommand ==
  ASSUME card \in CardType, NEW argument, NEW a \in sd_command("cmd_9", argument)
  PROVE  /\ SameBlocks(a.card) /\ a.card.power = card.power
         /\ \/ a.card.transfer = card.transfer
            \/ ~Busy /\ a.card.transfer = "csd"
<1>1. CASE a.card = card
  BY <1>1 DEF SameBlocks
<1>2. CASE ~Busy /\ a \in Executed("cmd_9", argument)
  <2>1. a = Answer(Idle, [card EXCEPT !.transfer = "csd"])
    BY <1>2 DEF Executed
  <2> QED
    BY <1>2, <2>1 DEF Answer, SameBlocks, CardType
<1> QED
  BY <1>1, <1>2, Unheard

\* A byte address is divided by what it was multiplied with.
LEMMA Units ==
  ASSUME ConstantsOK, NEW address \in Sector,
         sd.high_capacity <=> card.kind = "hc"
  PROVE  Addressed(Argument(address)) = address
<1>1. /\ address \in Nat /\ BytesPerBlock \in Nat /\ BytesPerBlock > 0
  BY DEF ConstantsOK, Sector
<1>2. (address * BytesPerBlock) \div BytesPerBlock = address
  BY <1>1
<1> QED
  BY <1>2 DEF Addressed, Argument

----------------------------------------------------------------------------
(* The steps *)

DeviceStep == [Device!Next]_Device!vars
Requested == IF call # None /\ call.op \in {"read", "write"} THEN call ELSE None

\* The driver may change its mind on the version.
LEMMA Versioned ==
  ASSUME sd \in DriverType, NEW v \in Version
  PROVE  /\ [sd EXCEPT !.version = v] \in DriverType
         /\ [sd EXCEPT !.version = v].initialized = sd.initialized
BY DEF DriverType, Version

\* The calls the device sees.
LEMMA CallKinds ==
  ASSUME ConstantsOK
  PROVE  /\ \A c \in ReadCall : /\ c.op = "read" /\ c.sector \in Sector
                                /\ c \in Device!Request /\ c # None /\ c \in Call
         /\ \A c \in WriteCall : /\ c.op = "write" /\ c.sector \in Sector
                                 /\ c.data \in Data /\ c # None /\ c \in Call
                                 /\ c \in Device!Request
         /\ \A c \in Call : c # None
  BY DEF ConstantsOK, ReadCall, WriteCall, Call, Device!Request

\* A call that ends without success changes no block.
LEMMA FailureKeeps ==
  ASSUME ConstantsOK, CInv, call # None, NEW c, SameBlocks(c),
         Busy => c.power = "ready", Failure(c), sd' \in DriverType,
         sd'.initialized = sd.initialized,
         sd'.high_capacity = sd.high_capacity
  PROVE  CInv' /\ DeviceStep
<1>1. /\ card' = [c EXCEPT !.transfer = None] /\ pc' = "ready" /\ call' = None
      /\ reply' = IF call.op \in {"read", "write"} THEN [ok |-> FALSE] ELSE None
  BY DEF Failure, Return, Deselected
<1>2. /\ card' \in CardType /\ card'.memory = card.memory
      /\ card'.writing = card.writing /\ card'.kind = card.kind
      /\ card'.transfer = None /\ card'.power = c.power
  BY <1>1 DEF SameBlocks, CardType
<1>3. CallInStep'
  BY <1>1 DEF CallInStep, Woken, Initializing
<1>4. UnitKnown'
  BY <1>1, <1>2 DEF CInv, UnitKnown, Busy, Woken, Initializing
<1>5. TransferInStep'
  BY <1>1, <1>2 DEF TransferInStep
<1>6. DeviceStep
  <2>1. CASE call.op \in {"read", "write"}
    <3>1. Device!Fail
      BY <1>1, <1>2, <2>1 DEF Device!Fail
    <3> QED
      BY <3>1 DEF DeviceStep, Device!Next
  <2>2. CASE call.op \notin {"read", "write"}
    <3>1. Device!Restart
      BY <1>1, <1>2, <2>2 DEF Device!Restart
    <3> QED
      BY <3>1 DEF DeviceStep, Device!Next
  <2> QED
    BY <2>1, <2>2
<1> QED
  BY <1>2, <1>3, <1>4, <1>5, <1>6 DEF CInv

\* A step in the middle of a call moves no block.
LEMMA Stutters ==
  ASSUME SameBlocks(card'), UNCHANGED <<call, reply>>
  PROVE  DeviceStep
BY DEF DeviceStep, Device!vars, SameBlocks

\* A step of sd_init that is answered.
LEMMA InitKeeps ==
  ASSUME ConstantsOK, CInv, pc \in Initializing,
         NEW a, SameBlocks(a.card), a.card.transfer = card.transfer,
         card' = a.card, pc' \in Woken, UNCHANGED <<call, reply>>,
         sd' \in DriverType, ~sd'.initialized,
         Busy => a.card.power = "ready",
         a.card.power # "cold",
         pc' \in {"acmd_41", "poll", "capacity", "acmd_42"} => ~Busy,
         pc' = "capacity" => a.card.power = "ready",
         pc' = "acmd_42" => (sd'.high_capacity <=> card.kind = "hc")
  PROVE  CInv' /\ DeviceStep
<1>1. /\ card' \in CardType /\ card'.memory = card.memory
      /\ card'.writing = card.writing /\ card'.kind = card.kind
      /\ card'.transfer = card.transfer
  BY DEF SameBlocks
<1>2. CallInStep'
  BY DEF CInv, CallInStep, Woken, Initializing
<1>3. UnitKnown'
  BY <1>1 DEF CInv, UnitKnown, Busy, Woken, Initializing
<1>4. TransferInStep'
  BY <1>1 DEF CInv, TransferInStep, Busy, Woken, Initializing
<1> QED
  BY <1>1, <1>2, <1>3, <1>4, Stutters DEF CInv

\* sd_init, command by command.
LEMMA InitSteps ==
  ASSUME ConstantsOK, CInv,
         GoIdle \/ IfCondition \/ Voltage \/ Capability \/ Poll \/ Capacity
  PROVE  CInv' /\ DeviceStep
<1>1. /\ card \in CardType /\ sd \in DriverType
      /\ pc \in Initializing /\ call # None /\ ~sd.initialized
      /\ (Busy => card.power = "ready")
      /\ (pc \in Woken => card.power # "cold")
      /\ card.power \in {"cold", "idle", "ready"}
      /\ SameBlocks(card)
  BY DEF CInv, CallInStep, UnitKnown, GoIdle, IfCondition, Voltage, Capability,
    Poll, Capacity, Initializing, Woken, CardType, SameBlocks
<1>2. ASSUME Failure(card), UNCHANGED sd PROVE CInv' /\ DeviceStep
  BY <1>1, <1>2, FailureKeeps
<1>3. CASE GoIdle
  <2>1. PICK a \in sd_command("cmd_0", 0) : Proceed(a, "cmd_8", sd)
    BY <1>3 DEF GoIdle
  <2>2. /\ SameBlocks(a.card) /\ a.card.transfer = card.transfer
        /\ Busy => a.card = card
        /\ a.ok /\ ~Busy => a.card.power = "idle"
    BY <1>1, <2>1, InitCommand
  <2>3. CASE a.ok
    <3>1. card' = a.card /\ pc' = "cmd_8" /\ sd' = sd /\ UNCHANGED <<call, reply>>
      BY <2>1, <2>3 DEF Proceed
    <3> QED
      BY <1>1, <2>2, <2>3, <3>1, InitKeeps DEF Woken
  <2> QED
    BY <1>2, <2>1, <2>3 DEF Proceed
<1>4. CASE IfCondition
  <2> DEFINE d(a) == [sd EXCEPT !.version =
                       IF "illegal" \in a.flags THEN "v1xx" ELSE "v200"]
  <2>1. PICK a \in sd_command("cmd_8", 0) : Proceed(a, "ocr", d(a))
    BY <1>4 DEF IfCondition
  <2>2. /\ SameBlocks(a.card) /\ a.card.transfer = card.transfer
        /\ Busy => a.card = card
        /\ a.card.power \in {card.power, "idle", "ready"}
        /\ pc = "cmd_8"
    BY <1>1, <1>4, <2>1, InitCommand DEF IfCondition
  <2>3. d(a) \in DriverType /\ d(a).initialized = sd.initialized
    <3>1. CASE "illegal" \in a.flags
      <4>1. d(a) = [sd EXCEPT !.version = "v1xx"]
        BY <3>1
      <4>2. /\ [sd EXCEPT !.version = "v1xx"] \in DriverType
            /\ [sd EXCEPT !.version = "v1xx"].initialized = sd.initialized
        BY <1>1, Versioned DEF Version
      <4> QED
        BY <4>1, <4>2
    <3>2. CASE "illegal" \notin a.flags
      <4>1. d(a) = [sd EXCEPT !.version = "v200"] /\ sd.version \in Version
        BY <1>1, <3>2 DEF DriverType
      <4>2. /\ [sd EXCEPT !.version = "v200"] \in DriverType
            /\ [sd EXCEPT !.version = "v200"].initialized = sd.initialized
        BY <1>1, Versioned DEF Version
      <4> QED
        BY <4>1, <4>2
    <3> QED
      BY <3>1, <3>2
  <2>4. CASE a.ok
    <3>1. card' = a.card /\ pc' = "ocr" /\ sd' = d(a) /\ UNCHANGED <<call, reply>>
      BY <2>1, <2>4 DEF Proceed
    <3> HIDE DEF d
    <3> QED
      BY <1>1, <2>2, <2>3, <2>4, <3>1, InitKeeps DEF Woken
  <2> QED
    BY <1>2, <2>1, <2>4 DEF Proceed
<1>5. CASE Voltage
  <2>1. PICK a \in sd_command("cmd_58", 0) :
          IF a.ok /\ "volts" \notin a.ocr
          THEN /\ Failure(a.card)
               /\ sd' = [sd EXCEPT !.compatible = FALSE]
          ELSE Proceed(a, "acmd_41", [sd EXCEPT !.compatible = TRUE])
    BY <1>5 DEF Voltage
  <2>2. /\ SameBlocks(a.card) /\ a.card.transfer = card.transfer
        /\ Busy => a.card = card
        /\ "volts" \in a.ocr => ~Busy
        /\ a.card.power = card.power
        /\ pc = "ocr"
    BY <1>1, <1>5, <2>1, InitCommand DEF Voltage
  <2>3. \A b \in BOOLEAN :
          /\ [sd EXCEPT !.compatible = b] \in DriverType
          /\ [sd EXCEPT !.compatible = b].initialized = sd.initialized
          /\ [sd EXCEPT !.compatible = b].high_capacity = sd.high_capacity
    BY <1>1 DEF DriverType
  <2>4. CASE a.ok /\ "volts" \notin a.ocr
    <3>1. Failure(a.card) /\ sd' = [sd EXCEPT !.compatible = FALSE]
      BY <2>1, <2>4
    <3> QED
      BY <1>1, <2>2, <2>3, <3>1, FailureKeeps
  <2>5. CASE a.ok /\ "volts" \in a.ocr
    <3>1. /\ card' = a.card /\ pc' = "acmd_41" /\ UNCHANGED <<call, reply>>
          /\ sd' = [sd EXCEPT !.compatible = TRUE]
      BY <2>1, <2>5 DEF Proceed
    <3> QED
      BY <1>1, <2>2, <2>3, <2>5, <3>1, InitKeeps DEF Woken
  <2> QED
    BY <1>2, <1>1, <2>1, <2>4, <2>5, <2>3, FailureKeeps DEF Proceed
<1>6. CASE Capability
  <2> DEFINE d(a) == [sd EXCEPT !.version =
                       IF "illegal" \in a.flags THEN "mmc" ELSE sd.version]
  <2>1. PICK a \in sd_command("acmd_41", 1) : Proceed(a, "poll", d(a))
    BY <1>6 DEF Capability
  <2>2. /\ SameBlocks(a.card) /\ a.card.transfer = card.transfer
        /\ Busy => a.card = card
        /\ a.card.power \in {card.power, "idle", "ready"}
        /\ pc = "acmd_41" /\ ~Busy
    BY <1>1, <1>6, <2>1, InitCommand DEF Capability, CInv, UnitKnown
  <2>3. d(a) \in DriverType /\ d(a).initialized = sd.initialized
    <3>1. CASE "illegal" \in a.flags
      <4>1. d(a) = [sd EXCEPT !.version = "mmc"]
        BY <3>1
      <4>2. /\ [sd EXCEPT !.version = "mmc"] \in DriverType
            /\ [sd EXCEPT !.version = "mmc"].initialized = sd.initialized
        BY <1>1, Versioned DEF Version
      <4> QED
        BY <4>1, <4>2
    <3>2. CASE "illegal" \notin a.flags
      <4>1. d(a) = [sd EXCEPT !.version = sd.version] /\ sd.version \in Version
        BY <1>1, <3>2 DEF DriverType
      <4>2. /\ [sd EXCEPT !.version = sd.version] \in DriverType
            /\ [sd EXCEPT !.version = sd.version].initialized = sd.initialized
        BY <1>1, <4>1, Versioned
      <4> QED
        BY <4>1, <4>2
    <3> QED
      BY <3>1, <3>2
  <2>4. CASE a.ok
    <3>1. card' = a.card /\ pc' = "poll" /\ sd' = d(a) /\ UNCHANGED <<call, reply>>
      BY <2>1, <2>4 DEF Proceed
    <3> HIDE DEF d
    <3> QED
      BY <1>1, <2>2, <2>3, <2>4, <3>1, InitKeeps DEF Woken
  <2> QED
    BY <1>2, <2>1, <2>4 DEF Proceed
<1>7. CASE Poll
  <2>0. PICK command \in {"cmd_1", "acmd_41"} :
          \E a \in sd_command(command, 0) :
            CASE a.ok /\ "idle" \notin a.flags ->
                   Proceed(a, "capacity", [sd EXCEPT !.idle = FALSE])
              [] a.ok /\ "idle" \in a.flags /\ turn + 1 < InitTimeout ->
                   /\ turn' = turn + 1
                   /\ card' = a.card
                   /\ UNCHANGED <<sd, pc, call, reply>>
              [] OTHER -> Failure(a.card) /\ UNCHANGED sd
    BY <1>7 DEF Poll
  <2>1. PICK a \in sd_command(command, 0) :
          CASE a.ok /\ "idle" \notin a.flags ->
                 Proceed(a, "capacity", [sd EXCEPT !.idle = FALSE])
            [] a.ok /\ "idle" \in a.flags /\ turn + 1 < InitTimeout ->
                 /\ turn' = turn + 1
                 /\ card' = a.card
                 /\ UNCHANGED <<sd, pc, call, reply>>
            [] OTHER -> Failure(a.card) /\ UNCHANGED sd
    BY <2>0
  <2>2. /\ SameBlocks(a.card) /\ a.card.transfer = card.transfer
        /\ Busy => a.card = card
        /\ a.card.power \in {card.power, "idle", "ready"}
        /\ /\ a.ok /\ ~Busy /\ "idle" \notin a.flags /\ card.power # "cold"
           => a.card.power = "ready"
        /\ pc = "poll" /\ ~Busy
    BY <1>1, <1>7, <2>1, InitCommand DEF Poll, CInv, UnitKnown
  <2>3. /\ [sd EXCEPT !.idle = FALSE] \in DriverType
        /\ [sd EXCEPT !.idle = FALSE].initialized = sd.initialized
    BY <1>1 DEF DriverType
  <2>4. CASE a.ok /\ "idle" \notin a.flags
    <3>1. /\ card' = a.card /\ pc' = "capacity" /\ UNCHANGED <<call, reply>>
          /\ sd' = [sd EXCEPT !.idle = FALSE]
      BY <2>1, <2>4 DEF Proceed
    <3> QED
      BY <1>1, <2>2, <2>3, <2>4, <3>1, InitKeeps DEF Woken
  <2>5. CASE a.ok /\ "idle" \in a.flags /\ turn + 1 < InitTimeout
    <3>1. card' = a.card /\ UNCHANGED <<sd, pc, call, reply>>
      BY <2>1, <2>5
    <3> QED
      BY <1>1, <2>2, <2>5, <3>1, InitKeeps DEF Woken
  <2>6. CASE ~(a.ok /\ "idle" \notin a.flags)
             /\ ~(a.ok /\ "idle" \in a.flags /\ turn + 1 < InitTimeout)
    <3>1. Failure(a.card) /\ UNCHANGED sd
      BY <2>1, <2>6
    <3> QED
      BY <1>1, <2>2, <3>1, FailureKeeps
  <2> QED
    BY <2>4, <2>5, <2>6
<1>8. CASE Capacity
  <2> DEFINE d(a) == [sd EXCEPT !.high_capacity = "ccs" \in a.ocr]
  <2>1. PICK a \in sd_command("cmd_58", 0) : Proceed(a, "acmd_42", d(a))
    BY <1>8 DEF Capacity, HighCapacity
  <2>2. /\ SameBlocks(a.card) /\ a.card.transfer = card.transfer
        /\ Busy => a.card = card
        /\ a.card.power = card.power
        /\ pc = "capacity" /\ ~Busy /\ card.power = "ready"
        /\ a.ok => ("ccs" \in a.ocr <=> card.kind = "hc")
    BY <1>1, <1>8, <2>1, InitCommand DEF Capacity, CInv, UnitKnown
  <2>3. /\ d(a) \in DriverType /\ d(a).initialized = sd.initialized
        /\ d(a).high_capacity <=> "ccs" \in a.ocr
    <3>1. \A b \in BOOLEAN :
            /\ [sd EXCEPT !.high_capacity = b] \in DriverType
            /\ [sd EXCEPT !.high_capacity = b].initialized = sd.initialized
            /\ [sd EXCEPT !.high_capacity = b].high_capacity = b
      BY <1>1 DEF DriverType
    <3>2. ("ccs" \in a.ocr) \in BOOLEAN
      OBVIOUS
    <3> QED
      BY <3>1, <3>2
  <2>4. CASE a.ok
    <3>1. /\ card' = a.card /\ pc' = "acmd_42" /\ sd' = d(a)
          /\ UNCHANGED <<call, reply>>
      BY <2>1, <2>4 DEF Proceed
    <3> HIDE DEF d
    <3> QED
      BY <1>1, <2>2, <2>3, <2>4, <3>1, InitKeeps DEF Woken
  <2> QED
    BY <1>2, <2>1, <2>4 DEF Proceed
<1> QED
  BY <1>3, <1>4, <1>5, <1>6, <1>7, <1>8

\* The last command of sd_init.
LEMMA DetectKeeps ==
  ASSUME ConstantsOK, CInv, CardDetect
  PROVE  CInv' /\ DeviceStep
<1>1. /\ card \in CardType /\ sd \in DriverType /\ pc = "acmd_42"
      /\ call # None /\ call.op = "init" /\ ~sd.initialized /\ SameBlocks(card)
      /\ (sd.high_capacity <=> card.kind = "hc")
      /\ (Busy => card.power = "ready") /\ card.transfer = None
  BY DEF CInv, CallInStep, UnitKnown, TransferInStep, CardDetect, Initializing,
    Woken, SameBlocks
<1>2. PICK a \in sd_command("acmd_42", 0) :
        IF a.ok
        THEN /\ sd' = [sd EXCEPT !.initialized = TRUE]
             /\ Return([ok |-> TRUE])
             /\ card' = a.card
        ELSE Failure(card) /\ UNCHANGED sd
  BY DEF CardDetect
<1>3. /\ SameBlocks(a.card) /\ a.card.transfer = card.transfer
      /\ Busy => a.card = card
  BY <1>1, <1>2, InitCommand
<1>4. CASE ~a.ok
  BY <1>1, <1>2, <1>4, FailureKeeps
<1>5. CASE a.ok
  <2>1. /\ sd' = [sd EXCEPT !.initialized = TRUE] /\ card' = a.card
        /\ pc' = "ready" /\ call' = None /\ reply' = None
    BY <1>1, <1>2, <1>5 DEF Return
  <2>2. /\ sd' \in DriverType /\ sd'.high_capacity = sd.high_capacity
        /\ card' \in CardType /\ card'.memory = card.memory
        /\ card'.writing = card.writing /\ card'.kind = card.kind
        /\ card'.transfer = None /\ (Busy => card'.power = "ready")
    BY <1>1, <1>3, <2>1 DEF DriverType, SameBlocks
  <2>3. CallInStep' /\ TransferInStep'
    BY <2>1, <2>2 DEF CallInStep, TransferInStep, Woken, Initializing
  <2>4. UnitKnown'
    BY <1>1, <2>1, <2>2 DEF UnitKnown, Busy, Woken, Initializing
  <2>5. Device!Restart
    BY <2>1, <2>2 DEF Device!Restart
  <2> QED
    BY <2>2, <2>3, <2>4, <2>5 DEF CInv, DeviceStep, Device!Next
<1> QED
  BY <1>4, <1>5

\* A call is made.
LEMMA BeginKeeps ==
  ASSUME ConstantsOK, CInv, NEW op, NEW step, Begin(op, step),
         sd' \in DriverType,
         \/ sd' = sd
         \/ ~sd'.initialized,
         \/ op \in ReadCall /\ step = "cmd_17"
         \/ op \in WriteCall /\ step = "cmd_24"
         \/ op = [op |-> "csd"] /\ step = "cmd_9"
         \/ op = [op |-> "init"] /\ step = "cmd_0" /\ ~sd'.initialized
  PROVE  CInv' /\ DeviceStep
<1>1. /\ pc = "ready" /\ pc' = step /\ call' = op /\ reply' = None /\ card' = card
      /\ call = None /\ card.transfer = None /\ card \in CardType
  BY DEF Begin, CInv, CallInStep, TransferInStep
<1>2. /\ op \in Call /\ op # None
      /\ step = "cmd_17" => op \in ReadCall
      /\ step = "cmd_9" => op.op = "csd"
      /\ step = "cmd_24" => op \in WriteCall
      /\ step = "cmd_0" => op.op = "init"
      /\ step \in {"cmd_17", "cmd_24", "cmd_9", "cmd_0"}
  BY CallKinds DEF Call
<1>3. CallInStep'
  BY <1>1, <1>2 DEF CallInStep, Woken, Initializing
<1>4. UnitKnown'
  BY <1>1, <1>2 DEF CInv, UnitKnown, Busy, Woken, Initializing
<1>5. TransferInStep'
  BY <1>1, <1>2 DEF TransferInStep
<1>6. DeviceStep
  <2>1. CASE op \in ReadCall \union WriteCall
    <3>1. op \in Device!Request /\ op.op \in {"read", "write"}
      BY <2>1, CallKinds
    <3>2. Device!Call(op)
      BY <1>1, <1>2, <3>1 DEF Device!Call
    <3> QED
      BY <3>1, <3>2 DEF DeviceStep, Device!Next
  <2>2. CASE op \in {[op |-> "csd"], [op |-> "init"]}
    <3>1. Device!Restart
      BY <1>1, <2>2 DEF Device!Restart
    <3> QED
      BY <3>1 DEF DeviceStep, Device!Next
  <2> QED
    BY <2>1, <2>2
<1> QED
  BY <1>1, <1>3, <1>4, <1>5, <1>6 DEF CInv

\* The command that begins a transfer: on a card that hears it, of the block
\* the call is about.
LEMMA CommandKeeps ==
  ASSUME ConstantsOK, CInv, Refuse \/ ReadCommand \/ WriteCommand
  PROVE  CInv' /\ DeviceStep
<1>1. /\ card \in CardType /\ sd \in DriverType /\ SameBlocks(card)
      /\ call # None /\ (Busy => card.power = "ready") /\ card.transfer = None
      /\ pc \in {"cmd_17", "cmd_24", "cmd_9"}
      /\ sd.initialized => (sd.high_capacity <=> card.kind = "hc")
  BY DEF CInv, CallInStep, UnitKnown, TransferInStep, SameBlocks, Refuse,
    ReadCommand, WriteCommand
<1>2. ASSUME Failure(card), UNCHANGED sd PROVE CInv' /\ DeviceStep
  BY <1>1, <1>2, FailureKeeps
<1>3. ASSUME NEW a, Proceed(a, IF pc = "cmd_24" THEN "data" ELSE "token", sd),
             SameBlocks(a.card), a.card.power = card.power,
             \/ a.card.transfer = None
             \/ ~Busy /\ card.power = "ready" /\ a.card.transfer = call.sector
                /\ pc \in {"cmd_17", "cmd_24"}
             \/ ~Busy /\ a.card.transfer = "csd" /\ pc = "cmd_9"
      PROVE  CInv' /\ DeviceStep
  <2>1. CASE ~a.ok
    BY <1>2, <1>3, <2>1 DEF Proceed
  <2>2. CASE a.ok
    <3>1. /\ pc' = (IF pc = "cmd_24" THEN "data" ELSE "token")
          /\ card' = a.card /\ sd' = sd /\ call' = call /\ reply' = reply
      BY <1>3, <2>2 DEF Proceed
    <3>2. CallInStep'
      BY <1>1, <3>1 DEF CInv, CallInStep, Woken, Initializing
    <3>3. /\ card' \in CardType /\ card'.memory = card.memory
          /\ card'.writing = card.writing /\ card'.kind = card.kind
          /\ card'.power = card.power
      BY <1>3, <3>1 DEF SameBlocks
    <3>4. UnitKnown'
      BY <1>1, <3>1, <3>3 DEF CInv, UnitKnown, Busy, Woken, Initializing
    <3>5. TransferInStep'
      <4>1. pc = "cmd_9" => call.op = "csd"
        BY DEF CInv, CallInStep
      <4>2. pc' \in {"token", "data"} /\ pc' # "settle"
        BY <3>1
      <4>3. Busy' <=> Busy
        BY <3>3 DEF Busy
      <4> QED
        BY <1>3, <3>1, <3>3, <4>1, <4>2, <4>3 DEF TransferInStep
    <3>6. DeviceStep
      BY <1>3, <3>1, Stutters
    <3> QED
      BY <1>1, <3>1, <3>2, <3>3, <3>4, <3>5, <3>6 DEF CInv
  <2> QED
    BY <2>1, <2>2
<1>4. CASE Refuse
  BY <1>2, <1>4 DEF Refuse
<1>5. ASSUME pc \in {"cmd_17", "cmd_24"}, sd.initialized,
             \E a \in sd_command(pc, Argument(call.sector)) :
               Proceed(a, IF pc = "cmd_24" THEN "data" ELSE "token", sd)
      PROVE  CInv' /\ DeviceStep
  <2>1. PICK a \in sd_command(pc, Argument(call.sector)) :
          Proceed(a, IF pc = "cmd_24" THEN "data" ELSE "token", sd)
    BY <1>5
  <2>2. call.sector \in Sector
    BY <1>5, CallKinds DEF CInv, CallInStep
  <2>3. Addressed(Argument(call.sector)) = call.sector
    BY <1>1, <1>5, <2>2, Units
  <2>4. /\ SameBlocks(a.card) /\ a.card.power = card.power
        /\ \/ a.card.transfer = None
           \/ ~Busy /\ card.power = "ready" /\ a.card.transfer = call.sector
    BY <1>1, <1>5, <2>1, <2>3, BlockCommand
  <2> QED
    BY <1>3, <1>5, <2>1, <2>4
<1>6. CASE ReadCommand /\ pc = "cmd_9"
  <2>1. PICK a \in sd_command("cmd_9", 0) : Proceed(a, "token", sd)
    BY <1>6 DEF ReadCommand
  <2>2. /\ SameBlocks(a.card) /\ a.card.power = card.power
        /\ \/ a.card.transfer = None
           \/ ~Busy /\ a.card.transfer = "csd"
    BY <1>1, <2>1, RegisterCommand
  <2> QED
    BY <1>3, <1>6, <2>1, <2>2
<1>7. CASE ReadCommand /\ pc = "cmd_17"
  <2>1. sd.initialized /\ \E a \in sd_command(pc, Argument(call.sector)) :
                            Proceed(a, "token", sd)
    BY <1>7 DEF ReadCommand
  <2> QED
    BY <1>5, <1>7, <2>1
<1>8. CASE WriteCommand
  <2>1. pc = "cmd_24" /\ sd.initialized
        /\ \E a \in sd_command(pc, Argument(call.sector)) : Proceed(a, "data", sd)
    BY <1>8 DEF WriteCommand
  <2> QED
    BY <1>5, <2>1
<1>9. ReadCommand => pc \in {"cmd_9", "cmd_17"}
  BY DEF ReadCommand
<1> QED
  BY <1>4, <1>6, <1>7, <1>8, <1>9

\* The block that is read is the one the call is about, and no write is under
\* way.
LEMMA ReadKeeps ==
  ASSUME ConstantsOK, CInv, ReadData \/ ReadWait \/ ReadGiveUp
  PROVE  CInv' /\ DeviceStep
<1>1. /\ card \in CardType /\ sd \in DriverType /\ SameBlocks(card)
      /\ call # None /\ (Busy => card.power = "ready") /\ pc = "token"
      /\ call \in ReadCall \/ call.op = "csd"
      /\ None \notin Sector
  BY DEF CInv, CallInStep, UnitKnown, SameBlocks, ReadData, ReadWait,
    ReadGiveUp, ConstantsOK
<1>2. CASE ReadGiveUp
  BY <1>1, <1>2, FailureKeeps DEF ReadGiveUp
<1>3. CASE ReadWait
  <2>1. UNCHANGED <<sd, pc, call, reply, card>>
    BY <1>3 DEF ReadWait
  <2>2. CInv'
    BY <2>1 DEF CInv, CallInStep, UnitKnown, TransferInStep, Busy
  <2> QED
    BY <1>1, <2>1, <2>2, Stutters
<1>4. CASE ReadData
  <2>1. /\ card' = [card EXCEPT !.transfer = None] /\ sd' = sd
        /\ pc' = "ready" /\ call' = None /\ card.transfer # None
        /\ reply' = IF call.op \in {"read", "write"}
                    THEN [ok |-> TRUE, data |->
                            IF card.transfer \in Sector
                            THEN card.memory[card.transfer] ELSE None]
                    ELSE None
    BY <1>1, <1>4 DEF ReadData, Return, Deselected, Token
  <2>2. /\ card' \in CardType /\ card'.memory = card.memory
        /\ card'.writing = card.writing /\ card'.kind = card.kind
        /\ card'.transfer = None /\ card'.power = card.power
    BY <1>1, <2>1 DEF CardType
  <2>3. CallInStep' /\ TransferInStep'
    BY <2>1, <2>2 DEF CallInStep, TransferInStep, Woken, Initializing
  <2>4. UnitKnown'
    BY <1>1, <2>1, <2>2 DEF CInv, UnitKnown, Busy, Woken, Initializing
  <2>5. CASE call \in ReadCall
    <3>1. /\ call.op = "read" /\ call.sector \in Sector
          /\ card.transfer = call.sector /\ card.writing = None
      BY <1>1, <2>1, <2>5, CallKinds DEF CInv, TransferInStep, Busy
    <3>2. reply' = [ok |-> TRUE, data |-> card.memory[call.sector]]
      BY <2>1, <3>1
    <3>3. Device!Return
      BY <1>1, <2>1, <2>2, <3>1, <3>2 DEF Device!Return
    <3> QED
      BY <1>1, <2>1, <2>2, <2>3, <2>4, <3>3 DEF CInv, DeviceStep, Device!Next
  <2>6. CASE call.op = "csd"
    <3>1. Device!Restart
      BY <2>1, <2>2, <2>6 DEF Device!Restart
    <3> QED
      BY <1>1, <2>1, <2>2, <2>3, <2>4, <3>1 DEF CInv, DeviceStep, Device!Next
  <2> QED
    BY <1>1, <2>5, <2>6
<1> QED
  BY <1>2, <1>3, <1>4

\* The block the card accepts is the one the call is about, and the call ends
\* well only when the card holds it.
LEMMA WriteKeeps ==
  ASSUME ConstantsOK, CInv, WriteData \/ Settled \/ SettleWait
  PROVE  CInv' /\ DeviceStep
<1>1. /\ card \in CardType /\ sd \in DriverType /\ SameBlocks(card)
      /\ call # None /\ (Busy => card.power = "ready")
      /\ pc \in {"data", "settle"} /\ call \in WriteCall
      /\ call.op = "write" /\ call.sector \in Sector /\ call.data \in Data
  BY CallKinds DEF CInv, CallInStep, UnitKnown, SameBlocks, WriteData, Settled,
    SettleWait
<1>2. CASE Failure(card) /\ UNCHANGED sd
  BY <1>1, <1>2, FailureKeeps
<1>3. CASE WriteData /\ ~Failure(card)
  <2>1. /\ pc = "data" /\ card.transfer # None
        /\ card' = [card EXCEPT !.transfer = None,
             !.writing = [op |-> "write", sector |-> card.transfer,
                          data |-> call.data]]
        /\ pc' = "settle" /\ call' = call /\ reply' = reply /\ sd' = sd
    BY <1>3 DEF WriteData
  <2>2. card.transfer = call.sector /\ card.power = "ready" /\ ~Busy
    BY <1>1, <2>1 DEF CInv, TransferInStep
  <2>3. [op |-> "write", sector |-> card.transfer, data |-> call.data] = call
    BY <1>1, <2>2 DEF WriteCall
  <2>4. /\ card' \in CardType /\ card'.memory = card.memory
        /\ card'.writing = call /\ card'.kind = card.kind
        /\ card'.transfer = None /\ card'.power = card.power
    BY <1>1, <2>1, <2>3 DEF CardType
  <2>5. CallInStep'
    BY <1>1, <2>1 DEF CInv, CallInStep, Woken, Initializing
  <2>6. TransferInStep'
    BY <1>1, <2>1, <2>4 DEF TransferInStep, Busy
  <2>7. UnitKnown'
    BY <1>1, <2>1, <2>2, <2>4 DEF CInv, UnitKnown, Busy, Woken, Initializing
  <2>8. Device!Accept
    BY <1>1, <2>1, <2>2, <2>4 DEF Device!Accept, Busy
  <2> QED
    BY <1>1, <2>1, <2>4, <2>5, <2>6, <2>7, <2>8
    DEF CInv, DeviceStep, Device!Next
<1>4. CASE Settled
  <2>1. /\ pc = "settle" /\ ~Busy /\ card' = [card EXCEPT !.transfer = None]
        /\ sd' = sd /\ pc' = "ready" /\ call' = None /\ reply' = [ok |-> TRUE]
    BY <1>1, <1>4 DEF Settled, Return, Deselected
  <2>2. /\ card' \in CardType /\ card'.memory = card.memory
        /\ card'.writing = card.writing /\ card'.kind = card.kind
        /\ card'.transfer = None /\ card'.power = card.power
    BY <1>1, <2>1 DEF CardType
  <2>3. CallInStep' /\ TransferInStep'
    BY <2>1, <2>2 DEF CallInStep, TransferInStep, Woken, Initializing
  <2>4. UnitKnown'
    BY <1>1, <2>1, <2>2 DEF CInv, UnitKnown, Busy, Woken, Initializing
  <2>5. card.memory[call.sector] = call.data
    BY <2>1 DEF CInv, TransferInStep
  <2>6. Device!Return
    BY <1>1, <2>1, <2>2, <2>5 DEF Device!Return, Busy
  <2> QED
    BY <1>1, <2>1, <2>2, <2>3, <2>4, <2>6 DEF CInv, DeviceStep, Device!Next
<1>5. CASE SettleWait /\ ~Failure(card)
  <2>1. UNCHANGED <<sd, pc, call, reply, card>>
    BY <1>5 DEF SettleWait
  <2>2. CInv'
    BY <2>1 DEF CInv, CallInStep, UnitKnown, TransferInStep, Busy
  <2> QED
    BY <1>1, <2>1, <2>2, Stutters
<1>6. WriteData \/ SettleWait => UNCHANGED sd
  BY DEF WriteData, SettleWait
<1> QED
  BY <1>2, <1>3, <1>4, <1>5, <1>6

\* The card finishes with its block.
LEMMA ProgramKeeps ==
  ASSUME ConstantsOK, CInv, Program
  PROVE  CInv' /\ DeviceStep
<1>1. /\ card \in CardType /\ card.writing \in WriteCall /\ card.writing # None
      /\ card.writing.sector \in Sector /\ card.writing.data \in Data
      /\ UNCHANGED <<sd, pc, call, reply>>
      /\ card' = [card EXCEPT
           !.memory[card.writing.sector] = card.writing.data, !.writing = None]
  BY CallKinds DEF CInv, CardType, Program, Busy
<1>2. /\ card'.memory =
           [card.memory EXCEPT ![card.writing.sector] = card.writing.data]
      /\ card'.writing = None /\ card'.kind = card.kind
      /\ card'.transfer = card.transfer /\ card'.power = card.power
      /\ card' \in CardType
  BY <1>1 DEF CardType
<1>3. card.transfer = None
  BY <1>1 DEF CInv, TransferInStep, Busy
<1>4. TransferInStep'
  <2>1. ~Busy'
    BY <1>2 DEF Busy
  <2>2. ASSUME pc = "settle" PROVE card'.memory[call.sector] = call.data
    <3>1. card.writing = call
      BY <1>1, <2>2 DEF CInv, TransferInStep, Busy
    <3>2. card.memory \in [Sector -> Data]
      BY <1>1 DEF CardType
    <3> QED
      BY <1>1, <1>2, <3>1, <3>2
  <2> QED
    BY <1>1, <1>2, <1>3, <2>1, <2>2 DEF TransferInStep
<1>5. CallInStep' /\ UnitKnown'
  BY <1>1, <1>2 DEF CInv, CallInStep, UnitKnown, Busy, Woken, Initializing
<1>6. Device!Land
  BY <1>1, <1>2 DEF Device!Land
<1> QED
  BY <1>1, <1>2, <1>4, <1>5, <1>6 DEF CInv, DeviceStep, Device!Next

\* The CPU restarts, or turns the card off.
LEMMA ResetKeeps ==
  ASSUME ConstantsOK, CInv, Reset \/ sd_shutdown
  PROVE  CInv' /\ DeviceStep
<1>1. /\ card \in CardType /\ sd \in DriverType
      /\ [card EXCEPT !.transfer = None] \in CardType
      /\ Zeroed \in DriverType /\ ~Zeroed.initialized
      /\ [sd EXCEPT !.initialized = FALSE] \in DriverType
      /\ ~[sd EXCEPT !.initialized = FALSE].initialized
  BY DEF CInv, CardType, DriverType, Zeroed, sdcard_initializer, Version
<1>2. CASE Reset
  <2>1. /\ sd' = Zeroed /\ pc' = "ready" /\ call' = None /\ reply' = None
        /\ card' = [card EXCEPT !.transfer = None]
    BY <1>2 DEF Reset, Deselected
  <2>2. /\ card'.memory = card.memory
        /\ card'.writing = card.writing /\ card'.kind = card.kind
        /\ card'.transfer = None /\ card'.power = card.power
    BY <1>1, <2>1 DEF CardType
  <2>3. CallInStep' /\ TransferInStep'
    BY <2>1, <2>2 DEF CallInStep, TransferInStep, Woken, Initializing
  <2>4. UnitKnown'
    BY <1>1, <2>1, <2>2 DEF CInv, UnitKnown, Busy, Woken, Initializing
  <2>5. Device!Restart
    BY <2>1, <2>2 DEF Device!Restart
  <2> QED
    BY <1>1, <2>1, <2>3, <2>4, <2>5 DEF CInv, DeviceStep, Device!Next
<1>3. CASE sd_shutdown
  <2>1. /\ pc = "ready" /\ UNCHANGED <<pc, call, reply, card>>
        /\ sd' = [sd EXCEPT !.initialized = FALSE]
    BY <1>3 DEF sd_shutdown
  <2>2. CallInStep' /\ TransferInStep'
    BY <2>1 DEF CInv, CallInStep, TransferInStep, Busy
  <2>3. UnitKnown'
    BY <1>1, <2>1 DEF CInv, UnitKnown, Busy, Woken, Initializing
  <2>4. DeviceStep
    BY <2>1 DEF DeviceStep, Device!vars
  <2> QED
    BY <1>1, <2>1, <2>2, <2>3, <2>4 DEF CInv
<1> QED
  BY <1>2, <1>3

\* Every step of the driver and of the card is one of the device, or none.
LEMMA DeviceSteps ==
  ASSUME ConstantsOK, CInv, [Next]_vars
  PROVE  CInv' /\ DeviceStep
<1>1. CASE UNCHANGED vars
  BY <1>1 DEF vars, CInv, CallInStep, UnitKnown, TransferInStep, Busy, DeviceStep,
    Device!vars
<1>2. CASE Step
  BY <1>2, InitSteps, DetectKeeps, CommandKeeps, ReadKeeps, WriteKeeps DEF Step
<1>3. CASE Program \/ Reset \/ sd_shutdown
  BY <1>3, ProgramKeeps, ResetKeeps
<1>4. sdcard_initializer \in DriverType /\ ~sdcard_initializer.initialized
      /\ sd \in DriverType
  BY DEF sdcard_initializer, DriverType, Version, CInv
<1>5. CASE sd_init
  <2>1. /\ Begin([op |-> "init"], "cmd_0") /\ sd' = sdcard_initializer
    BY <1>5 DEF sd_init
  <2> QED
    BY <1>4, <2>1, BeginKeeps
<1>6. CASE sd_read_csd
  <2>1. Begin([op |-> "csd"], "cmd_9") /\ sd' = sd
    BY <1>6 DEF sd_read_csd
  <2> QED
    BY <1>4, <2>1, BeginKeeps
<1>7. ASSUME NEW s \in Sector, sd_block_read(s) PROVE CInv' /\ DeviceStep
  <2>1. Begin([op |-> "read", sector |-> s], "cmd_17") /\ sd' = sd
    BY <1>7 DEF sd_block_read
  <2>2. [op |-> "read", sector |-> s] \in ReadCall
    BY DEF ReadCall
  <2> QED
    BY <1>4, <2>1, <2>2, BeginKeeps
<1>8. ASSUME NEW s \in Sector, NEW d \in Data, sd_block_write(s, d)
      PROVE  CInv' /\ DeviceStep
  <2>1. /\ Begin([op |-> "write", sector |-> s, data |-> d], "cmd_24")
        /\ sd' = sd
    BY <1>8 DEF sd_block_write
  <2>2. [op |-> "write", sector |-> s, data |-> d] \in WriteCall
    BY DEF WriteCall
  <2> QED
    BY <1>4, <2>1, <2>2, BeginKeeps
<1> QED
  BY <1>1, <1>2, <1>3, <1>5, <1>6, <1>7, <1>8 DEF Next

\* Before the first call the card holds what it holds, and does nothing.
LEMMA CardInit == ASSUME ConstantsOK, Init PROVE CInv /\ Device!Init
<1>1. PICK k \in Kind, volts \in BOOLEAN, m \in [Sector -> Data] :
        card = NewCard(k, volts, m)
  BY DEF Init
<1>2. /\ card \in CardType /\ card.memory = m /\ card.writing = None
      /\ card.transfer = None
  BY <1>1 DEF NewCard, CardType
<1>3. /\ sd = Zeroed /\ pc = "ready" /\ call = None /\ reply = None
  BY DEF Init
<1>4. sd \in DriverType /\ ~sd.initialized
  BY <1>3 DEF Zeroed, sdcard_initializer, DriverType, Version
<1>5. CallInStep /\ UnitKnown /\ TransferInStep
  BY <1>2, <1>3, <1>4
  DEF CallInStep, UnitKnown, TransferInStep, Busy, Woken, Initializing
<1>6. Device!Init
  BY <1>2, <1>3 DEF Device!Init
<1> QED
  BY <1>2, <1>4, <1>5, <1>6 DEF CInv

\* Every behaviour of the driver and the card is one of a block device.
LEMMA StepsOfADevice ==
  ASSUME ConstantsOK PROVE Init /\ [][Next]_vars => ImplementsDevice
<1>1. Init => CInv /\ Device!Init
  BY CardInit
<1>2. CInv /\ [Next]_vars => CInv' /\ [Device!Next]_Device!vars
  BY DeviceSteps DEF DeviceStep
<1> QED
  BY <1>1, <1>2, PTL DEF ImplementsDevice, Device!Spec

\* A read that succeeds returns what the card holds, and a write that succeeds
\* is on the card, however slow the card is, whichever unit it counts in, and
\* wherever the CPU restarts (sdcard.c:163-268, 321-371, 388-441).
THEOREM CardIsADevice == ASSUME ConstantsOK PROVE Spec => ImplementsDevice
  BY StepsOfADevice, PTL DEF Spec

=============================================================================
