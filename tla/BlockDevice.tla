---------------------------- MODULE BlockDevice ----------------------------
(***************************************************************************)
(* What a block device promises libs/block: a read that succeeds returns   *)
(* what was written last, a write that succeeds is on the device, and one   *)
(* that fails may still arrive later, before anything else is read or       *)
(* written.                                                                 *)
(***************************************************************************)
CONSTANTS
  Sector,  \* the blocks
  Data,    \* what a block may hold
  None     \* neither a request nor a write

VARIABLES
  memory,   \* what the device holds
  pending,  \* a write the device has accepted and not finished
  request,  \* the call in progress
  answer    \* what the last call returned

vars == <<memory, pending, request, answer>>

Request == [op : {"read"}, sector : Sector] \union
           [op : {"write"}, sector : Sector, data : Data]

Init ==
  /\ memory \in [Sector -> Data]
  /\ pending = None
  /\ request = None
  /\ answer = None

Call(r) ==
  /\ request = None
  /\ request' = r
  /\ answer' = None
  /\ UNCHANGED <<memory, pending>>

Accept ==
  /\ request # None /\ request.op = "write"
  /\ pending = None
  /\ pending' = request
  /\ UNCHANGED <<memory, request, answer>>

Land ==
  /\ pending # None
  /\ memory' = [memory EXCEPT ![pending.sector] = pending.data]
  /\ pending' = None
  /\ UNCHANGED <<request, answer>>

Return ==
  /\ request # None
  /\ pending = None
  /\ IF request.op = "read"
     THEN answer' = [ok |-> TRUE, data |-> memory[request.sector]]
     ELSE /\ memory[request.sector] = request.data
          /\ answer' = [ok |-> TRUE]
  /\ request' = None
  /\ UNCHANGED <<memory, pending>>

Fail ==
  /\ request # None
  /\ answer' = [ok |-> FALSE]
  /\ request' = None
  /\ UNCHANGED <<memory, pending>>

\* The computer restarts; the device does not notice.
Restart ==
  /\ request' = None
  /\ answer' = None
  /\ UNCHANGED <<memory, pending>>

Next ==
  \/ \E r \in Request : Call(r)
  \/ Accept
  \/ Land
  \/ Return
  \/ Fail
  \/ Restart

Spec == Init /\ [][Next]_vars
=============================================================================
