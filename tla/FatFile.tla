------------------------------ MODULE FatFile ------------------------------
(***************************************************************************)
(* Open files on a FAT volume (libs/file_system/file_system.c).  A file is *)
(* a chain of clusters; an open file keeps, besides its position, the      *)
(* cluster it is in and how far into it, and every seek, read and write    *)
(* moves the three together.  A cluster that has just been used up stays   *)
(* current until something needs the next one.                             *)
(*                                                                         *)
(* `data' is the volume as the buffer cache shows it, so buffer_sync       *)
(* changes nothing here.  Each turn of the loops of fs_file_read and       *)
(* fs_file_write is a step.                                                *)
(***************************************************************************)
EXTENDS Integers, Sequences, FiniteSets

CONSTANTS
  Name, Length, head,  \* directory entries: a length, a first cluster
  Cluster, Eoc, fat,   \* the allocation table, and the mark that ends a chain
  ClusterBytes, Byte,
  Image,               \* what the volume may hold at first
  Slot, Free,          \* FS_MAX_OPEN_FILES
  MaxCount, Offset     \* bounds: bytes in one call, and offsets of a seek

VARIABLES data, file, call, reply

vars == <<data, file, call, reply>>

\* The cluster k links down the chain from c.
Follow(k, c) ==
  LET reached[i \in 0 .. k] == IF i = 0 THEN c ELSE fat[reached[i - 1]]
  IN  reached[k]

\* The cluster of each byte of each file.
Place == UNION {{n} \X (0 .. Length[n] - 1) : n \in Name}
ClusterOf ==
  [x \in Place |-> Follow(x[2] \div ClusterBytes, head[x[1]])]

Within == 0 .. ClusterBytes - 1

OpenFile == [name : Name, current : Cluster \cup {Eoc}, position : Nat,
             cluster_position : 0 .. ClusterBytes]

\* A volume whose directory and allocation table agree.
ASSUME VolumeAssumption ==
  /\ ClusterBytes \in Nat \ {0} /\ MaxCount \in Nat /\ Offset \subseteq Int
  /\ Image \subseteq [Cluster -> [Within -> Byte]]
  /\ Slot \subseteq Nat /\ Free \notin Name \cup OpenFile /\ Eoc \notin Cluster
  /\ fat \in [Cluster -> Cluster \cup {Eoc}]
  /\ Length \in [Name -> Nat] /\ head \in [Name -> Cluster \cup {Eoc}]
  /\ \A x, y \in Place :
       /\ ClusterOf[x] \in Cluster
       /\ ClusterOf[x] = ClusterOf[y] =>
            /\ x[1] = y[1]
            /\ x[2] \div ClusterBytes = y[2] \div ClusterBytes

Open   == {s \in Slot : file[s] # Free}
Idle   == call.op = "none"
NoCall == [op |-> "none", slot |-> Free, left |-> 0, bytes |-> <<>>]
Answer(result) == [result |-> result, bytes |-> <<>>]

TypeOK ==
  /\ data \in [Cluster -> [Within -> Byte]]
  /\ file \in [Slot -> OpenFile \cup {Free}]
  /\ call \in [op : {"none", "read", "write"}, slot : Slot \cup {Free},
               left : 0 .. MaxCount,
               bytes : UNION {[1 .. k -> Byte] : k \in 0 .. MaxCount}]
  /\ reply \in [result : {"none", "success", "failure", "end_of_file"},
                bytes : UNION {[1 .. k -> Byte] : k \in 0 .. MaxCount}]

-----------------------------------------------------------------------------
Init ==
  /\ data \in Image
  /\ file = [s \in Slot |-> Free]
  /\ call = NoCall
  /\ reply = Answer("none")

fs_file_open(n) ==
  /\ Idle
  /\ UNCHANGED <<data, call>>
  /\ \/ \E s \in Slot \ Open :
          /\ \A t \in Slot \ Open : s <= t
          /\ file' = [file EXCEPT ![s] =
               [name |-> n, current |-> head[n], position |-> 0,
                cluster_position |-> 0]]
          /\ reply' = Answer("success")
     \/ /\ Open = Slot
        /\ reply' = Answer("failure")
        /\ UNCHANGED file

fs_file_close(s) ==
  /\ Idle
  /\ file' = [file EXCEPT ![s] = Free]
  /\ reply' = Answer("success")
  /\ UNCHANGED <<data, call>>

\* Where a seek is to go.
Base(f, type) ==
  CASE type = "beginning" -> 0
    [] type = "current"   -> f.position
    [] type = "end"       -> Length[f.name]

\* Wrong: the end of the file is a place to go to.
Refused_TakesEnd(f, type, offset) ==
  \/ type = "beginning" /\ offset < 0
  \/ type # "beginning" /\ offset < 0 /\ -offset >= Base(f, type)
  \/ Base(f, type) + offset > Length[f.name]

Refused(f, type, offset) ==
  \/ type = "beginning" /\ offset < 0
  \/ type # "beginning" /\ offset < 0 /\ -offset >= Base(f, type)
  \/ Base(f, type) + offset >= Length[f.name]

\* Wrong: going back, it keeps the offset in the cluster it leaves.
Arrive_KeepsOffset(f, position) ==
  LET back      == position < f.position
      bytes     == IF back THEN position ELSE position - f.position
      remainder == (f.cluster_position + bytes) % ClusterBytes
  IN [f EXCEPT !.position = position, !.cluster_position = remainder,
               !.current = Follow(bytes \div ClusterBytes,
                             IF back THEN head[f.name] ELSE f.current)]

\* Backwards from the head of the chain, forwards from where it is.
Arrive(f, position) ==
  LET back      == position < f.position
      bytes     == IF back THEN position ELSE position - f.position
      reached   == Follow(bytes \div ClusterBytes,
                          IF back THEN head[f.name] ELSE f.current)
      remainder == (IF back THEN 0 ELSE f.cluster_position)
                     + (bytes % ClusterBytes)
      over      == remainder >= ClusterBytes
  IN [f EXCEPT !.position = position,
               !.current = IF over THEN fat[reached] ELSE reached,
               !.cluster_position =
                 IF over THEN remainder - ClusterBytes ELSE remainder]

fs_file_seek(s, type, offset) ==
  /\ Idle
  /\ UNCHANGED <<data, call>>
  /\ \/ /\ Refused(file[s], type, offset)
        /\ reply' = Answer("failure")
        /\ UNCHANGED file
     \/ /\ ~Refused(file[s], type, offset)
        /\ file' = [file EXCEPT ![s] =
                      Arrive(@, Base(@, type) + offset)]
        /\ reply' = Answer("success")

fs_file_read(s, count) ==
  /\ Idle
  /\ call' = [op |-> "read", slot |-> s, left |-> count, bytes |-> <<>>]
  /\ reply' = Answer("none")
  /\ UNCHANGED <<data, file>>

fs_file_write(s, bytes) ==
  /\ Idle
  /\ call' = [op |-> "write", slot |-> s, left |-> Len(bytes), bytes |-> bytes]
  /\ reply' = Answer("none")
  /\ UNCHANGED <<data, file>>

\* The test for the end at the top of both loops.  On a volume that obeys
\* VolumeAssumption the mark is met only where the length runs out too.
AtEnd(f) == f.position = Length[f.name] \/ f.current = Eoc

\* How many bytes this turn of the loop moves: none when the current
\* cluster is used up, and the turn only takes the next one.
Least(S) == CHOOSE x \in S : \A y \in S : x <= y

Count(f) == Least({ClusterBytes - f.cluster_position, call.left,
                   Length[f.name] - f.position})

\* The file after the turn; another turn to come takes the next cluster.
Advance(f, k) ==
  LET more == call.left > k
  IN [f EXCEPT !.position = @ + k,
               !.current = IF more THEN fat[@] ELSE @,
               !.cluster_position = IF more THEN 0 ELSE @ + k]

Transfer ==
  /\ call.left > 0
  /\ LET s == call.slot
         f == file[s]
         k == Count(f)
         o == f.cluster_position
     IN /\ ~AtEnd(f)
        /\ file' = [file EXCEPT ![s] = Advance(f, k)]
        /\ \/ /\ call.op = "read"
              /\ reply' = [reply EXCEPT !.bytes =
                   @ \o [i \in 1 .. k |-> data[f.current][o + i - 1]]]
              /\ call' = [call EXCEPT !.left = @ - k]
              /\ UNCHANGED data
           \/ /\ call.op = "write"
              /\ data' = [data EXCEPT ![f.current] =
                   [x \in Within |-> IF x \in o .. o + k - 1
                                     THEN call.bytes[x - o + 1] ELSE @[x]]]
              /\ call' = [call EXCEPT !.left = @ - k,
                                      !.bytes = SubSeq(@, k + 1, Len(@))]
              /\ UNCHANGED reply

Return ==
  /\ ~Idle
  /\ \/ /\ call.left = 0
        /\ reply' = [reply EXCEPT !.result = "success"]
     \/ /\ call.left > 0 /\ AtEnd(file[call.slot])
        /\ reply' = [reply EXCEPT !.result = "end_of_file"]
  /\ call' = NoCall
  /\ UNCHANGED <<data, file>>

Next ==
  \/ \E n \in Name : fs_file_open(n)
  \/ \E s \in Open : fs_file_close(s)
  \/ \E s \in Open, type \in {"beginning", "current", "end"},
       offset \in Offset : fs_file_seek(s, type, offset)
  \/ \E s \in Open, count \in 1 .. MaxCount : fs_file_read(s, count)
  \/ \E s \in Open, count \in 1 .. MaxCount :
       \E bytes \in [1 .. count -> Byte] : fs_file_write(s, bytes)
  \/ Transfer
  \/ Return

\* A call runs to its end: nothing waits inside the two loops.
Spec == Init /\ [][Next]_vars /\ WF_vars(Transfer) /\ WF_vars(Return)

-----------------------------------------------------------------------------
(* The cluster and the offset in it are those of the position.  The one    *)
(* exception is a position at the boundary of two clusters, which may      *)
(* still be held as the far end of the first (file_system.c:427-434).      *)
InStep ==
  /\ TypeOK
  /\ \A s \in Open :
       LET f == file[s]
           p == f.position
       IN /\ p <= Length[f.name]
          /\ p < Length[f.name] =>
               \/ /\ f.current = ClusterOf[<<f.name, p>>]
                  /\ f.cluster_position = p % ClusterBytes
               \/ /\ p > 0 /\ p % ClusterBytes = 0
                  /\ f.current = ClusterOf[<<f.name, p - 1>>]
                  /\ f.cluster_position = ClusterBytes

(* Whatever the chain looks like, a file is an array of bytes: seeks,      *)
(* reads and writes through either slot see and change the bytes of their  *)
(* own file at their own position, only fail where a flat file would, and  *)
(* every call ends (file_system.c:233-510).                                *)
Flat ==
  INSTANCE FlatFiles WITH
    content <- [x \in Place |-> data[ClusterOf[x]][x[2] % ClusterBytes]],
    opened <- [s \in Slot |-> IF file[s] = Free THEN Free ELSE file[s].name],
    position <- [s \in Slot |-> IF file[s] = Free THEN 0 ELSE file[s].position]

ImplementsFiles == Flat!Spec
=============================================================================
