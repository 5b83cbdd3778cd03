------------------------------- MODULE Volume -------------------------------
(***************************************************************************)
(* From the partition table to an open file: partition_block_device and     *)
(* fs_init at boot, the directory calls of file_system.c, and the commands   *)
(* that walk directories and hold handles while they do (ls, cd, cat,        *)
(* hexdump and write of file_system/commands.c, and record.c).               *)
(*                                                                         *)
(* A turn of the loop of fs_dir_read is a step.  What a command does with    *)
(* its files once they are open is in FatFile and RecordLog: here it works   *)
(* or fails.  The disk is a constant: nothing in the firmware changes a      *)
(* directory or a table.                                                   *)
(***************************************************************************)
EXTENDS Integers, Sequences, SequencesExt, FiniteSets

CONSTANTS
  Disk,           \* the disks a user may insert
  Name,           \* the names a user may type
  MaxDirs, MaxFiles,           \* FS_MAX_OPEN_DIRS, FS_MAX_OPEN_FILES
  MaxBlocks, MaxPartitions,    \* BLOCK_COUNT_MAX, PARTITION_COUNT_MAX
  ENTRIES_PER_SECTOR, ROOT_DIRECTORY_ENTRIES

\* A directory at a time is open, and record holds two files: the code has room for two of each.
ConstantsOK ==
  /\ MaxDirs \in Nat \ {0} /\ MaxFiles \in Nat \ {0, 1}
  /\ MaxBlocks \in Nat /\ MaxPartitions \in Nat
  /\ ENTRIES_PER_SECTOR \in Nat /\ ROOT_DIRECTORY_ENTRIES \in Nat

VARIABLES
  disk,       \* the disk in the slot
  partition,  \* _partition_table, what is used of it
  device,     \* _block_table: 0 is the card, others an index of partition
  volume,     \* _file_system[0]
  directory,  \* _directory
  file,       \* _file: the handles only
  command     \* the command that runs

vars == <<disk, partition, device, volume, directory, file, command>>

Idle == [op |-> "none", at |-> "idle", want |-> <<>>, opened |-> <<>>,
         dir |-> -1, found |-> <<>>]
Closed == [initialized |-> FALSE, head |-> 0, current_entry |-> 0]

----------------------------------------------------------------------------
(* Boot *)

\* parition_valid
FatType(e) == e.type \in {"fat16", "fat32"}

\* partition_block_device: the table is read from its last entry to its first,
\* and each FAT partition becomes a block device until a table is full.
Partitions ==
  LET n     == Len(disk.table)
      \* Those among the last i entries.
      last[i \in 0 .. n] ==
        IF i = 0 THEN <<>>
        ELSE IF FatType(disk.table[n - i + 1]) THEN Append(last[i - 1], disk.table[n - i + 1])
        ELSE last[i - 1]
      valid == IF disk.signature THEN last[n] ELSE <<>>
      room  == IF MaxPartitions < MaxBlocks - 1
               THEN MaxPartitions ELSE MaxBlocks - 1
  IN [found |-> SubSeq(valid, 1, IF Len(valid) < room THEN Len(valid) ELSE room),
      ok |-> disk.signature /\ Len(valid) <= room]

BootSector(block) ==
  IF device[block] = 0 THEN disk.boot[0]
  ELSE disk.boot[partition[device[block]].start]

\* 0 and the powers of two.
power_of_two(value) == value \in {0, 1, 2, 4, 8, 16, 32, 64, 128}

Mountable(b) ==
  /\ b.signature /\ b.bytes_per_sector = 512 /\ b.fats = 2
  /\ power_of_two(b.sectors_per_cluster)
  /\ b.root_entries \in {0, ROOT_DIRECTORY_ENTRIES}

\* fs_init on a volume not mounted yet.
Mounted(block) ==
  LET b == BootSector(block)
  IN [initialized |-> TRUE, block |-> block,
      type |-> IF b.root_entries = 0 THEN "fat32" ELSE "fat16",
      root |-> IF b.root_entries = 0 THEN b.root_cluster ELSE 0,
      current |-> IF b.root_entries = 0 THEN b.root_cluster ELSE 0,
      sectors_per_cluster |-> b.sectors_per_cluster]

NotMounted == [initialized |-> FALSE, block |-> 0, type |-> "fat16", root |-> 0,
               current |-> 0, sectors_per_cluster |-> 0]

fs_init(block) ==
  IF /\ ~volume.initialized
     /\ block \in DOMAIN device
     /\ Mountable(BootSector(block))
  THEN volume' = Mounted(block)
  ELSE UNCHANGED volume

\* sdcard_init finds the partitions; fs_module_init mounts the first of them,
\* the last of the table, unless the boot has stopped before.
BootCard ==
  /\ command.at = "boot"
  /\ partition' = Partitions.found
  /\ device' = [i \in 0 .. Len(Partitions.found) |-> i]
  /\ command' = [Idle EXCEPT !.at = IF Partitions.ok THEN "mount" ELSE "idle"]
  /\ UNCHANGED <<disk, volume, directory, file>>

BootVolume ==
  /\ command.at = "mount"
  /\ fs_init(1)
  /\ command' = Idle
  /\ UNCHANGED <<disk, partition, device, directory, file>>

----------------------------------------------------------------------------
(* Directories *)

\* The entries in the cluster a handle is at; a subdirectory of FAT16 names
\* the root by cluster zero.
Entries(cluster) == BootSector(volume.block).entries[cluster]

\* Only the first cluster is read.
Limit(sectors_per_cluster) ==
  LET n == sectors_per_cluster * ENTRIES_PER_SECTOR
  IN IF n < ROOT_DIRECTORY_ENTRIES THEN n ELSE ROOT_DIRECTORY_ENTRIES
max_entries == Limit(volume.sectors_per_cluster)

\* Neither a system file, a hidden one nor a volume's label.
Normal(e) == e.kind \in {"file", "directory"}

\* Wrong: a cluster of zero stays as it is.
cluster_head_AsStored(e) == e.cluster
\* On FAT32 a cluster of zero means the root directory.
cluster_head(e) ==
  IF volume.type = "fat32" /\ e.cluster = 0 THEN volume.root ELSE e.cluster

\* fs_dir_read_name: eight and three characters without their blanks.
name(e) == IF e.extension = "" THEN e.base ELSE e.base \o "." \o e.extension

Seen(e) == [name |-> name(e), kind |-> e.kind, cluster |-> cluster_head(e)]

\* The lowest free handle of a table, if there is one.
Unused(table) ==
  { i \in DOMAIN table : ~table[i].initialized /\
      \A j \in DOMAIN table : j < i => table[j].initialized }

----------------------------------------------------------------------------
(* Commands *)

Unchanged == UNCHANGED <<disk, partition, device, volume>>

\* A command that stops closes the files it has opened, as record_command,
\* read_config_data, show_file and write_command all do.
Abandon(files) ==
  /\ file' = [i \in DOMAIN files |->
                IF \E j \in DOMAIN command.opened : command.opened[j] = i
                THEN Closed ELSE files[i]]
  /\ command' = Idle

\* ls takes no name, cd one; cat, hexdump and write open one file; record
\* opens, reads and closes config.dat and then opens two.
Type ==
  /\ command.at = "idle"
  /\ \E op \in {"ls", "cd", "cat", "record"}, n \in [1 .. 3 -> Name] :
       /\ op # "record" => n[2] = n[1] /\ n[3] = n[1]
       /\ op = "ls" => n[1] = CHOOSE m \in Name : TRUE
       /\ command' = [Idle EXCEPT !.op = op, !.at = "open",
            !.want = CASE op = "ls" -> <<>>
                       [] op = "record" -> n
                       [] OTHER -> <<n[1]>>]
  /\ UNCHANGED <<directory, file>>
  /\ Unchanged

fs_init_command(block) ==
  /\ command.at = "idle"
  /\ fs_init(block)
  /\ UNCHANGED <<disk, partition, device, directory, file, command>>

fs_dir_open ==
  /\ command.at = "open"
  /\ \/ /\ volume.initialized
        /\ \E d \in Unused(directory) :
             /\ directory' = [directory EXCEPT ![d] =
                  [initialized |-> TRUE, head |-> volume.current,
                   current_entry |-> 0]]
             /\ command' = [command EXCEPT !.at = "read", !.dir = d,
                                           !.found = <<>>]
        /\ UNCHANGED file
     \/ /\ ~volume.initialized \/ Unused(directory) = {}
        /\ Abandon(file)
        /\ UNCHANGED directory
  /\ Unchanged

Handle == directory[command.dir]
Entry  == Entries(Handle.head)[Handle.current_entry + 1]

\* fs_dir_read returns null: at the limit, or at an entry never used.
AtEnd == Handle.current_entry < max_entries => Entry.kind = "end"

Wanted(seen) == command.op # "ls" /\ seen.name = Head(command.want)

\* A turn of the loop of fs_dir_read in ls_command or fs_dir_lookup.
fs_dir_read ==
  /\ command.at = "read" /\ ~AtEnd
  /\ directory' = [directory EXCEPT ![command.dir].current_entry = @ + 1]
  /\ command' =
       IF ~Normal(Entry) THEN command
       ELSE IF command.op = "ls"
       THEN [command EXCEPT !.found = Append(@, Seen(Entry))]
       ELSE IF Wanted(Seen(Entry))
       THEN [command EXCEPT !.found = <<Seen(Entry)>>, !.at = "found"]
       ELSE command
  /\ UNCHANGED file
  /\ Unchanged

fs_dir_close(d) == directory' = [directory EXCEPT ![d] = Closed]

\* ls is done.
Listed ==
  /\ command.at = "read" /\ AtEnd /\ command.op = "ls"
  /\ fs_dir_close(command.dir)
  /\ command' = Idle
  /\ UNCHANGED file
  /\ Unchanged

\* Wrong: the way out of a failed lookup forgets the directory.
LookupFailure_KeepsDirectory ==
  /\ command.at = "read" /\ AtEnd /\ command.op # "ls"
  /\ Abandon(file)
  /\ UNCHANGED directory
  /\ Unchanged

LookupFailure ==
  /\ command.at = "read" /\ AtEnd /\ command.op # "ls"
  /\ fs_dir_close(command.dir)
  /\ Abandon(file)
  /\ Unchanged

\* fs_cd takes directories only; the handle is closed either way.
fs_cd ==
  /\ command.at = "found" /\ command.op = "cd"
  /\ volume' = IF command.found[1].kind = "directory"
               THEN [volume EXCEPT !.current = command.found[1].cluster]
               ELSE volume
  /\ fs_dir_close(command.dir)
  /\ command' = Idle
  /\ UNCHANGED <<disk, partition, device, file>>

\* file_open of both sources: the file, and then the directory is closed.
file_open ==
  /\ command.at = "found" /\ command.op \in {"cat", "record"}
  /\ fs_dir_close(command.dir)
  /\ \/ \E f \in Unused(file) :
          /\ file' = [file EXCEPT ![f] =
               [initialized |-> TRUE, head |-> command.found[1].cluster,
                current_entry |-> 0]]
          /\ command' = [command EXCEPT !.opened = Append(@, f),
               !.want = Tail(@),
               !.at = IF Len(command.want) = 2 THEN "open" ELSE "use"]
     \/ /\ Unused(file) = {}
        /\ Abandon(file)
  /\ Unchanged

\* The configuration has been read, and names the other two files.
ConfigRead ==
  /\ command.at = "use" /\ Len(command.want) = 2
  /\ file' = [file EXCEPT ![command.opened[1]] = Closed]
  /\ command' = [command EXCEPT !.at = "open", !.opened = <<>>]
  /\ UNCHANGED directory
  /\ Unchanged

\* The command is over, or a step of it has failed.
End ==
  /\ command.at = "use"
  /\ Abandon(file)
  /\ UNCHANGED directory
  /\ Unchanged

Init ==
  /\ disk \in Disk
  /\ partition = <<>>
  /\ device = [i \in {} |-> 0]
  /\ volume = NotMounted
  /\ directory = [i \in 0 .. MaxDirs - 1 |-> Closed]
  /\ file = [i \in 0 .. MaxFiles - 1 |-> Closed]
  /\ command = [Idle EXCEPT !.at = "boot"]

Next ==
  \/ BootCard \/ BootVolume
  \/ Type
  \/ \E block \in 0 .. MaxBlocks - 1 : fs_init_command(block)
  \/ fs_dir_open \/ fs_dir_read \/ Listed \/ LookupFailure
  \/ fs_cd \/ file_open \/ ConfigRead \/ End

Spec == Init /\ [][Next]_vars

----------------------------------------------------------------------------
(* The disks *)

\* Its directories are as long as their first cluster, and their clusters hold
\* directories, but for the zero that stands for the root.
WellFormed(b) ==
  /\ (IF b.root_entries = 0 THEN b.root_cluster ELSE 0) \in DOMAIN b.entries
  /\ \A c \in DOMAIN b.entries :
       /\ b.entries[c] \in Seq(ToSet(b.entries[c]))
       /\ Len(b.entries[c]) >= Limit(b.sectors_per_cluster)
       /\ \A e \in ToSet(b.entries[c]) :
            e.kind = "directory" /\ e.cluster # 0 => e.cluster \in DOMAIN b.entries

\* There is a sector where a partition begins, and a volume that can be mounted
\* is well formed.
DiskOK(d) ==
  /\ d.table \in Seq(ToSet(d.table)) /\ 0 \in DOMAIN d.boot
  /\ \A e \in ToSet(d.table) : FatType(e) => e.start \in DOMAIN d.boot
  /\ \A s \in DOMAIN d.boot : Mountable(d.boot[s]) => WellFormed(d.boot[s])
DisksOK == \A d \in Disk : DiskOK(d)

----------------------------------------------------------------------------
(* Properties *)

\* No way out of a command leaves a handle behind, so that with two of each
\* kind every command can be given again for ever, and none fails for want of
\* a handle (commands.c:68-93, record.c:56-83 and 323-342).
HandlesComeBack ==
  /\ command.at = "idle" =>
       \A i \in DOMAIN directory : ~directory[i].initialized
  /\ command.at = "idle" => \A i \in DOMAIN file : ~file[i].initialized
  /\ command.at = "open" => Unused(directory) # {}
  /\ command.at = "found" => Unused(file) # {}

\* What a user sees of a directory, without the loop: the normal entries before
\* the first that was never used, of those in its first cluster.
Visible(cluster) ==
  LET e == Entries(cluster)
  IN { i \in DOMAIN e : i <= max_entries /\ Normal(e[i]) /\
         \A j \in 1 .. i : e[j].kind # "end" }

\* found is all of these, in their order.
Shows(found, cluster) ==
  LET v == Visible(cluster)
  IN /\ Len(found) = Cardinality(v)
     /\ \A i \in v : found[Cardinality({ j \in v : j <= i })] = Seen(Entries(cluster)[i])

\* Those of the name that is looked for.
Matches(cluster) == { i \in Visible(cluster) : Wanted(Seen(Entries(cluster)[i])) }

\* ls shows exactly those, cd and the commands on files find the first of the
\* name, and the current directory is always a directory of the volume, also
\* after going up to the root of either kind of volume.
Directories ==
  LET entries == BootSector(volume.block).entries
      all == UNION { ToSet(entries[c]) : c \in DOMAIN entries }
  IN {volume.root} \union
     { e.cluster : e \in { x \in all : x.kind = "directory" /\ x.cluster # 0 } }
DirectoriesAgree ==
  /\ command.at = "read" /\ AtEnd =>
       IF command.op = "ls" THEN Shows(command.found, Handle.head)
       ELSE Matches(Handle.head) = {}
  /\ command.at = "found" =>
       \E i \in Matches(Handle.head) :
         /\ command.found = <<Seen(Entries(Handle.head)[i])>>
         /\ \A j \in Matches(Handle.head) : i <= j
  /\ volume.initialized => volume.current \in Directories
=============================================================================
