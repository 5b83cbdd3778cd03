------------------------------- MODULE MCLog -------------------------------
(***************************************************************************)
(* The recording for TLC, from the card it lies on to the program that     *)
(* reads it, and the libraries of that program: each part in behaviours of *)
(* its own.  running says which one moves, the others stand where they     *)
(* begin.                                                                  *)
(*                                                                         *)
(* RecordLog: three restarts on a data file of twelve blocks.              *)
(* Volume: three cards: one with a volume of each kind, one with more FAT  *)
(* partitions than there is room for, and one without a partition table.   *)
(* LogReader: recordings from the last day of a year on, a day of 24 hours *)
(* of five ticks and a year of three days.                                 *)
(* HostErrors: a stack of two elements and calls four deep.                *)
(* HostModules: three modules, and every table of their dependencies.      *)
(* HostString: two variables, and texts of up to two characters.           *)
(***************************************************************************)
EXTENDS RecordLog, Sequences, TLC

CONSTANTS
  FileName, MaxDirs, MaxFiles, MaxBlocks, MaxPartitions, ENTRIES_PER_SECTOR, ROOT_DIRECTORY_ENTRIES,
  TicksPerHour, TicksPerBlock, Threshold, DaysPerYear, StartYears, StartHours,
  LogBlocks, MaxOthers, MaxSlips, From, To,
  Length, MaxDepth, MaxErrors, MaxClears,
  SysModule, MaxFailures,
  Variable, Character, Nul, Unknown, None, Addresses, MaxLength, MaxPadding

VARIABLES
  running,
  card, partition, device, volume, directory, file, command,
  step, status, block, seq, delivered, log,
  _array, _current, _will_print, frames, made, clears, printed, kept, revived,
  dependancies, _initializer_list, _state, _error, current, calls, tried,
  heap, _contents, meaning, displaced

mounted == <<card, partition, device, volume, directory, file, command>>
reader  == <<step, status, block, seq, delivered, log>>
errors  == <<_array, _current, _will_print, frames, made, clears, printed, kept, revived>>
modules == <<dependancies, _initializer_list, _state, _error, current, calls, tried>>
strings == <<heap, _contents, meaning, displaced>>

----------------------------------------------------------------------------
EntryOf(name, extension, kind, cluster) ==
  [base |-> name, extension |-> extension, kind |-> kind, cluster |-> cluster]

\* A directory as long as a cluster or the root, whose rest was never used.
Filled(entries, length) ==
  entries \o [i \in 1 .. length - Len(entries) |-> EntryOf("", "", "end", 0)]

Sub == << EntryOf(".", "", "directory", 3), EntryOf("..", "", "directory", 0),
          EntryOf("b", "dat", "file", 6) >>

BootFat16 ==
  [signature |-> TRUE, bytes_per_sector |-> 512, fats |-> 2, sectors_per_cluster |-> 2,
   root_entries |-> 8, root_cluster |-> 0,
   entries |-> 0 :> << EntryOf("LABEL", "", "volume", 0), EntryOf("a", "", "deleted", 0),
                       EntryOf("a", "", "file", 5), EntryOf("sub", "", "directory", 3) >>
               @@ 3 :> Filled(Sub, 4)]

BootFat32 ==
  [signature |-> TRUE, bytes_per_sector |-> 512, fats |-> 2, sectors_per_cluster |-> 4,
   root_entries |-> 0, root_cluster |-> 2,
   entries |-> 2 :> Filled(<< EntryOf("a", "", "file", 5), EntryOf("sub", "", "directory", 3),
                              EntryOf("a", "", "file", 7) >>, 8)
               @@ 3 :> Filled(Sub, 8)]

NoBoot == [BootFat16 EXCEPT !.signature = FALSE]

Table(types, starts) == [i \in 1 .. 4 |-> [type |-> types[i], start |-> starts[i]]]

BothKinds ==
  [signature |-> TRUE, table |-> Table(<<"fat16", "other", "fat32", "other">>, <<1, 0, 2, 0>>),
   boot |-> 0 :> NoBoot @@ 1 :> BootFat16 @@ 2 :> BootFat32]
TooMany ==
  [signature |-> TRUE, table |-> Table(<<"fat16", "fat16", "fat16", "fat32">>, <<1, 2, 2, 2>>),
   boot |-> 0 :> NoBoot @@ 1 :> BootFat16 @@ 2 :> NoBoot]
NoTable == [BothKinds EXCEPT !.signature = FALSE]

MCDisk == {BothKinds, TooMany, NoTable}
MCName == {"a", "b.dat", "sub", ".."}

Dir == INSTANCE Volume WITH disk <- card, Name <- FileName, Disk <- MCDisk
Reader == INSTANCE LogReader WITH pc <- step, BlockTicks <- TicksPerBlock, MaxBlocks <- LogBlocks

\* The modules one may depend on, in the order it names them.
MayNeed(m) ==
  LET others == SysModule \ {m}
  IN {<<>>} \cup {<<d>> : d \in others} \cup {<<d, e>> : d \in others, e \in others}
Needs == {s \in UNION {MayNeed(m) : m \in SysModule} : Len(s) = 2 => s[1] # s[2]}
MCDependancies == {t \in [SysModule -> Needs] : \A m \in SysModule : t[m] \in MayNeed(m)}

MCTexts == {<<>>, <<"first", "second">>}

Errors  == INSTANCE HostErrors
Modules == INSTANCE HostModules WITH Module <- SysModule, Dependancies <- MCDependancies
Strings == INSTANCE HostString WITH Texts <- MCTexts

ASSUME HandlesAssumption == Dir!ConstantsOK
ASSUME DisksAssumption   == Dir!DisksOK
ASSUME LengthAssumption  == Errors!ConstantsOK
ASSUME StringsAssumption == Strings!ConstantsOK
ASSUME ReaderAssumption  == Reader!ConstantsOK /\ Reader!ClearOfLeapYears

----------------------------------------------------------------------------
MCInit ==
  /\ Init /\ Dir!Init /\ Reader!Init /\ Errors!Init /\ Modules!Init /\ Strings!Init
  /\ running \in {"record", "volume", "reader", "errors", "modules", "strings"}
  /\ running # "volume" => card = NoTable
  /\ running # "reader" => log.now = CHOOSE now \in Reader!Starts : TRUE
  /\ running # "modules" => dependancies = [m \in SysModule |-> <<>>]
  /\ running # "strings" => heap[Strings!Empty]._references = 1

host == <<errors, modules, strings>>

Record(action)    == running = "record"  /\ action /\ UNCHANGED <<running, mounted, reader, host>>
Mounted(action)   == running = "volume"  /\ action /\ UNCHANGED <<running, vars, reader, host>>
Reads(action)     == running = "reader"  /\ action /\ UNCHANGED <<running, vars, mounted, host>>
Fails(action)     == running = "errors"  /\ action
                     /\ UNCHANGED <<running, vars, mounted, reader, modules, strings>>
Registers(action) == running = "modules" /\ action
                     /\ UNCHANGED <<running, vars, mounted, reader, errors, strings>>
Writes(action)    == running = "strings" /\ action
                     /\ UNCHANGED <<running, vars, mounted, reader, errors, modules>>

MCNext ==
  \/ Record(Next) \/ Mounted(Dir!Next) \/ Reads(Reader!Next)
  \/ Fails(Errors!Next) \/ Registers(Modules!Next) \/ Writes(Strings!Next)

MCSpec == MCInit /\ [][MCNext]_<<running, vars, mounted, reader, host>>

----------------------------------------------------------------------------
\* Bound: a replace displaces the text of one String at a time, and of those that share its contents.
OneDisplaced == \A v, w \in displaced : _contents[v] = _contents[w]

\* Every way out of a command gives back the directory and file handles it took.
HandlesComeBack == Dir!HandlesComeBack

\* ls, cd and the commands on files see the same directory, the one a reader of the card would see.
DirectoriesAgree == Dir!DirectoriesAgree

\* The reader hands every block on once, in order, with the time at which it was recorded.
DeliveredTrue == Reader!DeliveredTrue

\* A block is held back only while the hour of its sequence cannot be told, and lives until it is handed on.
HeldUntilTold == Reader!HeldUntilTold

\* The reader does not fail on a recording.
GoodLogIsRead == Reader!GoodLogIsRead

\* The host's error stack holds the errors that were neither ignored nor cleared.
ErrorsAreKept == Errors!ErrorsAreKept

\* A module is initialized after all it depends on, once, and when its turn has come.
DependenciesFirst == Modules!DependenciesFirst

\* Strings that share their contents keep each its own text, but for what replace displaces.
StringsKeepTheirText == Strings!StringsKeepTheirText
=============================================================================
