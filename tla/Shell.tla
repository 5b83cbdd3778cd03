------------------------------- MODULE Shell -------------------------------
(***************************************************************************)
(* The CPU board from reset to the serial shell (CPUDisc/main.c, os_boot): *)
(* the modules are booted, record_command runs, and whatever comes of it   *)
(* the LEDs blink until a key is pressed, the error stack is printed and   *)
(* the shell reads lines (stdio/console.c), splits them where they lie     *)
(* (shell/shell.c) and calls commands.                                     *)
(*                                                                         *)
(* A step is one key or one turn of parse_line's loop.  What a command     *)
(* does is left out except that it succeeds, or fails and leaves entries   *)
(* on the error stack (error/error.c).                                     *)
(***************************************************************************)
EXTENDS Integers, Sequences, FiniteSets, SequencesExt, FiniteSetsExt, Functions

CONSTANTS
    LineLength,         \* bytes of the line buffer of shell_run
    ArgvLength,         \* entries of its argv
    Letter,             \* printable characters other than blank and quote
    CommandName,        \* names in shell_command_table, sequences of letters
    ModuleCount,        \* entries of boot_module_table
    ERROR_STACK_MAX_ENTRIES,
    MaxDepth,           \* bound: entries one failure leaves on the stack
    MaxKeys             \* bound: keys pressed in a behaviour

VARIABLES
    pc,
    boot_index,         \* SystemData.boot_index
    line,               \* the line buffer, never cleared between commands
    index,              \* read_line: characters held
    parse,              \* parse_line: its two indices and two flags
    argv,               \* offsets into line; argc is its length
    error_count,        \* error.c
    typed,              \* history: the keys of this line
    keys                \* history: keys pressed so far

vars == <<pc, boot_index, line, index, parse, argv, error_count, typed, keys>>

Blank  == " "
Quote  == "quote"
Delete == "delete"
Enter  == "enter"
End    == "nul"
Keys   == Letter \cup {Blank, Quote, Delete, Enter}

ConstantsOK ==
    /\ LineLength \in Nat \ {0} /\ ArgvLength \in Nat
    /\ ERROR_STACK_MAX_ENTRIES \in Nat /\ MaxDepth \in Nat
    /\ Letter \cap {Blank, Quote, Delete, Enter, End} = {}

NoParse == [read |-> 0, write |-> 0, quoted |-> FALSE, scanning |-> TRUE]

Init ==
    /\ pc = "boot" /\ boot_index = 0
    /\ line \in {[i \in 0 .. LineLength - 1 |-> garbage] : garbage \in Letter \cup {End}}
    /\ index = 0 /\ parse = NoParse /\ argv = <<>>
    /\ error_count = 0
    /\ typed = <<>> /\ keys = 0

-----------------------------------------------------------------------------
(* The error stack.                                                        *)

\* error_stack_add, called depth times on the way out of a failure: entries past the last are dropped.
Failed(depth) == error_count' = Min({ERROR_STACK_MAX_ENTRIES, error_count + depth})

\* error_stack_print prints what is there and clears it.
error_stack_print == error_count' = 0

-----------------------------------------------------------------------------
(* Boot.                                                                   *)

Booted ==
    /\ pc = "boot" /\ boot_index < ModuleCount
    /\ boot_index' = boot_index + 1
    /\ UNCHANGED <<pc, line, index, parse, argv, error_count, typed, keys>>

BootFailed ==
    /\ pc = "boot" /\ boot_index < ModuleCount
    /\ \E depth \in 2 .. MaxDepth : Failed(depth)
    /\ pc' = "signal"
    /\ UNCHANGED <<boot_index, line, index, parse, argv, typed, keys>>

\* record_command ends in the signal loop whether it fails or is stopped by a key.
Record ==
    /\ pc = "boot" /\ boot_index = ModuleCount
    /\ \/ UNCHANGED error_count
       \/ \E depth \in 2 .. MaxDepth : Failed(depth)
    /\ pc' = "signal"
    /\ UNCHANGED <<boot_index, line, index, parse, argv, typed, keys>>

\* The loop on uart_character_ready leaves the key in the ring: read_line finds it first.
Signalled ==
    /\ pc = "signal"
    /\ error_stack_print
    /\ pc' = "read"
    /\ UNCHANGED <<boot_index, line, index, parse, argv, typed, keys>>

-----------------------------------------------------------------------------
(* read_line.                                                              *)

\* What a key other than enter leaves of the characters held.
Edit(held, key) ==
    CASE key = Delete -> SubSeq(held, 1, Len(held) - 1)
      [] key # Delete /\ Len(held) < LineLength - 1 -> Append(held, key)
      [] OTHER -> held                                    \* the bell

Key(key) ==
    /\ pc = "read" /\ keys < MaxKeys
    /\ key # Enter
    /\ CASE key = Delete -> /\ index' = IF index > 0 THEN index - 1 ELSE 0
                            /\ UNCHANGED line
         [] key # Delete /\ index < LineLength - 1 -> /\ line' = [line EXCEPT ![index] = key]
                                                      /\ index' = index + 1
         [] OTHER -> UNCHANGED <<line, index>>
    /\ typed' = Append(typed, key) /\ keys' = keys + 1
    /\ UNCHANGED <<pc, boot_index, parse, argv, error_count>>

EnterKey ==
    /\ pc = "read" /\ keys < MaxKeys
    /\ line' = [line EXCEPT ![index] = End]
    /\ parse' = NoParse /\ argv' = <<>>
    /\ pc' = "parse" /\ keys' = keys + 1
    /\ UNCHANGED <<boot_index, index, error_count, typed>>

-----------------------------------------------------------------------------
(* parse_line: the arguments are moved to the front of the line, over the  *)
(* quotes that are dropped, and ended where a blank ended them.            *)

\* Where the loop reads next: past the blanks when an argument is about to begin.
ReadAt ==
    IF parse.scanning
    THEN Min({i \in parse.read .. LineLength - 1 : line[i] # Blank})
    ELSE parse.read

\* Wrong: an argument begins where it was read.
Begun_AtRead ==
    IF parse.scanning /\ line[parse.read] # End /\ Len(argv) < ArgvLength
    THEN Append(argv, parse.read) ELSE argv

\* An argument begins where the next character will be written, if argv has room.
Begun ==
    IF parse.scanning /\ line[parse.read] # End /\ Len(argv) < ArgvLength
    THEN Append(argv, parse.write) ELSE argv

ParseCharacter ==
    /\ pc = "parse" /\ line[ReadAt] # End
    /\ argv' = Begun
    /\ LET next(put, quoted, scanning) ==
               /\ line' = IF put = Quote THEN line ELSE [line EXCEPT ![parse.write] = put]
               /\ parse' = [read |-> ReadAt + 1,
                            write |-> parse.write + (IF put = Quote THEN 0 ELSE 1),
                            quoted |-> quoted, scanning |-> scanning]
           byte == line[ReadAt]
       IN  CASE byte = Quote -> next(Quote, ~ parse.quoted, FALSE)
             [] byte = Blank /\ ~ parse.quoted -> next(End, FALSE, TRUE)
             [] OTHER -> next(byte, parse.quoted, FALSE)
    /\ UNCHANGED <<pc, boot_index, index, error_count, typed, keys>>

\* The end of the line, reached by the loop or by the skip over blanks.
ParseEnd ==
    /\ pc = "parse" /\ line[ReadAt] = End
    /\ argv' = Begun
    /\ line' = [line EXCEPT ![parse.write] = End]
    /\ pc' = "dispatch"
    /\ UNCHANGED <<boot_index, index, parse, error_count, typed, keys>>

-----------------------------------------------------------------------------
(* shell_run.                                                              *)

\* The C string at an offset of the line.
StringAt(offset) ==
    LET last == Min({i \in offset .. LineLength - 1 : line[i] = End}) - 1
    IN  [i \in 1 .. last - offset + 1 |-> line[offset + i - 1]]

Arguments == [i \in 1 .. Len(argv) |-> StringAt(argv[i])]

Found == Len(argv) > 0 /\ Arguments[1] \in CommandName

ReadAgain == pc' = "read" /\ index' = 0 /\ typed' = <<>>

\* An empty line, and a name that is not in the table.
NotFound ==
    /\ pc = "dispatch" /\ ~ Found
    /\ ReadAgain
    /\ UNCHANGED <<boot_index, line, parse, argv, error_count, keys>>

CallCommand ==
    /\ pc = "dispatch" /\ Found
    /\ pc' = "command"
    /\ UNCHANGED <<boot_index, line, index, parse, argv, error_count, typed, keys>>

CommandReturns ==
    /\ pc = "command"
    /\ \/ UNCHANGED error_count
       \/ \E depth \in 1 .. MaxDepth : Failed(depth)
    /\ pc' = "print"
    /\ UNCHANGED <<boot_index, line, index, parse, argv, typed, keys>>

PrintErrors ==
    /\ pc = "print"
    /\ error_stack_print
    /\ ReadAgain
    /\ UNCHANGED <<boot_index, line, parse, argv, keys>>

Next ==
    \/ Booted \/ BootFailed \/ Record \/ Signalled
    \/ \E key \in Keys : Key(key)
    \/ EnterKey
    \/ ParseCharacter \/ ParseEnd
    \/ NotFound \/ CallCommand \/ CommandReturns \/ PrintErrors

Spec == Init /\ [][Next]_vars

-----------------------------------------------------------------------------
(* parse_hex, parse_dec and parse_oct, for an unsigned type of size        *)
(* values: blanks are skipped, the first other character ends the number.  *)

Digit == [c \in {"0", "1", "7", "a"} |->
            CASE c = "0" -> 0 [] c = "1" -> 1 [] c = "7" -> 7 [] OTHER -> 10]

IsDigit(c, base) == c \in DOMAIN Digit /\ Digit[c] < base

ParseDigits(string, base, size) ==
    LET upto == Min({i \in 1 .. Len(string) : ~ IsDigit(string[i], base) /\ string[i] # Blank}
                      \cup {Len(string) + 1}) - 1
        take(result, c) == IF c = Blank THEN result ELSE (result * base + Digit[c]) % size
    IN  FoldLeft(take, 0, SubSeq(string, 1, upto))

parse_number(string, size) ==
    IF Len(string) > 1 /\ string[1] = "0" /\ string[2] = "x"
    THEN ParseDigits(SubSeq(string, 3, Len(string)), 16, size)
    ELSE ParseDigits(string, 10, size)

-----------------------------------------------------------------------------
(* What the shell must do.                                                 *)

Edited ==
    LET held[i \in 0 .. Len(typed)] == IF i = 0 THEN <<>> ELSE Edit(held[i - 1], typed[i])
    IN  held[Len(typed)]

\* How many of S there are up to i.
Ordinal(S, i) == Cardinality({j \in S : j <= i})

Quoted(s, i) == Ordinal({j \in 1 .. Len(s) : s[j] = Quote}, i - 1) % 2 = 1

Gap(s, i) == s[i] = Blank /\ ~ Quoted(s, i)

\* Where the words of a line begin, which lie between the blanks that are not quoted.  A line of blanks only, or
\* with two blanks or more at its end, has an empty word after them.
Starts(s) ==
    LET n == Len(s)
    IN  {i \in 1 .. n : ~ Gap(s, i) /\ (i = 1 \/ Gap(s, i - 1))}
          \cup {i \in {n + 1} : n > 0 /\ Gap(s, n) /\ (n = 1 \/ Gap(s, n - 1))}

\* The word that begins at i, without its quotes.
Word(s, i) ==
    LET last == Min({j \in i .. Len(s) : Gap(s, j)} \cup {Len(s) + 1}) - 1
        kept == {j \in i .. last : s[j] # Quote}
        place(k) == CHOOSE j \in kept : Ordinal(kept, j) = k
    IN  [k \in 1 .. Cardinality(kept) |-> s[place(k)]]

\* The arguments a command is called with, read out of the line that was split in place, are the first
\* words of the line as it was edited; the error stack a command starts with is empty, so that what is
\* printed after it is its own; and neither index ever leaves the line (read_line, parse_line, shell_run).
CommandAsTyped ==
    /\ index < LineLength
    /\ pc = "parse" => parse.write <= parse.read /\ parse.read < LineLength
    /\ pc = "dispatch" =>
          LET starts == Starts(Edited)
          IN  /\ Len(Arguments) = Min({ArgvLength, Cardinality(starts)})
              /\ \A i \in starts :
                   Ordinal(starts, i) <= ArgvLength => Arguments[Ordinal(starts, i)] = Word(Edited, i)
    /\ pc \in {"read", "parse", "dispatch", "command"} => error_count = 0
=============================================================================
