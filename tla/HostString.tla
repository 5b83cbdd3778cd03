----------------------------- MODULE HostString -----------------------------
(***************************************************************************)
(* The strings of the host's libraries (tools/libs/string): a String names *)
(* a StringContents it may share with others; the contents count the       *)
(* Strings that name them and go with the last.  No operation changes      *)
(* contents in place, each makes new ones.                                 *)
(*                                                                         *)
(* The program is any sequence of the operations on a few variables of     *)
(* type String.  A result is a temporary String first, which is assigned   *)
(* to a variable and destroyed.                                            *)
(***************************************************************************)
EXTENDS Integers, Sequences, FiniteSets

CONSTANTS
    Variable,           \* the Strings of the program
    Character,
    Texts,              \* the C strings it makes Strings from
    Nul,                \* the character that ends a C string
    Unknown,            \* what lies behind the end of the contents' bytes
    None,
    Addresses,          \* contents on the heap: one for each variable and one for a temporary
    MaxLength,          \* bound: characters of a String
    MaxPadding          \* bound: how far behind the end of a String one is replaced

\* StringContents::empty is no part of the heap.
Empty == 0
Address == 0 .. Addresses
NewContents(text) == [_references |-> 0, _data |-> text]

Chars == Character \cup {Nul, Unknown} \cup UNION {{t[i] : i \in DOMAIN t} : t \in Texts}
Contents == [_references : Nat, _data : Seq(Chars)]

\* The heap does not run out, and None is neither an address nor contents.
ConstantsOK ==
    /\ \A t \in Texts : t \in Seq({t[i] : i \in DOMAIN t})
    /\ IsFiniteSet(Variable) /\ Addresses \in Nat /\ Addresses > Cardinality(Variable)
    /\ None \notin Address /\ None \notin Contents

VARIABLES
    heap,               \* StringContents, None where there is nothing
    _contents,          \* String: the contents a variable names, None where it is not in scope
    meaning,            \* history: the text each variable has by the words of string.h
    displaced           \* history: the variables whose text comes from a replace that is not InPlace

vars == <<heap, _contents, meaning, displaced>>

\* String::empty names the static contents; it counts only where those were constructed before it, as the
\* linker has it.
Init ==
    /\ \E static \in 1 .. 2 :
          heap = [a \in Address |->
                     IF a = Empty THEN [NewContents(<<>>) EXCEPT !._references = static] ELSE None]
    /\ _contents = [v \in Variable |-> None]
    /\ meaning = [v \in Variable |-> <<>>]
    /\ displaced = {}

InScope(v) == _contents[v] # None
Text(v) == heap[_contents[v]]._data
Fresh == CHOOSE a \in Address : heap[a] = None /\ \A b \in Address : heap[b] = None => a <= b

-----------------------------------------------------------------------------
add_reference(store, a) == [store EXCEPT ![a]._references = @ + 1]

\* Contents nobody names any more delete themselves.
remove_reference(store, a) ==
    IF store[a]._references = 1 THEN [store EXCEPT ![a] = None]
    ELSE [store EXCEPT ![a]._references = @ - 1]

\* Wrong: the contents assigned are not counted.
assign_NotCounted(store, a, b) == remove_reference(store, a)

\* operator=: the store once a variable that named a names b.
assign(store, a, b) == add_reference(remove_reference(store, a), b)

\* The histories of a variable that is given a text.
Given(v, text, spoilt) ==
    /\ meaning' = [meaning EXCEPT ![v] = text]
    /\ displaced' = IF spoilt THEN displaced \cup {v} ELSE displaced \ {v}

\* A variable becomes a String of new contents.
Construct(v, store, a) ==
    /\ ~ InScope(v)
    /\ heap' = add_reference(store, a)
    /\ _contents' = [_contents EXCEPT ![v] = a]

StringDefault(v) ==
    /\ Construct(v, heap, Empty)
    /\ Given(v, <<>>, FALSE)

\* From a C string: kept where it is, copied, or handed over for the contents to free.
StringOf(v, text) ==
    /\ Construct(v, [heap EXCEPT ![Fresh] = NewContents(text)], Fresh)
    /\ Given(v, text, FALSE)

StringCopy(v, w) ==
    /\ InScope(w)
    /\ Construct(v, heap, _contents[w])
    /\ Given(v, meaning[w], w \in displaced)

Destroy(v) ==
    /\ InScope(v)
    /\ heap' = remove_reference(heap, _contents[v])
    /\ _contents' = [_contents EXCEPT ![v] = None]
    /\ Given(v, <<>>, FALSE)

Assign(v, w) ==
    /\ InScope(v) /\ InScope(w)
    /\ heap' = IF v = w THEN heap ELSE assign(heap, _contents[v], _contents[w])
    /\ _contents' = [_contents EXCEPT ![v] = _contents[w]]
    /\ Given(v, meaning[w], w \in displaced)

\* v = an operation's result: the temporary is assigned and destroyed.
AssignTemporary(v, text, expected, spoilt) ==
    LET a == IF text = <<>> THEN Empty ELSE Fresh
        made == IF text = <<>> THEN heap ELSE [heap EXCEPT ![a] = NewContents(text)]
    IN  /\ InScope(v) /\ Len(text) <= MaxLength
        /\ heap' = remove_reference(assign(add_reference(made, a), _contents[v], a), a)
        /\ _contents' = [_contents EXCEPT ![v] = a]
        /\ Given(v, expected, spoilt)

-----------------------------------------------------------------------------
\* count bytes from an offset on, of contents that end in a Nul.
Bytes(text, offset, count) ==
    [i \in 1 .. count |->
        CASE offset + i <= Len(text) -> text[offset + i]
          [] offset + i = Len(text) + 1 -> Nul
          [] OTHER -> Unknown]

Positive(n) == IF n > 0 THEN n ELSE 0
SuffixLength(text, position, count) == Positive(Len(text) - (position + count))

\* replace, which takes the suffix from where the addition would end, and has the bytes of a position behind
\* the end twice, as prefix and as padding.
replace(text, position, count, addition) ==
    Bytes(text, 0, position)
    \o [i \in 1 .. Positive(position - Len(text)) |-> Nul]
    \o addition
    \o Bytes(text, position + Len(addition), SuffixLength(text, position, count))

\* The characters of a text from one place to another, as far as it has them.
Part(text, from, to) == SubSeq(text, from, IF to < Len(text) THEN to ELSE Len(text))

\* What string.h says of replace, and of insert, append and erase: the text before the position, the addition,
\* the text behind what it replaces, moved to fill the gap or make room.
Replaced(text, position, count, addition) ==
    Part(text, 1, position) \o addition \o Part(text, position + count + 1, Len(text))

\* Where replace does that (string.cpp:157 takes the suffix from the wrong place): a suffix that does not move,
\* or none.
InPlace(text, position, count, addition) ==
    /\ position <= Len(text)
    /\ Len(addition) = count \/ SuffixLength(text, position, count) = 0

\* v = w.replace(position, count, a String of that text), and insert and append, which are replaces.
Replace(v, w, position, count, addition, expected, spoilt) ==
    /\ position <= Len(Text(w)) + MaxPadding
    /\ AssignTemporary(v, replace(Text(w), position, count, addition),
                       Replaced(meaning[w], position, count, expected),
                       spoilt \/ w \in displaced \/ ~ InPlace(Text(w), position, count, addition))

ReplaceWith(v, w, position, count, u) ==
    Replace(v, w, position, count, Text(u), meaning[u], u \in displaced)

\* v = w.erase(position, count), which replaces by String::empty.
Erase(v, w, position, count) == Replace(v, w, position, count, <<>>, <<>>, FALSE)

\* v = w.append(character)
AppendCharacter(v, w, character) ==
    AssignTemporary(v, Text(w) \o <<character>>, Append(meaning[w], character), w \in displaced)

\* v = w.substring(position, count)
substring(text, position, count) ==
    IF position >= Len(text) THEN <<>>
    ELSE Bytes(text, position,
               IF count < Len(text) - position THEN count ELSE Len(text) - position)

Substring(v, w, position, count) ==
    AssignTemporary(v, substring(Text(w), position, count),
                    Part(meaning[w], position + 1, position + count), w \in displaced)

Next ==
    \E v \in Variable :
       \/ StringDefault(v)
       \/ \E text \in Texts : StringOf(v, text)
       \/ Destroy(v)
       \/ \E w \in Variable :
             \/ StringCopy(v, w)
             \/ Assign(v, w)
             \/ InScope(w) /\
                   \/ \E u \in Variable, position, count \in 0 .. MaxLength :
                         InScope(u) /\ ReplaceWith(v, w, position, count, u)
                   \/ \E position, count \in 0 .. MaxLength :
                         Erase(v, w, position, count) \/ Substring(v, w, position, count)
                   \/ \E character \in Character : AppendCharacter(v, w, character)

Spec == Init /\ [][Next]_vars

-----------------------------------------------------------------------------
Named(a) == {v \in Variable : _contents[v] = a}

\* Strings that share contents do not feel it: every String in scope has the text that its own operations gave
\* it, unless one of them was a replace that is not InPlace, in contents that live, are counted for each String
\* that names them and go with the last (StringContents::add_reference, remove_reference, String::operator=).
StringsKeepTheirText ==
    /\ \A v \in Variable :
          InScope(v) => heap[_contents[v]] # None /\ (v \in displaced \/ Text(v) = meaning[v])
    /\ \A a \in Address \ {Empty} :
          heap[a] # None => Named(a) # {} /\ heap[a]._references = Cardinality(Named(a))
    /\ heap[Empty] # None /\ heap[Empty]._references - Cardinality(Named(Empty)) \in 1 .. 2
=============================================================================
