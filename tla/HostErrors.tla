----------------------------- MODULE HostErrors -----------------------------
(***************************************************************************)
(* The error stack of the host's libraries (tools/libs/error/error_stack): *)
(* a failing call is wrapped in one of the Check macros, each of which     *)
(* records it and says what its function does next.  IgnoreError remembers *)
(* how high the stack was (ErrorStack::Top) and takes it back there.       *)
(*                                                                         *)
(* The program is any tree of calls: the frames of the functions that run, *)
(* each with the macro it was called through, over one thread's stack.     *)
(***************************************************************************)
EXTENDS Integers, Sequences, FiniteSets

CONSTANTS
    Length,             \* elements of _array, 32 in the code
    MaxDepth,           \* bound: functions that run at a time
    MaxErrors,          \* bound: elements made in a behaviour
    MaxClears           \* bound: prints and clears the program asks for

ConstantsOK == Length \in Nat

CheckType == {"check", "check_exit", "check_assert", "check_cleanup", "ignore"}

VARIABLES
    _array, _current,   \* ErrorStack: the elements above _current are old ones
    _will_print,
    frames,             \* the functions that run, main first
    made,               \* elements made so far: the next is made + 1
    clears,
    printed,            \* the elements of the last print, as they were printed
    kept,               \* history: the elements that were neither ignored nor cleared
    revived             \* history: a Top put _current above elements cleared since

object == <<_array, _current, _will_print>>
vars == <<object, frames, made, clears, printed, kept, revived>>

\* A frame: the macro it was called through, the Top's _new_bottom and the elements made by then, and whether
\* the stack was cleared since, if that is IgnoreError, and whether an error makes it return.
Frame(type, bottom, elements) ==
    [type |-> type, _new_bottom |-> bottom, before |-> elements, cleared |-> FALSE, state |-> "runs"]
Cleared(calls) == [i \in DOMAIN calls |-> [calls[i] EXCEPT !.cleared = (calls[i].type = "ignore")]]

Init ==
    /\ _array = [i \in 1 .. Length |-> 0] /\ _current = 0
    /\ _will_print = {"check_exit", "check_assert"}
    /\ frames = <<Frame("main", 0, 0)>>
    /\ made = 0 /\ clears = 0 /\ printed = <<>>
    /\ kept = <<>> /\ revived = FALSE

Running == Len(frames) > 0
Top == frames[Len(frames)]
Below == SubSeq(frames, 1, Len(frames) - 1)
Stack == SubSeq(_array, 1, _current)

-----------------------------------------------------------------------------
\* The stack after push: a full stack drops the element.
Pushed == IF _current < Length THEN [_array EXCEPT ![_current + 1] = made + 1] ELSE _array
Height == IF _current < Length THEN _current + 1 ELSE _current
PushKept == IF Len(kept) < Length THEN Append(kept, made + 1) ELSE kept

\* A function calls another through a macro, or without one and looks at the result itself.
Call(type) ==
    /\ Running /\ Len(frames) < MaxDepth
    /\ Top.state # "returns"
    /\ frames' = Append(frames, IF type = "ignore" THEN Frame(type, _current, made) ELSE Frame(type, 0, 0))
    /\ UNCHANGED <<object, made, clears, printed, kept, revived>>

\* Wrong: the elements made inside stay.
pop_stack_Kept(height) == height

\* IgnoreError's Top is destroyed.
pop_stack(height) == Top._new_bottom

\* What is kept of the elements, oldest first, when those made since the Top are ignored.
WithoutIgnored(elements) ==
    [i \in {j \in DOMAIN elements : elements[j] <= Top.before} |-> elements[i]]
Revives(cleared) == cleared /\ Top._new_bottom > 0

\* A function returns success.
Return ==
    /\ Len(frames) > 1 /\ Top.state = "runs"
    /\ frames' = Below
    /\ IF Top.type = "ignore"
       THEN /\ _current' = pop_stack(_current)
            /\ kept' = WithoutIgnored(kept)
            /\ revived' = (revived \/ Revives(Top.cleared))
       ELSE UNCHANGED <<_current, kept, revived>>
    /\ UNCHANGED <<_array, _will_print, made, clears, printed>>

\* A function's own test fails, or it returns the error it has, to a call without a macro.
ReturnsTo(states) == Len(frames) > 1 /\ Top.state \in states /\ made < MaxErrors

\* The caller goes on as the macro says: Check returns, CheckCleanup jumps to its label first.
After(type, caller) ==
    CASE type = "check" -> [caller EXCEPT !.state = "returns"]
      [] type = "check_cleanup" -> [caller EXCEPT !.state = "cleanup"]
      [] OTHER -> caller

Fail ==
    /\ ReturnsTo({"runs", "cleanup", "returns"})
    /\ Top.type \in {"check", "check_cleanup"} \ _will_print
    /\ _array' = Pushed /\ _current' = Height
    /\ made' = made + 1 /\ kept' = PushKept
    /\ frames' = [Below EXCEPT ![Len(Below)] = After(Top.type, @)]
    /\ UNCHANGED <<_will_print, clears, printed, revived>>

\* The same where update prints the stack, which clears it.
FailPrints ==
    /\ ReturnsTo({"runs", "cleanup", "returns"})
    /\ Top.type \in {"check", "check_cleanup"} \cap _will_print
    /\ _array' = Pushed /\ _current' = 0
    /\ printed' = SubSeq(Pushed, 1, Height)
    /\ made' = made + 1 /\ kept' = <<>> /\ revived' = FALSE
    /\ frames' = Cleared([Below EXCEPT ![Len(Below)] = After(Top.type, @)])
    /\ UNCHANGED <<_will_print, clears>>

\* IgnoreError's own element is made too, and goes with those inside it.
FailIgnored ==
    /\ ReturnsTo({"runs", "cleanup", "returns"})
    /\ Top.type = "ignore"
    /\ LET height == IF "ignore" \in _will_print THEN 0 ELSE Height
       IN  /\ _current' = pop_stack(height)
           /\ revived' = (revived \/ Revives(Top.cleared \/ "ignore" \in _will_print))
    /\ _array' = Pushed
    /\ printed' = IF "ignore" \in _will_print THEN SubSeq(Pushed, 1, Height) ELSE printed
    /\ made' = made + 1
    /\ kept' = IF "ignore" \in _will_print THEN <<>> ELSE WithoutIgnored(PushKept)
    /\ frames' = IF "ignore" \in _will_print THEN Cleared(Below) ELSE Below
    /\ UNCHANGED <<_will_print, clears>>

\* A caller that looks at the result itself records nothing: what was made inside stays on the stack.
FailPlain ==
    /\ ReturnsTo({"runs", "cleanup", "returns"})
    /\ Top.type = "plain"
    /\ frames' = Below
    /\ UNCHANGED <<object, made, clears, printed, kept, revived>>

\* CheckExit and CheckAssert: the stack is printed and the program ends.
Exit ==
    /\ ReturnsTo({"runs", "cleanup", "returns"})
    /\ Top.type \in {"check_exit", "check_assert"}
    /\ LET stack == SubSeq(Pushed, 1, Height)
       IN  IF Top.type \in _will_print
           THEN /\ printed' = stack /\ _current' = 0 /\ kept' = <<>> /\ revived' = FALSE
           ELSE /\ _current' = Height /\ kept' = PushKept
                /\ UNCHANGED <<printed, revived>>
    /\ _array' = Pushed
    /\ made' = made + 1
    /\ frames' = <<>>
    /\ UNCHANGED <<_will_print, clears>>

\* error_stack_print and error_stack_clear, called by the program.
Clear ==
    /\ Running /\ clears < MaxClears
    /\ clears' = clears + 1
    /\ printed' \in {printed, Stack}
    /\ _current' = 0 /\ kept' = <<>> /\ revived' = FALSE
    /\ frames' = Cleared(frames)
    /\ UNCHANGED <<_array, _will_print, made>>

\* error_stack_print_control.
PrintControl ==
    /\ Running /\ clears < MaxClears
    /\ clears' = clears + 1
    /\ \E type \in CheckType :
          _will_print' \in {_will_print \cup {type}, _will_print \ {type}}
    /\ UNCHANGED <<_array, _current, frames, made, printed, kept, revived>>

Next ==
    \/ \E type \in CheckType \cup {"plain"} : Call(type)
    \/ Return \/ Fail \/ FailPrints \/ FailIgnored \/ FailPlain \/ Exit
    \/ Clear \/ PrintControl

Spec == Init /\ [][Next]_vars

-----------------------------------------------------------------------------
\* The stack holds the elements that were made and neither ignored nor cleared, oldest first, as many as it
\* has room for: an IgnoreError takes back exactly what was recorded inside it, however deep and however full
\* the stack is (ErrorStack::Top, push, pop_stack).  It is not so from a print or a clear inside an
\* IgnoreError on, whose Top brings cleared elements back, until the next.
ErrorsAreKept == ~ revived => Stack = kept
=============================================================================
