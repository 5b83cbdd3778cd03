----------------------------- MODULE TickTimer -----------------------------
(***************************************************************************)
(* Timer 2 and the two clocks kept from it (os/arch/atmega644p/            *)
(* tick_timer.c, os/os.c): the count of its overflows, which arch_cycles   *)
(* combines with the counter, and the ticks, counted by a compare          *)
(* interrupt that moves its own register on.                               *)
(*                                                                         *)
(* The processor's rules are part of the model: a pending interrupt is     *)
(* taken before the next instruction, the compare interrupt before the     *)
(* overflow interrupt; a handler is not interrupted; and after it returns  *)
(* one instruction of the main thread runs before the next is taken.  Time *)
(* passes at any point, a count of the timer at a time, and stops once an  *)
(* interrupt has been held off so long that its next was due.              *)
(***************************************************************************)
EXTENDS Integers, Sequences

CONSTANTS
    Counts,             \* values of the counter, 256 in the hardware
    ARCH_TIMER_COUNT,   \* counts in a tick
    DigitSize,          \* values of a byte of the overflow count
    MaxTime,            \* bound: counts of the timer in a behaviour
    MaxCalls,           \* bound: calls of arch_cycles
    MaxOther            \* bound: interrupts of the other devices

VARIABLES
    now,                \* counts since arch_tick_timer_init: TCNT2 is its low part
    pending,            \* interrupt flags raised: "compare", "overflow"
    enabled,            \* sei() has run
    handler,            \* the interrupt handler that runs, with how far it is
    shadow,             \* the next instruction is the one after a handler's return
    OCR2A,
    overflow,           \* _arch_timer_overflow
    check,              \* _arch_timer_overflow_check
    handlers,           \* the list at _tick_handler
    ticks,              \* _system_data.ticks
    pc,                 \* the main thread
    read,               \* arch_cycles: bytes of overflow, and the counter
    calls,
    other,              \* interrupts of other devices so far
    begun,              \* history: the time arch_cycles was called at
    late,               \* history: an interrupt was held off longer than its period
    overtaken           \* history: in this call the compare interrupt went before a pending overflow

\* A tick is shorter than a turn of the counter: ARCH_TIMER_COUNT is put in its compare register.
ConstantsOK ==
    /\ Counts \in Nat /\ ARCH_TIMER_COUNT \in 1 .. Counts - 1
    /\ DigitSize \in Nat \ {0}

hardware == <<now, pending, enabled, handler, shadow, OCR2A>>
counted == <<overflow, check, handlers, ticks>>
main == <<pc, read, calls>>
history == <<other, begun, late, overtaken>>
vars == <<hardware, counted, main, history>>

NoRead == [low |-> 0, high |-> 0, value |-> 0]
TCNT2 == now % Counts

\* os_boot: arch_tick_timer_init has just started the timer, with the interrupts off.
Init ==
    /\ now = 0 /\ pending = {} /\ enabled = FALSE /\ handler = "none" /\ shadow = FALSE
    /\ OCR2A = ARCH_TIMER_COUNT
    /\ overflow = 0 /\ check = FALSE /\ handlers = <<>> /\ ticks = 0
    /\ pc = "add" /\ read = NoRead /\ calls = 0
    /\ other = 0 /\ begun = 0 /\ late = FALSE /\ overtaken = FALSE

-----------------------------------------------------------------------------
(* The hardware.                                                           *)

Raised ==
    (IF (now + 1) % Counts = 0 THEN {"overflow"} ELSE {})
      \cup (IF (now + 1) % Counts = OCR2A THEN {"compare"} ELSE {})

\* A match the handler has not answered by moving the register, and the counts since it.
CompareWaits == "compare" \in pending \/ handler = "compare"
Elapsed == (now - OCR2A) % Counts

Count ==
    /\ now < MaxTime /\ ~ late
    /\ now' = now + 1
    /\ pending' = pending \cup Raised
    /\ late' = (late \/ pending \cap Raised # {}
                   \/ (CompareWaits /\ Elapsed + 1 = ARCH_TIMER_COUNT))
    /\ UNCHANGED <<enabled, handler, shadow, OCR2A, counted, main, other, begun, overtaken>>

\* A handler is entered: its flag is cleared.
Interrupt(source) ==
    /\ enabled /\ handler = "none" /\ ~ shadow
    /\ source \in pending
    /\ source = "overflow" => "compare" \notin pending
    /\ pending' = pending \ {source}
    /\ handler' = source
    /\ overtaken' = (overtaken \/ pending = {"compare", "overflow"})
    /\ UNCHANGED <<now, enabled, shadow, OCR2A, counted, main, other, begun, late>>

\* The serial port's and the two wire bus's handlers, which this module says nothing else of.
OtherInterrupt ==
    /\ enabled /\ handler = "none" /\ ~ shadow /\ pending = {}
    /\ other < MaxOther
    /\ handler' = "return" /\ other' = other + 1
    /\ UNCHANGED <<now, pending, enabled, shadow, OCR2A, counted, main, begun, late, overtaken>>

Return ==
    /\ handler = "return"
    /\ handler' = "none" /\ shadow' = TRUE
    /\ UNCHANGED <<now, pending, enabled, OCR2A, counted, main, history>>

-----------------------------------------------------------------------------
(* The two handlers.                                                       *)

Overflow ==
    /\ handler = "overflow"
    /\ overflow' = overflow + 1 /\ check' = TRUE
    /\ handler' = "return"
    /\ UNCHANGED <<now, pending, enabled, shadow, OCR2A, handlers, ticks, main, history>>

\* Wrong: the next tick is counted from now.
NextCompare_FromNow == (TCNT2 + ARCH_TIMER_COUNT) % Counts

\* The register is moved on from where it was, not from the counter, so that a late tick delays no other.
NextCompare == (OCR2A + ARCH_TIMER_COUNT) % Counts

Compare ==
    /\ handler = "compare"
    /\ OCR2A' = NextCompare
    /\ handler' = "walk"
    /\ UNCHANGED <<now, pending, enabled, shadow, counted, main, history>>

\* The handlers of the list, os_tick among them.
Walk ==
    /\ handler = "walk"
    /\ ticks' = IF handlers = <<>> THEN ticks ELSE ticks + 1
    /\ handler' = "return"
    /\ UNCHANGED <<now, pending, enabled, shadow, OCR2A, overflow, check, handlers, main, history>>

-----------------------------------------------------------------------------
(* The main thread, an instruction that matters at a time.                 *)

\* It runs when no handler does and no interrupt is to be taken first.
Instruction ==
    /\ handler = "none" /\ (pending = {} \/ shadow \/ ~ enabled)
    /\ shadow' = FALSE
    /\ UNCHANGED <<now, pending, handler, OCR2A>>

\* os_boot: arch_tick_timer_add, then sei().
Add ==
    /\ pc = "add" /\ Instruction
    /\ handlers' = <<"os_tick">> \o handlers
    /\ pc' = "sei"
    /\ UNCHANGED <<enabled, overflow, check, ticks, read, calls, history>>

Sei ==
    /\ pc = "sei" /\ Instruction
    /\ enabled' = TRUE /\ pc' = "idle"
    /\ UNCHANGED <<counted, read, calls, history>>

\* analog_init adds analog_tick with the interrupts off: one step.
AddAnalog ==
    /\ pc = "idle" /\ Instruction /\ handlers = <<"os_tick">>
    /\ handlers' = <<"analog_tick">> \o handlers
    /\ UNCHANGED <<enabled, overflow, check, ticks, main, history>>

arch_cycles ==
    /\ pc = "idle" /\ calls < MaxCalls /\ Instruction
    /\ pc' = "clear" /\ calls' = calls + 1
    /\ begun' = now /\ overtaken' = FALSE
    /\ UNCHANGED <<enabled, counted, read, other, late>>

Clear ==
    /\ pc = "clear" /\ Instruction
    /\ check' = FALSE /\ pc' = "low"
    /\ UNCHANGED <<enabled, overflow, handlers, ticks, read, calls, history>>

ReadLow ==
    /\ pc = "low" /\ Instruction
    /\ read' = [read EXCEPT !.low = overflow % DigitSize] /\ pc' = "high"
    /\ UNCHANGED <<enabled, counted, calls, history>>

ReadHigh ==
    /\ pc = "high" /\ Instruction
    /\ read' = [read EXCEPT !.high = overflow \div DigitSize] /\ pc' = "value"
    /\ UNCHANGED <<enabled, counted, calls, history>>

ReadValue ==
    /\ pc = "value" /\ Instruction
    /\ read' = [read EXCEPT !.value = TCNT2] /\ pc' = "test"
    /\ UNCHANGED <<enabled, counted, calls, history>>

\* Wrong: the turn is never repeated.
Repeated_Never == FALSE

\* The turn is repeated if an overflow interrupt came since it began.
Repeated == check

Test ==
    /\ pc = "test" /\ Instruction
    /\ pc' = IF Repeated THEN "clear" ELSE "done"
    /\ UNCHANGED <<enabled, counted, read, calls, history>>

CyclesReturn ==
    /\ pc = "done" /\ Instruction
    /\ pc' = "idle" /\ read' = NoRead
    /\ UNCHANGED <<enabled, counted, calls, history>>

Next ==
    \/ Count
    \/ \E source \in {"compare", "overflow"} : Interrupt(source)
    \/ OtherInterrupt \/ Return \/ Overflow \/ Compare \/ Walk
    \/ Add \/ Sei \/ AddAnalog
    \/ arch_cycles \/ Clear \/ ReadLow \/ ReadHigh \/ ReadValue \/ Test \/ CyclesReturn

Spec == Init /\ [][Next]_vars

-----------------------------------------------------------------------------
Cycles == (read.high * DigitSize + read.low) * Counts + read.value

Moment(t) == begun <= t /\ t <= now

\* What arch_cycles returns was the time at some moment of the call, whatever interrupted it between the
\* bytes it reads.  The loop does not see one overflow: one still pending when the compare interrupt goes
\* first and returns just before the test; then the result is that one overflow behind.
CyclesInCall ==
    pc = "done" /\ ~ late => Moment(Cycles) \/ (overtaken /\ Moment(Cycles + Counts))

\* While no interrupt is held off for its whole period, the ticks counted and the one under way are the
\* periods that have passed since the timer was started: the compare register moved by the handler loses
\* none and adds none, across the wrap of the counter and however late within a period the handler runs.
TicksKeepTime ==
    ~ late => ticks + (IF "compare" \in pending THEN 1 ELSE 0)
                    + (IF handler \in {"compare", "walk"} THEN 1 ELSE 0) = now \div ARCH_TIMER_COUNT
=============================================================================
