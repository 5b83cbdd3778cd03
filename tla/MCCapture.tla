----------------------------- MODULE MCCapture -----------------------------
(***************************************************************************)
(* The two ends of a recording for TLC, each in behaviours of its own: the *)
(* CPU board that fills and writes the blocks, and the power board it asks *)
(* for the voltage in their headers.  running says which one moves, the    *)
(* other stands where it begins.                                           *)
(*                                                                         *)
(* Acquisition: four readings a block, two sessions.                       *)
(* PowerBoard: two bytes a message, three registers.                       *)
(***************************************************************************)
EXTENDS Acquisition

CONSTANTS
  Count, Registers, MaxFaults

VARIABLES
  running,
  board_pc, copied, sample, registers, board_head, board_state, usi, usidr, bus, want, outcome, taken, asked, header,
  faults, cut

board == <<board_pc, copied, sample, registers, board_head, board_state, usi, usidr, bus, want, outcome, taken,
           asked, header, faults, cut>>

Board == INSTANCE PowerBoard WITH pc <- board_pc, head <- board_head, state <- board_state

ASSUME BoardAssumption == Board!ConstantsOK

MCInit == Init /\ Board!Init /\ running \in {"cpu", "board"}

Cpu(action) == running = "cpu" /\ action /\ UNCHANGED <<running, board>>
Boards(action) == running = "board" /\ action /\ UNCHANGED <<running, vars>>

MCVars == <<running, vars, board>>
MCNext == Cpu(Next) \/ Boards(Board!Next)

\* The fairness of the specifications.
MCSpec ==
  /\ MCInit /\ [][MCNext]_MCVars
  /\ WF_MCVars(Cpu(Tick)) /\ WF_MCVars(Cpu(MainStep))
  /\ WF_MCVars(Boards(Board!MainStep)) /\ WF_MCVars(Boards(Board!Overflow))
  /\ SF_MCVars(Boards(Board!Start("tick")))

----------------------------------------------------------------------------
\* The power board's message is in one place.
MessageHeld == Board!MessageHeld

\* The bus master and the power board agree on whether a message got through.
WriteAgrees == Board!WriteAgrees

\* The header of a block gets one measurement, made after it was asked for.
HeaderIsFresh == Board!HeaderIsFresh

\* The power board is ready for a message again and again.
ReadyAgain == []<>(running = "board" => Board!Ready)
=============================================================================
