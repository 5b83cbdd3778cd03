----------------------------- MODULE MCLogLeap -----------------------------
(* LogReader for TLC, on a recording that runs across the end of a year    *)
(* before a leap year.                                                     *)
EXTENDS LogReader
=============================================================================
