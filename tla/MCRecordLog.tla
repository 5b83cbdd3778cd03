---------------------------- MODULE MCRecordLog ----------------------------
(* RecordLog for TLC. *)
EXTENDS RecordLog
=============================================================================
