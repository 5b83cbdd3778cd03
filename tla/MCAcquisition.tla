--------------------------- MODULE MCAcquisition ---------------------------
(* Acquisition for TLC. *)
EXTENDS Acquisition
=============================================================================
