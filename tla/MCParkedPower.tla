--------------------------- MODULE MCParkedPower ---------------------------
(* Parked power alone, with times a few milliseconds long. *)
EXTENDS ParkedPower
=============================================================================
