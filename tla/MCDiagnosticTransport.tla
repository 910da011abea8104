------------------------- MODULE MCDiagnosticTransport -------------------------
(* Small instances of DiagnosticTransport for TLC; the configurations give   *)
(* the bounds.                                                               *)
EXTENDS DiagnosticTransport
=============================================================================
