--------------------------- MODULE MCSessionLog ---------------------------
(* The session recorder's files on a small instance: two recordings after what *)
(* an earlier firmware left.                                                   *)
EXTENDS SessionLog
=============================================================================
