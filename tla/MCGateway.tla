------------------------------ MODULE MCGateway ------------------------------
(* Small instances of Gateway for TLC; the configurations give the bounds. *)
EXTENDS Gateway

NoDirection == {}
OnlyBToA == {"B_TO_A"}
=============================================================================
