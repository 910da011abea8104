---------------------------- MODULE MCCrossCore ----------------------------
(* The protocols between the cores on small instances: three identities in a  *)
(* cache of two entries, two of them with the same home; a trace ring of two  *)
(* slots whose indices wrap; a replay over a clock that wraps; a millisecond   *)
(* clock that does not wrap within the behaviour.                              *)
EXTENDS CrossCore, TLC

MCHome(id) == IF id = "c" THEN 1 ELSE 0

\* The observation tables treat their keys alike.
KeySymmetry == Permutations(Key)
=============================================================================
