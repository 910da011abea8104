--------------------------- MODULE MCMutationEngine ---------------------------
(* A small rule engine: two field rules and a counter with a resolvable and   *)
(* an unresolvable rule beside them, and fewer slots than rules.              *)
EXTENDS MutationEngine

CONSTANTS Plain, Other, Tick, Lost

Ranks == [r \in Rule |-> IF r = Tick THEN 3 ELSE 1]
=============================================================================
