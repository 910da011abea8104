---------------------------- MODULE MCRuleEngine ----------------------------
(* Both sides of the engine on their small instances. *)
EXTENDS RuleEngine, MCMutationEngine, MCFrameRewrite
=============================================================================
