----------------------------- MODULE RuleEngine -----------------------------
(***************************************************************************)
(* The mutation engine from both of its sides: the rule tables, at the grain *)
(* of their clients' calls, and a frame that the rules of one group rewrite, *)
(* at the grain of the CAN task's reads.  No step of one reads a variable of *)
(* the other, so a behaviour looks at one of them and the other stays as it  *)
(* is at start.                                                              *)
(***************************************************************************)
EXTENDS MutationEngine, FrameRewrite

VARIABLE side  \* the one looked at

\* No rule is installed, and nothing is published that would select one.
AtStart == rules = <<>> /\ \A s \in Source : published[s] = NotASelector

EngineInit ==
    /\ Init /\ RewriteInit
    /\ side \in {"tables", "frame"}
    /\ side = "tables" => AtStart

Tables == side = "tables" /\ Next /\ UNCHANGED <<rewriteVars, side>>
Frame == side = "frame" /\ RewriteNext /\ UNCHANGED <<vars, side>>

EngineNext == Tables \/ Frame

engineVars == <<vars, rewriteVars, side>>
EngineSpec == EngineInit /\ [][EngineNext]_engineVars
-----------------------------------------------------------------------------
(* Both sides keep to their types, and the slot of a sequence is an index of it *)
(* (mutation_engine.cpp:1150).                                                  *)
EngineTypeOK == TypeOK /\ RewriteTypeOK /\ SequencesStayInRange

(* Candidate, committed shadow and live table tell the same story: a clean      *)
(* candidate mirrors the shadow, an entry that is not pending is the committed  *)
(* one, and what runs is what was committed (mutation_engine.cpp:198-415).      *)
TablesAgree == CleanIsMirror /\ UnpendingIsLive /\ LiveIsCommitted

(* A rule that was staged, replaced, committed or reverted in any way runs once *)
(* for a frame, after the kinds before its own and in the order of staging      *)
(* (docs/RULES.md:242-253, mutation_engine.cpp:333).                            *)
RunsOnceInOrder == OneSlotPerRule /\ OrderPreserved

(* What a rule lays into a frame (mutation_engine.cpp:853, 907, 1270) is what    *)
(* the codec reads there (signal_codec.cpp:67), up to the clamped physical value *)
(* of a legacy mutation (mutation_engine.cpp:31).                                *)
FieldsReadBack == FieldsCarryTheirValues /\ PhysicalValuesReadBack

(* The rest of the frame: bits that no rule has claimed go through, and checksums *)
(* are those of the payload that is forwarded (mutation_engine.cpp:459-510).      *)
RestOfTheFrame == OtherBitsPass /\ ChecksumsHold
=============================================================================
