---------------------------- MODULE MutationEngine ----------------------------
(***************************************************************************)
(* The rule tables of MutationEngine (core/mutation_engine.cpp) as their    *)
(* clients see them: the candidate (staged_), the committed shadow, the     *)
(* active table with its runtime state, and the epoch that makes a rule id  *)
(* a handle.  The operations are called under the application lock, so each *)
(* is one step; a package load (core/rule_package.cpp) holds the lock over  *)
(* many of them while the CAN task keeps running the active rules.  How a   *)
(* commit is published to a concurrent reader is module RuleCommit.         *)
(***************************************************************************)
EXTENDS Naturals

CONSTANTS
  Rule,             \* rule identities, see findStagedIdentity
  Kind,             \* [Rule -> Nat]: the place of a rule's kind in kCompileOrder
  Counters,         \* rules whose runtime value advances with every frame
  Fixed,            \* rules whose runtime value no client may write
  Unresolved,       \* rules that name a source or table nobody registered
  MaxRules,         \* kMaxRules
  MaxValue,         \* runtime values are 0 .. MaxValue, a counter wraps after it
  SequenceModulus,  \* 65536: allocateSequence returns a uint16_t
  MaxAllocations,   \* bound of the model: sequence numbers given out
  MaxEpoch,         \* bound of the model: operations that advance the epoch
  NoHandle

Slots == 0 .. MaxRules - 1
Values == 0 .. MaxValue

ASSUME RuleAssumption ==
  /\ Kind \in [Rule -> Nat]
  /\ Counters \subseteq Rule /\ Fixed \subseteq Rule /\ Unresolved \subseteq Rule
ASSUME BoundAssumption ==
  /\ MaxRules \in Nat \ {0} /\ SequenceModulus \in Nat \ {0}
  /\ MaxValue \in Nat /\ MaxAllocations \in Nat /\ MaxEpoch \in Nat

VARIABLES
  staged,        \* slot in use -> entry: staged_
  dirty,         \* staging_dirty_
  committed,     \* slot in use -> entry: committed_shadow_
  table,         \* slot in use -> compiled rule: *active_table_
  runtime,       \* [Slots -> [value, enabled]]: runtime_state_
  epoch,         \* rule_epoch_
  allocations,   \* next_sequence_ - 1
  loading,       \* a package load holds the application lock
  handle         \* history: a (rule_id, rule_epoch) pair some client was given

liveVars == <<committed, table, runtime>>
vars == <<staged, dirty, committed, table, runtime, epoch, allocations, loading, handle>>

(* Two fields are history: born numbers the rules in the order they were      *)
(* first staged, edited that a value was written since the last commit.       *)
Entry == [rule : Rule, sequence : Nat, born : Nat, value : Values,
          enabled : BOOLEAN, publish : BOOLEAN, edited : BOOLEAN]
Compiled == [rule : Rule, sequence : Nat, born : Nat]

NoRules == [s \in {} |-> 0]
Idle == [value |-> 0, enabled |-> FALSE]

SlotsOf(entries, r) == {s \in DOMAIN entries : entries[s].rule = r}
Install(entries, s, entry) ==
  [t \in DOMAIN entries \union {s} |-> IF t = s THEN entry ELSE entries[t]]

-----------------------------------------------------------------------------
(* Defect: the order of the kinds is left out. *)
RunsBefore_SequenceOnly(s, t) ==
  \/ table[s].sequence < table[t].sequence
  \/ table[s].sequence = table[t].sequence /\ s < t

(* The order in which the rules of a frame run: by kind, then by sequence     *)
(* number; the insertion sort of applyCommit is stable over the slots.        *)
RunsBefore(s, t) ==
  \/ Kind[table[s].rule] < Kind[table[t].rule]
  \/ /\ Kind[table[s].rule] = Kind[table[t].rule]
     /\ \/ table[s].sequence < table[t].sequence
        \/ table[s].sequence = table[t].sequence /\ s < t

(* runtimeValueFits *)
RuntimeValueFits(r, v) == r \notin Fixed /\ v \in Values

AdvanceRuleEpoch == epoch < MaxEpoch /\ epoch' = epoch + 1

-----------------------------------------------------------------------------
(* The candidate table. *)

(* Defect: one slot beyond the table. *)
FreeSlots_OffByOne == (0 .. MaxRules) \ DOMAIN staged
FreeSlots == Slots \ DOMAIN staged
IsFirstFree(s) == \A t \in FreeSlots : s <= t

(* allocateSequence *)
NextSequence == (allocations + 1) % SequenceModulus

NewEntry(r, v, on) ==
  [rule |-> r, sequence |-> NextSequence, born |-> allocations + 1,
   value |-> v, enabled |-> on, publish |-> TRUE, edited |-> TRUE]

(* Defect: a duplicate of a staged rule takes a slot of its own. *)
StageNew_Duplicate(r, v, on) ==
  /\ allocations < MaxAllocations
  /\ \E s \in FreeSlots : IsFirstFree(s) /\ staged' = Install(staged, s, NewEntry(r, v, on))
  /\ allocations' = allocations + 1

StageNew(r, v, on) ==
  /\ SlotsOf(staged, r) = {} /\ allocations < MaxAllocations
  /\ \E s \in FreeSlots : IsFirstFree(s) /\ staged' = Install(staged, s, NewEntry(r, v, on))
  /\ allocations' = allocations + 1

(* Defect: a replaced rule is not marked for publication. *)
StageInPlace_KeepsPublish(r, v, on) ==
  /\ SlotsOf(staged, r) # {}
  /\ staged' = [s \in DOMAIN staged |->
                  IF staged[s].rule = r
                  THEN [staged[s] EXCEPT !.value = v, !.enabled = on, !.edited = TRUE]
                  ELSE staged[s]]
  /\ UNCHANGED allocations

StageInPlace(r, v, on) ==
  /\ SlotsOf(staged, r) # {}
  /\ staged' = [s \in DOMAIN staged |->
                  IF staged[s].rule = r
                  THEN [staged[s] EXCEPT !.value = v, !.enabled = on, !.publish = TRUE,
                                         !.edited = TRUE]
                  ELSE staged[s]]
  /\ UNCHANGED allocations

(* stageRule: a rule of the same identity is replaced in place, another one   *)
(* takes the first free slot; when all are in use nothing changes.            *)
StageRule(r, v, on) ==
  /\ StageNew(r, v, on) \/ StageInPlace(r, v, on)
  /\ AdvanceRuleEpoch
  /\ dirty' = TRUE
  /\ UNCHANGED <<liveVars, handle>>

(* Defect: an emptied candidate counts as unchanged. *)
ClearStaging_Clean ==
  /\ AdvanceRuleEpoch
  /\ staged' = NoRules
  /\ dirty' = FALSE
  /\ UNCHANGED <<liveVars, allocations, handle>>

(* clearStaging *)
ClearStaging ==
  /\ AdvanceRuleEpoch
  /\ staged' = NoRules
  /\ dirty' = (table # NoRules)
  /\ UNCHANGED <<liveVars, allocations, handle>>

(* revertStagingToActive *)
RevertStagingToActive ==
  /\ AdvanceRuleEpoch
  /\ staged' = committed
  /\ dirty' = FALSE
  /\ UNCHANGED <<liveVars, allocations, handle>>

-----------------------------------------------------------------------------
(* The commit of the entries in candidate (always staged, but for clearRules, *)
(* which empties it first).  compileRule fails for an unresolved name: then   *)
(* only the inactive table was touched.                                       *)

Compiles(candidate) == \A s \in DOMAIN candidate : candidate[s].rule \notin Unresolved

Publish(candidate) ==
  [s \in Slots |->
     IF s \notin DOMAIN candidate THEN Idle
     ELSE IF candidate[s].publish
          THEN [value |-> candidate[s].value, enabled |-> candidate[s].enabled]
          ELSE runtime[s]]

Committed(candidate) ==
  [s \in DOMAIN candidate |-> [candidate[s] EXCEPT !.publish = FALSE, !.edited = FALSE]]

CommitTo(candidate) ==
  /\ Compiles(candidate)
  /\ runtime' = Publish(candidate)
  /\ staged' = Committed(candidate)
  /\ committed' = Committed(candidate)
  /\ table' = [s \in DOMAIN candidate |->
                 [rule |-> candidate[s].rule, sequence |-> candidate[s].sequence,
                  born |-> candidate[s].born]]
  /\ dirty' = FALSE

(* Defect: a commit keeps the epoch. *)
ApplyCommit_KeepsEpoch ==
  /\ CommitTo(staged)
  /\ UNCHANGED <<epoch, allocations, handle>>

(* applyCommit *)
ApplyCommit ==
  /\ CommitTo(staged)
  /\ AdvanceRuleEpoch
  /\ UNCHANGED <<allocations, handle>>

(* clearRules: clearStaging advances the epoch, and so does the commit. *)
ClearRules ==
  /\ CommitTo(NoRules)
  /\ epoch + 2 <= MaxEpoch /\ epoch' = epoch + 2
  /\ UNCHANGED <<allocations, handle>>

-----------------------------------------------------------------------------
(* Runtime controls of the rule in a slot: its value or its enabled flag.     *)

Accepts(r, field, x) ==
  IF field = "value" THEN RuntimeValueFits(r, x) ELSE x \in BOOLEAN

Controlled(state, field, x) ==
  IF field = "value" THEN [state EXCEPT !.value = x] ELSE [state EXCEPT !.enabled = x]

Changed(entries, s, field, x) ==
  [t \in DOMAIN entries |-> IF t = s THEN Controlled(entries[t], field, x) ELSE entries[t]]

(* A change of the candidate that waits for its commit. *)
Candidate(s, field, x) ==
  [Changed(staged, s, field, x) EXCEPT ![s].publish = TRUE, ![s].edited = @ \/ field = "value"]

Pending(s) == s \in DOMAIN staged /\ staged[s].publish

(* setStagedRuleValue, setStagedRuleEnabled *)
ControlStaged(s, field, x) ==
  /\ s \in DOMAIN staged /\ Accepts(staged[s].rule, field, x)
  /\ staged' = Candidate(s, field, x)
  /\ dirty' = TRUE
  /\ UNCHANGED liveVars

(* Defect: the committed shadow is not told. *)
ControlActive_ForgetsShadow(s, field, x) ==
  /\ s \in DOMAIN committed /\ Accepts(committed[s].rule, field, x)
  /\ staged' = IF Pending(s) THEN staged ELSE Changed(staged, s, field, x)
  /\ runtime' = Changed(runtime, s, field, x)
  /\ UNCHANGED <<table, committed, dirty>>

(* setActiveRuleValue, setActiveRuleEnabled *)
ControlActive(s, field, x) ==
  /\ s \in DOMAIN committed /\ Accepts(committed[s].rule, field, x)
  /\ committed' = Changed(committed, s, field, x)
  /\ staged' = IF Pending(s) THEN staged ELSE Changed(staged, s, field, x)
  /\ runtime' = Changed(runtime, s, field, x)
  /\ UNCHANGED <<table, dirty>>

(* setRuleValue, enableRule: the candidate in the slot if there is one, and   *)
(* live traffic unless that candidate is pending.                             *)
ControlLegacy(s, field, x) ==
  \/ /\ Pending(s) /\ Accepts(staged[s].rule, field, x)
     /\ staged' = Candidate(s, field, x)
     /\ UNCHANGED <<liveVars, dirty>>
  \/ /\ ~Pending(s) /\ s \in DOMAIN staged \union DOMAIN committed
     /\ Accepts((IF s \in DOMAIN staged THEN staged ELSE committed)[s].rule, field, x)
     /\ staged' = Changed(staged, s, field, x)
     /\ committed' = Changed(committed, s, field, x)
     /\ runtime' = Changed(runtime, s, field, x)
     /\ UNCHANGED <<table, dirty>>

Inputs(field) == IF field = "value" THEN Values ELSE BOOLEAN

(* A client controls the rule of its handle; a stale epoch is refused. *)
ControlByHandle ==
  /\ handle # NoHandle /\ handle.epoch = epoch
  /\ \E field \in {"value", "enabled"} : \E x \in Inputs(field) :
       \/ handle.view = "staging" /\ ControlStaged(handle.slot, field, x)
       \/ handle.view = "active" /\ ControlActive(handle.slot, field, x)
       \/ ControlLegacy(handle.slot, field, x)
  /\ UNCHANGED <<epoch, allocations, handle>>

(* The kinds findRuleIdByIdentity and findRuleIdByRawIdentity look for. *)
Addressable == {r \in Rule : Kind[r] <= 2}

(* handleRuleEnable without a rule_id: whatever the view, the slot is looked  *)
(* up in the active list, and the present epoch goes with it.                 *)
EnableByIdentity(r, on) ==
  /\ \E s \in SlotsOf(table, r) :
       \/ ControlStaged(s, "enabled", on)
       \/ ControlActive(s, "enabled", on)
       \/ ControlLegacy(s, "enabled", on)
  /\ UNCHANGED <<epoch, allocations, handle>>

(* stageRule, listStagedRules and listRules give ids with the present epoch.  *)
HandlesOf(view, entries) ==
  {[view |-> view, slot |-> s, epoch |-> epoch, rule |-> entries[s].rule] : s \in DOMAIN entries}

IssueHandle ==
  /\ handle' \in HandlesOf("active", table) \union
                  (IF loading THEN {} ELSE HandlesOf("staging", staged))
  /\ UNCHANGED <<staged, dirty, liveVars, epoch, allocations>>

-----------------------------------------------------------------------------
(* The CAN task: a frame of an enabled counter rule claims its value. *)
CounterAdvances(s) ==
  /\ s \in DOMAIN table /\ table[s].rule \in Counters /\ runtime[s].enabled
  /\ runtime' = [runtime EXCEPT ![s].value = IF @ >= MaxValue THEN 0 ELSE @ + 1]
  /\ UNCHANGED <<staged, dirty, committed, table, epoch, allocations, handle>>

(* RulePackageLoader::loadCsv, from its StagingFailureGuard to its commit. *)
BeginLoad == ~loading /\ loading' = TRUE /\ epoch + 1 < MaxEpoch /\ ClearStaging

LoadRow(r, v, on) == epoch + 1 < MaxEpoch /\ StageRule(r, v, on)

LoadCommits == staged # NoRules /\ loading' = FALSE /\ ApplyCommit

(* An invalid row, a full table, an empty package or a failed commit. *)
LoadFails == loading' = FALSE /\ RevertStagingToActive

(* A request is refused: busy, stale, not found, not accepted, no free slot. *)
Refused == UNCHANGED vars

-----------------------------------------------------------------------------
Init ==
  /\ staged = NoRules /\ committed = NoRules /\ table = NoRules
  /\ dirty = FALSE /\ loading = FALSE
  /\ runtime = [s \in Slots |-> Idle]
  /\ epoch = 1
  /\ allocations = 0
  /\ handle = NoHandle

(* Requests that take the application lock. *)
Request ==
  \/ \E r \in Rule, v \in Values, on \in BOOLEAN : StageRule(r, v, on)
  \/ ClearStaging
  \/ RevertStagingToActive
  \/ ApplyCommit
  \/ ClearRules
  \/ ControlByHandle
  \/ \E r \in Addressable, on \in BOOLEAN : EnableByIdentity(r, on)

Load ==
  \/ /\ \E r \in Rule, v \in Values, on \in BOOLEAN : LoadRow(r, v, on)
     /\ UNCHANGED loading
  \/ LoadCommits
  \/ LoadFails

Next ==
  \/ ~loading /\ Request /\ UNCHANGED loading
  \/ BeginLoad
  \/ loading /\ Load
  \/ (IssueHandle \/ \E s \in Slots : CounterAdvances(s)) /\ UNCHANGED loading
  \/ Refused

Spec == Init /\ [][Next]_vars

-----------------------------------------------------------------------------
IsTableOf(entries, E) ==
  DOMAIN entries \subseteq Slots /\ entries \in [DOMAIN entries -> E]

Handle == [view : {"staging", "active"}, slot : Slots, epoch : Nat, rule : Rule]

(* The tables map slots to well-formed entries and the epoch is never 0. *)
TypeOK ==
  /\ IsTableOf(staged, Entry) /\ IsTableOf(committed, Entry) /\ IsTableOf(table, Compiled)
  /\ runtime \in [Slots -> [value : Values, enabled : BOOLEAN]]
  /\ dirty \in BOOLEAN /\ loading \in BOOLEAN
  /\ epoch \in Nat \ {0} /\ allocations \in Nat
  /\ handle = NoHandle \/ handle \in Handle

(* "A clean candidate is the editable mirror of Live now" (docs/API.md): with *)
(* candidate_dirty false, Apply would publish what is live, also after a      *)
(* package was rejected and after any live control.                           *)
CleanIsMirror == ~dirty => staged = committed

(* An entry that is not pending is the committed entry of its slot, so a      *)
(* commit that leaves its runtime state alone leaves the right one.           *)
UnpendingIsLive ==
  \A s \in DOMAIN staged : ~staged[s].publish =>
    s \in DOMAIN committed /\ staged[s] = committed[s]

(* What runs is what was committed: rules, order, enabled flags, and values   *)
(* but for the counters, which run on; a slot without a rule holds no state   *)
(* that a later occupant could inherit.                                       *)
LiveIsCommitted ==
  /\ DOMAIN table = DOMAIN committed
  /\ \A s \in DOMAIN table :
       /\ table[s].rule = committed[s].rule /\ table[s].born = committed[s].born
       /\ table[s].sequence = committed[s].sequence
       /\ runtime[s].enabled = committed[s].enabled
       /\ table[s].rule \notin Counters => runtime[s].value = committed[s].value
       /\ ~committed[s].publish
  /\ \A s \in Slots \ DOMAIN table : runtime[s] = Idle

(* A rule identity never occupies two slots, neither of the candidate nor     *)
(* live: a frame is not changed twice by the same rule.                       *)
OneSlotPerRule ==
  \A entries \in {staged, committed, table} : \A s, t \in DOMAIN entries :
    entries[s].rule = entries[t].rule => s = t

(* Slots are reused, and yet a rule id with the present epoch names the rule  *)
(* it was given out for, in the table it was read from: "a delayed request    *)
(* cannot control a different rule after a package/DBC generation swap".      *)
HandleFidelity ==
  (handle # NoHandle /\ handle.epoch = epoch) =>
    LET entries == IF handle.view = "staging" THEN staged ELSE committed IN
      handle.slot \in DOMAIN entries /\ entries[handle.slot].rule = handle.rule

(* "Within one kind, staging/package order is preserved" (docs/RULES.md), and *)
(* every kind runs after the kinds before it: checksums see the final bytes.  *)
OrderPreserved ==
  \A s, t \in DOMAIN table :
    RunsBefore(s, t) <=>
      \/ Kind[table[s].rule] < Kind[table[t].rule]
      \/ /\ Kind[table[s].rule] = Kind[table[t].rule]
         /\ table[s].born < table[t].born

(* "If the user later changes only the candidate enable state, that commit    *)
(* must not restore an older runtime value" (core/mutation_engine.cpp).       *)
EnableOnlyCommitKeepsValue ==
  [][ApplyCommit =>
       \A s \in DOMAIN staged : ~staged[s].edited => runtime'[s].value = runtime[s].value]_vars
=============================================================================
