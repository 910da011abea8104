------------------------- MODULE MutationEngineProofs -------------------------
(* Proofs about the mutation engine's tables and about what their rules do to a *)
(* frame.  The invariants of MutationEngine are inductive together with one     *)
(* strengthening: no handle is ahead of the epoch.  Those of FrameRewrite need   *)
(* two: the bits of a field are those of the value last written to it, and a    *)
(* slot holds what the next frame is owed.                                      *)
EXTENDS RuleEngine, TLAPS

HandleKnown == handle # NoHandle => handle.epoch <= epoch

Injective(entries) ==
  \A s, t \in DOMAIN entries : entries[s].rule = entries[t].rule => s = t

TablesOK ==
  /\ IsTableOf(staged, Entry) /\ IsTableOf(committed, Entry) /\ IsTableOf(table, Compiled)
  /\ runtime \in [Slots -> [value : Values, enabled : BOOLEAN]]

CountersOK ==
  /\ dirty \in BOOLEAN /\ loading \in BOOLEAN
  /\ epoch \in Nat \ {0} /\ allocations \in Nat
  /\ handle = NoHandle \/ handle \in Handle

StoreInv ==
  /\ TablesOK
  /\ CleanIsMirror /\ UnpendingIsLive /\ LiveIsCommitted
  /\ Injective(staged) /\ Injective(committed) /\ Injective(table)

RuleInv == StoreInv /\ CountersOK /\ HandleKnown /\ HandleFidelity

(* TypeOK and OneSlotPerRule are parts of the inductive invariant. *)
LEMMA InvParts == RuleInv => TypeOK /\ OneSlotPerRule
  BY DEF RuleInv, StoreInv, TablesOK, CountersOK, TypeOK, OneSlotPerRule, Injective

(* Every table is empty and nothing is live in the initial state. *)
LEMMA InitInv == Init => RuleInv
<1> USE RuleAssumption, BoundAssumption
<1> SUFFICES ASSUME Init PROVE RuleInv
  OBVIOUS
<1>1. TablesOK
  BY DEF Init, TablesOK, IsTableOf, NoRules, Idle, Slots, Values
<1>2. CleanIsMirror /\ UnpendingIsLive /\ LiveIsCommitted
  BY DEF Init, CleanIsMirror, UnpendingIsLive, LiveIsCommitted, NoRules, Idle
<1>3. Injective(staged) /\ Injective(committed) /\ Injective(table)
  BY DEF Init, Injective, NoRules
<1>4. CountersOK
  <2>1. dirty \in BOOLEAN /\ loading \in BOOLEAN /\ handle = NoHandle
    BY DEF Init
  <2>2. epoch \in Nat \ {0} /\ allocations \in Nat
    BY DEF Init
  <2> QED
    BY <2>1, <2>2 DEF CountersOK
<1>5. HandleKnown /\ HandleFidelity
  BY DEF Init, HandleKnown, HandleFidelity
<1> QED
  BY <1>1, <1>2, <1>3, <1>4, <1>5 DEF RuleInv, StoreInv

-----------------------------------------------------------------------------
(* Steps of the candidate table. *)

LEMMA NewEntryType ==
  ASSUME allocations \in Nat, NEW r \in Rule, NEW v \in Values, NEW on \in BOOLEAN
  PROVE  /\ NewEntry(r, v, on) \in Entry
         /\ NewEntry(r, v, on).rule = r /\ NewEntry(r, v, on).publish
<1>1. NextSequence \in Nat
  BY BoundAssumption DEF NextSequence
<1> QED
  BY <1>1 DEF NewEntry, Entry

(* A rule staged in a free slot keeps the candidate well formed. *)
LEMMA StageNewStore ==
  ASSUME StoreInv, CountersOK, UNCHANGED liveVars, dirty' = TRUE,
         NEW r \in Rule, NEW v \in Values, NEW on \in BOOLEAN, StageNew(r, v, on)
  PROVE  StoreInv'
<1> DEFINE e == NewEntry(r, v, on)
<1>1. e \in Entry /\ e.rule = r /\ e.publish
  BY NewEntryType DEF CountersOK
<1> PICK s \in FreeSlots : staged' = Install(staged, s, e)
  BY DEF StageNew
<1> HIDE DEF e
<1>2. s \in Slots /\ s \notin DOMAIN staged
  BY DEF FreeSlots
<1>3. /\ DOMAIN staged' = DOMAIN staged \union {s}
      /\ \A t \in DOMAIN staged' : staged'[t] = IF t = s THEN e ELSE staged[t]
      /\ staged' = [t \in DOMAIN staged' |-> staged'[t]]
  BY DEF Install
<1>4. IsTableOf(staged', Entry)
  BY <1>1, <1>2, <1>3 DEF StoreInv, TablesOK, IsTableOf
<1>5. UnpendingIsLive'
  BY <1>1, <1>3 DEF StoreInv, UnpendingIsLive, liveVars
<1>6. Injective(staged')
  <2>1. \A t \in DOMAIN staged : staged[t].rule # r
    BY DEF StageNew, SlotsOf
  <2> QED
    BY <1>1, <1>2, <1>3, <2>1 DEF StoreInv, Injective
<1>7. CleanIsMirror' /\ LiveIsCommitted'
  BY DEF StoreInv, CleanIsMirror, LiveIsCommitted, liveVars
<1>8. TablesOK' /\ Injective(committed)' /\ Injective(table)'
  BY <1>4 DEF StoreInv, TablesOK, Injective, IsTableOf, liveVars
<1> QED
  BY <1>5, <1>6, <1>7, <1>8 DEF StoreInv, Injective

(* A rule replaced in place keeps its slot, and its entry becomes pending. *)
LEMMA StageInPlaceStore ==
  ASSUME StoreInv, UNCHANGED liveVars, dirty' = TRUE,
         NEW r \in Rule, NEW v \in Values, NEW on \in BOOLEAN, StageInPlace(r, v, on)
  PROVE  StoreInv'
<1>1. /\ DOMAIN staged' = DOMAIN staged
      /\ staged' = [t \in DOMAIN staged' |-> staged'[t]]
  BY DEF StageInPlace
<1>2. ASSUME NEW t \in DOMAIN staged
      PROVE  /\ staged'[t] \in Entry /\ staged'[t].rule = staged[t].rule
             /\ staged'[t] = staged[t] \/ staged'[t].publish
  <2>1. staged[t] \in Entry
    BY DEF StoreInv, TablesOK, IsTableOf
  <2>2. CASE staged[t].rule = r
    <3>1. staged'[t] = [staged[t] EXCEPT !.value = v, !.enabled = on, !.publish = TRUE,
                                         !.edited = TRUE]
      BY <2>2 DEF StageInPlace
    <3> QED
      BY <2>1, <3>1 DEF Entry
  <2>3. CASE staged[t].rule # r
    BY <2>1, <2>3 DEF StageInPlace
  <2> QED
    BY <2>2, <2>3
<1>3. IsTableOf(staged', Entry)
  BY <1>1, <1>2 DEF StoreInv, TablesOK, IsTableOf
<1>4. UnpendingIsLive'
  BY <1>1, <1>2 DEF StoreInv, UnpendingIsLive, liveVars
<1>5. Injective(staged')
  BY <1>1, <1>2 DEF StoreInv, Injective
<1>6. CleanIsMirror' /\ LiveIsCommitted'
  BY DEF StoreInv, CleanIsMirror, LiveIsCommitted, liveVars
<1>7. TablesOK' /\ Injective(committed)' /\ Injective(table)'
  BY <1>3 DEF StoreInv, TablesOK, Injective, IsTableOf, liveVars
<1> QED
  BY <1>4, <1>5, <1>6, <1>7 DEF StoreInv, Injective

LEMMA StageRuleStore ==
  ASSUME StoreInv, CountersOK,
         NEW r \in Rule, NEW v \in Values, NEW on \in BOOLEAN, StageRule(r, v, on)
  PROVE  StoreInv'
<1>1. dirty' = TRUE /\ UNCHANGED liveVars
  BY DEF StageRule
<1>2. StageNew(r, v, on) \/ StageInPlace(r, v, on)
  BY DEF StageRule
<1> QED
  BY <1>1, <1>2, StageNewStore, StageInPlaceStore

(* An emptied candidate is clean only when nothing is live either. *)
LEMMA ClearStagingStore ==
  ASSUME StoreInv, ClearStaging
  PROVE  StoreInv'
<1>1. /\ staged' = NoRules /\ DOMAIN staged' = {} /\ dirty' = (table # NoRules)
      /\ UNCHANGED liveVars
  BY DEF ClearStaging, NoRules
<1>2. CleanIsMirror'
  <2>1. SUFFICES ASSUME ~dirty' PROVE staged' = committed'
    BY DEF CleanIsMirror
  <2>2. DOMAIN committed = {}
    BY <1>1, <2>1 DEF StoreInv, LiveIsCommitted, NoRules
  <2>3. committed = [s \in {} |-> committed[s]]
    BY <2>2 DEF StoreInv, TablesOK, IsTableOf
  <2>4. committed = NoRules
    BY <2>3 DEF NoRules
  <2> QED
    BY <1>1, <2>4 DEF liveVars
<1>3. IsTableOf(staged', Entry)
  BY <1>1 DEF IsTableOf, NoRules
<1>4. UnpendingIsLive' /\ Injective(staged')
  BY <1>1 DEF UnpendingIsLive, Injective
<1>5. LiveIsCommitted'
  BY <1>1 DEF StoreInv, LiveIsCommitted, liveVars
<1>6. TablesOK' /\ Injective(committed)' /\ Injective(table)'
  BY <1>1, <1>3 DEF StoreInv, TablesOK, Injective, IsTableOf, liveVars
<1> QED
  BY <1>2, <1>4, <1>5, <1>6 DEF StoreInv, Injective

LEMMA RevertStore ==
  ASSUME StoreInv, RevertStagingToActive
  PROVE  StoreInv'
<1>1. staged' = committed /\ UNCHANGED liveVars
  BY DEF RevertStagingToActive
<1>2. TablesOK' /\ Injective(staged)' /\ Injective(committed)' /\ Injective(table)'
  BY <1>1 DEF StoreInv, TablesOK, Injective, IsTableOf, liveVars
<1>3. CleanIsMirror' /\ UnpendingIsLive'
  BY <1>1 DEF CleanIsMirror, UnpendingIsLive, liveVars
<1>4. LiveIsCommitted'
  BY <1>1 DEF StoreInv, LiveIsCommitted, liveVars
<1> QED
  BY <1>2, <1>3, <1>4 DEF StoreInv

-----------------------------------------------------------------------------
(* The commit. *)

LEMMA CommittedEntry ==
  ASSUME NEW candidate, IsTableOf(candidate, Entry), NEW s \in DOMAIN candidate
  PROVE  /\ Committed(candidate)[s] \in Entry
         /\ ~Committed(candidate)[s].publish
         /\ Committed(candidate)[s].rule = candidate[s].rule
         /\ Committed(candidate)[s].sequence = candidate[s].sequence
         /\ Committed(candidate)[s].born = candidate[s].born
         /\ Committed(candidate)[s].value = candidate[s].value
         /\ Committed(candidate)[s].enabled = candidate[s].enabled
<1>1. candidate[s] \in Entry
  BY DEF IsTableOf
<1>2. Committed(candidate)[s] = [candidate[s] EXCEPT !.publish = FALSE, !.edited = FALSE]
  BY DEF Committed
<1> QED
  BY <1>1, <1>2 DEF Entry

(* What is published for a slot is what its candidate entry says, be it new   *)
(* or the one that is live already.                                           *)
LEMMA PublishedState ==
  ASSUME StoreInv, NEW candidate, IsTableOf(candidate, Entry),
         \A t \in DOMAIN candidate : ~candidate[t].publish =>
            t \in DOMAIN committed /\ candidate[t] = committed[t],
         NEW s \in DOMAIN candidate
  PROVE  /\ Publish(candidate)[s] \in [value : Values, enabled : BOOLEAN]
         /\ Publish(candidate)[s].enabled = candidate[s].enabled
         /\ candidate[s].rule \notin Counters =>
              Publish(candidate)[s].value = candidate[s].value
<1>1. candidate[s] \in Entry /\ s \in Slots
  BY DEF IsTableOf
<1>2. CASE candidate[s].publish
  <2>1. Publish(candidate)[s] = [value |-> candidate[s].value, enabled |-> candidate[s].enabled]
    BY <1>1, <1>2 DEF Publish
  <2> QED
    BY <1>1, <2>1 DEF Entry
<1>3. CASE ~candidate[s].publish
  <2>1. Publish(candidate)[s] = runtime[s]
    BY <1>1, <1>3 DEF Publish
  <2>2. s \in DOMAIN committed /\ candidate[s] = committed[s]
    BY <1>3
  <2>3. runtime[s] \in [value : Values, enabled : BOOLEAN]
    BY <1>1 DEF StoreInv, TablesOK
  <2>4. /\ runtime[s].enabled = candidate[s].enabled
        /\ candidate[s].rule \notin Counters => runtime[s].value = candidate[s].value
    BY <2>2 DEF StoreInv, LiveIsCommitted
  <2> QED
    BY <2>1, <2>3, <2>4
<1> QED
  BY <1>2, <1>3

LEMMA CommitStore ==
  ASSUME StoreInv, NEW candidate, IsTableOf(candidate, Entry), Injective(candidate),
         \A t \in DOMAIN candidate : ~candidate[t].publish =>
            t \in DOMAIN committed /\ candidate[t] = committed[t],
         CommitTo(candidate)
  PROVE  StoreInv'
<1>1. /\ runtime' = Publish(candidate)
      /\ staged' = Committed(candidate) /\ committed' = Committed(candidate)
      /\ table' = [s \in DOMAIN candidate |->
                     [rule |-> candidate[s].rule, sequence |-> candidate[s].sequence,
                      born |-> candidate[s].born]]
  BY DEF CommitTo
<1>2. DOMAIN Committed(candidate) = DOMAIN candidate /\ DOMAIN candidate \subseteq Slots
  BY DEF Committed, IsTableOf
<1>3. IsTableOf(Committed(candidate), Entry)
  <2>1. \A s \in DOMAIN candidate : Committed(candidate)[s] \in Entry
    BY CommittedEntry
  <2>2. Committed(candidate) = [s \in DOMAIN candidate |-> Committed(candidate)[s]]
    BY DEF Committed
  <2> QED
    BY <1>2, <2>1, <2>2 DEF IsTableOf
<1>4. IsTableOf(table', Compiled)
  <2>1. \A s \in DOMAIN candidate : candidate[s] \in Entry
    BY DEF IsTableOf
  <2> QED
    BY <1>1, <1>2, <2>1 DEF IsTableOf, Compiled, Entry
<1>5. runtime' \in [Slots -> [value : Values, enabled : BOOLEAN]]
  <2>1. \A s \in DOMAIN candidate :
          Publish(candidate)[s] \in [value : Values, enabled : BOOLEAN]
    BY PublishedState
  <2>2. \A s \in Slots \ DOMAIN candidate :
          Publish(candidate)[s] \in [value : Values, enabled : BOOLEAN]
    BY BoundAssumption DEF Publish, Idle, Values
  <2>3. Publish(candidate) = [s \in Slots |-> Publish(candidate)[s]]
    BY DEF Publish
  <2> QED
    BY <1>1, <2>1, <2>2, <2>3
<1>6. CleanIsMirror' /\ UnpendingIsLive'
  BY <1>1 DEF CleanIsMirror, UnpendingIsLive
<1>7. LiveIsCommitted'
  <2>1. DOMAIN table' = DOMAIN candidate /\ DOMAIN committed' = DOMAIN candidate
    BY <1>1, <1>2
  <2>2. ASSUME NEW s \in DOMAIN candidate
        PROVE  /\ table'[s].rule = committed'[s].rule /\ table'[s].born = committed'[s].born
               /\ table'[s].sequence = committed'[s].sequence
               /\ runtime'[s].enabled = committed'[s].enabled
               /\ table'[s].rule \notin Counters => runtime'[s].value = committed'[s].value
               /\ ~committed'[s].publish
    <3>1. table'[s] = [rule |-> candidate[s].rule, sequence |-> candidate[s].sequence,
                       born |-> candidate[s].born]
      BY <1>1
    <3> QED
      BY <1>1, <3>1, CommittedEntry, PublishedState
  <2>3. \A s \in Slots \ DOMAIN candidate : runtime'[s] = Idle
    BY <1>1 DEF Publish
  <2> QED
    BY <2>1, <2>2, <2>3 DEF LiveIsCommitted
<1>8. Injective(staged') /\ Injective(committed') /\ Injective(table')
  <2>1. \A s \in DOMAIN candidate : Committed(candidate)[s].rule = candidate[s].rule
    BY CommittedEntry
  <2>2. Injective(Committed(candidate))
    BY <1>2, <2>1 DEF Injective
  <2>3. Injective(table')
    BY <1>1 DEF Injective
  <2> QED
    BY <1>1, <2>2, <2>3
<1> QED
  BY <1>1, <1>3, <1>4, <1>5, <1>6, <1>7, <1>8 DEF StoreInv, TablesOK, Injective, IsTableOf

LEMMA ApplyCommitStore ==
  ASSUME StoreInv, ApplyCommit
  PROVE  StoreInv'
<1>1. CommitTo(staged)
  BY DEF ApplyCommit
<1>2. /\ IsTableOf(staged, Entry) /\ Injective(staged)
      /\ \A t \in DOMAIN staged : ~staged[t].publish =>
            t \in DOMAIN committed /\ staged[t] = committed[t]
  BY DEF StoreInv, TablesOK, UnpendingIsLive
<1> QED
  BY <1>1, <1>2, CommitStore

LEMMA ClearRulesStore ==
  ASSUME StoreInv, ClearRules
  PROVE  StoreInv'
<1>1. CommitTo(NoRules)
  BY DEF ClearRules
<1>2. DOMAIN NoRules = {} /\ IsTableOf(NoRules, Entry) /\ Injective(NoRules)
  BY DEF NoRules, IsTableOf, Injective
<1> QED
  BY <1>1, <1>2, CommitStore

-----------------------------------------------------------------------------
(* Runtime controls and the CAN task. *)

Fields == {"value", "enabled"}

(* The rules of the candidate and of the shadow stay in their slots. *)
KeepsRules ==
  /\ DOMAIN staged' = DOMAIN staged /\ DOMAIN committed' = DOMAIN committed
  /\ \A t \in DOMAIN staged : staged'[t].rule = staged[t].rule
  /\ \A t \in DOMAIN committed : committed'[t].rule = committed[t].rule

(* A control that is accepted changes one field of an entry and keeps its type. *)
LEMMA ControlledEntry ==
  ASSUME NEW e \in Entry, NEW field \in Fields, NEW x, Accepts(e.rule, field, x)
  PROVE  /\ Controlled(e, field, x) \in Entry
         /\ Controlled(e, field, x).rule = e.rule
         /\ Controlled(e, field, x).publish = e.publish
         /\ Controlled(e, field, x).sequence = e.sequence
         /\ Controlled(e, field, x).born = e.born
<1>1. CASE field = "value"
  <2>1. x \in Values
    BY <1>1 DEF Accepts, RuntimeValueFits
  <2>2. Controlled(e, field, x) = [e EXCEPT !.value = x]
    BY <1>1 DEF Controlled
  <2> QED
    BY <2>1, <2>2 DEF Entry
<1>2. CASE field # "value"
  <2>1. x \in BOOLEAN
    BY <1>2 DEF Accepts
  <2>2. Controlled(e, field, x) = [e EXCEPT !.enabled = x]
    BY <1>2 DEF Controlled
  <2> QED
    BY <2>1, <2>2 DEF Entry
<1> QED
  BY <1>1, <1>2

(* An entry and the runtime state of its slot agree after they are given the  *)
(* same value.                                                                *)
LEMMA ControlledAgree ==
  ASSUME NEW e \in Entry, NEW state \in [value : Values, enabled : BOOLEAN],
         NEW field \in Fields, NEW x, Accepts(e.rule, field, x),
         state.enabled = e.enabled, e.rule \notin Counters => state.value = e.value
  PROVE  /\ Controlled(state, field, x) \in [value : Values, enabled : BOOLEAN]
         /\ Controlled(state, field, x).enabled = Controlled(e, field, x).enabled
         /\ e.rule \notin Counters =>
              Controlled(state, field, x).value = Controlled(e, field, x).value
<1>1. CASE field = "value"
  <2>1. x \in Values
    BY <1>1 DEF Accepts, RuntimeValueFits
  <2>2. /\ Controlled(e, field, x) = [e EXCEPT !.value = x]
        /\ Controlled(state, field, x) = [state EXCEPT !.value = x]
    BY <1>1 DEF Controlled
  <2> QED
    BY <2>1, <2>2 DEF Entry
<1>2. CASE field # "value"
  <2>1. x \in BOOLEAN
    BY <1>2 DEF Accepts
  <2>2. /\ Controlled(e, field, x) = [e EXCEPT !.enabled = x]
        /\ Controlled(state, field, x) = [state EXCEPT !.enabled = x]
    BY <1>2 DEF Controlled
  <2> QED
    BY <2>1, <2>2 DEF Entry
<1> QED
  BY <1>1, <1>2

LEMMA ChangedTable ==
  ASSUME NEW entries, IsTableOf(entries, Entry), NEW s, NEW field \in Fields, NEW x,
         s \in DOMAIN entries => Accepts(entries[s].rule, field, x)
  PROVE  /\ IsTableOf(Changed(entries, s, field, x), Entry)
         /\ DOMAIN Changed(entries, s, field, x) = DOMAIN entries
         /\ \A t \in DOMAIN entries :
              /\ Changed(entries, s, field, x)[t].rule = entries[t].rule
              /\ Changed(entries, s, field, x)[t].publish = entries[t].publish
              /\ Changed(entries, s, field, x)[t].sequence = entries[t].sequence
              /\ Changed(entries, s, field, x)[t].born = entries[t].born
<1>1. /\ DOMAIN Changed(entries, s, field, x) = DOMAIN entries
      /\ Changed(entries, s, field, x) =
           [t \in DOMAIN entries |-> Changed(entries, s, field, x)[t]]
  BY DEF Changed
<1>2. ASSUME NEW t \in DOMAIN entries
      PROVE  /\ Changed(entries, s, field, x)[t] \in Entry
             /\ Changed(entries, s, field, x)[t].rule = entries[t].rule
             /\ Changed(entries, s, field, x)[t].publish = entries[t].publish
             /\ Changed(entries, s, field, x)[t].sequence = entries[t].sequence
             /\ Changed(entries, s, field, x)[t].born = entries[t].born
  <2>1. entries[t] \in Entry
    BY DEF IsTableOf
  <2>2. CASE t = s
    <3>1. Changed(entries, s, field, x)[t] = Controlled(entries[t], field, x)
      BY <2>2 DEF Changed
    <3>2. Accepts(entries[t].rule, field, x)
      BY <2>2
    <3> QED
      BY <2>1, <3>1, <3>2, ControlledEntry
  <2>3. CASE t # s
    <3>1. Changed(entries, s, field, x)[t] = entries[t]
      BY <2>3 DEF Changed
    <3> QED
      BY <2>1, <3>1
  <2> QED
    BY <2>2, <2>3
<1>3. IsTableOf(Changed(entries, s, field, x), Entry)
  BY <1>1, <1>2 DEF IsTableOf
<1> QED
  BY <1>1, <1>2, <1>3

LEMMA ChangedStaged ==
  ASSUME StoreInv, NEW s, NEW field \in Fields, NEW x,
         s \in DOMAIN staged => Accepts(staged[s].rule, field, x)
  PROVE  /\ IsTableOf(Changed(staged, s, field, x), Entry)
         /\ DOMAIN Changed(staged, s, field, x) = DOMAIN staged
         /\ \A t \in DOMAIN staged :
              /\ Changed(staged, s, field, x)[t].rule = staged[t].rule
              /\ Changed(staged, s, field, x)[t].publish = staged[t].publish
<1>1. IsTableOf(staged, Entry)
  BY DEF StoreInv, TablesOK
<1> DEFINE c == Changed(staged, s, field, x)
<1>2. IsTableOf(c, Entry) /\ DOMAIN c = DOMAIN staged
  BY <1>1, ChangedTable, ZenonT(60)
<1>3. ASSUME NEW t \in DOMAIN staged
      PROVE  c[t].rule = staged[t].rule
  BY <1>1, <1>2, ChangedTable
<1>4. ASSUME NEW t \in DOMAIN staged
      PROVE  c[t].publish = staged[t].publish
  BY <1>1, <1>2, ChangedTable
<1> QED
  BY <1>2, <1>3, <1>4

(* A change of the candidate makes its entry pending and leaves the others. *)
LEMMA CandidateStore ==
  ASSUME StoreInv, NEW s \in DOMAIN staged, NEW field \in Fields, NEW x,
         Accepts(staged[s].rule, field, x), staged' = Candidate(s, field, x),
         UNCHANGED liveVars, dirty' \in BOOLEAN, dirty \/ Pending(s) => dirty'
  PROVE  dirty' => StoreInv' /\ KeepsRules
<1> SUFFICES ASSUME dirty' PROVE StoreInv' /\ KeepsRules
  OBVIOUS
<1> DEFINE c == Changed(staged, s, field, x)
<1>1. /\ IsTableOf(c, Entry) /\ DOMAIN c = DOMAIN staged
      /\ \A t \in DOMAIN staged : c[t].rule = staged[t].rule
  BY ChangedTable DEF StoreInv, TablesOK
<1>2. \A t \in DOMAIN staged : t # s => c[t] = staged[t]
  BY DEF Changed
<1>3. staged' = [c EXCEPT ![s] = [c[s] EXCEPT !.publish = TRUE,
                                              !.edited = @ \/ field = "value"]]
  BY DEF Candidate
<1> HIDE DEF c
<1>4. c[s] \in Entry
  BY <1>1 DEF IsTableOf
<1>5. /\ staged'[s] \in Entry /\ staged'[s].rule = c[s].rule /\ staged'[s].publish
      /\ DOMAIN staged' = DOMAIN staged
      /\ staged' = [t \in DOMAIN staged |-> staged'[t]]
      /\ \A t \in DOMAIN staged : t # s => staged'[t] = c[t]
  BY <1>1, <1>3, <1>4, ZenonT(60) DEF Entry, IsTableOf
<1>6. IsTableOf(staged', Entry)
  BY <1>1, <1>5 DEF IsTableOf
<1>7. UnpendingIsLive'
  BY <1>2, <1>5 DEF StoreInv, UnpendingIsLive, liveVars
<1>8. Injective(staged')
  <2>1. \A t \in DOMAIN staged : staged'[t].rule = staged[t].rule
    BY <1>1, <1>5
  <2> QED
    BY <1>5, <2>1 DEF StoreInv, Injective
<1>9. LiveIsCommitted' /\ CleanIsMirror'
  BY DEF StoreInv, LiveIsCommitted, CleanIsMirror, liveVars
<1>10. TablesOK' /\ Injective(committed)' /\ Injective(table)'
  BY <1>6 DEF StoreInv, TablesOK, Injective, IsTableOf, liveVars
<1>11. KeepsRules
  BY <1>1, <1>5 DEF KeepsRules, liveVars
<1> QED
  BY <1>7, <1>8, <1>9, <1>10, <1>11 DEF StoreInv, Injective

(* A pending entry makes the candidate dirty. *)
LEMMA PendingIsDirty ==
  ASSUME StoreInv, NEW s, Pending(s)
  PROVE  dirty
  BY DEF StoreInv, CleanIsMirror, LiveIsCommitted, Pending

LEMMA ControlStagedStore ==
  ASSUME StoreInv, NEW s, NEW field \in Fields, NEW x, ControlStaged(s, field, x)
  PROVE  StoreInv' /\ KeepsRules
  BY CandidateStore DEF ControlStaged

(* A live control changes the runtime state and the shadow together, and the  *)
(* candidate with them unless its entry is pending.                           *)
LEMMA LiveStore ==
  ASSUME StoreInv, NEW s \in DOMAIN committed, NEW field \in Fields, NEW x,
         Accepts(committed[s].rule, field, x),
         committed' = Changed(committed, s, field, x),
         staged' = IF Pending(s) THEN staged ELSE Changed(staged, s, field, x),
         runtime' = Changed(runtime, s, field, x), UNCHANGED <<table, dirty>>
  PROVE  StoreInv' /\ KeepsRules
<1>1. /\ IsTableOf(committed', Entry) /\ DOMAIN committed' = DOMAIN committed
      /\ \A t \in DOMAIN committed :
           /\ committed'[t].rule = committed[t].rule
           /\ committed'[t].publish = committed[t].publish
           /\ committed'[t].sequence = committed[t].sequence
           /\ committed'[t].born = committed[t].born
  BY ChangedTable DEF StoreInv, TablesOK
<1>2. s \in DOMAIN staged => Pending(s) \/ staged[s] = committed[s]
  BY DEF StoreInv, UnpendingIsLive, Pending
<1>3. /\ IsTableOf(staged', Entry) /\ DOMAIN staged' = DOMAIN staged
      /\ \A t \in DOMAIN staged : staged'[t].rule = staged[t].rule
                                 /\ staged'[t].publish = staged[t].publish
  <2>1. CASE Pending(s)
    BY <2>1 DEF StoreInv, TablesOK
  <2>2. CASE ~Pending(s)
    <3>1. s \in DOMAIN staged => Accepts(staged[s].rule, field, x)
      BY <1>2, <2>2
    <3>2. staged' = Changed(staged, s, field, x) /\ IsTableOf(staged, Entry)
      BY <2>2 DEF StoreInv, TablesOK
    <3>3. /\ IsTableOf(Changed(staged, s, field, x), Entry)
          /\ DOMAIN Changed(staged, s, field, x) = DOMAIN staged
          /\ \A t \in DOMAIN staged :
               /\ Changed(staged, s, field, x)[t].rule = staged[t].rule
               /\ Changed(staged, s, field, x)[t].publish = staged[t].publish
      BY <3>1, ChangedStaged, ZenonT(60)
    <3> QED
      BY <3>2, <3>3
  <2> QED
    BY <2>1, <2>2
<1>4. ASSUME NEW t \in DOMAIN staged, ~staged[t].publish
      PROVE  t \in DOMAIN committed /\ staged'[t] = committed'[t]
  <2>1. t \in DOMAIN committed /\ staged[t] = committed[t]
    BY <1>4 DEF StoreInv, UnpendingIsLive
  <2>2. CASE Pending(s)
    <3>1. t # s
      BY <1>4, <2>2 DEF Pending
    <3> QED
      BY <2>1, <2>2, <3>1 DEF Changed
  <2>3. CASE ~Pending(s)
    BY <2>1, <2>3 DEF Changed
  <2> QED
    BY <2>1, <2>2, <2>3
<1>5. UnpendingIsLive'
  BY <1>1, <1>3, <1>4 DEF UnpendingIsLive
<1>6. CleanIsMirror'
  <2> SUFFICES ASSUME ~dirty PROVE staged' = committed'
    BY DEF CleanIsMirror
  <2>1. staged = committed /\ ~Pending(s)
    BY PendingIsDirty DEF StoreInv, CleanIsMirror
  <2> QED
    BY <2>1
<1>7. /\ runtime' \in [Slots -> [value : Values, enabled : BOOLEAN]]
      /\ \A t \in DOMAIN committed :
           /\ runtime'[t].enabled = committed'[t].enabled
           /\ committed'[t].rule \notin Counters => runtime'[t].value = committed'[t].value
      /\ \A t \in Slots : t # s => runtime'[t] = runtime[t]
  <2>1. /\ runtime \in [Slots -> [value : Values, enabled : BOOLEAN]]
        /\ DOMAIN runtime = Slots /\ DOMAIN committed \subseteq Slots /\ s \in Slots
        /\ \A t \in DOMAIN committed : committed[t] \in Entry
    BY DEF StoreInv, TablesOK, IsTableOf
  <2>2. \A t \in DOMAIN committed :
          /\ runtime[t].enabled = committed[t].enabled
          /\ committed[t].rule \notin Counters => runtime[t].value = committed[t].value
    BY DEF StoreInv, LiveIsCommitted
  <2>3. \A t \in Slots : t # s => runtime'[t] = runtime[t]
    BY <2>1 DEF Changed
  <2>4. /\ runtime'[s] = Controlled(runtime[s], field, x)
        /\ committed'[s] = Controlled(committed[s], field, x)
    BY <2>1 DEF Changed
  <2>5. /\ runtime'[s] \in [value : Values, enabled : BOOLEAN]
        /\ runtime'[s].enabled = committed'[s].enabled
        /\ committed[s].rule \notin Counters => runtime'[s].value = committed'[s].value
    BY <2>1, <2>2, <2>4, ControlledAgree
  <2>6. runtime' \in [Slots -> [value : Values, enabled : BOOLEAN]]
    <3>1. runtime' = [t \in Slots |-> runtime'[t]]
      BY <2>1 DEF Changed
    <3> QED
      BY <2>1, <2>3, <2>5, <3>1
  <2>7. \A t \in DOMAIN committed : t # s => committed'[t] = committed[t]
    BY DEF Changed
  <2> QED
    BY <1>1, <2>1, <2>2, <2>3, <2>5, <2>6, <2>7
<1>8. LiveIsCommitted'
  BY <1>1, <1>7 DEF StoreInv, LiveIsCommitted
<1>9. Injective(staged') /\ Injective(committed') /\ Injective(table')
  BY <1>1, <1>3 DEF StoreInv, Injective
<1>10. TablesOK'
  BY <1>1, <1>3, <1>7 DEF StoreInv, TablesOK, IsTableOf
<1>11. KeepsRules
  BY <1>1, <1>3 DEF KeepsRules
<1> QED
  BY <1>5, <1>6, <1>8, <1>9, <1>10, <1>11 DEF StoreInv, Injective

LEMMA ControlActiveStore ==
  ASSUME StoreInv, NEW s, NEW field \in Fields, NEW x, ControlActive(s, field, x)
  PROVE  StoreInv' /\ KeepsRules
  BY LiveStore DEF ControlActive

LEMMA ControlLegacyStore ==
  ASSUME StoreInv, NEW s, NEW field \in Fields, NEW x, ControlLegacy(s, field, x)
  PROVE  StoreInv' /\ KeepsRules
<1>1. CASE Pending(s)
  <2>1. /\ Accepts(staged[s].rule, field, x) /\ staged' = Candidate(s, field, x)
        /\ UNCHANGED <<liveVars, dirty>> /\ s \in DOMAIN staged
    BY <1>1 DEF ControlLegacy, Pending
  <2>2. dirty
    BY <1>1, PendingIsDirty
  <2>3. dirty' = dirty
    BY <2>1
  <2> QED
    BY <2>1, <2>2, <2>3, CandidateStore
<1>2. CASE ~Pending(s)
  <2>1. s \in DOMAIN staged => s \in DOMAIN committed /\ staged[s] = committed[s]
    BY <1>2 DEF StoreInv, UnpendingIsLive, Pending
  <2>2. /\ s \in DOMAIN committed /\ Accepts(committed[s].rule, field, x)
        /\ staged' = Changed(staged, s, field, x)
        /\ committed' = Changed(committed, s, field, x)
        /\ runtime' = Changed(runtime, s, field, x) /\ UNCHANGED <<table, dirty>>
    BY <1>2, <2>1 DEF ControlLegacy
  <2> QED
    BY <1>2, <2>2, LiveStore
<1> QED
  BY <1>1, <1>2

LEMMA CounterStore ==
  ASSUME StoreInv, NEW s, CounterAdvances(s)
  PROVE  StoreInv'
<1>1. /\ s \in DOMAIN table /\ table[s].rule \in Counters
      /\ UNCHANGED <<staged, dirty, committed, table>>
  BY DEF CounterAdvances
<1>2. s \in Slots /\ runtime[s] \in [value : Values, enabled : BOOLEAN]
  BY <1>1 DEF StoreInv, TablesOK, IsTableOf
<1> DEFINE next == IF runtime[s].value >= MaxValue THEN 0 ELSE runtime[s].value + 1
<1>3. next \in Values
  BY <1>2, BoundAssumption DEF Values
<1>4. runtime' = [runtime EXCEPT ![s] = [runtime[s] EXCEPT !.value = next]]
  BY DEF CounterAdvances
<1> HIDE DEF next
<1>5. /\ runtime' \in [Slots -> [value : Values, enabled : BOOLEAN]]
      /\ \A t \in Slots : runtime'[t].enabled = runtime[t].enabled
      /\ \A t \in Slots : t # s => runtime'[t] = runtime[t]
  BY <1>2, <1>3, <1>4 DEF StoreInv, TablesOK
<1>6. LiveIsCommitted'
  BY <1>1, <1>5 DEF StoreInv, LiveIsCommitted, TablesOK, IsTableOf
<1>7. CleanIsMirror' /\ UnpendingIsLive'
  BY <1>1 DEF StoreInv, CleanIsMirror, UnpendingIsLive
<1>8. TablesOK' /\ Injective(staged)' /\ Injective(committed)' /\ Injective(table)'
  BY <1>1, <1>5 DEF StoreInv, TablesOK, Injective, IsTableOf
<1> QED
  BY <1>6, <1>7, <1>8 DEF StoreInv

-----------------------------------------------------------------------------
(* Handles and the epoch. *)

HandleInv == CountersOK /\ HandleKnown /\ HandleFidelity

(* An operation that reuses slots advances the epoch, and every handle given  *)
(* out before it becomes stale.                                               *)
LEMMA EpochStep ==
  ASSUME HandleInv, dirty' \in BOOLEAN, loading' \in BOOLEAN, allocations' \in Nat,
         epoch' \in Nat, epoch' > epoch, UNCHANGED handle
  PROVE  HandleInv'
<1>1. CountersOK'
  BY DEF HandleInv, CountersOK
<1>2. ASSUME handle # NoHandle
      PROVE  handle.epoch <= epoch' /\ handle.epoch # epoch'
  <2>1. handle \in Handle
    BY <1>2 DEF HandleInv, CountersOK
  <2>2. handle.epoch \in Nat
    BY <2>1 DEF Handle
  <2>3. epoch \in Nat /\ handle.epoch <= epoch
    BY <1>2 DEF HandleInv, HandleKnown, CountersOK
  <2> QED
    BY <2>2, <2>3
<1>3. HandleKnown' /\ HandleFidelity'
  BY <1>2 DEF HandleKnown, HandleFidelity
<1> QED
  BY <1>1, <1>3 DEF HandleInv

(* An operation that keeps the epoch keeps the rules in their slots. *)
LEMMA SlotStep ==
  ASSUME HandleInv, KeepsRules, dirty' \in BOOLEAN, loading' \in BOOLEAN,
         UNCHANGED <<epoch, allocations, handle>>
  PROVE  HandleInv'
<1>1. CountersOK' /\ HandleKnown'
  BY DEF HandleInv, CountersOK, HandleKnown
<1>2. HandleFidelity'
  BY DEF HandleInv, HandleFidelity, KeepsRules
<1> QED
  BY <1>1, <1>2 DEF HandleInv

LEMMA IssueStep ==
  ASSUME StoreInv, HandleInv, IssueHandle, UNCHANGED loading
  PROVE  StoreInv' /\ HandleInv'
<1>1. UNCHANGED <<staged, dirty, liveVars, epoch, allocations>>
  BY DEF IssueHandle
<1>2. StoreInv'
  BY <1>1 DEF StoreInv, TablesOK, CleanIsMirror, UnpendingIsLive, LiveIsCommitted, Injective,
              IsTableOf, liveVars
<1>3. handle' \in HandlesOf("active", table) \union HandlesOf("staging", staged)
  BY DEF IssueHandle
<1>4. epoch \in Nat
  BY DEF HandleInv, CountersOK
<1>5. /\ dirty' \in BOOLEAN /\ loading' \in BOOLEAN
      /\ epoch' \in Nat \ {0} /\ allocations' \in Nat
  BY <1>1 DEF HandleInv, CountersOK
<1>6. CASE handle' \in HandlesOf("active", table)
  <2>1. PICK s \in DOMAIN table :
          handle' = [view |-> "active", slot |-> s, epoch |-> epoch, rule |-> table[s].rule]
    BY <1>6 DEF HandlesOf
  <2>2. /\ s \in Slots /\ s \in DOMAIN committed /\ table[s] \in Compiled
        /\ committed[s].rule = table[s].rule
    BY DEF StoreInv, TablesOK, IsTableOf, LiveIsCommitted
  <2>3. handle' \in Handle
    BY <1>4, <2>1, <2>2 DEF Handle, Compiled
  <2>4. HandleKnown' /\ HandleFidelity'
    BY <1>1, <1>4, <2>1, <2>2 DEF HandleKnown, HandleFidelity, liveVars
  <2> QED
    BY <1>2, <1>5, <2>3, <2>4 DEF HandleInv, CountersOK
<1>7. CASE handle' \in HandlesOf("staging", staged)
  <2>1. PICK s \in DOMAIN staged :
          handle' = [view |-> "staging", slot |-> s, epoch |-> epoch, rule |-> staged[s].rule]
    BY <1>7 DEF HandlesOf
  <2>2. s \in Slots /\ staged[s] \in Entry
    BY DEF StoreInv, TablesOK, IsTableOf
  <2>3. handle' \in Handle
    BY <1>4, <2>1, <2>2 DEF Handle, Entry
  <2>4. HandleKnown' /\ HandleFidelity'
    BY <1>1, <1>4, <2>1, <2>2 DEF HandleKnown, HandleFidelity
  <2> QED
    BY <1>2, <1>5, <2>3, <2>4 DEF HandleInv, CountersOK
<1> QED
  BY <1>3, <1>6, <1>7

-----------------------------------------------------------------------------
(* The operations, each with everything it does to the tables and the epoch. *)

LEMMA StageRuleStep ==
  ASSUME StoreInv, HandleInv, loading' \in BOOLEAN,
         NEW r \in Rule, NEW v \in Values, NEW on \in BOOLEAN, StageRule(r, v, on)
  PROVE  StoreInv' /\ HandleInv'
<1>1. StoreInv'
  BY StageRuleStore DEF HandleInv
<1>2. allocations' \in Nat
  <2>1. allocations' = allocations + 1 \/ allocations' = allocations
    <3>1. CASE StageNew(r, v, on)
      BY <3>1 DEF StageNew
    <3>2. CASE StageInPlace(r, v, on)
      BY <3>2 DEF StageInPlace
    <3> QED
      BY <3>1, <3>2 DEF StageRule
  <2> QED
    BY <2>1 DEF HandleInv, CountersOK
<1>3. epoch' \in Nat /\ epoch' > epoch /\ dirty' = TRUE /\ UNCHANGED handle
  BY DEF StageRule, AdvanceRuleEpoch, HandleInv, CountersOK
<1> QED
  BY <1>1, <1>2, <1>3, EpochStep

LEMMA ClearStagingStep ==
  ASSUME StoreInv, HandleInv, loading' \in BOOLEAN, ClearStaging
  PROVE  StoreInv' /\ HandleInv'
<1>1. StoreInv'
  BY ClearStagingStore
<1>2. epoch' \in Nat /\ epoch' > epoch /\ allocations' \in Nat /\ UNCHANGED handle
  BY DEF ClearStaging, AdvanceRuleEpoch, HandleInv, CountersOK
<1>3. dirty' \in BOOLEAN
  BY DEF ClearStaging
<1> QED
  BY <1>1, <1>2, <1>3, EpochStep

LEMMA RevertStep ==
  ASSUME StoreInv, HandleInv, loading' \in BOOLEAN, RevertStagingToActive
  PROVE  StoreInv' /\ HandleInv'
<1>1. StoreInv'
  BY RevertStore
<1>2. epoch' \in Nat /\ epoch' > epoch /\ allocations' \in Nat /\ UNCHANGED handle
  BY DEF RevertStagingToActive, AdvanceRuleEpoch, HandleInv, CountersOK
<1>3. dirty' \in BOOLEAN
  BY DEF RevertStagingToActive
<1> QED
  BY <1>1, <1>2, <1>3, EpochStep

LEMMA ApplyCommitStep ==
  ASSUME StoreInv, HandleInv, loading' \in BOOLEAN, ApplyCommit
  PROVE  StoreInv' /\ HandleInv'
<1>1. StoreInv'
  BY ApplyCommitStore
<1>2. epoch' \in Nat /\ epoch' > epoch /\ allocations' \in Nat /\ UNCHANGED handle
  BY DEF ApplyCommit, AdvanceRuleEpoch, HandleInv, CountersOK
<1>3. dirty' \in BOOLEAN
  BY DEF ApplyCommit, CommitTo
<1> QED
  BY <1>1, <1>2, <1>3, EpochStep

LEMMA ClearRulesStep ==
  ASSUME StoreInv, HandleInv, loading' \in BOOLEAN, ClearRules
  PROVE  StoreInv' /\ HandleInv'
<1>1. StoreInv'
  BY ClearRulesStore
<1>2. epoch' \in Nat /\ epoch' > epoch /\ allocations' \in Nat /\ UNCHANGED handle
  BY DEF ClearRules, HandleInv, CountersOK
<1>3. dirty' \in BOOLEAN
  BY DEF ClearRules, CommitTo
<1> QED
  BY <1>1, <1>2, <1>3, EpochStep

LEMMA ControlStep ==
  ASSUME StoreInv, HandleInv, loading' \in BOOLEAN,
         UNCHANGED <<epoch, allocations, handle>>,
         NEW s, NEW field \in Fields, NEW x,
         ControlStaged(s, field, x) \/ ControlActive(s, field, x) \/ ControlLegacy(s, field, x)
  PROVE  StoreInv' /\ HandleInv'
<1>1. StoreInv' /\ KeepsRules
  BY ControlStagedStore, ControlActiveStore, ControlLegacyStore
<1>2. dirty' \in BOOLEAN
  BY DEF ControlStaged, ControlActive, ControlLegacy, HandleInv, CountersOK
<1> QED
  BY <1>1, <1>2, SlotStep

LEMMA CounterStep ==
  ASSUME StoreInv, HandleInv, loading' \in BOOLEAN, NEW s, CounterAdvances(s)
  PROVE  StoreInv' /\ HandleInv'
<1>1. StoreInv'
  BY CounterStore
<1>2. UNCHANGED <<staged, dirty, committed, epoch, allocations, handle>>
  BY DEF CounterAdvances
<1>3. KeepsRules /\ dirty' \in BOOLEAN
  BY <1>2 DEF KeepsRules, HandleInv, CountersOK
<1> QED
  BY <1>1, <1>2, <1>3, SlotStep

LEMMA StutterStep ==
  ASSUME RuleInv, UNCHANGED vars
  PROVE  RuleInv'
  BY DEF RuleInv, StoreInv, TablesOK, CountersOK, CleanIsMirror, UnpendingIsLive,
         LiveIsCommitted, Injective, IsTableOf, HandleKnown, HandleFidelity, vars, liveVars

LEMMA RequestStep ==
  ASSUME StoreInv, HandleInv, Request, UNCHANGED loading
  PROVE  StoreInv' /\ HandleInv'
<1>1. loading' \in BOOLEAN
  BY DEF HandleInv, CountersOK
<1>2. CASE \E r \in Rule, v \in Values, on \in BOOLEAN : StageRule(r, v, on)
  BY <1>1, <1>2, StageRuleStep
<1>3. CASE ClearStaging
  BY <1>1, <1>3, ClearStagingStep
<1>4. CASE RevertStagingToActive
  BY <1>1, <1>4, RevertStep
<1>5. CASE ApplyCommit
  BY <1>1, <1>5, ApplyCommitStep
<1>6. CASE ClearRules
  BY <1>1, <1>6, ClearRulesStep
<1>7. CASE ControlByHandle
  <2>1. PICK field \in Fields : \E x \in Inputs(field) :
          \/ ControlStaged(handle.slot, field, x)
          \/ ControlActive(handle.slot, field, x)
          \/ ControlLegacy(handle.slot, field, x)
    BY <1>7 DEF ControlByHandle, Fields
  <2>2. UNCHANGED <<epoch, allocations, handle>>
    BY <1>7 DEF ControlByHandle
  <2> QED
    BY <1>1, <2>1, <2>2, ControlStep
<1>8. CASE \E r \in Addressable, on \in BOOLEAN : EnableByIdentity(r, on)
  <2>1. PICK r \in Addressable, on \in BOOLEAN : EnableByIdentity(r, on)
    BY <1>8
  <2>2. PICK s \in SlotsOf(table, r) :
          \/ ControlStaged(s, "enabled", on)
          \/ ControlActive(s, "enabled", on)
          \/ ControlLegacy(s, "enabled", on)
    BY <2>1 DEF EnableByIdentity
  <2>3. UNCHANGED <<epoch, allocations, handle>> /\ "enabled" \in Fields
    BY <2>1 DEF EnableByIdentity, Fields
  <2> QED
    BY <1>1, <2>2, <2>3, ControlStep
<1> QED
  BY <1>2, <1>3, <1>4, <1>5, <1>6, <1>7, <1>8 DEF Request

LEMMA LoadStep ==
  ASSUME StoreInv, HandleInv, Load
  PROVE  StoreInv' /\ HandleInv'
<1>1. CASE /\ \E r \in Rule, v \in Values, on \in BOOLEAN : LoadRow(r, v, on)
           /\ UNCHANGED loading
  <2>1. loading' \in BOOLEAN
    BY <1>1 DEF HandleInv, CountersOK
  <2> QED
    BY <1>1, <2>1, StageRuleStep DEF LoadRow
<1>2. CASE LoadCommits
  BY <1>2, ApplyCommitStep DEF LoadCommits
<1>3. CASE LoadFails
  BY <1>3, RevertStep DEF LoadFails
<1> QED
  BY <1>1, <1>2, <1>3 DEF Load

LEMMA NextInv == RuleInv /\ [Next]_vars => RuleInv'
<1> SUFFICES ASSUME RuleInv, [Next]_vars PROVE RuleInv'
  OBVIOUS
<1>0. StoreInv /\ HandleInv
  BY DEF RuleInv, HandleInv
<1>1. CASE ~loading /\ Request /\ UNCHANGED loading
  BY <1>0, <1>1, RequestStep DEF RuleInv, HandleInv
<1>2. CASE BeginLoad
  BY <1>0, <1>2, ClearStagingStep DEF BeginLoad, RuleInv, HandleInv
<1>3. CASE loading /\ Load
  BY <1>0, <1>3, LoadStep DEF RuleInv, HandleInv
<1>4. CASE IssueHandle /\ UNCHANGED loading
  BY <1>0, <1>4, IssueStep DEF RuleInv, HandleInv
<1>5. CASE (\E s \in Slots : CounterAdvances(s)) /\ UNCHANGED loading
  <2>1. loading' \in BOOLEAN
    BY <1>0, <1>5 DEF HandleInv, CountersOK
  <2> QED
    BY <1>0, <1>5, <2>1, CounterStep DEF RuleInv, HandleInv
<1>6. CASE Refused
  BY <1>6, StutterStep DEF Refused
<1>7. CASE UNCHANGED vars
  BY <1>7, StutterStep
<1> QED
  BY <1>1, <1>2, <1>3, <1>4, <1>5, <1>6, <1>7 DEF Next

-----------------------------------------------------------------------------
(* The inductive invariant holds always. *)
THEOREM RuleInvariant == Spec => []RuleInv
  BY InitInv, NextInv, PTL DEF Spec

(* The rule tables of the engine are well formed for every number of slots,   *)
(* rules and sequence numbers.                                                *)
THEOREM RulesTypeOK == Spec => []TypeOK
  BY RuleInvariant, InvParts, PTL

(* A rule id with the present epoch names the rule it was given out for: no   *)
(* interleaving of stagings, commits, reverts, package loads and controls     *)
(* lets a delayed request reach another rule of the table it was read from.   *)
THEOREM HandlesAreFaithful == Spec => []HandleFidelity
<1>1. RuleInv => HandleFidelity
  BY DEF RuleInv
<1> QED
  BY <1>1, RuleInvariant, PTL

(* A candidate that is reported clean is the committed table, after whatever  *)
(* failed package load or live control.                                       *)
THEOREM CleanCandidateIsLive == Spec => [](CleanIsMirror /\ UnpendingIsLive)
<1>1. RuleInv => CleanIsMirror /\ UnpendingIsLive
  BY DEF RuleInv, StoreInv
<1> QED
  BY <1>1, RuleInvariant, PTL

(* An entry without a pending change is the committed entry of its slot, so a *)
(* commit that leaves its runtime state alone leaves the right one.           *)
THEOREM UnpendingEntriesAreLive == Spec => []UnpendingIsLive
  BY CleanCandidateIsLive, PTL

(* What runs is what was committed, rule by rule and slot by slot, and no     *)
(* rule identity takes two slots.                                             *)
THEOREM CommittedRulesRun == Spec => [](LiveIsCommitted /\ OneSlotPerRule)
<1>1. RuleInv => LiveIsCommitted
  BY DEF RuleInv, StoreInv
<1> QED
  BY <1>1, RuleInvariant, InvParts, PTL

(* A rule never occupies two slots of a table and changes a frame once.       *)
THEOREM RuleHasOneSlot == Spec => []OneSlotPerRule
  BY CommittedRulesRun, PTL

-----------------------------------------------------------------------------
(* Sequence numbers: a table's entries carry the number they were born with, cut to the *)
(* width of a sequence number, and no two of them the same.                    *)
Numbered(entries) ==
  \A s \in DOMAIN entries :
    entries[s].born \in 1 .. allocations /\ entries[s].sequence = entries[s].born % SequenceModulus

BornOnce(entries) ==
  \A s, t \in DOMAIN entries : entries[s].born = entries[t].born => s = t

NumbersInv ==
  Numbered(staged) /\ BornOnce(staged) /\ Numbered(committed) /\ BornOnce(committed)

(* The entries of new are entries of old, with the numbers they had. *)
Numbers(new, old) ==
  /\ DOMAIN new \subseteq DOMAIN old
  /\ \A s \in DOMAIN new : new[s].born = old[s].born /\ new[s].sequence = old[s].sequence

LEMMA NumbersKept ==
  ASSUME NumbersInv, UNCHANGED allocations,
         Numbers(staged', staged) \/ Numbers(staged', committed),
         Numbers(committed', staged) \/ Numbers(committed', committed)
  PROVE  NumbersInv'
  BY DEF NumbersInv, Numbered, BornOnce, Numbers

LEMMA NewNumbers ==
  ASSUME NumbersInv, TablesOK, allocations \in Nat, NEW r, NEW v, NEW on, StageNew(r, v, on),
         UNCHANGED committed
  PROVE  NumbersInv'
<1>1. PICK s \in FreeSlots : staged' = Install(staged, s, NewEntry(r, v, on))
  BY DEF StageNew
<1>2. /\ allocations' = allocations + 1
      /\ s \notin DOMAIN staged
  BY DEF StageNew, FreeSlots
<1>3. /\ DOMAIN staged' = DOMAIN staged \union {s}
      /\ staged'[s] = NewEntry(r, v, on)
      /\ \A t \in DOMAIN staged : staged'[t] = staged[t]
  BY <1>1, <1>2 DEF Install
<1>4. /\ staged'[s].born = allocations + 1
      /\ staged'[s].sequence = (allocations + 1) % SequenceModulus
  BY <1>3 DEF NewEntry, NextSequence
<1>5. 1 .. allocations \subseteq 1 .. allocations' /\ allocations + 1 \in 1 .. allocations'
  BY <1>2
<1>6. Numbered(staged)' /\ Numbered(committed)'
  BY <1>2, <1>3, <1>4, <1>5 DEF NumbersInv, Numbered
<1>7. BornOnce(staged)'
  <2>1. allocations + 1 \notin 1 .. allocations
    OBVIOUS
  <2>2. \A t \in DOMAIN staged : staged[t].born # allocations + 1
    BY <2>1 DEF NumbersInv, Numbered
  <2> QED
    BY <1>3, <1>4, <2>2 DEF NumbersInv, BornOnce
<1> QED
  BY <1>6, <1>7 DEF NumbersInv, BornOnce

LEMMA InPlaceNumbers ==
  ASSUME TablesOK, NEW r, NEW v, NEW on, StageInPlace(r, v, on)
  PROVE  Numbers(staged', staged)
<1>1. DOMAIN staged' = DOMAIN staged
  BY DEF StageInPlace
<1> SUFFICES ASSUME NEW t \in DOMAIN staged
             PROVE  staged'[t].born = staged[t].born /\ staged'[t].sequence = staged[t].sequence
  BY <1>1 DEF Numbers
<1>2. PICK e \in Entry : e = staged[t]
  BY DEF TablesOK, IsTableOf
<1>3. staged'[t] \in {e, [e EXCEPT !.value = v, !.enabled = on, !.publish = TRUE, !.edited = TRUE]}
  BY <1>2 DEF StageInPlace
<1>4. [e EXCEPT !.value = v, !.enabled = on, !.publish = TRUE, !.edited = TRUE].born = e.born
      /\ [e EXCEPT !.value = v, !.enabled = on, !.publish = TRUE, !.edited = TRUE].sequence = e.sequence
  BY DEF Entry
<1> QED
  BY <1>2, <1>3, <1>4

LEMMA CommittedNumbers ==
  ASSUME NEW candidate, IsTableOf(candidate, Entry)
  PROVE  Numbers(Committed(candidate), candidate)
<1>1. DOMAIN Committed(candidate) = DOMAIN candidate
  BY DEF Committed
<1> QED
  BY <1>1, CommittedEntry DEF Numbers

(* A control leaves the numbers of an entry alone. *)
LEMMA ChangedNumbers ==
  ASSUME NEW entries, IsTableOf(entries, Entry), NEW s, NEW field, NEW x
  PROVE  Numbers(Changed(entries, s, field, x), entries)
<1>1. \A t \in DOMAIN entries : entries[t] \in Entry
  BY DEF IsTableOf
<1>2. ASSUME NEW e \in Entry
      PROVE  Controlled(e, field, x).born = e.born /\ Controlled(e, field, x).sequence = e.sequence
  BY <1>2 DEF Controlled, Entry
<1> QED
  BY <1>1, <1>2 DEF Numbers, Changed

LEMMA CandidateNumbers ==
  ASSUME TablesOK, NEW s \in DOMAIN staged, NEW field, NEW x
  PROVE  Numbers(Candidate(s, field, x), staged)
<1> DEFINE c == Changed(staged, s, field, x)
           d == Candidate(s, field, x)
<1>1. DOMAIN c = DOMAIN staged
  BY DEF Changed
<1>2. Numbers(c, staged)
  BY ChangedNumbers DEF TablesOK
<1>3. staged[s] \in Entry
  BY DEF TablesOK, IsTableOf
<1>4. DOMAIN c[s] = DOMAIN staged[s] /\ "born" \in DOMAIN c[s] /\ "sequence" \in DOMAIN c[s]
  BY <1>3 DEF Changed, Controlled, Entry
<1>5. d = [c EXCEPT ![s].publish = TRUE, ![s].edited = @ \/ field = "value"]
  BY DEF Candidate
<1> HIDE DEF c, d
<1>6. DOMAIN d = DOMAIN c /\ \A t \in DOMAIN c : t # s => d[t] = c[t]
  BY <1>5
<1>7. d[s].born = c[s].born /\ d[s].sequence = c[s].sequence
  BY <1>1, <1>4, <1>5
<1>8. Numbers(d, staged)
  BY <1>1, <1>2, <1>6, <1>7 DEF Numbers
<1> QED
  BY <1>8 DEF d

LEMMA ControlNumbers ==
  ASSUME StoreInv, NEW s, NEW field, NEW x,
         ControlStaged(s, field, x) \/ ControlActive(s, field, x) \/ ControlLegacy(s, field, x)
  PROVE  Numbers(staged', staged) /\ Numbers(committed', committed)
<1>1. TablesOK /\ Numbers(staged, staged) /\ Numbers(committed, committed)
  BY DEF StoreInv, Numbers
<1>2. /\ Numbers(Changed(staged, s, field, x), staged)
      /\ Numbers(Changed(committed, s, field, x), committed)
  BY <1>1, ChangedNumbers DEF TablesOK
<1>3. s \in DOMAIN staged => Numbers(Candidate(s, field, x), staged)
  BY <1>1, CandidateNumbers
<1>4. CASE ControlStaged(s, field, x)
  BY <1>1, <1>3, <1>4 DEF ControlStaged, liveVars
<1>5. CASE ControlActive(s, field, x)
  BY <1>1, <1>2, <1>5 DEF ControlActive
<1>6. CASE ControlLegacy(s, field, x)
  BY <1>1, <1>2, <1>3, <1>6 DEF ControlLegacy, Pending, liveVars
<1> QED
  BY <1>4, <1>5, <1>6

LEMMA CommitNumbers ==
  ASSUME StoreInv, NumbersInv, NEW candidate \in {staged, NoRules}, CommitTo(candidate),
         UNCHANGED allocations
  PROVE  NumbersInv'
<1>1. IsTableOf(candidate, Entry) /\ Numbers(candidate, staged)
  BY DEF StoreInv, TablesOK, Numbers, NoRules, IsTableOf
<1>2. Numbers(Committed(candidate), staged)
  BY <1>1, CommittedNumbers DEF Numbers
<1> QED
  BY <1>2, NumbersKept DEF CommitTo

LEMMA StageNumbers ==
  ASSUME RuleInv, NumbersInv, NEW r, NEW v, NEW on, StageRule(r, v, on)
  PROVE  NumbersInv'
<1>1. TablesOK /\ allocations \in Nat /\ UNCHANGED committed /\ Numbers(committed, committed)
  BY DEF RuleInv, StoreInv, CountersOK, StageRule, liveVars, Numbers
<1>2. CASE StageNew(r, v, on)
  BY <1>1, <1>2, NewNumbers
<1>3. CASE StageInPlace(r, v, on)
  <2>1. UNCHANGED allocations
    BY <1>3 DEF StageInPlace
  <2> QED
    BY <1>1, <1>3, <2>1, InPlaceNumbers, NumbersKept
<1> QED
  BY <1>2, <1>3 DEF StageRule

LEMMA ReplaceNumbers ==
  ASSUME NumbersInv, ClearStaging \/ RevertStagingToActive
  PROVE  NumbersInv'
<1>1. Numbers(NoRules, staged) /\ Numbers(committed, committed)
  BY DEF NoRules, Numbers
<1> QED
  BY <1>1, NumbersKept DEF ClearStaging, RevertStagingToActive, liveVars

LEMMA RequestNumbers ==
  ASSUME RuleInv, NumbersInv, Request
  PROVE  NumbersInv'
<1>0. StoreInv
  BY DEF RuleInv
<1>1. CASE \E r \in Rule, v \in Values, on \in BOOLEAN : StageRule(r, v, on)
  BY <1>1, StageNumbers
<1>2. CASE ClearStaging \/ RevertStagingToActive
  BY <1>2, ReplaceNumbers
<1>3. CASE ApplyCommit \/ ClearRules
  BY <1>0, <1>3, CommitNumbers DEF ApplyCommit, ClearRules
<1>4. CASE ControlByHandle
  <2>1. UNCHANGED allocations /\ \E field, x :
          \/ ControlStaged(handle.slot, field, x)
          \/ ControlActive(handle.slot, field, x)
          \/ ControlLegacy(handle.slot, field, x)
    BY <1>4 DEF ControlByHandle
  <2> QED
    BY <1>0, <2>1, ControlNumbers, NumbersKept
<1>5. CASE \E r \in Addressable, on \in BOOLEAN : EnableByIdentity(r, on)
  <2>1. UNCHANGED allocations /\ \E s, x :
          \/ ControlStaged(s, "enabled", x)
          \/ ControlActive(s, "enabled", x)
          \/ ControlLegacy(s, "enabled", x)
    BY <1>5 DEF EnableByIdentity
  <2> QED
    BY <1>0, <2>1, ControlNumbers, NumbersKept
<1> QED
  BY <1>1, <1>2, <1>3, <1>4, <1>5 DEF Request

LEMMA NextNumbers == RuleInv /\ NumbersInv /\ [Next]_vars => NumbersInv'
<1> SUFFICES ASSUME RuleInv, NumbersInv, [Next]_vars PROVE NumbersInv'
  OBVIOUS
<1>0. StoreInv
  BY DEF RuleInv
<1>1. CASE Request
  BY <1>1, RequestNumbers
<1>2. CASE BeginLoad
  BY <1>2, ReplaceNumbers DEF BeginLoad
<1>3. CASE Load
  <2>1. CASE \E r \in Rule, v \in Values, on \in BOOLEAN : LoadRow(r, v, on)
    BY <2>1, StageNumbers DEF LoadRow
  <2>2. CASE LoadCommits
    BY <1>0, <2>2, CommitNumbers DEF LoadCommits, ApplyCommit
  <2>3. CASE LoadFails
    BY <2>3, ReplaceNumbers DEF LoadFails
  <2> QED
    BY <1>3, <2>1, <2>2, <2>3 DEF Load
<1>4. CASE UNCHANGED <<staged, committed, allocations>>
  BY <1>4 DEF NumbersInv, Numbered, BornOnce
<1> QED
  BY <1>1, <1>2, <1>3, <1>4 DEF Next, IssueHandle, CounterAdvances, Refused, vars, liveVars

(* Where the sequence numbers have not wrapped they are the numbers of birth. *)
LEMMA NumbersGiveOrder ==
  ASSUME RuleInv, NumbersInv, allocations < SequenceModulus
  PROVE  OrderPreserved
<1> SUFFICES ASSUME NEW s \in DOMAIN table, NEW t \in DOMAIN table
             PROVE  RunsBefore(s, t) <=>
                      \/ Kind[table[s].rule] < Kind[table[t].rule]
                      \/ /\ Kind[table[s].rule] = Kind[table[t].rule]
                         /\ table[s].born < table[t].born
  BY DEF OrderPreserved
<1>1. s \in Nat /\ t \in Nat
  BY DEF RuleInv, StoreInv, TablesOK, IsTableOf, Slots
<1>2. ASSUME NEW u \in DOMAIN table
      PROVE  /\ u \in DOMAIN committed /\ table[u].born = committed[u].born
             /\ table[u].sequence = table[u].born /\ table[u].born \in Nat
  <2>1. u \in DOMAIN committed /\ table[u].born = committed[u].born
        /\ table[u].sequence = committed[u].sequence
    BY DEF RuleInv, StoreInv, LiveIsCommitted
  <2>2. committed[u].born \in 1 .. allocations /\ committed[u].sequence = committed[u].born % SequenceModulus
    BY <2>1 DEF NumbersInv, Numbered
  <2>3. allocations \in Nat /\ SequenceModulus \in Nat \ {0}
    BY BoundAssumption DEF RuleInv, CountersOK
  <2>4. ASSUME NEW b \in 1 .. allocations PROVE b % SequenceModulus = b
    BY <2>3
  <2> QED
    BY <2>1, <2>2, <2>3, <2>4
<1>3. table[s].born = table[t].born => s = t
  BY <1>2 DEF NumbersInv, BornOnce
<1> QED
  BY <1>1, <1>2, <1>3 DEF RunsBefore

(* Until the sequence numbers have been used up once, the rules of a frame run *)
(* kind by kind and within a kind in the order in which they were staged,      *)
(* through any packages, edits, reverts and commits.                           *)
THEOREM RulesKeepTheirOrder == Spec => [](allocations < SequenceModulus => OrderPreserved)
<1>1. Init => NumbersInv
  BY DEF Init, NumbersInv, Numbered, BornOnce, NoRules
<1>2. RuleInv /\ NumbersInv => (allocations < SequenceModulus => OrderPreserved)
  BY NumbersGiveOrder
<1> QED
  BY <1>1, <1>2, NextNumbers, RuleInvariant, PTL DEF Spec
-----------------------------------------------------------------------------
(* The bits of a field. *)

LEMMA BitsOfFrame == FrameBytes \in Nat \ {0} /\ FrameBits \in Nat \ {0} /\ FrameBits = 8 * FrameBytes
BY CodecAssumption DEF FrameBits

LEMMA PlaceInByte ==
  ASSUME NEW b \in Nat
  PROVE  \E q \in Nat, r \in 0..7 : b = 8 * q + r
<1>1. b \div 8 \in Int /\ b % 8 \in 0..7 /\ b = 8 * (b \div 8) + (b % 8)
  OBVIOUS
<1>2. PICK q \in Int, r \in 0..7 : b = 8 * q + r
  BY <1>1
<1>3. q \in Nat
  BY <1>2
<1> QED
  BY <1>2, <1>3

\* Reading order is its own inverse and stays within the byte.
LEMMA ReadingOrderInvolution ==
  ASSUME NEW b \in Nat
  PROVE  /\ ReadingOrder(b) \in Nat
         /\ ReadingOrder(ReadingOrder(b)) = b
         /\ \A n \in Nat : ReadingOrder(b) < 8 * n <=> b < 8 * n
<1>1. PICK q \in Nat, r \in 0..7 : b = 8 * q + r
  BY PlaceInByte
<1>2. \A s \in 0..7 : (8 * q + s) \div 8 = q /\ (8 * q + s) % 8 = s
  BY <1>1
<1>3. ReadingOrder(b) = 8 * q + (7 - r)
  BY <1>1, <1>2 DEF ReadingOrder
<1>4. 7 - r \in 0..7 /\ 7 - (7 - r) = r
  BY <1>1
<1>5. ReadingOrder(8 * q + (7 - r)) = 8 * q + r
  BY <1>1, <1>2, <1>4 DEF ReadingOrder
<1> QED
  BY <1>1, <1>3, <1>4, <1>5

(* The closed form of a big-endian path is what its loops walk                  *)
(* (signal_codec.cpp:59, mutation_engine.cpp:886).                              *)
LEMMA MotorolaPath ==
  ASSUME NEW start \in Nat, NEW i \in Nat
  PROVE  /\ MotorolaBit(start, i) \in Nat
         /\ MotorolaBit(start, 0) = start
         /\ MotorolaBit(start, i + 1) = NextMotorolaBit(MotorolaBit(start, i))
<1> DEFINE p == ReadingOrder(start) + i
<1>1. p \in Nat /\ ReadingOrder(start) + (i + 1) = p + 1 /\ ReadingOrder(start) + 0 = ReadingOrder(start)
  BY ReadingOrderInvolution
<1>2. ReadingOrder(p) \in Nat
  BY <1>1, ReadingOrderInvolution
<1> HIDE DEF p
<1>3. ReadingOrder(p + 1) = NextMotorolaBit(ReadingOrder(p))
  <2>1. PICK q \in Nat, r \in 0..7 : p = 8 * q + r
    BY <1>1, PlaceInByte
  <2>2. \A t \in Nat, s \in 0..7 : (8 * t + s) \div 8 = t /\ (8 * t + s) % 8 = s
    OBVIOUS
  <2>3. \A t \in Nat, s \in 0..7 : ReadingOrder(8 * t + s) = 8 * t + (7 - s)
    BY <2>2 DEF ReadingOrder
  <2>4. ReadingOrder(p) = 8 * q + (7 - r) /\ 7 - r \in 0..7
    BY <2>1, <2>3
  <2>5. ReadingOrder(p) % 8 = 7 - r
    BY <2>2, <2>4, <2>1
  <2>6. CASE r = 7
    <3>1. p + 1 = 8 * (q + 1) + 0 /\ q + 1 \in Nat /\ 0 \in 0..7
      BY <2>1, <2>6
    <3>2. ReadingOrder(p + 1) = 8 * (q + 1) + (7 - 0)
      BY <3>1, <2>3
    <3> QED
      BY <3>2, <2>1, <2>4, <2>5, <2>6 DEF NextMotorolaBit
  <2>7. CASE r < 7
    <3>1. p + 1 = 8 * q + (r + 1) /\ r + 1 \in 0..7
      BY <2>1, <2>7
    <3>2. ReadingOrder(p + 1) = 8 * q + (7 - (r + 1))
      BY <3>1, <2>1, <2>3
    <3> QED
      BY <3>2, <2>1, <2>4, <2>5, <2>7 DEF NextMotorolaBit
  <2> QED
    BY <2>1, <2>6, <2>7
<1>4. MotorolaBit(start, i) = ReadingOrder(p) /\ MotorolaBit(start, i + 1) = ReadingOrder(p + 1)
  BY <1>1 DEF MotorolaBit, p
<1>5. MotorolaBit(start, 0) = start
  BY <1>1, ReadingOrderInvolution DEF MotorolaBit
<1> QED
  BY <1>2, <1>3, <1>4, <1>5

\* A path does not cross itself, and it leaves the first n bytes for good.
LEMMA PathIsInjective ==
  ASSUME NEW start \in Nat, NEW i \in Nat, NEW j \in Nat
  PROVE  MotorolaBit(start, i) = MotorolaBit(start, j) => i = j
<1>1. ReadingOrder(start) + i \in Nat /\ ReadingOrder(start) + j \in Nat /\ ReadingOrder(start) \in Nat
  BY ReadingOrderInvolution
<1>2. ReadingOrder(MotorolaBit(start, i)) = ReadingOrder(start) + i
  BY <1>1, ReadingOrderInvolution DEF MotorolaBit
<1>3. ReadingOrder(MotorolaBit(start, j)) = ReadingOrder(start) + j
  BY <1>1, ReadingOrderInvolution DEF MotorolaBit
<1> QED
  BY <1>1, <1>2, <1>3

LEMMA FieldParts ==
  ASSUME NEW f \in Field
  PROVE  /\ f.start \in Nat /\ f.start \in Bit /\ f.length \in Nat \ {0} /\ f.length <= FrameBits
         /\ f.little \in BOOLEAN /\ f.signed \in BOOLEAN
         /\ Turns(f) = 0..f.length - 1 /\ Turns(f) \subseteq Nat /\ Turns(f) \subseteq Bit
BY BitsOfFrame DEF Field, Turns, Bit

(* The bit that writing gives to a bit of the value is the one from which       *)
(* reading takes it (signal_codec.cpp:80 and :91 against                         *)
(* mutation_engine.cpp:868, :886, :917 and :928).                                *)
LEMMA SameBits ==
  ASSUME NEW f \in Field
  PROVE  /\ \A i \in Turns(f) : PathRaw(f, i) \in Turns(f) /\ PathRaw(f, PathRaw(f, i)) = i
         /\ \A i \in Turns(f) : FrameBit(f, PathRaw(f, i)) = PathBit(f, i)
         /\ \A b \in Turns(f) : PathBit(f, PathRaw(f, b)) = FrameBit(f, b)
         /\ \A b, c \in Turns(f) : FrameBit(f, b) = FrameBit(f, c) => b = c
<1>1. \A i \in Turns(f) : PathRaw(f, i) \in Turns(f) /\ PathRaw(f, PathRaw(f, i)) = i
  BY FieldParts DEF PathRaw
<1>2. \A b \in Turns(f) : (f.length - 1) - ((f.length - 1) - b) = b /\ (f.length - 1) - b \in Nat
  BY FieldParts
<1>3. \A i \in Turns(f) : FrameBit(f, PathRaw(f, i)) = PathBit(f, i)
  BY <1>2 DEF FrameBit, PathRaw, PathBit
<1>4. \A b \in Turns(f) : PathBit(f, PathRaw(f, b)) = FrameBit(f, b)
  BY <1>2 DEF FrameBit, PathRaw, PathBit
<1>5. ASSUME NEW b \in Turns(f), NEW c \in Turns(f), FrameBit(f, b) = FrameBit(f, c)
      PROVE  b = c
  <2>1. CASE f.little
    BY <1>5, <2>1, FieldParts DEF FrameBit
  <2>2. CASE ~f.little
    <3>1. MotorolaBit(f.start, (f.length - 1) - b) = MotorolaBit(f.start, (f.length - 1) - c)
      BY <1>5, <2>2 DEF FrameBit
    <3>2. (f.length - 1) - b = (f.length - 1) - c
      BY <3>1, <1>2, FieldParts, PathIsInjective, SMTT(30)
    <3> QED
      BY <3>2, FieldParts
  <2> QED
    BY <2>1, <2>2
<1> QED
  BY <1>1, <1>3, <1>4, <1>5

(* What lies in a field is what is read from it (signal_codec.cpp:67).           *)
LEMMA FieldReadsBack ==
  ASSUME NEW f \in Field, FieldMask(f) \subseteq Bit, NEW frame, NEW raw \in SUBSET Turns(f),
         frame \cap FieldMask(f) = FieldBits(f, raw)
  PROVE  CanExtract(f) /\ SignalFitsPayload(FrameBytes, f) /\ ExtractRaw(frame, f) = raw
<1>1. \A i \in Turns(f) : PathBit(f, i) \in FieldMask(f) /\ PathBit(f, i) \in Bit
  BY SameBits DEF FieldMask
<1>2. CanExtract(f)
  BY <1>1, FieldParts, BitsOfFrame DEF CanExtract
<1>3. SignalFitsPayload(FrameBytes, f)
  <2>1. FrameBytes \in 0..FrameBytes /\ f.length \in 1..FrameBits
    BY BitsOfFrame, FieldParts
  <2>2. CASE f.little
    <3>1. f.length - 1 \in Turns(f)
      BY FieldParts
    <3>2. f.start + (f.length - 1) \in Bit
      BY <3>1, <1>1, <2>2 DEF PathBit
    <3> QED
      BY <2>1, <2>2, <3>2, BitsOfFrame, FieldParts DEF SignalFitsPayload, Bit
  <2>3. CASE ~f.little
    <3>1. \A i \in Turns(f) : MotorolaBit(f.start, i) \in Bit
      BY <1>1, <2>3 DEF PathBit
    <3>2. \A i \in Turns(f) : MotorolaBit(f.start, i) < 8 * FrameBytes
      BY <3>1, BitsOfFrame DEF Bit
    <3> QED
      BY <2>1, <2>3, <3>2 DEF SignalFitsPayload
  <2> QED
    BY <2>2, <2>3
<1>4. \A i \in Turns(f) : PathBit(f, i) \in frame <=> PathRaw(f, i) \in raw
  <2> SUFFICES ASSUME NEW i \in Turns(f)
               PROVE  PathBit(f, i) \in frame <=> PathRaw(f, i) \in raw
    OBVIOUS
  <2>1. PathBit(f, i) \in frame <=> PathBit(f, i) \in FieldBits(f, raw)
    BY <1>1
  <2>2. PathRaw(f, i) \in Turns(f) /\ FrameBit(f, PathRaw(f, i)) = PathBit(f, i)
    BY SameBits
  <2>3. PathBit(f, i) \in FieldBits(f, raw) => PathRaw(f, i) \in raw
    BY <2>2, SameBits DEF FieldBits
  <2>4. PathRaw(f, i) \in raw => PathBit(f, i) \in FieldBits(f, raw)
    BY <2>2 DEF FieldBits
  <2> QED
    BY <2>1, <2>3, <2>4
<1>5. ExtractRaw(frame, f) \subseteq raw
  BY <1>4 DEF ExtractRaw
<1>6. ASSUME NEW b \in raw PROVE b \in ExtractRaw(frame, f)
  <2>1. PathRaw(f, b) \in Turns(f) /\ PathRaw(f, PathRaw(f, b)) = b
    BY SameBits
  <2> QED
    BY <2>1, <1>4 DEF ExtractRaw
<1> QED
  BY <1>2, <1>3, <1>5, <1>6

\* Writing a field puts the value there and touches nothing else.
LEMMA FieldIsWritten ==
  ASSUME NEW f, NEW frame, NEW raw
  PROVE  LET new == (frame \ FieldMask(f)) \cup FieldBits(f, raw)
         IN  /\ new \cap FieldMask(f) = FieldBits(f, raw)
             /\ new \ FieldMask(f) = frame \ FieldMask(f)
             /\ FieldBits(f, raw) \subseteq FieldMask(f)
<1>1. FieldBits(f, raw) \subseteq FieldMask(f)
  BY DEF FieldBits, FieldMask
<1> QED
  BY <1>1

(* A word clamped to a field, cut to its bits and extended from its sign is the  *)
(* clamped word (mutation_engine.cpp:67 against signal_codec.cpp:163).            *)
LEMMA ClampedWordReadsBack ==
  ASSUME NEW f \in Field, NEW w \in SUBSET Bit
  PROVE  SignExtended(ConvertPhysicalToRaw(w, f), f) = ClampedWord(w, f)
<1> DEFINE n == f.length
           c == ClampedWord(w, f)
           raw == c \cap Turns(f)
<1>1. n \in Nat /\ 1 <= n /\ n <= FrameBits /\ FrameBits \in Nat /\ Turns(f) = 0..n - 1
      /\ Bit = 0..FrameBits - 1 /\ f.signed \in BOOLEAN
  BY FieldParts, BitsOfFrame DEF Bit
<1>2. CASE ~f.signed
  <2>1. SmallestWord(f) = {} /\ LargestWord(f) \subseteq 0..n - 1
    BY <1>1, <1>2 DEF SmallestWord, LargestWord
  <2>2. c \subseteq 0..n - 1
    BY <2>1 DEF ClampedWord, TooSmall, TooLarge
  <2>3. raw = c
    BY <2>2, <1>1
  <2> QED
    BY <1>2, <2>3 DEF SignExtended, ConvertPhysicalToRaw
<1>3. CASE f.signed
  <2>1. SmallestWord(f) = n - 1..FrameBits - 1 /\ LargestWord(f) = 0..n - 2
    BY <1>3 DEF SmallestWord, LargestWord
  <2>2. n - 1 \in SmallestWord(f)
    BY <1>1, <2>1
  <2>3. \/ c = SmallestWord(f) \/ c = LargestWord(f)
        \/ c = w /\ (SmallestWord(f) \subseteq w \/ w \subseteq LargestWord(f))
    BY <2>2 DEF ClampedWord, TooSmall, TooLarge
  <2>. HIDE DEF c
  <2>6. SmallestWord(f) \subseteq Bit
    BY <1>1, <2>1
  <2>7. \/ c \subseteq 0..n - 2
        \/ n - 1..FrameBits - 1 \subseteq c /\ c \subseteq Bit
    BY <2>1, <2>3, <2>6
  <2>4. CASE c \subseteq 0..n - 2
    <3>2. \A b \in 0..n - 2 : b \in Turns(f) /\ b # n - 1
      BY <1>1
    <3>1. raw = c /\ n - 1 \notin raw
      BY <2>4, <3>2
    <3> QED
      BY <3>1 DEF SignExtended, ConvertPhysicalToRaw, c
  <2>5. CASE n - 1..FrameBits - 1 \subseteq c /\ c \subseteq Bit
    <3>4. n - 1 \in Turns(f) /\ n - 1 \in n - 1..FrameBits - 1
      BY <1>1
    <3>1. n - 1 \in raw
      BY <3>4, <2>5
    <3>5. n..FrameBits - 1 \subseteq n - 1..FrameBits - 1
      BY <1>1
    <3>6. \A b \in Bit : b \in Turns(f) \/ b \in n..FrameBits - 1
      BY <1>1
    <3>2. raw \cup (n..FrameBits - 1) = c
      BY <2>5, <3>5, <3>6
    <3>3. n = FrameBits => raw = c
      BY <1>1, <2>5
    <3> QED
      BY <1>1, <1>3, <3>1, <3>2, <3>3 DEF SignExtended, ConvertPhysicalToRaw, c
  <2> QED
    BY <2>7, <2>4, <2>5
<1> QED
  BY <1>1, <1>2, <1>3
-----------------------------------------------------------------------------
(* Rules. *)

\* The kinds exclude one another, and normalizeRule has bounded what they hold.
LEMMA RuleShapes ==
  ASSUME NEW r \in StageRequest, NormalizeRule(r)
  PROVE  /\ r \in FieldRule => /\ r \notin MaskRule /\ r \notin ChecksumRule
                               /\ r.field \in Field /\ FieldMask(r.field) \subseteq Bit
         /\ r \in MaskRule => r \notin ChecksumRule /\ r.mask \subseteq Bit /\ r.bits \subseteq Bit
         /\ r \in Counting => r \notin StaticRule /\ r \notin DynamicRule
         /\ r \in DynamicRule => r \notin StaticRule
         /\ r \in CounterRule => r \notin SequenceRule
         /\ r \in StaticRule => r.raw \subseteq Turns(r.field)
         /\ r \in SequenceRule => /\ Len(r.bytes) \in 1..16 /\ r.initial \in 0..Len(r.bytes) - 1
                                  /\ r.bytes \in Seq(0..255)
         /\ r \in CounterRule => r.wrapTo \in Runtime /\ r.step \in Nat
         /\ r \in ChecksumRule => r.target \in 0..FrameBytes - 1
         /\ InitialValue(r) \in Runtime
<1>1. /\ r \in StaticRule => r.kind = "BIT_RANGE" /\ r.dynamic = FALSE /\ r.field \in Field
      /\ r \in DynamicRule => /\ r.kind = "BIT_RANGE" /\ r.dynamic = TRUE /\ r.field \in Field
                              /\ r.initial \in Runtime
      /\ r \in MaskRule => r.kind = "RAW_MASK" /\ r.mask \subseteq Bit /\ r.bits \subseteq Bit
      /\ r \in CounterRule => /\ r.kind = "COUNTER" /\ r.field \in Field /\ r.initial \in Runtime
                              /\ r.wrapTo \in Runtime /\ r.step \in Runtime
      /\ r \in SequenceRule => /\ r.kind = "SEQUENCE8" /\ r.field \in Field /\ r.initial \in Runtime
                               /\ r.bytes \in Seq(0..255)
      /\ r \in XorRule => r.kind = "CHECKSUM_XOR"
      /\ r \in CrcRule => r.kind = "CHECKSUM_CRC8_AUTOSAR"
  BY DEF StaticRule, DynamicRule, MaskRule, CounterRule, SequenceRule, XorRule, CrcRule
<1>2. /\ r \in FieldRule => r \notin MaskRule /\ r \notin ChecksumRule /\ r.field \in Field
      /\ r \in MaskRule => r \notin ChecksumRule
      /\ r \in Counting => r \notin StaticRule /\ r \notin DynamicRule
      /\ r \in DynamicRule => r \notin StaticRule
      /\ r \in CounterRule => r \notin SequenceRule
  BY <1>1 DEF FieldRule, ChecksumRule, Counting
<1>3. r \in FieldRule => NormalizeField(r)
  BY <1>2 DEF NormalizeRule, NormalizeChecksum
<1>4. r \in ChecksumRule => NormalizeChecksum(r)
  BY <1>2 DEF NormalizeRule, NormalizeField
<1>5. WordSpan \in Nat /\ WordSpan > 0 /\ 0 \in Runtime /\ Runtime \subseteq Nat
  BY RewriteAssumption DEF Runtime
<1>6. InitialValue(r) \in Runtime
  BY <1>1, <1>5 DEF InitialValue, Counting
<1>7. r \in FieldRule => FieldMask(r.field) \subseteq Bit
  BY <1>3 DEF NormalizeField
<1>8. r \in StaticRule => r.raw \subseteq Turns(r.field)
  BY <1>3 DEF NormalizeField, FieldRule
<1>9. r \in SequenceRule => /\ Len(r.bytes) \in 1..16 /\ r.initial \in 0..Len(r.bytes) - 1
                            /\ r.bytes \in Seq(0..255)
  <2> SUFFICES ASSUME r \in SequenceRule
               PROVE  Len(r.bytes) \in 1..16 /\ r.initial \in 0..Len(r.bytes) - 1
    BY <1>1
  <2>1. Len(r.bytes) \in 1..16 /\ r.initial < Len(r.bytes)
    BY <1>3 DEF NormalizeField, FieldRule
  <2>2. r.initial \in Nat
    BY <1>1, <1>5
  <2> QED
    BY <2>1, <2>2
<1>10. r \in ChecksumRule => r.target \in 0..FrameBytes - 1
  BY <1>4 DEF NormalizeChecksum
<1> QED
  BY <1>1, <1>2, <1>5, <1>6, <1>7, <1>8, <1>9, <1>10

LEMMA GroupShapes ==
  ASSUME NEW p \in Groups
  PROVE  /\ Len(p) \in Nat /\ DOMAIN p = 1..Len(p)
         /\ \A i \in DOMAIN p : p[i] \in StageRequest /\ NormalizeRule(p[i])
         /\ \A i, j \in DOMAIN p : i < j => Rank(p[i]) <= Rank(p[j])
<1>1. p \in Package /\ p \in Seq(StageRequest)
  BY RewriteAssumption DEF Groups
<1>2. \A i \in DOMAIN p : NormalizeRule(p[i])
  BY DEF Groups
<1>3. \A i, j \in DOMAIN p : i < j => Rank(p[i]) <= Rank(p[j])
  BY DEF Groups, InCompileOrder
<1> QED
  BY <1>1, <1>2, <1>3

\* No rule of another kind runs after a checksum.
LEMMA ChecksumsRunLast ==
  ASSUME NEW p \in Groups, NEW i \in DOMAIN p, NEW j \in DOMAIN p, i < j, p[i] \in ChecksumRule
  PROVE  p[j] \in ChecksumRule
<1>1. p[j] \in StageRequest /\ Rank(p[i]) <= Rank(p[j])
  BY GroupShapes
<1>2. Rank(p[i]) >= 5
  BY DEF Rank, ChecksumRule, XorRule, CrcRule
<1>3. p[j] \notin ChecksumRule => Rank(p[j]) <= 4 /\ Rank(p[j]) \in Nat
  <2> SUFFICES ASSUME p[j] \notin ChecksumRule PROVE Rank(p[j]) \in 1..4
    OBVIOUS
  <2>1. p[j].kind \in {"BIT_RANGE", "RAW_MASK", "COUNTER", "SEQUENCE8"}
    BY <1>1 DEF StageRequest, FieldRule, StaticRule, DynamicRule, MaskRule, CounterRule, SequenceRule
  <2> QED
    BY <2>1 DEF Rank
<1>4. Rank(p[i]) \in Nat
  BY DEF Rank
<1> QED
  BY <1>1, <1>2, <1>3, <1>4

\* A checksum depends on the bits it covers and on nothing else.
LEMMA ChecksumOfCovered ==
  ASSUME NEW r \in ChecksumRule, NEW a, NEW b, a \cap Covered(r) = b \cap Covered(r)
  PROVE  Checksum(r, a) = Checksum(r, b)
<1>1. r.first \in Nat /\ r.last \in Nat /\ (r \in CrcRule => r.counter \in Nat)
      /\ (r.kind # "CHECKSUM_XOR" => r \in CrcRule)
  BY DEF ChecksumRule, XorRule, CrcRule
<1>2. ASSUME NEW i \in r.first..r.last, NEW k \in 0..7
      PROVE  8 * i + k \in a <=> 8 * i + k \in b
  <2>1. 8 * i + k \in ByteBits(i)
    BY <1>1 DEF ByteBits
  <2>2. 8 * i + k \in Covered(r)
    BY <2>1 DEF Covered
  <2> QED
    BY <2>2
<1>3. \A i \in r.first..r.last :
        {k \in 0..7 : 8 * i + k \in a} = {k \in 0..7 : 8 * i + k \in b}
  BY <1>2
<1>4. Bytes(a, r.first, r.last) = Bytes(b, r.first, r.last)
  BY <1>3 DEF Bytes
<1>5. r \in CrcRule => DataId(r, a) = DataId(r, b)
  <2> SUFFICES ASSUME r \in CrcRule PROVE DataId(r, a) = DataId(r, b)
    OBVIOUS
  <2>1. ASSUME NEW k \in 0..3
        PROVE  8 * r.counter + k \in a <=> 8 * r.counter + k \in b
    <3>1. 8 * r.counter + k \in ByteBits(r.counter)
      BY <1>1 DEF ByteBits
    <3>2. ByteBits(r.counter) \subseteq Covered(r)
      BY DEF Covered
    <3> QED
      BY <3>1, <3>2
  <2>2. {k \in 0..3 : 8 * r.counter + k \in a} = {k \in 0..3 : 8 * r.counter + k \in b}
    BY <2>1
  <2> QED
    BY <2>2 DEF DataId
<1> QED
  BY <1>1, <1>4, <1>5 DEF Checksum, XorChecksum, AutosarChecksum
-----------------------------------------------------------------------------
(* The invariant. *)

\* What a rule has put into its field is still there, unless a later rule has
\* written there.
FieldsAreWritten ==
    \A i \in applied : RuleAt(i) \in FieldRule /\ Kept(i, Touched(RuleAt(i))) =>
        data \cap FieldMask(RuleAt(i).field) = FieldBits(RuleAt(i).field, emitted[i])

\* A value that was emitted is one of the field's, and that of its rule if it is fixed.
EmittedFits ==
    \A i \in applied : /\ RuleAt(i) \in FieldRule => emitted[i] \subseteq Turns(RuleAt(i).field)
                       /\ RuleAt(i) \in StaticRule => emitted[i] = RuleAt(i).raw

FrameInv == FieldsAreWritten /\ EmittedFits /\ OtherBitsPass /\ ChecksumsHold
RewriteInv == RewriteTypeOK /\ FrameInv /\ SequencesStayInRange /\ owed = runtimeValue

(* What every step that writes to the frame does: rule `turn' puts its bits      *)
(* where it may, and leaves the others.                                          *)
RuleWrites ==
    /\ turn \in DOMAIN rules /\ UNCHANGED <<rules, received>>
    /\ applied' = applied \cup {turn}
    /\ data' \subseteq Bit
    /\ data' \ Touched(RuleAt(turn)) = data \ Touched(RuleAt(turn))
    /\ emitted' \in [DOMAIN rules -> SUBSET Bit]
    /\ \A j \in DOMAIN rules \ {turn} : emitted'[j] = emitted[j]
    /\ RuleAt(turn) \in FieldRule =>
          /\ emitted'[turn] \subseteq Turns(RuleAt(turn).field)
          /\ data' \cap FieldMask(RuleAt(turn).field) = FieldBits(RuleAt(turn).field, emitted'[turn])
    /\ RuleAt(turn) \in StaticRule => emitted'[turn] = RuleAt(turn).raw
    /\ RuleAt(turn) \in ChecksumRule =>
          data' \cap ByteBits(RuleAt(turn).target) =
              {8 * RuleAt(turn).target + k : k \in Checksum(RuleAt(turn), data)}

\* What the rest of the task relies on.
LEMMA AtRule ==
  ASSUME RewriteTypeOK
  PROVE  /\ Len(rules) \in Nat /\ DOMAIN rules = 1..Len(rules) /\ turn \in Nat
         /\ applied \subseteq DOMAIN rules /\ turn \notin applied
         /\ \A i \in applied : i \in Nat /\ i < turn
         /\ \A i \in DOMAIN rules : RuleAt(i) \in StageRequest /\ NormalizeRule(RuleAt(i))
<1>1. rules \in Groups /\ turn \in 1..Len(rules) + 1 /\ applied \subseteq 1..turn - 1
  BY DEF RewriteTypeOK
<1>2. /\ Len(rules) \in Nat /\ DOMAIN rules = 1..Len(rules)
      /\ \A i \in DOMAIN rules : rules[i] \in StageRequest /\ NormalizeRule(rules[i])
  BY <1>1, GroupShapes
<1> QED
  BY <1>1, <1>2 DEF RuleAt

\* A later write narrows what is kept.
LEMMA KeptAfterWrite ==
  ASSUME RewriteTypeOK, RuleWrites, NEW i \in applied
  PROVE  \A bits : (\A j \in applied' : j > i => Touched(RuleAt(j)) \cap bits = {}) =>
                       Kept(i, bits) /\ Touched(RuleAt(turn)) \cap bits = {}
<1>1. i \in Nat /\ i < turn /\ turn > i /\ turn \in applied' /\ applied \subseteq applied'
  BY AtRule DEF RuleWrites
<1> QED
  BY <1>1 DEF Kept

LEMMA FieldsAfterWrite ==
  ASSUME RewriteTypeOK, FrameInv, RuleWrites
  PROVE  FieldsAreWritten' /\ EmittedFits'
<1>1. turn \notin applied /\ applied \subseteq DOMAIN rules /\ applied' = applied \cup {turn}
  BY AtRule DEF RuleWrites
<1>2. \A j : RuleAt(j)' = RuleAt(j)
  BY DEF RuleWrites, RuleAt
<1>3. \A j \in applied : emitted'[j] = emitted[j]
  BY <1>1 DEF RuleWrites
<1>4. ASSUME NEW i \in applied', RuleAt(i) \in FieldRule, Kept(i, Touched(RuleAt(i)))'
      PROVE  data' \cap FieldMask(RuleAt(i).field) = FieldBits(RuleAt(i).field, emitted'[i])
  <2>1. CASE i = turn
    BY <1>4, <2>1 DEF RuleWrites
  <2>2. CASE i \in applied
    <3>1. Touched(RuleAt(i)) = FieldMask(RuleAt(i).field)
      BY <1>4 DEF Touched
    <3>2. \A j \in applied' : j > i => Touched(RuleAt(j)) \cap FieldMask(RuleAt(i).field) = {}
      BY <1>2, <1>4, <3>1 DEF Kept, Touched
    <3>3. Kept(i, FieldMask(RuleAt(i).field)) /\ Touched(RuleAt(turn)) \cap FieldMask(RuleAt(i).field) = {}
      BY <2>2, <3>2, KeptAfterWrite
    <3>4. data \cap FieldMask(RuleAt(i).field) = FieldBits(RuleAt(i).field, emitted[i])
      BY <1>4, <2>2, <3>1, <3>3 DEF FrameInv, FieldsAreWritten
    <3>5. data' \cap FieldMask(RuleAt(i).field) = data \cap FieldMask(RuleAt(i).field)
      BY <3>3 DEF RuleWrites
    <3> QED
      BY <1>3, <2>2, <3>4, <3>5
  <2> QED
    BY <1>1, <2>1, <2>2
<1>5. FieldsAreWritten'
  BY <1>2, <1>4 DEF FieldsAreWritten
<1>6. EmittedFits'
  BY <1>1, <1>2, <1>3 DEF FrameInv, EmittedFits, RuleWrites
<1> QED
  BY <1>5, <1>6

LEMMA OthersAfterWrite ==
  ASSUME RewriteTypeOK, FrameInv, RuleWrites
  PROVE  OtherBitsPass'
<1>1. \A j : RuleAt(j)' = RuleAt(j)
  BY DEF RuleWrites, RuleAt
<1>2. turn \in applied' /\ applied \subseteq applied' /\ received' = received
  BY DEF RuleWrites
<1>3. ASSUME NEW b \in Bit, \A i \in applied' : b \notin Touched(RuleAt(i))
      PROVE  b \in data' <=> b \in received'
  <2>1. b \in data <=> b \in received
    BY <1>2, <1>3 DEF FrameInv, OtherBitsPass
  <2>2. b \in data' <=> b \in data
    BY <1>2, <1>3 DEF RuleWrites
  <2> QED
    BY <1>2, <2>1, <2>2
<1> QED
  BY <1>1, <1>3 DEF OtherBitsPass, Touched

LEMMA ChecksumsAfterWrite ==
  ASSUME RewriteTypeOK, FrameInv, RuleWrites
  PROVE  ChecksumsHold'
<1>1. \A j : RuleAt(j)' = RuleAt(j)
  BY DEF RuleWrites, RuleAt
<1>2. /\ turn \in DOMAIN rules /\ applied' = applied \cup {turn}
      /\ \A i \in applied : i \in DOMAIN rules /\ i \in Nat /\ i < turn /\ turn > i
  BY AtRule DEF RuleWrites
<1>3. \A j \in DOMAIN rules : RuleAt(j) \in ChecksumRule => Touched(RuleAt(j)) = ByteBits(RuleAt(j).target)
  BY AtRule, RuleShapes DEF Touched
<1>4. ASSUME NEW i \in applied', RuleAt(i) \in ChecksumRule,
             ByteBits(RuleAt(i).target) \cap Covered(RuleAt(i)) = {},
             \A j \in applied' : j > i /\ RuleAt(j) \in ChecksumRule =>
                 ByteBits(RuleAt(j).target) \cap (Covered(RuleAt(i)) \cup ByteBits(RuleAt(i).target)) = {}
      PROVE  data' \cap ByteBits(RuleAt(i).target) =
                 {8 * RuleAt(i).target + k : k \in Checksum(RuleAt(i), data')}
  <2>1. CASE i = turn
    <3>1. data' \ ByteBits(RuleAt(i).target) = data \ ByteBits(RuleAt(i).target)
      BY <1>2, <1>3, <1>4, <2>1 DEF RuleWrites
    <3>2. data' \cap Covered(RuleAt(i)) = data \cap Covered(RuleAt(i))
      BY <1>4, <3>1
    <3>3. Checksum(RuleAt(i), data') = Checksum(RuleAt(i), data)
      BY <1>4, <3>2, ChecksumOfCovered
    <3>4. data' \cap ByteBits(RuleAt(i).target) =
              {8 * RuleAt(i).target + k : k \in Checksum(RuleAt(i), data)}
      BY <1>4, <2>1 DEF RuleWrites
    <3> QED
      BY <3>3, <3>4
  <2>2. CASE i \in applied
    <3>1. RuleAt(turn) \in ChecksumRule
      <4>1. rules \in Groups
        BY DEF RewriteTypeOK
      <4> QED
        BY <1>2, <1>4, <2>2, <4>1, ChecksumsRunLast DEF RuleAt
    <3>2. ByteBits(RuleAt(turn).target) \cap (Covered(RuleAt(i)) \cup ByteBits(RuleAt(i).target)) = {}
      BY <1>2, <1>4, <2>2, <3>1
    <3>3. data' \ ByteBits(RuleAt(turn).target) = data \ ByteBits(RuleAt(turn).target)
      BY <1>2, <1>3, <3>1 DEF RuleWrites
    <3>4. /\ data' \cap Covered(RuleAt(i)) = data \cap Covered(RuleAt(i))
          /\ data' \cap ByteBits(RuleAt(i).target) = data \cap ByteBits(RuleAt(i).target)
      BY <3>2, <3>3
    <3>5. Checksum(RuleAt(i), data') = Checksum(RuleAt(i), data)
      BY <1>4, <3>4, ChecksumOfCovered
    <3>6. data \cap ByteBits(RuleAt(i).target) =
              {8 * RuleAt(i).target + k : k \in Checksum(RuleAt(i), data)}
      BY <1>2, <1>4, <2>2 DEF FrameInv, ChecksumsHold
    <3> QED
      BY <3>4, <3>5, <3>6
  <2> QED
    BY <1>2, <2>1, <2>2
<1> QED
  BY <1>1, <1>4 DEF ChecksumsHold

LEMMA FrameInvAfterWrite ==
  ASSUME RewriteTypeOK, FrameInv, RuleWrites
  PROVE  FrameInv'
BY FieldsAfterWrite, OthersAfterWrite, ChecksumsAfterWrite DEF FrameInv

LEMMA FrameInvUnchanged ==
  ASSUME FrameInv, UNCHANGED <<rules, received, frameVars>>
  PROVE  FrameInv'
BY DEF FrameInv, FieldsAreWritten, EmittedFits, OtherBitsPass, ChecksumsHold, frameVars, RuleAt, Kept, Touched
-----------------------------------------------------------------------------
(* The steps. *)

HeldOK ==
    /\ rules \in Groups
    /\ runtimeValue \in [DOMAIN rules -> Runtime] /\ owed \in [DOMAIN rules -> Runtime]
    /\ runtimeEnabled \in [DOMAIN rules -> BOOLEAN] /\ published \in [Source -> Reading]
    /\ data \subseteq Bit /\ received \subseteq Bit
    /\ loaded \in Runtime /\ selected \in BOOLEAN
    /\ emitted \in [DOMAIN rules -> SUBSET Bit] /\ rewrites \in 0..MaxRewrites

PlaceOK ==
    /\ turn \in 1..Len(rules) + 1
    /\ at \in {"idle", "enabled", "selector", "recheck", "load", "write", "claim", "apply"}
    /\ at \notin {"idle", "enabled"} => turn \in DOMAIN rules
    /\ at \in {"recheck", "load"} => RuleAt(turn) \in Counting \cup DynamicRule
    /\ at = "claim" => RuleAt(turn) \in Counting
    /\ at = "write" => RuleAt(turn) \in DynamicRule
    /\ at = "apply" => RuleAt(turn) \in StaticRule \cup MaskRule \cup ChecksumRule
    /\ applied \subseteq 1..turn - 1

LEMMA TypeParts ==
  /\ RewriteTypeOK <=> HeldOK /\ PlaceOK
  /\ RewriteTypeOK' <=> HeldOK' /\ PlaceOK'
BY DEF RewriteTypeOK, HeldOK, PlaceOK

\* The task goes on to the next rule.
LEMMA PassOnKeepsPlace ==
  ASSUME RewriteTypeOK, turn \in DOMAIN rules, PassOn, UNCHANGED rules,
         applied' \subseteq applied \cup {turn}
  PROVE  PlaceOK'
<1>1. Len(rules) \in Nat /\ DOMAIN rules = 1..Len(rules) /\ applied \subseteq 1..turn - 1
  BY AtRule DEF RewriteTypeOK
<1>2. turn' = turn + 1 /\ at' = "enabled" /\ Len(rules)' = Len(rules)
  BY DEF PassOn
<1>3. turn' \in 1..Len(rules)' + 1
  BY <1>1, <1>2
<1>4. applied' \subseteq 1..turn' - 1
  BY <1>1, <1>2
<1> QED
  BY <1>2, <1>3, <1>4 DEF PlaceOK

\* The task goes on about the same rule.
LEMMA GoToKeepsPlace ==
  ASSUME RewriteTypeOK, turn \in DOMAIN rules, UNCHANGED <<rules, turn, applied>>,
         \/ at' = "selector"
         \/ at' \in {"recheck", "load"} /\ RuleAt(turn) \in Counting \cup DynamicRule
         \/ at' = "claim" /\ RuleAt(turn) \in Counting
         \/ at' = "write" /\ RuleAt(turn) \in DynamicRule
         \/ at' = "apply" /\ RuleAt(turn) \in StaticRule \cup MaskRule \cup ChecksumRule
  PROVE  PlaceOK'
<1>1. turn \in 1..Len(rules) + 1 /\ applied \subseteq 1..turn - 1
  BY DEF RewriteTypeOK
<1>2. RuleAt(turn)' = RuleAt(turn) /\ DOMAIN rules' = DOMAIN rules
  BY DEF RuleAt
<1> QED
  BY <1>1, <1>2 DEF PlaceOK

\* What a step that writes through RuleWrites leaves of the types.
LEMMA WritesKeepTypes ==
  ASSUME RewriteTypeOK, RuleWrites, PassOn,
         runtimeValue' \in [DOMAIN rules -> Runtime], owed' \in [DOMAIN rules -> Runtime],
         UNCHANGED <<clientVars, loaded, selected, rewrites>>
  PROVE  RewriteTypeOK'
<1>1. HeldOK /\ turn \in DOMAIN rules
  BY TypeParts DEF RuleWrites
<1>2. HeldOK'
  BY <1>1 DEF HeldOK, RuleWrites, clientVars
<1>3. PlaceOK'
  BY <1>1, PassOnKeepsPlace DEF RuleWrites
<1> QED
  BY <1>2, <1>3, TypeParts

LEMMA ChecksumIsAByte ==
  ASSUME NEW r \in ChecksumRule, NEW frame
  PROVE  Checksum(r, frame) \subseteq 0..7
<1>1. XorChecksum(r, frame) \subseteq 0..7
  BY DEF XorChecksum, ExclusiveOr
<1>2. \A c : ShiftedCrc(c) \subseteq 0..7
  BY DEF ShiftedCrc
<1>3. \A c, byte : CrcUpdate(c, byte) \subseteq 0..7
  BY <1>2 DEF CrcUpdate
<1>4. \A bytes, first, last, id : Crc8(bytes, first, last, id) \subseteq 0..7
  BY <1>3 DEF Crc8, Difference
<1> QED
  BY <1>1, <1>4 DEF Checksum, AutosarChecksum

LEMMA EmitWrites ==
  ASSUME RewriteTypeOK, turn \in DOMAIN rules, RuleAt(turn) \in Counting \cup DynamicRule,
         \E n : Emit(n), UNCHANGED <<rules, received>>
  PROVE  RuleWrites
<1> DEFINE f == RuleAt(turn).field
<1>1. PICK n : Emit(n)
  OBVIOUS
<1>2. /\ RuleAt(turn) \in FieldRule /\ RuleAt(turn) \notin StaticRule /\ RuleAt(turn) \notin ChecksumRule
      /\ f \in Field /\ FieldMask(f) \subseteq Bit
  BY AtRule, RuleShapes DEF FieldRule, Counting
<1>3. Touched(RuleAt(turn)) = FieldMask(f)
  BY <1>2 DEF Touched
<1>4. ValueBits(n, f) \subseteq Turns(f) /\ ValueBits(n, f) \subseteq Bit
  BY <1>2, FieldParts DEF ValueBits
<1>5. /\ data' = (data \ FieldMask(f)) \cup FieldBits(f, ValueBits(n, f))
      /\ applied' = applied \cup {turn}
      /\ emitted' = [emitted EXCEPT ![turn] = ValueBits(n, f)]
  BY <1>1 DEF Emit, WriteDynamicValue
<1> HIDE DEF f
<1>6. /\ data' \cap FieldMask(f) = FieldBits(f, ValueBits(n, f))
      /\ data' \ FieldMask(f) = data \ FieldMask(f) /\ FieldBits(f, ValueBits(n, f)) \subseteq FieldMask(f)
  BY <1>5, FieldIsWritten
<1>7. data \subseteq Bit /\ emitted \in [DOMAIN rules -> SUBSET Bit]
  BY DEF RewriteTypeOK
<1>8. data' \subseteq Bit
  BY <1>2, <1>5, <1>6, <1>7
<1>9. /\ emitted' \in [DOMAIN rules -> SUBSET Bit] /\ emitted'[turn] = ValueBits(n, f)
      /\ \A j \in DOMAIN rules \ {turn} : emitted'[j] = emitted[j]
  BY <1>4, <1>5, <1>7
<1> QED
  BY <1>2, <1>3, <1>4, <1>5, <1>6, <1>8, <1>9 DEF RuleWrites, f

LEMMA ApplyStaticWrites ==
  ASSUME RewriteTypeOK, ApplyStatic
  PROVE  RuleWrites
<1> DEFINE r == RuleAt(turn)
<1>1. turn \in DOMAIN rules /\ r \in StaticRule \cup MaskRule /\ r \notin ChecksumRule
  BY DEF ApplyStatic, Rewriting, RewriteTypeOK
<1>2. r \in StageRequest /\ NormalizeRule(r) /\ UNCHANGED <<rules, received>>
  BY <1>1, AtRule DEF ApplyStatic
<1>3. data' = (data \ ClearMask(r)) \cup StaticSetBits(r) /\ applied' = applied \cup {turn}
  BY DEF ApplyStatic, ApplyMask
<1>4. emitted' = IF r \in StaticRule THEN [emitted EXCEPT ![turn] = r.raw] ELSE emitted
  BY DEF ApplyStatic
<1>5. data \subseteq Bit /\ emitted \in [DOMAIN rules -> SUBSET Bit]
  BY DEF RewriteTypeOK
<1> HIDE DEF r
<1>6. CASE r \in StaticRule
  <2>1. /\ r \in FieldRule /\ r.field \in Field /\ FieldMask(r.field) \subseteq Bit
        /\ r.raw \subseteq Turns(r.field) /\ r.kind = "BIT_RANGE"
    BY <1>2, <1>6, RuleShapes DEF FieldRule, StaticRule
  <2>2. r.raw \subseteq Bit
    BY <2>1, FieldParts
  <2>3. data' = (data \ FieldMask(r.field)) \cup FieldBits(r.field, r.raw)
    BY <1>3, <2>1 DEF ClearMask, StaticSetBits
  <2>4. /\ data' \cap FieldMask(r.field) = FieldBits(r.field, r.raw)
        /\ data' \ FieldMask(r.field) = data \ FieldMask(r.field)
        /\ FieldBits(r.field, r.raw) \subseteq FieldMask(r.field)
    BY <2>3, FieldIsWritten
  <2>5. data' \subseteq Bit
    BY <1>5, <2>1, <2>3, <2>4
  <2>6. /\ emitted' \in [DOMAIN rules -> SUBSET Bit] /\ emitted'[turn] = r.raw
        /\ \A j \in DOMAIN rules \ {turn} : emitted'[j] = emitted[j]
    BY <1>1, <1>4, <1>5, <1>6, <2>2
  <2>7. Touched(r) = FieldMask(r.field)
    BY <2>1 DEF Touched
  <2> QED
    BY <1>1, <1>2, <1>3, <2>1, <2>4, <2>5, <2>6, <2>7 DEF RuleWrites, r
<1>7. CASE r \in MaskRule
  <2>1. r \notin FieldRule /\ r \notin StaticRule /\ r.mask \subseteq Bit /\ r.kind = "RAW_MASK"
    BY <1>2, <1>7, RuleShapes DEF FieldRule, MaskRule
  <2>2. data' = (data \ r.mask) \cup (r.bits \cap r.mask)
    BY <1>3, <2>1 DEF ClearMask, StaticSetBits
  <2>3. Touched(r) = r.mask
    BY <1>7, <2>1 DEF Touched
  <2>4. data' \subseteq Bit /\ data' \ r.mask = data \ r.mask
    BY <1>5, <2>1, <2>2
  <2>5. emitted' = emitted
    BY <1>4, <2>1
  <2> QED
    BY <1>1, <1>2, <1>3, <1>5, <2>1, <2>3, <2>4, <2>5 DEF RuleWrites, r
<1> QED
  BY <1>1, <1>6, <1>7

LEMMA ApplyChecksumWrites ==
  ASSUME RewriteTypeOK, ApplyChecksum
  PROVE  RuleWrites
<1> DEFINE r == RuleAt(turn)
           sum == Checksum(r, data)
<1>1. turn \in DOMAIN rules /\ r \in ChecksumRule
  BY DEF ApplyChecksum, Rewriting
<1>2. r \in StageRequest /\ NormalizeRule(r) /\ UNCHANGED <<rules, received, emitted>>
  BY <1>1, AtRule DEF ApplyChecksum
<1>3. data' = (data \ ByteBits(r.target)) \cup {8 * r.target + k : k \in sum} /\ applied' = applied \cup {turn}
  BY DEF ApplyChecksum, PutByte
<1>4. data \subseteq Bit /\ emitted \in [DOMAIN rules -> SUBSET Bit]
  BY DEF RewriteTypeOK
<1>5. sum \subseteq 0..7
  BY <1>1, ChecksumIsAByte
<1> HIDE DEF r, sum
<1>6. r.target \in 0..FrameBytes - 1 /\ r \notin FieldRule /\ r \notin MaskRule /\ r \notin StaticRule
  BY <1>1, <1>2, RuleShapes DEF FieldRule
<1>7. {8 * r.target + k : k \in sum} \subseteq ByteBits(r.target)
  <2>1. \A k \in 0..7 : 8 * r.target + k \in ByteBits(r.target)
    BY <1>6, BitsOfFrame DEF ByteBits
  <2> QED
    BY <1>5, <2>1
<1>8. ByteBits(r.target) \subseteq Bit
  BY <1>6, BitsOfFrame DEF ByteBits, Bit
<1>9. /\ data' \subseteq Bit /\ data' \ ByteBits(r.target) = data \ ByteBits(r.target)
      /\ data' \cap ByteBits(r.target) = {8 * r.target + k : k \in sum}
  BY <1>3, <1>4, <1>7, <1>8
<1>10. Touched(r) = ByteBits(r.target)
  BY <1>6 DEF Touched
<1> QED
  BY <1>1, <1>2, <1>3, <1>4, <1>6, <1>9, <1>10 DEF RuleWrites, r, sum
\* The steps that leave the frame alone keep what is known of it.
LEMMA HoldsAlong ==
  ASSUME RewriteInv, HeldOK', PlaceOK',
         \/ RuleWrites
         \/ UNCHANGED <<rules, received, frameVars>>,
         UNCHANGED <<rules, runtimeValue, owed>>
  PROVE  RewriteInv'
<1>1. RewriteTypeOK'
  BY TypeParts
<1>2. FrameInv'
  BY FrameInvAfterWrite, FrameInvUnchanged DEF RewriteInv
<1>3. SequencesStayInRange' /\ owed' = runtimeValue'
  BY DEF RewriteInv, SequencesStayInRange, RuleAt
<1> QED
  BY <1>1, <1>2, <1>3 DEF RewriteInv

LEMMA RewriteInitInv == RewriteInit => RewriteInv
<1> SUFFICES ASSUME RewriteInit PROVE RewriteInv
  OBVIOUS
<1>1. /\ rules \in Groups /\ Len(rules) \in Nat /\ DOMAIN rules = 1..Len(rules)
      /\ \A i \in DOMAIN rules : rules[i] \in StageRequest /\ NormalizeRule(rules[i])
  BY GroupShapes DEF RewriteInit
<1>2. \A i \in DOMAIN rules : InitialValue(rules[i]) \in Runtime
  BY <1>1, RuleShapes
<1>3. /\ runtimeValue = [i \in DOMAIN rules |-> InitialValue(rules[i])] /\ owed = runtimeValue
      /\ runtimeEnabled \in [DOMAIN rules -> BOOLEAN] /\ published \in [Source -> Reading]
      /\ data = {} /\ received = {} /\ turn = 1 /\ at = "idle" /\ loaded = 0 /\ selected = FALSE
      /\ applied = {} /\ emitted = [i \in DOMAIN rules |-> {}] /\ rewrites = 0
  BY DEF RewriteInit
<1>4. 0 \in Runtime /\ 0 \in 0..MaxRewrites
  BY RewriteAssumption DEF Runtime
<1>5. HeldOK
  BY <1>1, <1>2, <1>3, <1>4 DEF HeldOK
<1>6. PlaceOK
  BY <1>1, <1>3 DEF PlaceOK
<1>7. FrameInv
  BY <1>3 DEF FrameInv, FieldsAreWritten, EmittedFits, OtherBitsPass, ChecksumsHold
<1>8. SequencesStayInRange
  <2> SUFFICES ASSUME NEW i \in DOMAIN rules, RuleAt(i) \in SequenceRule
               PROVE  runtimeValue[i] \in 0..Len(RuleAt(i).bytes) - 1
    BY DEF SequencesStayInRange
  <2>1. rules[i] \in SequenceRule /\ runtimeValue[i] = rules[i].initial
    BY <1>3 DEF RuleAt, InitialValue, Counting
  <2> QED
    BY <1>1, <2>1, RuleShapes DEF RuleAt
<1> QED
  BY <1>3, <1>5, <1>6, <1>7, <1>8, TypeParts DEF RewriteInv

LEMMA ReceiveFrameKeepsInv ==
  ASSUME RewriteInv, NEW p \in Payload, ReceiveFrame(p)
  PROVE  RewriteInv'
<1>1. HeldOK /\ Len(rules) \in Nat
  BY TypeParts, AtRule DEF RewriteInv
<1>2. p \subseteq Bit /\ MaxRewrites \in Nat
  BY RewriteAssumption
<1>3. rewrites + 1 \in 0..MaxRewrites
  BY <1>1, <1>2 DEF HeldOK, ReceiveFrame
<1>4. HeldOK'
  BY <1>1, <1>2, <1>3 DEF HeldOK, ReceiveFrame, clientVars
<1>5. PlaceOK'
  BY <1>1 DEF PlaceOK, ReceiveFrame
<1>6. FrameInv'
  BY DEF ReceiveFrame, FrameInv, FieldsAreWritten, EmittedFits, OtherBitsPass, ChecksumsHold
<1>7. SequencesStayInRange' /\ owed' = runtimeValue'
  BY DEF RewriteInv, SequencesStayInRange, RuleAt, ReceiveFrame
<1> QED
  BY <1>4, <1>5, <1>6, <1>7, TypeParts DEF RewriteInv

LEMMA ForwardFrameKeepsInv ==
  ASSUME RewriteInv, ForwardFrame
  PROVE  RewriteInv'
<1>1. HeldOK /\ PlaceOK
  BY TypeParts DEF RewriteInv
<1>2. HeldOK'
  BY <1>1 DEF HeldOK, ForwardFrame, clientVars, frameVars
<1>3. PlaceOK'
  BY <1>1 DEF PlaceOK, ForwardFrame, frameVars
<1> QED
  BY <1>2, <1>3, HoldsAlong DEF ForwardFrame

LEMMA LoadEnabledKeepsInv ==
  ASSUME RewriteInv, LoadEnabled
  PROVE  RewriteInv'
<1>1. HeldOK /\ RewriteTypeOK /\ turn \in DOMAIN rules
  BY TypeParts DEF RewriteInv, LoadEnabled, Rewriting
<1>2. HeldOK'
  BY <1>1 DEF HeldOK, LoadEnabled, clientVars, frameVars
<1>3. PlaceOK'
  BY <1>1, PassOnKeepsPlace, GoToKeepsPlace DEF LoadEnabled, GoTo, frameVars
<1> QED
  BY <1>2, <1>3, HoldsAlong DEF LoadEnabled

LEMMA SelectKeepsInv ==
  ASSUME RewriteInv, Select
  PROVE  RewriteInv'
<1>1. HeldOK /\ RewriteTypeOK /\ turn \in DOMAIN rules /\ RuleAt(turn) \in StageRequest
  BY TypeParts, AtRule DEF RewriteInv, Select, Rewriting
<1>2. HeldOK'
  BY <1>1 DEF HeldOK, Select, clientVars, frameVars
<1>3. \/ FirstPlace(RuleAt(turn)) \in {"recheck", "load"} /\ RuleAt(turn) \in Counting \cup DynamicRule
      \/ FirstPlace(RuleAt(turn)) = "apply" /\ RuleAt(turn) \in StaticRule \cup MaskRule \cup ChecksumRule
  BY <1>1 DEF FirstPlace, StageRequest, FieldRule, Counting
<1>4. PlaceOK'
  BY <1>1, <1>3, PassOnKeepsPlace, GoToKeepsPlace DEF Select, GoTo, frameVars
<1> QED
  BY <1>2, <1>4, HoldsAlong DEF Select

LEMMA RecheckKeepsInv ==
  ASSUME RewriteInv, Recheck
  PROVE  RewriteInv'
<1>1. /\ HeldOK /\ RewriteTypeOK /\ turn \in DOMAIN rules
      /\ RuleAt(turn) \in Counting \cup DynamicRule
  BY TypeParts DEF RewriteInv, Recheck, Rewriting, RewriteTypeOK
<1>2. selected' \in BOOLEAN
  BY DEF Recheck, SelectorAllows
<1>3. HeldOK'
  BY <1>1, <1>2 DEF HeldOK, Recheck, clientVars, frameVars
<1>4. PlaceOK'
  BY <1>1, PassOnKeepsPlace, GoToKeepsPlace DEF Recheck, GoTo, frameVars
<1> QED
  BY <1>3, <1>4, HoldsAlong DEF Recheck

LEMMA LoadValueKeepsInv ==
  ASSUME RewriteInv, LoadValue
  PROVE  RewriteInv'
<1>1. /\ HeldOK /\ RewriteTypeOK /\ turn \in DOMAIN rules
      /\ RuleAt(turn) \in Counting \cup DynamicRule
  BY TypeParts DEF RewriteInv, LoadValue, Rewriting, RewriteTypeOK
<1>2. runtimeValue[turn] \in Runtime
  BY <1>1 DEF HeldOK
<1>3. HeldOK'
  BY <1>1, <1>2 DEF HeldOK, LoadValue, clientVars, frameVars
<1>4. PlaceOK'
  BY <1>1, GoToKeepsPlace DEF LoadValue, GoTo, frameVars
<1> QED
  BY <1>3, <1>4, HoldsAlong DEF LoadValue

LEMMA WriteValueKeepsInv ==
  ASSUME RewriteInv, WriteValue
  PROVE  RewriteInv'
<1>1. /\ HeldOK /\ RewriteTypeOK /\ turn \in DOMAIN rules /\ RuleAt(turn) \in DynamicRule
      /\ PassOn /\ UNCHANGED <<rules, runtimeValue, clientVars, received, loaded, selected, owed, rewrites>>
  BY TypeParts DEF RewriteInv, WriteValue, Rewriting, RewriteTypeOK
<1>2. (\E n : Emit(n)) \/ UNCHANGED frameVars
  BY DEF WriteValue
<1>3. CASE \E n : Emit(n)
  <2>1. RuleWrites
    BY <1>1, <1>3, EmitWrites
  <2>2. runtimeValue' \in [DOMAIN rules -> Runtime] /\ owed' \in [DOMAIN rules -> Runtime]
    BY <1>1 DEF HeldOK
  <2>3. RewriteTypeOK'
    BY <1>1, <2>1, <2>2, WritesKeepTypes
  <2> QED
    BY <1>1, <2>1, <2>3, TypeParts, HoldsAlong
<1>4. CASE UNCHANGED frameVars
  <2>1. HeldOK'
    BY <1>1, <1>4 DEF HeldOK, clientVars, frameVars
  <2>2. PlaceOK'
    BY <1>1, <1>4, PassOnKeepsPlace DEF frameVars
  <2> QED
    BY <1>1, <1>4, <2>1, <2>2, HoldsAlong
<1> QED
  BY <1>2, <1>3, <1>4

LEMMA ApplyStaticKeepsInv ==
  ASSUME RewriteInv, ApplyStatic
  PROVE  RewriteInv'
<1>1. RewriteTypeOK /\ HeldOK /\ RuleWrites /\ PassOn
  BY ApplyStaticWrites, TypeParts DEF RewriteInv, ApplyStatic
<1>2. runtimeValue' \in [DOMAIN rules -> Runtime] /\ owed' \in [DOMAIN rules -> Runtime]
  BY <1>1 DEF HeldOK, ApplyStatic
<1>3. RewriteTypeOK'
  BY <1>1, <1>2, WritesKeepTypes DEF ApplyStatic
<1> QED
  BY <1>1, <1>3, TypeParts, HoldsAlong DEF ApplyStatic

LEMMA ApplyChecksumKeepsInv ==
  ASSUME RewriteInv, ApplyChecksum
  PROVE  RewriteInv'
<1>1. RewriteTypeOK /\ HeldOK /\ RuleWrites /\ PassOn
  BY ApplyChecksumWrites, TypeParts DEF RewriteInv, ApplyChecksum
<1>2. runtimeValue' \in [DOMAIN rules -> Runtime] /\ owed' \in [DOMAIN rules -> Runtime]
  BY <1>1 DEF HeldOK, ApplyChecksum
<1>3. RewriteTypeOK'
  BY <1>1, <1>2, WritesKeepTypes DEF ApplyChecksum
<1> QED
  BY <1>1, <1>3, TypeParts, HoldsAlong DEF ApplyChecksum
\* What is left in a slot is a word, and an index if the rule is a sequence.
LEMMA NextValueFits ==
  ASSUME NEW r \in StageRequest, NormalizeRule(r), r \in Counting, NEW v \in Runtime
  PROVE  NextValue(r, v) \in Runtime /\ (r \in SequenceRule => NextValue(r, v) \in 0..Len(r.bytes) - 1)
<1>1. \A x \in Int, m \in Nat \ {0} : x % m \in 0..m - 1
  OBVIOUS
<1>2. v \in Nat /\ WordSpan \in Nat \ {0} /\ WordSpan >= 16 /\ Runtime = 0..WordSpan - 1
  BY RewriteAssumption DEF Runtime
<1>3. CASE r \in CounterRule
  <2>1. r.wrapTo \in Runtime /\ r.step \in Nat /\ r \notin SequenceRule
    BY <1>3, RuleShapes
  <2>2. v + r.step \in Int
    BY <1>2, <2>1
  <2>3. (v + r.step) % WordSpan \in Runtime
    BY <1>1, <1>2, <2>2
  <2> QED
    BY <1>3, <2>1, <2>3 DEF NextValue
<1>4. CASE r \in SequenceRule
  <2>1. PICK l \in 1..16 : l = Len(r.bytes)
    BY <1>4, RuleShapes
  <2>2. l \in Nat \ {0} /\ v \in Int
    BY <1>2
  <2>3. v % l \in 0..l - 1
    BY <1>1, <2>2
  <2>4. (v % l) + 1 \in Int
    BY <2>2, <2>3
  <2>5. ((v % l) + 1) % l \in 0..l - 1
    BY <1>1, <2>2, <2>4
  <2>6. 0..l - 1 \subseteq Runtime
    BY <1>2
  <2>7. r \notin CounterRule
    BY <1>4, RuleShapes
  <2>8. NextValue(r, v) = ((v % l) + 1) % l
    BY <2>1, <2>7 DEF NextValue
  <2> QED
    BY <2>1, <2>5, <2>6, <2>8
<1> QED
  BY <1>3, <1>4 DEF Counting

\* What SetValue and Claim do to the slots.
LEMMA SlotsStayInRange ==
  ASSUME RewriteInv, UNCHANGED rules, NEW i \in DOMAIN rules, NEW v \in Runtime,
         RuleAt(i) \in SequenceRule => v \in 0..Len(RuleAt(i).bytes) - 1,
         runtimeValue' = [runtimeValue EXCEPT ![i] = v],
         owed' = [owed EXCEPT ![i] = v]
  PROVE  /\ runtimeValue' \in [DOMAIN rules -> Runtime] /\ owed' \in [DOMAIN rules -> Runtime]
         /\ SequencesStayInRange' /\ owed' = runtimeValue'
<1>1. runtimeValue \in [DOMAIN rules -> Runtime] /\ owed = runtimeValue /\ SequencesStayInRange
  BY DEF RewriteInv, RewriteTypeOK
<1>2. owed' = runtimeValue' /\ runtimeValue' \in [DOMAIN rules -> Runtime]
  BY <1>1
<1>3. \A j \in DOMAIN rules : runtimeValue'[j] = IF j = i THEN v ELSE runtimeValue[j]
  BY <1>1
<1>4. SequencesStayInRange'
  BY <1>1, <1>3 DEF SequencesStayInRange, RuleAt
<1> QED
  BY <1>2, <1>4

LEMMA ClaimKeepsInv ==
  ASSUME RewriteInv, Claim
  PROVE  RewriteInv'
<1> DEFINE r == RuleAt(turn)
<1>1. /\ HeldOK /\ RewriteTypeOK /\ turn \in DOMAIN rules /\ r \in Counting
      /\ r \in StageRequest /\ NormalizeRule(r) /\ owed = runtimeValue
      /\ UNCHANGED <<rules, clientVars, received, selected, rewrites>>
  BY TypeParts, AtRule DEF RewriteInv, Claim, Rewriting, RewriteTypeOK
<1>2. runtimeValue[turn] \in Runtime /\ loaded \in Runtime
  BY <1>1 DEF HeldOK
<1>3. CASE runtimeValue[turn] = loaded
  <2>1. NextValue(r, loaded) \in Runtime
        /\ (r \in SequenceRule => NextValue(r, loaded) \in 0..Len(r.bytes) - 1)
    BY <1>1, <1>2, NextValueFits
  <2>2. /\ runtimeValue' = [runtimeValue EXCEPT ![turn] = NextValue(r, loaded)]
        /\ owed' = [owed EXCEPT ![turn] = NextValue(r, loaded)]
        /\ (\E n : Emit(n)) \/ UNCHANGED frameVars
        /\ PassOn /\ UNCHANGED loaded
    BY <1>1, <1>3 DEF Claim
  <2>3. /\ runtimeValue' \in [DOMAIN rules -> Runtime] /\ owed' \in [DOMAIN rules -> Runtime]
        /\ SequencesStayInRange' /\ owed' = runtimeValue'
    <3> DEFINE v == NextValue(r, loaded)
    <3>1. /\ v \in Runtime /\ (RuleAt(turn) \in SequenceRule => v \in 0..Len(RuleAt(turn).bytes) - 1)
          /\ runtimeValue' = [runtimeValue EXCEPT ![turn] = v] /\ owed' = [owed EXCEPT ![turn] = v]
      BY <2>1, <2>2
    <3> HIDE DEF v
    <3> QED
      BY <1>1, <3>1, SlotsStayInRange
  <2>4. CASE \E n : Emit(n)
    <3>1. RuleWrites
      BY <1>1, <2>4, EmitWrites
    <3>2. RewriteTypeOK'
      BY <1>1, <2>2, <2>3, <3>1, WritesKeepTypes
    <3>3. FrameInv'
      BY <1>1, <3>1, FrameInvAfterWrite DEF RewriteInv
    <3> QED
      BY <2>3, <3>2, <3>3 DEF RewriteInv
  <2>5. CASE UNCHANGED frameVars
    <3>1. HeldOK'
      BY <1>1, <2>2, <2>3, <2>5 DEF HeldOK, clientVars, frameVars
    <3>2. PlaceOK'
      BY <1>1, <2>2, <2>5, PassOnKeepsPlace DEF frameVars
    <3>3. FrameInv'
      BY <1>1, <2>5, FrameInvUnchanged DEF RewriteInv
    <3> QED
      BY <2>3, <3>1, <3>2, <3>3, TypeParts DEF RewriteInv
  <2> QED
    BY <2>2, <2>4, <2>5
<1>4. CASE runtimeValue[turn] # loaded
  <2>1. loaded' = runtimeValue[turn] /\ UNCHANGED <<runtimeValue, frameVars, turn, at, owed>>
    BY <1>4 DEF Claim
  <2>2. HeldOK'
    BY <1>1, <1>2, <2>1 DEF HeldOK, clientVars, frameVars
  <2>3. PlaceOK'
    BY <1>1, <2>1, TypeParts DEF PlaceOK, frameVars, RuleAt
  <2> QED
    BY <1>1, <2>1, <2>2, <2>3, HoldsAlong
<1> QED
  BY <1>3, <1>4

LEMMA SetValueKeepsInv ==
  ASSUME RewriteInv, NEW i \in DOMAIN rules, NEW v \in Setting, SetValue(i, v)
  PROVE  RewriteInv'
<1>1. /\ HeldOK /\ PlaceOK /\ UNCHANGED rules
      /\ UNCHANGED <<clientVars, frameVars, received, turn, at, loaded, selected, rewrites>>
      /\ RuleAt(i) \in StageRequest /\ NormalizeRule(RuleAt(i))
  BY TypeParts, AtRule DEF RewriteInv, SetValue
<1>2. v \in Runtime /\ v \in Nat
  BY RewriteAssumption DEF Runtime
<1>3. RuleAt(i) \in SequenceRule => v \in 0..Len(RuleAt(i).bytes) - 1
  <2> SUFFICES ASSUME RuleAt(i) \in SequenceRule PROVE v \in 0..Len(RuleAt(i).bytes) - 1
    OBVIOUS
  <2>1. RuleAt(i) \notin DynamicRule /\ RuleAt(i) \notin CounterRule /\ Len(RuleAt(i).bytes) \in 1..16
    BY <1>1, RuleShapes DEF Counting
  <2>2. v < Len(RuleAt(i).bytes)
    BY <2>1 DEF SetValue, ValueFits
  <2> QED
    BY <1>2, <2>1, <2>2
<1>4. /\ runtimeValue' \in [DOMAIN rules -> Runtime] /\ owed' \in [DOMAIN rules -> Runtime]
      /\ SequencesStayInRange' /\ owed' = runtimeValue'
  BY <1>1, <1>2, <1>3, SlotsStayInRange DEF SetValue
<1>5. HeldOK' /\ PlaceOK'
  BY <1>1, <1>4 DEF HeldOK, PlaceOK, clientVars, frameVars, RuleAt
<1>6. FrameInv'
  BY <1>1, FrameInvUnchanged DEF RewriteInv
<1> QED
  BY <1>4, <1>5, <1>6, TypeParts DEF RewriteInv

LEMMA SetEnabledKeepsInv ==
  ASSUME RewriteInv, NEW i \in DOMAIN rules, NEW enable \in BOOLEAN, SetEnabled(i, enable)
  PROVE  RewriteInv'
<1>1. HeldOK /\ PlaceOK
  BY TypeParts DEF RewriteInv
<1>2. HeldOK' /\ PlaceOK'
  BY <1>1 DEF HeldOK, PlaceOK, SetEnabled, frameVars, RuleAt
<1> QED
  BY <1>2, HoldsAlong DEF SetEnabled

LEMMA PublishSelectorKeepsInv ==
  ASSUME RewriteInv, NEW s \in Source, NEW x \in Reading, PublishSelector(s, x)
  PROVE  RewriteInv'
<1>1. HeldOK /\ PlaceOK
  BY TypeParts DEF RewriteInv
<1>2. HeldOK' /\ PlaceOK'
  BY <1>1 DEF HeldOK, PlaceOK, PublishSelector, frameVars, RuleAt
<1> QED
  BY <1>2, HoldsAlong DEF PublishSelector

LEMMA StutterKeepsInv ==
  ASSUME RewriteInv, UNCHANGED rewriteVars
  PROVE  RewriteInv'
<1>1. HeldOK /\ PlaceOK
  BY TypeParts DEF RewriteInv
<1>2. HeldOK' /\ PlaceOK'
  BY <1>1 DEF HeldOK, PlaceOK, rewriteVars, RuleAt
<1> QED
  BY <1>2, HoldsAlong DEF rewriteVars, frameVars

LEMMA RewriteNextInv == RewriteInv /\ [RewriteNext]_rewriteVars => RewriteInv'
<1> SUFFICES ASSUME RewriteInv, [RewriteNext]_rewriteVars PROVE RewriteInv'
  OBVIOUS
<1>1. CASE \E p \in Payload : ReceiveFrame(p)
  BY <1>1, ReceiveFrameKeepsInv
<1>2. CASE ForwardFrame \/ LoadEnabled \/ Select \/ Recheck \/ LoadValue \/ WriteValue
  BY <1>2, ForwardFrameKeepsInv, LoadEnabledKeepsInv, SelectKeepsInv, RecheckKeepsInv, LoadValueKeepsInv, WriteValueKeepsInv
<1>3. CASE Claim \/ ApplyStatic \/ ApplyChecksum
  BY <1>3, ClaimKeepsInv, ApplyStaticKeepsInv, ApplyChecksumKeepsInv
<1>4. CASE \E i \in DOMAIN rules : \/ \E v \in Setting : SetValue(i, v)
                                   \/ \E enable \in BOOLEAN : SetEnabled(i, enable)
  BY <1>4, SetValueKeepsInv, SetEnabledKeepsInv
<1>5. CASE \E s \in Source, x \in Reading : PublishSelector(s, x)
  BY <1>5, PublishSelectorKeepsInv
<1>6. CASE UNCHANGED rewriteVars
  BY <1>6, StutterKeepsInv
<1> QED
  BY <1>1, <1>2, <1>3, <1>4, <1>5, <1>6 DEF RewriteNext

LEMMA RewriteInvariant == RewriteSpec => []RewriteInv
BY RewriteInitInv, RewriteNextInv, PTL DEF RewriteSpec
-----------------------------------------------------------------------------
(* The theorems. *)

(* The rules in the task's hands are of the kinds its code is for, and no rule  *)
(* writes outside the payload (mutation_engine.cpp:459).                         *)
THEOREM RewriteTypes == RewriteSpec => []RewriteTypeOK
<1>1. RewriteInv => RewriteTypeOK
  BY DEF RewriteInv
<1> QED
  BY <1>1, RewriteInvariant, PTL

(* A signal of any place, length and byte order reads what the last rule that    *)
(* wrote its field has put there (signal_codec.cpp:67).                          *)
THEOREM FieldsReadTheirValues == RewriteSpec => []FieldsCarryTheirValues
<1>1. RewriteInv => FieldsCarryTheirValues
  <2> SUFFICES ASSUME RewriteInv, NEW i \in applied, RuleAt(i) \in FieldRule,
                      Kept(i, Touched(RuleAt(i)))
               PROVE  /\ SignalFitsPayload(FrameBytes, RuleAt(i).field) /\ CanExtract(RuleAt(i).field)
                      /\ ExtractRaw(data, RuleAt(i).field) = emitted[i]
    BY DEF FieldsCarryTheirValues
  <2>1. RuleAt(i) \in StageRequest /\ NormalizeRule(RuleAt(i))
    BY AtRule DEF RewriteInv
  <2>2. RuleAt(i).field \in Field /\ FieldMask(RuleAt(i).field) \subseteq Bit
    BY <2>1, RuleShapes
  <2>3. /\ emitted[i] \subseteq Turns(RuleAt(i).field)
        /\ data \cap FieldMask(RuleAt(i).field) = FieldBits(RuleAt(i).field, emitted[i])
    BY DEF RewriteInv, FrameInv, FieldsAreWritten, EmittedFits
  <2> QED
    BY <2>2, <2>3, FieldReadsBack
<1> QED
  BY <1>1, RewriteInvariant, PTL

(* Whoever decodes a frame finds the physical value a legacy mutation asked for, *)
(* clamped to the field (mutation_engine.cpp:31, signal_codec.cpp:147).           *)
THEOREM PhysicalValuesAreDecoded == RewriteSpec => []PhysicalValuesReadBack
<1>1. RewriteInv => PhysicalValuesReadBack
  <2> SUFFICES ASSUME RewriteInv, NEW i \in applied, RuleAt(i) \in StaticRule,
                      Kept(i, Touched(RuleAt(i))), NEW w \in Physical,
                      RuleAt(i).raw = ConvertPhysicalToRaw(w, RuleAt(i).field)
               PROVE  DecodeSignal(data, RuleAt(i).field) = ClampedWord(w, RuleAt(i).field)
    BY DEF PhysicalValuesReadBack
  <2>1. RuleAt(i) \in StageRequest /\ NormalizeRule(RuleAt(i)) /\ RuleAt(i) \in FieldRule
    BY AtRule DEF RewriteInv, FieldRule
  <2>2. RuleAt(i).field \in Field /\ FieldMask(RuleAt(i).field) \subseteq Bit
    BY <2>1, RuleShapes
  <2>3. /\ emitted[i] \subseteq Turns(RuleAt(i).field) /\ emitted[i] = RuleAt(i).raw
        /\ data \cap FieldMask(RuleAt(i).field) = FieldBits(RuleAt(i).field, emitted[i])
    BY <2>1 DEF RewriteInv, FrameInv, FieldsAreWritten, EmittedFits
  <2>4. ExtractRaw(data, RuleAt(i).field) = ConvertPhysicalToRaw(w, RuleAt(i).field)
    BY <2>2, <2>3, FieldReadsBack
  <2>5. w \in SUBSET Bit
    BY RewriteAssumption
  <2> QED
    BY <2>2, <2>4, <2>5, ClampedWordReadsBack DEF DecodeSignal
<1> QED
  BY <1>1, RewriteInvariant, PTL

(* A disabled or gated rule is a true no-op, and an active one changes no bit    *)
(* but its own (mutation_engine.cpp:1216).                                       *)
THEOREM UnclaimedBitsPass == RewriteSpec => []OtherBitsPass
<1>1. RewriteInv => OtherBitsPass
  BY DEF RewriteInv, FrameInv
<1> QED
  BY <1>1, RewriteInvariant, PTL

(* The order of kinds makes every checksum that of the frame that is forwarded   *)
(* (mutation_engine.cpp:330).                                                    *)
THEOREM ChecksumsAreOfTheFrame == RewriteSpec => []ChecksumsHold
<1>1. RewriteInv => ChecksumsHold
  BY DEF RewriteInv, FrameInv
<1> QED
  BY <1>1, RewriteInvariant, PTL

(* A sequence's slot always remains an index (mutation_engine.cpp:1150).         *)
THEOREM SequencesRemainIndices == RewriteSpec => []SequencesStayInRange
<1>1. RewriteInv => SequencesStayInRange
  BY DEF RewriteInv
<1> QED
  BY <1>1, RewriteInvariant, PTL

(* A write of a client is either taken by this frame or left for the next: none  *)
(* is lost and no value is used twice (mutation_engine.cpp:1130).                *)
THEOREM ClaimsAreAtomic == RewriteSpec => NothingIsClaimedTwice
<1> DEFINE Step == at = "claim" /\ turn' # turn => loaded = owed[turn] /\ runtimeValue'[turn] = owed'[turn]
<1>1. RewriteInv /\ RewriteInv' /\ [RewriteNext]_rewriteVars => [Step]_rewriteVars
  <2> SUFFICES ASSUME RewriteInv, RewriteInv', RewriteNext, at = "claim", turn' # turn
               PROVE  loaded = owed[turn] /\ runtimeValue'[turn] = owed'[turn]
    OBVIOUS
  <2>1. owed = runtimeValue /\ owed' = runtimeValue'
    BY DEF RewriteInv
  <2>2. Claim
    BY DEF RewriteNext, ReceiveFrame, ForwardFrame, LoadEnabled, Select, Recheck, LoadValue, WriteValue,
           ApplyStatic, ApplyChecksum, SetValue, SetEnabled, PublishSelector, Rewriting
  <2>3. runtimeValue[turn] = loaded
    BY <2>2 DEF Claim
  <2> QED
    BY <2>1, <2>3
<1> QED
  BY <1>1, RewriteInvariant, RewriteNextInv, PTL DEF NothingIsClaimedTwice, RewriteSpec
-----------------------------------------------------------------------------
(* Both sides together. *)

LEMMA EachSideActsAlone == ASSUME [EngineNext]_engineVars PROVE [Next]_vars /\ [RewriteNext]_rewriteVars
  BY DEF EngineNext, engineVars, Tables, Frame

LEMMA EachSideBehaves == EngineSpec => Spec /\ RewriteSpec
<1>1. EngineInit => Init /\ RewriteInit
  BY DEF EngineInit
<1>2. [EngineNext]_engineVars => [Next]_vars /\ [RewriteNext]_rewriteVars
  BY EachSideActsAlone
<1> QED
  BY <1>1, <1>2, PTL DEF EngineSpec, Spec, RewriteSpec

(* Tables, slots, frame and the place of the frame loop keep to their types, and *)
(* no slot of a sequence ever holds anything but an index of it.                 *)
THEOREM EngineTypes == EngineSpec => []EngineTypeOK
<1>1. TypeOK /\ RewriteTypeOK /\ SequencesStayInRange => EngineTypeOK
  BY DEF EngineTypeOK
<1> QED
  BY <1>1, EachSideBehaves, RulesTypeOK, RewriteTypes, SequencesRemainIndices, PTL

(* Candidate, committed shadow and live table agree after any sequence of calls. *)
THEOREM EngineTablesAgree == EngineSpec => []TablesAgree
<1>1. (CleanIsMirror /\ UnpendingIsLive) /\ (LiveIsCommitted /\ OneSlotPerRule) => TablesAgree
  BY DEF TablesAgree
<1> QED
  BY <1>1, EachSideBehaves, CleanCandidateIsLive, CommittedRulesRun, PTL

(* A handle with the present epoch names the rule it was given out for. *)
THEOREM EngineHandles == EngineSpec => []HandleFidelity
  BY EachSideBehaves, HandlesAreFaithful, PTL

(* Every rule runs once for a frame and in its place, until the sequence numbers *)
(* have been used up once.                                                       *)
THEOREM EngineOrder == EngineSpec => [](allocations < SequenceModulus => RunsOnceInOrder)
<1>1. OneSlotPerRule /\ (allocations < SequenceModulus => OrderPreserved)
      => (allocations < SequenceModulus => RunsOnceInOrder)
  BY DEF RunsOnceInOrder
<1> QED
  BY <1>1, EachSideBehaves, RuleHasOneSlot, RulesKeepTheirOrder, PTL

(* What the rules lay into a frame is what the codec reads there, physical       *)
(* values included, for every frame, field and byte order.                       *)
THEOREM EngineFieldsReadBack == EngineSpec => []FieldsReadBack
<1>1. FieldsCarryTheirValues /\ PhysicalValuesReadBack => FieldsReadBack
  BY DEF FieldsReadBack
<1> QED
  BY <1>1, EachSideBehaves, FieldsReadTheirValues, PhysicalValuesAreDecoded, PTL

(* Unclaimed bits go through, and checksums are those of the forwarded payload,  *)
(* whatever the other tasks do meanwhile.                                        *)
THEOREM EngineRestOfTheFrame == EngineSpec => []RestOfTheFrame
<1>1. OtherBitsPass /\ ChecksumsHold => RestOfTheFrame
  BY DEF RestOfTheFrame
<1> QED
  BY <1>1, EachSideBehaves, UnclaimedBitsPass, ChecksumsAreOfTheFrame, PTL

(* No value of a counter or a sequence is taken by two frames or lost to a        *)
(* client's set.                                                                  *)
THEOREM EngineClaims == EngineSpec => NothingIsClaimedTwice
  BY EachSideBehaves, ClaimsAreAtomic, PTL
=============================================================================
