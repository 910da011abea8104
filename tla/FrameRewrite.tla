---------------------------- MODULE FrameRewrite ----------------------------
(***************************************************************************)
(* What the rules do to a frame (src/core/mutation_engine.cpp).  The CAN task  *)
(* walks the compiled rules of the frame's group; `ss_ui' sets values and      *)
(* enables, the application publishes selectors, at any moment between two      *)
(* of its reads.  The table stays the same: how it is made and replaced is in   *)
(* MutationEngine and RuleCommit.                                               *)
(*                                                                         *)
(* Payloads, masks and raw values are sets of bits, as in SignalCodec.  What a  *)
(* rule computes from the floats of its source is any of `Output', or nothing.  *)
(***************************************************************************)
EXTENDS SignalCodec, Sequences, FiniteSets

CONSTANTS
    Package,    \* rules of one identifier and direction, in the order they are to run
    Source,     \* runtime values that select
    Reading,    \* what an application publishes as a selector
    Payload,    \* what arrives
    Physical,   \* values of legacy mutations, rounded to a word: llround
    Output,     \* what encodeRuntimeOutput may return
    Setting,    \* what clients ask for
    WordSpan,   \* 2^32: current_value is a uint32_t
    MaxRewrites \* bound of the model: frames

NotASelector == -1  \* published, but not finite or not within 0.0 to 15.0
Selector == 0..15
Runtime == 0..WordSpan - 1
ByteValue == SUBSET (0..7)
-----------------------------------------------------------------------------
(* Rules: RuleStageRequest, a record for each kind. *)

Gate == [source : Source \cup {"none"}, states : SUBSET Selector]

StaticRule == [kind : {"BIT_RANGE"}, dynamic : {FALSE}, gate : Gate, field : Field, raw : SUBSET Nat]
DynamicRule == [kind : {"BIT_RANGE"}, dynamic : {TRUE}, gate : Gate, field : Field,
                initial : Runtime, fed : BOOLEAN]
MaskRule == [kind : {"RAW_MASK"}, gate : Gate, mask : SUBSET Bit, bits : SUBSET Bit]
CounterRule == [kind : {"COUNTER"}, gate : Gate, field : Field, initial : Runtime,
                step : Runtime, wrapAfter : Runtime, wrapTo : Runtime]
SequenceRule == [kind : {"SEQUENCE8"}, gate : Gate, field : Field, bytes : Seq(0..255), initial : Runtime]
XorRule == [kind : {"CHECKSUM_XOR"}, gate : Gate, target : Nat, first : Nat, last : Nat, seed : ByteValue]
CrcRule == [kind : {"CHECKSUM_CRC8_AUTOSAR"}, gate : Gate, target : Nat, counter : Nat,
            first : Nat, last : Nat, ids : [SUBSET (0..3) -> ByteValue]]

FieldRule == StaticRule \cup DynamicRule \cup CounterRule \cup SequenceRule
ChecksumRule == XorRule \cup CrcRule
StageRequest == FieldRule \cup MaskRule \cup ChecksumRule

ASSUME RewriteAssumption ==
    /\ Package \subseteq Seq(StageRequest)
    /\ WordSpan \in Nat /\ WordSpan >= 16  \* every index of a sequence
    /\ MaxRewrites \in Nat
    /\ Payload \subseteq SUBSET Bit /\ Physical \subseteq SUBSET Bit
    /\ Output \cup Setting \subseteq Runtime /\ Reading \subseteq Selector \cup {NotASelector}
    /\ "none" \notin Source

(* Defect: a big-endian value is laid along its path from its lowest bit. *)
FrameBit_LowestFirst(f, b) == IF f.little THEN f.start + b ELSE MotorolaBit(f.start, b)

\* Where bit b of a raw value goes: buildDynamicBitPositions.
FrameBit(f, b) == IF f.little THEN f.start + b ELSE MotorolaBit(f.start, (f.length - 1) - b)

\* buildBitMaskAndValue.
FieldMask(f) == {FrameBit(f, b) : b \in Turns(f)}
FieldBits(f, raw) == {FrameBit(f, b) : b \in raw \cap Turns(f)}

(* Defect: a field may run out of the frame. *)
NormalizeField_Overrun(r) ==
    /\ r \in FieldRule
    /\ r \in StaticRule => r.raw \subseteq Turns(r.field)
    /\ r \in DynamicRule => r.initial < 2^r.field.length
    /\ r \in DynamicRule \cup CounterRule => r.field.length <= 32
    /\ r \in SequenceRule => Len(r.bytes) \in 1..16 /\ r.field.length <= 8 /\ r.initial < Len(r.bytes)

\* normalizeRule, where the fields of the request have the ranges of their types.
NormalizeField(r) ==
    /\ r \in FieldRule
    /\ FieldMask(r.field) \subseteq Bit
    /\ r \in StaticRule => r.raw \subseteq Turns(r.field)
    /\ r \in DynamicRule => r.initial < 2^r.field.length
    /\ r \in DynamicRule \cup CounterRule => r.field.length <= 32
    /\ r \in SequenceRule => Len(r.bytes) \in 1..16 /\ r.field.length <= 8 /\ r.initial < Len(r.bytes)

NormalizeChecksum(r) ==
    /\ r \in ChecksumRule
    /\ {r.target, r.first, r.last} \subseteq 0..FrameBytes - 1 /\ r.first <= r.last
    /\ r \in CrcRule => r.counter \in 0..FrameBytes - 1

NormalizeRule(r) == NormalizeField(r) \/ NormalizeChecksum(r) \/ r \in MaskRule

\* kCompileOrder.
Rank(r) ==
    CASE r.kind = "BIT_RANGE" -> 1 [] r.kind = "RAW_MASK" -> 2 [] r.kind = "COUNTER" -> 3
      [] r.kind = "SEQUENCE8" -> 4 [] r.kind = "CHECKSUM_XOR" -> 5 [] OTHER -> 6

(* Defect: the rules run as they were staged. *)
InCompileOrder_Staged(p) == p \in Package

InCompileOrder(p) == \A i, j \in DOMAIN p : i < j => Rank(p[i]) <= Rank(p[j])

\* The groups that applyCommit can compile from what stageRule accepted.
Groups == {p \in Package : (\A i \in DOMAIN p : NormalizeRule(p[i])) /\ InCompileOrder(p)}
-----------------------------------------------------------------------------
(* Physical values of legacy mutations: convertPhysicalToRaw.  A word is        *)
(* negative when its top bit is set.                                            *)
Negative(w) == FrameBits - 1 \in w

LargestWord(f) ==
    0..(IF f.signed THEN f.length - 2 ELSE IF f.length = FrameBits THEN FrameBits - 2 ELSE f.length - 1)
SmallestWord(f) == IF f.signed THEN f.length - 1..FrameBits - 1 ELSE {}

TooSmall(w, f) == Negative(w) /\ ~(SmallestWord(f) # {} /\ SmallestWord(f) \subseteq w)
TooLarge(w, f) == ~Negative(w) /\ ~(w \subseteq LargestWord(f))
ClampedWord(w, f) ==
    IF TooSmall(w, f) THEN SmallestWord(f) ELSE IF TooLarge(w, f) THEN LargestWord(f) ELSE w

ConvertPhysicalToRaw(w, f) == ClampedWord(w, f) \cap Turns(f)
-----------------------------------------------------------------------------
(* What the kinds write. *)

\* applyMask, on what compileRule made of a static rule or a mask.
ClearMask(r) == IF r.kind = "RAW_MASK" THEN r.mask ELSE FieldMask(r.field)
StaticSetBits(r) == IF r.kind = "RAW_MASK" THEN r.bits \cap r.mask ELSE FieldBits(r.field, r.raw)
ApplyMask(frame, r) == (frame \ ClearMask(r)) \cup StaticSetBits(r)

(* writeDynamicValue: a value too large for the field becomes the largest. *)
ValueBits(n, f) ==
    LET capped == IF n >= 2^f.length THEN 2^f.length - 1 ELSE n
    IN  {b \in Turns(f) : (capped \div 2^b) % 2 = 1}

WriteDynamicValue(frame, f, n) == (frame \ FieldMask(f)) \cup FieldBits(f, ValueBits(n, f))

ByteBits(i) == 8 * i..8 * i + 7
PutByte(frame, i, byte) == (frame \ ByteBits(i)) \cup {8 * i + k : k \in byte}
Bytes(frame, first, last) == [i \in first..last |-> {k \in 0..7 : 8 * i + k \in frame}]

\* A bit of the exclusive or is set if an odd number of its operands has it.
ExclusiveOr(bytes, seed) ==
    {k \in 0..7 : (Cardinality({i \in DOMAIN bytes : k \in bytes[i]}) + (IF k \in seed THEN 1 ELSE 0)) % 2 = 1}
XorChecksum(r, frame) == ExclusiveOr(Bytes(frame, r.first, r.last), r.seed)

\* CRC-8/AUTOSAR: polynomial 0x2F, initial and final value 0xFF.
Difference(a, b) == (a \ b) \cup (b \ a)
ShiftedCrc(c) == {k \in 0..7 : (k - 1 \in c) # (7 \in c /\ k \in {0, 1, 2, 3, 5})}
CrcUpdate(c, byte) ==
    LET twice(d) == ShiftedCrc(ShiftedCrc(d)) IN twice(twice(twice(twice(Difference(c, byte)))))
Crc8(bytes, first, last, id) ==
    LET crc[n \in first - 1..last] == IF n = first - 1 THEN 0..7 ELSE CrcUpdate(crc[n - 1], bytes[n])
    IN  Difference(CrcUpdate(crc[last], id), 0..7)

\* The Data ID is the one the low nibble of the counter byte selects.
DataId(r, frame) == r.ids[{k \in 0..3 : 8 * r.counter + k \in frame}]
AutosarChecksum(r, frame) == Crc8(Bytes(frame, r.first, r.last), r.first, r.last, DataId(r, frame))

Checksum(r, frame) == IF r.kind = "CHECKSUM_XOR" THEN XorChecksum(r, frame) ELSE AutosarChecksum(r, frame)
-----------------------------------------------------------------------------
VARIABLES
    rules,           \* the compiled rules of the group: CompiledRule::source
    runtimeValue,    \* current_value of their slots
    runtimeEnabled,  \* enabled of their slots
    published,       \* the runtime values that select
    data,            \* CanFrame::data
    received,        \* history: the payload that arrived
    turn, at,        \* applyFrameMutations: the rule, and what is next about it
    loaded,          \* the value read of the slot
    selected,        \* the selector's answer to applyCounterRule or applySequenceRule
    applied,         \* history: the rules that have written to this frame
    emitted,         \* history: the bits a rule has last written to its field
    owed,            \* history: the value the next frame has to take from a slot
    rewrites         \* bound: frames so far

clientVars == <<runtimeEnabled, published>>
frameVars == <<data, applied, emitted>>
rewriteVars == <<rules, runtimeValue, runtimeEnabled, published, data, received, turn, at, loaded,
                 selected, applied, emitted, owed, rewrites>>

Counting == CounterRule \cup SequenceRule
RuleAt(i) == rules[i]

\* initialRuntimeValue
InitialValue(r) == IF r \in Counting \cup DynamicRule THEN r.initial ELSE 0

RewriteInit ==
    /\ rules \in Groups
    /\ runtimeValue = [i \in DOMAIN rules |-> InitialValue(rules[i])] /\ owed = runtimeValue
    /\ runtimeEnabled \in [DOMAIN rules -> BOOLEAN]
    /\ published \in [Source -> Reading]
    /\ data = {} /\ received = {} /\ turn = 1 /\ at = "idle" /\ loaded = 0 /\ selected = FALSE
    /\ applied = {} /\ emitted = [i \in DOMAIN rules |-> {}] /\ rewrites = 0

(* The other tasks. *)

(* Defect: a sequence takes any value that fits its field. *)
ValueFits_NotAnIndex(r, v) ==
    \/ r \in DynamicRule /\ ~r.fed /\ v < 2^r.field.length
    \/ r \in Counting /\ v < 2^r.field.length

\* runtimeValueFits
ValueFits(r, v) ==
    \/ r \in DynamicRule /\ ~r.fed /\ v < 2^r.field.length
    \/ r \in CounterRule /\ v < 2^r.field.length
    \/ r \in SequenceRule /\ v < Len(r.bytes)

\* setActiveRuleValue
SetValue(i, v) ==
    /\ ValueFits(RuleAt(i), v)
    /\ runtimeValue' = [runtimeValue EXCEPT ![i] = v] /\ owed' = [owed EXCEPT ![i] = v]
    /\ UNCHANGED <<rules, clientVars, frameVars, received, turn, at, loaded, selected, rewrites>>

\* setActiveRuleEnabled
SetEnabled(i, enable) ==
    /\ runtimeEnabled' = [runtimeEnabled EXCEPT ![i] = enable]
    /\ UNCHANGED <<rules, runtimeValue, published, frameVars, received, turn, at, loaded, selected,
                   owed, rewrites>>

\* RuntimeValueRegistry::publish
PublishSelector(s, x) ==
    /\ published' = [published EXCEPT ![s] = x]
    /\ UNCHANGED <<rules, runtimeValue, runtimeEnabled, frameVars, received, turn, at, loaded,
                   selected, owed, rewrites>>
-----------------------------------------------------------------------------
(* The CAN task. *)

Rewriting(place) == at = place /\ turn \in DOMAIN rules
GoTo(place) == at' = place /\ UNCHANGED turn
PassOn == at' = "enabled" /\ turn' = turn + 1

ReceiveFrame(p) ==
    /\ at = "idle" /\ rewrites < MaxRewrites
    /\ data' = p /\ received' = p /\ applied' = {} /\ turn' = 1 /\ at' = "enabled"
    /\ rewrites' = rewrites + 1
    /\ UNCHANGED <<rules, runtimeValue, clientVars, loaded, selected, emitted, owed>>

ForwardFrame ==
    /\ at = "enabled" /\ turn = Len(rules) + 1 /\ at' = "idle"
    /\ UNCHANGED <<rules, runtimeValue, clientVars, frameVars, received, turn, loaded, selected,
                   owed, rewrites>>

LoadEnabled ==
    /\ Rewriting("enabled")
    /\ IF runtimeEnabled[turn] THEN GoTo("selector") ELSE PassOn
    /\ UNCHANGED <<rules, runtimeValue, clientVars, frameVars, received, loaded, selected, owed,
                   rewrites>>

SelectorAllows(r) ==
    \/ r.gate.source = "none"
    \/ r.gate.source # "none" /\ published[r.gate.source] \in r.gate.states

\* The first look at the selector, and the way to the function of the kind.
FirstPlace(r) ==
    IF r \in DynamicRule THEN "load" ELSE IF r \in Counting THEN "recheck" ELSE "apply"

Select ==
    /\ Rewriting("selector")
    /\ IF SelectorAllows(RuleAt(turn)) THEN GoTo(FirstPlace(RuleAt(turn))) ELSE PassOn
    /\ UNCHANGED <<rules, runtimeValue, clientVars, frameVars, received, loaded, selected, owed,
                   rewrites>>

(* Defect: the field is cleared before the selector is asked. *)
Recheck_Clears ==
    /\ Rewriting("recheck")
    /\ selected' = SelectorAllows(RuleAt(turn))
    /\ data' = IF RuleAt(turn) \in Counting THEN data ELSE data \ FieldMask(RuleAt(turn).field)
    /\ IF RuleAt(turn) \in Counting THEN GoTo("load")
       ELSE IF selected' THEN GoTo("write") ELSE PassOn
    /\ UNCHANGED <<rules, runtimeValue, clientVars, applied, emitted, received, loaded, owed, rewrites>>

\* The second look, of the function itself.
Recheck ==
    /\ Rewriting("recheck")
    /\ selected' = SelectorAllows(RuleAt(turn))
    /\ IF RuleAt(turn) \in Counting THEN GoTo("load")
       ELSE IF selected' THEN GoTo("write") ELSE PassOn
    /\ UNCHANGED <<rules, runtimeValue, clientVars, frameVars, received, loaded, owed, rewrites>>

LoadValue ==
    /\ Rewriting("load")
    /\ loaded' = runtimeValue[turn]
    /\ GoTo(IF RuleAt(turn) \in Counting THEN "claim" ELSE "recheck")
    /\ UNCHANGED <<rules, runtimeValue, clientVars, frameVars, received, selected, owed, rewrites>>

Emit(n) ==
    /\ data' = WriteDynamicValue(data, RuleAt(turn).field, n)
    /\ applied' = applied \cup {turn}
    /\ emitted' = [emitted EXCEPT ![turn] = ValueBits(n, RuleAt(turn).field)]

\* applyDynamicRule: the slot's value, or one made of the source, or nothing
\* when the source is not finite.
WriteValue ==
    /\ Rewriting("write")
    /\ \/ ~RuleAt(turn).fed /\ Emit(loaded)
       \/ RuleAt(turn).fed /\ \E n \in Output : Emit(n)
       \/ RuleAt(turn).fed /\ UNCHANGED frameVars
    /\ PassOn
    /\ UNCHANGED <<rules, runtimeValue, clientVars, received, loaded, selected, owed, rewrites>>

\* What a frame takes from a slot, and what it leaves there.
Claimed(r, v) == IF r \in CounterRule THEN v ELSE r.bytes[(v % Len(r.bytes)) + 1]
NextValue(r, v) ==
    IF r \in CounterRule THEN IF v >= r.wrapAfter THEN r.wrapTo ELSE (v + r.step) % WordSpan
    ELSE ((v % Len(r.bytes)) + 1) % Len(r.bytes)

(* Defect: the next value is stored, whatever has become of the slot. *)
Claim_Stores ==
    /\ Rewriting("claim")
    /\ runtimeValue' = [runtimeValue EXCEPT ![turn] = NextValue(RuleAt(turn), loaded)]
    /\ owed' = [owed EXCEPT ![turn] = NextValue(RuleAt(turn), owed[turn])]
    /\ IF selected THEN Emit(Claimed(RuleAt(turn), loaded)) ELSE UNCHANGED frameVars
    /\ PassOn
    /\ UNCHANGED <<rules, clientVars, received, loaded, selected, rewrites>>

\* applyCounterRule and applySequenceRule: compare_exchange_weak, and the write.
Claim ==
    /\ Rewriting("claim")
    /\ IF runtimeValue[turn] = loaded
       THEN /\ runtimeValue' = [runtimeValue EXCEPT ![turn] = NextValue(RuleAt(turn), loaded)]
            /\ owed' = [owed EXCEPT ![turn] = NextValue(RuleAt(turn), owed[turn])]
            /\ IF selected THEN Emit(Claimed(RuleAt(turn), loaded)) ELSE UNCHANGED frameVars
            /\ PassOn /\ UNCHANGED loaded
       ELSE /\ loaded' = runtimeValue[turn]
            /\ UNCHANGED <<runtimeValue, frameVars, turn, at, owed>>
    /\ UNCHANGED <<rules, clientVars, received, selected, rewrites>>

\* applyStaticRule
ApplyStatic ==
    /\ Rewriting("apply") /\ RuleAt(turn) \notin ChecksumRule
    /\ data' = ApplyMask(data, RuleAt(turn)) /\ applied' = applied \cup {turn}
    /\ emitted' = IF RuleAt(turn) \in StaticRule THEN [emitted EXCEPT ![turn] = RuleAt(turn).raw]
                  ELSE emitted
    /\ PassOn
    /\ UNCHANGED <<rules, runtimeValue, clientVars, received, loaded, selected, owed, rewrites>>

\* applyXorChecksumRule and applyAutosarChecksumRule
ApplyChecksum ==
    /\ Rewriting("apply") /\ RuleAt(turn) \in ChecksumRule
    /\ data' = PutByte(data, RuleAt(turn).target, Checksum(RuleAt(turn), data))
    /\ applied' = applied \cup {turn}
    /\ PassOn
    /\ UNCHANGED <<rules, runtimeValue, clientVars, emitted, received, loaded, selected, owed, rewrites>>

RewriteNext ==
    \/ \E p \in Payload : ReceiveFrame(p)
    \/ ForwardFrame \/ LoadEnabled \/ Select \/ Recheck \/ LoadValue \/ WriteValue \/ Claim
    \/ ApplyStatic \/ ApplyChecksum
    \/ \E i \in DOMAIN rules : \/ \E v \in Setting : SetValue(i, v)
                               \/ \E enable \in BOOLEAN : SetEnabled(i, enable)
    \/ \E s \in Source, x \in Reading : PublishSelector(s, x)

RewriteSpec == RewriteInit /\ [][RewriteNext]_rewriteVars
-----------------------------------------------------------------------------
(* What the task holds is of its type, and it is at a rule of the kind its     *)
(* place is for.                                                               *)
RewriteTypeOK ==
    /\ rules \in Groups
    /\ runtimeValue \in [DOMAIN rules -> Runtime] /\ owed \in [DOMAIN rules -> Runtime]
    /\ runtimeEnabled \in [DOMAIN rules -> BOOLEAN] /\ published \in [Source -> Reading]
    /\ data \subseteq Bit /\ received \subseteq Bit
    /\ turn \in 1..Len(rules) + 1 /\ loaded \in Runtime /\ selected \in BOOLEAN
    /\ at \in {"idle", "enabled", "selector", "recheck", "load", "write", "claim", "apply"}
    /\ at \notin {"idle", "enabled"} => turn \in DOMAIN rules
    /\ at \in {"recheck", "load"} => RuleAt(turn) \in Counting \cup DynamicRule
    /\ at = "claim" => RuleAt(turn) \in Counting
    /\ at = "write" => RuleAt(turn) \in DynamicRule
    /\ at = "apply" => RuleAt(turn) \in StaticRule \cup MaskRule \cup ChecksumRule
    /\ applied \subseteq 1..turn - 1 /\ emitted \in [DOMAIN rules -> SUBSET Bit]
    /\ rewrites \in 0..MaxRewrites

\* What a rule may change in a frame.
Touched(r) ==
    IF r \in FieldRule THEN FieldMask(r.field) ELSE IF r \in MaskRule THEN r.mask ELSE ByteBits(r.target)

\* No rule has written there after rule i.
Kept(i, bits) == \A j \in applied : j > i => Touched(RuleAt(j)) \cap bits = {}

(* A signal reads what the last rule that wrote its field has put there, byte  *)
(* order and length as they may be (signal_codec.cpp:67 against                *)
(* mutation_engine.cpp:853, 907 and 1270).                                     *)
FieldsCarryTheirValues ==
    \A i \in applied : RuleAt(i) \in FieldRule /\ Kept(i, Touched(RuleAt(i))) =>
        /\ SignalFitsPayload(FrameBytes, RuleAt(i).field) /\ CanExtract(RuleAt(i).field)
        /\ ExtractRaw(data, RuleAt(i).field) = emitted[i]

(* A rule made of a physical value (mutation_engine.cpp:236) puts that value, clamped to  *)
(* what the field can hold, in front of whoever decodes the frame.              *)
PhysicalValuesReadBack ==
    \A i \in applied : RuleAt(i) \in StaticRule /\ Kept(i, Touched(RuleAt(i))) =>
        \A w \in Physical : RuleAt(i).raw = ConvertPhysicalToRaw(w, RuleAt(i).field) =>
            DecodeSignal(data, RuleAt(i).field) = ClampedWord(w, RuleAt(i).field)

(* The bits no rule has claimed go through, also under a rule that is          *)
(* disabled or gated while the frame is being changed.                          *)
OtherBitsPass ==
    \A b \in Bit : (\A i \in applied : b \notin Touched(RuleAt(i))) => (b \in data <=> b \in received)

\* The bits a checksum is about.
Covered(r) ==
    (UNION {ByteBits(i) : i \in r.first..r.last}) \cup (IF r \in CrcRule THEN ByteBits(r.counter) ELSE {})

(* A checksum is that of the payload that is forwarded: no rule but another     *)
(* checksum comes after it (mutation_engine.cpp:333, docs/RULES.md:253).        *)
ChecksumsHold ==
    \A i \in applied :
        /\ RuleAt(i) \in ChecksumRule
        /\ ByteBits(RuleAt(i).target) \cap Covered(RuleAt(i)) = {}
        /\ \A j \in applied : j > i /\ RuleAt(j) \in ChecksumRule =>
              ByteBits(RuleAt(j).target) \cap (Covered(RuleAt(i)) \cup ByteBits(RuleAt(i).target)) = {}
        => data \cap ByteBits(RuleAt(i).target) = {8 * RuleAt(i).target + k : k \in Checksum(RuleAt(i), data)}

(* "current_value is public runtime state and must always remain an index"      *)
(* (mutation_engine.cpp:1150).                                                  *)
SequencesStayInRange ==
    \A i \in DOMAIN rules : RuleAt(i) \in SequenceRule => runtimeValue[i] \in 0..Len(RuleAt(i).bytes) - 1

(* A frame takes from a counter or a sequence what follows the value the last   *)
(* frame took, or what a client has set since: "a concurrent API write before   *)
(* the CAS participates in this frame; one after the CAS remains intact for     *)
(* the following frame" (mutation_engine.cpp:1131).                             *)
NothingIsClaimedTwice ==
    [][at = "claim" /\ turn' # turn => loaded = owed[turn] /\ runtimeValue'[turn] = owed'[turn]]_rewriteVars
=============================================================================
