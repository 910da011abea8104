--------------------------- MODULE MCFrameRewrite ---------------------------
(* Frames of three bytes and groups of two or three rules in which fields,      *)
(* masks and checksums of either byte order meet.                               *)
EXTENDS FrameRewrite, FiniteSetsExt

Always == [source |-> "none", states |-> {}]
Gated == [source |-> "gear", states |-> {1}]

Little(start, length, signed) == [start |-> start, length |-> length, little |-> TRUE, signed |-> signed]
Big(start, length, signed) == [start |-> start, length |-> length, little |-> FALSE, signed |-> signed]

Static(gate, field, raw) ==
    [kind |-> "BIT_RANGE", dynamic |-> FALSE, gate |-> gate, field |-> field, raw |-> raw]
Dynamic(gate, field, initial, fed) ==
    [kind |-> "BIT_RANGE", dynamic |-> TRUE, gate |-> gate, field |-> field, initial |-> initial, fed |-> fed]
RawMask(mask, bits) == [kind |-> "RAW_MASK", gate |-> Always, mask |-> mask, bits |-> bits]
Counter(gate, field, step, wrapAfter) ==
    [kind |-> "COUNTER", gate |-> gate, field |-> field, initial |-> 0, step |-> step,
     wrapAfter |-> wrapAfter, wrapTo |-> 0]
Sequence8(gate, field, bytes) ==
    [kind |-> "SEQUENCE8", gate |-> gate, field |-> field, bytes |-> bytes, initial |-> 0]
Xor(target, first, last) ==
    [kind |-> "CHECKSUM_XOR", gate |-> Always, target |-> target, first |-> first, last |-> last, seed |-> {1, 4}]
Crc(gate, target, counter, first, last) ==
    [kind |-> "CHECKSUM_CRC8_AUTOSAR", gate |-> gate, target |-> target, counter |-> counter,
     first |-> first, last |-> last, ids |-> [nibble \in SUBSET (0..3) |-> nibble \cup {7}]]

\* Words at the ends of what a field of four, five or all bits can hold.
Words == {{}, {0}, 0..23, 1..23, {23}, 0..22, {4}, {3}, 4..23, 0..3}

LegacyField == {Little(6, 4, FALSE), Little(6, 4, TRUE), Big(2, 5, TRUE)}
Legacy == {<<Static(Always, f, ConvertPhysicalToRaw(w, f)), Xor(2, 0, 1)>> : f \in LegacyField, w \in Words}
WholeFrame ==
    {<<Static(Always, f, ConvertPhysicalToRaw(w, f))>> :
        f \in {Little(0, 24, FALSE), Little(0, 24, TRUE), Big(7, 24, TRUE), Big(7, 23, FALSE), Big(7, 23, TRUE)},
        w \in Words}

Bind == <<Dynamic(Gated, Big(2, 5, FALSE), 3, FALSE), Counter(Always, Little(4, 3, FALSE), 3, 6), Crc(Always, 2, 0, 0, 1)>>
Lap == <<Static(Always, Little(6, 4, FALSE), {0, 2}), Dynamic(Always, Big(8, 3, FALSE), 0, TRUE), RawMask(4..9, {5, 9, 12})>>
Ring == <<Sequence8(Gated, Big(9, 4, FALSE), <<9, 6, 255>>), Xor(2, 0, 1)>>
Chain == <<Counter(Gated, Big(1, 4, FALSE), 15, 15), Xor(1, 0, 0), Crc(Gated, 2, 1, 0, 1)>>
Overrun == <<Static(Always, Big(18, 4, FALSE), {1, 0})>>
Shuffled == <<Xor(2, 0, 1), Counter(Always, Little(0, 2, FALSE), 1, 3)>>

Packages == Legacy \cup WholeFrame \cup {<<>>, Bind, Lap, Ring, Chain, Overrun, Shuffled}
Gears == {NotASelector, 1}
Payloads == {{}, 0..23, {0, 3, 6, 9, 12, 15, 18, 21}}
-----------------------------------------------------------------------------
\* The integer a word stands for: two's complement.
Number(w) == MapThenSumSet(LAMBDA b : 2^b, w \ {FrameBits - 1}) - (IF Negative(w) THEN 2^(FrameBits - 1) ELSE 0)
Least(f) == IF f.signed THEN -(2^(f.length - 1)) ELSE 0
Greatest(f) == IF f.signed THEN 2^(f.length - 1) - 1
               ELSE IF f.length >= FrameBits - 1 THEN 2^(FrameBits - 1) - 1 ELSE 2^f.length - 1

\* Clamping on sets of bits is clamping of integers.
ASSUME ClampsIntegers ==
    \A f \in {Little(0, n, s) : n \in 1..FrameBits, s \in BOOLEAN}, w \in Words \cup {{b} : b \in Bit} :
        Number(ClampedWord(w, f)) =
            IF Number(w) < Least(f) THEN Least(f) ELSE IF Number(w) > Greatest(f) THEN Greatest(f) ELSE Number(w)

\* The closed form of a big-endian path is the path.
ASSUME PathIsWalked ==
    \A start \in Bit, i \in 0..FrameBits :
        /\ MotorolaBit(start, 0) = start
        /\ MotorolaBit(start, i + 1) = NextMotorolaBit(MotorolaBit(start, i))

\* "AUTOSAR Data-ID checksum matches independent vector": the first, second and
\* last of tests/mutation_pipeline_embedded.cpp:677, with their Data IDs (:765).
ByteOf(n) == {k \in 0..7 : (n \div 2^k) % 2 = 1}
Vector(payload, id) == Crc8([i \in 1..7 |-> ByteOf(payload[i])], 1, 7, ByteOf(id))
ASSUME VectorsMatch ==
    /\ Vector(<<0, 32, 48, 64, 80, 96, 112>>, 160) = ByteOf(1)
    /\ Vector(<<17, 34, 51, 68, 85, 102, 119>>, 161) = ByteOf(227)
    /\ Vector(<<255, 62, 93, 124, 155, 186, 217>>, 175) = ByteOf(204)
=============================================================================
