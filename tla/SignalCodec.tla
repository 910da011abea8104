----------------------------- MODULE SignalCodec -----------------------------
(***************************************************************************)
(* How a signal is read from a frame (src/core/signal_codec.cpp).  A payload  *)
(* is the set of its bits that are 1, bit 8 * i + k being bit k of byte i; a   *)
(* raw value, and a word of the processor, is the set of its bits that are 1.  *)
(* A word is as wide as a payload, as it is in the code: 64 bits.  Scaling to  *)
(* a physical value is left out: it is arithmetic on floats.                   *)
(***************************************************************************)
EXTENDS Integers

CONSTANT FrameBytes  \* 8 in the code

ASSUME CodecAssumption == FrameBytes \in Nat \ {0}

FrameBits == 8 * FrameBytes
Bit == 0..FrameBits - 1

\* start_bit, length, little_endian and is_signed of a signal definition or a rule.
Field == [start : Bit, length : 1..FrameBits, little : BOOLEAN, signed : BOOLEAN]

Turns(f) == 0..f.length - 1
-----------------------------------------------------------------------------
(* The path of a big-endian signal: to bit 0 of a byte, then to bit 7 of the    *)
(* next.                                                                        *)
NextMotorolaBit(b) == IF b % 8 = 0 THEN b + 15 ELSE b - 1

\* The place of a bit when every byte is read from bit 7 to bit 0, and the bit
\* at a place.
ReadingOrder(b) == 8 * (b \div 8) + (7 - (b % 8))

\* Where i rounds of nextMotorolaBit lead.
MotorolaBit(start, i) == ReadingOrder(ReadingOrder(start) + i)

\* The bit of the payload that round i of extractRaw reads, and the bit of the
\* raw value it becomes.
PathBit(f, i) == IF f.little THEN f.start + i ELSE MotorolaBit(f.start, i)
PathRaw(f, i) == IF f.little THEN i ELSE (f.length - 1) - i

SignalFitsPayload(dlc, f) ==
    /\ dlc \in 0..FrameBytes /\ f.length \in 1..FrameBits
    /\ IF f.little THEN f.start < 8 * dlc /\ f.start + f.length <= 8 * dlc
                   ELSE \A i \in Turns(f) : MotorolaBit(f.start, i) < 8 * dlc

\* Whether extractRaw returns true, and what it returns.
CanExtract(f) == f.length \in 1..FrameBits /\ \A i \in Turns(f) : PathBit(f, i) \in Bit
ExtractRaw(data, f) == {PathRaw(f, i) : i \in {j \in Turns(f) : PathBit(f, j) \in data}}

(* Defect: a value of one bit less than a word is taken for a word. *)
SignExtended_Narrow(raw, f) ==
    IF f.signed /\ f.length < FrameBits - 1 /\ f.length - 1 \in raw
    THEN raw \cup (f.length..FrameBits - 1) ELSE raw

SignExtended(raw, f) ==
    IF f.signed /\ f.length < FrameBits /\ f.length - 1 \in raw
    THEN raw \cup (f.length..FrameBits - 1) ELSE raw

\* decodeSignalRaw up to the integer it scales.
DecodeSignal(data, f) == SignExtended(ExtractRaw(data, f), f)
=============================================================================
