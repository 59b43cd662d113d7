--------------------------- MODULE PayloadEncoder ---------------------------
(***************************************************************************)
(* The bytes of an uplink (src/components/lorabridge/lorabridge.cpp, the   *)
(* uplink loop and the packing helpers): sensors as big-endian integers of *)
(* 1 to 4 bytes, binary sensors as bits, texts behind a length byte.       *)
(*                                                                         *)
(* A reading is the scaled and rounded state of a sensor, an integer, or   *)
(* NoReading when the state is not finite.  A text is the sequence of its  *)
(* characters.  Operators called ...Variant are slips one could make in    *)
(* the code; nothing uses them.                                            *)
(***************************************************************************)
EXTENDS Integers, Sequences

CONSTANT NoReading   \* the state of a sensor that is not finite (NaN)

ASSUME NoReadingAssumption == NoReading \notin Int

Byte == 0..255
Widths == 1..4       \* the bytes of a sensor, as the schema of payload allows

\* 256^k.
Unit(k) == <<1, 256, 65536, 16777216>>[k + 1]

-----------------------------------------------------------------------------
(* Sensors *)

EncMin(n) == (-128) * Unit(n - 1)
EncMax(n) == -(EncMin(n) + 1)

ClampedVariant(n, v) ==
  IF v < EncMin(n) THEN EncMin(n) ELSE IF v > EncMax(n) THEN EncMax(n) ELSE v
Clamped(n, v) ==
  IF v <= EncMin(n) THEN EncMin(n) + 1 ELSE IF v > EncMax(n) THEN EncMax(n) ELSE v

\* EncMin(n), the pattern 80 00.., says that there is no valid value.
Encoded(n, reading) ==
  IF reading = NoReading THEN EncMin(n) ELSE Clamped(n, reading)

\* The two's complement of v, most significant byte first.
BigEndian(n, v) == [b \in 1..n |-> (v \div Unit(n - b)) % 256]

-----------------------------------------------------------------------------
(* Binary sensors *)

BitmaskBytes(count) == (count + 7) \div 8

\* 1 << bit.
Bit(bit) == <<1, 2, 4, 8, 16, 32, 64, 128>>[bit + 1]

\* The first of the eight states of a byte is its lowest bit.
PackedBitsVariant(states) ==
  LET Part(i, bit) == IF 8 * (i - 1) + bit < Len(states)
                           /\ states[8 * (i - 1) + bit + 1]
                      THEN Bit(7 - bit) ELSE 0
  IN  [i \in 1..BitmaskBytes(Len(states)) |->
         Part(i, 0) + Part(i, 1) + Part(i, 2) + Part(i, 3)
         + Part(i, 4) + Part(i, 5) + Part(i, 6) + Part(i, 7)]
PackedBits(states) ==
  LET Part(i, bit) == IF 8 * (i - 1) + bit < Len(states)
                           /\ states[8 * (i - 1) + bit + 1]
                      THEN Bit(bit) ELSE 0
  IN  [i \in 1..BitmaskBytes(Len(states)) |->
         Part(i, 0) + Part(i, 1) + Part(i, 2) + Part(i, 3)
         + Part(i, 4) + Part(i, 5) + Part(i, 6) + Part(i, 7)]

-----------------------------------------------------------------------------
(* Texts *)

TextLength(text) == IF Len(text) > 255 THEN 255 ELSE Len(text)

PackedText(text) == <<TextLength(text)>> \o SubSeq(text, 1, TextLength(text))
=============================================================================
