--------------------------- MODULE PayloadDecoder ---------------------------
(***************************************************************************)
(* The uplink decoder that runs in The Things Network                      *)
(* (src/decoder/decode.js): it tries the known layouts in order, and takes *)
(* the first in which the texts end exactly where the payload ends.        *)
(*                                                                         *)
(* Left out: the divisors of the fields and the metadata about them.       *)
(* A payload is a sequence of bytes; positions in it start at 1.           *)
(* Operators called ...Variant are slips one could make in the code;       *)
(* nothing uses them.                                                      *)
(***************************************************************************)
EXTENDS Integers, Sequences, SequencesExt

-----------------------------------------------------------------------------
(* The layouts *)

Signed(name) == [name |-> name, width |-> 2, signed |-> TRUE]
Unsigned(name) == [name |-> name, width |-> 2, signed |-> FALSE]

\* A text of n characters c.  Its first character stands for all of them.
Word(c, n) == [i \in 1..n |-> c]

OffText == Word(79, 3)          \* "Off"
Off == Word(111, 3)             \* "off"
Bulk == Word(66, 4)
Absorption == Word(65, 10)
Float == Word(70, 5)

\* A bit with a label sets a text field to it; a plain one is on or off.
Plain(name) == [name |-> name, label |-> <<>>]
States(name) == [i \in 1..4 |->
  [name |-> name, label |-> <<Off, Bulk, Absorption, Float>>[i]]]

HomeSensors ==
  <<Signed("mpptPower"), Signed("mpptCurrent"), Signed("mpptYieldToday"),
    Signed("batteryVoltage"), Signed("batteryPower"), Signed("batteryCurrent"),
    Signed("batteryConsumedAh"), Unsigned("batteryStateOfCharge"),
    Unsigned("batteryTimeRemaining"), Signed("batteryTemperature")>>
BoatSensors == Append(HomeSensors, Signed("batteryStarterVoltage"))
BoatV2Sensors == BoatSensors \o
  <<Signed("fridgeTemperature"), Signed("salonTemperature"),
    Signed("engineTemperature")>>
BoatV3Sensors == Append(BoatV2Sensors,
  [name |-> "salonHumidity", width |-> 1, signed |-> FALSE])
BoatV4Sensors == BoatV3Sensors \o
  <<[name |-> "latitude", width |-> 4, signed |-> TRUE],
    [name |-> "longitude", width |-> 4, signed |-> TRUE]>>

HomeBinaries == <<Plain("batteryAlarm"), Plain("mpptFault"), Plain("mpptError")>>
BoatBinaries == Append(HomeBinaries, Plain("orionError"))
BoatV4Binaries == BoatBinaries \o States("mpptState") \o States("orionState")

BoatTexts == <<"batteryAlarmReason", "mpptState", "mpptErrorReason",
               "orionState", "orionErrorReason">>

Layout(name, sensors, binaries, texts) ==
  [name |-> name, sensors |-> sensors, binaries |-> binaries, texts |-> texts]

LAYOUTS ==
  <<Layout("boat-v4", BoatV4Sensors, BoatV4Binaries,
           <<"batteryAlarmReason", "mpptErrorReason", "orionErrorReason">>),
    Layout("boat-v3", BoatV3Sensors, BoatBinaries, BoatTexts),
    Layout("boat-v2", BoatV2Sensors, BoatBinaries, BoatTexts),
    Layout("boat", BoatSensors, BoatBinaries, BoatTexts),
    Layout("home", HomeSensors, HomeBinaries,
           <<"batteryAlarmReason", "mpptState", "mpptErrorReason">>)>>

\* The bytes before sensor n + 1.
SensorBytes(sensors, n) ==
  LET upTo[k \in 0..n] == IF k = 0 THEN 0 ELSE upTo[k - 1] + sensors[k].width
  IN  upTo[n]

\* The bytes before the texts.
FixedLength(layout) == SensorBytes(layout.sensors, Len(layout.sensors))
                       + (Len(layout.binaries) + 7) \div 8

-----------------------------------------------------------------------------
(* Fields *)

\* 256^k, the weight of a byte with k bytes behind it.
Weight(k) == <<1, 256, 65536, 16777216>>[k + 1]

\* The integer of width bytes from position i on, in two's complement if it
\* is signed: then the first byte counts -128..127.
readIntVariant(bytes, i, signed, width) ==
  LET first == IF signed /\ bytes[i] > 128 THEN bytes[i] - 256 ELSE bytes[i]
      Digit(b) == IF b < width THEN bytes[i + b] * Weight(width - 1 - b) ELSE 0
  IN  first * Weight(width - 1) + Digit(1) + Digit(2) + Digit(3)
readInt(bytes, i, signed, width) ==
  LET first == IF signed /\ bytes[i] >= 128 THEN bytes[i] - 256 ELSE bytes[i]
      Digit(b) == IF b < width THEN bytes[i + b] * Weight(width - 1 - b) ELSE 0
  IN  first * Weight(width - 1) + Digit(1) + Digit(2) + Digit(3)

\* 2^(8 width - 1) as the field reads it.
isInvalidSentinel(raw, signed, width) ==
  raw = (IF signed THEN -128 ELSE 128) * Weight(width - 1)

Infinite == 65535

\* The position after the text at i, or NoText if it runs past the end.
NoText == 0
readText(bytes, i) ==
  IF i \in 1..Len(bytes) /\ i + bytes[i] <= Len(bytes)
  THEN i + 1 + bytes[i] ELSE NoText

TextAtVariant(bytes, i) ==
  LET text == SubSeq(bytes, i + 1, i + bytes[i] - 1)
  IN  IF text = OffText THEN Off ELSE text
TextAt(bytes, i) ==
  LET text == SubSeq(bytes, i + 1, i + bytes[i])
  IN  IF text = OffText THEN Off ELSE text

-----------------------------------------------------------------------------
(* Payloads *)

\* Where text t + 1 starts, or where the payload has to end if t is the last.
TextStart(bytes, layout, t) ==
  LET start[k \in 0..t] ==
        IF k = 0 THEN FixedLength(layout) + 1 ELSE readText(bytes, start[k - 1])
  IN  start[t]

ParsesVariant(bytes, layout) ==
  /\ Len(bytes) >= FixedLength(layout) + Len(layout.texts)
  /\ TextStart(bytes, layout, Len(layout.texts)) # NoText
Parses(bytes, layout) ==
  /\ Len(bytes) >= FixedLength(layout) + Len(layout.texts)
  /\ TextStart(bytes, layout, Len(layout.texts)) = Len(bytes) + 1

SensorData(bytes, layout) ==
  LET raw == [s \in DOMAIN layout.sensors |->
                readInt(bytes, SensorBytes(layout.sensors, s - 1) + 1,
                        layout.sensors[s].signed, layout.sensors[s].width)]
      Omitted(s) ==
        \/ isInvalidSentinel(raw[s], layout.sensors[s].signed,
                             layout.sensors[s].width)
        \/ layout.sensors[s].name = "batteryTimeRemaining" /\ raw[s] = Infinite
      sent == {s \in DOMAIN layout.sensors : ~Omitted(s)}
  IN  [name \in {layout.sensors[s].name : s \in sent} |->
         raw[CHOOSE s \in sent : layout.sensors[s].name = name]]

\* (byte >> k) & 1.
BitAt(byte, k) == (byte \div <<1, 2, 4, 8, 16, 32, 64, 128>>[k + 1]) % 2

BinaryData(bytes, layout) ==
  LET mask == SensorBytes(layout.sensors, Len(layout.sensors)) + 1
      Set(b) == BitAt(bytes[mask + (b - 1) \div 8], (b - 1) % 8) = 1
      binary == layout.binaries
      given == {b \in DOMAIN binary : binary[b].label = <<>> \/ Set(b)}
      First(name) == CHOOSE b \in given :
        binary[b].name = name /\ \A c \in given : binary[c].name = name => b <= c
      Value(b) == IF binary[b].label # <<>> THEN binary[b].label
                  ELSE IF Set(b) THEN "on" ELSE "off"
  IN  [name \in {binary[b].name : b \in given} |-> Value(First(name))]

TextData(bytes, layout) ==
  [name \in Range(layout.texts) |->
     LET t == CHOOSE k \in DOMAIN layout.texts : layout.texts[k] = name
     IN  TextAt(bytes, TextStart(bytes, layout, t - 1))]

\* The values of new, and those of old that new has no value for.
Over(new, old) ==
  [name \in DOMAIN new \union DOMAIN old |->
     IF name \in DOMAIN new THEN new[name] ELSE old[name]]

\* The fields of a payload, without a position 0/0.
Fields(bytes, layout) ==
  LET data == Over(TextData(bytes, layout),
                   Over(BinaryData(bytes, layout), SensorData(bytes, layout)))
      position == {"latitude", "longitude"}
      nowhere == position \subseteq DOMAIN data /\ \A p \in position : data[p] = 0
  IN  IF nowhere THEN [f \in DOMAIN data \ position |-> data[f]] ELSE data

\* The number of the layout of a payload, or 0 if it is refused.
MinLength == 24
decodeUplink(bytes) ==
  LET fits == {l \in DOMAIN LAYOUTS : Parses(bytes, LAYOUTS[l])}
  IN  IF Len(bytes) < MinLength \/ fits = {} THEN 0
      ELSE CHOOSE l \in fits : \A m \in fits : l <= m
=============================================================================
