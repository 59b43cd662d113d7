---------------------------- MODULE UplinkProofs ----------------------------
(***************************************************************************)
(* What the LoRaWAN task reads arrives in the entities of the network      *)
(* server: the properties of UplinkPayload, for any readings, texts and    *)
(* binary sensors, any number of changes of the inputs and of rounds.      *)
(***************************************************************************)
EXTENDS UplinkPayload, PayloadProofs

-----------------------------------------------------------------------------
(* The inductive invariant *)

\* What the task has read so far has the shape the payload needs.
ReadOK ==
  /\ read \in [sensors : Seq(Int \union {NoReading}),
               binaries : Seq(BOOLEAN),
               texts : Seq(Texts \union {<<>>})]
  /\ task = "texts" => /\ Len(read.sensors) = Len(Built.sensors)
                       /\ read.binaries \in [DOMAIN Built.binaries -> BOOLEAN]

\* The payload has room for the sensors and the bits, and is not too long to be sent.
SizeOK ==
  /\ total_size >= FixedLength(Built)
  /\ task # "measure" => measured > 0 /\ total_size <= MaxPayload
  /\ measured > 0 => rounds < MaxRounds

\* The inductive invariant: the runs' type invariant, the two above, and an entity for
\* every field.
Inv == PayloadTypeOK /\ ReadOK /\ SizeOK /\ Names \subseteq DOMAIN entities

\* The layout the node is built for is one of the five.
LEMMA BuiltIs ==
  ASSUME device \in Devices
  PROVE  /\ device \in 1..5
         /\ Built.sensors \in Seq(Field) /\ Len(Built.sensors) = Counts[device]
         /\ DOMAIN Built.sensors = 1..Counts[device]
         /\ Counts[device] \in Nat
         /\ \A s \in 1..Counts[device] : s \in 1..17
         /\ \A s \in 1..Counts[device] : Built.sensors[s] = BoatV4Sensors[s]
         /\ DOMAIN Built.binaries = 1..BitCounts[device]
         /\ BitCounts[device] \in Nat
         /\ \A b \in 1..BitCounts[device] : Built.binaries[b] = BoatV4Binaries[b]
         /\ DOMAIN Built.texts = 1..TextCounts[device]
         /\ Len(Built.texts) = TextCounts[device]
         /\ TextCounts[device] \in Nat /\ TextCounts[device] > 0
         /\ FixedLength(Built) = FixedLengths[device] /\ FixedLengths[device] \in Nat
<1>1. device \in 1..5 BY DevicesAssumption, LayoutSensors
<1> DEFINE n == Counts[device]
<1>2. /\ Built.sensors \in Seq(Field) /\ Len(Built.sensors) = n
      /\ DOMAIN Built.sensors = 1..n /\ n \in 10..17
      /\ \A s \in 1..n : Built.sensors[s] = BoatV4Sensors[s]
  BY <1>1, LayoutSensors DEF Built
<1>3. /\ DOMAIN Built.binaries = 1..BitCounts[device] /\ BitCounts[device] \in 3..12
      /\ \A b \in 1..BitCounts[device] : Built.binaries[b] = BoatV4Binaries[b]
  BY <1>1, LayoutBits DEF Built
<1>4. /\ DOMAIN Built.texts = 1..TextCounts[device]
      /\ Len(Built.texts) = TextCounts[device] /\ TextCounts[device] \in 3..5
  BY <1>1, LayoutTexts DEF Built
<1>5. FixedLength(Built) = FixedLengths[device] /\ FixedLengths[device] \in 21..39
  BY <1>1, LayoutLengths DEF Built
<1>6. /\ \A c \in 10..17 : c \in Nat /\ \A s \in 1..c : s \in 1..17
      /\ \A c \in 3..12 : c \in Nat
      /\ \A c \in 3..5 : c \in Nat /\ c > 0
      /\ \A c \in 21..39 : c \in Nat
  OBVIOUS
<1> HIDE DEF n
<1>7. n \in Nat /\ \A s \in 1..n : s \in 1..17 BY <1>2, <1>6
<1> QED BY <1>1, <1>2, <1>3, <1>4, <1>5, <1>6, <1>7 DEF n

\* The names of the sensors of a layout.
LEMMA SensorNames ==
  ASSUME NEW d \in 1..5
  PROVE  {f.name : f \in Range(LAYOUTS[d].sensors)}
           = {BoatV4Sensors[s].name : s \in 1..Counts[d]}
<1> DEFINE q == LAYOUTS[d].sensors
           n == Counts[d]
<1>1. DOMAIN q = 1..n /\ \A s \in 1..n : q[s] = BoatV4Sensors[s] BY LayoutSensors
<1> HIDE DEF q, n
<1>2. Range(q) = {BoatV4Sensors[s] : s \in 1..n} BY <1>1 DEF Range
<1>3. {f.name : f \in Range(q)} = {BoatV4Sensors[s].name : s \in 1..n} BY <1>2
<1> QED BY <1>3 DEF q, n

\* Every field has an entity.
LEMMA AllNames ==
  /\ \A s \in 1..17 : BoatV4Sensors[s].name \in Names
  /\ \A d \in 1..5 : \A b \in 1..BitCounts[d] : BoatV4Binaries[b].name \in Names
  /\ \A d \in 1..5 : \A t \in 1..TextCounts[d] : LAYOUTS[d].texts[t] \in Names
<1>1. DOMAIN LAYOUTS = 1..5 BY LayoutSensors
<1>2. ASSUME NEW s \in 1..17 PROVE BoatV4Sensors[s].name \in Names
  <2>1. Counts[1] = 17 BY DEF Counts
  <2>2. BoatV4Sensors[s].name \in {f.name : f \in Range(LAYOUTS[1].sensors)}
    <3>1. 1 \in 1..5 OBVIOUS
    <3>2. {f.name : f \in Range(LAYOUTS[1].sensors)}
            = {BoatV4Sensors[t].name : t \in 1..Counts[1]}
      BY <3>1, SensorNames
    <3>3. s \in 1..Counts[1] BY <2>1
    <3> QED BY <3>2, <3>3
  <2>3. 1 \in DOMAIN LAYOUTS BY <1>1
  <2> QED BY <2>2, <2>3 DEF Names
<1>3. ASSUME NEW d \in 1..5, NEW b \in 1..BitCounts[d]
      PROVE  BoatV4Binaries[b].name \in Names
  <2>1. LAYOUTS[d].binaries[b] \in Range(LAYOUTS[d].binaries)
    BY LayoutBits DEF Range
  <2>2. BoatV4Binaries[b].name \in {e.name : e \in Range(LAYOUTS[d].binaries)}
    BY <2>1, LayoutBits
  <2> QED BY <1>1, <2>2 DEF Names
<1>4. ASSUME NEW d \in 1..5, NEW t \in 1..TextCounts[d]
      PROVE  LAYOUTS[d].texts[t] \in Names
  <2>1. LAYOUTS[d].texts[t] \in Range(LAYOUTS[d].texts) BY LayoutTexts DEF Range
  <2> QED BY <1>1, <2>1 DEF Names
<1> QED BY <1>2, <1>3, <1>4

\* Which entities there are after an uplink,
LEMMA OverIs ==
  ASSUME NEW new, NEW old
  PROVE  DOMAIN Over(new, old) = DOMAIN new \union DOMAIN old
BY DEF Over

\* and what they show.
LEMMA OverAt ==
  ASSUME NEW new, NEW old, NEW name
  PROVE  /\ name \in DOMAIN new => Over(new, old)[name] = new[name]
         /\ name \in DOMAIN old /\ name \notin DOMAIN new =>
              Over(new, old)[name] = old[name]
BY DEF Over

\* The decoder refuses a payload, or takes the first layout that it fits
\* (decodeUplink, decode.js:305).
LEMMA Decoded ==
  ASSUME NEW bytes, NEW d, d = decodeUplink(bytes)
  PROVE  /\ d \in 0..5
         /\ d # 0 => /\ Parses(bytes, LAYOUTS[d])
                     /\ \A m \in 1..5 : Parses(bytes, LAYOUTS[m]) => d <= m
         /\ d = 0 => \/ Len(bytes) < MinLength
                     \/ \A m \in 1..5 : ~Parses(bytes, LAYOUTS[m])
<1> DEFINE fits == {l \in 1..5 : Parses(bytes, LAYOUTS[l])}
           first == CHOOSE l \in fits : \A m \in fits : l <= m
<1>1. d = IF Len(bytes) < MinLength \/ fits = {} THEN 0 ELSE first
  BY LayoutSensors DEF decodeUplink
<1>2. ASSUME fits # {} PROVE first \in fits /\ \A m \in fits : first <= m
  <2>1. \E l \in fits : \A m \in fits : l <= m
    <3>1. CASE 1 \in fits BY <3>1
    <3>2. CASE 1 \notin fits /\ 2 \in fits BY <3>2
    <3>3. CASE 1 \notin fits /\ 2 \notin fits /\ 3 \in fits BY <3>3
    <3>4. CASE 1 \notin fits /\ 2 \notin fits /\ 3 \notin fits /\ 4 \in fits BY <3>4
    <3>5. CASE 1 \notin fits /\ 2 \notin fits /\ 3 \notin fits /\ 4 \notin fits
      BY <1>2, <3>5
    <3> QED BY <3>1, <3>2, <3>3, <3>4, <3>5
  <2> HIDE DEF fits
  <2> QED BY <2>1
<1> HIDE DEF first
<1>3. CASE Len(bytes) < MinLength \/ fits = {}
  <2>1. d = 0 BY <1>1, <1>3
  <2>2. Len(bytes) < MinLength \/ \A m \in 1..5 : ~Parses(bytes, LAYOUTS[m])
    BY <1>3
  <2> QED BY <2>1, <2>2
<1>4. CASE ~(Len(bytes) < MinLength \/ fits = {})
  <2>1. d \in fits /\ \A m \in fits : d <= m BY <1>1, <1>2, <1>4
  <2> QED BY <2>1
<1> QED BY <1>3, <1>4

\* A text is bytes, and its length a number.
LEMMA TextsAreBytes ==
  /\ \A text \in Texts \union {<<>>} : text \in Seq(Byte)
  /\ \A text \in Texts \union {<<>>} : TextLength(text) \in Nat
<1>1. ASSUME NEW text \in Texts \union {<<>>} PROVE text \in Seq(Byte)
  <2>1. CASE text \in Texts BY <2>1, TextsAssumption
  <2>2. CASE text = <<>> BY <2>2, EmptySeq
  <2> QED BY <2>1, <2>2
<1>2. ASSUME NEW text \in Texts \union {<<>>} PROVE TextLength(text) \in Nat
  <2>1. TextLength(text) \in 0..255 BY <1>1, TextBytes
  <2>2. \A c \in 0..255 : c \in Nat OBVIOUS
  <2> QED BY <2>1, <2>2
<1> QED BY <1>1, <1>2

\* What the entity of a number shows after an uplink that was decoded in any layout.
LEMMA FieldInRange ==
  ASSUME NEW bytes \in Seq(Byte), NEW d \in 1..5, Parses(bytes, LAYOUTS[d]),
         NEW s \in 1..17,
         BoatV4Sensors[s].name \in DOMAIN Fields(bytes, LAYOUTS[d])
  PROVE  Fields(bytes, LAYOUTS[d])[BoatV4Sensors[s].name]
           \in ValuesOf(BoatV4Sensors[s])
<1> DEFINE w == BoatV4Sensors[s].width
           n == Counts[d]
<1>1. /\ s <= n /\ ~LeftOut(bytes, s)
      /\ Fields(bytes, LAYOUTS[d])[BoatV4Sensors[s].name] = Raw(bytes, s)
  BY NumberFields, ZenonT(30)
<1>2. n \in 10..17 BY LayoutSensors
<1>3. Offset(s) <= Len(bytes)
  <2>1. /\ FixedLength(LAYOUTS[d]) = Offset(n) + BitmaskBytes(BitCounts[d])
        /\ FixedLength(LAYOUTS[d]) \in 21..39
    BY LayoutLengths
  <2>2. BitmaskBytes(BitCounts[d]) \in Nat
    <3>1. BitCounts[d] \in 3..12 BY LayoutBits
    <3> DEFINE c == BitCounts[d]
    <3>2. c \in 3..12 BY <3>1
    <3> HIDE DEF c
    <3>3. (c + 7) \div 8 \in Nat BY <3>2
    <3> QED BY <3>3 DEF BitmaskBytes, c
  <2>3. Len(bytes) >= FixedLength(LAYOUTS[d]) + Len(LAYOUTS[d].texts)
    BY DEF Parses
  <2>4. Len(LAYOUTS[d].texts) \in 3..5
    <3>1. Len(LAYOUTS[d].texts) = TextCounts[d] /\ TextCounts[d] \in 3..5
      BY LayoutTexts
    <3> QED BY <3>1
  <2>5. Offset(s) <= Offset(n) /\ Offset(s) \in Nat /\ Offset(n) \in Nat
    <3>1. \A k \in 10..17 : k \in 0..17 OBVIOUS
    <3>2. \A k \in 0..37 : k \in Nat OBVIOUS
    <3>3. n \in 0..17 BY <1>2, <3>1
    <3>5. s \in 0..n
      <4> HIDE DEF n
      <4> QED BY <1>1, <1>2
    <3>6. s \in 0..17 OBVIOUS
    <3> HIDE DEF n
    <3>4. Offset(s) \in Nat /\ Offset(n) \in Nat
      BY <3>2, <3>3, <3>6, OffsetSteps
    <3> QED BY <3>3, <3>4, <3>5, OffsetSteps
  <2> DEFINE o == Offset(s)
             on == Offset(n)
             mask == BitmaskBytes(BitCounts[d])
             fixed == FixedLength(LAYOUTS[d])
             tn == Len(LAYOUTS[d].texts)
             len == Len(bytes)
  <2>6. /\ fixed = on + mask /\ mask \in Nat /\ o <= on /\ o \in Nat /\ on \in Nat
        /\ len >= fixed + tn /\ tn \in 3..5 /\ len \in Nat
    BY <2>1, <2>2, <2>3, <2>4, <2>5, LenProperties
  <2> HIDE DEF o, on, mask, fixed, tn, len
  <2>7. o <= len BY <2>6
  <2> QED BY <2>7 DEF o, len
<1>4. /\ Raw(bytes, s) \in Int
      /\ BoatV4Sensors[s].signed =>
           EncMin(w) + 1 <= Raw(bytes, s) /\ Raw(bytes, s) <= EncMax(w)
      /\ ~BoatV4Sensors[s].signed => Raw(bytes, s) \in 0..256 * Unit(w - 1) - 1
  BY <1>1, <1>3, AnyNumber
<1>5. EncMin(w) \in Int /\ EncMax(w) \in Int
  <2>1. \A k \in Widths : EncMin(k) \in Int /\ EncMax(k) \in Int
    BY Ranges, SMT DEF Widths
  <2> QED BY <2>1, OffsetSteps
<1>6. CASE BoatV4Sensors[s].signed
  <2> DEFINE raw == Raw(bytes, s)
             low == EncMin(w)
             high == EncMax(w)
  <2>1. /\ raw \in Int /\ low \in Int /\ high \in Int
        /\ low + 1 <= raw /\ raw <= high
    BY <1>4, <1>5, <1>6
  <2> HIDE DEF raw, low, high
  <2>2. raw \in low + 1..high BY <2>1
  <2> QED BY <1>1, <1>6, <2>2 DEF ValuesOf, raw, low, high
<1>7. CASE ~BoatV4Sensors[s].signed
  <2>1. Raw(bytes, s) \in 0..256 * Unit(w - 1) - 1 BY <1>4, <1>7
  <2> QED BY <1>1, <1>7, <2>1 DEF ValuesOf
<1> QED BY <1>6, <1>7

\* What the task writes: readings, states and texts stand in it, as it read them.
IsWritten(q) ==
  /\ Starts(q, FixedLengths[device] + 1, read.texts)
  /\ Written \in Seq(Byte)
  /\ Len(Written) >= FixedLengths[device]
  /\ Len(Written) = q[Len(read.texts)] - 1
  /\ NumbersStand(Written, device, read.sensors)
  /\ BitsStand(Written, device, read.binaries)
  /\ TextsStand(Written, q, read.texts)

\* Readings, states and texts have been read, and are written whole.
LEMMA WrittenParts ==
  ASSUME Inv, Filled
  PROVE  /\ \E q : IsWritten(q)
         /\ read.texts \in Seq(Seq(Byte))
         /\ read.sensors \in Seq(Int \union {NoReading})
         /\ Len(read.sensors) = Counts[device]
         /\ read.binaries \in [1..BitCounts[device] -> BOOLEAN]
<1>1. /\ device \in 1..5 /\ FixedLength(Built) = FixedLengths[device]
      /\ Len(Built.sensors) = Counts[device]
      /\ DOMAIN Built.binaries = 1..BitCounts[device]
  BY BuiltIs DEF Inv, PayloadTypeOK
<1> DEFINE readings == read.sensors
           states == read.binaries
           words == read.texts
<1>2. /\ readings \in Seq(Int \union {NoReading}) /\ Len(readings) = Counts[device]
      /\ states \in [1..BitCounts[device] -> BOOLEAN]
  BY <1>1 DEF Inv, ReadOK, Filled
<1>3. words \in Seq(Seq(Byte))
  <2>1. words \in Seq(Texts \union {<<>>}) BY DEF Inv, ReadOK
  <2>2. Texts \union {<<>>} \subseteq Seq(Byte) BY TextsAreBytes
  <2> HIDE DEF words
  <2> QED BY <2>1, <2>2
<1>4. FixedLengths[device] + 1 \in Nat
  <2>1. FixedLengths[device] \in Nat BY BuiltIs DEF Inv, PayloadTypeOK
  <2> QED BY <2>1
<1>5. PICK q : Starts(q, FixedLengths[device] + 1, words)
  <2> HIDE DEF words
  <2> QED BY <1>3, <1>4, StartsExist
<1>6. Written = WrittenAs(LAYOUTS[device], readings, states, words)
  BY DEF Written, WrittenAs, Built
<1> HIDE DEF readings, states, words
<1>7. /\ Written \in Seq(Byte) /\ Len(Written) >= FixedLengths[device]
      /\ Len(Written) = q[Len(words)] - 1
      /\ NumbersStand(Written, device, readings)
      /\ BitsStand(Written, device, states)
      /\ TextsStand(Written, q, words)
  BY <1>1, <1>2, <1>3, <1>5, <1>6, WrittenBytes
<1>8. IsWritten(q) BY <1>5, <1>7 DEF IsWritten, readings, states, words
<1> QED BY <1>2, <1>3, <1>8 DEF readings, states, words

\* The payload, when it is filled: numbers and bits stand where the decoder looks for
\* them, whatever the texts are.
LEMMA FilledPayload ==
  ASSUME Inv, Filled
  PROVE  /\ Payload \in Seq(Byte) /\ Len(Payload) = total_size
         /\ NumbersStand(Payload, device, read.sensors)
         /\ BitsStand(Payload, device, read.binaries)
         /\ Written \in Seq(Byte)
         /\ Fits => Payload = Written
<1> DEFINE readings == read.sensors
           states == read.binaries
<1>1. /\ device \in 1..5 /\ FixedLength(Built) = FixedLengths[device]
  BY BuiltIs DEF Inv, PayloadTypeOK
<1>2. /\ readings \in Seq(Int \union {NoReading}) /\ Len(readings) = Counts[device]
      /\ states \in [1..BitCounts[device] -> BOOLEAN]
  BY WrittenParts
<1>7. /\ Written \in Seq(Byte) /\ Len(Written) >= FixedLengths[device]
      /\ NumbersStand(Written, device, readings)
      /\ BitsStand(Written, device, states)
  BY WrittenParts DEF IsWritten
<1> HIDE DEF readings, states
<1>8. total_size \in Nat /\ total_size >= FixedLengths[device]
  BY <1>1 DEF Inv, PayloadTypeOK, SizeOK
<1>9. /\ Payload \in Seq(Byte) /\ Len(Payload) = total_size
      /\ \A i \in 1..total_size : i <= Len(Written) => Payload[i] = Written[i]
      /\ Len(Written) = total_size => Payload = Written
  BY <1>7, <1>8, PayloadBytes DEF Payload
<1>10. \A i \in 1..FixedLengths[device] : Payload[i] = Written[i]
  <2>1. Len(Written) \in Nat /\ FixedLengths[device] \in Nat
    BY <1>7, LenProperties, BuiltIs DEF Inv, PayloadTypeOK
  <2> QED BY <1>7, <1>8, <1>9, <2>1
<1>11. /\ Offset(Counts[device]) + BitmaskBytes(BitCounts[device])
            = FixedLengths[device]
       /\ BitmaskBytes(BitCounts[device]) \in Nat
       /\ Offset(Counts[device]) \in Nat
  <2>1. BitCounts[device] \in Nat BY BuiltIs DEF Inv, PayloadTypeOK
  <2>2. BitmaskBytes(BitCounts[device]) \in Nat
    <3> DEFINE c == BitCounts[device]
    <3>1. c \in Nat BY <2>1
    <3> HIDE DEF c
    <3>2. (c + 7) \div 8 \in Nat BY <3>1
    <3> QED BY <3>2 DEF BitmaskBytes, c
  <2>3. Counts[device] \in 0..17
    <3>1. \A k \in 10..17 : k \in 0..17 OBVIOUS
    <3> QED BY <1>1, <3>1, LayoutSensors
  <2>4. \A k \in 0..37 : k \in Nat OBVIOUS
  <2> QED BY <1>1, <2>2, <2>3, <2>4, OffsetSteps, LayoutLengths
<1>12. NumbersStand(Payload, device, readings)
  <2> SUFFICES ASSUME NEW s \in 1..Counts[device],
                      NEW b \in 1..BoatV4Sensors[s].width
               PROVE  Payload[Offset(s - 1) + b] = Written[Offset(s - 1) + b]
    BY <1>7 DEF NumbersStand
  <2>1. Offset(s - 1) + b \in 1..Offset(Counts[device])
    BY <1>1, <1>2, NumbersWritten
  <2>2. Offset(s - 1) + b \in 1..FixedLengths[device]
    <3> DEFINE i == Offset(s - 1) + b
               o == Offset(Counts[device])
               mask == BitmaskBytes(BitCounts[device])
               fixed == FixedLengths[device]
    <3>1. i \in 1..o /\ o + mask = fixed /\ o \in Nat /\ mask \in Nat
      BY <1>11, <2>1
    <3> HIDE DEF i, o, mask, fixed
    <3>2. i \in 1..fixed BY <3>1
    <3> QED BY <3>2 DEF i, fixed
  <2> QED BY <1>10, <2>2
<1>13. BitsStand(Payload, device, states)
  <2> SUFFICES ASSUME NEW b \in 1..BitCounts[device]
               PROVE  Payload[Offset(Counts[device]) + 1 + (b - 1) \div 8]
                        = Written[Offset(Counts[device]) + 1 + (b - 1) \div 8]
    BY <1>7 DEF BitsStand
  <2>0. BitCounts[device] \in Nat BY BuiltIs DEF Inv, PayloadTypeOK
  <2>1. (b - 1) \div 8 + 1 \in 1..BitmaskBytes(BitCounts[device])
    BY <1>2, <2>0, BitsRoundTrip
  <2>2. Offset(Counts[device]) + 1 + (b - 1) \div 8 \in 1..FixedLengths[device]
    <3> DEFINE d == (b - 1) \div 8
               o == Offset(Counts[device])
               mask == BitmaskBytes(BitCounts[device])
               fixed == FixedLengths[device]
    <3>1. d + 1 \in 1..mask /\ o + mask = fixed /\ o \in Nat /\ mask \in Nat
      BY <1>11, <2>1
    <3>i. d \in Int
      <4>1. b \in Int OBVIOUS
      <4> QED BY <4>1
    <3> HIDE DEF d, o, mask, fixed
    <3>2. o + 1 + d \in 1..fixed BY <3>1, <3>i
    <3> QED BY <3>2 DEF d, o, fixed
  <2> QED BY <1>10, <2>2
<1>14. Fits => Payload = Written BY <1>9 DEF Fits
<1> QED BY <1>7, <1>9, <1>12, <1>13, <1>14 DEF readings, states

-----------------------------------------------------------------------------
(* Every step keeps the invariant                                          *)

\* It holds at first,
LEMMA InitInv == Init => Inv
<1> SUFFICES ASSUME Init PROVE Inv
  OBVIOUS
<1>0. device \in Devices BY DEF Init
<1>1. /\ device \in 1..5 /\ FixedLength(Built) \in Nat
      /\ Len(Built.sensors) \in Nat /\ Len(Built.texts) \in Nat
  BY <1>0, BuiltIs
<1>2. PayloadTypeOK
  <2>1. DOMAIN sensors = {f.name : f \in Range(Built.sensors)}
        /\ \A name \in DOMAIN sensors : sensors[name] = NoReading
    BY DEF Init, NoReadings, Built
  <2>2. binaries \in [DOMAIN Built.binaries -> BOOLEAN]
    BY DEF Init, AllOff, Built
  <2>3. texts \in [DOMAIN Built.texts -> Texts \union {<<>>}]
    BY DEF Init, NoTexts, Built
  <2>4. task = "measure" /\ measured = 0 /\ total_size \in Nat BY <1>1 DEF Init
  <2>5. read.sensors = <<>> /\ read.texts = <<>> BY DEF Init, Nothing
  <2>6. Len(read.sensors) = 0 /\ Len(read.texts) = 0 BY <2>5, EmptySeq
  <2>7. decodedAs \in 0..Len(LAYOUTS)
    <3>1. Len(LAYOUTS) = 5 /\ decodedAs \in 1..5 BY <1>1, LayoutSensors DEF Init
    <3> QED BY <3>1
  <2>8. changes \in 0..MaxChanges /\ rounds \in 0..MaxRounds
    BY BoundsAssumption DEF Init
  <2>9. ASSUME NEW f \in Range(BoatV4Sensors) PROVE entities[f.name] = Unknown
    <3>1. PICK s \in 1..17 : f = BoatV4Sensors[s]
      <4>1. DOMAIN BoatV4Sensors = 1..17 BY SensorLists, LenProperties
      <4> QED BY <4>1 DEF Range
    <3>2. f.name \in Names BY <3>1, AllNames
    <3> QED BY <3>2 DEF Init
  <2> QED BY <1>0, <1>1, <2>1, <2>2, <2>3, <2>4, <2>6, <2>7, <2>8, <2>9 DEF PayloadTypeOK
<1>3. ReadOK
  <2>1. /\ read.sensors = <<>> /\ read.binaries = <<>> /\ read.texts = <<>>
        /\ read = [sensors |-> <<>>, binaries |-> <<>>, texts |-> <<>>]
    BY DEF Init, Nothing
  <2>2. /\ <<>> \in Seq(Int \union {NoReading}) /\ <<>> \in Seq(Texts \union {<<>>})
        /\ <<>> \in Seq(BOOLEAN)
    BY EmptySeq
  <2> QED BY <2>1, <2>2 DEF ReadOK, Init
<1>4. SizeOK BY <1>1 DEF SizeOK, Init
<1>5. Names \subseteq DOMAIN entities BY DEF Init
<1> QED BY <1>2, <1>3, <1>4, <1>5 DEF Inv

\* when an input changes,
LEMMA ReportInv ==
  ASSUME Inv, Report
  PROVE  Inv'
<1>0. Change
  BY DEF Report, SensorReports, BinariesReport, TextReports
<1>1. /\ device' = device /\ task' = task /\ measured' = measured
      /\ total_size' = total_size /\ read' = read /\ entities' = entities
      /\ decodedAs' = decodedAs /\ rounds' = rounds
      /\ changes' \in 0..MaxChanges
  BY <1>0, BoundsAssumption DEF Change, payload, outputs, Inv, PayloadTypeOK
<1>2. Built' = Built BY <1>1 DEF Built
<1> DEFINE typed == /\ DOMAIN sensors' = DOMAIN sensors
                    /\ \A name \in DOMAIN sensors :
                         sensors'[name] = NoReading \/ sensors'[name] \in Int
                    /\ binaries' \in [DOMAIN Built.binaries -> BOOLEAN]
                    /\ texts' \in [DOMAIN Built.texts -> Texts \union {<<>>}]
<1>3. typed
  <2>0. /\ \A name \in DOMAIN sensors : sensors[name] = NoReading \/ sensors[name] \in Int
        /\ binaries \in [DOMAIN Built.binaries -> BOOLEAN]
        /\ texts \in [DOMAIN Built.texts -> Texts \union {<<>>}]
    BY DEF Inv, PayloadTypeOK
  <2>1. ASSUME NEW name \in DOMAIN Readings \intersect DOMAIN sensors, SensorReports(name)
        PROVE  typed
    <3>1. PICK v \in Readings[name] : sensors' = [sensors EXCEPT ![name] = v]
      BY <2>1 DEF SensorReports
    <3>2. v = NoReading \/ v \in Int BY ReadingsAssumption
    <3>3. binaries' = binaries /\ texts' = texts BY <2>1 DEF SensorReports
    <3> QED BY <2>0, <3>1, <3>2, <3>3
  <2>2. ASSUME NEW on \in BinarySets, BinariesReport(on)
        PROVE  typed
    <3>1. binaries' \in [DOMAIN Built.binaries -> BOOLEAN]
      BY <2>0, <2>2 DEF BinariesReport
    <3>2. sensors' = sensors /\ texts' = texts BY <2>2 DEF BinariesReport
    <3> QED BY <2>0, <3>1, <3>2
  <2>3. ASSUME NEW t \in DOMAIN texts, TextReports(t)
        PROVE  typed
    <3>1. PICK text \in Texts : texts' = [texts EXCEPT ![t] = text]
      BY <2>3 DEF TextReports
    <3>2. texts' \in [DOMAIN Built.texts -> Texts \union {<<>>}] BY <2>0, <3>1
    <3>3. sensors' = sensors /\ binaries' = binaries BY <2>3 DEF TextReports
    <3> QED BY <2>0, <3>2, <3>3
  <2> QED BY <2>1, <2>2, <2>3 DEF Report
<1>4. PayloadTypeOK' BY <1>1, <1>2, <1>3 DEF Inv, PayloadTypeOK
<1>5. ReadOK' BY <1>1, <1>2 DEF Inv, ReadOK
<1>6. SizeOK' BY <1>1, <1>2 DEF Inv, SizeOK
<1>7. (Names \subseteq DOMAIN entities)' BY <1>1 DEF Inv
<1> QED BY <1>4, <1>5, <1>6, <1>7 DEF Inv

\* The task knows as many texts as its layout has.
LEMMA TextsLength ==
  ASSUME PayloadTypeOK
  PROVE  Len(texts) = TextCounts[device] /\ Len(texts) = Len(Built.texts)
         /\ Len(texts) \in Nat /\ Len(texts) > 0
<1>1. /\ DOMAIN Built.texts = 1..TextCounts[device]
      /\ Len(Built.texts) = TextCounts[device]
      /\ TextCounts[device] \in Nat /\ TextCounts[device] > 0
  BY BuiltIs DEF PayloadTypeOK
<1> DEFINE n == TextCounts[device]
<1>2. texts \in [1..n -> Texts \union {<<>>}] BY <1>1 DEF PayloadTypeOK
<1>3. n \in Nat BY <1>1
<1>4. Len(texts) = n
  <2> HIDE DEF n
  <2> QED BY <1>2, <1>3, FunctionIsSeq
<1> QED BY <1>1, <1>4

\* The inputs and the outputs are as they were, or new ones of their types.
LEMMA StepTypes ==
  ASSUME PayloadTypeOK, device' = device,
         \/ UNCHANGED inputs
         \/ /\ sensors' = NoReadings(device) /\ binaries' = AllOff(device)
            /\ texts' = NoTexts(device)
  PROVE  /\ Built' = Built
         /\ DOMAIN sensors' = {f.name : f \in Range(Built.sensors)}
         /\ \A name \in DOMAIN sensors' : sensors'[name] = NoReading \/ sensors'[name] \in Int
         /\ binaries' \in [DOMAIN Built.binaries -> BOOLEAN]
         /\ texts' \in [DOMAIN Built.texts -> Texts \union {<<>>}]
<1>0. Built' = Built BY DEF Built
<1>1. CASE UNCHANGED inputs BY <1>0, <1>1 DEF inputs, PayloadTypeOK
<1>2. CASE /\ sensors' = NoReadings(device) /\ binaries' = AllOff(device)
           /\ texts' = NoTexts(device)
  <2>1. DOMAIN sensors' = {f.name : f \in Range(Built.sensors)}
        /\ \A name \in DOMAIN sensors' : sensors'[name] = NoReading
    BY <1>2 DEF NoReadings, Built
  <2>2. binaries' \in [DOMAIN Built.binaries -> BOOLEAN]
    BY <1>2 DEF AllOff, Built
  <2>3. texts' \in [DOMAIN Built.texts -> Texts \union {<<>>}]
    BY <1>2 DEF NoTexts, Built
  <2> QED BY <1>0, <2>1, <2>2, <2>3
<1> QED BY <1>1, <1>2

\* A step to the next round, whatever the entities show: they have their types.
LEMMA RoundInv ==
  ASSUME Inv, NextRound, measured > 0,
         \/ UNCHANGED inputs
         \/ /\ sensors' = NoReadings(device) /\ binaries' = AllOff(device)
            /\ texts' = NoTexts(device),
         decodedAs' \in 0..5, DOMAIN entities \subseteq DOMAIN entities',
         \A f \in Range(BoatV4Sensors) :
           entities'[f.name] = Unknown \/ entities'[f.name] \in ValuesOf(f)
  PROVE  Inv'
<1>1. /\ device' = device /\ task' = "measure" /\ measured' = 0
      /\ total_size' = FixedLength(Built) /\ read' = Nothing
      /\ rounds' = rounds + 1 /\ changes' = changes
  BY DEF NextRound
<1>t. PayloadTypeOK BY DEF Inv
<1>2. /\ Built' = Built
      /\ DOMAIN sensors' = {f.name : f \in Range(Built.sensors)}
      /\ \A name \in DOMAIN sensors' : sensors'[name] = NoReading \/ sensors'[name] \in Int
      /\ binaries' \in [DOMAIN Built.binaries -> BOOLEAN]
      /\ texts' \in [DOMAIN Built.texts -> Texts \union {<<>>}]
  BY <1>1, <1>t, StepTypes
<1>3. /\ FixedLength(Built) \in Nat
      /\ Len(Built.sensors) \in Nat /\ Len(Built.texts) \in Nat
  BY <1>t, BuiltIs DEF PayloadTypeOK
<1>4. rounds' \in 0..MaxRounds
  BY <1>1, BoundsAssumption DEF Inv, SizeOK, PayloadTypeOK
<1>5. /\ read'.sensors = <<>> /\ read'.binaries = <<>> /\ read'.texts = <<>>
      /\ read' = [sensors |-> <<>>, binaries |-> <<>>, texts |-> <<>>]
      /\ Len(read'.sensors) = 0 /\ Len(read'.texts) = 0
  BY <1>1, EmptySeq DEF Nothing
<1>6. decodedAs' \in 0..Len(LAYOUTS) BY LayoutSensors
<1>7. PayloadTypeOK'
  <2>1. device' \in Devices /\ changes' \in 0..MaxChanges BY <1>1, <1>t DEF PayloadTypeOK
  <2>2. /\ Len(read'.sensors) <= Len(Built.sensors)
        /\ Len(read'.texts) <= Len(Built.texts)
        /\ measured' \in 0..Len(Built.texts)
        /\ total_size' \in Nat
    BY <1>1, <1>3, <1>5
  <2> QED BY <1>1, <1>2, <1>4, <1>6, <2>1, <2>2 DEF PayloadTypeOK
<1>8. ReadOK'
  <2>1. /\ <<>> \in Seq(Int \union {NoReading}) /\ <<>> \in Seq(Texts \union {<<>>})
        /\ <<>> \in Seq(BOOLEAN)
    BY EmptySeq
  <2> QED BY <1>1, <1>5, <2>1 DEF ReadOK
<1>9. SizeOK' BY <1>1, <1>2, <1>3 DEF SizeOK
<1>10. (Names \subseteq DOMAIN entities)' BY DEF Inv
<1> QED BY <1>7, <1>8, <1>9, <1>10 DEF Inv

\* A step in which the task goes on, without an uplink: what it changes is as it
\* should be.
LEMMA TaskInv ==
  ASSUME Inv, device' = device, UNCHANGED <<inputs, outputs, changes, rounds>>,
         task' \in {"measure", "sensors", "texts"},
         measured' \in 0..Len(Built.texts), total_size' \in Nat,
         Len(read'.sensors) <= Len(Built.sensors),
         Len(read'.texts) <= Len(Built.texts),
         ReadOK', SizeOK'
  PROVE  Inv'
<1>1. Built' = Built BY DEF Built
<1>2. /\ sensors' = sensors /\ binaries' = binaries /\ texts' = texts
      /\ entities' = entities /\ decodedAs' = decodedAs
      /\ changes' = changes /\ rounds' = rounds
  BY DEF inputs, outputs
<1>3. PayloadTypeOK' BY <1>1, <1>2 DEF Inv, PayloadTypeOK
<1> QED BY <1>2, <1>3 DEF Inv

\* when the task adds a text to the size,
LEMMA MeasureInv ==
  ASSUME Inv, MeasureText
  PROVE  Inv'
<1>t. PayloadTypeOK /\ ReadOK /\ SizeOK BY DEF Inv
<1>1. /\ task = "measure" /\ measured < Len(texts) /\ rounds < MaxRounds
      /\ total_size' = total_size + 1 + TextLength(texts[measured + 1])
      /\ measured' = measured + 1
      /\ device' = device /\ task' = task /\ read' = read /\ rounds' = rounds
      /\ UNCHANGED <<inputs, outputs, changes, rounds>>
  BY DEF MeasureText
<1>2. /\ measured \in Nat /\ Len(texts) \in Nat
      /\ Len(texts) = Len(Built.texts) /\ Len(texts) = TextCounts[device]
      /\ total_size \in Nat
  <2>1. /\ Len(texts) \in Nat /\ Len(texts) = Len(Built.texts)
        /\ Len(texts) = TextCounts[device]
    BY <1>t, TextsLength
  <2>2. measured \in 0..Len(Built.texts) BY <1>t DEF PayloadTypeOK
  <2> QED BY <1>t, <2>1, <2>2 DEF PayloadTypeOK
<1>3. texts[measured + 1] \in Texts \union {<<>>}
  <2>1. /\ texts \in [1..Len(texts) -> Texts \union {<<>>}]
    BY <1>2, <1>t, BuiltIs DEF PayloadTypeOK
  <2>2. measured + 1 \in 1..Len(texts) BY <1>1, <1>2
  <2> QED BY <2>1, <2>2
<1>4. total_size' \in Nat /\ total_size' >= total_size
  <2>1. TextLength(texts[measured + 1]) \in Nat BY <1>3, TextsAreBytes
  <2> QED BY <1>1, <1>2, <2>1
<1>5. Built' = Built BY <1>1 DEF Built
<1>6. measured' \in 0..Len(Built.texts) BY <1>1, <1>2
<1>7. /\ Len(read'.sensors) <= Len(Built.sensors)
      /\ Len(read'.texts) <= Len(Built.texts)
  BY <1>1, <1>t DEF PayloadTypeOK
<1>8. ReadOK' BY <1>1, <1>5, <1>t DEF ReadOK
<1>9. SizeOK'
  <2>1. FixedLength(Built) \in Nat BY <1>t, BuiltIs DEF PayloadTypeOK
  <2>2. total_size' >= FixedLength(Built) BY <1>2, <1>4, <1>t, <2>1 DEF SizeOK
  <2> QED BY <1>1, <1>5, <2>2 DEF SizeOK
<1>10. task' \in {"measure", "sensors", "texts"} BY <1>1
<1> QED BY <1>1, <1>4, <1>6, <1>7, <1>8, <1>9, <1>10, TaskInv

\* when it skips an uplink that would be too long,
LEMMA SkipInv ==
  ASSUME Inv, SkipOversized
  PROVE  Inv'
<1>1. NextRound /\ measured = Len(texts) /\ UNCHANGED <<inputs, outputs>>
  BY DEF SkipOversized
<1>2. measured > 0 BY <1>1, TextsLength DEF Inv
<1>3. UNCHANGED inputs /\ entities' = entities /\ decodedAs' = decodedAs
  BY <1>1 DEF outputs
<1>4. decodedAs' \in 0..5 BY <1>3, LayoutSensors DEF Inv, PayloadTypeOK
<1>5. \A f \in Range(BoatV4Sensors) :
        entities'[f.name] = Unknown \/ entities'[f.name] \in ValuesOf(f)
  BY <1>3 DEF Inv, PayloadTypeOK
<1> QED BY <1>1, <1>2, <1>3, <1>4, <1>5, RoundInv

\* when it starts to fill the payload,
LEMMA StartInv ==
  ASSUME Inv, StartFilling
  PROVE  Inv'
<1>t. PayloadTypeOK /\ ReadOK /\ SizeOK BY DEF Inv
<1>1. /\ task = "measure" /\ measured = Len(texts) /\ total_size <= MaxPayload
      /\ task' = "sensors" /\ device' = device /\ measured' = measured
      /\ total_size' = total_size /\ read' = read /\ rounds' = rounds
      /\ UNCHANGED <<inputs, outputs, changes, rounds>>
  BY DEF StartFilling, payload
<1>2. measured > 0 BY <1>1, <1>t, TextsLength
<1>3. Built' = Built BY <1>1 DEF Built
<1>4. /\ measured' \in 0..Len(Built.texts) /\ total_size' \in Nat
      /\ Len(read'.sensors) <= Len(Built.sensors)
      /\ Len(read'.texts) <= Len(Built.texts)
  BY <1>1, <1>t DEF PayloadTypeOK
<1>5. ReadOK' BY <1>1, <1>3, <1>t DEF ReadOK
<1>6. SizeOK' BY <1>1, <1>2, <1>3, <1>t DEF SizeOK
<1>7. task' \in {"measure", "sensors", "texts"} BY <1>1
<1> QED BY <1>1, <1>4, <1>5, <1>6, <1>7, TaskInv

\* when it reads a sensor,
LEMMA ReadSensorInv ==
  ASSUME Inv, ReadSensor
  PROVE  Inv'
<1>t. PayloadTypeOK /\ ReadOK /\ SizeOK BY DEF Inv
<1> DEFINE so_far == read.sensors
           more == Append(so_far, sensors[Built.sensors[Len(so_far) + 1].name])
           n == Len(Built.sensors)
<1>1. /\ task = "sensors" /\ Len(so_far) < n
      /\ read' = [read EXCEPT !.sensors = more]
      /\ task' = "sensors" /\ device' = device /\ measured' = measured
      /\ total_size' = total_size /\ rounds' = rounds
      /\ UNCHANGED <<inputs, outputs, changes, rounds>>
  BY DEF ReadSensor, Read
<1>2. /\ so_far \in Seq(Int \union {NoReading})
      /\ read \in [sensors : Seq(Int \union {NoReading}),
                   binaries : Seq(BOOLEAN),
                   texts : Seq(Texts \union {<<>>})]
  BY <1>t DEF ReadOK
<1>3. n \in Nat /\ DOMAIN Built.sensors = 1..n /\ Len(so_far) \in Nat
  BY <1>2, <1>t, BuiltIs, LenProperties DEF PayloadTypeOK
<1> HIDE DEF n
<1>4. sensors[Built.sensors[Len(so_far) + 1].name] \in Int \union {NoReading}
  <2>1. Len(so_far) + 1 \in DOMAIN Built.sensors BY <1>1, <1>3
  <2>2. Built.sensors[Len(so_far) + 1] \in Range(Built.sensors)
    BY <2>1 DEF Range
  <2>3. Built.sensors[Len(so_far) + 1].name \in DOMAIN sensors
    BY <1>t, <2>2 DEF PayloadTypeOK
  <2> QED BY <1>t, <2>3 DEF PayloadTypeOK
<1>5. more \in Seq(Int \union {NoReading}) /\ Len(more) = Len(so_far) + 1
  <2> DEFINE e == sensors[Built.sensors[Len(so_far) + 1].name]
             S == Int \union {NoReading}
  <2>1. so_far \in Seq(S) /\ e \in S BY <1>2, <1>4
  <2> HIDE DEF so_far, e, S
  <2>2. Append(so_far, e) \in Seq(S) /\ Len(Append(so_far, e)) = Len(so_far) + 1
    BY <2>1, AppendProperties
  <2> QED BY <2>2 DEF so_far, e, S
<1> HIDE DEF more, so_far
<1>6. /\ read' \in [sensors : Seq(Int \union {NoReading}),
                    binaries : Seq(BOOLEAN),
                    texts : Seq(Texts \union {<<>>})]
      /\ read'.sensors = more /\ read'.texts = read.texts
  BY <1>1, <1>2, <1>5
<1>7. Built' = Built BY <1>1 DEF Built
<1>8. /\ Len(read'.sensors) <= Len(Built.sensors)
      /\ Len(read'.texts) <= Len(Built.texts)
  BY <1>1, <1>3, <1>5, <1>6, <1>t DEF PayloadTypeOK, n
<1>9. ReadOK' BY <1>1, <1>6, <1>7 DEF ReadOK
<1>10. SizeOK' BY <1>1, <1>7, <1>t DEF SizeOK
<1>11. measured' \in 0..Len(Built.texts) /\ total_size' \in Nat
  BY <1>1, <1>t DEF PayloadTypeOK
<1>12. task' \in {"measure", "sensors", "texts"} BY <1>1
<1> QED BY <1>1, <1>8, <1>9, <1>10, <1>11, <1>12, TaskInv

\* a binary sensor,
LEMMA ReadBinaryInv ==
  ASSUME Inv, ReadBinary
  PROVE  Inv'
<1>t. PayloadTypeOK /\ ReadOK /\ SizeOK BY DEF Inv
<1> DEFINE so_far == read.binaries
           more == Append(so_far, binaries[Len(so_far) + 1])
           n == BitCounts[device]
<1>1. /\ n \in Nat /\ DOMAIN Built.binaries = 1..n
      /\ binaries \in [1..n -> BOOLEAN]
  BY <1>t, BuiltIs DEF PayloadTypeOK
<1>2. binaries \in Seq(BOOLEAN) /\ Len(binaries) = n BY <1>1
<1>3. /\ task = "sensors" /\ Len(read.sensors) = Len(Built.sensors)
      /\ Len(so_far) < n
      /\ read' = [read EXCEPT !.binaries = more]
      /\ task' = IF Len(more) < n THEN "sensors" ELSE "texts"
      /\ device' = device /\ measured' = measured
      /\ total_size' = total_size /\ rounds' = rounds
      /\ UNCHANGED <<inputs, outputs, changes, rounds>>
  BY <1>2 DEF ReadBinary, Read
<1>4. read \in [sensors : Seq(Int \union {NoReading}), binaries : Seq(BOOLEAN),
                texts : Seq(Texts \union {<<>>})]
  BY <1>t DEF ReadOK
<1>5. so_far \in Seq(BOOLEAN) /\ Len(so_far) \in Nat BY <1>4, LenProperties
<1> HIDE DEF n
<1>6. binaries[Len(so_far) + 1] \in BOOLEAN BY <1>1, <1>3, <1>5
<1>7. more \in Seq(BOOLEAN) /\ Len(more) = Len(so_far) + 1
  <2> DEFINE e == binaries[Len(so_far) + 1]
  <2>1. so_far \in Seq(BOOLEAN) /\ e \in BOOLEAN BY <1>5, <1>6
  <2> HIDE DEF so_far, e
  <2>2. Append(so_far, e) \in Seq(BOOLEAN) /\ Len(Append(so_far, e)) = Len(so_far) + 1
    BY <2>1, AppendProperties
  <2> QED BY <2>2 DEF so_far, e
<1> HIDE DEF more, so_far
<1>8. /\ read' \in [sensors : Seq(Int \union {NoReading}), binaries : Seq(BOOLEAN),
                     texts : Seq(Texts \union {<<>>})]
      /\ read'.sensors = read.sensors /\ read'.texts = read.texts
      /\ read'.binaries = more
  BY <1>3, <1>4, <1>7
<1>9. Built' = Built BY <1>3 DEF Built
<1>10. /\ Len(read'.sensors) <= Len(Built.sensors)
       /\ Len(read'.texts) <= Len(Built.texts)
  BY <1>8, <1>t DEF PayloadTypeOK
<1>11. ReadOK'
  <2>1. ASSUME task' = "texts" PROVE more \in [1..n -> BOOLEAN]
    <3>1. Len(more) = n BY <2>1, <1>1, <1>3, <1>5, <1>7
    <3>2. more \in [1..Len(more) -> BOOLEAN] BY <1>7, LenProperties
    <3> QED BY <3>1, <3>2
  <2> QED BY <1>1, <1>3, <1>8, <1>9, <2>1 DEF ReadOK
<1>12. SizeOK' BY <1>3, <1>9, <1>t DEF SizeOK
<1>13. measured' \in 0..Len(Built.texts) /\ total_size' \in Nat
  BY <1>3, <1>t DEF PayloadTypeOK
<1>14. task' \in {"measure", "sensors", "texts"} BY <1>3
<1> QED BY <1>3, <1>10, <1>11, <1>12, <1>13, <1>14, TaskInv

\* a text,
LEMMA ReadTextInv ==
  ASSUME Inv, ReadText
  PROVE  Inv'
<1>t. PayloadTypeOK /\ ReadOK /\ SizeOK BY DEF Inv
<1> DEFINE so_far == read.texts
           more == Append(so_far, texts[Len(so_far) + 1])
           n == Len(texts)
<1>1. /\ task = "texts" /\ Len(so_far) < n
      /\ read' = [read EXCEPT !.texts = more]
      /\ task' = "texts" /\ device' = device /\ measured' = measured
      /\ total_size' = total_size /\ rounds' = rounds
      /\ UNCHANGED <<inputs, outputs, changes, rounds>>
  BY DEF ReadText, Read
<1>2. /\ so_far \in Seq(Texts \union {<<>>})
      /\ read \in [sensors : Seq(Int \union {NoReading}),
                   binaries : Seq(BOOLEAN),
                   texts : Seq(Texts \union {<<>>})]
      /\ Len(read.sensors) = Len(Built.sensors)
      /\ read.binaries \in [DOMAIN Built.binaries -> BOOLEAN]
  BY <1>1, <1>t DEF ReadOK
<1>3. n \in Nat /\ n = Len(Built.texts) /\ Len(so_far) \in Nat
      /\ texts \in [1..n -> Texts \union {<<>>}]
  BY <1>2, <1>t, BuiltIs, TextsLength, LenProperties DEF PayloadTypeOK
<1> HIDE DEF n
<1>4. texts[Len(so_far) + 1] \in Texts \union {<<>>}
  <2>1. Len(so_far) + 1 \in 1..n BY <1>1, <1>3
  <2> QED BY <1>3, <2>1
<1>5. more \in Seq(Texts \union {<<>>}) /\ Len(more) = Len(so_far) + 1
  <2> DEFINE e == texts[Len(so_far) + 1]
             S == Texts \union {<<>>}
  <2>1. so_far \in Seq(S) /\ e \in S BY <1>2, <1>4
  <2> HIDE DEF so_far, e, S
  <2>2. Append(so_far, e) \in Seq(S) /\ Len(Append(so_far, e)) = Len(so_far) + 1
    BY <2>1, AppendProperties
  <2> QED BY <2>2 DEF so_far, e, S
<1> HIDE DEF more, so_far
<1>6. /\ read' \in [sensors : Seq(Int \union {NoReading}),
                    binaries : Seq(BOOLEAN),
                    texts : Seq(Texts \union {<<>>})]
      /\ read'.sensors = read.sensors /\ read'.binaries = read.binaries
      /\ read'.texts = more
  BY <1>1, <1>2, <1>5
<1>7. Built' = Built BY <1>1 DEF Built
<1>8. /\ Len(read'.sensors) <= Len(Built.sensors)
      /\ Len(read'.texts) <= Len(Built.texts)
  BY <1>1, <1>3, <1>5, <1>6, <1>t DEF PayloadTypeOK
<1>9. ReadOK' BY <1>1, <1>2, <1>6, <1>7 DEF ReadOK
<1>10. SizeOK' BY <1>1, <1>7, <1>t DEF SizeOK
<1>11. measured' \in 0..Len(Built.texts) /\ total_size' \in Nat
  BY <1>1, <1>t DEF PayloadTypeOK
<1>12. task' \in {"measure", "sensors", "texts"} BY <1>1
<1> QED BY <1>1, <1>8, <1>9, <1>10, <1>11, <1>12, TaskInv

\* The end of a round without an uplink.
LEMMA LostInv ==
  ASSUME Inv, UplinkLost \/ Overrun
  PROVE  Inv'
<1>1. /\ Filled /\ NextRound
      /\ entities' = entities /\ decodedAs' = decodedAs
      /\ \/ UNCHANGED inputs
         \/ /\ sensors' = NoReadings(device) /\ binaries' = AllOff(device)
            /\ texts' = NoTexts(device)
  BY DEF UplinkLost, Overrun, outputs
<1>2. measured > 0 BY <1>1 DEF Filled, Inv, SizeOK
<1>3. decodedAs' \in 0..5 BY <1>1, LayoutSensors DEF Inv, PayloadTypeOK
<1>4. \A f \in Range(BoatV4Sensors) :
        entities'[f.name] = Unknown \/ entities'[f.name] \in ValuesOf(f)
  BY <1>1 DEF Inv, PayloadTypeOK
<1> QED BY <1>1, <1>2, <1>3, <1>4, RoundInv

\* The entity of a number after an uplink.
LEMMA ShownInRange ==
  ASSUME NEW bytes \in Seq(Byte), NEW d, d = decodeUplink(bytes), NEW old, NEW new,
         new = IF d = 0 THEN old ELSE Over(Fields(bytes, LAYOUTS[d]), old),
         NEW s \in 1..17, BoatV4Sensors[s].name \in DOMAIN old,
         \/ old[BoatV4Sensors[s].name] = Unknown
         \/ old[BoatV4Sensors[s].name] \in ValuesOf(BoatV4Sensors[s])
  PROVE  \/ new[BoatV4Sensors[s].name] = Unknown
         \/ new[BoatV4Sensors[s].name] \in ValuesOf(BoatV4Sensors[s])
<1> DEFINE name == BoatV4Sensors[s].name
           fields == Fields(bytes, LAYOUTS[d])
<1>1. CASE d = 0 BY <1>1
<1>2. CASE d # 0
  <2>1. d \in 1..5 /\ Parses(bytes, LAYOUTS[d])
    <3>1. d \in 0..5 /\ Parses(bytes, LAYOUTS[d]) BY <1>2, Decoded
    <3> QED BY <1>2, <3>1
  <2>2. name \in DOMAIN fields => fields[name] \in ValuesOf(BoatV4Sensors[s])
    BY <2>1, FieldInRange
  <2>3. new = Over(fields, old) BY <1>2
  <2>4. name \in DOMAIN old OBVIOUS
  <2> HIDE DEF name, fields
  <2>5. \/ name \in DOMAIN fields /\ new[name] = fields[name]
        \/ new[name] = old[name]
    BY <2>3, <2>4, OverAt
  <2> QED BY <2>2, <2>5 DEF name
<1> QED BY <1>1, <1>2

\* and when the uplink arrives.
LEMMA ArrivesInv ==
  ASSUME Inv, UplinkArrives
  PROVE  Inv'
<1>1. /\ Filled /\ NextRound /\ UNCHANGED inputs
      /\ decodedAs' = decodeUplink(Payload)
      /\ entities' = IF decodedAs' = 0 THEN entities
                     ELSE Over(Fields(Payload, LAYOUTS[decodedAs']), entities)
  BY DEF UplinkArrives
<1>2. measured > 0 BY <1>1 DEF Filled, Inv, SizeOK
<1> DEFINE d == decodedAs'
<1>3. d \in 0..5 /\ (d # 0 => Parses(Payload, LAYOUTS[d]))
  BY <1>1, Decoded
<1>4. Payload \in Seq(Byte) BY <1>1, FilledPayload
<1>5. DOMAIN entities \subseteq DOMAIN entities' BY <1>1, OverIs
<1>6. ASSUME NEW f \in Range(BoatV4Sensors)
      PROVE  entities'[f.name] = Unknown \/ entities'[f.name] \in ValuesOf(f)
  <2>0. entities[f.name] = Unknown \/ entities[f.name] \in ValuesOf(f)
    BY DEF Inv, PayloadTypeOK
  <2>1. PICK s \in 1..17 : f = BoatV4Sensors[s]
    <3>1. DOMAIN BoatV4Sensors = 1..17 BY SensorLists, LenProperties
    <3> QED BY <3>1 DEF Range
  <2>2. f.name \in DOMAIN entities BY <2>1, AllNames DEF Inv
  <2> QED BY <1>1, <1>4, <2>0, <2>1, <2>2, ShownInRange
<1> QED BY <1>1, <1>2, <1>3, <1>5, <1>6, RoundInv

\* Every step keeps it.
LEMMA InductiveInv == Inv /\ [Next]_vars => Inv'
<1> SUFFICES ASSUME Inv, [Next]_vars PROVE Inv'
  OBVIOUS
<1>1. CASE Report BY <1>1, ReportInv
<1>2. CASE MeasureText BY <1>2, MeasureInv
<1>3. CASE SkipOversized BY <1>3, SkipInv
<1>4. CASE StartFilling BY <1>4, StartInv
<1>5. CASE ReadSensor BY <1>5, ReadSensorInv
<1>6. CASE ReadBinary BY <1>6, ReadBinaryInv
<1>7. CASE ReadText BY <1>7, ReadTextInv
<1>8. CASE UplinkLost \/ Overrun BY <1>8, LostInv
<1>9. CASE UplinkArrives BY <1>9, ArrivesInv
<1>10. CASE UNCHANGED vars
  <2>1. /\ device' = device /\ sensors' = sensors /\ binaries' = binaries
        /\ texts' = texts /\ task' = task /\ measured' = measured
        /\ total_size' = total_size /\ read' = read /\ entities' = entities
        /\ decodedAs' = decodedAs /\ changes' = changes /\ rounds' = rounds
    BY <1>10 DEF vars, inputs, payload, outputs
  <2>2. Built' = Built BY <2>1 DEF Built
  <2>3. PayloadTypeOK' BY <2>1, <2>2 DEF Inv, PayloadTypeOK
  <2>4. ReadOK' BY <2>1, <2>2 DEF Inv, ReadOK
  <2>5. SizeOK' BY <2>1, <2>2 DEF Inv, SizeOK
  <2> QED BY <2>1, <2>3, <2>4, <2>5 DEF Inv
<1> QED BY <1>1, <1>2, <1>3, <1>4, <1>5, <1>6, <1>7, <1>8, <1>9, <1>10 DEF Next, Uplink

\* The inductive invariant holds: what the payload is filled with has its layout's shape,
\* and its size stays within the uplink (uplink loop, lorabridge.cpp:268-318).
THEOREM Invariant == Spec => []Inv
BY InitInv, InductiveInv, PTL DEF Spec

\* Every variable has its type; in particular no entity shows a number that its field
\* cannot carry, whatever arrives (readInt, decode.js:206).
THEOREM TypeCorrect == Spec => []PayloadTypeOK
<1>1. Inv => PayloadTypeOK BY DEF Inv
<1> QED BY <1>1, Invariant, PTL

-----------------------------------------------------------------------------
(* Readings and states arrive                                              *)

\* Reading(name) is what the task read of the sensor of that name.
LEMMA ReadingIs ==
  ASSUME Inv, task = "texts", NEW s \in 1..Counts[device]
  PROVE  /\ Reading(BoatV4Sensors[s].name) = read.sensors[s]
         /\ read.sensors[s] \in Int \union {NoReading}
<1> DEFINE n == Counts[device]
           name == BoatV4Sensors[s].name
           readings == read.sensors
<1>1. /\ n \in Nat /\ \A k \in 1..n : k \in 1..17
      /\ \A k \in 1..n : Built.sensors[k] = BoatV4Sensors[k]
      /\ Len(Built.sensors) = n
  BY BuiltIs DEF Inv, PayloadTypeOK
<1>2. readings \in Seq(Int \union {NoReading}) /\ Len(readings) = n
  BY <1>1 DEF Inv, ReadOK
<1>3. DOMAIN readings = 1..n
  <2> HIDE DEF readings, n
  <2> QED BY <1>2, LenProperties
<1>4. \A k \in 1..n : Built.sensors[k].name = name <=> k = s
  <2>1. ASSUME NEW k \in 1..n PROVE Built.sensors[k].name = name <=> k = s
    <3>1. k \in 1..17 /\ s \in 1..17 BY <1>1
    <3>2. Built.sensors[k].name = BoatV4Sensors[k].name BY <1>1
    <3> HIDE DEF n
    <3> QED BY <3>1, <3>2, Numbers
  <2> QED BY <2>1
<1>5. (CHOOSE k \in DOMAIN readings : Built.sensors[k].name = name) = s
  <2> HIDE DEF readings, n, name
  <2>1. s \in DOMAIN readings BY <1>3 DEF n
  <2> QED BY <1>3, <1>4, <2>1
<1>6. readings[s] \in Int \union {NoReading}
  <2>1. s \in DOMAIN readings BY <1>3
  <2> HIDE DEF readings, n
  <2> QED BY <1>2, <1>3, <2>1, ElementOfSeq
<1> QED BY <1>5, <1>6 DEF Reading

\* The end of the range of a field that a reading is beyond.
LEMMA SaturatedIs ==
  ASSUME NEW s \in 1..17, NEW v \in Int
  PROVE  Saturated(BoatV4Sensors[s], v) = Clamped(BoatV4Sensors[s].width, v)
<1> DEFINE w == BoatV4Sensors[s].width
           low == EncMin(w)
           high == EncMax(w)
           inner == Min({v, high})
<1>1. low \in Int /\ high \in Int /\ low + 1 <= high
  <2>1. \A k \in Widths : /\ EncMin(k) \in Int /\ EncMax(k) \in Int
                          /\ EncMin(k) + 1 <= EncMax(k)
    BY Ranges, SMT DEF Widths
  <2> QED BY <2>1, OffsetSteps
<1>2. /\ Saturated(BoatV4Sensors[s], v) = Max({low + 1, inner})
      /\ Clamped(w, v) = IF v <= low THEN low + 1 ELSE IF v > high THEN high ELSE v
  BY DEF Saturated, Clamped
<1> HIDE DEF w, low, high
<1>3. inner = IF v > high THEN high ELSE v
  BY <1>1 DEF Min
<1> DEFINE outer == IF inner >= low + 1 THEN inner ELSE low + 1
<1>4. inner \in Int BY <1>1, <1>3
<1> HIDE DEF inner
<1>5. Max({low + 1, inner}) = outer
  BY <1>1, <1>4 DEF Max
<1>6. outer = IF v <= low THEN low + 1 ELSE IF v > high THEN high ELSE v
  BY <1>1, <1>3, <1>4
<1> QED BY <1>2, <1>5, <1>6 DEF w

\* 0 is sent as it is, and nothing else as 0.
LEMMA ZeroKept ==
  ASSUME NEW w \in Widths, NEW v \in Int
  PROVE  Clamped(w, v) = 0 <=> v = 0
<1>1. EncMin(w) \in Int /\ EncMax(w) \in Int /\ EncMin(w) + 1 < 0 /\ EncMax(w) > 0
  BY Ranges, SMT DEF Widths
<1> QED BY <1>1 DEF Clamped

\* What an entity of a number shows after an uplink in the layout the firmware is
\* built for.
NumberIsShown(new, old, readings, n, s) ==
  LET name == BoatV4Sensors[s].name
      v == readings[s]
      nowhere == n = 17 /\ readings[16] = 0 /\ readings[17] = 0
  IN  IF v = NoReading \/ (nowhere /\ s >= 16)
      THEN new[name] = old[name]
      ELSE BoatV4Sensors[s].signed \/ v >= 0 =>
             new[name] = Clamped(BoatV4Sensors[s].width, v)

\* That is what it shows, in each layout (tryParse, decode.js:247-326).
LEMMA NumberShown ==
  ASSUME NEW bytes, NEW l \in 1..5, NEW readings, NumbersStand(bytes, l, readings),
         \A s \in 1..Counts[l] : readings[s] \in Int \union {NoReading},
         NEW old, NEW new, new = Over(Fields(bytes, LAYOUTS[l]), old),
         NEW s \in 1..Counts[l], BoatV4Sensors[s].name \in DOMAIN old
  PROVE  NumberIsShown(new, old, readings, Counts[l], s)
<1> DEFINE n == Counts[l]
           name == BoatV4Sensors[s].name
           v == readings[s]
           nowhere == n = 17 /\ readings[16] = 0 /\ readings[17] = 0
           fields == Fields(bytes, LAYOUTS[l])
           zero == /\ n = 17
                   /\ ~LeftOut(bytes, 16) /\ Raw(bytes, 16) = 0
                   /\ ~LeftOut(bytes, 17) /\ Raw(bytes, 17) = 0
           ok(k) == BoatV4Sensors[k].signed \/ readings[k] = NoReading \/ readings[k] >= 0
<1>1. n \in 10..17 /\ s \in 1..17
  <2>1. n \in 10..17 BY LayoutSensors
  <2>2. s \in 1..n OBVIOUS
  <2> HIDE DEF n
  <2> QED BY <2>1, <2>2
<1>2. ASSUME NEW k \in 1..n, ok(k)
      PROVE  /\ LeftOut(bytes, k) <=> readings[k] = NoReading
             /\ readings[k] # NoReading =>
                  Raw(bytes, k) = Clamped(BoatV4Sensors[k].width, readings[k])
  <2>1. k \in 1..17
    <3> HIDE DEF n
    <3> QED BY <1>1
  <2>2. \A b \in 1..BoatV4Sensors[k].width :
          bytes[Offset(k - 1) + b]
            = BigEndian(BoatV4Sensors[k].width,
                        Encoded(BoatV4Sensors[k].width, readings[k]))[b]
    BY DEF NumbersStand
  <2>3. readings[k] \in Int \union {NoReading} OBVIOUS
  <2> QED BY <1>2, <2>1, <2>2, <2>3, NumberRead
<1>3. zero <=> nowhere
  <2>1. CASE n = 17
    <3>1. 16 \in 1..n /\ 17 \in 1..n BY <2>1
    <3>2. ok(16) /\ ok(17) BY Numbers
    <3>3. BoatV4Sensors[16].width \in Widths /\ BoatV4Sensors[17].width \in Widths
      BY OffsetSteps
    <3>4. ASSUME NEW k \in {16, 17}
          PROVE  ~LeftOut(bytes, k) /\ Raw(bytes, k) = 0 <=> readings[k] = 0
      <4>1. /\ k \in 1..n /\ ok(k) /\ BoatV4Sensors[k].width \in Widths
            /\ readings[k] \in Int \union {NoReading}
        BY <3>1, <3>2, <3>3
      <4>2. /\ LeftOut(bytes, k) <=> readings[k] = NoReading
            /\ readings[k] # NoReading =>
                 Raw(bytes, k) = Clamped(BoatV4Sensors[k].width, readings[k])
        BY <1>2, <4>1
      <4>3. NoReading # 0 BY NoReadingAssumption
      <4> QED BY <4>1, <4>2, <4>3, ZeroKept
    <3> QED BY <2>1, <3>4
  <2>2. CASE n # 17 BY <2>2
  <2> QED BY <2>1, <2>2
<1>4. /\ name \in DOMAIN fields
           <=> s <= n /\ ~LeftOut(bytes, s) /\ ~(zero /\ s >= 16)
      /\ name \in DOMAIN fields => fields[name] = Raw(bytes, s)
  BY <1>1, NumberFields
<1>5. s <= n BY <1>1
<1> HIDE DEF zero, nowhere, fields, name, n, v
<1>6. /\ name \in DOMAIN fields => new[name] = fields[name]
      /\ name \notin DOMAIN fields => new[name] = old[name]
  <2>1. new = Over(fields, old) /\ name \in DOMAIN old BY DEF fields, name
  <2> QED BY <2>1, OverAt
<1>7. ASSUME v = NoReading PROVE new[name] = old[name]
  <2>1. ok(s) /\ s \in 1..n BY <1>7 DEF v, n
  <2>2. LeftOut(bytes, s) BY <1>2, <1>7, <2>1 DEF v
  <2> QED BY <1>4, <1>6, <1>7, <2>2 DEF name, v
<1>8. ASSUME nowhere /\ s >= 16 PROVE new[name] = old[name]
  BY <1>3, <1>4, <1>6, <1>8 DEF name, nowhere, n
<1>9. ASSUME ~(v = NoReading \/ (nowhere /\ s >= 16)),
             BoatV4Sensors[s].signed \/ v >= 0
      PROVE  new[name] = Clamped(BoatV4Sensors[s].width, v)
  <2>1. ok(s) /\ s \in 1..n BY <1>9 DEF v, n
  <2>2. /\ ~LeftOut(bytes, s)
        /\ Raw(bytes, s) = Clamped(BoatV4Sensors[s].width, v)
    BY <1>2, <1>9, <2>1 DEF v
  <2> QED BY <1>3, <1>4, <1>5, <1>6, <1>9, <2>2
<1>10. IF v = NoReading \/ (nowhere /\ s >= 16)
       THEN new[name] = old[name]
       ELSE BoatV4Sensors[s].signed \/ v >= 0 =>
              new[name] = Clamped(BoatV4Sensors[s].width, v)
  BY <1>7, <1>8, <1>9
<1> QED BY <1>10 DEF NumberIsShown, n, v, nowhere, name

\* The fields of the layout, and which layouts have a position.
LEMMA BuiltNames ==
  ASSUME PayloadTypeOK
  PROVE  /\ \A field \in Range(Built.sensors) :
              \E s \in 1..Counts[device] : field = BoatV4Sensors[s]
         /\ Carries("latitude") <=> Counts[device] = 17
<1> DEFINE n == Counts[device]
<1>1. /\ DOMAIN Built.sensors = 1..n /\ n \in Nat
      /\ \A s \in 1..n : s \in 1..17
      /\ \A s \in 1..n : Built.sensors[s] = BoatV4Sensors[s]
  BY BuiltIs DEF PayloadTypeOK
<1>2. n \in 10..17 BY BuiltIs, LayoutSensors DEF PayloadTypeOK
<1> HIDE DEF n
<1>3. \A field \in Range(Built.sensors) : \E s \in 1..n : field = BoatV4Sensors[s]
  BY <1>1 DEF Range
<1>4. \A s \in 1..n : BoatV4Sensors[s] \in Range(Built.sensors)
  BY <1>1 DEF Range
<1>5. ASSUME Carries("latitude") PROVE n = 17
  <2>1. PICK f \in Range(Built.sensors) : f.name = "latitude" BY <1>5 DEF Carries
  <2>2. PICK s \in 1..n : f = BoatV4Sensors[s] BY <1>3
  <2>3. s \in 1..17 BY <1>1
  <2>4. s = 16 BY <2>1, <2>2, <2>3, Numbers
  <2>5. n >= 16 /\ n <= 17 BY <1>2, <2>4
  <2>6. n # 16
    <3>1. Counts[device] = n BY DEF n
    <3>2. device \in {1, 2, 3, 4, 5}
      <4>1. device \in 1..5 BY BuiltIs DEF PayloadTypeOK
      <4> QED BY <4>1
    <3> QED BY <3>1, <3>2 DEF Counts
  <2> QED BY <1>2, <2>5, <2>6
<1>6. ASSUME n = 17 PROVE Carries("latitude")
  <2>1. 16 \in 1..n /\ 16 \in 1..17 BY <1>6
  <2>2. BoatV4Sensors[16] \in Range(Built.sensors) BY <1>4, <2>1
  <2>3. BoatV4Sensors[16].name = "latitude" BY <2>1, Numbers
  <2> QED BY <2>2, <2>3 DEF Carries
<1> QED BY <1>3, <1>5, <1>6 DEF n

\* The step of ReadingsArrive,
ReadingsStep ==
  UplinkArrives /\ decodedAs' = device =>
    \A field \in Range(Built.sensors) :
      LET v == Reading(field.name)
          kept == v = NoReading \/ (Nowhere /\ field.name \in Position)
      IN  IF kept THEN entities'[field.name] = entities[field.name]
          ELSE field.signed \/ v >= 0 =>
                 entities'[field.name] = Saturated(field, v)

\* An uplink that is decoded in the layout it was written in.
LEMMA ArrivesInOwn ==
  ASSUME Inv, UplinkArrives, decodedAs' = device
  PROVE  /\ Filled /\ device \in 1..5
         /\ entities' = Over(Fields(Payload, LAYOUTS[device]), entities)
<1>1. device \in 1..5 BY BuiltIs DEF Inv, PayloadTypeOK
<1>2. device # 0 BY <1>1
<1> QED BY <1>1, <1>2 DEF UplinkArrives

\* which every uplink takes, from the inductive invariant.
LEMMA ReadingsStepHolds ==
  ASSUME Inv
  PROVE  ReadingsStep
<1> SUFFICES ASSUME UplinkArrives, decodedAs' = device,
                    NEW field \in Range(Built.sensors)
             PROVE  LET v == Reading(field.name)
                        kept == v = NoReading
                                \/ (Nowhere /\ field.name \in Position)
                    IN  IF kept THEN entities'[field.name] = entities[field.name]
                        ELSE field.signed \/ v >= 0 =>
                               entities'[field.name] = Saturated(field, v)
  BY DEF ReadingsStep
<1> DEFINE n == Counts[device]
           readings == read.sensors
<1>1. /\ Filled /\ task = "texts" /\ device \in 1..5
      /\ entities' = Over(Fields(Payload, LAYOUTS[device]), entities)
  BY ArrivesInOwn DEF Filled
<1>2. NumbersStand(Payload, device, readings) BY <1>1, FilledPayload
<1>3. PICK s \in 1..n : field = BoatV4Sensors[s]
  BY BuiltNames DEF Inv
<1> DEFINE name == BoatV4Sensors[s].name
           v == readings[s]
           nowhere == n = 17 /\ readings[16] = 0 /\ readings[17] = 0
<1>4. s \in 1..17 BY BuiltIs DEF Inv, PayloadTypeOK
<1>5. name \in DOMAIN entities BY <1>4, AllNames DEF Inv
<1>6. \A k \in 1..n : readings[k] \in Int \union {NoReading}
  BY <1>1, ReadingIs
<1>7. IF v = NoReading \/ (nowhere /\ s >= 16)
      THEN entities'[name] = entities[name]
      ELSE BoatV4Sensors[s].signed \/ v >= 0 =>
             entities'[name] = Clamped(BoatV4Sensors[s].width, v)
  <2> DEFINE bytes == Payload
             old == entities
             new == entities'
             l == device
  <2>1. /\ l \in 1..5 /\ NumbersStand(bytes, l, readings)
        /\ \A k \in 1..Counts[l] : readings[k] \in Int \union {NoReading}
        /\ new = Over(Fields(bytes, LAYOUTS[l]), old)
        /\ s \in 1..Counts[l] /\ BoatV4Sensors[s].name \in DOMAIN old
    BY <1>1, <1>2, <1>5, <1>6
  <2>2. n = Counts[l] OBVIOUS
  <2> HIDE DEF bytes, old, new, l, readings, n
  <2>3. NumberIsShown(new, old, readings, Counts[l], s) BY <2>1, NumberShown
  <2> QED BY <2>2, <2>3 DEF NumberIsShown, new, old
<1>8. Reading(name) = v BY <1>1, ReadingIs
<1>9. Nowhere <=> nowhere
  <2>1. Carries("latitude") <=> n = 17 BY BuiltNames DEF Inv
  <2>2. ASSUME n = 17
        PROVE  Reading("latitude") = readings[16] /\ Reading("longitude") = readings[17]
    <3>1. 16 \in 1..n /\ 17 \in 1..n /\ 16 \in 1..17 /\ 17 \in 1..17 BY <2>2
    <3>2. /\ BoatV4Sensors[16].name = "latitude"
          /\ BoatV4Sensors[17].name = "longitude"
      BY <3>1, Numbers
    <3> QED BY <1>1, <3>1, <3>2, ReadingIs
  <2> QED BY <2>1, <2>2 DEF Nowhere
<1>10. name \in Position <=> s >= 16
  <2>1. /\ name = "latitude" <=> s = 16
        /\ name = "longitude" <=> s = 17
    BY <1>4, Numbers
  <2> HIDE DEF name
  <2> QED BY <1>4, <2>1 DEF Position
<1>11. v \in Int \union {NoReading} BY <1>6
<1>12. v # NoReading => Saturated(field, v) = Clamped(BoatV4Sensors[s].width, v)
  BY <1>3, <1>4, <1>11, SaturatedIs
<1>13. /\ field.name = name /\ field.signed = BoatV4Sensors[s].signed BY <1>3
<1> HIDE DEF name, v, nowhere, readings, n
<1>14. Reading(field.name) = v /\ (field.name \in Position <=> s >= 16)
  BY <1>8, <1>10, <1>13
<1>15. CASE v = NoReading \/ (nowhere /\ s >= 16)
  BY <1>7, <1>9, <1>13, <1>14, <1>15
<1>16. CASE ~(v = NoReading \/ (nowhere /\ s >= 16))
  <2>1. BoatV4Sensors[s].signed \/ v >= 0 =>
          entities'[name] = Clamped(BoatV4Sensors[s].width, v)
    BY <1>7, <1>16
  <2> QED BY <1>9, <1>12, <1>13, <1>14, <1>16, <2>1
<1> QED BY <1>15, <1>16

\* The step of StatesArrive,
StatesStep ==
  UplinkArrives /\ decodedAs' = device =>
    \A b \in DOMAIN Built.binaries :
      LET bit == Built.binaries[b]
          others == {c \in DOMAIN Built.binaries \ {b} :
                       Built.binaries[c].name = bit.name}
          set == {c \in others \union {b} : read.binaries[c]}
      IN  IF bit.label = <<>>
          THEN entities'[bit.name] = IF read.binaries[b] THEN "on" ELSE "off"
          ELSE /\ set = {b} => entities'[bit.name] = bit.label
               /\ set = {} => entities'[bit.name] = entities[bit.name]

\* which every uplink takes.
LEMMA StatesStepHolds ==
  ASSUME Inv
  PROVE  StatesStep
<1> SUFFICES ASSUME UplinkArrives, decodedAs' = device,
                    NEW b \in DOMAIN Built.binaries
             PROVE  LET bit == Built.binaries[b]
                        others == {c \in DOMAIN Built.binaries \ {b} :
                                     Built.binaries[c].name = bit.name}
                        set == {c \in others \union {b} : read.binaries[c]}
                    IN  IF bit.label = <<>>
                        THEN entities'[bit.name]
                               = IF read.binaries[b] THEN "on" ELSE "off"
                        ELSE /\ set = {b} => entities'[bit.name] = bit.label
                             /\ set = {} => entities'[bit.name] = entities[bit.name]
  BY DEF StatesStep
<1> DEFINE m == BitCounts[device]
           states == read.binaries
           bit == BoatV4Binaries[b]
           fields == Fields(Payload, LAYOUTS[device])
           set == {c \in 1..m : BoatV4Binaries[c].name = bit.name /\ states[c]}
           others == {c \in DOMAIN Built.binaries \ {b} :
                        Built.binaries[c].name = Built.binaries[b].name}
           set2 == {c \in others \union {b} : read.binaries[c]}
<1>1. /\ Filled /\ device \in 1..5 /\ entities' = Over(fields, entities)
  BY ArrivesInOwn
<1>2. /\ DOMAIN Built.binaries = 1..m
      /\ \A c \in 1..m : Built.binaries[c] = BoatV4Binaries[c]
  BY BuiltIs DEF Inv, PayloadTypeOK
<1>3. states \in [1..m -> BOOLEAN] BY <1>1, <1>2 DEF Inv, ReadOK, Filled
<1>4. BitsStand(Payload, device, states) BY <1>1, FilledPayload
<1>5. b \in 1..m /\ Built.binaries[b] = bit BY <1>2
<1>6. bit.name \in DOMAIN entities BY <1>1, <1>5, AllNames DEF Inv
<1>7. IF bit.label = <<>>
      THEN /\ bit.name \in DOMAIN fields
           /\ fields[bit.name] = IF states[b] THEN "on" ELSE "off"
      ELSE /\ set = {b} => /\ bit.name \in DOMAIN fields
                           /\ fields[bit.name] = bit.label
           /\ set = {} => bit.name \notin DOMAIN fields
  <2>1. \A c \in 1..m :
          BitAt(Payload[Offset(Counts[device]) + 1 + (c - 1) \div 8], (c - 1) % 8) = 1
            <=> states[c]
    BY <1>4 DEF BitsStand
  <2> DEFINE bytes == Payload
             l == device
  <2>2. /\ l \in 1..5 /\ states \in [1..BitCounts[l] -> BOOLEAN]
        /\ \A c \in 1..BitCounts[l] :
             BitAt(bytes[Offset(Counts[l]) + 1 + (c - 1) \div 8], (c - 1) % 8) = 1
               <=> states[c]
        /\ b \in 1..BitCounts[l]
    BY <1>1, <1>3, <1>5, <2>1
  <2>3. fields = Fields(bytes, LAYOUTS[l]) /\ m = BitCounts[l] OBVIOUS
  <2> HIDE DEF bytes, l, states, m, fields
  <2>4. StateIsThere(Fields(bytes, LAYOUTS[l]), states, BitCounts[l], b)
    BY <2>2, StateFields
  <2> QED BY <2>3, <2>4 DEF StateIsThere
<1>8. set2 = set BY <1>2, <1>5
<1> DEFINE name == bit.name
<1> HIDE DEF fields, set, set2, m, states, name
<1>9. /\ name \in DOMAIN fields => entities'[name] = fields[name]
      /\ name \notin DOMAIN fields => entities'[name] = entities[name]
  BY <1>1, <1>6, OverAt DEF name
<1>10. IF bit.label = <<>>
       THEN entities'[name] = IF states[b] THEN "on" ELSE "off"
       ELSE /\ set = {b} => entities'[name] = bit.label
            /\ set = {} => entities'[name] = entities[name]
  <2>1. CASE bit.label = <<>>
    <3>1. name \in DOMAIN fields /\ fields[name] = IF states[b] THEN "on" ELSE "off"
      BY <1>7, <2>1 DEF name
    <3>2. entities'[name] = IF states[b] THEN "on" ELSE "off" BY <1>9, <3>1, Zenon
    <3> QED BY <2>1, <3>2, Zenon
  <2>2. CASE bit.label # <<>>
    BY <1>7, <1>9, <2>2 DEF name
  <2> QED BY <2>1, <2>2
<1>11. IF bit.label = <<>>
       THEN entities'[bit.name] = IF read.binaries[b] THEN "on" ELSE "off"
       ELSE /\ set2 = {b} => entities'[bit.name] = bit.label
            /\ set2 = {} => entities'[bit.name] = entities[bit.name]
  BY <1>8, <1>10, Zenon DEF name, states
<1> HIDE DEF bit
<1>12. IF Built.binaries[b].label = <<>>
       THEN entities'[Built.binaries[b].name] = IF read.binaries[b] THEN "on" ELSE "off"
       ELSE /\ set2 = {b} => entities'[Built.binaries[b].name] = Built.binaries[b].label
            /\ set2 = {} => entities'[Built.binaries[b].name]
                              = entities[Built.binaries[b].name]
  BY <1>5, <1>11, Zenon
<1> QED BY <1>12, Zenon DEF set2, others

\* A reading arrives as it was read, saturated to its field: every reading, in every
\* layout, whatever changes while the task reads (lorabridge.cpp:289-315,
\* decode.js:206-221).
THEOREM ReadingsArriveCorrect == Spec => ReadingsArrive
<1>1. Inv /\ [Next]_vars =>
        [UplinkArrives /\ decodedAs' = device =>
           \A field \in Range(Built.sensors) :
             LET v == Reading(field.name)
                 kept == v = NoReading \/ (Nowhere /\ field.name \in Position)
             IN  IF kept THEN entities'[field.name] = entities[field.name]
                 ELSE field.signed \/ v >= 0 =>
                        entities'[field.name] = Saturated(field, v)]_vars
  BY ReadingsStepHolds DEF ReadingsStep
<1> QED BY <1>1, Invariant, PTL DEF Spec, ReadingsArrive

\* So does every bit: a plain one as on or off, and a state as the word of the bit that
\* is set (pack_binary_sensors, lorabridge.cpp:38, decode.js:265).
THEOREM StatesArriveCorrect == Spec => StatesArrive
<1>1. Inv /\ [Next]_vars =>
        [UplinkArrives /\ decodedAs' = device =>
           \A b \in DOMAIN Built.binaries :
             LET bit == Built.binaries[b]
                 others == {c \in DOMAIN Built.binaries \ {b} :
                              Built.binaries[c].name = bit.name}
                 set == {c \in others \union {b} : read.binaries[c]}
             IN  IF bit.label = <<>>
                 THEN entities'[bit.name] = IF read.binaries[b] THEN "on" ELSE "off"
                 ELSE /\ set = {b} => entities'[bit.name] = bit.label
                      /\ set = {} => entities'[bit.name] = entities[bit.name]]_vars
  BY StatesStepHolds, Zenon DEF StatesStep
<1> QED BY <1>1, Invariant, PTL DEF Spec, StatesArrive

-----------------------------------------------------------------------------
(* Texts arrive                                                            *)

\* The texts have no control characters: no byte of them is below that of a space.
Printable == \A text \in Texts : \A i \in 1..Len(text) : text[i] >= 32

\* The payload of an uplink into which the texts fit.
LEMMA FittingPayload ==
  ASSUME Printable, Inv, Filled, Fits
  PROVE  /\ \E q : Texted(Payload, q, FixedLengths[device] + 1, read.texts)
         /\ Len(read.texts) = TextCounts[device]
<1> DEFINE words == read.texts
           start == FixedLengths[device] + 1
<1>1. Payload = Written /\ Len(Payload) = total_size BY FilledPayload
<1>2. PICK q : IsWritten(q) BY WrittenParts
<1>3. words \in Seq(Seq(Byte)) BY WrittenParts
<1>4. Len(Payload) <= 51
  <2>1. total_size <= MaxPayload BY DEF Filled, Inv, SizeOK
  <2> QED BY <1>1, <2>1 DEF MaxPayload
<1>5. \A t \in 1..Len(words) : \A i \in 1..Len(words[t]) : words[t][i] >= 32
  <2> SUFFICES ASSUME NEW t \in 1..Len(words), NEW i \in 1..Len(words[t])
               PROVE  words[t][i] >= 32
    OBVIOUS
  <2>1. words \in Seq(Texts \union {<<>>}) BY DEF Inv, ReadOK
  <2>2. words[t] \in Texts \union {<<>>}
    <3> HIDE DEF words
    <3> QED BY <2>1, ElementOfSeq
  <2>3. words[t] # <<>>
    <3>1. ASSUME words[t] = <<>> PROVE FALSE
      <4>1. Len(words[t]) = 0 BY <3>1, EmptySeq
      <4>2. i \in 1..0 BY <4>1
      <4> QED BY <4>2
    <3> QED BY <3>1
  <2> QED BY <2>2, <2>3 DEF Printable
<1>6. start \in Nat /\ start >= 22
  <2> DEFINE b == FixedLengths[device]
  <2>1. b \in 21..39 BY BuiltIs, LayoutLengths DEF Inv, PayloadTypeOK
  <2> HIDE DEF b
  <2>2. b + 1 \in Nat /\ b + 1 >= 22 BY <2>1
  <2> QED BY <2>2 DEF b
<1>7. Texted(Payload, q, start, words)
  BY <1>1, <1>2, <1>3, <1>4, <1>5, <1>6 DEF Texted, IsWritten
<1>8. Len(words) = TextCounts[device]
  BY TextsLength DEF Filled, Inv
<1> QED BY <1>7, <1>8

\* Where the third text starts.
LEMMA ThirdText ==
  ASSUME NEW bytes, NEW q, NEW start, NEW words, Texted(bytes, q, start, words),
         Len(words) = 5
  PROVE  q[2] = start + 2 + Len(words[1]) + Len(words[2])
<1>1. 1 \in 1..Len(words) /\ 2 \in 1..Len(words) OBVIOUS
<1> DEFINE a == Len(words[1])
           b == Len(words[2])
<1>2. /\ q[1] = q[1 - 1] + 1 + TextLength(words[1])
      /\ q[2] = q[2 - 1] + 1 + TextLength(words[2]) /\ q[0] = start
  BY <1>1 DEF Texted, Starts
<1>3. TextLength(words[1]) = a /\ words[1] \in Seq(Byte) BY <1>1, WholeTexts
<1>4. TextLength(words[2]) = b /\ words[2] \in Seq(Byte) BY <1>1, WholeTexts
<1>5. a \in Nat /\ b \in Nat /\ start \in Nat
  <2>1. start \in Nat BY DEF Texted
  <2>2. Len(words[1]) \in Nat /\ Len(words[2]) \in Nat BY <1>3, <1>4, LenProperties
  <2> QED BY <2>1, <2>2
<1>6. 1 - 1 = 0 /\ 2 - 1 = 1 OBVIOUS
<1>7. q[1] = start + 1 + a /\ q[2] = q[1] + 1 + b BY <1>2, <1>3, <1>4, <1>6
<1> HIDE DEF a, b
<1>8. q[2] = start + 2 + a + b BY <1>5, <1>7
<1> QED BY <1>8 DEF a, b

\* The step of DetectedUnlessShadowed.
LEMMA DetectedStep ==
  ASSUME Printable, Inv, UplinkArrives, Fits
  PROVE  decodedAs' = IF Shadowed THEN 1 ELSE device
<1> DEFINE d == device
           words == read.texts
           bytes == Payload
           found == decodeUplink(bytes)
<1>1. Filled /\ decodedAs' = found BY DEF UplinkArrives
<1>2. PICK q : Texted(bytes, q, FixedLengths[d] + 1, words)
  BY <1>1, FittingPayload
<1>3. Len(words) = TextCounts[d] BY <1>1, FittingPayload
<1>4. d \in 1..5 /\ FixedLength(Built) = FixedLengths[d] /\ FixedLengths[d] \in Nat
  BY BuiltIs DEF Inv, PayloadTypeOK
<1>5. Shadowed <=> TextCounts[d] = 5 /\ q[2] = 40
  <2>1. FixedLength(LAYOUTS[1]) = 39
    <3>1. 1 \in 1..5 /\ FixedLengths[1] = 39 BY DEF FixedLengths
    <3> QED BY <3>1, LayoutLengths
  <2>2. CASE TextCounts[d] = 5
    <3> DEFINE a == Len(words[1])
               b == Len(words[2])
               fixed == FixedLengths[d]
    <3>1. q[2] = (fixed + 1) + 2 + a + b BY <1>2, <1>3, <2>2, ThirdText
    <3>2. a \in Nat /\ b \in Nat
      <4>1. 1 \in 1..Len(words) /\ 2 \in 1..Len(words) BY <1>3, <2>2
      <4>2. words[1] \in Seq(Byte) BY <1>2, <4>1, WholeTexts
      <4>3. words[2] \in Seq(Byte) BY <1>2, <4>1, WholeTexts
      <4> QED BY <4>2, <4>3, LenProperties
    <3>3. Shadowed <=> fixed + 2 + a + b = 39
      BY <1>3, <1>4, <2>1, <2>2 DEF Shadowed
    <3>4. fixed \in Nat BY <1>4
    <3> HIDE DEF a, b, fixed
    <3>5. Shadowed <=> q[2] = 40 BY <3>1, <3>2, <3>3, <3>4
    <3> QED BY <2>2, <3>5
  <2>3. CASE TextCounts[d] # 5
    <3>1. ~Shadowed BY <1>3, <2>3 DEF Shadowed
    <3> QED BY <2>3, <3>1
  <2> QED BY <2>2, <2>3
<1>6. /\ Parses(bytes, LAYOUTS[d]) /\ Len(bytes) >= 24
      /\ \A l \in 1..5 : l < d /\ Parses(bytes, LAYOUTS[l])
           => l = 1 /\ TextCounts[d] = 5 /\ q[2] = 40
      /\ TextCounts[d] = 5 /\ q[2] = 40 => Parses(bytes, LAYOUTS[1])
  <2> HIDE DEF d, words, bytes
  <2> QED BY <1>2, <1>3, <1>4, DetectedLayout
<1>7. Len(bytes) \in Nat
  <2>1. bytes \in Seq(Byte) BY <1>2 DEF Texted
  <2> QED BY <2>1, LenProperties
<1>8. found \in 1..5 /\ Parses(bytes, LAYOUTS[found])
      /\ \A m \in 1..5 : Parses(bytes, LAYOUTS[m]) => found <= m
  <2> HIDE DEF bytes
  <2>1. /\ found \in 0..5
        /\ found # 0 => /\ Parses(bytes, LAYOUTS[found])
                        /\ \A m \in 1..5 : Parses(bytes, LAYOUTS[m]) => found <= m
        /\ found = 0 => \/ Len(bytes) < MinLength
                        \/ \A m \in 1..5 : ~Parses(bytes, LAYOUTS[m])
    BY Decoded
  <2>2. ~(Len(bytes) < MinLength) BY <1>6, <1>7 DEF MinLength
  <2>3. found # 0 BY <1>4, <1>6, <2>1, <2>2
  <2> HIDE DEF found
  <2> QED BY <2>1, <2>3
<1> HIDE DEF found, d, bytes
<1>9. CASE Shadowed
  <2>1. Parses(bytes, LAYOUTS[1]) /\ 1 \in 1..5 BY <1>5, <1>6, <1>9
  <2>2. found <= 1 BY <1>8, <2>1
  <2>3. found = 1 BY <1>8, <2>2
  <2> QED BY <1>1, <1>9, <2>3 DEF found
<1>10. CASE ~Shadowed
  <2>1. ~(found < d) BY <1>5, <1>6, <1>8, <1>10
  <2>2. found <= d BY <1>4, <1>6, <1>8
  <2>3. found = d BY <1>4, <1>8, <2>1, <2>2
  <2> QED BY <1>1, <1>10, <2>3 DEF found, d
<1> QED BY <1>9, <1>10

\* The step of TextsArrive.
LEMMA TextsStep ==
  ASSUME Printable, Inv, UplinkArrives, Fits, ~Shadowed,
         NEW t \in DOMAIN Built.texts
  PROVE  entities'[Built.texts[t]]
           = IF read.texts[t] = OffText THEN Off ELSE read.texts[t]
<1> DEFINE d == device
           words == read.texts
           bytes == Payload
           fields == Fields(bytes, LAYOUTS[d])
           data == TextData(bytes, LAYOUTS[d])
           name == LAYOUTS[d].texts[t]
<1>1. decodedAs' = d BY DetectedStep
<1>2. /\ Filled /\ d \in 1..5 /\ entities' = Over(fields, entities)
  BY <1>1, ArrivesInOwn
<1>3. PICK q : Texted(bytes, q, FixedLengths[d] + 1, words)
  BY <1>2, FittingPayload
<1>4. Len(words) = TextCounts[d] BY <1>2, FittingPayload
<1>5. t \in 1..TextCounts[d] /\ Built.texts[t] = name
  BY BuiltIs DEF Inv, PayloadTypeOK, Built
<1>6. /\ name \in DOMAIN data
      /\ data[name] = IF words[t] = OffText THEN Off ELSE words[t]
  <2>1. d \in 1..5 /\ t \in 1..TextCounts[d] BY <1>2, <1>5
  <2>2. WordShown(bytes, d, words, t)
    <3> HIDE DEF d, words, bytes
    <3> QED BY <1>3, <1>4, <2>1, TextFields
  <2> QED BY <2>2 DEF WordShown
<1>7. name \in DOMAIN fields /\ fields[name] = data[name]
  <2>1. d \in 1..5 /\ name \in DOMAIN TextData(bytes, LAYOUTS[d]) BY <1>2, <1>6
  <2> HIDE DEF d, bytes, name
  <2> QED BY <2>1, TextFieldIs
<1> HIDE DEF fields, name, data
<1>8. entities'[name] = fields[name] BY <1>2, <1>7, OverAt
<1> QED BY <1>5, <1>6, <1>7, <1>8

\* The decoder recognises the layout of every payload that its texts fit into, but for
\* the one exception (decodeUplink, decode.js:305), for texts without control
\* characters.
THEOREM DetectedCorrect ==
  ASSUME Printable
  PROVE  Spec => DetectedUnlessShadowed
<1>1. Inv /\ [Next]_vars =>
        [UplinkArrives /\ Fits => decodedAs' = IF Shadowed THEN 1 ELSE device]_vars
  BY DetectedStep
<1> QED BY <1>1, Invariant, PTL DEF Spec, DetectedUnlessShadowed

\* The texts arrive whole, if they fit into the uplink and the decoder recognises the
\* layout (pack_text_sensors, lorabridge.cpp:69, readText, decode.js:225).
THEOREM TextsArriveCorrect ==
  ASSUME Printable
  PROVE  Spec => TextsArrive
<1>1. Inv /\ [Next]_vars =>
        [UplinkArrives /\ Fits /\ ~Shadowed =>
           \A t \in DOMAIN Built.texts :
             entities'[Built.texts[t]] =
               IF read.texts[t] = OffText THEN Off ELSE read.texts[t]]_vars
  BY TextsStep
<1> QED BY <1>1, Invariant, PTL DEF Spec, TextsArrive
=============================================================================
