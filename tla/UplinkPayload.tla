---------------------------- MODULE UplinkPayload ----------------------------
(***************************************************************************)
(* An uplink from the sensors to the entities of Home Assistant: the       *)
(* LoRaWAN task (src/components/lorabridge/lorabridge.cpp) measures the    *)
(* texts, reads the sensors, packs the payload and sends it, while the     *)
(* main task goes on assigning states; the decoder (src/decoder/decode.js) *)
(* turns the payload back into fields, and every entity keeps its value    *)
(* until an uplink brings another one.                                     *)
(*                                                                         *)
(* The firmware is configured for one of the decoder's layouts.  Each      *)
(* sensor, each binary sensor and each text is read in a step of its own.  *)
(***************************************************************************)
EXTENDS PayloadEncoder, PayloadDecoder

CONSTANTS
  Devices,           \* the layouts, by number, the firmware may be built for
  Readings,          \* of sensors, by name: what they may read; the others
                     \* stay without a valid state
  BinarySets,        \* what the binary sensors may be: sets of those that are on
  Texts,             \* what a text sensor may say
  InputsChange,      \* when: "anytime", or "between" uplinks only
  MaxChanges,        \* bound: how often the main task assigns a state
  MaxRounds,         \* bound: how often the task measures a payload
  Unknown            \* the value of an entity before it is first updated

ASSUME DevicesAssumption == Devices \subseteq DOMAIN LAYOUTS
ASSUME ReadingsAssumption ==
  \A name \in DOMAIN Readings : Readings[name] \subseteq Int \union {NoReading}
ASSUME TextsAssumption ==
  Texts \subseteq Seq(Byte) /\ InputsChange \in {"anytime", "between"}
ASSUME BoundsAssumption == MaxChanges \in Nat /\ MaxRounds \in Nat

VARIABLES
  device,            \* the layout the firmware is built for
  sensors,           \* of the sensors, by name: their state, scaled
  binaries,          \* of the binary sensors, in order: their state
  texts,             \* of the text sensors, in order: their state
  task,              \* where the LoRaWAN task is
  measured,          \* how many texts it has measured
  total_size,        \* of the payload, as far as it is measured
  read,              \* what it has read to fill the payload, in order
  entities,          \* in Home Assistant, by name: the value they show
  decodedAs,         \* the layout of the last payload decoded: 0 if it was
                     \* refused, the device's own before the first
  changes, rounds    \* history: what the bounds limit

inputs == <<sensors, binaries, texts>>
outputs == <<entities, decodedAs>>
payload == <<measured, total_size, read>>
vars == <<device, inputs, task, payload, outputs, changes, rounds>>

Built == LAYOUTS[device]

Names == UNION {{f.name : f \in Range(LAYOUTS[d].sensors)}
                \union {b.name : b \in Range(LAYOUTS[d].binaries)}
                \union Range(LAYOUTS[d].texts) : d \in DOMAIN LAYOUTS}

Nothing == [sensors |-> <<>>, binaries |-> <<>>, texts |-> <<>>]

\* The states after a boot.
NoReadings(d) == [name \in {f.name : f \in Range(LAYOUTS[d].sensors)} |-> NoReading]
AllOff(d) == [b \in DOMAIN LAYOUTS[d].binaries |-> FALSE]
NoTexts(d) == [t \in DOMAIN LAYOUTS[d].texts |-> <<>>]

Init ==
  /\ device \in Devices
  /\ sensors = NoReadings(device)
  /\ binaries = AllOff(device)
  /\ texts = NoTexts(device)
  /\ task = "measure"
  /\ measured = 0
  /\ total_size = FixedLength(Built)
  /\ read = Nothing
  /\ entities = [name \in Names |-> Unknown]
  /\ decodedAs = device
  /\ changes = 0
  /\ rounds = 0

-----------------------------------------------------------------------------
(* The main task *)

Change ==
  /\ InputsChange = "anytime" \/ (task = "measure" /\ measured = 0)
  /\ changes < MaxChanges
  /\ changes' = changes + 1
  /\ UNCHANGED <<device, task, payload, outputs, rounds>>

SensorReports(name) ==
  /\ Change
  /\ \E v \in Readings[name] : sensors' = [sensors EXCEPT ![name] = v]
  /\ UNCHANGED <<binaries, texts>>

BinariesReport(on) ==
  /\ Change
  /\ binaries' = [b \in DOMAIN binaries |-> b \in on]
  /\ UNCHANGED <<sensors, texts>>

TextReports(t) ==
  /\ Change
  /\ \E text \in Texts : texts' = [texts EXCEPT ![t] = text]
  /\ UNCHANGED <<sensors, binaries>>

-----------------------------------------------------------------------------
(* The LoRaWAN task *)

MeasureText ==
  /\ task = "measure"
  /\ measured < Len(texts)
  /\ rounds < MaxRounds
  /\ total_size' = total_size + 1 + TextLength(texts[measured + 1])
  /\ measured' = measured + 1
  /\ UNCHANGED <<device, inputs, task, read, outputs, changes, rounds>>

\* Next round, with an empty payload.
NextRound ==
  /\ task' = "measure"
  /\ measured' = 0
  /\ total_size' = FixedLength(Built)
  /\ read' = Nothing
  /\ rounds' = rounds + 1
  /\ UNCHANGED <<device, changes>>

MaxPayload == 51

SkipOversized ==
  /\ task = "measure"
  /\ measured = Len(texts)
  /\ total_size > MaxPayload
  /\ NextRound
  /\ UNCHANGED <<inputs, outputs>>

StartFilling ==
  /\ task = "measure"
  /\ measured = Len(texts)
  /\ total_size <= MaxPayload
  /\ task' = "sensors"
  /\ UNCHANGED <<device, inputs, payload, outputs, changes, rounds>>

\* What the task has read so far, and where it goes on.
Read(so_far, next) ==
  /\ read' = so_far
  /\ task' = next
  /\ UNCHANGED <<device, inputs, measured, total_size, outputs, changes, rounds>>

ReadSensor ==
  /\ task = "sensors"
  /\ Len(read.sensors) < Len(Built.sensors)
  /\ Read([read EXCEPT !.sensors =
             Append(@, sensors[Built.sensors[Len(@) + 1].name])], "sensors")

ReadBinary ==
  LET bits == Append(read.binaries, binaries[Len(read.binaries) + 1])
  IN  /\ task = "sensors"
      /\ Len(read.sensors) = Len(Built.sensors)
      /\ Len(read.binaries) < Len(binaries)
      /\ Read([read EXCEPT !.binaries = bits],
              IF Len(bits) < Len(binaries) THEN "sensors" ELSE "texts")

ReadText ==
  /\ task = "texts"
  /\ Len(read.texts) < Len(texts)
  /\ Read([read EXCEPT !.texts = Append(@, texts[Len(@) + 1])], "texts")

\* What the task writes into the payload, which has total_size bytes that
\* are 0 at first.
Written ==
  FlattenSeq([s \in DOMAIN read.sensors |->
                BigEndian(Built.sensors[s].width,
                          Encoded(Built.sensors[s].width, read.sensors[s]))])
  \o PackedBits(read.binaries)
  \o FlattenSeq([t \in DOMAIN read.texts |-> PackedText(read.texts[t])])

Payload == SubSeq(Written \o [i \in 1..total_size |-> 0], 1, total_size)

Filled == task = "texts" /\ Len(read.texts) = Len(texts)

\* The uplink is lost, or the radio refuses it.
UplinkLost ==
  /\ Filled
  /\ NextRound
  /\ UNCHANGED <<inputs, outputs>>

\* The uplink is decoded, and the entities of its fields are updated.
UplinkArrives ==
  /\ Filled
  /\ decodedAs' = decodeUplink(Payload)
  /\ \/ decodedAs' = 0 /\ UNCHANGED entities
     \/ /\ decodedAs' # 0
        /\ \E data \in {Fields(Payload, LAYOUTS[decodedAs'])} :
             entities' = Over(data, entities)
  /\ NextRound
  /\ UNCHANGED inputs

\* Bytes written behind the end of the payload may bring the program down.
Overrun ==
  /\ Filled
  /\ Len(Written) > total_size
  /\ sensors' = NoReadings(device)
  /\ binaries' = AllOff(device)
  /\ texts' = NoTexts(device)
  /\ NextRound
  /\ UNCHANGED outputs

-----------------------------------------------------------------------------
Report ==
  \/ \E name \in DOMAIN Readings \intersect DOMAIN sensors : SensorReports(name)
  \/ \E on \in BinarySets : BinariesReport(on)
  \/ \E t \in DOMAIN texts : TextReports(t)

Uplink ==
  \/ MeasureText \/ SkipOversized \/ StartFilling
  \/ ReadSensor \/ ReadBinary \/ ReadText
  \/ UplinkLost \/ UplinkArrives \/ Overrun

Next == Report \/ Uplink

Spec == Init /\ [][Next]_vars

-----------------------------------------------------------------------------
(* Properties *)

ValuesOf(field) ==
  IF field.signed THEN EncMin(field.width) + 1..EncMax(field.width)
  ELSE 0..256 * Unit(field.width - 1) - 1

\* The variables have their types; what an entity shows of a numeric field is
\* a value that the field can carry, never the pattern for no valid value.
PayloadTypeOK ==
  /\ device \in Devices
  /\ DOMAIN sensors = {f.name : f \in Range(Built.sensors)}
  /\ \A name \in DOMAIN sensors : sensors[name] = NoReading \/ sensors[name] \in Int
  /\ binaries \in [DOMAIN Built.binaries -> BOOLEAN]
  /\ texts \in [DOMAIN Built.texts -> Texts \union {<<>>}]
  /\ task \in {"measure", "sensors", "texts"}
  /\ measured \in 0..Len(Built.texts)
  /\ total_size \in Nat
  /\ Len(read.sensors) <= Len(Built.sensors) /\ Len(read.texts) <= Len(Built.texts)
  /\ decodedAs \in 0..Len(LAYOUTS)
  /\ changes \in 0..MaxChanges /\ rounds \in 0..MaxRounds
  /\ \A f \in Range(BoatV4Sensors) :
       entities[f.name] = Unknown \/ entities[f.name] \in ValuesOf(f)

Reading(name) ==
  read.sensors[CHOOSE s \in DOMAIN read.sensors : Built.sensors[s].name = name]

Carries(name) == \E f \in Range(Built.sensors) : f.name = name

\* A position 0/0 is not one.
Nowhere == /\ Carries("latitude")
           /\ Reading("latitude") = 0 /\ Reading("longitude") = 0

Position == {"latitude", "longitude"}

\* The end of the range of field that v is beyond, or else v.
Saturated(field, v) ==
  Max({EncMin(field.width) + 1, Min({v, EncMax(field.width)})})

\* Firmware and decoder agree on the numbers.  When an uplink arrives and is
\* decoded in its own layout, each entity shows what the task read, or the end
\* of the range that it is beyond, and keeps its value if there was no valid
\* reading (clamping and marker, lorabridge.cpp:290-312, readInt and
\* isInvalidSentinel, decode.js:206-221), also when the texts changed while
\* the task filled the payload.  A field without a sign must read no negative
\* value.
ReadingsArrive ==
  [][UplinkArrives /\ decodedAs' = device =>
       \A field \in Range(Built.sensors) :
         LET v == Reading(field.name)
             kept == v = NoReading \/ (Nowhere /\ field.name \in Position)
         IN  IF kept THEN entities'[field.name] = entities[field.name]
             ELSE field.signed \/ v >= 0 =>
                    entities'[field.name] = Saturated(field, v)]_vars

\* Each bit arrives as what it stands for (pack_binary_sensors,
\* lorabridge.cpp:38, and decode.js:265-279): a plain one as on or off, the
\* one state of a device that is set as its label; no state set, the entity
\* keeps its value.  The main task may assign states between two bits.
StatesArrive ==
  [][UplinkArrives /\ decodedAs' = device =>
       \A b \in DOMAIN Built.binaries :
         LET bit == Built.binaries[b]
             others == {c \in DOMAIN Built.binaries \ {b} :
                          Built.binaries[c].name = bit.name}
             set == {c \in others \union {b} : read.binaries[c]}
         IN  IF bit.label = <<>>
             THEN entities'[bit.name] = IF read.binaries[b] THEN "on" ELSE "off"
             ELSE /\ set = {b} => entities'[bit.name] = bit.label
                  /\ set = {} => entities'[bit.name] = entities[bit.name]]_vars

Fits == Len(Written) = total_size

\* The first two texts of a boat reach to where the texts of a boat-v4 start:
\* then the other three are read as the texts of a boat-v4.
Shadowed ==
  /\ Len(read.texts) = 5
  /\ FixedLength(Built) + 2 + Len(read.texts[1]) + Len(read.texts[2])
       = FixedLength(LAYOUTS[1])

\* The layout is recognised from the payload alone (decodeUplink,
\* decode.js:305-313), with one exception: a layout with five texts is taken
\* for boat-v4 if, and only if, the lengths of its first two texts are such
\* that a boat-v4 could end with the other three.
DetectedUnlessShadowed ==
  [][UplinkArrives /\ Fits => decodedAs' = IF Shadowed THEN 1 ELSE device]_vars

\* A text arrives as it was read, "Off" as "off" (pack_text_sensors,
\* lorabridge.cpp:69, and readText, decode.js:225): the payload has room for
\* it and the texts before it end where the decoder looks for it.
TextsArrive ==
  [][UplinkArrives /\ Fits /\ ~Shadowed =>
       \A t \in DOMAIN Built.texts :
         entities'[Built.texts[t]] =
           IF read.texts[t] = OffText THEN Off ELSE read.texts[t]]_vars

\* "Unified decoder: auto-detects payload layout" (decode.js:5): a payload is
\* decoded in the layout the firmware is built for.
LayoutDetected == decodedAs = device

\* "batteryTimeRemaining 0xFFFF ("infinite") now also omits the field"
\* (decode.js:31): an infinite time leaves the entity alone.
InfiniteOmitted ==
  [][UplinkArrives /\ decodedAs' = device
       /\ Reading("batteryTimeRemaining") = Infinite =>
         UNCHANGED entities["batteryTimeRemaining"]]_vars

\* "Text sensors: each prefixed with a length byte, followed by the raw
\* characters" (README.md:140): the payload sent holds all of every text and
\* nothing else.
TextsWhole == [][UplinkArrives => Payload = Written]_vars
=============================================================================
