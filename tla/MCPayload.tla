------------------------------ MODULE MCPayload ------------------------------
(***************************************************************************)
(* UplinkPayload for TLC: see the configurations MCPayload_*.cfg.          *)
(***************************************************************************)
EXTENDS UplinkPayload, TLC

None == [name \in {} |-> {}]

\* Beyond either end of a field of two bytes, at its ends and within it; a
\* field of one byte beyond its end; a position 0/0.
EdgeReadings ==
  "batteryPower" :> {-40000, -32768, -1, 32767, 32768, NoReading}
  @@ "salonHumidity" :> {200}
  @@ "latitude" :> {0, -1900000000}
  @@ "longitude" :> {0}

TimeReadings == "batteryTimeRemaining" :> {Infinite, 600}

\* Plain ones, a state, two states at once.
EdgeBinaries == {{1}, {4, 7}, {5, 6}}

Text(n) == Word(97, n)

OneText == {Text(1)}
LayoutTexts == {<<>>, OffText, Text(7), Text(8)}
=============================================================================
