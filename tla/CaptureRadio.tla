---------------------------- MODULE CaptureRadio ----------------------------
(***************************************************************************)
(* The radio under the node: CaptureRadio of                               *)
(* src/components/lorabridge/capture_radio.h, which notes the frequency    *)
(* and the data rate it is given and puts them into the copy of a frame.   *)
(* The node's LoRaWANNode sets both before it transmits, and again for     *)
(* each receive window after that; every call may fail.                    *)
(*                                                                         *)
(* The steps of the node are those of LoRaBridge; here they wait for the   *)
(* radio.  LoRaWANNode and the radio chip are modelled from how the code   *)
(* uses them.                                                              *)
(* Operators called ...Variant are slips one could make in the code; no    *)
(* action uses them.                                                       *)
(***************************************************************************)
EXTENDS LoRaBridge

CONSTANTS Frequencies, DataRates

Default == 0        \* 868.1 MHz, SF12 at 125 kHz

ASSUME ChannelsAssumption == Default \in Frequencies /\ Default \in DataRates

VARIABLES
  setting,                    \* how far LoRaWANNode is with the channel
  freq, dr,                   \* what the chip is set to
  last_freq, last_dr,         \* last_freq_mhz_; last_sf_ and last_bw_khz_
  tx, copied                  \* history: the channel of the last frame, and
                              \* the one the last copy names, in this boot

chip == <<freq, dr>>
noted == <<last_freq, last_dr>>
told == <<tx, copied>>

radioVars == <<vars, setting, chip, noted, told>>

NoChannel == <<>>

RadioInit ==
  /\ Init
  /\ setting = "none"
  /\ freq = Default /\ dr = Default
  /\ last_freq = Default /\ last_dr = Default
  /\ tx = NoChannel /\ copied = NoChannel

-----------------------------------------------------------------------------
\* A frame is about to be transmitted, or a receive window to be opened.
Window == task \in {"answer", "wait"}

\* Setting the channel fails only where the attempt may be wasted.
MayFail == Window \/ wasted < MaxWasted

\* setFrequency() and setDataRate() take note first, then set the chip.
SetFrequency(f, ok) ==
  /\ Window \/ task \in {"join", "uplink"}
  /\ setting = "none"
  /\ ok \/ MayFail
  /\ last_freq' = f
  /\ freq' = IF ok THEN f ELSE freq
  /\ setting' = IF ok THEN "frequency" ELSE "failed"
  /\ UNCHANGED <<vars, dr, last_dr, told>>

NoteDataRateVariant(d) == UNCHANGED last_dr
NoteDataRate(d) == last_dr' = d

SetDataRate(d, ok) ==
  /\ setting = "frequency"
  /\ ok \/ MayFail
  /\ NoteDataRate(d)
  /\ dr' = IF ok THEN d ELSE dr
  /\ setting' = IF ok THEN "set" ELSE "failed"
  /\ UNCHANGED <<vars, freq, last_freq, told>>

\* The receive window is over, or could not be opened.
CloseWindow ==
  /\ Window
  /\ setting \in {"set", "failed"}
  /\ setting' = "none"
  /\ UNCHANGED <<vars, chip, noted, told>>

\* transmit(): the frame is sent on the channel that is set, and if the tee is
\* enabled the sink is given what was noted.
Send ==
  /\ setting = "set"
  /\ RequestLost \/ RequestRefused \/ RequestAccepted \/ UplinkSent
  /\ tx' = chip
  /\ copied' = IF tee_enabled THEN noted ELSE copied
  /\ setting' = "none"
  /\ UNCHANGED <<chip, noted>>

\* The channel could not be set, transmit() fails, or the payload is too large
\* to begin with.
SendFails ==
  /\ \/ RequestLost /\ setting \in {"set", "failed"}
     \/ UplinkSkipped /\ setting \in {"none", "set", "failed"}
  /\ setting' = "none"
  /\ UNCHANGED <<chip, noted, told>>

\* The node does something else meanwhile.
Elsewhere ==
  /\ setting = "none"
  /\ \/ Setup \/ Delay
     \/ JoinAccepted \/ JoinAcceptLost \/ JoinTimesOut
     \/ SaveNonces \/ SaveFails \/ JoinSucceeded \/ JoinFailed
  /\ UNCHANGED <<setting, chip, noted, told>>

\* A reboot makes a new CaptureRadio.
Restart ==
  /\ Reboot
  /\ setting' = "none"
  /\ freq' = Default /\ dr' = Default
  /\ last_freq' = Default /\ last_dr' = Default
  /\ tx' = NoChannel /\ copied' = NoChannel

RadioNext ==
  \/ \E f \in Frequencies, ok \in BOOLEAN : SetFrequency(f, ok)
  \/ \E d \in DataRates, ok \in BOOLEAN : SetDataRate(d, ok)
  \/ CloseWindow
  \/ Send \/ SendFails
  \/ Elsewhere
  \/ Restart

RadioSpec == RadioInit /\ [][RadioNext]_radioVars

-----------------------------------------------------------------------------
(* Correctness *)

Channels == Frequencies \X DataRates

RadioTypeOK ==
  /\ TypeOK
  /\ setting \in {"none", "frequency", "set", "failed"}
  /\ chip \in Channels
  /\ noted \in Channels
  /\ tx \in Channels \cup {NoChannel}
  /\ copied \in Channels \cup {NoChannel}

\* "These values feed the rxpk": a copy names the frequency and the data rate
\* its frame was transmitted with, whatever receive windows were opened and
\* whatever calls failed before.
CopiesNameChannel == copied # NoChannel => copied = tx
=============================================================================
