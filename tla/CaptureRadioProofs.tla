------------------------- MODULE CaptureRadioProofs -------------------------
(***************************************************************************)
(* Proofs about CaptureRadio: the node on its radio is still the node of   *)
(* LoRaBridge, so that what is proved there holds here, and every copy     *)
(* names the channel of its frame, for all channels, failures and bounds.  *)
(***************************************************************************)
EXTENDS CaptureRadio, LoRaBridgeProofs

\* The radio makes the node wait or fail, and do nothing new.
THEOREM RadioIsNode == RadioSpec => Spec
<1>1. RadioInit => Init
  BY DEF RadioInit
<1>2. [RadioNext]_radioVars => [Next]_vars
  BY DEF RadioNext, SetFrequency, SetDataRate, CloseWindow, Send, SendFails,
         Elsewhere, Restart, Next, JoinLoop, UplinkLoop, radioVars
<1>3. QED
  BY <1>1, <1>2, PTL DEF RadioSpec, Spec

\* When a frame can be transmitted, what was noted is what the chip is set to.
NotedInv ==
  /\ setting \in {"none", "frequency", "set", "failed"}
  /\ chip \in Channels /\ noted \in Channels
  /\ setting \in {"frequency", "set"} => last_freq = freq
  /\ setting = "set" => last_dr = dr
  /\ tx \in Channels \cup {NoChannel}
  /\ copied \in Channels \cup {NoChannel}
  /\ tee_enabled \/ copied = NoChannel
  /\ CopiesNameChannel

LEMMA NotedInit == RadioInit => NotedInv
BY ChannelsAssumption
   DEF RadioInit, NotedInv, chip, noted, Channels, CopiesNameChannel

LEMMA NotedNext == NotedInv /\ [RadioNext]_radioVars => NotedInv'
<1> SUFFICES ASSUME NotedInv, [RadioNext]_radioVars PROVE NotedInv'
  OBVIOUS
<1> USE DEF NotedInv, CopiesNameChannel, chip, noted, told
<1>1. ASSUME NEW f \in Frequencies, NEW ok \in BOOLEAN, SetFrequency(f, ok)
      PROVE  NotedInv'
  <2>1. chip' \in Channels /\ noted' \in Channels
    BY <1>1 DEF SetFrequency, Channels
  <2>2. tee_enabled' = tee_enabled
    BY <1>1 DEF SetFrequency, vars
  <2>3. QED
    BY <1>1, <2>1, <2>2 DEF SetFrequency
<1>2. ASSUME NEW d \in DataRates, NEW ok \in BOOLEAN, SetDataRate(d, ok)
      PROVE  NotedInv'
  <2>1. chip' \in Channels /\ noted' \in Channels
    BY <1>2 DEF SetDataRate, NoteDataRate, Channels
  <2>2. tee_enabled' = tee_enabled
    BY <1>2 DEF SetDataRate, vars
  <2>3. QED
    BY <1>2, <2>1, <2>2 DEF SetDataRate, NoteDataRate
<1>3. CASE CloseWindow
  BY <1>3 DEF CloseWindow, vars
<1>4. CASE Send
  <2>1. tee_enabled' = tee_enabled
    BY <1>4 DEF Send, RequestLost, RequestRefused, RequestAccepted, Request,
                UplinkSent, Uplink
  <2>2. noted = chip
    BY <1>4 DEF Send
  <2>3. QED
    BY <1>4, <2>1, <2>2 DEF Send
<1>5. CASE SendFails
  <2>1. tee_enabled' = tee_enabled
    BY <1>5 DEF SendFails, RequestLost, Request, UplinkSkipped, Uplink
  <2>2. QED
    BY <1>5, <2>1 DEF SendFails
<1>6. CASE Elsewhere
  <2>1. tee_enabled => tee_enabled'
    BY <1>6 DEF Elsewhere, Setup, SetupFails, SetupRestored, SetupRejected,
                SetupFresh, SetupWith, StartTask, Delay, JoinAccepted,
                JoinAcceptLost, JoinTimesOut, Return, SaveNonces, SaveFails,
                Save, JoinSucceeded, JoinFailed
  <2>2. QED
    BY <1>6, <2>1 DEF Elsewhere
<1>7. CASE Restart
  BY <1>7, ChannelsAssumption DEF Restart, Channels
<1>8. CASE UNCHANGED radioVars
  BY <1>8 DEF radioVars, vars
<1>9. QED
  BY <1>1, <1>2, <1>3, <1>4, <1>5, <1>6, <1>7, <1>8 DEF RadioNext

\* Types of the radio and of the node on it.
THEOREM RadioTypeCorrect == RadioSpec => []RadioTypeOK
<1>1. TypeOK /\ NotedInv => RadioTypeOK
  BY DEF NotedInv, RadioTypeOK
<1>2. QED
  BY <1>1, NotedInit, NotedNext, RadioIsNode, TypeCorrect, PTL DEF RadioSpec

\* Whatever receive windows were opened and whatever calls failed: a copy
\* names the frequency and the data rate its frame was transmitted with.
THEOREM ChannelCorrect == RadioSpec => []CopiesNameChannel
<1>1. NotedInv => CopiesNameChannel
  BY DEF NotedInv
<1>2. QED
  BY <1>1, NotedInit, NotedNext, PTL DEF RadioSpec
=============================================================================
