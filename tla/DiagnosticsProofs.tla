-------------------------- MODULE DiagnosticsProofs --------------------------
(***************************************************************************)
(* Proofs about what the diagnostic entities show.  The forwarder's part:  *)
(* what is_connected() says about the time since the last PULL_ACK, for    *)
(* every clock, keepalive interval and order of steps.  Then Diagnostics:  *)
(* with the publication behind it the main task is still the forwarder's,  *)
(* so that all that is proved of the forwarder holds here; and what the    *)
(* entities show between two turns is true.                                *)
(***************************************************************************)
EXTENDS Diagnostics, ForwarderProofs

-----------------------------------------------------------------------------
(* The connection indicator *)

\* Until a silence has lasted as long as the clock takes to wrap, the
\* difference of the two readings is its length.
SilenceInv ==
  got_pull_ack /\ silence < MILLIS_MOD
    => Elapsed(millis, last_pull_ack_ms) = silence

LEMMA ElapsedSame == \A t \in Millis : Elapsed(t, t) = 0
BY ModCases, ElapsedType, ClockAssumption DEF Elapsed, Millis

\* A tick adds exactly one to a difference that does not wrap.
LEMMA ElapsedTickExact ==
  ASSUME NEW t \in Millis, NEW s \in Millis, Elapsed(t, s) + 1 < MILLIS_MOD
  PROVE  Elapsed((t + 1) % MILLIS_MOD, s) = Elapsed(t, s) + 1
<1> DEFINE n == (t + 1) % MILLIS_MOD
<1>0. /\ MILLIS_MOD \in Nat \ {0}
      /\ t \in 0..(MILLIS_MOD - 1) /\ s \in 0..(MILLIS_MOD - 1)
  BY ClockAssumption DEF Millis
<1>1. CASE t >= s
  <2>1. Elapsed(t, s) = t - s
    BY <1>0, <1>1, ModCases DEF Elapsed, Millis
  <2>2. CASE t + 1 < MILLIS_MOD
    <3>1. n = t + 1
      BY <1>0, <2>2, ModCases DEF Millis
    <3>2. Elapsed(n, s) = t + 1 - s
      BY <1>0, <1>1, <2>2, <3>1, ModCases DEF Elapsed, Millis
    <3>3. QED
      BY <1>0, <2>1, <3>2
  <2>3. CASE t + 1 = MILLIS_MOD
    <3>1. n = 0
      BY <2>3, ModCases
    <3>2. s > 0
      BY <1>0, <2>1, <2>3
    <3>3. Elapsed(n, s) = MILLIS_MOD - s
      BY <1>0, <3>1, <3>2, ModCases DEF Elapsed
    <3>4. QED
      BY <1>0, <2>1, <2>3, <3>3
  <2>4. QED
    BY <1>0, <2>2, <2>3
<1>2. CASE t < s
  <2>1. Elapsed(t, s) = t - s + MILLIS_MOD
    BY <1>0, <1>2, ModCases DEF Elapsed
  <2>2. n = t + 1 /\ t + 1 < s
    BY <1>0, <1>2, <2>1, ModCases DEF Millis
  <2>3. Elapsed(n, s) = t + 1 - s + MILLIS_MOD
    BY <1>0, <2>2, ModCases DEF Elapsed
  <2>4. QED
    BY <1>0, <2>1, <2>3
<1>3. QED
  BY <1>0, <1>1, <1>2

\* Who touches what the indicator is made of.
LEMMA ConnectionSteps ==
  ASSUME [Next]_vars
  PROVE  \/ Tick
         \/ HandlePullAck
         \/ /\ UNCHANGED <<millis, silence, last_pull_ack_ms>>
            /\ got_pull_ack' => got_pull_ack
<1> USE DEF surroundings, pullAck, Step
<1>1. CASE SetActive
  BY <1>1 DEF SetActive
<1>2. CASE LoopNetworkLost
  BY <1>2 DEF LoopNetworkLost, CloseSocket
<1>3. CASE LoopResolve \/ LoopReady \/ LoopReturn
  BY <1>3 DEF LoopResolve, LoopReady, LoopReturn, LoopOn
<1>4. CASE ResolveFails \/ ResolveSucceeds \/ DrainRecv \/ DrainEmpty
  BY <1>4 DEF ResolveFails, ResolveSucceeds, DrainRecv, DrainEmpty
<1>5. CASE HandlePushAckMatch \/ HandlePushAckOther \/ HandleOther
  BY <1>5 DEF HandlePushAckMatch, HandlePushAckOther, HandleOther, Handle
<1>6. CASE \/ RetransmitNotDue \/ GiveUp
           \/ \E ok \in BOOLEAN : Retransmit(ok)
  BY <1>6 DEF RetransmitNotDue, GiveUp, Retransmit, CheckRetransmit
<1>7. CASE KeepaliveNotDue \/ \E ok \in BOOLEAN : SendPullData(ok)
  BY <1>7 DEF KeepaliveNotDue, SendPullData, Return
<1>8. CASE LoRaWANTask
  BY <1>8 DEF LoRaWANTask, CaptureDropped, CaptureTooLarge, CaptureInjected,
              Capture
<1>9. CASE NetChange
  BY <1>9 DEF NetChange
<1>10. CASE UNCHANGED vars
  BY <1>10 DEF vars
<1>11. QED
  BY <1>1, <1>2, <1>3, <1>4, <1>5, <1>6, <1>7, <1>8, <1>9, <1>10
     DEF Next, MainTask

LEMMA SilenceInit == Init => SilenceInv
BY DEF Init, SilenceInv

LEMMA SilenceNext == TypeOK /\ SilenceInv /\ [Next]_vars => SilenceInv'
<1> SUFFICES ASSUME TypeOK, SilenceInv, [Next]_vars,
                    got_pull_ack', silence' < MILLIS_MOD
             PROVE  Elapsed(millis', last_pull_ack_ms') = silence'
  BY DEF SilenceInv
<1>0. /\ millis \in Millis /\ last_pull_ack_ms \in Millis
      /\ silence \in 0..MILLIS_MOD
  BY DEF TypeOK, TypeOfTimes
<1>1. CASE Tick
  <2>1. /\ got_pull_ack /\ last_pull_ack_ms' = last_pull_ack_ms
        /\ millis' = (millis + 1) % MILLIS_MOD
    BY <1>1 DEF Tick
  <2>2. silence' = UpTo(MILLIS_MOD, silence)
    BY <1>1, <2>1 DEF Tick
  <2>3. silence' = silence + 1 /\ silence + 1 < MILLIS_MOD
    BY <1>0, <2>2, ClockAssumption DEF UpTo
  <2>4. Elapsed(millis, last_pull_ack_ms) = silence
    BY <1>0, <2>1, <2>3, ClockAssumption DEF SilenceInv
  <2>5. QED
    BY <1>0, <2>1, <2>3, <2>4, ElapsedTickExact
<1>2. CASE HandlePullAck
  BY <1>0, <1>2, ElapsedSame DEF HandlePullAck, Handle, Step, surroundings
<1>3. CASE /\ UNCHANGED <<millis, silence, last_pull_ack_ms>>
           /\ got_pull_ack' => got_pull_ack
  BY <1>3 DEF SilenceInv
<1>4. QED
  BY <1>1, <1>2, <1>3, ConnectionSteps

\* The product is_connected() compares with, if it is within the range.
LEMMA ThreeIntervals ==
  ASSUME 3 * keepalive_ms < MILLIS_MOD
  PROVE  (3 * keepalive_ms) % MILLIS_MOD = 3 * keepalive_ms
BY ClockAssumption

LEMMA SilenceCorrect == Spec => []SilenceInv
BY TypeCorrect, SilenceInit, SilenceNext, PTL DEF Spec

\* Until a silence has lasted as long as millis() takes to wrap, is_connected()
\* is exactly "a PULL_ACK within three keepalive intervals", if three intervals
\* are within the range of millis().
THEOREM IndicatorCorrect ==
  ASSUME 3 * keepalive_ms < MILLIS_MOD PROVE Spec => []ConnectedUnlessWrapped
<1>1. SilenceInv => ConnectedUnlessWrapped
  BY ThreeIntervals DEF SilenceInv, ConnectedUnlessWrapped, IsConnected
<1>2. QED
  BY <1>1, SilenceCorrect, PTL

-----------------------------------------------------------------------------
(* The publication *)

\* Loop is what the main task does in the forwarder, and Meanwhile is what
\* everybody else does there.
LEMMA LoopIs == Loop => MainTask /\ InTurn
BY DEF Loop, MainTask

LEMMA MeanwhileIs ==
  Meanwhile => (LoRaWANTask \/ NetChange \/ Tick) /\ NoPublication
BY DEF Meanwhile, LoRaWANTask

\* Publishing between two turns does nothing the forwarder could not do.
THEOREM TurnsAreForwarders == TurnSpec => Spec
<1>1. TurnInit => Init
  BY DEF TurnInit
<1>2. [TurnNext]_allVars => [Next]_vars
  BY LoopIs, MeanwhileIs DEF TurnNext, Publish, Next, allVars
<1>3. QED
  BY <1>1, <1>2, PTL DEF TurnSpec, Spec

LEMMA ForwarderHolds ==
  TurnSpec => [](TypeOK /\ ConnectedOnThisSocket /\ SilenceInv)
BY TurnsAreForwarders, TypeCorrect, ConnectionCorrect, SilenceCorrect, PTL

\* What was published last is what is shown, and between two turns it is what
\* the forwarder has.
ShownInv ==
  /\ published_once => /\ shown_forwarded = last_published_forwarded
                       /\ shown_connected = OnOff(last_published_connected)
  /\ ForwardedIsShown
  /\ 3 * keepalive_ms < MILLIS_MOD => ConnectedIsShown

LEMMA ShownInit == TurnInit => ShownInv
BY DEF TurnInit, ShownInv, ForwardedIsShown, ConnectedIsShown, BetweenTurns

\* The other task, the clock and the network leave alone what is shown, and
\* time only makes an answer older.
LEMMA MeanwhileQuiet ==
  ASSUME TypeOK, Meanwhile
  PROVE  /\ UNCHANGED <<pc, uplinks_forwarded, fd, pulled, publishing, shown>>
         /\ got_pull_ack' = got_pull_ack
         /\ silence' < 3 * keepalive_ms /\ got_pull_ack
              => silence < 3 * keepalive_ms
<1>0. silence \in Int /\ MILLIS_MOD \in Int /\ keepalive_ms \in Int
  BY ClockAssumption DEF TypeOK, TypeOfTimes
<1>1. UNCHANGED <<publishing, shown>>
  BY MeanwhileIs DEF NoPublication
<1> USE DEF keepalive, pullAck, socket, tally, surroundings
<1>2. CASE LoRaWANTask
  BY <1>1, <1>2 DEF LoRaWANTask, CaptureDropped, CaptureTooLarge,
                    CaptureInjected, Capture
<1>3. CASE NetChange
  BY <1>1, <1>3 DEF NetChange
<1>4. CASE Tick
  <2>1. UNCHANGED <<pc, uplinks_forwarded, fd, pulled, got_pull_ack>>
    BY <1>4 DEF Tick
  <2>2. ASSUME got_pull_ack PROVE silence <= silence'
    <3>1. silence' = UpTo(MILLIS_MOD, silence)
      BY <1>4, <2>2 DEF Tick
    <3>2. QED
      BY <1>0, <3>1 DEF UpTo
  <2>3. got_pull_ack => silence' \in Int
    BY <1>4, <1>0 DEF Tick, UpTo
  <2>4. QED
    BY <1>0, <1>1, <2>1, <2>2, <2>3
<1>5. QED
  BY <1>2, <1>3, <1>4, MeanwhileIs

LEMMA ShownNext ==
  ASSUME TypeOK, ConnectedOnThisSocket, SilenceInv, ShownInv, [TurnNext]_allVars
  PROVE  ShownInv'
<1>1. CASE Loop
  <2>1. UNCHANGED shown /\ ~BetweenTurns'
    BY <1>1, LoopIs DEF InTurn, BetweenTurns
  <2>2. QED
    BY <2>1 DEF ShownInv, ForwardedIsShown, ConnectedIsShown, shown
<1>2. CASE Publish
  <2>1. UNCHANGED vars /\ published_once'
    BY <1>2 DEF Publish
  <2>2. /\ last_published_connected' = IsConnected
        /\ shown_connected' = OnOff(IsConnected)
    BY <1>2 DEF Publish, PublishConnected, Changed, ShownInv
  <2>3. /\ last_published_forwarded' = uplinks_forwarded
        /\ shown_forwarded' = uplinks_forwarded
    BY <1>2 DEF Publish, PublishForwarded, Changed, ShownInv
  <2>4. shown_connected' = 1 => fd >= 0 /\ pulled
    BY <2>2 DEF OnOff, IsConnected, ConnectedOnThisSocket
  <2>5. ASSUME 3 * keepalive_ms < MILLIS_MOD,
               got_pull_ack, silence < 3 * keepalive_ms
        PROVE  shown_connected' = 1
    <3>1. silence < MILLIS_MOD
      BY <2>5, ClockAssumption DEF TypeOK, TypeOfTimes
    <3>2. IsConnected
      BY <2>5, <3>1, ThreeIntervals DEF SilenceInv, IsConnected
    <3>3. QED
      BY <2>2, <3>2 DEF OnOff
  <2>6. UNCHANGED <<uplinks_forwarded, fd, pulled, got_pull_ack, silence>>
    BY <2>1 DEF vars, tally, socket, keepalive, pullAck
  <2>7. QED
    BY <2>1, <2>2, <2>3, <2>4, <2>5, <2>6
       DEF ShownInv, ForwardedIsShown, ConnectedIsShown
<1>3. CASE Meanwhile
  BY <1>3, MeanwhileQuiet
     DEF ShownInv, ForwardedIsShown, ConnectedIsShown, BetweenTurns, shown
<1>4. CASE UNCHANGED allVars
  BY <1>4
     DEF allVars, vars, tally, socket, keepalive, pullAck, shown, ShownInv,
         ForwardedIsShown, ConnectedIsShown, BetweenTurns
<1>5. QED
  BY <1>1, <1>2, <1>3, <1>4 DEF TurnNext

LEMMA ShownInvCorrect == TurnSpec => []ShownInv
<1>1. (TypeOK /\ ConnectedOnThisSocket /\ SilenceInv) /\ ShownInv
        /\ [TurnNext]_allVars => ShownInv'
  BY ShownNext
<1>2. QED
  BY <1>1, ShownInit, ForwarderHolds, PTL DEF TurnSpec

\* Between two turns the counter that is shown is the forwarder's.
THEOREM CounterShown == TurnSpec => []ForwardedIsShown
<1>1. ShownInv => ForwardedIsShown
  BY DEF ShownInv
<1>2. QED
  BY <1>1, ShownInvCorrect, PTL

\* Between two turns "connected" is shown for a socket that is open and was
\* answered on, and is shown for as long as the answer is recent, if three
\* keepalive intervals are within the range of millis().
THEOREM ConnectionShown ==
  ASSUME 3 * keepalive_ms < MILLIS_MOD PROVE TurnSpec => []ConnectedIsShown
<1>1. ShownInv => ConnectedIsShown
  BY DEF ShownInv
<1>2. QED
  BY <1>1, ShownInvCorrect, PTL
=============================================================================
