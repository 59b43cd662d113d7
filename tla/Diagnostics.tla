----------------------------- MODULE Diagnostics -----------------------------
(***************************************************************************)
(* The turn of the main task as a whole, LoRaBridge::loop() of             *)
(* src/components/lorabridge/lorabridge.cpp: the forwarder's loop() and    *)
(* then the two diagnostic entities, "Gateway Connected" and "Uplinks      *)
(* Forwarded", which are published when they change.  The LoRaWAN task,    *)
(* the clock and the network go on between the two.                        *)
(* Operators called ...Variant are slips one could make in the code; no    *)
(* action uses them.                                                       *)
(***************************************************************************)
EXTENDS VirtualGatewayForwarder

VARIABLES
  publishing,            \* loop() of the forwarder has returned
  last_published_connected, last_published_forwarded,
  published_once,
  shown_connected,       \* what the entities show
  shown_forwarded

shown == <<last_published_connected, last_published_forwarded, published_once,
           shown_connected, shown_forwarded>>

allVars == <<vars, publishing, shown>>

Unknown == -1            \* of an entity that was never published

OnOff(b) == IF b THEN 1 ELSE 0

TurnInit ==
  /\ Init
  /\ publishing = FALSE
  /\ last_published_connected = FALSE
  /\ last_published_forwarded = 0
  /\ published_once = FALSE
  /\ shown_connected = Unknown
  /\ shown_forwarded = Unknown

\* A turn begins when the last one has published, and publishes when loop()
\* of the forwarder is through, wherever that returned.
InTurn ==
  /\ ~publishing
  /\ publishing' = (pc' = "idle")
  /\ UNCHANGED shown

Loop ==
  \/ SetActive /\ InTurn
  \/ LoopNetworkLost /\ InTurn
  \/ LoopResolve /\ InTurn
  \/ LoopReady /\ InTurn
  \/ LoopReturn /\ InTurn
  \/ ResolveFails /\ InTurn
  \/ ResolveSucceeds /\ InTurn
  \/ DrainRecv /\ InTurn
  \/ DrainEmpty /\ InTurn
  \/ HandlePushAckMatch /\ InTurn
  \/ HandlePushAckOther /\ InTurn
  \/ HandlePullAck /\ InTurn
  \/ HandleOther /\ InTurn
  \/ RetransmitNotDue /\ InTurn
  \/ \E ok \in BOOLEAN : Retransmit(ok) /\ InTurn
  \/ GiveUp /\ InTurn
  \/ \E ok \in BOOLEAN : SendPullData(ok) /\ InTurn
  \/ KeepaliveNotDue /\ InTurn

ChangedVariant(value, last) == value # last
Changed(value, last) == ~published_once \/ value # last

PublishConnectedVariant ==
  IF Changed(IsConnected, last_published_connected)
    THEN shown_connected' = OnOff(IsConnected)
         /\ UNCHANGED last_published_connected
    ELSE UNCHANGED <<last_published_connected, shown_connected>>
PublishConnected ==
  IF Changed(IsConnected, last_published_connected)
    THEN /\ last_published_connected' = IsConnected
         /\ shown_connected' = OnOff(IsConnected)
    ELSE UNCHANGED <<last_published_connected, shown_connected>>

PublishForwarded ==
  IF Changed(uplinks_forwarded, last_published_forwarded)
    THEN /\ last_published_forwarded' = uplinks_forwarded
         /\ shown_forwarded' = uplinks_forwarded
    ELSE UNCHANGED <<last_published_forwarded, shown_forwarded>>

Publish ==
  /\ publishing
  /\ publishing' = FALSE
  /\ PublishConnected
  /\ PublishForwarded
  /\ published_once' = TRUE
  /\ UNCHANGED vars

\* The other task, the network and the clock go on at any point of a turn.
NoPublication == UNCHANGED <<publishing, shown>>

Meanwhile ==
  \/ CaptureDropped /\ NoPublication
  \/ \E len \in PhyLens, t \in Tokens :
       \/ CaptureTooLarge(len, t) /\ NoPublication
       \/ \E ok \in BOOLEAN : CaptureInjected(len, t, ok) /\ NoPublication
  \/ NetChange /\ NoPublication
  \/ Tick /\ NoPublication

TurnNext == Loop \/ Publish \/ Meanwhile

TurnSpec == TurnInit /\ [][TurnNext]_allVars

FairTurnSpec == TurnSpec /\ Fairness /\ WF_allVars(Publish)

-----------------------------------------------------------------------------
(* Correctness *)

BetweenTurns == published_once /\ pc = "idle" /\ ~publishing

\* After the first turn the counter that is shown is the forwarder's, also if
\* nothing was ever counted; and whatever it counts while it works is shown
\* before the next turn begins.
ForwardedIsShown == BetweenTurns => shown_forwarded = uplinks_forwarded

\* Between two turns "connected" is shown only for a socket that is open and
\* on which the server answered, and not withheld while its answer is recent.
ConnectedIsShown ==
  BetweenTurns =>
    /\ shown_connected = 1 => fd >= 0 /\ pulled
    /\ got_pull_ack /\ silence < 3 * keepalive_ms => shown_connected = 1

\* Once the network is gone for good, "disconnected" is shown for good.
NetworkLossShows == <>[]~net => <>[](shown_connected = 0)
=============================================================================
