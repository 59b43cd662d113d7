--------------------------- MODULE ForwarderProofs ---------------------------
(***************************************************************************)
(* Theorems about VirtualGatewayForwarder, for every value of its          *)
(* constants: any number of uplinks, any clock, any timeouts, any lengths. *)
(***************************************************************************)
EXTENDS VirtualGatewayForwarder, FiniteSetTheorems, TLAPS

-----------------------------------------------------------------------------
(* Readings of the clock *)

\* millis() and the difference of two readings are readings.
LEMMA ElapsedType ==
  /\ 0 \in Millis
  /\ \A t, s \in Millis : Elapsed(t, s) \in Millis
  /\ \A t \in Millis : (t + 1) % MILLIS_MOD \in Millis
BY ClockAssumption DEF Elapsed, Millis

\* What a % MILLIS_MOD is for the a that occur.
LEMMA ModCases ==
  /\ \A a \in Millis : a % MILLIS_MOD = a
  /\ \A a \in Int : a < 0 /\ a + MILLIS_MOD >= 0 => a % MILLIS_MOD = a + MILLIS_MOD
  /\ MILLIS_MOD % MILLIS_MOD = 0
BY ClockAssumption DEF Millis

-----------------------------------------------------------------------------
(* Types *)

LEMMA NoPacketType == NoPacket \in Received /\ NoDatagram \in Datagram
BY TokensAssumption, MaxUplinksAssumption
   DEF NoPacket, NoDatagram, Packet, Received, Datagram

LEMMA ArrivalsType == TypeOfCopies => Arrivals \subseteq Received
<1> SUFFICES ASSUME TypeOfCopies, NEW p \in Arrivals PROVE p \in Received
  OBVIOUS
<1>1. ASSUME NEW d \in Datagram, NEW k \in {"PUSH_ACK", "PULL_ACK", "OTHER"}
      PROVE  Packet(k, d) \in Received
  BY DEF Packet, Received, Datagram
<1>2. \/ \E d \in sent : p = Packet("PUSH_ACK", d)
      \/ p = Packet("PULL_ACK", NoDatagram)
      \/ p = Packet("OTHER", NoDatagram)
  BY DEF Arrivals
<1>3. QED
  BY <1>1, <1>2, NoPacketType DEF TypeOfCopies

LEMMA DrawType == ASSUME NEW t, Draw(t) PROVE reused' \in BOOLEAN
BY DEF Draw

\* One more send() for u; u may be 0, no uplink's number.
LEMMA AttemptsType ==
  ASSUME NEW f \in [Uplinks -> Nat], NEW u
  PROVE  [f EXCEPT ![u] = @ + 1] \in [Uplinks -> Nat]
<1>1. CASE u \in Uplinks
  BY <1>1
<1>2. CASE u \notin Uplinks
  BY <1>2
<1>3. QED
  BY <1>1, <1>2

LEMMA SendType ==
  ASSUME TypeOfCopies, NEW u, NEW d \in Datagram, NEW ok \in BOOLEAN,
         Send(u, d, ok), UNCHANGED <<tally, acked>>, captured' \in 0..MaxUplinks
  PROVE  TypeOfCopies'
<1>1. sent' \subseteq Datagram
  BY DEF Send, TypeOfCopies
<1>2. attempts' = [attempts EXCEPT ![u] = @ + 1]
  BY DEF Send
<1>3. attempts \in [Uplinks -> Nat]
  BY DEF TypeOfCopies
<1>4. attempts' \in [Uplinks -> Nat]
  BY <1>2, <1>3, AttemptsType
<1>5. QED
  BY <1>1, <1>4 DEF TypeOfCopies, tally

LEMMA TypeInit == Init => TypeOK
<1> SUFFICES ASSUME Init PROVE TypeOK
  OBVIOUS
<1>1. TypeOfFlags
  BY DEF Init, TypeOfFlags
<1>2. TypeOfTimes
  BY ElapsedType, ClockAssumption DEF Init, TypeOfTimes
<1>3. TypeOfControl
  BY NoPacketType DEF Init, TypeOfControl
<1>4. TypeOfPending
  <2>1. reused \in BOOLEAN
    BY DEF Init
  <2>2. QED
    BY <2>1, NoPacketType, TokensAssumption, MaxUplinksAssumption
       DEF Init, TypeOfPending
<1>5. TypeOfCopies
  BY MaxUplinksAssumption DEF Init, TypeOfCopies
<1>6. QED
  BY <1>1, <1>2, <1>3, <1>4, <1>5 DEF TypeOK

LEMMA TypeNext == TypeOK /\ [Next]_vars => TypeOK'
<1> SUFFICES ASSUME TypeOK, [Next]_vars PROVE TypeOK'
  OBVIOUS
<1>0. TypeOfFlags /\ TypeOfTimes /\ TypeOfControl /\ TypeOfPending /\ TypeOfCopies
  BY DEF TypeOK
<1>1. CASE SetActive
  <2>1. TypeOfFlags'
    BY <1>1, <1>0
       DEF SetActive, TypeOfFlags, polling, pullAck, keepalive, socket,
           pending, timer
  <2>2. TypeOfTimes'
    BY <1>1, <1>0, ClockAssumption
       DEF SetActive, TypeOfTimes, polling, pullAck, keepalive, pending,
           timer
  <2>3. TypeOfControl'
    BY <1>1, <1>0 DEF SetActive, TypeOfControl, socket
  <2>4. TypeOfPending'
    BY <1>1, <1>0 DEF SetActive, TypeOfPending, pending, datagram
  <2>5. TypeOfCopies'
    BY <1>1, <1>0 DEF SetActive, TypeOfCopies, wire, tally
  <2>6. QED
    BY <2>1, <2>2, <2>3, <2>4, <2>5 DEF TypeOK
<1>2. CASE LoopNetworkLost
  <2>1. TypeOfFlags'
    BY <1>2, <1>0
       DEF LoopNetworkLost, CloseSocket, Step, TypeOfFlags, surroundings,
           timer
  <2>2. TypeOfTimes'
    BY <1>2, <1>0 DEF LoopNetworkLost, Step, TypeOfTimes, surroundings, timer
  <2>3. TypeOfControl'
    BY <1>2, <1>0 DEF LoopNetworkLost, CloseSocket, Step, TypeOfControl
  <2>4. TypeOfPending'
    BY <1>2, <1>0 DEF LoopNetworkLost, TypeOfPending, datagram
  <2>5. TypeOfCopies'
    BY <1>2, <1>0 DEF LoopNetworkLost, CloseSocket, Step, TypeOfCopies, tally
  <2>6. QED
    BY <2>1, <2>2, <2>3, <2>4, <2>5 DEF TypeOK
<1>3. CASE LoopResolve \/ LoopReady \/ LoopReturn
  <2>1. TypeOfFlags'
    BY <1>3, <1>0
       DEF LoopResolve, LoopReady, LoopReturn, LoopOn, Step, TypeOfFlags,
           surroundings, pullAck, keepalive, socket, pending, timer
  <2>2. TypeOfTimes'
    BY <1>3, <1>0
       DEF LoopResolve, LoopReady, LoopReturn, LoopOn, Step, TypeOfTimes,
           surroundings, pullAck, keepalive, pending, timer
  <2>3. TypeOfControl'
    BY <1>3, <1>0
       DEF LoopResolve, LoopReady, LoopReturn, LoopOn, Step, TypeOfControl,
           socket
  <2>4. TypeOfPending'
    BY <1>3, <1>0
       DEF LoopResolve, LoopReady, LoopReturn, LoopOn, TypeOfPending,
           pending, datagram
  <2>5. TypeOfCopies'
    BY <1>3, <1>0
       DEF LoopResolve, LoopReady, LoopReturn, LoopOn, Step, TypeOfCopies,
           wire, tally
  <2>6. QED
    BY <2>1, <2>2, <2>3, <2>4, <2>5 DEF TypeOK
<1>4. CASE ResolveFails \/ ResolveSucceeds
  <2>1. TypeOfFlags'
    BY <1>4, <1>0
       DEF ResolveFails, ResolveSucceeds, Step, TypeOfFlags, surroundings,
           polling, pullAck, keepalive, socket, pending, timer
  <2>2. TypeOfTimes'
    BY <1>4, <1>0, ElapsedType
       DEF ResolveFails, ResolveSucceeds, Step, TypeOfTimes, surroundings,
           polling, pullAck, keepalive, pending, timer
  <2>3. TypeOfControl'
    BY <1>4, <1>0
       DEF ResolveFails, ResolveSucceeds, Step, TypeOfControl, socket
  <2>4. TypeOfPending'
    BY <1>4, <1>0
       DEF ResolveFails, ResolveSucceeds, TypeOfPending, pending, datagram
  <2>5. TypeOfCopies'
    BY <1>4, <1>0
       DEF ResolveFails, ResolveSucceeds, Step, TypeOfCopies, wire, tally
  <2>6. QED
    BY <2>1, <2>2, <2>3, <2>4, <2>5 DEF TypeOK
<1>5. CASE DrainRecv
  <2>1. TypeOfFlags'
    BY <1>5, <1>0
       DEF DrainRecv, Step, TypeOfFlags, surroundings, polling, pullAck,
           keepalive, socket, pending, timer
  <2>2. TypeOfTimes'
    BY <1>5, <1>0
       DEF DrainRecv, Step, TypeOfTimes, surroundings, polling, pullAck,
           keepalive, pending, timer
  <2>3. TypeOfControl'
    BY <1>5, <1>0, ArrivalsType DEF DrainRecv, Step, TypeOfControl, socket
  <2>4. TypeOfPending'
    BY <1>5, <1>0 DEF DrainRecv, TypeOfPending, pending, datagram
  <2>5. TypeOfCopies'
    BY <1>5, <1>0, ArrivalsType
       DEF DrainRecv, Step, TypeOfCopies, wire, tally, Received
  <2>6. QED
    BY <2>1, <2>2, <2>3, <2>4, <2>5 DEF TypeOK
<1>6. CASE DrainEmpty
  <2>1. TypeOfFlags'
    BY <1>6, <1>0
       DEF DrainEmpty, Step, TypeOfFlags, surroundings, polling, pullAck,
           keepalive, socket, pending, timer
  <2>2. TypeOfTimes'
    BY <1>6, <1>0
       DEF DrainEmpty, Step, TypeOfTimes, surroundings, polling, pullAck,
           keepalive, pending, timer
  <2>3. TypeOfControl'
    BY <1>6, <1>0 DEF DrainEmpty, Step, TypeOfControl, socket
  <2>4. TypeOfPending'
    BY <1>6, <1>0 DEF DrainEmpty, TypeOfPending, pending, datagram
  <2>5. TypeOfCopies'
    BY <1>6, <1>0 DEF DrainEmpty, Step, TypeOfCopies, wire, tally
  <2>6. QED
    BY <2>1, <2>2, <2>3, <2>4, <2>5 DEF TypeOK
<1>7. CASE HandlePushAckMatch
  <2>1. TypeOfFlags'
    BY <1>7, <1>0
       DEF HandlePushAckMatch, Handle, Step, TypeOfFlags, surroundings,
           polling, pullAck, keepalive, socket, timer
  <2>2. TypeOfTimes'
    BY <1>7, <1>0
       DEF HandlePushAckMatch, Handle, Step, TypeOfTimes, surroundings,
           polling, pullAck, keepalive, timer
  <2>3. TypeOfControl'
    BY <1>7, <1>0, NoPacketType
       DEF HandlePushAckMatch, Handle, Step, TypeOfControl, socket
  <2>4. TypeOfPending'
    BY <1>7, <1>0 DEF HandlePushAckMatch, Handle, TypeOfPending, datagram
  <2>5. TypeOfCopies'
    BY <1>7, <1>0
       DEF HandlePushAckMatch, Handle, Step, TypeOfCopies, wire,
           TypeOfPending
  <2>6. QED
    BY <2>1, <2>2, <2>3, <2>4, <2>5 DEF TypeOK
<1>8. CASE HandlePushAckOther \/ HandlePullAck \/ HandleOther
  <2>1. TypeOfFlags'
    BY <1>8, <1>0
       DEF HandlePushAckOther, HandlePullAck, HandleOther, Handle, Step,
           TypeOfFlags, surroundings, polling, pullAck, keepalive, socket,
           pending, timer
  <2>2. TypeOfTimes'
    BY <1>8, <1>0, ClockAssumption
       DEF HandlePushAckOther, HandlePullAck, HandleOther, Handle, Step,
           TypeOfTimes, surroundings, polling, pullAck, keepalive, pending,
           timer
  <2>3. TypeOfControl'
    BY <1>8, <1>0, NoPacketType
       DEF HandlePushAckOther, HandlePullAck, HandleOther, Handle, Step,
           TypeOfControl, socket
  <2>4. TypeOfPending'
    BY <1>8, <1>0
       DEF HandlePushAckOther, HandlePullAck, HandleOther, Handle,
           TypeOfPending, pending, datagram
  <2>5. TypeOfCopies'
    BY <1>8, <1>0
       DEF HandlePushAckOther, HandlePullAck, HandleOther, Handle, Step,
           TypeOfCopies, wire, tally
  <2>6. QED
    BY <2>1, <2>2, <2>3, <2>4, <2>5 DEF TypeOK
<1>9. CASE RetransmitNotDue \/ GiveUp
  <2>1. TypeOfFlags'
    BY <1>9, <1>0
       DEF RetransmitNotDue, GiveUp, CheckRetransmit, Step, TypeOfFlags,
           surroundings, polling, pullAck, keepalive, socket, timer
  <2>2. TypeOfTimes'
    BY <1>9, <1>0
       DEF RetransmitNotDue, GiveUp, CheckRetransmit, Step, TypeOfTimes,
           surroundings, polling, pullAck, keepalive, timer
  <2>3. TypeOfControl'
    BY <1>9, <1>0
       DEF RetransmitNotDue, GiveUp, CheckRetransmit, Step, TypeOfControl,
           socket
  <2>4. TypeOfPending'
    BY <1>9, <1>0
       DEF RetransmitNotDue, GiveUp, CheckRetransmit, TypeOfPending,
           datagram
  <2>5. TypeOfCopies'
    BY <1>9, <1>0
       DEF RetransmitNotDue, GiveUp, CheckRetransmit, Step, TypeOfCopies,
           wire, tally
  <2>6. QED
    BY <2>1, <2>2, <2>3, <2>4, <2>5 DEF TypeOK
<1>10. ASSUME NEW ok \in BOOLEAN, Retransmit(ok) PROVE TypeOK'
  <2>1. TypeOfFlags'
    BY <1>10, <1>0
       DEF Retransmit, Resent, CheckRetransmit, Step, TypeOfFlags,
           surroundings, polling, pullAck, keepalive, socket
  <2>2. TypeOfTimes'
    BY <1>10, <1>0, ClockAssumption
       DEF Retransmit, Resent, CheckRetransmit, Step, TypeOfTimes,
           surroundings, polling, pullAck, keepalive
  <2>3. TypeOfControl'
    BY <1>10, <1>0
       DEF Retransmit, CheckRetransmit, Step, TypeOfControl, socket
  <2>4. TypeOfPending'
    BY <1>10, <1>0 DEF Retransmit, CheckRetransmit, TypeOfPending, datagram
  <2>5. TypeOfCopies'
    BY <1>10, <1>0, SendType
       DEF Retransmit, CheckRetransmit, Step, TypeOfPending, TypeOfCopies
  <2>6. QED
    BY <2>1, <2>2, <2>3, <2>4, <2>5 DEF TypeOK
<1>11. ASSUME NEW ok \in BOOLEAN, SendPullData(ok) PROVE TypeOK'
  <2>1. TypeOfFlags'
    BY <1>11, <1>0
       DEF SendPullData, Return, Step, TypeOfFlags, surroundings, polling,
           pullAck, keepalive, socket, pending, timer
  <2>2. TypeOfTimes'
    BY <1>11, <1>0, ElapsedType
       DEF SendPullData, Return, Step, TypeOfTimes, surroundings, polling,
           pullAck, keepalive, pending, timer
  <2>3. TypeOfControl'
    BY <1>11, <1>0 DEF SendPullData, Return, Step, TypeOfControl, socket
  <2>4. TypeOfPending'
    BY <1>11, <1>0 DEF SendPullData, Return, TypeOfPending, pending, datagram
  <2>5. TypeOfCopies'
    BY <1>11, <1>0 DEF SendPullData, Return, Step, TypeOfCopies, wire, tally
  <2>6. QED
    BY <2>1, <2>2, <2>3, <2>4, <2>5 DEF TypeOK
<1>12. CASE KeepaliveNotDue
  <2>1. TypeOfFlags'
    BY <1>12, <1>0
       DEF KeepaliveNotDue, Return, Step, TypeOfFlags, surroundings,
           polling, pullAck, keepalive, socket, pending, timer
  <2>2. TypeOfTimes'
    BY <1>12, <1>0, ElapsedType
       DEF KeepaliveNotDue, Return, Step, TypeOfTimes, surroundings,
           polling, pullAck, keepalive, pending, timer
  <2>3. TypeOfControl'
    BY <1>12, <1>0 DEF KeepaliveNotDue, Return, Step, TypeOfControl, socket
  <2>4. TypeOfPending'
    BY <1>12, <1>0
       DEF KeepaliveNotDue, Return, TypeOfPending, pending, datagram
  <2>5. TypeOfCopies'
    BY <1>12, <1>0
       DEF KeepaliveNotDue, Return, Step, TypeOfCopies, wire, tally
  <2>6. QED
    BY <2>1, <2>2, <2>3, <2>4, <2>5 DEF TypeOK
<1>13. CASE CaptureDropped
  <2>1. TypeOfFlags'
    BY <1>13, <1>0
       DEF CaptureDropped, Capture, TypeOfFlags, surroundings, polling,
           pullAck, keepalive, socket, pending, timer
  <2>2. TypeOfTimes'
    BY <1>13, <1>0
       DEF CaptureDropped, Capture, TypeOfTimes, surroundings, polling,
           pullAck, keepalive, pending, timer
  <2>3. TypeOfControl'
    BY <1>13, <1>0 DEF CaptureDropped, Capture, TypeOfControl, socket
  <2>4. TypeOfPending'
    BY <1>13, <1>0 DEF CaptureDropped, TypeOfPending, pending, datagram
  <2>5. TypeOfCopies'
    BY <1>13, <1>0, MaxUplinksAssumption
       DEF CaptureDropped, Capture, TypeOfCopies, wire, tally
  <2>6. QED
    BY <2>1, <2>2, <2>3, <2>4, <2>5 DEF TypeOK
<1>14. ASSUME NEW len \in PhyLens, NEW t \in Tokens, CaptureTooLarge(len, t)
        PROVE  TypeOK'
  <2>1. TypeOfFlags'
    BY <1>14, <1>0
       DEF CaptureTooLarge, Capture, TypeOfFlags, surroundings, polling,
           pullAck, keepalive, socket, timer
  <2>2. TypeOfTimes'
    BY <1>14, <1>0
       DEF CaptureTooLarge, Capture, TypeOfTimes, surroundings, polling,
           pullAck, keepalive, timer
  <2>3. TypeOfControl'
    BY <1>14, <1>0 DEF CaptureTooLarge, Capture, TypeOfControl, socket
  <2>4. TypeOfPending'
    <3>1. reused' \in BOOLEAN
      BY <1>14, DrawType DEF CaptureTooLarge
    <3>2. QED
      BY <3>1, <1>14, <1>0, MaxUplinksAssumption
         DEF CaptureTooLarge, Capture, TypeOfPending, TypeOfCopies, Datagram
  <2>5. TypeOfCopies'
    BY <1>14, <1>0, MaxUplinksAssumption
       DEF CaptureTooLarge, Capture, TypeOfCopies, wire, tally
  <2>6. QED
    BY <2>1, <2>2, <2>3, <2>4, <2>5 DEF TypeOK
<1>15. ASSUME NEW len \in PhyLens, NEW t \in Tokens, NEW ok \in BOOLEAN,
               CaptureInjected(len, t, ok)
        PROVE  TypeOK'
  <2>1. TypeOfFlags'
    BY <1>15, <1>0
       DEF CaptureInjected, BecomePending, Capture, TypeOfFlags,
           surroundings, polling, pullAck, keepalive, socket
  <2>2. TypeOfTimes'
    BY <1>15, <1>0, ClockAssumption
       DEF CaptureInjected, BecomePending, Capture, TypeOfTimes,
           surroundings, polling, pullAck, keepalive
  <2>3. TypeOfControl'
    BY <1>15, <1>0 DEF CaptureInjected, Capture, TypeOfControl, socket
  <2>4. TypeOfPending'
    <3>1. reused' \in BOOLEAN
      BY <1>15, DrawType DEF CaptureInjected
    <3>2. QED
      BY <3>1, <1>15, <1>0, MaxUplinksAssumption
         DEF CaptureInjected, BecomePending, Capture, TypeOfPending,
             TypeOfCopies, Datagram
  <2>5. pending_buf' \in Datagram /\ captured' \in 0..MaxUplinks
    BY <1>15, <1>0, MaxUplinksAssumption
       DEF CaptureInjected, Capture, Datagram, TypeOfCopies
  <2>6. TypeOfCopies'
    BY <1>15, <1>0, <2>5, SendType DEF CaptureInjected, Capture
  <2>7. QED
    BY <2>1, <2>2, <2>3, <2>4, <2>6 DEF TypeOK
<1>16. CASE NetChange
  <2>1. TypeOfFlags'
    BY <1>16, <1>0
       DEF NetChange, TypeOfFlags, polling, pullAck, keepalive, socket,
           pending, timer
  <2>2. TypeOfTimes'
    BY <1>16, <1>0
       DEF NetChange, TypeOfTimes, polling, pullAck, keepalive, pending,
           timer
  <2>3. TypeOfControl'
    BY <1>16, <1>0 DEF NetChange, TypeOfControl, socket
  <2>4. TypeOfPending'
    BY <1>16, <1>0 DEF NetChange, TypeOfPending, pending, datagram
  <2>5. TypeOfCopies'
    BY <1>16, <1>0 DEF NetChange, TypeOfCopies, wire, tally
  <2>6. QED
    BY <2>1, <2>2, <2>3, <2>4, <2>5 DEF TypeOK
<1>17. CASE Tick
  <2>1. TypeOfFlags'
    BY <1>17, <1>0 DEF Tick, TypeOfFlags, polling, keepalive, socket
  <2>2. TypeOfTimes'
    BY <1>17, <1>0, ElapsedType, ClockAssumption
       DEF Tick, UpTo, TypeOfTimes, polling, keepalive
  <2>3. TypeOfControl'
    BY <1>17, <1>0 DEF Tick, TypeOfControl, socket
  <2>4. TypeOfPending'
    BY <1>17, <1>0 DEF Tick, TypeOfPending, datagram
  <2>5. TypeOfCopies'
    BY <1>17, <1>0 DEF Tick, TypeOfCopies, wire, tally
  <2>6. QED
    BY <2>1, <2>2, <2>3, <2>4, <2>5 DEF TypeOK
<1>18. CASE UNCHANGED vars
  <2>1. TypeOfFlags'
    BY <1>18, <1>0
       DEF vars, TypeOfFlags, surroundings, polling, pullAck, keepalive,
           socket, pending, timer
  <2>2. TypeOfTimes'
    BY <1>18, <1>0
       DEF vars, TypeOfTimes, surroundings, polling, pullAck, keepalive,
           pending, timer
  <2>3. TypeOfControl'
    BY <1>18, <1>0 DEF vars, TypeOfControl, socket
  <2>4. TypeOfPending'
    BY <1>18, <1>0 DEF vars, TypeOfPending, pending, datagram
  <2>5. TypeOfCopies'
    BY <1>18, <1>0 DEF vars, TypeOfCopies, wire, tally
  <2>6. QED
    BY <2>1, <2>2, <2>3, <2>4, <2>5 DEF TypeOK
<1>19. QED
  BY <1>1, <1>2, <1>3, <1>4, <1>5, <1>6, <1>7, <1>8, <1>9, <1>10, <1>11,
     <1>12, <1>13, <1>14, <1>15, <1>16, <1>17, <1>18
     DEF Next, MainTask, LoRaWANTask
-----------------------------------------------------------------------------
(* The socket *)

\* What PendingHasSocket and ConnectedOnThisSocket rest on: a socket is made
\* only where the network was seen up and none is open, and a datagram in hand
\* came in on the socket that is still open, since only the top of loop()
\* closes it.
SocketInv ==
  /\ PendingHasSocket
  /\ ConnectedOnThisSocket
  /\ pc = "resolve" => last_net_connected /\ ~ready
  /\ pc # "handle" => rx = NoPacket
  /\ rx.kind = "PULL_ACK" => fd >= 0 /\ pulled

LEMMA SocketInit == Init => SocketInv
BY DEF Init, SocketInv, PendingHasSocket, ConnectedOnThisSocket, NoPacket, Packet

LEMMA SocketNext == SocketInv /\ [Next]_vars => SocketInv'
<1> SUFFICES ASSUME SocketInv, [Next]_vars PROVE SocketInv'
  OBVIOUS
<1> USE DEF SocketInv, PendingHasSocket, ConnectedOnThisSocket, Step, socket, polling,
            keepalive, pullAck, pending, NoPacket, Packet
<1>1. CASE SetActive
  BY <1>1 DEF SetActive
<1>2. CASE LoopNetworkLost
  BY <1>2 DEF LoopNetworkLost, CloseSocket
<1>3. CASE LoopResolve \/ LoopReady \/ LoopReturn
  BY <1>3 DEF LoopResolve, LoopReady, LoopReturn, LoopOn, ResolveDue
<1>4. CASE ResolveFails \/ ResolveSucceeds
  BY <1>4 DEF ResolveFails, ResolveSucceeds
<1>5. CASE DrainRecv \/ DrainEmpty
  BY <1>5 DEF DrainRecv, DrainEmpty, Arrivals
<1>6. CASE HandlePushAckMatch \/ HandlePushAckOther
  BY <1>6 DEF HandlePushAckMatch, HandlePushAckOther, Handle
<1>7. CASE HandlePullAck \/ HandleOther
  BY <1>7 DEF HandlePullAck, HandleOther, Handle
<1>8. CASE RetransmitNotDue \/ GiveUp \/ \E ok \in BOOLEAN : Retransmit(ok)
  BY <1>8 DEF RetransmitNotDue, GiveUp, Retransmit, CheckRetransmit
<1>9. CASE KeepaliveNotDue
  BY <1>9 DEF KeepaliveNotDue, Return
<1>10. ASSUME NEW ok \in BOOLEAN, SendPullData(ok) PROVE SocketInv'
  <2>1. UNCHANGED <<ready, fd, last_net_connected, pending_active, got_pull_ack, rx>>
    BY <1>10 DEF SendPullData, Return
  <2>2. pulled => pulled'
    BY <1>10 DEF SendPullData
  <2>3. pc' = "idle" /\ pc = "keepalive"
    BY <1>10 DEF SendPullData, Return
  <2>4. QED
    BY <2>1, <2>2, <2>3
<1>11. CASE CaptureDropped
  BY <1>11 DEF CaptureDropped, Capture
<1>12. ASSUME NEW len \in PhyLens, NEW t \in Tokens, CaptureTooLarge(len, t)
       PROVE  SocketInv'
  BY <1>12 DEF CaptureTooLarge, Capture
<1>13. ASSUME NEW len \in PhyLens, NEW t \in Tokens, NEW ok \in BOOLEAN,
              CaptureInjected(len, t, ok)
       PROVE  SocketInv'
  BY <1>13 DEF CaptureInjected, BecomePending, Capture
<1>14. CASE NetChange \/ Tick
  BY <1>14 DEF NetChange, Tick
<1>15. CASE UNCHANGED vars
  BY <1>15 DEF vars
<1>16. QED
  BY <1>1, <1>2, <1>3, <1>4, <1>5, <1>6, <1>7, <1>8, <1>9, <1>10, <1>11, <1>12,
     <1>13, <1>14, <1>15 DEF Next, MainTask, LoRaWANTask

-----------------------------------------------------------------------------
(* The copies *)

\* How often the pending copy was sent is what pending_retransmitted_ says,
\* and no number past the last uplink's has been used.
AttemptsInv ==
  /\ SentAtMostTwice
  /\ \A u \in Uplinks : u > captured => attempts[u] = 0
  /\ pending_active => /\ pending_uplink \in 1..captured
                       /\ attempts[pending_uplink] =
                            IF pending_retransmitted THEN 2 ELSE 1

\* Steps that send nothing and make nothing pending.
LEMMA AttemptsQuiet ==
  ASSUME AttemptsInv, pending_active' => pending_active,
         UNCHANGED <<attempts, captured, pending_uplink, pending_retransmitted>>
  PROVE  AttemptsInv'
BY DEF AttemptsInv, SentAtMostTwice

LEMMA AttemptsInit == Init => AttemptsInv
BY DEF Init, AttemptsInv, SentAtMostTwice

LEMMA AttemptsNext == TypeOK /\ AttemptsInv /\ [Next]_vars => AttemptsInv'
<1> SUFFICES ASSUME TypeOK, AttemptsInv, [Next]_vars PROVE AttemptsInv'
  OBVIOUS
<1>0. TypeOfCopies
  BY DEF TypeOK
<1>1. CASE SetActive
  BY <1>1, AttemptsQuiet DEF SetActive, pending, datagram, timer, wire
<1>2. CASE LoopNetworkLost
  BY <1>2, AttemptsQuiet DEF LoopNetworkLost, CloseSocket, Step, datagram, timer
<1>3. CASE LoopResolve \/ LoopReady \/ LoopReturn
  BY <1>3, AttemptsQuiet
     DEF LoopResolve, LoopReady, LoopReturn, LoopOn, Step, pending, datagram,
         timer, wire
<1>4. CASE ResolveFails \/ ResolveSucceeds
  BY <1>4, AttemptsQuiet
     DEF ResolveFails, ResolveSucceeds, Step, pending, datagram, timer, wire
<1>5. CASE DrainRecv \/ DrainEmpty
  BY <1>5, AttemptsQuiet
     DEF DrainRecv, DrainEmpty, Step, pending, datagram, timer, wire
<1>6. CASE \/ HandlePushAckMatch \/ HandlePushAckOther
           \/ HandlePullAck \/ HandleOther
  BY <1>6, AttemptsQuiet
     DEF HandlePushAckMatch, HandlePushAckOther, HandlePullAck, HandleOther,
         Handle, Step, pending, datagram, timer, wire
<1>7. CASE RetransmitNotDue \/ GiveUp
  BY <1>7, AttemptsQuiet
     DEF RetransmitNotDue, GiveUp, CheckRetransmit, Step, datagram, timer, wire
<1>8. ASSUME NEW ok \in BOOLEAN, Retransmit(ok) PROVE AttemptsInv'
  <2>1. /\ pending_active
        /\ ~pending_retransmitted
        /\ pending_active'
        /\ pending_retransmitted'
        /\ UNCHANGED <<captured, pending_uplink>>
    BY <1>8 DEF Retransmit, Resent, CheckRetransmit, Step, datagram
  <2>2. /\ pending_uplink \in 1..captured
        /\ attempts[pending_uplink] = 1
        /\ captured \in 0..MaxUplinks
    BY <2>1, <1>0 DEF AttemptsInv, TypeOfCopies
  <2>3. attempts' = [attempts EXCEPT ![pending_uplink] = @ + 1]
    BY <1>8 DEF Retransmit, Send
  <2>4. pending_uplink \in Uplinks
    BY <2>2, MaxUplinksAssumption DEF Uplinks
  <2>5. /\ attempts'[pending_uplink] = 2
        /\ \A u \in Uplinks \ {pending_uplink} : attempts'[u] = attempts[u]
    BY <2>2, <2>3, <2>4, <1>0 DEF TypeOfCopies
  <2>6. QED
    BY <2>1, <2>2, <2>5 DEF AttemptsInv, SentAtMostTwice
<1>9. CASE KeepaliveNotDue \/ \E ok \in BOOLEAN : SendPullData(ok)
  BY <1>9, AttemptsQuiet
     DEF KeepaliveNotDue, SendPullData, Return, Step, pending, datagram, timer,
         wire
<1>10. ASSUME CaptureDropped \/ \E len \in PhyLens, t \in Tokens : CaptureTooLarge(len, t)
       PROVE  AttemptsInv'
  <2>1. /\ captured' = captured + 1
        /\ UNCHANGED <<attempts, pending_active, pending_uplink,
                       pending_retransmitted>>
    BY <1>10 DEF CaptureDropped, CaptureTooLarge, Capture, pending, datagram,
                 timer, wire
  <2>2. QED
    BY <2>1, <1>0, MaxUplinksAssumption
       DEF AttemptsInv, SentAtMostTwice, TypeOfCopies, Uplinks
<1>11. ASSUME NEW len \in PhyLens, NEW t \in Tokens, NEW ok \in BOOLEAN,
              CaptureInjected(len, t, ok)
       PROVE  AttemptsInv'
  <2>1. /\ captured < MaxUplinks
        /\ captured' = captured + 1
        /\ pending_uplink' = captured'
        /\ attempts' = [attempts EXCEPT ![captured'] = @ + 1]
    BY <1>11 DEF CaptureInjected, Capture, Send, BecomePending
  <2>2. pending_active' /\ ~pending_retransmitted'
    BY <1>11 DEF CaptureInjected, BecomePending
  <2>3. captured' \in Uplinks /\ captured \in Nat
    BY <2>1, <1>0, MaxUplinksAssumption DEF TypeOfCopies, Uplinks
  <2>4. attempts[captured'] = 0
    BY <2>1, <2>3 DEF AttemptsInv, Uplinks
  <2>5. /\ attempts'[captured'] = 1
        /\ \A u \in Uplinks \ {captured'} : attempts'[u] = attempts[u]
    BY <2>1, <2>3, <2>4, <1>0 DEF TypeOfCopies
  <2>6. SentAtMostTwice' /\ \A u \in Uplinks : u > captured' => attempts'[u] = 0
    BY <2>1, <2>3, <2>5 DEF AttemptsInv, SentAtMostTwice, Uplinks
  <2>7. QED
    BY <2>1, <2>2, <2>3, <2>5, <2>6 DEF AttemptsInv
<1>12. CASE NetChange \/ Tick
  BY <1>12, AttemptsQuiet DEF NetChange, Tick, pending, datagram, timer, wire
<1>13. CASE UNCHANGED vars
  BY <1>13, AttemptsQuiet DEF vars, pending, datagram, timer, wire
<1>14. QED
  BY <1>1, <1>2, <1>3, <1>4, <1>5, <1>6, <1>7, <1>8, <1>9, <1>10, <1>11,
     <1>12, <1>13 DEF Next, MainTask, LoRaWANTask

-----------------------------------------------------------------------------
(* The retransmit timer *)

\* The clock never shows more than has passed since the last send.
AgeInv ==
  pending_active => \/ age = RETRANSMIT_TIMEOUT_MS
                    \/ Elapsed(millis, pending_sent_ms) <= age

\* A tick adds one to the difference, or wraps it to 0.
LEMMA ElapsedTick ==
  ASSUME NEW t \in Millis, NEW s \in Millis
  PROVE  Elapsed((t + 1) % MILLIS_MOD, s) <= Elapsed(t, s) + 1
<1> DEFINE n == (t + 1) % MILLIS_MOD
<1>0. /\ t \in Int /\ s \in Int /\ MILLIS_MOD \in Int
      /\ 0 <= t /\ t < MILLIS_MOD /\ 0 <= s /\ s < MILLIS_MOD
  BY ClockAssumption DEF Millis
<1>1. CASE t + 1 = MILLIS_MOD
  <2>1. n = 0
    BY <1>1, ModCases
  <2>2. CASE s = 0
    <3>1. n - s = 0 /\ n - s \in Millis
      BY <1>0, <2>1, <2>2, ElapsedType
    <3>2. Elapsed(n, s) = 0
      BY <3>1, ModCases DEF Elapsed
    <3>3. QED
      BY <3>2, ElapsedType DEF Millis
  <2>3. CASE s > 0
    <3>1. Elapsed(n, s) = MILLIS_MOD - s
      <4>1. n - s \in Int /\ n - s < 0 /\ (n - s) + MILLIS_MOD >= 0
        BY <1>0, <2>1, <2>3
      <4>2. QED
        BY <4>1, <1>0, <2>1, ModCases DEF Elapsed
    <3>2. Elapsed(t, s) = t - s
      BY <1>0, <1>1, <2>3, ModCases DEF Elapsed, Millis
    <3>3. QED
      BY <3>1, <3>2, <1>0, <1>1
  <2>4. QED
    BY <2>2, <2>3, <1>0
<1>2. CASE t + 1 < MILLIS_MOD
  <2>1. n = t + 1
    BY <1>0, <1>2, ModCases DEF Millis
  <2>2. CASE t >= s
    <3>1. Elapsed(n, s) = t + 1 - s
      BY <1>0, <1>2, <2>1, <2>2, ModCases DEF Elapsed, Millis
    <3>2. Elapsed(t, s) = t - s
      BY <1>0, <1>2, <2>2, ModCases DEF Elapsed, Millis
    <3>3. QED
      BY <3>1, <3>2, <1>0
  <2>3. CASE t < s
    <3>1. Elapsed(t, s) = t - s + MILLIS_MOD
      <4>1. t - s \in Int /\ t - s < 0 /\ (t - s) + MILLIS_MOD >= 0
        BY <1>0, <2>3
      <4>2. QED
        BY <4>1, <1>0, ModCases DEF Elapsed
    <3>2. CASE t + 1 = s
      <4>1. n - s = 0 /\ n - s \in Millis
        BY <1>0, <2>1, <3>2, ElapsedType
      <4>2. Elapsed(n, s) = 0
        BY <4>1, ModCases DEF Elapsed
      <4>3. QED
        BY <4>2, <3>1, <1>0, <2>3
    <3>3. CASE t + 1 < s
      <4>1. n - s \in Int /\ n - s < 0 /\ (n - s) + MILLIS_MOD >= 0
        BY <1>0, <2>1, <3>3
      <4>2. Elapsed(n, s) = n - s + MILLIS_MOD
        BY <4>1, <1>0, ModCases DEF Elapsed
      <4>3. QED
        BY <4>2, <2>1, <3>1, <1>0
    <3>4. QED
      BY <3>2, <3>3, <2>3, <1>0
  <2>4. QED
    BY <2>2, <2>3, <1>0
<1>3. QED
  BY <1>1, <1>2, <1>0

\* Steps that let no time pass and send nothing.
LEMMA AgeQuiet ==
  ASSUME AgeInv, pending_active' => pending_active,
         UNCHANGED <<millis, pending_sent_ms, age>>
  PROVE  AgeInv'
BY DEF AgeInv, Elapsed

\* Steps that send the pending copy.
LEMMA AgeSend ==
  ASSUME TypeOfTimes, UNCHANGED millis, pending_sent_ms' = millis, age' = 0
  PROVE  AgeInv'
<1>1. millis - millis = 0
  BY ClockAssumption DEF TypeOfTimes, Millis
<1>2. Elapsed(millis', pending_sent_ms') = 0
  BY <1>1, ElapsedType, ModCases DEF Elapsed
<1>3. QED
  BY <1>2 DEF AgeInv

LEMMA AgeInit == Init => AgeInv
BY DEF Init, AgeInv

LEMMA AgeNext == TypeOK /\ AgeInv /\ [Next]_vars => AgeInv'
<1> SUFFICES ASSUME TypeOK, AgeInv, [Next]_vars PROVE AgeInv'
  OBVIOUS
<1>0. TypeOfTimes
  BY DEF TypeOK
<1>1. CASE SetActive
  BY <1>1, AgeQuiet DEF SetActive, pending, timer
<1>2. CASE LoopNetworkLost
  BY <1>2, AgeQuiet
     DEF LoopNetworkLost, CloseSocket, Step, surroundings, timer
<1>3. CASE LoopResolve \/ LoopReady \/ LoopReturn
  BY <1>3, AgeQuiet
     DEF LoopResolve, LoopReady, LoopReturn, LoopOn, Step, surroundings,
         pending, timer
<1>4. CASE ResolveFails \/ ResolveSucceeds
  BY <1>4, AgeQuiet
     DEF ResolveFails, ResolveSucceeds, Step, surroundings, pending, timer
<1>5. CASE DrainRecv \/ DrainEmpty
  BY <1>5, AgeQuiet
     DEF DrainRecv, DrainEmpty, Step, surroundings, pending, timer
<1>6. CASE \/ HandlePushAckMatch \/ HandlePushAckOther
           \/ HandlePullAck \/ HandleOther
  BY <1>6, AgeQuiet
     DEF HandlePushAckMatch, HandlePushAckOther, HandlePullAck, HandleOther,
         Handle, Step, surroundings, pending, timer
<1>7. CASE RetransmitNotDue \/ GiveUp
  BY <1>7, AgeQuiet
     DEF RetransmitNotDue, GiveUp, CheckRetransmit, Step, surroundings, timer
<1>8. ASSUME NEW ok \in BOOLEAN, Retransmit(ok) PROVE AgeInv'
  BY <1>8, <1>0, AgeSend
     DEF Retransmit, Resent, CheckRetransmit, Step, surroundings
<1>9. CASE KeepaliveNotDue \/ \E ok \in BOOLEAN : SendPullData(ok)
  BY <1>9, AgeQuiet
     DEF KeepaliveNotDue, SendPullData, Return, Step, surroundings, pending,
         timer
<1>10. ASSUME \/ CaptureDropped
              \/ \E len \in PhyLens, t \in Tokens : CaptureTooLarge(len, t)
       PROVE  AgeInv'
  BY <1>10, AgeQuiet
     DEF CaptureDropped, CaptureTooLarge, Capture, surroundings, pending, timer
<1>11. ASSUME NEW len \in PhyLens, NEW t \in Tokens, NEW ok \in BOOLEAN,
              CaptureInjected(len, t, ok)
       PROVE  AgeInv'
  BY <1>11, <1>0, AgeSend
     DEF CaptureInjected, BecomePending, Capture, surroundings
<1>12. CASE NetChange
  BY <1>12, AgeQuiet DEF NetChange, pending, timer
<1>13. CASE Tick
  <2> SUFFICES ASSUME pending_active'
               PROVE  \/ age' = RETRANSMIT_TIMEOUT_MS
                      \/ Elapsed(millis', pending_sent_ms') <= age'
    BY DEF AgeInv
  <2>1. /\ pending_active
        /\ pending_sent_ms' = pending_sent_ms
        /\ millis' = (millis + 1) % MILLIS_MOD
    BY <1>13 DEF Tick
  <2>2. age' = UpTo(RETRANSMIT_TIMEOUT_MS, age)
    BY <1>13, <2>1 DEF Tick
  <2>3. Elapsed(millis', pending_sent_ms')
          <= Elapsed(millis, pending_sent_ms) + 1
    BY <2>1, <1>0, ElapsedTick DEF TypeOfTimes
  <2>4. /\ age \in Nat /\ age <= RETRANSMIT_TIMEOUT_MS
        /\ Elapsed(millis, pending_sent_ms) \in Int
        /\ Elapsed(millis', pending_sent_ms') \in Int
    BY <2>1, <1>0, ElapsedType, ClockAssumption DEF TypeOfTimes, Millis
  <2>5. age = RETRANSMIT_TIMEOUT_MS \/ Elapsed(millis, pending_sent_ms) <= age
    BY <2>1 DEF AgeInv
  <2>6. QED
    BY <2>2, <2>3, <2>4, <2>5, ClockAssumption DEF UpTo
<1>14. CASE UNCHANGED vars
  BY <1>14, AgeQuiet DEF vars, surroundings, pending, timer
<1>15. QED
  BY <1>1, <1>2, <1>3, <1>4, <1>5, <1>6, <1>7, <1>8, <1>9, <1>10, <1>11,
     <1>12, <1>13, <1>14 DEF Next, MainTask, LoRaWANTask

-----------------------------------------------------------------------------
(* The count *)

\* What CountedWereAcked says of the count.
CountsAcked == counted \subseteq acked /\ uplinks_forwarded = Cardinality(counted)

\* As long as tokens in use are not drawn again, an acknowledgement in hand is
\* for a datagram that left on this socket, and only datagrams of the pending
\* copy have its token.
CountInv ==
  /\ CountsAcked
  /\ counted \subseteq 1..captured
  /\ rx.kind = "PUSH_ACK"
       => /\ [token |-> rx.token, uplink |-> rx.uplink] \in sent
          /\ rx.uplink \in acked
  /\ pending_active
       => /\ pending_uplink \in (1..captured) \ counted
          /\ pending_buf.token = pending_token => pending_buf.uplink = pending_uplink
          /\ \A d \in sent : d.token = pending_token => d.uplink = pending_uplink

\* Steps that neither send, nor receive, nor count, nor make pending.
LEMMA CountQuiet ==
  ASSUME CountInv, pending_active' => pending_active,
         rx' = rx \/ rx' = NoPacket,
         UNCHANGED <<datagram, sent, tally, captured, acked>>
  PROVE  CountInv'
BY DEF CountInv, CountsAcked, NoPacket, Packet, datagram, tally

\* What was drawn again stays drawn again.
LEMMA ReusedStays == [Next]_vars => (reused => reused')
<1> SUFFICES ASSUME [Next]_vars PROVE reused => reused'
  OBVIOUS
<1>1. UNCHANGED datagram \/ \E t : Draw(t)
  BY DEF Next, MainTask, LoRaWANTask, SetActive, LoopNetworkLost, LoopResolve,
         LoopReady, LoopReturn, LoopOn, ResolveFails, ResolveSucceeds,
         DrainRecv, DrainEmpty, HandlePushAckMatch, HandlePushAckOther,
         HandlePullAck, HandleOther, RetransmitNotDue, GiveUp, Retransmit,
         CheckRetransmit, KeepaliveNotDue, SendPullData, Return,
         CaptureDropped, CaptureTooLarge, CaptureInjected, NetChange, Tick,
         vars, pending
<1>2. QED
  BY <1>1 DEF datagram, Draw

LEMMA CountInit == Init => CountInv
BY FS_EmptySet DEF Init, CountInv, CountsAcked, NoPacket, Packet

LEMMA CountNext ==
  ASSUME ~reused', TypeOK, SocketInv, CountInv, [Next]_vars
  PROVE  CountInv'
<1>0. TypeOfCopies /\ TypeOfPending
  BY DEF TypeOK
<1>1. CASE SetActive
  BY <1>1, CountQuiet DEF SetActive, pending, wire
<1>2. CASE LoopNetworkLost
  <2>1. /\ UNCHANGED <<counted, acked, uplinks_forwarded, captured>>
        /\ rx' = NoPacket
        /\ ~pending_active'
    BY <1>2 DEF LoopNetworkLost, CloseSocket, Step, tally, SocketInv
  <2>2. QED
    BY <2>1 DEF CountInv, CountsAcked, NoPacket, Packet
<1>3. CASE LoopResolve \/ LoopReady \/ LoopReturn
  BY <1>3, CountQuiet
     DEF LoopResolve, LoopReady, LoopReturn, LoopOn, Step, pending, wire
<1>4. CASE ResolveFails \/ ResolveSucceeds
  BY <1>4, CountQuiet DEF ResolveFails, ResolveSucceeds, Step, pending, wire
<1>5. CASE DrainRecv
  <2>1. /\ UNCHANGED <<datagram, pending_active, sent, tally, captured>>
        /\ acked \subseteq acked'
    BY <1>5 DEF DrainRecv, Step, pending, wire
  <2>2. ASSUME rx'.kind = "PUSH_ACK"
        PROVE  /\ [token |-> rx'.token, uplink |-> rx'.uplink] \in sent
               /\ rx'.uplink \in acked'
    <3>1. PICK d \in sent : rx' = Packet("PUSH_ACK", d)
      BY <1>5, <2>2 DEF DrainRecv, Arrivals, Packet
    <3>2. d = [token |-> d.token, uplink |-> d.uplink]
      BY <1>0 DEF TypeOfCopies, Datagram
    <3>3. QED
      BY <1>5, <2>2, <3>1, <3>2 DEF DrainRecv, Packet
  <2>3. QED
    BY <2>1, <2>2 DEF CountInv, CountsAcked, datagram, tally
<1>6. CASE DrainEmpty
  BY <1>6, CountQuiet DEF DrainEmpty, Step, pending, wire
<1>7. CASE HandlePushAckMatch
  <2>1. /\ rx.kind = "PUSH_ACK"
        /\ pending_active
        /\ rx.token = pending_token
    BY <1>7 DEF HandlePushAckMatch, Handle, AckMatches
  <2>2. /\ rx' = NoPacket
        /\ ~pending_active'
        /\ uplinks_forwarded' = uplinks_forwarded + 1
        /\ counted' = counted \cup {pending_uplink}
        /\ UNCHANGED <<captured, acked>>
    BY <1>7 DEF HandlePushAckMatch, Handle, Step
  <2>3. rx.uplink = pending_uplink
    BY <2>1 DEF CountInv
  <2>4. pending_uplink \in acked /\ pending_uplink \in (1..captured) \ counted
    BY <2>1, <2>3 DEF CountInv
  <2>5. Cardinality(counted') = Cardinality(counted) + 1
    <3>1. IsFiniteSet(1..captured)
      BY <1>0, FS_Interval DEF TypeOfCopies
    <3>2. IsFiniteSet(counted)
      BY <3>1, FS_Subset DEF CountInv
    <3>3. QED
      BY <3>2, <2>2, <2>4, FS_AddElement
  <2>6. QED
    BY <2>2, <2>4, <2>5 DEF CountInv, CountsAcked, NoPacket, Packet
<1>8. CASE HandlePushAckOther \/ HandlePullAck \/ HandleOther
  BY <1>8, CountQuiet
     DEF HandlePushAckOther, HandlePullAck, HandleOther, Handle, Step, pending,
         wire
<1>9. CASE RetransmitNotDue \/ GiveUp
  BY <1>9, CountQuiet
     DEF RetransmitNotDue, GiveUp, CheckRetransmit, Step, wire
<1>10. ASSUME NEW ok \in BOOLEAN, Retransmit(ok) PROVE CountInv'
  <2>1. /\ pending_active
        /\ UNCHANGED <<rx, datagram, tally, captured, acked>>
    BY <1>10 DEF Retransmit, CheckRetransmit, Step
  <2>2. sent \subseteq sent' /\ sent' \subseteq sent \cup {pending_buf}
    BY <1>10 DEF Retransmit, Send
  <2>3. QED
    BY <2>1, <2>2 DEF CountInv, CountsAcked, datagram, tally
<1>11. CASE KeepaliveNotDue \/ \E ok \in BOOLEAN : SendPullData(ok)
  BY <1>11, CountQuiet
     DEF KeepaliveNotDue, SendPullData, Return, Step, pending, wire
<1>12. CASE CaptureDropped
  <2>1. /\ captured' = captured + 1
        /\ UNCHANGED <<rx, datagram, pending_active, sent, tally, acked>>
    BY <1>12 DEF CaptureDropped, Capture, pending, wire
  <2>2. QED
    BY <2>1, <1>0
       DEF CountInv, CountsAcked, TypeOfCopies, datagram, tally
<1>13. ASSUME NEW len \in PhyLens, NEW t \in Tokens, CaptureTooLarge(len, t)
       PROVE  CountInv'
  <2>1. /\ captured' = captured + 1
        /\ pending_buf'.token = t
        /\ UNCHANGED <<rx, pending_token, pending_uplink, pending_active, sent,
                       tally, acked>>
    BY <1>13 DEF CaptureTooLarge, Capture, wire
  <2>2. pending_active => t # pending_token
    BY <1>13 DEF CaptureTooLarge, Draw, InUse
  <2>3. QED
    BY <2>1, <2>2, <1>0 DEF CountInv, CountsAcked, TypeOfCopies, tally
<1>14. ASSUME NEW len \in PhyLens, NEW t \in Tokens, NEW ok \in BOOLEAN,
              CaptureInjected(len, t, ok)
       PROVE  CountInv'
  <2>1. /\ captured' = captured + 1
        /\ pending_token' = t
        /\ pending_uplink' = captured'
        /\ pending_buf' = [token |-> t, uplink |-> captured']
        /\ UNCHANGED <<rx, tally, acked>>
    BY <1>14 DEF CaptureInjected, BecomePending, Capture
  <2>2. sent \subseteq sent' /\ sent' \subseteq sent \cup {pending_buf'}
    BY <1>14 DEF CaptureInjected, Send
  <2>3. \A d \in sent : d.token # t
    BY <1>14 DEF CaptureInjected, Draw, InUse
  <2>4. /\ counted' \subseteq 1..captured'
        /\ pending_uplink' \in (1..captured') \ counted'
    BY <2>1, <1>0 DEF CountInv, TypeOfCopies, tally
  <2>5. /\ pending_buf'.uplink = pending_uplink'
        /\ \A d \in sent' : d.token = pending_token' => d.uplink = pending_uplink'
    BY <2>1, <2>2, <2>3
  <2>6. /\ CountsAcked'
        /\ rx'.kind = "PUSH_ACK"
             => /\ [token |-> rx'.token, uplink |-> rx'.uplink] \in sent'
                /\ rx'.uplink \in acked'
    BY <2>1, <2>2 DEF CountInv, CountsAcked, tally
  <2>7. QED
    BY <2>4, <2>5, <2>6 DEF CountInv
<1>15. CASE NetChange \/ Tick
  BY <1>15, CountQuiet DEF NetChange, Tick, pending, wire
<1>16. CASE UNCHANGED vars
  BY <1>16, CountQuiet DEF vars, pending, wire
<1>17. QED
  BY <1>1, <1>2, <1>3, <1>4, <1>5, <1>6, <1>7, <1>8, <1>9, <1>10, <1>11,
     <1>12, <1>13, <1>14, <1>15, <1>16 DEF Next, MainTask, LoRaWANTask

-----------------------------------------------------------------------------
(* The theorems *)

\* The conjunction that every step preserves without any assumption.
Inv == TypeOK /\ SocketInv /\ AttemptsInv /\ AgeInv

LEMMA InvInit == Init => Inv
BY TypeInit, SocketInit, AttemptsInit, AgeInit DEF Inv

LEMMA InvNext == Inv /\ [Next]_vars => Inv'
BY TypeNext, SocketNext, AttemptsNext, AgeNext DEF Inv

THEOREM InvCorrect == Spec => []Inv
BY InvInit, InvNext, PTL DEF Spec

\* Every variable keeps to its type.
THEOREM TypeCorrect == Spec => []TypeOK
BY TypeInit, TypeNext, PTL DEF Spec

\* The pending copy and the socket go together, on every platform and clock:
\* close_socket_() forgets what a new socket must not inherit.
THEOREM SocketCorrect == Spec => []PendingHasSocket
<1>1. Inv => PendingHasSocket
  BY DEF Inv, SocketInv
<1>2. QED
  BY InvCorrect, <1>1, PTL

\* The connection shown was established on the socket that is open.
THEOREM ConnectionCorrect == Spec => []ConnectedOnThisSocket
<1>1. Inv => ConnectedOnThisSocket
  BY DEF Inv, SocketInv
<1>2. QED
  BY InvCorrect, <1>1, PTL

\* No copy is handed to send() more than twice.
THEOREM RetransmitOnce == Spec => []SentAtMostTwice
<1>1. Inv => SentAtMostTwice
  BY DEF Inv, AttemptsInv
<1>2. QED
  BY InvCorrect, <1>1, PTL

\* check_retransmit_() is never early, whatever the other task did since the
\* time was last read and wherever millis() wraps, and abandons no copy that
\* was sent only once.
THEOREM RetransmitCorrect == Spec => RetransmitOnTime
<1> DEFINE OnTime ==
      pc = "retransmit" /\ pc' = "keepalive" /\ pending_active
        => /\ attempts' # attempts => age >= RETRANSMIT_TIMEOUT_MS
           /\ ~pending_active' => /\ age >= RETRANSMIT_TIMEOUT_MS
                                  /\ attempts[pending_uplink] = 2
<1>1. Inv /\ [Next]_vars => OnTime
  <2> SUFFICES ASSUME Inv, [Next]_vars,
                      pc = "retransmit", pc' = "keepalive", pending_active
               PROVE  /\ attempts' # attempts => age >= RETRANSMIT_TIMEOUT_MS
                      /\ ~pending_active' => /\ age >= RETRANSMIT_TIMEOUT_MS
                                             /\ attempts[pending_uplink] = 2
    OBVIOUS
  <2>1. \/ RetransmitNotDue
        \/ GiveUp
        \/ \E ok \in BOOLEAN : Retransmit(ok)
    BY DEF Next, MainTask, LoRaWANTask, SetActive, LoopNetworkLost, LoopResolve,
           LoopReady, LoopReturn, LoopOn, ResolveFails, ResolveSucceeds,
           DrainRecv, DrainEmpty, HandlePushAckMatch, HandlePushAckOther,
           HandlePullAck, HandleOther, Handle, KeepaliveNotDue, SendPullData,
           Return, Step, CaptureDropped, CaptureTooLarge, CaptureInjected,
           Capture, NetChange, Tick, vars
  <2>2. ASSUME CheckRetransmit(TRUE) PROVE age >= RETRANSMIT_TIMEOUT_MS
    <3>1. Elapsed(millis, pending_sent_ms) >= RETRANSMIT_TIMEOUT_MS
      BY <2>2 DEF CheckRetransmit, RetransmitDue
    <3>2. \/ age = RETRANSMIT_TIMEOUT_MS
          \/ Elapsed(millis, pending_sent_ms) <= age
      BY DEF Inv, AgeInv
    <3>3. age \in Int /\ Elapsed(millis, pending_sent_ms) \in Int
      BY ElapsedType, ClockAssumption DEF Inv, TypeOK, TypeOfTimes, Millis
    <3>4. QED
      BY <3>1, <3>2, <3>3, ClockAssumption
  <2>3. CASE RetransmitNotDue
    BY <2>3 DEF RetransmitNotDue, wire
  <2>4. CASE GiveUp
    <3>1. pending_retransmitted /\ CheckRetransmit(TRUE)
      BY <2>4 DEF GiveUp
    <3>2. attempts[pending_uplink] = 2
      BY <3>1 DEF Inv, AttemptsInv
    <3>3. QED
      BY <3>1, <3>2, <2>2
  <2>5. CASE \E ok \in BOOLEAN : Retransmit(ok)
    BY <2>5, <2>2 DEF Retransmit
  <2>6. QED
    BY <2>1, <2>3, <2>4, <2>5
<1>2. QED
  BY InvCorrect, <1>1, PTL DEF Spec, RetransmitOnTime

\* Until a token in use is drawn again.
CountInvHere == ~reused => CountInv

LEMMA CountInvCorrect == Spec => []CountInvHere
<1>1. Init => CountInvHere
  BY CountInit DEF CountInvHere
<1>2. Inv /\ CountInvHere /\ [Next]_vars => CountInvHere'
  BY CountNext, ReusedStays DEF Inv, CountInvHere
<1>3. QED
  BY InvCorrect, <1>1, <1>2, PTL DEF Spec

\* Until a token in use is drawn again, uplinks_forwarded_ counts acknowledged
\* copies only, each once, whatever arrives in whatever order.
THEOREM CountCorrect == Spec => []CountedWereAcked
<1>1. CountInvHere => CountedWereAcked
  BY DEF CountInvHere, CountInv, CountsAcked, CountedWereAcked
<1>2. QED
  BY CountInvCorrect, <1>1, PTL

\* The frames LoRaBridge transmits, of 79 bytes at most (an application payload
\* of 51, the frame's own 13, 15 of MAC commands), never reach the early return
\* that leaves pending_buf_ overwritten.
THEOREM FramesFit == \A len \in 0..79 : ~TooLarge(len)
BY DEF TooLarge, JsonLen
=============================================================================
