---------------------------- MODULE CopiesProofs ----------------------------
(***************************************************************************)
(* The forwarder implements UplinkCopies, whatever the sizes, timeouts and *)
(* surroundings: each of its steps leaves CopyStatus alone or is one step  *)
(* of that specification.                                                  *)
(*                                                                         *)
(* And what leaves for an uplink is always the same datagram, if all       *)
(* frames fit.                                                             *)
(***************************************************************************)
EXTENDS ForwarderProofs, FiniteSetTheorems

\* Only copies of uplinks that were transmitted are on the wire or answered.
SentInv ==
  /\ acked \subseteq 1..captured
  /\ \A d \in sent : d.uplink \in 1..captured
  /\ pending_active => pending_buf.uplink \in 1..captured

\* Steps that send nothing new and receive nothing.
LEMMA SentQuiet ==
  ASSUME SentInv, TypeOfCopies, sent' \subseteq sent,
         pending_active' => pending_active,
         captured' \in {captured, captured + 1}, UNCHANGED <<pending_buf, acked>>
  PROVE  SentInv'
<1>1. 1..captured \subseteq 1..captured'
  BY DEF TypeOfCopies
<1>2. QED
  BY <1>1 DEF SentInv

LEMMA SentInit == Init => SentInv
BY DEF Init, SentInv

LEMMA SentNext == TypeOK /\ SentInv /\ [Next]_vars => SentInv'
<1> SUFFICES ASSUME TypeOK, SentInv, [Next]_vars PROVE SentInv'
  OBVIOUS
<1>0. TypeOfCopies
  BY DEF TypeOK
<1>1. CASE SetActive
  BY <1>1, <1>0, SentQuiet DEF SetActive, pending, datagram, wire
<1>2. CASE LoopNetworkLost
  BY <1>2, <1>0, SentQuiet DEF LoopNetworkLost, CloseSocket, Step, datagram
<1>3. CASE LoopResolve \/ LoopReady \/ LoopReturn
  BY <1>3, <1>0, SentQuiet
     DEF LoopResolve, LoopReady, LoopReturn, LoopOn, Step, pending, datagram,
         wire
<1>4. CASE ResolveFails \/ ResolveSucceeds \/ DrainEmpty
  BY <1>4, <1>0, SentQuiet
     DEF ResolveFails, ResolveSucceeds, DrainEmpty, Step, pending, datagram,
         wire
<1>5. CASE DrainRecv
  <2>1. UNCHANGED <<sent, pending_buf, pending_active, captured>>
    BY <1>5 DEF DrainRecv, Step, pending, datagram, wire
  <2>2. acked' \subseteq 1..captured
    <3>1. CASE rx'.kind = "PUSH_ACK"
      <4>1. PICK d \in sent : rx' = Packet("PUSH_ACK", d)
        BY <1>5, <3>1 DEF DrainRecv, Arrivals, Packet
      <4>2. rx'.uplink \in 1..captured
        BY <4>1 DEF SentInv, Packet
      <4>3. QED
        BY <4>2, <3>1, <1>5 DEF DrainRecv, SentInv
    <3>2. CASE rx'.kind # "PUSH_ACK"
      BY <3>2, <1>5 DEF DrainRecv, SentInv
    <3>3. QED
      BY <3>1, <3>2
  <2>3. QED
    BY <2>1, <2>2 DEF SentInv
<1>6. CASE \/ HandlePushAckMatch \/ HandlePushAckOther
           \/ HandlePullAck \/ HandleOther
  BY <1>6, <1>0, SentQuiet
     DEF HandlePushAckMatch, HandlePushAckOther, HandlePullAck, HandleOther,
         Handle, Step, pending, datagram, wire
<1>7. CASE RetransmitNotDue \/ GiveUp
  BY <1>7, <1>0, SentQuiet
     DEF RetransmitNotDue, GiveUp, CheckRetransmit, Step, datagram, wire
<1>8. ASSUME NEW ok \in BOOLEAN, Retransmit(ok) PROVE SentInv'
  <2>1. /\ pending_active
        /\ UNCHANGED <<pending_buf, pending_active, captured, acked>>
    BY <1>8 DEF Retransmit, CheckRetransmit, Step, datagram
  <2>2. sent' \subseteq sent \cup {pending_buf}
    BY <1>8 DEF Retransmit, Send
  <2>3. QED
    BY <2>1, <2>2 DEF SentInv
<1>9. CASE KeepaliveNotDue \/ \E ok \in BOOLEAN : SendPullData(ok)
  BY <1>9, <1>0, SentQuiet
     DEF KeepaliveNotDue, SendPullData, Return, Step, pending, datagram, wire
<1>10. CASE CaptureDropped
  BY <1>10, <1>0, SentQuiet
     DEF CaptureDropped, Capture, pending, datagram, wire
<1>11. ASSUME NEW len \in PhyLens, NEW t \in Tokens,
              \/ CaptureTooLarge(len, t)
              \/ \E ok \in BOOLEAN : CaptureInjected(len, t, ok)
       PROVE  SentInv'
  <2>1. /\ captured' = captured + 1
        /\ acked' = acked
        /\ pending_buf'.uplink = captured'
    BY <1>11 DEF CaptureTooLarge, CaptureInjected, Capture
  <2>2. sent' \subseteq sent \cup {pending_buf'}
    BY <1>11 DEF CaptureTooLarge, CaptureInjected, Send, wire
  <2>3. captured' \in 1..captured' /\ 1..captured \subseteq 1..captured'
    BY <2>1, <1>0 DEF TypeOfCopies
  <2>4. QED
    BY <2>1, <2>2, <2>3 DEF SentInv
<1>12. CASE NetChange \/ Tick
  BY <1>12, <1>0, SentQuiet DEF NetChange, Tick, pending, datagram, wire
<1>13. CASE UNCHANGED vars
  BY <1>13, <1>0, SentQuiet DEF vars, pending, datagram, wire
<1>14. QED
  BY <1>1, <1>2, <1>3, <1>4, <1>5, <1>6, <1>7, <1>8, <1>9, <1>10, <1>11,
     <1>12, <1>13 DEF Next, MainTask, LoRaWANTask

-----------------------------------------------------------------------------
LEMMA ExceptPointwise ==
  ASSUME NEW S, NEW T, NEW f \in [S -> T], NEW g \in [S -> T], NEW u \in S,
         \A v \in S \ {u} : g[v] = f[v]
  PROVE  g = [f EXCEPT ![u] = g[u]]
OBVIOUS

LEMMA CopyStatusType ==
  /\ CopyStatus \in [Uplinks -> Copies!Statuses]
  /\ CopyStatus' \in [Uplinks -> Copies!Statuses]
BY DEF CopyStatus, Copies!Statuses

\* One uplink's status changes.
LEMMA CopyStatusChanges ==
  ASSUME NEW u \in Uplinks, NEW s, CopyStatus'[u] = s,
         \A v \in Uplinks \ {u} : CopyStatus'[v] = CopyStatus[v]
  PROVE  CopyStatus' = [CopyStatus EXCEPT ![u] = s]
BY CopyStatusType, ExceptPointwise

\* Steps that touch nothing UplinkCopies speaks of.
LEMMA CopiesStutter ==
  ASSUME UNCHANGED <<captured, pending_uplink, pending_active, tally, acked>>
  PROVE  UNCHANGED Copies!vars
BY DEF Copies!vars, CopyStatus, tally

LEMMA CopiesInit == Init => Copies!Init
BY DEF Init, Copies!Init, CopyStatus, Uplinks

\* The copy waited for is given up, or there was none.
LEMMA CopiesAbandon ==
  ASSUME TypeOK, CountInv, ~pending_active',
         UNCHANGED <<captured, tally, acked>>
  PROVE  [Copies!Next]_Copies!vars
<1>1. CASE pending_active
  <2>1. pending_uplink \in (1..captured) \ counted /\ pending_uplink \in Uplinks
    BY <1>1, MaxUplinksAssumption DEF CountInv, TypeOK, TypeOfCopies, Uplinks
  <2>2. CopyStatus[pending_uplink] = "waiting"
    BY <1>1, <2>1 DEF CopyStatus, TypeOK, TypeOfCopies
  <2>3. CopyStatus' = [CopyStatus EXCEPT ![pending_uplink] = "lost"]
    <3>1. CopyStatus'[pending_uplink] = "lost"
      BY <2>1 DEF CopyStatus, tally, TypeOK, TypeOfCopies
    <3>2. \A v \in Uplinks \ {pending_uplink} : CopyStatus'[v] = CopyStatus[v]
      BY DEF CopyStatus, tally
    <3>3. QED
      BY <2>1, <3>1, <3>2, CopyStatusChanges
  <2>4. Copies!Abandon(pending_uplink)
    BY <2>2, <2>3 DEF Copies!Abandon, tally
  <2>5. QED
    BY <2>1, <2>4 DEF Copies!Next
<1>2. CASE ~pending_active
  BY <1>2 DEF Copies!vars, CopyStatus, tally
<1>3. QED
  BY <1>1, <1>2

\* An uplink was transmitted, and there is no copy of it.
LEMMA CopiesRefuse ==
  ASSUME TypeOK, CountInv, Capture,
         UNCHANGED <<pending_uplink, pending_active>>
  PROVE  Copies!Next
<1> DEFINE u == captured + 1
<1>1. /\ captured \in 0..MaxUplinks
      /\ captured < MaxUplinks
      /\ captured' = u
      /\ UNCHANGED <<counted, acked, uplinks_forwarded>>
  BY DEF TypeOK, TypeOfCopies, Capture, tally
<1>2. u \in Uplinks /\ u > captured /\ u \notin counted
  BY <1>1, MaxUplinksAssumption DEF Uplinks, CountInv
<1>3. pending_active => u # pending_uplink
  BY <1>1 DEF CountInv
<1>4. CopyStatus[u] = "none"
  BY <1>2 DEF CopyStatus
<1>5. CopyStatus' = [CopyStatus EXCEPT ![u] = "lost"]
  <2>1. CopyStatus'[u] = "lost"
    BY <1>1, <1>2, <1>3 DEF CopyStatus
  <2>2. \A v \in Uplinks \ {u} : CopyStatus'[v] = CopyStatus[v]
    BY <1>1 DEF CopyStatus, Uplinks
  <2>3. QED
    BY <1>2, <2>1, <2>2, CopyStatusChanges
<1>6. Copies!Refuse(u)
  BY <1>1, <1>4, <1>5 DEF Copies!Refuse
<1>7. QED
  BY <1>2, <1>6 DEF Copies!Next

\* An uplink was transmitted, and the copy of it takes the place of the last.
LEMMA CopiesInject ==
  ASSUME TypeOK, CountInv, Capture,
         pending_uplink' = captured', pending_active'
  PROVE  Copies!Next
<1> DEFINE u == captured + 1
<1>1. /\ captured \in 0..MaxUplinks
      /\ captured < MaxUplinks
      /\ captured' = u
      /\ UNCHANGED <<counted, acked, uplinks_forwarded>>
  BY DEF TypeOK, TypeOfCopies, Capture, tally
<1>2. u \in Uplinks /\ u > captured /\ u \notin counted
  BY <1>1, MaxUplinksAssumption DEF Uplinks, CountInv
<1>3. CopyStatus[u] = "none"
  BY <1>2 DEF CopyStatus
<1>4. ASSUME NEW v \in Uplinks
      PROVE  CopyStatus'[v] = IF v = u THEN "waiting"
                              ELSE IF CopyStatus[v] = "waiting" THEN "lost"
                              ELSE CopyStatus[v]
  BY <1>1, <1>2 DEF CopyStatus, Uplinks
<1>5. Copies!Inject(u)
  BY <1>1, <1>3, <1>4 DEF Copies!Inject, CopyStatus
<1>6. QED
  BY <1>2, <1>5 DEF Copies!Next

-----------------------------------------------------------------------------
LEMMA CopiesNext ==
  ASSUME TypeOK, CountInv, SentInv, [Next]_vars
  PROVE  [Copies!Next]_Copies!vars
<1>1. CASE SetActive
  BY <1>1, CopiesStutter DEF SetActive, pending, datagram
<1>2. CASE LoopNetworkLost
  BY <1>2, CopiesAbandon DEF LoopNetworkLost, CloseSocket, Step
<1>3. CASE LoopResolve \/ LoopReady \/ LoopReturn
  BY <1>3, CopiesStutter
     DEF LoopResolve, LoopReady, LoopReturn, LoopOn, Step, pending, datagram
<1>4. CASE ResolveFails \/ ResolveSucceeds \/ DrainEmpty
  BY <1>4, CopiesStutter
     DEF ResolveFails, ResolveSucceeds, DrainEmpty, Step, pending, datagram
<1>5. CASE DrainRecv
  <2>1. UNCHANGED <<captured, pending_uplink, pending_active, tally>>
    BY <1>5 DEF DrainRecv, Step, pending, datagram
  <2>2. CASE rx'.kind = "PUSH_ACK"
    <3>1. PICK d \in sent : rx' = Packet("PUSH_ACK", d)
      BY <1>5, <2>2 DEF DrainRecv, Arrivals, Packet
    <3>2. /\ d.uplink \in Uplinks /\ d.uplink <= captured
          /\ acked' = acked \cup {d.uplink}
      <4>1. d.uplink \in 1..captured /\ captured \in 0..MaxUplinks
        BY DEF SentInv, TypeOK, TypeOfCopies
      <4>2. rx'.uplink = d.uplink
        BY <3>1 DEF Packet
      <4>3. QED
        BY <4>1, <4>2, <2>2, <1>5, MaxUplinksAssumption DEF DrainRecv, Uplinks
    <3>3. CopyStatus[d.uplink] # "none"
      BY <3>2 DEF CopyStatus, TypeOK, TypeOfCopies, Uplinks
    <3>4. CopyStatus' = CopyStatus
      BY <2>1 DEF CopyStatus, tally
    <3>5. Copies!Acknowledge(d.uplink)
      BY <2>1, <3>2, <3>3, <3>4 DEF Copies!Acknowledge, tally
    <3>6. QED
      BY <3>2, <3>5 DEF Copies!Next
  <2>3. CASE rx'.kind # "PUSH_ACK"
    BY <2>1, <2>3, <1>5, CopiesStutter DEF DrainRecv
  <2>4. QED
    BY <2>2, <2>3
<1>6. CASE HandlePushAckMatch
  <2>1. /\ rx.kind = "PUSH_ACK"
        /\ pending_active
        /\ rx.token = pending_token
    BY <1>6 DEF HandlePushAckMatch, Handle, AckMatches
  <2>2. /\ ~pending_active'
        /\ uplinks_forwarded' = uplinks_forwarded + 1
        /\ counted' = counted \cup {pending_uplink}
        /\ UNCHANGED <<captured, acked>>
    BY <1>6 DEF HandlePushAckMatch, Handle, Step
  <2>3. /\ pending_uplink \in acked
        /\ pending_uplink \in (1..captured) \ counted
        /\ pending_uplink \in Uplinks
    BY <2>1, MaxUplinksAssumption DEF CountInv, TypeOK, TypeOfCopies, Uplinks
  <2>4. CopyStatus[pending_uplink] = "waiting"
    BY <2>1, <2>3 DEF CopyStatus, TypeOK, TypeOfCopies
  <2>5. CopyStatus' = [CopyStatus EXCEPT ![pending_uplink] = "confirmed"]
    <3>1. CopyStatus'[pending_uplink] = "confirmed"
      BY <2>2, <2>3 DEF CopyStatus, TypeOK, TypeOfCopies
    <3>2. \A v \in Uplinks \ {pending_uplink} : CopyStatus'[v] = CopyStatus[v]
      BY <2>2 DEF CopyStatus
    <3>3. QED
      BY <2>3, <3>1, <3>2, CopyStatusChanges
  <2>6. Copies!Confirm(pending_uplink)
    BY <2>2, <2>3, <2>4, <2>5 DEF Copies!Confirm
  <2>7. QED
    BY <2>3, <2>6 DEF Copies!Next
<1>7. CASE HandlePushAckOther \/ HandlePullAck \/ HandleOther
  BY <1>7, CopiesStutter
     DEF HandlePushAckOther, HandlePullAck, HandleOther, Handle, Step, pending,
         datagram
<1>8. CASE RetransmitNotDue \/ \E ok \in BOOLEAN : Retransmit(ok)
  BY <1>8, CopiesStutter
     DEF RetransmitNotDue, Retransmit, CheckRetransmit, Step, datagram
<1>9. CASE GiveUp
  BY <1>9, CopiesAbandon DEF GiveUp, CheckRetransmit, Step
<1>10. CASE KeepaliveNotDue \/ \E ok \in BOOLEAN : SendPullData(ok)
  BY <1>10, CopiesStutter
     DEF KeepaliveNotDue, SendPullData, Return, Step, pending, datagram
<1>11. CASE \/ CaptureDropped
            \/ \E len \in PhyLens, t \in Tokens : CaptureTooLarge(len, t)
  BY <1>11, CopiesRefuse
     DEF CaptureDropped, CaptureTooLarge, pending, datagram
<1>12. CASE \E len \in PhyLens, t \in Tokens, ok \in BOOLEAN :
              CaptureInjected(len, t, ok)
  BY <1>12, CopiesInject DEF CaptureInjected, BecomePending
<1>13. CASE NetChange \/ Tick
  BY <1>13, CopiesStutter DEF NetChange, Tick, pending, datagram
<1>14. CASE UNCHANGED vars
  BY <1>14, CopiesStutter DEF vars, pending, datagram
<1>15. QED
  BY <1>1, <1>2, <1>3, <1>4, <1>5, <1>6, <1>7, <1>8, <1>9, <1>10, <1>11,
     <1>12, <1>13, <1>14 DEF Next, MainTask, LoRaWANTask

\* Every step of the forwarder, until it draws a token again that is in use,
\* does with the copies what UplinkCopies says: one copy waits at a time, what
\* is confirmed was acknowledged, what is over stays over.
THEOREM CopiesCorrect == Spec => CopiesSpec
<1>1. Init => SentInv /\ Copies!Init
  BY SentInit, CopiesInit
<1>2. Inv /\ SentInv /\ [Next]_vars => SentInv'
  BY SentNext DEF Inv
<1>3. Inv /\ SentInv /\ CountInvHere /\ [Next]_vars
        => [~reused' => Copies!Next]_Copies!vars
  BY CopiesNext, ReusedStays DEF Inv, CountInvHere
<1>4. QED
  BY InvCorrect, CountInvCorrect, <1>1, <1>2, <1>3, PTL DEF Spec, CopiesSpec

\* A behaviour that never draws a token again that is in use is one of
\* UplinkCopies.
THEOREM CopiesImplemented == Spec /\ []~reused => Copies!Spec
<1>1. [~reused' => Copies!Next]_Copies!vars /\ ~reused'
        => [Copies!Next]_Copies!vars
  OBVIOUS
<1>2. QED
  BY CopiesCorrect, <1>1, PTL DEF CopiesSpec, Copies!Spec

-----------------------------------------------------------------------------
(* What UplinkCopies promises, and with the refinement the forwarder *)

\* The counter is the number of confirmed copies.
CounterIsConfirmed ==
  /\ IsFiniteSet(Copies!Confirmed)
  /\ uplinks_forwarded = Cardinality(Copies!Confirmed)

\* All of it, as the inductive invariant of UplinkCopies.
CopiesPromise ==
  /\ Copies!TypeOK /\ Copies!OneWaits
  /\ Copies!ConfirmedWereAcked /\ CounterIsConfirmed

\* It holds before the first uplink.
LEMMA PromiseInit == Copies!Init => CopiesPromise
<1> SUFFICES ASSUME Copies!Init PROVE CopiesPromise
  OBVIOUS
<1>1. /\ Copies!TypeOK /\ Copies!OneWaits /\ Copies!Confirmed = {}
      /\ uplinks_forwarded = 0
  BY DEF Copies!Init, Copies!TypeOK, Copies!OneWaits, Copies!Confirmed,
         Copies!Statuses
<1>2. QED
  BY <1>1, FS_EmptySet
     DEF CopiesPromise, Copies!ConfirmedWereAcked, CounterIsConfirmed

\* A step that confirms nothing leaves the counter alone.
LEMMA PromiseSame ==
  ASSUME CopiesPromise, Copies!TypeOK', Copies!OneWaits',
         Copies!Confirmed' = Copies!Confirmed, acked \subseteq acked',
         uplinks_forwarded' = uplinks_forwarded
  PROVE  CopiesPromise'
BY DEF CopiesPromise, Copies!ConfirmedWereAcked, CounterIsConfirmed

\* Each step keeps the promise, and leaves alone what is over.
LEMMA PromiseStep ==
  ASSUME CopiesPromise, [Copies!Next]_Copies!vars
  PROVE  /\ CopiesPromise'
         /\ \A u \in Uplinks : CopyStatus[u] \in Copies!Final
                                  => CopyStatus'[u] = CopyStatus[u]
<1> DEFINE stays == \A u \in Uplinks : CopyStatus[u] \in Copies!Final
                                          => CopyStatus'[u] = CopyStatus[u]
<1>0. /\ CopyStatus \in [Uplinks -> Copies!Statuses] /\ acked \subseteq Uplinks
      /\ uplinks_forwarded \in Nat
  BY DEF CopiesPromise, Copies!TypeOK
<1>1. ASSUME NEW u \in Uplinks, Copies!Inject(u) PROVE CopiesPromise' /\ stays
  <2>1. Copies!TypeOK' /\ Copies!OneWaits' /\ stays
    BY <1>0, <1>1 DEF Copies!Inject, Copies!TypeOK, Copies!OneWaits,
                      Copies!Statuses, Copies!Final
  <2>2. Copies!Confirmed' = Copies!Confirmed
    BY <1>0, <1>1 DEF Copies!Inject, Copies!Confirmed
  <2>3. acked' = acked /\ uplinks_forwarded' = uplinks_forwarded
    BY <1>1 DEF Copies!Inject
  <2>4. QED
    BY <2>1, <2>2, <2>3, PromiseSame
<1>2. ASSUME NEW u \in Uplinks, Copies!Refuse(u) \/ Copies!Abandon(u)
      PROVE  CopiesPromise' /\ stays
  <2>1. Copies!TypeOK' /\ Copies!OneWaits' /\ stays
    BY <1>0, <1>2 DEF Copies!Refuse, Copies!Abandon, Copies!TypeOK,
                      Copies!OneWaits, Copies!Statuses, Copies!Final, CopiesPromise
  <2>2. Copies!Confirmed' = Copies!Confirmed
    BY <1>0, <1>2 DEF Copies!Refuse, Copies!Abandon, Copies!Confirmed
  <2>3. acked' = acked /\ uplinks_forwarded' = uplinks_forwarded
    BY <1>2 DEF Copies!Refuse, Copies!Abandon
  <2>4. QED
    BY <2>1, <2>2, <2>3, PromiseSame
<1>3. ASSUME NEW u \in Uplinks, Copies!Acknowledge(u) PROVE CopiesPromise' /\ stays
  <2>1. Copies!TypeOK' /\ Copies!OneWaits' /\ stays
    BY <1>0, <1>3 DEF Copies!Acknowledge, Copies!TypeOK, Copies!OneWaits,
                      CopiesPromise
  <2>2. Copies!Confirmed' = Copies!Confirmed
    BY <1>3 DEF Copies!Acknowledge, Copies!Confirmed
  <2>3. acked \subseteq acked' /\ uplinks_forwarded' = uplinks_forwarded
    BY <1>3 DEF Copies!Acknowledge
  <2>4. QED
    BY <2>1, <2>2, <2>3, PromiseSame
<1>4. ASSUME NEW u \in Uplinks, Copies!Confirm(u) PROVE CopiesPromise' /\ stays
  <2>1. Copies!TypeOK' /\ Copies!OneWaits' /\ stays
    BY <1>0, <1>4 DEF Copies!Confirm, Copies!TypeOK, Copies!OneWaits,
                      Copies!Statuses, Copies!Final, CopiesPromise
  <2>2. Copies!Confirmed' = Copies!Confirmed \union {u} /\ u \notin Copies!Confirmed
    BY <1>0, <1>4 DEF Copies!Confirm, Copies!Confirmed
  <2>3. /\ u \in acked /\ acked' = acked
        /\ uplinks_forwarded' = uplinks_forwarded + 1
    BY <1>4 DEF Copies!Confirm
  <2>4. IsFiniteSet(Copies!Confirmed) /\ uplinks_forwarded = Cardinality(Copies!Confirmed)
    BY DEF CopiesPromise, CounterIsConfirmed
  <2>5. CounterIsConfirmed'
    BY <2>2, <2>3, <2>4, FS_AddElement DEF CounterIsConfirmed
  <2>6. Copies!ConfirmedWereAcked'
    BY <2>2, <2>3 DEF CopiesPromise, Copies!ConfirmedWereAcked
  <2>7. QED
    BY <2>1, <2>5, <2>6 DEF CopiesPromise
<1>5. CASE UNCHANGED Copies!vars
  <2>1. /\ CopyStatus' = CopyStatus /\ acked' = acked
        /\ uplinks_forwarded' = uplinks_forwarded
    BY <1>5 DEF Copies!vars
  <2>2. Copies!TypeOK' /\ Copies!OneWaits' /\ stays
    BY <2>1 DEF CopiesPromise, Copies!TypeOK, Copies!OneWaits
  <2>3. Copies!Confirmed' = Copies!Confirmed BY <2>1 DEF Copies!Confirmed
  <2>4. QED
    BY <2>1, <2>2, <2>3, PromiseSame
<1>6. QED
  BY <1>1, <1>2, <1>3, <1>4, <1>5 DEF Copies!Next

\* Until a token in use is drawn again.
PromiseHere == ~reused => CopiesPromise

LEMMA PromiseHereCorrect == Spec => []PromiseHere
<1>1. Copies!Init => PromiseHere
  BY PromiseInit DEF PromiseHere
<1>2. PromiseHere /\ [Next]_vars /\ [~reused' => Copies!Next]_Copies!vars
        => PromiseHere'
  BY PromiseStep, ReusedStays DEF PromiseHere
<1>3. QED
  BY <1>1, <1>2, CopiesCorrect, PTL DEF Spec, CopiesSpec

\* Until a token in use is drawn again, one copy waits at a time, what is confirmed was
\* acknowledged, and the counter of the "Uplinks Forwarded" sensor is the number of
\* confirmed copies (virtual_gateway_forwarder.cpp:195-203, :301-304).
THEOREM PromiseKept ==
  Spec => [](~reused => /\ Copies!OneWaits /\ Copies!ConfirmedWereAcked
                        /\ CounterIsConfirmed)
<1>1. PromiseHere => (~reused => /\ Copies!OneWaits /\ Copies!ConfirmedWereAcked
                                 /\ CounterIsConfirmed)
  BY DEF PromiseHere, CopiesPromise
<1>2. QED
  BY <1>1, PromiseHereCorrect, PTL

\* Until a token in use is drawn again, no copy that was confirmed or given up is taken
\* up again, by a late answer, a retransmit or another task (virtual_gateway_forwarder.cpp:196-201, :234, :251).
THEOREM OverStaysOver ==
  Spec => [][~reused' => \A u \in Uplinks : CopyStatus[u] \in Copies!Final
                           => CopyStatus'[u] = CopyStatus[u]]_(Copies!vars)
<1>1. PromiseHere /\ [Next]_vars /\ [~reused' => Copies!Next]_Copies!vars
        => [~reused' => \A u \in Uplinks : CopyStatus[u] \in Copies!Final
                          => CopyStatus'[u] = CopyStatus[u]]_(Copies!vars)
  BY PromiseStep, ReusedStays DEF PromiseHere
<1>2. QED
  BY <1>1, PromiseHereCorrect, CopiesCorrect, PTL DEF Spec, CopiesSpec

-----------------------------------------------------------------------------
(* What is on the wire: one datagram per uplink, and never another uplink's *)
(* token.  It takes frames that fit, so that on_uplink_captured() never     *)
(* overwrites a pending copy and returns (FramesFit says that no frame of   *)
(* the node is too large).                                                  *)

FramesFitHere == \A len \in PhyLens : ~TooLarge(len)

\* The pending copy, sent or not, is as good as on the wire.
AgreeInv ==
  /\ SentDatagramsAgree
  /\ pending_active
       => /\ pending_buf.token = pending_token
          /\ pending_buf.uplink = pending_uplink
          /\ \A d \in sent : d.uplink = pending_uplink => d.token = pending_token
          /\ ~reused => \A d \in sent : d.token = pending_token
                                           => d.uplink = pending_uplink

\* Steps that neither send nor make pending.
LEMMA AgreeQuiet ==
  ASSUME AgreeInv, pending_active' => pending_active, sent' \subseteq sent,
         UNCHANGED <<attempts, datagram>>
  PROVE  AgreeInv'
BY DEF AgreeInv, SentDatagramsAgree, datagram

LEMMA AgreeInit == Init => AgreeInv
BY DEF Init, AgreeInv, SentDatagramsAgree

LEMMA AgreeNext ==
  ASSUME FramesFitHere, TypeOK, AttemptsInv, SentInv, AgreeInv,
         [Next]_vars
  PROVE  AgreeInv'
<1>0. TypeOfCopies /\ captured \in Nat /\ MaxUplinks \in Nat
  BY MaxUplinksAssumption DEF TypeOK, TypeOfCopies
<1>1. CASE SetActive
  BY <1>1, AgreeQuiet DEF SetActive, pending, wire
<1>2. CASE LoopNetworkLost
  BY <1>2, AgreeQuiet DEF LoopNetworkLost, CloseSocket, Step
<1>3. CASE LoopResolve \/ LoopReady \/ LoopReturn
  BY <1>3, AgreeQuiet
     DEF LoopResolve, LoopReady, LoopReturn, LoopOn, Step, pending, wire
<1>4. CASE ResolveFails \/ ResolveSucceeds \/ DrainRecv \/ DrainEmpty
  BY <1>4, AgreeQuiet
     DEF ResolveFails, ResolveSucceeds, DrainRecv, DrainEmpty, Step, pending,
         wire
<1>5. CASE \/ HandlePushAckMatch \/ HandlePushAckOther
           \/ HandlePullAck \/ HandleOther
  BY <1>5, AgreeQuiet
     DEF HandlePushAckMatch, HandlePushAckOther, HandlePullAck, HandleOther,
         Handle, Step, pending, wire
<1>6. CASE RetransmitNotDue \/ GiveUp
  BY <1>6, AgreeQuiet
     DEF RetransmitNotDue, GiveUp, CheckRetransmit, Step, wire
<1>7. ASSUME NEW ok \in BOOLEAN, Retransmit(ok) PROVE AgreeInv'
  <2>1. /\ pending_active
        /\ UNCHANGED <<datagram, pending_active, captured>>
        /\ Send(pending_uplink, pending_buf, ok)
    BY <1>7 DEF Retransmit, CheckRetransmit, Step
  <2>2. pending_uplink \in Uplinks
    BY <2>1, <1>0 DEF AttemptsInv, Uplinks, TypeOfCopies
  <2>3. sent' \subseteq sent \cup {pending_buf}
    BY <2>1 DEF Send
  <2>4. \A u \in Uplinks : attempts[u] > 0 \/ u = pending_uplink
                             => attempts'[u] > 0
    BY <2>1, <1>0 DEF Send, TypeOfCopies
  <2>5. SentDatagramsAgree'
    <3>1. \A d, e \in sent' : d.uplink = e.uplink => d.token = e.token
      BY <2>1, <2>3 DEF AgreeInv, SentDatagramsAgree
    <3>2. ~reused' => \A d, e \in sent' : d.token = e.token => d.uplink = e.uplink
      BY <2>1, <2>3 DEF AgreeInv, SentDatagramsAgree, datagram
    <3>3. \A d \in sent' : d.uplink \in Uplinks /\ attempts'[d.uplink] > 0
      BY <2>1, <2>2, <2>3, <2>4 DEF AgreeInv, SentDatagramsAgree
    <3>4. QED
      BY <3>1, <3>2, <3>3 DEF SentDatagramsAgree
  <2>6. QED
    BY <2>1, <2>3, <2>5 DEF AgreeInv, datagram
<1>8. CASE KeepaliveNotDue \/ \E ok \in BOOLEAN : SendPullData(ok)
  BY <1>8, AgreeQuiet
     DEF KeepaliveNotDue, SendPullData, Return, Step, pending, wire
<1>9. CASE CaptureDropped
  BY <1>9, AgreeQuiet DEF CaptureDropped, Capture, pending, wire
<1>10. ASSUME NEW len \in PhyLens, NEW t \in Tokens, CaptureTooLarge(len, t)
       PROVE  AgreeInv'
  BY <1>10 DEF CaptureTooLarge, FramesFitHere
<1>11. ASSUME NEW len \in PhyLens, NEW t \in Tokens, NEW ok \in BOOLEAN,
              CaptureInjected(len, t, ok)
       PROVE  AgreeInv'
  <2> DEFINE u == captured + 1
  <2>1. /\ captured < MaxUplinks
        /\ pending_buf' = [token |-> t, uplink |-> u]
        /\ Send(u, pending_buf', ok)
        /\ pending_uplink' = u /\ pending_token' = t
    BY <1>11 DEF CaptureInjected, Capture, BecomePending
  <2>2. /\ \A d \in sent : d.uplink # u
        /\ ~reused' => ~reused /\ \A d \in sent : d.token # t
    <3>1. ~reused' => ~reused /\ \A d \in sent : d.token # t
      BY <1>11 DEF CaptureInjected, Draw, InUse
    <3>2. \A d \in sent : d.uplink \in 1..captured
      BY DEF SentInv
    <3>3. QED
      BY <3>1, <3>2, <1>0
  <2>3. sent' \subseteq sent \cup {[token |-> t, uplink |-> u]}
    BY <2>1 DEF Send
  <2>4. u \in Uplinks
    BY <1>0, <2>1 DEF Uplinks
  <2>5. \A v \in Uplinks : attempts[v] > 0 \/ v = u => attempts'[v] > 0
    BY <2>1, <1>0 DEF Send, TypeOfCopies
  <2>6. SentDatagramsAgree'
    BY <2>2, <2>3, <2>4, <2>5 DEF AgreeInv, SentDatagramsAgree
  <2>7. QED
    BY <2>1, <2>2, <2>3, <2>6 DEF AgreeInv
<1>12. CASE NetChange \/ Tick
  BY <1>12, AgreeQuiet DEF NetChange, Tick, pending, wire
<1>13. CASE UNCHANGED vars
  BY <1>13, AgreeQuiet DEF vars, pending, wire
<1>14. QED
  BY <1>1, <1>2, <1>3, <1>4, <1>5, <1>6, <1>7, <1>8, <1>9, <1>10, <1>11,
     <1>12, <1>13 DEF Next, MainTask, LoRaWANTask

\* Whatever is repeated, given up or replaced: all that ever leaves for an
\* uplink is one datagram, and until a token in use is drawn again its token is
\* no other uplink's.
THEOREM DatagramsCorrect ==
  ASSUME FramesFitHere PROVE Spec => []SentDatagramsAgree
<1>1. Init => SentInv /\ AgreeInv
  BY SentInit, AgreeInit
<1>2. Inv /\ (SentInv /\ AgreeInv) /\ [Next]_vars => (SentInv /\ AgreeInv)'
  BY SentNext, AgreeNext DEF Inv
<1>3. AgreeInv => SentDatagramsAgree
  BY DEF AgreeInv
<1>4. QED
  BY <1>1, <1>2, <1>3, InvCorrect, PTL DEF Spec
=============================================================================
