----------------------- MODULE VirtualGatewayForwarder -----------------------
(***************************************************************************)
(* The virtual gateway of src/components/lorabridge/                       *)
(* virtual_gateway_forwarder.{h,cpp}: it sends a copy of every uplink the  *)
(* radio transmitted to the network server (Semtech UDP protocol), repeats *)
(* it once if no acknowledgement comes, counts the acknowledged ones, and  *)
(* keeps the NAT mapping open with PULL_DATA.                              *)
(*                                                                         *)
(* Two tasks share it.  The main task runs loop() over and over; pc says   *)
(* how far it is.  The LoRaWAN task calls on_uplink_captured() after each  *)
(* transmission.  Every region that holds mutex_ is one action, and so is  *)
(* a stretch of code that touches only what its own task owns.  What lies  *)
(* between the regions (a datagram received but not handled yet, `now`     *)
(* read at the top of loop()) is state of its own, so that the other task, *)
(* the clock and the network can act in between.                           *)
(*                                                                         *)
(* Around the code are the network, which comes and goes; UDP, which       *)
(* loses, delays, repeats and reorders; and millis(), which wraps.         *)
(* Operators called ...Variant are slips one could make in the code; no    *)
(* action uses them.  README.md says what they are for.                    *)
(***************************************************************************)
EXTENDS Integers, FiniteSets

CONSTANTS
  Tokens,                  \* the values of the 16-bit token, 0 among them
  PhyLens,                 \* lengths of the PHYPayloads that are transmitted
  MaxUplinks,              \* bound: uplinks transmitted in a behaviour
  MILLIS_MOD,              \* millis() counts modulo this (2^32 in the code)
  MaxStall,                \* bound: clock ticks during one turn of the main task
  RETRANSMIT_TIMEOUT_MS,
  DNS_RETRY_MS,
  keepalive_ms

ASSUME TokensAssumption == 0 \in Tokens
ASSUME PhyLensAssumption == PhyLens \subseteq 0..255
ASSUME MaxUplinksAssumption == MaxUplinks \in Nat
ASSUME ClockAssumption ==
  /\ MILLIS_MOD \in Nat \ {0}
  /\ MaxStall \in Nat
  /\ RETRANSMIT_TIMEOUT_MS \in Nat
  /\ DNS_RETRY_MS \in Nat
  /\ keepalive_ms \in Nat

VARIABLES
  \* the surroundings
  net,                     \* network::is_connected()
  millis,                  \* millis()
  \* the main task
  pc,                      \* where it is in loop(), "idle" when outside
  now,                     \* the local of loop(), 0 when outside
  rx,                      \* the datagram in buf of drain_rx_()
  last_net_connected, last_dns_attempt_ms, last_pull_data_ms,
  got_pull_ack, last_pull_ack_ms,
  ready,
  \* shared by both tasks
  active, fd, uplinks_forwarded,
  pending_buf, pending_token, pending_sent_ms, pending_active,
  pending_retransmitted,
  \* the wire: what left on the socket that is open
  sent,                    \* PUSH_DATA datagrams
  pulled,                  \* whether any PULL_DATA left
  \* history, which no action of the code reads
  stall,                   \* ticks since the main task began its turn
  age,                     \* ticks since the pending copy was last sent, capped
  silence,                 \* ticks since a PULL_ACK was handled, capped
  captured,                \* uplinks transmitted so far; the last one's number
  pending_uplink,          \* the uplink the pending fields are about
  reused,                  \* whether a token was drawn while it was in use
  attempts,                \* attempts[u]: send() calls for the copy of u
  acked,                   \* uplinks whose PUSH_ACK was received
  counted                  \* uplinks uplinks_forwarded was raised for

surroundings == <<net, millis, stall>>
polling == <<last_net_connected, last_dns_attempt_ms>>
pullAck == <<got_pull_ack, last_pull_ack_ms, silence>>
keepalive == <<last_pull_data_ms, pulled>>
socket == <<ready, fd>>
datagram == <<pending_buf, pending_token, pending_uplink, reused>>
timer == <<pending_sent_ms, pending_retransmitted, age>>
pending == <<datagram, timer, pending_active>>
wire == <<sent, attempts>>
tally == <<uplinks_forwarded, counted>>

vars == <<surroundings, pc, now, rx, polling, keepalive, pullAck, active,
          socket, pending, wire, tally, captured, acked>>

Uplinks == 1..MaxUplinks
Millis == 0..(MILLIS_MOD - 1)

\* A PUSH_DATA: its token, and the uplink its rxpk carries (0: none yet).
Datagram == [token : Tokens, uplink : 0..MaxUplinks]
NoDatagram == [token |-> 0, uplink |-> 0]

Received == [kind : {"NONE", "PUSH_ACK", "PULL_ACK", "OTHER"},
             token : Tokens, uplink : 0..MaxUplinks]
Packet(kind, d) == [kind |-> kind, token |-> d.token, uplink |-> d.uplink]
NoPacket == Packet("NONE", NoDatagram)

-----------------------------------------------------------------------------
(* Arithmetic *)

\* Unsigned subtraction of two readings of millis().
ElapsedVariant(t, s) == t - s
Elapsed(t, s) == (t - s) % MILLIS_MOD

\* snprintf's result for a PHYPayload of len bytes: the template with every
\* number at its widest, then base64.
JsonLen(len) == 164 + 4 * ((len + 2) \div 3)
TooLargeVariant(len) == JsonLen(len) >= 256 - 12
TooLarge(len) == JsonLen(len) >= 512 - 12

-----------------------------------------------------------------------------
(* What several handlers do *)

\* is_connected(): a PULL_ACK within three keepalive intervals, a product that
\* has the width of millis().
IsConnectedVariant == got_pull_ack
IsConnected ==
  /\ got_pull_ack
  /\ Elapsed(millis, last_pull_ack_ms) < (3 * keepalive_ms) % MILLIS_MOD

\* close_socket_(), with the datagrams under way to and from the old socket.
CloseSocketKeepsPendingVariant ==
  /\ fd' = -1 /\ ready' = FALSE /\ sent' = {} /\ pulled' = FALSE
  /\ UNCHANGED pending_active
  /\ got_pull_ack' = FALSE
CloseSocketKeepsAckVariant ==
  /\ fd' = -1 /\ ready' = FALSE /\ sent' = {} /\ pulled' = FALSE
  /\ pending_active' = FALSE
  /\ UNCHANGED got_pull_ack
CloseSocket ==
  /\ fd' = -1 /\ ready' = FALSE /\ sent' = {} /\ pulled' = FALSE
  /\ pending_active' = FALSE
  /\ got_pull_ack' = FALSE

\* The PUSH_DATA d for uplink u is handed to send(); ok: it leaves.
Send(u, d, ok) ==
  /\ sent' = IF ok THEN sent \cup {d} ELSE sent
  /\ attempts' = [attempts EXCEPT ![u] = @ + 1]

\* random_uint32() yielded the token t, which nothing compares with the tokens
\* that answers may still come for.
InUse(t) == (pending_active /\ t = pending_token) \/ \E d \in sent : d.token = t
Draw(t) == reused' = (reused \/ InUse(t))

-----------------------------------------------------------------------------
Init ==
  /\ net \in BOOLEAN
  /\ millis = 0
  /\ pc = "idle"
  /\ now = 0
  /\ rx = NoPacket
  /\ last_net_connected = FALSE
  /\ last_dns_attempt_ms = 0
  /\ last_pull_data_ms = 0
  /\ got_pull_ack = FALSE
  /\ last_pull_ack_ms = 0
  /\ ready = FALSE
  /\ active = FALSE
  /\ fd = -1
  /\ uplinks_forwarded = 0
  /\ pending_buf = NoDatagram
  /\ pending_token = 0
  /\ pending_sent_ms = 0
  /\ pending_active = FALSE
  /\ pending_retransmitted = FALSE
  /\ sent = {}
  /\ pulled = FALSE
  /\ stall = 0
  /\ age = 0
  /\ silence = 0
  /\ captured = 0
  /\ pending_uplink = 0
  /\ reused = FALSE
  /\ attempts = [u \in Uplinks |-> 0]
  /\ acked = {}
  /\ counted = {}

-----------------------------------------------------------------------------
(* The main task: LoRaBridge::loop() and VirtualGatewayForwarder::loop() *)

Step(from, to) ==
  /\ pc = from
  /\ pc' = to
  /\ UNCHANGED <<surroundings, active, captured>>

\* LoRaBridge::loop() tells the forwarder whether the network is up, then
\* calls its loop().
SetActive ==
  /\ pc = "idle"
  /\ pc' = "loop"
  /\ active' = net
  /\ stall' = 0
  /\ UNCHANGED <<net, millis, now, rx, polling, keepalive, pullAck, socket,
                 pending, wire, tally, captured, acked>>

\* The network was lost since the last turn: the socket goes, and with no
\* network there is nothing else to do.
LoopNetworkLost ==
  /\ Step("loop", "idle")
  /\ ~net /\ last_net_connected
  /\ CloseSocket
  /\ last_net_connected' = FALSE
  /\ UNCHANGED <<now, rx, last_dns_attempt_ms, last_pull_data_ms, datagram,
                 timer, attempts, last_pull_ack_ms, silence, tally, acked>>

\* Otherwise: resolve, on the first attempt or DNS_RETRY_MS after the last
\* one; go on with the open socket; or return.
LoopOn(to) ==
  /\ Step("loop", to)
  /\ net \/ ~last_net_connected
  /\ last_net_connected' = net
  /\ UNCHANGED <<rx, keepalive, pullAck, socket, pending, wire, tally, acked>>

ResolveDueVariant == net /\ ~ready /\ last_dns_attempt_ms = 0
ResolveDue ==
  /\ net /\ ~ready
  /\ \/ Elapsed(millis, last_dns_attempt_ms) >= DNS_RETRY_MS
     \/ last_dns_attempt_ms = 0

LoopResolve ==
  /\ ResolveDue
  /\ LoopOn("resolve")
  /\ now' = millis
  /\ last_dns_attempt_ms' = millis

LoopReady ==
  /\ ready
  /\ LoopOn("drain")
  /\ now' = millis
  /\ UNCHANGED last_dns_attempt_ms

LoopReturn ==
  /\ ~ready /\ ~ResolveDue
  /\ LoopOn("idle")
  /\ UNCHANGED <<now, last_dns_attempt_ms>>

\* resolve_and_connect_(): getaddrinfo() blocks the task for as long as it
\* takes; it, socket() and connect() may each fail.
ResolveFails ==
  /\ Step("resolve", "idle")
  /\ now' = 0
  /\ UNCHANGED <<rx, polling, keepalive, pullAck, socket, pending, wire, tally,
                 acked>>

ResolveSucceeds ==
  /\ Step("resolve", "drain")
  /\ fd' = 0 /\ ready' = TRUE
  /\ UNCHANGED <<now, rx, polling, keepalive, pullAck, pending, wire, tally,
                 acked>>

\* What recv() may return: an answer to any datagram that left on this
\* socket, once more or never, in any order; something that drain_rx_() does
\* not act on (a downlink, answered with TX_ACK and discarded; a datagram too
\* short, of another protocol version or of an unknown kind).
Arrivals ==
  {Packet("PUSH_ACK", d) : d \in sent}
    \cup (IF pulled THEN {Packet("PULL_ACK", NoDatagram)} ELSE {})
    \cup {Packet("OTHER", NoDatagram)}

\* drain_rx_(), first region: receive one datagram ...
DrainRecv ==
  /\ Step("drain", "handle")
  /\ fd >= 0
  /\ rx' \in Arrivals
  /\ acked' = IF rx'.kind = "PUSH_ACK" THEN acked \cup {rx'.uplink} ELSE acked
  /\ UNCHANGED <<now, polling, keepalive, pullAck, socket, pending, wire, tally>>

\* ... or find none.
DrainEmpty ==
  /\ Step("drain", "retransmit")
  /\ UNCHANGED <<now, rx, polling, keepalive, pullAck, socket, pending, wire,
                 tally, acked>>

\* The switch of drain_rx_(): every case is done with rx and drains on.
Handle(kind) ==
  /\ Step("handle", "drain")
  /\ rx.kind = kind
  /\ rx' = NoPacket
  /\ UNCHANGED <<now, polling, keepalive, socket, wire, acked>>

\* The second region: the acknowledgement of the pending copy counts it, any
\* other one is ignored.
AckMatchesVariant == rx.token = pending_token
AckMatchesAnyVariant == pending_active
AckMatches == pending_active /\ rx.token = pending_token

HandlePushAckMatch ==
  /\ Handle("PUSH_ACK")
  /\ AckMatches
  /\ pending_active' = FALSE
  /\ uplinks_forwarded' = uplinks_forwarded + 1
  /\ counted' = counted \cup {pending_uplink}
  /\ UNCHANGED <<datagram, timer, pullAck>>

HandlePushAckOther ==
  /\ Handle("PUSH_ACK")
  /\ ~AckMatches
  /\ UNCHANGED <<pending, tally, pullAck>>

HandlePullAck ==
  /\ Handle("PULL_ACK")
  /\ last_pull_ack_ms' = millis
  /\ got_pull_ack' = TRUE
  /\ silence' = 0
  /\ UNCHANGED <<pending, tally>>

HandleOther ==
  /\ Handle("OTHER")
  /\ UNCHANGED <<pending, tally, pullAck>>

\* check_retransmit_(), one region.
RetransmitDueVariant == Elapsed(now, pending_sent_ms) >= RETRANSMIT_TIMEOUT_MS
RetransmitDue == Elapsed(millis, pending_sent_ms) >= RETRANSMIT_TIMEOUT_MS

CheckRetransmit(due) ==
  /\ Step("retransmit", "keepalive")
  /\ due = (pending_active /\ fd >= 0 /\ RetransmitDue)
  /\ UNCHANGED <<now, rx, polling, keepalive, pullAck, socket, tally, acked,
                 datagram>>

RetransmitNotDue ==
  /\ CheckRetransmit(FALSE)
  /\ UNCHANGED <<wire, timer, pending_active>>

ResentVariant ==
  pending_sent_ms' = millis /\ age' = 0 /\ UNCHANGED pending_retransmitted
Resent ==
  pending_sent_ms' = millis /\ age' = 0 /\ pending_retransmitted' = TRUE

\* Once, the datagram as it is in pending_buf, whether or not it leaves.
Retransmit(ok) ==
  /\ CheckRetransmit(TRUE)
  /\ ~pending_retransmitted
  /\ Send(pending_uplink, pending_buf, ok)
  /\ Resent
  /\ UNCHANGED pending_active

GiveUpVariant ==
  CheckRetransmit(TRUE) /\ pending_retransmitted
    /\ UNCHANGED <<wire, timer, pending_active>>
GiveUp ==
  /\ CheckRetransmit(TRUE)
  /\ pending_retransmitted
  /\ pending_active' = FALSE
  /\ UNCHANGED <<wire, timer>>

\* The end of loop().  It compares the time read at the top, before resolving
\* and draining.
KeepaliveDueVariant == active /\ now >= last_pull_data_ms + keepalive_ms
KeepaliveDue == active /\ Elapsed(now, last_pull_data_ms) >= keepalive_ms

Return ==
  /\ Step("keepalive", "idle")
  /\ now' = 0
  /\ UNCHANGED <<rx, polling, pullAck, socket, pending, wire, tally, acked>>

SendPullData(ok) ==
  /\ Return
  /\ KeepaliveDue
  /\ last_pull_data_ms' = now
  /\ pulled' = (pulled \/ (fd >= 0 /\ ok))

KeepaliveNotDue ==
  /\ Return
  /\ ~KeepaliveDue
  /\ UNCHANGED keepalive

-----------------------------------------------------------------------------
(* The LoRaWAN task: on_uplink_captured(), one region *)

Capture ==
  /\ captured < MaxUplinks
  /\ captured' = captured + 1
  /\ UNCHANGED <<surroundings, pc, now, rx, polling, keepalive, pullAck,
                 active, socket, tally, acked>>

\* The network is down or the socket is not open: no copy.
CaptureDropped ==
  /\ Capture
  /\ ~active \/ fd < 0
  /\ UNCHANGED <<pending, wire>>

\* The rxpk does not fit: no copy, but its header, and as much of it as fits,
\* are in pending_buf by then; the other fields are not written.
CaptureTooLarge(len, t) ==
  /\ Capture
  /\ active /\ fd >= 0
  /\ TooLarge(len)
  /\ Draw(t)
  /\ pending_buf' = [token |-> t, uplink |-> captured']
  /\ UNCHANGED <<pending_token, pending_uplink, timer, pending_active, wire>>

\* What on_uplink_captured() notes of the copy of uplink u it has sent.
BecomePendingVariant(u, t) ==
  /\ pending_uplink' = u /\ age' = 0
  /\ pending_token' = t
  /\ pending_sent_ms' = millis + RETRANSMIT_TIMEOUT_MS
  /\ pending_active' = TRUE
  /\ pending_retransmitted' = FALSE
BecomePending(u, t) ==
  /\ pending_uplink' = u /\ age' = 0
  /\ pending_token' = t
  /\ pending_sent_ms' = millis
  /\ pending_active' = TRUE
  /\ pending_retransmitted' = FALSE

\* The copy is sent, and pending from then on, even if send() fails.
CaptureInjected(len, t, ok) ==
  /\ Capture
  /\ active /\ fd >= 0
  /\ ~TooLarge(len)
  /\ Draw(t)
  /\ pending_buf' = [token |-> t, uplink |-> captured']
  /\ Send(captured', pending_buf', ok)
  /\ BecomePending(captured', t)

-----------------------------------------------------------------------------
(* The surroundings *)

NetChange ==
  /\ net' = ~net
  /\ UNCHANGED <<millis, stall, pc, now, rx, polling, keepalive, pullAck,
                 active, socket, pending, wire, tally, captured, acked>>

\* a + 1, but no more than cap.
UpTo(cap, a) == IF a < cap THEN a + 1 ELSE a

Tick ==
  /\ stall < MaxStall
  /\ stall' = stall + 1
  /\ millis' = (millis + 1) % MILLIS_MOD
  /\ age' = IF pending_active THEN UpTo(RETRANSMIT_TIMEOUT_MS, age) ELSE age
  /\ silence' = IF got_pull_ack THEN UpTo(MILLIS_MOD, silence) ELSE silence
  /\ UNCHANGED <<net, pc, now, rx, polling, keepalive, got_pull_ack,
                 last_pull_ack_ms, active, socket, wire, tally, captured, acked,
                 datagram, pending_sent_ms, pending_active,
                 pending_retransmitted>>

-----------------------------------------------------------------------------
MainTask ==
  \/ SetActive
  \/ LoopNetworkLost \/ LoopResolve \/ LoopReady \/ LoopReturn
  \/ ResolveFails \/ ResolveSucceeds
  \/ DrainRecv \/ DrainEmpty
  \/ HandlePushAckMatch \/ HandlePushAckOther \/ HandlePullAck \/ HandleOther
  \/ RetransmitNotDue \/ GiveUp \/ KeepaliveNotDue
  \/ \E ok \in BOOLEAN : Retransmit(ok) \/ SendPullData(ok)

LoRaWANTask ==
  \/ CaptureDropped
  \/ \E len \in PhyLens, t \in Tokens :
       \/ CaptureTooLarge(len, t)
       \/ \E ok \in BOOLEAN : CaptureInjected(len, t, ok)

Next == MainTask \/ LoRaWANTask \/ NetChange \/ Tick

Spec == Init /\ [][Next]_vars

\* The main task is scheduled, time passes, the receive queue is found empty
\* now and then, and name resolution that is tried again and again succeeds
\* at last.
Fairness ==
  /\ WF_vars(MainTask)
  /\ SF_vars(Tick)
  /\ SF_vars(DrainEmpty)
  /\ SF_vars(ResolveSucceeds)

FairSpec == Spec /\ Fairness

-----------------------------------------------------------------------------
(* Correctness *)

TypeOfFlags ==
  /\ net \in BOOLEAN
  /\ last_net_connected \in BOOLEAN
  /\ pulled \in BOOLEAN
  /\ got_pull_ack \in BOOLEAN
  /\ ready \in BOOLEAN
  /\ active \in BOOLEAN
  /\ pending_retransmitted \in BOOLEAN
  /\ pending_active \in BOOLEAN

TypeOfTimes ==
  /\ millis \in Millis
  /\ now \in Millis
  /\ last_dns_attempt_ms \in Millis
  /\ last_pull_data_ms \in Millis
  /\ last_pull_ack_ms \in Millis
  /\ pending_sent_ms \in Millis
  /\ stall \in 0..MaxStall
  /\ silence \in 0..MILLIS_MOD
  /\ age \in 0..RETRANSMIT_TIMEOUT_MS

TypeOfControl ==
  /\ pc \in {"idle", "loop", "resolve", "drain", "handle", "retransmit",
             "keepalive"}
  /\ rx \in Received
  /\ fd \in {-1, 0}

TypeOfPending ==
  /\ pending_buf \in Datagram
  /\ pending_token \in Tokens
  /\ pending_uplink \in 0..MaxUplinks
  /\ reused \in BOOLEAN

TypeOfCopies ==
  /\ sent \subseteq Datagram
  /\ attempts \in [Uplinks -> Nat]
  /\ uplinks_forwarded \in Nat
  /\ counted \subseteq 0..MaxUplinks
  /\ captured \in 0..MaxUplinks
  /\ acked \subseteq 0..MaxUplinks

TypeOK ==
  /\ TypeOfFlags
  /\ TypeOfTimes
  /\ TypeOfControl
  /\ TypeOfPending
  /\ TypeOfCopies

\* The pending copy and the connection belong to the socket that is open, and
\* a socket is open only while the main task takes the network to be up: what
\* close_socket_() must reset before a new socket is made.
PendingHasSocket ==
  /\ ready <=> fd >= 0
  /\ fd >= 0 => last_net_connected
  /\ pending_active => fd >= 0

\* "Connected" never outlives the socket the PULL_ACK came in on.
ConnectedOnThisSocket == got_pull_ack => fd >= 0 /\ pulled

\* "PULL_ACK seen within 3 keepalive intervals" (the header file), whatever
\* was read when, until a silence has lasted as long as millis() takes to wrap.
ConnectedUnlessWrapped ==
  got_pull_ack /\ silence < MILLIS_MOD
    => (IsConnected <=> silence < 3 * keepalive_ms)

\* uplinks_forwarded_ counts every copy at most once, and only a copy for
\* which the server's own acknowledgement has arrived: an answer to an
\* earlier copy, or the second answer to this one, is never taken for it.
\* Until a token that is in use is drawn again: from then on the answer to one
\* copy may be taken for the answer to another.
CountedWereAcked ==
  ~reused => counted \subseteq acked /\ uplinks_forwarded = Cardinality(counted)

\* Whatever left for an uplink is one and the same datagram.  Its token is no
\* other uplink's, until one that is in use is drawn again, and nothing leaves
\* for an uplink whose copy was dropped.
SentDatagramsAgree ==
  /\ \A d, e \in sent : d.uplink = e.uplink => d.token = e.token
  /\ ~reused => \A d, e \in sent : d.token = e.token => d.uplink = e.uplink
  /\ \A d \in sent : d.uplink \in Uplinks /\ attempts[d.uplink] > 0

\* A copy is handed to send() once and retransmitted at most once.
SentAtMostTwice == \A u \in Uplinks : attempts[u] <= 2

\* check_retransmit_() acts only when RETRANSMIT_TIMEOUT_MS have passed since
\* the last send() of the copy that is pending now, and gives a copy up only
\* after its second one.
RetransmitOnTime ==
  [][pc = "retransmit" /\ pc' = "keepalive" /\ pending_active
       => /\ attempts' # attempts => age >= RETRANSMIT_TIMEOUT_MS
          /\ ~pending_active' => /\ age >= RETRANSMIT_TIMEOUT_MS
                                /\ attempts[pending_uplink] = 2]_vars

\* What became of the copy of uplink u.
CopyStatus ==
  [u \in Uplinks |->
     IF u > captured THEN "none"
     ELSE IF u \in counted THEN "confirmed"
     ELSE IF pending_active /\ u = pending_uplink THEN "waiting"
     ELSE "lost"]

Copies == INSTANCE UplinkCopies
            WITH status <- CopyStatus, forwarded <- uplinks_forwarded

\* The forwarder does with the copies what UplinkCopies says, in every step
\* until a token that is in use is drawn again.
CopiesSpec == Copies!Init /\ [][~reused' => Copies!Next]_(Copies!vars)

\* Every copy that was made is confirmed or given up.
CopiesResolved == Copies!Resolved

\* With the network up for good, the forwarder has a socket for good and keeps
\* sending PULL_DATA; with the network down for good, it closes the socket.
SocketFollowsNetwork ==
  /\ <>[]net => <>[](fd >= 0)
  /\ <>[]~net => <>[](fd < 0 /\ ~active)
KeepsAlive == <>[]net => []<><<\E ok \in BOOLEAN : SendPullData(ok)>>_vars

\* A server that stops answering is noticed.
SilenceShows == []<><<HandlePullAck>>_vars \/ []<>~IsConnected
=============================================================================
