----------------------------- MODULE LoRaBridge -----------------------------
(***************************************************************************)
(* The life of the node (src/components/lorabridge/lorabridge.cpp): setup, *)
(* the LoRaWAN task that joins over the air and then sends uplinks, the    *)
(* nonces it keeps in flash, and the tee (capture_radio.h) that hands a    *)
(* copy of what the radio transmitted to the virtual gateway.              *)
(*                                                                         *)
(* A reboot may come between any two steps; it leaves the flash and the    *)
(* network server as they are and nothing else.  RadioLib's LoRaWANNode,   *)
(* the preferences and the server are modelled from how the code uses      *)
(* them: a join request carries the next DevNonce, and the server accepts  *)
(* it if it is higher than any it has accepted.                            *)
(* Operators called ...Variant are slips one could make in the code; no    *)
(* action uses them.                                                       *)
(***************************************************************************)
EXTENDS Integers

CONSTANTS
  Faults,            \* which of AllFaults may happen
  MaxWasted,         \* bound: attempts the air, the radio or the size wastes
  MaxReboots,        \* bound: reboots while the component works
  MaxUplinks         \* bound: how far uplinks and copies are counted

AllFaults == {"reboot_joining",       \* ... in or right after activateOTAA()
              "nonces_rejected",      \* setBufferNonces() fails
              "save_fails"}           \* save() or sync() fails

ASSUME FaultsAssumption == Faults \subseteq AllFaults
ASSUME BoundAssumption ==
  MaxWasted \in Nat /\ MaxReboots \in Nat /\ MaxUplinks \in Nat

VARIABLES
  task,              \* where setup() or the LoRaWAN task is
  joined,            \* joined_
  tee_enabled,       \* of CaptureRadio
  devNonce,          \* of LoRaWANNode: the next DevNonce
  session,           \* of LoRaWANNode: the DevNonce it joined with, or None
  nonces_pref,       \* in flash: the next DevNonce, or None
  lastNonce,         \* of the server: the last DevNonce it accepted, or None
  serverSession,     \* of the server: the join its session is from, or None
  accept,            \* a join-accept is on its way
  used,              \* history: the DevNonce of the last join request, or None
  interrupted,       \* history: a reboot cut an attempt short, and no nonces
                     \* were saved since
  uplinks, copies,   \* history: uplinks transmitted; frames handed to the sink
  wasted, reboots    \* history: what the bounds limit

node == <<devNonce, session>>
server == <<lastNonce, serverSession>>
air == <<accept, used>>
flash == <<nonces_pref, interrupted>>
frames == <<uplinks, copies>>
limits == <<wasted, reboots>>

vars == <<task, joined, tee_enabled, node, flash, server, air, frames,
          limits>>

None == -1

Tasks == {"setup", "failed", "join", "answer", "save", "saved", "retry",
          "first", "uplink", "wait"}

\* a + 1, but no more than cap.
UpTo(cap, a) == IF a < cap THEN a + 1 ELSE a

Waste == wasted < MaxWasted /\ wasted' = wasted + 1 /\ UNCHANGED reboots

-----------------------------------------------------------------------------
Init ==
  /\ task = "setup"
  /\ joined = FALSE
  /\ tee_enabled = FALSE
  /\ devNonce = 0
  /\ session = None
  /\ nonces_pref = None
  /\ lastNonce = None
  /\ serverSession = None
  /\ accept = FALSE
  /\ used = None
  /\ interrupted = FALSE
  /\ uplinks = 0
  /\ copies = 0
  /\ wasted = 0
  /\ reboots = 0

-----------------------------------------------------------------------------
(* setup() *)

\* The radio or the node does not initialise: mark_failed().
SetupFails ==
  /\ task = "setup"
  /\ task' = "failed"
  /\ UNCHANGED <<joined, tee_enabled, node, flash, server, air, frames,
                 limits>>

\* The LoRaWAN task is created; the tee stays as it is.
StartTaskVariant == task' = "join" /\ tee_enabled' = TRUE
StartTask == task' = "join" /\ UNCHANGED tee_enabled

SetupWith(nonce) ==
  /\ task = "setup"
  /\ devNonce' = nonce
  /\ StartTask
  /\ UNCHANGED <<joined, session, flash, server, air, frames, limits>>

\* The result of load(): whether nonces were ever saved.
LoadedVariant == TRUE
Loaded == nonces_pref # None

SetupRestored == Loaded /\ SetupWith(nonces_pref)
SetupRejected == Loaded /\ "nonces_rejected" \in Faults /\ SetupWith(0)
SetupFresh == ~Loaded /\ SetupWith(0)

-----------------------------------------------------------------------------
(* The join loop *)

\* CaptureRadio::transmit(), when the radio has transmitted a frame.
Transmit ==
  copies' = IF tee_enabled THEN UpTo(MaxUplinks, copies) ELSE copies

\* activateOTAA() counts every request.
NextNonceVariant == devNonce
NextNonce == devNonce + 1

\* activateOTAA() transmits a join request and listens.
Request ==
  /\ task = "join"
  /\ task' = "answer"
  /\ devNonce' = NextNonce
  /\ used' = devNonce
  /\ Transmit
  /\ UNCHANGED <<joined, tee_enabled, session, flash, uplinks>>

RequestLost ==
  /\ Request
  /\ Waste
  /\ UNCHANGED <<accept, server>>

RequestRefused ==
  /\ Request
  /\ devNonce <= lastNonce
  /\ UNCHANGED <<accept, server, limits>>

RequestAccepted ==
  /\ Request
  /\ devNonce > lastNonce
  /\ lastNonce' = devNonce
  /\ serverSession' = devNonce
  /\ accept' = TRUE
  /\ UNCHANGED limits

\* activateOTAA() returns; either way the nonces are saved next.
AfterAttemptVariant(s) == IF s # None THEN "save" ELSE "saved"
AfterAttempt(s) == "save"

Return(s) ==
  /\ task = "answer"
  /\ session' = s
  /\ task' = AfterAttempt(s)
  /\ accept' = FALSE
  /\ UNCHANGED <<joined, tee_enabled, devNonce, flash, server, used,
                 frames>>

JoinAccepted == accept /\ Return(devNonce - 1) /\ UNCHANGED limits
JoinAcceptLost == accept /\ Return(None) /\ Waste
JoinTimesOut == ~accept /\ Return(None) /\ UNCHANGED limits

\* save_nonces_(); nobody looks at what save() and sync() return.
Save ==
  /\ task = "save"
  /\ task' = "saved"
  /\ UNCHANGED <<joined, tee_enabled, node, server, air, frames, limits>>

SaveNonces == Save /\ nonces_pref' = devNonce /\ interrupted' = FALSE
SaveFails == "save_fails" \in Faults /\ Save /\ UNCHANGED flash

\* The result of activateOTAA() ends the loop, and the tee is enabled, ...
SucceededVariant == TRUE
Succeeded == session # None

JoinSucceeded ==
  /\ task = "saved"
  /\ Succeeded
  /\ joined' = TRUE
  /\ tee_enabled' = TRUE
  /\ task' = "first"
  /\ UNCHANGED <<node, flash, server, air, frames, limits>>

\* ... or JOIN_DELAY_MS pass before the next attempt.
JoinFailed ==
  /\ task = "saved"
  /\ ~Succeeded
  /\ task' = "retry"
  /\ UNCHANGED <<joined, tee_enabled, node, flash, server, air, frames,
                 limits>>

-----------------------------------------------------------------------------
(* The uplink loop *)

Uplink ==
  /\ task = "uplink"
  /\ task' = "wait"
  /\ UNCHANGED <<joined, tee_enabled, node, flash, server, air>>

UplinkSent ==
  /\ Uplink
  /\ uplinks' = UpTo(MaxUplinks, uplinks)
  /\ Transmit
  /\ UNCHANGED limits

\* More than 51 bytes to send, or sendReceive() could not transmit: nothing
\* leaves, and the loop goes on as ever.
UplinkSkipped == Uplink /\ Waste /\ UNCHANGED frames

\* vTaskDelay(): JOIN_DELAY_MS, FIRST_UPLINK_DELAY_MS, uplink_interval_.
AfterDelay == [retry |-> "join", first |-> "uplink", wait |-> "uplink"]

Delay ==
  /\ task \in DOMAIN AfterDelay
  /\ task' = AfterDelay[task]
  /\ UNCHANGED <<joined, tee_enabled, node, flash, server, air, frames,
                 limits>>

-----------------------------------------------------------------------------
(* The surroundings *)

Reboot ==
  /\ task # "setup"
  /\ task \in {"answer", "save"} => "reboot_joining" \in Faults
  /\ \/ task = "failed" /\ UNCHANGED limits
     \/ /\ task # "failed" /\ reboots < MaxReboots
        /\ reboots' = reboots + 1 /\ UNCHANGED wasted
  /\ task' = "setup"
  /\ joined' = FALSE
  /\ tee_enabled' = FALSE
  /\ devNonce' = 0
  /\ session' = None
  /\ accept' = FALSE
  /\ interrupted' = (interrupted \/ task \in {"answer", "save"})
  /\ UNCHANGED <<nonces_pref, server, used, frames>>

-----------------------------------------------------------------------------
Setup == SetupFails \/ SetupRestored \/ SetupFresh \/ SetupRejected

JoinLoop ==
  \/ RequestLost \/ RequestRefused \/ RequestAccepted
  \/ JoinAccepted \/ JoinAcceptLost \/ JoinTimesOut
  \/ SaveNonces \/ SaveFails \/ JoinSucceeded \/ JoinFailed

UplinkLoop == UplinkSent \/ UplinkSkipped

Next == Setup \/ JoinLoop \/ UplinkLoop \/ Delay \/ Reboot

Spec == Init /\ [][Next]_vars

\* setup() runs, the LoRaWAN task is scheduled, and its calls return.
FairSpec == Spec /\ WF_vars(Setup \/ JoinLoop \/ UplinkLoop \/ Delay)

-----------------------------------------------------------------------------
(* Correctness *)

TypeOfFlags ==
  /\ joined \in BOOLEAN
  /\ tee_enabled \in BOOLEAN
  /\ accept \in BOOLEAN
  /\ interrupted \in BOOLEAN

TypeOfNonces ==
  /\ task \in Tasks
  /\ devNonce \in Nat
  /\ session \in Nat \cup {None}
  /\ nonces_pref \in Nat \cup {None}
  /\ lastNonce \in Nat \cup {None}
  /\ serverSession \in Nat \cup {None}
  /\ used \in Nat \cup {None}

TypeOfCounts ==
  /\ uplinks \in 0..MaxUplinks
  /\ copies \in 0..MaxUplinks
  /\ wasted \in 0..MaxWasted
  /\ reboots \in 0..MaxReboots

TypeOK == TypeOfFlags /\ TypeOfNonces /\ TypeOfCounts

\* "LoRaWAN 1.0.4 requires DevNonces to increase monotonically across
\* reboots" (the header file): every join request carries a higher DevNonce
\* than the one before it, on this or an earlier boot.
DevNoncesIncrease ==
  [][task = "join" /\ task' = "answer" => used' > used]_vars

\* What the code keeps of it: a DevNonce is used again only if a reboot cut an
\* attempt short before its nonces were saved, and then only the last one.
DevNoncesAdvance ==
  [][task = "join" /\ task' = "answer"
       => used' > used \/ (interrupted /\ used' = used)]_vars

\* While the uplink loop runs, the server's session is the node's: no join
\* request of this or an earlier boot that the node did not see answered has
\* replaced it.
SessionsAgree == joined => session # None /\ session = serverSession

\* What the sink is handed is the uplinks, all of them, and never a join
\* request ("join requests are never copied").
CopiesAreUplinks == copies = uplinks

\* Whatever is rejected, repeated or not saved: once the air and the power are
\* good, and setup() does not fail, the node joins and its uplinks flow.
UplinksFlow == []<>(task = "failed") \/ []<><<UplinkSent>>_vars
=============================================================================
