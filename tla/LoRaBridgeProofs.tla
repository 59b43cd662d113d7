-------------------------- MODULE LoRaBridgeProofs --------------------------
(***************************************************************************)
(* Proofs about LoRaBridge, whatever the bounds.  What may go wrong is     *)
(* said by Faults: the theorems on the session and on the tee hold with    *)
(* every fault, those on the DevNonce name the faults they exclude.        *)
(***************************************************************************)
EXTENDS LoRaBridge, TLAPS

AfterJoin == {"first", "uplink", "wait"}

LEMMA NoneIsInt == None \in Int /\ None < 0 /\ None \notin Nat
BY DEF None

-----------------------------------------------------------------------------
(* Types *)

LEMMA UpToType ==
  ASSUME NEW cap \in Nat, NEW a \in 0..cap PROVE UpTo(cap, a) \in 0..cap
BY DEF UpTo

LEMMA WasteType ==
  ASSUME TypeOfCounts, Waste
  PROVE  wasted' \in 0..MaxWasted /\ reboots' \in 0..MaxReboots
BY BoundAssumption DEF TypeOfCounts, Waste

LEMMA TransmitType ==
  ASSUME TypeOfCounts, Transmit PROVE copies' \in 0..MaxUplinks
BY BoundAssumption, UpToType DEF TypeOfCounts, Transmit

LEMMA FlagsInit == Init => TypeOfFlags
BY DEF Init, TypeOfFlags

LEMMA FlagsNext == TypeOfFlags /\ [Next]_vars => TypeOfFlags'
<1> SUFFICES ASSUME TypeOfFlags, [Next]_vars PROVE TypeOfFlags'
  OBVIOUS
<1> USE DEF TypeOfFlags, flash, air
<1>1. CASE SetupFails \/ SetupRestored \/ SetupRejected \/ SetupFresh
  BY <1>1 DEF SetupFails, SetupRestored, SetupRejected, SetupFresh, SetupWith,
              StartTask
<1>2. CASE RequestLost \/ RequestRefused \/ RequestAccepted
  BY <1>2 DEF RequestLost, RequestRefused, RequestAccepted, Request
<1>3. CASE JoinAccepted \/ JoinAcceptLost \/ JoinTimesOut
  BY <1>3 DEF JoinAccepted, JoinAcceptLost, JoinTimesOut, Return
<1>4. CASE SaveNonces \/ SaveFails \/ JoinSucceeded \/ JoinFailed
  BY <1>4 DEF SaveNonces, SaveFails, Save, JoinSucceeded, JoinFailed
<1>5. CASE UplinkSent \/ UplinkSkipped \/ Delay
  BY <1>5 DEF UplinkSent, UplinkSkipped, Uplink, Delay
<1>6. CASE Reboot
  BY <1>6 DEF Reboot
<1>7. CASE UNCHANGED vars
  BY <1>7 DEF vars
<1>8. QED
  BY <1>1, <1>2, <1>3, <1>4, <1>5, <1>6, <1>7
     DEF Next, Setup, JoinLoop, UplinkLoop

\* An answer is to a request that was made.
NoncesInv == TypeOfNonces /\ (task = "answer" => devNonce > 0)

LEMMA NoncesInit == Init => NoncesInv
BY DEF Init, NoncesInv, TypeOfNonces, Tasks, None

LEMMA NoncesNext == NoncesInv /\ [Next]_vars => NoncesInv'
<1> SUFFICES ASSUME NoncesInv, [Next]_vars PROVE NoncesInv'
  OBVIOUS
<1> USE DEF NoncesInv, TypeOfNonces, Tasks, node, flash, server, air
<1>1. CASE SetupFails
  BY <1>1 DEF SetupFails
<1>2. CASE SetupRestored \/ SetupRejected \/ SetupFresh
  BY <1>2 DEF SetupRestored, SetupRejected, SetupFresh, Loaded, SetupWith,
              StartTask
<1>3. CASE RequestLost \/ RequestRefused \/ RequestAccepted
  BY <1>3 DEF RequestLost, RequestRefused, RequestAccepted, Request, NextNonce
<1>4. CASE JoinAccepted \/ JoinAcceptLost \/ JoinTimesOut
  BY <1>4 DEF JoinAccepted, JoinAcceptLost, JoinTimesOut, Return, AfterAttempt
<1>5. CASE SaveNonces \/ SaveFails \/ JoinSucceeded \/ JoinFailed
  BY <1>5 DEF SaveNonces, SaveFails, Save, JoinSucceeded, JoinFailed
<1>6. CASE UplinkSent \/ UplinkSkipped
  BY <1>6 DEF UplinkSent, UplinkSkipped, Uplink
<1>7. CASE Delay
  BY <1>7 DEF Delay, AfterDelay
<1>8. CASE Reboot
  BY <1>8 DEF Reboot
<1>9. CASE UNCHANGED vars
  BY <1>9 DEF vars
<1>10. QED
  BY <1>1, <1>2, <1>3, <1>4, <1>5, <1>6, <1>7, <1>8, <1>9
     DEF Next, Setup, JoinLoop, UplinkLoop

LEMMA CountsInit == Init => TypeOfCounts
BY BoundAssumption DEF Init, TypeOfCounts

LEMMA CountsNext == TypeOfCounts /\ [Next]_vars => TypeOfCounts'
<1> SUFFICES ASSUME TypeOfCounts, [Next]_vars PROVE TypeOfCounts'
  OBVIOUS
<1> USE DEF TypeOfCounts, frames, limits
<1>1. CASE SetupFails \/ SetupRestored \/ SetupRejected \/ SetupFresh
  BY <1>1 DEF SetupFails, SetupRestored, SetupRejected, SetupFresh, SetupWith
<1>2. CASE RequestLost
  BY <1>2, WasteType, TransmitType DEF RequestLost, Request
<1>3. CASE RequestRefused \/ RequestAccepted
  BY <1>3, TransmitType DEF RequestRefused, RequestAccepted, Request
<1>4. CASE JoinAccepted \/ JoinTimesOut
  BY <1>4 DEF JoinAccepted, JoinTimesOut, Return
<1>5. CASE JoinAcceptLost
  BY <1>5, WasteType DEF JoinAcceptLost, Return
<1>6. CASE SaveNonces \/ SaveFails \/ JoinSucceeded \/ JoinFailed
  BY <1>6 DEF SaveNonces, SaveFails, Save, JoinSucceeded, JoinFailed
<1>7. CASE UplinkSent
  <2>1. uplinks' \in 0..MaxUplinks
    BY <1>7, BoundAssumption, UpToType DEF UplinkSent
  <2>2. QED
    BY <1>7, <2>1, TransmitType DEF UplinkSent
<1>8. CASE UplinkSkipped
  BY <1>8, WasteType DEF UplinkSkipped
<1>9. CASE Delay
  BY <1>9 DEF Delay
<1>10. CASE Reboot
  BY <1>10, BoundAssumption DEF Reboot
<1>11. CASE UNCHANGED vars
  BY <1>11 DEF vars
<1>12. QED
  BY <1>1, <1>2, <1>3, <1>4, <1>5, <1>6, <1>7, <1>8, <1>9, <1>10, <1>11
     DEF Next, Setup, JoinLoop, UplinkLoop

TypeInv == TypeOfFlags /\ NoncesInv /\ TypeOfCounts

LEMMA TypeInit == Init => TypeInv
BY FlagsInit, NoncesInit, CountsInit DEF TypeInv

LEMMA TypeNext == TypeInv /\ [Next]_vars => TypeInv'
BY FlagsNext, NoncesNext, CountsNext DEF TypeInv

\* Every variable keeps to its type.
THEOREM TypeCorrect == Spec => []TypeOK
<1>1. TypeInv => TypeOK
  BY DEF TypeInv, NoncesInv, TypeOK
<1>2. QED
  BY TypeInit, TypeNext, <1>1, PTL DEF Spec

-----------------------------------------------------------------------------
(* The session *)

\* The node takes a session only from the accept of its last request, and
\* makes no further request before it reboots.
SessionInv ==
  /\ serverSession = lastNonce
  /\ accept => task = "answer" /\ serverSession = devNonce - 1
  /\ session # None
       => /\ task \in {"save", "saved"} \cup AfterJoin
          /\ session = serverSession
  /\ joined => session # None

LEMMA SessionInit == Init => SessionInv
BY DEF Init, SessionInv

LEMMA SessionNext == TypeInv /\ SessionInv /\ [Next]_vars => SessionInv'
<1> SUFFICES ASSUME TypeInv, SessionInv, [Next]_vars PROVE SessionInv'
  OBVIOUS
<1> USE DEF SessionInv, AfterJoin, node, flash, server, air, frames, limits
<1>1. CASE SetupFails \/ SetupRestored \/ SetupRejected \/ SetupFresh
  BY <1>1 DEF SetupFails, SetupRestored, SetupRejected, SetupFresh, SetupWith,
              StartTask
<1>2. CASE RequestLost \/ RequestRefused
  BY <1>2 DEF RequestLost, RequestRefused, Request
<1>3. CASE RequestAccepted
  BY <1>3 DEF RequestAccepted, Request, NextNonce, TypeInv, NoncesInv, TypeOfNonces
<1>4. CASE JoinAccepted
  BY <1>4, NoneIsInt DEF JoinAccepted, Return, AfterAttempt, TypeInv, NoncesInv, TypeOfNonces
<1>5. CASE JoinAcceptLost \/ JoinTimesOut
  BY <1>5 DEF JoinAcceptLost, JoinTimesOut, Return, AfterAttempt
<1>6. CASE SaveNonces \/ SaveFails
  BY <1>6 DEF SaveNonces, SaveFails, Save
<1>7. CASE JoinSucceeded \/ JoinFailed
  BY <1>7 DEF JoinSucceeded, JoinFailed, Succeeded
<1>8. CASE UplinkSent \/ UplinkSkipped
  BY <1>8 DEF UplinkSent, UplinkSkipped, Uplink
<1>9. CASE Delay
  BY <1>9 DEF Delay, AfterDelay
<1>10. CASE Reboot
  BY <1>10 DEF Reboot
<1>11. CASE UNCHANGED vars
  BY <1>11 DEF vars
<1>12. QED
  BY <1>1, <1>2, <1>3, <1>4, <1>5, <1>6, <1>7, <1>8, <1>9, <1>10, <1>11
     DEF Next, Setup, JoinLoop, UplinkLoop

\* Whatever faults occur, the uplinks go out under the session the server has.
THEOREM SessionCorrect == Spec => []SessionsAgree
<1>1. SessionInv => SessionsAgree
  BY DEF SessionInv, SessionsAgree
<1>2. QED
  BY TypeInit, TypeNext, SessionInit, SessionNext, <1>1, PTL DEF Spec

-----------------------------------------------------------------------------
(* The tee *)

TeeInv ==
  /\ CopiesAreUplinks
  /\ tee_enabled <=> task \in AfterJoin

LEMMA TeeInit == Init => TeeInv
BY DEF Init, TeeInv, CopiesAreUplinks, AfterJoin

LEMMA TeeNext == TeeInv /\ [Next]_vars => TeeInv'
<1> SUFFICES ASSUME TeeInv, [Next]_vars PROVE TeeInv'
  OBVIOUS
<1> USE DEF TeeInv, CopiesAreUplinks, AfterJoin, frames
<1>1. CASE SetupFails \/ SetupRestored \/ SetupRejected \/ SetupFresh
  BY <1>1 DEF SetupFails, SetupRestored, SetupRejected, SetupFresh, SetupWith,
              StartTask
<1>2. CASE RequestLost \/ RequestRefused \/ RequestAccepted
  BY <1>2 DEF RequestLost, RequestRefused, RequestAccepted, Request, Transmit
<1>3. CASE JoinAccepted \/ JoinAcceptLost \/ JoinTimesOut
  BY <1>3 DEF JoinAccepted, JoinAcceptLost, JoinTimesOut, Return, AfterAttempt
<1>4. CASE SaveNonces \/ SaveFails
  BY <1>4 DEF SaveNonces, SaveFails, Save
<1>5. CASE JoinSucceeded \/ JoinFailed
  BY <1>5 DEF JoinSucceeded, JoinFailed
<1>6. CASE UplinkSent
  BY <1>6 DEF UplinkSent, Uplink, Transmit
<1>7. CASE UplinkSkipped
  BY <1>7 DEF UplinkSkipped, Uplink
<1>8. CASE Delay
  BY <1>8 DEF Delay, AfterDelay
<1>9. CASE Reboot
  BY <1>9 DEF Reboot
<1>10. CASE UNCHANGED vars
  BY <1>10 DEF vars
<1>11. QED
  BY <1>1, <1>2, <1>3, <1>4, <1>5, <1>6, <1>7, <1>8, <1>9, <1>10
     DEF Next, Setup, JoinLoop, UplinkLoop

\* Whatever faults occur, every uplink is copied and no join request is.
THEOREM TeeCorrect == Spec => []CopiesAreUplinks
<1>1. TeeInv => CopiesAreUplinks
  BY DEF TeeInv
<1>2. QED
  BY TeeInit, TeeNext, <1>1, PTL DEF Spec

-----------------------------------------------------------------------------
(* The DevNonce *)

\* The DevNonce a boot starts from.
Stored == IF Loaded THEN nonces_pref ELSE 0

Attempting == {"answer", "save"}

\* If save() and setBufferNonces() do not fail, the flash lags behind only
\* during an attempt, and what it misses when a reboot comes is the last one.
NonceInv ==
  /\ Stored >= used
  /\ ~interrupted /\ task \notin Attempting => Stored > used
  /\ task \in Attempting => devNonce = used + 1
  /\ task \in {"join", "saved", "retry"} \cup AfterJoin => devNonce = Stored

LEMMA NonceInit == Init => NonceInv
BY DEF Init, NonceInv, Stored, Loaded, None, Attempting, AfterJoin

LEMMA NonceNext ==
  ASSUME Faults \subseteq {"reboot_joining"}, TypeInv, NonceInv, [Next]_vars
  PROVE  NonceInv'
<1> USE DEF NonceInv, Stored, Loaded, Attempting, AfterJoin, flash
<1>1. CASE SetupFails
  BY <1>1 DEF SetupFails, air
<1>2. CASE SetupRestored \/ SetupRejected \/ SetupFresh
  BY <1>2 DEF SetupRestored, SetupRejected, SetupFresh, SetupWith, StartTask,
              air
<1>3. CASE RequestLost \/ RequestRefused \/ RequestAccepted
  <2>1. /\ task = "join" /\ task' = "answer"
        /\ used' = devNonce /\ devNonce' = devNonce + 1
        /\ UNCHANGED <<nonces_pref, interrupted>>
    BY <1>3 DEF RequestLost, RequestRefused, RequestAccepted, Request, NextNonce
  <2>2. devNonce \in Nat
    BY DEF TypeInv, NoncesInv, TypeOfNonces
  <2>3. QED
    BY <2>1, <2>2
<1>4. CASE JoinAccepted \/ JoinAcceptLost \/ JoinTimesOut
  BY <1>4 DEF JoinAccepted, JoinAcceptLost, JoinTimesOut, Return, AfterAttempt
<1>5. CASE SaveNonces
  <2>1. /\ task = "save" /\ task' = "saved"
        /\ nonces_pref' = devNonce
        /\ UNCHANGED <<devNonce, used>>
    BY <1>5 DEF SaveNonces, Save, node, air
  <2>2. devNonce \in Nat /\ used \in Int
    BY NoneIsInt DEF TypeInv, NoncesInv, TypeOfNonces
  <2>3. Stored' = devNonce
    BY <2>1, <2>2, NoneIsInt
  <2>4. QED
    BY <2>1, <2>2, <2>3
<1>6. CASE SaveFails
  BY <1>6 DEF SaveFails
<1>7. CASE JoinSucceeded \/ JoinFailed
  BY <1>7 DEF JoinSucceeded, JoinFailed, node, air
<1>8. CASE UplinkSent \/ UplinkSkipped
  BY <1>8 DEF UplinkSent, UplinkSkipped, Uplink, node, air
<1>9. CASE Delay
  BY <1>9 DEF Delay, AfterDelay, node, air
<1>10. CASE Reboot
  BY <1>10 DEF Reboot
<1>11. CASE UNCHANGED vars
  BY <1>11 DEF vars, node, air
<1>12. QED
  BY <1>1, <1>2, <1>3, <1>4, <1>5, <1>6, <1>7, <1>8, <1>9, <1>10, <1>11
     DEF Next, Setup, JoinLoop, UplinkLoop

\* Only a join request takes the task from the top of the join loop into
\* activateOTAA().
LEMMA RequestStep ==
  ASSUME [Next]_vars, task = "join", task' = "answer"
  PROVE  used' = devNonce
BY DEF Next, Setup, SetupFails, SetupRestored, SetupRejected, SetupFresh,
       SetupWith, JoinLoop, RequestLost, RequestRefused, RequestAccepted,
       Request, JoinAccepted, JoinAcceptLost, JoinTimesOut, Return, SaveNonces,
       SaveFails, Save, JoinSucceeded, JoinFailed, UplinkLoop, UplinkSent,
       UplinkSkipped, Uplink, Delay, AfterDelay, Reboot, vars

\* With an honest flash, a DevNonce comes back only right after a reboot that
\* cut the attempt short, however often that happens, and never an older one.
THEOREM DevNonceCorrect ==
  ASSUME Faults \subseteq {"reboot_joining"} PROVE Spec => DevNoncesAdvance
<1> DEFINE Advances ==
      task = "join" /\ task' = "answer"
        => used' > used \/ (interrupted /\ used' = used)
<1>1. Init => TypeInv /\ NonceInv
  BY TypeInit, NonceInit
<1>2. TypeInv /\ NonceInv /\ [Next]_vars => TypeInv' /\ NonceInv'
  BY TypeNext, NonceNext
<1>3. TypeInv /\ NonceInv /\ [Next]_vars => Advances
  <2> SUFFICES ASSUME TypeInv, NonceInv, [Next]_vars,
                      task = "join", task' = "answer"
               PROVE  used' > used \/ (interrupted /\ used' = used)
    OBVIOUS
  <2>1. used' = devNonce /\ devNonce = Stored
    BY RequestStep DEF NonceInv
  <2>2. Stored >= used /\ (~interrupted => Stored > used)
    BY DEF NonceInv, Attempting
  <2>3. used \in Int /\ devNonce \in Int
    BY NoneIsInt DEF TypeInv, NoncesInv, TypeOfNonces
  <2>4. CASE interrupted
    BY <2>1, <2>2, <2>3, <2>4
  <2>5. CASE ~interrupted
    BY <2>1, <2>2, <2>5
  <2>6. QED
    BY <2>4, <2>5
<1>4. QED
  BY <1>1, <1>2, <1>3, PTL DEF Spec, DevNoncesAdvance

\* What the header file asks for holds if, besides, no reboot ever comes
\* between a join request and the save that follows it.
THEOREM DevNonceMonotonic ==
  ASSUME Faults = {} PROVE Spec => DevNoncesIncrease
<1> DEFINE Increases == task = "join" /\ task' = "answer" => used' > used
           Quiet == interrupted = FALSE
<1>1. Init => TypeInv /\ NonceInv /\ Quiet
  BY TypeInit, NonceInit DEF Init
<1>2. TypeInv /\ NonceInv /\ [Next]_vars => TypeInv' /\ NonceInv'
  BY TypeNext, NonceNext
<1>3. TypeInv /\ Quiet /\ [Next]_vars => Quiet'
  <2> SUFFICES ASSUME Quiet, [Next]_vars PROVE Quiet'
    OBVIOUS
  <2>1. CASE Reboot
    BY <2>1 DEF Reboot
  <2>2. CASE ~Reboot
    BY <2>2
       DEF Next, Setup, SetupFails, SetupRestored, SetupRejected, SetupFresh,
           SetupWith, JoinLoop, RequestLost, RequestRefused, RequestAccepted,
           Request, JoinAccepted, JoinAcceptLost, JoinTimesOut, Return,
           SaveNonces, SaveFails, Save, JoinSucceeded, JoinFailed, UplinkLoop,
           UplinkSent, UplinkSkipped, Uplink, Delay, flash, vars
  <2>3. QED
    BY <2>1, <2>2
<1>4. NonceInv /\ Quiet /\ [Next]_vars => Increases
  <2> SUFFICES ASSUME NonceInv, Quiet, [Next]_vars,
                      task = "join", task' = "answer"
               PROVE  used' > used
    OBVIOUS
  <2>1. used' = devNonce /\ devNonce = Stored
    BY RequestStep DEF NonceInv
  <2>2. Stored > used
    BY DEF NonceInv, Attempting
  <2>3. QED
    BY <2>1, <2>2
<1>5. QED
  BY <1>1, <1>2, <1>3, <1>4, PTL DEF Spec, DevNoncesIncrease
=============================================================================
