---------------------------- MODULE UplinkCopies ----------------------------
(***************************************************************************)
(* What the virtual gateway promises about the copies of the uplinks it is *)
(* handed, with no socket, token, timer or lock in sight.  A copy waits    *)
(* for its confirmation or is over: confirmed, or lost for good.  At most  *)
(* one copy waits at a time (a newer uplink takes the place of an older    *)
(* one), only a copy the server has acknowledged is ever confirmed, and    *)
(* the counter shown to the user grows by one with each confirmation.      *)
(*                                                                         *)
(* VirtualGatewayForwarder implements this specification.                  *)
(***************************************************************************)
EXTENDS Naturals

CONSTANT Uplinks          \* the uplinks the radio transmits, 1, 2, 3, ...

VARIABLES
  status,                 \* status[u]: where the copy of uplink u stands
  acked,                  \* the uplinks whose acknowledgement has reached us
  forwarded               \* the counter of the "Uplinks Forwarded" sensor

vars == <<status, acked, forwarded>>

Statuses == {"none", "waiting", "confirmed", "lost"}
Final == {"confirmed", "lost"}

Init ==
  /\ status = [u \in Uplinks |-> "none"]
  /\ acked = {}
  /\ forwarded = 0

\* An uplink was transmitted: its copy waits, in the place of the last one.
Inject(u) ==
  /\ status[u] = "none"
  /\ status' = [v \in Uplinks |->
                  IF v = u THEN "waiting"
                  ELSE IF status[v] = "waiting" THEN "lost" ELSE status[v]]
  /\ UNCHANGED <<acked, forwarded>>

\* An uplink was transmitted, but no copy of it can be made.
Refuse(u) ==
  /\ status[u] = "none"
  /\ status' = [status EXCEPT ![u] = "lost"]
  /\ UNCHANGED <<acked, forwarded>>

\* The server's acknowledgement of a copy arrives, on time or not.
Acknowledge(u) ==
  /\ status[u] # "none"
  /\ acked' = acked \cup {u}
  /\ UNCHANGED <<status, forwarded>>

Confirm(u) ==
  /\ status[u] = "waiting"
  /\ u \in acked
  /\ status' = [status EXCEPT ![u] = "confirmed"]
  /\ forwarded' = forwarded + 1
  /\ UNCHANGED acked

\* Waiting ends without an answer: the retransmit went unanswered, or the
\* network was lost.
Abandon(u) ==
  /\ status[u] = "waiting"
  /\ status' = [status EXCEPT ![u] = "lost"]
  /\ UNCHANGED <<acked, forwarded>>

Next ==
  \E u \in Uplinks :
    Inject(u) \/ Refuse(u) \/ Acknowledge(u) \/ Confirm(u) \/ Abandon(u)

Spec == Init /\ [][Next]_vars

-----------------------------------------------------------------------------
TypeOK ==
  /\ status \in [Uplinks -> Statuses]
  /\ acked \subseteq Uplinks
  /\ forwarded \in Nat

Confirmed == {u \in Uplinks : status[u] = "confirmed"}

\* At most one copy waits.
OneWaits ==
  \A u, v \in Uplinks : status[u] = "waiting" /\ status[v] = "waiting" => u = v

\* Only what the server has acknowledged is confirmed.
ConfirmedWereAcked == Confirmed \subseteq acked

\* No copy waits for ever.
Resolved == \A u \in Uplinks : (status[u] = "waiting") ~> (status[u] \in Final)
=============================================================================
