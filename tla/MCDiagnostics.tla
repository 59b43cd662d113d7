---------------------------- MODULE MCDiagnostics ----------------------------
(***************************************************************************)
(* The turns of the main task, that is, the forwarder and the publication, *)
(* for TLC.  The configurations MCDiagnostics_*.cfg choose small values;   *)
(* what they must keep to for the interesting cases to happen is stated    *)
(* here and evaluated with every run.                                      *)
(***************************************************************************)
EXTENDS Diagnostics

\* No timeout can be jumped over by a main task that is slow for two turns on
\* end.  The keepalive is either within the clock's range, with room to see
\* three of them missed, or out of it and never sent.
ASSUME BoundsAssumption ==
  /\ MILLIS_MOD > RETRANSMIT_TIMEOUT_MS + MaxStall
  /\ MILLIS_MOD > DNS_RETRY_MS
  /\ 3 * keepalive_ms < MILLIS_MOD \/ MILLIS_MOD <= keepalive_ms
=============================================================================
