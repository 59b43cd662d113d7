------------------------------- MODULE MCRadio -------------------------------
(* The node on its radio for TLC, under the bounds of MCBridge. *)
EXTENDS CaptureRadio, MCBridge
=============================================================================
