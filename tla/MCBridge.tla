------------------------------ MODULE MCBridge ------------------------------
(***************************************************************************)
(* LoRaBridge for TLC: see the configurations MCBridge_*.cfg.              *)
(***************************************************************************)
EXTENDS LoRaBridge

\* An attempt may be wasted before a reboot and another one after it.
ASSUME MCBoundsAssumption == MaxWasted >= 2 /\ MaxReboots >= 2 /\ MaxUplinks >= 1
=============================================================================
