------------------------------ MODULE SharedBus ------------------------------
(***************************************************************************)
(* What the SPI bus promises to the devices on it: a device that wants the *)
(* bus waits for it, has it to itself for a whole transaction, however     *)
(* many bytes that takes, and gives it back.  SPIHal implements this.      *)
(***************************************************************************)
CONSTANT Devices

VARIABLE use            \* use[d]: what device d does with the bus

States == {"idle", "waiting", "using"}

Init == use = [d \in Devices |-> "idle"]

Ask(d) == use[d] = "idle" /\ use' = [use EXCEPT ![d] = "waiting"]

Begin(d) ==
  /\ use[d] = "waiting"
  /\ \A e \in Devices : use[e] # "using"
  /\ use' = [use EXCEPT ![d] = "using"]

End(d) == use[d] = "using" /\ use' = [use EXCEPT ![d] = "idle"]

Next == \E d \in Devices : Ask(d) \/ Begin(d) \/ End(d)

Spec == Init /\ [][Next]_use

-----------------------------------------------------------------------------
TypeOK == use \in [Devices -> States]

\* At most one device is in the middle of a transaction.
Exclusive ==
  \A d, e \in Devices : use[d] = "using" /\ use[e] = "using" => d = e

\* Whoever waits is served, and whoever has the bus gives it back.
Served ==
  \A d \in Devices :
    /\ use[d] = "waiting" ~> use[d] = "using"
    /\ use[d] = "using" ~> use[d] = "idle"
=============================================================================
