------------------------------- MODULE SPIHal -------------------------------
(***************************************************************************)
(* The RadioLib HAL of src/components/lorabridge/esphome_spi_hal.h, which  *)
(* shares one SPI bus with the display.  The ESP-IDF driver gives the bus  *)
(* to a device for single bytes; the HAL holds it for as long as the radio *)
(* is selected, because RadioLib pulls chip select itself and a display    *)
(* byte in between would go to the radio.                                  *)
(*                                                                         *)
(* The main task runs setup() (begin() of the radio, with its init() and   *)
(* term()) and later draws on the display; RadioLib runs its transactions  *)
(* in setup() and from then on in the LoRaWAN task.  The driver, RadioLib  *)
(* and the display are modelled from how the code uses them.               *)
(* Operators called ...Variant are slips one could make in the code; no    *)
(* action uses them.                                                       *)
(***************************************************************************)
EXTENDS Integers

CONSTANTS
  MaxDevices,        \* how many devices the driver takes on one bus
  MaxLen             \* bound: bytes of one transfer

ASSUME DevicesAssumption == MaxDevices \in Nat
ASSUME LenAssumption == MaxLen \in Nat

VARIABLES
  phase,             \* of the main task: in setup(), past it, or it failed
  dev,               \* whether dev_ is a device of the driver
  bus_acquired,      \* bus_acquired_
  registered,        \* of the driver: devices added for the radio
  holder,            \* of the driver: who holds the bus, or "none"
  cs,                \* the level of the radio's chip select
  radio,             \* where RadioLib is in a transaction
  left,              \* bytes that spiTransfer() has yet to transfer
  display            \* where the display is in its own

device == <<phase, dev, registered>>
bus == <<holder, bus_acquired>>

vars == <<device, bus, cs, radio, left, display>>

Init ==
  /\ phase = "setup"
  /\ dev = FALSE
  /\ bus_acquired = FALSE
  /\ registered = 0
  /\ holder = "none"
  /\ cs = "HIGH"
  /\ radio = "idle"
  /\ left = 0
  /\ display = "idle"

-----------------------------------------------------------------------------
(* setup(): createRadio() *)

InSetup ==
  /\ phase = "setup" /\ radio = "idle"
  /\ UNCHANGED <<bus, cs, radio, left, display>>

\* init(), which RadioLib calls more than once; if the device is not added,
\* nothing changes.
InitNeededVariant == TRUE
InitNeeded == ~dev

InitDevice ==
  /\ InSetup
  /\ InitNeeded
  /\ registered < MaxDevices
  /\ dev' = TRUE
  /\ registered' = registered + 1
  /\ UNCHANGED phase

\* begin() does not find the chip and calls term().
Term ==
  /\ InSetup
  /\ phase' = "failed"
  /\ dev' = FALSE
  /\ registered' = IF dev THEN registered - 1 ELSE registered

\* Something else fails, or all is well; a chip that was never on the bus is
\* not found.
SetupEnds ==
  /\ InSetup
  /\ phase' \in {"failed"} \cup (IF dev THEN {"running"} ELSE {})
  /\ UNCHANGED <<dev, registered>>

-----------------------------------------------------------------------------
(* A transaction: chip select low, one transfer, chip select high *)

Go(from, to) ==
  /\ radio = from
  /\ radio' = to
  /\ UNCHANGED <<device, display>>

Start ==
  /\ phase # "failed"
  /\ Go("idle", "select")
  /\ left' \in 0..MaxLen
  /\ UNCHANGED <<bus, cs>>

\* digitalWrite(cs_pin_, LOW): acquire the bus, for as long as it takes, ...
\* The code ignores what spi_device_acquire_bus() returns. It is called with
\* portMAX_DELAY and a device that was added: the driver then waits for the bus
\* and has nothing to refuse, so that Acquire only waits.
MustAcquireVariant == dev /\ bus_acquired
MustAcquire == dev /\ ~bus_acquired

Acquire ==
  /\ MustAcquire
  /\ Go("select", "lower")
  /\ holder = "none"
  /\ holder' = "radio"
  /\ bus_acquired' = TRUE
  /\ UNCHANGED <<cs, left>>

SkipAcquire ==
  /\ ~MustAcquire
  /\ Go("select", "lower")
  /\ UNCHANGED <<bus, cs, left>>

\* ... and set the pin.
Lower ==
  /\ Go("lower", "transfer")
  /\ cs' = "LOW"
  /\ UNCHANGED <<bus, left>>

\* spiTransfer(), byte by byte.  The driver takes the bus for a byte unless
\* the radio holds it.
MoreVariant == dev /\ left >= 0
More == dev /\ left > 0

Byte(to, rest) ==
  /\ More
  /\ Go("transfer", to)
  /\ holder \in {"none", "radio"}
  /\ left' = rest
  /\ UNCHANGED <<bus, cs>>

Transmit == Byte("transfer", left - 1)

\* The driver reports an error: the rest is not transferred, and the caller is
\* not told.
TransmitFails == Byte("raise", 0)

TransferEnds ==
  /\ ~More
  /\ Go("transfer", "raise")
  /\ left' = 0
  /\ UNCHANGED <<bus, cs>>

\* digitalWrite(cs_pin_, HIGH): set the pin, then release the bus.
Raise ==
  /\ Go("raise", "release")
  /\ cs' = "HIGH"
  /\ UNCHANGED <<bus, left>>

MustReleaseVariant == dev /\ ~bus_acquired
MustRelease == dev /\ bus_acquired

ReleaseBusKeepsFlagVariant == holder' = "none" /\ UNCHANGED bus_acquired
ReleaseBus == holder' = "none" /\ bus_acquired' = FALSE

Release ==
  /\ MustRelease
  /\ Go("release", "idle")
  /\ ReleaseBus
  /\ UNCHANGED <<cs, left>>

SkipRelease ==
  /\ ~MustRelease
  /\ Go("release", "idle")
  /\ UNCHANGED <<bus, cs, left>>

-----------------------------------------------------------------------------
(* The display, drawn by the main task once setup() is over *)

Draw(from, to) ==
  /\ display = from
  /\ display' = to
  /\ UNCHANGED <<device, bus_acquired, cs, radio, left>>

DisplayStart == phase # "setup" /\ Draw("idle", "waiting") /\ UNCHANGED holder
DisplayAcquire == Draw("waiting", "using") /\ holder = "none" /\ holder' = "display"
DisplayEnd == Draw("using", "idle") /\ holder' = "none"

-----------------------------------------------------------------------------
Setup == InitDevice \/ Term \/ SetupEnds

Transaction ==
  \/ SkipAcquire \/ Lower
  \/ Transmit \/ TransmitFails \/ TransferEnds
  \/ Raise \/ Release \/ SkipRelease

Next ==
  \/ Setup
  \/ Start \/ Acquire \/ Transaction
  \/ DisplayStart \/ DisplayAcquire \/ DisplayEnd

Spec == Init /\ [][Next]_vars

\* Tasks are scheduled, the driver's calls return, and a device that waits for
\* the bus is handed it in the end.
FairSpec ==
  /\ Spec
  /\ WF_vars(Transaction) /\ SF_vars(Acquire)
  /\ WF_vars(DisplayEnd) /\ SF_vars(DisplayAcquire)

-----------------------------------------------------------------------------
(* Correctness *)

TypeOK ==
  /\ phase \in {"setup", "running", "failed"}
  /\ dev \in BOOLEAN
  /\ bus_acquired \in BOOLEAN
  /\ registered \in 0..MaxDevices
  /\ holder \in {"none", "radio", "display"}
  /\ cs \in {"LOW", "HIGH"}
  /\ radio \in {"idle", "select", "lower", "transfer", "raise", "release"}
  /\ left \in 0..MaxLen
  /\ display \in {"idle", "waiting", "using"}

\* "guard against double registration": the driver knows the radio once as
\* long as the HAL has its handle, and not at all after term().
RegisteredOnce == registered = IF dev THEN 1 ELSE 0

\* The HAL and the driver agree on who holds the bus, and when RadioLib is
\* done with a transaction, also with one that failed half way, the radio is
\* deselected and the bus is not the radio's.
BusReturned ==
  /\ bus_acquired <=> holder = "radio"
  /\ radio \in {"idle", "select"} => ~bus_acquired /\ cs = "HIGH"

\* "proper bus arbitration with ESPHome's display SPI driver": from chip
\* select low to high the display does not use the bus.
BusUse ==
  [d \in {"radio", "display"} |->
     IF d = "display" THEN display
     ELSE IF cs = "LOW" THEN "using"
     ELSE IF radio \in {"select", "lower"} THEN "waiting"
     ELSE "idle"]

Bus == INSTANCE SharedBus WITH Devices <- {"radio", "display"}, use <- BusUse

BusSpec == Bus!Spec

\* Neither waits for the bus for ever, whatever transfers fail.
BusServed == Bus!Served
=============================================================================
