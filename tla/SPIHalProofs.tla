---------------------------- MODULE SPIHalProofs ----------------------------
(***************************************************************************)
(* Proofs about SPIHal, however long the transfers are and wherever they   *)
(* fail: the HAL and the driver agree on who has the bus, RadioLib leaves  *)
(* it free, and the whole of it implements SharedBus.                      *)
(***************************************************************************)
EXTENDS SPIHal, TLAPS

\* Where RadioLib is in a transaction says what chip select and the bus are.
Held == {"lower", "transfer", "raise", "release"}

TransactionInv ==
  /\ cs = IF radio \in {"transfer", "raise"} THEN "LOW" ELSE "HIGH"
  /\ radio \in Held => (bus_acquired <=> dev)
  /\ radio \notin Held => ~bus_acquired

\* Who holds the bus, and that without a device the radio is only spoken to
\* in setup(), when the display is not drawn.
HolderInv ==
  /\ bus_acquired <=> holder = "radio"
  /\ display = "using" <=> holder = "display"
  /\ phase = "setup" => display = "idle"
  /\ phase = "running" => dev
  /\ phase = "failed" => radio = "idle"

Inv == TypeOK /\ RegisteredOnce /\ TransactionInv /\ HolderInv

LEMMA InvInit == Init => Inv
<1> SUFFICES ASSUME Init PROVE Inv
  OBVIOUS
<1> USE DEF Init
<1>1. TypeOK
  <2>1. dev \in BOOLEAN /\ bus_acquired \in BOOLEAN
    OBVIOUS
  <2>2. registered \in 0..MaxDevices /\ left \in 0..MaxLen
    BY DevicesAssumption, LenAssumption
  <2>3. QED
    BY <2>1, <2>2 DEF TypeOK
<1>2. RegisteredOnce
  BY DEF RegisteredOnce
<1>3. TransactionInv
  BY DEF TransactionInv, Held
<1>4. HolderInv
  BY DEF HolderInv
<1>5. QED
  BY <1>1, <1>2, <1>3, <1>4 DEF Inv

LEMMA InvNext == Inv /\ [Next]_vars => Inv'
<1> SUFFICES ASSUME Inv, [Next]_vars PROVE Inv'
  OBVIOUS
<1> USE DevicesAssumption, LenAssumption
    DEF Inv, TypeOK, RegisteredOnce, TransactionInv, HolderInv, Held, bus,
        device
<1>1. CASE InitDevice
  BY <1>1 DEF InitDevice, InSetup, InitNeeded
<1>2. CASE Term
  <2>1. TypeOK'
    <3>1. registered' \in 0..MaxDevices
      BY <1>2 DEF Term
    <3>2. dev' \in BOOLEAN /\ phase' = "failed"
      BY <1>2 DEF Term
    <3>3. QED
      BY <1>2, <3>1, <3>2 DEF Term, InSetup
  <2>2. RegisteredOnce'
    BY <1>2 DEF Term, InSetup
  <2>3. TransactionInv'
    BY <1>2 DEF Term, InSetup
  <2>4. HolderInv'
    BY <1>2 DEF Term, InSetup
  <2>5. QED
    BY <2>1, <2>2, <2>3, <2>4
<1>3. CASE SetupEnds
  BY <1>3 DEF SetupEnds, InSetup
<1>4. CASE Start
  BY <1>4 DEF Start, Go
<1>5. CASE Acquire \/ SkipAcquire
  <2>1. TypeOK'
    BY <1>5 DEF Acquire, SkipAcquire, MustAcquire, Go
  <2>2. RegisteredOnce'
    BY <1>5 DEF Acquire, SkipAcquire, MustAcquire, Go
  <2>3. TransactionInv'
    BY <1>5 DEF Acquire, SkipAcquire, MustAcquire, Go
  <2>4. HolderInv'
    BY <1>5 DEF Acquire, SkipAcquire, MustAcquire, Go
  <2>5. QED
    BY <2>1, <2>2, <2>3, <2>4
<1>6. CASE Lower \/ Raise
  BY <1>6 DEF Lower, Raise, Go
<1>7. CASE Transmit \/ TransmitFails
  BY <1>7 DEF Transmit, TransmitFails, Byte, More, Go
<1>8. CASE TransferEnds
  BY <1>8 DEF TransferEnds, More, Go
<1>9. CASE Release \/ SkipRelease
  <2>1. TypeOK'
    BY <1>9 DEF Release, ReleaseBus, SkipRelease, MustRelease, Go
  <2>2. RegisteredOnce'
    BY <1>9 DEF Release, ReleaseBus, SkipRelease, MustRelease, Go
  <2>3. TransactionInv'
    BY <1>9 DEF Release, ReleaseBus, SkipRelease, MustRelease, Go
  <2>4. HolderInv'
    BY <1>9 DEF Release, ReleaseBus, SkipRelease, MustRelease, Go
  <2>5. QED
    BY <2>1, <2>2, <2>3, <2>4
<1>10. CASE DisplayStart \/ DisplayAcquire \/ DisplayEnd
  BY <1>10 DEF DisplayStart, DisplayAcquire, DisplayEnd, Draw
<1>11. CASE UNCHANGED vars
  BY <1>11 DEF vars
<1>12. QED
  BY <1>1, <1>2, <1>3, <1>4, <1>5, <1>6, <1>7, <1>8, <1>9, <1>10, <1>11
     DEF Next, Setup, Transaction

LEMMA InvCorrect == Spec => []Inv
<1>1. QED
  BY InvInit, InvNext, PTL DEF Spec

\* The type invariant of the HAL, the driver and the display.
THEOREM TypeCorrect == Spec => []TypeOK
<1>1. Inv => TypeOK
  BY DEF Inv
<1>2. QED
  BY <1>1, InvCorrect, PTL

\* init() may be called any number of times: the driver knows the radio once.
THEOREM RegistrationCorrect == Spec => []RegisteredOnce
<1>1. Inv => RegisteredOnce
  BY DEF Inv
<1>2. QED
  BY <1>1, InvCorrect, PTL

\* After a transaction, complete or not, the bus is not the radio's.
THEOREM ReturnCorrect == Spec => []BusReturned
<1>1. Inv => BusReturned
  BY DEF Inv, TransactionInv, HolderInv, BusReturned, Held
<1>2. QED
  BY <1>1, InvCorrect, PTL

-----------------------------------------------------------------------------
(* The refinement *)

\* From chip select low to high the display does not use the bus.
LEMMA SelectedAlone == Inv => ~(cs = "LOW" /\ display = "using")
BY DEF Inv, TypeOK, TransactionInv, HolderInv, Held

LEMMA BusInit == Init => Bus!Init
BY DEF Init, Bus!Init, BusUse

\* What a step does to the mapped state.
LEMMA BusUseIs ==
  /\ BusUse["display"] = display
  /\ BusUse["radio"] = IF cs = "LOW" THEN "using"
                       ELSE IF radio \in {"select", "lower"} THEN "waiting"
                       ELSE "idle"
  /\ DOMAIN BusUse = {"radio", "display"}
BY DEF BusUse

LEMMA BusStep == Inv /\ [Next]_vars => [Bus!Next]_BusUse
<1> SUFFICES ASSUME Inv, [Next]_vars PROVE [Bus!Next]_BusUse
  OBVIOUS
<1> USE DEF bus, device
<1>1. CASE Setup
  <2>1. UNCHANGED <<cs, radio, display>>
    BY <1>1 DEF Setup, InitDevice, Term, SetupEnds, InSetup
  <2>2. QED
    BY <2>1 DEF BusUse
<1>2. CASE Start
  <2>1. radio = "idle" /\ radio' = "select" /\ cs = "HIGH" /\ cs' = "HIGH"
        /\ display' = display
    BY <1>2 DEF Start, Go, Inv, TransactionInv
  <2>2. Bus!Ask("radio")
    BY <2>1 DEF Bus!Ask, BusUse
  <2>3. QED
    BY <2>2 DEF Bus!Next
<1>3. CASE Acquire \/ SkipAcquire
  <2>1. radio = "select" /\ radio' = "lower" /\ UNCHANGED <<cs, display>>
    BY <1>3 DEF Acquire, SkipAcquire, Go
  <2>2. QED
    BY <2>1 DEF BusUse
<1>4. CASE Lower
  <2>1. radio = "lower" /\ radio' = "transfer" /\ cs = "HIGH" /\ cs' = "LOW"
        /\ display' = display
    BY <1>4 DEF Lower, Go, Inv, TransactionInv
  <2>2. display # "using"
    BY <1>4, <2>1 DEF Lower, Go, Inv, TypeOK, TransactionInv, HolderInv, Held
  <2>3. Bus!Begin("radio")
    BY <2>1, <2>2 DEF Bus!Begin, BusUse
  <2>4. QED
    BY <2>3 DEF Bus!Next
<1>5. CASE Transmit \/ TransmitFails \/ TransferEnds
  <2>1. radio \in {"transfer", "raise"} /\ radio' \in {"transfer", "raise"}
        /\ UNCHANGED <<cs, display>>
    BY <1>5 DEF Transmit, TransmitFails, TransferEnds, Byte, Go
  <2>2. QED
    BY <2>1 DEF BusUse
<1>6. CASE Raise
  <2>1. radio' = "release" /\ cs = "LOW" /\ cs' = "HIGH" /\ display' = display
    BY <1>6 DEF Raise, Go, Inv, TransactionInv
  <2>2. Bus!End("radio")
    BY <2>1 DEF Bus!End, BusUse
  <2>3. QED
    BY <2>2 DEF Bus!Next
<1>7. CASE Release \/ SkipRelease
  <2>1. radio = "release" /\ radio' = "idle" /\ UNCHANGED <<cs, display>>
    BY <1>7 DEF Release, SkipRelease, Go
  <2>2. QED
    BY <2>1 DEF BusUse
<1>8. CASE DisplayStart
  <2>1. Bus!Ask("display")
    BY <1>8 DEF DisplayStart, Draw, Bus!Ask, BusUse
  <2>2. QED
    BY <2>1 DEF Bus!Next
<1>9. CASE DisplayAcquire
  <2>1. display = "waiting" /\ display' = "using" /\ UNCHANGED <<cs, radio>>
        /\ holder = "none" /\ holder' = "display"
    BY <1>9 DEF DisplayAcquire, Draw
  <2>2. cs # "LOW"
    BY <1>9, <2>1 DEF DisplayAcquire, Draw, Inv, TypeOK, TransactionInv,
                      HolderInv, Held
  <2>3. Bus!Begin("display")
    BY <2>1, <2>2 DEF Bus!Begin, BusUse
  <2>4. QED
    BY <2>3 DEF Bus!Next
<1>10. CASE DisplayEnd
  <2>1. Bus!End("display")
    BY <1>10 DEF DisplayEnd, Draw, Bus!End, BusUse
  <2>2. QED
    BY <2>1 DEF Bus!Next
<1>11. CASE UNCHANGED vars
  BY <1>11 DEF vars, BusUse
<1>12. QED
  BY <1>1, <1>2, <1>3, <1>4, <1>5, <1>6, <1>7, <1>8, <1>9, <1>10, <1>11
     DEF Next, Transaction

\* However long the transfers are and wherever they fail, the radio has the
\* bus to itself while it is selected, and so has the display.
THEOREM BusCorrect == Spec => BusSpec
<1>1. QED
  BY InvCorrect, BusInit, BusStep, PTL DEF Spec, BusSpec, Bus!Spec

\* The radio and the display are never both in the middle of a transaction, whatever
\* transfers fail (esphome_spi_hal.h:53-128): what SharedBus promises.
THEOREM BusExclusive == Spec => []Bus!Exclusive
<1>1. Inv => Bus!Exclusive
  <2> SUFFICES ASSUME Inv, NEW d \in {"radio", "display"}, NEW e \in {"radio", "display"},
                      BusUse[d] = "using", BusUse[e] = "using", d # e
               PROVE  FALSE
    BY DEF Bus!Exclusive
  <2>1. BusUse["display"] = "using" /\ BusUse["radio"] = "using" OBVIOUS
  <2>2. QED
    BY <2>1, SelectedAlone, BusUseIs
<1>2. QED
  BY <1>1, InvCorrect, PTL
=============================================================================
