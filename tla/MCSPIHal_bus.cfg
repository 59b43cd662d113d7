\* Transfers of up to 6 bytes, each of which may fail; a bus for 2 devices of
\* the radio, so that a second registration would succeed.
CONSTANTS
  MaxDevices = 2
  MaxLen = 6
SPECIFICATION FairSpec
INVARIANTS
  TypeOK
  RegisteredOnce
  BusReturned
PROPERTIES
  BusSpec
  BusServed
