SPECIFICATION Spec
CONSTANTS
  NoReading = NoReading
  Unknown = Unknown
  Devices = {1, 5}
  Readings <- EdgeReadings
  BinarySets <- EdgeBinaries
  Texts <- OneText
  InputsChange = "anytime"
  MaxChanges = 2
  MaxRounds = 2
INVARIANT PayloadTypeOK
PROPERTY ReadingsArrive
PROPERTY StatesArrive
CHECK_DEADLOCK FALSE
