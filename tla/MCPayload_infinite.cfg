SPECIFICATION Spec
CONSTANTS
  NoReading = NoReading
  Unknown = Unknown
  Devices = {5}
  Readings <- TimeReadings
  BinarySets = {}
  Texts = {}
  InputsChange = "between"
  MaxChanges = 2
  MaxRounds = 2
PROPERTY InfiniteOmitted
CHECK_DEADLOCK FALSE
