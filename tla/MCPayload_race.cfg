SPECIFICATION Spec
CONSTANTS
  NoReading = NoReading
  Unknown = Unknown
  Devices = {5}
  Readings <- None
  BinarySets = {}
  Texts <- OneText
  InputsChange = "anytime"
  MaxChanges = 1
  MaxRounds = 1
PROPERTY TextsWhole
CHECK_DEADLOCK FALSE
