SPECIFICATION Spec
CONSTANTS
  NoReading = NoReading
  Unknown = Unknown
  Devices = {1, 2, 3, 4, 5}
  Readings <- None
  BinarySets = {}
  Texts <- LayoutTexts
  InputsChange = "between"
  MaxChanges = 5
  MaxRounds = 1
INVARIANT LayoutDetected
CHECK_DEADLOCK FALSE
