SPECIFICATION Spec
CONSTANTS
  Faults = {"reboot_joining"}
  MaxWasted = 3
  MaxReboots = 3
  MaxUplinks = 1
PROPERTY DevNoncesIncrease
