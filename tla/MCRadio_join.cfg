SPECIFICATION RadioSpec
CONSTANTS
  Faults = {"reboot_joining"}
  MaxWasted = 3
  MaxReboots = 3
  MaxUplinks = 2
  Frequencies = {0, 1}
  DataRates = {0, 1}
INVARIANT RadioTypeOK
INVARIANT SessionsAgree
INVARIANT CopiesAreUplinks
PROPERTY DevNoncesAdvance
INVARIANT CopiesNameChannel
