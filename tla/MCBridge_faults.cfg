SPECIFICATION FairSpec
CONSTANTS
  Faults = {"reboot_joining", "nonces_rejected", "save_fails"}
  MaxWasted = 3
  MaxReboots = 3
  MaxUplinks = 2
PROPERTY UplinksFlow
