\* The boot stops in the application, in JTAG mode or in an endless loop.
CHECK_DEADLOCK FALSE
CONSTANTS
  None = None
  Junk = Junk
  Slots = 3
  MaxParts = 2
  Flashes <- MCFlashes
  Devices = {"qspi", "nor", "sd", "jtag"}
SPECIFICATION FairSpec
INVARIANTS HandoffToLoadedImage FirstGoodImage ShiftersFollowPl
PROPERTIES BootEnds
