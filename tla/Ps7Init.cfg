\* All three silicon versions; a poll looks three times before it gives up.
SPECIFICATION FairSpec
CONSTANTS
  Tables <- AllTables
  PowerOn <- MCPowerOn
  PollTime = 2
  PinCount = 54
INVARIANTS
  TypeOK
  SlcrWritesTakeEffect
  PllInUseIsLocked
  DdrControllerReady
  BlocksUsableWhenWritten
  SpeedsAsDeclared
  SuccessMeansUp
PROPERTIES
  PulseHeld
  CallReturns
\* A boot may end with every call made.
CHECK_DEADLOCK FALSE
