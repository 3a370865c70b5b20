CONSTANTS
  LaneBits = 2
  ImmBits = 4
  JumpBits = 6
  Program <- MCProgram
  Starts <- MCStarts
  MaxSteps = 2
SPECIFICATION Spec
PROPERTIES IsaSpec
