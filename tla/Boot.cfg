\* S_AXI_ACLK at 125 MHz and CCLK at 50 MHz: two or three edges to one. Files
\* that end with a chunk, and in a word of the next one.
SPECIFICATION FairBootSpec
CONSTANTS
  MinGap = 2
  MaxGap = 3
  RegValue = {0, 1}
  None = None
  WordBytes = 2
  ChunkBytes = 4
  Sizes = {4, 5}
INVARIANTS TypeOK OneAnswerPerAccess ReadAnswersItsRequest StepIsShort
  LoadedBeforeStart
PROPERTIES StartReachesCore CexecFollowsCommand
