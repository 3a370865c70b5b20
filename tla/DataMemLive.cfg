CONSTANTS
  w1 = w1  w2 = w2  l1 = l1  l2 = l1  b1 = b1  b0 = b1
  Word = {w1, w2}
  Lane = {l1}
  Byte = {b1}
  None = None
  Zero <- MCZero
  Issue <- MCIssue
  InstStall = TRUE
  EarlyData = TRUE
  LateCommit = TRUE
SPECIFICATION FairSpec
PROPERTIES AccessCompletes
