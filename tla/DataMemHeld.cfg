CONSTANTS
  w1 = w1  w2 = w2  l1 = l1  l2 = l2  b0 = b0  b1 = b1
  Word = {w1, w2}
  Lane = {l1, l2}
  Byte = {b0, b1}
  None = None
  Zero <- MCZero
  Issue <- MCIssue
  InstStall = TRUE
  EarlyData = FALSE
  LateCommit = FALSE
SPECIFICATION Spec
INVARIANT LoadKeepsItsWord
