CONSTANTS
  p0 = p0  p1 = p1
  Page = {p0, p1}
  NoPage = NoPage
  NextPage <- MCNextPage
  PageWords = 6
  BurstWords = 2
  BurstStart = {0, 2, 4}
  Start <- MCStart
  NoJump = NoJump
  Acts <- MCActs
  CrossPages = TRUE
SPECIFICATION Spec
INVARIANT PageCoherent
