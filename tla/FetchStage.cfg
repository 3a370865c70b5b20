CONSTANTS
  p0 = p0  p1 = p1
  Page = {p0, p1}
  NoPage = NoPage
  NextPage <- MCNextPage
  PageWords = 8
  BurstWords = 2
  BurstStart = {0, 2, 4, 6}
  Start <- MCStart
  NoJump = NoJump
  Acts <- MCActs
  CrossPages = FALSE
SPECIFICATION FairSpec
INVARIANTS TypeOK PageCoherent ValidInstIsAtPC InOrder BeatsGoHome OnlyValidActs
PROPERTIES BurstRequestHeld MissEnds
