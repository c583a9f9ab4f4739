\* Two edit screens, two users, two login calls in flight, one kill, under fairness.
SPECIFICATION FairSpec
CONSTANTS
  Calls = {c1, c2}
  Names = {ann, bob}
  Nil = Nil
  MaxEdits = 2
  MaxKills = 1
CHECK_DEADLOCK FALSE
INVARIANT TypeOK
INVARIANT ScreensNest
INVARIANT FlagStaysWithItsScreen
INVARIANT OnePostPerEdit
INVARIANT PostedByAuthor
PROPERTY NextReturnsToTabs
