CONSTANTS
  g1 = g1
  g2 = g2
  g3 = g3
  Games = {g1, g2, g3}
  Start <- TwoDays
  Zone = 4
  MaxGame = 4
  FirstHour = 22
  LastHour = 43
  Leagues <- AnyLeague
  Limit = 4
  MaxLength = 9
SPECIFICATION CommandsSpec
INVARIANT ReportTypeOK
INVARIANT CurrentScores
INVARIANT ListedOnce
INVARIANT NothingMissed
INVARIANT HalvesFit
INVARIANT NothingLost
INVARIANT RightWhenKnownFirst
INVARIANT SeriesLeaderNamed
CHECK_DEADLOCK FALSE
