CONSTANTS
  g1 = g1
  g2 = g2
  d1 = d1
  Games <- TwoGames
  Guilds <- OneGuild
  Leagues <- AllNhl
  NoChannel = {}
  Unnamed = {}
  NoSeries = {g2}
  MaxScore = 1
  MaxPeriod = 1
  MaxRest = 1
  MaxEvents = 5
  MaxFailures = 2
SPECIFICATION LedgerSpec
INVARIANT NoPhantomGoals
CHECK_DEADLOCK FALSE
