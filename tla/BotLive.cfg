CONSTANTS
  g1 = g1
  g2 = g2
  d1 = d1
  d2 = d2
  d3 = d3
  d4 = d4
  Games <- TwoGames
  Guilds <- OneGuild
  Leagues <- MixedLeagues
  NoChannel = {}
  Unnamed = {}
  NoSeries = {}
  MaxScore = 1
  MaxPeriod = 1
  MaxRest = 1
  MaxEvents = 4
SPECIFICATION FairSpec
PROPERTY TickerSpec
PROPERTY CatchesUp
PROPERTY StopHonoured
CHECK_DEADLOCK FALSE
