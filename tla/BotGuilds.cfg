CONSTANTS
  g1 = g1
  g2 = g2
  d1 = d1
  d2 = d2
  d3 = d3
  d4 = d4
  Games <- TwoGames
  Guilds <- FourGuilds
  Leagues <- MixedLeagues
  NoChannel = {d4}
  Unnamed = {g2}
  NoSeries = {}
  MaxScore = 2
  MaxPeriod = 2
  MaxRest = 1
  MaxEvents = 5
SPECIFICATION Spec
INVARIANT TypeOK
PROPERTY TickerSpec
CHECK_DEADLOCK FALSE
