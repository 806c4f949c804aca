CONSTANTS
  g1 = g1
  g2 = g2
  d1 = d1
  Games <- TwoGames
  Guilds <- OneGuild
  Leagues <- AllNhl
  NoChannel = {}
  Unnamed = {g2}
  NoSeries = {}
  MaxScore = 1
  MaxPeriod = 1
  MaxRest = 1
  MaxEvents = 5
SPECIFICATION ViewSpec
INVARIANT ChannelShowsScore
CHECK_DEADLOCK FALSE
