CONSTANTS
  Leagues <- ClassicNHL
SPECIFICATION StandingsSpec
INVARIANT DivisionAskedFor
