CONSTANTS
  Pids = {p1, p2, p3}
SPECIFICATION FairSpec
INVARIANT TypeOK
INVARIANT ReloadReplaces
INVARIANT SerialKillsPrevious
PROPERTY ReloadCompletes
CHECK_DEADLOCK FALSE
