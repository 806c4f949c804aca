CONSTANTS
  Pids = {p1, p2}
SPECIFICATION Spec
INVARIANT OnlyPreviousKilled
CHECK_DEADLOCK FALSE
