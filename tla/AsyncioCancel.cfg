CONSTANTS
  MaxTasks = 2
  Plain = {f1}
  MaxOps = 4
  AwaitCancelled = TRUE
SPECIFICATION AsyncioSpec
CHECK_DEADLOCK FALSE
INVARIANT DoneWhenEnded
