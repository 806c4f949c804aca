CONSTANTS
  MaxTasks = 3
  Plain = {f1}
  MaxOps = 6
  AwaitCancelled = FALSE
SPECIFICATION AsyncioSpec
INVARIANT AsyncioTypeOK
INVARIANT OneResumption
INVARIANT DoneWhenEnded
INVARIANT CancellationKept
PROPERTY AllEnd
CHECK_DEADLOCK FALSE
PROPERTY CooperativeSpec
