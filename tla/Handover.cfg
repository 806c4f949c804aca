CONSTANTS
  Pids = {p1, p2}
  MaxChanges = 4
SPECIFICATION HandoverSpec
 
INVARIANT OldFallSilent
SYMMETRY AnyOrder
CHECK_DEADLOCK FALSE
