SPECIFICATION Spec
CONSTANTS
  Guid = {1}
  LastVersion <- MCLast
  Doc = {1, 2}
  Worker = {w1, w2}
  Nobody = nobody
  MaxFaults = 1
INVARIANTS OneCopy RoutedOnce IndexCatchesUp
PROPERTY ExpiredRemoved
