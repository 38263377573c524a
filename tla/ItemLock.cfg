SPECIFICATION Spec
CONSTANTS
  Session = {s1, s2}
  User = {u1, u2}
  Privileged = {u2}
  Process = {p1, p2}
  Nobody = Nobody
  MaxFaults = 1
SYMMETRY Symmetry
INVARIANTS OneLocking EndedHoldsNothing
PROPERTIES LockRespected TextByHolder DraftKept
CHECK_DEADLOCK FALSE
