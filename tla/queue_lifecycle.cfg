SPECIFICATION Spec

CONSTANTS
  None = None
  a1 = a1
  k1 = k1
  k2 = k2
  r1 = r1
  s1 = s1
  Works = {s1, a1}
  Sync = {s1}
  ReplayIds = {r1}
  Workers = {k1, k2}
  MaxBacklog = 1
  MaxRetries = 0
  MaxCrashes = 0
  MaxDisables = 1
  JoinTimeouts = TRUE
  EarlyCalls = FALSE

SYMMETRY Symmetry
INVARIANT AckedIsApplied
INVARIANT Serialized
PROPERTY RowsLeaveResolved
