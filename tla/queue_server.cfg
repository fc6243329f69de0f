SPECIFICATION Spec

CONSTANTS
  None = None
  a1 = a1
  k1 = k1
  s1 = s1
  s2 = s2
  Works = {s1, s2, a1}
  Sync = {s1, s2}
  ReplayIds = {}
  Workers = {k1}
  MaxBacklog = 1
  MaxRetries = 1
  MaxCrashes = 1
  MaxDisables = 0
  JoinTimeouts = FALSE
  EarlyCalls = FALSE

SYMMETRY Symmetry
INVARIANT TypeOK
INVARIANT AcceptedNeverLost
INVARIANT RefusedLeavesNoTrace
PROPERTY AckedNeverReapplied
