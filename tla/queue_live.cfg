SPECIFICATION FairSpec

CONSTANTS
  None = None
  a1 = a1
  r1 = r1
  k1 = k1
  s1 = s1
  Works = {s1, a1}
  Sync = {s1}
  ReplayIds = {r1}
  Workers = {k1}
  MaxBacklog = 3
  MaxRetries = 1
  MaxCrashes = 1
  MaxDisables = 0
  JoinTimeouts = FALSE
  EarlyCalls = FALSE

INVARIANT RealTimeOrder
INVARIANT PendingIsScheduled
INVARIANT DuplicatesNeedCrashes
PROPERTY KeepsPromise
PROPERTY CallsEnd
PROPERTY PendingResolved
