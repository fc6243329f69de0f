SPECIFICATION FairSpec

CONSTANTS
  None = None
  main = main
  other = other
  r1 = r1
  r2 = r2
  Requests = {r1, r2}
  Subkeys = {main, other}
  Main = main
  Ttl = 1
  Threshold = 2
  Reset = 1
  MaxBackoff = 2
  FloatLimit = 5
  Limit = 2
  Degrades = TRUE
  MaxOpens = 3
  MaxRestarts = 1

INVARIANT QuotaOvershoot
INVARIANT ClosedHasHeadroom
PROPERTY NeverEmptied
PROPERTY RecoversFromOutage
