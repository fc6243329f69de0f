SPECIFICATION FairSpec

CONSTANTS
  None = None
  a1 = a1
  a2 = a2
  a3 = a3
  Callers = {a1, a2, a3}
  Cancelled = {a1}

INVARIANT OneFetch
PROPERTY LeaderServed
PROPERTY CallsEnd
