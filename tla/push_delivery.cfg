SPECIFICATION FairSpec

CONSTANTS
  c1 = c1
  Clients = {c1}
  HistoryMax = 2
  QueueMax = 3
  MaxEvents = 6
  MaxRestarts = 2

INVARIANT GapsExplained
PROPERTY OnceInOrder
PROPERTY EventsArrive
