SPECIFICATION FairSpec
CONSTANTS
  Entities = {e1, e2}
  Limit = 1
  MaxStamp = 3
  MaxOld = 1
  MaxVersion = 1
  e1 = e1
  e2 = e2
INVARIANT CursorCovers
PROPERTY CatchesUp

