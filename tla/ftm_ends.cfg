SPECIFICATION FairSpec

CONSTANTS
  t1 = t1
  t2 = t2
  w1 = w1
  Threads = {t1, t2}
  Readers = {t2}
  Writes = {w1}
  MaxAttempts = 2
  MaxFatals = 1
  MaxCrashes = 0
  Damages = TRUE
  DiskFails = TRUE
  NoFile = NoFile
  NoInst = NoInst

PROPERTY OperationsEnd
CHECK_DEADLOCK FALSE
