SPECIFICATION Spec

CONSTANTS
  t1 = t1
  t2 = t2
  w1 = w1
  Threads = {t1, t2}
  Readers = {t2}
  Writes = {w1}
  MaxAttempts = 2
  MaxFatals = 1
  MaxCrashes = 1
  Damages = TRUE
  DiskFails = TRUE
  NoFile = NoFile
  NoInst = NoInst

INVARIANT AckedKept
INVARIANT KeptForInspection
INVARIANT RecoveryBounded
CHECK_DEADLOCK FALSE
