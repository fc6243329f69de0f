SPECIFICATION SysSpec

CONSTANTS
  None = None
  Warmup = warmup
  Trail = trail
  N = 3
  Interval <- Intervals
  ErrorLimit = 3
  Cancels = TRUE

INVARIANT CrashLoopEnds
PROPERTY CrashedComesBack
PROPERTY LoopsForEver
CHECK_DEADLOCK FALSE
