SPECIFICATION SysSpec

CONSTANTS
  None = None
  Warmup = warmup
  Trail = trail
  N = 3
  Interval <- Intervals
  ErrorLimit = 3
  Cancels = FALSE

PROPERTY OthersComeBack
CHECK_DEADLOCK FALSE
