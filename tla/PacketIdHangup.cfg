SPECIFICATION Spec
CONSTANTS
  IdMax = 2
  SeqBacktrack = 2
  TimeBacktrack = 1
  ReapInterval = 2
  LongForm = TRUE
  Persist = TRUE
  Signals = {"SIGHUP"}
  Start = 2
  MaxTime = 4
INVARIANT PlaceKept
CHECK_DEADLOCK FALSE
