SPECIFICATION Spec
CONSTANTS
  IdMax = 3
  SeqBacktrack = 2
  TimeBacktrack = 1
  ReapInterval = 2
  LongForm = TRUE
  Persist = FALSE
  Signals = {}
  Start = 2
  MaxTime = 5
INVARIANTS AcceptedOnce LateRefused OnlyLateRefused ExpiredLast SendsFresh
CHECK_DEADLOCK FALSE
