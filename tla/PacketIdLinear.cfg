SPECIFICATION Spec
CONSTANTS
  IdMax = 3
  SeqBacktrack = 0
  TimeBacktrack = 1
  ReapInterval = 2
  LongForm = TRUE
  Persist = TRUE
  Signals = {"SIGUSR1"}
  Start = 2
  MaxTime = 4
INVARIANTS InSequence PlaceKept
CHECK_DEADLOCK FALSE
