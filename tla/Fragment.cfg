SPECIFICATION Spec
CONSTANTS
  N_SEQ_ID = 6
  N_FRAG_BUF = 2
  MAX_FRAGS = 3
  FRAG_TTL_SEC = 2
  FRAG_WAKEUP_INTERVAL = 1
  Counts = {2}
  Sizes = {1, 2}
  MaxLate = 2
  MaxBurst = 2
  MaxInFlight = 2
INVARIANTS JoinsOneDatagram ArrivedIsJoined
PROPERTY NewestIsInStep
