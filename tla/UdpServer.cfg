SPECIFICATION FairSpec
CONSTANTS
  Clients = {c1, c2}
  Everyone = Everyone
  NoClient = NoClient
  QSize = 1
  MaxFrames = 2
  MbufSize = 2
  FastIo = FALSE
  ClientToClient = TRUE
  Management = TRUE
INVARIANTS TypeOK OnlyPendingHasOutput NoDanglingInstance LinkReadWaits
PROPERTIES FramesInOrder TunWritten OutputWaitsForLoop
CHECK_DEADLOCK FALSE
