SPECIFICATION Spec
CONSTANTS
  Clients = {c1, c2}
  Everyone = Everyone
  NoClient = NoClient
  QSize = 1
  MaxFrames = 1
  MbufSize = 2
  FastIo = FALSE
  ClientToClient = FALSE
  Management = FALSE
INVARIANT TunWriteHasInstance
CHECK_DEADLOCK FALSE
