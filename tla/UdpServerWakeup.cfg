SPECIFICATION FairSpec
CONSTANTS
  Clients = {c1}
  Everyone = Everyone
  NoClient = NoClient
  QSize = 1
  MaxFrames = 1
  MbufSize = 2
  FastIo = TRUE
  ClientToClient = FALSE
  Management = FALSE
PROPERTY WakeupsServed
CHECK_DEADLOCK FALSE
