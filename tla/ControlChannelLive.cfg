SPECIFICATION FairSpec
CONSTANTS
  Client = Client
  Server = Server
  Callers = {Client}
  HeldPeers = {Server}
  PidMod = 16
  AckSize = 2
  InitialTimeout = 1
  MaxTimeout = 2
  SendSize = 2
  RecSize = 3
  SendAckMax = 1
  MaxPackets <- MCMaxPackets
  ClientPackets = 2
  ServerPackets = 2
  MaxNet <- MCMaxNet
  ClientNet = 1
  ServerNet = 1
  Lifetime = 16
  Failures = FALSE
  Copies = TRUE
PROPERTIES HandshakeCompletes EverythingArrives
CHECK_DEADLOCK FALSE
