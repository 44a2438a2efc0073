SPECIFICATION Spec
CONSTANTS
  Client = Client
  Server = Server
  Callers = {Client, Server}
  HeldPeers = {Server}
  PidMod = 8
  AckSize = 2
  InitialTimeout = 1
  MaxTimeout = 1
  SendSize = 3
  RecSize = 2
  SendAckMax = 1
  MaxPackets <- MCMaxPackets
  ClientPackets = 4
  ServerPackets = 1
  MaxNet <- MCMaxNet
  ClientNet = 1
  ServerNet = 1
  Lifetime = 8
  Failures = TRUE
  Copies = FALSE
INVARIANTS TypeOK NothingLost ReplayAcknowledged RetriesSpread HandshakeComplete NotWedged
PROPERTY ImplementsInOrderDelivery
CHECK_DEADLOCK FALSE
