SPECIFICATION FairSpec
CONSTANTS
  Client = Client
  Server = Server
  HandshakeWindow = 4
  PacketTimeout = 1
  Backoff <- MCBackoff
  TransitionWindow = 8
  ClientRenegotiate = 8
  ServerRenegotiate = 8
  Renegotiate <- MCRenegotiate
  MaxKeyId = 2
  MaxFaults = 2
  MaxLate = 1
INVARIANTS TypeOK Understood Survives
PROPERTY Renegotiates
