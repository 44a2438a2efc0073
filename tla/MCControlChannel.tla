-------------------------- MODULE MCControlChannel --------------------------
(***************************************************************************)
(* Small instances of ControlChannel: bounds for each peer.                *)
(***************************************************************************)
EXTENDS ControlChannel

CONSTANTS ClientPackets, ServerPackets, ClientNet, ServerNet

MCMaxPackets == [p \in Peers |-> IF p = Client THEN ClientPackets ELSE ServerPackets]
MCMaxNet == [p \in Peers |-> IF p = Client THEN ClientNet ELSE ServerNet]

=============================================================================
