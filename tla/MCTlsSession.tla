---------------------------- MODULE MCTlsSession ----------------------------
(* TlsSession with the interval of each peer given by a number, and the    *)
(* backoff in closed form.                                                 *)
EXTENDS TlsSession

CONSTANTS ClientRenegotiate, ServerRenegotiate

MCRenegotiate ==
    [p \in Peers |-> IF p = Client THEN ClientRenegotiate ELSE ServerRenegotiate]

MCBackoff == [n \in 0..MaxFaults |-> PacketTimeout * (2^n - 1)]
=============================================================================
