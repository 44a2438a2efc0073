--------------------------- MODULE InOrderDelivery ---------------------------
(***************************************************************************)
(* What the reliability layer promises the TLS library: each of two peers  *)
(* hands packets to the layer, and takes out the other's, each exactly     *)
(* once and in the order in which they were handed in.                     *)
(***************************************************************************)
EXTENDS Naturals, Sequences

CONSTANTS A, B       \* the two peers

VARIABLES
    generated,       \* how many packets a peer has handed in: 0, 1, 2, ...
    delivered        \* the packets a peer has taken out, in order

Ends == {A, B}
Far(p) == IF p = A THEN B ELSE A

Init ==
    /\ generated = [p \in Ends |-> 0]
    /\ delivered = [p \in Ends |-> << >>]

Generate(p) ==
    generated' = [generated EXCEPT ![p] = @ + 1]

Deliver(p) ==
    /\ Len(delivered[p]) < generated[Far(p)]
    /\ delivered' = [delivered EXCEPT ![p] = Append(@, Len(@))]

\* A pass of tls_process may do both.
Next ==
    \E p \in Ends :
        \/ Generate(p) /\ UNCHANGED delivered
        \/ Deliver(p) /\ UNCHANGED generated
        \/ Generate(p) /\ Deliver(p)

Spec == Init /\ [][Next]_<<generated, delivered>>

=============================================================================
