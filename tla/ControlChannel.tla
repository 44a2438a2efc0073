--------------------------- MODULE ControlChannel ---------------------------
(***************************************************************************)
(* The control channel of one key between two peers, over a network that   *)
(* loses, duplicates and reorders: tls_process and the control-packet part *)
(* of tls_pre_decrypt (openvpn/Src/ssl.c) over the structures of Reliable. *)
(*                                                                         *)
(* tls_process is a loop run to a fixpoint.  A pass of it is a step        *)
(* PassSends or PassTransfers, its return is ProcessReturn, and pc keeps a *)
(* peer inside the call: packets are received only between two calls, as   *)
(* in the single-threaded event loop.  The TLS library is an oracle: it    *)
(* takes every packet it is given in order, and has ciphertext to send     *)
(* whenever it likes, until the peer has sent MaxPackets packets.          *)
(*                                                                         *)
(* Every packet carries, beside its wrapping packet id, the number of      *)
(* packets its sender had generated before it; that is its content.        *)
(***************************************************************************)
EXTENDS Reliable

CONSTANTS
    Client, Server,   \* the two peers
    Callers,          \* the peers that know the other's address (--remote)
    HeldPeers,        \* the peers with xmit_hold (a server of many clients)
    SendSize,         \* TLS_RELIABLE_N_SEND_BUFFERS
    RecSize,          \* TLS_RELIABLE_N_REC_BUFFERS
    SendAckMax,       \* CONTROL_SEND_ACK_MAX, ids on a packet with content
    MaxPackets,       \* bound: packets each peer generates on this key, the
                      \* hard reset included
    MaxNet,           \* bound: packets in flight from each peer
    Copies,           \* whether the network duplicates packets
    Failures,         \* whether a key may fail before its handshake is over
    Lifetime          \* bound: how many packets younger than itself a packet
                      \* in flight, or an acknowledgement of it, may see

Peers == {Client, Server}

ASSUME PeersAssumption ==
    /\ Client # Server
    /\ Callers \subseteq Peers
    /\ HeldPeers \subseteq Peers
ASSUME SizeAssumption ==
    /\ SendSize \in Nat \ {0}
    /\ RecSize \in Nat \ {0}
    /\ SendAckMax \in Nat
ASSUME MaxPacketsAssumption == MaxPackets \in [Peers -> Nat \ {0}]
ASSUME NetworkAssumption ==
    /\ MaxNet \in [Peers -> Nat]
    /\ Copies \in BOOLEAN
    /\ Failures \in BOOLEAN
    /\ Lifetime \in Nat

VARIABLES
    state,       \* ks->state, up to S_START; S_ERROR ends the key
    linked,      \* session_id_defined(&ks->session_id_remote)
    burst,       \* session->burst
    send,        \* ks->send_reliable
    rec,         \* ks->rec_reliable
    recAck,      \* ks->rec_ack
    pc,          \* where the peer's event loop is, see PcValues
    net,         \* the packets in flight
    generated,   \* how many packets the peer has put into send
    delivered    \* what the peer took out of rec, in order

vars == <<state, linked, burst, send, rec, recAck, pc, net, generated, delivered>>

Other(p) == IF p = Client THEN Server ELSE Client

\* "idle": outside tls_process.  Inside it, `to_link` is "free" or still
\* "busy" with an earlier packet of the event loop.
PcValues == {"idle", "free", "busy"}

States == {"S_ERROR", "S_INITIAL", "S_PRE_START", "S_START"}

Init ==
    /\ state = [p \in Peers |-> "S_INITIAL"]
    /\ linked = [p \in Peers |-> FALSE]
    /\ burst = [p \in Peers |-> FALSE]
    /\ send = [p \in Peers |-> ReliableInit(p \in HeldPeers)]
    /\ rec = [p \in Peers |-> ReliableInit(FALSE)]
    /\ recAck = [p \in Peers |-> << >>]
    /\ pc = [p \in Peers |-> "idle"]
    /\ net = {}
    /\ generated = [p \in Peers |-> 0]
    /\ delivered = [p \in Peers |-> << >>]

---------------------------------------------------------------------------
\* Packets.

\* What write_control_auth makes of an entry of the send buffer, with the
\* acknowledgements that ride on it; a dedicated acknowledgement has no id.
DataPacket(p, e, acks) ==
    [from |-> p, opcode |-> e.opcode, packet_id |-> e.packet_id,
     data |-> e.data, acks |-> acks]
AckPacket(p, acks) ==
    [from |-> p, opcode |-> "P_ACK", packet_id |-> 0, data |-> 0, acks |-> acks]

\* Hand m to the network: it is lost at once, or in flight.
Transmit(m, lost) == net' = IF lost THEN net ELSE net \union {m}

\* One call of tls_process sends at most one packet, and is made while the
\* network has room for it.
Room(p) == Cardinality({m \in net : m.from = p}) < MaxNet[p]

\* The network does not hold a packet until its id comes round again: what is
\* in flight when p generates a packet names only p's last Lifetime packets.
Forgotten(p) ==
    \A m \in net :
        /\ m.from = p /\ m.opcode # "P_ACK" => generated[p] - m.data <= Lifetime
        /\ m.from # p => \A a \in m.acks : PidSub(send[p].packet_id, a) <= Lifetime

\* No acknowledgement is pending in either direction (FULL_SYNC).
\* Mutant: packets still unacknowledged are not looked at.
FullSyncMutant(p) == recAck[p] = << >>
FullSync(p) == ReliableEmpty(send[p]) /\ recAck[p] = << >>

---------------------------------------------------------------------------
\* tls_process.

\* A key that failed is left to the session's reset, and a peer without the
\* other's address is not processed.
CanProcess(p) == state[p] # "S_ERROR" /\ (linked[p] \/ p \in Callers)

\* The state the top of a pass leaves behind: the hard reset is queued, and
\* once both directions are acknowledged the TLS handshake may start.
OpensKey(p) == state[p] = "S_INITIAL" /\ OutputSequenced(send[p], SendSize)

AfterOpen(p) ==
    IF OpensKey(p)
    THEN MarkActiveOutgoing(send[p], "P_HARD_RESET", generated[p])
    ELSE send[p]

StateAfterOpen(p) ==
    IF OpensKey(p) THEN "S_PRE_START"
    ELSE IF state[p] = "S_PRE_START" /\ FullSync(p) THEN "S_START"
    ELSE state[p]

Enters(p, link) ==
    /\ CanProcess(p)
    /\ pc[p] = link \/ (pc[p] = "idle" /\ Room(p))

\* A pass that finds something to send and to_link free: the packet goes out
\* with up to SendAckMax acknowledgements and the loop is left at once.
PassSends(p, lost) ==
    /\ Enters(p, "free")
    /\ CanSend(AfterOpen(p))
    /\ \E e \in NextToSend(AfterOpen(p)) :
          /\ Transmit(DataPacket(p, e, AckWritten(recAck[p], SendAckMax)), lost)
          /\ \E retry \in UniqueRetry(AfterOpen(p), e.timeout) :
                send' = [send EXCEPT ![p] = MarkSent(AfterOpen(p), e, retry)]
    /\ recAck' = [recAck EXCEPT ![p] = AckRest(@, SendAckMax)]
    /\ state' = [state EXCEPT ![p] = StateAfterOpen(p)]
    /\ generated' = [generated EXCEPT ![p] = IF OpensKey(p) THEN @ + 1 ELSE @]
    /\ pc' = [pc EXCEPT ![p] = "idle"]
    /\ UNCHANGED <<linked, burst, rec, delivered>>

\* The next packet in sequence goes to TLS and its slot is freed.
TakesNext(p) == Sequenced(rec[p]) # {}

Deliver(p) ==
    IF TakesNext(p)
    THEN \E e \in Sequenced(rec[p]) :
           /\ rec' = [rec EXCEPT ![p] = MarkDeleted(@, e)]
           /\ delivered' = [delivered EXCEPT ![p] = Append(@, e.data)]
    ELSE UNCHANGED <<rec, delivered>>

\* TLS has ciphertext and the send buffer takes it.
MayGenerate(p) ==
    /\ StateAfterOpen(p) = "S_START"
    /\ OutputSequenced(send[p], SendSize)
    /\ generated[p] < MaxPackets[p]
    /\ Forgotten(p)

\* A pass with nothing to send, or no room for it in to_link: one packet is
\* delivered if the next one is there, and one generated if TLS has more.
\* The loop goes around again while a pass changes something.
PassTransfers(p, link, generates) ==
    LET opens == OpensKey(p)
        changed == \/ opens
                   \/ StateAfterOpen(p) # state[p]
                   \/ TakesNext(p)
                   \/ generates
    IN
    /\ Enters(p, link)
    /\ link = "free" => ~ CanSend(AfterOpen(p))
    /\ changed
    /\ generates => MayGenerate(p)
    /\ Deliver(p)
    /\ send' = [send EXCEPT ![p] =
                    IF generates
                    THEN MarkActiveOutgoing(@, "P_CONTROL", generated[p])
                    ELSE AfterOpen(p)]
    /\ state' = [state EXCEPT ![p] = StateAfterOpen(p)]
    /\ generated' = [generated EXCEPT ![p] = IF opens \/ generates THEN @ + 1 ELSE @]
    /\ pc' = [pc EXCEPT ![p] = link]
    /\ UNCHANGED <<linked, burst, recAck, net>>

\* A pass that changes nothing (TLS has no ciphertext now) ends the loop: what
\* is still to be acknowledged goes out in a packet of its own.
ProcessReturn(p, link, lost) ==
    /\ Enters(p, link)
    /\ link = "free" => ~ CanSend(AfterOpen(p))
    /\ ~ OpensKey(p) /\ StateAfterOpen(p) = state[p] /\ ~ TakesNext(p)
    /\ IF link = "free" /\ recAck[p] # << >>
       THEN /\ Transmit(AckPacket(p, AckWritten(recAck[p], AckSize)), lost)
            /\ recAck' = [recAck EXCEPT ![p] = AckRest(@, AckSize)]
       ELSE UNCHANGED <<net, recAck>>
    /\ pc' = [pc EXCEPT ![p] = "idle"]
    /\ UNCHANGED <<state, linked, burst, send, rec, generated, delivered>>

\* The handshake window closes, or TLS rejects what it is given: the pass is
\* left for the error exit.
ProcessFails(p) ==
    /\ Failures
    /\ CanProcess(p)
    /\ state' = [state EXCEPT ![p] = "S_ERROR"]
    /\ pc' = [pc EXCEPT ![p] = "idle"]
    /\ UNCHANGED <<linked, burst, send, rec, recAck, net, generated, delivered>>

---------------------------------------------------------------------------
\* tls_pre_decrypt, for a control packet of this key.

\* The first hard reset of the other peer makes the session known, and the
\* send buffer is released at once; other packets of an unknown session are
\* not routable and are dropped unread.
Routable(p, m) == linked[p] \/ m.opcode = "P_HARD_RESET"

Bursts(p) == ~ linked[p] /\ ~ burst[p]

\* The packet is stored only with a free slot, within the window, and once.
\* It is acknowledged even when it is a replay.
Stores(p, m) ==
    /\ CanGet(rec[p], RecSize)
    /\ WontBreakSequentiality(rec[p], m.packet_id, RecSize)
    /\ NotReplay(rec[p], m.packet_id)

\* Mutant: a packet that is refused is acknowledged too.
AcknowledgesMutant(p, m) == CanGet(rec[p], RecSize)
Acknowledges(p, m) ==
    /\ CanGet(rec[p], RecSize)
    /\ WontBreakSequentiality(rec[p], m.packet_id, RecSize)

Receive(p, m) ==
    /\ pc[p] = "idle"
    /\ state[p] # "S_ERROR"
    /\ m.from = Other(p)
    /\ IF Routable(p, m)
       THEN /\ linked' = [linked EXCEPT ![p] = TRUE]
            /\ burst' = [burst EXCEPT ![p] = @ \/ Bursts(p)]
            /\ send' = [send EXCEPT ![p] =
                           SendPurge(IF Bursts(p) THEN ScheduleNow(@) ELSE @, m.acks)]
            /\ IF m.opcode = "P_ACK"
               THEN UNCHANGED <<rec, recAck>>
               ELSE /\ rec' = [rec EXCEPT ![p] =
                                 IF Stores(p, m)
                                 THEN MarkActiveIncoming(@, m.packet_id, m.opcode, m.data)
                                 ELSE @]
                    /\ recAck' = [recAck EXCEPT ![p] =
                                    IF Acknowledges(p, m)
                                    THEN AckAcknowledge(@, m.packet_id)
                                    ELSE @]
       ELSE UNCHANGED <<linked, burst, send, rec, recAck>>
    /\ UNCHANGED <<state, pc, generated, delivered>>

---------------------------------------------------------------------------
\* The network and the clock.

Lose(m) ==
    /\ net' = net \ {m}
    /\ UNCHANGED <<state, linked, burst, send, rec, recAck, pc, generated, delivered>>

\* The packet leaves the network, or a copy of it stays in flight.
ReceiveOnce(p) == \E m \in net : Receive(p, m) /\ net' = net \ {m}
ReceiveCopy(p) == Copies /\ \E m \in net : Receive(p, m) /\ net' = net

\* One second passes for both peers, outside their calls of tls_process.
Tick ==
    /\ \A p \in Peers : pc[p] = "idle"
    /\ \E p \in Peers : \E e \in send[p].entries : e.wait > 0
    /\ send' = [p \in Peers |-> Elapse(send[p])]
    /\ UNCHANGED <<state, linked, burst, rec, recAck, pc, net, generated, delivered>>

\* The passes of a call that finds to_link free, and of one that finds it busy.
FreePass(p, lost) ==
    \/ PassSends(p, lost)
    \/ \E generates \in BOOLEAN : PassTransfers(p, "free", generates)
    \/ ProcessReturn(p, "free", lost)

BusyPass(p) ==
    \/ \E generates \in BOOLEAN : PassTransfers(p, "busy", generates)
    \/ ProcessReturn(p, "busy", TRUE)

Next ==
    \/ \E p \in Peers :
          \/ \E lost \in BOOLEAN : FreePass(p, lost)
          \/ BusyPass(p)
          \/ ProcessFails(p)
          \/ ReceiveOnce(p)
          \/ ReceiveCopy(p)
    \/ \E m \in net : Lose(m)
    \/ Tick

Spec == Init /\ [][Next]_vars

\* Fairness.  The event loop calls tls_process again and again, time passes, and
\* what is in flight arrives.  The network may lose and duplicate packets, and
\* to_link be busy, as long as they like, but not for ever.
Calm ==
    \/ \E p \in Peers :
          \/ FreePass(p, FALSE)
          \/ (pc[p] = "busy" /\ BusyPass(p))
          \/ ReceiveOnce(p)
    \/ Tick

Fairness ==
    /\ \A p \in Peers :
          /\ SF_vars(FreePass(p, FALSE))
          /\ WF_vars(pc[p] = "busy" /\ BusyPass(p))
          /\ WF_vars(ReceiveOnce(p))
    /\ WF_vars(Tick)
    /\ <>[][Calm]_vars

FairSpec == Spec /\ Fairness

---------------------------------------------------------------------------
\* Properties.

Packets ==
    [from : Peers, opcode : {"P_HARD_RESET", "P_CONTROL", "P_ACK"},
     packet_id : PacketIds, data : Nat, acks : SUBSET PacketIds]

Entries ==
    [packet_id : PacketIds, opcode : {"P_HARD_RESET", "P_CONTROL"},
     data : Nat, wait : Nat, timeout : Nat]

Buffers == [hold : BOOLEAN, packet_id : PacketIds, entries : SUBSET Entries]

\* The types of the state.
TypeOK ==
    /\ state \in [Peers -> States]
    /\ linked \in [Peers -> BOOLEAN]
    /\ burst \in [Peers -> BOOLEAN]
    /\ send \in [Peers -> Buffers]
    /\ rec \in [Peers -> Buffers]
    /\ recAck \in [Peers -> Seq(PacketIds)]
    /\ pc \in [Peers -> PcValues]
    /\ net \subseteq Packets
    /\ generated \in [Peers -> Nat]
    /\ delivered \in [Peers -> Seq(Nat)]

\* What is delivered to TLS is what the other peer generated, each packet
\* once and in order, whatever the network did.
InOrder ==
    \A p \in Peers :
        /\ Len(delivered[p]) <= generated[Other(p)]
        /\ \A i \in DOMAIN delivered[p] : delivered[p][i] = i - 1

\* The packets of q that p holds or has delivered.
Stored(p) == {e.data : e \in rec[p].entries}
Has(p, n) == n < Len(delivered[p]) \/ n \in Stored(p)

\* A packet leaves the send buffer (reliable_send_purge) only when the other
\* peer has it: none is acknowledged that was refused.
NothingLost ==
    \A p \in Peers : \A n \in 0 .. generated[p] - 1 :
        n \in {e.data : e \in send[p].entries} \/ Has(Other(p), n)

\* The receive buffer never fills up without the packet that is next in
\* sequence, for then nothing could ever leave it: this is what
\* reliable_wont_break_sequentiality is for.
NotWedged ==
    \A p \in Peers : CanGet(rec[p], RecSize) \/ Sequenced(rec[p]) # {}

\* A peer that still retransmits a packet the other has delivered gets its
\* acknowledgement: the replay is not taken for a packet ahead of the window
\* ("even if it's a replay", tls_pre_decrypt).
ReplayAcknowledged ==
    \A p \in Peers : \A e \in send[p].entries :
        e.data < Len(delivered[Other(p)])
            => WontBreakSequentiality(rec[Other(p)], e.packet_id, RecSize)

\* No two retransmissions are planned for the same second
\* (reliable_unique_retry).
RetriesSpread ==
    \A p \in Peers : \A e, f \in send[p].entries :
        e # f /\ e.wait > 0 => e.wait # f.wait

\* S_START means that the three-way handshake is complete: each peer has
\* the other's hard reset.
HandshakeComplete ==
    \A p \in Peers :
        state[p] = "S_START" => linked[p] /\ Has(p, 0) /\ Has(Other(p), 0)

\* Unless a peer gives the key up, the three-way handshake completes.
HandshakeCompletes == <>(\A p \in Peers : state[p] = "S_START")

\* Everything that is generated is delivered: losses are made good, and no
\* packet waits for ever for a slot or for its acknowledgement.
EverythingArrives ==
    \A p \in Peers : []<>(Len(delivered[p]) = generated[Other(p)])

\* The reliability layer is a pair of channels that lose, repeat and reorder
\* nothing.
Abstract == INSTANCE InOrderDelivery WITH A <- Client, B <- Server

ImplementsInOrderDelivery == Abstract!Spec

=============================================================================
