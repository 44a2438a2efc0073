----------------------------- MODULE TlsSession -----------------------------
(***************************************************************************)
(* Renegotiation: the primary and the retiring ("lame duck") key of the    *)
(* active session of two peers, as tls_process, tls_pre_decrypt and        *)
(* tls_pre_encrypt (openvpn/Src/ssl.c) move them, from one soft reset to   *)
(* the next.                                                               *)
(*                                                                         *)
(* ControlChannel shows that the packets of one key arrive in order; here  *)
(* a key has two of them in each direction, the soft reset and the one     *)
(* that stands for the TLS handshake with the key material, and what       *)
(* matters is which key each peer is at.  Time is counted in seconds, and  *)
(* what is not acknowledged is sent again after twice as long each time    *)
(* (reliable_send).  A timer holds the time that is left: a behaviour goes *)
(* through any number of renegotiations.                                   *)
(*                                                                         *)
(* Both peers run the loop of openvpn.c, which calls tls_process when one  *)
(* of these timers ends: a client, or either end of a point-to-point       *)
(* tunnel, where the server of TLS is the one with tls-server.             *)
(***************************************************************************)
EXTENDS Integers, Sequences, FiniteSets

CONSTANTS
    Client, Server,    \* the two peers; one is opt->server
    HandshakeWindow,   \* handshake_window
    PacketTimeout,     \* packet_timeout, before the first retransmission
    Backoff,           \* the time from the first try of a packet to the one
                       \* after so many that were lost
    TransitionWindow,  \* transition_window
    Renegotiate,       \* renegotiate_seconds of each peer, 0 for never
    MaxKeyId,          \* P_KEY_ID_MASK
    MaxFaults,         \* bound: packets lost, and seconds the network is
                       \* late by, in one renegotiation, fewer by those of
                       \* the next bound
    MaxLate            \* bound: soft resets that come again after later packets

Peers == {Client, Server}

ASSUME PeersAssumption == Client # Server
ASSUME WindowAssumption ==
    /\ HandshakeWindow \in Nat \ {0}
    /\ Renegotiate \in [Peers -> Nat]
    /\ \A p \in Peers : Renegotiate[p] # 0 => Renegotiate[p] >= 2 * HandshakeWindow
    /\ TransitionWindow \in Nat
    /\ TransitionWindow >= 2 * HandshakeWindow
ASSUME BoundAssumption ==
    /\ MaxKeyId \in Nat /\ MaxKeyId >= 2
    /\ MaxFaults \in Nat
    /\ MaxLate \in Nat
ASSUME BackoffAssumption ==
    /\ PacketTimeout \in Nat \ {0}
    /\ Backoff \in [0..MaxFaults -> Nat]
    /\ Backoff[0] = 0
    /\ \A n \in 1..MaxFaults : Backoff[n] = 2 * Backoff[n - 1] + PacketTimeout

VARIABLES
    primary,   \* key[KS_PRIMARY] of the active session of each peer
    lame,      \* key[KS_LAME_DUCK], as far as it is used
    calling,   \* the peer inside tls_process, or Nobody
    net,       \* the packets on their way to each peer, in order
    late,      \* packets that will come again
    lates,     \* how many did, or will
    faults     \* faults of the network since the keys last agreed

vars == <<primary, lame, calling, net, late, lates, faults>>

Nobody == "nobody"
Off == -1      \* of a timer that does not run

\* The states of a key, in the order in which the code compares them.
S_ERROR == -1
S_UNDEF == 0
S_INITIAL == 1
S_PRE_START == 2
S_START == 3
S_SENT_KEY == 4
S_GOT_KEY == 5
S_ACTIVE == 6
S_NORMAL_OP == 7

\* The packets of a key, in both directions: una are the ones that are not
\* acknowledged yet, due those of them to be sent before time passes, arrived
\* those that TLS has not taken, read how many it has.  The first is acknowledged
\* before the second is made, so one next_try and one timeout do for both: wait
\* is the time until what was sent is due again, timeout what the next try waits.
ResetPacket == 0
KeyPacket == 1
Packets == {ResetPacket, KeyPacket}

Other(p) == IF p = Client THEN Server ELSE Client
Least(a, b) == IF a < b THEN a ELSE b
Up(p) == primary[p].state # S_ERROR

---------------------------------------------------------------------------
\* Keys.

\* 0 is the first key of a session and no other.
\* Mutant: the id does not wrap.
NextKeyIdMutant(id) == id + 1
NextKeyId(id) == IF id = MaxKeyId THEN 1 ELSE id + 1

\* For so long after its start a new key is not used while an older one is.
AuthDeferredWindow(p) ==
    IF Renegotiate[p] # 0 THEN Least(HandshakeWindow, Renegotiate[p] \div 2)
    ELSE HandshakeWindow

RenegotiateTimer(p) == IF Renegotiate[p] = 0 THEN Off ELSE Renegotiate[p]

KeyStateInit(id) ==
    [state |-> S_INITIAL, id |-> id, una |-> {}, due |-> {}, wait |-> 0,
     timeout |-> PacketTimeout, acks |-> {}, arrived |-> {}, read |-> 0,
     must |-> Off, defer |-> 0, reneg |-> Off]

NoKey == [state |-> S_UNDEF, id |-> 0, defer |-> 0, die |-> Off]

\* Mutant: the retiring key is not given its own lifetime.
RetiringShortMutant(key) ==
    [state |-> key.state, id |-> key.id, defer |-> key.defer, die |-> HandshakeWindow - 1]
Retiring(key) ==
    [state |-> key.state, id |-> key.id, defer |-> key.defer, die |-> TransitionWindow]

\* Whether data encrypted with a key of p is decrypted, DECRYPT_KEY_ENABLED.
Enabled(p, key) ==
    key.state >= (IF p = Server THEN S_GOT_KEY - 1 ELSE S_GOT_KEY)

FullSync(key) == key.una = {} /\ key.acks = {}

---------------------------------------------------------------------------
\* A pass of tls_process over the primary key, up to where it would send.

\* Mutant: a key is only opened when the other peer has opened its own.
OpenedMutant(p, key) ==
    IF key.state = S_INITIAL /\ ResetPacket \in key.arrived
    THEN [key EXCEPT !.state = S_PRE_START, !.una = {ResetPacket}, !.due = {ResetPacket},
                     !.must = HandshakeWindow, !.defer = AuthDeferredWindow(p)]
    ELSE key
Opened(p, key) ==
    IF key.state = S_INITIAL
    THEN [key EXCEPT !.state = S_PRE_START, !.una = {ResetPacket}, !.due = {ResetPacket},
                     !.wait = 0, !.timeout = PacketTimeout,
                     !.must = HandshakeWindow, !.defer = AuthDeferredWindow(p)]
    ELSE key

\* The handshake window ends: an error, unless the key is in use by then.
TimesOut(key) == key.must = 0 /\ key.state < S_ACTIVE
Aged(key) ==
    IF key.must = 0 THEN [key EXCEPT !.state = S_NORMAL_OP, !.must = Off] ELSE key

LastOfHandshake(p) == IF p = Server THEN S_SENT_KEY ELSE S_GOT_KEY

Synced(p, key) ==
    IF ~FullSync(key) THEN key
    ELSE IF key.state = S_PRE_START THEN [key EXCEPT !.state = S_START]
    ELSE IF key.state = LastOfHandshake(p)
    THEN [key EXCEPT !.state = S_ACTIVE, !.reneg = RenegotiateTimer(p)]
    ELSE key

Top(p, key) == Synced(p, Aged(Opened(p, key)))

\* The rest of a pass that has nothing to send.
Taken(key) ==
    IF key.read \in key.arrived
    THEN [key EXCEPT !.arrived = @ \ {key.read}, !.read = @ + 1]
    ELSE key

KeySent(p, key) ==
    IF key.state = (IF p = Server THEN S_GOT_KEY ELSE S_START)
    THEN [key EXCEPT !.state = S_SENT_KEY, !.una = @ \union {KeyPacket},
                     !.due = @ \union {KeyPacket}, !.wait = 0,
                     !.timeout = PacketTimeout]
    ELSE key

KeyRead(p, key) ==
    IF key.state = (IF p = Server THEN S_START ELSE S_SENT_KEY)
       /\ key.read > KeyPacket
    THEN [key EXCEPT !.state = S_GOT_KEY]
    ELSE key

Bottom(p, key) == KeyRead(p, KeySent(p, Taken(key)))

\* The key after packet i of it was sent, reliable_send.
\* Mutant: the timeout is doubled before it is used.
TriedMutant(key, i) ==
    [key EXCEPT !.due = @ \ {i}, !.wait = 2 * key.timeout, !.timeout = 2 * @]
Tried(key, i) ==
    [key EXCEPT !.due = @ \ {i}, !.wait = key.timeout, !.timeout = 2 * @]

---------------------------------------------------------------------------
\* The state after the first negotiation, with both keys in normal operation.

Init ==
    /\ primary = [p \in Peers |->
          [KeyStateInit(0) EXCEPT !.state = S_NORMAL_OP, !.read = 2,
                                  !.reneg = RenegotiateTimer(p)]]
    /\ lame = [p \in Peers |-> NoKey]
    /\ calling = Nobody
    /\ net = [p \in Peers |-> << >>]
    /\ late = {}
    /\ lates = 0
    /\ faults = 0

\* Both peers are at the same key and use it, or will after its first interval.
Agreed ==
    /\ \A p \in Peers : primary[p].state >= S_ACTIVE
    /\ primary[Client].id = primary[Server].id

RenegotiationDue(key) == key.state >= S_ACTIVE /\ key.reneg = 0

\* key_state_soft_reset; a renegotiation of its own counts its own faults.
SoftReset(p) ==
    /\ lame' = [lame EXCEPT ![p] = Retiring(primary[p])]
    /\ primary' = [primary EXCEPT ![p] = KeyStateInit(NextKeyId(primary[p].id))]
    /\ faults' = IF Agreed THEN 0 ELSE faults

---------------------------------------------------------------------------
\* tls_process.

\* A call by p would neither change nor send anything.
Settled(p) ==
    \/ ~Up(p)
    \/ /\ ~RenegotiationDue(primary[p])
       /\ lame[p].die # 0
       /\ ~TimesOut(Opened(p, primary[p]))
       /\ Bottom(p, Top(p, primary[p])) = primary[p]
       /\ primary[p].due = {} /\ primary[p].acks = {}

Call(p) ==
    /\ calling = Nobody /\ ~Settled(p)
    /\ calling' = p
    /\ IF RenegotiationDue(primary[p]) THEN SoftReset(p)
       ELSE /\ lame' = IF lame[p].die = 0 THEN [lame EXCEPT ![p] = NoKey] ELSE lame
            /\ UNCHANGED <<primary, faults>>
    /\ UNCHANGED <<net, late, lates>>

Packet(p, i, acks) == [packet_id |-> i, key_id |-> primary[p].id, acks |-> acks]
NoPacket == -1     \* of a dedicated acknowledgement

Transmit(p, m) ==
    \/ net' = [net EXCEPT ![Other(p)] = Append(@, m)] /\ UNCHANGED faults
    \/ faults + lates < MaxFaults /\ faults' = faults + 1 /\ UNCHANGED net

PassFails(p) ==
    /\ calling = p /\ TimesOut(Opened(p, primary[p]))
    /\ primary' = [primary EXCEPT ![p] = [KeyStateInit(0) EXCEPT !.state = S_ERROR]]
    /\ calling' = Nobody
    /\ UNCHANGED <<lame, net, late, lates, faults>>

\* The call that sends a packet, with all acknowledgements, ends with it.
PassSends(p) ==
    /\ calling = p /\ ~TimesOut(Opened(p, primary[p]))
    /\ LET key == Top(p, primary[p])
       IN \E i \in key.due :
             /\ Transmit(p, Packet(p, i, key.acks))
             /\ primary' = [primary EXCEPT ![p] = [Tried(key, i) EXCEPT !.acks = {}]]
    /\ calling' = Nobody
    /\ UNCHANGED <<lame, late, lates>>

PassWorks(p) ==
    /\ calling = p /\ ~TimesOut(Opened(p, primary[p]))
    /\ LET key == Top(p, primary[p])
       IN /\ key.due = {} /\ Bottom(p, key) # primary[p]
          /\ primary' = [primary EXCEPT ![p] = Bottom(p, key)]
    /\ UNCHANGED <<lame, calling, net, late, lates, faults>>

\* Nothing is left to do but a dedicated acknowledgement.
ProcessReturns(p) ==
    /\ calling = p /\ ~TimesOut(Opened(p, primary[p]))
    /\ primary[p].due = {} /\ Bottom(p, Top(p, primary[p])) = primary[p]
    /\ IF primary[p].acks = {} THEN UNCHANGED <<primary, net, faults>>
       ELSE /\ Transmit(p, Packet(p, NoPacket, primary[p].acks))
            /\ primary' = [primary EXCEPT ![p].acks = {}]
    /\ calling' = Nobody
    /\ UNCHANGED <<lame, late, lates>>

---------------------------------------------------------------------------
\* tls_pre_decrypt, for a control packet of the session.

\* The other peer asks for a new key, while this one's is in use.
AsksForReset(p, m) == m.packet_id = ResetPacket /\ Enabled(p, primary[p])

\* The reliability layer takes the packet into the key: one that is there already
\* is acknowledged again.
Taking(key, m) ==
    IF m.key_id # key.id THEN key
    ELSE LET purged == [key EXCEPT !.una = @ \ m.acks, !.due = @ \ m.acks]
         IN IF m.packet_id = NoPacket THEN purged
            ELSE [purged EXCEPT
                    !.arrived = IF m.packet_id < key.read THEN @
                                ELSE @ \union {m.packet_id},
                    !.acks = @ \union {m.packet_id}]

Processed(p, m) ==
    IF ~Up(p) THEN UNCHANGED <<primary, lame, faults>>
    ELSE IF AsksForReset(p, m)
    THEN /\ lame' = [lame EXCEPT ![p] = Retiring(primary[p])]
         /\ primary' = [primary EXCEPT ![p] =
                           Taking(KeyStateInit(NextKeyId(primary[p].id)), m)]
         /\ faults' = IF Agreed THEN 0 ELSE faults
    ELSE /\ primary' = [primary EXCEPT ![p] = Taking(@, m)]
         /\ UNCHANGED <<lame, faults>>

Receive(p) ==
    /\ calling = Nobody /\ net[p] # << >>
    /\ Processed(p, Head(net[p]))
    /\ net' = [net EXCEPT ![p] = Tail(@)]
    /\ \/ UNCHANGED <<late, lates>>
       \/ /\ lates < MaxLate /\ Head(net[p]).packet_id = ResetPacket
          /\ lates' = lates + 1
          /\ late' = late \union {[to |-> p, packet |-> Head(net[p])]}
    /\ UNCHANGED calling

ReceiveLate ==
    /\ calling = Nobody
    /\ \E c \in late :
          /\ Processed(c.to, c.packet)
          /\ late' = late \ {c}
    /\ UNCHANGED <<calling, net, lates>>

---------------------------------------------------------------------------
\* A second passes when no peer has anything to do; a network that still holds
\* packets is late.  What is not acknowledged is due when its wait ends.

Less(t) == IF t > 0 THEN t - 1 ELSE t

Older(key) ==
    [key EXCEPT !.due = IF key.wait <= 1 THEN key.una ELSE {}, !.wait = Less(@),
                !.must = Less(@), !.defer = Less(@), !.reneg = Less(@)]

Tick ==
    /\ calling = Nobody /\ \A p \in Peers : Settled(p)
    /\ IF \A p \in Peers : net[p] = << >> THEN UNCHANGED faults
       ELSE faults + lates < MaxFaults /\ faults' = faults + 1
    /\ primary' = [p \in Peers |-> Older(primary[p])]
    /\ lame' = [p \in Peers |->
          [lame[p] EXCEPT !.defer = Less(@), !.die = Less(@)]]
    /\ UNCHANGED <<calling, net, late, lates>>

Next ==
    \/ \E p \in Peers :
          \/ Call(p) \/ PassFails(p) \/ PassSends(p) \/ PassWorks(p)
          \/ ProcessReturns(p) \/ Receive(p)
    \/ ReceiveLate
    \/ Tick

Spec == Init /\ [][Next]_vars

\* Both loops run, what is in the network arrives, and time passes: there are
\* only finitely many steps from one Tick to the next.
FairSpec == Spec /\ WF_vars(Next)

---------------------------------------------------------------------------
\* Properties.

Timer == Nat \union {Off}

\* The types of the state, for any number of renegotiations.
TypeOK ==
    /\ primary \in [Peers ->
          [state : S_ERROR..S_NORMAL_OP, id : 0..MaxKeyId,
           una : SUBSET Packets, due : SUBSET Packets, wait : Nat, timeout : Nat \ {0},
           acks : SUBSET Packets, arrived : SUBSET Packets, read : 0..2,
           must : Timer, defer : Nat, reneg : Timer]]
    /\ lame \in [Peers ->
          [state : S_UNDEF..S_NORMAL_OP, id : 0..MaxKeyId, defer : Nat, die : Timer]]
    /\ calling \in Peers \union {Nobody}
    /\ faults \in 0..MaxFaults
    /\ lates \in 0..MaxLate
    /\ \A p \in Peers : \A i \in 1..Len(net[p]) :
          net[p][i] \in [packet_id : Packets \union {NoPacket}, key_id : 0..MaxKeyId,
                         acks : SUBSET Packets]

\* The key p encrypts data with (tls_pre_encrypt): the newest one in use whose
\* deferral is over, else the newest in use, else none.
Scan(p) == <<[state |-> primary[p].state, id |-> primary[p].id, defer |-> primary[p].defer],
             [state |-> lame[p].state, id |-> lame[p].id, defer |-> lame[p].defer]>>
InUse(p) == {i \in 1..2 : Scan(p)[i].state >= S_ACTIVE}
Preferred(p) == {i \in InUse(p) : Scan(p)[i].defer = 0}
Selected(p, i) ==
    LET among == IF Preferred(p) # {} THEN Preferred(p) ELSE InUse(p)
    IN i \in among /\ \A j \in among : i <= j

\* tls_pre_decrypt finds that key at the other peer, for as long as data may be
\* on its way.
DecryptedBy(p, id, latency) ==
    \/ Enabled(p, primary[p]) /\ primary[p].id = id
    \/ Enabled(p, lame[p]) /\ lame[p].id = id /\ lame[p].die > latency

\* As long as no packet came late, data is never lost to a renegotiation: a
\* peer always has a key to encrypt with, and the other one decrypts with it,
\* however far each has got, and with the retiring key for as long after as
\* transition_window leaves beyond two handshakes.
Understood ==
    (\A p \in Peers : Up(p)) /\ lates = 0 =>
        \A p \in Peers :
            \E i \in InUse(p) :
                /\ Selected(p, i)
                /\ DecryptedBy(Other(p), Scan(p)[i].id, TransitionWindow - 2 * HandshakeWindow)

\* The handshake window (60 seconds by default) is lost to no fewer faults than
\* make the retries of a single packet, 2, 4, 8, ... seconds apart, pass it: five
\* of them, not thirty.  Nor is it lost to a soft reset that came twice, whether
\* the other peer renegotiates at the same time or not.  The two together can
\* lose it: a soft reset that comes again while the new key's last packet is lost
\* makes the server leave that key, and the client, which waits for the packet,
\* never hears of it again.  Neither is a window of one timeout enough: a peer
\* that is moved on too soon is not followed before it repeats its own soft
\* reset, one timeout later.
Survives ==
    \/ lates = 0 /\ Backoff[faults] < HandshakeWindow
    \/ lates <= 1 /\ faults = 0 /\ PacketTimeout < HandshakeWindow
    => \A p \in Peers : Up(p)

\* Renegotiations end: again and again both peers use the same key, or a peer
\* has noticed that they do not and has given the session up.
Renegotiates == []<>(Agreed \/ \E p \in Peers : ~Up(p))
=============================================================================
