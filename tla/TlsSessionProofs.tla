-------------------------- MODULE TlsSessionProofs --------------------------
(***************************************************************************)
(* Theorems about TlsSession, for all windows, timeouts, intervals of      *)
(* renegotiation, numbers of key ids and of faults: the types of the       *)
(* state, that data is understood through any number of renegotiations,    *)
(* and that lost packets end the session only when the retries of one      *)
(* packet, each twice as long after the one before, pass the handshake     *)
(* window.                                                                 *)
(*                                                                         *)
(* The argument: while both sessions last and no soft reset came late, the *)
(* peers are at one key, or one of them leads: it has renewed its key, the *)
(* other peer has not noticed, and all that can come of the new key is its *)
(* soft reset (Lead).  At one key (Link), what is between the keys fits    *)
(* both (Flow), neither peer renews its key or encrypts with it before the *)
(* other one can decrypt (Pace), and until the new keys may be used both   *)
(* have the one they replaced, for longer than that can take (Kept).  What *)
(* the owner of a key knows of it by itself is Own.  The faults so far pay *)
(* for so long as the retries of a single packet that met them all would   *)
(* take (Backoff), and a handshake has not taken longer, nor will it until *)
(* what it lost is sent again (Affords, Charged): the packet that waits    *)
(* longest was lost at a fault that at least doubled what is paid for.     *)
(* With nothing lost the handshake is over before time passes              *)
(* (NothingLost).                                                          *)
(***************************************************************************)
EXTENDS TlsSession, TLAPS

USE DEF S_ERROR, S_UNDEF, S_INITIAL, S_PRE_START, S_START, S_SENT_KEY, S_GOT_KEY,
        S_ACTIVE, S_NORMAL_OP, Off, ResetPacket, KeyPacket, NoPacket

---------------------------------------------------------------------------
(* Types. *)

Keys ==
    [state : S_ERROR..S_NORMAL_OP, id : 0..MaxKeyId,
     una : SUBSET Packets, due : SUBSET Packets, wait : Nat, timeout : Nat \ {0},
     acks : SUBSET Packets, arrived : SUBSET Packets, read : 0..2,
     must : Timer, defer : Nat, reneg : Timer]

LameKeys == [state : S_UNDEF..S_NORMAL_OP, id : 0..MaxKeyId, defer : Nat, die : Timer]

Messages ==
    [packet_id : Packets \union {NoPacket}, key_id : 0..MaxKeyId, acks : SUBSET Packets]

\* TypeOK, with the packets that will come again and the network as a whole.
Shape ==
    /\ primary \in [Peers -> Keys]
    /\ lame \in [Peers -> LameKeys]
    /\ calling \in Peers \union {Nobody}
    /\ net \in [Peers -> Seq(Messages)]
    /\ late \subseteq [to : Peers, packet : Messages]
    /\ lates \in 0..MaxLate
    /\ faults \in 0..MaxFaults

\* The id after a key's id is another one.
LEMMA NextKeyIdType ==
    ASSUME NEW id \in 0..MaxKeyId
    PROVE  NextKeyId(id) \in 0..MaxKeyId /\ NextKeyId(id) # id
BY BoundAssumption DEF NextKeyId

\* A new key is deferred for the handshake window.
LEMMA DeferralIsWindow ==
    ASSUME NEW p \in Peers
    PROVE  AuthDeferredWindow(p) = HandshakeWindow
<1>1. /\ HandshakeWindow \in Nat /\ Renegotiate[p] \in Nat
      /\ Renegotiate[p] # 0 => Renegotiate[p] >= 2 * HandshakeWindow
  BY WindowAssumption
<1> QED
  BY <1>1 DEF AuthDeferredWindow, Least

LEMMA RenegotiateTimerType ==
    ASSUME NEW p \in Peers
    PROVE  /\ RenegotiateTimer(p) \in Timer
           /\ RenegotiateTimer(p) # Off => RenegotiateTimer(p) >= 2 * HandshakeWindow
BY WindowAssumption DEF RenegotiateTimer, Timer

LEMMA KeyStateInitType ==
    ASSUME NEW id \in 0..MaxKeyId
    PROVE  KeyStateInit(id) \in Keys
BY BackoffAssumption DEF KeyStateInit, Keys, Timer

LEMMA RetiringType ==
    ASSUME NEW key \in Keys, key.state >= S_UNDEF
    PROVE  Retiring(key) \in LameKeys
BY WindowAssumption DEF Retiring, Keys, LameKeys, Timer

\* A timer that runs does not run below zero.
LEMMA LessType ==
    ASSUME NEW t \in Timer
    PROVE  Less(t) \in Timer /\ (t \in Nat => Less(t) \in Nat)
BY DEF Less, Timer

---------------------------------------------------------------------------
(* What the parts of a pass of tls_process do to a key. *)

LEMMA OpenedIs ==
    ASSUME NEW p \in Peers, NEW key \in Keys
    PROVE  /\ Opened(p, key) \in Keys
           /\ key.state # S_INITIAL => Opened(p, key) = key
           /\ key.state = S_INITIAL =>
                /\ Opened(p, key).state = S_PRE_START
                /\ Opened(p, key).una = {ResetPacket} /\ Opened(p, key).due = {ResetPacket}
                /\ Opened(p, key).wait = 0 /\ Opened(p, key).timeout = PacketTimeout
                /\ Opened(p, key).must = HandshakeWindow
                /\ Opened(p, key).defer = HandshakeWindow
                /\ Opened(p, key).id = key.id /\ Opened(p, key).acks = key.acks
                /\ Opened(p, key).arrived = key.arrived /\ Opened(p, key).read = key.read
                /\ Opened(p, key).reneg = key.reneg
<1>1. AuthDeferredWindow(p) = HandshakeWindow /\ HandshakeWindow \in Nat
  BY DeferralIsWindow, WindowAssumption
<1> DEFINE k == [key EXCEPT !.state = S_PRE_START, !.una = {ResetPacket},
                            !.due = {ResetPacket}, !.wait = 0,
                            !.timeout = PacketTimeout, !.must = HandshakeWindow,
                            !.defer = HandshakeWindow]
<1>2. k \in Keys
  <2>1. /\ S_PRE_START \in S_ERROR..S_NORMAL_OP /\ {ResetPacket} \in SUBSET Packets
        /\ HandshakeWindow \in Timer /\ PacketTimeout \in Nat \ {0}
    BY <1>1, BackoffAssumption DEF Packets, Timer
  <2> QED
    BY <1>1, <2>1 DEF Keys
<1>3. /\ k.state = S_PRE_START /\ k.una = {ResetPacket} /\ k.due = {ResetPacket}
      /\ k.wait = 0 /\ k.timeout = PacketTimeout
      /\ k.must = HandshakeWindow /\ k.defer = HandshakeWindow
      /\ k.id = key.id /\ k.acks = key.acks /\ k.arrived = key.arrived
      /\ k.read = key.read /\ k.reneg = key.reneg
  BY DEF Keys
<1>4. Opened(p, key) = IF key.state = S_INITIAL THEN k ELSE key
  BY <1>1 DEF Opened
<1> HIDE DEF k
<1> QED
  BY <1>2, <1>3, <1>4

LEMMA AgedIs ==
    ASSUME NEW key \in Keys
    PROVE  /\ Aged(key) \in Keys
           /\ key.must # 0 => Aged(key) = key
           /\ key.must = 0 =>
                /\ Aged(key).state = S_NORMAL_OP /\ Aged(key).must = Off
                /\ Aged(key).una = key.una /\ Aged(key).due = key.due
                /\ Aged(key).wait = key.wait /\ Aged(key).timeout = key.timeout
                /\ Aged(key).defer = key.defer /\ Aged(key).reneg = key.reneg
                /\ Aged(key).id = key.id /\ Aged(key).acks = key.acks
                /\ Aged(key).arrived = key.arrived /\ Aged(key).read = key.read
<1> DEFINE k == [key EXCEPT !.state = S_NORMAL_OP, !.must = Off]
<1>1. k \in Keys
  <2>1. S_NORMAL_OP \in S_ERROR..S_NORMAL_OP /\ Off \in Timer
    BY DEF Timer
  <2> QED
    BY <2>1 DEF Keys
<1>2. /\ k.state = S_NORMAL_OP /\ k.must = Off
      /\ k.una = key.una /\ k.due = key.due /\ k.acks = key.acks
      /\ k.wait = key.wait /\ k.timeout = key.timeout
      /\ k.defer = key.defer /\ k.reneg = key.reneg /\ k.id = key.id
      /\ k.arrived = key.arrived /\ k.read = key.read
  BY DEF Keys
<1>3. Aged(key) = IF key.must = 0 THEN k ELSE key
  BY DEF Aged
<1> HIDE DEF k
<1> QED
  BY <1>1, <1>2, <1>3

LEMMA SyncedIs ==
    ASSUME NEW p \in Peers, NEW key \in Keys
    PROVE  LET k == Synced(p, key) IN
           /\ k \in Keys
           /\ k.una = key.una /\ k.due = key.due /\ k.acks = key.acks
           /\ k.wait = key.wait /\ k.timeout = key.timeout
           /\ k.must = key.must /\ k.defer = key.defer /\ k.id = key.id
           /\ k.arrived = key.arrived /\ k.read = key.read
           /\ \/ k.state = key.state /\ k.reneg = key.reneg
              \/ /\ FullSync(key)
                 /\ \/ /\ key.state = S_PRE_START /\ k.state = S_START
                       /\ k.reneg = key.reneg
                    \/ /\ key.state = LastOfHandshake(p) /\ k.state = S_ACTIVE
                       /\ k.reneg = RenegotiateTimer(p)
<1> DEFINE started == [key EXCEPT !.state = S_START]
           active == [key EXCEPT !.state = S_ACTIVE, !.reneg = RenegotiateTimer(p)]
<1>1. /\ started \in Keys
      /\ started.una = key.una /\ started.due = key.due /\ started.acks = key.acks
      /\ started.wait = key.wait /\ started.timeout = key.timeout
      /\ started.must = key.must /\ started.defer = key.defer /\ started.id = key.id
      /\ started.arrived = key.arrived /\ started.read = key.read
      /\ started.state = S_START /\ started.reneg = key.reneg
  BY DEF Keys
<1>2. active \in Keys
  <2>1. S_ACTIVE \in S_ERROR..S_NORMAL_OP /\ RenegotiateTimer(p) \in Timer
    BY RenegotiateTimerType
  <2> QED
    BY <2>1 DEF Keys
<1>3. /\ active.una = key.una /\ active.due = key.due /\ active.acks = key.acks
      /\ active.wait = key.wait /\ active.timeout = key.timeout
      /\ active.must = key.must /\ active.defer = key.defer /\ active.id = key.id
      /\ active.arrived = key.arrived /\ active.read = key.read
      /\ active.state = S_ACTIVE /\ active.reneg = RenegotiateTimer(p)
  BY DEF Keys
<1>4. Synced(p, key) = IF ~ FullSync(key) THEN key
                       ELSE IF key.state = S_PRE_START THEN started
                       ELSE IF key.state = LastOfHandshake(p) THEN active
                       ELSE key
  BY DEF Synced
<1> HIDE DEF started, active
<1> QED
  BY <1>1, <1>2, <1>3, <1>4

LEMMA TakenIs ==
    ASSUME NEW key \in Keys
    PROVE  LET k == Taken(key) IN
           /\ k \in Keys
           /\ key.read \notin key.arrived => k = key
           /\ key.read \in key.arrived =>
                k.arrived = key.arrived \ {key.read} /\ k.read = key.read + 1
           /\ k.una = key.una /\ k.due = key.due /\ k.acks = key.acks
           /\ k.wait = key.wait /\ k.timeout = key.timeout
           /\ k.must = key.must /\ k.defer = key.defer /\ k.reneg = key.reneg
           /\ k.id = key.id /\ k.state = key.state
<1>1. key.read \in key.arrived => key.read + 1 \in 0..2
  BY DEF Keys, Packets
<1> QED
  BY <1>1 DEF Taken, Keys

LEMMA KeySentIs ==
    ASSUME NEW p \in Peers, NEW key \in Keys
    PROVE  LET k == KeySent(p, key) IN
           /\ k \in Keys
           /\ \/ k = key
              \/ /\ key.state = (IF p = Server THEN S_GOT_KEY ELSE S_START)
                 /\ k.state = S_SENT_KEY
                 /\ k.una = key.una \union {KeyPacket}
                 /\ k.due = key.due \union {KeyPacket}
                 /\ k.wait = 0 /\ k.timeout = PacketTimeout
           /\ k.acks = key.acks /\ k.must = key.must /\ k.defer = key.defer
           /\ k.reneg = key.reneg /\ k.id = key.id
           /\ k.arrived = key.arrived /\ k.read = key.read
<1>1. KeyPacket \in Packets
  BY DEF Packets
<1> DEFINE k == [key EXCEPT !.state = S_SENT_KEY, !.una = @ \union {KeyPacket},
                            !.due = @ \union {KeyPacket}, !.wait = 0,
                            !.timeout = PacketTimeout]
<1>2. k \in Keys
  <2>1. /\ S_SENT_KEY \in S_ERROR..S_NORMAL_OP
        /\ key.una \union {KeyPacket} \in SUBSET Packets
        /\ key.due \union {KeyPacket} \in SUBSET Packets
        /\ PacketTimeout \in Nat \ {0}
    BY <1>1, BackoffAssumption DEF Keys
  <2> QED
    BY <2>1 DEF Keys
<1>3. /\ k.state = S_SENT_KEY
      /\ k.una = key.una \union {KeyPacket} /\ k.due = key.due \union {KeyPacket}
      /\ k.wait = 0 /\ k.timeout = PacketTimeout
      /\ k.acks = key.acks /\ k.must = key.must /\ k.defer = key.defer
      /\ k.reneg = key.reneg /\ k.id = key.id
      /\ k.arrived = key.arrived /\ k.read = key.read
  BY DEF Keys
<1>4. KeySent(p, key) =
          IF key.state = (IF p = Server THEN S_GOT_KEY ELSE S_START) THEN k ELSE key
  BY DEF KeySent
<1> HIDE DEF k
<1> QED
  BY <1>2, <1>3, <1>4

LEMMA KeyReadIs ==
    ASSUME NEW p \in Peers, NEW key \in Keys
    PROVE  LET k == KeyRead(p, key) IN
           /\ k \in Keys
           /\ \/ k = key
              \/ /\ key.state = (IF p = Server THEN S_START ELSE S_SENT_KEY)
                 /\ key.read = 2 /\ k.state = S_GOT_KEY
           /\ k.una = key.una /\ k.due = key.due /\ k.acks = key.acks
           /\ k.wait = key.wait /\ k.timeout = key.timeout
           /\ k.must = key.must /\ k.defer = key.defer /\ k.reneg = key.reneg
           /\ k.id = key.id /\ k.arrived = key.arrived /\ k.read = key.read
BY DEF KeyRead, Keys

LEMMA PassType ==
    ASSUME NEW p \in Peers, NEW key \in Keys
    PROVE  /\ Opened(p, key) \in Keys
           /\ Top(p, key) \in Keys
           /\ Bottom(p, key) \in Keys
BY OpenedIs, AgedIs, SyncedIs, TakenIs, KeySentIs, KeyReadIs DEF Top, Bottom

\* The packet that is received changes what is acknowledged and what arrived.
LEMMA TakingIs ==
    ASSUME NEW key \in Keys, NEW m \in Messages
    PROVE  LET k == Taking(key, m) IN
           /\ k \in Keys
           /\ m.key_id # key.id => k = key
           /\ m.key_id = key.id =>
                /\ k.una = key.una \ m.acks /\ k.due = key.due \ m.acks
                /\ m.packet_id = NoPacket => k.arrived = key.arrived /\ k.acks = key.acks
                /\ m.packet_id # NoPacket =>
                     /\ k.arrived = IF m.packet_id < key.read THEN key.arrived
                                    ELSE key.arrived \union {m.packet_id}
                     /\ k.acks = key.acks \union {m.packet_id}
           /\ k.state = key.state /\ k.id = key.id /\ k.read = key.read
           /\ k.must = key.must /\ k.defer = key.defer /\ k.reneg = key.reneg
           /\ k.wait = key.wait /\ k.timeout = key.timeout
<1> DEFINE purged == [key EXCEPT !.una = @ \ m.acks, !.due = @ \ m.acks]
           arrived == IF m.packet_id < key.read THEN key.arrived
                      ELSE key.arrived \union {m.packet_id}
           taken == [purged EXCEPT !.arrived = arrived,
                                   !.acks = @ \union {m.packet_id}]
<1>1. /\ purged \in Keys
      /\ purged.una = key.una \ m.acks /\ purged.due = key.due \ m.acks
      /\ purged.arrived = key.arrived /\ purged.acks = key.acks
      /\ purged.state = key.state /\ purged.id = key.id /\ purged.read = key.read
      /\ purged.must = key.must /\ purged.defer = key.defer /\ purged.reneg = key.reneg
      /\ purged.wait = key.wait /\ purged.timeout = key.timeout
  BY DEF Keys
<1>2. m.key_id = key.id => Taking(key, m) = IF m.packet_id = NoPacket THEN purged ELSE taken
  BY <1>1 DEF Taking
<1>3. m.packet_id # NoPacket => m.packet_id \in Packets
  BY DEF Messages
<1> HIDE DEF purged
<1>4. m.packet_id # NoPacket =>
      /\ taken \in Keys
      /\ taken.arrived = arrived /\ taken.acks = key.acks \union {m.packet_id}
      /\ taken.una = purged.una /\ taken.due = purged.due
      /\ taken.state = key.state /\ taken.id = key.id /\ taken.read = key.read
      /\ taken.must = key.must /\ taken.defer = key.defer /\ taken.reneg = key.reneg
      /\ taken.wait = key.wait /\ taken.timeout = key.timeout
  BY <1>1, <1>3 DEF Keys
<1> HIDE DEF taken
<1>5. m.key_id # key.id => Taking(key, m) = key
  BY DEF Taking
<1> QED
  BY <1>1, <1>2, <1>4, <1>5

\* The key after a packet of it was sent, with the acknowledgements it owes.
LEMMA TriedIs ==
    ASSUME NEW key \in Keys, NEW i
    PROVE  LET k == [Tried(key, i) EXCEPT !.acks = {}] IN
           /\ k \in Keys
           /\ k.due = key.due \ {i} /\ k.acks = {}
           /\ k.wait = key.timeout /\ k.timeout = 2 * key.timeout
           /\ k.una = key.una /\ k.arrived = key.arrived /\ k.read = key.read
           /\ k.state = key.state /\ k.id = key.id
           /\ k.must = key.must /\ k.defer = key.defer /\ k.reneg = key.reneg
<1>1. /\ key.due \ {i} \in SUBSET Packets /\ {} \in SUBSET Packets
      /\ key.timeout \in Nat /\ 2 * key.timeout \in Nat \ {0}
  BY DEF Keys
<1> QED
  BY <1>1 DEF Tried, Keys

\* The key after a dedicated acknowledgement.
LEMMA AckedIs ==
    ASSUME NEW key \in Keys
    PROVE  LET k == [key EXCEPT !.acks = {}] IN
           /\ k \in Keys
           /\ k.due = key.due /\ k.acks = {}
           /\ k.wait = key.wait /\ k.timeout = key.timeout
           /\ k.una = key.una /\ k.arrived = key.arrived /\ k.read = key.read
           /\ k.state = key.state /\ k.id = key.id
           /\ k.must = key.must /\ k.defer = key.defer /\ k.reneg = key.reneg
BY DEF Keys

LEMMA OlderIs ==
    ASSUME NEW key \in Keys
    PROVE  LET k == Older(key) IN
           /\ k \in Keys
           /\ k.due = IF key.wait <= 1 THEN key.una ELSE {}
           /\ k.wait = Less(key.wait) /\ k.timeout = key.timeout
           /\ k.must = Less(key.must) /\ k.defer = Less(key.defer)
           /\ k.reneg = Less(key.reneg)
           /\ k.state = key.state /\ k.id = key.id
           /\ k.una = key.una /\ k.acks = key.acks
           /\ k.arrived = key.arrived /\ k.read = key.read
<1> DEFINE due == IF key.wait <= 1 THEN key.una ELSE {}
<1>1. /\ Less(key.must) \in Timer /\ Less(key.defer) \in Nat
      /\ Less(key.reneg) \in Timer /\ due \in SUBSET Packets /\ Less(key.wait) \in Nat
  BY LessType DEF Keys, Timer
<1> HIDE DEF due
<1>2. Older(key) = [key EXCEPT !.due = due, !.wait = Less(@), !.must = Less(@),
                               !.defer = Less(@), !.reneg = Less(@)]
  BY DEF Older, due
<1>3. Older(key) \in Keys
  BY <1>1, <1>2 DEF Keys
<1>4. Older(key).due = due
  BY <1>2 DEF Keys
<1> QED
  BY <1>2, <1>3, <1>4 DEF Keys, due

---------------------------------------------------------------------------
(* The steps keep the types. *)

\* What is sent is a packet of the key, or it is lost.
LEMMA TransmitType ==
    ASSUME net \in [Peers -> Seq(Messages)], faults \in 0..MaxFaults,
           lates \in 0..MaxLate, NEW p \in Peers, NEW m \in Messages, Transmit(p, m)
    PROVE  net' \in [Peers -> Seq(Messages)] /\ faults' \in 0..MaxFaults
<1>1. CASE net' = [net EXCEPT ![Other(p)] = Append(@, m)] /\ UNCHANGED faults
  <2>1. Other(p) \in Peers
    BY DEF Other, Peers
  <2>2. Append(net[Other(p)], m) \in Seq(Messages)
    BY <2>1
  <2> QED
    BY <1>1, <2>2
<1>2. CASE faults + lates < MaxFaults /\ faults' = faults + 1 /\ UNCHANGED net
  BY <1>2, BoundAssumption
<1> QED
  BY <1>1, <1>2 DEF Transmit

\* A packet that arrives leaves two keys and a count of faults.
LEMMA ProcessedType ==
    ASSUME Shape, NEW p \in Peers, NEW m \in Messages, Processed(p, m)
    PROVE  /\ primary' \in [Peers -> Keys]
           /\ lame' \in [Peers -> LameKeys]
           /\ faults' \in 0..MaxFaults
<1>1. primary[p] \in Keys /\ primary[p].id \in 0..MaxKeyId
  BY DEF Shape, Keys
<1>2. CASE Up(p) /\ AsksForReset(p, m)
  <2>1. primary[p].state >= S_UNDEF
    BY <1>1, <1>2 DEF AsksForReset, Enabled, Keys
  <2>2. Retiring(primary[p]) \in LameKeys
    BY <1>1, <2>1, RetiringType
  <2>3. Taking(KeyStateInit(NextKeyId(primary[p].id)), m) \in Keys
    BY <1>1, NextKeyIdType, KeyStateInitType, TakingIs
  <2>4. /\ lame' = [lame EXCEPT ![p] = Retiring(primary[p])]
        /\ primary' = [primary EXCEPT ![p] =
                          Taking(KeyStateInit(NextKeyId(primary[p].id)), m)]
        /\ faults' \in {0, faults}
    BY <1>2 DEF Processed
  <2>5. faults' \in 0..MaxFaults
    BY <2>4, BoundAssumption DEF Shape
  <2> QED
    BY <2>2, <2>3, <2>4, <2>5 DEF Shape
<1>3. CASE ~ (Up(p) /\ AsksForReset(p, m))
  <2>1. /\ primary' = primary \/ primary' = [primary EXCEPT ![p] = Taking(@, m)]
        /\ UNCHANGED <<lame, faults>>
    BY <1>3 DEF Processed
  <2>2. Taking(primary[p], m) \in Keys
    BY <1>1, TakingIs
  <2> QED
    BY <2>1, <2>2 DEF Shape
<1> QED
  BY <1>2, <1>3

LEMMA ShapeStep ==
    ASSUME Shape, [Next]_vars
    PROVE  Shape'
<1>0. ASSUME NEW p \in Peers
      PROVE  /\ primary[p] \in Keys /\ primary[p].id \in 0..MaxKeyId
             /\ primary[p].acks \in SUBSET Packets
             /\ lame[p] \in LameKeys
  BY DEF Shape, Keys
<1>1. ASSUME NEW p \in Peers, Call(p)
      PROVE  Shape'
  <2>1. CASE RenegotiationDue(primary[p])
    <3>1. SoftReset(p) /\ UNCHANGED <<net, late, lates>> /\ calling' = p
      BY <1>1, <2>1 DEF Call
    <3>2. Retiring(primary[p]) \in LameKeys
      BY <1>0, <2>1, RetiringType DEF RenegotiationDue, Keys
    <3>3. KeyStateInit(NextKeyId(primary[p].id)) \in Keys
      BY <1>0, NextKeyIdType, KeyStateInitType
    <3> QED
      BY <3>1, <3>2, <3>3, BoundAssumption DEF SoftReset, Shape
  <2>2. CASE ~ RenegotiationDue(primary[p])
    <3>1. NoKey \in LameKeys
      BY BoundAssumption DEF NoKey, LameKeys, Timer
    <3> QED
      BY <1>1, <2>2, <3>1 DEF Call, Shape
  <2> QED
    BY <2>1, <2>2
<1>2. ASSUME NEW p \in Peers, PassFails(p)
      PROVE  Shape'
  <2>1. KeyStateInit(0) \in Keys
    BY KeyStateInitType, BoundAssumption
  <2>2. [KeyStateInit(0) EXCEPT !.state = S_ERROR] \in Keys
    BY <2>1 DEF Keys
  <2> QED
    BY <1>2, <2>2 DEF PassFails, Shape
<1>3. ASSUME NEW p \in Peers, PassSends(p)
      PROVE  Shape'
  <2> DEFINE key == Top(p, primary[p])
  <2>1. key \in Keys
    BY <1>0, PassType
  <2>2. PICK i \in key.due :
            /\ Transmit(p, Packet(p, i, key.acks))
            /\ primary' = [primary EXCEPT ![p] = [Tried(key, i) EXCEPT !.acks = {}]]
    BY <1>3 DEF PassSends
  <2> HIDE DEF key
  <2>3. Packet(p, i, key.acks) \in Messages
    BY <1>0, <2>1 DEF Packet, Messages, Keys
  <2>4. [Tried(key, i) EXCEPT !.acks = {}] \in Keys
    BY <2>1, TriedIs
  <2>5. net' \in [Peers -> Seq(Messages)] /\ faults' \in 0..MaxFaults
    BY <2>2, <2>3, TransmitType DEF Shape
  <2> QED
    BY <1>3, <2>2, <2>4, <2>5 DEF PassSends, Shape
<1>4. ASSUME NEW p \in Peers, PassWorks(p)
      PROVE  Shape'
  <2>1. Bottom(p, Top(p, primary[p])) \in Keys
    BY <1>0, PassType
  <2> QED
    BY <1>4, <2>1 DEF PassWorks, Shape
<1>5. ASSUME NEW p \in Peers, ProcessReturns(p)
      PROVE  Shape'
  <2>1. Packet(p, NoPacket, primary[p].acks) \in Messages
    BY <1>0 DEF Packet, Messages
  <2>2. [primary[p] EXCEPT !.acks = {}] \in Keys
    BY <1>0 DEF Keys
  <2>3. CASE primary[p].acks = {}
    BY <1>5, <2>3 DEF ProcessReturns, Shape
  <2>4. CASE primary[p].acks # {}
    <3>1. /\ Transmit(p, Packet(p, NoPacket, primary[p].acks))
          /\ primary' = [primary EXCEPT ![p] = [primary[p] EXCEPT !.acks = {}]]
          /\ calling' = Nobody
          /\ UNCHANGED <<lame, late, lates>>
      BY <1>5, <2>4 DEF ProcessReturns, Shape
    <3>2. net' \in [Peers -> Seq(Messages)] /\ faults' \in 0..MaxFaults
      BY <2>1, <3>1, TransmitType DEF Shape
    <3> QED
      BY <2>2, <3>1, <3>2 DEF Shape
  <2> QED
    BY <2>3, <2>4
<1>6. ASSUME NEW p \in Peers, Receive(p)
      PROVE  Shape'
  <2>1. /\ net[p] \in Seq(Messages) /\ net[p] # << >>
        /\ Head(net[p]) \in Messages /\ Tail(net[p]) \in Seq(Messages)
    BY <1>6 DEF Receive, Shape
  <2>2. net' \in [Peers -> Seq(Messages)]
    BY <1>6, <2>1 DEF Receive, Shape
  <2>3. late' \subseteq [to : Peers, packet : Messages] /\ lates' \in 0..MaxLate
    BY <1>6, <2>1, BoundAssumption DEF Receive, Shape
  <2>4. /\ primary' \in [Peers -> Keys]
        /\ lame' \in [Peers -> LameKeys]
        /\ faults' \in 0..MaxFaults
    BY <1>6, <2>1, ProcessedType DEF Receive
  <2> QED
    BY <1>6, <2>2, <2>3, <2>4 DEF Receive, Shape
<1>7. ASSUME ReceiveLate
      PROVE  Shape'
  <2>1. PICK c \in late : Processed(c.to, c.packet) /\ late' = late \ {c}
    BY <1>7 DEF ReceiveLate
  <2>2. c.to \in Peers /\ c.packet \in Messages
    BY DEF Shape
  <2>3. /\ primary' \in [Peers -> Keys]
        /\ lame' \in [Peers -> LameKeys]
        /\ faults' \in 0..MaxFaults
    BY <2>1, <2>2, ProcessedType
  <2> QED
    BY <1>7, <2>1, <2>3 DEF ReceiveLate, Shape
<1>8. ASSUME Tick
      PROVE  Shape'
  <2>1. ASSUME NEW p \in Peers
        PROVE  /\ Older(primary[p]) \in Keys
               /\ [lame[p] EXCEPT !.defer = Less(@), !.die = Less(@)] \in LameKeys
    <3>1. Less(lame[p].defer) \in Nat /\ Less(lame[p].die) \in Timer
      BY <1>0, LessType DEF LameKeys, Timer
    <3>2. [lame[p] EXCEPT !.defer = Less(@), !.die = Less(@)] \in LameKeys
      BY <1>0, <3>1 DEF LameKeys
    <3> QED
      BY <1>0, <3>2, OlderIs
  <2> QED
    <3>1. primary' \in [Peers -> Keys] /\ lame' \in [Peers -> LameKeys]
      BY <1>8, <2>1 DEF Tick
    <3>2. faults' \in {faults, faults + 1} /\ (faults' = faults \/ faults + lates < MaxFaults)
      BY <1>8 DEF Tick
    <3>3. faults' \in 0..MaxFaults
      BY <3>2, BoundAssumption DEF Shape
    <3>4. UNCHANGED <<calling, net, late, lates>>
      BY <1>8 DEF Tick
    <3> QED
      BY <3>1, <3>3, <3>4 DEF Shape
<1>9. CASE UNCHANGED vars
  BY <1>9 DEF vars, Shape
<1> QED
  BY <1>1, <1>2, <1>3, <1>4, <1>5, <1>6, <1>7, <1>8, <1>9 DEF Next

LEMMA ShapeInit ==
    ASSUME Init
    PROVE  Shape
<1>1. KeyStateInit(0) \in Keys
  BY KeyStateInitType, BoundAssumption
<1>2. ASSUME NEW p \in Peers
      PROVE  [KeyStateInit(0) EXCEPT !.state = S_NORMAL_OP, !.read = 2,
                                     !.reneg = RenegotiateTimer(p)] \in Keys
  <2>1. /\ RenegotiateTimer(p) \in Timer /\ 2 \in 0..2
        /\ S_NORMAL_OP \in S_ERROR..S_NORMAL_OP
    BY RenegotiateTimerType
  <2> HIDE DEF KeyStateInit
  <2> QED
    BY <1>1, <2>1 DEF Keys
<1>3. primary \in [Peers -> Keys]
  BY <1>2 DEF Init
<1>4. NoKey \in LameKeys
  BY BoundAssumption DEF NoKey, LameKeys, Timer
<1>5. << >> \in Seq(Messages)
  OBVIOUS
<1> QED
  <2>1. /\ net \in [Peers -> Seq(Messages)] /\ lame \in [Peers -> LameKeys]
        /\ calling = Nobody /\ late = {} /\ lates = 0 /\ faults = 0
    BY <1>4, <1>5 DEF Init
  <2>2. 0 \in 0..MaxFaults /\ 0 \in 0..MaxLate
    BY BoundAssumption
  <2> QED
    BY <1>3, <2>1, <2>2 DEF Shape

LEMMA ShapeInvariant == Spec => []Shape
<1>1. Init => Shape
  BY ShapeInit
<1>2. Shape /\ [Next]_vars => Shape'
  BY ShapeStep
<1> QED
  BY <1>1, <1>2, PTL DEF Spec

\* Through any number of renegotiations, faults and late packets the keys of
\* both peers, their timers and the packets between them stay well formed.
THEOREM TypeCorrect == Spec => []TypeOK
<1>1. Shape => TypeOK
  <2>1. SUFFICES ASSUME Shape
                 PROVE  \A p \in Peers : \A i \in 1..Len(net[p]) : net[p][i] \in Messages
    BY DEF Shape, TypeOK, Keys, LameKeys, Messages
  <2>2. ASSUME NEW p \in Peers, NEW i \in 1..Len(net[p])
        PROVE  net[p][i] \in Messages
    <3>1. net[p] \in Seq(Messages)
      BY <2>1 DEF Shape
    <3> QED
      BY <3>1
  <2> QED
    BY <2>2
<1> QED
  BY <1>1, ShapeInvariant, PTL

---------------------------------------------------------------------------
(* One key, and what a pass of its owner does to it. *)

\* The packet was queued for sending at some time, and has been received.
SentBy(p, key, a) ==
    IF a = ResetPacket THEN key.state >= S_PRE_START
    ELSE key.state >= S_SENT_KEY /\ ~ (p = Server /\ key.state = S_GOT_KEY)
Had(key, a) == a < key.read \/ a \in key.arrived

\* The key is not used for what its owner encrypts, or not yet.
Pending(key) == key.state < S_ACTIVE \/ key.defer > 0

\* How much of its deferral is left.
Rem(key) == IF key.state = S_INITIAL THEN HandshakeWindow ELSE key.defer

\* The owner has heard nothing of the other peer's key.
AtStart(key) ==
    /\ key.state \in {S_INITIAL, S_PRE_START} /\ key.read = 0 /\ key.arrived = {}
    /\ key.state = S_PRE_START => ResetPacket \in key.una

\* What is true of a key of p by itself: what it sent and has acknowledged fits
\* its state, its deadline is the end of its deferral, and it is not renewed
\* before it has been used for a handshake window.
Own(p, key) ==
    /\ key.state >= S_INITIAL
    /\ key.due \subseteq key.una
    /\ \A a \in key.una : SentBy(p, key, a)
    /\ key.state >= S_START => ResetPacket \notin key.una
    /\ key.state >= S_ACTIVE => key.una = {}
    /\ \A a \in key.acks : Had(key, a)
    /\ Enabled(p, key) => key.read = 2
    /\ key.state \in S_PRE_START .. S_GOT_KEY => key.must = key.defer
    /\ key.defer <= HandshakeWindow
    /\ key.state >= S_ACTIVE /\ key.reneg # Off /\ key.defer > 0
          => key.reneg >= HandshakeWindow + key.defer

\* What a pass may do to a key, as far as the other peer can tell.
Progress(p, k, k2) ==
    /\ k2.id = k.id
    /\ \A a \in Packets : Had(k2, a) <=> Had(k, a)
    /\ \A a \in Packets : SentBy(p, k, a) => SentBy(p, k2, a)
    /\ \A a \in Packets : SentBy(p, k2, a) /\ a \notin k2.una
                             => SentBy(p, k, a) /\ a \notin k.una
    /\ k.state >= S_ACTIVE =>
          k2.state >= S_ACTIVE /\ k2.reneg = k.reneg /\ k2.defer = k.defer
    /\ k2.state >= S_ACTIVE /\ k.state < S_ACTIVE =>
          k2.defer > 0 /\ (k2.reneg # Off => k2.reneg >= 2 * HandshakeWindow)
    /\ Enabled(p, k) => Enabled(p, k2)
    /\ Rem(k2) = Rem(k)
    /\ AtStart(k) => AtStart(k2)

LEMMA ProgressTransitive ==
    ASSUME NEW p, NEW k \in Keys, NEW k1 \in Keys, NEW k2 \in Keys,
           Progress(p, k, k1), Progress(p, k1, k2)
    PROVE  Progress(p, k, k2)
<1>1. k.state \in Int /\ k1.state \in Int /\ k2.state \in Int
  BY DEF Keys
<1> QED
  BY <1>1 DEF Progress

LEMMA KeyTypes ==
    ASSUME NEW k \in Keys
    PROVE  /\ k.state \in S_ERROR..S_NORMAL_OP /\ k.id \in 0..MaxKeyId
           /\ k.una \in SUBSET Packets /\ k.due \in SUBSET Packets
           /\ k.wait \in Nat /\ k.timeout \in Nat \ {0}
           /\ k.acks \in SUBSET Packets /\ k.arrived \in SUBSET Packets
           /\ k.read \in 0..2 /\ k.must \in Timer /\ k.defer \in Nat /\ k.reneg \in Timer
BY DEF Keys

LEMMA StateType ==
    ASSUME NEW k \in Keys
    PROVE  k.state \in Int /\ k.defer \in Nat
BY KeyTypes

LEMMA OpenedGood ==
    ASSUME NEW p \in Peers, NEW k \in Keys, Own(p, k)
    PROVE  Own(p, Opened(p, k)) /\ Progress(p, k, Opened(p, k))
<1> DEFINE k2 == Opened(p, k)
<1>0. k2 \in Keys
  BY OpenedIs
<1>1. CASE k.state # S_INITIAL
  <2>1. k2 = k
    BY <1>1, OpenedIs
  <2> QED
    BY <2>1, KeyTypes DEF Progress
<1>2. CASE k.state = S_INITIAL
  <2>1. /\ k2.state = S_PRE_START /\ k2.una = {ResetPacket} /\ k2.due = {ResetPacket}
        /\ k2.must = HandshakeWindow /\ k2.defer = HandshakeWindow
        /\ k2.id = k.id /\ k2.acks = k.acks /\ k2.arrived = k.arrived
        /\ k2.read = k.read /\ k2.reneg = k.reneg
    BY <1>2, OpenedIs
  <2>2. HandshakeWindow \in Nat \ {0}
    BY WindowAssumption
  <2> HIDE DEF k2
  <2>3. Own(p, k2)
    BY <1>2, <2>1, <2>2, KeyTypes DEF Own, SentBy, Enabled, Had
  <2>4. Progress(p, k, k2)
    BY <1>2, <2>1, <2>2, KeyTypes DEF Progress, SentBy, Had, Enabled, Rem, AtStart, Packets
  <2> QED
    BY <2>3, <2>4 DEF k2
<1> QED
  BY <1>1, <1>2

LEMMA AgedGood ==
    ASSUME NEW p \in Peers, NEW k \in Keys, Own(p, k), ~ TimesOut(k)
    PROVE  Own(p, Aged(k)) /\ Progress(p, k, Aged(k)) /\ ~ TimesOut(Aged(k))
<1> DEFINE k2 == Aged(k)
<1>1. CASE k.must # 0
  <2>1. k2 = k
    BY <1>1, AgedIs
  <2> QED
    BY <2>1, KeyTypes DEF Progress
<1>2. CASE k.must = 0
  <2>1. /\ k2.state = S_NORMAL_OP /\ k2.must = Off
        /\ k2.una = k.una /\ k2.due = k.due /\ k2.defer = k.defer /\ k2.reneg = k.reneg
        /\ k2.id = k.id /\ k2.acks = k.acks /\ k2.arrived = k.arrived
        /\ k2.read = k.read
    BY <1>2, AgedIs
  <2>2. k.state >= S_ACTIVE
    BY <1>2, KeyTypes DEF TimesOut
  <2> HIDE DEF k2
  <2>3. Own(p, k2)
    BY <2>1, <2>2, KeyTypes DEF Own, SentBy, Enabled, Had
  <2>4. Progress(p, k, k2)
    BY <2>1, <2>2, KeyTypes DEF Progress, SentBy, Had, Enabled, Rem, AtStart
  <2> QED
    BY <2>1, <2>3, <2>4 DEF k2, TimesOut
<1> QED
  BY <1>1, <1>2

LEMMA SyncedGood ==
    ASSUME NEW p \in Peers, NEW k \in Keys, Own(p, k), ~ TimesOut(k)
    PROVE  Own(p, Synced(p, k)) /\ Progress(p, k, Synced(p, k))
<1> DEFINE k2 == Synced(p, k)
<1>1. /\ k2 \in Keys
      /\ k2.una = k.una /\ k2.due = k.due /\ k2.acks = k.acks
      /\ k2.must = k.must /\ k2.defer = k.defer /\ k2.id = k.id
      /\ k2.arrived = k.arrived /\ k2.read = k.read
      /\ \/ k2.state = k.state /\ k2.reneg = k.reneg
         \/ /\ FullSync(k)
            /\ \/ k.state = S_PRE_START /\ k2.state = S_START /\ k2.reneg = k.reneg
               \/ /\ k.state = LastOfHandshake(p) /\ k2.state = S_ACTIVE
                  /\ k2.reneg = RenegotiateTimer(p)
  BY SyncedIs
<1> HIDE DEF k2
<1>2. CASE k2.state = k.state /\ k2.reneg = k.reneg
  <2>1. Own(p, k2)
    BY <1>1, <1>2, KeyTypes DEF Own, SentBy, Enabled, Had
  <2>2. Progress(p, k, k2)
    BY <1>1, <1>2, KeyTypes DEF Progress, SentBy, Had, Enabled, Rem, AtStart
  <2> QED
    BY <2>1, <2>2 DEF k2
<1>3. CASE FullSync(k) /\ k.state = S_PRE_START /\ k2.state = S_START /\ k2.reneg = k.reneg
  <2>1. Own(p, k2)
    BY <1>1, <1>3, KeyTypes DEF Own, SentBy, Enabled, Had, FullSync
  <2>2. Progress(p, k, k2)
    BY <1>1, <1>3, KeyTypes DEF Progress, SentBy, Had, Enabled, Rem, AtStart, FullSync
  <2> QED
    BY <2>1, <2>2 DEF k2
<1>4. CASE /\ FullSync(k) /\ k.state = LastOfHandshake(p) /\ k2.state = S_ACTIVE
           /\ k2.reneg = RenegotiateTimer(p)
  <2>1. /\ HandshakeWindow \in Nat \ {0} /\ RenegotiateTimer(p) \in Timer
        /\ RenegotiateTimer(p) # Off => RenegotiateTimer(p) >= 2 * HandshakeWindow
    BY WindowAssumption, RenegotiateTimerType
  <2>2. k.state = IF p = Server THEN S_SENT_KEY ELSE S_GOT_KEY
    BY <1>4 DEF LastOfHandshake
  <2>3. k.defer > 0 /\ k.defer <= HandshakeWindow
    BY <2>2, KeyTypes DEF Own, TimesOut
  <2>4. Own(p, k2)
    BY <1>1, <1>4, <2>1, <2>2, <2>3, KeyTypes DEF Own, SentBy, Enabled, Had, FullSync, Timer
  <2>5. Progress(p, k, k2)
    BY <1>1, <1>4, <2>1, <2>2, <2>3, KeyTypes
       DEF Progress, SentBy, Had, Enabled, Rem, AtStart, FullSync
  <2> QED
    BY <2>4, <2>5 DEF k2
<1> QED
  BY <1>1, <1>2, <1>3, <1>4

LEMMA TakenGood ==
    ASSUME NEW p \in Peers, NEW k \in Keys, Own(p, k)
    PROVE  Own(p, Taken(k)) /\ Progress(p, k, Taken(k))
<1> DEFINE k2 == Taken(k)
<1>1. CASE k.read \notin k.arrived
  <2>1. k2 = k
    BY <1>1, TakenIs
  <2> QED
    BY <2>1, KeyTypes DEF Progress
<1>2. CASE k.read \in k.arrived
  <2>1. /\ k2.arrived = k.arrived \ {k.read} /\ k2.read = k.read + 1
        /\ k2.una = k.una /\ k2.due = k.due /\ k2.acks = k.acks
        /\ k2.must = k.must /\ k2.defer = k.defer /\ k2.reneg = k.reneg
        /\ k2.id = k.id /\ k2.state = k.state
    BY <1>2, TakenIs
  <2>2. k.read \in {0, 1}
    BY <1>2, KeyTypes DEF Packets
  <2> HIDE DEF k2
  <2>3. \A a \in Packets : Had(k2, a) <=> Had(k, a)
    BY <2>1, <2>2, <1>2 DEF Had, Packets
  <2>4. Own(p, k2)
    BY <2>1, <2>2, <2>3, KeyTypes DEF Own, SentBy, Enabled
  <2>5. Progress(p, k, k2)
    BY <1>2, <2>1, <2>2, <2>3, KeyTypes DEF Progress, SentBy, Enabled, Rem, AtStart
  <2> QED
    BY <2>4, <2>5 DEF k2
<1> QED
  BY <1>1, <1>2

LEMMA KeySentGood ==
    ASSUME NEW p \in Peers, NEW k \in Keys, Own(p, k)
    PROVE  Own(p, KeySent(p, k)) /\ Progress(p, k, KeySent(p, k))
<1> DEFINE k2 == KeySent(p, k)
<1>1. /\ \/ k2 = k
         \/ /\ k.state = (IF p = Server THEN S_GOT_KEY ELSE S_START)
            /\ k2.state = S_SENT_KEY
            /\ k2.una = k.una \union {KeyPacket} /\ k2.due = k.due \union {KeyPacket}
      /\ k2.acks = k.acks /\ k2.must = k.must /\ k2.defer = k.defer
      /\ k2.reneg = k.reneg /\ k2.id = k.id
      /\ k2.arrived = k.arrived /\ k2.read = k.read
  BY KeySentIs
<1> HIDE DEF k2
<1>2. CASE k2 = k
  BY <1>2, KeyTypes DEF Progress, k2
<1>3. CASE /\ k.state = (IF p = Server THEN S_GOT_KEY ELSE S_START)
           /\ k2.state = S_SENT_KEY
           /\ k2.una = k.una \union {KeyPacket} /\ k2.due = k.due \union {KeyPacket}
  <2>1. Own(p, k2)
    BY <1>1, <1>3, KeyTypes DEF Own, SentBy, Enabled, Had
  <2>2. Progress(p, k, k2)
    BY <1>1, <1>3, KeyTypes DEF Progress, SentBy, Had, Enabled, Rem, AtStart, Packets
  <2> QED
    BY <2>1, <2>2 DEF k2
<1> QED
  BY <1>1, <1>2, <1>3

LEMMA KeyReadGood ==
    ASSUME NEW p \in Peers, NEW k \in Keys, Own(p, k)
    PROVE  Own(p, KeyRead(p, k)) /\ Progress(p, k, KeyRead(p, k))
<1> DEFINE k2 == KeyRead(p, k)
<1>1. /\ \/ k2 = k
         \/ /\ k.state = (IF p = Server THEN S_START ELSE S_SENT_KEY)
            /\ k.read = 2 /\ k2.state = S_GOT_KEY
      /\ k2.una = k.una /\ k2.due = k.due
      /\ k2.acks = k.acks /\ k2.must = k.must /\ k2.defer = k.defer
      /\ k2.reneg = k.reneg /\ k2.id = k.id
      /\ k2.arrived = k.arrived /\ k2.read = k.read
  BY KeyReadIs
<1> HIDE DEF k2
<1>2. CASE k2 = k
  BY <1>2, KeyTypes DEF Progress, k2
<1>3. CASE /\ k.state = (IF p = Server THEN S_START ELSE S_SENT_KEY)
           /\ k.read = 2 /\ k2.state = S_GOT_KEY
  <2>1. Own(p, k2)
    BY <1>1, <1>3, KeyTypes DEF Own, SentBy, Enabled, Had, Packets
  <2>2. Progress(p, k, k2)
    BY <1>1, <1>3, KeyTypes DEF Progress, SentBy, Had, Enabled, Rem, AtStart, Packets
  <2> QED
    BY <2>1, <2>2 DEF k2
<1> QED
  BY <1>1, <1>2, <1>3

\* The top of a pass, and the pass as a whole.
LEMMA PassGood ==
    ASSUME NEW p \in Peers, NEW k \in Keys, Own(p, k), ~ TimesOut(Opened(p, k))
    PROVE  LET top == Top(p, k)
               bottom == Bottom(p, top)
           IN  /\ top \in Keys /\ Own(p, top) /\ Progress(p, k, top)
               /\ bottom \in Keys /\ Own(p, bottom) /\ Progress(p, k, bottom)
<1> DEFINE k1 == Opened(p, k)
           k2 == Aged(k1)
           k3 == Synced(p, k2)
           k4 == Taken(k3)
           k5 == KeySent(p, k4)
           k6 == KeyRead(p, k5)
<1>1. k1 \in Keys /\ Own(p, k1) /\ Progress(p, k, k1)
  BY OpenedIs, OpenedGood
<1> HIDE DEF k1
<1>2. k2 \in Keys /\ Own(p, k2) /\ Progress(p, k1, k2) /\ ~ TimesOut(k2)
  BY <1>1, AgedIs, AgedGood DEF k1
<1> HIDE DEF k2
<1>3. k3 \in Keys /\ Own(p, k3) /\ Progress(p, k2, k3)
  BY <1>2, SyncedIs, SyncedGood
<1> HIDE DEF k3
<1>4. k4 \in Keys /\ Own(p, k4) /\ Progress(p, k3, k4)
  BY <1>3, TakenIs, TakenGood
<1> HIDE DEF k4
<1>5. k5 \in Keys /\ Own(p, k5) /\ Progress(p, k4, k5)
  BY <1>4, KeySentIs, KeySentGood
<1> HIDE DEF k5
<1>6. k6 \in Keys /\ Own(p, k6) /\ Progress(p, k5, k6)
  BY <1>5, KeyReadIs, KeyReadGood
<1> HIDE DEF k6
<1>7. Progress(p, k, k2) /\ Progress(p, k, k3)
  BY <1>1, <1>2, <1>3, ProgressTransitive
<1>8. Progress(p, k, k4) /\ Progress(p, k, k5) /\ Progress(p, k, k6)
  BY <1>1, <1>2, <1>3, <1>4, <1>5, <1>6, <1>7, ProgressTransitive
<1>9. Top(p, k) = k3 /\ Bottom(p, k3) = k6
  BY DEF Top, Bottom, k1, k2, k3, k4, k5, k6
<1> QED
  BY <1>3, <1>6, <1>7, <1>8, <1>9

---------------------------------------------------------------------------
(* Two keys and what is between them. *)

\* What is known of the packets between two keys with one id: ch holds those on
\* their way from p, whose key is kp, to the other peer, whose key is kq.  What
\* is left in it from an older key is no soft reset.
Flow(p, kp, kq, ch) ==
    /\ \A a \in Packets : SentBy(p, kp, a) /\ a \notin kp.una => Had(kq, a)
    /\ \A a \in Packets : Had(kq, a) => SentBy(p, kp, a)
    /\ \A i \in DOMAIN ch :
          /\ IF ch[i].key_id = kp.id
             THEN /\ ch[i].packet_id # NoPacket => SentBy(p, kp, ch[i].packet_id)
                  /\ \A a \in ch[i].acks : Had(kp, a)
             ELSE ch[i].packet_id # ResetPacket
          /\ (\E a \in Packets : Had(kq, a)) => ch[i].key_id = kp.id
          /\ Had(kq, KeyPacket) => ch[i].packet_id # ResetPacket
    /\ \A i, j \in DOMAIN ch : i < j /\ ch[i].key_id = kp.id =>
          /\ ch[j].key_id = kp.id
          /\ ch[i].packet_id = KeyPacket => ch[j].packet_id # ResetPacket

\* The deadline of the handshake has come.
Doomed(key) == key.state \in S_PRE_START .. S_GOT_KEY /\ key.defer = 0

\* p does not renew its key before the other peer's could be used, and does not
\* encrypt with it before the other peer decrypts with it.
Pace(p, kp, kq) ==
    /\ kp.state >= S_ACTIVE /\ kp.reneg # Off /\ Pending(kq)
          => kp.reneg >= HandshakeWindow + Rem(kq)
    /\ kp.state >= S_ACTIVE /\ kp.defer = 0 => Enabled(Other(p), kq)

\* As long as one of the new keys may not be used, p has the retiring one, which
\* the other peer has too.
Kept(kp, kq, lp, lq) ==
    /\ Pending(kp) \/ Pending(kq) =>
          lp.state >= S_ACTIVE /\ lp.defer = 0 /\ lp.id = lq.id
    /\ Pending(kp) => lp.die >= TransitionWindow - HandshakeWindow + Rem(kp)
    /\ Pending(kq) =>
          \/ lp.die >= TransitionWindow - 2 * HandshakeWindow + Rem(kq) + 1
          \/ Doomed(kp)

Link(p, kp, kq, lp, lq, ch) ==
    /\ kp.id = kq.id
    /\ Flow(p, kp, kq, ch)
    /\ Pace(p, kp, kq)
    /\ Kept(kp, kq, lp, lq)

\* p has renewed its key, and the other peer has not noticed: out holds the
\* packets from p, in those to it.
Lead(p, kp, kq, lp, out, in) ==
    /\ kp.id = NextKeyId(kq.id)
    /\ AtStart(kp)
    /\ ~ Pending(kq)
    /\ lp.id = kq.id /\ lp.state >= S_ACTIVE /\ lp.defer = 0
    /\ lp.die >= TransitionWindow - HandshakeWindow + Rem(kp)
    /\ \A i \in DOMAIN out :
          IF out[i].key_id = kp.id
          THEN out[i].packet_id = ResetPacket /\ out[i].acks = {} /\ kp.state = S_PRE_START
          ELSE out[i].packet_id # ResetPacket
    /\ \A i, j \in DOMAIN out :
          i < j /\ out[i].key_id = kp.id => out[j].key_id = kp.id
    /\ \A i \in DOMAIN in : in[i].key_id = kq.id /\ in[i].packet_id # ResetPacket

\* A message that p may send from its key.
Carries(p, k, m) ==
    /\ m.key_id = k.id
    /\ m.packet_id # NoPacket => SentBy(p, k, m.packet_id) /\ m.packet_id \in k.una
    /\ m.packet_id = NoPacket => m.acks # {}
    /\ \A a \in m.acks : Had(k, a)

LEMMA Two ==
    ASSUME NEW p \in Peers
    PROVE  /\ Other(p) \in Peers /\ Other(p) # p /\ Other(Other(p)) = p
           /\ Peers = {p, Other(p)}
BY PeersAssumption DEF Peers, Other

LEMMA Windows ==
    /\ HandshakeWindow \in Nat /\ HandshakeWindow > 0
    /\ TransitionWindow \in Nat /\ TransitionWindow >= 2 * HandshakeWindow
BY WindowAssumption

LEMMA LameTypes ==
    ASSUME NEW l \in LameKeys
    PROVE  /\ l.state \in S_UNDEF..S_NORMAL_OP /\ l.id \in 0..MaxKeyId
           /\ l.defer \in Nat /\ l.die \in Timer /\ l.die \in Int
BY DEF LameKeys, Timer

LEMMA MessageTypes ==
    ASSUME NEW m \in Messages
    PROVE  /\ m.packet_id \in Packets \union {NoPacket} /\ m.key_id \in 0..MaxKeyId
           /\ m.acks \in SUBSET Packets
BY DEF Messages

\* What is appended to a sequence comes last.
LEMMA Appended ==
    ASSUME NEW ch \in Seq(Messages), NEW m \in Messages
    PROVE  /\ Append(ch, m) \in Seq(Messages)
           /\ \A i \in DOMAIN ch : i \in DOMAIN Append(ch, m) /\ Append(ch, m)[i] = ch[i]
           /\ \A i \in DOMAIN Append(ch, m) : i \in DOMAIN ch \/ Append(ch, m)[i] = m
           /\ \A i, j \in DOMAIN Append(ch, m) :
                 i < j => i \in DOMAIN ch
OBVIOUS

\* What is left when the first is taken.
LEMMA Tailed ==
    ASSUME NEW ch \in Seq(Messages), ch # << >>
    PROVE  /\ Head(ch) = ch[1] /\ 1 \in DOMAIN ch /\ Head(ch) \in Messages
           /\ Tail(ch) \in Seq(Messages)
           /\ \A i \in DOMAIN Tail(ch) :
                 i + 1 \in DOMAIN ch /\ 1 < i + 1 /\ Tail(ch)[i] = ch[i + 1]
           /\ \A i, j \in DOMAIN Tail(ch) : i < j => i + 1 < j + 1
OBVIOUS

\* What a pass does to what is Pending.
LEMMA ProgressPending ==
    ASSUME NEW p, NEW k \in Keys, NEW k2 \in Keys, Progress(p, k, k2)
    PROVE  /\ Pending(k2) <=> Pending(k)
           /\ Rem(k2) = Rem(k) /\ Rem(k) \in Nat
<1>1. HandshakeWindow \in Nat
  BY Windows
<1> QED
  BY <1>1, KeyTypes DEF Progress, Pending, Rem

---------------------------------------------------------------------------
(* A pass of p: its key goes from k to k2, and a message may be sent. *)

Sent(p, k, ch, ch2) ==
    \/ ch2 = ch
    \/ \E m \in Messages : Carries(p, k, m) /\ ch2 = Append(ch, m)

LEMMA FlowSent ==
    ASSUME NEW p \in Peers, NEW k \in Keys, NEW k2 \in Keys, NEW kq \in Keys,
           NEW ch \in Seq(Messages), NEW ch2, Own(p, k2), Progress(p, k, k2),
           Sent(p, k2, ch, ch2), k.id = kq.id, Flow(p, k, kq, ch)
    PROVE  Flow(p, k2, kq, ch2)
<1>1. /\ \A a \in Packets : SentBy(p, k2, a) /\ a \notin k2.una => Had(kq, a)
      /\ \A a \in Packets : Had(kq, a) => SentBy(p, k2, a)
      /\ \A a \in Packets : Had(k2, a) <=> Had(k, a)
      /\ k2.id = k.id
  BY DEF Flow, Progress
<1>2. Flow(p, k2, kq, ch)
  <2>1. ASSUME NEW i \in DOMAIN ch
        PROVE  ch[i].packet_id # NoPacket => ch[i].packet_id \in Packets
    BY MessageTypes
  <2>2. ASSUME NEW i \in DOMAIN ch
        PROVE  ch[i].acks \subseteq Packets
    BY MessageTypes
  <2>3. \A a \in Packets : SentBy(p, k, a) => SentBy(p, k2, a)
    BY DEF Progress
  <2> QED
    BY <1>1, <2>1, <2>2, <2>3 DEF Flow
<1>3. CASE ch2 = ch
  BY <1>2, <1>3
<1>4. ASSUME NEW m \in Messages, Carries(p, k2, m), ch2 = Append(ch, m)
      PROVE  Flow(p, k2, kq, ch2)
  <2>1. /\ m.key_id = k2.id
        /\ m.packet_id # NoPacket => SentBy(p, k2, m.packet_id)
        /\ \A a \in m.acks : Had(k2, a)
    BY <1>4 DEF Carries
  <2>2. m.packet_id = ResetPacket => ~ SentBy(p, k2, KeyPacket)
    <3>1. m.packet_id = ResetPacket => m.packet_id \in k2.una
      BY <1>4 DEF Carries
    <3>2. k2.state \in Int
      BY StateType, Zenon
    <3>3. ResetPacket \in k2.una => ~ (k2.state >= S_START)
      BY Zenon DEF Own
    <3> QED
      BY <3>1, <3>2, <3>3 DEF SentBy
  <2>3. Had(kq, KeyPacket) => m.packet_id # ResetPacket
    BY <1>1, <2>2 DEF Packets
  <2>4. /\ \A i \in DOMAIN ch2 : (i \in DOMAIN ch /\ ch2[i] = ch[i]) \/ ch2[i] = m
        /\ \A i, j \in DOMAIN ch2 : i < j => i \in DOMAIN ch /\ ch2[i] = ch[i]
    BY <1>4, Appended
  <2>5. \A i \in DOMAIN ch :
           ch[i].key_id = k2.id /\ ch[i].packet_id = KeyPacket => m.packet_id # ResetPacket
    BY <1>2, <2>2 DEF Flow
  <2>6. ASSUME NEW i \in DOMAIN ch2
        PROVE  /\ IF ch2[i].key_id = k2.id
                  THEN /\ ch2[i].packet_id # NoPacket => SentBy(p, k2, ch2[i].packet_id)
                       /\ \A a \in ch2[i].acks : Had(k2, a)
                  ELSE ch2[i].packet_id # ResetPacket
               /\ (\E a \in Packets : Had(kq, a)) => ch2[i].key_id = k2.id
               /\ Had(kq, KeyPacket) => ch2[i].packet_id # ResetPacket
    BY <1>2, <2>1, <2>3, <2>4 DEF Flow
  <2>7. ASSUME NEW i \in DOMAIN ch2, NEW j \in DOMAIN ch2, i < j, ch2[i].key_id = k2.id
        PROVE  /\ ch2[j].key_id = k2.id
               /\ ch2[i].packet_id = KeyPacket => ch2[j].packet_id # ResetPacket
    BY <1>2, <2>1, <2>4, <2>5, <2>7 DEF Flow
  <2> QED
    BY <1>1, <2>6, <2>7 DEF Flow
<1> QED
  BY <1>3, <1>4 DEF Sent

LEMMA LinkFrom ==
    ASSUME NEW p \in Peers, NEW k \in Keys, NEW k2 \in Keys, NEW kq \in Keys,
           NEW l \in LameKeys, NEW lq \in LameKeys,
           NEW ch \in Seq(Messages), NEW ch2, Own(p, k2), Progress(p, k, k2),
           Sent(p, k2, ch, ch2), ~ Doomed(k), Own(Other(p), kq),
           Link(p, k, kq, l, lq, ch)
    PROVE  Link(p, k2, kq, l, lq, ch2)
<1>1. k2.id = kq.id /\ k.id = kq.id
  BY DEF Link, Progress
<1>2. Flow(p, k2, kq, ch2)
  BY <1>1, FlowSent DEF Link
<1>3. /\ Pending(k2) <=> Pending(k)
      /\ Rem(k2) = Rem(k) /\ Rem(k) \in Nat
  BY ProgressPending
<1>4. Rem(kq) \in Nat /\ Rem(kq) <= HandshakeWindow
  BY Windows, KeyTypes DEF Rem, Own
<1>5. Pace(p, k2, kq)
  <2>1. CASE k.state >= S_ACTIVE
    BY <2>1 DEF Progress, Pace, Link
  <2>2. CASE ~ (k.state >= S_ACTIVE)
    <3>1. k.state < S_ACTIVE
      <4>1. k.state \in Int
        BY StateType, Zenon
      <4> QED
        BY <2>2, <4>1
    <3>2. k2.state >= S_ACTIVE =>
             k2.defer > 0 /\ (k2.reneg # Off => k2.reneg >= 2 * HandshakeWindow)
      BY <3>1 DEF Progress
    <3>3. k2.reneg # Off => k2.reneg \in Nat
      BY KeyTypes DEF Timer
    <3> QED
      BY <1>4, <3>2, <3>3, Windows DEF Pace
  <2> QED
    BY <2>1, <2>2
<1>6. Kept(k2, kq, l, lq)
  BY <1>3 DEF Kept, Link
<1> QED
  BY <1>1, <1>2, <1>5, <1>6 DEF Link

LEMMA LinkTo ==
    ASSUME NEW p \in Peers, NEW k \in Keys, NEW k2 \in Keys, NEW kq \in Keys,
           NEW l \in LameKeys, NEW lq \in LameKeys,
           NEW ch \in Seq(Messages), Progress(p, k, k2),
           Link(Other(p), kq, k, lq, l, ch)
    PROVE  Link(Other(p), kq, k2, lq, l, ch)
<1>1. kq.id = k2.id /\ Other(Other(p)) = p
  BY Two DEF Link, Progress
<1>2. Flow(Other(p), kq, k2, ch)
  <2>1. \A a \in Packets : Had(k2, a) <=> Had(k, a)
    BY DEF Progress
  <2> QED
    BY <2>1 DEF Flow, Link, Packets
<1>3. /\ Pending(k2) <=> Pending(k)
      /\ Rem(k2) = Rem(k)
  BY ProgressPending
<1>4. Pace(Other(p), kq, k2)
  BY <1>1, <1>3 DEF Pace, Link, Progress
<1>5. Kept(kq, k2, lq, l)
  BY <1>3 DEF Kept, Link
<1> QED
  BY <1>1, <1>2, <1>4, <1>5 DEF Link

\* The peer that is ahead sends nothing but its soft reset.
LEMMA LeadFrom ==
    ASSUME NEW p \in Peers, NEW k \in Keys, NEW k2 \in Keys, NEW kq \in Keys,
           NEW l \in LameKeys, NEW out \in Seq(Messages), NEW out2, NEW in,
           Progress(p, k, k2), Sent(p, k2, out, out2),
           Lead(p, k, kq, l, out, in)
    PROVE  Lead(p, k2, kq, l, out2, in)
<1>1. /\ k2.id = k.id /\ AtStart(k2) /\ AtStart(k) /\ Rem(k2) = Rem(k)
      /\ k.state = S_PRE_START => k2.state = S_PRE_START
  BY KeyTypes DEF Progress, Lead, AtStart, SentBy, Packets
<1>2. Lead(p, k2, kq, l, out, in)
  BY <1>1 DEF Lead
<1>3. ASSUME NEW m \in Messages, Carries(p, k2, m), out2 = Append(out, m)
      PROVE  Lead(p, k2, kq, l, out2, in)
  <2>1. m.acks = {}
    <3>1. m.acks \subseteq Packets
      BY MessageTypes
    <3>2. \A a \in Packets : ~ Had(k2, a)
      BY <1>1 DEF AtStart, Had, Packets
    <3> QED
      BY <1>3, <3>1, <3>2 DEF Carries
  <2>2. m.key_id = k2.id /\ m.packet_id = ResetPacket /\ k2.state = S_PRE_START
    <3>1. m.packet_id \in Packets /\ SentBy(p, k2, m.packet_id)
      BY <1>3, <2>1, MessageTypes DEF Carries
    <3> QED
      BY <1>1, <1>3, <3>1, KeyTypes DEF Carries, AtStart, SentBy, Packets
  <2>3. /\ \A i \in DOMAIN out2 : (i \in DOMAIN out /\ out2[i] = out[i]) \/ out2[i] = m
        /\ \A i, j \in DOMAIN out2 : i < j => i \in DOMAIN out /\ out2[i] = out[i]
    BY <1>3, Appended
  <2>4. ASSUME NEW i \in DOMAIN out2
        PROVE  IF out2[i].key_id = k2.id
               THEN out2[i].packet_id = ResetPacket /\ out2[i].acks = {}
                    /\ k2.state = S_PRE_START
               ELSE out2[i].packet_id # ResetPacket
    BY <1>2, <2>1, <2>2, <2>3 DEF Lead
  <2>5. ASSUME NEW i \in DOMAIN out2, NEW j \in DOMAIN out2, i < j, out2[i].key_id = k2.id
        PROVE  out2[j].key_id = k2.id
    BY <1>2, <2>2, <2>3, <2>5 DEF Lead
  <2> QED
    BY <1>2, <2>4, <2>5 DEF Lead
<1> QED
  BY <1>2, <1>3 DEF Sent

\* The one that is behind sends nothing but acknowledgements.
LEMMA LeadTo ==
    ASSUME NEW p \in Peers, NEW q \in Peers, NEW kp \in Keys, NEW k \in Keys, NEW k2 \in Keys,
           NEW l \in LameKeys, NEW out, NEW in \in Seq(Messages), NEW in2,
           Own(q, k2), Progress(q, k, k2), Sent(q, k2, in, in2),
           Lead(p, kp, k, l, out, in)
    PROVE  Lead(p, kp, k2, l, out, in2)
<1>1. k2.id = k.id /\ ~ Pending(k2)
  BY ProgressPending DEF Lead, Progress
<1>2. Lead(p, kp, k2, l, out, in)
  BY <1>1 DEF Lead
<1>3. ASSUME NEW m \in Messages, Carries(q, k2, m), in2 = Append(in, m)
      PROVE  Lead(p, kp, k2, l, out, in2)
  <2>1. m.key_id = k2.id /\ m.packet_id # ResetPacket
    <3>1. k2.una = {}
      <4>1. k2.state \in Int
        BY StateType, Zenon
      <4> QED
        BY <1>1, <4>1 DEF Pending, Own
    <3> QED
      BY <1>3, <3>1 DEF Carries
  <2>2. \A i \in DOMAIN in2 : (i \in DOMAIN in /\ in2[i] = in[i]) \/ in2[i] = m
    BY <1>3, Appended
  <2>3. \A i \in DOMAIN in2 : in2[i].key_id = k2.id /\ in2[i].packet_id # ResetPacket
    BY <1>2, <2>1, <2>2 DEF Lead
  <2> QED
    BY <1>2, <2>3 DEF Lead
<1> QED
  BY <1>2, <1>3 DEF Sent

---------------------------------------------------------------------------
(* A packet is received. *)

\* The key takes a packet that fits it.
LEMMA TakingGood ==
    ASSUME NEW p \in Peers, NEW k \in Keys, NEW m \in Messages, Own(p, k)
    PROVE  LET k2 == Taking(k, m) IN
           /\ Own(p, k2)
           /\ k2.id = k.id /\ k2.state = k.state /\ k2.defer = k.defer /\ k2.reneg = k.reneg
           /\ k2.una \subseteq k.una
           /\ \A a \in Packets : a \in k.una /\ a \notin k2.una
                                    => m.key_id = k.id /\ a \in m.acks
           /\ \A a \in Packets : Had(k, a) => Had(k2, a)
           /\ \A a \in Packets : Had(k2, a) /\ ~ Had(k, a)
                                    => m.key_id = k.id /\ a = m.packet_id
<1> DEFINE k2 == Taking(k, m)
<1>1. /\ k2 \in Keys
      /\ m.key_id # k.id => k2 = k
      /\ m.key_id = k.id =>
           /\ k2.una = k.una \ m.acks /\ k2.due = k.due \ m.acks
           /\ m.packet_id = NoPacket => k2.arrived = k.arrived /\ k2.acks = k.acks
           /\ m.packet_id # NoPacket =>
                /\ k2.arrived = IF m.packet_id < k.read THEN k.arrived
                                ELSE k.arrived \union {m.packet_id}
                /\ k2.acks = k.acks \union {m.packet_id}
      /\ k2.state = k.state /\ k2.id = k.id /\ k2.read = k.read
      /\ k2.must = k.must /\ k2.defer = k.defer /\ k2.reneg = k.reneg
  BY TakingIs
<1> HIDE DEF k2
<1>2. CASE m.key_id # k.id
  <2>1. k2 = k
    BY <1>1, <1>2
  <2> QED
    BY <2>1 DEF k2
<1>3. CASE m.key_id = k.id
  <2>1. /\ \A a \in Packets : Had(k, a) => Had(k2, a)
        /\ \A a \in Packets : Had(k2, a) /\ ~ Had(k, a) => a = m.packet_id
        /\ m.packet_id # NoPacket => Had(k2, m.packet_id)
    BY <1>1, <1>3, KeyTypes, MessageTypes DEF Had, Packets
  <2>2. \A a \in k2.acks : Had(k2, a)
    BY <1>1, <1>3, <2>1, KeyTypes, MessageTypes DEF Own
  <2>3. Own(p, k2)
    BY <1>1, <1>3, <2>2, KeyTypes DEF Own, SentBy, Enabled
  <2> QED
    BY <1>1, <1>3, <2>1, <2>3 DEF k2
<1> QED
  BY <1>2, <1>3

\* With both peers at one key, no soft reset is among the packets to a peer that
\* decrypts with it.
LEMMA NoneAsks ==
    ASSUME NEW p \in Peers, NEW kp \in Keys, NEW kq \in Keys, NEW ch \in Seq(Messages),
           Own(Other(p), kq), Flow(p, kp, kq, ch), Enabled(Other(p), kq)
    PROVE  \A i \in DOMAIN ch : ch[i].packet_id # ResetPacket /\ ch[i].key_id = kp.id
<1>1. kq.read = 2
  BY DEF Own
<1>2. Had(kq, KeyPacket) /\ KeyPacket \in Packets
  BY <1>1 DEF Had, Packets
<1> QED
  BY <1>2 DEF Flow

LEMMA LinkReceived ==
    ASSUME NEW p \in Peers, NEW kp \in Keys, NEW kq \in Keys,
           NEW lp \in LameKeys, NEW lq \in LameKeys,
           NEW ch \in Seq(Messages), ch # << >>, Own(Other(p), kq),
           Link(p, kp, kq, lp, lq, ch)
    PROVE  Link(p, kp, Taking(kq, Head(ch)), lp, lq, Tail(ch))
<1> DEFINE m == Head(ch)
           k2 == Taking(kq, m)
<1>0. m \in Messages /\ m = ch[1] /\ 1 \in DOMAIN ch
  BY Tailed
<1>1. /\ k2.id = kq.id /\ k2.state = kq.state /\ k2.defer = kq.defer /\ k2.reneg = kq.reneg
      /\ \A a \in Packets : Had(kq, a) => Had(k2, a)
      /\ \A a \in Packets : Had(k2, a) /\ ~ Had(kq, a)
                               => m.key_id = kq.id /\ a = m.packet_id
  BY <1>0, TakingGood, Two
<1>2. \A i \in DOMAIN Tail(ch) :
         i + 1 \in DOMAIN ch /\ 1 < i + 1 /\ Tail(ch)[i] = ch[i + 1]
  BY Tailed
<1>3. \A i, j \in DOMAIN Tail(ch) : i < j => i + 1 < j + 1
  BY Tailed
<1>4. kp.id = kq.id /\ Flow(p, kp, kq, ch)
  BY DEF Link
<1> DEFINE rest == Tail(ch)
<1> HIDE DEF k2, m, rest
<1>5. Flow(p, kp, k2, rest)
  <2>1. \A a \in Packets : SentBy(p, kp, a) /\ a \notin kp.una => Had(k2, a)
    BY <1>1, <1>4 DEF Flow
  <2>2. \A a \in Packets : Had(k2, a) => SentBy(p, kp, a)
    <3>1. m.packet_id \in Packets /\ m.key_id = kp.id => SentBy(p, kp, m.packet_id)
      BY <1>0, <1>4 DEF Flow, Packets
    <3> QED
      BY <1>1, <1>4, <3>1 DEF Flow
  <2>3. m.key_id = kp.id => \A i \in DOMAIN rest : rest[i].key_id = kp.id
    BY <1>0, <1>2, <1>4 DEF Flow, rest
  <2>4. m.key_id = kp.id /\ m.packet_id = KeyPacket =>
           \A i \in DOMAIN rest : rest[i].packet_id # ResetPacket
    BY <1>0, <1>2, <1>4 DEF Flow, rest
  <2>5. (\E a \in Packets : Had(k2, a)) => \A i \in DOMAIN rest : rest[i].key_id = kp.id
    BY <1>1, <1>2, <1>4, <2>3 DEF Flow, rest
  <2>6. Had(k2, KeyPacket) => \A i \in DOMAIN rest : rest[i].packet_id # ResetPacket
    BY <1>1, <1>2, <1>4, <2>4 DEF Flow, rest, Packets
  <2>7. \A i \in DOMAIN rest :
           IF rest[i].key_id = kp.id
           THEN /\ rest[i].packet_id # NoPacket => SentBy(p, kp, rest[i].packet_id)
                /\ \A a \in rest[i].acks : Had(kp, a)
           ELSE rest[i].packet_id # ResetPacket
    BY <1>2, <1>4 DEF Flow, rest
  <2>8. \A i, j \in DOMAIN rest : i < j /\ rest[i].key_id = kp.id =>
          /\ rest[j].key_id = kp.id
          /\ rest[i].packet_id = KeyPacket => rest[j].packet_id # ResetPacket
    BY <1>2, <1>3, <1>4 DEF Flow, rest
  <2> QED
    BY <2>1, <2>2, <2>5, <2>6, <2>7, <2>8 DEF Flow
<1>6. Pace(p, kp, k2) /\ Kept(kp, k2, lp, lq)
  BY <1>1 DEF Link, Pace, Kept, Pending, Rem, Enabled, Doomed
<1> QED
  BY <1>1, <1>4, <1>5, <1>6 DEF Link, k2, m, rest

\* The receiver's own packets: what it learns is acknowledged has been received.
LEMMA LinkReceiver ==
    ASSUME NEW p \in Peers, NEW kp \in Keys, NEW kq \in Keys,
           NEW lp \in LameKeys, NEW lq \in LameKeys,
           NEW ch \in Seq(Messages), NEW m \in Messages, Own(p, kp), kp.id = kq.id,
           m.key_id = kq.id => \A a \in m.acks : Had(kq, a),
           Link(p, kp, kq, lp, lq, ch)
    PROVE  Link(p, Taking(kp, m), kq, lp, lq, ch)
<1> DEFINE k2 == Taking(kp, m)
<1>1. /\ k2.id = kp.id /\ k2.state = kp.state /\ k2.defer = kp.defer /\ k2.reneg = kp.reneg
      /\ \A a \in Packets : a \in kp.una /\ a \notin k2.una
                               => m.key_id = kp.id /\ a \in m.acks
      /\ \A a \in Packets : Had(kp, a) => Had(k2, a)
  BY TakingGood
<1>2. \A a : SentBy(p, k2, a) <=> SentBy(p, kp, a)
  BY <1>1 DEF SentBy
<1> HIDE DEF k2
<1>3. Flow(p, k2, kq, ch)
  <2>1. \A a \in Packets : SentBy(p, k2, a) /\ a \notin k2.una => Had(kq, a)
    BY <1>1, <1>2 DEF Link, Flow
  <2>2. \A i \in DOMAIN ch : ch[i].key_id = k2.id =>
           \A a \in ch[i].acks : Had(k2, a)
    <3>1. ASSUME NEW i \in DOMAIN ch, ch[i].key_id = k2.id, NEW a \in ch[i].acks
          PROVE  Had(k2, a)
      <4>1. Had(kp, a)
        BY <1>1, <3>1 DEF Link, Flow
      <4>2. a \in Packets
        BY <3>1, MessageTypes
      <4> QED
        BY <1>1, <4>1, <4>2
    <3> QED
      BY <3>1
  <2> QED
    BY <1>1, <1>2, <2>1, <2>2 DEF Link, Flow
<1>4. Pace(p, k2, kq) /\ Kept(k2, kq, lp, lq)
  BY <1>1 DEF Link, Pace, Kept, Pending, Rem, Enabled, Doomed
<1> QED
  BY <1>1, <1>3, <1>4 DEF Link, k2

\* A peer that is ahead ignores what comes from the other one.
LEMMA LeadIgnores ==
    ASSUME NEW p \in Peers, NEW kp \in Keys, NEW kq \in Keys, NEW lp \in LameKeys,
           NEW out, NEW in \in Seq(Messages), in # << >>,
           Lead(p, kp, kq, lp, out, in)
    PROVE  /\ Head(in).packet_id # ResetPacket
           /\ Taking(kp, Head(in)) = kp
           /\ Lead(p, kp, kq, lp, out, Tail(in))
<1>1. /\ Head(in) = in[1] /\ 1 \in DOMAIN in
      /\ \A i \in DOMAIN Tail(in) : i + 1 \in DOMAIN in /\ Tail(in)[i] = in[i + 1]
  BY Tailed
<1>2. NextKeyId(kq.id) # kq.id
  BY NextKeyIdType, KeyTypes
<1>3. Head(in).key_id # kp.id /\ Head(in).packet_id # ResetPacket
  BY <1>1, <1>2 DEF Lead
<1>4. Lead(p, kp, kq, lp, out, Tail(in))
  BY <1>1 DEF Lead
<1> QED
  BY <1>3, <1>4 DEF Taking

\* The one that is behind takes acknowledgements and old packets.
LEMMA LeadReceived ==
    ASSUME NEW p \in Peers, NEW kp \in Keys, NEW kq \in Keys, NEW lp \in LameKeys,
           NEW out \in Seq(Messages), out # << >>, NEW in,
           Lead(p, kp, kq, lp, out, in), Head(out).packet_id # ResetPacket,
           Own(Other(p), kq)
    PROVE  Lead(p, kp, Taking(kq, Head(out)), lp, Tail(out), in)
<1> DEFINE k2 == Taking(kq, Head(out))
           rest == Tail(out)
<1>1. /\ \A i \in DOMAIN rest : i + 1 \in DOMAIN out /\ rest[i] = out[i + 1]
      /\ \A i, j \in DOMAIN rest : i < j => i + 1 < j + 1
  BY Tailed
<1>2. k2.id = kq.id /\ k2.state = kq.state /\ k2.defer = kq.defer
  BY TakingGood, Tailed, Two
<1> HIDE DEF k2, rest
<1>3. ~ Pending(k2)
  BY <1>2 DEF Lead, Pending
<1>4. /\ \A i \in DOMAIN rest :
          IF rest[i].key_id = kp.id
          THEN rest[i].packet_id = ResetPacket /\ rest[i].acks = {} /\ kp.state = S_PRE_START
          ELSE rest[i].packet_id # ResetPacket
      /\ \A i, j \in DOMAIN rest :
          i < j /\ rest[i].key_id = kp.id => rest[j].key_id = kp.id
  BY <1>1 DEF Lead
<1> QED
  BY <1>2, <1>3, <1>4 DEF Lead, k2, rest

---------------------------------------------------------------------------
(* A soft reset. *)

\* A key that has just been made, for a peer that asked for one or by its own.
Fresh(key) ==
    /\ key.state = S_INITIAL /\ key.una = {} /\ key.due = {} /\ key.read = 0
    /\ key.acks \subseteq {ResetPacket} /\ key.arrived = key.acks
    /\ key.must = Off /\ key.defer = 0

LEMMA FreshGood ==
    ASSUME NEW p \in Peers, NEW key \in Keys, Fresh(key)
    PROVE  Own(p, key) /\ Pending(key) /\ Rem(key) = HandshakeWindow
BY Windows DEF Fresh, Own, Had, Enabled, Pending, Rem

LEMMA NewIsFresh ==
    ASSUME NEW id \in 0..MaxKeyId
    PROVE  /\ KeyStateInit(id) \in Keys /\ KeyStateInit(id).id = id
           /\ Fresh(KeyStateInit(id))
           /\ KeyStateInit(id).arrived = {}
BY KeyStateInitType DEF KeyStateInit, Fresh

LEMMA AskedIsFresh ==
    ASSUME NEW id \in 0..MaxKeyId, NEW m \in Messages, m.packet_id = ResetPacket,
           m.key_id = id
    PROVE  LET key == Taking(KeyStateInit(id), m) IN
           /\ key \in Keys /\ key.id = id /\ Fresh(key)
           /\ key.arrived = {ResetPacket}
<1> DEFINE new == KeyStateInit(id)
           key == Taking(new, m)
<1>1. /\ new \in Keys /\ new.id = id /\ new.state = S_INITIAL /\ new.una = {}
      /\ new.due = {} /\ new.read = 0 /\ new.acks = {} /\ new.arrived = {}
      /\ new.must = Off /\ new.defer = 0
  BY NewIsFresh DEF KeyStateInit
<1> HIDE DEF new
<1>2. /\ key \in Keys
      /\ key.una = new.una \ m.acks /\ key.due = new.due \ m.acks
      /\ key.arrived = IF m.packet_id < new.read THEN new.arrived
                       ELSE new.arrived \union {m.packet_id}
      /\ key.acks = new.acks \union {m.packet_id}
      /\ key.state = new.state /\ key.id = new.id /\ key.read = new.read
      /\ key.must = new.must /\ key.defer = new.defer
  <2>1. m.key_id = new.id /\ m.packet_id # NoPacket
    BY <1>1
  <2> QED
    BY <1>1, <2>1, TakingIs
<1> HIDE DEF key
<1>3. /\ key.arrived = {ResetPacket} /\ key.acks = {ResetPacket}
      /\ key.una = {} /\ key.due = {}
  BY <1>1, <1>2
<1> QED
  BY <1>1, <1>2, <1>3 DEF Fresh, new, key

LEMMA RetiringIs ==
    ASSUME NEW key \in Keys
    PROVE  /\ Retiring(key).state = key.state /\ Retiring(key).id = key.id
           /\ Retiring(key).defer = key.defer /\ Retiring(key).die = TransitionWindow
BY DEF Retiring

\* A key is renewed only when neither peer's is new, and the other peer then has
\* nothing on its way that asks for a new key.
LEMMA Parted ==
    ASSUME NEW p \in Peers, NEW kp \in Keys, NEW kq \in Keys, NEW k2 \in Keys,
           NEW lp \in LameKeys, NEW lq \in LameKeys,
           NEW out \in Seq(Messages), NEW in \in Seq(Messages),
           Own(p, kp), RenegotiationDue(kp), Own(Other(p), kq),
           Link(p, kp, kq, lp, lq, out), Link(Other(p), kq, kp, lq, lp, in),
           Fresh(k2), k2.arrived = {}, k2.id = NextKeyId(kp.id)
    PROVE  Lead(p, k2, kq, Retiring(kp), out, in)
<1>1. kp.state >= S_ACTIVE /\ kp.reneg = 0 /\ kp.defer = 0
  BY Windows, KeyTypes DEF RenegotiationDue, Own
<1>2. ~ Pending(kq)
  BY <1>1, Windows, KeyTypes DEF Link, Pace, Rem, Pending
<1>3. Enabled(p, kp) /\ Enabled(Other(p), kq)
  <2>1. kq.state \in Int /\ kp.state \in Int
    BY StateType, Zenon
  <2>2. kq.state >= S_ACTIVE
    BY <1>2, <2>1 DEF Pending
  <2>3. /\ kp.state >= S_GOT_KEY /\ kp.state >= S_GOT_KEY - 1
        /\ kq.state >= S_GOT_KEY /\ kq.state >= S_GOT_KEY - 1
    BY <1>1, <2>1, <2>2
  <2> QED
    BY <2>3, Zenon DEF Enabled
<1>4. \A i \in DOMAIN out : out[i].packet_id # ResetPacket /\ out[i].key_id = kp.id
  BY <1>3, NoneAsks DEF Link
<1>5. \A i \in DOMAIN in : in[i].packet_id # ResetPacket /\ in[i].key_id = kq.id
  BY <1>3, NoneAsks, Two DEF Link
<1>6. kp.id = kq.id /\ k2.id # kp.id
  BY NextKeyIdType, KeyTypes DEF Link
<1>7. AtStart(k2) /\ Rem(k2) = HandshakeWindow
  <2>1. Rem(k2) = HandshakeWindow
    BY FreshGood
  <2>2. k2.state = S_INITIAL /\ k2.read = 0 /\ k2.arrived = {}
    BY DEF Fresh
  <2> QED
    BY <2>1, <2>2 DEF AtStart
<1> QED
  BY <1>1, <1>2, <1>4, <1>5, <1>6, <1>7, RetiringIs, Windows DEF Lead

\* The peer that was behind follows, by its own or when it is asked to.
LEMMA Joined ==
    ASSUME NEW p \in Peers, NEW kp \in Keys, NEW kq \in Keys, NEW k2 \in Keys,
           NEW lp \in LameKeys, NEW out \in Seq(Messages), NEW rest \in Seq(Messages),
           NEW in \in Seq(Messages), Own(p, kp),
           Lead(p, kp, kq, lp, out, in),
           Fresh(k2), k2.id = NextKeyId(kq.id),
           \/ rest = out /\ k2.arrived = {}
           \/ out # << >> /\ rest = Tail(out) /\ Head(out).key_id = kp.id
    PROVE  /\ Link(p, kp, k2, lp, Retiring(kq), rest)
           /\ Link(Other(p), k2, kp, Retiring(kq), lp, in)
<1>1. /\ kp.id = k2.id /\ kp.id # kq.id
      /\ kp.state \in {S_INITIAL, S_PRE_START} /\ kp.read = 0 /\ kp.arrived = {}
      /\ kp.state = S_PRE_START => ResetPacket \in kp.una
      /\ kq.state >= S_ACTIVE /\ kq.defer = 0
  <2>1. kp.id = k2.id /\ kp.id # kq.id
    BY NextKeyIdType, KeyTypes DEF Lead
  <2>2. AtStart(kp) /\ ~ Pending(kq)
    BY DEF Lead
  <2>3. kq.state >= S_ACTIVE /\ kq.defer = 0
    <3>1. kq.state \in Int /\ kq.defer \in Nat
      BY StateType, Zenon
    <3> QED
      BY <2>2, <3>1 DEF Pending
  <2> QED
    BY <2>1, <2>2, <2>3 DEF AtStart
<1>2. \A a \in Packets : ~ Had(kp, a)
  BY <1>1 DEF Had, Packets
<1>3. \A a \in Packets : ~ SentBy(Other(p), k2, a)
  BY DEF Fresh, SentBy, Packets
<1>4. \A a \in Packets : SentBy(p, kp, a) => a \in kp.una
  BY <1>1 DEF SentBy, Packets
<1>5. \A a \in Packets : Had(k2, a) => a = ResetPacket /\ k2.arrived # {}
  BY DEF Fresh, Had, Packets
<1>6. Rem(kp) \in Nat /\ Rem(kp) <= HandshakeWindow /\ (Rem(kp) = 0 => Doomed(kp))
  BY <1>1, Windows, KeyTypes DEF Rem, Own, Doomed
<1>7. /\ \A i \in DOMAIN rest :
            /\ rest[i].key_id = kp.id =>
                  rest[i].packet_id = ResetPacket /\ rest[i].acks = {}
                  /\ kp.state = S_PRE_START
            /\ rest[i].key_id # kp.id => rest[i].packet_id # ResetPacket
      /\ \A i, j \in DOMAIN rest :
          i < j /\ rest[i].key_id = kp.id => rest[j].key_id = kp.id
      /\ k2.arrived # {} =>
            kp.state = S_PRE_START /\ \A i \in DOMAIN rest : rest[i].key_id = kp.id
  <2>1. CASE rest = out /\ k2.arrived = {}
    BY <2>1 DEF Lead
  <2>2. CASE out # << >> /\ rest = Tail(out) /\ Head(out).key_id = kp.id
    <3>1. /\ Head(out) = out[1] /\ 1 \in DOMAIN out
          /\ \A i \in DOMAIN rest : i + 1 \in DOMAIN out /\ 1 < i + 1 /\ rest[i] = out[i + 1]
          /\ \A i, j \in DOMAIN rest : i < j => i + 1 < j + 1
      BY <2>2, Tailed
    <3>2. kp.state = S_PRE_START /\ \A i \in DOMAIN rest : rest[i].key_id = kp.id
      <4>1. out[1].key_id = kp.id
        BY <2>2, <3>1
      <4>2. kp.state = S_PRE_START
        BY <3>1, <4>1 DEF Lead
      <4>3. \A j \in DOMAIN out : 1 < j => out[j].key_id = kp.id
        BY <3>1, <4>1 DEF Lead
      <4> QED
        BY <3>1, <4>2, <4>3
    <3>3. \A i \in DOMAIN out :
             /\ out[i].key_id = kp.id => out[i].packet_id = ResetPacket /\ out[i].acks = {}
             /\ out[i].key_id # kp.id => out[i].packet_id # ResetPacket
      BY DEF Lead
    <3> QED
      BY <3>1, <3>2, <3>3
  <2> QED
    BY <2>1, <2>2
<1>8. Flow(p, kp, k2, rest)
  <2>1. \A a \in Packets : Had(k2, a) => SentBy(p, kp, a)
    BY <1>5, <1>7 DEF SentBy
  <2>2. ~ Had(k2, KeyPacket)
    BY <1>5 DEF Packets
  <2>3. (\E a \in Packets : Had(k2, a)) => \A i \in DOMAIN rest : rest[i].key_id = kp.id
    BY <1>5, <1>7
  <2>4. kp.state = S_PRE_START => SentBy(p, kp, ResetPacket)
    BY DEF SentBy
  <2> QED
    BY <1>4, <1>7, <2>1, <2>2, <2>3, <2>4 DEF Flow
<1>9. Flow(Other(p), k2, kp, in)
  <2>1. ~ Had(kp, KeyPacket)
    BY <1>2 DEF Packets
  <2>2. \A i \in DOMAIN in : in[i].key_id # k2.id /\ in[i].packet_id # ResetPacket
    BY <1>1 DEF Lead
  <2> QED
    BY <1>2, <1>3, <2>1, <2>2 DEF Flow
<1>10. Pace(p, kp, k2) /\ Pace(Other(p), k2, kp)
  BY <1>1 DEF Pace, Fresh
<1>11. /\ Retiring(kq).state >= S_ACTIVE /\ Retiring(kq).defer = 0
       /\ Retiring(kq).id = kq.id /\ Retiring(kq).die = TransitionWindow
       /\ lp.id = kq.id /\ lp.state >= S_ACTIVE /\ lp.defer = 0
       /\ lp.die >= TransitionWindow - HandshakeWindow + Rem(kp)
       /\ lp.die \in Int
  BY <1>1, RetiringIs, LameTypes DEF Lead
<1>12. Rem(k2) = HandshakeWindow
  BY FreshGood
<1>13. Kept(kp, k2, lp, Retiring(kq))
  BY <1>6, <1>11, <1>12, Windows DEF Kept
<1>14. Kept(k2, kp, Retiring(kq), lp)
  BY <1>6, <1>11, <1>12, Windows DEF Kept
<1> QED
  BY <1>1, <1>8, <1>9, <1>10, <1>13, <1>14 DEF Link

---------------------------------------------------------------------------
(* Time passes. *)

\* A key with which its owner has nothing to do.
Quiet(p, key) ==
    /\ ~ TimesOut(Opened(p, key))
    /\ Bottom(p, Top(p, key)) = key
    /\ key.due = {}

LaterLame(l) == [l EXCEPT !.defer = Less(@), !.die = Less(@)]

LEMMA LaterLameIs ==
    ASSUME NEW l \in LameKeys
    PROVE  /\ LaterLame(l).state = l.state /\ LaterLame(l).id = l.id
           /\ LaterLame(l).defer = Less(l.defer) /\ LaterLame(l).die = Less(l.die)
BY DEF LaterLame, LameKeys

\* A key of the client with both packets of the other peer, one of them not read.
LEMMA ClientReads ==
    ASSUME NEW k \in Keys, k.state = S_SENT_KEY, \A a \in Packets : Had(k, a),
           Quiet(Client, k)
    PROVE  FALSE
<1>0. Client \in Peers /\ Client # Server
  BY PeersAssumption DEF Peers
<1>1. Opened(Client, k) = k
  BY <1>0, OpenedIs
<1>2. Aged(k) = k
  BY <1>1, AgedIs DEF Quiet, TimesOut
<1>3. Synced(Client, k) = k
  BY <1>0 DEF Synced, LastOfHandshake
<1>4. Bottom(Client, k) = k
  BY <1>1, <1>2, <1>3 DEF Quiet, Top
<1> DEFINE k1 == Taken(k)
           k2 == KeySent(Client, k1)
           k3 == KeyRead(Client, k2)
<1>5. k3 = k
  BY <1>4 DEF Bottom
<1>6. /\ k1 \in Keys /\ k1.state = k.state
      /\ k.read \notin k.arrived => k1 = k
      /\ k.read \in k.arrived => k1.read = k.read + 1
  BY TakenIs
<1> HIDE DEF k1
<1>7. k2 = k1
  BY <1>0, <1>6 DEF KeySent
<1> HIDE DEF k2
<1>8. k3.read = k1.read
  BY <1>0, <1>6, <1>7, KeyReadIs
<1>9. k.read \notin k.arrived
  BY <1>5, <1>6, <1>8, KeyTypes
<1>10. k.read = 2
  <2>1. Had(k, ResetPacket) /\ Had(k, KeyPacket)
    BY DEF Packets
  <2> QED
    BY <1>9, <2>1, KeyTypes DEF Had
<1>11. k3 = [k EXCEPT !.state = S_GOT_KEY]
  BY <1>0, <1>6, <1>7, <1>9, <1>10 DEF KeyRead
<1>12. k3.state = S_GOT_KEY
  BY <1>11 DEF Keys
<1> QED
  BY <1>5, <1>12

\* A new key opens at once.
LEMMA OpensAtOnce ==
    ASSUME NEW p \in Peers, NEW k \in Keys, k.state = S_INITIAL, Quiet(p, k)
    PROVE  FALSE
<1> DEFINE k1 == Opened(p, k)
           k2 == Aged(k1)
           k3 == Synced(p, k2)
           k4 == Taken(k3)
           k5 == KeySent(p, k4)
           k6 == KeyRead(p, k5)
<1>1. k1 \in Keys /\ ResetPacket \in k1.due
  BY OpenedIs
<1> HIDE DEF k1
<1>2. k2 \in Keys /\ ResetPacket \in k2.due
  BY <1>1, AgedIs
<1> HIDE DEF k2
<1>3. k3 \in Keys /\ ResetPacket \in k3.due
  BY <1>2, SyncedIs
<1> HIDE DEF k3
<1>4. k4 \in Keys /\ ResetPacket \in k4.due
  BY <1>3, TakenIs
<1> HIDE DEF k4
<1>5. k5 \in Keys /\ ResetPacket \in k5.due
  BY <1>4, KeySentIs
<1> HIDE DEF k5
<1>6. ResetPacket \in k6.due
  BY <1>5, KeyReadIs
<1> HIDE DEF k6
<1>7. k6 = k
  BY DEF Quiet, Bottom, Top, k1, k2, k3, k4, k5, k6
<1> QED
  BY <1>6, <1>7 DEF Quiet

LEMMA QuietIs ==
    ASSUME NEW p \in Peers, NEW k \in Keys, Own(p, k), Quiet(p, k)
    PROVE  /\ k.state # S_INITIAL
           /\ Rem(k) = k.defer
           /\ Pending(k) => k.defer > 0
           /\ ~ Doomed(k)
           /\ SentBy(p, k, KeyPacket) /\ (\A a \in Packets : Had(k, a)) => Enabled(p, k)
<1>1. k.state # S_INITIAL
  BY OpensAtOnce
<1>2. Opened(p, k) = k
  BY <1>1, OpenedIs
<1>3. ~ Doomed(k)
  BY <1>2, KeyTypes DEF Quiet, TimesOut, Own, Doomed
<1>4. Pending(k) => k.defer > 0
  BY <1>1, <1>3, KeyTypes DEF Pending, Doomed, Own
<1>5. ASSUME SentBy(p, k, KeyPacket), \A a \in Packets : Had(k, a)
      PROVE  Enabled(p, k)
  <2>1. CASE p = Server
    BY <1>5, <2>1, KeyTypes DEF SentBy, Enabled
  <2>2. CASE p = Client /\ p # Server
    <3>1. k.state # S_SENT_KEY
      BY <1>5, <2>2, ClientReads
    <3> QED
      BY <1>5, <2>2, <3>1, KeyTypes DEF SentBy, Enabled
  <2> QED
    BY <2>1, <2>2 DEF Peers
<1> QED
  BY <1>1, <1>3, <1>4, <1>5 DEF Rem

LEMMA LaterGood ==
    ASSUME NEW p \in Peers, NEW k \in Keys, Own(p, k), Quiet(p, k)
    PROVE  /\ Own(p, Older(k))
           /\ \A a : SentBy(p, Older(k), a) <=> SentBy(p, k, a)
           /\ \A a : Had(Older(k), a) <=> Had(k, a)
           /\ Pending(Older(k)) => Pending(k) /\ Rem(Older(k)) = Rem(k) - 1 /\ Rem(k) > 0
           /\ Enabled(p, Older(k)) <=> Enabled(p, k)
<1> DEFINE k2 == Older(k)
<1>1. /\ k2 \in Keys
      /\ k2.due \subseteq k.una /\ k2.must = Less(k.must)
      /\ k2.defer = Less(k.defer) /\ k2.reneg = Less(k.reneg)
      /\ k2.state = k.state /\ k2.id = k.id
      /\ k2.una = k.una /\ k2.acks = k.acks
      /\ k2.arrived = k.arrived /\ k2.read = k.read
  BY OlderIs
<1> HIDE DEF k2
<1>2. k.state # S_INITIAL /\ Rem(k) = k.defer /\ (Pending(k) => k.defer > 0)
  BY QuietIs
<1>3. k2.must \in Int /\ k2.reneg \in Int /\ k.must \in Int /\ k.reneg \in Int
  BY <1>1, KeyTypes DEF Timer
<1>4. Own(p, k2)
  BY <1>1, <1>3, Windows, KeyTypes DEF Own, SentBy, Had, Enabled, Less
<1>5. Pending(k2) => Pending(k) /\ Rem(k2) = Rem(k) - 1 /\ Rem(k) > 0
  BY <1>1, <1>2, KeyTypes DEF Pending, Rem, Less
<1> QED
  BY <1>1, <1>4, <1>5 DEF SentBy, Had, Enabled, k2

\* Data is encrypted with a new key for the first time when the other peer has
\* been ready for it since before time passed.
LEMMA Ready ==
    ASSUME NEW p \in Peers, NEW kp \in Keys, NEW kq \in Keys, NEW out, NEW in,
           Own(p, kp), Own(Other(p), kq), Quiet(Other(p), kq), kp.state >= S_ACTIVE,
           Flow(p, kp, kq, out), Flow(Other(p), kq, kp, in)
    PROVE  Enabled(Other(p), kq)
<1>1. kp.una = {} /\ kp.read = 2
  BY KeyTypes DEF Own, Enabled
<1>2. \A a \in Packets : SentBy(p, kp, a)
  BY KeyTypes DEF SentBy, Packets
<1>3. \A a \in Packets : Had(kq, a)
  BY <1>1, <1>2 DEF Flow
<1>4. Had(kp, KeyPacket) /\ KeyPacket \in Packets
  BY <1>1 DEF Had, Packets
<1>5. SentBy(Other(p), kq, KeyPacket)
  BY <1>4 DEF Flow
<1> QED
  BY <1>3, <1>5, QuietIs, Two

LEMMA LaterLink ==
    ASSUME NEW p \in Peers, NEW kp \in Keys, NEW kq \in Keys,
           NEW lp \in LameKeys, NEW lq \in LameKeys, NEW out, NEW in,
           Own(p, kp), Own(Other(p), kq), Quiet(p, kp), Quiet(Other(p), kq),
           Link(p, kp, kq, lp, lq, out), Flow(Other(p), kq, kp, in)
    PROVE  Link(p, Older(kp), Older(kq), LaterLame(lp), LaterLame(lq), out)
<1> DEFINE kp2 == Older(kp)
           kq2 == Older(kq)
           lp2 == LaterLame(lp)
           lq2 == LaterLame(lq)
<1>1. /\ kp2 \in Keys /\ kq2 \in Keys
      /\ kp2.id = kp.id /\ kp2.state = kp.state /\ kp2.una = kp.una
      /\ kp2.reneg = Less(kp.reneg) /\ kp2.defer = Less(kp.defer)
      /\ kq2.id = kq.id /\ kq2.state = kq.state
  BY OlderIs
<1>2. /\ \A a : SentBy(p, kp2, a) <=> SentBy(p, kp, a)
      /\ \A a : Had(kp2, a) <=> Had(kp, a)
      /\ \A a : Had(kq2, a) <=> Had(kq, a)
      /\ Pending(kp2) => Pending(kp) /\ Rem(kp2) = Rem(kp) - 1 /\ Rem(kp) > 0
      /\ Pending(kq2) => Pending(kq) /\ Rem(kq2) = Rem(kq) - 1 /\ Rem(kq) > 0
      /\ Enabled(Other(p), kq2) <=> Enabled(Other(p), kq)
      /\ ~ Doomed(kp)
  BY LaterGood, QuietIs, Two
<1>3. /\ lp2.state = lp.state /\ lp2.id = lp.id /\ lq2.id = lq.id
      /\ lp2.defer = Less(lp.defer) /\ lp2.die = Less(lp.die)
  BY LaterLameIs
<1>4. kp.reneg \in Int /\ lp.die \in Int /\ lp.defer \in Nat
  BY KeyTypes, LameTypes DEF Timer
<1>5. kp.state >= S_ACTIVE => Enabled(Other(p), kq)
  BY Ready DEF Link
<1>6. Rem(kp) \in Nat /\ Rem(kq) \in Nat
  BY Windows, KeyTypes DEF Rem
<1> HIDE DEF kp2, kq2, lp2, lq2
<1>7. Flow(p, kp2, kq2, out)
  BY <1>1, <1>2 DEF Flow, Link
<1>8. Pace(p, kp2, kq2)
  <2>1. kp2.state >= S_ACTIVE /\ kp2.reneg # Off /\ Pending(kq2)
          => kp2.reneg >= HandshakeWindow + Rem(kq2)
    <3>1. SUFFICES ASSUME kp2.state >= S_ACTIVE, kp2.reneg # Off, Pending(kq2)
                   PROVE  kp2.reneg >= HandshakeWindow + Rem(kq2)
      OBVIOUS
    <3>2. kp.reneg # Off
      BY <1>1, <3>1 DEF Less
    <3>3. kp.reneg >= HandshakeWindow + Rem(kq) /\ Rem(kq2) = Rem(kq) - 1 /\ Rem(kq) > 0
      BY <1>1, <1>2, <3>1, <3>2 DEF Link, Pace
    <3> QED
      BY <1>1, <1>4, <1>6, <3>3, Windows DEF Less
  <2> QED
    BY <1>1, <1>2, <1>5, <2>1 DEF Pace
<1>9. Kept(kp2, kq2, lp2, lq2)
  <2>1. Pending(kp2) \/ Pending(kq2) =>
          lp2.state >= S_ACTIVE /\ lp2.defer = 0 /\ lp2.id = lq2.id
    BY <1>2, <1>3 DEF Link, Kept, Less
  <2>2. Pending(kp2) => lp2.die >= TransitionWindow - HandshakeWindow + Rem(kp2)
    BY <1>2, <1>3, <1>4, <1>6, Windows DEF Link, Kept, Less
  <2>3. Pending(kq2) => lp2.die >= TransitionWindow - 2 * HandshakeWindow + Rem(kq2) + 1
    BY <1>2, <1>3, <1>4, <1>6, Windows DEF Link, Kept, Less
  <2> QED
    BY <2>1, <2>2, <2>3 DEF Kept
<1> QED
  BY <1>1, <1>7, <1>8, <1>9 DEF Link, kp2, kq2, lp2, lq2

LEMMA LaterLead ==
    ASSUME NEW p \in Peers, NEW kp \in Keys, NEW kq \in Keys,
           NEW lp \in LameKeys, NEW out, NEW in,
           Own(p, kp), Own(Other(p), kq), Quiet(p, kp), Quiet(Other(p), kq),
           Lead(p, kp, kq, lp, out, in)
    PROVE  Lead(p, Older(kp), Older(kq), LaterLame(lp), out, in)
<1> DEFINE kp2 == Older(kp)
           kq2 == Older(kq)
           lp2 == LaterLame(lp)
<1>1. /\ kp2 \in Keys /\ kq2 \in Keys
      /\ kp2.id = kp.id /\ kp2.state = kp.state /\ kp2.una = kp.una
      /\ kp2.read = kp.read /\ kp2.arrived = kp.arrived
      /\ kq2.id = kq.id
  BY OlderIs
<1>2. /\ Pending(kp2) => Pending(kp) /\ Rem(kp2) = Rem(kp) - 1 /\ Rem(kp) > 0
      /\ Pending(kq2) => Pending(kq)
  BY LaterGood, Two
<1>3. /\ lp2.state = lp.state /\ lp2.id = lp.id
      /\ lp2.defer = Less(lp.defer) /\ lp2.die = Less(lp.die)
  BY LaterLameIs
<1>4. lp.die \in Int /\ lp.defer \in Nat
  BY LameTypes
<1>6. Rem(kp) \in Nat
  BY Windows, KeyTypes DEF Rem
<1> HIDE DEF kp2, kq2, lp2
<1>7. AtStart(kp2) /\ Pending(kp2)
  BY <1>1 DEF AtStart, Lead, Pending
<1>8. lp2.die >= TransitionWindow - HandshakeWindow + Rem(kp2)
  BY <1>2, <1>3, <1>4, <1>6, <1>7, Windows DEF Lead, Less
<1> QED
  BY <1>1, <1>2, <1>3, <1>7, <1>8 DEF Lead, Less, kp2, kq2, lp2

---------------------------------------------------------------------------
(* A session that has failed does not come back. *)

\* The key of a session that has failed has no deadline.
Over(key) == key.state = S_ERROR => key.must = Off
Ended == \A p \in Peers : Over(primary[p])

LEMMA PassOver ==
    ASSUME NEW p \in Peers, NEW k \in Keys, Over(k)
    PROVE  LET top == Top(p, k)
               bottom == Bottom(p, top)
           IN  /\ Over(top) /\ (top.state = S_ERROR <=> k.state = S_ERROR)
               /\ Over(bottom) /\ (bottom.state = S_ERROR <=> k.state = S_ERROR)
<1> DEFINE k1 == Opened(p, k)
           k2 == Aged(k1)
           k3 == Synced(p, k2)
           k4 == Taken(k3)
           k5 == KeySent(p, k4)
           k6 == KeyRead(p, k5)
<1>1. k1 \in Keys /\ Over(k1) /\ (k1.state = S_ERROR <=> k.state = S_ERROR)
  BY OpenedIs DEF Over
<1> HIDE DEF k1
<1>2. k2 \in Keys /\ Over(k2) /\ (k2.state = S_ERROR <=> k.state = S_ERROR)
  BY <1>1, AgedIs DEF Over
<1> HIDE DEF k2
<1>3. k3 \in Keys /\ Over(k3) /\ (k3.state = S_ERROR <=> k.state = S_ERROR)
  BY <1>2, SyncedIs DEF Over, LastOfHandshake
<1> HIDE DEF k3
<1>4. k4 \in Keys /\ Over(k4) /\ (k4.state = S_ERROR <=> k.state = S_ERROR)
  BY <1>3, TakenIs DEF Over
<1> HIDE DEF k4
<1>5. k5 \in Keys /\ Over(k5) /\ (k5.state = S_ERROR <=> k.state = S_ERROR)
  BY <1>4, KeySentIs DEF Over
<1> HIDE DEF k5
<1>6. k6 \in Keys /\ Over(k6) /\ (k6.state = S_ERROR <=> k.state = S_ERROR)
  BY <1>5, KeyReadIs DEF Over
<1> HIDE DEF k6
<1>7. Top(p, k) = k3 /\ Bottom(p, k3) = k6
  BY DEF Top, Bottom, k1, k2, k3, k4, k5, k6
<1> QED
  BY <1>3, <1>6, <1>7

\* What a packet does to the key it is for.
LEMMA ProcessedOver ==
    ASSUME Shape, Ended, NEW p \in Peers, NEW m \in Messages, Processed(p, m)
    PROVE  Ended' /\ \A q \in Peers : ~ Up(q) => ~ Up(q)'
<1>1. primary[p] \in Keys /\ primary[p].id \in 0..MaxKeyId /\ Over(primary[p])
  BY DEF Shape, Keys, Ended
<1>2. CASE Up(p) /\ AsksForReset(p, m)
  <2> DEFINE new == KeyStateInit(NextKeyId(primary[p].id))
             key == Taking(new, m)
  <2>1. new \in Keys /\ new.state = S_INITIAL
    BY <1>1, NextKeyIdType, KeyStateInitType DEF KeyStateInit
  <2> HIDE DEF new
  <2>2. key.state = S_INITIAL
    BY <2>1, TakingIs
  <2>3. primary' = [primary EXCEPT ![p] = key]
    BY <1>2 DEF Processed, new
  <2> HIDE DEF key
  <2> QED
    BY <1>2, <2>2, <2>3 DEF Shape, Ended, Over, Up
<1>3. CASE Up(p) /\ ~ AsksForReset(p, m)
  <2> DEFINE key == Taking(primary[p], m)
  <2>1. key.state = primary[p].state /\ key.must = primary[p].must
    BY <1>1, TakingIs
  <2>2. primary' = [primary EXCEPT ![p] = key]
    BY <1>3 DEF Processed
  <2> HIDE DEF key
  <2> QED
    BY <2>1, <2>2 DEF Shape, Ended, Over, Up
<1>4. CASE ~ Up(p)
  BY <1>4 DEF Processed, Ended, Up
<1> QED
  BY <1>2, <1>3, <1>4

LEMMA EndedStep ==
    ASSUME Shape, Ended, [Next]_vars
    PROVE  Ended' /\ \A q \in Peers : ~ Up(q) => ~ Up(q)'
<1>0. ASSUME NEW p \in Peers
      PROVE  /\ primary[p] \in Keys /\ primary[p].id \in 0..MaxKeyId
             /\ Over(primary[p])
  BY DEF Shape, Keys, Ended
<1>1. ASSUME NEW p \in Peers, NEW key, primary' = [primary EXCEPT ![p] = key],
             Over(key), primary[p].state = S_ERROR => key.state = S_ERROR
      PROVE  Ended' /\ \A q \in Peers : ~ Up(q) => ~ Up(q)'
  BY <1>1 DEF Shape, Ended, Up
<1>2. CASE UNCHANGED primary
  BY <1>2 DEF Ended, Up
<1>3. ASSUME NEW p \in Peers, Call(p)
      PROVE  Ended' /\ \A q \in Peers : ~ Up(q) => ~ Up(q)'
  <2>1. CASE RenegotiationDue(primary[p])
    <3> DEFINE key == KeyStateInit(NextKeyId(primary[p].id))
    <3>1. primary' = [primary EXCEPT ![p] = key] /\ Up(p)
      BY <1>3, <2>1 DEF Call, SoftReset, Settled
    <3>2. key.state = S_INITIAL
      BY DEF KeyStateInit
    <3> HIDE DEF key
    <3>3. Over(key) /\ primary[p].state # S_ERROR
      BY <3>1, <3>2 DEF Over, Up
    <3> QED
      BY <1>1, <3>1, <3>3
  <2>2. CASE ~ RenegotiationDue(primary[p])
    BY <1>2, <1>3, <2>2 DEF Call
  <2> QED
    BY <2>1, <2>2
<1>4. ASSUME NEW p \in Peers, PassFails(p)
      PROVE  Ended' /\ \A q \in Peers : ~ Up(q) => ~ Up(q)'
  <2> DEFINE key == [KeyStateInit(0) EXCEPT !.state = S_ERROR]
  <2>1. key.state = S_ERROR /\ key.must = Off
    BY DEF KeyStateInit
  <2>2. primary' = [primary EXCEPT ![p] = key]
    BY <1>4 DEF PassFails
  <2> HIDE DEF key
  <2> QED
    BY <1>1, <2>1, <2>2 DEF Over
<1>5. ASSUME NEW p \in Peers, PassSends(p)
      PROVE  Ended' /\ \A q \in Peers : ~ Up(q) => ~ Up(q)'
  <2> DEFINE top == Top(p, primary[p])
  <2>1. /\ top \in Keys /\ Over(top)
        /\ top.state = S_ERROR <=> primary[p].state = S_ERROR
    BY <1>0, PassOver, PassType
  <2>2. PICK i \in top.due :
            primary' = [primary EXCEPT ![p] = [Tried(top, i) EXCEPT !.acks = {}]]
    BY <1>5 DEF PassSends
  <2> HIDE DEF top
  <2> DEFINE key == [Tried(top, i) EXCEPT !.acks = {}]
  <2>3. key.state = top.state /\ key.must = top.must
    BY <2>1, TriedIs
  <2> HIDE DEF key
  <2>4. primary' = [primary EXCEPT ![p] = key]
    BY <2>2 DEF key
  <2> QED
    BY <1>1, <2>1, <2>3, <2>4 DEF Over
<1>6. ASSUME NEW p \in Peers, PassWorks(p)
      PROVE  Ended' /\ \A q \in Peers : ~ Up(q) => ~ Up(q)'
  <2> DEFINE key == Bottom(p, Top(p, primary[p]))
  <2>1. Over(key) /\ (key.state = S_ERROR <=> primary[p].state = S_ERROR)
    BY <1>0, PassOver
  <2>2. primary' = [primary EXCEPT ![p] = key]
    BY <1>6 DEF PassWorks
  <2> HIDE DEF key
  <2> QED
    BY <1>1, <2>1, <2>2
<1>7. ASSUME NEW p \in Peers, ProcessReturns(p)
      PROVE  Ended' /\ \A q \in Peers : ~ Up(q) => ~ Up(q)'
  <2> DEFINE key == [primary[p] EXCEPT !.acks = {}]
  <2>1. key.state = primary[p].state /\ key.must = primary[p].must
    BY <1>0 DEF Keys
  <2>2. primary' = primary \/ primary' = [primary EXCEPT ![p] = key]
    BY <1>7 DEF ProcessReturns, Shape
  <2> HIDE DEF key
  <2> QED
    BY <1>0, <1>1, <1>2, <2>1, <2>2 DEF Over
<1>8. ASSUME NEW p \in Peers, Receive(p)
      PROVE  Ended' /\ \A q \in Peers : ~ Up(q) => ~ Up(q)'
  <2>1. net[p] \in Seq(Messages) /\ net[p] # << >>
    BY <1>8 DEF Receive, Shape
  <2>2. Processed(p, Head(net[p])) /\ Head(net[p]) \in Messages
    BY <1>8, <2>1, Tailed DEF Receive
  <2> QED
    BY <2>2, ProcessedOver
<1>9. ASSUME ReceiveLate
      PROVE  Ended' /\ \A q \in Peers : ~ Up(q) => ~ Up(q)'
  <2>1. PICK c \in late : Processed(c.to, c.packet)
    BY <1>9 DEF ReceiveLate
  <2>2. c.to \in Peers /\ c.packet \in Messages
    BY DEF Shape
  <2> QED
    BY <2>1, <2>2, ProcessedOver
<1>10. ASSUME Tick
       PROVE  Ended' /\ \A q \in Peers : ~ Up(q) => ~ Up(q)'
  <2>1. primary' = [p \in Peers |-> Older(primary[p])]
    BY <1>10 DEF Tick
  <2>2. ASSUME NEW p \in Peers
        PROVE  /\ Older(primary[p]).state = primary[p].state
               /\ primary[p].must = Off => Older(primary[p]).must = Off
    BY <1>0, OlderIs DEF Less
  <2> QED
    BY <2>1, <2>2 DEF Ended, Over, Up
<1>11. CASE UNCHANGED vars
  BY <1>2, <1>11 DEF vars
<1> QED
  BY <1>3, <1>4, <1>5, <1>6, <1>7, <1>8, <1>9, <1>10, <1>11 DEF Next

---------------------------------------------------------------------------
(* The invariant: both peers are at one key, or one has gone ahead. *)

Good(prim, lm, nt) ==
    /\ \A p \in Peers : Own(p, prim[p])
    /\ \/ \A p \in Peers :
             Link(p, prim[p], prim[Other(p)], lm[p], lm[Other(p)], nt[Other(p)])
       \/ \E p \in Peers :
             Lead(p, prim[p], prim[Other(p)], lm[p], nt[Other(p)], nt[p])

Steady ==
    (\A p \in Peers : Up(p)) /\ lates = 0 => late = {} /\ Good(primary, lame, net)

\* The same, seen by one of the two.
LEMMA GoodIs ==
    ASSUME NEW p \in Peers, NEW q, q = Other(p), NEW prim, NEW lm, NEW nt
    PROVE  Good(prim, lm, nt) <=>
              /\ Own(p, prim[p]) /\ Own(q, prim[q])
              /\ \/ /\ Link(p, prim[p], prim[q], lm[p], lm[q], nt[q])
                    /\ Link(q, prim[q], prim[p], lm[q], lm[p], nt[p])
                 \/ Lead(p, prim[p], prim[q], lm[p], nt[q], nt[p])
                 \/ Lead(q, prim[q], prim[p], lm[q], nt[p], nt[q])
<1>1. Peers = {p, q} /\ Other(p) = q /\ Other(q) = p
  BY Two
<1> QED
  BY <1>1 DEF Good

\* A pass of p, whose key becomes k2.
LEMMA PassSteady ==
    ASSUME Shape, NEW p \in Peers, NEW k2 \in Keys, Good(primary, lame, net),
           Own(p, k2), Progress(p, primary[p], k2), ~ Doomed(primary[p]),
           primary' = [primary EXCEPT ![p] = k2], UNCHANGED lame,
           \/ UNCHANGED net
           \/ \E m \in Messages :
                 /\ Carries(p, k2, m)
                 /\ net' = [net EXCEPT ![Other(p)] = Append(@, m)]
    PROVE  Good(primary', lame', net')
<1> DEFINE q == Other(p)
           k == primary[p]
           kq == primary[q]
           l == lame[p]
           lq == lame[q]
           out2 == net'[q]
<1>0. q \in Peers /\ q # p /\ Other(q) = p
  BY Two
<1>1. /\ k \in Keys /\ kq \in Keys /\ l \in LameKeys /\ lq \in LameKeys
      /\ net[p] \in Seq(Messages) /\ net[q] \in Seq(Messages)
  BY <1>0 DEF Shape
<1>2. Sent(p, k2, net[q], out2) /\ net'[p] = net[p]
  BY <1>0 DEF Sent, Shape
<1>3. primary'[p] = k2 /\ primary'[q] = kq /\ lame'[p] = l /\ lame'[q] = lq
  BY <1>0 DEF Shape
<1> HIDE DEF q, k, kq, l, lq, out2
<1>4. Own(q, kq) /\ Own(p, k)
  BY GoodIs DEF q, k, kq
<1>5. Progress(p, k, k2) /\ ~ Doomed(k)
  BY DEF k
<1> DEFINE prim2 == primary'
           lm2 == lame'
           nt2 == net'
<1>9. /\ prim2[p] = k2 /\ prim2[q] = kq /\ lm2[p] = l /\ lm2[q] = lq
      /\ nt2[q] = out2 /\ nt2[p] = net[p]
  BY <1>2, <1>3 DEF out2
<1> HIDE DEF prim2, lm2, nt2
<1>10. Good(prim2, lm2, nt2) <=>
          /\ Own(p, k2) /\ Own(q, kq)
          /\ \/ Link(p, k2, kq, l, lq, out2) /\ Link(q, kq, k2, lq, l, net[p])
             \/ Lead(p, k2, kq, l, out2, net[p])
             \/ Lead(q, kq, k2, lq, net[p], out2)
  BY <1>9, GoodIs DEF q
<1>6. CASE Link(p, k, kq, l, lq, net[q]) /\ Link(q, kq, k, lq, l, net[p])
  <2>1. Link(p, k2, kq, l, lq, out2)
    BY <1>1, <1>2, <1>4, <1>5, <1>6, LinkFrom DEF q
  <2>2. Link(q, kq, k2, lq, l, net[p])
    BY <1>1, <1>5, <1>6, LinkTo DEF q
  <2> QED
    BY <1>4, <1>10, <2>1, <2>2 DEF prim2, lm2, nt2
<1>7. CASE Lead(p, k, kq, l, net[q], net[p])
  <2>1. Lead(p, k2, kq, l, out2, net[p])
    BY <1>1, <1>2, <1>5, <1>7, LeadFrom
  <2> QED
    BY <1>4, <1>10, <2>1 DEF prim2, lm2, nt2
<1>8. CASE Lead(q, kq, k, lq, net[p], net[q])
  <2>1. Lead(q, kq, k2, lq, net[p], out2)
    BY <1>0, <1>1, <1>2, <1>5, <1>8, LeadTo
  <2> QED
    BY <1>4, <1>10, <2>1 DEF prim2, lm2, nt2
<1> QED
  BY <1>6, <1>7, <1>8, GoodIs DEF q, k, kq, l, lq

\* What is sent or acknowledged no longer counts, and nothing else that the other
\* peer can tell changes.
LEMMA ClearedGood ==
    ASSUME NEW p \in Peers, NEW k \in Keys, NEW k1 \in Keys, Own(p, k1), Progress(p, k, k1),
           NEW k2 \in Keys, k2.due \subseteq k1.due, k2.acks = {},
           k2.una = k1.una, k2.state = k1.state, k2.id = k1.id,
           k2.arrived = k1.arrived, k2.read = k1.read,
           k2.must = k1.must, k2.defer = k1.defer, k2.reneg = k1.reneg
    PROVE  /\ Own(p, k2) /\ Progress(p, k, k2)
           /\ \A a : SentBy(p, k2, a) <=> SentBy(p, k1, a)
           /\ \A a : Had(k2, a) <=> Had(k1, a)
<1>1. Own(p, k2)
  BY DEF Own, SentBy, Had, Enabled
<1>2. Progress(p, k, k2)
  BY DEF Progress, SentBy, Had, Enabled, Rem, AtStart
<1> QED
  BY <1>1, <1>2 DEF SentBy, Had

\* A pass is over before the deadline, or it gives the session up.
LEMMA InTime ==
    ASSUME NEW p \in Peers, NEW k \in Keys, Own(p, k), ~ TimesOut(Opened(p, k))
    PROVE  ~ Doomed(k)
BY OpenedIs, KeyTypes DEF TimesOut, Own, Doomed

LEMMA ProgressSelf ==
    ASSUME NEW p \in Peers, NEW k \in Keys
    PROVE  Progress(p, k, k)
BY KeyTypes DEF Progress

LEMMA ResetSteady ==
    ASSUME Shape, NEW p \in Peers, Good(primary, lame, net),
           RenegotiationDue(primary[p]), SoftReset(p), UNCHANGED net
    PROVE  Good(primary', lame', net')
<1> DEFINE q == Other(p)
           k == primary[p]
           kq == primary[q]
           l == lame[p]
           lq == lame[q]
           k2 == KeyStateInit(NextKeyId(k.id))
           l2 == Retiring(k)
<1>0. q \in Peers /\ q # p /\ Other(q) = p
  BY Two
<1>1. /\ k \in Keys /\ kq \in Keys /\ l \in LameKeys /\ lq \in LameKeys
      /\ net[p] \in Seq(Messages) /\ net[q] \in Seq(Messages)
  BY <1>0 DEF Shape
<1>2. /\ primary'[p] = k2 /\ primary'[q] = kq /\ lame'[p] = l2 /\ lame'[q] = lq
      /\ net' = net
  BY <1>0 DEF Shape, SoftReset
<1>3. /\ k2 \in Keys /\ Fresh(k2) /\ k2.arrived = {} /\ k2.id = NextKeyId(k.id)
      /\ Own(p, k2)
  <2>1. NextKeyId(k.id) \in 0..MaxKeyId
    BY <1>1, NextKeyIdType, KeyTypes
  <2>2. k2 \in Keys /\ Fresh(k2) /\ k2.arrived = {} /\ k2.id = NextKeyId(k.id)
    BY <2>1, NewIsFresh
  <2> HIDE DEF k2
  <2> QED
    BY <2>2, FreshGood
<1>4. RenegotiationDue(k)
  OBVIOUS
<1> HIDE DEF q, k, kq, l, lq, k2, l2
<1> DEFINE prim2 == primary'
           lm2 == lame'
           nt2 == net'
<1>5. /\ prim2[p] = k2 /\ prim2[q] = kq /\ lm2[p] = l2 /\ lm2[q] = lq
      /\ nt2 = net
  BY <1>2
<1> HIDE DEF prim2, lm2, nt2
<1>6. Good(prim2, lm2, nt2) <=>
          /\ Own(p, k2) /\ Own(q, kq)
          /\ \/ Link(p, k2, kq, l2, lq, net[q]) /\ Link(q, kq, k2, lq, l2, net[p])
             \/ Lead(p, k2, kq, l2, net[q], net[p])
             \/ Lead(q, kq, k2, lq, net[p], net[q])
  BY <1>5, GoodIs DEF q
<1>7. /\ Own(p, k) /\ Own(q, kq)
      /\ \/ Link(p, k, kq, l, lq, net[q]) /\ Link(q, kq, k, lq, l, net[p])
         \/ Lead(p, k, kq, l, net[q], net[p])
         \/ Lead(q, kq, k, lq, net[p], net[q])
  BY GoodIs DEF q, k, kq, l, lq
<1>8. CASE Link(p, k, kq, l, lq, net[q]) /\ Link(q, kq, k, lq, l, net[p])
  <2>1. Lead(p, k2, kq, l2, net[q], net[p])
    BY <1>1, <1>3, <1>4, <1>7, <1>8, Parted DEF q, l2
  <2> QED
    BY <1>3, <1>6, <1>7, <2>1 DEF prim2, lm2, nt2
<1>9. CASE Lead(p, k, kq, l, net[q], net[p])
  BY <1>4, <1>9 DEF Lead, AtStart, RenegotiationDue
<1>10. CASE Lead(q, kq, k, lq, net[p], net[q])
  <2>1. /\ Link(q, kq, k2, lq, l2, net[p])
        /\ Link(Other(q), k2, kq, l2, lq, net[q])
    BY <1>0, <1>1, <1>3, <1>7, <1>10, Joined DEF l2
  <2> QED
    BY <1>0, <1>3, <1>6, <1>7, <2>1 DEF prim2, lm2, nt2
<1> QED
  BY <1>7, <1>8, <1>9, <1>10

LEMMA ReceiveSteady ==
    ASSUME Shape, NEW p \in Peers, Good(primary, lame, net), Up(p), Receive(p)
    PROVE  Good(primary', lame', net')
<1> DEFINE q == Other(p)
           k == primary[p]
           kq == primary[q]
           l == lame[p]
           lq == lame[q]
           in == net[p]
           m == Head(in)
           rest == Tail(in)
           k2 == Taking(k, m)
           new == Taking(KeyStateInit(NextKeyId(k.id)), m)
           l2 == Retiring(k)
<1>0. q \in Peers /\ q # p /\ Other(q) = p
  BY Two
<1>1. /\ k \in Keys /\ kq \in Keys /\ l \in LameKeys /\ lq \in LameKeys
      /\ in \in Seq(Messages) /\ net[q] \in Seq(Messages) /\ in # << >>
  BY <1>0 DEF Shape, Receive
<1>2. m \in Messages /\ rest \in Seq(Messages) /\ m = in[1] /\ 1 \in DOMAIN in
  BY <1>1, Tailed
<1>3. /\ primary'[q] = kq /\ lame'[q] = lq /\ net'[q] = net[q] /\ net'[p] = rest
      /\ AsksForReset(p, m) => primary'[p] = new /\ lame'[p] = l2
      /\ ~ AsksForReset(p, m) => primary'[p] = k2 /\ lame'[p] = l
  BY <1>0 DEF Shape, Receive, Processed
<1>4. AsksForReset(p, m) <=> m.packet_id = ResetPacket /\ Enabled(p, k)
  BY DEF AsksForReset
<1>5. k2 \in Keys
  BY <1>1, <1>2, TakingIs
<1> HIDE DEF q, k, kq, l, lq, in, m, rest, k2, new, l2
<1> DEFINE prim2 == primary'
           lm2 == lame'
           nt2 == net'
<1>6. /\ prim2[q] = kq /\ lm2[q] = lq /\ nt2[q] = net[q] /\ nt2[p] = rest
      /\ AsksForReset(p, m) => prim2[p] = new /\ lm2[p] = l2
      /\ ~ AsksForReset(p, m) => prim2[p] = k2 /\ lm2[p] = l
  BY <1>3
<1> HIDE DEF prim2, lm2, nt2
<1>7. Good(prim2, lm2, nt2) <=>
          /\ Own(p, prim2[p]) /\ Own(q, kq)
          /\ \/ /\ Link(p, prim2[p], kq, lm2[p], lq, net[q])
                /\ Link(q, kq, prim2[p], lq, lm2[p], rest)
             \/ Lead(p, prim2[p], kq, lm2[p], net[q], rest)
             \/ Lead(q, kq, prim2[p], lq, rest, net[q])
  BY <1>6, GoodIs DEF q
<1>8. /\ Own(p, k) /\ Own(q, kq)
      /\ \/ Link(p, k, kq, l, lq, net[q]) /\ Link(q, kq, k, lq, l, in)
         \/ Lead(p, k, kq, l, net[q], in)
         \/ Lead(q, kq, k, lq, in, net[q])
  BY GoodIs DEF q, k, kq, l, lq, in
<1>9. CASE Link(p, k, kq, l, lq, net[q]) /\ Link(q, kq, k, lq, l, in)
  <2>1. ~ AsksForReset(p, m)
    <3>1. Flow(q, kq, k, in)
      BY <1>9 DEF Link
    <3> QED
      BY <1>0, <1>1, <1>2, <1>4, <1>8, <3>1, NoneAsks
  <2>2. Own(p, k2)
    BY <1>1, <1>2, <1>8, TakingGood DEF k2
  <2>3. Link(q, kq, k2, lq, l, rest)
    BY <1>0, <1>1, <1>8, <1>9, LinkReceived DEF k2, m, rest
  <2>4. Link(p, k2, kq, l, lq, net[q])
    <3>1. k.id = kq.id /\ (m.key_id = kq.id => \A a \in m.acks : Had(kq, a))
      BY <1>2, <1>9 DEF Link, Flow
    <3> QED
      BY <1>1, <1>2, <1>8, <1>9, <3>1, LinkReceiver DEF k2
  <2> QED
    BY <1>6, <1>7, <1>8, <2>1, <2>2, <2>3, <2>4 DEF prim2, lm2, nt2
<1>10. CASE Lead(p, k, kq, l, net[q], in)
  <2>1. m.packet_id # ResetPacket /\ k2 = k /\ Lead(p, k, kq, l, net[q], rest)
    BY <1>1, <1>10, LeadIgnores DEF m, rest, k2
  <2> QED
    BY <1>4, <1>6, <1>7, <1>8, <2>1 DEF prim2, lm2, nt2
<1>11. CASE Lead(q, kq, k, lq, in, net[q])
  <2>1. CASE m.packet_id # ResetPacket
    <3>1. Own(p, k2)
      BY <1>1, <1>2, <1>8, TakingGood DEF k2
    <3>2. Lead(q, kq, k2, lq, rest, net[q])
      BY <1>0, <1>1, <1>8, <1>11, <2>1, LeadReceived DEF k2, m, rest
    <3> QED
      BY <1>4, <1>6, <1>7, <1>8, <2>1, <3>1, <3>2 DEF prim2, lm2, nt2
  <2>2. CASE m.packet_id = ResetPacket
    <3>0. k.state \in Int
      BY <1>1, StateType, Zenon
    <3>1. k.state >= S_ACTIVE
      <4>1. ~ Pending(k)
        BY <1>11 DEF Lead
      <4> QED
        BY <3>0, <4>1 DEF Pending
    <3>2. AsksForReset(p, m)
      BY <1>4, <2>2, <3>0, <3>1 DEF Enabled
    <3>3. m.key_id = kq.id /\ kq.id = NextKeyId(k.id)
      BY <1>2, <1>11, <2>2 DEF Lead
    <3>4. /\ new \in Keys /\ new.id = NextKeyId(k.id) /\ Fresh(new)
      BY <1>1, <1>2, <2>2, <3>3, NextKeyIdType, KeyTypes, AskedIsFresh DEF new
    <3>5. Own(p, new)
      BY <3>4, FreshGood
    <3>6. /\ Link(q, kq, new, lq, l2, rest)
          /\ Link(Other(q), new, kq, l2, lq, net[q])
      BY <1>0, <1>1, <1>2, <1>8, <1>11, <3>3, <3>4, Joined DEF l2, m, rest
    <3> QED
      BY <1>0, <1>6, <1>7, <1>8, <3>2, <3>5, <3>6 DEF prim2, lm2, nt2
  <2> QED
    BY <2>1, <2>2
<1> QED
  BY <1>8, <1>9, <1>10, <1>11

LEMMA TickSteady ==
    ASSUME Shape, Good(primary, lame, net), \A p \in Peers : Up(p), Tick
    PROVE  Good(primary', lame', net')
<1> PICK p \in Peers : TRUE
  BY DEF Peers
<1> DEFINE q == Other(p)
           k == primary[p]
           kq == primary[q]
           l == lame[p]
           lq == lame[q]
<1>0. q \in Peers /\ q # p /\ Other(q) = p
  BY Two
<1>1. /\ k \in Keys /\ kq \in Keys /\ l \in LameKeys /\ lq \in LameKeys
  BY <1>0 DEF Shape
<1>2. Quiet(p, k) /\ Quiet(q, kq)
  BY <1>0 DEF Tick, Settled, Quiet
<1>3. /\ primary'[p] = Older(k) /\ primary'[q] = Older(kq)
      /\ lame'[p] = LaterLame(l) /\ lame'[q] = LaterLame(lq) /\ net' = net
  BY <1>0 DEF Tick, LaterLame
<1> HIDE DEF q, k, kq, l, lq
<1> DEFINE prim2 == primary'
           lm2 == lame'
           nt2 == net'
<1>4. /\ prim2[p] = Older(k) /\ prim2[q] = Older(kq)
      /\ lm2[p] = LaterLame(l) /\ lm2[q] = LaterLame(lq) /\ nt2 = net
  BY <1>3
<1> HIDE DEF prim2, lm2, nt2
<1>5. Good(prim2, lm2, nt2) <=>
          /\ Own(p, Older(k)) /\ Own(q, Older(kq))
          /\ \/ /\ Link(p, Older(k), Older(kq), LaterLame(l), LaterLame(lq), net[q])
                /\ Link(q, Older(kq), Older(k), LaterLame(lq), LaterLame(l), net[p])
             \/ Lead(p, Older(k), Older(kq), LaterLame(l), net[q], net[p])
             \/ Lead(q, Older(kq), Older(k), LaterLame(lq), net[p], net[q])
  BY <1>4, GoodIs DEF q
<1>6. /\ Own(p, k) /\ Own(q, kq)
      /\ \/ Link(p, k, kq, l, lq, net[q]) /\ Link(q, kq, k, lq, l, net[p])
         \/ Lead(p, k, kq, l, net[q], net[p])
         \/ Lead(q, kq, k, lq, net[p], net[q])
  BY GoodIs DEF q, k, kq, l, lq
<1>7. Own(p, Older(k)) /\ Own(q, Older(kq))
  BY <1>0, <1>1, <1>2, <1>6, LaterGood
<1>8. CASE Link(p, k, kq, l, lq, net[q]) /\ Link(q, kq, k, lq, l, net[p])
  <2>1. Flow(p, k, kq, net[q]) /\ Flow(q, kq, k, net[p])
    BY <1>8 DEF Link
  <2>2. Link(p, Older(k), Older(kq), LaterLame(l), LaterLame(lq), net[q])
    BY <1>1, <1>2, <1>6, <1>8, <2>1, LaterLink DEF q
  <2>3. Link(q, Older(kq), Older(k), LaterLame(lq), LaterLame(l), net[p])
    BY <1>0, <1>1, <1>2, <1>6, <1>8, <2>1, LaterLink
  <2> QED
    BY <1>5, <1>7, <2>2, <2>3 DEF prim2, lm2, nt2
<1>9. CASE Lead(p, k, kq, l, net[q], net[p])
  <2>1. Lead(p, Older(k), Older(kq), LaterLame(l), net[q], net[p])
    BY <1>1, <1>2, <1>6, <1>9, LaterLead DEF q
  <2> QED
    BY <1>5, <1>7, <2>1 DEF prim2, lm2, nt2
<1>10. CASE Lead(q, kq, k, lq, net[p], net[q])
  <2>1. Lead(q, Older(kq), Older(k), LaterLame(lq), net[p], net[q])
    BY <1>0, <1>1, <1>2, <1>6, <1>10, LaterLead
  <2> QED
    BY <1>5, <1>7, <2>1 DEF prim2, lm2, nt2
<1> QED
  BY <1>6, <1>8, <1>9, <1>10

\* A retiring key is not deleted as long as it is needed.
LEMMA DeletionSteady ==
    ASSUME Shape, NEW p \in Peers, Good(primary, lame, net),
           UNCHANGED <<primary, net>>,
           lame' = IF lame[p].die = 0 THEN [lame EXCEPT ![p] = NoKey] ELSE lame
    PROVE  Good(primary', lame', net')
<1>1. CASE lame[p].die # 0
  BY <1>1
<1>2. CASE lame[p].die = 0
  <2> DEFINE q == Other(p)
             k == primary[p]
             kq == primary[q]
             l == lame[p]
             lq == lame[q]
  <2>0. q \in Peers /\ q # p /\ Other(q) = p
    BY Two
  <2>1. k \in Keys /\ kq \in Keys /\ l.die = 0
    BY <1>2, <2>0 DEF Shape
  <2>2. lame'[p] = NoKey /\ lame'[q] = lq
    BY <1>2, <2>0 DEF Shape
  <2> HIDE DEF q, k, kq, l, lq
  <2> DEFINE lm2 == lame'
  <2>3. lm2[p] = NoKey /\ lm2[q] = lq
    BY <2>2
  <2> HIDE DEF lm2
  <2>4. Good(primary, lm2, net) <=>
          /\ Own(p, k) /\ Own(q, kq)
          /\ \/ Link(p, k, kq, NoKey, lq, net[q]) /\ Link(q, kq, k, lq, NoKey, net[p])
             \/ Lead(p, k, kq, NoKey, net[q], net[p])
             \/ Lead(q, kq, k, lq, net[p], net[q])
    BY <2>3, GoodIs DEF q, k, kq
  <2>5. /\ Own(p, k) /\ Own(q, kq)
        /\ \/ Link(p, k, kq, l, lq, net[q]) /\ Link(q, kq, k, lq, l, net[p])
           \/ Lead(p, k, kq, l, net[q], net[p])
           \/ Lead(q, kq, k, lq, net[p], net[q])
    BY GoodIs DEF q, k, kq, l, lq
  <2>6. Rem(k) \in Nat /\ Rem(kq) \in Nat
    BY <2>1, Windows, KeyTypes DEF Rem
  <2>7. CASE Link(p, k, kq, l, lq, net[q]) /\ Link(q, kq, k, lq, l, net[p])
    <3>1. ~ Pending(k)
      BY <2>1, <2>6, <2>7, Windows DEF Link, Kept
    <3>2. ~ Doomed(k)
      BY <3>1, <2>1, KeyTypes DEF Doomed, Pending
    <3>3. ~ Pending(kq)
      BY <2>1, <2>6, <2>7, <3>2, Windows DEF Link, Kept
    <3>4. /\ Link(p, k, kq, NoKey, lq, net[q])
          /\ Link(q, kq, k, lq, NoKey, net[p])
      BY <2>7, <3>1, <3>3 DEF Link, Kept
    <3> QED
      BY <2>4, <2>5, <3>4 DEF lm2
  <2>8. CASE Lead(p, k, kq, l, net[q], net[p])
    BY <2>1, <2>6, <2>8, Windows DEF Lead
  <2>9. CASE Lead(q, kq, k, lq, net[p], net[q])
    BY <2>4, <2>5, <2>9 DEF lm2
  <2> QED
    BY <2>5, <2>7, <2>8, <2>9
<1> QED
  BY <1>1, <1>2

\* A pass that fails ends the session.
LEMMA FailsIsDown ==
    ASSUME Shape, NEW p \in Peers, PassFails(p)
    PROVE  ~ Up(p)'
<1>1. primary'[p].state = S_ERROR
  BY DEF PassFails, Shape, KeyStateInit
<1> QED
  BY <1>1 DEF Up

LEMMA SteadyStep ==
    ASSUME Shape, Good(primary, lame, net), late = {}, lates = 0, lates' = 0,
           \A p \in Peers : Up(p), \A p \in Peers : ~ PassFails(p), [Next]_vars
    PROVE  late' = {} /\ Good(primary', lame', net')
<1>0. ASSUME NEW p \in Peers
      PROVE  /\ primary[p] \in Keys /\ Own(p, primary[p])
             /\ Progress(p, primary[p], primary[p])
  <2>1. primary[p] \in Keys
    BY DEF Shape
  <2> QED
    BY <2>1, ProgressSelf DEF Good
<1>1. ASSUME NEW p \in Peers, Call(p)
      PROVE  late' = {} /\ Good(primary', lame', net')
  <2>1. CASE RenegotiationDue(primary[p])
    BY <1>1, <2>1, ResetSteady DEF Call
  <2>2. CASE ~ RenegotiationDue(primary[p])
    BY <1>1, <2>2, DeletionSteady DEF Call
  <2> QED
    BY <2>1, <2>2
<1>2. ASSUME NEW p \in Peers, PassFails(p)
      PROVE  FALSE
  BY <1>2
<1>3. ASSUME NEW p \in Peers, PassSends(p)
      PROVE  late' = {} /\ Good(primary', lame', net')
  <2> DEFINE top == Top(p, primary[p])
  <2>1. ~ TimesOut(Opened(p, primary[p]))
    BY <1>3 DEF PassSends
  <2>2. top \in Keys /\ Own(p, top) /\ Progress(p, primary[p], top)
    BY <1>0, <2>1, PassGood
  <2>3. PICK i \in top.due :
            /\ Transmit(p, Packet(p, i, top.acks))
            /\ primary' = [primary EXCEPT ![p] = [Tried(top, i) EXCEPT !.acks = {}]]
    BY <1>3 DEF PassSends
  <2> HIDE DEF top
  <2> DEFINE k2 == [Tried(top, i) EXCEPT !.acks = {}]
             m == Packet(p, i, top.acks)
  <2>4. /\ k2 \in Keys /\ Own(p, k2) /\ Progress(p, primary[p], k2)
        /\ k2.id = top.id /\ k2.una = top.una
        /\ \A a : SentBy(p, k2, a) <=> SentBy(p, top, a)
        /\ \A a : Had(k2, a) <=> Had(top, a)
    <3>1. /\ k2 \in Keys /\ k2.due \subseteq top.due /\ k2.acks = {}
          /\ k2.una = top.una /\ k2.state = top.state /\ k2.id = top.id
          /\ k2.arrived = top.arrived /\ k2.read = top.read
          /\ k2.must = top.must /\ k2.defer = top.defer /\ k2.reneg = top.reneg
      BY <2>2, TriedIs
    <3>2. primary[p] \in Keys
      BY <1>0
    <3> HIDE DEF k2
    <3> QED
      BY <2>2, <3>1, <3>2, ClearedGood
  <2>5. primary' = [primary EXCEPT ![p] = k2]
    BY <2>3
  <2>6. m \in Messages /\ m.packet_id = i /\ m.key_id = primary[p].id /\ m.acks = top.acks
    BY <1>0, <2>2, KeyTypes DEF Packet, Messages
  <2> HIDE DEF k2, m
  <2>7. Carries(p, k2, m)
    <3>1. i \in Packets /\ i \in top.una /\ SentBy(p, top, i)
      BY <2>2, KeyTypes DEF Own
    <3>2. \A a \in top.acks : Had(top, a)
      BY <2>2 DEF Own
    <3>3. top.id = primary[p].id
      BY <2>2 DEF Progress
    <3> QED
      BY <2>4, <2>6, <3>1, <3>2, <3>3 DEF Carries, Packets
  <2>8. ~ Doomed(primary[p])
    BY <1>0, <2>1, InTime
  <2>9. UNCHANGED net \/ net' = [net EXCEPT ![Other(p)] = Append(@, m)]
    BY <2>3 DEF Transmit, m
  <2> QED
    BY <1>3, <2>4, <2>5, <2>6, <2>7, <2>8, <2>9, PassSteady DEF PassSends
<1>4. ASSUME NEW p \in Peers, PassWorks(p)
      PROVE  late' = {} /\ Good(primary', lame', net')
  <2> DEFINE k2 == Bottom(p, Top(p, primary[p]))
  <2>1. ~ TimesOut(Opened(p, primary[p])) /\ primary' = [primary EXCEPT ![p] = k2]
    BY <1>4 DEF PassWorks
  <2>2. k2 \in Keys /\ Own(p, k2) /\ Progress(p, primary[p], k2)
    BY <1>0, <2>1, PassGood
  <2> HIDE DEF k2
  <2>3. ~ Doomed(primary[p])
    BY <1>0, <2>1, InTime
  <2> QED
    BY <1>4, <2>1, <2>2, <2>3, PassSteady DEF PassWorks
<1>5. ASSUME NEW p \in Peers, ProcessReturns(p)
      PROVE  late' = {} /\ Good(primary', lame', net')
  <2>1. CASE primary[p].acks = {}
    BY <1>5, <2>1 DEF ProcessReturns
  <2>2. CASE primary[p].acks # {}
    <3> DEFINE k == primary[p]
               k2 == [k EXCEPT !.acks = {}]
               m == Packet(p, NoPacket, k.acks)
    <3>1. /\ Transmit(p, m) /\ ~ TimesOut(Opened(p, k))
          /\ primary' = [primary EXCEPT ![p].acks = {}]
      BY <1>5, <2>2 DEF ProcessReturns
    <3>2. /\ k2 \in Keys /\ Own(p, k2) /\ Progress(p, k, k2) /\ k2.id = k.id
          /\ \A a : Had(k2, a) <=> Had(k, a)
      <4>1. /\ k2 \in Keys /\ k2.due \subseteq k.due /\ k2.acks = {}
            /\ k2.una = k.una /\ k2.state = k.state /\ k2.id = k.id
            /\ k2.arrived = k.arrived /\ k2.read = k.read
            /\ k2.must = k.must /\ k2.defer = k.defer /\ k2.reneg = k.reneg
        BY <1>0, AckedIs
      <4>2. k \in Keys /\ Own(p, k) /\ Progress(p, k, k)
        BY <1>0
      <4> HIDE DEF k, k2
      <4> QED
        BY <4>1, <4>2, ClearedGood
    <3>4. primary' = [primary EXCEPT ![p] = k2]
      BY <3>1 DEF Shape
    <3>5. m \in Messages /\ m.packet_id = NoPacket /\ m.key_id = k.id /\ m.acks = k.acks
      BY <1>0, KeyTypes DEF Packet, Messages
    <3>6. Own(p, k) /\ k.acks # {}
      BY <1>0, <2>2
    <3> HIDE DEF k2, m
    <3>7. Carries(p, k2, m)
      BY <3>2, <3>5, <3>6 DEF Carries, Own
    <3>8. ~ Doomed(k)
      BY <1>0, <3>1, InTime
    <3>9. UNCHANGED net \/ net' = [net EXCEPT ![Other(p)] = Append(@, m)]
      BY <3>1 DEF Transmit
    <3> QED
      BY <1>5, <3>2, <3>4, <3>5, <3>7, <3>8, <3>9, PassSteady DEF ProcessReturns
  <2> QED
    BY <2>1, <2>2
<1>6. ASSUME NEW p \in Peers, Receive(p)
      PROVE  late' = {} /\ Good(primary', lame', net')
  <2>1. late' = {}
    BY <1>6 DEF Receive
  <2> QED
    BY <1>6, <2>1, ReceiveSteady
<1>7. ~ ReceiveLate
  BY DEF ReceiveLate
<1>8. ASSUME Tick
      PROVE  late' = {} /\ Good(primary', lame', net')
  <2>1. late' = {}
    BY <1>8 DEF Tick
  <2> QED
    BY <1>8, <2>1, TickSteady
<1>9. CASE UNCHANGED vars
  BY <1>9 DEF vars
<1> QED
  BY <1>1, <1>2, <1>3, <1>4, <1>5, <1>6, <1>7, <1>8, <1>9 DEF Next

\* Once a packet has come late, one has.
LEMMA LatesStay ==
    ASSUME Shape, [Next]_vars, lates' = 0
    PROVE  lates = 0
<1>1. ASSUME NEW p \in Peers, Receive(p)
      PROVE  lates = 0
  BY <1>1, BoundAssumption DEF Receive, Shape
<1> QED
  BY <1>1 DEF Next, vars, Call, PassFails, PassSends, PassWorks, ProcessReturns,
              ReceiveLate, Tick

LEMMA SteadyInit ==
    ASSUME Init
    PROVE  Ended /\ Steady
<1> DEFINE first(p) == [KeyStateInit(0) EXCEPT !.state = S_NORMAL_OP, !.read = 2,
                                               !.reneg = RenegotiateTimer(p)]
<1>1. ASSUME NEW p \in Peers
      PROVE  /\ primary[p] \in Keys
             /\ primary[p].state = S_NORMAL_OP /\ primary[p].id = 0
             /\ primary[p].una = {} /\ primary[p].due = {} /\ primary[p].acks = {}
             /\ primary[p].read = 2 /\ primary[p].defer = 0
             /\ net[p] = << >>
  <2>1. primary[p] = first(p) /\ net[p] = << >>
    BY DEF Init
  <2>2. primary[p] \in Keys
    BY ShapeInit DEF Shape
  <2> QED
    BY <2>1, <2>2 DEF KeyStateInit
<1> HIDE DEF first
<1>2. ASSUME NEW p \in Peers
      PROVE  /\ Own(p, primary[p]) /\ ~ Pending(primary[p]) /\ Enabled(p, primary[p])
             /\ \A a \in Packets : SentBy(p, primary[p], a) /\ Had(primary[p], a)
  <2> DEFINE k == primary[p]
  <2>1. /\ k.state = S_NORMAL_OP /\ k.una = {} /\ k.due = {} /\ k.acks = {}
        /\ k.read = 2 /\ k.defer = 0
    BY <1>1
  <2> HIDE DEF k
  <2>2. Own(p, k)
    BY <2>1, Windows DEF Own
  <2>3. ~ Pending(k) /\ Enabled(p, k)
    BY <2>1 DEF Pending, Enabled
  <2>4. \A a \in Packets : SentBy(p, k, a) /\ Had(k, a)
    BY <2>1 DEF SentBy, Had, Packets
  <2> QED
    BY <2>2, <2>3, <2>4 DEF k
<1>3. ASSUME NEW p \in Peers, NEW q \in Peers, q = Other(p)
      PROVE  Link(p, primary[p], primary[q], lame[p], lame[q], net[q])
  <2>1. Flow(p, primary[p], primary[q], net[q])
    BY <1>1, <1>2 DEF Flow
  <2>2. Pace(p, primary[p], primary[q]) /\ Kept(primary[p], primary[q], lame[p], lame[q])
    BY <1>2, <1>3 DEF Pace, Kept
  <2> QED
    BY <1>1, <2>1, <2>2 DEF Link
<1>4. Good(primary, lame, net)
  BY <1>2, <1>3, Two DEF Good
<1>5. Ended /\ late = {}
  <2>1. late = {}
    BY DEF Init
  <2>2. \A p \in Peers : primary[p].state # S_ERROR
    BY <1>1
  <2> QED
    BY <2>1, <2>2 DEF Ended, Over
<1> QED
  BY <1>4, <1>5 DEF Steady

LEMMA SteadyInvariant == Spec => [](Shape /\ Ended /\ Steady)
<1>1. Init => Shape /\ Ended /\ Steady
  BY ShapeInit, SteadyInit
<1>2. Shape /\ Ended /\ Steady /\ [Next]_vars => (Shape /\ Ended /\ Steady)'
  <2> SUFFICES ASSUME Shape, Ended, Steady, [Next]_vars
               PROVE  (Shape /\ Ended /\ Steady)'
    OBVIOUS
  <2>1. Shape'
    BY ShapeStep
  <2>2. Ended' /\ \A q \in Peers : ~ Up(q) => ~ Up(q)'
    BY EndedStep
  <2>3. Steady'
    <3> SUFFICES ASSUME \A p \in Peers : Up(p)', lates' = 0
                 PROVE  late' = {} /\ Good(primary', lame', net')
      BY DEF Steady
    <3>1. lates = 0 /\ \A p \in Peers : Up(p)
      BY <2>2, LatesStay
    <3>2. \A p \in Peers : ~ PassFails(p)
      BY FailsIsDown
    <3> QED
      BY <3>1, <3>2, SteadyStep DEF Steady
  <2> QED
    BY <2>1, <2>2, <2>3
<1> QED
  BY <1>1, <1>2, PTL DEF Spec

---------------------------------------------------------------------------
(* The key data is encrypted with. *)

LEMMA SelectsNew ==
    ASSUME NEW p \in Peers, primary[p] \in Keys, ~ Pending(primary[p])
    PROVE  1 \in InUse(p) /\ Selected(p, 1) /\ Scan(p)[1].id = primary[p].id
<1>1. primary[p].state >= S_ACTIVE /\ primary[p].defer = 0
  BY KeyTypes DEF Pending
<1>2. /\ Scan(p)[1].state = primary[p].state /\ Scan(p)[1].defer = primary[p].defer
      /\ Scan(p)[1].id = primary[p].id
  BY DEF Scan
<1>3. 1 \in Preferred(p) /\ 1 \in InUse(p)
  BY <1>1, <1>2 DEF Preferred, InUse
<1>4. \A j \in 1..2 : 1 <= j
  OBVIOUS
<1>5. Preferred(p) \subseteq 1..2
  BY DEF Preferred, InUse
<1> QED
  BY <1>2, <1>3, <1>4, <1>5 DEF Selected

LEMMA SelectsOld ==
    ASSUME NEW p \in Peers, primary[p] \in Keys, Pending(primary[p]),
           lame[p].state >= S_ACTIVE, lame[p].defer = 0
    PROVE  2 \in InUse(p) /\ Selected(p, 2) /\ Scan(p)[2].id = lame[p].id
<1>1. ~ (primary[p].state >= S_ACTIVE /\ primary[p].defer = 0)
  BY KeyTypes DEF Pending
<1>2. /\ Scan(p)[1].state = primary[p].state /\ Scan(p)[1].defer = primary[p].defer
      /\ Scan(p)[2].state = lame[p].state /\ Scan(p)[2].defer = lame[p].defer
      /\ Scan(p)[2].id = lame[p].id
  BY DEF Scan
<1>3. 2 \in Preferred(p) /\ 2 \in InUse(p) /\ 1 \notin Preferred(p)
  BY <1>1, <1>2 DEF Preferred, InUse
<1>4. \A j \in Preferred(p) : j = 2
  BY <1>3 DEF Preferred, InUse
<1> QED
  BY <1>2, <1>3, <1>4 DEF Selected

\* However many packets are lost, and however many renegotiations there have
\* been: as long as none came late and no peer has given the session up, each
\* has a key to encrypt with that the other one decrypts with, and still will
\* for as long as transition_window leaves beyond two handshakes.
THEOREM DataIsUnderstood == Spec => []Understood
<1> DEFINE Decrypted(p) ==
        \E i \in InUse(p) :
            /\ Selected(p, i)
            /\ DecryptedBy(Other(p), Scan(p)[i].id, TransitionWindow - 2 * HandshakeWindow)
<1>1. ASSUME Shape, Good(primary, lame, net), NEW p \in Peers
      PROVE  Decrypted(p)
  <2> DEFINE q == Other(p)
             k == primary[p]
             kq == primary[q]
             l == lame[p]
             lq == lame[q]
             latency == TransitionWindow - 2 * HandshakeWindow
  <2>0. q \in Peers /\ q # p /\ Other(q) = p
    BY Two
  <2>1. /\ k \in Keys /\ kq \in Keys /\ l \in LameKeys /\ lq \in LameKeys
    BY <1>1, <2>0 DEF Shape
  <2>2. /\ Own(p, k) /\ Own(q, kq)
        /\ \/ Link(p, k, kq, l, lq, net[q]) /\ Link(q, kq, k, lq, l, net[p])
           \/ Lead(p, k, kq, l, net[q], net[p])
           \/ Lead(q, kq, k, lq, net[p], net[q])
    BY <1>1, GoodIs
  <2>3. Rem(k) \in Nat /\ Rem(kq) \in Nat
    BY <2>1, Windows, KeyTypes DEF Rem
  <2>4. /\ l.die \in Int /\ lq.die \in Int /\ l.state \in Int /\ lq.state \in Int
        /\ k.state \in Int /\ kq.state \in Int
    BY <2>1, LameTypes, KeyTypes
  \* The other peer decrypts with its newest key, or with the retiring one.
  <2>5. /\ Enabled(q, kq) => DecryptedBy(q, kq.id, latency)
        /\ lq.state >= S_ACTIVE /\ lq.die > latency => DecryptedBy(q, lq.id, latency)
    BY <2>4 DEF DecryptedBy, Enabled
  <2>6. ~ Pending(k) /\ DecryptedBy(q, k.id, latency) => Decrypted(p)
    BY <2>1, SelectsNew
  <2>7. Pending(k) /\ l.state >= S_ACTIVE /\ l.defer = 0 /\ DecryptedBy(q, l.id, latency)
           => Decrypted(p)
    <3> SUFFICES ASSUME Pending(k), l.state >= S_ACTIVE, l.defer = 0,
                        DecryptedBy(q, l.id, latency)
                 PROVE  Decrypted(p)
      OBVIOUS
    <3>1. 2 \in InUse(p) /\ Selected(p, 2) /\ Scan(p)[2].id = l.id
      BY <2>1, SelectsOld
    <3> QED
      BY <3>1
  <2> HIDE DEF q, k, kq, l, lq, latency, Decrypted
  <2>8. CASE Link(p, k, kq, l, lq, net[q]) /\ Link(q, kq, k, lq, l, net[p])
    <3>1. CASE ~ Pending(k)
      <4>1. Enabled(q, kq) /\ k.id = kq.id
        BY <2>1, <2>8, <3>1, KeyTypes DEF Link, Pace, Pending, q
      <4> QED
        BY <2>5, <2>6, <3>1, <4>1
    <3>2. CASE Pending(k)
      <4>1. /\ l.state >= S_ACTIVE /\ l.defer = 0 /\ l.id = lq.id /\ lq.state >= S_ACTIVE
        BY <2>8, <3>2 DEF Link, Kept
      <4>2. lq.die > latency
        <5>1. CASE Doomed(kq)
          <6>1. Pending(kq)
            BY <2>4, <5>1 DEF Doomed, Pending
          <6>2. lq.die >= TransitionWindow - HandshakeWindow + Rem(kq)
            BY <2>8, <6>1 DEF Link, Kept
          <6> QED
            BY <2>3, <2>4, <6>2, Windows DEF latency
        <5>2. CASE ~ Doomed(kq)
          <6>1. lq.die >= TransitionWindow - 2 * HandshakeWindow + Rem(k) + 1
            BY <2>8, <3>2, <5>2 DEF Link, Kept
          <6> QED
            BY <2>3, <2>4, <6>1, Windows DEF latency
        <5> QED
          BY <5>1, <5>2
      <4> QED
        BY <2>5, <2>7, <3>2, <4>1, <4>2
    <3> QED
      BY <3>1, <3>2
  <2>9. CASE Lead(p, k, kq, l, net[q], net[p])
    <3>1. Pending(k) /\ l.state >= S_ACTIVE /\ l.defer = 0 /\ l.id = kq.id /\ ~ Pending(kq)
      <4>1. k.state \in {S_INITIAL, S_PRE_START}
        BY <2>9 DEF Lead, AtStart
      <4>2. Pending(k)
        BY <4>1 DEF Pending
      <4> QED
        BY <2>9, <4>2 DEF Lead
    <3>2. Enabled(q, kq)
      BY <2>4, <3>1 DEF Pending, Enabled
    <3> QED
      BY <2>5, <2>7, <3>1, <3>2
  <2>10. CASE Lead(q, kq, k, lq, net[p], net[q])
    <3>1. /\ ~ Pending(k) /\ lq.state >= S_ACTIVE /\ lq.id = k.id
          /\ lq.die >= TransitionWindow - HandshakeWindow + Rem(kq)
      BY <2>10 DEF Lead
    <3>2. lq.die > latency
      BY <2>3, <2>4, <3>1, Windows DEF latency
    <3> QED
      BY <2>5, <2>6, <3>1, <3>2
  <2> QED
    BY <2>2, <2>8, <2>9, <2>10 DEF q, k, kq, l, lq
<1>2. Shape /\ Steady => Understood
  BY <1>1 DEF Steady, Understood
<1> QED
  BY <1>2, SteadyInvariant, PTL

---------------------------------------------------------------------------
(* A packet that is lost doubles the time a handshake may have taken, and adds *)
(* one timeout to it.                                                          *)

\* How long the handshake of a key has taken.
Elapsed(key) == HandshakeWindow - Rem(key)

\* What a key has sent, and is not acknowledged, is on its way, or what
\* acknowledges it is, or is about to be sent.
Covered(kp, kq, out, in) ==
    \A a \in kp.una :
        \/ \E i \in DOMAIN out : out[i].key_id = kp.id /\ out[i].packet_id = a
        \/ kq.id = kp.id /\ a \in kq.acks
        \/ \E i \in DOMAIN in : in[i].key_id = kp.id /\ a \in in[i].acks

\* A packet of the key is to be sent now, or waits.
Timed(key) ==
    /\ key.due # {} => key.wait = 0
    /\ key.una # {} /\ key.due = {} => key.wait > 0

\* When the packet of kp that is not acknowledged is sent next, neither handshake
\* has taken longer than c, and the try after it comes in time for the next fault.
Affords(kp, kq, c) ==
    /\ kp.state < S_ACTIVE => Elapsed(kp) + kp.wait <= c
    /\ kq.state < S_ACTIVE => Elapsed(kq) + kp.wait <= c
    /\ kp.timeout <= c + PacketTimeout

\* The handshake of kp has not taken longer than c, nor will it before its packet
\* is sent again, except for one of which nothing is lost now.
Charged(kp, kq, out, in, c) ==
    /\ Timed(kp)
    /\ kp.state < S_ACTIVE => Elapsed(kp) <= c
    /\ kp.una # {} =>
          \/ Affords(kp, kq, c)
          \/ /\ Affords(kp, kq, 2 * c + PacketTimeout)
             /\ kp.due = {}
             /\ Covered(kp, kq, out, in)

AllCharged(prim, nt, c) ==
    \A p \in Peers : Charged(prim[p], prim[Other(p)], nt[Other(p)], nt[p], c)

Thrift ==
    lates = 0 =>
        IF \A p \in Peers : Up(p) THEN AllCharged(primary, net, Backoff[faults])
        ELSE Backoff[faults] >= HandshakeWindow

LEMMA BackoffIs ==
    ASSUME NEW f \in 0..MaxFaults
    PROVE  /\ Backoff[f] \in Nat /\ PacketTimeout \in Nat \ {0}
           /\ f + 1 \in 0..MaxFaults =>
                 /\ Backoff[f + 1] = 2 * Backoff[f] + PacketTimeout
                 /\ Backoff[f + 1] >= Backoff[f]
<1>1. Backoff[f] \in Nat /\ PacketTimeout \in Nat \ {0}
  BY BackoffAssumption
<1>2. ASSUME f + 1 \in 0..MaxFaults
      PROVE  Backoff[f + 1] = 2 * Backoff[f] + PacketTimeout
  <2>1. f + 1 \in 1..MaxFaults /\ (f + 1) - 1 = f
    BY <1>2, BoundAssumption
  <2> QED
    BY <2>1, BackoffAssumption
<1> QED
  BY <1>1, <1>2

\* The same, seen by one of the two.
LEMMA ChargedIs ==
    ASSUME NEW p \in Peers, NEW q, q = Other(p), NEW prim, NEW nt, NEW c
    PROVE  AllCharged(prim, nt, c) <=>
              /\ Charged(prim[p], prim[q], nt[q], nt[p], c)
              /\ Charged(prim[q], prim[p], nt[p], nt[q], c)
<1>1. Peers = {p, q} /\ Other(p) = q /\ Other(q) = p
  BY Two
<1> QED
  BY <1>1 DEF AllCharged

LEMMA ElapsedType ==
    ASSUME NEW p \in Peers, NEW k \in Keys, Own(p, k)
    PROVE  Elapsed(k) \in Nat
BY Windows, KeyTypes DEF Elapsed, Rem, Own

LEMMA ElapsedInt ==
    ASSUME NEW k \in Keys
    PROVE  Elapsed(k) \in Int /\ k.state \in Int /\ k.wait \in Nat /\ k.timeout \in Nat
BY Windows, KeyTypes DEF Elapsed, Rem

\* A key has one packet at a time that is not acknowledged.
LEMMA OneOut ==
    ASSUME NEW p \in Peers, NEW k \in Keys, Own(p, k), NEW a \in k.una
    PROVE  k.una = {a}
<1>1. k.una \subseteq {ResetPacket, KeyPacket}
  BY KeyTypes DEF Packets
<1>2. ~ (ResetPacket \in k.una /\ KeyPacket \in k.una)
  <2>1. KeyPacket \in k.una => k.state >= S_SENT_KEY
    BY DEF Own, SentBy
  <2>2. ResetPacket \in k.una => ~ (k.state >= S_START)
    BY Zenon DEF Own
  <2>3. k.state \in Int
    BY StateType, Zenon
  <2> QED
    BY <2>1, <2>2, <2>3
<1> QED
  BY <1>1, <1>2

\* What a pass leaves in the key: the packet it had, or a new one to be sent.
Handed(k, k2) ==
    /\ k2.id = k.id /\ k2.acks = k.acks
    /\ \/ k2.una = k.una /\ k2.due = k.due /\ k2.wait = k.wait /\ k2.timeout = k.timeout
       \/ k2.due = k2.una /\ k2.wait = 0 /\ k2.timeout = PacketTimeout

LEMMA PassHands ==
    ASSUME NEW p \in Peers, NEW k \in Keys, Own(p, k), ~ TimesOut(Opened(p, k))
    PROVE  LET top == Top(p, k)
           IN  Handed(k, top) /\ Handed(k, Bottom(p, top))
<1> DEFINE k1 == Opened(p, k)
           k2 == Aged(k1)
           k3 == Synced(p, k2)
           k4 == Taken(k3)
           k5 == KeySent(p, k4)
           k6 == KeyRead(p, k5)
<1>1. k1 \in Keys /\ Own(p, k1) /\ ~ TimesOut(k1) /\ Handed(k, k1)
  BY OpenedIs, OpenedGood DEF Handed
<1> HIDE DEF k1
<1>2. k2 \in Keys /\ Own(p, k2) /\ ~ TimesOut(k2) /\ Handed(k, k2)
  <2>1. k2 \in Keys /\ Own(p, k2) /\ ~ TimesOut(k2)
    BY <1>1, AgedIs, AgedGood
  <2>2. /\ k2.id = k1.id /\ k2.acks = k1.acks /\ k2.una = k1.una /\ k2.due = k1.due
        /\ k2.wait = k1.wait /\ k2.timeout = k1.timeout
    BY <1>1, AgedIs
  <2> QED
    BY <1>1, <2>1, <2>2 DEF Handed
<1> HIDE DEF k2
<1>3. k3 \in Keys /\ Own(p, k3) /\ Handed(k, k3)
  BY <1>2, SyncedIs, SyncedGood DEF Handed
<1> HIDE DEF k3
<1>4. k4 \in Keys /\ Own(p, k4) /\ Handed(k, k4)
  BY <1>3, TakenIs, TakenGood DEF Handed
<1> HIDE DEF k4
<1>5. k5 \in Keys /\ Handed(k, k5)
  <2>1. k5 \in Keys /\ k5.id = k4.id /\ k5.acks = k4.acks
    BY <1>4, KeySentIs
  <2>2. CASE k5 = k4
    BY <1>4, <2>1, <2>2
  <2>3. CASE k5 # k4
    <3>1. /\ k4.state >= S_START
          /\ k5.una = k4.una \union {KeyPacket} /\ k5.due = k4.due \union {KeyPacket}
          /\ k5.wait = 0 /\ k5.timeout = PacketTimeout
      BY <1>4, <2>3, KeySentIs
    <3>2. k4.una \subseteq {KeyPacket} /\ k4.due \subseteq {KeyPacket}
      <4>1. ResetPacket \notin k4.una /\ k4.due \subseteq k4.una
        BY <1>4, <3>1, Zenon DEF Own
      <4>2. k4.una \subseteq {ResetPacket, KeyPacket}
        BY <1>4, KeyTypes DEF Packets
      <4> QED
        BY <4>1, <4>2
    <3>3. k5.due = k5.una
      BY <3>1, <3>2
    <3> QED
      BY <1>4, <2>1, <3>1, <3>3 DEF Handed
  <2> QED
    BY <2>2, <2>3
<1> HIDE DEF k5
<1>6. Handed(k, k6)
  BY <1>5, KeyReadIs DEF Handed
<1>7. Top(p, k) = k3 /\ Bottom(p, k3) = k6
  BY DEF Top, Bottom, k1, k2, k3, k4, k5, k6
<1> QED
  BY <1>3, <1>6, <1>7

\* A pass that sends nothing, of the key k, which becomes k2.
LEMMA ChargedWorks ==
    ASSUME NEW p, NEW k \in Keys, NEW k2 \in Keys, NEW kq \in Keys, NEW out, NEW in,
           NEW c \in Nat, Handed(k, k2), Progress(p, k, k2),
           Charged(k, kq, out, in, c), Charged(kq, k, in, out, c)
    PROVE  Charged(k2, kq, out, in, c) /\ Charged(kq, k2, in, out, c)
<1>1. /\ k2.state < S_ACTIVE => k.state < S_ACTIVE
      /\ Elapsed(k2) = Elapsed(k)
  <2>1. k.state \in Int /\ k2.state \in Int
    BY StateType, Zenon
  <2> QED
    BY <2>1 DEF Progress, Elapsed
<1>2. /\ Elapsed(k) \in Int /\ k.wait \in Nat /\ k.timeout \in Nat
      /\ Elapsed(kq) \in Int /\ kq.wait \in Nat /\ kq.timeout \in Nat
      /\ PacketTimeout \in Nat
  BY ElapsedInt, BackoffAssumption
<1>3. k2.id = k.id /\ k2.acks = k.acks
  BY DEF Handed
<1>4. Charged(kq, k2, in, out, c)
  BY <1>1, <1>3, Zenon DEF Charged, Affords, Covered
<1>5. CASE k2.una = k.una /\ k2.due = k.due /\ k2.wait = k.wait /\ k2.timeout = k.timeout
  BY <1>1, <1>3, <1>4, <1>5, Zenon DEF Charged, Timed, Affords, Covered
<1>6. CASE k2.due = k2.una /\ k2.wait = 0 /\ k2.timeout = PacketTimeout
  <2>1. Timed(k2)
    BY <1>6 DEF Timed
  <2>2. Affords(k2, kq, c)
    BY <1>1, <1>2, <1>6 DEF Charged, Affords
  <2>3. k2.state < S_ACTIVE => Elapsed(k2) <= c
    BY <1>1 DEF Charged
  <2> QED
    BY <1>4, <2>1, <2>2, <2>3 DEF Charged
<1> QED
  BY <1>5, <1>6 DEF Handed

\* After a fault there is more to afford.
LEMMA ChargedMore ==
    ASSUME NEW k \in Keys, NEW kq \in Keys, NEW out, NEW in, NEW out2, NEW in2,
           NEW c \in Nat, Charged(k, kq, out, in, c)
    PROVE  Charged(k, kq, out2, in2, 2 * c + PacketTimeout)
<1> DEFINE c2 == 2 * c + PacketTimeout
<1>1. /\ Elapsed(k) \in Int /\ k.wait \in Nat /\ k.timeout \in Nat
      /\ Elapsed(kq) \in Int /\ PacketTimeout \in Nat
  BY ElapsedInt, BackoffAssumption
<1>2. c2 \in Nat /\ c <= c2
  BY <1>1
<1>3. Affords(k, kq, c) => Affords(k, kq, c2)
  <2> HIDE DEF c2
  <2> QED
    BY <1>1, <1>2 DEF Affords
<1>4. k.state < S_ACTIVE => Elapsed(k) <= c2
  <2> HIDE DEF c2
  <2> QED
    BY <1>1, <1>2 DEF Charged
<1> HIDE DEF c2
<1>5. k.una # {} => Affords(k, kq, c2)
  BY <1>3 DEF Charged, c2
<1>6. Charged(k, kq, out2, in2, c2)
  BY <1>4, <1>5 DEF Charged
<1> QED
  BY <1>6 DEF c2

\* A packet covers what it acknowledges, and the packet it is.
LEMMA SentCovers ==
    ASSUME NEW k, NEW k2, NEW kq, NEW out \in Seq(Messages), NEW in, NEW m \in Messages,
           k2.id = k.id, m.key_id = k.id, m.acks = k.acks
    PROVE  LET out2 == Append(out, m) IN
           /\ Covered(kq, k, in, out) => Covered(kq, k2, in, out2)
           /\ k2.una = k.una /\ Covered(k, kq, out, in) => Covered(k2, kq, out2, in)
           /\ k2.una = {m.packet_id} => Covered(k2, kq, out2, in)
<1> DEFINE out2 == Append(out, m)
           n == Len(out) + 1
<1>1. /\ \A i \in DOMAIN out : i \in DOMAIN out2 /\ out2[i] = out[i]
      /\ n \in DOMAIN out2 /\ out2[n] = m
  BY Appended
<1> HIDE DEF out2, n
<1>2. Covered(kq, k, in, out) => Covered(kq, k2, in, out2)
  BY <1>1, Zenon DEF Covered
<1>3. k2.una = k.una /\ Covered(k, kq, out, in) => Covered(k2, kq, out2, in)
  BY <1>1, Zenon DEF Covered
<1>4. k2.una = {m.packet_id} => Covered(k2, kq, out2, in)
  BY <1>1 DEF Covered
<1> QED
  BY <1>2, <1>3, <1>4 DEF out2

\* A pass that sends the packet the key has to send.
LEMMA ChargedTry ==
    ASSUME NEW p \in Peers, NEW k \in Keys, NEW kq \in Keys, Own(p, k),
           NEW out \in Seq(Messages), NEW in, NEW c \in Nat, NEW i \in k.due,
           NEW m \in Messages, m.packet_id = i, m.key_id = k.id, m.acks = k.acks,
           Charged(k, kq, out, in, c), Charged(kq, k, in, out, c)
    PROVE  LET k2 == [Tried(k, i) EXCEPT !.acks = {}]
               c2 == 2 * c + PacketTimeout
           IN  /\ Charged(k2, kq, Append(out, m), in, c)
               /\ Charged(kq, k2, in, Append(out, m), c)
               /\ Charged(k2, kq, out, in, c2) /\ Charged(kq, k2, in, out, c2)
<1> DEFINE k2 == [Tried(k, i) EXCEPT !.acks = {}]
           c2 == 2 * c + PacketTimeout
           out2 == Append(out, m)
<1>1. /\ k2 \in Keys /\ k2.due = k.due \ {i} /\ k2.una = k.una
      /\ k2.wait = k.timeout /\ k2.timeout = 2 * k.timeout
      /\ k2.state = k.state /\ k2.id = k.id /\ k2.defer = k.defer
  BY TriedIs
<1> HIDE DEF k2
<1>2. k.una = {i} /\ k2.due = {}
  <2>1. k.due \subseteq k.una
    BY DEF Own
  <2>2. k.una = {i}
    BY <2>1, OneOut
  <2> QED
    BY <1>1, <2>1, <2>2
<1>3. /\ Elapsed(k) \in Int /\ k.timeout \in Nat /\ Elapsed(kq) \in Int
      /\ PacketTimeout \in Nat /\ kq.wait \in Nat
  BY ElapsedInt, BackoffAssumption
<1>4. Elapsed(k2) = Elapsed(k)
  BY <1>1 DEF Elapsed, Rem
<1>5. k.wait = 0 /\ Affords(k, kq, c)
  BY <1>2 DEF Charged, Timed
<1>6. Affords(k2, kq, c2)
  BY <1>1, <1>3, <1>4, <1>5 DEF Affords
<1>7. c2 \in Nat /\ c <= c2
  BY <1>3
<1>8. Timed(k2)
  <2>1. k.timeout > 0
    BY KeyTypes
  <2> QED
    BY <1>1, <1>2, <2>1 DEF Timed
<1>9. Charged(k2, kq, out2, in, c)
  <2>1. Covered(k2, kq, out2, in)
    BY <1>1, <1>2, SentCovers
  <2>2. k2.state < S_ACTIVE => Elapsed(k2) <= c
    BY <1>1, <1>4 DEF Charged
  <2> QED
    BY <1>2, <1>6, <1>8, <2>1, <2>2 DEF Charged
<1>10. Charged(kq, k2, in, out2, c)
  <2>1. Covered(kq, k, in, out) => Covered(kq, k2, in, out2)
    BY <1>1, SentCovers
  <2>2. \A b : Affords(kq, k, b) => Affords(kq, k2, b)
    BY <1>1, <1>4 DEF Affords
  <2> HIDE DEF out2, c2
  <2> QED
    BY <2>1, <2>2, Zenon DEF Charged
<1> HIDE DEF c2
<1>11. Charged(k2, kq, out, in, c2)
  <2>1. k2.state < S_ACTIVE => Elapsed(k2) <= c2
    BY <1>1, <1>3, <1>4, <1>7 DEF Charged
  <2> QED
    BY <1>6, <1>8, <2>1 DEF Charged
<1>12. Charged(kq, k2, in, out, c2)
  BY <1>1, <1>10, ChargedMore DEF c2
<1> QED
  BY <1>9, <1>10, <1>11, <1>12 DEF k2, c2, out2

\* A pass that sends a dedicated acknowledgement.
LEMMA ChargedAck ==
    ASSUME NEW k \in Keys, NEW kq \in Keys,
           NEW out \in Seq(Messages), NEW in, NEW c \in Nat,
           NEW m \in Messages, m.key_id = k.id, m.acks = k.acks,
           Charged(k, kq, out, in, c), Charged(kq, k, in, out, c)
    PROVE  LET k2 == [k EXCEPT !.acks = {}]
               c2 == 2 * c + PacketTimeout
           IN  /\ Charged(k2, kq, Append(out, m), in, c)
               /\ Charged(kq, k2, in, Append(out, m), c)
               /\ Charged(k2, kq, out, in, c2) /\ Charged(kq, k2, in, out, c2)
<1> DEFINE k2 == [k EXCEPT !.acks = {}]
           c2 == 2 * c + PacketTimeout
           out2 == Append(out, m)
<1>1. /\ k2 \in Keys /\ k2.due = k.due /\ k2.una = k.una
      /\ k2.wait = k.wait /\ k2.timeout = k.timeout
      /\ k2.state = k.state /\ k2.id = k.id /\ k2.defer = k.defer
  BY AckedIs
<1> HIDE DEF k2
<1>2. Elapsed(k2) = Elapsed(k)
  BY <1>1 DEF Elapsed, Rem
<1>3. /\ Covered(kq, k, in, out) => Covered(kq, k2, in, out2)
      /\ Covered(k, kq, out, in) => Covered(k2, kq, out2, in)
  BY <1>1, SentCovers
<1>4. /\ \A b : Affords(kq, k, b) => Affords(kq, k2, b)
      /\ \A b : Affords(k, kq, b) => Affords(k2, kq, b)
  BY <1>1, <1>2 DEF Affords
<1>5. Timed(k) => Timed(k2)
  BY <1>1 DEF Timed
<1> HIDE DEF out2, c2
<1>6. Charged(k2, kq, out2, in, c)
  BY <1>1, <1>2, <1>3, <1>4, <1>5, Zenon DEF Charged
<1>7. Charged(kq, k2, in, out2, c)
  BY <1>3, <1>4, Zenon DEF Charged
<1>8. Charged(k2, kq, out, in, c2) /\ Charged(kq, k2, in, out, c2)
  BY <1>1, <1>6, <1>7, ChargedMore DEF c2
<1> QED
  BY <1>6, <1>7, <1>8 DEF k2, c2, out2

\* What the two keys have come to be charged.
LEMMA ChargedPass ==
    ASSUME Shape, NEW p \in Peers, NEW k2 \in Keys, NEW c, NEW out, NEW in,
           primary' = [primary EXCEPT ![p] = k2],
           net'[Other(p)] = out, net'[p] = in,
           Charged(k2, primary[Other(p)], out, in, c),
           Charged(primary[Other(p)], k2, in, out, c)
    PROVE  AllCharged(primary', net', c)
<1> DEFINE prim2 == primary'
           nt2 == net'
           q == Other(p)
<1>1. prim2[p] = k2 /\ prim2[q] = primary[q] /\ nt2[q] = out /\ nt2[p] = in
  BY Two DEF Shape
<1>2. Charged(prim2[p], prim2[q], nt2[q], nt2[p], c)
  BY <1>1
<1>3. Charged(prim2[q], prim2[p], nt2[p], nt2[q], c)
  BY <1>1
<1> HIDE DEF prim2, nt2
<1>4. AllCharged(prim2, nt2, c)
  BY <1>2, <1>3, ChargedIs
<1> QED
  BY <1>4 DEF prim2, nt2

---------------------------------------------------------------------------
(* The charge of a packet that is received, and of a key that is renewed. *)

\* Nothing of the receiver's key is uncovered by what it receives.
LEMMA TakerCovered ==
    ASSUME NEW k \in Keys, NEW kq, NEW out, NEW in \in Seq(Messages), in # << >>,
           Covered(k, kq, out, in)
    PROVE  Covered(Taking(k, Head(in)), kq, out, Tail(in))
<1> DEFINE m == Head(in)
           k2 == Taking(k, m)
           rest == Tail(in)
<1>1. m \in Messages /\ m = in[1]
  BY Tailed
<1>2. ASSUME NEW i \in DOMAIN in, i # 1
      PROVE  \E j \in DOMAIN rest : rest[j] = in[i]
  <2>1. i - 1 \in DOMAIN rest /\ rest[i - 1] = in[i]
    BY <1>2
  <2> QED
    BY <2>1
<1> HIDE DEF rest
<1>3. /\ k2.id = k.id
      /\ m.key_id # k.id => k2 = k
      /\ m.key_id = k.id => k2.una = k.una \ m.acks
  BY <1>1, TakingIs
<1> HIDE DEF k2, m
<1>4. ASSUME NEW a \in k2.una
      PROVE  \/ \E i \in DOMAIN out : out[i].key_id = k2.id /\ out[i].packet_id = a
             \/ kq.id = k2.id /\ a \in kq.acks
             \/ \E i \in DOMAIN rest : rest[i].key_id = k2.id /\ a \in rest[i].acks
  <2>1. a \in k.una /\ (m.key_id = k.id => a \notin m.acks)
    BY <1>3
  <2>2. ASSUME NEW i \in DOMAIN in, in[i].key_id = k.id, a \in in[i].acks
        PROVE  \E j \in DOMAIN rest : rest[j].key_id = k2.id /\ a \in rest[j].acks
    <3>1. i # 1
      BY <1>1, <2>1, <2>2
    <3> QED
      BY <1>2, <1>3, <2>2, <3>1
  <2> QED
    BY <1>3, <2>1, <2>2 DEF Covered
<1> QED
  BY <1>4 DEF Covered, k2, m, rest

\* What is received of the other key will be acknowledged.
LEMMA GiverCovered ==
    ASSUME NEW k \in Keys, NEW kq, NEW in \in Seq(Messages), NEW out, in # << >>,
           Head(in).key_id = kq.id /\ Head(in).packet_id \in kq.una => k.id = kq.id,
           NoPacket \notin kq.una, Covered(kq, k, in, out)
    PROVE  Covered(kq, Taking(k, Head(in)), Tail(in), out)
<1> DEFINE m == Head(in)
           k2 == Taking(k, m)
           rest == Tail(in)
<1>1. m \in Messages /\ m = in[1]
  BY Tailed
<1>2. ASSUME NEW i \in DOMAIN in, i # 1
      PROVE  \E j \in DOMAIN rest : rest[j] = in[i]
  <2>1. i - 1 \in DOMAIN rest /\ rest[i - 1] = in[i]
    BY <1>2
  <2> QED
    BY <2>1
<1> HIDE DEF rest
<1>3. /\ k2.id = k.id
      /\ m.key_id # k.id => k2 = k
      /\ m.key_id = k.id =>
           /\ m.packet_id = NoPacket => k2.acks = k.acks
           /\ m.packet_id # NoPacket => k2.acks = k.acks \union {m.packet_id}
  BY <1>1, TakingIs
<1>4. m.key_id = kq.id /\ m.packet_id \in kq.una => k.id = kq.id
  OBVIOUS
<1> HIDE DEF k2, m
<1>5. k.acks \subseteq k2.acks
  BY <1>3
<1>6. ASSUME NEW a \in kq.una
      PROVE  \/ \E i \in DOMAIN rest : rest[i].key_id = kq.id /\ rest[i].packet_id = a
             \/ k2.id = kq.id /\ a \in k2.acks
             \/ \E i \in DOMAIN out : out[i].key_id = kq.id /\ a \in out[i].acks
  <2>1. ASSUME NEW i \in DOMAIN in, in[i].key_id = kq.id, in[i].packet_id = a
        PROVE  \/ \E j \in DOMAIN rest : rest[j].key_id = kq.id /\ rest[j].packet_id = a
               \/ k2.id = kq.id /\ a \in k2.acks
    <3>1. CASE i = 1
      <4>1. m.key_id = kq.id /\ m.packet_id = a
        BY <1>1, <2>1, <3>1
      <4>2. a # NoPacket /\ k.id = kq.id
        BY <1>4, <4>1
      <4> QED
        BY <1>3, <4>1, <4>2
    <3>2. CASE i # 1
      BY <1>2, <2>1, <3>2
    <3> QED
      BY <3>1, <3>2
  <2> QED
    BY <1>3, <1>5, <2>1 DEF Covered
<1> QED
  BY <1>6 DEF Covered, k2, m, rest

\* The packet of the receiver's key is acknowledged, or it waits as it did.
LEMMA TakerTimed ==
    ASSUME NEW p \in Peers, NEW k \in Keys, Own(p, k), NEW m \in Messages
    PROVE  LET k2 == Taking(k, m) IN
           \/ k2.una = k.una /\ k2.due = k.due
           \/ k2.una = {} /\ k2.due = {}
<1> DEFINE k2 == Taking(k, m)
<1> SUFFICES \/ k2.una = k.una /\ k2.due = k.due
             \/ k2.una = {} /\ k2.due = {}
  OBVIOUS
<1>1. /\ m.key_id # k.id => k2 = k
      /\ m.key_id = k.id => k2.una = k.una \ m.acks /\ k2.due = k.due \ m.acks
  BY TakingIs
<1> HIDE DEF k2
<1>2. k.due \subseteq k.una
  BY DEF Own
<1>3. CASE k.una \intersect m.acks = {}
  BY <1>1, <1>2, <1>3
<1>4. CASE k.una \intersect m.acks # {}
  <2>1. PICK a \in k.una : a \in m.acks
    BY <1>4
  <2>2. k.una = {a}
    BY <2>1, OneOut
  <2> QED
    BY <1>1, <1>2, <2>1, <2>2
<1> QED
  BY <1>3, <1>4

\* What the packet does to what both keys are charged.
LEMMA ChargedTaking ==
    ASSUME NEW p \in Peers, NEW k \in Keys, NEW kq \in Keys, Own(p, k), NEW out,
           NEW in \in Seq(Messages), in # << >>, NEW c \in Nat,
           Head(in).key_id = kq.id /\ Head(in).packet_id \in kq.una => k.id = kq.id,
           Charged(k, kq, out, in, c), Charged(kq, k, in, out, c)
    PROVE  LET k2 == Taking(k, Head(in)) IN
           Charged(k2, kq, out, Tail(in), c) /\ Charged(kq, k2, Tail(in), out, c)
<1> DEFINE m == Head(in)
           k2 == Taking(k, m)
           rest == Tail(in)
<1>1. m \in Messages
  BY Tailed
<1>2. /\ k2.state = k.state /\ k2.defer = k.defer
      /\ k2.wait = k.wait /\ k2.timeout = k.timeout
  BY <1>1, TakingIs
<1>3. \/ k2.una = k.una /\ k2.due = k.due
      \/ k2.una = {} /\ k2.due = {}
  BY <1>1, TakerTimed
<1>4. Covered(k, kq, out, in) => Covered(k2, kq, out, rest)
  BY TakerCovered
<1>5. Covered(kq, k, in, out) => Covered(kq, k2, rest, out)
  <2>1. NoPacket \notin kq.una
    BY KeyTypes DEF Packets
  <2> QED
    BY <2>1, GiverCovered
<1> HIDE DEF k2, m, rest
<1>6. Elapsed(k2) = Elapsed(k)
  BY <1>2 DEF Elapsed, Rem
<1>7. /\ \A b : Affords(k, kq, b) => Affords(k2, kq, b)
      /\ \A b : Affords(kq, k, b) => Affords(kq, k2, b)
  BY <1>2, <1>6 DEF Affords
<1>8. Charged(k2, kq, out, rest, c)
  <2>1. Timed(k2)
    BY <1>2, <1>3 DEF Charged, Timed
  <2>2. k2.una # {} => k.una # {} /\ k2.due = k.due
    BY <1>3
  <2> QED
    BY <1>2, <1>4, <1>6, <1>7, <2>1, <2>2, Zenon DEF Charged
<1>9. Charged(kq, k2, rest, out, c)
  BY <1>5, <1>7, Zenon DEF Charged
<1> QED
  BY <1>8, <1>9 DEF k2, m, rest

\* A key that has just been made has not lost anything, and the other one's soft
\* reset is received with it, or still on its way.
LEMMA FreshCharged ==
    ASSUME NEW p \in Peers, NEW q \in Peers, NEW k2 \in Keys, NEW kq \in Keys, Fresh(k2),
           Own(q, kq), NEW k, NEW out, NEW in, NEW in2, NEW c \in Nat, NEW c2 \in Nat,
           Charged(kq, k, in, out, c), kq.state < S_ACTIVE => c2 = c,
           Covered(kq, k, in, out) => Covered(kq, k2, in2, out)
    PROVE  Charged(k2, kq, out, in2, c2) /\ Charged(kq, k2, in2, out, c2)
<1>1. Elapsed(k2) = 0 /\ Elapsed(kq) \in Nat
  BY FreshGood, ElapsedType, Windows DEF Elapsed
<1>2. Charged(k2, kq, out, in2, c2)
  BY <1>1 DEF Charged, Timed, Fresh
<1>3. kq.state \in Int /\ kq.wait \in Nat /\ kq.timeout \in Nat /\ PacketTimeout \in Nat
  BY ElapsedInt, BackoffAssumption
<1>4. CASE kq.state >= S_ACTIVE
  <2>1. kq.una = {} /\ kq.due = {} /\ ~ (kq.state < S_ACTIVE)
    BY <1>3, <1>4 DEF Own
  <2> QED
    BY <1>2, <2>1 DEF Charged, Timed
<1>5. CASE kq.state < S_ACTIVE
  <2>1. ASSUME NEW b, Affords(kq, k, b), b = c \/ b = 2 * c + PacketTimeout
        PROVE  Affords(kq, k2, b)
    <3>1. b \in Nat
      BY <1>3, <2>1
    <3> QED
      BY <1>1, <1>3, <1>5, <2>1, <3>1 DEF Affords
  <2> QED
    BY <1>2, <1>5, <2>1, Zenon DEF Charged
<1> QED
  BY <1>3, <1>4, <1>5

LEMMA ResetCharged ==
    ASSUME Shape, NEW p \in Peers, Good(primary, lame, net),
           AllCharged(primary, net, Backoff[faults]),
           RenegotiationDue(primary[p]), SoftReset(p), UNCHANGED net
    PROVE  AllCharged(primary', net', Backoff[faults'])
<1> DEFINE q == Other(p)
           k == primary[p]
           kq == primary[q]
           l == lame[p]
           lq == lame[q]
           k2 == KeyStateInit(NextKeyId(k.id))
           prim2 == primary'
           c == Backoff[faults]
           c2 == Backoff[faults']
<1>0. q \in Peers /\ q # p /\ Other(q) = p /\ Peers = {p, q}
  BY Two
<1>1. k \in Keys /\ kq \in Keys /\ lq \in LameKeys /\ c \in Nat /\ c2 \in Nat
  <2>1. faults \in 0..MaxFaults /\ faults' \in 0..MaxFaults
    BY BoundAssumption DEF Shape, SoftReset
  <2> QED
    BY <1>0, <2>1, BackoffIs DEF Shape
<1>2. /\ prim2[p] = k2 /\ prim2[q] = kq /\ net' = net
      /\ ~ Agreed => c2 = c
  BY <1>0 DEF Shape, SoftReset
<1>3. k2 \in Keys /\ Fresh(k2) /\ k2.id = NextKeyId(k.id)
  BY <1>1, NextKeyIdType, KeyTypes, NewIsFresh
<1>4. k.state >= S_ACTIVE /\ k.reneg = 0
  BY DEF RenegotiationDue
<1>5. Agreed <=> k.state >= S_ACTIVE /\ kq.state >= S_ACTIVE /\ k.id = kq.id
  BY <1>0, PeersAssumption DEF Agreed, Peers
<1>6. Charged(kq, k, net[p], net[q], c)
  BY ChargedIs
<1>7. /\ Own(p, k) /\ Own(q, kq)
      /\ \/ Link(p, k, kq, l, lq, net[q]) /\ Link(q, kq, k, lq, l, net[p])
         \/ Lead(p, k, kq, l, net[q], net[p])
         \/ Lead(q, kq, k, lq, net[p], net[q])
  BY GoodIs
<1> HIDE DEF q, k, kq, l, lq, k2, prim2, c, c2
<1>8. SUFFICES /\ Charged(k2, kq, net[q], net[p], c2)
               /\ Charged(kq, k2, net[p], net[q], c2)
  <2>1. AllCharged(prim2, net, c2) <=>
          Charged(k2, kq, net[q], net[p], c2) /\ Charged(kq, k2, net[p], net[q], c2)
    BY <1>2, ChargedIs DEF q
  <2> QED
    BY <1>2, <2>1 DEF prim2, c2
<1>9. CASE Link(p, k, kq, l, lq, net[q])
  <2>1. ~ Pending(kq)
    <3>1. Rem(kq) \in Nat
      BY <1>1, Windows, KeyTypes DEF Rem
    <3> QED
      BY <1>4, <1>9, <3>1, Windows DEF Link, Pace
  <2>2. kq.state >= S_ACTIVE
    BY <1>1, <2>1, KeyTypes DEF Pending
  <2>3. ~ (kq.state < S_ACTIVE) /\ kq.una = {}
    <3>1. kq.state \in Int
      BY <1>1, StateType, Zenon
    <3> QED
      BY <1>7, <2>2, <3>1 DEF Own
  <2>4. Covered(kq, k2, net[p], net[q])
    BY <2>3 DEF Covered
  <2> QED
    BY <1>0, <1>1, <1>3, <1>6, <1>7, <2>3, <2>4, FreshCharged
<1>10. CASE Lead(p, k, kq, l, net[q], net[p])
  BY <1>4, <1>10 DEF Lead, AtStart
<1>11. CASE Lead(q, kq, k, lq, net[p], net[q])
  <2>1. kq.id # k.id
    BY <1>1, <1>11, NextKeyIdType, KeyTypes DEF Lead
  <2>2. c2 = c
    BY <1>2, <1>5, <2>1
  <2>3. Covered(kq, k, net[p], net[q]) => Covered(kq, k2, net[p], net[q])
    BY <2>1 DEF Covered
  <2> QED
    BY <1>0, <1>1, <1>3, <1>6, <1>7, <2>2, <2>3, FreshCharged
<1> QED
  BY <1>7, <1>9, <1>10, <1>11

LEMMA ReceiveCharged ==
    ASSUME Shape, NEW p \in Peers, Good(primary, lame, net),
           AllCharged(primary, net, Backoff[faults]), Up(p), Receive(p)
    PROVE  AllCharged(primary', net', Backoff[faults'])
<1> DEFINE q == Other(p)
           k == primary[p]
           kq == primary[q]
           l == lame[p]
           lq == lame[q]
           in == net[p]
           out == net[q]
           m == Head(in)
           rest == Tail(in)
           k2 == Taking(k, m)
           new == Taking(KeyStateInit(NextKeyId(k.id)), m)
           prim2 == primary'
           nt2 == net'
           c == Backoff[faults]
           c2 == Backoff[faults']
<1>0. q \in Peers /\ q # p /\ Other(q) = p /\ Peers = {p, q}
  BY Two
<1>1. /\ k \in Keys /\ kq \in Keys /\ l \in LameKeys /\ lq \in LameKeys
      /\ in \in Seq(Messages) /\ out \in Seq(Messages) /\ in # << >>
      /\ c \in Nat /\ c2 \in Nat
  <2>1. faults \in 0..MaxFaults /\ faults' \in 0..MaxFaults
    BY BoundAssumption DEF Shape, Receive, Processed
  <2> QED
    BY <1>0, <2>1, BackoffIs DEF Shape, Receive
<1>2. m \in Messages /\ rest \in Seq(Messages) /\ m = in[1] /\ 1 \in DOMAIN in
  BY <1>1, Tailed
<1>3. /\ prim2[q] = kq /\ nt2[q] = out /\ nt2[p] = rest
      /\ AsksForReset(p, m) => prim2[p] = new /\ (~ Agreed => c2 = c)
      /\ ~ AsksForReset(p, m) => prim2[p] = k2 /\ c2 = c
  BY <1>0 DEF Shape, Receive, Processed
<1>4. AsksForReset(p, m) <=> m.packet_id = ResetPacket /\ Enabled(p, k)
  BY DEF AsksForReset
<1>5. Agreed <=> k.state >= S_ACTIVE /\ kq.state >= S_ACTIVE /\ k.id = kq.id
  BY <1>0, PeersAssumption DEF Agreed, Peers
<1>6. Charged(k, kq, out, in, c) /\ Charged(kq, k, in, out, c)
  BY ChargedIs
<1>7. /\ Own(p, k) /\ Own(q, kq)
      /\ \/ Link(p, k, kq, l, lq, out) /\ Link(q, kq, k, lq, l, in)
         \/ Lead(p, k, kq, l, out, in)
         \/ Lead(q, kq, k, lq, in, out)
  BY GoodIs
<1> HIDE DEF q, k, kq, l, lq, in, out, m, rest, k2, new, prim2, nt2, c, c2
<1>8. AllCharged(prim2, nt2, c2) <=>
          Charged(prim2[p], kq, out, rest, c2) /\ Charged(kq, prim2[p], rest, out, c2)
  BY <1>3, ChargedIs DEF q
<1>10. ASSUME ~ AsksForReset(p, m), m.key_id = kq.id /\ m.packet_id \in kq.una => k.id = kq.id
       PROVE  AllCharged(prim2, nt2, c2)
  <2>1. Charged(k2, kq, out, rest, c) /\ Charged(kq, k2, rest, out, c)
    BY <1>1, <1>6, <1>7, <1>10, ChargedTaking DEF k2, m, rest
  <2> QED
    BY <1>3, <1>8, <1>10, <2>1
<1>11. CASE Link(p, k, kq, l, lq, out) /\ Link(q, kq, k, lq, l, in)
  <2>1. ~ AsksForReset(p, m)
    <3>1. Flow(q, kq, k, in)
      BY <1>11 DEF Link
    <3> QED
      BY <1>0, <1>1, <1>2, <1>4, <1>7, <3>1, NoneAsks
  <2>2. k.id = kq.id
    BY <1>11 DEF Link
  <2> QED
    BY <1>10, <2>1, <2>2 DEF prim2, nt2, c2
<1>12. CASE Lead(p, k, kq, l, out, in)
  <2>1. m.packet_id # ResetPacket
    BY <1>1, <1>12, LeadIgnores DEF m
  <2>2. kq.una = {}
    <3>1. ~ Pending(kq)
      BY <1>12 DEF Lead
    <3>2. kq.state \in Int
      BY <1>1, StateType, Zenon
    <3> QED
      BY <1>7, <3>1, <3>2 DEF Pending, Own
  <2> QED
    BY <1>4, <1>10, <2>1, <2>2 DEF prim2, nt2, c2
<1>13. CASE Lead(q, kq, k, lq, in, out)
  <2>1. k.state >= S_ACTIVE /\ kq.state \in {S_INITIAL, S_PRE_START}
    <3>1. AtStart(kq) /\ ~ Pending(k)
      BY <1>13 DEF Lead
    <3>2. k.state \in Int
      BY <1>1, StateType, Zenon
    <3> QED
      BY <3>1, <3>2 DEF Pending, AtStart
  <2>2. \A a \in kq.una : a = ResetPacket
    BY <1>1, <1>7, <2>1, KeyTypes DEF Own, SentBy
  <2>3. CASE m.packet_id # ResetPacket
    BY <1>4, <1>10, <2>2, <2>3 DEF prim2, nt2, c2
  <2>4. CASE m.packet_id = ResetPacket
    <3>0. k.state \in Int
      BY <1>1, StateType, Zenon
    <3>1. AsksForReset(p, m)
      BY <1>4, <2>1, <2>4, <3>0 DEF Enabled
    <3>2. m.key_id = kq.id /\ kq.id = NextKeyId(k.id)
      BY <1>2, <1>13, <2>4 DEF Lead
    <3>3. /\ new \in Keys /\ new.id = NextKeyId(k.id) /\ Fresh(new)
          /\ new.arrived = {ResetPacket}
      BY <1>1, <1>2, <2>4, <3>2, NextKeyIdType, KeyTypes, AskedIsFresh DEF new
    <3>4. c2 = c
      BY <1>1, <1>3, <1>5, <3>1, <3>2, NextKeyIdType, KeyTypes
    <3>5. Covered(kq, new, rest, out)
      BY <2>2, <3>2, <3>3 DEF Covered, Fresh
    <3>7. Charged(new, kq, out, rest, c2) /\ Charged(kq, new, rest, out, c2)
      BY <1>0, <1>1, <1>6, <1>7, <3>3, <3>4, <3>5, FreshCharged
    <3> QED
      BY <1>3, <1>8, <3>1, <3>7 DEF prim2, nt2, c2
  <2> QED
    BY <2>3, <2>4
<1> QED
  BY <1>7, <1>11, <1>12, <1>13

---------------------------------------------------------------------------
(* The charge of a second. *)

\* A pass of the server reads both packets of the client in the state that waits
\* for them.
LEMMA ServerReads ==
    ASSUME NEW k \in Keys, k.state = S_START, \A a \in Packets : Had(k, a),
           Quiet(Server, k)
    PROVE  FALSE
<1>0. Server \in Peers
  BY DEF Peers
<1>1. Opened(Server, k) = k
  BY <1>0, OpenedIs
<1>2. Aged(k) = k
  BY <1>1, AgedIs DEF Quiet, TimesOut
<1>3. Synced(Server, k) = k
  BY <1>0 DEF Synced, LastOfHandshake
<1>4. Bottom(Server, k) = k
  BY <1>1, <1>2, <1>3 DEF Quiet, Top
<1> DEFINE k1 == Taken(k)
           k2 == KeySent(Server, k1)
           k3 == KeyRead(Server, k2)
<1>5. k3 = k
  BY <1>4 DEF Bottom
<1>6. /\ k1 \in Keys /\ k1.state = k.state
      /\ k.read \notin k.arrived => k1 = k
      /\ k.read \in k.arrived => k1.read = k.read + 1
  BY TakenIs
<1> HIDE DEF k1
<1>7. k2 = k1
  BY <1>0, <1>6 DEF KeySent
<1> HIDE DEF k2
<1>8. k3.read = k1.read
  BY <1>0, <1>6, <1>7, KeyReadIs
<1>9. k.read \notin k.arrived
  BY <1>5, <1>6, <1>8, KeyTypes
<1>10. k.read = 2
  <2>1. Had(k, ResetPacket) /\ Had(k, KeyPacket)
    BY DEF Packets
  <2> QED
    BY <1>9, <2>1, KeyTypes DEF Had
<1>11. k3 = [k EXCEPT !.state = S_GOT_KEY]
  BY <1>0, <1>6, <1>7, <1>9, <1>10 DEF KeyRead
<1>12. k3.state = S_GOT_KEY
  BY <1>11 DEF Keys
<1> QED
  BY <1>5, <1>12

\* A key with nothing left to send or to acknowledge waits for the other peer in
\* one state of its handshake only.
LEMMA WaitsAt ==
    ASSUME NEW p \in Peers, NEW k \in Keys, Own(p, k), Quiet(p, k), FullSync(k),
           k.state < S_ACTIVE
    PROVE  k.state = IF p = Server THEN S_START ELSE S_SENT_KEY
<1>1. k.state # S_INITIAL /\ Opened(p, k) = k
  BY OpensAtOnce, OpenedIs
<1>2. Aged(k) = k
  BY <1>1, AgedIs DEF Quiet, TimesOut
<1> DEFINE k1 == Synced(p, k)
           k2 == Taken(k1)
           k3 == KeySent(p, k2)
           k4 == KeyRead(p, k3)
<1>3. /\ k1 \in Keys
      /\ k.state = S_PRE_START => k1.state = S_START
      /\ k.state # S_PRE_START /\ k.state = LastOfHandshake(p) => k1.state = S_ACTIVE
      /\ k.state # S_PRE_START /\ k.state # LastOfHandshake(p) => k1.state = k.state
  <2>1. k1 \in Keys
    BY SyncedIs
  <2>2. LastOfHandshake(p) # S_PRE_START
    BY DEF LastOfHandshake
  <2> QED
    BY <2>1, <2>2 DEF Synced, Keys
<1> HIDE DEF k1
<1>4. k2 \in Keys /\ k2.state = k1.state
  BY <1>3, TakenIs
<1> HIDE DEF k2
<1>5. /\ k3 \in Keys
      /\ k2.state = (IF p = Server THEN S_GOT_KEY ELSE S_START) => k3.state = S_SENT_KEY
      /\ k2.state # (IF p = Server THEN S_GOT_KEY ELSE S_START) => k3 = k2
  <2>1. k3 \in Keys
    BY <1>4, KeySentIs
  <2> QED
    BY <1>4, <2>1 DEF KeySent, Keys
<1> HIDE DEF k3
<1>6. \/ k4 = k3
      \/ /\ k3.state = (IF p = Server THEN S_START ELSE S_SENT_KEY)
         /\ k4.state = S_GOT_KEY
  BY <1>5, KeyReadIs
<1> HIDE DEF k4
<1>7. k4 = k
  BY <1>1, <1>2 DEF Quiet, Bottom, Top, k1, k2, k3, k4
<1>8. k.state \in S_PRE_START .. S_GOT_KEY
  BY <1>1, KeyTypes DEF Own
<1> QED
  BY <1>3, <1>4, <1>5, <1>6, <1>7, <1>8 DEF LastOfHandshake

\* With nothing lost, late or left to do, the handshake of both keys is over.
LEMMA HandshakeOver ==
    ASSUME NEW kc \in Keys, NEW ks \in Keys, NEW up, NEW down,
           Own(Client, kc), Own(Server, ks), Quiet(Client, kc), Quiet(Server, ks),
           FullSync(kc), FullSync(ks),
           Flow(Client, kc, ks, up), Flow(Server, ks, kc, down)
    PROVE  kc.state >= S_ACTIVE /\ ks.state >= S_ACTIVE
<1>0. Client \in Peers /\ Server \in Peers /\ Client # Server
  BY PeersAssumption DEF Peers
<1>1. kc.state \in Int /\ ks.state \in Int
  BY KeyTypes
<1>2. /\ kc.state < S_ACTIVE => kc.state = S_SENT_KEY
      /\ ks.state < S_ACTIVE => ks.state = S_START
  BY <1>0, WaitsAt
<1>3. \A a \in Packets : Had(ks, a)
  <2>1. \A a \in Packets : SentBy(Client, kc, a) /\ a \notin kc.una
    BY <1>0, <1>1, <1>2 DEF SentBy, Packets, FullSync
  <2> QED
    BY <2>1 DEF Flow
<1>4. ks.state >= S_ACTIVE
  BY <1>1, <1>2, <1>3, ServerReads
<1>5. \A a \in Packets : Had(kc, a)
  <2>1. \A a \in Packets : SentBy(Server, ks, a) /\ a \notin ks.una
    BY <1>1, <1>4 DEF SentBy, Packets, FullSync
  <2> QED
    BY <2>1 DEF Flow
<1> QED
  BY <1>1, <1>2, <1>4, <1>5, ClientReads

\* Time does not pass in a handshake of which nothing is lost.
LEMMA NothingLost ==
    ASSUME NEW p \in Peers, NEW q, q = Other(p), NEW k \in Keys, NEW kq \in Keys,
           NEW l \in LameKeys, NEW lq \in LameKeys, NEW out, NEW in,
           Own(p, k), Own(q, kq), Quiet(p, k), Quiet(q, kq), k.acks = {}, kq.acks = {},
           k.una = {}, kq.una = {},
           \/ Link(p, k, kq, l, lq, out) /\ Link(q, kq, k, lq, l, in)
           \/ Lead(p, k, kq, l, out, in)
           \/ Lead(q, kq, k, lq, in, out)
    PROVE  k.state >= S_ACTIVE
<1>0. q \in Peers /\ q # p /\ Peers = {p, q}
  BY Two
<1>1. k.state \in Int /\ kq.state \in Int
  BY StateType
<1>3. FullSync(k) /\ FullSync(kq)
  BY DEF FullSync
<1>4. CASE Link(p, k, kq, l, lq, out) /\ Link(q, kq, k, lq, l, in)
  <2>1. Flow(p, k, kq, out) /\ Flow(q, kq, k, in)
    BY <1>4 DEF Link
  <2>2. CASE p = Client
    <3>1. q = Server
      BY <1>0, <2>2 DEF Peers
    <3> QED
      BY <1>3, <2>1, <2>2, <3>1, HandshakeOver
  <2>3. CASE p = Server
    <3>1. q = Client
      BY <1>0, <2>3 DEF Peers
    <3> QED
      BY <1>3, <2>1, <2>3, <3>1, HandshakeOver
  <2> QED
    BY <2>2, <2>3 DEF Peers
<1>5. CASE Lead(p, k, kq, l, out, in)
  <2>1. AtStart(k)
    BY <1>5 DEF Lead
  <2>2. k.state # S_INITIAL
    BY OpensAtOnce
  <2> QED
    BY <2>1, <2>2 DEF AtStart
<1>6. CASE Lead(q, kq, k, lq, in, out)
  <2>1. ~ Pending(k)
    BY <1>6 DEF Lead
  <2> QED
    BY <1>1, <2>1 DEF Pending
<1> QED
  BY <1>4, <1>5, <1>6

\* A second later a packet waits a second less, or is to be sent.
LEMMA LaterCharged ==
    ASSUME NEW p \in Peers, NEW q \in Peers, NEW k \in Keys, NEW kq \in Keys,
           NEW out, NEW in, NEW c \in Nat,
           Own(p, k), Own(q, kq), Quiet(p, k), Quiet(q, kq), Timed(k),
           k.state < S_ACTIVE => Elapsed(k) + 1 <= c,
           k.una # {} => Affords(k, kq, c)
    PROVE  Charged(Older(k), Older(kq), out, in, c)
<1> DEFINE k2 == Older(k)
           kq2 == Older(kq)
<1>1. /\ k2.state = k.state /\ kq2.state = kq.state /\ k2.una = k.una
      /\ k2.due = IF k.wait <= 1 THEN k.una ELSE {}
      /\ k2.wait = Less(k.wait) /\ k2.timeout = k.timeout
  BY OlderIs
<1>2. /\ k2.state < S_ACTIVE => Elapsed(k2) = Elapsed(k) + 1
      /\ kq2.state < S_ACTIVE => Elapsed(kq2) = Elapsed(kq) + 1
  <2>1. Rem(k) \in Nat /\ Rem(kq) \in Nat /\ HandshakeWindow \in Nat
    BY Windows, KeyTypes DEF Rem
  <2>2. /\ Pending(k2) => Rem(k2) = Rem(k) - 1
        /\ Pending(kq2) => Rem(kq2) = Rem(kq) - 1
    BY LaterGood
  <2> HIDE DEF k2, kq2
  <2> QED
    BY <2>1, <2>2 DEF Pending, Elapsed
<1>3. /\ Elapsed(k) \in Int /\ k.wait \in Nat /\ k.timeout \in Nat /\ Elapsed(kq) \in Int
      /\ PacketTimeout \in Nat
  BY ElapsedInt, BackoffAssumption
<1> HIDE DEF k2, kq2
<1>4. k.una # {} => k.wait > 0
  BY DEF Quiet, Timed
<1>5. Timed(k2)
  <2>1. k2.due # {} => k2.wait = 0
    BY <1>1, <1>3 DEF Less
  <2>2. k2.una # {} /\ k2.due = {} => k2.wait > 0
    BY <1>1, <1>3 DEF Less
  <2> QED
    BY <2>1, <2>2 DEF Timed
<1>6. k2.una # {} => Affords(k2, kq2, c)
  <2>1. ASSUME k2.una # {}
        PROVE  Affords(k2, kq2, c)
    <3>1. Affords(k, kq, c) /\ k2.wait = k.wait - 1
      BY <1>1, <1>3, <1>4, <2>1 DEF Less
    <3> QED
      BY <1>1, <1>2, <1>3, <3>1 DEF Affords
  <2> QED
    BY <2>1
<1>7. k2.state < S_ACTIVE => Elapsed(k2) <= c
  BY <1>1, <1>2
<1>8. Charged(k2, kq2, out, in, c)
  BY <1>5, <1>6, <1>7, Zenon DEF Charged
<1> QED
  BY <1>8 DEF k2, kq2

\* With the network empty a packet is lost if it is not acknowledged, and is not
\* charged for before it is sent again.
LEMMA LostAffords ==
    ASSUME NEW k, NEW kq, NEW out, NEW in, NEW c,
           out = << >>, in = << >>, kq.acks = {}, k.una # {},
           k.due = {}, Charged(k, kq, out, in, c)
    PROVE  k.wait > 0 /\ Affords(k, kq, c)
<1>1. ~ Covered(k, kq, out, in)
  BY DEF Covered
<1> QED
  BY <1>1, Zenon DEF Charged, Timed

LEMMA TickCharged ==
    ASSUME Shape, Good(primary, lame, net), AllCharged(primary, net, Backoff[faults]),
           \A p \in Peers : Up(p), Tick
    PROVE  AllCharged(primary', net', Backoff[faults'])
<1>1. ASSUME NEW p \in Peers
      PROVE  Charged(primary'[p], primary'[Other(p)], net'[Other(p)], net'[p],
                     Backoff[faults'])
  <2> DEFINE q == Other(p)
             k == primary[p]
             kq == primary[q]
             l == lame[p]
             lq == lame[q]
             out == net[q]
             in == net[p]
             c == Backoff[faults]
             c2 == Backoff[faults']
  <2>0. q \in Peers /\ q # p /\ Other(q) = p /\ Peers = {p, q}
    BY Two
  <2>1. k \in Keys /\ kq \in Keys /\ l \in LameKeys /\ lq \in LameKeys
    BY <2>0 DEF Shape
  <2>2. Quiet(p, k) /\ Quiet(q, kq) /\ k.acks = {} /\ kq.acks = {}
    BY <2>0 DEF Tick, Settled, Quiet
  <2>3. primary'[p] = Older(k) /\ primary'[q] = Older(kq) /\ net' = net
    BY <2>0 DEF Tick
  <2>4. /\ c \in Nat /\ c2 \in Nat /\ PacketTimeout \in Nat \ {0}
        /\ (c2 = c /\ out = << >> /\ in = << >>) \/ c2 = 2 * c + PacketTimeout
    <3>1. faults \in 0..MaxFaults /\ MaxFaults \in Nat /\ lates \in Nat
      BY BoundAssumption DEF Shape
    <3>2. CASE UNCHANGED faults /\ out = << >> /\ in = << >>
      BY <3>1, <3>2, BackoffIs
    <3>3. CASE faults + lates < MaxFaults /\ faults' = faults + 1
      <4>1. faults' \in 0..MaxFaults
        BY <3>1, <3>3
      <4> QED
        BY <3>1, <3>3, <4>1, BackoffIs
    <3> QED
      BY <2>0, <3>2, <3>3 DEF Tick
  <2>5. Charged(k, kq, out, in, c) /\ Charged(kq, k, in, out, c)
    BY ChargedIs
  <2>6. /\ Own(p, k) /\ Own(q, kq)
        /\ \/ Link(p, k, kq, l, lq, out) /\ Link(q, kq, k, lq, l, in)
           \/ Lead(p, k, kq, l, out, in)
           \/ Lead(q, kq, k, lq, in, out)
    BY GoodIs
  <2>7. q = Other(p)
    OBVIOUS
  <2> HIDE DEF q, k, kq, l, lq, out, in, c, c2
  <2>8. /\ Elapsed(k) \in Int /\ k.state \in Int /\ k.wait \in Nat
        /\ kq.state \in Int /\ kq.wait \in Nat
    BY <2>1, ElapsedInt
  <2>9. k.due = {} /\ kq.due = {} /\ Timed(k)
    BY <2>2, <2>5 DEF Quiet, Charged
  <2>10. (k.state < S_ACTIVE => Elapsed(k) + 1 <= c2) /\ (k.una # {} => Affords(k, kq, c2))
    <3>1. CASE c2 = 2 * c + PacketTimeout
      <4>1. Charged(k, kq, out, in, c2)
        BY <2>1, <2>4, <2>5, <3>1, ChargedMore
      <4>2. k.una # {} => Affords(k, kq, c2)
        <5>1. Affords(k, kq, c) => Affords(k, kq, c2)
          <6>1. /\ Elapsed(kq) \in Int /\ k.timeout \in Nat /\ c <= c2
                /\ PacketTimeout \in Nat
            BY <2>1, <2>4, <3>1, ElapsedInt
          <6> QED
            BY <2>4, <2>8, <6>1 DEF Affords
        <5> QED
          BY <2>5, <3>1, <5>1 DEF Charged
      <4>3. k.state < S_ACTIVE => Elapsed(k) <= c
        BY <2>5 DEF Charged
      <4> QED
        BY <2>4, <2>8, <3>1, <4>2, <4>3
    <3>2. CASE c2 = c /\ out = << >> /\ in = << >>
      <4>1. k.una # {} => k.wait > 0 /\ Affords(k, kq, c)
        BY <2>2, <2>5, <2>9, <3>2, LostAffords
      <4>2. kq.una # {} => kq.wait > 0 /\ Affords(kq, k, c)
        BY <2>2, <2>5, <2>9, <3>2, LostAffords
      <4>3. k.una = {} /\ kq.una = {} => k.state >= S_ACTIVE
        BY <2>1, <2>2, <2>6, <2>7, NothingLost
      <4>4. k.una # {} /\ k.state < S_ACTIVE => Elapsed(k) + 1 <= c
        BY <2>4, <2>8, <4>1 DEF Affords
      <4>5. kq.una # {} /\ k.state < S_ACTIVE => Elapsed(k) + 1 <= c
        BY <2>4, <2>8, <4>2 DEF Affords
      <4> QED
        BY <2>8, <3>2, <4>1, <4>3, <4>4, <4>5
    <3> QED
      BY <2>4, <3>1, <3>2
  <2>11. Charged(Older(k), Older(kq), out, in, c2)
    BY <2>0, <2>1, <2>2, <2>4, <2>6, <2>9, <2>10, LaterCharged
  <2> QED
    BY <2>3, <2>11 DEF q, out, in, c2
<1> QED
  BY <1>1 DEF AllCharged

---------------------------------------------------------------------------
(* The session survives. *)

LEMMA ChargedStep ==
    ASSUME Shape, Good(primary, lame, net), AllCharged(primary, net, Backoff[faults]),
           late = {}, \A p \in Peers : Up(p), \A p \in Peers : ~ PassFails(p), [Next]_vars
    PROVE  AllCharged(primary', net', Backoff[faults'])
<1> DEFINE c == Backoff[faults]
           c2 == 2 * c + PacketTimeout
<1>0. ASSUME NEW p \in Peers
      PROVE  /\ primary[p] \in Keys /\ Own(p, primary[p])
             /\ Progress(p, primary[p], primary[p])
             /\ Other(p) \in Peers /\ Other(p) # p /\ primary[Other(p)] \in Keys
             /\ net[Other(p)] \in Seq(Messages)
             /\ Charged(primary[p], primary[Other(p)], net[Other(p)], net[p], c)
             /\ Charged(primary[Other(p)], primary[p], net[p], net[Other(p)], c)
  <2>1. primary[p] \in Keys
    BY DEF Shape
  <2>2. Own(p, primary[p])
    BY DEF Good
  <2> QED
    BY <2>1, <2>2, ProgressSelf, ChargedIs, Two DEF Shape
<1>1. c \in Nat
  <2>1. faults \in 0..MaxFaults
    BY DEF Shape
  <2> QED
    BY <2>1, BackoffIs
<1> HIDE DEF c
\* A pass that sends m, with which the key becomes k2, and what that costs.
<1>2. ASSUME NEW p \in Peers, NEW k2 \in Keys, NEW m,
             primary' = [primary EXCEPT ![p] = k2], Transmit(p, m),
             Charged(k2, primary[Other(p)], Append(net[Other(p)], m), net[p], c),
             Charged(primary[Other(p)], k2, net[p], Append(net[Other(p)], m), c),
             Charged(k2, primary[Other(p)], net[Other(p)], net[p], c2),
             Charged(primary[Other(p)], k2, net[p], net[Other(p)], c2)
      PROVE  AllCharged(primary', net', Backoff[faults'])
  <2>1. CASE net' = [net EXCEPT ![Other(p)] = Append(@, m)] /\ UNCHANGED faults
    <3>1. /\ net'[Other(p)] = Append(net[Other(p)], m) /\ net'[p] = net[p]
          /\ Backoff[faults'] = c
      BY <1>0, <2>1 DEF Shape, c
    <3> QED
      BY <1>2, <3>1, ChargedPass
  <2>2. CASE faults + lates < MaxFaults /\ faults' = faults + 1 /\ UNCHANGED net
    <3>1. faults \in 0..MaxFaults /\ MaxFaults \in Nat /\ lates \in Nat
      BY BoundAssumption DEF Shape
    <3>2. faults + 1 \in 0..MaxFaults
      BY <2>2, <3>1
    <3>3. Backoff[faults'] = c2
      BY <2>2, <3>1, <3>2, BackoffIs DEF c
    <3> QED
      BY <1>2, <2>2, <3>3, ChargedPass
  <2> QED
    BY <1>2, <2>1, <2>2 DEF Transmit
<1>3. ASSUME NEW p \in Peers, Call(p)
      PROVE  AllCharged(primary', net', Backoff[faults'])
  BY <1>3, ResetCharged DEF Call
<1>4. ASSUME NEW p \in Peers, PassSends(p)
      PROVE  AllCharged(primary', net', Backoff[faults'])
  <2> DEFINE top == Top(p, primary[p])
             q == Other(p)
  <2>1. ~ TimesOut(Opened(p, primary[p]))
    BY <1>4 DEF PassSends
  <2>2. top \in Keys /\ Own(p, top) /\ Progress(p, primary[p], top) /\ Handed(primary[p], top)
    BY <1>0, <2>1, PassGood, PassHands
  <2>3. PICK i \in top.due :
            /\ Transmit(p, Packet(p, i, top.acks))
            /\ primary' = [primary EXCEPT ![p] = [Tried(top, i) EXCEPT !.acks = {}]]
    BY <1>4 DEF PassSends
  <2> HIDE DEF top
  <2>4. /\ Charged(top, primary[q], net[q], net[p], c)
        /\ Charged(primary[q], top, net[p], net[q], c)
    BY <1>0, <1>1, <2>2, ChargedWorks
  <2> DEFINE k2 == [Tried(top, i) EXCEPT !.acks = {}]
             m == Packet(p, i, top.acks)
  <2>5. k2 \in Keys
    BY <2>2, TriedIs
  <2>6. /\ m \in Messages /\ m.packet_id = i /\ m.acks = top.acks /\ m.key_id = top.id
    BY <1>0, <2>2, KeyTypes DEF Packet, Messages, Progress
  <2>7. primary' = [primary EXCEPT ![p] = k2] /\ Transmit(p, m)
    BY <2>3
  <2> HIDE DEF m
  <2>8. /\ Charged(k2, primary[q], Append(net[q], m), net[p], c)
        /\ Charged(primary[q], k2, net[p], Append(net[q], m), c)
        /\ Charged(k2, primary[q], net[q], net[p], c2)
        /\ Charged(primary[q], k2, net[p], net[q], c2)
    BY <1>0, <1>1, <2>2, <2>4, <2>6, ChargedTry
  <2> HIDE DEF k2, c2
  <2> QED
    BY <1>2, <2>5, <2>7, <2>8
<1>5. ASSUME NEW p \in Peers, PassWorks(p)
      PROVE  AllCharged(primary', net', Backoff[faults'])
  <2> DEFINE k2 == Bottom(p, Top(p, primary[p]))
             q == Other(p)
  <2>1. ~ TimesOut(Opened(p, primary[p])) /\ primary' = [primary EXCEPT ![p] = k2]
        /\ UNCHANGED <<net, faults>>
    BY <1>5 DEF PassWorks
  <2>2. k2 \in Keys /\ Progress(p, primary[p], k2) /\ Handed(primary[p], k2)
    BY <1>0, <2>1, PassGood, PassHands
  <2> HIDE DEF k2
  <2>3. /\ Charged(k2, primary[q], net[q], net[p], c)
        /\ Charged(primary[q], k2, net[p], net[q], c)
    BY <1>0, <1>1, <2>2, ChargedWorks
  <2>4. Backoff[faults'] = c /\ net'[q] = net[q] /\ net'[p] = net[p]
    BY <2>1 DEF c
  <2> QED
    BY <2>1, <2>2, <2>3, <2>4, ChargedPass
<1>6. ASSUME NEW p \in Peers, ProcessReturns(p)
      PROVE  AllCharged(primary', net', Backoff[faults'])
  <2>1. CASE primary[p].acks = {}
    BY <1>6, <2>1 DEF ProcessReturns
  <2>2. CASE primary[p].acks # {}
    <3> DEFINE k == primary[p]
               q == Other(p)
               k2 == [k EXCEPT !.acks = {}]
               m == Packet(p, NoPacket, k.acks)
    <3>1. Transmit(p, m) /\ primary' = [primary EXCEPT ![p].acks = {}]
      BY <1>6, <2>2 DEF ProcessReturns
    <3>2. k2 \in Keys
      BY <1>0, AckedIs
    <3>3. primary' = [primary EXCEPT ![p] = k2]
      BY <3>1 DEF Shape
    <3>4. m \in Messages /\ m.key_id = k.id /\ m.acks = k.acks
      BY <1>0, KeyTypes DEF Packet, Messages
    <3> HIDE DEF m
    <3>5. /\ Charged(k2, primary[q], Append(net[q], m), net[p], c)
          /\ Charged(primary[q], k2, net[p], Append(net[q], m), c)
          /\ Charged(k2, primary[q], net[q], net[p], c2)
          /\ Charged(primary[q], k2, net[p], net[q], c2)
      BY <1>0, <1>1, <3>4, ChargedAck
    <3> HIDE DEF k2, c2
    <3> QED
      BY <1>2, <3>1, <3>2, <3>3, <3>5
  <2> QED
    BY <2>1, <2>2
<1>7. ASSUME NEW p \in Peers, Receive(p)
      PROVE  AllCharged(primary', net', Backoff[faults'])
  BY <1>7, ReceiveCharged
<1>8. ~ ReceiveLate
  BY DEF ReceiveLate
<1>9. CASE Tick
  BY <1>9, TickCharged
<1>10. CASE UNCHANGED vars
  BY <1>10 DEF vars
<1> QED
  BY <1>3, <1>4, <1>5, <1>6, <1>7, <1>8, <1>9, <1>10 DEF Next

\* The count of faults starts anew only when both sessions last.
LEMMA FaultsStay ==
    ASSUME Shape, [Next]_vars, NEW q \in Peers, ~ Up(q)
    PROVE  Backoff[faults'] >= Backoff[faults]
<1>1. ~ Agreed
  BY DEF Agreed, Up
<1>2. faults' = faults \/ faults' = faults + 1
  <2>1. ASSUME NEW p, NEW m, Processed(p, m)
        PROVE  faults' = faults
    BY <1>1, <2>1 DEF Processed
  <2>2. ASSUME NEW p, NEW m, Transmit(p, m)
        PROVE  faults' = faults \/ faults' = faults + 1
    BY <2>2 DEF Transmit
  <2>3. ASSUME NEW p \in Peers, Receive(p)
        PROVE  faults' = faults
    BY <2>1, <2>3 DEF Receive
  <2>4. ASSUME ReceiveLate
        PROVE  faults' = faults
    BY <2>1, <2>4 DEF ReceiveLate
  <2>5. ASSUME NEW p \in Peers, PassSends(p)
        PROVE  faults' = faults \/ faults' = faults + 1
    BY <2>2, <2>5 DEF PassSends
  <2>6. ASSUME NEW p \in Peers, ProcessReturns(p)
        PROVE  faults' = faults \/ faults' = faults + 1
    BY <2>2, <2>6 DEF ProcessReturns
  <2>7. ASSUME NEW p \in Peers, Call(p) \/ PassFails(p) \/ PassWorks(p)
        PROVE  faults' = faults
    BY <1>1, <2>7 DEF Call, SoftReset, PassFails, PassWorks
  <2> QED
    BY <2>3, <2>4, <2>5, <2>6, <2>7 DEF Next, Tick, vars
<1>3. faults \in 0..MaxFaults /\ faults' \in 0..MaxFaults
  BY ShapeStep DEF Shape
<1>4. Backoff[faults] \in Nat
  BY <1>3, BackoffIs
<1> QED
  BY <1>2, <1>3, <1>4, BackoffIs

\* A handshake that runs out of time has met faults that cost all of it.
LEMMA FailsLate ==
    ASSUME Shape, NEW p \in Peers, Good(primary, lame, net),
           AllCharged(primary, net, Backoff[faults]), PassFails(p)
    PROVE  Backoff[faults'] >= HandshakeWindow
<1> DEFINE k == primary[p]
<1>1. k \in Keys /\ Own(p, k) /\ HandshakeWindow \in Nat
  BY Windows DEF Shape, Good
<1>2. TimesOut(Opened(p, k)) /\ faults' = faults
  BY DEF PassFails
<1>3. k.state # S_INITIAL
  BY <1>1, <1>2, OpenedIs, Windows DEF TimesOut
<1>4. TimesOut(k)
  BY <1>1, <1>2, <1>3, OpenedIs
<1>5. k.state < S_ACTIVE /\ Elapsed(k) = HandshakeWindow
  BY <1>1, <1>3, <1>4, KeyTypes DEF TimesOut, Own, Elapsed, Rem
<1>6. Charged(k, primary[Other(p)], net[Other(p)], net[p], Backoff[faults])
  BY DEF AllCharged
<1> HIDE DEF k
<1> QED
  BY <1>2, <1>5, <1>6 DEF Charged

LEMMA ThriftInvariant == Spec => []Thrift
<1>1. Init => Thrift
  <2> SUFFICES ASSUME Init
               PROVE  (\A p \in Peers : Up(p)) /\ AllCharged(primary, net, Backoff[faults])
    BY DEF Thrift
  <2>1. \A p \in Peers :
           primary[p].state = S_NORMAL_OP /\ primary[p].una = {} /\ primary[p].due = {}
    BY DEF Init, KeyStateInit
  <2> QED
    BY <2>1 DEF Up, AllCharged, Charged, Timed
<1>2. Shape /\ Ended /\ Steady /\ Thrift /\ [Next]_vars => Thrift'
  <2> SUFFICES ASSUME Shape, Ended, Steady, Thrift, [Next]_vars, lates' = 0
               PROVE  IF \A p \in Peers : Up(p)' THEN AllCharged(primary', net', Backoff[faults'])
                      ELSE Backoff[faults'] >= HandshakeWindow
    BY DEF Thrift
  <2>0. Shape' /\ lates = 0 /\ HandshakeWindow \in Nat
    BY ShapeStep, LatesStay, Windows
  <2>1. CASE \E q \in Peers : ~ Up(q)
    <3>1. PICK q \in Peers : ~ Up(q)
      BY <2>1
    <3>2. /\ ~ Up(q)' /\ Backoff[faults'] >= Backoff[faults]
          /\ Backoff[faults] >= HandshakeWindow
      BY <2>0, <3>1, EndedStep, FaultsStay DEF Thrift
    <3>3. Backoff[faults] \in Nat /\ Backoff[faults'] \in Nat
      BY <2>0, BackoffIs DEF Shape
    <3> QED
      BY <2>0, <3>2, <3>3
  <2>2. CASE (\A p \in Peers : Up(p)) /\ \E p \in Peers : PassFails(p)
    <3>1. PICK p \in Peers : PassFails(p)
      BY <2>2
    <3>2. Good(primary, lame, net) /\ AllCharged(primary, net, Backoff[faults])
      BY <2>0, <2>2 DEF Steady, Thrift
    <3> QED
      BY <3>1, <3>2, FailsIsDown, FailsLate
  <2>3. CASE (\A p \in Peers : Up(p)) /\ \A p \in Peers : ~ PassFails(p)
    <3>1. Good(primary, lame, net) /\ AllCharged(primary, net, Backoff[faults]) /\ late = {}
      BY <2>0, <2>3 DEF Steady, Thrift
    <3>2. Good(primary', lame', net') /\ AllCharged(primary', net', Backoff[faults'])
      BY <2>0, <2>3, <3>1, SteadyStep, ChargedStep
    <3>3. \A p \in Peers : Up(p)'
      <4>1. \A p \in Peers : primary'[p].state >= S_INITIAL
        BY <3>2 DEF Good, Own
      <4> QED
        BY <4>1 DEF Up
    <3> QED
      BY <3>2, <3>3
  <2> QED
    BY <2>1, <2>2, <2>3
<1> QED
  BY <1>1, <1>2, SteadyInvariant, PTL DEF Spec

\* As long as no packet comes late, a session outlasts any number of
\* renegotiations in each of which fewer packets are lost, and seconds late, than
\* make the retries of one packet, each twice as long after the one before, pass
\* the handshake window.
THEOREM SessionSurvives == Spec => [](lates = 0 => Survives)
<1>1. Shape /\ Thrift => (lates = 0 => Survives)
  <2> SUFFICES ASSUME Shape, Thrift, lates = 0, \E p \in Peers : ~ Up(p)
               PROVE  faults # 0 /\ ~ (Backoff[faults] < HandshakeWindow)
    BY DEF Survives
  <2>1. Backoff[faults] \in Nat /\ Backoff[faults] >= HandshakeWindow
    BY BackoffIs DEF Thrift, Shape
  <2> QED
    BY <2>1, BackoffAssumption, Windows
<1> QED
  BY <1>1, ThriftInvariant, ShapeInvariant, PTL
=============================================================================
