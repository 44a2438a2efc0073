------------------------- MODULE ControlChannelProofs -------------------------
(***************************************************************************)
(* Theorems about ControlChannel, for all peers, buffer sizes, timeouts and*)
(* networks: its types, and how retransmissions spread.                    *)
(*                                                                         *)
(* As long as packet ids do not reach half of their range, it delivers in  *)
(* order and loses nothing: the inductive invariant and its proof, and the *)
(* proof that ControlChannel implements InOrderDelivery.                   *)
(***************************************************************************)
EXTENDS ControlChannel, FiniteSetTheorems, TLAPS

---------------------------------------------------------------------------
(* What the operators of Reliable return. *)

\* The id after a packet id is a packet id (packet_id_type wraps).
LEMMA PidIncType ==
    ASSUME NEW a \in PacketIds
    PROVE  PidInc(a) \in PacketIds
BY PidModAssumption DEF PidInc, PidAdd, PacketIds

\* An empty buffer (reliable_init) is a buffer.
LEMMA ReliableInitType ==
    ASSUME NEW h \in BOOLEAN
    PROVE  ReliableInit(h) \in Buffers
BY PidModAssumption DEF ReliableInit, Buffers, PacketIds

\* reliable_mark_active_outgoing makes a buffer of a buffer.
LEMMA MarkActiveOutgoingType ==
    ASSUME NEW rel \in Buffers, NEW op \in {"P_HARD_RESET", "P_CONTROL"}, NEW d \in Nat
    PROVE  MarkActiveOutgoing(rel, op, d) \in Buffers
<1>1. PidInc(rel.packet_id) \in PacketIds
    BY PidIncType DEF Buffers
<1>2. [packet_id |-> rel.packet_id, opcode |-> op, data |-> d,
       wait |-> 0, timeout |-> InitialTimeout] \in Entries
    BY TimeoutAssumption DEF Buffers, Entries
<1>3. QED
    BY <1>1, <1>2 DEF MarkActiveOutgoing, Buffers

\* So does reliable_mark_active_incoming,
LEMMA MarkActiveIncomingType ==
    ASSUME NEW rel \in Buffers, NEW id \in PacketIds,
           NEW op \in {"P_HARD_RESET", "P_CONTROL"}, NEW d \in Nat
    PROVE  MarkActiveIncoming(rel, id, op, d) \in Buffers
BY DEF MarkActiveIncoming, Buffers, Entries

\* and reliable_mark_deleted,
LEMMA MarkDeletedType ==
    ASSUME NEW rel \in Buffers, NEW e \in rel.entries
    PROVE  MarkDeleted(rel, e) \in Buffers
<1>1. e.packet_id \in PacketIds
    BY DEF Buffers, Entries
<1>2. QED
    BY <1>1, PidIncType DEF MarkDeleted, Buffers, Entries

\* and reliable_send,
LEMMA MarkSentType ==
    ASSUME NEW rel \in Buffers, NEW e \in rel.entries, NEW t \in Nat
    PROVE  MarkSent(rel, e, t) \in Buffers
<1>1. e \in Entries
    BY DEF Buffers
<1>2. Backoff(e.timeout) \in Nat
    BY <1>1, TimeoutAssumption DEF Entries, Backoff
<1>3. [e EXCEPT !.wait = t, !.timeout = Backoff(@)] \in Entries
    BY <1>1, <1>2 DEF Entries
<1>4. QED
    BY <1>3 DEF MarkSent, Buffers

\* and reliable_schedule_now,
LEMMA ScheduleNowType ==
    ASSUME NEW rel \in Buffers
    PROVE  ScheduleNow(rel) \in Buffers
<1>1. \A e \in rel.entries :
          [e EXCEPT !.wait = 0, !.timeout = InitialTimeout] \in Entries
    BY TimeoutAssumption DEF Buffers, Entries
<1>2. QED
    BY <1>1 DEF ScheduleNow, Buffers

\* and reliable_send_purge, and the passing of a second.
LEMMA SendPurgeType ==
    ASSUME NEW rel \in Buffers, NEW acked
    PROVE  SendPurge(rel, acked) \in Buffers
BY DEF SendPurge, Buffers

LEMMA ElapseType ==
    ASSUME NEW rel \in Buffers
    PROVE  Elapse(rel) \in Buffers
<1>1. \A e \in rel.entries :
          [e EXCEPT !.wait = IF @ = 0 THEN 0 ELSE @ - 1] \in Entries
    BY DEF Buffers, Entries
<1>2. QED
    BY <1>1 DEF Elapse, Buffers

\* What reliable_ack_write takes and what it leaves are packet ids.
LEMMA AckTypes ==
    ASSUME NEW ack \in Seq(PacketIds), NEW max \in Nat
    PROVE  /\ AckWritten(ack, max) \subseteq PacketIds
           /\ AckRest(ack, max) \in Seq(PacketIds)
           /\ \A i \in DOMAIN AckRest(ack, max) :
                \E j \in DOMAIN ack : AckRest(ack, max)[i] = ack[j]
           /\ \A a \in AckWritten(ack, max) : \E j \in DOMAIN ack : a = ack[j]
<1>1. AckWriteCount(ack, max) \in 0 .. Len(ack)
    BY DEF AckWriteCount
<1>2. QED
    BY <1>1 DEF AckWritten, AckRest

LEMMA AckAcknowledgeType ==
    ASSUME NEW ack \in Seq(PacketIds), NEW id \in PacketIds
    PROVE  /\ AckAcknowledge(ack, id) \in Seq(PacketIds)
           /\ \A i \in DOMAIN AckAcknowledge(ack, id) :
                \/ AckAcknowledge(ack, id)[i] = id
                \/ i \in DOMAIN ack /\ AckAcknowledge(ack, id)[i] = ack[i]
BY DEF AckAcknowledge

---------------------------------------------------------------------------
(* The passes of tls_process. *)

\* The send buffer at the top of a pass is a buffer, the hard reset included.
LEMMA AfterOpenType ==
    ASSUME TypeOK, NEW p \in Peers
    PROVE  AfterOpen(p) \in Buffers
BY MarkActiveOutgoingType DEF TypeOK, AfterOpen

\* A pass leaves a state of the key.
LEMMA StateAfterOpenType ==
    ASSUME TypeOK, NEW p \in Peers
    PROVE  StateAfterOpen(p) \in States
BY DEF TypeOK, StateAfterOpen, States

\* Types are preserved by every step.
LEMMA TypeStep ==
    ASSUME TypeOK, [Next]_vars
    PROVE  TypeOK'
<1>1. ASSUME NEW p \in Peers, NEW lost \in BOOLEAN, PassSends(p, lost)
      PROVE  TypeOK'
  <2>0. PICK e \in NextToSend(AfterOpen(p)) :
            /\ Transmit(DataPacket(p, e, AckWritten(recAck[p], SendAckMax)), lost)
            /\ \E retry \in UniqueRetry(AfterOpen(p), e.timeout) :
                  send' = [send EXCEPT ![p] = MarkSent(AfterOpen(p), e, retry)]
    BY <1>1 DEF PassSends
  <2>1. PICK retry \in UniqueRetry(AfterOpen(p), e.timeout) :
            send' = [send EXCEPT ![p] = MarkSent(AfterOpen(p), e, retry)]
    BY <2>0
  <2>2. AfterOpen(p) \in Buffers /\ e \in AfterOpen(p).entries /\ e \in Entries
    BY AfterOpenType DEF NextToSend, Due, Buffers
  <2>3. retry \in Nat
    BY <2>2 DEF UniqueRetry, Entries
  <2>4. send' \in [Peers -> Buffers]
    BY <2>1, <2>2, <2>3, MarkSentType DEF TypeOK
  <2>5. /\ AckWritten(recAck[p], SendAckMax) \subseteq PacketIds
        /\ AckRest(recAck[p], SendAckMax) \in Seq(PacketIds)
    BY AckTypes, SizeAssumption DEF TypeOK
  <2>6. net' \subseteq Packets
    BY <2>0, <2>2, <2>5 DEF Transmit, DataPacket, Packets, Entries, TypeOK
  <2>7. QED
    BY <1>1, <2>4, <2>5, <2>6, StateAfterOpenType DEF PassSends, TypeOK, PcValues
<1>2. ASSUME NEW p \in Peers, NEW link \in {"free", "busy"}, NEW generates \in BOOLEAN,
             PassTransfers(p, link, generates)
      PROVE  TypeOK'
  <2>1. send' \in [Peers -> Buffers]
    BY <1>2, AfterOpenType, MarkActiveOutgoingType DEF PassTransfers, TypeOK
  <2>2. rec' \in [Peers -> Buffers] /\ delivered' \in [Peers -> Seq(Nat)]
    <3>1. CASE TakesNext(p)
      <4>1. PICK e \in Sequenced(rec[p]) :
                /\ rec' = [rec EXCEPT ![p] = MarkDeleted(@, e)]
                /\ delivered' = [delivered EXCEPT ![p] = Append(@, e.data)]
        BY <1>2, <3>1 DEF PassTransfers, Deliver
      <4>2. e \in rec[p].entries /\ e.data \in Nat
        BY DEF Sequenced, TypeOK, Buffers, Entries
      <4>3. QED
        BY <4>1, <4>2, MarkDeletedType DEF TypeOK
    <3>2. CASE ~ TakesNext(p)
      BY <1>2, <3>2 DEF PassTransfers, Deliver, TypeOK
    <3>3. QED
      BY <3>1, <3>2
  <2>3. QED
    BY <1>2, <2>1, <2>2, StateAfterOpenType DEF PassTransfers, TypeOK, PcValues
<1>3. ASSUME NEW p \in Peers, NEW link \in {"free", "busy"}, NEW lost \in BOOLEAN,
             ProcessReturn(p, link, lost)
      PROVE  TypeOK'
  <2>1. /\ AckWritten(recAck[p], AckSize) \subseteq PacketIds
        /\ AckRest(recAck[p], AckSize) \in Seq(PacketIds)
    BY AckTypes, AckSizeAssumption DEF TypeOK
  <2>2. AckPacket(p, AckWritten(recAck[p], AckSize)) \in Packets
    BY <2>1, PidModAssumption DEF AckPacket, Packets, PacketIds
  <2>3. QED
    BY <1>3, <2>1, <2>2 DEF ProcessReturn, Transmit, TypeOK, PcValues
<1>4. ASSUME NEW p \in Peers, ProcessFails(p)
      PROVE  TypeOK'
  BY <1>4 DEF ProcessFails, TypeOK, States, PcValues
<1>5. ASSUME NEW p \in Peers, NEW m \in net, Receive(p, m), net' \subseteq net
      PROVE  TypeOK'
  <2>1. m \in Packets
    BY DEF TypeOK
  <2>2. send' \in [Peers -> Buffers]
    <3>1. CASE Routable(p, m)
      <4>1. send' = [send EXCEPT ![p] =
                        SendPurge(IF Bursts(p) THEN ScheduleNow(@) ELSE @, m.acks)]
        BY <1>5, <3>1 DEF Receive
      <4>2. (IF Bursts(p) THEN ScheduleNow(send[p]) ELSE send[p]) \in Buffers
        BY ScheduleNowType DEF TypeOK
      <4>3. QED
        BY <4>1, <4>2, SendPurgeType DEF TypeOK
    <3>2. CASE ~ Routable(p, m)
      BY <1>5, <3>2 DEF Receive, TypeOK
    <3>3. QED
      BY <3>1, <3>2
  <2>3. rec' \in [Peers -> Buffers] /\ recAck' \in [Peers -> Seq(PacketIds)]
    <3>1. CASE Routable(p, m) /\ m.opcode # "P_ACK"
      <4>1. m.opcode \in {"P_HARD_RESET", "P_CONTROL"} /\ m.packet_id \in PacketIds /\ m.data \in Nat
        BY <2>1, <3>1 DEF Packets
      <4>2. MarkActiveIncoming(rec[p], m.packet_id, m.opcode, m.data) \in Buffers
        BY <4>1, MarkActiveIncomingType DEF TypeOK
      <4>3. AckAcknowledge(recAck[p], m.packet_id) \in Seq(PacketIds)
        BY <4>1, AckAcknowledgeType DEF TypeOK
      <4>4. /\ rec' = [rec EXCEPT ![p] =
                           IF Stores(p, m)
                           THEN MarkActiveIncoming(@, m.packet_id, m.opcode, m.data)
                           ELSE @]
            /\ recAck' = [recAck EXCEPT ![p] =
                              IF Acknowledges(p, m)
                              THEN AckAcknowledge(@, m.packet_id)
                              ELSE @]
        BY <1>5, <3>1 DEF Receive
      <4>5. QED
        BY <4>2, <4>3, <4>4 DEF TypeOK
    <3>2. CASE ~ (Routable(p, m) /\ m.opcode # "P_ACK")
      BY <1>5, <3>2 DEF Receive, TypeOK
    <3>3. QED
      BY <3>1, <3>2
  <2>4. QED
    BY <1>5, <2>2, <2>3 DEF Receive, TypeOK
<1>6. ASSUME NEW m \in net, Lose(m)
      PROVE  TypeOK'
  BY <1>6 DEF Lose, TypeOK
<1>7. ASSUME Tick
      PROVE  TypeOK'
  BY <1>7, ElapseType DEF Tick, TypeOK
<1>8. ASSUME UNCHANGED vars
      PROVE  TypeOK'
  BY <1>8 DEF vars, TypeOK
<1>9. QED
  <2>1. ASSUME NEW p \in Peers, ReceiveOnce(p) \/ ReceiveCopy(p)
        PROVE  TypeOK'
    BY <1>5, <2>1 DEF ReceiveOnce, ReceiveCopy
  <2>2. QED
    BY <1>1, <1>2, <1>3, <1>4, <1>6, <1>7, <1>8, <2>1 DEF Next, FreePass, BusyPass

\* They hold in the initial state.
LEMMA InitType ==
    ASSUME Init
    PROVE  TypeOK
<1>1. \A p \in Peers : ReliableInit(p \in HeldPeers) \in Buffers
  <2>1. TAKE p \in Peers
  <2>2. (p \in HeldPeers) \in BOOLEAN
    OBVIOUS
  <2>3. QED
    BY <2>2, ReliableInitType
<1>2. ReliableInit(FALSE) \in Buffers
  BY ReliableInitType
<1>3. send \in [Peers -> Buffers] /\ rec \in [Peers -> Buffers]
  BY <1>1, <1>2 DEF Init
<1>4. recAck \in [Peers -> Seq(PacketIds)] /\ delivered \in [Peers -> Seq(Nat)]
  BY DEF Init
<1>5. /\ state \in [Peers -> States]
      /\ linked \in [Peers -> BOOLEAN]
      /\ burst \in [Peers -> BOOLEAN]
      /\ pc \in [Peers -> PcValues]
      /\ generated \in [Peers -> Nat]
  BY DEF Init, States, PcValues
<1>6. net \subseteq Packets
  BY DEF Init
<1>7. QED
  BY <1>3, <1>4, <1>5, <1>6 DEF TypeOK

\* Whatever the network does, and however often packet ids wrap, the control
\* channel's buffers, acknowledgements and packets stay well formed.
THEOREM TypeCorrect == Spec => []TypeOK
<1>1. Init => TypeOK
  BY InitType
<1>2. TypeOK /\ [Next]_vars => TypeOK'
  BY TypeStep
<1>3. QED
  BY <1>1, <1>2, PTL DEF Spec

---------------------------------------------------------------------------
(* The deadlines of retransmissions. *)

\* No two deadlines of a buffer that are still to come are the same.
Spread(rel) ==
    \A e, f \in rel.entries : e # f /\ e.wait > 0 => e.wait # f.wait

\* A packet that is queued is due at once,
LEMMA MarkActiveOutgoingSpread ==
    ASSUME NEW rel \in Buffers, Spread(rel), NEW op, NEW d
    PROVE  Spread(MarkActiveOutgoing(rel, op, d))
<1> DEFINE new == [packet_id |-> rel.packet_id, opcode |-> op, data |-> d,
                   wait |-> 0, timeout |-> InitialTimeout]
<1>1. MarkActiveOutgoing(rel, op, d).entries = rel.entries \union {new}
  BY DEF MarkActiveOutgoing, Buffers
<1>2. \A e \in rel.entries : e.wait \in Nat
  BY DEF Buffers, Entries
<1>3. new.wait = 0
  OBVIOUS
<1> QED
  BY <1>1, <1>2, <1>3 DEF Spread

\* reliable_unique_retry picks a second that is no other packet's,
LEMMA MarkSentSpread ==
    ASSUME NEW rel \in Buffers, Spread(rel), NEW e \in rel.entries,
           NEW retry \in UniqueRetry(rel, e.timeout)
    PROVE  Spread(MarkSent(rel, e, retry))
<1> DEFINE new == [e EXCEPT !.wait = retry, !.timeout = Backoff(@)]
<1>1. MarkSent(rel, e, retry).entries = (rel.entries \ {e}) \union {new}
  BY DEF MarkSent, Buffers
<1>2. new.wait = retry
  BY DEF Buffers, Entries
<1>3. \A f \in rel.entries : f.wait # retry
  BY DEF UniqueRetry
<1> HIDE DEF new
<1> QED
  BY <1>1, <1>2, <1>3 DEF Spread

\* reliable_schedule_now leaves no deadline to come, and reliable_send_purge
\* only removes packets.
LEMMA ScheduleNowSpread ==
    ASSUME NEW rel \in Buffers
    PROVE  Spread(ScheduleNow(rel))
<1>1. \A e \in rel.entries : [e EXCEPT !.wait = 0, !.timeout = InitialTimeout].wait = 0
  BY DEF Buffers, Entries
<1>2. \A f \in ScheduleNow(rel).entries : f.wait = 0
  BY <1>1 DEF ScheduleNow, Buffers
<1> QED
  BY <1>2 DEF Spread

LEMMA SendPurgeSpread ==
    ASSUME NEW rel \in Buffers, Spread(rel), NEW acked
    PROVE  Spread(SendPurge(rel, acked))
BY DEF SendPurge, Buffers, Spread

\* A second brings them all nearer by the same amount.
LEMMA ElapseSpread ==
    ASSUME NEW rel \in Buffers, Spread(rel)
    PROVE  Spread(Elapse(rel))
<1> DEFINE later(e) == [e EXCEPT !.wait = IF @ = 0 THEN 0 ELSE @ - 1]
<1>1. Elapse(rel).entries = {later(e) : e \in rel.entries}
  BY DEF Elapse, Buffers
<1>2. \A e \in rel.entries :
          e.wait \in Nat /\ later(e).wait = IF e.wait = 0 THEN 0 ELSE e.wait - 1
  BY DEF Buffers, Entries
<1> HIDE DEF later
<1>3. ASSUME NEW e \in rel.entries, NEW f \in rel.entries,
             later(e) # later(f), later(e).wait > 0
      PROVE  later(e).wait # later(f).wait
  <2>1. e # f /\ e.wait > 0
    BY <1>2, <1>3
  <2>2. e.wait # f.wait
    BY <2>1 DEF Spread
  <2>3. /\ later(e).wait = e.wait - 1
        /\ f.wait \in Nat /\ e.wait \in Nat
        /\ later(f).wait = 0 \/ later(f).wait = f.wait - 1
    BY <1>2, <2>1
  <2> QED
    BY <1>3, <2>2, <2>3
<1> QED
  BY <1>1, <1>3 DEF Spread

\* No step makes two retransmissions meet.
LEMMA SpreadStep ==
    ASSUME TypeOK, RetriesSpread, [Next]_vars
    PROVE  RetriesSpread'
<1>0. \A p \in Peers : send[p] \in Buffers /\ Spread(send[p])
  BY DEF TypeOK, RetriesSpread, Spread
<1>1. SUFFICES \A q \in Peers : Spread(send'[q])
  BY DEF RetriesSpread, Spread
<1>2. \A p \in Peers : AfterOpen(p) \in Buffers /\ Spread(AfterOpen(p))
  BY <1>0, AfterOpenType, MarkActiveOutgoingSpread DEF AfterOpen
<1>3. ASSUME NEW p \in Peers, NEW lost, PassSends(p, lost)
      PROVE  \A q \in Peers : Spread(send'[q])
  <2>1. PICK e \in NextToSend(AfterOpen(p)) :
            \E retry \in UniqueRetry(AfterOpen(p), e.timeout) :
                send' = [send EXCEPT ![p] = MarkSent(AfterOpen(p), e, retry)]
    BY <1>3 DEF PassSends
  <2>2. PICK retry \in UniqueRetry(AfterOpen(p), e.timeout) :
            send' = [send EXCEPT ![p] = MarkSent(AfterOpen(p), e, retry)]
    BY <2>1
  <2>3. e \in AfterOpen(p).entries
    BY DEF NextToSend, Due
  <2>4. Spread(MarkSent(AfterOpen(p), e, retry))
    BY <1>2, <2>3, MarkSentSpread
  <2> QED
    BY <1>0, <2>2, <2>4 DEF TypeOK
<1>4. ASSUME NEW p \in Peers, NEW link, NEW generates, PassTransfers(p, link, generates)
      PROVE  \A q \in Peers : Spread(send'[q])
  <2>1. Spread(MarkActiveOutgoing(send[p], "P_CONTROL", generated[p]))
    BY <1>0, MarkActiveOutgoingSpread
  <2> QED
    BY <1>0, <1>2, <1>4, <2>1 DEF PassTransfers, TypeOK
<1>5. ASSUME NEW p \in Peers, NEW m \in net, Receive(p, m)
      PROVE  \A q \in Peers : Spread(send'[q])
  <2> DEFINE now == IF Bursts(p) THEN ScheduleNow(send[p]) ELSE send[p]
  <2>1. now \in Buffers /\ Spread(now)
    BY <1>0, ScheduleNowType, ScheduleNowSpread
  <2>2. Spread(SendPurge(now, m.acks))
    BY <2>1, SendPurgeSpread
  <2>3. \/ UNCHANGED send
        \/ send' = [send EXCEPT ![p] = SendPurge(now, m.acks)]
    BY <1>5 DEF Receive, TypeOK
  <2> QED
    BY <1>0, <2>2, <2>3 DEF TypeOK
<1>6. ASSUME Tick
      PROVE  \A q \in Peers : Spread(send'[q])
  BY <1>0, <1>6, ElapseSpread DEF Tick
<1>7. CASE UNCHANGED send
  BY <1>0, <1>7
<1>8. ASSUME NEW p \in Peers, NEW link, NEW lost, ProcessReturn(p, link, lost)
      PROVE  UNCHANGED send
  BY <1>8 DEF ProcessReturn
<1>9. ASSUME NEW p \in Peers,
             (\E lost \in BOOLEAN : FreePass(p, lost)) \/ BusyPass(p)
      PROVE  \A q \in Peers : Spread(send'[q])
  BY <1>3, <1>4, <1>7, <1>8, <1>9 DEF FreePass, BusyPass
<1>10. ASSUME NEW p \in Peers, ReceiveOnce(p) \/ ReceiveCopy(p)
       PROVE  \A q \in Peers : Spread(send'[q])
  BY <1>5, <1>10 DEF ReceiveOnce, ReceiveCopy
<1>11. ASSUME \/ \E p \in Peers : ProcessFails(p)
              \/ \E m \in net : Lose(m)
              \/ UNCHANGED vars
       PROVE  UNCHANGED send
  BY <1>11 DEF ProcessFails, Lose, vars
<1> QED
  BY <1>6, <1>7, <1>9, <1>10, <1>11 DEF Next

\* No two retransmissions of a peer are planned for the same second, however
\* long the timeouts have grown and however often ids have wrapped
\* (reliable_unique_retry).
THEOREM RetransmissionsSpread == Spec => []RetriesSpread
<1>1. Init => RetriesSpread
  BY DEF Init, ReliableInit, RetriesSpread
<1>2. TypeOK /\ RetriesSpread /\ [Next]_vars => RetriesSpread'
  BY SpreadStep
<1> QED
  BY <1>1, <1>2, TypeCorrect, PTL DEF Spec

---------------------------------------------------------------------------
(* The inductive invariant. *)

\* No key lives to see half of the packet ids.
NoWrap == \A p \in Peers : MaxPackets[p] <= Half

\* A key generates at most MaxPackets packets, and none before it opens.
Bounded ==
    \A p \in Peers :
        /\ generated[p] <= MaxPackets[p]
        /\ state[p] = "S_INITIAL" => generated[p] = 0

\* A packet's id is its number, wherever the packet is, and the two counters
\* of a peer count what it generated and what it delivered.
Numbered ==
    \A p \in Peers :
        /\ send[p].packet_id = generated[p]
        /\ rec[p].packet_id = Len(delivered[p])
        /\ \A e \in send[p].entries :
              e.packet_id = e.data /\ e.data < generated[p]
        /\ \A e \in rec[p].entries :
              e.packet_id = e.data /\ e.data < generated[Other(p)]
        /\ \A m \in net :
              m.from = p /\ m.opcode # "P_ACK"
                  => m.packet_id = m.data /\ m.data < generated[p]

\* Who acknowledges a packet has it.
AcksTruthful ==
    \A p \in Peers :
        /\ \A i \in DOMAIN recAck[p] : Has(p, recAck[p][i])
        /\ \A m \in net : m.from = p => \A a \in m.acks : Has(p, a)

IInv == TypeOK /\ Bounded /\ Numbered /\ InOrder /\ AcksTruthful /\ NothingLost

---------------------------------------------------------------------------
(* Facts about the operators of Reliable. *)

\* The two buffers hold the same packets, whatever their timers.
SameContent(rel, rel2) ==
    /\ rel2.packet_id = rel.packet_id
    /\ \A e \in rel.entries : \E f \in rel2.entries :
          f.packet_id = e.packet_id /\ f.data = e.data /\ f.opcode = e.opcode
    /\ \A f \in rel2.entries : \E e \in rel.entries :
          f.packet_id = e.packet_id /\ f.data = e.data /\ f.opcode = e.opcode

\* Below PidMod the next id is the next number.
LEMMA PidIncNat ==
    ASSUME NEW n \in Nat, n + 1 < PidMod
    PROVE  PidInc(n) = n + 1
BY PidModAssumption DEF PidInc, PidAdd

\* reliable_send changes the timers of one entry only,
LEMMA MarkSentContent ==
    ASSUME NEW rel \in Buffers, NEW e \in rel.entries, NEW t \in Nat
    PROVE  SameContent(rel, MarkSent(rel, e, t))
<1> DEFINE f == [e EXCEPT !.wait = t, !.timeout = Backoff(@)]
<1>1. f.packet_id = e.packet_id /\ f.data = e.data /\ f.opcode = e.opcode
  BY DEF Buffers, Entries
<1>2. /\ MarkSent(rel, e, t).entries = (rel.entries \ {e}) \union {f}
      /\ MarkSent(rel, e, t).packet_id = rel.packet_id
  BY DEF MarkSent, Buffers
<1>3. QED
  BY <1>1, <1>2 DEF SameContent

\* and reliable_schedule_now and the clock change timers only.
LEMMA ScheduleNowContent ==
    ASSUME NEW rel \in Buffers
    PROVE  SameContent(rel, ScheduleNow(rel))
<1> DEFINE now(e) == [e EXCEPT !.wait = 0, !.timeout = InitialTimeout]
<1>1. \A e \in rel.entries :
          /\ now(e).packet_id = e.packet_id /\ now(e).data = e.data
          /\ now(e).opcode = e.opcode
  BY DEF Buffers, Entries
<1>2. /\ ScheduleNow(rel).entries = {now(e) : e \in rel.entries}
      /\ ScheduleNow(rel).packet_id = rel.packet_id
  BY DEF ScheduleNow, Buffers
<1> HIDE DEF now
<1>3. QED
  BY <1>1, <1>2 DEF SameContent

LEMMA ElapseContent ==
    ASSUME NEW rel \in Buffers
    PROVE  SameContent(rel, Elapse(rel))
<1> DEFINE later(e) == [e EXCEPT !.wait = IF @ = 0 THEN 0 ELSE @ - 1]
<1>1. \A e \in rel.entries :
          /\ later(e).packet_id = e.packet_id /\ later(e).data = e.data
          /\ later(e).opcode = e.opcode
  BY DEF Buffers, Entries
<1>2. /\ Elapse(rel).entries = {later(e) : e \in rel.entries}
      /\ Elapse(rel).packet_id = rel.packet_id
  BY DEF Elapse, Buffers
<1> HIDE DEF later
<1>3. QED
  BY <1>1, <1>2 DEF SameContent

\* reliable_mark_active_outgoing adds one packet, under the next id,
LEMMA MarkActiveOutgoingContent ==
    ASSUME NEW rel \in Buffers, NEW op, NEW d
    PROVE  LET out == MarkActiveOutgoing(rel, op, d) IN
           /\ out.packet_id = PidInc(rel.packet_id)
           /\ rel.entries \subseteq out.entries
           /\ \E e \in out.entries : e.packet_id = rel.packet_id /\ e.data = d
           /\ \A e \in out.entries :
                 \/ e \in rel.entries
                 \/ e.packet_id = rel.packet_id /\ e.data = d /\ e.opcode = op
<1> DEFINE new == [packet_id |-> rel.packet_id, opcode |-> op, data |-> d,
                   wait |-> 0, timeout |-> InitialTimeout]
<1>1. /\ MarkActiveOutgoing(rel, op, d).entries = rel.entries \union {new}
      /\ MarkActiveOutgoing(rel, op, d).packet_id = PidInc(rel.packet_id)
  BY DEF MarkActiveOutgoing, Buffers
<1>2. new.packet_id = rel.packet_id /\ new.data = d /\ new.opcode = op
  OBVIOUS
<1>3. QED
  BY <1>1, <1>2

\* and reliable_mark_active_incoming one under the id it carries.
LEMMA MarkActiveIncomingContent ==
    ASSUME NEW rel \in Buffers, NEW id, NEW op, NEW d
    PROVE  LET in == MarkActiveIncoming(rel, id, op, d) IN
           /\ in.packet_id = rel.packet_id
           /\ rel.entries \subseteq in.entries
           /\ \E e \in in.entries : e.packet_id = id /\ e.data = d
           /\ \A e \in in.entries :
                 e \in rel.entries \/ (e.packet_id = id /\ e.data = d)
<1> DEFINE new == [packet_id |-> id, opcode |-> op, data |-> d,
                   wait |-> 0, timeout |-> 0]
<1>1. /\ MarkActiveIncoming(rel, id, op, d).entries = rel.entries \union {new}
      /\ MarkActiveIncoming(rel, id, op, d).packet_id = rel.packet_id
  BY DEF MarkActiveIncoming, Buffers
<1>2. new.packet_id = id /\ new.data = d
  OBVIOUS
<1>3. QED
  BY <1>1, <1>2

\* In half of the id space the order that wraps is the order of the numbers.
LEMMA PidMinIsLess ==
    ASSUME NEW a \in Nat, NEW b \in Nat, a < Half, b <= Half
    PROVE  PidMin(a, b) <=> a < b
<1>1. Half \in Nat /\ 2 * Half <= PidMod
  BY PidModAssumption DEF Half
<1>2. QED
  BY <1>1, PidModAssumption DEF PidMin, PidInRange1, PidSub

---------------------------------------------------------------------------
(* The sending side. *)

\* buf is a good send buffer of p after it generated g packets: it is
\* numbered, and what is not in it has arrived.
Sending(p, buf, g) ==
    /\ buf.packet_id = g
    /\ \A e \in buf.entries : e.packet_id = e.data /\ e.data < g
    /\ \A n \in 0 .. g - 1 : (\E e \in buf.entries : e.data = n) \/ Has(Other(p), n)

\* The invariant keeps every send buffer good.
LEMMA InvSending ==
    ASSUME IInv, NEW p \in Peers
    PROVE  Sending(p, send[p], generated[p])
BY DEF IInv, Numbered, NothingLost, Sending

\* Timers do not matter,
LEMMA SendingSame ==
    ASSUME NEW p, NEW g, NEW b, NEW c, Sending(p, b, g), SameContent(b, c)
    PROVE  Sending(p, c, g)
<1>1. c.packet_id = g
  BY DEF Sending, SameContent
<1>2. \A f \in c.entries : f.packet_id = f.data /\ f.data < g
  BY DEF Sending, SameContent
<1>3. \A n \in 0 .. g - 1 : (\E f \in c.entries : f.data = n) \/ Has(Other(p), n)
  BY DEF Sending, SameContent
<1>4. QED
  BY <1>1, <1>2, <1>3 DEF Sending

\* a new packet is in the buffer,
LEMMA SendingMore ==
    ASSUME NEW p, NEW g \in Nat, g + 1 < PidMod, NEW op,
           NEW b \in Buffers, Sending(p, b, g)
    PROVE  Sending(p, MarkActiveOutgoing(b, op, g), g + 1)
<1> DEFINE out == MarkActiveOutgoing(b, op, g)
<1>1. /\ out.packet_id = PidInc(b.packet_id)
      /\ b.entries \subseteq out.entries
      /\ \E e \in out.entries : e.packet_id = b.packet_id /\ e.data = g
      /\ \A e \in out.entries :
            e \in b.entries \/ (e.packet_id = b.packet_id /\ e.data = g)
  BY MarkActiveOutgoingContent
<1>2. b.packet_id = g /\ out.packet_id = g + 1
  BY <1>1, PidIncNat DEF Sending
<1>3. \A e \in b.entries : e.packet_id = e.data /\ e.data < g /\ e.data \in Nat
  BY DEF Sending, Buffers, Entries
<1>4. \A e \in out.entries : e.packet_id = e.data /\ e.data < g + 1
  BY <1>1, <1>2, <1>3
<1>5. ASSUME NEW n \in 0 .. (g + 1) - 1
      PROVE  (\E e \in out.entries : e.data = n) \/ Has(Other(p), n)
  <2>1. CASE n = g
    BY <1>1, <2>1
  <2>2. CASE n \in 0 .. g - 1
    BY <1>1, <2>2 DEF Sending
  <2>3. QED
    BY <2>1, <2>2
<1>6. QED
  BY <1>2, <1>4, <1>5 DEF Sending

\* and reliable_send_purge removes what has arrived.
LEMMA SendingPurge ==
    ASSUME NEW p, NEW g \in Nat, NEW b \in Buffers, NEW acked,
           Sending(p, b, g), \A a \in acked : Has(Other(p), a)
    PROVE  Sending(p, SendPurge(b, acked), g)
<1>1. /\ SendPurge(b, acked).packet_id = b.packet_id
      /\ SendPurge(b, acked).entries = {e \in b.entries : e.packet_id \notin acked}
  BY DEF SendPurge, Buffers
<1>2. QED
  BY <1>1 DEF Sending

\* The send buffer at the top of a pass is good, the hard reset included.
LEMMA SendingAfterOpen ==
    ASSUME NoWrap, IInv, NEW p \in Peers
    PROVE  LET g == IF OpensKey(p) THEN generated[p] + 1 ELSE generated[p]
           IN  Sending(p, AfterOpen(p), g) /\ g <= MaxPackets[p]
<1>1. generated[p] \in Nat /\ send[p] \in Buffers /\ MaxPackets[p] \in Nat \ {0}
  BY MaxPacketsAssumption DEF IInv, TypeOK
<1>2. CASE OpensKey(p)
  <2>1. generated[p] = 0
    BY <1>2 DEF IInv, Bounded, OpensKey
  <2>2. generated[p] + 1 < PidMod
    BY <2>1, PidModAssumption
  <2>3. QED
    BY <1>1, <1>2, <2>1, <2>2, InvSending, SendingMore DEF AfterOpen
<1>3. CASE ~ OpensKey(p)
  BY <1>1, <1>3, InvSending DEF AfterOpen, IInv, Bounded
<1>4. QED
  BY <1>2, <1>3

---------------------------------------------------------------------------
(* The receiving side, and a step as a whole. *)

\* buf is a good receive buffer of p that delivered n of the other's g packets.
Receiving(buf, n, g) ==
    /\ buf.packet_id = n
    /\ n <= g
    /\ \A e \in buf.entries : e.packet_id = e.data /\ e.data < g

\* What a step may do to the buffers, the packets and the acknowledgements.
GoodStep ==
    /\ Bounded'
    /\ \A p \in Peers :
          /\ generated[p] <= generated'[p]
          /\ \A n \in Nat : Has(p, n) => Has(p, n)'
          /\ Sending(p, send'[p], generated'[p])
          /\ Receiving(rec'[p], Len(delivered'[p]), generated[Other(p)])
          /\ \A i \in DOMAIN delivered'[p] : delivered'[p][i] = i - 1
          /\ (\A i \in DOMAIN recAck[p] : Has(p, recAck[p][i]))'
    /\ \A m \in net' :
          /\ m.opcode # "P_ACK" => m.packet_id = m.data /\ m.data < generated'[m.from]
          /\ \A a \in m.acks : Has(m.from, a)

LEMMA GoodStepInv ==
    ASSUME IInv, TypeOK', GoodStep
    PROVE  IInv'
<1>0. \A p \in Peers : /\ Other(p) \in Peers
                        /\ generated[p] \in Nat /\ generated'[p] \in Nat
                        /\ Len(delivered'[p]) \in Nat
  BY DEF IInv, TypeOK, Other, Peers
<1>1. Numbered'
  <2>1. SUFFICES ASSUME NEW p \in Peers
        PROVE  /\ send'[p].packet_id = generated'[p]
               /\ rec'[p].packet_id = Len(delivered'[p])
               /\ \A e \in send'[p].entries :
                     e.packet_id = e.data /\ e.data < generated'[p]
               /\ \A e \in rec'[p].entries :
                     e.packet_id = e.data /\ e.data < generated'[Other(p)]
               /\ \A m \in net' :
                     m.from = p /\ m.opcode # "P_ACK"
                         => m.packet_id = m.data /\ m.data < generated'[p]
    BY DEF Numbered, Other
  <2>2. \A e \in rec'[p].entries : e.data \in Nat
    BY DEF TypeOK, Buffers, Entries
  <2>3. \A e \in rec'[p].entries :
           e.packet_id = e.data /\ e.data < generated'[Other(p)]
    <3>1. Receiving(rec'[p], Len(delivered'[p]), generated[Other(p)])
      BY DEF GoodStep
    <3>2. generated[Other(p)] <= generated'[Other(p)]
      BY <1>0 DEF GoodStep
    <3>3. QED
      BY <1>0, <2>2, <3>1, <3>2 DEF Receiving
  <2>4. /\ send'[p].packet_id = generated'[p]
        /\ rec'[p].packet_id = Len(delivered'[p])
        /\ \A e \in send'[p].entries :
              e.packet_id = e.data /\ e.data < generated'[p]
    BY DEF GoodStep, Receiving, Sending
  <2>5. \A m \in net' :
            m.from = p /\ m.opcode # "P_ACK"
                => m.packet_id = m.data /\ m.data < generated'[p]
    BY DEF GoodStep
  <2>6. QED
    BY <2>3, <2>4, <2>5
<1>2. InOrder'
  <2>1. SUFFICES ASSUME NEW p \in Peers
                 PROVE  /\ Len(delivered'[p]) <= generated'[Other(p)]
                        /\ \A i \in DOMAIN delivered'[p] : delivered'[p][i] = i - 1
    BY DEF InOrder, Other
  <2>2. /\ Len(delivered'[p]) <= generated[Other(p)]
        /\ generated[Other(p)] <= generated'[Other(p)]
    BY <1>0 DEF GoodStep, Receiving
  <2>3. QED
    BY <1>0, <2>2 DEF GoodStep
<1>3. AcksTruthful'
  <2>1. \A m \in net' : m.from \in Peers /\ m.acks \subseteq Nat
    BY PidModAssumption DEF TypeOK, Packets, PacketIds
  <2>2. \A m \in net' : \A a \in m.acks : Has(m.from, a)'
    <3>0. TAKE m \in net'
    <3>1. TAKE a \in m.acks
    <3>2. m.from \in Peers /\ a \in Nat
      BY <2>1
    <3>3. Has(m.from, a)
      BY DEF GoodStep
    <3>4. QED
      BY <3>2, <3>3 DEF GoodStep
  <2>3. QED
    BY <2>2 DEF GoodStep, AcksTruthful
<1>4. NothingLost'
  <2>1. SUFFICES ASSUME NEW p \in Peers, NEW n \in 0 .. generated'[p] - 1
                 PROVE  n \in {e.data : e \in send'[p].entries} \/ Has(Other(p), n)'
    BY DEF NothingLost, Other
  <2>2. (\E e \in send'[p].entries : e.data = n) \/ Has(Other(p), n)
    BY DEF GoodStep, Sending
  <2>3. Has(Other(p), n) => Has(Other(p), n)'
    BY <1>0 DEF GoodStep
  <2>4. QED
    BY <2>2, <2>3
<1>5. QED
  BY <1>1, <1>2, <1>3, <1>4 DEF IInv, GoodStep

\* What the invariant says of the receive buffers and of the network.
LEMMA InvReceiving ==
    ASSUME IInv, NEW p \in Peers
    PROVE  /\ Receiving(rec[p], Len(delivered[p]), generated[Other(p)])
           /\ \A i \in DOMAIN delivered[p] : delivered[p][i] = i - 1
           /\ \A i \in DOMAIN recAck[p] : Has(p, recAck[p][i])
BY DEF IInv, Numbered, InOrder, AcksTruthful, Receiving

LEMMA InvNet ==
    ASSUME IInv, NEW m \in net
    PROVE  /\ m.from \in Peers
           /\ m.opcode # "P_ACK" => m.packet_id = m.data /\ m.data < generated[m.from]
           /\ \A a \in m.acks : Has(m.from, a)
<1>1. m.from \in Peers
  BY DEF IInv, TypeOK, Packets
<1>2. QED
  BY <1>1 DEF IInv, Numbered, AcksTruthful

\* What p has it keeps, when it neither stores nor delivers.
LEMMA HasUnchanged ==
    ASSUME UNCHANGED <<rec, delivered>>, NEW p, NEW n
    PROVE  Has(p, n)' <=> Has(p, n)
BY DEF Has, Stored

\* A pass that sends.
LEMMA PassSendsGood ==
    ASSUME NoWrap, IInv, NEW p \in Peers, NEW lost \in BOOLEAN, PassSends(p, lost)
    PROVE  GoodStep
<1> DEFINE g == IF OpensKey(p) THEN generated[p] + 1 ELSE generated[p]
<1>1. PICK e \in NextToSend(AfterOpen(p)) :
          /\ Transmit(DataPacket(p, e, AckWritten(recAck[p], SendAckMax)), lost)
          /\ \E retry \in UniqueRetry(AfterOpen(p), e.timeout) :
                send' = [send EXCEPT ![p] = MarkSent(AfterOpen(p), e, retry)]
  BY DEF PassSends
<1>2. PICK retry \in UniqueRetry(AfterOpen(p), e.timeout) :
          send' = [send EXCEPT ![p] = MarkSent(AfterOpen(p), e, retry)]
  BY <1>1
<1>3. /\ TypeOK
      /\ AfterOpen(p) \in Buffers /\ e \in AfterOpen(p).entries /\ e \in Entries
      /\ retry \in Nat
  <2>1. TypeOK
    BY DEF IInv
  <2>2. AfterOpen(p) \in Buffers /\ e \in AfterOpen(p).entries /\ e \in Entries
    BY <2>1, AfterOpenType DEF NextToSend, Due, Buffers
  <2>3. QED
    BY <2>1, <2>2 DEF UniqueRetry, Entries
<1>4. Sending(p, AfterOpen(p), g) /\ g <= MaxPackets[p]
  BY SendingAfterOpen
<1>5. generated' = [generated EXCEPT ![p] = g]
  BY DEF PassSends
<1>6. \A q \in Peers : Sending(q, send'[q], generated'[q])
  <2>1. Sending(p, MarkSent(AfterOpen(p), e, retry), g)
    BY <1>3, <1>4, MarkSentContent, SendingSame
  <2>2. \A q \in Peers : Sending(q, send[q], generated[q])
    BY InvSending
  <2>3. QED
    BY <1>2, <1>3, <1>5, <2>1, <2>2 DEF TypeOK
<1>7. Bounded'
  <2>1. state' = [state EXCEPT ![p] = StateAfterOpen(p)]
    BY DEF PassSends
  <2>2. StateAfterOpen(p) = "S_INITIAL" => state[p] = "S_INITIAL" /\ ~ OpensKey(p)
    BY DEF StateAfterOpen
  <2>3. Bounded
    BY DEF IInv
  <2>4. QED
    BY <1>3, <1>4, <1>5, <2>1, <2>2, <2>3 DEF Bounded, TypeOK
<1>8. /\ AckWritten(recAck[p], SendAckMax) \subseteq {recAck[p][i] : i \in DOMAIN recAck[p]}
      /\ \A i \in DOMAIN AckRest(recAck[p], SendAckMax) :
            \E j \in DOMAIN recAck[p] : AckRest(recAck[p], SendAckMax)[i] = recAck[p][j]
  <2>1. recAck[p] \in Seq(PacketIds)
    BY <1>3 DEF TypeOK
  <2>2. QED
    BY <2>1, AckTypes, SizeAssumption
<1>9. \A q \in Peers : \A i \in DOMAIN recAck'[q] : Has(q, recAck'[q][i])
  <2>1. recAck' = [recAck EXCEPT ![p] = AckRest(@, SendAckMax)]
    BY DEF PassSends
  <2>2. QED
    BY <1>3, <1>8, <2>1, InvReceiving DEF TypeOK
<1>10. \A m \in net' :
          /\ m.opcode # "P_ACK" => m.packet_id = m.data /\ m.data < generated'[m.from]
          /\ \A a \in m.acks : Has(m.from, a)
  <2>1. SUFFICES ASSUME NEW m \in net'
                 PROVE  /\ m.opcode # "P_ACK" => m.packet_id = m.data /\ m.data < generated'[m.from]
                        /\ \A a \in m.acks : Has(m.from, a)
    OBVIOUS
  <2>2. CASE m \in net
    BY <1>3, <1>5, <2>2, InvNet DEF TypeOK, Packets
  <2>3. CASE m = DataPacket(p, e, AckWritten(recAck[p], SendAckMax))
    <3>1. e.packet_id = e.data /\ e.data < g
      BY <1>3, <1>4 DEF Sending
    <3>2. \A a \in AckWritten(recAck[p], SendAckMax) : Has(p, a)
      BY <1>8, InvReceiving
    <3>3. QED
      BY <1>3, <1>5, <2>3, <3>1, <3>2 DEF DataPacket, TypeOK
  <2>4. QED
    BY <1>1, <2>2, <2>3 DEF Transmit
<1>11. UNCHANGED <<rec, delivered>>
  BY DEF PassSends
<1>12. (\A q \in Peers : \A i \in DOMAIN recAck[q] : Has(q, recAck[q][i]))'
  BY <1>9, <1>11 DEF Has, Stored
<1>13. \A q \in Peers : generated[q] <= generated'[q]
  BY <1>3, <1>5 DEF TypeOK
<1>14. \A q \in Peers :
          /\ Receiving(rec'[q], Len(delivered'[q]), generated[Other(q)])
          /\ \A i \in DOMAIN delivered'[q] : delivered'[q][i] = i - 1
  BY <1>11, InvReceiving
<1>15. \A q \in Peers : \A n \in Nat : Has(q, n) => Has(q, n)'
  BY <1>11, HasUnchanged
<1>16. QED
  BY <1>6, <1>7, <1>10, <1>12, <1>13, <1>14, <1>15 DEF GoodStep

\* What a peer has, it keeps when it delivers the next packet, and that
\* packet is the one that TLS has not had.
LEMMA DeliverGood ==
    ASSUME NoWrap, IInv, NEW p \in Peers, Deliver(p)
    PROVE  \A q \in Peers :
             /\ Receiving(rec'[q], Len(delivered'[q]), generated[Other(q)])
             /\ \A i \in DOMAIN delivered'[q] : delivered'[q][i] = i - 1
             /\ \A n \in Nat : Has(q, n) => Has(q, n)'
<1>1. CASE TakesNext(p)
  <2>1. PICK e \in Sequenced(rec[p]) :
            /\ rec' = [rec EXCEPT ![p] = MarkDeleted(@, e)]
            /\ delivered' = [delivered EXCEPT ![p] = Append(@, e.data)]
    BY <1>1 DEF Deliver
  <2>2. TypeOK /\ Other(p) \in Peers
    BY DEF IInv, Other, Peers
  <2>3. /\ rec[p] \in Buffers /\ delivered[p] \in Seq(Nat)
        /\ generated[Other(p)] \in Nat /\ generated[Other(p)] <= MaxPackets[Other(p)]
    BY <2>2 DEF IInv, TypeOK, Bounded
  <2>4. /\ e \in rec[p].entries /\ e.packet_id = Len(delivered[p])
        /\ e.data = Len(delivered[p]) /\ e.data < generated[Other(p)]
    BY InvReceiving DEF Sequenced, Receiving
  <2>5. PidInc(e.packet_id) = Len(delivered[p]) + 1
    <3>1. MaxPackets[Other(p)] \in Nat /\ MaxPackets[Other(p)] < PidMod
      BY <2>2, MaxPacketsAssumption, PidModAssumption DEF NoWrap, Half
    <3>2. Len(delivered[p]) \in Nat
      BY <2>3
    <3>3. QED
      BY <2>3, <2>4, <3>1, <3>2, PidIncNat, PidModAssumption
  <2>6. /\ rec'[p].packet_id = Len(delivered[p]) + 1
        /\ rec'[p].entries = rec[p].entries \ {e}
        /\ delivered'[p] = Append(delivered[p], Len(delivered[p]))
        /\ \A q \in Peers \ {p} : rec'[q] = rec[q] /\ delivered'[q] = delivered[q]
    BY <2>1, <2>2, <2>3, <2>4, <2>5 DEF MarkDeleted, TypeOK, Buffers
  <2>7. /\ Len(delivered'[p]) = Len(delivered[p]) + 1
        /\ \A i \in DOMAIN delivered'[p] : delivered'[p][i] = i - 1
    BY <2>3, <2>6, InvReceiving
  <2>8. Receiving(rec'[p], Len(delivered'[p]), generated[Other(p)])
    BY <2>3, <2>4, <2>6, <2>7, InvReceiving DEF Receiving
  <2>9. \A n \in Nat : Has(p, n) => Has(p, n)'
    BY <2>3, <2>4, <2>6, <2>7 DEF Has, Stored
  <2>10. \A q \in Peers \ {p} : \A n : Has(q, n) <=> Has(q, n)'
    BY <2>6 DEF Has, Stored
  <2>11. QED
    BY <2>6, <2>7, <2>8, <2>9, <2>10, InvReceiving, ZenonT(30)
<1>2. CASE ~ TakesNext(p)
  BY <1>2, InvReceiving, HasUnchanged DEF Deliver
<1>3. QED
  BY <1>1, <1>2

\* A pass that delivers, generates, or opens the key.
LEMMA PassTransfersGood ==
    ASSUME NoWrap, IInv, NEW p \in Peers, NEW link, NEW generates \in BOOLEAN,
           PassTransfers(p, link, generates)
    PROVE  GoodStep
<1>1. TypeOK /\ Bounded
  BY DEF IInv
<1>2. generates => ~ OpensKey(p) /\ generated[p] < MaxPackets[p]
  BY DEF PassTransfers, MayGenerate, StateAfterOpen
<1> DEFINE g == IF OpensKey(p) \/ generates THEN generated[p] + 1 ELSE generated[p]
<1>3. generated' = [generated EXCEPT ![p] = g]
  BY DEF PassTransfers
<1>4. /\ generated[p] \in Nat /\ send[p] \in Buffers
      /\ MaxPackets[p] \in Nat /\ MaxPackets[p] < PidMod
  BY <1>1, MaxPacketsAssumption, PidModAssumption DEF TypeOK, NoWrap, Half
<1>5. Sending(p, send'[p], g) /\ g <= MaxPackets[p]
  <2>1. CASE generates
    <3>1. send'[p] = MarkActiveOutgoing(send[p], "P_CONTROL", generated[p])
      BY <1>1, <2>1 DEF PassTransfers, TypeOK
    <3>2. generated[p] + 1 < PidMod
      BY <1>2, <1>4, <2>1, PidModAssumption
    <3>3. QED
      BY <1>2, <1>4, <2>1, <3>1, <3>2, InvSending, SendingMore
  <2>2. CASE ~ generates
    <3>1. send'[p] = AfterOpen(p)
      BY <1>1, <2>2 DEF PassTransfers, TypeOK
    <3>2. QED
      BY <2>2, <3>1, SendingAfterOpen
  <2>3. QED
    BY <2>1, <2>2
<1>6. \A q \in Peers : Sending(q, send'[q], generated'[q])
  BY <1>1, <1>3, <1>5, InvSending DEF PassTransfers, TypeOK
<1>7. Bounded'
  <2>1. state' = [state EXCEPT ![p] = StateAfterOpen(p)]
    BY DEF PassTransfers
  <2>2. StateAfterOpen(p) = "S_INITIAL" => state[p] = "S_INITIAL" /\ ~ OpensKey(p) /\ ~ generates
    BY DEF StateAfterOpen, PassTransfers, MayGenerate
  <2>3. QED
    BY <1>1, <1>3, <1>5, <2>1, <2>2 DEF Bounded, TypeOK
<1>8. \A q \in Peers :
          /\ Receiving(rec'[q], Len(delivered'[q]), generated[Other(q)])
          /\ \A i \in DOMAIN delivered'[q] : delivered'[q][i] = i - 1
          /\ \A n \in Nat : Has(q, n) => Has(q, n)'
  BY DeliverGood DEF PassTransfers
<1>9. UNCHANGED <<recAck, net>>
  BY DEF PassTransfers
<1>10. (\A q \in Peers : \A i \in DOMAIN recAck[q] : Has(q, recAck[q][i]))'
  <2>1. SUFFICES ASSUME NEW q \in Peers, NEW i \in DOMAIN recAck'[q]
                 PROVE  Has(q, recAck[q][i])'
    OBVIOUS
  <2>2. PICK n \in Nat : n = recAck[q][i]
    BY <1>1, <1>9, PidModAssumption DEF TypeOK, PacketIds
  <2>3. Has(q, n)'
    BY <1>8, <1>9, <2>2, InvReceiving
  <2>4. QED
    BY <1>9, <2>2, <2>3 DEF Has, Stored
<1>11. \A m \in net' :
          /\ m.opcode # "P_ACK" => m.packet_id = m.data /\ m.data < generated'[m.from]
          /\ \A a \in m.acks : Has(m.from, a)
  BY <1>1, <1>3, <1>9, InvNet DEF TypeOK, Packets
<1>12. \A q \in Peers : generated[q] <= generated'[q]
  BY <1>1, <1>3 DEF TypeOK
<1>13. QED
  BY <1>6, <1>7, <1>8, <1>10, <1>11, <1>12 DEF GoodStep

\* A step that touches neither the receive buffers nor what was generated,
\* and whose packets and pending acknowledgements are old ones.
LEMMA QuietGood ==
    ASSUME IInv, UNCHANGED <<rec, delivered, generated>>,
           \A q \in Peers : state'[q] = "S_INITIAL" => state[q] = "S_INITIAL",
           \A q \in Peers : Sending(q, send'[q], generated[q]),
           \A q \in Peers : \A i \in DOMAIN recAck'[q] :
               \E j \in DOMAIN recAck[q] : recAck'[q][i] = recAck[q][j],
           \A m \in net' :
               \/ m \in net
               \/ /\ m.opcode = "P_ACK" /\ m.from \in Peers
                  /\ \A a \in m.acks : \E j \in DOMAIN recAck[m.from] :
                        a = recAck[m.from][j]
    PROVE  GoodStep
<1>1. TypeOK /\ Bounded
  BY DEF IInv
<1>2. Bounded'
  BY <1>1 DEF Bounded
<1>3. (\A q \in Peers : \A i \in DOMAIN recAck[q] : Has(q, recAck[q][i]))'
  BY InvReceiving DEF Has, Stored
<1>4. \A m \in net' :
          /\ m.opcode # "P_ACK" => m.packet_id = m.data /\ m.data < generated'[m.from]
          /\ \A a \in m.acks : Has(m.from, a)
  BY InvNet, InvReceiving
<1>5. \A q \in Peers : \A n \in Nat : Has(q, n) => Has(q, n)'
  BY HasUnchanged
<1>6. \A q \in Peers : generated[q] <= generated'[q]
  BY <1>1 DEF TypeOK
<1>7. QED
  BY <1>2, <1>3, <1>4, <1>5, <1>6, InvReceiving DEF GoodStep

\* The return of tls_process, and its error exit.
LEMMA ProcessReturnGood ==
    ASSUME IInv, NEW p \in Peers, NEW link, NEW lost \in BOOLEAN,
           ProcessReturn(p, link, lost)
    PROVE  GoodStep
<1>1. TypeOK /\ recAck[p] \in Seq(PacketIds)
  BY DEF IInv, TypeOK
<1>2. /\ \A i \in DOMAIN AckRest(recAck[p], AckSize) :
            \E j \in DOMAIN recAck[p] : AckRest(recAck[p], AckSize)[i] = recAck[p][j]
      /\ \A a \in AckWritten(recAck[p], AckSize) :
            \E j \in DOMAIN recAck[p] : a = recAck[p][j]
  BY <1>1, AckTypes, AckSizeAssumption
<1>3. \A q \in Peers : \A i \in DOMAIN recAck'[q] :
          \E j \in DOMAIN recAck[q] : recAck'[q][i] = recAck[q][j]
  BY <1>1, <1>2, ZenonT(30) DEF ProcessReturn, TypeOK
<1>4. \A m \in net' :
          \/ m \in net
          \/ /\ m.opcode = "P_ACK" /\ m.from \in Peers
             /\ \A a \in m.acks : \E j \in DOMAIN recAck[m.from] : a = recAck[m.from][j]
  BY <1>2 DEF ProcessReturn, Transmit, AckPacket
<1>5. UNCHANGED <<rec, delivered, generated, state, send>>
  BY DEF ProcessReturn
<1>6. QED
  BY <1>3, <1>4, <1>5, InvSending, QuietGood

LEMMA ProcessFailsGood ==
    ASSUME IInv, NEW p \in Peers, ProcessFails(p)
    PROVE  GoodStep
<1>1. \A q \in Peers : state'[q] = "S_INITIAL" => state[q] = "S_INITIAL"
  BY DEF ProcessFails, IInv, TypeOK
<1>2. UNCHANGED <<rec, delivered, generated, send, recAck, net>>
  BY DEF ProcessFails
<1>3. QED
  BY <1>1, <1>2, InvSending, QuietGood

\* A packet is lost.
LEMMA LoseGood ==
    ASSUME IInv, NEW m \in net, Lose(m)
    PROVE  GoodStep
<1>1. UNCHANGED <<rec, delivered, generated, send, recAck, state>> /\ net' \subseteq net
  BY DEF Lose
<1>2. QED
  BY <1>1, InvSending, QuietGood

\* A second passes.
LEMMA TickGood ==
    ASSUME IInv, Tick
    PROVE  GoodStep
<1>1. UNCHANGED <<rec, delivered, generated, recAck, state, net>>
  BY DEF Tick
<1>2. \A q \in Peers : Sending(q, send'[q], generated[q])
  <2>1. SUFFICES ASSUME NEW q \in Peers
                 PROVE  Sending(q, Elapse(send[q]), generated[q])
    BY DEF Tick
  <2>2. send[q] \in Buffers
    BY DEF IInv, TypeOK
  <2>3. QED
    BY <2>2, InvSending, ElapseContent, SendingSame
<1>3. QED
  BY <1>1, <1>2, QuietGood

\* A packet that is to be acknowledged is stored now, or has been before.
LEMMA AcknowledgedIsHad ==
    ASSUME NoWrap, IInv, NEW p \in Peers, NEW m \in net, m.from = Other(p),
           m.opcode # "P_ACK", ~ NotReplay(rec[p], m.packet_id)
    PROVE  Has(p, m.packet_id)
<1>1. /\ TypeOK /\ Bounded /\ Other(p) \in Peers
  BY DEF IInv, Other, Peers
<1>2. m.packet_id = m.data /\ m.data < generated[Other(p)] /\ m.data \in Nat
  BY <1>1, InvNet DEF TypeOK, Packets
<1>3. Receiving(rec[p], Len(delivered[p]), generated[Other(p)])
  BY InvReceiving
<1>4. /\ generated[Other(p)] \in Nat /\ generated[Other(p)] <= Half
      /\ Half \in Nat /\ Len(delivered[p]) \in Nat
  <2>1. generated[Other(p)] \in Nat /\ Len(delivered[p]) \in Nat
    BY <1>1 DEF TypeOK
  <2>2. MaxPackets[Other(p)] \in Nat /\ MaxPackets[Other(p)] <= Half
    BY <1>1, MaxPacketsAssumption DEF NoWrap
  <2>3. Half \in Nat
    BY PidModAssumption DEF Half
  <2>4. QED
    BY <1>1, <2>1, <2>2, <2>3 DEF Bounded
<1>5. CASE PidMin(m.packet_id, rec[p].packet_id)
  <2>1. m.data < Half /\ Len(delivered[p]) <= Half
    BY <1>2, <1>3, <1>4 DEF Receiving
  <2>2. m.packet_id < Len(delivered[p])
    BY <1>2, <1>3, <1>4, <1>5, <2>1, PidMinIsLess DEF Receiving
  <2>3. QED
    BY <2>2 DEF Has
<1>6. CASE m.packet_id \in ActiveIds(rec[p])
  BY <1>3, <1>6 DEF ActiveIds, Receiving, Has, Stored
<1>7. QED
  BY <1>5, <1>6 DEF NotReplay

\* A packet arrives.
LEMMA ReceiveGood ==
    ASSUME NoWrap, IInv, NEW p \in Peers, NEW m \in net, Receive(p, m), net' \subseteq net
    PROVE  GoodStep
<1>1. TypeOK /\ Bounded /\ m.from = Other(p) /\ Other(p) \in Peers
  BY DEF IInv, Receive, Other, Peers
<1>2. UNCHANGED <<state, generated, delivered>>
  BY DEF Receive
<1>3. \A a \in m.acks : Has(Other(p), a)
  BY <1>1, InvNet
<1>4. \A q \in Peers : Sending(q, send'[q], generated[q])
  <2>1. CASE Routable(p, m)
    <3> DEFINE b == IF Bursts(p) THEN ScheduleNow(send[p]) ELSE send[p]
    <3>1. send' = [send EXCEPT ![p] = SendPurge(b, m.acks)]
      BY <1>1, <2>1 DEF Receive, TypeOK
    <3>2. b \in Buffers /\ generated[p] \in Nat
      BY <1>1, ScheduleNowType DEF TypeOK
    <3>3. Sending(p, b, generated[p])
      BY <1>1, InvSending, ScheduleNowContent, SendingSame DEF TypeOK
    <3>4. Sending(p, SendPurge(b, m.acks), generated[p])
      BY <1>3, <3>2, <3>3, SendingPurge
    <3>5. QED
      BY <1>1, <3>1, <3>4, InvSending DEF TypeOK
  <2>2. CASE ~ Routable(p, m)
    BY <2>2, InvSending DEF Receive
  <2>3. QED
    BY <2>1, <2>2
<1>5. CASE Routable(p, m) /\ m.opcode # "P_ACK"
  <2> DEFINE in == MarkActiveIncoming(rec[p], m.packet_id, m.opcode, m.data)
  <2>1. /\ rec' = [rec EXCEPT ![p] = IF Stores(p, m) THEN in ELSE rec[p]]
        /\ recAck' = [recAck EXCEPT ![p] = IF Acknowledges(p, m)
                                           THEN AckAcknowledge(recAck[p], m.packet_id)
                                           ELSE recAck[p]]
    BY <1>5 DEF Receive
  <2>2. /\ m.packet_id = m.data /\ m.data < generated[Other(p)]
        /\ m.packet_id \in PacketIds
    BY <1>1, <1>5, InvNet DEF TypeOK, Packets
  <2>3. /\ in.packet_id = rec[p].packet_id
        /\ rec[p].entries \subseteq in.entries
        /\ \E e \in in.entries : e.packet_id = m.packet_id /\ e.data = m.data
        /\ \A e \in in.entries :
              e \in rec[p].entries \/ (e.packet_id = m.packet_id /\ e.data = m.data)
    <3>1. rec[p] \in Buffers
      BY <1>1 DEF TypeOK
    <3>2. QED
      BY <3>1, MarkActiveIncomingContent
  <2>4. \A q \in Peers : Receiving(rec'[q], Len(delivered'[q]), generated[Other(q)])
    <3>1. Receiving(in, Len(delivered[p]), generated[Other(p)])
      BY <2>2, <2>3, InvReceiving DEF Receiving
    <3>2. QED
      BY <1>1, <1>2, <2>1, <3>1, InvReceiving DEF TypeOK
  <2>5. \A q \in Peers : \A n : Has(q, n) => Has(q, n)'
    BY <1>1, <1>2, <2>1, <2>3 DEF Has, Stored, TypeOK
  <2>6. Acknowledges(p, m) => Has(p, m.packet_id)'
    <3>1. PICK n : n = m.packet_id
      OBVIOUS
    <3>2. CASE Stores(p, m)
      <4>1. rec'[p] = in
        BY <1>1, <2>1, <3>2 DEF TypeOK
      <4>2. QED
        BY <2>2, <2>3, <4>1 DEF Has, Stored
    <3>3. CASE Acknowledges(p, m) /\ ~ Stores(p, m)
      <4>1. Has(p, n)
        BY <1>1, <1>5, <3>1, <3>3, AcknowledgedIsHad DEF Acknowledges, Stores
      <4>2. Has(p, n)'
        BY <2>5, <4>1
      <4>3. QED
        BY <3>1, <4>2
    <3>4. QED
      BY <3>2, <3>3
  <2>7. (\A q \in Peers : \A i \in DOMAIN recAck[q] : Has(q, recAck[q][i]))'
    <3>1. SUFFICES ASSUME NEW q \in Peers, NEW i \in DOMAIN recAck'[q]
                   PROVE  Has(q, recAck[q][i])'
      OBVIOUS
    <3>2. PICK n : n = recAck'[q][i]
      OBVIOUS
    <3>3. \/ q = p /\ Acknowledges(p, m) /\ n = m.packet_id
          \/ \E j \in DOMAIN recAck[q] : n = recAck[q][j]
      <4>1. CASE q = p /\ Acknowledges(p, m)
        <5>1. recAck'[p] = AckAcknowledge(recAck[p], m.packet_id) /\ recAck[p] \in Seq(PacketIds)
          BY <1>1, <2>1, <4>1 DEF TypeOK
        <5>2. QED
          BY <2>2, <3>2, <4>1, <5>1, AckAcknowledgeType
      <4>2. CASE ~ (q = p /\ Acknowledges(p, m))
        BY <1>1, <2>1, <3>2, <4>2 DEF TypeOK
      <4>3. QED
        BY <4>1, <4>2
    <3>4. Has(q, n)'
      <4>1. CASE q = p /\ Acknowledges(p, m) /\ n = m.packet_id
        BY <2>6, <4>1
      <4>2. CASE \E j \in DOMAIN recAck[q] : n = recAck[q][j]
        BY <2>5, <4>2, InvReceiving
      <4>3. QED
        BY <3>3, <4>1, <4>2
    <3>5. QED
      BY <3>2, <3>4 DEF Has, Stored
  <2>8. \A x \in net' :
            /\ x.opcode # "P_ACK" => x.packet_id = x.data /\ x.data < generated'[x.from]
            /\ \A a \in x.acks : Has(x.from, a)
    BY <1>2, InvNet
  <2>9. Bounded' /\ \A q \in Peers : generated[q] <= generated'[q]
    BY <1>1, <1>2 DEF Bounded, TypeOK
  <2>10. QED
    BY <1>2, <1>4, <2>4, <2>5, <2>7, <2>8, <2>9, InvReceiving DEF GoodStep
<1>6. CASE ~ (Routable(p, m) /\ m.opcode # "P_ACK")
  <2>1. UNCHANGED <<rec, recAck>>
    BY <1>6 DEF Receive
  <2>2. QED
    BY <1>2, <1>4, <2>1, QuietGood
<1>7. QED
  BY <1>5, <1>6

---------------------------------------------------------------------------
(* The theorems. *)

\* Every step that is not a stutter is good.
LEMMA NextGood ==
    ASSUME NoWrap, IInv, Next
    PROVE  GoodStep
<1>1. ASSUME NEW p \in Peers, NEW lost \in BOOLEAN, FreePass(p, lost)
      PROVE  GoodStep
  BY <1>1, PassSendsGood, PassTransfersGood, ProcessReturnGood DEF FreePass
<1>2. ASSUME NEW p \in Peers, BusyPass(p)
      PROVE  GoodStep
  BY <1>2, PassTransfersGood, ProcessReturnGood DEF BusyPass
<1>3. ASSUME NEW p \in Peers, ReceiveOnce(p) \/ ReceiveCopy(p)
      PROVE  GoodStep
  <2>1. PICK m \in net : Receive(p, m) /\ net' \subseteq net
    BY <1>3 DEF ReceiveOnce, ReceiveCopy
  <2>2. QED
    BY <2>1, ReceiveGood
<1>4. QED
  BY <1>1, <1>2, <1>3, ProcessFailsGood, LoseGood, TickGood DEF Next

\* The invariant holds initially,
LEMMA IInvInit ==
    ASSUME Init, TypeOK
    PROVE  IInv
<1>1. \A p \in Peers : /\ MaxPackets[p] \in Nat \ {0} /\ generated[p] = 0
                        /\ delivered[p] = << >> /\ Len(delivered[p]) = 0
                        /\ recAck[p] = << >>
                        /\ send[p].packet_id = 0 /\ send[p].entries = {}
                        /\ rec[p].packet_id = 0 /\ rec[p].entries = {}
                        /\ Other(p) \in Peers
  BY MaxPacketsAssumption DEF Init, ReliableInit, Other, Peers
<1>2. net = {}
  BY DEF Init
<1>3. Bounded /\ Numbered
  BY <1>1, <1>2 DEF Bounded, Numbered
<1>4. InOrder /\ AcksTruthful
  BY <1>1, <1>2 DEF InOrder, AcksTruthful
<1>5. NothingLost
  BY <1>1 DEF NothingLost
<1>6. QED
  BY <1>3, <1>4, <1>5 DEF IInv

\* is preserved by every step,
LEMMA IInvStep ==
    ASSUME NoWrap, IInv, [Next]_vars
    PROVE  IInv'
<1>1. TypeOK'
  BY TypeStep DEF IInv
<1>2. CASE Next
  BY <1>1, <1>2, NextGood, GoodStepInv
<1>3. CASE UNCHANGED vars
  BY <1>3 DEF vars, IInv, TypeOK, Bounded, Numbered, InOrder, AcksTruthful, NothingLost, Has, Stored
<1>4. QED
  BY <1>2, <1>3

\* and so holds for ever: on a key that does not see half of the packet ids,
\* ids number the packets, and no acknowledgement is sent for a packet that
\* was refused.
THEOREM InductiveInvariant == NoWrap => (Spec => []IInv)
<1>1. TypeOK /\ Init => IInv
  BY IInvInit
<1>2. NoWrap /\ IInv /\ [Next]_vars => IInv'
  BY IInvStep
<1>3. Init => TypeOK
  BY InitType
<1>4. SUFFICES ASSUME NoWrap PROVE Spec => []IInv
  OBVIOUS
<1>5. IInv /\ [Next]_vars => IInv'
  BY <1>2, <1>4
<1>6. QED
  BY <1>1, <1>3, <1>5, PTL DEF Spec

\* What TLS is given is what the other peer's TLS produced, each packet once
\* and in order (tls_process, reliable_get_buf_sequenced).
THEOREM DeliveryInOrder == NoWrap => (Spec => []InOrder)
<1>1. IInv => InOrder
  BY DEF IInv
<1>2. SUFFICES ASSUME NoWrap PROVE Spec => []InOrder
  OBVIOUS
<1>3. Spec => []IInv
  BY <1>2, InductiveInvariant
<1>4. QED
  BY <1>1, <1>3, PTL

\* No packet leaves the send buffer before the other peer has it
\* (reliable_send_purge, and the acknowledgements of tls_pre_decrypt).
THEOREM DeliveryLosesNothing == NoWrap => (Spec => []NothingLost)
<1>1. IInv => NothingLost
  BY DEF IInv
<1>2. SUFFICES ASSUME NoWrap PROVE Spec => []NothingLost
  OBVIOUS
<1>3. Spec => []IInv
  BY <1>2, InductiveInvariant
<1>4. QED
  BY <1>1, <1>3, PTL

\* A packet that is sent again although it was delivered is acknowledged, as
\* long as the receive window does not reach the end of the id space
\* (reliable_wont_break_sequentiality; beyond it the property is violated).
THEOREM ReplaysAcknowledged ==
    NoWrap /\ (\A p \in Peers : MaxPackets[p] + RecSize < PidMod)
        => (Spec => []ReplayAcknowledged)
<1>1. SUFFICES ASSUME NoWrap, \A p \in Peers : MaxPackets[p] + RecSize < PidMod
               PROVE  Spec => []ReplayAcknowledged
  OBVIOUS
<1>2. ASSUME IInv
      PROVE  ReplayAcknowledged
  <2>1. SUFFICES ASSUME NEW p \in Peers, NEW e \in send[p].entries,
                        e.data < Len(delivered[Other(p)])
                 PROVE  WontBreakSequentiality(rec[Other(p)], e.packet_id, RecSize)
    BY DEF ReplayAcknowledged
  <2>2. Other(p) \in Peers /\ Other(Other(p)) = p
    BY DEF Other, Peers
  <2>3. /\ Receiving(rec[Other(p)], Len(delivered[Other(p)]), generated[p])
        /\ e.packet_id = e.data
    BY <1>2, <2>2, InvReceiving, InvSending DEF Sending
  <2>4. /\ e.data \in Nat /\ generated[p] \in Nat /\ generated[p] <= MaxPackets[p]
        /\ Len(delivered[Other(p)]) \in Nat
    BY <1>2, <2>2 DEF IInv, TypeOK, Bounded, Buffers, Entries
  <2>5. MaxPackets[p] \in Nat /\ RecSize \in Nat /\ PidMod \in Nat
    BY MaxPacketsAssumption, SizeAssumption, PidModAssumption
  <2>6. PidAdd(rec[Other(p)].packet_id, RecSize) = Len(delivered[Other(p)]) + RecSize
    BY <1>1, <2>3, <2>4, <2>5 DEF Receiving, PidAdd
  <2>7. QED
    BY <2>1, <2>3, <2>4, <2>5, <2>6 DEF WontBreakSequentiality, PidInRange2, Receiving
<1>3. Spec => []IInv
  BY <1>1, InductiveInvariant
<1>4. QED
  BY <1>2, <1>3, PTL

\* A step of the control channel is a step of a pair of channels that lose,
\* repeat and reorder nothing, or changes nothing there.
LEMMA AbstractStep ==
    ASSUME IInv, [Next]_vars
    PROVE  [Abstract!Next]_<<generated, delivered>>
<1>1. TypeOK
  BY DEF IInv
<1>2. ASSUME NEW p \in Peers, NEW link, NEW generates \in BOOLEAN,
             PassTransfers(p, link, generates)
      PROVE  Abstract!Next \/ UNCHANGED <<generated, delivered>>
  <2>1. \/ UNCHANGED generated
        \/ generated' = [generated EXCEPT ![p] = @ + 1]
    BY <1>1, <1>2 DEF PassTransfers, TypeOK
  <2>2. \/ UNCHANGED delivered
        \/ Abstract!Deliver(p)
    <3>1. CASE TakesNext(p)
      <4>1. PICK e \in Sequenced(rec[p]) :
                delivered' = [delivered EXCEPT ![p] = Append(@, e.data)]
        BY <1>2, <3>1 DEF PassTransfers, Deliver
      <4>2. e.data = Len(delivered[p]) /\ e.data < generated[Other(p)]
        BY InvReceiving DEF Sequenced, Receiving
      <4>3. QED
        BY <1>1, <4>1, <4>2 DEF Abstract!Deliver, Abstract!Far, Other, TypeOK
    <3>2. CASE ~ TakesNext(p)
      BY <1>2, <3>2 DEF PassTransfers, Deliver
    <3>3. QED
      BY <3>1, <3>2
  <2>3. QED
    BY <2>1, <2>2 DEF Abstract!Next, Abstract!Generate, Abstract!Ends, Peers
<1>3. ASSUME NEW p \in Peers, NEW lost \in BOOLEAN, PassSends(p, lost)
      PROVE  Abstract!Next \/ UNCHANGED <<generated, delivered>>
  <2>1. \/ UNCHANGED generated
        \/ generated' = [generated EXCEPT ![p] = @ + 1]
    BY <1>1, <1>3 DEF PassSends, TypeOK
  <2>2. UNCHANGED delivered
    BY <1>3 DEF PassSends
  <2>3. QED
    BY <2>1, <2>2 DEF Abstract!Next, Abstract!Generate, Abstract!Ends, Peers
<1>4. ASSUME NEW p \in Peers, NEW link, NEW lost, ProcessReturn(p, link, lost)
      PROVE  UNCHANGED <<generated, delivered>>
  BY <1>4 DEF ProcessReturn
<1>5. ASSUME NEW p \in Peers,
             \/ \E lost \in BOOLEAN : FreePass(p, lost)
             \/ BusyPass(p)
      PROVE  Abstract!Next \/ UNCHANGED <<generated, delivered>>
  BY <1>2, <1>3, <1>4, <1>5 DEF FreePass, BusyPass
<1>6. ASSUME \/ \E p \in Peers : ProcessFails(p) \/ ReceiveOnce(p) \/ ReceiveCopy(p)
             \/ \E m \in net : Lose(m)
             \/ Tick
             \/ UNCHANGED vars
      PROVE  UNCHANGED <<generated, delivered>>
  BY <1>6 DEF ProcessFails, ReceiveOnce, ReceiveCopy, Receive, Lose, Tick, vars
<1>7. QED
  BY <1>5, <1>6 DEF Next

\* The control channel implements in-order delivery.
THEOREM Implementation == NoWrap => (Spec => ImplementsInOrderDelivery)
<1>1. Init => Abstract!Init
  BY DEF Init, Abstract!Init, Abstract!Ends, Peers
<1>2. IInv /\ [Next]_vars => [Abstract!Next]_<<generated, delivered>>
  BY AbstractStep
<1>3. SUFFICES ASSUME NoWrap PROVE Spec => ImplementsInOrderDelivery
  OBVIOUS
<1>4. Spec => []IInv
  BY <1>3, InductiveInvariant
<1>5. QED
  BY <1>1, <1>2, <1>4, PTL DEF Spec, ImplementsInOrderDelivery, Abstract!Spec

---------------------------------------------------------------------------
(* The three-way handshake. *)

\* b is a send buffer of a peer that has generated g packets and is linked or
\* not: the hard reset is its packet 0, and until the other peer's packet has
\* come it waits in the buffer.
Resets(b, g, link) ==
    /\ \A e \in b.entries : e.opcode = "P_HARD_RESET" => e.data = 0
    /\ g > 0 => link \/ \E e \in b.entries : e.data = 0

\* Why a key that reaches S_START has both hard resets: they are packets 0,
\* the first of them to arrive is stored at once, and a key that is opened has
\* generated its own.
Opening ==
    /\ \A m \in net : m.opcode = "P_HARD_RESET" => m.data = 0
    /\ \A p \in Peers :
          /\ state[p] \in {"S_PRE_START", "S_START"} => generated[p] > 0
          /\ Resets(send[p], generated[p], linked[p])
          /\ ~ linked[p] => rec[p].entries = {} /\ delivered[p] = << >>
          /\ linked[p] => Has(p, 0)
    /\ HandshakeComplete

\* Timers do not matter,
LEMMA ResetsSame ==
    ASSUME NEW b, NEW c, NEW g, NEW link, Resets(b, g, link), SameContent(b, c)
    PROVE  Resets(c, g, link)
BY DEF Resets, SameContent

\* and a new packet is the hard reset only when it is the first.
LEMMA ResetsMore ==
    ASSUME NEW b \in Buffers, NEW g \in Nat, NEW link, NEW op,
           b.packet_id = g,
           Resets(b, g, link), op = "P_HARD_RESET" => g = 0
    PROVE  Resets(MarkActiveOutgoing(b, op, g), g + 1, link)
<1> DEFINE out == MarkActiveOutgoing(b, op, g)
<1>1. /\ b.entries \subseteq out.entries
      /\ \E e \in out.entries : e.packet_id = b.packet_id /\ e.data = g
      /\ \A e \in out.entries :
            \/ e \in b.entries
            \/ e.packet_id = b.packet_id /\ e.data = g /\ e.opcode = op
  BY MarkActiveOutgoingContent
<1> HIDE DEF out
<1>2. \A e \in out.entries : e.opcode = "P_HARD_RESET" => e.data = 0
  BY <1>1 DEF Resets
<1>3. link \/ \E e \in out.entries : e.data = 0
  BY <1>1 DEF Resets
<1> QED
  BY <1>2, <1>3 DEF Resets, out

\* The send buffer at the top of a pass.
LEMMA ResetsAfterOpen ==
    ASSUME IInv, Opening, NEW p \in Peers
    PROVE  LET g == IF OpensKey(p) THEN generated[p] + 1 ELSE generated[p]
           IN  /\ Resets(AfterOpen(p), g, linked[p])
               /\ StateAfterOpen(p) \in {"S_PRE_START", "S_START"} => g > 0
<1>1. generated[p] \in Nat /\ send[p] \in Buffers /\ state[p] \in States
  BY DEF IInv, TypeOK
<1>2. send[p].packet_id = generated[p]
  BY DEF IInv, Numbered
<1>3. Resets(send[p], generated[p], linked[p])
  BY DEF Opening
<1>4. state[p] \in {"S_PRE_START", "S_START"} => generated[p] > 0
  BY DEF Opening
<1>5. CASE OpensKey(p)
  <2>1. generated[p] = 0
    BY <1>5 DEF IInv, Bounded, OpensKey
  <2> QED
    BY <1>1, <1>2, <1>3, <1>5, <2>1, ResetsMore DEF AfterOpen
<1>6. CASE ~ OpensKey(p)
  BY <1>3, <1>4, <1>6 DEF AfterOpen, StateAfterOpen
<1> QED
  BY <1>5, <1>6

\* The pass that starts the TLS handshake finds it complete.
LEMMA StartComplete ==
    ASSUME IInv, Opening, NEW p \in Peers, StateAfterOpen(p) = "S_START"
    PROVE  linked[p] /\ Has(p, 0) /\ Has(Other(p), 0)
<1>1. CASE state[p] = "S_START"
  BY <1>1 DEF Opening, HandshakeComplete
<1>2. CASE state[p] # "S_START"
  <2>1. state[p] = "S_PRE_START" /\ FullSync(p)
    BY <1>2 DEF StateAfterOpen
  <2>2. generated[p] \in Nat /\ generated[p] > 0 /\ send[p].entries = {}
    BY <2>1 DEF Opening, FullSync, ReliableEmpty, IInv, TypeOK
  <2>3. linked[p]
    BY <2>2 DEF Opening, Resets
  <2>4. 0 \in 0 .. generated[p] - 1
    BY <2>2
  <2>5. Has(Other(p), 0)
    BY <2>2, <2>4 DEF IInv, NothingLost
  <2> QED
    BY <2>3, <2>5 DEF Opening
<1> QED
  BY <1>1, <1>2

\* A step in which no peer becomes linked, the send buffers stay good and
\* nothing is delivered to a peer that is not linked.
LEMMA OpeningQuiet ==
    ASSUME IInv, Opening, GoodStep, UNCHANGED linked,
           \A q \in Peers : Resets(send'[q], generated'[q], linked[q]),
           \A q \in Peers : state'[q] \in {"S_PRE_START", "S_START"} => generated'[q] > 0,
           \A q \in Peers : state'[q] = "S_START"
               => linked[q] /\ Has(q, 0) /\ Has(Other(q), 0),
           \A q \in Peers : rec[q].entries = {}
               => rec'[q] = rec[q] /\ delivered'[q] = delivered[q],
           \A m \in net' : m.opcode = "P_HARD_RESET" => m.data = 0
    PROVE  Opening'
<1>1. \A q \in Peers : Has(q, 0) => Has(q, 0)'
  BY DEF GoodStep
<1>2. \A q \in Peers : Other(q) \in Peers
  BY DEF Other, Peers
<1>3. \A q \in Peers : /\ ~ linked[q] => rec'[q].entries = {} /\ delivered'[q] = << >>
                       /\ linked[q] => Has(q, 0)
  BY DEF Opening
<1>4. \A q \in Peers : linked[q] => Has(q, 0)'
  BY <1>1, <1>3
<1>5. HandshakeComplete'
  <2>1. SUFFICES ASSUME NEW q \in Peers, state'[q] = "S_START"
                 PROVE  linked'[q] /\ Has(q, 0)' /\ Has(Other(q), 0)'
    BY DEF HandshakeComplete, Other
  <2>2. linked[q] /\ Has(q, 0) /\ Has(Other(q), 0)
    BY <2>1
  <2>3. Other(q) \in Peers
    BY <1>2
  <2> QED
    BY <1>1, <2>2, <2>3
<1> QED
  BY <1>3, <1>4, <1>5 DEF Opening

\* What a peer is not linked to has nothing to deliver.
LEMMA PassSendsOpening ==
    ASSUME NoWrap, IInv, Opening, NEW p \in Peers, NEW lost \in BOOLEAN,
           PassSends(p, lost)
    PROVE  Opening'
<1> DEFINE g == IF OpensKey(p) THEN generated[p] + 1 ELSE generated[p]
<1>1. PICK e \in NextToSend(AfterOpen(p)) :
          /\ Transmit(DataPacket(p, e, AckWritten(recAck[p], SendAckMax)), lost)
          /\ \E retry \in UniqueRetry(AfterOpen(p), e.timeout) :
                send' = [send EXCEPT ![p] = MarkSent(AfterOpen(p), e, retry)]
  BY DEF PassSends
<1>2. PICK retry \in UniqueRetry(AfterOpen(p), e.timeout) :
          send' = [send EXCEPT ![p] = MarkSent(AfterOpen(p), e, retry)]
  BY <1>1
<1>3. TypeOK
  BY DEF IInv
<1>4. /\ AfterOpen(p) \in Buffers /\ e \in AfterOpen(p).entries /\ e \in Entries
      /\ retry \in Nat
  <2>1. AfterOpen(p) \in Buffers /\ e \in AfterOpen(p).entries /\ e \in Entries
    BY <1>3, AfterOpenType DEF NextToSend, Due, Buffers
  <2> QED
    BY <2>1 DEF UniqueRetry, Entries
<1>5. /\ Resets(AfterOpen(p), g, linked[p])
      /\ StateAfterOpen(p) \in {"S_PRE_START", "S_START"} => g > 0
  BY ResetsAfterOpen
<1>6. Resets(MarkSent(AfterOpen(p), e, retry), g, linked[p])
  BY <1>4, <1>5, MarkSentContent, ResetsSame
<1>7. /\ generated' = [generated EXCEPT ![p] = g]
      /\ state' = [state EXCEPT ![p] = StateAfterOpen(p)]
      /\ UNCHANGED <<linked, rec, delivered>>
  BY DEF PassSends
<1>8. \A q \in Peers : Resets(send[q], generated[q], linked[q])
  BY DEF Opening
<1> HIDE DEF g
<1>9. \A q \in Peers : Resets(send'[q], generated'[q], linked[q])
  BY <1>2, <1>3, <1>6, <1>7, <1>8 DEF TypeOK
<1>10. \A q \in Peers : state'[q] \in {"S_PRE_START", "S_START"} => generated'[q] > 0
  BY <1>3, <1>5, <1>7 DEF TypeOK, Opening
<1>11. \A q \in Peers : state'[q] = "S_START"
           => linked[q] /\ Has(q, 0) /\ Has(Other(q), 0)
  BY <1>3, <1>7, StartComplete DEF TypeOK, Opening, HandshakeComplete
<1>12. \A m \in net' : m.opcode = "P_HARD_RESET" => m.data = 0
  BY <1>1, <1>4, <1>5 DEF Transmit, DataPacket, Opening, Resets
<1> QED
  BY <1>7, <1>9, <1>10, <1>11, <1>12, PassSendsGood, OpeningQuiet

LEMMA PassTransfersOpening ==
    ASSUME NoWrap, IInv, Opening, NEW p \in Peers, NEW link, NEW generates \in BOOLEAN,
           PassTransfers(p, link, generates)
    PROVE  Opening'
<1>1. TypeOK
  BY DEF IInv
<1>2. generates => ~ OpensKey(p)
  BY DEF PassTransfers, MayGenerate, StateAfterOpen
<1> DEFINE g == IF OpensKey(p) \/ generates THEN generated[p] + 1 ELSE generated[p]
<1>3. /\ generated' = [generated EXCEPT ![p] = g]
      /\ state' = [state EXCEPT ![p] = StateAfterOpen(p)]
      /\ UNCHANGED <<linked, net>>
  BY DEF PassTransfers
<1>4. /\ generated[p] \in Nat /\ send[p] \in Buffers
      /\ send[p].packet_id = generated[p]
      /\ Resets(send[p], generated[p], linked[p])
  BY <1>1 DEF TypeOK, IInv, Numbered, Opening
<1>5. Resets(send'[p], g, linked[p])
  <2>1. CASE generates
    <3>1. send'[p] = MarkActiveOutgoing(send[p], "P_CONTROL", generated[p])
      BY <1>1, <2>1 DEF PassTransfers, TypeOK
    <3>2. Resets(MarkActiveOutgoing(send[p], "P_CONTROL", generated[p]),
                 generated[p] + 1, linked[p])
      BY <1>4, ResetsMore
    <3> QED
      BY <2>1, <3>1, <3>2
  <2>2. CASE ~ generates
    <3>1. send'[p] = AfterOpen(p)
      BY <1>1, <2>2 DEF PassTransfers, TypeOK
    <3> QED
      BY <2>2, <3>1, ResetsAfterOpen
  <2> QED
    BY <2>1, <2>2
<1>6. StateAfterOpen(p) \in {"S_PRE_START", "S_START"} => g > 0
  <2>1. LET h == IF OpensKey(p) THEN generated[p] + 1 ELSE generated[p]
        IN  StateAfterOpen(p) \in {"S_PRE_START", "S_START"} => h > 0
    BY ResetsAfterOpen
  <2> QED
    BY <1>4, <2>1
<1> HIDE DEF g
<1>7. \A q \in Peers : Resets(send'[q], generated'[q], linked[q])
  BY <1>1, <1>3, <1>5 DEF PassTransfers, TypeOK, Opening
<1>8. \A q \in Peers : state'[q] \in {"S_PRE_START", "S_START"} => generated'[q] > 0
  BY <1>1, <1>3, <1>6 DEF TypeOK, Opening
<1>9. \A q \in Peers : state'[q] = "S_START"
          => linked[q] /\ Has(q, 0) /\ Has(Other(q), 0)
  BY <1>1, <1>3, StartComplete DEF TypeOK, Opening, HandshakeComplete
<1>10. \A q \in Peers : rec[q].entries = {}
           => rec'[q] = rec[q] /\ delivered'[q] = delivered[q]
  <2>1. CASE TakesNext(p)
    <3>1. rec[p].entries # {}
      BY <2>1 DEF TakesNext, Sequenced
    <3>2. \A q \in Peers \ {p} : rec'[q] = rec[q] /\ delivered'[q] = delivered[q]
      BY <1>1, <2>1 DEF PassTransfers, Deliver, TypeOK
    <3> QED
      BY <3>1, <3>2
  <2>2. CASE ~ TakesNext(p)
    BY <2>2 DEF PassTransfers, Deliver
  <2> QED
    BY <2>1, <2>2
<1>11. \A m \in net' : m.opcode = "P_HARD_RESET" => m.data = 0
  BY <1>3 DEF Opening
<1> QED
  BY <1>3, <1>7, <1>8, <1>9, <1>10, <1>11, PassTransfersGood, OpeningQuiet

\* A peer that has nothing takes the first packet of the other.
LEMMA FirstIsStored ==
    ASSUME RecSize < PidMod, NEW p \in Peers, NEW m, m.packet_id = 0,
           rec[p].entries = {}, rec[p].packet_id = 0
    PROVE  Stores(p, m)
<1>1. Cardinality({}) = 0
  BY FS_EmptySet
<1>2. Half > 0 /\ RecSize \in Nat \ {0}
  BY PidModAssumption, SizeAssumption DEF Half
<1>3. CanGet(rec[p], RecSize)
  BY <1>1, <1>2 DEF CanGet
<1>4. WontBreakSequentiality(rec[p], 0, RecSize)
  BY <1>2, PidModAssumption DEF WontBreakSequentiality, PidInRange2, PidAdd
<1>5. NotReplay(rec[p], 0)
  BY <1>2 DEF NotReplay, PidMin, PidInRange1, PidSub, ActiveIds
<1> QED
  BY <1>3, <1>4, <1>5 DEF Stores

LEMMA ReceiveOpening ==
    ASSUME NoWrap, RecSize < PidMod, IInv, Opening, NEW p \in Peers, NEW m \in net,
           Receive(p, m), net' \subseteq net
    PROVE  Opening'
<1>1. TypeOK /\ GoodStep
  BY ReceiveGood DEF IInv
<1>2. UNCHANGED <<state, generated, delivered>>
  BY DEF Receive
<1>3. CASE ~ Routable(p, m)
  BY <1>1, <1>2, <1>3, OpeningQuiet DEF Receive, Opening, HandshakeComplete
<1>4. CASE Routable(p, m)
  <2> DEFINE b == IF Bursts(p) THEN ScheduleNow(send[p]) ELSE send[p]
  <2>1. /\ send' = [send EXCEPT ![p] = SendPurge(b, m.acks)]
        /\ linked' = [linked EXCEPT ![p] = TRUE]
    BY <1>1, <1>4 DEF Receive, TypeOK
  <2>2. b \in Buffers
    BY <1>1, ScheduleNowType DEF TypeOK
  <2>3. Resets(b, generated[p], linked[p])
    BY <1>1, ScheduleNowContent, ResetsSame DEF TypeOK, Opening
  <2> HIDE DEF b
  <2>4. Resets(SendPurge(b, m.acks), generated[p], TRUE)
    BY <2>2, <2>3 DEF Resets, SendPurge, Buffers
  <2>5. \A q \in Peers : Resets(send'[q], generated'[q], linked'[q])
    BY <1>1, <1>2, <2>1, <2>4 DEF TypeOK, Opening
  <2>6. \A q \in Peers \ {p} : rec'[q] = rec[q] /\ linked'[q] = linked[q]
    BY <1>1, <2>1 DEF Receive, TypeOK
  <2>7. \A q \in Peers : Has(q, 0) => Has(q, 0)'
    BY <1>1 DEF GoodStep
  <2>8. Has(p, 0)'
    <3>1. CASE linked[p]
      BY <2>7, <3>1 DEF Opening
    <3>2. CASE ~ linked[p]
      <4>1. m.opcode = "P_HARD_RESET" /\ m.data = 0 /\ m.packet_id = 0
        BY <1>4, <3>2, InvNet DEF Routable, Opening
      <4>2. rec[p].entries = {} /\ rec[p].packet_id = 0 /\ rec[p] \in Buffers
        <5>1. delivered[p] = << >> /\ rec[p].entries = {}
          BY <3>2 DEF Opening
        <5>2. rec[p].packet_id = Len(delivered[p])
          BY DEF IInv, Numbered
        <5> QED
          BY <1>1, <5>1, <5>2 DEF TypeOK
      <4>3. Stores(p, m)
        BY <4>1, <4>2, FirstIsStored
      <4>4. rec'[p] = MarkActiveIncoming(rec[p], m.packet_id, m.opcode, m.data)
        BY <1>1, <1>4, <4>1, <4>3 DEF Receive, TypeOK
      <4>5. \E e \in rec'[p].entries : e.data = 0
        BY <4>1, <4>2, <4>4, MarkActiveIncomingContent
      <4> QED
        BY <4>5 DEF Has, Stored
    <3> QED
      BY <3>1, <3>2
  <2>9. \A q \in Peers : /\ ~ linked'[q] => rec'[q].entries = {} /\ delivered'[q] = << >>
                         /\ linked'[q] => Has(q, 0)'
    BY <1>1, <1>2, <2>1, <2>6, <2>7, <2>8 DEF Opening, TypeOK
  <2>10. HandshakeComplete'
    <3>1. SUFFICES ASSUME NEW q \in Peers, state'[q] = "S_START"
                   PROVE  linked'[q] /\ Has(q, 0)' /\ Has(Other(q), 0)'
      BY DEF HandshakeComplete, Other
    <3>2. Other(q) \in Peers
      BY DEF Other, Peers
    <3>3. linked[q] /\ Has(q, 0) /\ Has(Other(q), 0)
      BY <1>2, <3>1 DEF Opening, HandshakeComplete
    <3> QED
      BY <1>1, <2>1, <2>7, <3>2, <3>3 DEF TypeOK
  <2>11. \A q \in Peers : state'[q] \in {"S_PRE_START", "S_START"} => generated'[q] > 0
    BY <1>2 DEF Opening
  <2>12. \A x \in net' : x.opcode = "P_HARD_RESET" => x.data = 0
    BY DEF Opening
  <2> QED
    BY <2>5, <2>9, <2>10, <2>11, <2>12 DEF Opening
<1> QED
  BY <1>3, <1>4

LEMMA OpeningStep ==
    ASSUME NoWrap, RecSize < PidMod, IInv, Opening, [Next]_vars
    PROVE  Opening'
<1>0. TypeOK
  BY DEF IInv
<1>1. CASE UNCHANGED vars
  BY <1>1 DEF vars, Opening, HandshakeComplete, Has, Stored
<1>2. ASSUME NEW p \in Peers, NEW link, NEW lost \in BOOLEAN,
             ProcessReturn(p, link, lost)
      PROVE  Opening'
  <2>1. \A m \in net' : m.opcode = "P_HARD_RESET" => m.data = 0
    BY <1>2 DEF ProcessReturn, Transmit, AckPacket, Opening
  <2>2. UNCHANGED <<state, linked, send, rec, generated, delivered>>
    BY <1>2 DEF ProcessReturn
  <2> QED
    BY <1>2, <2>1, <2>2, ProcessReturnGood, OpeningQuiet DEF Opening, HandshakeComplete
<1>3. ASSUME NEW p \in Peers, ProcessFails(p)
      PROVE  Opening'
  <2>1. /\ UNCHANGED <<linked, send, rec, generated, delivered, net>>
        /\ \A q \in Peers : state'[q] \in {state[q], "S_ERROR"}
    BY <1>0, <1>3 DEF ProcessFails, TypeOK
  <2> QED
    BY <1>3, <2>1, ProcessFailsGood, OpeningQuiet DEF Opening, HandshakeComplete
<1>4. ASSUME NEW m \in net, Lose(m)
      PROVE  Opening'
  <2>1. /\ UNCHANGED <<state, linked, send, rec, generated, delivered>>
        /\ net' \subseteq net
    BY <1>4 DEF Lose
  <2> QED
    BY <1>4, <2>1, LoseGood, OpeningQuiet DEF Opening, HandshakeComplete
<1>5. ASSUME Tick
      PROVE  Opening'
  <2>1. UNCHANGED <<state, linked, rec, generated, delivered, net>>
    BY <1>5 DEF Tick
  <2>2. \A q \in Peers : Resets(send'[q], generated[q], linked[q])
    <3>1. SUFFICES ASSUME NEW q \in Peers
                   PROVE  Resets(Elapse(send[q]), generated[q], linked[q])
      BY <1>5 DEF Tick
    <3> QED
      BY <1>0, ElapseContent, ResetsSame DEF Opening, TypeOK
  <2> QED
    BY <1>5, <2>1, <2>2, TickGood, OpeningQuiet DEF Opening, HandshakeComplete
<1>6. ASSUME NEW p \in Peers,
             (\E lost \in BOOLEAN : FreePass(p, lost)) \/ BusyPass(p)
      PROVE  Opening'
  BY <1>2, <1>6, PassSendsOpening, PassTransfersOpening DEF FreePass, BusyPass
<1>7. ASSUME NEW p \in Peers, ReceiveOnce(p) \/ ReceiveCopy(p)
      PROVE  Opening'
  <2>1. PICK m \in net : Receive(p, m) /\ net' \subseteq net
    BY <1>7 DEF ReceiveOnce, ReceiveCopy
  <2> QED
    BY <2>1, ReceiveOpening
<1> QED
  BY <1>1, <1>3, <1>4, <1>5, <1>6, <1>7 DEF Next

\* S_START is entered only when each peer has the other's hard reset, on a key
\* whose window is not the whole id space and that does not see half of it
\* (tls_process, FULL_SYNC).
THEOREM HandshakeIsComplete ==
    NoWrap /\ RecSize < PidMod => (Spec => []HandshakeComplete)
<1>1. SUFFICES ASSUME NoWrap, RecSize < PidMod PROVE Spec => []HandshakeComplete
  OBVIOUS
<1>2. Init => Opening
  BY DEF Init, ReliableInit, Opening, Resets, HandshakeComplete, Peers
<1>3. IInv /\ Opening /\ [Next]_vars => Opening'
  BY <1>1, OpeningStep
<1>4. Opening => HandshakeComplete
  BY DEF Opening
<1>5. Spec => []IInv
  BY <1>1, InductiveInvariant
<1> QED
  BY <1>2, <1>3, <1>4, <1>5, PTL DEF Spec

---------------------------------------------------------------------------
(* The receive window. *)

\* The packets of a receive buffer are different ones, none behind the one that
\* is next in sequence and none further ahead than the buffer is large.
Windowed(rel) ==
    /\ \A e, f \in rel.entries : e.packet_id = f.packet_id => e = f
    /\ \A e \in rel.entries :
          e.packet_id \in rel.packet_id .. rel.packet_id + RecSize - 1

AllWindowed == \A p \in Peers : Windowed(rec[p])

\* A buffer that is windowed has a free slot, or the next packet: all the
\* others are fewer than it has slots.
LEMMA WindowedNotWedged ==
    ASSUME NEW rel \in Buffers, Windowed(rel)
    PROVE  CanGet(rel, RecSize) \/ Sequenced(rel) # {}
<1> DEFINE first == rel.packet_id + 1
           last == rel.packet_id + RecSize - 1
           id == [e \in rel.entries |-> e.packet_id]
<1>1. rel.packet_id \in Nat /\ RecSize \in Nat \ {0}
  BY PidModAssumption, SizeAssumption DEF Buffers, PacketIds
<1>2. SUFFICES ASSUME Sequenced(rel) = {}
               PROVE  CanGet(rel, RecSize)
  OBVIOUS
<1>3. \A e \in rel.entries : e.packet_id \in first .. last
  <2>1. TAKE e \in rel.entries
  <2>2. e.packet_id # rel.packet_id
    BY <1>2 DEF Sequenced
  <2> QED
    BY <1>1, <2>2 DEF Windowed
<1>4. id \in Injection(rel.entries, first .. last)
  BY <1>3 DEF Windowed, Injection, IsInjective
<1>5. /\ IsFiniteSet(first .. last)
      /\ Cardinality(first .. last) = IF first > last THEN 0 ELSE last - first + 1
  <2>1. first \in Int /\ last \in Int
    BY <1>1
  <2> HIDE DEF first, last
  <2> QED
    BY <2>1, FS_Interval
<1>6. /\ IsFiniteSet(rel.entries)
      /\ Cardinality(rel.entries) <= Cardinality(first .. last)
  BY <1>4, <1>5, FS_Injection
<1>7. Cardinality(first .. last) < RecSize
  BY <1>1, <1>5
<1>8. Cardinality(rel.entries) \in Nat
  BY <1>6, FS_CardinalityType
<1> QED
  BY <1>1, <1>5, <1>6, <1>7, <1>8 DEF CanGet

\* What is stored is in the window and not there yet,
LEMMA WindowedStore ==
    ASSUME NEW rel \in Buffers, Windowed(rel), NEW id \in Nat, NEW op, NEW d,
           rel.packet_id <= Half, id < Half, rel.packet_id + RecSize < PidMod,
           WontBreakSequentiality(rel, id, RecSize), NotReplay(rel, id)
    PROVE  Windowed(MarkActiveIncoming(rel, id, op, d))
<1> DEFINE new == [packet_id |-> id, opcode |-> op, data |-> d,
                   wait |-> 0, timeout |-> 0]
<1>1. /\ MarkActiveIncoming(rel, id, op, d).entries = rel.entries \union {new}
      /\ MarkActiveIncoming(rel, id, op, d).packet_id = rel.packet_id
  BY DEF MarkActiveIncoming, Buffers
<1>2. new.packet_id = id
  OBVIOUS
<1>3. rel.packet_id \in Nat /\ RecSize \in Nat \ {0} /\ PidMod \in Nat
  BY PidModAssumption, SizeAssumption DEF Buffers, PacketIds
<1>4. id < rel.packet_id + RecSize
  BY <1>3 DEF WontBreakSequentiality, PidInRange2, PidAdd
<1>5. rel.packet_id <= id
  BY <1>3, PidMinIsLess DEF NotReplay
<1>6. \A e \in rel.entries : e.packet_id # id
  BY DEF NotReplay, ActiveIds
<1> HIDE DEF new
<1>7. \A e \in rel.entries \union {new} :
          e.packet_id \in rel.packet_id .. rel.packet_id + RecSize - 1
  BY <1>2, <1>3, <1>4, <1>5 DEF Windowed
<1>8. \A e, f \in rel.entries \union {new} : e.packet_id = f.packet_id => e = f
  BY <1>2, <1>6 DEF Windowed
<1> QED
  BY <1>1, <1>7, <1>8 DEF Windowed

\* and what is taken out is the first of it.
LEMMA WindowedDelete ==
    ASSUME NEW rel \in Buffers, Windowed(rel), NEW e \in Sequenced(rel),
           rel.packet_id + 1 < PidMod
    PROVE  Windowed(MarkDeleted(rel, e))
<1>1. /\ MarkDeleted(rel, e).entries = rel.entries \ {e}
      /\ MarkDeleted(rel, e).packet_id = PidInc(e.packet_id)
  BY DEF MarkDeleted, Buffers
<1>2. rel.packet_id \in Nat /\ RecSize \in Nat \ {0}
  BY PidModAssumption, SizeAssumption DEF Buffers, PacketIds
<1>3. e \in rel.entries /\ e.packet_id = rel.packet_id
  BY DEF Sequenced
<1>4. PidInc(e.packet_id) = rel.packet_id + 1
  BY <1>2, <1>3, PidIncNat
<1>5. ASSUME NEW f \in rel.entries \ {e}
      PROVE  f.packet_id \in rel.packet_id + 1 .. rel.packet_id + 1 + RecSize - 1
  <2>1. f.packet_id # rel.packet_id
    BY <1>3 DEF Windowed
  <2>2. f.packet_id \in rel.packet_id .. rel.packet_id + RecSize - 1
    BY DEF Windowed
  <2> QED
    BY <1>2, <2>1, <2>2
<1> QED
  BY <1>1, <1>4, <1>5 DEF Windowed

\* No step breaks a window.
LEMMA WindowedStep ==
    ASSUME NoWrap, \A p \in Peers : MaxPackets[p] + RecSize < PidMod,
           IInv, AllWindowed, [Next]_vars
    PROVE  AllWindowed'
<1>1. TypeOK
  BY DEF IInv
<1>2. ASSUME NEW p \in Peers
      PROVE  /\ Windowed(rec[p]) /\ rec[p] \in Buffers
             /\ Other(p) \in Peers
             /\ rec[p].packet_id \in Nat /\ generated[Other(p)] \in Nat
             /\ rec[p].packet_id = Len(delivered[p])
             /\ rec[p].packet_id <= generated[Other(p)]
             /\ generated[Other(p)] <= Half
             /\ generated[Other(p)] + RecSize < PidMod
  <2>1. Other(p) \in Peers
    BY DEF Other, Peers
  <2>2. /\ rec[p].packet_id = Len(delivered[p])
        /\ Len(delivered[p]) <= generated[Other(p)]
        /\ generated[Other(p)] <= MaxPackets[Other(p)]
    BY <2>1 DEF IInv, Numbered, InOrder, Bounded
  <2>3. /\ MaxPackets[Other(p)] \in Nat /\ MaxPackets[Other(p)] <= Half
        /\ MaxPackets[Other(p)] + RecSize < PidMod
    BY <2>1, MaxPacketsAssumption DEF NoWrap
  <2>4. /\ Half \in Nat /\ RecSize \in Nat /\ PidMod \in Nat
        /\ generated[Other(p)] \in Nat /\ Len(delivered[p]) \in Nat
    BY <1>1, <2>1, PidModAssumption, SizeAssumption DEF Half, TypeOK
  <2> QED
    BY <1>1, <2>1, <2>2, <2>3, <2>4 DEF TypeOK, AllWindowed
<1>3. ASSUME NEW p \in Peers, Deliver(p)
      PROVE  AllWindowed'
  <2>1. CASE TakesNext(p)
    <3>1. PICK e \in Sequenced(rec[p]) :
              rec' = [rec EXCEPT ![p] = MarkDeleted(@, e)]
      BY <1>3, <2>1 DEF Deliver
    <3>2. e.packet_id = rec[p].packet_id /\ e.data = e.packet_id
          /\ e.data < generated[Other(p)]
      BY <1>2, InvReceiving DEF Sequenced, Receiving
    <3>3. rec[p].packet_id + 1 < PidMod
      BY <1>2, <3>2, SizeAssumption, PidModAssumption
    <3>4. Windowed(MarkDeleted(rec[p], e))
      BY <1>2, <3>3, WindowedDelete
    <3> QED
      BY <1>1, <1>2, <3>1, <3>4 DEF AllWindowed, TypeOK
  <2>2. CASE ~ TakesNext(p)
    BY <1>2, <1>3, <2>2 DEF Deliver, AllWindowed
  <2> QED
    BY <2>1, <2>2
<1>4. ASSUME NEW p \in Peers, NEW m \in net, Receive(p, m)
      PROVE  AllWindowed'
  <2> DEFINE in == MarkActiveIncoming(rec[p], m.packet_id, m.opcode, m.data)
  <2>1. \/ UNCHANGED rec
        \/ /\ Stores(p, m) /\ m.opcode # "P_ACK"
           /\ rec' = [rec EXCEPT ![p] = in]
    BY <1>1, <1>4 DEF Receive, TypeOK
  <2>2. ASSUME Stores(p, m), m.opcode # "P_ACK"
        PROVE  Windowed(in)
    <3>1. m.from = Other(p) /\ m.packet_id \in Nat
      BY <1>1, <1>4, PidModAssumption DEF Receive, TypeOK, Packets, PacketIds
    <3>2. m.packet_id = m.data /\ m.data < generated[Other(p)]
      BY <2>2, <3>1, InvNet
    <3>3. Half \in Nat /\ RecSize \in Nat /\ PidMod \in Nat
      BY PidModAssumption, SizeAssumption DEF Half
    <3>4. /\ m.packet_id < Half /\ rec[p].packet_id <= Half
          /\ rec[p].packet_id + RecSize < PidMod
      BY <1>2, <3>1, <3>2, <3>3
    <3> QED
      BY <1>2, <2>2, <3>1, <3>4, WindowedStore DEF Stores
  <2> QED
    BY <1>1, <1>2, <2>1, <2>2 DEF AllWindowed, TypeOK
<1>5. ASSUME NEW p \in Peers,
             (\E lost \in BOOLEAN : FreePass(p, lost)) \/ BusyPass(p)
      PROVE  Deliver(p) \/ UNCHANGED rec
  BY <1>5 DEF FreePass, BusyPass, PassSends, PassTransfers, ProcessReturn
<1>6. ASSUME \/ \E p \in Peers : ProcessFails(p)
             \/ \E m \in net : Lose(m)
             \/ Tick
             \/ UNCHANGED vars
      PROVE  UNCHANGED rec
  BY <1>6 DEF ProcessFails, Lose, Tick, vars
<1>7. CASE UNCHANGED rec
  BY <1>2, <1>7 DEF AllWindowed
<1>8. ASSUME NEW p \in Peers, ReceiveOnce(p) \/ ReceiveCopy(p)
      PROVE  AllWindowed'
  BY <1>4, <1>8 DEF ReceiveOnce, ReceiveCopy
<1> QED
  BY <1>3, <1>5, <1>6, <1>7, <1>8 DEF Next

\* A receive buffer that is full holds the packet that is next in sequence, and
\* so can be emptied, as long as the window does not reach the end of the id
\* space (reliable_wont_break_sequentiality, reliable_not_replay).
THEOREM NeverWedged ==
    NoWrap /\ (\A p \in Peers : MaxPackets[p] + RecSize < PidMod)
        => (Spec => []NotWedged)
<1>1. SUFFICES ASSUME NoWrap, \A p \in Peers : MaxPackets[p] + RecSize < PidMod
               PROVE  Spec => []NotWedged
  OBVIOUS
<1>2. Init => AllWindowed
  BY DEF Init, ReliableInit, AllWindowed, Windowed
<1>3. IInv /\ AllWindowed /\ [Next]_vars => AllWindowed'
  BY <1>1, WindowedStep
<1>4. IInv /\ AllWindowed => NotWedged
  BY WindowedNotWedged DEF IInv, TypeOK, AllWindowed, NotWedged
<1>5. Spec => []IInv
  BY <1>1, InductiveInvariant
<1> QED
  BY <1>2, <1>3, <1>4, <1>5, PTL DEF Spec
===============================================================================
