------------------------------ MODULE Reliable ------------------------------
(***************************************************************************)
(* The data structures of openvpn/Src/reliable.c: `struct reliable`, the   *)
(* send or receive buffer of a control channel, and `struct reliable_ack`, *)
(* the packet ids waiting to be acknowledged.  One operator per function.  *)
(*                                                                         *)
(* Packet ids are unsigned and wrap at PidMod (2^32 in the code, see       *)
(* packet_id_type); the arithmetic below is the code's.                    *)
(*                                                                         *)
(* A `struct reliable` is a record                                         *)
(*   hold       the --tls-server hold flag: nothing is sent while it is set*)
(*   packet_id  the next id to hand out (sending) or to expect (receiving) *)
(*   entries    the set of the active slots of array[]                     *)
(* The array's slots are interchangeable, so that only the number of free  *)
(* ones matters: a slot is free when fewer than `size` entries are active. *)
(* The buffer of an entry is abstracted to the value `data`; its deadline  *)
(* next_try is kept as `wait`, the seconds from now until it (0 when it is *)
(* reached).                                                               *)
(***************************************************************************)
EXTENDS Integers, Sequences, FiniteSets

CONSTANTS
    PidMod,           \* number of packet ids
    AckSize,          \* RELIABLE_ACK_SIZE, the capacity of a reliable_ack
    InitialTimeout,   \* --tls-timeout, seconds until the first retransmission
    MaxTimeout        \* bound: a timeout that has doubled past it stays there

ASSUME PidModAssumption == PidMod \in Nat /\ PidMod >= 2
ASSUME AckSizeAssumption == AckSize \in Nat \ {0}
ASSUME TimeoutAssumption ==
    /\ InitialTimeout \in Nat \ {0}
    /\ MaxTimeout \in Nat
    /\ MaxTimeout >= InitialTimeout

PacketIds == 0 .. PidMod - 1

Half == PidMod \div 2

---------------------------------------------------------------------------
\* Unsigned arithmetic on packet ids.

\* a + 1, a + n (n < PidMod) and a - b modulo PidMod.
PidAdd(a, n) == IF a + n >= PidMod THEN a + n - PidMod ELSE a + n
PidInc(a) == PidAdd(a, 1)
PidSub(a, b) == IF a >= b THEN a - b ELSE a - b + PidMod

\* test - base < extent, for ids on either side of the wrap.  The code adds
\* 0x80000000 to both when test < base, which leaves the difference alone.
PidInRange1(test, base, extent) == PidSub(test, base) < extent

\* test < base + extent, where the sum wraps: then both sides are shifted by
\* half the id space before they are compared.
PidInRange2(test, base, extent) ==
    IF PidAdd(base, extent) >= base
    THEN test < PidAdd(base, extent)
    ELSE PidAdd(test, Half) < PidAdd(PidAdd(base, Half), extent)

\* p1 < p2 in the order that wraps.
PidMin(p1, p2) == ~ PidInRange1(p1, p2, Half)

---------------------------------------------------------------------------
\* struct reliable_ack: the ids to acknowledge, oldest first.

AckPresent(ack, pid) == \E i \in DOMAIN ack : ack[i] = pid

\* Queue pid once; when the record is full it is not queued at all.
AckAcknowledge(ack, pid) ==
    IF ~ AckPresent(ack, pid) /\ Len(ack) < AckSize
    THEN Append(ack, pid)
    ELSE ack

\* reliable_ack_write moves the first ids, at most max of them, into the
\* outgoing packet: those written, and those that stay.
AckWriteCount(ack, max) == IF Len(ack) > max THEN max ELSE Len(ack)
AckWritten(ack, max) == {ack[i] : i \in 1 .. AckWriteCount(ack, max)}
AckRest(ack, max) == SubSeq(ack, AckWriteCount(ack, max) + 1, Len(ack))

---------------------------------------------------------------------------
\* struct reliable.

ReliableInit(hold) == [hold |-> hold, packet_id |-> 0, entries |-> {}]

ActiveIds(rel) == {e.packet_id : e \in rel.entries}

ReliableEmpty(rel) == rel.entries = {}

\* A slot is free (reliable_can_get, and reliable_get_buf is not NULL).
CanGet(rel, size) == Cardinality(rel.entries) < size

\* Delete what the peer has acknowledged.
SendPurge(rel, acked) ==
    [rel EXCEPT !.entries = {e \in @ : e.packet_id \notin acked}]

NotReplay(rel, id) ==
    /\ ~ PidMin(id, rel.packet_id)
    /\ id \notin ActiveIds(rel)

\* Mutants: no window; ids behind the window are outside it.
WontBreakSequentialityNoWindow(rel, id, size) == TRUE
WontBreakSequentialityAhead(rel, id, size) == PidInRange1(id, rel.packet_id, size)
WontBreakSequentiality(rel, id, size) ==
    PidInRange2(id, rel.packet_id, size)

\* A slot may be taken for output only while the next id stays within `size`
\* of every unacknowledged one, the least of them included.
OutputSequenced(rel, size) ==
    /\ CanGet(rel, size)
    /\ \A e \in rel.entries :
          (\A f \in rel.entries : ~ PidMin(f.packet_id, e.packet_id))
              => PidInRange1(rel.packet_id, e.packet_id, size)

\* The entries whose id is the next one expected: reliable_get_buf_sequenced
\* returns the buffer of one, or NULL.
Sequenced(rel) == {e \in rel.entries : e.packet_id = rel.packet_id}

\* The entries whose deadline has passed.
Due(rel) == {e \in rel.entries : e.wait = 0}

CanSend(rel) == Due(rel) # {} /\ ~ rel.hold

\* The due entries with the least id: reliable_send picks it.
NextToSend(rel) ==
    {e \in Due(rel) : \A f \in Due(rel) : ~ PidMin(f.packet_id, e.packet_id)}

\* Mutant: deadlines are not moved apart.
UniqueRetryMutant(rel, retry) == {retry}

\* The first moment at or after `retry` seconds from now that is no active
\* entry's deadline.
UniqueRetry(rel, retry) ==
    {t \in retry .. retry + Cardinality(rel.entries) :
        /\ \A e \in rel.entries : e.wait # t
        /\ \A u \in retry .. t - 1 : \E e \in rel.entries : e.wait = u}

Backoff(timeout) == IF 2 * timeout > MaxTimeout THEN MaxTimeout ELSE 2 * timeout

\* Mutant: what was sent is forgotten.
MarkSentMutant(rel, e, retry) == [rel EXCEPT !.entries = @ \ {e}]

\* reliable_send: entry e is handed out for transmission and sent again in
\* `retry` seconds; the timeout doubles each time.
MarkSent(rel, e, retry) ==
    [rel EXCEPT !.entries = (@ \ {e}) \union
        {[e EXCEPT !.wait = retry, !.timeout = Backoff(@)]}]

\* Mutant: hold is kept.
ScheduleNowMutant(rel) ==
    [rel EXCEPT !.entries = {[e EXCEPT !.wait = 0, !.timeout = InitialTimeout]
                                : e \in @}]

\* All unacknowledged packets become due at once.
ScheduleNow(rel) ==
    [rel EXCEPT !.hold = FALSE,
                !.entries = {[e EXCEPT !.wait = 0, !.timeout = InitialTimeout]
                                : e \in @}]

\* An incoming packet takes a free slot under the id it carries.
MarkActiveIncoming(rel, pid, opcode, data) ==
    [rel EXCEPT !.entries = @ \union
        {[packet_id |-> pid, opcode |-> opcode, data |-> data,
          wait |-> 0, timeout |-> 0]}]

\* An outgoing packet takes a free slot under the next id.
MarkActiveOutgoing(rel, opcode, data) ==
    [rel EXCEPT !.entries = @ \union
                    {[packet_id |-> rel.packet_id, opcode |-> opcode,
                      data |-> data, wait |-> 0, timeout |-> InitialTimeout]},
                !.packet_id = PidInc(@)]

\* Mutant: the id expected next stays (inc_pid FALSE).
MarkDeletedMutant(rel, e) == [rel EXCEPT !.entries = @ \ {e}]

\* Free the slot of e and expect the id after its own.
MarkDeleted(rel, e) ==
    [rel EXCEPT !.entries = @ \ {e}, !.packet_id = PidInc(e.packet_id)]

\* Mutant: a deadline that has passed runs on.
ElapseMutant(rel) == [rel EXCEPT !.entries = {[e EXCEPT !.wait = @ - 1] : e \in @}]

\* One second passes.
Elapse(rel) ==
    [rel EXCEPT !.entries = {[e EXCEPT !.wait = IF @ = 0 THEN 0 ELSE @ - 1]
                                : e \in @}]

=============================================================================
