------------------------------ MODULE Fragment ------------------------------
(***************************************************************************)
(* Fragmentation of datagrams: openvpn/Src/fragment.c, from                *)
(* fragment_outgoing of one peer to fragment_incoming of the other.        *)
(*                                                                         *)
(* The sequence id of a datagram is one byte, and the receiver joins in a  *)
(* window of N_FRAG_BUF buffers.  The network reorders and loses.  It does *)
(* not duplicate, and it delivers nothing long after what was sent later:  *)
(* the replay window of packet_id.c, below, refuses that.                  *)
(*                                                                         *)
(* A fragment remembers its datagram as an age, the number of fragmented   *)
(* datagrams that were begun after it, so that a behaviour has no end.     *)
(* Datagrams that are sent whole have no state and are left out.           *)
(***************************************************************************)
EXTENDS Integers, FiniteSets

CONSTANTS
    N_SEQ_ID, N_FRAG_BUF, MAX_FRAGS,
    FRAG_TTL_SEC, FRAG_WAKEUP_INTERVAL,
    Sizes, Counts,  \* bounds: the size and number of a datagram's fragments
    MaxLate,        \* how old the replay window lets a fragment get
    MaxBurst,       \* the age of the newest datagram any fragment of which
                    \* arrived: what a burst of losses is limited to
    MaxInFlight     \* bound: the fragments in the network

ASSUME WindowAssumption ==
    /\ N_FRAG_BUF \in Nat \ {0}
    /\ N_SEQ_ID \in Nat /\ N_SEQ_ID >= 2 * N_FRAG_BUF
    /\ MAX_FRAGS \in Nat /\ MAX_FRAGS >= 2
ASSUME NetworkAssumption ==
    /\ MaxLate \in Nat /\ MaxBurst \in Nat \ {0}
    /\ MaxLate + MaxBurst <= N_SEQ_ID - N_FRAG_BUF
ASSUME TimeAssumption ==
    FRAG_TTL_SEC \in Nat \ {0} /\ FRAG_WAKEUP_INTERVAL \in Nat \ {0}
ASSUME BoundAssumption == IsFiniteSet(Sizes) /\ Counts \subseteq 2..MAX_FRAGS /\ MaxInFlight \in Nat \ {0}

VARIABLES
    out,        \* the outgoing half of the sender's fragment_master
    net,        \* fragments on their way
    list,       \* struct fragment_list of the receiver
    wakeup,     \* seconds until the receiver's next housekeeping
    joined,     \* the pieces of a datagram that was joined in this step
    recent,     \* what became of the datagrams that may still be arriving
    behind      \* the age of the newest datagram that any fragment arrived of

vars == <<out, net, list, wakeup, joined, recent, behind>>

Slots == 0 .. N_FRAG_BUF - 1
Bits == 0 .. MAX_FRAGS - 1

Undefined == [defined |-> FALSE, size |-> 0, map |-> {}, pieces |-> {}, ttl |-> 0]

---------------------------------------------------------------------------
\* integer.h

Abs(x) == IF x < 0 THEN -x ELSE x

\* Mutant: the circle is cut open.
ModuloSubtractMutant(x, y) == x - y
ModuloSubtract(x, y) ==
    LET d1 == x - y
        d2 == (IF x > y THEN -N_SEQ_ID ELSE N_SEQ_ID) + d1
    IN IF Abs(d1) > Abs(d2) THEN d2 ELSE d1

---------------------------------------------------------------------------
\* The receiver's buffers.

\* Mutant: the buffers that the window moves over keep what they hold.
MovedMutant(l, diff) == l.fragments
\* The buffers from the newest one on are taken again.
Moved(l, diff) ==
    LET again == {(l.index + k) % N_FRAG_BUF : k \in 1..diff}
    IN [i \in Slots |-> IF i \in again THEN Undefined ELSE l.fragments[i]]

Outside(diff) == Abs(diff) >= N_FRAG_BUF

\* Mutant: the id does not wrap.
AdvancedMutant(l, diff) ==
    [seq_id |-> l.seq_id + diff, index |-> (l.index + diff) % N_FRAG_BUF,
     fragments |-> Moved(l, diff)]
Advanced(l, diff) ==
    [seq_id |-> (l.seq_id + diff) % N_SEQ_ID, index |-> (l.index + diff) % N_FRAG_BUF,
     fragments |-> Moved(l, diff)]

\* fragment_list_get_buf: the list afterwards, and the buffer for seq.
GetBuf(l, seq) ==
    LET diff == ModuloSubtract(seq, l.seq_id)
    IN IF Outside(diff)
       THEN [list |-> [seq_id |-> seq, index |-> 0, fragments |-> [i \in Slots |-> Undefined]],
             slot |-> 0]
       ELSE IF diff > 0
       THEN [list |-> Advanced(l, diff), slot |-> Advanced(l, diff).index]
       ELSE [list |-> l, slot |-> (l.index + diff) % N_FRAG_BUF]

Continues(frag, f) == frag.defined /\ frag.size = f.size

Begun(f) == [Undefined EXCEPT !.defined = TRUE, !.size = f.size]

\* The bits of the map: the last fragment stands for all that could follow.
Marks(f) == IF f.last THEN f.id .. MAX_FRAGS - 1 ELSE {f.id}

\* f copied to its place.
Copied(frag, f) ==
    [frag EXCEPT
        !.map = @ \union Marks(f),
        !.pieces = {x \in @ : x.id # f.id} \union {[id |-> f.id, age |-> f.age, of |-> f.of]},
        !.ttl = FRAG_TTL_SEC]

Full(frag) == frag.map = Bits

---------------------------------------------------------------------------

\* The sender begins with a random id, the receiver's window with 0; this is the
\* state after a first datagram, when they have met.
Init ==
    /\ out = [seq_id |-> 0, size |-> 0, frag_id |-> 0, of |-> 0]
    /\ net = {}
    /\ list = [seq_id |-> 0, index |-> 0, fragments |-> [i \in Slots |-> Undefined]]
    /\ wakeup = FRAG_WAKEUP_INTERVAL
    /\ joined = {}
    /\ recent = [age \in 0..MaxLate |-> [of |-> 0, got |-> {}, fate |-> "joined"]]
    /\ behind = 0

---------------------------------------------------------------------------
\* The sender.

\* fragment_outgoing_defined
OutgoingDefined(o) == o.frag_id < o.of

Fragment(o) ==
    [seq_id |-> o.seq_id, id |-> o.frag_id, last |-> o.frag_id = o.of - 1,
     size |-> o.size, of |-> o.of, age |-> 0]

\* fragment_ready_to_send, with o as the outgoing half.
Send(o, others) ==
    /\ Cardinality(others) < MaxInFlight
    /\ net' = others \union {Fragment(o)}
    /\ out' = [o EXCEPT !.frag_id = @ + 1]

NextSeqId(seq) == (seq + 1) % N_SEQ_ID

Older(S) == {[x EXCEPT !.age = @ + 1] : x \in S}

\* fragment_outgoing of a datagram that needs several fragments.  The loop
\* reads none while the last one is not sent.
Outgoing ==
    /\ ~OutgoingDefined(out)
    /\ behind < MaxBurst
    /\ \E of \in Counts, size \in Sizes :
          /\ Send([seq_id |-> NextSeqId(out.seq_id), size |-> size, frag_id |-> 0, of |-> of],
                  {f \in Older(net) : f.age <= MaxLate})
          /\ recent' = [age \in 0..MaxLate |->
                IF age = 0 THEN [of |-> of, got |-> {}, fate |-> "open"] ELSE recent[age - 1]]
    /\ list' = [list EXCEPT !.fragments =
                   [i \in Slots |-> [list.fragments[i] EXCEPT !.pieces = Older(@)]]]
    /\ behind' = behind + 1
    /\ joined' = {}
    /\ UNCHANGED wakeup

\* check_fragment_dowork, when to_link has room
ReadyToSend ==
    /\ OutgoingDefined(out)
    /\ Send(out, net)
    /\ joined' = {}
    /\ UNCHANGED <<list, wakeup, recent, behind>>

Lose(f) ==
    /\ f \in net
    /\ net' = net \ {f}
    /\ joined' = {}
    /\ UNCHANGED <<out, list, wakeup, recent, behind>>

---------------------------------------------------------------------------
\* The receiver.

\* The window's newest id is that of the newest datagram that anything arrived of.
InStep == list.seq_id = (out.seq_id - behind) % N_SEQ_ID

\* fragment_incoming.  A fragment from before the window moves it back, and the
\* next one forward again: datagrams that were being joined are lost.
Incoming(f) ==
    LET place == GetBuf(list, f.seq_id)
        old == place.list.fragments[place.slot]
        frag == Copied(IF Continues(old, f) THEN old ELSE Begun(f), f)
        strays == f.age - behind >= N_FRAG_BUF \/ ~InStep
    IN
    /\ f \in net
    /\ net' = net \ {f}
    /\ list' = [place.list EXCEPT !.fragments[place.slot] =
                   IF Full(frag) THEN Undefined ELSE frag]
    /\ joined' = IF Full(frag) THEN frag.pieces ELSE {}
    /\ recent' = [age \in 0..MaxLate |->
          [recent[age] EXCEPT
              !.got = IF age = f.age THEN @ \union {f.id} ELSE @,
              !.fate = IF age = f.age /\ Full(frag) THEN "joined"
                       ELSE IF strays THEN "strayed" ELSE @]]
    /\ behind' = IF f.age < behind THEN f.age ELSE behind
    /\ UNCHANGED <<out, wakeup>>

Expired(frag) == frag.defined /\ frag.ttl = 0

\* fragment_ttl_reap
Reaped == [i \in Slots |-> IF Expired(list.fragments[i]) THEN Undefined ELSE list.fragments[i]]

\* fragment_housekeeping, when its timeout triggers
Housekeeping ==
    /\ wakeup = 0
    /\ wakeup' = FRAG_WAKEUP_INTERVAL
    /\ list' = [list EXCEPT !.fragments = Reaped]
    /\ recent' = [age \in 0..MaxLate |->
          IF \E i \in Slots : /\ Expired(list.fragments[i])
                              /\ \E x \in list.fragments[i].pieces : x.age = age
          THEN [recent[age] EXCEPT !.fate = "reaped"] ELSE recent[age]]
    /\ joined' = {}
    /\ UNCHANGED <<out, net, behind>>

\* A second passes.  The loop runs at least that often.
Tick ==
    /\ wakeup > 0
    /\ wakeup' = wakeup - 1
    /\ list' = [list EXCEPT !.fragments =
          [i \in Slots |-> [list.fragments[i] EXCEPT !.ttl = IF @ > 0 THEN @ - 1 ELSE 0]]]
    /\ joined' = {}
    /\ UNCHANGED <<out, net, recent, behind>>

Next ==
    \/ Outgoing
    \/ ReadyToSend
    \/ \E f \in net : Lose(f) \/ Incoming(f)
    \/ Housekeeping
    \/ Tick

Spec == Init /\ [][Next]_vars

---------------------------------------------------------------------------
\* Properties.

\* a fragment on its way
Packets == [seq_id : 0 .. N_SEQ_ID - 1, id : Bits, last : BOOLEAN, size : Sizes,
            of : 2..MAX_FRAGS, age : 0..MaxLate]

Pieces == [id : Bits, age : Nat, of : 2..MAX_FRAGS]

\* struct fragment, with the pieces that were copied to its buffer
Fragments == [defined : BOOLEAN, size : Sizes \union {0}, map : SUBSET Bits,
              pieces : SUBSET Pieces, ttl : 0..FRAG_TTL_SEC]

Lists == [seq_id : 0 .. N_SEQ_ID - 1, index : Slots, fragments : [Slots -> Fragments]]

Datagrams == [of : Counts \union {0}, got : SUBSET Bits,
              fate : {"open", "joined", "reaped", "strayed"}]

\* The types of the state.
TypeOK ==
    /\ out \in [seq_id : 0 .. N_SEQ_ID - 1, size : Sizes \union {0},
                frag_id : 0..MAX_FRAGS, of : Counts \union {0}]
    /\ net \subseteq Packets
    /\ list \in Lists
    /\ \A i \in Slots : ~Full(list.fragments[i])
    /\ wakeup \in 0..FRAG_WAKEUP_INTERVAL
    /\ joined \subseteq Pieces
    /\ recent \in [0..MaxLate -> Datagrams]
    /\ behind \in 0..MaxBurst

\* What is passed on as a datagram is one that was sent: its pieces are all the
\* fragments of one datagram, although ids come again, buffers too, and
\* fragments are lost and reordered.
JoinsOneDatagram ==
    \A x, y \in joined : x.age = y.age /\ {z.id : z \in joined} = 0 .. x.of - 1

\* A datagram all of whose fragments arrive is joined: no other datagram takes
\* its buffer before.  What may cost it is a pause between two of them, of the
\* time to live, or a fragment that came N_FRAG_BUF datagrams too late.
ArrivedIsJoined ==
    \A age \in 0..MaxLate :
        recent[age].got = 0 .. recent[age].of - 1 => recent[age].fate # "open"

\* A fragment of a datagram newer than any before brings the window to it, after
\* whatever burst of losses, and wherever late fragments had moved it: it is not
\* taken for an old one.
NewestIsInStep == [][behind' < behind => InStep']_vars
=============================================================================
