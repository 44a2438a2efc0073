------------------------------ MODULE PacketId ------------------------------
(***************************************************************************)
(* Packet ids against replays: openvpn/Src/packet_id.c, with the check that*)
(* every decrypted packet goes through (crypto_check_replay) and the file  *)
(* of --replay-persist.                                                    *)
(*                                                                         *)
(* One sender stamps its packets, one receiver accepts or refuses what a   *)
(* network that loses, duplicates and reorders brings it, and restarts on a*)
(* signal.  Both clocks advance together; the stamps are only compared with*)
(* each other.  The circular list of the receiver is a sequence of at most *)
(* SeqBacktrack items, the newest first: item i belongs to the packet id   *)
(* rec.id - i + 1 and is SeqUnseen, SeqExpired or the time it was accepted.*)
(***************************************************************************)
EXTENDS Integers, Sequences

CONSTANTS
    IdMax,            \* PACKET_ID_MAX
    SeqBacktrack,     \* --replay-window, ids; 0 is the linear mode of TCP
    TimeBacktrack,    \* --replay-window, seconds; 0 never expires
    ReapInterval,     \* SEQ_REAP_INTERVAL
    LongForm,         \* whether packets carry a time stamp
    Persist,          \* whether --replay-persist is given
    Signals,          \* the signals that may restart the receiver
    Start,            \* the time at which the tunnel comes up
    MaxTime           \* bound: the last second of a behaviour

SeqUnseen == 0
SeqExpired == 1

ASSUME PacketIdAssumption ==
    /\ IdMax \in Nat \ {0}
    /\ SeqBacktrack \in Nat
    /\ TimeBacktrack \in Nat
    /\ ReapInterval \in Nat \ {0}
    /\ LongForm \in BOOLEAN
    /\ Persist \in BOOLEAN
    /\ Signals \subseteq {"SIGUSR1", "SIGHUP"}

\* Time is the uptime in seconds.  The tunnel does not come up in the first
\* two of them, whose values mean something else in the list.
ASSUME StartAssumption ==
    /\ Start \in Nat
    /\ Start > SeqExpired
    /\ MaxTime \in Nat

VARIABLES
    now,          \* the clock
    sender,       \* struct packet_id_send
    rec,          \* struct packet_id_rec
    persist,      \* struct packet_id_persist
    file,         \* the image in the --replay-persist file, or NoImage
    sent,         \* the packets the network may bring
    accepted      \* the packets the receiver accepted, and when

vars == <<now, sender, rec, persist, file, sent, accepted>>

NoImage == [time |-> 0, id |-> 0]

\* packet_id_init, packet_id_persist_init
InitialRec == [time |-> 0, id |-> 0, list |-> << >>, last_reap |-> 0]
InitialPersist ==
    [time |-> 0, id |-> 0, time_last_written |-> 0, id_last_written |-> 0]

Init ==
    /\ now = Start
    /\ sender = [id |-> 0, time |-> 0]
    /\ rec = InitialRec
    /\ persist = InitialPersist
    /\ file = NoImage
    /\ sent = {}
    /\ accepted = {}

---------------------------------------------------------------------------
\* The sender.

\* Mutant: the clock is not asked before the ids start again.
MaySendMutant(s) == s.id # IdMax \/ LongForm
\* Ids start again only with a new stamp.
MaySend(s) == s.id # IdMax \/ (LongForm /\ now > s.time)

\* packet_id_send_update
SendUpdate(s) ==
    IF s.id = IdMax THEN [id |-> 1, time |-> now]
    ELSE [id |-> s.id + 1, time |-> IF s.time = 0 THEN now ELSE s.time]

\* packet_id_write: the short form has no stamp.
Packet(s) == [time |-> IF LongForm THEN s.time ELSE 0, id |-> s.id]

Send ==
    /\ MaySend(sender)
    /\ sender' = SendUpdate(sender)
    /\ sent' = sent \union {Packet(sender')}
    /\ UNCHANGED <<now, rec, persist, file, accepted>>

---------------------------------------------------------------------------
\* The receiver's window.

\* Mutant: an id that was never seen counts as an old one.
OldMutant(t) == t + TimeBacktrack < now
Old(t) == t # SeqUnseen /\ t + TimeBacktrack < now

\* Mutant: only the old ids expire.
ReapMutant(list) ==
    [i \in DOMAIN list |-> IF Old(list[i]) THEN SeqExpired ELSE list[i]]
\* packet_id_reap: from the newest id that was seen too long ago on, all ids
\* expire; the walk ends where an earlier one expired them.
Reap(list) ==
    [i \in DOMAIN list |->
        IF /\ \A j \in 1 .. i : list[j] # SeqExpired
           /\ \E j \in 1 .. i : Old(list[j])
        THEN SeqExpired
        ELSE list[i]]

\* Mutant: the list is never reaped.
ReapDueMutant(r) == FALSE
ReapDue(r) == r.last_reap + ReapInterval <= now

\* packet_id_reap_test
Reaped(r) ==
    IF ~ ReapDue(r) THEN r
    ELSE [r EXCEPT !.list = IF SeqBacktrack # 0 /\ TimeBacktrack # 0 THEN Reap(@) ELSE @,
                   !.last_reap = now]

\* packet_id_test in the sliding window of UDP: an id ahead of the window, or
\* an unseen one in it.
TestBacktrack(r, k) ==
    \/ k.time > r.time
    \/ /\ k.time = r.time
       /\ \/ k.id > r.id
          \/ r.id - k.id < Len(r.list) /\ r.list[r.id - k.id + 1] = SeqUnseen

\* Mutant: gaps are let through.
TestLinearMutant(r, k) == k.time > r.time \/ (k.time = r.time /\ k.id > r.id)
\* packet_id_test on the ordered stream of TCP: ids without gaps.
TestLinear(r, k) ==
    \/ k.time > r.time /\ k.id = 1
    \/ k.time = r.time /\ (r.id = 0 \/ k.id = r.id + 1)

Test(r, k) ==
    /\ k.id # 0
    /\ IF SeqBacktrack # 0 THEN TestBacktrack(r, k) ELSE TestLinear(r, k)

\* n unseen ids enter the list at its head, and what exceeds it falls off.
Push(list, n) ==
    [i \in 1 .. (IF n + Len(list) > SeqBacktrack THEN SeqBacktrack ELSE n + Len(list)) |->
        IF i <= n THEN SeqUnseen ELSE list[i - n]]

\* Mutant: a new stamp keeps the list.
RestartsMutant(r, k) ==
    r.list = << >> \/ (k.id >= SeqBacktrack /\ k.id - SeqBacktrack > r.id)
\* A new stamp, or an id further ahead than the list is long, empties the list
\* and moves the window to the new id.
Restarts(r, k) ==
    \/ r.list = << >>
    \/ k.time > r.time
    \/ k.id >= SeqBacktrack /\ k.id - SeqBacktrack > r.id

Window(r, k) ==
    IF Restarts(r, k)
    THEN [r EXCEPT !.time = k.time,
                   !.id = IF k.id > SeqBacktrack THEN k.id - SeqBacktrack ELSE 0,
                   !.list = << >>]
    ELSE r

Advance(w, k) ==
    IF k.id > w.id
    THEN [w EXCEPT !.id = k.id, !.list = Push(@, k.id - w.id)]
    ELSE w

\* Mutant: the id is not marked as seen.
MarkMutant(w, k) == w
Mark(w, k) ==
    IF w.id - k.id < Len(w.list) /\ now > SeqExpired
    THEN [w EXCEPT !.list[w.id - k.id + 1] = now]
    ELSE w

\* packet_id_add
Add(r, k) ==
    IF SeqBacktrack # 0
    THEN Mark(Advance(Window(r, k), k), k)
    ELSE [r EXCEPT !.time = k.time, !.id = k.id]

\* Mutant: the object is not saved.
SaveObjMutant(p, r) == p
\* packet_id_persist_save_obj, for the long form only
SaveObj(p, r) ==
    IF Persist /\ LongForm /\ r.time # 0
    THEN [p EXCEPT !.time = r.time, !.id = r.id]
    ELSE p

\* What the receiver would make of k now.
Accepts(k) == Test(Reaped(rec), k)

\* crypto_check_replay
Receive(k) ==
    /\ IF Accepts(k)
       THEN /\ rec' = Add(Reaped(rec), k)
            /\ persist' = SaveObj(persist, rec')
            /\ accepted' = accepted \union {[time |-> k.time, id |-> k.id, at |-> now]}
       ELSE /\ rec' = Reaped(rec)
            /\ UNCHANGED <<persist, accepted>>
    /\ UNCHANGED <<now, sender, file, sent>>

---------------------------------------------------------------------------
\* The --replay-persist file.

Unwritten(p) ==
    /\ Persist
    /\ p.time # 0
    /\ p.time # p.time_last_written \/ p.id # p.id_last_written

Written(p) ==
    [p EXCEPT !.time_last_written = p.time, !.id_last_written = p.id]

\* packet_id_persist_save, once a minute
Flush ==
    /\ Unwritten(persist)
    /\ file' = [time |-> persist.time, id |-> persist.id]
    /\ persist' = Written(persist)
    /\ UNCHANGED <<now, sender, rec, sent, accepted>>

\* Mutant: the window starts from nothing.
LoadObjMutant(p) == InitialRec
\* packet_id_persist_load_obj into a window that was just initialised
LoadObj(p) ==
    IF Persist /\ p.time # 0
    THEN [InitialRec EXCEPT !.time = p.time, !.id = p.id]
    ELSE InitialRec

\* do_close_packet_id and the initialisation that follows.  SIGUSR1 leaves the
\* file open and the object as it is.  SIGHUP closes it, and opens it again
\* with FA_CREATE_ALWAYS, which empties it before it is read.
Restart(sig) ==
    /\ persist' = IF sig = "SIGUSR1"
                  THEN IF Unwritten(persist) THEN Written(persist) ELSE persist
                  ELSE InitialPersist
    /\ file' = IF sig = "SIGHUP" /\ Persist THEN NoImage
               ELSE IF Unwritten(persist)
                    THEN [time |-> persist.time, id |-> persist.id]
                    ELSE file
    /\ rec' = LoadObj(persist')
    /\ UNCHANGED <<now, sender, sent, accepted>>

Tick ==
    /\ now < MaxTime
    /\ now' = now + 1
    /\ UNCHANGED <<sender, rec, persist, file, sent, accepted>>

Next ==
    \/ Send
    \/ \E k \in sent : Receive(k)
    \/ Flush
    \/ \E sig \in Signals : Restart(sig)
    \/ Tick

Spec == Init /\ [][Next]_vars

---------------------------------------------------------------------------
\* Properties.

Stamps == [time : Nat, id : Nat]

\* The types of the state.
TypeOK ==
    /\ now \in Nat
    /\ sender \in [id : 0 .. IdMax, time : Nat]
    /\ rec \in [time : Nat, id : Nat, list : Seq(Nat), last_reap : Nat]
    /\ persist \in [time : Nat, id : Nat, time_last_written : Nat, id_last_written : Nat]
    /\ file \in Stamps
    /\ sent \subseteq [time : Nat, id : 1 .. IdMax]
    /\ accepted \subseteq [time : Nat, id : 1 .. IdMax, at : Nat]

\* No packet is accepted more than once (struct packet_id_rec): none that was
\* accepted would be accepted again, whatever came in between.
AcceptedOnce == \A a \in accepted : ~ Accepts(a)

\* --replay-window t: once an id has been accepted, a lower one is accepted for
\* as long as the window says, and until the next reap, but no longer.
LateRefused ==
    SeqBacktrack # 0 /\ TimeBacktrack # 0 =>
        \A a, b \in accepted :
            a.time = b.time /\ a.id < b.id
                => a.at < b.at + TimeBacktrack + ReapInterval

\* The window refuses a packet it has not accepted only for being late: the
\* stamp moved on, or an id was accepted that is SeqBacktrack ids ahead of it,
\* or one ahead of it more than TimeBacktrack seconds ago.
OnlyLateRefused ==
    SeqBacktrack # 0 =>
        \A k \in sent :
            \/ Accepts(k)
            \/ \E a \in accepted :
                  \/ a.time > k.time
                  \/ /\ a.time = k.time
                     /\ \/ a.id = k.id
                        \/ a.id - k.id >= SeqBacktrack
                        \/ /\ a.id > k.id
                           /\ TimeBacktrack # 0
                           /\ a.at + TimeBacktrack < now

\* What has expired stays behind what has not: the walk of packet_id_reap may
\* end at the first expired item.
ExpiredLast ==
    \A i \in DOMAIN rec.list : \A j \in 1 .. i :
        rec.list[j] = SeqExpired => rec.list[i] = SeqExpired

\* In the linear mode each stamp's ids are accepted without a gap, one after
\* the other.
InSequence ==
    SeqBacktrack = 0 =>
        \A a, b \in accepted :
            a.time = b.time =>
                /\ a.id < b.id => a.at <= b.at
                /\ \A n \in a.id .. b.id :
                      \E c \in accepted : c.time = a.time /\ c.id = n

\* No packet id is sent twice with one stamp, although the ids start again.
SendsFresh == MaySend(sender) => Packet(SendUpdate(sender)) \notin sent

\* The receiver's place in the sequence never falls behind what it accepted,
\* restarts included ("cross-session persistence of time/id").
PlaceKept ==
    \A a \in accepted :
        \/ a.time < rec.time
        \/ a.time = rec.time /\ a.id <= rec.id

=============================================================================
