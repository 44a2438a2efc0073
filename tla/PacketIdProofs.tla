--------------------------- MODULE PacketIdProofs ---------------------------
(***************************************************************************)
(* Proofs about PacketId, for every size of the window, every limit of time*)
(* and any number of packets.                                              *)
(***************************************************************************)
EXTENDS PacketId, SequenceTheorems, TLAPS

---------------------------------------------------------------------------
\* The inductive invariant of the window.

Windows == [time : Nat, id : Nat, list : Seq(Nat), last_reap : Nat]

\* What has expired stays behind what has not.
Ordered(list) ==
    \A i \in DOMAIN list : \A j \in 1 .. i :
        list[j] = SeqExpired => list[i] = SeqExpired

\* An item that was too old at the last reap has expired.
Young(r) ==
    SeqBacktrack # 0 /\ TimeBacktrack # 0 =>
        \A i \in DOMAIN r.list :
            \/ r.list[i] \in {SeqUnseen, SeqExpired}
            \/ r.list[i] + TimeBacktrack >= r.last_reap

\* What every receiver's window is like.
GoodWindow(r) ==
    /\ r \in Windows
    /\ Len(r.list) <= SeqBacktrack
    /\ Ordered(r.list)
    /\ Young(r)
    /\ r.last_reap <= now

\* What was accepted is in the window's past, and an item of the list that
\* belongs to it says so.
Remembers(r) ==
    \A a \in accepted :
        /\ a.time < r.time \/ (a.time = r.time /\ a.id <= r.id)
        /\ a.time = r.time /\ r.id - a.id + 1 \in DOMAIN r.list
              => r.list[r.id - a.id + 1] \in {SeqExpired, a.at}

\* The list is empty only before the first packet.
Begun(r) == SeqBacktrack # 0 /\ r.list = << >> => accepted = {}

\* The clock has started, and nothing is accepted in its future.
Clock ==
    /\ now >= Start
    /\ \A a \in accepted : Start <= a.at /\ a.at <= now

\* The inductive invariant.
IInv ==
    /\ TypeOK
    /\ GoodWindow(rec)
    /\ Remembers(rec)
    /\ Begun(rec)
    /\ Clock
    /\ LateRefused

---------------------------------------------------------------------------
\* The list.

\* A function on 1 .. n is a sequence of length n.
LEMMA FunctionSeq ==
    ASSUME NEW n \in Nat, NEW f \in [1 .. n -> Nat]
    PROVE  f \in Seq(Nat) /\ Len(f) = n /\ DOMAIN f = 1 .. n
<1>1. f \in Seq(Nat)
  BY SeqDef
<1> QED
  BY <1>1, LenProperties

\* Reaping keeps every unexpired item.
LEMMA ReapList ==
    ASSUME NEW list \in Seq(Nat)
    PROVE  /\ Reap(list) \in Seq(Nat)
           /\ Len(Reap(list)) = Len(list)
           /\ DOMAIN Reap(list) = DOMAIN list
           /\ \A i \in DOMAIN list : Reap(list)[i] \in {SeqExpired, list[i]}
<1>1. list \in [1 .. Len(list) -> Nat] /\ Len(list) \in Nat /\ DOMAIN list = 1 .. Len(list)
  BY LenProperties
<1>2. Reap(list) \in [1 .. Len(list) -> Nat]
  BY <1>1 DEF Reap, SeqExpired
<1>3. Reap(list) \in Seq(Nat) /\ Len(Reap(list)) = Len(list)
  BY <1>1, <1>2, FunctionSeq
<1> QED
  BY <1>1, <1>3 DEF Reap

\* ... and what expires stays behind what does not.
LEMMA ReapOrdered ==
    ASSUME NEW list \in Seq(Nat), Ordered(list)
    PROVE  Ordered(Reap(list))
<1> SUFFICES ASSUME NEW i \in DOMAIN list, NEW j \in 1 .. i, Reap(list)[j] = SeqExpired
             PROVE  Reap(list)[i] = SeqExpired
  BY ReapList DEF Ordered
<1>1. DOMAIN list = 1 .. Len(list) /\ Len(list) \in Nat
  BY LenProperties
<1>2. j \in DOMAIN list /\ i \in Nat
  BY <1>1
<1>3. CASE list[j] = SeqExpired
  <2>1. list[i] = SeqExpired
    BY <1>3 DEF Ordered
  <2> QED
    BY <2>1 DEF Reap
<1>4. CASE list[j] # SeqExpired
  <2>1. PICK l \in 1 .. j : Old(list[l])
    BY <1>2, <1>4 DEF Reap
  <2>2. l \in 1 .. i
    BY <1>2, <1>1
  <2>3. CASE \A m \in 1 .. i : list[m] # SeqExpired
    BY <2>1, <2>2, <2>3 DEF Reap
  <2>4. CASE \E m \in 1 .. i : list[m] = SeqExpired
    <3>1. list[i] = SeqExpired
      BY <2>4 DEF Ordered
    <3> QED
      BY <3>1 DEF Reap
  <2> QED
    BY <2>3, <2>4
<1> QED
  BY <1>3, <1>4

\* Pushing n unseen ids shifts the others by n.
LEMMA PushList ==
    ASSUME NEW list \in Seq(Nat), NEW n \in Nat, SeqBacktrack \in Nat
    PROVE  /\ Push(list, n) \in Seq(Nat)
           /\ Len(Push(list, n)) <= SeqBacktrack
           /\ Len(Push(list, n)) <= n + Len(list)
           /\ SeqBacktrack # 0 /\ n # 0 => Len(Push(list, n)) >= 1
           /\ DOMAIN Push(list, n) = 1 .. Len(Push(list, n))
           /\ \A i \in DOMAIN Push(list, n) :
                 /\ i <= n => Push(list, n)[i] = SeqUnseen
                 /\ i > n => i - n \in DOMAIN list /\ Push(list, n)[i] = list[i - n]
<1> DEFINE len == IF n + Len(list) > SeqBacktrack THEN SeqBacktrack ELSE n + Len(list)
<1>1. list \in [1 .. Len(list) -> Nat] /\ Len(list) \in Nat /\ DOMAIN list = 1 .. Len(list)
  BY LenProperties
<1>2. len \in Nat /\ len <= SeqBacktrack /\ len <= n + Len(list)
  BY <1>1
<1>3. \A i \in 1 .. len : i > n => i - n \in 1 .. Len(list)
  BY <1>1, <1>2
<1>4. Push(list, n) = [i \in 1 .. len |-> IF i <= n THEN SeqUnseen ELSE list[i - n]]
  BY DEF Push
<1>5. Push(list, n) \in [1 .. len -> Nat]
  BY <1>1, <1>3, <1>4 DEF SeqUnseen
<1>6. Push(list, n) \in Seq(Nat) /\ Len(Push(list, n)) = len /\ DOMAIN Push(list, n) = 1 .. len
  BY <1>2, <1>5, FunctionSeq
<1>7. SeqBacktrack # 0 /\ n # 0 => len >= 1
  BY <1>1
<1>8. \A i \in 1 .. len :
         /\ i <= n => Push(list, n)[i] = SeqUnseen
         /\ i > n => i - n \in DOMAIN list /\ Push(list, n)[i] = list[i - n]
  BY <1>1, <1>3, <1>4
<1> QED
  BY <1>2, <1>6, <1>7, <1>8

---------------------------------------------------------------------------
\* The window, one stage of crypto_check_replay at a time.

StampedPackets == [time : Nat, id : 1 .. IdMax]

\* packet_id_reap_test leaves the window in good order and freshly reaped.
LEMMA ReapedGood ==
    ASSUME NEW r, GoodWindow(r), now \in Nat
    PROVE  /\ GoodWindow(Reaped(r))
           /\ Reaped(r).time = r.time /\ Reaped(r).id = r.id
           /\ Len(Reaped(r).list) = Len(r.list)
           /\ Reaped(r).last_reap + ReapInterval > now
           /\ Remembers(r) => Remembers(Reaped(r))
           /\ Begun(r) => Begun(Reaped(r))
<1> DEFINE q == Reaped(r)
<1>1. r \in Windows /\ r.list \in Seq(Nat) /\ Len(r.list) \in Nat
  BY LenProperties DEF GoodWindow, Windows
<1>2. CASE ~ ReapDue(r)
  <2>1. q = r
    BY <1>2 DEF Reaped
  <2>2. r.last_reap + ReapInterval > now
    BY <1>1, <1>2, PacketIdAssumption DEF ReapDue, Windows
  <2> QED
    BY <2>1, <2>2
<1>3. CASE ReapDue(r)
  <2> DEFINE list == IF SeqBacktrack # 0 /\ TimeBacktrack # 0 THEN Reap(r.list) ELSE r.list
  <2>1. q = [r EXCEPT !.list = list, !.last_reap = now]
    BY <1>3 DEF Reaped
  <2>2. /\ list \in Seq(Nat) /\ Len(list) = Len(r.list) /\ DOMAIN list = DOMAIN r.list
        /\ \A i \in DOMAIN list : list[i] \in {SeqExpired, r.list[i]}
    BY <1>1, ReapList
  <2>3. Ordered(list)
    BY <1>1, ReapOrdered DEF GoodWindow
  <2>4. /\ q \in Windows /\ q.list = list /\ q.time = r.time /\ q.id = r.id
        /\ q.last_reap = now
    BY <1>1, <2>1, <2>2 DEF Windows
  <2> HIDE DEF q
  <2>5. Young(q)
    <3> SUFFICES ASSUME SeqBacktrack # 0, TimeBacktrack # 0, NEW i \in DOMAIN q.list,
                        q.list[i] # SeqUnseen, q.list[i] # SeqExpired
                 PROVE  q.list[i] + TimeBacktrack >= now
      BY <2>4 DEF Young
    <3>1. i \in DOMAIN r.list /\ q.list[i] = Reap(r.list)[i] /\ i \in Nat /\ i \in 1 .. i
      BY <2>2, <2>4, <1>1, LenProperties
    <3>2. q.list[i] = r.list[i] /\ r.list[i] \in Nat
      BY <3>1, <2>2, <2>4, <1>1, LenProperties
    <3>3. \A j \in 1 .. i : r.list[j] # SeqExpired
      BY <3>1, <3>2 DEF GoodWindow, Ordered
    <3>4. ~ Old(r.list[i])
      BY <3>1, <3>3 DEF Reap
    <3> QED
      BY <3>2, <3>4, PacketIdAssumption DEF Old
  <2>6. GoodWindow(q)
    BY <2>2, <2>3, <2>4, <2>5, <1>1 DEF GoodWindow
  <2>7. Remembers(r) => Remembers(q)
    BY <2>2, <2>4 DEF Remembers
  <2>8. list = << >> => r.list = << >>
    BY <2>2, <1>1, EmptySeq
  <2>9. Begun(r) => Begun(q)
    BY <2>4, <2>8 DEF Begun
  <2>10. now + ReapInterval > now
    BY PacketIdAssumption
  <2> QED
    BY <2>2, <2>4, <2>6, <2>7, <2>9, <2>10 DEF q
<1> QED
  BY <1>2, <1>3

\* The first stage of packet_id_add: the window of the packet's stamp.
LEMMA WindowGood ==
    ASSUME NEW r, GoodWindow(r), Remembers(r), Begun(r),
           accepted \subseteq [time : Nat, id : 1 .. IdMax, at : Nat],
           NEW k \in StampedPackets, Test(r, k), SeqBacktrack # 0
    PROVE  /\ GoodWindow(Window(r, k))
           /\ Remembers(Window(r, k))
           /\ Window(r, k).time = k.time
           /\ \/ Window(r, k).id < k.id
              \/ /\ Window(r, k).id - k.id + 1 \in DOMAIN Window(r, k).list
                 /\ Window(r, k).list[Window(r, k).id - k.id + 1] = SeqUnseen
<1> DEFINE v == Window(r, k)
<1>1. /\ r \in Windows /\ r.list \in Seq(Nat) /\ Len(r.list) \in Nat
      /\ DOMAIN r.list = 1 .. Len(r.list) /\ r.id \in Nat /\ r.time \in Nat
      /\ k.id \in Nat /\ k.id # 0 /\ k.time \in Nat /\ SeqBacktrack \in Nat
  BY LenProperties, PacketIdAssumption DEF GoodWindow, Windows, StampedPackets
<1>2. TestBacktrack(r, k)
  BY DEF Test
<1>3. CASE Restarts(r, k)
  <2> DEFINE base == IF k.id > SeqBacktrack THEN k.id - SeqBacktrack ELSE 0
  <2>1. v = [r EXCEPT !.time = k.time, !.id = base, !.list = << >>]
    BY <1>3 DEF Window
  <2>2. base \in Nat /\ base < k.id
    BY <1>1
  <2>3. << >> \in Seq(Nat) /\ Len(<< >>) = 0 /\ DOMAIN << >> = {}
    BY EmptySeq
  <2>4. /\ v \in Windows /\ v.list = << >> /\ v.time = k.time /\ v.id = base
        /\ v.last_reap = r.last_reap
    BY <1>1, <2>1, <2>2, <2>3 DEF Windows
  <2> HIDE DEF v
  <2>5. GoodWindow(v)
    BY <1>1, <2>3, <2>4 DEF GoodWindow, Ordered, Young
  <2>6. ASSUME NEW a \in accepted
        PROVE  a.time < k.time \/ (a.time = k.time /\ a.id <= base)
    <3>0. a.time \in Nat /\ a.id \in Nat
      OBVIOUS
    <3>1. CASE k.time > r.time
      BY <3>0, <3>1, <1>1 DEF Remembers
    <3>2. CASE r.list = << >>
      BY <3>2 DEF Begun
    <3>3. CASE k.id >= SeqBacktrack /\ k.id - SeqBacktrack > r.id /\ k.time = r.time
      BY <3>0, <3>3, <1>1 DEF Remembers
    <3> QED
      BY <3>1, <3>2, <3>3, <1>2, <1>3 DEF Restarts, TestBacktrack
  <2>7. Remembers(v)
    BY <2>3, <2>4, <2>6 DEF Remembers
  <2> QED
    BY <2>2, <2>4, <2>5, <2>7 DEF v
<1>4. CASE ~ Restarts(r, k)
  <2>1. v = r
    BY <1>4 DEF Window
  <2>2. k.time = r.time
    BY <1>2, <1>4 DEF Restarts, TestBacktrack
  <2>3. \/ r.id < k.id
        \/ r.id - k.id + 1 \in DOMAIN r.list /\ r.list[r.id - k.id + 1] = SeqUnseen
    BY <1>1, <1>2, <2>2 DEF TestBacktrack
  <2> QED
    BY <2>1, <2>2, <2>3
<1> QED
  BY <1>3, <1>4

\* The second stage: the window reaches the packet's id, which is unseen.
LEMMA AdvanceGood ==
    ASSUME NEW v, GoodWindow(v), Remembers(v), Clock,
           NEW k \in StampedPackets, v.time = k.time, SeqBacktrack # 0,
           accepted \subseteq [time : Nat, id : 1 .. IdMax, at : Nat],
           \/ v.id < k.id
           \/ /\ v.id - k.id + 1 \in DOMAIN v.list
              /\ v.list[v.id - k.id + 1] = SeqUnseen
    PROVE  /\ GoodWindow(Advance(v, k))
           /\ Remembers(Advance(v, k))
           /\ Advance(v, k).time = k.time
           /\ Advance(v, k).id >= k.id
           /\ Advance(v, k).id - k.id + 1 \in DOMAIN Advance(v, k).list
           /\ Advance(v, k).list[Advance(v, k).id - k.id + 1] = SeqUnseen
<1> DEFINE w == Advance(v, k)
<1>1. /\ v \in Windows /\ v.list \in Seq(Nat) /\ Len(v.list) \in Nat
      /\ DOMAIN v.list = 1 .. Len(v.list) /\ v.id \in Nat /\ k.id \in Nat
      /\ SeqBacktrack \in Nat
  BY LenProperties, PacketIdAssumption DEF GoodWindow, Windows, StampedPackets
<1>2. CASE k.id <= v.id
  <2>1. w = v
    BY <1>1, <1>2 DEF Advance
  <2> QED
    BY <1>1, <1>2, <2>1
<1>3. CASE k.id > v.id
  <2> DEFINE n == k.id - v.id
             list == Push(v.list, n)
  <2>1. n \in Nat /\ n # 0
    BY <1>1, <1>3
  <2>2. /\ list \in Seq(Nat) /\ Len(list) <= SeqBacktrack /\ Len(list) >= 1
        /\ DOMAIN list = 1 .. Len(list) /\ Len(list) \in Nat
        /\ \A i \in DOMAIN list :
              /\ i <= n => list[i] = SeqUnseen
              /\ i > n => i - n \in DOMAIN v.list /\ list[i] = v.list[i - n]
    <3> HIDE DEF n
    <3> QED
      BY <1>1, <2>1, PushList, LenProperties
  <2>3. w = [v EXCEPT !.id = k.id, !.list = list]
    BY <1>3 DEF Advance
  <2> HIDE DEF list
  <2>4. /\ w \in Windows /\ w.list = list /\ w.id = k.id /\ w.time = k.time
        /\ w.last_reap = v.last_reap
    BY <1>1, <2>2, <2>3 DEF Windows
  <2> HIDE DEF w, n
  <2>5. Ordered(list)
    <3> SUFFICES ASSUME NEW i \in DOMAIN list, NEW j \in 1 .. i, list[j] = SeqExpired
                 PROVE  list[i] = SeqExpired
      BY DEF Ordered
    <3>1. i \in 1 .. Len(list) /\ j \in 1 .. Len(list)
      BY <2>2
    <3>2. j > n
      BY <2>1, <2>2, <3>1, SMTT(30) DEF SeqUnseen, SeqExpired
    <3>3. i > n /\ j - n \in 1 .. (i - n)
      BY <2>1, <3>1, <3>2
    <3> QED
      BY <2>2, <3>1, <3>2, <3>3 DEF GoodWindow, Ordered
  <2>6. Young(w)
    <3> SUFFICES ASSUME SeqBacktrack # 0, TimeBacktrack # 0, NEW i \in DOMAIN list,
                        list[i] # SeqUnseen, list[i] # SeqExpired
                 PROVE  list[i] + TimeBacktrack >= v.last_reap
      BY <2>4 DEF Young
    <3>1. i > n
      BY <2>1, <2>2
    <3> QED
      BY <2>2, <3>1 DEF GoodWindow, Young
  <2>7. GoodWindow(w)
    BY <2>2, <2>4, <2>5, <2>6 DEF GoodWindow
  <2>8. Remembers(w)
    <3> SUFFICES ASSUME NEW a \in accepted
                 PROVE  /\ a.time < k.time \/ (a.time = k.time /\ a.id <= k.id)
                        /\ a.time = k.time /\ k.id - a.id + 1 \in DOMAIN list
                              => list[k.id - a.id + 1] \in {SeqExpired, a.at}
      BY <2>4 DEF Remembers
    <3>1. /\ a.time < k.time \/ (a.time = k.time /\ a.id <= v.id)
          /\ a.time = k.time /\ v.id - a.id + 1 \in DOMAIN v.list
                => v.list[v.id - a.id + 1] \in {SeqExpired, a.at}
      BY DEF Remembers
    <3>2. a.id \in Nat /\ a.time \in Nat
      BY <1>1
    <3>3. ASSUME a.time = k.time, k.id - a.id + 1 \in DOMAIN list
          PROVE  list[k.id - a.id + 1] \in {SeqExpired, a.at}
      <4>1. a.id <= v.id
        BY <3>1, <3>2, <3>3
      <4>2. k.id - a.id + 1 > n /\ (k.id - a.id + 1) - n = v.id - a.id + 1
        BY <1>1, <3>2, <4>1 DEF n
      <4> QED
        BY <2>2, <3>1, <3>3, <4>2
    <3> QED
      BY <1>1, <1>3, <3>1, <3>2, <3>3
  <2>9. k.id - k.id + 1 = 1 /\ 1 \in DOMAIN list /\ list[1] = SeqUnseen
    BY <1>1, <2>1, <2>2
  <2>10. k.id >= k.id
    BY <1>1
  <2> QED
    BY <2>4, <2>7, <2>8, <2>9, <2>10 DEF w
<1> QED
  BY <1>1, <1>2, <1>3

\* The third stage: the packet's id is marked as seen now.
LEMMA MarkGood ==
    ASSUME NEW w, GoodWindow(w), Remembers(w), Clock, now \in Nat,
           NEW k \in StampedPackets, w.time = k.time, w.id >= k.id, SeqBacktrack # 0,
           w.id - k.id + 1 \in DOMAIN w.list,
           w.list[w.id - k.id + 1] = SeqUnseen
    PROVE  /\ GoodWindow(Mark(w, k))
           /\ Remembers(Mark(w, k))
           /\ Mark(w, k).time = w.time /\ Mark(w, k).id = w.id
           /\ Mark(w, k).list # << >>
           /\ w.id - k.id + 1 \in DOMAIN Mark(w, k).list
           /\ Mark(w, k).list[w.id - k.id + 1] = now
           /\ \A j \in DOMAIN w.list :
                 j < w.id - k.id + 1 => /\ w.list[j] # SeqExpired
                                        /\ Mark(w, k).list[j] = w.list[j]
<1> DEFINE d == w.id - k.id + 1
           list == [w.list EXCEPT ![d] = now]
<1>1. /\ w \in Windows /\ w.list \in Seq(Nat) /\ Len(w.list) \in Nat
      /\ DOMAIN w.list = 1 .. Len(w.list) /\ w.id \in Nat /\ k.id \in Nat
      /\ SeqBacktrack \in Nat
  BY LenProperties, PacketIdAssumption DEF GoodWindow, Windows, StampedPackets
<1>2. now > SeqExpired /\ now # SeqExpired
  BY StartAssumption DEF Clock, SeqExpired
<1>3. d \in 1 .. Len(w.list) /\ w.id - k.id < Len(w.list)
  BY <1>1
<1>4. Mark(w, k) = [w EXCEPT !.list = list]
  BY <1>2, <1>3 DEF Mark, Windows
<1>5. /\ list \in Seq(Nat) /\ Len(list) = Len(w.list)
      /\ \A j \in 1 .. Len(w.list) : list[j] = IF j = d THEN now ELSE w.list[j]
  BY <1>1, <1>3, ExceptSeq
<1>6. DOMAIN list = 1 .. Len(w.list)
  BY <1>5, LenProperties
<1> DEFINE m == Mark(w, k)
<1> HIDE DEF list
<1>7. /\ m \in Windows /\ m.list = list /\ m.id = w.id /\ m.time = w.time
      /\ m.last_reap = w.last_reap
  BY <1>1, <1>4, <1>5 DEF Windows
<1> HIDE DEF m, d
<1>8. w.list[d] # SeqExpired
  BY DEF d, SeqUnseen, SeqExpired
<1>9. \A j \in 1 .. Len(w.list) : j <= d => w.list[j] # SeqExpired
  <2> SUFFICES ASSUME NEW j \in 1 .. Len(w.list), j <= d, w.list[j] = SeqExpired
               PROVE  FALSE
    OBVIOUS
  <2>1. d \in DOMAIN w.list /\ j \in 1 .. d
    BY <1>1, <1>3
  <2>2. w.list[d] = SeqExpired
    BY <2>1 DEF GoodWindow, Ordered
  <2> QED
    BY <1>8, <2>2
<1>10. Ordered(list)
  <2> SUFFICES ASSUME NEW i \in 1 .. Len(w.list), NEW j \in 1 .. i, list[j] = SeqExpired
               PROVE  list[i] = SeqExpired
    BY <1>6 DEF Ordered
  <2>0. j \in 1 .. Len(w.list)
    BY <1>1
  <2>1. j # d /\ w.list[j] = SeqExpired
    BY <1>2, <1>5, <2>0
  <2>2. w.list[i] = SeqExpired
    BY <1>1, <2>1 DEF GoodWindow, Ordered
  <2>3. i # d
    BY <1>8, <2>2
  <2> QED
    BY <1>5, <2>2, <2>3
<1>11. Young(m)
  <2> SUFFICES ASSUME SeqBacktrack # 0, TimeBacktrack # 0, NEW i \in 1 .. Len(w.list),
                      list[i] # SeqUnseen, list[i] # SeqExpired
               PROVE  list[i] + TimeBacktrack >= w.last_reap
    BY <1>6, <1>7 DEF Young
  <2>1. w.last_reap \in Nat /\ w.last_reap <= now /\ TimeBacktrack \in Nat
    BY PacketIdAssumption DEF GoodWindow, Windows
  <2>2. CASE i = d
    BY <1>5, <2>1, <2>2
  <2>3. CASE i # d
    BY <1>1, <1>5, <2>3 DEF GoodWindow, Young
  <2> QED
    BY <2>2, <2>3
<1>12. GoodWindow(m)
  BY <1>5, <1>7, <1>10, <1>11 DEF GoodWindow
<1>13. Remembers(m)
  <2> SUFFICES ASSUME NEW a \in accepted
               PROVE  /\ a.time < w.time \/ (a.time = w.time /\ a.id <= w.id)
                      /\ a.time = w.time /\ w.id - a.id + 1 \in 1 .. Len(w.list)
                            => list[w.id - a.id + 1] \in {SeqExpired, a.at}
    BY <1>6, <1>7 DEF Remembers
  <2>1. /\ a.time < w.time \/ (a.time = w.time /\ a.id <= w.id)
        /\ a.time = w.time /\ w.id - a.id + 1 \in 1 .. Len(w.list)
              => w.list[w.id - a.id + 1] \in {SeqExpired, a.at}
    BY <1>1 DEF Remembers
  <2>2. a.at # SeqUnseen
    BY StartAssumption DEF Clock, SeqUnseen, SeqExpired
  <2>3. a.time = w.time /\ w.id - a.id + 1 \in 1 .. Len(w.list) => w.id - a.id + 1 # d
    BY <2>1, <2>2 DEF d, SeqUnseen, SeqExpired
  <2> QED
    BY <1>5, <2>1, <2>3
<1>14. list # << >>
  BY <1>3, <1>5, EmptySeq
<1>15. \A j \in DOMAIN w.list : j < d => w.list[j] # SeqExpired /\ list[j] = w.list[j]
  <2> SUFFICES ASSUME NEW j \in 1 .. Len(w.list), j < d
               PROVE  w.list[j] # SeqExpired /\ list[j] = w.list[j]
    BY <1>1
  <2>1. j <= d /\ j # d
    BY <1>1, <1>3
  <2> QED
    BY <1>5, <1>9, <2>1
<1>16. d \in DOMAIN list /\ list[d] = now
  BY <1>3, <1>5, <1>6
<1> QED
  BY <1>7, <1>12, <1>13, <1>14, <1>15, <1>16 DEF d, m

---------------------------------------------------------------------------
\* The invariant.

\* Init establishes the invariant.
LEMMA InitIInv == Init => IInv
<1> SUFFICES ASSUME Init PROVE IInv
  OBVIOUS
<1> USE DEF Init, InitialRec, InitialPersist, NoImage
<1>1. << >> \in Seq(Nat) /\ Len(<< >>) = 0 /\ DOMAIN << >> = {}
  BY EmptySeq
<1>2. TypeOK
  BY <1>1, StartAssumption, PacketIdAssumption DEF TypeOK, Stamps
<1>3. GoodWindow(rec)
  BY <1>1, PacketIdAssumption, StartAssumption
     DEF GoodWindow, Windows, Ordered, Young
<1>4. Remembers(rec) /\ Begun(rec) /\ LateRefused
  BY DEF Remembers, Begun, LateRefused
<1>5. Clock
  BY StartAssumption DEF Clock
<1> QED
  BY <1>2, <1>3, <1>4, <1>5 DEF IInv

\* The packet that is added is remembered in the window it leaves behind.
LEMMA AddGood ==
    ASSUME NEW r, GoodWindow(r), Remembers(r), Begun(r), Clock, now \in Nat,
           accepted \subseteq [time : Nat, id : 1 .. IdMax, at : Nat],
           NEW k \in StampedPackets, Test(r, k)
    PROVE  /\ GoodWindow(Add(r, k))
           /\ \A a \in accepted \union {[time |-> k.time, id |-> k.id, at |-> now]} :
                 /\ \/ a.time < Add(r, k).time
                    \/ a.time = Add(r, k).time /\ a.id <= Add(r, k).id
                 /\ /\ a.time = Add(r, k).time
                    /\ Add(r, k).id - a.id + 1 \in DOMAIN Add(r, k).list
                    => Add(r, k).list[Add(r, k).id - a.id + 1] \in {SeqExpired, a.at}
           /\ SeqBacktrack # 0 => Add(r, k).list # << >>
           /\ SeqBacktrack # 0 =>
                 \A a \in accepted : a.time = k.time /\ a.id > k.id =>
                    \/ TimeBacktrack = 0
                    \/ a.at + TimeBacktrack >= r.last_reap
<1> DEFINE new == [time |-> k.time, id |-> k.id, at |-> now]
<1>1. /\ r \in Windows /\ r.list \in Seq(Nat) /\ r.id \in Nat /\ r.time \in Nat
      /\ k.id \in Nat /\ k.id # 0 /\ k.time \in Nat /\ SeqBacktrack \in Nat
  BY PacketIdAssumption DEF GoodWindow, Windows, StampedPackets
<1>2. CASE SeqBacktrack # 0
  <2> DEFINE v == Window(r, k)
             w == Advance(v, k)
             m == Mark(w, k)
             d == w.id - k.id + 1
  <2>1. /\ GoodWindow(v) /\ Remembers(v) /\ v.time = k.time
        /\ \/ v.id < k.id
           \/ v.id - k.id + 1 \in DOMAIN v.list /\ v.list[v.id - k.id + 1] = SeqUnseen
    BY <1>2, WindowGood
  <2> HIDE DEF v
  <2>2. /\ GoodWindow(w) /\ Remembers(w) /\ w.time = k.time /\ w.id >= k.id
        /\ d \in DOMAIN w.list /\ w.list[d] = SeqUnseen
    BY <1>2, <2>1, AdvanceGood
  <2> HIDE DEF w
  <2>3. /\ GoodWindow(m) /\ Remembers(m) /\ m.time = w.time /\ m.id = w.id
        /\ m.list # << >> /\ d \in DOMAIN m.list /\ m.list[d] = now
        /\ \A j \in DOMAIN w.list : j < d => w.list[j] # SeqExpired /\ m.list[j] = w.list[j]
    BY <1>2, <2>2, MarkGood
  <2>4. Add(r, k) = m
    BY <1>2 DEF Add, v, w
  <2> HIDE DEF m, d
  <2>5. /\ \/ new.time < m.time
           \/ new.time = m.time /\ new.id <= m.id
        /\ m.list[m.id - new.id + 1] \in {SeqExpired, new.at}
    BY <2>2, <2>3 DEF d
  <2>6. ASSUME NEW a \in accepted, a.time = k.time, a.id > k.id, TimeBacktrack # 0
        PROVE  a.at + TimeBacktrack >= r.last_reap
    <3>1. /\ w.id \in Nat /\ a.id \in Nat /\ DOMAIN w.list = 1 .. Len(w.list)
          /\ Len(w.list) \in Nat
      BY <2>2, LenProperties DEF GoodWindow, Windows
    <3>2. a.id <= w.id
      BY <2>2, <2>6 DEF Remembers
    <3> DEFINE j == w.id - a.id + 1
    <3>3. j \in DOMAIN w.list /\ j < d
      <4>1. d \in 1 .. Len(w.list) /\ k.id \in Nat /\ a.id > k.id
        BY <1>1, <2>2, <2>6, <3>1
      <4>2. d = w.id - k.id + 1 /\ j = w.id - a.id + 1
        BY DEF d
      <4>3. j \in 1 .. Len(w.list) /\ j < d
        <5> HIDE DEF j
        <5> QED BY <3>1, <3>2, <4>1, <4>2, SMTT(30)
      <4> QED BY <3>1, <4>3
    <3> HIDE DEF j
    <3>4. w.list[j] = a.at
      BY <2>2, <2>3, <2>6, <3>3 DEF Remembers, j
    <3>5. a.at # SeqUnseen /\ a.at # SeqExpired
      BY StartAssumption DEF Clock, SeqUnseen, SeqExpired
    <3>6. w.list[j] + TimeBacktrack >= w.last_reap
      BY <1>2, <2>2, <2>6, <3>3, <3>4, <3>5 DEF GoodWindow, Young
    <3>7. w.last_reap = r.last_reap
      BY <1>1, <2>1 DEF w, v, Advance, Window, GoodWindow, Windows
    <3> QED
      BY <3>4, <3>6, <3>7
  <2> QED
    BY <2>2, <2>3, <2>4, <2>5, <2>6 DEF Remembers
<1>3. CASE SeqBacktrack = 0
  <2>1. /\ Add(r, k) \in Windows /\ Add(r, k).time = k.time /\ Add(r, k).id = k.id
        /\ Add(r, k).list = r.list /\ Add(r, k).last_reap = r.last_reap
    BY <1>1, <1>3 DEF Add, Windows
  <2>2. Len(r.list) \in Nat /\ DOMAIN r.list = 1 .. Len(r.list)
    BY <1>1, LenProperties
  <2>3. DOMAIN r.list = {}
    BY <1>3, <2>2 DEF GoodWindow
  <2>4. GoodWindow(Add(r, k))
    BY <1>3, <2>1 DEF GoodWindow, Young
  <2>5. ASSUME NEW a \in accepted
        PROVE  a.time < k.time \/ (a.time = k.time /\ a.id <= k.id)
    <3>1. a.time < r.time \/ (a.time = r.time /\ a.id <= r.id)
      BY DEF Remembers
    <3>2. a.time \in Nat /\ a.id \in Nat /\ a.id >= 1
      OBVIOUS
    <3>3. TestLinear(r, k)
      BY <1>3 DEF Test
    <3> QED
      BY <1>1, <3>1, <3>2, <3>3 DEF TestLinear
  <2> QED
    BY <1>1, <1>3, <2>1, <2>3, <2>4, <2>5
<1> QED
  BY <1>2, <1>3

\* The types that a step of the sender or of the file changes.
LEMMA SenderTypes ==
    ASSUME TypeOK
    PROVE  /\ Send => sender' \in [id : 0 .. IdMax, time : Nat]
                      /\ sent' \subseteq StampedPackets
           /\ Flush => persist' \in [time : Nat, id : Nat, time_last_written : Nat,
                                      id_last_written : Nat]
                       /\ file' \in Stamps
<1>1. IdMax \in Nat /\ IdMax >= 1
  BY PacketIdAssumption
<1>2. ASSUME Send
      PROVE  /\ sender' \in [id : 1 .. IdMax, time : Nat]
             /\ sent' \subseteq StampedPackets
  <2>1. SendUpdate(sender) \in [id : 1 .. IdMax, time : Nat]
    BY <1>1 DEF SendUpdate, TypeOK
  <2>2. sender' \in [id : 1 .. IdMax, time : Nat] /\ sent' = sent \union {Packet(sender')}
    BY <1>2, <2>1 DEF Send
  <2>3. Packet(sender') \in StampedPackets
    BY <2>2 DEF Packet, StampedPackets
  <2> QED
    BY <2>2, <2>3 DEF TypeOK, StampedPackets
<1>3. ASSUME Flush
      PROVE  /\ persist' \in [time : Nat, id : Nat, time_last_written : Nat,
                               id_last_written : Nat]
             /\ file' \in Stamps
  BY <1>3 DEF Flush, Written, TypeOK, Stamps
<1>4. 1 .. IdMax \subseteq 0 .. IdMax
  BY <1>1
<1> QED
  BY <1>2, <1>3, <1>4

\* Saving the window's place keeps the types of the persistent object.
LEMMA SaveTypes ==
    ASSUME TypeOK, NEW r \in Windows
    PROVE  SaveObj(persist, r) \in [time : Nat, id : Nat, time_last_written : Nat,
                                    id_last_written : Nat]
BY DEF SaveObj, TypeOK, Windows

\* Every step but a restart keeps the invariant.
LEMMA IInvStep ==
    ASSUME Signals = {}, IInv, [Next]_vars
    PROVE  IInv'
<1> USE DEF IInv
<1>1. now \in Nat /\ accepted \subseteq [time : Nat, id : 1 .. IdMax, at : Nat]
  BY DEF TypeOK
<1>2. CASE Send
  <2>1. UNCHANGED <<now, rec, persist, file, accepted>>
    BY <1>2 DEF Send
  <2>2. TypeOK'
    BY <1>2, <2>1, SenderTypes DEF TypeOK, StampedPackets
  <2> QED
    BY <2>1, <2>2 DEF GoodWindow, Young, Remembers, Begun, Clock, LateRefused
<1>3. ASSUME NEW k \in sent, Receive(k)
      PROVE  IInv'
  <2> DEFINE q == Reaped(rec)
             new == [time |-> k.time, id |-> k.id, at |-> now]
  <2>1. UNCHANGED <<now, sender, file, sent>>
    BY <1>3 DEF Receive
  <2>2. k \in StampedPackets
    BY DEF TypeOK, StampedPackets
  <2>3. /\ GoodWindow(q) /\ Remembers(q) /\ Begun(q)
        /\ q.last_reap + ReapInterval > now /\ q.last_reap \in Nat
    BY <1>1, ReapedGood DEF GoodWindow, Windows
  <2> HIDE DEF q
  <2>4. CASE ~ Accepts(k)
    <3>1. rec' = q /\ UNCHANGED <<persist, accepted>>
      BY <1>3, <2>4 DEF Receive, q
    <3>2. TypeOK'
      BY <2>1, <2>3, <3>1 DEF TypeOK, GoodWindow, Windows
    <3> QED
      BY <2>1, <2>3, <3>1, <3>2 DEF GoodWindow, Young, Remembers, Begun, Clock, LateRefused
  <2>5. CASE Accepts(k)
    <3>1. /\ rec' = Add(q, k) /\ persist' = SaveObj(persist, rec')
          /\ accepted' = accepted \union {new}
      BY <1>3, <2>5 DEF Receive, q
    <3>2. Test(q, k)
      BY <2>5 DEF Accepts, q
    <3>3. /\ GoodWindow(Add(q, k))
          /\ \A a \in accepted \union {new} :
                /\ \/ a.time < Add(q, k).time
                   \/ a.time = Add(q, k).time /\ a.id <= Add(q, k).id
                /\ /\ a.time = Add(q, k).time
                   /\ Add(q, k).id - a.id + 1 \in DOMAIN Add(q, k).list
                   => Add(q, k).list[Add(q, k).id - a.id + 1] \in {SeqExpired, a.at}
          /\ SeqBacktrack # 0 => Add(q, k).list # << >>
          /\ SeqBacktrack # 0 =>
                \A a \in accepted : a.time = k.time /\ a.id > k.id =>
                   TimeBacktrack = 0 \/ a.at + TimeBacktrack >= q.last_reap
      BY <1>1, <2>2, <2>3, <3>2, AddGood
    <3>4. rec' \in Windows
      BY <3>1, <3>3 DEF GoodWindow
    <3>5. TypeOK'
      <4>1. persist' \in [time : Nat, id : Nat, time_last_written : Nat,
                          id_last_written : Nat]
        BY <3>1, <3>4, SaveTypes
      <4>2. new \in [time : Nat, id : 1 .. IdMax, at : Nat]
        BY <1>1, <2>2 DEF StampedPackets
      <4> QED
        BY <2>1, <3>1, <3>4, <4>1, <4>2 DEF TypeOK, Windows
    <3>6. GoodWindow(rec)' /\ Remembers(rec)' /\ Begun(rec)'
      BY <2>1, <3>1, <3>3 DEF GoodWindow, Young, Remembers, Begun
    <3>7. Clock'
      BY <1>1, <2>1, <3>1, StartAssumption DEF Clock
    <3>8. LateRefused'
      <4> SUFFICES ASSUME SeqBacktrack # 0, TimeBacktrack # 0,
                          NEW a \in accepted', NEW b \in accepted',
                          a.time = b.time, a.id < b.id
                   PROVE  a.at < b.at + TimeBacktrack + ReapInterval
        BY DEF LateRefused
      <4>1. TimeBacktrack \in Nat /\ ReapInterval \in Nat /\ ReapInterval > 0
        BY PacketIdAssumption
      <4>2. a.at \in Nat /\ b.at \in Nat /\ a.id \in Nat /\ b.id \in Nat /\ a.at <= now
        <5>1. accepted' \subseteq [time : Nat, id : 1 .. IdMax, at : Nat]
          BY <3>5 DEF TypeOK
        <5>2. a.at <= now
          BY <2>1, <3>7 DEF Clock
        <5> QED
          BY <5>1, <5>2
      <4>3. CASE a \in accepted /\ b \in accepted
        BY <4>3 DEF LateRefused
      <4>4. CASE b = new
        BY <1>1, <4>1, <4>2, <4>4
      <4>5. CASE a = new /\ b \in accepted
        <5>1. b.at + TimeBacktrack >= q.last_reap
          BY <3>3, <4>5
        <5> QED
          BY <1>1, <2>3, <4>1, <4>2, <4>5, <5>1
      <4> QED
        BY <3>1, <4>3, <4>4, <4>5
    <3> QED
      BY <3>5, <3>6, <3>7, <3>8
  <2> QED
    BY <2>4, <2>5
<1>4. CASE Flush
  <2>1. UNCHANGED <<now, sender, rec, sent, accepted>>
    BY <1>4 DEF Flush
  <2>2. TypeOK'
    BY <1>4, <2>1, SenderTypes DEF TypeOK
  <2> QED
    BY <2>1, <2>2 DEF GoodWindow, Young, Remembers, Begun, Clock, LateRefused
<1>5. CASE Tick
  <2>1. now' = now + 1 /\ UNCHANGED <<sender, rec, persist, file, sent, accepted>>
    BY <1>5 DEF Tick
  <2>2. TypeOK'
    BY <1>1, <2>1 DEF TypeOK
  <2>3. GoodWindow(rec)'
    BY <1>1, <2>1 DEF GoodWindow, Young, Windows
  <2>4. Clock'
    BY <1>1, <2>1, StartAssumption DEF Clock
  <2> QED
    BY <2>1, <2>2, <2>3, <2>4 DEF Remembers, Begun, LateRefused
<1>6. CASE UNCHANGED vars
  BY <1>6 DEF vars, TypeOK, GoodWindow, Young, Remembers, Begun, Clock, LateRefused
<1> QED
  BY <1>2, <1>3, <1>4, <1>5, <1>6 DEF Next

\* What the invariant remembers is not accepted again.
LEMMA RememberedOnce == IInv => AcceptedOnce
<1> SUFFICES ASSUME IInv, NEW a \in accepted, Accepts(a)
             PROVE  FALSE
  BY DEF AcceptedOnce
<1> DEFINE q == Reaped(rec)
<1>1. /\ now \in Nat /\ a.time \in Nat /\ a.id \in Nat /\ a.id >= 1
      /\ a.at # SeqUnseen
  BY StartAssumption DEF IInv, TypeOK, Clock, SeqUnseen, SeqExpired
<1>2. GoodWindow(q) /\ Remembers(q)
  BY <1>1, ReapedGood DEF IInv
<1>3. Test(q, a)
  BY DEF Accepts
<1> HIDE DEF q
<1>4. /\ q.time \in Nat /\ q.id \in Nat /\ Len(q.list) \in Nat
      /\ DOMAIN q.list = 1 .. Len(q.list)
  BY <1>2, LenProperties DEF GoodWindow, Windows
<1>5. a.time < q.time \/ (a.time = q.time /\ a.id <= q.id)
  BY <1>2 DEF Remembers
<1>6. CASE SeqBacktrack # 0
  <2>1. /\ a.time = q.time /\ q.id - a.id < Len(q.list)
        /\ q.list[q.id - a.id + 1] = SeqUnseen
    BY <1>1, <1>3, <1>4, <1>5, <1>6 DEF Test, TestBacktrack
  <2>2. q.id - a.id + 1 \in DOMAIN q.list
    BY <1>1, <1>4, <1>5, <2>1
  <2>3. q.list[q.id - a.id + 1] \in {SeqExpired, a.at}
    BY <1>2, <2>1, <2>2 DEF Remembers
  <2> QED
    BY <1>1, <2>1, <2>3 DEF SeqUnseen, SeqExpired
<1>7. CASE SeqBacktrack = 0
  BY <1>1, <1>3, <1>4, <1>5, <1>7 DEF Test, TestLinear
<1> QED
  BY <1>6, <1>7

\* Without a restart, every reachable state satisfies the invariant.
LEMMA WindowInvariant ==
    ASSUME Signals = {}
    PROVE  Spec => []IInv
<1>1. Init => IInv
  BY InitIInv
<1>2. IInv /\ [Next]_vars => IInv'
  BY IInvStep
<1> QED
  BY <1>1, <1>2, PTL DEF Spec

\* The replay window accepts no packet twice (struct packet_id_rec), whatever
\* its size, however long it runs and whatever the network does, as long as
\* the receiver is not restarted.
THEOREM NoReplay ==
    ASSUME Signals = {}
    PROVE  Spec => []AcceptedOnce
<1>1. Spec => []IInv
  BY WindowInvariant
<1> QED
  BY <1>1, RememberedOnce, PTL

\* Once an id has been accepted, lower ones are accepted for at most
\* TimeBacktrack + ReapInterval - 1 seconds more (packet_id_reap).
THEOREM TimeWindow ==
    ASSUME Signals = {}
    PROVE  Spec => []LateRefused
<1>1. Spec => []IInv
  BY WindowInvariant
<1>2. IInv => LateRefused
  BY DEF IInv
<1> QED
  BY <1>1, <1>2, PTL

\* What has expired stays behind what has not, so that packet_id_reap may stop
\* at the first expired item.
THEOREM ReapStopsEarly ==
    ASSUME Signals = {}
    PROVE  Spec => []ExpiredLast
<1>1. Spec => []IInv
  BY WindowInvariant
<1>2. IInv => ExpiredLast
  BY DEF IInv, GoodWindow, Ordered, ExpiredLast
<1> QED
  BY <1>1, <1>2, PTL

---------------------------------------------------------------------------
\* The sender.

\* What was sent is behind the sender, in its own past.
SenderInv ==
    /\ now \in Nat /\ now >= Start
    /\ sender \in [id : 0 .. IdMax, time : Nat]
    /\ sender.time <= now
    /\ sender.time = 0 => sent = {}
    /\ sent \subseteq StampedPackets
    /\ \A k \in sent :
          \/ LongForm /\ 0 < k.time /\ k.time < sender.time
          \/ LongForm /\ 0 < k.time /\ k.time = sender.time /\ k.id <= sender.id
          \/ ~ LongForm /\ k.time = 0 /\ k.id <= sender.id

\* Every step keeps the sender ahead of what was sent.
LEMMA SenderStep ==
    ASSUME SenderInv, [Next]_vars
    PROVE  SenderInv'
<1>1. /\ IdMax \in Nat /\ IdMax >= 1 /\ now \in Nat /\ now >= Start
      /\ now > 0 /\ LongForm \in BOOLEAN
  BY PacketIdAssumption, StartAssumption DEF SenderInv, SeqExpired
<1>2. CASE Send
  <2>1. /\ sender' = SendUpdate(sender) /\ sent' = sent \union {Packet(sender')}
        /\ now' = now /\ MaySend(sender)
    BY <1>2 DEF Send
  <2>2. sender.id \in 0 .. IdMax /\ sender.time \in Nat
    BY DEF SenderInv
  <2>3. /\ sender' \in [id : 1 .. IdMax, time : Nat]
        /\ sender'.time <= now /\ sender'.time > 0 /\ sender'.time >= sender.time
        /\ sender'.time = sender.time => sender'.id > sender.id
        /\ ~ LongForm => sender'.id > sender.id
    BY <1>1, <2>1, <2>2 DEF SendUpdate, MaySend, SenderInv
  <2>4. /\ Packet(sender') \in StampedPackets
        /\ Packet(sender').time = IF LongForm THEN sender'.time ELSE 0
        /\ Packet(sender').id = sender'.id
    BY <2>3 DEF Packet, StampedPackets
  <2>5. sender' \in [id : 0 .. IdMax, time : Nat]
    BY <1>1, <2>3
  <2>6. ASSUME NEW k \in sent'
        PROVE  \/ LongForm /\ 0 < k.time /\ k.time < sender'.time
               \/ LongForm /\ 0 < k.time /\ k.time = sender'.time /\ k.id <= sender'.id
               \/ ~ LongForm /\ k.time = 0 /\ k.id <= sender'.id
    <3>1. CASE k \in sent
      <4>1. k.id \in Nat /\ k.time \in Nat
        BY <1>1, <3>1 DEF SenderInv, StampedPackets
      <4> QED
        BY <2>2, <2>3, <3>1, <4>1 DEF SenderInv
    <3>2. CASE k = Packet(sender')
      BY <2>3, <2>4, <3>2
    <3> QED
      BY <2>1, <3>1, <3>2
  <2> QED
    BY <1>1, <2>1, <2>3, <2>4, <2>5, <2>6 DEF SenderInv
<1>3. CASE Tick
  BY <1>1, <1>3, StartAssumption DEF Tick, SenderInv
<1>4. CASE UNCHANGED <<now, sender, sent>>
  BY <1>4 DEF SenderInv
<1> QED
  BY <1>2, <1>3, <1>4 DEF Next, vars, Receive, Flush, Restart

\* Every reachable state satisfies it.
LEMMA SenderInvariant == Spec => []SenderInv
<1>1. Init => SenderInv
  BY StartAssumption, PacketIdAssumption DEF Init, SenderInv
<1>2. SenderInv /\ [Next]_vars => SenderInv'
  BY SenderStep
<1> QED
  BY <1>1, <1>2, PTL DEF Spec

\* No packet id is sent twice with one stamp (packet_id_send_update), whatever
\* the receiver does.
THEOREM FreshIds == Spec => []SendsFresh
<1>1. SenderInv => SendsFresh
  <2> SUFFICES ASSUME SenderInv, MaySend(sender), NEW k \in sent, k = Packet(SendUpdate(sender))
               PROVE  FALSE
    BY DEF SendsFresh
  <2>1. /\ sender.id \in 0 .. IdMax /\ sender.time \in Nat /\ now \in Nat
        /\ IdMax \in Nat /\ LongForm \in BOOLEAN /\ sender.time # 0
        /\ k.id \in Nat /\ k.id >= 1 /\ k.time \in Nat
    BY PacketIdAssumption DEF SenderInv, StampedPackets
  <2>2. CASE sender.id = IdMax
    <3>1. LongForm /\ now > sender.time /\ k.time = now
      BY <2>2 DEF MaySend, SendUpdate, Packet
    <3> QED
      BY <2>1, <3>1 DEF SenderInv
  <2>3. CASE sender.id # IdMax
    <3>1. k.id = sender.id + 1 /\ (LongForm => k.time = sender.time)
      BY <2>1, <2>3 DEF SendUpdate, Packet
    <3> QED
      BY <2>1, <3>1 DEF SenderInv
  <2> QED
    BY <2>2, <2>3
<1> QED
  BY <1>1, SenderInvariant, PTL

---------------------------------------------------------------------------
\* Restarts.

\* The persistent object has the window's place, which is not behind what was
\* accepted.
PlaceInv ==
    /\ rec \in Windows
    /\ persist \in [time : Nat, id : Nat, time_last_written : Nat, id_last_written : Nat]
    /\ accepted \subseteq [time : Nat, id : 1 .. IdMax, at : Nat]
    /\ PlaceKept
    /\ accepted # {} => rec.time = persist.time /\ rec.id = persist.id /\ rec.time # 0

\* Reaping moves no window, and adding an id moves it to that id at least.
LEMMA AddPlace ==
    ASSUME NEW r \in Windows, NEW k \in StampedPackets, Test(r, k), now \in Nat
    PROVE  /\ Add(r, k) \in Windows
           /\ Add(r, k).time = k.time /\ Add(r, k).id >= k.id
           /\ k.time > r.time \/ (k.time = r.time /\ Add(r, k).id >= r.id)
<1>1. /\ r.list \in Seq(Nat) /\ Len(r.list) \in Nat /\ DOMAIN r.list = 1 .. Len(r.list)
      /\ r.id \in Nat /\ r.time \in Nat /\ k.id \in Nat /\ k.id # 0 /\ k.time \in Nat
      /\ SeqBacktrack \in Nat
  BY LenProperties, PacketIdAssumption DEF Windows, StampedPackets
<1>2. CASE SeqBacktrack # 0
  <2> DEFINE v == Window(r, k)
             w == Advance(v, k)
  <2>1. TestBacktrack(r, k)
    BY <1>2 DEF Test
  <2>2. v \in Windows /\ v.time = k.time
    <3>1. << >> \in Seq(Nat)
      BY EmptySeq
    <3> DEFINE base == IF k.id > SeqBacktrack THEN k.id - SeqBacktrack ELSE 0
    <3>2. base \in Nat
      BY <1>1
    <3>3. CASE Restarts(r, k)
      <4>1. v = [r EXCEPT !.time = k.time, !.id = base, !.list = << >>]
        BY <3>3 DEF Window
      <4> HIDE DEF base
      <4> QED
        BY <1>1, <3>1, <3>2, <4>1 DEF Windows
    <3>4. CASE ~ Restarts(r, k)
      BY <2>1, <3>4 DEF Window, Restarts, TestBacktrack
    <3> QED
      BY <3>3, <3>4
  <2>3. v.id >= r.id \/ k.time > r.time \/ (v.id < k.id /\ k.id > r.id)
    <3>1. CASE Restarts(r, k) /\ r.list = << >> /\ k.time = r.time
      <4>1. Len(r.list) = 0
        BY <3>1, EmptySeq
      <4>2. k.id > r.id
        BY <1>1, <2>1, <3>1, <4>1 DEF TestBacktrack
      <4>3. v.id = IF k.id > SeqBacktrack THEN k.id - SeqBacktrack ELSE 0
        BY <3>1 DEF Window, Windows
      <4> QED
        BY <1>1, <1>2, <4>2, <4>3
    <3>2. CASE Restarts(r, k) /\ k.time <= r.time /\ r.list # << >>
      BY <1>1, <1>2, <3>2 DEF Window, Windows, Restarts
    <3>3. CASE ~ Restarts(r, k)
      BY <1>1, <3>3 DEF Window
    <3> QED
      BY <1>1, <2>1, <3>1, <3>2, <3>3 DEF TestBacktrack
  <2>4. v.id \in Nat /\ v.list \in Seq(Nat)
    BY <2>2 DEF Windows
  <2> HIDE DEF v
  <2>5. w \in Windows /\ w.time = k.time /\ w.id >= k.id /\ w.id >= v.id
    <3>1. CASE k.id > v.id
      <4>1. k.id - v.id \in Nat
        BY <1>1, <2>4, <3>1
      <4>2. Push(v.list, k.id - v.id) \in Seq(Nat)
        BY <1>1, <2>4, <4>1, PushList
      <4> DEFINE list == Push(v.list, k.id - v.id)
      <4>3. w = [v EXCEPT !.id = k.id, !.list = list]
        BY <3>1 DEF Advance
      <4> HIDE DEF list, w
      <4>4. w \in Windows /\ w.time = k.time /\ w.id = k.id
        BY <1>1, <2>2, <4>2, <4>3 DEF Windows, list
      <4> QED
        BY <1>1, <2>4, <3>1, <4>4
    <3>2. CASE k.id <= v.id
      BY <1>1, <2>2, <2>4, <3>2 DEF Advance
    <3> QED
      BY <1>1, <2>4, <3>1, <3>2
  <2>6. w.id \in Nat /\ w.list \in Seq(Nat) /\ Len(w.list) \in Nat
    BY <2>5, LenProperties DEF Windows
  <2> HIDE DEF w
  <2>7. Mark(w, k) \in Windows /\ Mark(w, k).time = w.time /\ Mark(w, k).id = w.id
    <3>1. CASE w.id - k.id < Len(w.list) /\ now > SeqExpired
      <4>1. w.id - k.id + 1 \in 1 .. Len(w.list)
        BY <1>1, <2>5, <2>6, <3>1
      <4>2. [w.list EXCEPT ![w.id - k.id + 1] = now] \in Seq(Nat)
        BY <2>6, <4>1, ExceptSeq
      <4> QED
        BY <2>5, <3>1, <4>2 DEF Mark, Windows
    <3>2. CASE ~ (w.id - k.id < Len(w.list) /\ now > SeqExpired)
      BY <2>5, <3>2 DEF Mark
    <3> QED
      BY <3>1, <3>2
  <2>8. Add(r, k) = Mark(w, k)
    BY <1>2 DEF Add, v, w
  <2>9. k.time >= r.time
    BY <1>1, <2>1 DEF TestBacktrack
  <2> QED
    BY <1>1, <2>3, <2>4, <2>5, <2>6, <2>7, <2>8, <2>9
<1>3. CASE SeqBacktrack = 0
  <2>1. Add(r, k) \in Windows /\ Add(r, k).time = k.time /\ Add(r, k).id = k.id
    BY <1>1, <1>3 DEF Add, Windows
  <2>2. TestLinear(r, k)
    BY <1>3 DEF Test
  <2> QED
    BY <1>1, <2>1, <2>2 DEF TestLinear
<1> QED
  BY <1>2, <1>3

\* Reaping leaves the window where it is.
LEMMA ReapedPlace ==
    ASSUME NEW r \in Windows, now \in Nat
    PROVE  Reaped(r) \in Windows /\ Reaped(r).time = r.time /\ Reaped(r).id = r.id
<1>1. r.list \in Seq(Nat) /\ Reap(r.list) \in Seq(Nat)
  BY ReapList DEF Windows
<1> QED
  BY <1>1 DEF Reaped, Windows

\* Every step keeps the place, as long as no restart empties the file.
LEMMA PlaceStep ==
    ASSUME Signals \subseteq {"SIGUSR1"}, Persist, LongForm,
           SenderInv, PlaceInv, [Next]_vars
    PROVE  PlaceInv'
<1> USE DEF PlaceInv
<1>1. now \in Nat
  BY DEF SenderInv
<1>2. ASSUME NEW k \in sent, Receive(k)
      PROVE  PlaceInv'
  <2>1. k \in StampedPackets /\ k.time > 0
    BY DEF SenderInv
  <2> DEFINE q == Reaped(rec)
  <2>2. q \in Windows /\ q.time = rec.time /\ q.id = rec.id
    BY <1>1, ReapedPlace
  <2>3. CASE ~ Accepts(k)
    <3>1. rec' = q /\ UNCHANGED <<persist, accepted>>
      BY <1>2, <2>3 DEF Receive
    <3> HIDE DEF q
    <3> QED
      BY <2>2, <3>1 DEF PlaceKept
  <2>4. CASE Accepts(k)
    <3>1. /\ rec' = Add(q, k) /\ persist' = SaveObj(persist, rec')
          /\ accepted' = accepted \union {[time |-> k.time, id |-> k.id, at |-> now]}
      BY <1>2, <2>4 DEF Receive
    <3>2. Test(q, k)
      BY <2>4 DEF Accepts
    <3> HIDE DEF q
    <3>3. /\ rec' \in Windows /\ rec'.time = k.time /\ rec'.id >= k.id
          /\ k.time > q.time \/ (k.time = q.time /\ rec'.id >= q.id)
      BY <1>1, <2>1, <2>2, <3>1, <3>2, AddPlace
    <3>4. /\ rec'.time \in Nat /\ rec'.id \in Nat /\ k.time \in Nat /\ k.id \in Nat
          /\ q.time \in Nat /\ q.id \in Nat /\ k.id \in 1 .. IdMax
      BY <2>1, <2>2, <3>3 DEF Windows, StampedPackets
    <3>5. /\ persist' \in [time : Nat, id : Nat, time_last_written : Nat,
                            id_last_written : Nat]
          /\ persist'.time = rec'.time /\ persist'.id = rec'.id
      <4>1. rec'.time # 0
        BY <2>1, <3>3, <3>4
      <4>2. persist' = [persist EXCEPT !.time = rec'.time, !.id = rec'.id]
        BY <3>1, <4>1 DEF SaveObj
      <4> QED
        BY <3>4, <4>2
    <3>6. accepted' \subseteq [time : Nat, id : 1 .. IdMax, at : Nat]
      BY <1>1, <3>1, <3>4
    <3>7. PlaceKept'
      <4> SUFFICES ASSUME NEW a \in accepted'
                   PROVE  a.time < rec'.time \/ (a.time = rec'.time /\ a.id <= rec'.id)
        BY DEF PlaceKept
      <4>1. a.time \in Nat /\ a.id \in Nat
        BY <3>6
      <4>2. CASE a \in accepted
        BY <2>2, <3>3, <3>4, <4>1, <4>2 DEF PlaceKept
      <4>3. CASE a \notin accepted
        BY <3>1, <3>3, <3>4, <4>3
      <4> QED
        BY <4>2, <4>3
    <3> QED
      BY <2>1, <3>3, <3>5, <3>6, <3>7
  <2> QED
    BY <2>3, <2>4
<1>3. CASE Flush
  <2>1. /\ UNCHANGED <<rec, accepted>>
        /\ persist' \in [time : Nat, id : Nat, time_last_written : Nat, id_last_written : Nat]
        /\ persist'.time = persist.time /\ persist'.id = persist.id
    BY <1>3 DEF Flush, Written
  <2> QED
    BY <2>1 DEF PlaceKept
<1>4. CASE Restart("SIGUSR1")
  <2>1. /\ persist' \in [time : Nat, id : Nat, time_last_written : Nat, id_last_written : Nat]
        /\ persist'.time = persist.time /\ persist'.id = persist.id
        /\ rec' = LoadObj(persist') /\ accepted' = accepted
    BY <1>4 DEF Restart, Written
  <2>2. InitialRec \in Windows
    BY EmptySeq DEF InitialRec, Windows
  <2>3. rec' \in Windows
    BY <2>1, <2>2 DEF LoadObj, Windows
  <2>4. accepted # {} => rec'.time = persist'.time /\ rec'.id = persist'.id
    BY <2>1, <2>2 DEF LoadObj, Windows
  <2>5. accepted # {} => rec'.time = rec.time /\ rec'.id = rec.id
    BY <2>1, <2>4
  <2>6. PlaceKept'
    BY <2>1, <2>5 DEF PlaceKept
  <2> QED
    BY <2>1, <2>3, <2>4, <2>5, <2>6
<1>5. CASE UNCHANGED <<rec, persist, accepted>>
  BY <1>5 DEF PlaceKept
<1> QED
  BY <1>2, <1>3, <1>4, <1>5 DEF Next, vars, Send, Tick

\* At the start nothing is accepted.
LEMMA PlaceInit == Init => PlaceInv
<1>1. << >> \in Seq(Nat)
  BY EmptySeq
<1> QED
  BY <1>1 DEF Init, PlaceInv, PlaceKept, InitialRec, InitialPersist, Windows

\* Across any number of SIGUSR1 restarts the window is not behind what was
\* accepted before them, with --replay-persist and time stamps.  The reading of
\* the file is not needed for this, only the object in memory: a SIGHUP loses
\* the place.
THEOREM RestartKeepsPlace ==
    ASSUME Signals \subseteq {"SIGUSR1"}, Persist, LongForm
    PROVE  Spec => []PlaceKept
<1>1. Init => PlaceInv
  BY PlaceInit
<1>2. SenderInv /\ PlaceInv /\ [Next]_vars => PlaceInv'
  BY PlaceStep
<1>3. PlaceInv => PlaceKept
  BY DEF PlaceInv
<1> QED
  BY <1>1, <1>2, <1>3, SenderInvariant, PTL DEF Spec

---------------------------------------------------------------------------
\* The linear mode.

\* In the linear mode the receiver's place is the last id that it accepted of
\* the stamp.
LinearInv ==
    /\ now \in Nat
    /\ rec \in Windows
    /\ accepted \subseteq [time : Nat, id : 1 .. IdMax, at : Nat]
    /\ \A a \in accepted : a.at <= now
    /\ PlaceKept
    /\ \A a \in accepted : a.time = rec.time =>
          \E c \in accepted : c.time = rec.time /\ c.id = rec.id
    /\ InSequence

\* A packet is accepted only as the next one of its stamp, or as the first.
LEMMA LinearAccept ==
    ASSUME SeqBacktrack = 0, LinearInv, NEW k \in StampedPackets, Receive(k), Accepts(k)
    PROVE  LinearInv'
<1> DEFINE new == [time |-> k.time, id |-> k.id, at |-> now]
           q == Reaped(rec)
<1>1. /\ rec' = Add(q, k) /\ accepted' = accepted \union {new} /\ now' = now
      /\ TestLinear(q, k)
  BY DEF Receive, Accepts, Test
<1>2. q \in Windows /\ q.time = rec.time /\ q.id = rec.id
  BY ReapedPlace DEF LinearInv
<1> HIDE DEF q
<1>3. /\ k.time \in Nat /\ k.id \in 1 .. IdMax /\ k.id \in Nat /\ now \in Nat
      /\ rec.time \in Nat /\ rec.id \in Nat
  BY PacketIdAssumption DEF StampedPackets, LinearInv, Windows
<1>4. rec' \in Windows /\ rec'.time = k.time /\ rec'.id = k.id
  BY <1>1, <1>2, <1>3 DEF Add, Windows
<1>5. \/ k.time > rec.time
      \/ k.time = rec.time /\ (rec.id = 0 \/ k.id = rec.id + 1)
  BY <1>1, <1>2 DEF TestLinear
<1>6. ASSUME NEW a \in accepted
      PROVE  /\ a.time \in Nat /\ a.id \in Nat /\ a.id >= 1 /\ a.at \in Nat /\ a.at <= now
             /\ a.time < rec.time \/ (a.time = rec.time /\ a.id <= rec.id)
             /\ a.time < k.time \/ (a.time = k.time /\ k.time = rec.time /\ k.id = rec.id + 1)
  <2>1. /\ a.time \in Nat /\ a.id \in Nat /\ a.id >= 1 /\ a.at \in Nat /\ a.at <= now
        /\ a.time < rec.time \/ (a.time = rec.time /\ a.id <= rec.id)
    BY DEF LinearInv, PlaceKept
  <2> QED
    BY <2>1, <1>3, <1>5
<1>7. accepted' \subseteq [time : Nat, id : 1 .. IdMax, at : Nat]
  BY <1>1, <1>3 DEF LinearInv
<1>8. PlaceKept' /\ \A a \in accepted' : a.at <= now'
  <2>1. new.time = k.time /\ new.id = k.id /\ new.at = now
    OBVIOUS
  <2>2. \A a \in accepted' : a \in accepted \/ a = new
    BY <1>1
  <2>3. k.id <= k.id /\ now <= now
    BY <1>3
  <2> HIDE DEF new
  <2> QED
    BY <1>1, <1>4, <1>5, <1>6, <1>3, <2>1, <2>2, <2>3 DEF PlaceKept
<1>9. \A a \in accepted' : \E c \in accepted' : c.time = rec'.time /\ c.id = rec'.id
  <2>1. new \in accepted' /\ new.time = rec'.time /\ new.id = rec'.id
    BY <1>1, <1>4
  <2> QED
    BY <2>1
<1>10. InSequence'
  <2> SUFFICES ASSUME NEW a \in accepted', NEW b \in accepted', a.time = b.time
               PROVE  /\ a.id < b.id => a.at <= b.at
                      /\ \A n \in a.id .. b.id :
                            \E c \in accepted' : c.time = a.time /\ c.id = n
    BY DEF InSequence
  <2>1. CASE a \in accepted /\ b \in accepted
    BY <2>1, <1>1 DEF LinearInv, InSequence
  <2>2. CASE a = new /\ b = new
    BY <2>2, <1>1, <1>3
  <2>3. CASE a = new /\ b \in accepted
    <3>1. b.id < k.id
      BY <2>3, <1>3, <1>6
    <3> QED
      BY <2>3, <3>1, <1>3, <1>6
  <2>4. CASE a \in accepted /\ b = new
    <3>1. /\ a.time = rec.time /\ k.time = rec.time /\ k.id = rec.id + 1
          /\ a.at <= now
      BY <2>4, <1>3, <1>6
    <3>2. PICK c \in accepted : c.time = rec.time /\ c.id = rec.id
      BY <2>4, <3>1 DEF LinearInv
    <3>3. ASSUME NEW n \in a.id .. b.id
          PROVE  \E d \in accepted' : d.time = a.time /\ d.id = n
      <4>1. CASE n = k.id
        <5>1. new \in accepted' /\ new.time = a.time /\ new.id = n
          BY <4>1, <3>1, <1>1
        <5> QED
          BY <5>1
      <4>2. CASE n # k.id
        <5>1. n \in a.id .. c.id
          BY <4>2, <3>1, <3>2, <2>4, <1>3, <1>6
        <5> QED
          BY <5>1, <3>1, <3>2, <2>4, <1>1 DEF LinearInv, InSequence
      <4> QED
        BY <4>1, <4>2
    <3> QED
      BY <2>4, <3>1, <3>3
  <2> QED
    BY <1>1, <2>1, <2>2, <2>3, <2>4
<1> QED
  BY <1>1, <1>4, <1>7, <1>8, <1>9, <1>10 DEF LinearInv

\* A step keeps it when restarts keep the place.
LEMMA LinearStep ==
    ASSUME SeqBacktrack = 0, LinearInv, [Next]_vars, sent \subseteq StampedPackets,
           ASSUME NEW sig \in Signals, Restart(sig)
           PROVE  /\ rec' \in Windows
                  /\ accepted # {} => rec'.time = rec.time /\ rec'.id = rec.id
    PROVE  LinearInv'
<1>1. ASSUME NEW k \in sent, Receive(k)
      PROVE  LinearInv'
  <2>1. CASE Accepts(k)
    BY <1>1, <2>1, LinearAccept
  <2>2. CASE ~ Accepts(k)
    <3>1. rec' = Reaped(rec) /\ accepted' = accepted /\ now' = now
      BY <1>1, <2>2 DEF Receive
    <3>2. rec' \in Windows /\ rec'.time = rec.time /\ rec'.id = rec.id
      BY <3>1, ReapedPlace DEF LinearInv
    <3> QED
      BY <3>1, <3>2 DEF LinearInv, PlaceKept, InSequence
  <2> QED
    BY <2>1, <2>2
<1>2. ASSUME NEW sig \in Signals, Restart(sig)
      PROVE  LinearInv'
  <2>1. now' = now /\ accepted' = accepted
    BY <1>2 DEF Restart
  <2>2. /\ rec' \in Windows
        /\ accepted # {} => rec'.time = rec.time /\ rec'.id = rec.id
    BY <1>2
  <2> QED
    BY <2>1, <2>2 DEF LinearInv, PlaceKept, InSequence
<1>3. CASE Tick
  <2>1. now' = now + 1 /\ rec' = rec /\ accepted' = accepted
    BY <1>3 DEF Tick
  <2>2. \A a \in accepted : a.at \in Nat
    BY DEF LinearInv
  <2> QED
    BY <2>1, <2>2 DEF LinearInv, PlaceKept, InSequence
<1>4. CASE UNCHANGED <<now, rec, accepted>>
  BY <1>4 DEF LinearInv, PlaceKept, InSequence
<1> QED
  BY <1>1, <1>2, <1>3, <1>4 DEF Next, vars, Send, Flush

\* In the linear mode (TCP) the ids of each stamp are accepted without a gap and
\* one after the other (packet_id_test): without restarts, and across any number
\* of SIGUSR1 with --replay-persist and time stamps.
THEOREM NoGaps ==
    ASSUME Signals = {} \/ (Signals \subseteq {"SIGUSR1"} /\ Persist /\ LongForm)
    PROVE  Spec => []InSequence
<1>1. CASE SeqBacktrack # 0
  <2>1. Init => InSequence
    BY <1>1 DEF InSequence
  <2>2. InSequence /\ [Next]_vars => InSequence'
    BY <1>1 DEF InSequence
  <2> QED
    BY <2>1, <2>2, PTL DEF Spec
<1>2. CASE SeqBacktrack = 0
  <2>1. << >> \in Seq(Nat)
    BY EmptySeq
  <2>2. Init => LinearInv
    BY <2>1, StartAssumption
       DEF Init, LinearInv, InitialRec, Windows, PlaceKept, InSequence
  <2>3. LinearInv => InSequence
    BY DEF LinearInv
  <2>4. CASE Signals = {}
    <3>1. SenderInv /\ LinearInv /\ [Next]_vars => LinearInv'
      BY <1>2, <2>4, LinearStep DEF SenderInv
    <3> QED
      BY <2>2, <2>3, <3>1, SenderInvariant, PTL DEF Spec
  <2>5. CASE Signals \subseteq {"SIGUSR1"} /\ Persist /\ LongForm
    <3>1. PlaceInv /\ Restart("SIGUSR1") =>
             /\ rec' \in Windows
             /\ accepted # {} => rec'.time = rec.time /\ rec'.id = rec.id
      <4>1. InitialRec \in Windows
        BY <2>1 DEF InitialRec, Windows
      <4>2. SUFFICES ASSUME PlaceInv, Restart("SIGUSR1")
            PROVE  /\ rec' \in Windows
                   /\ accepted # {} => rec'.time = rec.time /\ rec'.id = rec.id
        OBVIOUS
      <4>3. /\ persist' \in [time : Nat, id : Nat, time_last_written : Nat,
                             id_last_written : Nat]
            /\ persist'.time = persist.time /\ persist'.id = persist.id
            /\ rec' = LoadObj(persist')
        BY <4>2 DEF Restart, Written, PlaceInv
      <4>4. rec' \in Windows
        BY <4>1, <4>3 DEF LoadObj, Windows
      <4>5. ASSUME accepted # {}
            PROVE  rec'.time = rec.time /\ rec'.id = rec.id
        <5>1. rec.time = persist.time /\ rec.id = persist.id /\ rec.time # 0
          BY <4>2, <4>5 DEF PlaceInv
        <5> QED
          BY <5>1, <4>1, <4>3, <2>5 DEF LoadObj, Windows
      <4> QED
        BY <4>4, <4>5
    <3>2. SenderInv /\ PlaceInv /\ LinearInv /\ [Next]_vars => LinearInv'
      <4> SUFFICES ASSUME SenderInv, PlaceInv, LinearInv, [Next]_vars
                   PROVE  LinearInv'
        OBVIOUS
      <4>1. ASSUME NEW sig \in Signals, Restart(sig)
            PROVE  /\ rec' \in Windows
                   /\ accepted # {} => rec'.time = rec.time /\ rec'.id = rec.id
        BY <3>1, <4>1, <2>5
      <4> QED
        BY <1>2, <4>1, LinearStep DEF SenderInv
    <3>3. Init => PlaceInv
      BY PlaceInit
    <3>4. SenderInv /\ PlaceInv /\ [Next]_vars => PlaceInv'
      BY <2>5, PlaceStep
    <3> QED
      BY <2>2, <2>3, <3>2, <3>3, <3>4, SenderInvariant, PTL DEF Spec
  <2> QED
    BY <2>4, <2>5
<1> QED
  BY <1>1, <1>2

---------------------------------------------------------------------------
\* What the window refuses.

\* Why item t of a list that belongs to r's stamp is what it is: the id was not
\* seen, or it was accepted, or one ahead of it was, too long ago.
Shown(r, t, id) ==
    \/ t = SeqUnseen
    \/ \E a \in accepted :
          /\ a.time = r.time
          /\ \/ a.id = id /\ t \in {SeqExpired, a.at}
             \/ /\ a.id > id /\ t = SeqExpired
                /\ TimeBacktrack # 0 /\ a.at + TimeBacktrack < now

\* The list is as long as it can be, and every item of it has its reason.
Explained(r) ==
    /\ Len(r.list) = IF r.id > SeqBacktrack THEN SeqBacktrack ELSE r.id
    /\ \A i \in DOMAIN r.list : Shown(r, r.list[i], r.id - i + 1)

\* The window is at a packet that was accepted, or at the beginning.
Reached(r) ==
    IF accepted = {} THEN r.time = 0 /\ r.id = 0
    ELSE \E a \in accepted : a.time = r.time /\ a.id = r.id

ExplainedInv == SeqBacktrack # 0 => Explained(rec) /\ Reached(rec)

\* How long the list is after n ids were pushed.
LEMMA PushLength ==
    ASSUME NEW list \in Seq(Nat), NEW n \in Nat, SeqBacktrack \in Nat
    PROVE  Len(Push(list, n)) =
              IF n + Len(list) > SeqBacktrack THEN SeqBacktrack ELSE n + Len(list)
<1> DEFINE len == IF n + Len(list) > SeqBacktrack THEN SeqBacktrack ELSE n + Len(list)
<1>1. list \in [1 .. Len(list) -> Nat] /\ Len(list) \in Nat
  BY LenProperties
<1>2. len \in Nat
  BY <1>1
<1>3. \A i \in 1 .. len : i > n => i - n \in 1 .. Len(list)
  BY <1>1, <1>2
<1>4. Push(list, n) = [i \in 1 .. len |-> IF i <= n THEN SeqUnseen ELSE list[i - n]]
  BY DEF Push
<1>5. Push(list, n) \in [1 .. len -> Nat]
  BY <1>1, <1>3, <1>4 DEF SeqUnseen
<1> QED
  BY <1>2, <1>5, FunctionSeq

\* Reaping has its reason for every item that it expires.
LEMMA ReapedExplained ==
    ASSUME IInv, SeqBacktrack # 0, Explained(rec)
    PROVE  Explained(Reaped(rec))
<1>1. /\ rec \in Windows /\ rec.list \in Seq(Nat) /\ Len(rec.list) \in Nat
      /\ DOMAIN rec.list = 1 .. Len(rec.list) /\ rec.id \in Nat /\ now \in Nat
      /\ TimeBacktrack \in Nat
  BY LenProperties, PacketIdAssumption DEF IInv, TypeOK, GoodWindow, Windows
<1>2. CASE Reaped(rec).list = rec.list
  <2>1. Reaped(rec).id = rec.id /\ Reaped(rec).time = rec.time
    BY <1>1, ReapedPlace
  <2> QED
    BY <1>2, <2>1 DEF Explained, Shown
<1>3. CASE Reaped(rec).list # rec.list
  <2> DEFINE q == Reaped(rec)
  <2>1. q = [rec EXCEPT !.list = Reap(rec.list), !.last_reap = now] /\ TimeBacktrack # 0
    <3>1. ReapDue(rec)
      BY <1>3 DEF Reaped
    <3>2. TimeBacktrack # 0
      BY <1>1, <1>3, <3>1 DEF Reaped, Windows
    <3> QED
      BY <3>1, <3>2 DEF Reaped
  <2>2. q.list = Reap(rec.list) /\ q.id = rec.id /\ q.time = rec.time
    BY <1>1, <2>1 DEF Windows
  <2> HIDE DEF q
  <2>3. /\ Len(q.list) = Len(rec.list) /\ DOMAIN q.list = DOMAIN rec.list
        /\ \A i \in DOMAIN rec.list : q.list[i] \in {SeqExpired, rec.list[i]}
    BY <1>1, <2>2, ReapList
  <2>4. ASSUME NEW i \in DOMAIN rec.list
        PROVE  Shown(rec, q.list[i], rec.id - i + 1)
    <3>1. CASE q.list[i] = rec.list[i]
      BY <3>1 DEF Explained
    <3>2. CASE q.list[i] # rec.list[i]
      <4>1. q.list[i] = SeqExpired
        BY <2>3, <3>2
      <4>2. /\ \A j \in 1 .. i : rec.list[j] # SeqExpired
            /\ \E j \in 1 .. i : Old(rec.list[j])
        BY <2>2, <3>2 DEF Reap
      <4>3. PICK j \in 1 .. i : Old(rec.list[j])
        BY <4>2
      <4>4. j \in DOMAIN rec.list /\ j \in Int /\ i \in Int /\ j <= i
        BY <1>1
      <4>5. /\ rec.list[j] # SeqUnseen /\ rec.list[j] # SeqExpired
            /\ rec.list[j] + TimeBacktrack < now
        BY <4>2, <4>3 DEF Old
      <4>6. PICK a \in accepted : /\ a.time = rec.time /\ a.id = rec.id - j + 1
                                  /\ rec.list[j] = a.at
        BY <4>4, <4>5 DEF Explained, Shown
      <4>7. a.id = rec.id - i + 1 \/ a.id > rec.id - i + 1
        BY <4>4, <4>6, <1>1
      <4> QED
        BY <4>1, <4>5, <4>6, <4>7, <2>1 DEF Shown
    <3> QED
      BY <3>1, <3>2
  <2>5. \A i \in DOMAIN q.list : Shown(q, q.list[i], q.id - i + 1)
    BY <2>2, <2>3, <2>4 DEF Shown
  <2> QED
    BY <2>2, <2>3, <2>5 DEF Explained, q
<1> QED
  BY <1>2, <1>3

\* Accepting a packet moves the window to it, with its reasons.
LEMMA AddExplained ==
    ASSUME NEW r, GoodWindow(r), SeqBacktrack # 0, Explained(r), Reached(r),
           accepted \subseteq [time : Nat, id : 1 .. IdMax, at : Nat],
           NEW k \in StampedPackets, Test(r, k), now \in Nat, now' = now,
           accepted' = accepted \union {[time |-> k.time, id |-> k.id, at |-> now]},
           rec' = Add(r, k)
    PROVE  Explained(rec)' /\ Reached(rec)'
<1> DEFINE new == [time |-> k.time, id |-> k.id, at |-> now]
           v == Window(r, k)
           w == Advance(v, k)
           base == IF k.id > SeqBacktrack THEN k.id - SeqBacktrack ELSE 0
<1>1. /\ r \in Windows /\ r.list \in Seq(Nat) /\ Len(r.list) \in Nat
      /\ DOMAIN r.list = 1 .. Len(r.list) /\ r.id \in Nat /\ r.time \in Nat
      /\ k.id \in Nat /\ k.id # 0 /\ k.time \in Nat /\ SeqBacktrack \in Nat
  BY LenProperties, PacketIdAssumption DEF GoodWindow, Windows, StampedPackets
<1>2. /\ new \in accepted' /\ new.time = k.time /\ new.id = k.id /\ new.at = now
      /\ accepted' # {}
  OBVIOUS
<1>3. TestBacktrack(r, k)
  BY DEF Test
<1>4. rec' = Mark(w, k)
  BY DEF Add
<1> HIDE DEF new
<1>5. \/ v \in Windows /\ v.time = k.time /\ v.list = << >> /\ v.id = base /\ base < k.id
      \/ v = r /\ k.time = r.time
  <2>1. CASE Restarts(r, k)
    <3>1. << >> \in Seq(Nat) /\ base \in Nat /\ base < k.id
      BY EmptySeq, <1>1
    <3>2. v = [r EXCEPT !.time = k.time, !.id = base, !.list = << >>]
      BY <2>1 DEF Window
    <3> HIDE DEF base, v
    <3>3. v \in Windows /\ v.time = k.time /\ v.list = << >> /\ v.id = base
      BY <1>1, <3>1, <3>2 DEF Windows
    <3> QED
      BY <3>1, <3>3
  <2>2. CASE ~ Restarts(r, k)
    BY <1>3, <2>2 DEF Window, Restarts, TestBacktrack
  <2> QED
    BY <2>1, <2>2
<1>6. v \in Windows /\ v.id \in Nat /\ v.list \in Seq(Nat) /\ Len(v.list) \in Nat
  <2>1. v \in Windows
    BY <1>1, <1>5
  <2> QED
    BY <2>1, LenProperties DEF Windows
<1>7. /\ w \in Windows /\ w.time = k.time
      /\ w.id = IF k.id > v.id THEN k.id ELSE v.id
      /\ Len(w.list) = IF w.id > SeqBacktrack THEN SeqBacktrack ELSE w.id
      /\ \A i \in DOMAIN w.list : Shown(w, w.list[i], w.id - i + 1)
  <2> DEFINE n == k.id - v.id
             list == Push(v.list, n)
  <2>1. CASE k.id > v.id
    <3>1. n \in Nat
      BY <1>1, <1>6, <2>1
    <3> HIDE DEF n
    <3>2. /\ list \in Seq(Nat) /\ DOMAIN list = 1 .. Len(list)
          /\ \A i \in DOMAIN list : /\ i <= n => list[i] = SeqUnseen
                                    /\ i > n => /\ i - n \in DOMAIN v.list
                                                /\ list[i] = v.list[i - n]
          /\ Len(list) = IF n + Len(v.list) > SeqBacktrack THEN SeqBacktrack
                         ELSE n + Len(v.list)
      BY <1>1, <1>6, <3>1, PushList, PushLength
    <3>3. w = [v EXCEPT !.id = k.id, !.list = list]
      BY <2>1 DEF Advance, n
    <3> HIDE DEF list, v
    <3>4. w \in Windows /\ w.list = list /\ w.id = k.id /\ w.time = v.time
      BY <1>1, <1>6, <3>2, <3>3 DEF Windows
    <3> HIDE DEF w
    <3>5. CASE v.list = << >> /\ v.id = base /\ base < k.id /\ v.time = k.time
      <4>1. Len(v.list) = 0 /\ DOMAIN v.list = {}
        BY <3>5, EmptySeq
      <4>2. \A i \in DOMAIN list : list[i] = SeqUnseen
        <5>1. \A i \in DOMAIN list : i <= n \/ i > n
          BY <3>1, <3>2, <4>1, <1>1
        <5> QED
          BY <4>1, <5>1, <3>2
      <4>3. Len(list) = IF k.id > SeqBacktrack THEN SeqBacktrack ELSE k.id
        BY <4>1, <3>2, <3>5, <1>1 DEF n
      <4> QED
        BY <2>1, <3>4, <3>5, <4>2, <4>3 DEF Shown
    <3>6. CASE v = r /\ k.time = r.time
      <4>1. Len(list) = IF k.id > SeqBacktrack THEN SeqBacktrack ELSE k.id
        <5>1. Len(v.list) = IF v.id > SeqBacktrack THEN SeqBacktrack ELSE v.id
          BY <3>6 DEF Explained
        <5> QED
          BY <5>1, <1>1, <1>6, <2>1, <3>2, SMTT(30) DEF n
      <4>2. ASSUME NEW i \in DOMAIN list
            PROVE  Shown(w, list[i], k.id - i + 1)
        <5>1. i \in Nat /\ n \in Nat
          BY <3>1, <3>2, <4>1, <1>1
        <5>2. CASE i <= n
          BY <5>2, <3>2 DEF Shown
        <5>3. CASE i > n
          <6>1. Shown(r, list[i], r.id - (i - n) + 1)
            BY <5>3, <3>2, <3>6 DEF Explained
          <6>2. r.id - (i - n) + 1 = k.id - i + 1
            BY <5>1, <1>1, <3>6 DEF n
          <6>3. w.time = r.time
            BY <3>4, <3>6
          <6> QED
            BY <6>1, <6>2, <6>3 DEF Shown
        <5> QED
          BY <5>1, <5>2, <5>3
      <4> QED
        BY <2>1, <3>4, <3>6, <4>1, <4>2
    <3> QED
      BY <1>5, <3>5, <3>6
  <2>2. CASE ~ (k.id > v.id)
    <3>1. w = v
      BY <2>2 DEF Advance
    <3>2. v = r /\ k.time = r.time
      BY <1>1, <1>5, <2>2
    <3> QED
      BY <1>6, <2>2, <3>1, <3>2 DEF Explained
  <2> QED
    BY <2>1, <2>2
<1> HIDE DEF w
<1>8. /\ w.list \in Seq(Nat) /\ Len(w.list) \in Nat /\ w.id \in Nat
      /\ DOMAIN w.list = 1 .. Len(w.list)
  BY <1>7, LenProperties DEF Windows
<1>9. w.id >= k.id
  BY <1>1, <1>6, <1>7
<1>10. /\ rec'.time = w.time /\ rec'.id = w.id
       /\ Len(rec'.list) = Len(w.list) /\ DOMAIN rec'.list = DOMAIN w.list
       /\ \A i \in DOMAIN w.list : \/ rec'.list[i] = w.list[i]
                                   \/ i = w.id - k.id + 1 /\ rec'.list[i] = now
  <2>1. CASE w.id - k.id < Len(w.list) /\ now > SeqExpired
    <3>1. w.id - k.id + 1 \in 1 .. Len(w.list)
      BY <1>1, <1>8, <1>9, <2>1
    <3> DEFINE list == [w.list EXCEPT ![w.id - k.id + 1] = now]
    <3>2. /\ list \in Seq(Nat) /\ Len(list) = Len(w.list)
          /\ \A j \in 1 .. Len(w.list) :
                list[j] = IF j = w.id - k.id + 1 THEN now ELSE w.list[j]
      BY <1>8, <3>1, ExceptSeq
    <3>3. rec' = [w EXCEPT !.list = list]
      BY <1>4, <2>1, <1>7 DEF Mark, Windows
    <3>4. DOMAIN list = 1 .. Len(w.list)
      BY <3>2, LenProperties
    <3> HIDE DEF list
    <3>5. rec'.list = list /\ rec'.time = w.time /\ rec'.id = w.id
      BY <1>7, <3>3 DEF Windows
    <3> QED
      BY <1>8, <3>2, <3>4, <3>5
  <2>2. CASE ~ (w.id - k.id < Len(w.list) /\ now > SeqExpired)
    BY <1>4, <2>2 DEF Mark
  <2> QED
    BY <2>1, <2>2
<1>11. ASSUME NEW i \in DOMAIN w.list
       PROVE  Shown(rec, rec.list[i], rec.id - i + 1)'
  <2>1. CASE rec'.list[i] = w.list[i]
    <3>1. Shown(w, w.list[i], w.id - i + 1)
      BY <1>7
    <3> QED
      BY <2>1, <3>1, <1>10 DEF Shown
  <2>2. CASE i = w.id - k.id + 1 /\ rec'.list[i] = now
    <3>1. new.id = rec'.id - i + 1 /\ new.time = rec'.time /\ new.at = rec'.list[i]
      <4>1. i \in Int /\ w.id - i + 1 = k.id
        BY <2>2, <1>1, <1>8, SMTT(30)
      <4> QED
        BY <4>1, <2>2, <1>2, <1>7, <1>10
    <3> QED
      BY <3>1, <1>2 DEF Shown
  <2> QED
    BY <2>1, <2>2, <1>10
<1>12. Explained(rec)'
  BY <1>7, <1>10, <1>11 DEF Explained
<1>13. Reached(rec)'
  <2>1. CASE k.id > v.id
    BY <2>1, <1>2, <1>7, <1>10 DEF Reached
  <2>2. CASE ~ (k.id > v.id)
    <3>1. v = r /\ k.time = r.time
      BY <1>1, <1>5, <2>2
    <3>2. r.id # 0
      BY <1>1, <2>2, <3>1
    <3>3. PICK a \in accepted : a.time = r.time /\ a.id = r.id
      BY <3>2 DEF Reached
    <3> QED
      BY <2>2, <3>1, <3>3, <1>2, <1>7, <1>10 DEF Reached
  <2> QED
    BY <2>1, <2>2
<1> QED
  BY <1>12, <1>13

\* Every step but a restart keeps the reasons.
LEMMA ExplainedStep ==
    ASSUME Signals = {}, IInv, ExplainedInv, [Next]_vars
    PROVE  ExplainedInv'
<1> SUFFICES ASSUME SeqBacktrack # 0
             PROVE  Explained(rec)' /\ Reached(rec)'
  BY DEF ExplainedInv
<1>0. Explained(rec) /\ Reached(rec)
  BY DEF ExplainedInv
<1>1. now \in Nat /\ accepted \subseteq [time : Nat, id : 1 .. IdMax, at : Nat]
  BY DEF IInv, TypeOK
<1>2. ASSUME NEW k \in sent, Receive(k)
      PROVE  Explained(rec)' /\ Reached(rec)'
  <2> DEFINE q == Reaped(rec)
  <2>1. k \in StampedPackets /\ now' = now
    BY <1>2 DEF IInv, TypeOK, StampedPackets, Receive
  <2>2. /\ GoodWindow(q) /\ q.time = rec.time /\ q.id = rec.id
        /\ Explained(q) /\ Reached(q)
    BY <1>0, <1>1, ReapedGood, ReapedExplained DEF IInv, Reached
  <2> HIDE DEF q
  <2>3. CASE Accepts(k)
    <3>1. /\ rec' = Add(q, k) /\ Test(q, k)
          /\ accepted' = accepted \union {[time |-> k.time, id |-> k.id, at |-> now]}
      BY <1>2, <2>3 DEF Receive, Accepts, q
    <3> QED
      BY <1>1, <2>1, <2>2, <3>1, AddExplained
  <2>4. CASE ~ Accepts(k)
    <3>1. rec' = q /\ accepted' = accepted
      BY <1>2, <2>4 DEF Receive, q
    <3> QED
      BY <2>1, <2>2, <3>1 DEF Explained, Shown, Reached
  <2> QED
    BY <2>3, <2>4
<1>3. CASE Tick
  <2>1. now' = now + 1 /\ rec' = rec /\ accepted' = accepted
    BY <1>3 DEF Tick
  <2>2. \A a \in accepted : a.at \in Nat
    BY <1>1
  <2>3. TimeBacktrack \in Nat
    BY PacketIdAssumption
  <2>4. \A i \in DOMAIN rec.list : Shown(rec, rec.list[i], rec.id - i + 1)'
    BY <1>0, <1>1, <2>1, <2>2, <2>3 DEF Shown, Explained
  <2> QED
    BY <1>0, <2>1, <2>4 DEF Explained, Reached
<1>4. CASE UNCHANGED <<now, rec, accepted>>
  BY <1>0, <1>4 DEF Explained, Shown, Reached
<1> QED
  BY <1>2, <1>3, <1>4 DEF Next, vars, Send, Flush

\* Without a restart, the window refuses a packet only for what --replay-window
\* says (packet_id_test, packet_id_reap): that it was accepted before, that the
\* stamp moved on, or that an id was accepted that is too far ahead of it, or too
\* long ago.
THEOREM RefusedOnlyLate ==
    ASSUME Signals = {}
    PROVE  Spec => []OnlyLateRefused
<1>1. Init => ExplainedInv
  <2>1. Len(<< >>) = 0 /\ DOMAIN << >> = {}
    BY EmptySeq
  <2> QED
    BY <2>1, PacketIdAssumption DEF Init, ExplainedInv, InitialRec, Explained, Reached
<1>2. IInv /\ ExplainedInv /\ [Next]_vars => ExplainedInv'
  BY ExplainedStep
<1>3. IInv /\ ExplainedInv => OnlyLateRefused
  <2> SUFFICES ASSUME IInv, SeqBacktrack # 0, Explained(rec), Reached(rec),
                      NEW k \in sent, ~ Accepts(k)
               PROVE  \E a \in accepted :
                         \/ a.time > k.time
                         \/ /\ a.time = k.time
                            /\ \/ a.id = k.id
                               \/ a.id - k.id >= SeqBacktrack
                               \/ /\ a.id > k.id
                                  /\ TimeBacktrack # 0
                                  /\ a.at + TimeBacktrack < now
    BY DEF OnlyLateRefused, ExplainedInv
  <2> DEFINE q == Reaped(rec)
  <2>1. /\ k.id \in Nat /\ k.id >= 1 /\ k.time \in Nat /\ now \in Nat
        /\ SeqBacktrack \in Nat
        /\ accepted \subseteq [time : Nat, id : 1 .. IdMax, at : Nat]
    BY PacketIdAssumption, SMTT(30) DEF IInv, TypeOK
  <2>2. /\ GoodWindow(q) /\ q.time = rec.time /\ q.id = rec.id /\ Explained(q) /\ Reached(q)
    BY <2>1, ReapedGood, ReapedExplained DEF IInv, Reached
  <2>3. ~ TestBacktrack(q, k)
    BY <2>1 DEF Accepts, Test
  <2> HIDE DEF q
  <2>4. /\ q.time \in Nat /\ q.id \in Nat /\ Len(q.list) \in Nat
        /\ DOMAIN q.list = 1 .. Len(q.list)
    BY <2>2, LenProperties DEF GoodWindow, Windows
  <2>5. k.time <= q.time /\ (k.time = q.time => k.id <= q.id)
    BY <2>1, <2>3, <2>4 DEF TestBacktrack
  <2>6. PICK a \in accepted : a.time = q.time /\ a.id = q.id
    BY <2>1, <2>2, <2>4, <2>5 DEF Reached
  <2>7. CASE k.time < q.time
    BY <2>6, <2>7, <2>1, <2>4
  <2>8. CASE k.time = q.time /\ q.id - k.id >= Len(q.list)
    <3>1. Len(q.list) = SeqBacktrack
      BY <2>1, <2>2, <2>4, <2>8 DEF Explained
    <3> QED
      BY <2>6, <2>8, <3>1
  <2>9. CASE k.time = q.time /\ q.id - k.id < Len(q.list)
    <3> DEFINE i == q.id - k.id + 1
    <3>1. i \in DOMAIN q.list /\ q.id - i + 1 = k.id
      BY <2>1, <2>4, <2>5, <2>9
    <3>2. q.list[i] # SeqUnseen
      BY <2>1, <2>3, <2>4, <2>9 DEF TestBacktrack
    <3> HIDE DEF i
    <3>3. Shown(q, q.list[i], k.id)
      BY <2>2, <3>1 DEF Explained
    <3> QED
      BY <2>9, <3>2, <3>3 DEF Shown
  <2> QED
    BY <2>1, <2>4, <2>5, <2>7, <2>8, <2>9
<1>4. Spec => []IInv
  BY WindowInvariant
<1> QED
  BY <1>1, <1>2, <1>3, <1>4, PTL DEF Spec

=============================================================================
