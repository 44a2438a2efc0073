--------------------------- MODULE FragmentProofs ---------------------------
(***************************************************************************)
(* The properties of Fragment.tla, for any circle of sequence ids at least *)
(* twice as large as the window of buffers, any number of fragments, sizes *)
(* and times to live.                                                      *)
(*                                                                         *)
(* The argument follows the age of the window's newest datagram, which the *)
(* code never knows.  NetworkAssumption keeps every fragment so near that  *)
(* age, around the circle, that modulo_subtract finds the true distance;   *)
(* so fragment_list_get_buf finds the datagram's own buffer, and a buffer  *)
(* never holds pieces of two datagrams.                                    *)
(***************************************************************************)
EXTENDS Fragment, TLAPS

\* How many datagrams before the window's newest one buffer i is for.
Position(l, i) == (l.index - i) % N_FRAG_BUF

\* The window's newest datagram is h old, and each buffer holds pieces of its
\* own datagram only.
Window(h) ==
    /\ h \in behind .. behind + MaxLate
    /\ list.seq_id = (out.seq_id - h) % N_SEQ_ID
    /\ \A i \in Slots : \A x \in list.fragments[i].pieces : x.age = h + Position(list, i)

\* Where the window's newest datagram is after f was put into its buffer.
NewHead(h, f) == IF f.age < h \/ f.age - h >= N_FRAG_BUF THEN f.age ELSE h

\* The buffer is the one for f's datagram, and the others keep their datagrams,
\* except those that fall out of the window.
Finds(place, h, f) ==
    LET g == NewHead(h, f) IN
    /\ place.list \in Lists /\ place.slot \in Slots
    /\ place.list.seq_id = (out.seq_id - g) % N_SEQ_ID
    /\ g + Position(place.list, place.slot) = f.age
    /\ \A i \in Slots :
          \/ /\ place.list.fragments[i] = Undefined
             /\ f.age - h < N_FRAG_BUF => h + Position(list, i) - g >= N_FRAG_BUF
          \/ /\ place.list.fragments[i] = list.fragments[i]
             /\ g + Position(place.list, i) = h + Position(list, i)

\* What is on its way is a fragment of a recent datagram, under its id.
Arriving ==
    \A f \in net :
        /\ f.seq_id = (out.seq_id - f.age) % N_SEQ_ID
        /\ f.id < f.of /\ (f.last <=> f.id = f.of - 1)
        /\ f.of = recent[f.age].of

\* The datagram being sent is the newest one.
Sending == OutgoingDefined(out) => out.size \in Sizes /\ out.of = recent[0].of

\* Piece x accounts for bit b of the map: the last piece for all from its own on.
Covers(x, b) == x.id = b \/ (x.id = x.of - 1 /\ x.id <= b)

\* A buffer's pieces are of one datagram, and account for its map.
Whole(frag, r) ==
    /\ \A x \in frag.pieces : x.id < x.of /\ (x.age <= MaxLate => x.of = r[x.age].of)
    /\ \A x, y \in frag.pieces : x.of = y.of
    /\ \A b \in frag.map : \E x \in frag.pieces : Covers(x, b)

WholeInv == \A i \in Slots : Whole(list.fragments[i], recent)

\* The inductive invariant.
IInv ==
    /\ TypeOK
    /\ Arriving
    /\ Sending
    /\ WholeInv
    /\ \E h \in Nat : Window(h)
    /\ JoinsOneDatagram

-----------------------------------------------------------------------------
LEMMA Constants_ ==
    /\ N_FRAG_BUF \in Nat \ {0} /\ N_SEQ_ID \in Nat \ {0} /\ N_SEQ_ID >= 2 * N_FRAG_BUF
    /\ MaxLate \in Nat /\ MaxBurst \in Nat \ {0} /\ MaxLate + MaxBurst <= N_SEQ_ID - N_FRAG_BUF
    /\ MAX_FRAGS \in Nat /\ MAX_FRAGS >= 2
    /\ FRAG_TTL_SEC \in Nat \ {0} /\ FRAG_WAKEUP_INTERVAL \in Nat \ {0}
    /\ Counts \subseteq 2..MAX_FRAGS
BY WindowAssumption, NetworkAssumption, TimeAssumption, BoundAssumption

(* Remainders of what is at most one round away.                           *)
LEMMA ModSeq ==
    \A a \in Int : -N_SEQ_ID <= a /\ a < 2 * N_SEQ_ID =>
        a % N_SEQ_ID = IF a < 0 THEN a + N_SEQ_ID ELSE IF a >= N_SEQ_ID THEN a - N_SEQ_ID ELSE a
<1> TAKE a \in Int
<1>1. CASE a < 0 BY <1>1, Constants_
<1>2. CASE 0 <= a /\ a < N_SEQ_ID BY <1>2, Constants_
<1>3. CASE N_SEQ_ID <= a BY <1>3, Constants_
<1>4. QED BY <1>1, <1>2, <1>3, Constants_

LEMMA ModBuf ==
    \A x \in Slots, d \in -(N_FRAG_BUF - 1) .. N_FRAG_BUF :
        /\ (x + d) % N_FRAG_BUF \in Slots
        /\ (x + d) % N_FRAG_BUF = IF x + d < 0 THEN x + d + N_FRAG_BUF
                                  ELSE IF x + d >= N_FRAG_BUF THEN x + d - N_FRAG_BUF
                                  ELSE x + d
<1> TAKE x \in Slots, d \in -(N_FRAG_BUF - 1) .. N_FRAG_BUF
<1> USE Constants_ DEF Slots
<1>1. CASE x + d < 0 BY <1>1
<1>2. CASE 0 <= x + d /\ x + d < N_FRAG_BUF BY <1>2
<1>3. CASE N_FRAG_BUF <= x + d BY <1>3
<1>4. QED BY <1>1, <1>2, <1>3

(* Around the circle of ids, a distance that the network allows is found.  *)
LEMMA ModuloSubtractFinds ==
    ASSUME NEW x \in 0 .. N_SEQ_ID - 1, NEW y \in 0 .. N_SEQ_ID - 1, NEW d \in Int,
           x - y \in {d, d + N_SEQ_ID, d - N_SEQ_ID},
           d <= N_SEQ_ID - N_FRAG_BUF, -d <= N_SEQ_ID - N_FRAG_BUF
    PROVE  /\ ModuloSubtract(x, y) \in Int
           /\ -N_FRAG_BUF < d /\ d < N_FRAG_BUF =>
                  ModuloSubtract(x, y) = d /\ ~Outside(ModuloSubtract(x, y))
           /\ ~(-N_FRAG_BUF < d /\ d < N_FRAG_BUF) => Outside(ModuloSubtract(x, y))
BY Constants_ DEF ModuloSubtract, Outside, Abs

(* Two ages less than N_SEQ_ID: the ids are as far apart as the ages.      *)
LEMMA IdsApart ==
    ASSUME NEW c \in 0 .. N_SEQ_ID - 1, NEW a \in 0 .. N_SEQ_ID - 1, NEW b \in 0 .. N_SEQ_ID - 1
    PROVE  /\ (c - a) % N_SEQ_ID \in 0 .. N_SEQ_ID - 1
           /\ ((c - a) % N_SEQ_ID) - ((c - b) % N_SEQ_ID) \in {b - a, b - a + N_SEQ_ID, b - a - N_SEQ_ID}
BY ModSeq, Constants_, SMTT(30)

LEMMA SameAge ==
    ASSUME NEW c \in 0 .. N_SEQ_ID - 1, NEW a \in 0 .. N_SEQ_ID - 1, NEW b \in 0 .. N_SEQ_ID - 1,
           (c - a) % N_SEQ_ID = (c - b) % N_SEQ_ID
    PROVE  a = b
BY ModSeq, Constants_

LEMMA UndefinedFragment == Undefined \in Fragments
BY Constants_ DEF Undefined, Fragments

LEMMA PositionIs ==
    ASSUME NEW l \in Lists, NEW i \in Slots
    PROVE  /\ Position(l, i) \in Slots
           /\ Position(l, i) = IF l.index - i < 0 THEN l.index - i + N_FRAG_BUF ELSE l.index - i
<1>1. l.index \in Slots
  BY DEF Lists
<1>2. \A x \in Slots : (x - i) % N_FRAG_BUF = IF x - i < 0 THEN x - i + N_FRAG_BUF ELSE x - i
  <2> TAKE x \in Slots
  <2> USE Constants_ DEF Slots
  <2>1. CASE x - i < 0 BY <2>1
  <2>2. CASE x - i >= 0 BY <2>2
  <2>3. QED BY <2>1, <2>2
<1>3. Position(l, i) = IF l.index - i < 0 THEN l.index - i + N_FRAG_BUF ELSE l.index - i
  BY <1>1, <1>2 DEF Position
<1>4. QED
  BY <1>1, <1>3, Constants_ DEF Slots

(* The window moves forward.                                               *)
LEMMA AdvanceKeeps ==
    ASSUME NEW l \in Lists, NEW diff \in 1 .. N_FRAG_BUF - 1
    PROVE  LET a == Advanced(l, diff) IN
           /\ a \in Lists
           /\ Position(a, a.index) = 0
           /\ \A i \in Slots :
                 \/ /\ a.fragments[i] = Undefined
                    /\ Position(l, i) + diff >= N_FRAG_BUF
                 \/ /\ a.fragments[i] = l.fragments[i]
                    /\ Position(a, i) = Position(l, i) + diff
<1> DEFINE a == Advanced(l, diff)
           again == {(l.index + k) % N_FRAG_BUF : k \in 1..diff}
<1>1. /\ l.index \in Slots /\ l.seq_id \in 0 .. N_SEQ_ID - 1
      /\ l.fragments \in [Slots -> Fragments]
  BY DEF Lists
<1>2. /\ a.index = (l.index + diff) % N_FRAG_BUF
      /\ a.seq_id = (l.seq_id + diff) % N_SEQ_ID
      /\ a.fragments = [i \in Slots |-> IF i \in again THEN Undefined ELSE l.fragments[i]]
      /\ a = [seq_id |-> a.seq_id, index |-> a.index, fragments |-> a.fragments]
  BY DEF Advanced, Moved
<1>3. a.index \in Slots
  <2>1. diff \in -(N_FRAG_BUF - 1) .. N_FRAG_BUF
    BY Constants_
  <2>2. QED
    BY <2>1, <1>1, <1>2, ModBuf
<1>4. a.seq_id \in 0 .. N_SEQ_ID - 1
  BY <1>1, <1>2, Constants_
<1>5. a.fragments \in [Slots -> Fragments]
  BY <1>1, <1>2, UndefinedFragment
<1>6. a \in Lists
  BY <1>2, <1>3, <1>4, <1>5 DEF Lists
<1>7. Position(a, a.index) = 0
  BY <1>3, <1>6, PositionIs DEF Slots
<1>8. ASSUME NEW i \in Slots
      PROVE  \/ /\ a.fragments[i] = Undefined
                /\ Position(l, i) + diff >= N_FRAG_BUF
             \/ /\ a.fragments[i] = l.fragments[i]
                /\ Position(a, i) = Position(l, i) + diff
  <2>1. a.index = IF l.index + diff >= N_FRAG_BUF THEN l.index + diff - N_FRAG_BUF
                  ELSE l.index + diff
    <3>1. diff \in -(N_FRAG_BUF - 1) .. N_FRAG_BUF
      BY Constants_
    <3>2. a.index = IF l.index + diff < 0 THEN l.index + diff + N_FRAG_BUF
                    ELSE IF l.index + diff >= N_FRAG_BUF THEN l.index + diff - N_FRAG_BUF
                    ELSE l.index + diff
      BY <3>1, <1>1, <1>2, ModBuf
    <3>3. QED
      BY <3>2, <1>1, Constants_, SMTT(30) DEF Slots
  <2>2. Position(l, i) = IF l.index - i < 0 THEN l.index - i + N_FRAG_BUF ELSE l.index - i
    BY PositionIs
  <2>3. Position(a, i) = IF a.index - i < 0 THEN a.index - i + N_FRAG_BUF ELSE a.index - i
    BY PositionIs, <1>6
  <2>4. CASE Position(l, i) + diff >= N_FRAG_BUF
    <3> DEFINE k == N_FRAG_BUF - Position(l, i)
    <3>1. k \in 1..diff
      BY <2>4, PositionIs, Constants_ DEF Slots
    <3>2. (l.index + k) % N_FRAG_BUF = i
      <4>1. l.index + k = IF l.index - i < 0 THEN i ELSE i + N_FRAG_BUF
        BY <2>2, <1>1, Constants_ DEF Slots
      <4>2. k \in -(N_FRAG_BUF - 1) .. N_FRAG_BUF
        BY <3>1, Constants_
      <4>3. (l.index + k) % N_FRAG_BUF = IF l.index + k < 0 THEN l.index + k + N_FRAG_BUF
                    ELSE IF l.index + k >= N_FRAG_BUF THEN l.index + k - N_FRAG_BUF
                    ELSE l.index + k
        <5> HIDE DEF k
        <5> QED BY <4>2, <1>1, ModBuf
      <4>4. QED
        BY <4>1, <4>3, Constants_ DEF Slots
    <3>3. i \in again
      BY <3>1, <3>2
    <3>4. QED
      BY <3>3, <1>2, <2>4
  <2>5. CASE Position(l, i) + diff < N_FRAG_BUF
    <3>1. ASSUME NEW k \in 1..diff
          PROVE  (l.index + k) % N_FRAG_BUF # i
      <4> DEFINE s == (l.index + k) % N_FRAG_BUF
      <4>0. k \in -(N_FRAG_BUF - 1) .. N_FRAG_BUF
        BY Constants_
      <4>1. s = IF l.index + k < 0 THEN l.index + k + N_FRAG_BUF
                ELSE IF l.index + k >= N_FRAG_BUF THEN l.index + k - N_FRAG_BUF
                ELSE l.index + k
        BY <4>0, <1>1, ModBuf
      <4>2. s \in Slots
        BY <4>0, <1>1, ModBuf
      <4>3. Position(l, i) \in Slots
        BY PositionIs
      <4>4. /\ k \in Int /\ 1 <= k /\ k <= diff /\ diff \in Int /\ N_FRAG_BUF \in Int
            /\ l.index \in Int /\ 0 <= l.index /\ l.index < N_FRAG_BUF
            /\ i \in Int /\ 0 <= i /\ i < N_FRAG_BUF
        BY <1>1, Constants_ DEF Slots
      <4>5. CASE l.index - i < 0
        BY <4>1, <4>4, <4>5, <2>2, <2>5
      <4>6. CASE l.index - i >= 0
        BY <4>1, <4>4, <4>6, <2>2, <2>5
      <4>7. QED
        BY <4>4, <4>5, <4>6
    <3>2. i \notin again
      BY <3>1
    <3>3. Position(a, i) = Position(l, i) + diff
      BY <2>1, <2>2, <2>3, <2>5, <1>1, Constants_ DEF Slots
    <3>4. QED
      BY <3>2, <3>3, <1>2
  <2>6. QED
    BY <2>4, <2>5, PositionIs, Constants_ DEF Slots
<1>9. QED
  BY <1>6, <1>7, <1>8

(* A buffer inside the window.                                             *)
LEMMA BehindIsFound ==
    ASSUME NEW l \in Lists, NEW diff \in -(N_FRAG_BUF - 1) .. 0
    PROVE  LET slot == (l.index + diff) % N_FRAG_BUF
           IN slot \in Slots /\ Position(l, slot) = -diff
<1> DEFINE slot == (l.index + diff) % N_FRAG_BUF
<1>1. l.index \in Slots
  BY DEF Lists
<1>2. diff \in -(N_FRAG_BUF - 1) .. N_FRAG_BUF
  BY Constants_
<1>3. /\ slot \in Slots
      /\ slot = IF l.index + diff < 0 THEN l.index + diff + N_FRAG_BUF
                ELSE IF l.index + diff >= N_FRAG_BUF THEN l.index + diff - N_FRAG_BUF
                ELSE l.index + diff
  BY <1>1, <1>2, ModBuf
<1>4. Position(l, slot) = -diff
  <2> HIDE DEF slot
  <2>1. Position(l, slot) = IF l.index - slot < 0 THEN l.index - slot + N_FRAG_BUF ELSE l.index - slot
    BY <1>3, PositionIs
  <2>2. QED
    BY <2>1, <1>1, <1>2, <1>3, Constants_ DEF Slots
<1>5. QED
  BY <1>3, <1>4

(* fragment_list_get_buf finds the buffer of f's datagram.                 *)
LEMMA GetBufFinds ==
    ASSUME TypeOK, NEW h, Window(h), NEW f \in net,
           f.seq_id = (out.seq_id - f.age) % N_SEQ_ID
    PROVE  Finds(GetBuf(list, f.seq_id), h, f)
<1> DEFINE d == h - f.age
           diff == ModuloSubtract(f.seq_id, list.seq_id)
           place == GetBuf(list, f.seq_id)
           g == NewHead(h, f)
<1>1. /\ list \in Lists /\ list.seq_id \in 0 .. N_SEQ_ID - 1 /\ out.seq_id \in 0 .. N_SEQ_ID - 1
      /\ f.seq_id \in 0 .. N_SEQ_ID - 1
      /\ f.age \in Nat /\ f.age <= MaxLate /\ behind \in 0..MaxBurst
  BY DEF TypeOK, Lists, Packets
<1>2. /\ h \in Nat /\ h <= MaxBurst + MaxLate
      /\ list.seq_id = (out.seq_id - h) % N_SEQ_ID
  BY <1>1, Constants_ DEF Window
<1>3. d \in Int /\ d <= N_SEQ_ID - N_FRAG_BUF /\ -d <= N_SEQ_ID - N_FRAG_BUF
  BY <1>1, <1>2, Constants_
<1>4. f.seq_id - list.seq_id \in {d, d + N_SEQ_ID, d - N_SEQ_ID}
  <2>1. h \in 0 .. N_SEQ_ID - 1 /\ f.age \in 0 .. N_SEQ_ID - 1
    BY <1>1, <1>2, Constants_
  <2>2. ((out.seq_id - f.age) % N_SEQ_ID) - ((out.seq_id - h) % N_SEQ_ID)
            \in {h - f.age, h - f.age + N_SEQ_ID, h - f.age - N_SEQ_ID}
    BY <2>1, <1>1, IdsApart
  <2>3. f.seq_id - list.seq_id = ((out.seq_id - f.age) % N_SEQ_ID) - ((out.seq_id - h) % N_SEQ_ID)
    <3>1. f.seq_id = (out.seq_id - f.age) % N_SEQ_ID /\ list.seq_id = (out.seq_id - h) % N_SEQ_ID
      BY <1>2
    <3>2. QED
      BY ONLY <3>1
  <2>4. QED
    BY ONLY <2>2, <2>3
<1>5. /\ -N_FRAG_BUF < d /\ d < N_FRAG_BUF => diff = d /\ ~Outside(diff)
      /\ ~(-N_FRAG_BUF < d /\ d < N_FRAG_BUF) => Outside(diff)
  <2> HIDE DEF d
  <2> QED BY <1>1, <1>3, <1>4, ModuloSubtractFinds
<1>6. CASE ~(-N_FRAG_BUF < d /\ d < N_FRAG_BUF)
  <2> DEFINE l == [seq_id |-> f.seq_id, index |-> 0, fragments |-> [i \in Slots |-> Undefined]]
  <2>1. place = [list |-> l, slot |-> 0]
    BY <1>5, <1>6 DEF GetBuf
  <2>2. 0 \in Slots /\ l \in Lists
    BY <1>1, UndefinedFragment, Constants_ DEF Slots, Lists
  <2>3. g = f.age
    BY <1>1, <1>2, <1>6, Constants_ DEF NewHead
  <2>4. Position(l, 0) = 0
    <3>1. Position(l, 0) = IF l.index - 0 < 0 THEN l.index - 0 + N_FRAG_BUF ELSE l.index - 0
      BY <2>2, PositionIs
    <3>2. QED
      BY <3>1
  <2>5. ASSUME NEW i \in Slots, f.age - h < N_FRAG_BUF
        PROVE  h + Position(list, i) - g >= N_FRAG_BUF
    <3>1. Position(list, i) \in Slots
      BY <1>1, PositionIs
    <3>2. QED
      BY <3>1, <2>3, <2>5, <1>1, <1>2, <1>6, Constants_ DEF Slots
  <2>6. QED
    BY <2>1, <2>2, <2>3, <2>4, <2>5, <1>1 DEF Finds
<1>7. CASE 0 < d /\ d < N_FRAG_BUF
  <2> DEFINE a == Advanced(list, d)
  <2>1. d \in 1 .. N_FRAG_BUF - 1
    BY <1>3, <1>7, Constants_
  <2>2. place = [list |-> a, slot |-> a.index]
    BY <1>3, <1>5, <1>7, Constants_ DEF GetBuf
  <2>3. g = f.age
    BY <1>1, <1>2, <1>7 DEF NewHead
  <2>4. /\ a \in Lists
        /\ Position(a, a.index) = 0
        /\ \A i \in Slots :
              \/ /\ a.fragments[i] = Undefined
                 /\ Position(list, i) + d >= N_FRAG_BUF
              \/ /\ a.fragments[i] = list.fragments[i]
                 /\ Position(a, i) = Position(list, i) + d
    BY <2>1, <1>1, AdvanceKeeps
  <2>5. a.index \in Slots
    BY <2>4 DEF Lists
  <2>6. a.seq_id = f.seq_id
    <3>1. a.seq_id = (list.seq_id + d) % N_SEQ_ID
      BY DEF Advanced
    <3>2. list.seq_id + d \in {f.seq_id, f.seq_id + N_SEQ_ID, f.seq_id - N_SEQ_ID}
      <4>1. f.seq_id \in Int /\ list.seq_id \in Int /\ d \in Int /\ N_SEQ_ID \in Int
        BY <1>1, <1>3, Constants_
      <4> HIDE DEF d
      <4>2. QED
        BY ONLY <4>1, <1>4
    <3>3. (list.seq_id + d) % N_SEQ_ID = f.seq_id
      <4> DEFINE s == list.seq_id + d
      <4>1. s \in Int /\ -N_SEQ_ID <= s /\ s < 2 * N_SEQ_ID
        BY <3>2, <1>1, Constants_
      <4>2. s % N_SEQ_ID = IF s < 0 THEN s + N_SEQ_ID ELSE IF s >= N_SEQ_ID THEN s - N_SEQ_ID ELSE s
        <5> HIDE DEF s
        <5> QED BY <4>1, ModSeq
      <4>3. QED
        BY <4>2, <3>2, <1>1, Constants_
    <3>4. QED
      BY <3>1, <3>3
  <2>7. ASSUME NEW i \in Slots
        PROVE  \/ /\ a.fragments[i] = Undefined
                  /\ h + Position(list, i) - g >= N_FRAG_BUF
               \/ /\ a.fragments[i] = list.fragments[i]
                  /\ g + Position(a, i) = h + Position(list, i)
    <3>1. Position(list, i) \in Int /\ Position(a, i) \in Int
      BY <1>1, <2>4, PositionIs, Constants_ DEF Slots
    <3>2. QED
      BY <3>1, <2>3, <2>4, <1>1, <1>2, Constants_
  <2>8. g + Position(a, a.index) = f.age
    BY <2>3, <2>4, <1>1
  <2>9. QED
    <3> HIDE DEF a, g
    <3> QED BY <2>2, <2>3, <2>4, <2>5, <2>6, <2>7, <2>8, <1>1 DEF Finds, g
<1>8. CASE -N_FRAG_BUF < d /\ d <= 0
  <2> DEFINE slot == (list.index + d) % N_FRAG_BUF
  <2>1. d \in -(N_FRAG_BUF - 1) .. 0
    BY <1>3, <1>8, Constants_
  <2>2. place = [list |-> list, slot |-> slot]
    BY <1>3, <1>5, <1>8, Constants_ DEF GetBuf
  <2>3. g = h
    BY <1>1, <1>2, <1>8, Constants_ DEF NewHead
  <2>4. slot \in Slots /\ Position(list, slot) = -d
    <3> HIDE DEF d
    <3> QED BY <2>1, <1>1, BehindIsFound
  <2>5. g + Position(list, slot) = f.age
    BY <2>3, <2>4, <1>1, <1>2
  <2>6. QED
    <3> HIDE DEF slot, g
    <3> QED BY <2>2, <2>3, <2>4, <2>5, <1>1, <1>2 DEF Finds, g
<1>9. QED
  BY <1>3, <1>6, <1>7, <1>8, Constants_

-----------------------------------------------------------------------------
LEMMA InitIInv == Init => IInv
<1> SUFFICES ASSUME Init PROVE IInv
  OBVIOUS
<1> USE Constants_ DEF Init
<1>1. TypeOK
  <2>1. list \in Lists
    BY UndefinedFragment DEF Slots, Lists
  <2>2. \A i \in Slots : ~Full(list.fragments[i])
    <3>1. 0 \in Bits
      BY DEF Bits
    <3>2. QED
      BY <3>1 DEF Full, Undefined
  <2>3. recent \in [0..MaxLate -> Datagrams]
    BY DEF Datagrams
  <2>4. QED
    BY <2>1, <2>2, <2>3 DEF TypeOK
<1>2. Arriving /\ Sending /\ JoinsOneDatagram
  BY DEF Arriving, Sending, OutgoingDefined, JoinsOneDatagram
<1>3. WholeInv
  BY DEF WholeInv, Whole, Undefined
<1>4. Window(0)
  <2>1. (0 - 0) % N_SEQ_ID = 0
    OBVIOUS
  <2>2. \A i \in Slots : list.fragments[i].pieces = {}
    BY DEF Undefined
  <2>3. QED
    BY <2>1, <2>2 DEF Window
<1>5. QED
  BY <1>1, <1>2, <1>3, <1>4 DEF IInv

(* The next datagram has the next id, and the others are one older.        *)
LEMMA OneOlder ==
    ASSUME NEW c \in 0 .. N_SEQ_ID - 1, NEW a \in 0 .. N_SEQ_ID - 1
    PROVE  /\ NextSeqId(c) \in 0 .. N_SEQ_ID - 1
           /\ (NextSeqId(c) - 0) % N_SEQ_ID = NextSeqId(c)
           /\ (NextSeqId(c) - (a + 1)) % N_SEQ_ID = (c - a) % N_SEQ_ID
<1> DEFINE n == NextSeqId(c)
           u == n - (a + 1)
           v == c - a
<1>1. n = IF c + 1 = N_SEQ_ID THEN 0 ELSE c + 1
  <2> DEFINE s == c + 1
  <2>1. s \in Int /\ -N_SEQ_ID <= s /\ s < 2 * N_SEQ_ID
    BY Constants_
  <2>2. s % N_SEQ_ID = IF s < 0 THEN s + N_SEQ_ID ELSE IF s >= N_SEQ_ID THEN s - N_SEQ_ID ELSE s
    <3> HIDE DEF s
    <3> QED BY <2>1, ModSeq
  <2>3. QED
    BY <2>2, Constants_ DEF NextSeqId
<1>2. n \in 0 .. N_SEQ_ID - 1
  BY <1>1, Constants_
<1>3. u % N_SEQ_ID = IF u < 0 THEN u + N_SEQ_ID ELSE u
  <2>1. u \in Int /\ -N_SEQ_ID <= u /\ u < N_SEQ_ID
    BY <1>2, Constants_
  <2> HIDE DEF u
  <2>2. QED
    BY <2>1, ModSeq, Constants_
<1>4. v % N_SEQ_ID = IF v < 0 THEN v + N_SEQ_ID ELSE v
  <2>1. v \in Int /\ -N_SEQ_ID <= v /\ v < N_SEQ_ID
    BY Constants_
  <2> HIDE DEF v
  <2>2. QED
    BY <2>1, ModSeq, Constants_
<1>5. u % N_SEQ_ID = v % N_SEQ_ID
  BY <1>1, <1>3, <1>4, Constants_
<1>6. (n - 0) % N_SEQ_ID = n
  BY <1>2, ModSeq, Constants_
<1>7. QED
  BY <1>2, <1>5, <1>6

(* What f's buffer holds after f was copied to it.                         *)
LEMMA CopiedWhole ==
    ASSUME TypeOK, Arriving, NEW f \in net, NEW base \in Fragments, Whole(base, recent),
           \A x \in base.pieces : x.age = f.age
    PROVE  LET frag == Copied(base, f) IN
           /\ frag \in Fragments
           /\ Whole(frag, recent)
           /\ \A x \in frag.pieces : x.age = f.age /\ x.of = f.of
<1> DEFINE frag == Copied(base, f)
           new == [id |-> f.id, age |-> f.age, of |-> f.of]
<1>1. /\ f \in Packets /\ f.of = recent[f.age].of /\ f.id < f.of
      /\ f.last <=> f.id = f.of - 1
  BY DEF TypeOK, Arriving
<1>2. /\ f.id \in Bits /\ f.age \in 0..MaxLate /\ f.of \in 2..MAX_FRAGS
  BY <1>1 DEF Packets
<1>3. new \in Pieces
  BY <1>2, Constants_ DEF Pieces
<1>4. Marks(f) \subseteq Bits
  BY <1>2, Constants_ DEF Marks, Bits
<1>5. /\ base.map \subseteq Bits /\ base.pieces \subseteq Pieces
      /\ frag.map = base.map \union Marks(f)
      /\ frag.pieces = {x \in base.pieces : x.id # f.id} \union {new}
      /\ frag = [base EXCEPT !.map = frag.map, !.pieces = frag.pieces, !.ttl = FRAG_TTL_SEC]
  BY DEF Fragments, Copied
<1>6. new.id = f.id /\ new.age = f.age /\ new.of = f.of
  OBVIOUS
<1> HIDE DEF frag, new
<1>7. frag \in Fragments
  <2>1. frag.map \subseteq Bits
    BY <1>4, <1>5
  <2>2. frag.pieces \subseteq Pieces
    BY <1>3, <1>5
  <2>3. FRAG_TTL_SEC \in 0..FRAG_TTL_SEC
    BY Constants_
  <2>4. QED
    BY <2>1, <2>2, <2>3, <1>5 DEF Fragments
<1>8. \A x \in base.pieces : x.of = f.of
  BY <1>1, <1>2, Constants_ DEF Whole
<1>9. \A x \in frag.pieces : x.age = f.age /\ x.of = f.of
  BY <1>5, <1>6, <1>8
<1>10. \A x \in frag.pieces : x.id < x.of /\ (x.age <= MaxLate => x.of = recent[x.age].of)
  BY <1>1, <1>5, <1>6, <1>9 DEF Whole
<1>11. ASSUME NEW b \in frag.map
       PROVE  \E x \in frag.pieces : Covers(x, b)
  <2>1. new \in frag.pieces
    BY <1>5
  <2>2. CASE b \in Marks(f)
    BY <2>1, <2>2, <1>1, <1>2, <1>6, Constants_ DEF Marks, Covers, Bits
  <2>3. CASE b \in base.map
    <3>1. PICK x \in base.pieces : Covers(x, b)
      BY <2>3 DEF Whole
    <3>2. CASE x.id = f.id
      BY <3>1, <3>2, <2>1, <1>6, <1>8 DEF Covers
    <3>3. CASE x.id # f.id
      BY <3>1, <3>3, <1>5
    <3>4. QED
      BY <3>2, <3>3
  <2>4. QED
    BY <2>2, <2>3, <1>5
<1>12. Whole(frag, recent)
  BY <1>9, <1>10, <1>11 DEF Whole
<1>13. QED
  BY <1>7, <1>9, <1>12 DEF frag

(* A full buffer holds all the fragments of one datagram.                  *)
LEMMA FullIsWhole ==
    ASSUME NEW frag \in Fragments, NEW r, Whole(frag, r), Full(frag)
    PROVE  \A x \in frag.pieces : {z.id : z \in frag.pieces} = 0 .. x.of - 1
<1> SUFFICES ASSUME NEW x \in frag.pieces
             PROVE  {z.id : z \in frag.pieces} = 0 .. x.of - 1
  OBVIOUS
<1>1. frag.pieces \subseteq Pieces
  BY DEF Fragments
<1>2. x.of \in 2..MAX_FRAGS
  BY <1>1 DEF Pieces
<1>3. ASSUME NEW z \in frag.pieces
      PROVE  z.id \in 0 .. x.of - 1
  BY <1>1, <1>2, <1>3, Constants_ DEF Whole, Pieces, Bits
<1>4. ASSUME NEW b \in 0 .. x.of - 1
      PROVE  \E z \in frag.pieces : z.id = b
  <2>1. b \in frag.map
    BY <1>2, Constants_ DEF Full, Bits
  <2>2. PICK z \in frag.pieces : Covers(z, b)
    BY <2>1 DEF Whole
  <2>3. z.of = x.of /\ z.id \in Int
    BY <1>1, Constants_ DEF Whole, Pieces, Bits
  <2>4. z.id = b
    BY <2>2, <2>3, <1>2, Constants_ DEF Covers
  <2>5. QED
    BY <2>4
<1>5. QED
  BY <1>3, <1>4

-----------------------------------------------------------------------------
(* A new datagram: the ages of all the others grow by one.                 *)
LEMMA OutgoingStep == IInv /\ Outgoing => IInv'
<1> SUFFICES ASSUME IInv, Outgoing PROVE IInv'
  OBVIOUS
<1>1. TypeOK /\ Arriving /\ WholeInv
  BY DEF IInv
<1>2. PICK h \in Nat : Window(h)
  BY DEF IInv
<1>3. PICK of \in Counts, size \in Sizes :
          LET o == [seq_id |-> NextSeqId(out.seq_id), size |-> size, frag_id |-> 0, of |-> of] IN
          /\ net' = {f \in Older(net) : f.age <= MaxLate} \union {Fragment(o)}
          /\ out' = [o EXCEPT !.frag_id = @ + 1]
          /\ recent' = [age \in 0..MaxLate |->
                IF age = 0 THEN [of |-> of, got |-> {}, fate |-> "open"] ELSE recent[age - 1]]
  BY DEF Outgoing, Send
<1>4. /\ behind' = behind + 1 /\ behind < MaxBurst /\ wakeup' = wakeup /\ joined' = {}
      /\ list' = [list EXCEPT !.fragments =
                     [i \in Slots |-> [list.fragments[i] EXCEPT !.pieces = Older(@)]]]
  BY DEF Outgoing
<1> DEFINE n == NextSeqId(out.seq_id)
           new == [seq_id |-> n, id |-> 0, last |-> 0 = of - 1, size |-> size, of |-> of, age |-> 0]
<1>5. /\ out.seq_id \in 0 .. N_SEQ_ID - 1 /\ list \in Lists /\ net \subseteq Packets
      /\ behind \in 0..MaxBurst /\ recent \in [0..MaxLate -> Datagrams]
      /\ of \in 2..MAX_FRAGS
  BY <1>1, Constants_ DEF TypeOK
<1>6. /\ n \in 0 .. N_SEQ_ID - 1
      /\ (n - 0) % N_SEQ_ID = n
      /\ \A a \in 0 .. N_SEQ_ID - 1 : (n - (a + 1)) % N_SEQ_ID = (out.seq_id - a) % N_SEQ_ID
  BY <1>5, OneOlder
<1>7. /\ out' = [seq_id |-> n, size |-> size, frag_id |-> 1, of |-> of]
      /\ net' = {f \in Older(net) : f.age <= MaxLate} \union {new}
  BY <1>3 DEF Fragment
<1> HIDE DEF n
<1>8. new \in Packets
  BY <1>5, <1>6, Constants_ DEF Packets, Bits
<1>9. ASSUME NEW f \in Older(net)
      PROVE  \E e \in net : f = [e EXCEPT !.age = @ + 1]
  BY DEF Older
<1>10. ASSUME NEW e \in net, e.age + 1 <= MaxLate
       PROVE  /\ [e EXCEPT !.age = @ + 1] \in Packets
              /\ [e EXCEPT !.age = @ + 1].age = e.age + 1
              /\ [e EXCEPT !.age = @ + 1].seq_id = e.seq_id
              /\ [e EXCEPT !.age = @ + 1].id = e.id
              /\ [e EXCEPT !.age = @ + 1].last = e.last
              /\ [e EXCEPT !.age = @ + 1].of = e.of
  <2>1. e \in Packets
    BY <1>5
  <2>2. e.age + 1 \in 0..MaxLate
    BY <2>1, <1>10, Constants_ DEF Packets
  <2>3. QED
    BY <2>1, <2>2 DEF Packets
<1>11. ASSUME NEW f \in net'
       PROVE  \/ f = new
              \/ \E e \in net : /\ f \in Packets
                                /\ f.age = e.age + 1 /\ f.age <= MaxLate /\ e.age \in 0..MaxLate
                                /\ f.seq_id = e.seq_id /\ f.id = e.id
                                /\ f.last = e.last /\ f.of = e.of
  <2>1. CASE f = new
    BY <2>1
  <2>2. CASE f \in Older(net) /\ f.age <= MaxLate
    <3>1. PICK e \in net : f = [e EXCEPT !.age = @ + 1]
      BY <2>2, <1>9
    <3>2. e \in Packets /\ e.age \in 0..MaxLate
      BY <1>5 DEF Packets
    <3>3. [e EXCEPT !.age = @ + 1].age = e.age + 1
      BY <3>2 DEF Packets
    <3>4. QED
      BY <3>1, <3>2, <3>3, <2>2, <1>10
  <2>3. QED
    BY <2>1, <2>2, <1>7
<1> DEFINE frags == [i \in Slots |-> [list.fragments[i] EXCEPT !.pieces = Older(@)]]
<1>12. list' = [seq_id |-> list.seq_id, index |-> list.index, fragments |-> frags]
  BY <1>4, <1>5 DEF Lists
<1>13. ASSUME NEW i \in Slots
       PROVE  /\ frags[i] \in Fragments
              /\ frags[i].map = list.fragments[i].map
              /\ frags[i].pieces = Older(list.fragments[i].pieces)
  <2>1. list.fragments[i] \in Fragments
    BY <1>5 DEF Lists
  <2>2. Older(list.fragments[i].pieces) \subseteq Pieces
    BY <2>1 DEF Fragments, Pieces, Older
  <2>3. QED
    BY <2>1, <2>2 DEF Fragments
<1>14. ASSUME NEW i \in Slots, NEW x \in frags[i].pieces
       PROVE  \E y \in list.fragments[i].pieces :
                  x.age = y.age + 1 /\ x.id = y.id /\ x.of = y.of /\ y.age \in Nat
  <2>1. PICK y \in list.fragments[i].pieces : x = [y EXCEPT !.age = @ + 1]
    BY <1>13 DEF Older
  <2>2. y \in Pieces
    BY <1>5 DEF Lists, Fragments
  <2>3. QED
    BY <2>1, <2>2 DEF Pieces
<1>15. TypeOK'
  <2>1. out' \in [seq_id : 0 .. N_SEQ_ID - 1, size : Sizes \union {0},
                  frag_id : 0..MAX_FRAGS, of : Counts \union {0}]
    BY <1>6, <1>7, Constants_
  <2>2. net' \subseteq Packets
    BY <1>8, <1>11
  <2>3. list' \in Lists
    <3>1. frags \in [Slots -> Fragments]
      BY <1>13
    <3> HIDE DEF frags
    <3>2. QED
      BY <3>1, <1>12, <1>5 DEF Lists
  <2>4. \A i \in Slots : ~Full(list'.fragments[i])
    BY <1>1, <1>12, <1>13 DEF TypeOK, Full
  <2>5. recent' \in [0..MaxLate -> Datagrams]
    <3>1. [of |-> of, got |-> {}, fate |-> "open"] \in Datagrams
      BY DEF Datagrams
    <3>2. \A age \in 0..MaxLate : age # 0 => age - 1 \in 0..MaxLate
      BY Constants_
    <3>3. QED
      BY <3>1, <3>2, <1>3, <1>5
  <2>6. behind' \in 0..MaxBurst
    BY <1>4, <1>5, Constants_, SMTT(30)
  <2>7. joined' \subseteq Pieces /\ wakeup' \in 0..FRAG_WAKEUP_INTERVAL
    BY <1>1, <1>4 DEF TypeOK
  <2>8. QED
    BY <2>1, <2>2, <2>3, <2>4, <2>5, <2>6, <2>7 DEF TypeOK
<1>16. /\ recent'[0].of = of
       /\ \A age \in 0..MaxLate : age + 1 <= MaxLate => recent'[age + 1].of = recent[age].of
  <2>1. 0 \in 0..MaxLate
    BY Constants_
  <2>2. ASSUME NEW age \in 0..MaxLate, age + 1 <= MaxLate
        PROVE  recent'[age + 1].of = recent[age].of
    <3>1. age + 1 \in 0..MaxLate /\ age + 1 # 0 /\ (age + 1) - 1 = age
      BY <2>2, Constants_
    <3>2. recent'[age + 1] = recent[(age + 1) - 1]
      BY <1>3, <3>1
    <3>3. QED
      BY <3>1, <3>2
  <2>3. QED
    BY <2>1, <2>2, <1>3
<1>17. Arriving'
  <2> SUFFICES ASSUME NEW f \in net'
               PROVE  /\ f.seq_id = (out'.seq_id - f.age) % N_SEQ_ID
                      /\ f.id < f.of /\ (f.last <=> f.id = f.of - 1)
                      /\ f.of = recent'[f.age].of
    BY DEF Arriving
  <2>1. out'.seq_id = n
    BY <1>7
  <2>2. CASE f = new
    <3>1. /\ new.seq_id = n /\ new.age = 0 /\ new.id = 0 /\ new.of = of
          /\ new.last <=> 0 = of - 1
      OBVIOUS
    <3> HIDE DEF new
    <3>2. QED
      BY <3>1, <2>1, <2>2, <1>5, <1>6, <1>16
  <2>3. ASSUME NEW e \in net, f.age = e.age + 1, f.age <= MaxLate, e.age \in 0..MaxLate,
               f.seq_id = e.seq_id, f.id = e.id, f.last = e.last, f.of = e.of
        PROVE  /\ f.seq_id = (out'.seq_id - f.age) % N_SEQ_ID
               /\ f.id < f.of /\ (f.last <=> f.id = f.of - 1)
               /\ f.of = recent'[f.age].of
    <3>1. /\ e.seq_id = (out.seq_id - e.age) % N_SEQ_ID
          /\ e.id < e.of /\ (e.last <=> e.id = e.of - 1)
          /\ e.of = recent[e.age].of
      BY <1>1 DEF Arriving
    <3>2. e.age \in 0 .. N_SEQ_ID - 1
      BY <2>3, Constants_
    <3>3. (n - (e.age + 1)) % N_SEQ_ID = (out.seq_id - e.age) % N_SEQ_ID
      BY <3>2, <1>6
    <3>4. recent'[e.age + 1].of = recent[e.age].of
      BY <2>3, <1>16
    <3>5. QED
      BY <3>1, <3>3, <3>4, <2>1, <2>3
  <2>4. QED
    BY <2>2, <2>3, <1>11
<1>18. Sending'
  BY <1>7, <1>16 DEF Sending
<1>19. WholeInv'
  <2> SUFFICES ASSUME NEW i \in Slots PROVE Whole(frags[i], recent')
    BY <1>12 DEF WholeInv
  <2>1. Whole(list.fragments[i], recent)
    BY <1>1 DEF WholeInv
  <2>2. ASSUME NEW x \in frags[i].pieces
        PROVE  x.id < x.of /\ (x.age <= MaxLate => x.of = recent'[x.age].of)
    <3>1. PICK y \in list.fragments[i].pieces :
              x.age = y.age + 1 /\ x.id = y.id /\ x.of = y.of /\ y.age \in Nat
      BY <1>14
    <3>2. y.id < y.of /\ (y.age <= MaxLate => y.of = recent[y.age].of)
      BY <2>1 DEF Whole
    <3>3. ASSUME x.age <= MaxLate
          PROVE  x.of = recent'[x.age].of
      <4>1. y.age \in 0..MaxLate /\ y.age + 1 <= MaxLate
        BY <3>1, <3>3, Constants_
      <4>2. QED
        BY <4>1, <3>1, <3>2, <1>16
    <3>4. QED
      BY <3>1, <3>2, <3>3
  <2>3. \A x, y \in frags[i].pieces : x.of = y.of
    BY <2>1, <1>14 DEF Whole
  <2>4. ASSUME NEW b \in frags[i].map
        PROVE  \E x \in frags[i].pieces : Covers(x, b)
    <3>1. PICK y \in list.fragments[i].pieces : Covers(y, b)
      BY <2>1, <2>4, <1>13 DEF Whole
    <3> DEFINE x == [y EXCEPT !.age = @ + 1]
    <3>2. x \in frags[i].pieces
      BY <1>13 DEF Older
    <3>3. y \in Pieces
      BY <1>5 DEF Lists, Fragments
    <3>4. x.id = y.id /\ x.of = y.of
      BY <3>3 DEF Pieces
    <3>5. Covers(x, b)
      BY <3>1, <3>4 DEF Covers
    <3>6. QED
      BY <3>2, <3>5
  <2> HIDE DEF frags
  <2>5. QED
    BY <2>2, <2>3, <2>4 DEF Whole
<1>20. Window(h + 1)'
  <2>1. h + 1 \in behind' .. behind' + MaxLate
    <3>1. h \in behind .. behind + MaxLate
      BY <1>2 DEF Window
    <3>2. /\ behind' = behind + 1 /\ behind \in Int /\ MaxLate \in Int
          /\ h \in Int /\ behind <= h /\ h <= behind + MaxLate
      BY <3>1, <1>4, <1>5, Constants_
    <3>3. QED
      BY ONLY <3>2
  <2>2. list'.seq_id = (out'.seq_id - (h + 1)) % N_SEQ_ID
    <3>1. h \in 0 .. N_SEQ_ID - 1 /\ list.seq_id = (out.seq_id - h) % N_SEQ_ID
      BY <1>2, <1>5, Constants_ DEF Window
    <3>2. (n - (h + 1)) % N_SEQ_ID = (out.seq_id - h) % N_SEQ_ID
      BY <3>1, <1>6
    <3>3. QED
      BY <3>1, <3>2, <1>7, <1>12
  <2>3. ASSUME NEW i \in Slots, NEW x \in frags[i].pieces
        PROVE  x.age = h + 1 + Position(list', i)
    <3>1. PICK y \in list.fragments[i].pieces : x.age = y.age + 1
      BY <1>14
    <3>2. y.age = h + Position(list, i)
      BY <1>2 DEF Window
    <3>3. Position(list', i) = Position(list, i) /\ Position(list, i) \in Nat
      BY <1>5, <1>12, PositionIs DEF Position, Slots
    <3>4. QED
      BY <3>1, <3>2, <3>3
  <2>4. QED
    BY <2>1, <2>2, <2>3, <1>12 DEF Window
<1>21. JoinsOneDatagram'
  BY <1>4 DEF JoinsOneDatagram
<1>22. QED
  BY <1>15, <1>17, <1>18, <1>19, <1>20, <1>21 DEF IInv

(* What a fragment finds on its arrival, and what it leaves.               *)
LEMMA IncomingIs ==
    ASSUME IInv, NEW f \in net, Incoming(f), NEW h \in Nat, Window(h)
    PROVE  LET place == GetBuf(list, f.seq_id)
               old == place.list.fragments[place.slot]
               base == IF Continues(old, f) THEN old ELSE Begun(f)
               frag == Copied(base, f)
           IN
           /\ Finds(place, h, f)
           /\ old = Undefined \/ old = list.fragments[place.slot]
           /\ old \in Fragments
           /\ frag \in Fragments
           /\ Whole(frag, recent)
           /\ \A x \in old.pieces : x.age = f.age
           /\ \A x \in frag.pieces : x.age = f.age
           /\ net' = net \ {f}
           /\ list'.seq_id = place.list.seq_id /\ list'.index = place.list.index
           /\ list' \in Lists
           /\ list'.fragments = [place.list.fragments EXCEPT
                                    ![place.slot] = IF Full(frag) THEN Undefined ELSE frag]
           /\ joined' = IF Full(frag) THEN frag.pieces ELSE {}
           /\ behind' = IF f.age < behind THEN f.age ELSE behind
           /\ NewHead(h, f) \in behind' .. behind' + MaxLate
           /\ f.age < behind => NewHead(h, f) = behind'
<1> DEFINE place == GetBuf(list, f.seq_id)
           old == place.list.fragments[place.slot]
           base == IF Continues(old, f) THEN old ELSE Begun(f)
           frag == Copied(base, f)
           g == NewHead(h, f)
<1>1. TypeOK /\ Arriving /\ WholeInv
  BY DEF IInv
<1>2. Finds(place, h, f)
  BY <1>1, GetBufFinds DEF Arriving
<1>3. /\ net' = net \ {f}
      /\ list' = [place.list EXCEPT !.fragments[place.slot] = IF Full(frag) THEN Undefined ELSE frag]
      /\ joined' = IF Full(frag) THEN frag.pieces ELSE {}
      /\ behind' = IF f.age < behind THEN f.age ELSE behind
  BY DEF Incoming
<1>4. /\ list \in Lists /\ f \in Packets /\ behind \in 0..MaxBurst
      /\ f.age \in 0..MaxLate /\ f.size \in Sizes
  BY <1>1 DEF TypeOK, Packets
<1>5. /\ place.list \in Lists /\ place.slot \in Slots
      /\ g + Position(place.list, place.slot) = f.age
  BY <1>2 DEF Finds
<1>6. \/ old = Undefined
      \/ /\ old = list.fragments[place.slot]
         /\ g + Position(place.list, place.slot) = h + Position(list, place.slot)
  BY <1>2, <1>5 DEF Finds
<1> HIDE DEF place, g
<1>7. old \in Fragments
  BY <1>5 DEF Lists
<1>8. \A x \in old.pieces : x.age = f.age
  BY <1>5, <1>6 DEF Window, Undefined
<1>9. Whole(old, recent)
  BY <1>1, <1>5, <1>6 DEF WholeInv, Whole, Undefined
<1> HIDE DEF old
<1>10. /\ Begun(f) \in Fragments
       /\ Begun(f).pieces = {} /\ Begun(f).map = {}
  BY <1>4, UndefinedFragment DEF Begun, Undefined, Fragments
<1>11. /\ base \in Fragments /\ Whole(base, recent)
       /\ \A x \in base.pieces : x.age = f.age
  BY <1>7, <1>8, <1>9, <1>10 DEF Whole
<1> HIDE DEF base
<1>12. /\ frag \in Fragments
       /\ Whole(frag, recent)
       /\ \A x \in frag.pieces : x.age = f.age
  BY <1>1, <1>11, CopiedWhole
<1> HIDE DEF frag
<1>13. /\ list' \in Lists
       /\ list'.seq_id = place.list.seq_id /\ list'.index = place.list.index
       /\ list'.fragments = [place.list.fragments EXCEPT
                                ![place.slot] = IF Full(frag) THEN Undefined ELSE frag]
  <2> DEFINE rest == IF Full(frag) THEN Undefined ELSE frag
  <2>1. rest \in Fragments
    BY <1>12, UndefinedFragment
  <2>2. list' = [place.list EXCEPT !.fragments[place.slot] = rest]
    BY <1>3
  <2> HIDE DEF rest
  <2>3. /\ list' \in Lists
        /\ list'.seq_id = place.list.seq_id /\ list'.index = place.list.index
        /\ list'.fragments = [place.list.fragments EXCEPT ![place.slot] = rest]
    BY <2>1, <2>2, <1>5 DEF Lists
  <2>4. QED
    BY <2>3 DEF rest
<1>14. h \in Nat /\ behind <= h /\ h <= behind + MaxLate
  BY <1>4, Constants_ DEF Window
<1>15. g \in behind' .. behind' + MaxLate
  BY <1>3, <1>4, <1>14, Constants_ DEF NewHead, g
<1>16. f.age < behind => g = behind'
  BY <1>3, <1>4, <1>14, Constants_ DEF NewHead, g
<1>17. old = Undefined \/ old = list.fragments[place.slot]
  BY <1>6 DEF old
<1>18. QED
  BY <1>2, <1>3, <1>7, <1>8, <1>12, <1>13, <1>15, <1>16, <1>17 DEF place, old, base, frag, g

LEMMA IncomingStep == ASSUME IInv, NEW f \in net, Incoming(f) PROVE IInv'
<1>1. TypeOK /\ Arriving /\ Sending /\ WholeInv
  BY DEF IInv
<1>2. PICK h \in Nat : Window(h)
  BY DEF IInv
<1> DEFINE place == GetBuf(list, f.seq_id)
           old == place.list.fragments[place.slot]
           base == IF Continues(old, f) THEN old ELSE Begun(f)
           frag == Copied(base, f)
           g == NewHead(h, f)
<1>3. /\ Finds(place, h, f)
      /\ frag \in Fragments
      /\ Whole(frag, recent)
      /\ \A x \in frag.pieces : x.age = f.age
      /\ net' = net \ {f}
      /\ list'.seq_id = place.list.seq_id /\ list'.index = place.list.index
      /\ list' \in Lists
      /\ list'.fragments = [place.list.fragments EXCEPT
                               ![place.slot] = IF Full(frag) THEN Undefined ELSE frag]
      /\ joined' = IF Full(frag) THEN frag.pieces ELSE {}
      /\ behind' = IF f.age < behind THEN f.age ELSE behind
      /\ g \in behind' .. behind' + MaxLate
  BY <1>2, IncomingIs
<1>4. out' = out /\ wakeup' = wakeup
  BY DEF Incoming
<1>5. /\ recent' \in [0..MaxLate -> Datagrams]
      /\ \A age \in 0..MaxLate : recent'[age].of = recent[age].of
  <2> DEFINE strays == f.age - behind >= N_FRAG_BUF \/ ~InStep
             fate(age) == IF age = f.age /\ Full(frag) THEN "joined"
                          ELSE IF strays THEN "strayed" ELSE recent[age].fate
             got(age) == IF age = f.age THEN recent[age].got \union {f.id} ELSE recent[age].got
  <2>1. recent' = [age \in 0..MaxLate |-> [recent[age] EXCEPT !.got = got(age), !.fate = fate(age)]]
    BY DEF Incoming
  <2>2. recent \in [0..MaxLate -> Datagrams] /\ f.id \in Bits
    BY <1>1 DEF TypeOK, Packets
  <2>3. ASSUME NEW age \in 0..MaxLate
        PROVE  /\ recent'[age] \in Datagrams
               /\ recent'[age].of = recent[age].of
    <3>1. recent[age] \in Datagrams
      BY <2>2
    <3>2. got(age) \in SUBSET Bits /\ fate(age) \in {"open", "joined", "reaped", "strayed"}
      BY <2>2, <3>1 DEF Datagrams
    <3> HIDE DEF got, fate
    <3>3. recent'[age] = [recent[age] EXCEPT !.got = got(age), !.fate = fate(age)]
      BY <2>1
    <3>4. QED
      BY <3>1, <3>2, <3>3 DEF Datagrams
  <2>4. recent' \in [0..MaxLate -> Datagrams]
    <3> HIDE DEF got, fate
    <3> QED BY <2>1, <2>3
  <2>5. QED
    BY <2>3, <2>4
<1> HIDE DEF place, frag, g
<1>6. /\ place.list \in Lists /\ place.slot \in Slots
      /\ place.list.seq_id = (out.seq_id - g) % N_SEQ_ID
      /\ g + Position(place.list, place.slot) = f.age
      /\ \A i \in Slots :
            \/ place.list.fragments[i] = Undefined
            \/ /\ place.list.fragments[i] = list.fragments[i]
               /\ g + Position(place.list, i) = h + Position(list, i)
  BY <1>3 DEF Finds, g
<1>7. ASSUME NEW i \in Slots
      PROVE  \/ list'.fragments[i] = Undefined
             \/ i = place.slot /\ list'.fragments[i] = frag /\ ~Full(frag)
             \/ /\ list'.fragments[i] = list.fragments[i]
                /\ g + Position(place.list, i) = h + Position(list, i)
  <2>1. place.list.fragments \in [Slots -> Fragments]
    BY <1>6 DEF Lists
  <2>2. CASE i = place.slot
    BY <2>1, <2>2, <1>3
  <2>3. CASE i # place.slot
    BY <2>1, <2>3, <1>3, <1>6
  <2>4. QED
    BY <2>2, <2>3
<1>8. frag.pieces \subseteq Pieces
  BY <1>3 DEF Fragments
<1>9. TypeOK'
  <2>1. \A i \in Slots : ~Full(list'.fragments[i])
    <3>1. ~Full(Undefined)
      <4>1. 0 \in Bits
        BY Constants_ DEF Bits
      <4>2. QED
        BY <4>1 DEF Full, Undefined
    <3>2. QED
      BY <3>1, <1>1, <1>7 DEF TypeOK
  <2>2. behind' \in 0..MaxBurst
    BY <1>1, <1>3, Constants_ DEF TypeOK, Packets
  <2>3. joined' \subseteq Pieces
    BY <1>3, <1>8
  <2>4. QED
    BY <2>1, <2>2, <2>3, <1>1, <1>3, <1>4, <1>5 DEF TypeOK
<1>10. Arriving'
  <2> SUFFICES ASSUME NEW e \in net'
               PROVE  /\ e.seq_id = (out'.seq_id - e.age) % N_SEQ_ID
                      /\ e.id < e.of /\ (e.last <=> e.id = e.of - 1)
                      /\ e.of = recent'[e.age].of
    BY DEF Arriving
  <2>1. e \in net /\ e.age \in 0..MaxLate
    BY <1>1, <1>3 DEF TypeOK, Packets
  <2>2. QED
    BY <2>1, <1>1, <1>4, <1>5 DEF Arriving
<1>11. Sending'
  <2>1. 0 \in 0..MaxLate
    BY Constants_
  <2>2. QED
    BY <2>1, <1>1, <1>4, <1>5 DEF Sending
<1>12. \A fr \in Fragments : Whole(fr, recent) => Whole(fr, recent')
  <2> SUFFICES ASSUME NEW fr \in Fragments, Whole(fr, recent)
               PROVE  \A x \in fr.pieces : x.age <= MaxLate => x.of = recent'[x.age].of
    BY DEF Whole
  <2>1. \A x \in fr.pieces : x.age \in Nat
    BY DEF Fragments, Pieces
  <2>2. QED
    BY <2>1, <1>5, Constants_ DEF Whole
<1>13. WholeInv'
  <2> SUFFICES ASSUME NEW i \in Slots PROVE Whole(list'.fragments[i], recent')
    BY DEF WholeInv
  <2>1. list.fragments[i] \in Fragments
    BY <1>1 DEF TypeOK, Lists
  <2>2. Whole(Undefined, recent')
    BY DEF Whole, Undefined
  <2>3. QED
    BY <2>1, <2>2, <1>1, <1>3, <1>7, <1>12 DEF WholeInv
<1>14. Window(g)'
  <2>1. g \in behind' .. behind' + MaxLate
    BY <1>3 DEF g
  <2>2. list'.seq_id = (out'.seq_id - g) % N_SEQ_ID
    BY <1>3, <1>4, <1>6
  <2>3. ASSUME NEW i \in Slots, NEW x \in list'.fragments[i].pieces
        PROVE  x.age = g + Position(list', i)
    <3>1. Position(list', i) = Position(place.list, i)
      BY <1>3 DEF Position
    <3>2. Undefined.pieces = {}
      BY DEF Undefined
    <3>3. \A y \in list.fragments[i].pieces : y.age = h + Position(list, i)
      BY <1>2 DEF Window
    <3>4. QED
      BY <3>1, <3>2, <3>3, <1>3, <1>6, <1>7
  <2>4. QED
    BY <2>1, <2>2, <2>3 DEF Window
<1>15. JoinsOneDatagram'
  <2>1. CASE joined' = {}
    BY <2>1 DEF JoinsOneDatagram
  <2>2. CASE Full(frag) /\ joined' = frag.pieces
    <3>1. \A x \in frag.pieces : {z.id : z \in frag.pieces} = 0 .. x.of - 1
      BY <2>2, <1>3, FullIsWhole
    <3>2. QED
      BY <3>1, <2>2, <1>3 DEF JoinsOneDatagram
  <2>3. QED
    BY <2>1, <2>2, <1>3
<1>16. g \in Nat
  BY <1>3, <1>9, Constants_ DEF TypeOK
<1>17. QED
  BY <1>9, <1>10, <1>11, <1>13, <1>14, <1>15, <1>16 DEF IInv

(* Steps that leave the buffers, or all that the pieces say, alone.        *)
LEMMA BuffersKept ==
    ASSUME IInv, out'.seq_id = out.seq_id, behind' = behind,
           list' \in Lists, list'.seq_id = list.seq_id, list'.index = list.index,
           \A i \in Slots : \/ list'.fragments[i] = Undefined
                            \/ /\ list'.fragments[i].pieces = list.fragments[i].pieces
                               /\ list'.fragments[i].map = list.fragments[i].map,
           recent' \in [0..MaxLate -> Datagrams],
           \A age \in 0..MaxLate : recent'[age].of = recent[age].of
    PROVE  /\ \A i \in Slots : ~Full(list'.fragments[i])
           /\ WholeInv'
           /\ \E h \in Nat : Window(h)'
<1>1. TypeOK /\ WholeInv
  BY DEF IInv
<1>2. PICK h \in Nat : Window(h)
  BY DEF IInv
<1>3. \A i \in Slots : ~Full(list'.fragments[i])
  <2>1. 0 \in Bits
    BY Constants_ DEF Bits
  <2>2. QED
    BY <2>1, <1>1 DEF TypeOK, Full, Undefined
<1>4. WholeInv'
  <2> SUFFICES ASSUME NEW i \in Slots PROVE Whole(list'.fragments[i], recent')
    BY DEF WholeInv
  <2>1. Whole(Undefined, recent')
    BY DEF Whole, Undefined
  <2>2. Whole(list.fragments[i], recent)
    BY <1>1 DEF WholeInv
  <2>3. \A x \in list.fragments[i].pieces : x.age \in Nat
    BY <1>1 DEF TypeOK, Lists, Fragments, Pieces
  <2>4. Whole(list.fragments[i], recent')
    BY <2>2, <2>3, Constants_ DEF Whole
  <2>5. QED
    BY <2>1, <2>4 DEF Whole
<1>5. Window(h)'
  <2>1. ASSUME NEW i \in Slots PROVE Position(list', i) = Position(list, i)
    BY DEF Position
  <2>2. ASSUME NEW i \in Slots, NEW x \in list'.fragments[i].pieces
        PROVE  x.age = h + Position(list', i)
    BY <2>1, <1>2 DEF Window, Undefined
  <2>3. QED
    BY <2>2, <1>2 DEF Window
<1>6. QED
  BY <1>3, <1>4, <1>5

LEMMA ReadyToSendStep == IInv /\ ReadyToSend => IInv'
<1> SUFFICES ASSUME IInv, ReadyToSend PROVE IInv'
  OBVIOUS
<1>1. TypeOK /\ Arriving /\ Sending
  BY DEF IInv
<1>2. /\ net' = net \union {Fragment(out)} /\ out' = [out EXCEPT !.frag_id = @ + 1]
      /\ OutgoingDefined(out) /\ joined' = {}
      /\ list' = list /\ wakeup' = wakeup /\ recent' = recent /\ behind' = behind
  BY DEF ReadyToSend, Send
<1>3. /\ out \in [seq_id : 0 .. N_SEQ_ID - 1, size : Sizes \union {0},
                  frag_id : 0..MAX_FRAGS, of : Counts \union {0}]
      /\ out.frag_id < out.of /\ out.of = recent[0].of /\ out.size \in Sizes
  BY <1>1, <1>2 DEF TypeOK, Sending, OutgoingDefined
<1>4. out.of \in 2..MAX_FRAGS
  <2>1. out.frag_id \in 0..MAX_FRAGS /\ out.of \in Counts \union {0}
    BY <1>3
  <2>2. out.of # 0
    BY <2>1, <1>3, Constants_
  <2>3. QED
    BY <2>1, <2>2, Constants_
<1> DEFINE new == Fragment(out)
<1>5. /\ new.seq_id = out.seq_id /\ new.id = out.frag_id /\ new.age = 0 /\ new.of = out.of
      /\ new.last <=> out.frag_id = out.of - 1
  BY DEF Fragment
<1>6. new \in Packets
  BY <1>3, <1>4, Constants_ DEF Fragment, Packets, Bits
<1> HIDE DEF new
<1>7. out'.seq_id = out.seq_id /\ out'.of = out.of
  BY <1>2, <1>3
<1>8. Arriving'
  <2>1. (out.seq_id - 0) % N_SEQ_ID = out.seq_id
    BY <1>3, ModSeq, Constants_
  <2>2. QED
    BY <2>1, <1>7, <1>1, <1>2, <1>3, <1>5 DEF Arriving, new
<1>9. Sending'
  BY <1>7, <1>2, <1>3 DEF Sending
<1>10. /\ \A i \in Slots : ~Full(list'.fragments[i])
      /\ WholeInv'
      /\ \E h \in Nat : Window(h)'
  BY <1>7, <1>1, <1>2, BuffersKept DEF TypeOK
<1>11. TypeOK'
  <2>1. out' \in [seq_id : 0 .. N_SEQ_ID - 1, size : Sizes \union {0},
                  frag_id : 0..MAX_FRAGS, of : Counts \union {0}]
    BY <1>2, <1>3, <1>4, Constants_
  <2>2. QED
    BY <2>1, <1>6, <1>1, <1>2 DEF TypeOK, new
<1>12. JoinsOneDatagram'
  BY <1>2 DEF JoinsOneDatagram
<1>13. QED
  BY <1>8, <1>9, <1>10, <1>11, <1>12 DEF IInv

LEMMA LoseStep == ASSUME IInv, NEW f \in net, Lose(f) PROVE IInv'
<1>1. /\ net' = net \ {f} /\ joined' = {}
      /\ out' = out /\ list' = list /\ wakeup' = wakeup /\ recent' = recent /\ behind' = behind
  BY DEF Lose
<1>2. TypeOK'
  BY <1>1 DEF IInv, TypeOK
<1>3. Arriving' /\ Sending' /\ JoinsOneDatagram'
  BY <1>1 DEF IInv, Arriving, Sending, JoinsOneDatagram
<1>4. WholeInv' /\ \E h \in Nat : Window(h)'
  BY <1>1, BuffersKept DEF IInv, TypeOK
<1>5. QED
  BY <1>2, <1>3, <1>4 DEF IInv

LEMMA HousekeepingStep == IInv /\ Housekeeping => IInv'
<1> SUFFICES ASSUME IInv, Housekeeping PROVE IInv'
  OBVIOUS
<1> DEFINE hit(age) == \E i \in Slots : /\ Expired(list.fragments[i])
                                        /\ \E x \in list.fragments[i].pieces : x.age = age
<1>1. /\ out' = out /\ net' = net /\ behind' = behind /\ joined' = {}
      /\ wakeup' = FRAG_WAKEUP_INTERVAL
      /\ list' = [list EXCEPT !.fragments = Reaped]
      /\ recent' = [age \in 0..MaxLate |->
            IF hit(age) THEN [recent[age] EXCEPT !.fate = "reaped"] ELSE recent[age]]
  BY DEF Housekeeping
<1>2. /\ list \in Lists /\ recent \in [0..MaxLate -> Datagrams] /\ wakeup' \in 0..FRAG_WAKEUP_INTERVAL
  BY <1>1, Constants_, SMTT(30) DEF IInv, TypeOK
<1>3. /\ Reaped \in [Slots -> Fragments]
      /\ \A i \in Slots : Reaped[i] = Undefined \/ Reaped[i] = list.fragments[i]
  BY <1>2, UndefinedFragment DEF Reaped, Lists
<1>4. /\ list' \in Lists /\ list'.seq_id = list.seq_id /\ list'.index = list.index
      /\ list'.fragments = Reaped
  BY <1>1, <1>2, <1>3 DEF Lists
<1> HIDE DEF hit
<1>5. /\ recent' \in [0..MaxLate -> Datagrams]
      /\ \A age \in 0..MaxLate : recent'[age].of = recent[age].of
  <2>1. \A d \in Datagrams : /\ [d EXCEPT !.fate = "reaped"] \in Datagrams
                             /\ [d EXCEPT !.fate = "reaped"].of = d.of
    BY DEF Datagrams
  <2>2. QED
    BY <2>1, <1>1, <1>2
<1>6. /\ \A i \in Slots : ~Full(list'.fragments[i])
      /\ WholeInv'
      /\ \E h \in Nat : Window(h)'
  BY <1>1, <1>3, <1>4, <1>5, BuffersKept
<1>7. TypeOK'
  BY <1>1, <1>2, <1>4, <1>5, <1>6 DEF IInv, TypeOK
<1>8. Arriving'
  <2>1. \A f \in net : f.age \in 0..MaxLate
    BY DEF IInv, TypeOK, Packets
  <2>2. QED
    BY <2>1, <1>1, <1>5 DEF IInv, Arriving
<1>9. Sending' /\ JoinsOneDatagram'
  <2>1. 0 \in 0..MaxLate
    BY Constants_
  <2>2. QED
    BY <2>1, <1>1, <1>5 DEF IInv, Sending, JoinsOneDatagram
<1>10. QED
  BY <1>6, <1>7, <1>8, <1>9 DEF IInv

LEMMA TickStep == IInv /\ Tick => IInv'
<1> SUFFICES ASSUME IInv, Tick PROVE IInv'
  OBVIOUS
<1> DEFINE frags == [i \in Slots |-> [list.fragments[i] EXCEPT !.ttl = IF @ > 0 THEN @ - 1 ELSE 0]]
<1>1. /\ out' = out /\ net' = net /\ behind' = behind /\ joined' = {} /\ recent' = recent
      /\ wakeup > 0 /\ wakeup' = wakeup - 1
      /\ list' = [list EXCEPT !.fragments = frags]
  BY DEF Tick
<1>2. /\ list \in Lists /\ recent \in [0..MaxLate -> Datagrams]
      /\ wakeup' \in 0..FRAG_WAKEUP_INTERVAL
  <2>1. list \in Lists /\ recent \in [0..MaxLate -> Datagrams] /\ wakeup \in 0..FRAG_WAKEUP_INTERVAL
    BY DEF IInv, TypeOK
  <2> HIDE DEF frags
  <2>2. wakeup' \in 0..FRAG_WAKEUP_INTERVAL
    BY <2>1, <1>1, Constants_
  <2>3. QED
    BY <2>1, <2>2
<1>3. ASSUME NEW i \in Slots
      PROVE  /\ frags[i] \in Fragments
             /\ frags[i].pieces = list.fragments[i].pieces /\ frags[i].map = list.fragments[i].map
  <2>1. list.fragments[i] \in Fragments
    BY <1>2 DEF Lists
  <2>2. (IF list.fragments[i].ttl > 0 THEN list.fragments[i].ttl - 1 ELSE 0) \in 0..FRAG_TTL_SEC
    BY <2>1, Constants_ DEF Fragments
  <2>3. QED
    BY <2>1, <2>2 DEF Fragments
<1>4. frags \in [Slots -> Fragments]
  BY <1>3
<1> HIDE DEF frags
<1>5. /\ list' \in Lists /\ list'.seq_id = list.seq_id /\ list'.index = list.index
      /\ list'.fragments = frags
  BY <1>1, <1>2, <1>4 DEF Lists
<1>6. /\ \A i \in Slots : ~Full(list'.fragments[i])
      /\ WholeInv'
      /\ \E h \in Nat : Window(h)'
  BY <1>1, <1>2, <1>3, <1>5, BuffersKept
<1>7. TypeOK'
  BY <1>1, <1>2, <1>5, <1>6 DEF IInv, TypeOK
<1>8. Arriving' /\ Sending' /\ JoinsOneDatagram'
  BY <1>1 DEF IInv, Arriving, Sending, JoinsOneDatagram
<1>9. QED
  BY <1>6, <1>7, <1>8 DEF IInv

LEMMA NextStep == IInv /\ [Next]_vars => IInv'
<1> SUFFICES ASSUME IInv, [Next]_vars PROVE IInv'
  OBVIOUS
<1>1. CASE Outgoing
  BY <1>1, OutgoingStep
<1>2. CASE ReadyToSend
  BY <1>2, ReadyToSendStep
<1>3. ASSUME NEW f \in net, Lose(f) PROVE IInv'
  BY <1>3, LoseStep
<1>4. ASSUME NEW f \in net, Incoming(f) PROVE IInv'
  BY <1>4, IncomingStep
<1>5. CASE Housekeeping
  BY <1>5, HousekeepingStep
<1>6. CASE Tick
  BY <1>6, TickStep
<1>7. CASE UNCHANGED vars
  BY <1>7 DEF vars, IInv, TypeOK, Arriving, Sending, WholeInv, Whole, Window, Position,
              JoinsOneDatagram
<1>8. QED
  BY <1>1, <1>2, <1>3, <1>4, <1>5, <1>6, <1>7 DEF Next

-----------------------------------------------------------------------------
(* In every state there is an age of the window's newest datagram by which *)
(* each buffer of the list holds pieces of its own datagram only.          *)
THEOREM InductiveInvariant == Spec => []IInv
<1>1. Init => IInv
  BY InitIInv
<1>2. IInv /\ [Next]_vars => IInv'
  BY NextStep
<1>3. QED
  BY <1>1, <1>2, PTL DEF Spec

(* The state has its types; no buffer is left with a complete map, so      *)
(* fragment_incoming does not pass one datagram on twice.                  *)
THEOREM TypeCorrect == Spec => []TypeOK
<1>1. IInv => TypeOK
  BY DEF IInv
<1>2. QED
  BY <1>1, InductiveInvariant, PTL

(* What fragment_incoming passes on is exactly the fragments of one        *)
(* datagram that was sent.                                                 *)
THEOREM WholeDatagrams == Spec => []JoinsOneDatagram
<1>1. IInv => JoinsOneDatagram
  BY DEF IInv
<1>2. QED
  BY <1>1, InductiveInvariant, PTL

(* A fragment of a datagram newer than any before brings the window to it, *)
(* after a burst of losses and wherever late fragments had moved it.       *)
THEOREM NewestIsFound == Spec => NewestIsInStep
<1>1. IInv /\ [Next]_vars => [behind' < behind => InStep']_vars
  <2> SUFFICES ASSUME IInv, Next, behind' < behind PROVE InStep'
    OBVIOUS
  <2>1. behind \in Nat
    BY DEF IInv, TypeOK
  <2>2. PICK f \in net : Incoming(f)
    BY <2>1, Constants_ DEF Next, Outgoing, ReadyToSend, Lose, Housekeeping, Tick
  <2>3. PICK h \in Nat : Window(h)
    BY DEF IInv
  <2> DEFINE place == GetBuf(list, f.seq_id)
  <2>4. /\ Finds(place, h, f)
        /\ list'.seq_id = place.list.seq_id
        /\ behind' = IF f.age < behind THEN f.age ELSE behind
        /\ f.age < behind => NewHead(h, f) = behind'
    BY <2>2, <2>3, IncomingIs
  <2> HIDE DEF place
  <2>5. f.age < behind
    BY <2>1, <2>4
  <2>6. list'.seq_id = (out.seq_id - behind') % N_SEQ_ID
    BY <2>4, <2>5 DEF Finds
  <2>7. out' = out
    BY <2>2 DEF Incoming
  <2>8. QED
    BY <2>6, <2>7 DEF InStep
<1>2. QED
  BY <1>1, InductiveInvariant, PTL DEF Spec, NewestIsInStep

-----------------------------------------------------------------------------
(* What arrived is joined.                                                 *)

\* All fragments of a datagram have one size.
SizeOf(age, size, sent, packets) ==
    /\ age = 0 => size = sent
    /\ \A f \in packets : f.age = age => f.size = size

\* So the pieces of a datagram that arrive fit the buffer that was begun for it.
SizeInv ==
    /\ \A f \in net : SizeOf(f.age, f.size, out.size, net)
    /\ \A i \in Slots : \A x \in list.fragments[i].pieces :
          SizeOf(x.age, list.fragments[i].size, out.size, net)

\* A buffer has the fragments got of a datagram of that many.
Holds(frag, got, of) ==
    /\ frag.defined
    /\ got \subseteq {x.id : x \in frag.pieces}
    /\ got \subseteq frag.map
    /\ of - 1 \in got => of - 1 .. MAX_FRAGS - 1 \subseteq frag.map

\* The fragments that arrived of a datagram are in its buffer, or it is so old that
\* every further one of it strays.
Kept(age) ==
    \/ age - behind >= N_FRAG_BUF
    \/ \E i \in Slots : /\ age - behind = Position(list, i)
                        /\ Holds(list.fragments[i], recent[age].got, recent[age].of)

\* While every fragment of a datagram that came is still waited for, the window
\* is where the newest datagram put it.
KeptInv ==
    \A age \in 0..MaxLate : recent[age].got # {} =>
        /\ behind <= age
        /\ recent[age].fate = "open" => InStep /\ Kept(age)

\* The inductive invariant, with IInv, for ArrivedIsJoined.
JInv == SizeInv /\ KeptInv /\ ArrivedIsJoined

LEMMA InStepIs ==
    ASSUME TypeOK, NEW h \in Nat, Window(h), InStep
    PROVE  h = behind
<1>1. /\ out.seq_id \in 0 .. N_SEQ_ID - 1 /\ behind \in 0..MaxBurst
      /\ (out.seq_id - h) % N_SEQ_ID = (out.seq_id - behind) % N_SEQ_ID
      /\ h \in behind .. behind + MaxLate
  BY DEF TypeOK, Window, InStep
<1>2. h \in 0 .. N_SEQ_ID - 1 /\ behind \in 0 .. N_SEQ_ID - 1
  BY <1>1, Constants_
<1>3. QED
  BY <1>1, <1>2, SameAge

LEMMA OnePosition ==
    ASSUME NEW l \in Lists, NEW i \in Slots, NEW j \in Slots, Position(l, i) = Position(l, j)
    PROVE  i = j
<1>1. l.index \in Slots
  BY DEF Lists
<1>2. QED
  BY <1>1, PositionIs, Constants_ DEF Slots

(* A buffer with all the fragments of a datagram is full.                  *)
LEMMA HoldsAll ==
    ASSUME NEW frag \in Fragments, NEW of \in 2..MAX_FRAGS, Holds(frag, 0 .. of - 1, of)
    PROVE  Full(frag)
<1>1. frag.map \subseteq Bits
  BY DEF Fragments
<1>2. of - 1 \in 0 .. of - 1
  BY Constants_
<1>3. \A b \in Bits : b \in 0 .. of - 1 \/ b \in of - 1 .. MAX_FRAGS - 1
  BY Constants_ DEF Bits
<1>4. QED
  BY <1>1, <1>2, <1>3 DEF Holds, Full

(* f and what arrived before are in the buffer f was copied to.            *)
LEMMA CopiedHolds ==
    ASSUME NEW f, NEW base \in Fragments, NEW got, base.defined,
           f.id \in Bits, f.of \in 2..MAX_FRAGS, f.last <=> f.id = f.of - 1,
           got = {} \/ Holds(base, got, f.of)
    PROVE  Holds(Copied(base, f), got \union {f.id}, f.of)
<1> DEFINE frag == Copied(base, f)
           new == [id |-> f.id, age |-> f.age, of |-> f.of]
<1>1. /\ frag.map = base.map \union Marks(f)
      /\ frag.pieces = {x \in base.pieces : x.id # f.id} \union {new}
      /\ frag.defined = base.defined
  BY DEF Fragments, Copied
<1>2. new.id = f.id
  OBVIOUS
<1> HIDE DEF frag, new
<1>3. f.id \in Marks(f)
  BY Constants_ DEF Marks, Bits
<1>4. got \union {f.id} \subseteq {x.id : x \in frag.pieces}
  BY <1>1, <1>2 DEF Holds
<1>5. got \union {f.id} \subseteq frag.map
  BY <1>1, <1>3 DEF Holds
<1>6. ASSUME f.of - 1 \in got \union {f.id}
      PROVE  f.of - 1 .. MAX_FRAGS - 1 \subseteq frag.map
  <2>1. CASE f.of - 1 \in got
    BY <2>1, <1>1 DEF Holds
  <2>2. CASE f.of - 1 = f.id
    BY <2>2, <1>1 DEF Marks
  <2>3. QED
    BY <2>1, <2>2, <1>6
<1>7. QED
  BY <1>1, <1>4, <1>5, <1>6 DEF Holds, frag

-----------------------------------------------------------------------------
LEMMA InitJInv == Init => JInv
<1> SUFFICES ASSUME Init PROVE JInv
  OBVIOUS
<1>1. SizeInv
  BY DEF Init, SizeInv, Undefined
<1>2. KeptInv /\ ArrivedIsJoined
  BY DEF Init, KeptInv, ArrivedIsJoined
<1>3. QED
  BY <1>1, <1>2 DEF JInv

(* Steps that move no fragment into or out of a buffer, unless the datagram is
   given up.                                                               *)
LEMMA NothingMoved ==
    ASSUME IInv, JInv, SizeInv',
           out'.seq_id = out.seq_id, behind' = behind,
           list'.seq_id = list.seq_id, list'.index = list.index,
           NEW age \in 0..MaxLate,
           recent'[age].got = recent[age].got, recent'[age].of = recent[age].of,
           recent'[age].fate = "open" =>
               /\ recent[age].fate = "open"
               /\ \A i \in Slots :
                     \/ \A x \in list.fragments[i].pieces : x.age # age
                     \/ /\ list'.fragments[i].pieces = list.fragments[i].pieces
                        /\ list'.fragments[i].map = list.fragments[i].map
                        /\ list'.fragments[i].defined = list.fragments[i].defined
    PROVE  /\ recent'[age].got # {} =>
                  /\ behind' <= age
                  /\ recent'[age].fate = "open" => InStep' /\ Kept(age)'
           /\ recent'[age].got = 0 .. recent'[age].of - 1 => recent'[age].fate # "open"
<1>1. recent'[age].got = 0 .. recent'[age].of - 1 => recent'[age].fate # "open"
  BY DEF JInv, ArrivedIsJoined
<1>2. ASSUME recent'[age].got # {}
      PROVE  behind' <= age
  BY <1>2 DEF JInv, KeptInv
<1>3. ASSUME recent'[age].got # {}, recent'[age].fate = "open"
      PROVE  InStep' /\ Kept(age)'
  <2>1. InStep /\ Kept(age)
    BY <1>3 DEF JInv, KeptInv
  <2>2. PICK h \in Nat : Window(h)
    BY DEF IInv
  <2>3. h = behind /\ list \in Lists
    BY <2>1, <2>2, InStepIs DEF IInv, TypeOK
  <2>4. InStep'
    BY <2>1 DEF InStep
  <2>5. ASSUME age - behind >= N_FRAG_BUF
        PROVE  Kept(age)'
    BY <2>5 DEF Kept
  <2>6. ASSUME NEW i \in Slots, age - behind = Position(list, i),
               Holds(list.fragments[i], recent[age].got, recent[age].of)
        PROVE  Kept(age)'
    <3>1. PICK x \in list.fragments[i].pieces : TRUE
      BY <2>6, <1>3 DEF Holds
    <3>2. x.age = age
      <4>1. x.age = h + Position(list, i)
        BY <2>2 DEF Window
      <4>2. Position(list, i) \in Nat /\ behind \in Nat
        BY <2>2, <2>3, PositionIs DEF Slots
      <4>3. QED
        BY <4>1, <4>2, <2>3, <2>6
    <3>3. /\ list'.fragments[i].pieces = list.fragments[i].pieces
          /\ list'.fragments[i].map = list.fragments[i].map
          /\ list'.fragments[i].defined = list.fragments[i].defined
      BY <3>2, <1>3
    <3>4. Position(list', i) = Position(list, i)
      BY DEF Position
    <3>5. Holds(list'.fragments[i], recent'[age].got, recent'[age].of)
      BY <3>3, <2>6 DEF Holds
    <3>6. QED
      BY <3>4, <3>5, <2>6 DEF Kept
  <2>7. QED
    BY <2>1, <2>4, <2>5, <2>6 DEF Kept
<1>4. QED
  BY <1>1, <1>2, <1>3

LEMMA ReadyToSendKeeps == IInv /\ JInv /\ ReadyToSend => JInv'
<1> SUFFICES ASSUME IInv, JInv, ReadyToSend PROVE JInv'
  OBVIOUS
<1>1. /\ net' = net \union {Fragment(out)} /\ out' = [out EXCEPT !.frag_id = @ + 1]
      /\ list' = list /\ recent' = recent /\ behind' = behind
      /\ Fragment(out).age = 0 /\ Fragment(out).size = out.size
  BY DEF ReadyToSend, Send, Fragment
<1>2. out'.seq_id = out.seq_id /\ out'.size = out.size
  BY <1>1 DEF IInv, TypeOK
<1>3. ASSUME NEW a, NEW size, SizeOf(a, size, out.size, net) PROVE SizeOf(a, size, out'.size, net')
  BY <1>1, <1>2, <1>3 DEF SizeOf
<1>4. SizeInv'
  <2>1. SizeOf(0, out.size, out.size, net)
    BY DEF JInv, SizeInv, SizeOf
  <2>2. \A f \in net' : SizeOf(f.age, f.size, out'.size, net')
    BY <2>1, <1>1, <1>3 DEF JInv, SizeInv
  <2>3. QED
    BY <2>2, <1>1, <1>3 DEF JInv, SizeInv
<1>5. ASSUME NEW age \in 0..MaxLate
      PROVE  /\ recent'[age].got # {} =>
                    /\ behind' <= age
                    /\ recent'[age].fate = "open" => InStep' /\ Kept(age)'
             /\ recent'[age].got = 0 .. recent'[age].of - 1 => recent'[age].fate # "open"
  BY <1>1, <1>2, <1>4, NothingMoved
<1>6. QED
  BY <1>4, <1>5 DEF JInv, KeptInv, ArrivedIsJoined

LEMMA LoseKeeps == ASSUME IInv, JInv, NEW f \in net, Lose(f) PROVE JInv'
<1>1. net' = net \ {f} /\ out' = out /\ list' = list /\ recent' = recent /\ behind' = behind
  BY DEF Lose
<1>2. SizeInv'
  BY <1>1 DEF JInv, SizeInv, SizeOf
<1>3. KeptInv' /\ ArrivedIsJoined'
  BY <1>1 DEF JInv, KeptInv, ArrivedIsJoined, Kept, InStep, Position
<1>4. QED
  BY <1>2, <1>3 DEF JInv

LEMMA TickKeeps == IInv /\ JInv /\ Tick => JInv'
<1> SUFFICES ASSUME IInv, JInv, Tick PROVE JInv'
  OBVIOUS
<1> DEFINE frags == [i \in Slots |-> [list.fragments[i] EXCEPT !.ttl = IF @ > 0 THEN @ - 1 ELSE 0]]
<1>1. /\ out' = out /\ net' = net /\ behind' = behind /\ recent' = recent
      /\ list' = [list EXCEPT !.fragments = frags]
  BY DEF Tick
<1>2. list \in Lists
  BY DEF IInv, TypeOK
<1>3. ASSUME NEW i \in Slots
      PROVE  /\ frags[i].pieces = list.fragments[i].pieces
             /\ frags[i].map = list.fragments[i].map
             /\ frags[i].size = list.fragments[i].size
             /\ frags[i].defined = list.fragments[i].defined
  BY <1>2 DEF Lists, Fragments
<1> HIDE DEF frags
<1>4. list'.seq_id = list.seq_id /\ list'.index = list.index /\ list'.fragments = frags
  BY <1>1, <1>2 DEF Lists
<1>5. SizeInv'
  BY <1>1, <1>3, <1>4 DEF JInv, SizeInv, SizeOf
<1>6. ASSUME NEW age \in 0..MaxLate
      PROVE  /\ recent'[age].got # {} =>
                    /\ behind' <= age
                    /\ recent'[age].fate = "open" => InStep' /\ Kept(age)'
             /\ recent'[age].got = 0 .. recent'[age].of - 1 => recent'[age].fate # "open"
  BY <1>1, <1>3, <1>4, <1>5, NothingMoved
<1>7. QED
  BY <1>5, <1>6 DEF JInv, KeptInv, ArrivedIsJoined

LEMMA HousekeepingKeeps == IInv /\ JInv /\ Housekeeping => JInv'
<1> SUFFICES ASSUME IInv, JInv, Housekeeping PROVE JInv'
  OBVIOUS
<1> DEFINE hit(age) == \E i \in Slots : /\ Expired(list.fragments[i])
                                        /\ \E x \in list.fragments[i].pieces : x.age = age
<1>1. /\ out' = out /\ net' = net /\ behind' = behind
      /\ list' = [list EXCEPT !.fragments = Reaped]
      /\ recent' = [age \in 0..MaxLate |->
            IF hit(age) THEN [recent[age] EXCEPT !.fate = "reaped"] ELSE recent[age]]
  BY DEF Housekeeping
<1>2. list \in Lists /\ recent \in [0..MaxLate -> Datagrams]
  BY DEF IInv, TypeOK
<1>3. /\ list'.seq_id = list.seq_id /\ list'.index = list.index
      /\ \A i \in Slots : list'.fragments[i] = IF Expired(list.fragments[i]) THEN Undefined
                                               ELSE list.fragments[i]
  BY <1>1, <1>2 DEF Lists, Reaped
<1>4. SizeInv'
  BY <1>1, <1>3 DEF JInv, SizeInv, SizeOf, Undefined
<1>5. ASSUME NEW age \in 0..MaxLate
      PROVE  /\ recent'[age].got = recent[age].got /\ recent'[age].of = recent[age].of
             /\ recent'[age].fate = "open" => recent[age].fate = "open" /\ ~hit(age)
  <2>1. /\ [recent[age] EXCEPT !.fate = "reaped"].fate = "reaped"
        /\ [recent[age] EXCEPT !.fate = "reaped"].got = recent[age].got
        /\ [recent[age] EXCEPT !.fate = "reaped"].of = recent[age].of
    BY <1>2 DEF Datagrams
  <2> HIDE DEF hit
  <2>2. QED
    BY <2>1, <1>1
<1>6. ASSUME NEW age \in 0..MaxLate
      PROVE  /\ recent'[age].got # {} =>
                    /\ behind' <= age
                    /\ recent'[age].fate = "open" => InStep' /\ Kept(age)'
             /\ recent'[age].got = 0 .. recent'[age].of - 1 => recent'[age].fate # "open"
  <2>1. ASSUME recent'[age].fate = "open", NEW i \in Slots
        PROVE  \/ \A x \in list.fragments[i].pieces : x.age # age
               \/ /\ list'.fragments[i].pieces = list.fragments[i].pieces
                  /\ list'.fragments[i].map = list.fragments[i].map
                  /\ list'.fragments[i].defined = list.fragments[i].defined
    BY <2>1, <1>3, <1>5
  <2>2. QED
    BY <2>1, <1>1, <1>3, <1>4, <1>5, NothingMoved
<1>7. QED
  BY <1>4, <1>6 DEF JInv, KeptInv, ArrivedIsJoined

LEMMA OutgoingKeeps == IInv /\ JInv /\ Outgoing => JInv'
<1> SUFFICES ASSUME IInv, JInv, Outgoing PROVE JInv'
  OBVIOUS
<1>1. PICK of \in Counts, size \in Sizes :
          LET o == [seq_id |-> NextSeqId(out.seq_id), size |-> size, frag_id |-> 0, of |-> of] IN
          /\ net' = {f \in Older(net) : f.age <= MaxLate} \union {Fragment(o)}
          /\ out' = [o EXCEPT !.frag_id = @ + 1]
          /\ recent' = [age \in 0..MaxLate |->
                IF age = 0 THEN [of |-> of, got |-> {}, fate |-> "open"] ELSE recent[age - 1]]
  BY DEF Outgoing, Send
<1>2. /\ behind' = behind + 1 /\ behind < MaxBurst
      /\ list' = [list EXCEPT !.fragments =
                     [i \in Slots |-> [list.fragments[i] EXCEPT !.pieces = Older(@)]]]
  BY DEF Outgoing
<1> DEFINE n == NextSeqId(out.seq_id)
           new == [seq_id |-> n, id |-> 0, last |-> 0 = of - 1, size |-> size, of |-> of, age |-> 0]
           frags == [i \in Slots |-> [list.fragments[i] EXCEPT !.pieces = Older(@)]]
<1>3. /\ out.seq_id \in 0 .. N_SEQ_ID - 1 /\ list \in Lists /\ net \subseteq Packets
      /\ behind \in 0..MaxBurst /\ of \in 2..MAX_FRAGS
  BY Constants_ DEF IInv, TypeOK
<1>4. /\ out'.seq_id = n /\ out'.size = size
      /\ net' = {f \in Older(net) : f.age <= MaxLate} \union {new}
  BY <1>1 DEF Fragment
<1>5. ASSUME NEW f \in net'
      PROVE  \/ f.age = 0 /\ f.size = size
             \/ \E e \in net : f.age = e.age + 1 /\ f.size = e.size /\ e.age \in Nat
  <2>1. CASE f = new
    BY <2>1
  <2>2. CASE f \in Older(net)
    <3>1. PICK e \in net : f = [e EXCEPT !.age = @ + 1]
      BY <2>2 DEF Older
    <3>2. e \in Packets
      BY <1>3
    <3>3. f.age = e.age + 1 /\ f.size = e.size /\ e.age \in Nat
      BY <3>1, <3>2, Constants_ DEF Packets
    <3>4. QED
      BY <3>3
  <2>3. QED
    BY <2>1, <2>2, <1>4
<1>6. ASSUME NEW i \in Slots
      PROVE  /\ frags[i].map = list.fragments[i].map
             /\ frags[i].size = list.fragments[i].size
             /\ frags[i].defined = list.fragments[i].defined
             /\ {x.id : x \in frags[i].pieces} = {x.id : x \in list.fragments[i].pieces}
             /\ \A x \in frags[i].pieces : \E y \in list.fragments[i].pieces :
                    x.age = y.age + 1 /\ y.age \in Nat
  <2>1. list.fragments[i] \in Fragments
    BY <1>3 DEF Lists
  <2>2. frags[i] = [list.fragments[i] EXCEPT !.pieces = Older(list.fragments[i].pieces)]
    OBVIOUS
  <2> HIDE DEF frags
  <2>3. /\ frags[i].map = list.fragments[i].map
        /\ frags[i].size = list.fragments[i].size
        /\ frags[i].defined = list.fragments[i].defined
        /\ frags[i].pieces = Older(list.fragments[i].pieces)
    BY <2>1, <2>2 DEF Fragments
  <2>4. \A y \in list.fragments[i].pieces : /\ [y EXCEPT !.age = @ + 1].age = y.age + 1
                                            /\ [y EXCEPT !.age = @ + 1].id = y.id
                                            /\ y.age \in Nat
    BY <2>1 DEF Fragments, Pieces
  <2>5. {x.id : x \in frags[i].pieces} = {x.id : x \in list.fragments[i].pieces}
    <3>1. ASSUME NEW x \in frags[i].pieces
          PROVE  \E y \in list.fragments[i].pieces : x.id = y.id
      BY <2>3, <2>4 DEF Older
    <3>2. ASSUME NEW y \in list.fragments[i].pieces
          PROVE  \E x \in frags[i].pieces : x.id = y.id
      <4>1. [y EXCEPT !.age = @ + 1] \in frags[i].pieces
        BY <2>3 DEF Older
      <4>2. QED
        BY <4>1, <2>4
    <3>3. QED
      BY <3>1, <3>2
  <2>6. \A x \in frags[i].pieces : \E y \in list.fragments[i].pieces :
            x.age = y.age + 1 /\ y.age \in Nat
    BY <2>3, <2>4 DEF Older
  <2>7. QED
    BY <2>3, <2>5, <2>6
<1>7. list'.seq_id = list.seq_id /\ list'.index = list.index /\ list'.fragments = frags
  BY <1>2, <1>3 DEF Lists
<1> HIDE DEF n, new, frags
<1>8. ASSUME NEW a \in Nat, NEW sz, SizeOf(a, sz, out.size, net)
      PROVE  SizeOf(a + 1, sz, out'.size, net')
  <2>1. ASSUME NEW f \in net', f.age = a + 1
        PROVE  f.size = sz
    BY <2>1, <1>5, <1>8 DEF SizeOf
  <2>2. QED
    BY <2>1 DEF SizeOf
<1>9. SizeInv'
  <2>1. SizeOf(0, size, out'.size, net')
    BY <1>4, <1>5 DEF SizeOf
  <2>2. ASSUME NEW f \in net'
        PROVE  SizeOf(f.age, f.size, out'.size, net')
    BY <2>1, <1>5, <1>8 DEF JInv, SizeInv
  <2>3. ASSUME NEW i \in Slots, NEW x \in frags[i].pieces
        PROVE  SizeOf(x.age, frags[i].size, out'.size, net')
    <3>1. PICK y \in list.fragments[i].pieces : x.age = y.age + 1 /\ y.age \in Nat
      BY <1>6
    <3>2. SizeOf(y.age, list.fragments[i].size, out.size, net)
      BY DEF JInv, SizeInv
    <3>3. SizeOf(y.age + 1, list.fragments[i].size, out'.size, net')
      BY <3>1, <3>2, <1>8
    <3>4. QED
      BY <3>1, <3>3, <1>6
  <2>4. QED
    BY <2>2, <2>3, <1>7 DEF SizeInv
<1>10. ASSUME NEW age \in 0..MaxLate
       PROVE  /\ recent'[age].got # {} =>
                     /\ behind' <= age
                     /\ recent'[age].fate = "open" => InStep' /\ Kept(age)'
              /\ recent'[age].got = 0 .. recent'[age].of - 1 => recent'[age].fate # "open"
  <2>1. CASE age = 0
    <3>1. recent'[age].got = {} /\ recent'[age].of = of
      BY <2>1, <1>1
    <3>2. 0 \in 0 .. of - 1
      BY <1>3, Constants_
    <3>3. QED
      BY <3>1, <3>2
  <2>2. CASE age # 0
    <3> DEFINE a == age - 1
    <3>1. a \in 0..MaxLate /\ age = a + 1
      BY <2>2, Constants_
    <3>2. recent'[age] = recent[a]
      BY <2>2, <1>1
    <3> HIDE DEF a
    <3>3. /\ recent[a].got # {} =>
                 /\ behind <= a
                 /\ recent[a].fate = "open" => InStep /\ Kept(a)
          /\ recent[a].got = 0 .. recent[a].of - 1 => recent[a].fate # "open"
      BY <3>1 DEF JInv, KeptInv, ArrivedIsJoined
    <3>4. ASSUME behind <= a
          PROVE  behind' <= age
      BY <3>1, <3>4, <1>2, <1>3, Constants_
    <3>5. ASSUME InStep
          PROVE  InStep'
      <4>1. behind \in 0 .. N_SEQ_ID - 1
        BY <1>3, Constants_
      <4>2. (n - (behind + 1)) % N_SEQ_ID = (out.seq_id - behind) % N_SEQ_ID
        BY <4>1, <1>3, OneOlder DEF n
      <4>3. QED
        BY <4>2, <3>5, <1>2, <1>4, <1>7 DEF InStep
    <3>6. ASSUME Kept(a)
          PROVE  Kept(age)'
      <4>1. age - behind' = a - behind
        BY <3>1, <1>2, <1>3, Constants_
      <4>2. CASE a - behind >= N_FRAG_BUF
        BY <4>1, <4>2 DEF Kept
      <4>3. ASSUME NEW i \in Slots, a - behind = Position(list, i),
                   Holds(list.fragments[i], recent[a].got, recent[a].of)
            PROVE  Kept(age)'
        <5>1. Position(list', i) = Position(list, i)
          BY <1>7 DEF Position
        <5>2. Holds(list'.fragments[i], recent'[age].got, recent'[age].of)
          BY <4>3, <3>2, <1>6, <1>7 DEF Holds
        <5>3. QED
          BY <5>1, <5>2, <4>1, <4>3 DEF Kept
      <4>4. QED
        BY <3>6, <4>2, <4>3 DEF Kept
    <3>7. QED
      BY <3>2, <3>3, <3>4, <3>5, <3>6
  <2>3. QED
    BY <2>1, <2>2
<1>11. QED
  BY <1>9, <1>10 DEF JInv, KeptInv, ArrivedIsJoined

(* Two facts of linear arithmetic, for steps in which the numbers are long
   expressions.                                                            *)
LEMMA FarFromLower ==
  ASSUME NEW a \in Int, NEW b \in Int, NEW c \in Int, NEW n \in Int, c <= b, a - b >= n
  PROVE  a - c >= n
OBVIOUS

LEMMA SameOffset ==
  ASSUME NEW a \in Int, NEW b \in Int, NEW p \in Int, NEW q \in Int, a = b, a + p = b + q
  PROVE  p = q
OBVIOUS

LEMMA FarOffset ==
  ASSUME NEW a \in Int, NEW b \in Int, NEW c \in Int, NEW p \in Int, NEW n \in Int,
         b + p = a, b + p - c >= n
  PROVE  a - c >= n
OBVIOUS

LEMMA IncomingKeeps == ASSUME IInv, JInv, NEW f \in net, Incoming(f) PROVE JInv'
<1>1. PICK h \in Nat : Window(h)
  BY DEF IInv
<1> DEFINE place == GetBuf(list, f.seq_id)
           old == place.list.fragments[place.slot]
           base == IF Continues(old, f) THEN old ELSE Begun(f)
           frag == Copied(base, f)
           g == NewHead(h, f)
           strays == f.age - behind >= N_FRAG_BUF \/ ~InStep
<1>2. /\ Finds(place, h, f)
      /\ old = Undefined \/ old = list.fragments[place.slot]
      /\ old \in Fragments /\ frag \in Fragments
      /\ \A x \in frag.pieces : x.age = f.age
      /\ net' = net \ {f}
      /\ list'.seq_id = place.list.seq_id /\ list'.index = place.list.index
      /\ list' \in Lists
      /\ list'.fragments = [place.list.fragments EXCEPT
                               ![place.slot] = IF Full(frag) THEN Undefined ELSE frag]
      /\ behind' = IF f.age < behind THEN f.age ELSE behind
  BY <1>1, IncomingIs
<1>3. /\ list \in Lists /\ f \in Packets /\ behind \in 0..MaxBurst
      /\ f.age \in 0..MaxLate /\ f.size \in Sizes /\ f.id \in Bits /\ f.of \in 2..MAX_FRAGS
      /\ f.last <=> f.id = f.of - 1
      /\ f.of = recent[f.age].of
      /\ recent \in [0..MaxLate -> Datagrams]
  BY DEF IInv, TypeOK, Packets, Arriving
<1>4. out' = out
  BY DEF Incoming
<1>5. ASSUME NEW age \in 0..MaxLate
      PROVE  /\ recent'[age].of = recent[age].of
             /\ recent'[age].got = IF age = f.age THEN recent[age].got \union {f.id} ELSE recent[age].got
             /\ recent'[age].fate = "open" =>
                    /\ recent[age].fate = "open"
                    /\ ~strays
                    /\ age = f.age => ~Full(frag)
  <2> DEFINE fate == IF age = f.age /\ Full(frag) THEN "joined"
                     ELSE IF strays THEN "strayed" ELSE recent[age].fate
             got == IF age = f.age THEN recent[age].got \union {f.id} ELSE recent[age].got
  <2>1. recent'[age] = [recent[age] EXCEPT !.got = got, !.fate = fate]
    BY DEF Incoming
  <2>2. recent[age] \in Datagrams
    BY <1>3
  <2>3. recent'[age].of = recent[age].of /\ recent'[age].got = got /\ recent'[age].fate = fate
    <3> HIDE DEF got, fate
    <3> QED BY <2>1, <2>2 DEF Datagrams
  <2>4. fate = "open" => recent[age].fate = "open" /\ ~strays /\ (age = f.age => ~Full(frag))
    <3> HIDE DEF strays, frag
    <3> QED OBVIOUS
  <2>5. QED
    BY <2>3, <2>4
<1>6. /\ Begun(f) \in Fragments /\ Begun(f).defined /\ Begun(f).size = f.size
  BY <1>3, UndefinedFragment DEF Begun, Undefined, Fragments
<1>7. base \in Fragments /\ base.defined /\ base.size = f.size
  BY <1>2, <1>6 DEF Continues
<1>8. frag.size = f.size
  BY <1>7 DEF Copied, Fragments
<1> HIDE DEF place, frag, base, g
<1>9. /\ place.list \in Lists /\ place.slot \in Slots
      /\ place.list.seq_id = (out.seq_id - g) % N_SEQ_ID
      /\ g + Position(place.list, place.slot) = f.age
      /\ \A i \in Slots :
            \/ /\ place.list.fragments[i] = Undefined
               /\ f.age - h < N_FRAG_BUF => h + Position(list, i) - g >= N_FRAG_BUF
            \/ /\ place.list.fragments[i] = list.fragments[i]
               /\ g + Position(place.list, i) = h + Position(list, i)
  BY <1>2 DEF Finds, g
<1>10. \A i \in Slots : /\ Position(list', i) = Position(place.list, i)
                        /\ Position(list', i) \in Int /\ Position(list, i) \in Int
                        /\ Position(list, i) < N_FRAG_BUF
  <2>1. \A i \in Slots : /\ Position(list', i) = Position(place.list, i)
                         /\ Position(list', i) \in Slots /\ Position(list, i) \in Slots
    BY <1>2, <1>3, <1>9, PositionIs DEF Position
  <2>2. \A j \in Slots : j \in Int /\ j < N_FRAG_BUF
    BY Constants_ DEF Slots
  <2>3. QED
    BY <2>1, <2>2
<1>11. ASSUME NEW i \in Slots
       PROVE  list'.fragments[i] = IF i # place.slot THEN place.list.fragments[i]
                                   ELSE IF Full(frag) THEN Undefined ELSE frag
  BY <1>2, <1>9 DEF Lists
<1>12. SizeInv'
  <2>1. ASSUME NEW a, NEW size, SizeOf(a, size, out.size, net) PROVE SizeOf(a, size, out'.size, net')
    BY <2>1, <1>2, <1>4 DEF SizeOf
  <2>2. \A e \in net' : SizeOf(e.age, e.size, out'.size, net')
    BY <2>1, <1>2 DEF JInv, SizeInv
  <2>3. ASSUME NEW i \in Slots, NEW x \in list'.fragments[i].pieces
        PROVE  SizeOf(x.age, list'.fragments[i].size, out'.size, net')
    <3>1. Undefined.pieces = {}
      BY DEF Undefined
    <3>2. CASE i = place.slot
      <4>1. x \in frag.pieces /\ list'.fragments[i] = frag
        BY <3>1, <3>2, <1>11
      <4>2. SizeOf(f.age, f.size, out.size, net)
        BY DEF JInv, SizeInv
      <4>3. QED
        BY <4>1, <4>2, <2>1, <1>2, <1>8
    <3>3. CASE i # place.slot
      BY <3>1, <3>3, <2>1, <1>9, <1>11 DEF JInv, SizeInv
    <3>4. QED
      BY <3>2, <3>3
  <2>4. QED
    BY <2>2, <2>3 DEF SizeInv
<1>13. ASSUME ~strays
       PROVE  /\ InStep' /\ h = behind /\ g = behind' /\ f.age - h < N_FRAG_BUF
              /\ behind' \in Int /\ behind \in Int /\ f.age \in Int /\ N_FRAG_BUF \in Int
  <2>1. h = behind
    BY <1>1, <1>13, InStepIs DEF IInv
  <2>2. g = behind' /\ behind' \in Int
    BY <2>1, <1>2, <1>3, <1>13, Constants_ DEF g, NewHead
  <2>3. InStep'
    BY <2>2, <1>2, <1>4, <1>9 DEF InStep
  <2>4. QED
    BY <2>1, <2>2, <2>3, <1>3, <1>13, Constants_
<1>14. ASSUME NEW age \in 0..MaxLate
       PROVE  recent'[age].got # {} => behind' <= age
  <2>1. CASE age = f.age
    BY <2>1, <1>2, <1>3, Constants_
  <2>2. CASE age # f.age
    <3>1. recent'[age].got # {} => behind <= age
      BY <2>2, <1>5 DEF JInv, KeptInv
    <3>2. behind' <= behind /\ behind' \in Int /\ behind \in Int /\ age \in Int
      BY <1>2, <1>3, Constants_
    <3>3. QED
      BY <3>1, <3>2
  <2>3. QED
    BY <2>1, <2>2
<1> DEFINE got == recent[f.age].got
<1>15. ASSUME ~strays, recent[f.age].fate = "open"
       PROVE  Holds(frag, got \union {f.id}, f.of)
  <2>1. CASE got = {}
    BY <2>1, <1>3, <1>7, CopiedHolds DEF frag
  <2>2. CASE got # {}
    <3>1. behind <= f.age /\ Kept(f.age)
      BY <2>2, <1>3, <1>15 DEF JInv, KeptInv
    <3>2. PICK i \in Slots : /\ f.age - behind = Position(list, i)
                             /\ Holds(list.fragments[i], got, f.of)
      BY <3>1, <1>3, <1>15 DEF Kept
    <3>3. behind' = behind
      BY <3>1, <1>2, <1>3, Constants_
    <3>4. /\ g = h /\ h = behind /\ f.age - h < N_FRAG_BUF
          /\ behind \in Int /\ f.age \in Int /\ N_FRAG_BUF \in Int
      BY <3>3, <1>13, <1>15
    <3>5. ~(h + Position(list, i) - g >= N_FRAG_BUF)
      BY <3>4, <1>10
    <3>6. /\ place.list.fragments[i] = list.fragments[i]
          /\ g + Position(place.list, i) = h + Position(list, i)
      BY <3>4, <3>5, <1>9
    <3>7. Position(place.list, i) = Position(place.list, place.slot)
      <4>1. Position(place.list, i) = Position(list, i)
        <5>1. Position(place.list, i) \in Int /\ Position(list, i) \in Int
          BY <1>10
        <5>2. g \in Int /\ h \in Int
          BY <3>4
        <5> HIDE DEF g, got, strays
        <5>3. QED
          BY <5>1, <5>2, <3>4, <3>6, SameOffset
      <4>2. Position(place.list, place.slot) = f.age - behind
        BY <3>4, <1>9, <1>10
      <4>3. QED
        BY <4>1, <4>2, <3>2
    <3>8. i = place.slot
      BY <3>7, <1>9, OnePosition
    <3>9. PICK x \in list.fragments[i].pieces : TRUE
      BY <2>2, <3>2 DEF Holds
    <3>10. x.age = f.age
      <4>1. x.age = h + Position(list, i)
        BY <1>1 DEF Window
      <4>2. QED
        BY <4>1, <3>2, <3>4, <1>10
    <3>11. list.fragments[i].size = f.size
      BY <3>10 DEF JInv, SizeInv, SizeOf
    <3>12. base = list.fragments[i]
      BY <3>2, <3>6, <3>8, <3>11 DEF base, Continues, Holds
    <3>13. QED
      BY <3>2, <3>12, <1>3, <1>7, CopiedHolds DEF frag
  <2>3. QED
    BY <2>1, <2>2
<1>16. ASSUME NEW age \in 0..MaxLate, recent'[age].fate = "open",
              recent'[age].got # {}
       PROVE  InStep' /\ Kept(age)'
  <2>1. recent[age].fate = "open" /\ ~strays
    BY <1>5, <1>16
  <2>2. /\ InStep' /\ h = behind /\ g = behind' /\ f.age - h < N_FRAG_BUF
        /\ behind' \in Int /\ behind \in Int /\ f.age \in Int /\ N_FRAG_BUF \in Int
        /\ age \in Int
    BY <2>1, <1>13, Constants_
  <2>3. CASE age = f.age
    <3>1. list'.fragments[place.slot] = frag
      BY <2>3, <1>5, <1>9, <1>11, <1>16
    <3>2. Holds(frag, recent'[age].got, recent'[age].of)
      <4>1. recent'[age].got = got \union {f.id} /\ recent'[age].of = f.of
        BY <2>3, <1>3, <1>5
      <4>2. Holds(frag, got \union {f.id}, f.of)
        BY <2>1, <2>3, <1>15
      <4> HIDE DEF got
      <4> QED
        BY <4>1, <4>2
    <3>3. age - behind' = Position(list', place.slot)
      <4>1. behind' + Position(list', place.slot) = f.age
        BY <2>2, <1>9, <1>10
      <4>2. Position(list', place.slot) \in Int
        BY <1>9, <1>10
      <4>3. QED
        BY <4>1, <4>2, <2>2, <2>3
    <3>4. QED
      BY <3>1, <3>2, <3>3, <2>2, <1>9 DEF Kept
  <2>4. CASE age # f.age
    <3>1. recent'[age].got = recent[age].got /\ recent'[age].of = recent[age].of
      BY <2>4, <1>5
    <3>2. behind <= age /\ Kept(age)
      BY <3>1, <2>1, <1>16 DEF JInv, KeptInv
    <3>3. behind' <= behind
      <4>1. behind' = IF f.age < behind THEN f.age ELSE behind
        BY <1>2
      <4> QED
        BY <4>1, <2>2
    <3>4. ASSUME age - behind >= N_FRAG_BUF
          PROVE  Kept(age)'
      <4>1. age - behind' >= N_FRAG_BUF
        <5>1. age \in Int /\ behind \in Int /\ behind' \in Int /\ N_FRAG_BUF \in Int
          BY <2>2
        <5>2. QED
          BY <5>1, <3>3, <3>4, FarFromLower
      <4>2. QED
        BY <4>1 DEF Kept
    <3>5. ASSUME NEW i \in Slots, age - behind = Position(list, i),
                 Holds(list.fragments[i], recent[age].got, recent[age].of)
          PROVE  Kept(age)'
      <4>1. h + Position(list, i) = age
        BY <3>5, <2>2, <1>10
      <4>2. CASE h + Position(list, i) - g >= N_FRAG_BUF
        <5>1. age - behind' >= N_FRAG_BUF
          <6>1. /\ Position(list, i) \in Int /\ g \in Int /\ h \in Int
            BY <2>2, <1>10
          <6>2. age - g >= N_FRAG_BUF
            BY <6>1, <4>1, <4>2, <2>2, FarOffset
          <6>3. QED
            BY <6>2, <2>2
        <5>2. QED
          BY <5>1 DEF Kept
      <4>3. CASE ~(h + Position(list, i) - g >= N_FRAG_BUF)
        <5>1. /\ place.list.fragments[i] = list.fragments[i]
              /\ g + Position(place.list, i) = age
          BY <4>1, <4>3, <2>2, <1>9
        <5>2. i # place.slot
          BY <5>1, <2>4, <1>9
        <5>3. list'.fragments[i] = list.fragments[i]
          BY <5>1, <5>2, <1>11
        <5>4. age - behind' = Position(list', i)
          BY <5>1, <2>2, <1>10
        <5>5. QED
          BY <5>3, <5>4, <3>1, <3>5 DEF Kept
      <4>4. QED
        BY <4>2, <4>3
    <3>6. QED
      BY <3>2, <3>4, <3>5, <2>2 DEF Kept
  <2>5. QED
    BY <2>3, <2>4
<1>17. ASSUME NEW age \in 0..MaxLate, recent'[age].got = 0 .. recent'[age].of - 1
       PROVE  recent'[age].fate # "open"
  <2> SUFFICES ASSUME recent'[age].fate = "open" PROVE FALSE
    OBVIOUS
  <2>1. recent[age].fate = "open" /\ ~strays /\ (age = f.age => ~Full(frag))
    BY <1>5
  <2>2. CASE age = f.age
    <3>1. Holds(frag, 0 .. f.of - 1, f.of)
      <4>1. recent'[age].of = f.of /\ recent'[age].got = got \union {f.id}
        BY <2>2, <1>3, <1>5
      <4>2. got \union {f.id} = 0 .. f.of - 1
        BY <4>1, <1>17
      <4>3. Holds(frag, got \union {f.id}, f.of)
        BY <2>1, <2>2, <1>15
      <4>4. QED
        BY <4>2, <4>3
    <3>2. Full(frag)
      BY <3>1, <1>2, <1>3, HoldsAll DEF frag
    <3>3. QED
      BY <3>2, <2>1, <2>2
  <2>3. CASE age # f.age
    BY <2>1, <2>3, <1>5, <1>17 DEF JInv, ArrivedIsJoined
  <2>4. QED
    BY <2>2, <2>3
<1>18. QED
  BY <1>12, <1>14, <1>16, <1>17 DEF JInv, KeptInv, ArrivedIsJoined

LEMMA NextKeeps == IInv /\ JInv /\ [Next]_vars => JInv'
<1> SUFFICES ASSUME IInv, JInv, [Next]_vars PROVE JInv'
  OBVIOUS
<1>1. CASE Outgoing
  BY <1>1, OutgoingKeeps
<1>2. CASE ReadyToSend
  BY <1>2, ReadyToSendKeeps
<1>3. ASSUME NEW f \in net, Lose(f) PROVE JInv'
  BY <1>3, LoseKeeps
<1>4. ASSUME NEW f \in net, Incoming(f) PROVE JInv'
  BY <1>4, IncomingKeeps
<1>5. CASE Housekeeping
  BY <1>5, HousekeepingKeeps
<1>6. CASE Tick
  BY <1>6, TickKeeps
<1>7. CASE UNCHANGED vars
  BY <1>7 DEF vars, JInv, SizeInv, SizeOf, KeptInv, Kept, Position, InStep, ArrivedIsJoined
<1>8. QED
  BY <1>1, <1>2, <1>3, <1>4, <1>5, <1>6, <1>7 DEF Next

(* A datagram all of whose fragments arrive is joined, unless its buffer   *)
(* is reaped after a pause of the time to live or a fragment strayed:      *)
(* fragment_list_get_buf gives its buffer to no other datagram before.     *)
THEOREM ArrivedAreJoined == Spec => []ArrivedIsJoined
<1>1. Init => IInv /\ JInv
  BY InitIInv, InitJInv
<1>2. IInv /\ JInv /\ [Next]_vars => IInv' /\ JInv'
  BY NextStep, NextKeeps
<1>3. JInv => ArrivedIsJoined
  BY DEF JInv
<1>4. QED
  BY <1>1, <1>2, <1>3, PTL DEF Spec
=============================================================================
