--------------------------- MODULE UdpServerProofs ----------------------------
(***************************************************************************)
(* Proofs about UdpServer, for any number of clients and frames and any    *)
(* length of the queues: the types of the state, one owner of the shared   *)
(* buffers, no dangling instance, no packet of the link read in vain, and  *)
(* the order of the frames.                                                *)
(*                                                                         *)
(* The server sends the frames of the tun to each client in the order in   *)
(* which lwIP sent them, and none twice: a frame that goes directly to its *)
(* client never overtakes one that waits in the queue.                     *)
(***************************************************************************)
EXTENDS UdpServer, SequenceTheorems, FiniteSetTheorems, TLAPS

---------------------------------------------------------------------------
\* The queue.

Items == [instance : Clients \union {NoClient}, frame : Nat]

States == {"closed", "new", "up"}

Packets == Nat \union {Nothing}

\* What r has is at the end of queue, in its order; its items may have been
\* dereferenced.
Thins(queue, r) ==
    \E k \in 0 .. Len(queue) :
        /\ Len(r) = Len(queue) - k
        /\ \A i \in 1 .. Len(r) :
              /\ r[i].frame = queue[i + k].frame
              /\ r[i].instance \in {queue[i + k].instance, NoClient}

LEMMA DereferenceItems ==
    ASSUME NEW queue \in Seq(Items), NEW gone \in SUBSET Clients
    PROVE  /\ Dereference(queue, gone) \in Seq(Items)
           /\ Len(Dereference(queue, gone)) = Len(queue)
           /\ \A i \in 1 .. Len(queue) :
                 /\ Dereference(queue, gone)[i].frame = queue[i].frame
                 /\ Dereference(queue, gone)[i].instance =
                        IF queue[i].instance \in gone THEN NoClient ELSE queue[i].instance
<1> DEFINE D == Dereference(queue, gone)
<1>1. Len(queue) \in Nat /\ DOMAIN queue = 1 .. Len(queue)
  OBVIOUS
<1>2. D = [i \in 1 .. Len(queue) |->
              IF queue[i].instance \in gone THEN [queue[i] EXCEPT !.instance = NoClient]
              ELSE queue[i]]
  BY <1>1 DEF Dereference
<1>3. ASSUME NEW i \in 1 .. Len(queue)
      PROVE  /\ D[i] \in Items
             /\ D[i].frame = queue[i].frame
             /\ D[i].instance =
                    IF queue[i].instance \in gone THEN NoClient ELSE queue[i].instance
  <2>1. queue[i] \in Items
    OBVIOUS
  <2>2. D[i] = IF queue[i].instance \in gone THEN [queue[i] EXCEPT !.instance = NoClient]
               ELSE queue[i]
    BY <1>2
  <2> QED BY <2>1, <2>2 DEF Items
<1>4. D \in Seq(Items) /\ Len(D) = Len(queue)
  BY <1>1, <1>2, <1>3
<1> QED BY <1>3, <1>4

LEMMA DereferenceThins ==
    ASSUME NEW queue \in Seq(Items), NEW gone \in SUBSET Clients
    PROVE  Thins(queue, Dereference(queue, gone))
<1>1. /\ Len(queue) \in Nat
      /\ 0 \in 0 .. Len(queue)
      /\ Len(Dereference(queue, gone)) = Len(queue) - 0
  BY DereferenceItems
<1>2. \A i \in 1 .. Len(queue) : i + 0 = i
  BY <1>1
<1> QED BY <1>1, <1>2, DereferenceItems DEF Thins

\* What is left after item i is a sequence of items, shorter than the queue.
LEMMA AfterItems ==
    ASSUME NEW queue \in Seq(Items), NEW i \in 0 .. Len(queue)
    PROVE  /\ AfterItem(queue, i) \in Seq(Items)
           /\ Len(AfterItem(queue, i)) = Len(queue) - i
           /\ \A j \in 1 .. Len(queue) - i : AfterItem(queue, i)[j] = queue[j + i]
           /\ Thins(queue, AfterItem(queue, i))
<1>1. Len(queue) \in Nat /\ i \in Nat
  OBVIOUS
<1>2. AfterItem(queue, i) = SubSeq(queue, i + 1, Len(queue))
  BY DEF AfterItem
<1>3. \A j \in (i + 1) .. Len(queue) : queue[j] \in Items
  BY <1>1
<1>4. AfterItem(queue, i) \in Seq(Items) /\ Len(AfterItem(queue, i)) = Len(queue) - i
  BY <1>1, <1>2, <1>3
<1>5. \A j \in 1 .. Len(queue) - i : AfterItem(queue, i)[j] = queue[j + i]
  BY <1>1, <1>2
<1> QED BY <1>1, <1>4, <1>5 DEF Thins

\* A packet for each client of S is a sequence of items with one frame and
\* different instances.
LEMMA CopiesItems ==
    ASSUME NEW S \in SUBSET Clients, NEW frame \in Nat, NEW items \in Copies(S, frame)
    PROVE  /\ items \in Seq(Items)
           /\ \A i \in 1 .. Len(items) : items[i].frame = frame /\ items[i].instance \in S
           /\ \A i, j \in 1 .. Len(items) :
                 items[i].instance = items[j].instance => i = j
<1>1. Cardinality(S) \in Nat
  BY ClientsAssumption, FS_Subset, FS_CardinalityType
<1>2. items \in [1 .. Cardinality(S) -> [instance : S, frame : {frame}]]
  BY DEF Copies
<1>3. [instance : S, frame : {frame}] \subseteq Items
  BY DEF Items
<1>4. items \in Seq(Items) /\ Len(items) = Cardinality(S)
  BY <1>1, <1>2, <1>3
<1>5. \A i \in 1 .. Len(items) : items[i] \in [instance : S, frame : {frame}]
  BY <1>2, <1>4
<1>6. \A i, j \in 1 .. Len(items) : items[i].instance = items[j].instance => i = j
  BY <1>2, <1>4 DEF Copies
<1> QED BY <1>4, <1>5, <1>6

\* mbuf_add_item drops the oldest packets, and no more than fit are left.
LEMMA AddItemsFit ==
    ASSUME NEW queue \in Seq(Items), NEW items \in Seq(Items),
           NEW added \in AddItems(queue, items)
    PROVE  /\ added \in Seq(Items)
           /\ Len(added) <= MbufSize
           /\ Thins(queue \o items, added)
<1> DEFINE all == queue \o items
<1>1. /\ all \in Seq(Items)
      /\ Len(all) \in Nat
      /\ DOMAIN all = 1 .. Len(all)
  OBVIOUS
<1>2. PICK i \in Referenced(all) \union {0} :
          Len(all) - i <= MbufSize /\ added = AfterItem(all, i)
  BY DEF AddItems
<1>3. i \in 0 .. Len(all)
  BY <1>1, <1>2 DEF Referenced
<1> HIDE DEF all
<1>4. added \in Seq(Items) /\ Len(added) = Len(all) - i /\ Thins(all, added)
  BY <1>1, <1>2, <1>3, AfterItems
<1> QED BY <1>2, <1>4 DEF all

---------------------------------------------------------------------------
\* multi_process_post.

\* Every packet that is not pending's own is gone: only c may have output.
OthersIdle(c) ==
    /\ pending \in {c, NoClient}
    /\ \A d \in Clients \ {c} : toLink[d] = Nothing /\ ~ toTun[d]

\* Where there is at most one owner of the buffers, a client that is pending, or
\* any client when none is, shares them with nobody.
LEMMA OneOwner ==
    ASSUME TypeOK, OnlyPendingHasOutput, NEW c \in Clients, pending \in {c, NoClient}
    PROVE  OthersIdle(c)
BY NoClientAssumption DEF TypeOK, OnlyPendingHasOutput, HasOutput, OthersIdle

\* What multi_process_post leaves, for a live instance and a queue that fits.
LEMMA PostKeeps ==
    ASSUME TypeOK, NEW c \in Clients, OthersIdle(c),
           NEW link \in Packets, NEW tun \in BOOLEAN,
           NEW queue \in Seq(Items), Len(queue) <= MbufSize,
           NEW members \in [Clients -> States], members[c] # "closed",
           NEW signalled \in BOOLEAN,
           Post(c, link, tun, queue, members, signalled)
    PROVE  /\ client' \in [Clients -> States]
           /\ toLink' \in [Clients -> Packets]
           /\ toTun' \in [Clients -> BOOLEAN]
           /\ pending' \in Clients \union {NoClient}
           /\ mbuf' \in Seq(Items)
           /\ Len(mbuf') <= MbufSize
           /\ due' \subseteq Clients
           /\ OnlyPendingHasOutput'
           /\ NoDanglingInstance'
           /\ Thins(queue, mbuf')
           /\ \A d \in Clients : toLink'[d] # Nothing => d = c /\ toLink'[d] \in {link, Own}
<1>1. PICK p \in Posts(c, link, tun, members, signalled) :
          LET gone == {d \in Clients : members[d] = "closed"} \union p.dups
                          \union (IF p.closes THEN {c} ELSE {})
              link2 == IF p.adds THEN Own ELSE link
          IN
          /\ client' = [d \in Clients |->
                          IF d \in gone THEN "closed"
                          ELSE IF d = c /\ p.establishes THEN "up" ELSE members[d]]
          /\ toLink' = [d \in Clients |->
                          IF d \in gone THEN Nothing ELSE IF d = c THEN link2 ELSE toLink[d]]
          /\ toTun' = [d \in Clients |->
                          IF d \in gone THEN FALSE ELSE IF d = c THEN tun ELSE toTun[d]]
          /\ Close(gone, queue)
          /\ pending' = IF c \notin gone THEN Pend(c, link2 # Nothing \/ tun)
                        ELSE IF pending \in gone THEN NoClient ELSE pending
          /\ due' = (IF p.selects THEN due \ {c} ELSE due) \ gone
  BY DEF Post
<1> DEFINE gone == {d \in Clients : members[d] = "closed"} \union p.dups
                       \union (IF p.closes THEN {c} ELSE {})
           link2 == IF p.adds THEN Own ELSE link
<1>2. gone \in SUBSET Clients
  BY DEF Posts
<1>3. link2 \in Packets /\ link2 \in {link, Own}
  BY DEF Packets, Own
<1>4. /\ client' = [d \in Clients |->
                      IF d \in gone THEN "closed"
                      ELSE IF d = c /\ p.establishes THEN "up" ELSE members[d]]
      /\ toLink' = [d \in Clients |->
                      IF d \in gone THEN Nothing ELSE IF d = c THEN link2 ELSE toLink[d]]
      /\ toTun' = [d \in Clients |->
                      IF d \in gone THEN FALSE ELSE IF d = c THEN tun ELSE toTun[d]]
      /\ mbuf' = Dereference(queue, gone)
      /\ pending' = IF c \notin gone THEN (IF link2 # Nothing \/ tun THEN c ELSE NoClient)
                    ELSE IF pending \in gone THEN NoClient ELSE pending
      /\ due' = (IF p.selects THEN due \ {c} ELSE due) \ gone
  BY <1>1 DEF Close, Pend
<1>5. \A d \in Clients \ gone : members[d] # "closed"
  OBVIOUS
<1> HIDE DEF gone, link2
<1>6. client' \in [Clients -> States]
  BY <1>4 DEF States
<1>7. Live' = Clients \ gone
  BY <1>2, <1>4, <1>5 DEF Live
<1>8. toLink' \in [Clients -> Packets] /\ toTun' \in [Clients -> BOOLEAN]
  BY <1>3, <1>4 DEF TypeOK, Packets
<1>9. \A d \in Clients \ {c} : toLink'[d] = Nothing /\ ~ toTun'[d]
  BY <1>4 DEF OthersIdle
<1>10. c \in gone => pending' = NoClient /\ toLink'[c] = Nothing /\ ~ toTun'[c]
  BY <1>2, <1>4, NoClientAssumption DEF OthersIdle
<1>11. c \notin gone => /\ toLink'[c] = link2
                        /\ toTun'[c] = tun
                        /\ pending' = IF link2 # Nothing \/ tun THEN c ELSE NoClient
  BY <1>4
<1>12. pending' \in (Clients \ gone) \union {NoClient}
  BY <1>10, <1>11
<1>13. OnlyPendingHasOutput'
  <2> SUFFICES ASSUME NEW d \in Clients
               PROVE  (toLink'[d] # Nothing \/ toTun'[d]) <=> pending' = d
    BY DEF OnlyPendingHasOutput, HasOutput
  <2>1. CASE d # c
    BY <2>1, <1>9, <1>10, <1>11, NoClientAssumption
  <2>2. CASE d = c
    BY <2>2, <1>10, <1>11, NoClientAssumption
  <2> QED BY <2>1, <2>2
<1>14. /\ mbuf' \in Seq(Items)
       /\ Len(mbuf') <= MbufSize
       /\ Thins(queue, mbuf')
       /\ DOMAIN mbuf' = 1 .. Len(queue)
       /\ \A i \in 1 .. Len(queue) : mbuf'[i].instance \in (Clients \ gone) \union {NoClient}
  <2>1. \A i \in 1 .. Len(queue) : queue[i].instance \in Clients \union {NoClient}
    <3>1. \A i \in 1 .. Len(queue) : queue[i] \in Items
      OBVIOUS
    <3> QED BY <3>1 DEF Items
  <2>2. /\ mbuf' \in Seq(Items)
        /\ Len(mbuf') = Len(queue)
        /\ \A i \in 1 .. Len(queue) :
              mbuf'[i].instance = IF queue[i].instance \in gone THEN NoClient
                                  ELSE queue[i].instance
    BY <1>2, <1>4, DereferenceItems
  <2>3. Thins(queue, mbuf')
    BY <1>2, <1>4, DereferenceThins
  <2>4. DOMAIN mbuf' = 1 .. Len(queue)
    BY <2>2
  <2>5. \A i \in 1 .. Len(queue) : mbuf'[i].instance \in (Clients \ gone) \union {NoClient}
    BY <2>1, <2>2
  <2> QED BY <2>2, <2>3, <2>4, <2>5
<1>15. due' \subseteq Clients \ gone
  BY <1>4 DEF TypeOK
<1>16. NoDanglingInstance'
  BY <1>7, <1>12, <1>14, <1>15 DEF NoDanglingInstance, Referenced
<1>17. \A d \in Clients : toLink'[d] # Nothing => d = c /\ toLink'[d] \in {link, Own}
  BY <1>3, <1>9, <1>10, <1>11
<1> QED BY <1>6, <1>8, <1>12, <1>13, <1>14, <1>15, <1>16, <1>17

---------------------------------------------------------------------------
\* The invariant.

\* The turns that are left in an iteration: what is read was asked for when no
\* instance was pending and nothing was to be written.
Turns ==
    /\ "SR" \in todo => "TR" \in todo /\ pending = NoClient
    /\ "TR" \in todo => "SW" \notin todo /\ "TW" \notin todo

\* The inductive invariant.
IInv == TypeOK /\ OnlyPendingHasOutput /\ NoDanglingInstance /\ Turns

\* Init establishes the invariant.
LEMMA InitIInv == Init => IInv
<1> SUFFICES ASSUME Init PROVE IInv
  OBVIOUS
<1>1. << >> \in Seq(Items) /\ << >> \in Seq(Frames) /\ Len(<< >>) = 0
  OBVIOUS
<1>2. TypeOK
  BY <1>1, QueueAssumption, MbufAssumption
     DEF Init, VpnIfInit, TypeOK, VpnIfTypeOK, Items, Nothing, Events
<1>3. OnlyPendingHasOutput
  BY NoClientAssumption DEF Init, OnlyPendingHasOutput, HasOutput
<1>4. NoDanglingInstance /\ Turns
  BY DEF Init, NoDanglingInstance, Referenced, Turns
<1> QED BY <1>2, <1>3, <1>4 DEF IInv

\* A handler takes its event out of todo, and one that writes has no read after
\* it.
LEMMA TurnTaken ==
    ASSUME IInv, NEW e \in Events, Turn(e)
    PROVE  /\ e \in todo
           /\ todo' = todo \ {e}
           /\ todo' \subseteq Events
           /\ e \in {"SW", "TW"} => "SR" \notin todo' /\ "TR" \notin todo'
           /\ e = "SR" => pending = NoClient /\ "SR" \notin todo'
                          /\ "SW" \notin todo' /\ "TW" \notin todo'
           /\ e = "TR" => "SR" \notin todo' /\ "TR" \notin todo'
<1>1. e \in todo /\ todo' = todo \ {e} /\ \A f \in todo : Rank[e] <= Rank[f]
  BY DEF Turn, IsNext
<1>2. e = "TR" => "SR" \notin todo
  BY <1>1 DEF Rank
<1>3. todo \subseteq Events /\ Turns
  BY DEF IInv, TypeOK
<1> QED BY <1>1, <1>2, <1>3 DEF Turns

\* A handler with nothing to do, or whose assertion fails.
LEMMA IdleKeeps ==
    ASSUME IInv, Idle \/ Fails, VpnIfTypeOK', todo' \subseteq Events, Turns'
    PROVE  IInv'
<1>1. UNCHANGED <<client, toLink, toTun, pending, mbuf, due, sentTo>> /\ running' \in BOOLEAN
  BY DEF Idle, Fails, IInv, TypeOK
<1>2. TypeOK'
  BY <1>1 DEF IInv, TypeOK
<1>3. OnlyPendingHasOutput'
  BY <1>1 DEF IInv, OnlyPendingHasOutput, HasOutput
<1>4. NoDanglingInstance'
  BY <1>1 DEF IInv, NoDanglingInstance, Referenced, Live
<1> QED BY <1>2, <1>3, <1>4 DEF IInv

\* A handler that ends in multi_process_post.
LEMMA PostKeepsIInv ==
    ASSUME IInv, NEW c \in Clients, pending \in {c, NoClient},
           NEW link \in Packets, NEW tun \in BOOLEAN,
           NEW queue \in Seq(Items), Len(queue) <= MbufSize,
           NEW members \in [Clients -> States], members[c] # "closed",
           NEW signalled \in BOOLEAN,
           Post(c, link, tun, queue, members, signalled),
           VpnIfTypeOK', todo' \subseteq Events, Turns',
           running' \in BOOLEAN, sentTo' \in [Clients -> Nat]
    PROVE  IInv'
<1>1. OthersIdle(c)
  BY OneOwner DEF IInv
<1>2. TypeOK
  BY DEF IInv
<1>3. /\ client' \in [Clients -> States]
      /\ toLink' \in [Clients -> Packets]
      /\ toTun' \in [Clients -> BOOLEAN]
      /\ pending' \in Clients \union {NoClient}
      /\ mbuf' \in Seq(Items)
      /\ Len(mbuf') <= MbufSize
      /\ due' \subseteq Clients
      /\ OnlyPendingHasOutput'
      /\ NoDanglingInstance'
  BY <1>1, <1>2, PostKeeps
<1>4. TypeOK'
  BY <1>3 DEF TypeOK, States, Packets, Items
<1> QED BY <1>3, <1>4 DEF IInv

---------------------------------------------------------------------------
\* The steps of the loop.

\* With an instance pending there is something to write, and without one
\* something to read or to take from the queue: the wait never times out.
LEMMA StatusOfWait ==
    ASSUME IInv
    PROVE  /\ Status # {}
           /\ Status \subseteq Events
           /\ "SR" \in Status => "TR" \in Status /\ pending = NoClient /\ mbuf = << >>
           /\ "TR" \in Status => /\ "SW" \notin Status /\ "TW" \notin Status
                                 /\ pending = NoClient /\ mbuf = << >>
<1>1. CASE pending # NoClient
  <2>1. pending \in Clients /\ HasOutput(pending)
    BY <1>1 DEF IInv, TypeOK, OnlyPendingHasOutput
  <2>2. Flags = Writes(pending)
    BY <1>1 DEF Flags
  <2>3. Writes(pending) # {} /\ Writes(pending) \subseteq {"SW", "TW"}
    BY <2>1 DEF Writes, HasOutput
  <2> QED BY <2>2, <2>3 DEF Status, Events
<1>2. CASE pending = NoClient /\ mbuf # << >>
  BY <1>2 DEF Status, Flags, Events
<1>3. CASE pending = NoClient /\ mbuf = << >>
  BY <1>3 DEF Status, Flags, Events
<1> QED BY <1>1, <1>2, <1>3

LEMMA WaitKeeps == ASSUME IInv, Wait PROVE IInv'
<1>1. /\ todo' = Status
      /\ IF Status = {} /\ due # {} THEN TRUE ELSE Idle
      /\ UNCHANGED vpnIfVars
  BY DEF Wait
<1>2. Idle
  BY <1>1, StatusOfWait
<1>3. VpnIfTypeOK'
  BY <1>1 DEF vpnIfVars, VpnIfTypeOK, IInv, TypeOK
<1>4. todo' \subseteq Events /\ Turns'
  BY <1>1, <1>2, StatusOfWait DEF Idle, Turns
<1> QED BY <1>2, <1>3, <1>4, IdleKeeps

LEMMA ManagementReadKeeps == ASSUME IInv, ManagementRead PROVE IInv'
<1>1. /\ Turn("MR")
      /\ UNCHANGED vpnIfVars
  BY DEF ManagementRead
<1>2. todo' = todo \ {"MR"} /\ todo' \subseteq Events
  BY <1>1, TurnTaken DEF Events
<1>3. VpnIfTypeOK'
  BY <1>1 DEF vpnIfVars, VpnIfTypeOK, IInv, TypeOK
<1>4. CASE Idle
  <2>1. Turns'
    BY <1>2, <1>4 DEF Idle, IInv, Turns
  <2> QED BY <1>2, <1>3, <1>4, <2>1, IdleKeeps
<1>5. CASE ~ Idle
  <2>1. PICK c \in Live :
            /\ client' = [client EXCEPT ![c] = "closed"]
            /\ toLink' = [toLink EXCEPT ![c] = Nothing]
            /\ toTun' = [toTun EXCEPT ![c] = FALSE]
            /\ Close({c}, mbuf)
            /\ pending' = IF pending = c THEN NoClient ELSE pending
            /\ due' = due \ {c}
            /\ UNCHANGED <<running, sentTo>>
    BY <1>5 DEF ManagementRead
  <2>2. c \in Clients /\ mbuf \in Seq(Items) /\ {c} \in SUBSET Clients
    BY <2>1 DEF Live, IInv, TypeOK, Items
  <2>3. /\ mbuf' = Dereference(mbuf, {c})
        /\ mbuf' \in Seq(Items)
        /\ Len(mbuf') = Len(mbuf)
        /\ \A i \in 1 .. Len(mbuf) :
              mbuf'[i].instance = IF mbuf[i].instance \in {c} THEN NoClient
                                  ELSE mbuf[i].instance
    BY <2>1, <2>2, DereferenceItems DEF Close
  <2>4. TypeOK'
    BY <1>2, <1>3, <2>1, <2>2, <2>3 DEF IInv, TypeOK, Items
  <2>5. OnlyPendingHasOutput'
    <3> SUFFICES ASSUME NEW d \in Clients
                 PROVE  (toLink'[d] # Nothing \/ toTun'[d]) <=> pending' = d
      BY DEF OnlyPendingHasOutput, HasOutput
    <3>1. (toLink[d] # Nothing \/ toTun[d]) <=> pending = d
      BY DEF IInv, OnlyPendingHasOutput, HasOutput
    <3>2. CASE d = c
      BY <2>1, <2>2, <3>2, NoClientAssumption DEF IInv, TypeOK
    <3>3. CASE d # c
      BY <2>1, <2>2, <3>1, <3>3, NoClientAssumption DEF IInv, TypeOK
    <3> QED BY <3>2, <3>3
  <2>6. NoDanglingInstance'
    <3>1. Live' = Live \ {c}
      BY <2>1, <2>2 DEF Live, IInv, TypeOK
    <3>2. DOMAIN mbuf' = 1 .. Len(mbuf) /\ DOMAIN mbuf = 1 .. Len(mbuf)
      BY <2>2, <2>3
    <3>3. ASSUME NEW i \in 1 .. Len(mbuf), mbuf'[i].instance # NoClient
          PROVE  mbuf'[i].instance \in Live \ {c}
      <4>1. mbuf'[i].instance = mbuf[i].instance /\ mbuf[i].instance # c
        BY <2>3, <3>3
      <4>2. mbuf[i].instance \in Live
        BY <3>2, <3>3, <4>1 DEF IInv, NoDanglingInstance, Referenced
      <4> QED BY <4>1, <4>2
    <3>4. pending' \in (Live \ {c}) \union {NoClient} /\ due' \subseteq Live \ {c}
      BY <2>1 DEF IInv, NoDanglingInstance
    <3> QED BY <3>1, <3>2, <3>3, <3>4 DEF NoDanglingInstance, Referenced
  <2>7. Turns'
    BY <1>2, <2>1 DEF IInv, Turns
  <2> QED BY <2>4, <2>5, <2>6, <2>7 DEF IInv
<1> QED BY <1>4, <1>5

LEMMA SendLinkType ==
    ASSUME IInv, NEW c \in Clients, NEW packet \in Packets, SendLink(c, packet)
    PROVE  sentTo' \in [Clients -> Nat]
BY DEF SendLink, IInv, TypeOK, Packets, Own, Nothing

LEMMA SocketWriteKeeps == ASSUME IInv, SocketWrite PROVE IInv'
<1>1. Turn("SW") /\ UNCHANGED vpnIfVars
  BY DEF SocketWrite
<1>2. todo' \subseteq Events /\ Turns'
  BY <1>1, TurnTaken DEF Events, Turns
<1>3. VpnIfTypeOK'
  BY <1>1 DEF vpnIfVars, VpnIfTypeOK, IInv, TypeOK
<1>4. /\ mbuf \in Seq(Items) /\ Len(mbuf) <= MbufSize /\ Len(mbuf) \in Nat
      /\ DOMAIN mbuf = 1 .. Len(mbuf)
      /\ client \in [Clients -> States] /\ toTun \in [Clients -> BOOLEAN]
      /\ toLink \in [Clients -> Packets]
      /\ running \in BOOLEAN /\ Nothing \in Packets /\ MbufSize \in Nat
  BY MbufAssumption DEF IInv, TypeOK, Items, States, Packets
<1>5. CASE pending # NoClient
  <2>1. pending \in Clients /\ client[pending] # "closed"
    BY <1>5 DEF IInv, TypeOK, NoDanglingInstance, Live
  <2>2. /\ SendLink(pending, toLink[pending])
        /\ Post(pending, Nothing, toTun[pending], mbuf, client, FALSE)
        /\ UNCHANGED running
    BY <1>5 DEF SocketWrite
  <2>3. toLink[pending] \in Packets
    BY <1>4, <2>1
  <2>4. sentTo' \in [Clients -> Nat]
    BY <2>1, <2>2, <2>3, SendLinkType
  <2>5. toTun[pending] \in BOOLEAN
    BY <1>4, <2>1
  <2> QED BY <1>2, <1>3, <1>4, <2>1, <2>2, <2>4, <2>5, PostKeepsIInv
<1>6. CASE pending = NoClient /\ Referenced(mbuf) = {}
  <2>1. mbuf' = << >> /\ UNCHANGED <<client, toLink, toTun, pending, due, running, sentTo>>
    BY <1>6 DEF SocketWrite
  <2>2. TypeOK'
    BY <1>2, <1>3, <1>4, <2>1 DEF IInv, TypeOK
  <2>3. OnlyPendingHasOutput' /\ NoDanglingInstance'
    BY <2>1 DEF IInv, OnlyPendingHasOutput, HasOutput, NoDanglingInstance, Referenced, Live
  <2> QED BY <1>2, <2>2, <2>3 DEF IInv
<1>7. CASE pending = NoClient /\ Referenced(mbuf) # {}
  <2>1. PICK i \in DOMAIN mbuf :
            /\ IsFirst(mbuf, i)
            /\ \E packet \in {mbuf[i].frame, Nothing} : SendLink(mbuf[i].instance, packet)
            /\ Post(mbuf[i].instance, Nothing, toTun[mbuf[i].instance],
                    AfterItem(mbuf, i), client, FALSE)
            /\ UNCHANGED running
    BY <1>7 DEF SocketWrite
  <2> DEFINE c == mbuf[i].instance
  <2>2. mbuf[i] \in Items /\ i \in 0 .. Len(mbuf) /\ i \in Referenced(mbuf)
    BY <1>4, <2>1 DEF IsFirst
  <2>3. c \in Live
    BY <2>2 DEF IInv, NoDanglingInstance
  <2>4. c \in Clients /\ client[c] # "closed" /\ toTun[c] \in BOOLEAN
    BY <1>4, <2>3 DEF Live
  <2>5. mbuf[i].frame \in Packets
    BY <2>2 DEF Items, Packets
  <2>6. sentTo' \in [Clients -> Nat]
    BY <1>4, <2>1, <2>4, <2>5, SendLinkType
  <2>7. AfterItem(mbuf, i) \in Seq(Items) /\ Len(AfterItem(mbuf, i)) <= MbufSize
    BY <1>4, <2>2, AfterItems
  <2> HIDE DEF c
  <2>8. Post(c, Nothing, toTun[c], AfterItem(mbuf, i), client, FALSE) /\ running' \in BOOLEAN
    BY <1>4, <2>1 DEF c
  <2> QED BY <1>2, <1>3, <1>4, <1>7, <2>4, <2>6, <2>7, <2>8, PostKeepsIInv
<1> QED BY <1>5, <1>6, <1>7

LEMMA TunWriteKeeps == ASSUME IInv, TunWrite PROVE IInv'
<1>1. Turn("TW")
  BY DEF TunWrite
<1>2. todo' \subseteq Events /\ Turns'
  BY <1>1, TurnTaken DEF Events, Turns
<1>3. CASE pending = NoClient
  <2>1. Fails /\ UNCHANGED vpnIfVars
    BY <1>3 DEF TunWrite
  <2>2. VpnIfTypeOK'
    BY <2>1 DEF vpnIfVars, VpnIfTypeOK, IInv, TypeOK
  <2> QED BY <1>2, <2>1, <2>2, IdleKeeps
<1>4. CASE pending # NoClient
  <2>1. /\ IF toTun[pending] THEN CanWrite /\ qTx' = qTx + 1 ELSE UNCHANGED qTx
        /\ Post(pending, toLink[pending], FALSE, mbuf, client, FALSE)
        /\ UNCHANGED <<running, sentTo, qRx, output, frames>>
    BY <1>4 DEF TunWrite
  <2>2. pending \in Clients /\ client[pending] # "closed"
    BY <1>4 DEF IInv, TypeOK, NoDanglingInstance, Live
  <2>3. VpnIfTypeOK'
    BY <2>1, QueueAssumption DEF VpnIfTypeOK, CanWrite, IInv, TypeOK
  <2>4. /\ mbuf \in Seq(Items) /\ Len(mbuf) <= MbufSize
        /\ client \in [Clients -> States] /\ toLink[pending] \in Packets
        /\ running' \in BOOLEAN /\ sentTo' \in [Clients -> Nat]
    BY <2>1, <2>2 DEF IInv, TypeOK, Items, States, Packets
  <2> QED BY <1>2, <2>1, <2>2, <2>3, <2>4, PostKeepsIInv
<1> QED BY <1>3, <1>4

\* A packet from client c, with the instances that are left in members and what
\* they have queued.
LEMMA FromClientKeeps ==
    ASSUME IInv, NEW c \in Clients, pending = NoClient,
           NEW members \in [Clients -> States], members[c] # "closed",
           NEW queue \in Seq(Items), Len(queue) <= MbufSize,
           FromClient(c, members, queue),
           VpnIfTypeOK', todo' \subseteq Events, Turns'
    PROVE  IInv'
<1>1. PICK tun \in BOOLEAN : Post(c, toLink[c], tun, queue, members, TRUE)
  BY DEF FromClient
<1>2. /\ toLink[c] \in Packets /\ TRUE \in BOOLEAN
      /\ running' \in BOOLEAN /\ sentTo' \in [Clients -> Nat]
  BY DEF FromClient, IInv, TypeOK, Packets
<1> QED BY <1>1, <1>2, PostKeepsIInv

LEMMA ToClientsKeeps ==
    ASSUME IInv, NEW c \in Clients, pending = NoClient,
           NEW S \in SUBSET Clients, NEW tun \in BOOLEAN,
           NEW members \in [Clients -> States], members[c] # "closed",
           NEW queue \in Seq(Items), Len(queue) <= MbufSize,
           ToClients(c, S, tun, members, queue),
           VpnIfTypeOK', todo' \subseteq Events, Turns'
    PROVE  IInv'
<1>1. CASE AddFails(queue)
  BY <1>1, IdleKeeps DEF ToClients
<1>2. CASE ~ AddFails(queue)
  <2>0. PICK items \in Copies(S, Own) : \E added \in AddItems(queue, items) :
            Post(c, toLink[c], tun, added, members, TRUE)
    BY <1>2 DEF ToClients
  <2>1. PICK added \in AddItems(queue, items) : Post(c, toLink[c], tun, added, members, TRUE)
    BY <2>0
  <2>2. items \in Seq(Items)
    BY CopiesItems DEF Own
  <2>3. added \in Seq(Items) /\ Len(added) <= MbufSize
    BY <2>2, AddItemsFit
  <2>4. /\ toLink[c] \in Packets /\ TRUE \in BOOLEAN
        /\ running' \in BOOLEAN /\ sentTo' \in [Clients -> Nat]
    BY <1>2 DEF ToClients, IInv, TypeOK, Packets
  <2> QED BY <2>1, <2>3, <2>4, PostKeepsIInv
<1> QED BY <1>1, <1>2

LEMMA SocketReadKeeps == ASSUME IInv, SocketRead PROVE IInv'
<1>1. Turn("SR") /\ UNCHANGED vpnIfVars
  BY DEF SocketRead
<1>2. /\ pending = NoClient /\ todo' \subseteq Events
      /\ "SR" \notin todo' /\ "SW" \notin todo' /\ "TW" \notin todo'
  BY <1>1, TurnTaken DEF Events
<1>3. Turns'
  BY <1>2 DEF Turns
<1>4. VpnIfTypeOK'
  BY <1>1 DEF vpnIfVars, VpnIfTypeOK, IInv, TypeOK
<1>5. /\ mbuf \in Seq(Items) /\ Len(mbuf) <= MbufSize
      /\ client \in [Clients -> States]
      /\ running \in BOOLEAN /\ sentTo \in [Clients -> Nat]
      /\ Nothing \in Packets /\ Nothing \in Packets /\ TRUE \in BOOLEAN /\ FALSE \in BOOLEAN
  BY DEF IInv, TypeOK, Items, States, Packets
<1>6. CASE Idle
  BY <1>2, <1>3, <1>4, <1>6, IdleKeeps
<1>7. ASSUME NEW c \in Clients, NewClient(c) PROVE IInv'
  <2> DEFINE members == [client EXCEPT ![c] = "new"]
  <2>1. members \in [Clients -> States] /\ members[c] # "closed"
    BY <1>5 DEF States
  <2>2. Post(c, Nothing, FALSE, mbuf, members, TRUE) /\ UNCHANGED <<running, sentTo>>
    BY <1>7 DEF NewClient
  <2> HIDE DEF members
  <2> QED BY <1>2, <1>3, <1>4, <1>5, <2>1, <2>2, PostKeepsIInv
<1>8. ASSUME NEW c \in Live, FromLive(c) PROVE IInv'
  <2> DEFINE Members(closed) == [d \in Clients |-> IF d \in closed THEN "closed" ELSE client[d]]
             Others(closed) == Live \ (closed \union {c})
  <2>1. PICK closed \in Floats(c) :
            \/ FromClient(c, Members(closed), Dereference(mbuf, closed))
            \/ \E d \in Others(closed) :
                  ToClients(c, {d}, FALSE, Members(closed), Dereference(mbuf, closed))
            \/ ToClients(c, Others(closed), TRUE, Members(closed), Dereference(mbuf, closed))
    BY <1>8 DEF FromLive
  <2> DEFINE members == Members(closed)
             queue == Dereference(mbuf, closed)
             others == Others(closed)
  <2>2. c \in Clients /\ client[c] # "closed" /\ Live \subseteq Clients
    BY DEF Live
  <2>3. closed \in SUBSET Clients /\ c \notin closed
    BY <2>2 DEF Floats
  <2>4. members \in [Clients -> States] /\ members[c] # "closed"
    BY <1>5, <2>2, <2>3 DEF States
  <2>5. queue \in Seq(Items) /\ Len(queue) <= MbufSize
    BY <1>5, <2>3, DereferenceItems
  <2>6. others \in SUBSET Clients /\ \A d \in others : {d} \in SUBSET Clients
    BY <2>2
  <2>7. \/ FromClient(c, members, queue)
        \/ \E d \in others : ToClients(c, {d}, FALSE, members, queue)
        \/ ToClients(c, others, TRUE, members, queue)
    BY <2>1
  <2> HIDE DEF members, queue, others
  <2>8. CASE FromClient(c, members, queue)
    BY <1>2, <1>3, <1>4, <2>2, <2>4, <2>5, <2>8, FromClientKeeps
  <2>9. ASSUME NEW d \in others, ToClients(c, {d}, FALSE, members, queue) PROVE IInv'
    BY <1>2, <1>3, <1>4, <1>5, <2>2, <2>4, <2>5, <2>6, <2>9, ToClientsKeeps
  <2>10. CASE ToClients(c, others, TRUE, members, queue)
    BY <1>2, <1>3, <1>4, <1>5, <2>2, <2>4, <2>5, <2>6, <2>10, ToClientsKeeps
  <2> QED BY <2>7, <2>8, <2>9, <2>10
<1> QED BY <1>6, <1>7, <1>8 DEF SocketRead

\* A packet queue that grows by copies of a frame of the tun for the live
\* instances.
LEMMA BroadcastKeeps ==
    ASSUME IInv, NEW number \in Nat, NEW items \in Copies(Live, number),
           mbuf' \in AddItems(mbuf, items),
           UNCHANGED <<client, toLink, toTun, pending, due, running, sentTo>>,
           VpnIfTypeOK', todo' \subseteq Events, Turns'
    PROVE  IInv'
<1>1. Live \in SUBSET Clients /\ mbuf \in Seq(Items)
  BY DEF Live, IInv, TypeOK, Items
<1>2. /\ items \in Seq(Items)
      /\ \A i \in 1 .. Len(items) : items[i].instance \in Live
  BY <1>1, CopiesItems
<1>3. mbuf' \in Seq(Items) /\ Len(mbuf') <= MbufSize /\ Thins(mbuf \o items, mbuf')
  BY <1>1, <1>2, AddItemsFit
<1>4. TypeOK'
  BY <1>3 DEF IInv, TypeOK, Items
<1>5. OnlyPendingHasOutput'
  BY DEF IInv, OnlyPendingHasOutput, HasOutput
<1>6. Live' = Live
  BY DEF Live
<1>7. \A i \in 1 .. Len(mbuf \o items) :
          (mbuf \o items)[i].instance \in Live \union {NoClient}
  <2>1. \A i \in 1 .. Len(mbuf) : mbuf[i].instance \in Live \union {NoClient}
    BY <1>1 DEF IInv, NoDanglingInstance, Referenced
  <2> QED BY <1>1, <1>2, <2>1
<1>8. \A i \in 1 .. Len(mbuf') : mbuf'[i].instance \in Live \union {NoClient}
  <2>1. PICK k \in 0 .. Len(mbuf \o items) :
            /\ Len(mbuf') = Len(mbuf \o items) - k
            /\ \A i \in 1 .. Len(mbuf') :
                  mbuf'[i].instance \in {(mbuf \o items)[i + k].instance, NoClient}
    BY <1>3 DEF Thins
  <2>2. Len(mbuf \o items) \in Nat /\ Len(mbuf') \in Nat
    BY <1>1, <1>2, <1>3
  <2>3. \A i \in 1 .. Len(mbuf') : i + k \in 1 .. Len(mbuf \o items)
    BY <2>1, <2>2
  <2> QED BY <1>7, <2>1, <2>3
<1>9. DOMAIN mbuf' = 1 .. Len(mbuf')
  BY <1>3
<1>10. NoDanglingInstance'
  BY <1>6, <1>8, <1>9 DEF IInv, NoDanglingInstance, Referenced
<1> QED BY <1>4, <1>5, <1>10 DEF IInv

LEMMA TunReadKeeps == ASSUME IInv, TunRead PROVE IInv'
<1>1. Turn("TR") /\ UNCHANGED <<qTx, output, frames>>
  BY DEF TunRead
<1>2. todo' \subseteq Events /\ "SR" \notin todo' /\ "TR" \notin todo'
  BY <1>1, TurnTaken DEF Events
<1>3. Turns'
  BY <1>2 DEF Turns
<1>4. CASE qRx = << >>
  <2>1. Idle /\ UNCHANGED qRx
    BY <1>4 DEF TunRead
  <2>2. VpnIfTypeOK'
    BY <1>1, <2>1 DEF VpnIfTypeOK, IInv, TypeOK
  <2> QED BY <1>2, <1>3, <2>1, <2>2, IdleKeeps
<1>5. CASE qRx # << >>
  <2> DEFINE dest == Head(qRx).dest
             number == Head(qRx).number
  <2>1. qRx' = Tail(qRx)
    BY <1>5 DEF TunRead
  <2>2. qRx \in Seq(Frames)
    BY DEF IInv, TypeOK, VpnIfTypeOK
  <2>3. Head(qRx) \in Frames /\ Tail(qRx) \in Seq(Frames)
    BY <1>5, <2>2
  <2>4. dest \in Clients \union {Everyone} /\ number \in Nat
    BY <2>3 DEF Frames
  <2>5. VpnIfTypeOK'
    BY <1>1, <2>1, <2>3 DEF VpnIfTypeOK, IInv, TypeOK
  <2>6. \/ Idle
        \/ Fails
        \/ /\ \E items \in Copies(Live, number) : mbuf' \in AddItems(mbuf, items)
           /\ UNCHANGED <<client, toLink, toTun, pending, due, running, sentTo>>
        \/ /\ pending = NoClient /\ dest \in Live
           /\ \E link \in {number, Nothing} :
                 Post(dest, link, toTun[dest], mbuf, client, FALSE)
           /\ UNCHANGED <<running, sentTo>>
    BY <1>5 DEF TunRead
  <2> HIDE DEF dest, number
  <2>7. CASE Idle \/ Fails
    BY <1>2, <1>3, <2>5, <2>7, IdleKeeps
  <2>8. CASE /\ \E items \in Copies(Live, number) : mbuf' \in AddItems(mbuf, items)
             /\ UNCHANGED <<client, toLink, toTun, pending, due, running, sentTo>>
    BY <1>2, <1>3, <2>4, <2>5, <2>8, BroadcastKeeps
  <2>9. CASE /\ pending = NoClient /\ dest \in Live
             /\ \E link \in {number, Nothing} :
                   Post(dest, link, toTun[dest], mbuf, client, FALSE)
             /\ UNCHANGED <<running, sentTo>>
    <3>1. PICK link \in {number, Nothing} : Post(dest, link, toTun[dest], mbuf, client, FALSE)
      BY <2>9
    <3>2. dest \in Clients /\ client[dest] # "closed" /\ link \in Packets
      BY <2>4, <2>9 DEF Live, Packets
    <3>3. /\ mbuf \in Seq(Items) /\ Len(mbuf) <= MbufSize
          /\ client \in [Clients -> States] /\ toTun[dest] \in BOOLEAN
          /\ running' \in BOOLEAN /\ sentTo' \in [Clients -> Nat]
          /\ FALSE \in BOOLEAN
      BY <2>9, <3>2 DEF IInv, TypeOK, Items, States, Packets
    <3> QED BY <1>2, <1>3, <2>5, <2>9, <3>1, <3>2, <3>3, PostKeepsIInv
  <2> QED BY <2>6, <2>7, <2>8, <2>9
<1> QED BY <1>4, <1>5

---------------------------------------------------------------------------
\* The other tasks, and the clock.

LEMMA OtherTasksKeep == ASSUME IInv, OtherTasks PROVE IInv'
<1>1. UNCHANGED serverVars
  BY DEF OtherTasks
<1>2. /\ qRx \in Seq(Frames) /\ output \in Seq(Frames) /\ frames \in Nat /\ qTx \in 0 .. QSize
      /\ QSize \in Nat
  BY QueueAssumption DEF IInv, TypeOK, VpnIfTypeOK
<1>3. VpnIfTypeOK'
  <2>1. CASE \E dest \in Clients \union {Everyone} : StackOutput(dest)
    <3>1. PICK dest \in Clients \union {Everyone} : StackOutput(dest)
      BY <2>1
    <3> DEFINE frame == [dest |-> dest, number |-> frames + 1]
    <3>2. frame \in Frames /\ frames' = frames + 1 /\ qTx' = qTx
      BY <1>2, <3>1 DEF Frames, StackOutput
    <3>3. \/ qRx' = Append(qRx, frame) /\ output' = output
          \/ output' = <<frame>> /\ qRx' = qRx
      BY <3>1 DEF StackOutput
    <3> HIDE DEF frame
    <3>4. Append(qRx, frame) \in Seq(Frames) /\ <<frame>> \in Seq(Frames)
      BY <1>2, <3>2
    <3>5. qRx' \in Seq(Frames) /\ output' \in Seq(Frames)
      BY <1>2, <3>3, <3>4
    <3>6. qTx' \in 0 .. QSize /\ frames' \in Nat
      BY <1>2, <3>2
    <3> QED BY <3>5, <3>6 DEF VpnIfTypeOK
  <2>2. CASE StackResumes
    BY <1>2, <2>2 DEF StackResumes, VpnIfTypeOK
  <2>3. CASE Input
    BY <1>2, <2>3 DEF Input, InputMayRun, VpnIfTypeOK
  <2> QED BY <2>1, <2>2, <2>3 DEF OtherTasks
<1>4. TypeOK'
  BY <1>1, <1>3 DEF IInv, TypeOK, serverVars
<1>5. OnlyPendingHasOutput' /\ NoDanglingInstance' /\ Turns'
  BY <1>1 DEF IInv, OnlyPendingHasOutput, HasOutput, NoDanglingInstance, Referenced, Live,
              Turns, serverVars
<1> QED BY <1>4, <1>5 DEF IInv

LEMMA TickKeeps == ASSUME IInv, NEW c \in Clients, Tick(c) PROVE IInv'
<1>1. /\ c \in Live
      /\ due' = due \union {c}
      /\ UNCHANGED <<vpnIfVars, client, toLink, toTun, pending, mbuf, todo, running, sentTo>>
  BY DEF Tick
<1>2. TypeOK'
  BY <1>1 DEF IInv, TypeOK, vpnIfVars, VpnIfTypeOK
<1>3. OnlyPendingHasOutput' /\ NoDanglingInstance' /\ Turns'
  BY <1>1 DEF IInv, OnlyPendingHasOutput, HasOutput, NoDanglingInstance, Referenced, Live, Turns
<1> QED BY <1>2, <1>3 DEF IInv

LEMMA StutterKeeps == ASSUME IInv, UNCHANGED vars PROVE IInv'
<1>1. TypeOK'
  BY DEF IInv, TypeOK, vars, vpnIfVars, serverVars, VpnIfTypeOK
<1>2. OnlyPendingHasOutput' /\ NoDanglingInstance' /\ Turns'
  BY DEF IInv, OnlyPendingHasOutput, HasOutput, NoDanglingInstance, Referenced, Live, Turns,
         vars, serverVars
<1> QED BY <1>1, <1>2 DEF IInv

---------------------------------------------------------------------------
\* The theorems.

\* Every step preserves the invariant.
LEMMA NextIInv == IInv /\ [Next]_vars => IInv'
<1> SUFFICES ASSUME IInv, [Next]_vars PROVE IInv'
  OBVIOUS
<1>1. CASE Loop
  BY <1>1, WaitKeeps, ManagementReadKeeps, SocketWriteKeeps, TunWriteKeeps,
     SocketReadKeeps, TunReadKeeps DEF Loop
<1>2. CASE OtherTasks
  BY <1>2, OtherTasksKeep
<1>3. CASE \E c \in Clients : Tick(c)
  BY <1>3, TickKeeps
<1>4. CASE UNCHANGED vars
  BY <1>4, StutterKeeps
<1> QED BY <1>1, <1>2, <1>3, <1>4 DEF Next

\* The invariant holds throughout.
THEOREM Invariance == Spec => []IInv
<1> QED BY InitIInv, NextIInv, PTL DEF Spec

\* The state keeps its types; in particular the packet queue keeps its bound,
\* whatever is broadcast and whichever instances close.
THEOREM TypeCorrect == Spec => []TypeOK
<1>1. IInv => TypeOK
  BY DEF IInv
<1> QED BY <1>1, Invariance, PTL

\* The buffers the instances share have one owner, the pending instance.
THEOREM OneOwnerOfBuffers == Spec => []OnlyPendingHasOutput
<1>1. IInv => OnlyPendingHasOutput
  BY DEF IInv
<1> QED BY <1>1, Invariance, PTL

\* Nothing refers to an instance that was closed, however it was closed.
THEOREM NoDanglingPointer == Spec => []NoDanglingInstance
<1>1. IInv => NoDanglingInstance
  BY DEF IInv
<1> QED BY <1>1, Invariance, PTL

\* A packet read from the link always finds no instance pending.
THEOREM LinkReadsWait == Spec => []LinkReadWaits
<1>1. IInv => LinkReadWaits
  BY DEF IInv, Turns, LinkReadWaits
<1> QED BY <1>1, Invariance, PTL

---------------------------------------------------------------------------
\* The invariant.

\* The frames that are still to be read are numbered in their order.
FrameOrder ==
    /\ \A i \in 1 .. Len(qRx) : qRx[i].number \in 1 .. frames
    /\ \A i, j \in 1 .. Len(qRx) : i < j => qRx[i].number < qRx[j].number
    /\ Len(output) <= 1
    /\ \A j \in 1 .. Len(output) :
          /\ output[j].number \in 1 .. frames
          /\ \A i \in 1 .. Len(qRx) : qRx[i].number < output[j].number

\* Number n is behind every frame that is still to be read.
Passed(n) ==
    /\ n <= frames
    /\ \A i \in 1 .. Len(qRx) : n < qRx[i].number
    /\ \A j \in 1 .. Len(output) : n < output[j].number

\* No frame of the tun waits in the queue.
AllOwn(queue) == \A i \in 1 .. Len(queue) : queue[i].frame = Own

\* Each instance's frames of the tun are in order in the queue.
Increasing(queue) ==
    \A i, j \in 1 .. Len(queue) :
        /\ i < j
        /\ queue[i].instance # NoClient
        /\ queue[i].instance = queue[j].instance
        /\ queue[i].frame > Own
        /\ queue[j].frame > Own
        => queue[i].frame < queue[j].frame

\* What waits for an instance comes after what was sent to it.
AfterSent(queue, s) ==
    \A i \in 1 .. Len(queue) :
        queue[i].instance # NoClient /\ queue[i].frame > Own
            => queue[i].frame > s[queue[i].instance]

\* A frame is in to_link only while none waits in the queue.
Direct(c) == toLink[c] > Own => AllOwn(mbuf) /\ toLink[c] > sentTo[c]

\* The tun is read only while no frame waits.
ReadsTun == "TR" \in todo => AllOwn(mbuf) /\ \A c \in Clients : toLink[c] <= Own

\* What waits in the queue has been read.
QueuePassed == \A i \in 1 .. Len(mbuf) : Passed(mbuf[i].frame)

\* The inductive invariant.
OrderInv ==
    /\ IInv
    /\ FrameOrder
    /\ \A c \in Clients : Passed(sentTo[c]) /\ Passed(toLink[c]) /\ Direct(c)
    /\ QueuePassed
    /\ Increasing(mbuf)
    /\ AfterSent(mbuf, sentTo)
    /\ ReadsTun

---------------------------------------------------------------------------
\* The queue.

LEMMA ThinsOrder ==
    ASSUME NEW queue \in Seq(Items), NEW r \in Seq(Items), Thins(queue, r),
           NEW s \in [Clients -> Nat]
    PROVE  /\ AllOwn(queue) => AllOwn(r)
           /\ Increasing(queue) => Increasing(r)
           /\ AfterSent(queue, s) => AfterSent(r, s)
           /\ \A i \in 1 .. Len(r) : \E j \in 1 .. Len(queue) : r[i].frame = queue[j].frame
<1>1. PICK k \in 0 .. Len(queue) :
          /\ Len(r) = Len(queue) - k
          /\ \A i \in 1 .. Len(r) :
                /\ r[i].frame = queue[i + k].frame
                /\ r[i].instance \in {queue[i + k].instance, NoClient}
  BY DEF Thins
<1>2. \A i \in 1 .. Len(r) : i + k \in 1 .. Len(queue)
  BY <1>1
<1>3. AllOwn(queue) => AllOwn(r)
  BY <1>1, <1>2 DEF AllOwn
<1>4. ASSUME Increasing(queue) PROVE Increasing(r)
  <2> SUFFICES ASSUME NEW i \in 1 .. Len(r), NEW j \in 1 .. Len(r), i < j,
                      r[i].instance # NoClient, r[i].instance = r[j].instance,
                      r[i].frame > Own, r[j].frame > Own
               PROVE  r[i].frame < r[j].frame
    BY DEF Increasing
  <2>1. i + k < j + k
    BY <1>1
  <2>2. /\ queue[i + k].instance = r[i].instance /\ queue[j + k].instance = r[j].instance
        /\ queue[i + k].frame = r[i].frame /\ queue[j + k].frame = r[j].frame
    BY <1>1
  <2> QED BY <1>2, <1>4, <2>1, <2>2 DEF Increasing
<1>5. ASSUME AfterSent(queue, s) PROVE AfterSent(r, s)
  <2> SUFFICES ASSUME NEW i \in 1 .. Len(r), r[i].instance # NoClient, r[i].frame > Own
               PROVE  r[i].frame > s[r[i].instance]
    BY DEF AfterSent
  <2>1. queue[i + k].instance = r[i].instance /\ queue[i + k].frame = r[i].frame
    BY <1>1
  <2> QED BY <1>2, <1>5, <2>1 DEF AfterSent
<1>6. \A i \in 1 .. Len(r) : \E j \in 1 .. Len(queue) : r[i].frame = queue[j].frame
  BY <1>1, <1>2
<1> QED BY <1>3, <1>4, <1>5, <1>6

\* Without a frame of the tun there is nothing to put in order.
LEMMA AllOwnOrder ==
    ASSUME NEW queue \in Seq(Items), AllOwn(queue), NEW s
    PROVE  Increasing(queue) /\ AfterSent(queue, s)
BY DEF AllOwn, Increasing, AfterSent, Own

\* Neither nothing nor a packet of OpenVPN's own is ahead of a frame.
LEMMA OwnPassed == FrameOrder /\ frames \in Nat => Passed(Own) /\ Passed(Nothing)
BY DEF FrameOrder, Passed, Own, Nothing

---------------------------------------------------------------------------
\* The two ways in which a step of the loop may change the state.

\* What is passed stays so, and so do the numbers of the frames.
KeepsFrames == FrameOrder' /\ \A n \in Int : Passed(n) => Passed(n)'

LEMMA SameFrames ==
    ASSUME FrameOrder, UNCHANGED <<qRx, output, frames>>
    PROVE  KeepsFrames
BY DEF KeepsFrames, FrameOrder, Passed

LEMMA Numbers ==
    ASSUME IInv
    PROVE  /\ toLink \in [Clients -> Packets] /\ sentTo \in [Clients -> Nat]
           /\ mbuf \in Seq(Items) /\ Len(mbuf) \in Nat /\ Len(mbuf) <= MbufSize
           /\ \A i \in 1 .. Len(mbuf) : mbuf[i] \in Items /\ mbuf[i].frame \in Nat
           /\ frames \in Nat /\ qRx \in Seq(Frames) /\ output \in Seq(Frames)
           /\ client \in [Clients -> States] /\ toTun \in [Clients -> BOOLEAN]
<1>1. mbuf \in Seq(Items)
  BY DEF IInv, TypeOK, Items
<1>2. \A i \in 1 .. Len(mbuf) : mbuf[i] \in Items
  BY <1>1
<1>3. \A i \in 1 .. Len(mbuf) : mbuf[i].frame \in Nat
  BY <1>2 DEF Items
<1> QED BY <1>1, <1>2, <1>3 DEF IInv, TypeOK, VpnIfTypeOK, Packets, States

\* A step that sends nothing: packets may go, and nothing else.
LEMMA QuietOrder ==
    ASSUME OrderInv, IInv', KeepsFrames, sentTo' = sentTo, Thins(mbuf, mbuf'),
           \A c \in Clients : toLink'[c] \in {toLink[c], Nothing},
           "TR" \in todo' =>
               \/ "TR" \in todo
               \/ AllOwn(mbuf) /\ \A c \in Clients : toLink[c] <= Own
    PROVE  OrderInv'
<1>1. IInv
  BY DEF OrderInv
<1>2. mbuf' \in Seq(Items)
  BY DEF IInv, TypeOK, Items
<1>3. /\ AllOwn(mbuf) => AllOwn(mbuf')
      /\ Increasing(mbuf') /\ AfterSent(mbuf', sentTo')
      /\ \A i \in 1 .. Len(mbuf') : \E j \in 1 .. Len(mbuf) : mbuf'[i].frame = mbuf[j].frame
  BY <1>1, <1>2, Numbers, ThinsOrder DEF OrderInv
<1>4. QueuePassed'
  <2> SUFFICES ASSUME NEW i \in 1 .. Len(mbuf') PROVE Passed(mbuf[i].frame)'
    BY DEF QueuePassed
  <2>1. PICK j \in 1 .. Len(mbuf) : mbuf'[i].frame = mbuf[j].frame
    BY <1>3
  <2>2. Passed(mbuf[j].frame) /\ mbuf[j].frame \in Int
    BY <1>1, Numbers DEF OrderInv, QueuePassed
  <2> DEFINE n == mbuf[j].frame
  <2>3. PICK m \in Int : m = mbuf[j].frame
    BY <2>2
  <2>4. Passed(m) /\ m = mbuf'[i].frame
    BY <2>1, <2>2, <2>3
  <2>5. Passed(m)'
    BY <2>4 DEF KeepsFrames
  <2> QED BY <2>4, <2>5 DEF Passed
<1>5. ASSUME NEW c \in Clients PROVE Passed(sentTo[c])' /\ Passed(toLink[c])' /\ Direct(c)'
  <2>1. PICK m \in Int : m = sentTo[c]
    BY <1>1, Numbers
  <2>2. Passed(m)' /\ m = sentTo'[c]
    BY <2>1 DEF OrderInv, KeepsFrames
  <2>3. Passed(sentTo[c])'
    BY <2>2 DEF Passed
  <2>4. PICK k \in Int : k = toLink'[c]
    BY <1>1, Numbers DEF Packets, Nothing
  <2>5. Passed(k)
    BY <1>1, <2>4, Numbers, OwnPassed DEF OrderInv
  <2>6. Passed(toLink[c])'
    BY <2>4, <2>5 DEF KeepsFrames, Passed
  <2>7. Direct(c)'
    <3> SUFFICES ASSUME toLink'[c] > Own PROVE AllOwn(mbuf') /\ toLink'[c] > sentTo'[c]
      BY DEF Direct
    <3>1. toLink'[c] = toLink[c]
      BY DEF Own, Nothing
    <3> QED BY <1>3, <3>1 DEF OrderInv, Direct
  <2> QED BY <2>3, <2>6, <2>7
<1>6. ReadsTun'
  <2> SUFFICES ASSUME "TR" \in todo'
               PROVE  AllOwn(mbuf') /\ \A c \in Clients : toLink'[c] <= Own
    BY DEF ReadsTun
  <2>1. AllOwn(mbuf) /\ \A c \in Clients : toLink[c] <= Own
    BY DEF OrderInv, ReadsTun
  <2> QED BY <1>3, <2>1 DEF Own, Nothing
<1> QED
  BY <1>3, <1>4, <1>5, <1>6 DEF OrderInv, KeepsFrames

\* A step that ends in multi_process_post for c, with a packet of its own or a
\* frame in link, and what is left of the queue.
LEMMA PostOrder ==
    ASSUME OrderInv, IInv', KeepsFrames,
           NEW c \in Clients, pending \in {c, NoClient},
           NEW link \in Packets, NEW tun \in BOOLEAN,
           NEW queue \in Seq(Items), Len(queue) <= MbufSize,
           NEW members \in [Clients -> States], members[c] # "closed",
           NEW signalled \in BOOLEAN,
           Post(c, link, tun, queue, members, signalled),
           Increasing(queue), AfterSent(queue, sentTo'),
           \A i \in 1 .. Len(queue) : \E n \in Int : n = queue[i].frame /\ Passed(n)',
           \A d \in Clients : \E n \in Int : n = sentTo'[d] /\ Passed(n)',
           Passed(link)',
           link > Own => AllOwn(queue) /\ link > sentTo'[c],
           "TR" \in todo' => AllOwn(queue) /\ link <= Own
    PROVE  OrderInv'
<1>1. IInv
  BY DEF OrderInv
<1>2. TypeOK /\ OthersIdle(c)
  BY <1>1, OneOwner DEF IInv
<1>3. /\ Thins(queue, mbuf')
      /\ \A d \in Clients : toLink'[d] # Nothing => d = c /\ toLink'[d] \in {link, Own}
  BY <1>2, PostKeeps
<1>4. mbuf' \in Seq(Items) /\ sentTo' \in [Clients -> Nat] /\ frames' \in Nat
      /\ toLink' \in [Clients -> Packets]
  BY DEF IInv, TypeOK, VpnIfTypeOK, Items, Packets
<1>5. /\ AllOwn(queue) => AllOwn(mbuf')
      /\ Increasing(mbuf')
      /\ AfterSent(mbuf', sentTo')
      /\ \A i \in 1 .. Len(mbuf') : \E j \in 1 .. Len(queue) : mbuf'[i].frame = queue[j].frame
  BY <1>3, <1>4, ThinsOrder
<1>6. FrameOrder' /\ Passed(Own)' /\ Passed(Nothing)'
  BY <1>4, OwnPassed, SMTT(30) DEF KeepsFrames, FrameOrder, Passed, Own, Nothing
<1>7. QueuePassed'
  <2> SUFFICES ASSUME NEW i \in 1 .. Len(mbuf') PROVE Passed(mbuf[i].frame)'
    BY DEF QueuePassed
  <2>1. PICK j \in 1 .. Len(queue) : mbuf'[i].frame = queue[j].frame
    BY <1>5
  <2>2. PICK n \in Int : n = queue[j].frame /\ Passed(n)'
    OBVIOUS
  <2> QED BY <2>1, <2>2 DEF Passed
<1>8. ASSUME NEW d \in Clients PROVE Passed(sentTo[d])' /\ Passed(toLink[d])' /\ Direct(d)'
  <2>1. Passed(sentTo[d])'
    <3>1. PICK n \in Int : n = sentTo'[d] /\ Passed(n)'
      OBVIOUS
    <3> QED BY <3>1 DEF Passed
  <2>2. toLink'[d] = Nothing \/ (d = c /\ toLink'[d] \in {link, Own})
    BY <1>3
  <2>3. Passed(toLink[d])'
    BY <1>6, <2>2 DEF Passed
  <2>4. Direct(d)'
    <3> SUFFICES ASSUME toLink'[d] > Own PROVE AllOwn(mbuf') /\ toLink'[d] > sentTo'[d]
      BY DEF Direct
    <3>1. d = c /\ toLink'[d] = link
      BY <2>2 DEF Own, Nothing
    <3> QED BY <1>5, <3>1
  <2> QED BY <2>1, <2>3, <2>4
<1>9. ReadsTun'
  <2> SUFFICES ASSUME "TR" \in todo'
               PROVE  AllOwn(mbuf') /\ \A d \in Clients : toLink'[d] <= Own
    BY DEF ReadsTun
  <2> QED BY <1>3, <1>5 DEF Own, Nothing
<1> QED
  BY <1>5, <1>6, <1>7, <1>8, <1>9 DEF OrderInv

\* The same when the queue holds no frame of the tun, and nothing was sent.
LEMMA PostOwnOrder ==
    ASSUME OrderInv, IInv', KeepsFrames, sentTo' = sentTo,
           NEW c \in Clients, pending \in {c, NoClient},
           NEW link \in Packets, NEW tun \in BOOLEAN,
           NEW queue \in Seq(Items), Len(queue) <= MbufSize,
           NEW members \in [Clients -> States], members[c] # "closed",
           NEW signalled \in BOOLEAN,
           Post(c, link, tun, queue, members, signalled),
           AllOwn(queue), Passed(link)',
           link > Own => link > sentTo[c],
           "TR" \in todo' => link <= Own
    PROVE  OrderInv'
<1>1. IInv /\ frames' \in Nat
  BY DEF OrderInv, IInv, TypeOK, VpnIfTypeOK
<1>2. Increasing(queue) /\ AfterSent(queue, sentTo')
  BY AllOwnOrder
<1>3. Passed(Own)'
  BY <1>1, OwnPassed DEF KeepsFrames, FrameOrder, Passed, Own
<1>4. \A i \in 1 .. Len(queue) : \E n \in Int : n = queue[i].frame /\ Passed(n)'
  BY <1>3 DEF AllOwn, Own
<1>5. ASSUME NEW d \in Clients PROVE \E n \in Int : n = sentTo'[d] /\ Passed(n)'
  <2>1. PICK n \in Int : n = sentTo[d]
    BY <1>1, Numbers
  <2>2. Passed(n)
    BY <2>1 DEF OrderInv
  <2> QED BY <2>1, <2>2 DEF KeepsFrames
<1> QED
  BY <1>2, <1>4, <1>5, PostOrder

---------------------------------------------------------------------------
\* The steps of the loop.

\* A handler with nothing to do, or whose assertion fails.
LEMMA IdleOrder ==
    ASSUME OrderInv, IInv', KeepsFrames, Idle \/ Fails, "TR" \in todo' => "TR" \in todo
    PROVE  OrderInv'
<1>1. mbuf' = mbuf /\ sentTo' = sentTo /\ toLink' = toLink
  BY DEF Idle, Fails
<1>2. mbuf \in Seq(Items) /\ Len(mbuf) \in Nat
  BY Numbers DEF OrderInv
<1>3. Thins(mbuf, mbuf')
  <2>1. 0 \in 0 .. Len(mbuf) /\ \A i \in 1 .. Len(mbuf) : i + 0 = i
    BY <1>2
  <2> QED BY <1>1, <1>2, <2>1 DEF Thins
<1> QED BY <1>1, <1>3, QuietOrder

LEMMA WaitOrder == ASSUME OrderInv, Wait PROVE OrderInv'
<1>1. IInv /\ IInv'
  BY WaitKeeps DEF OrderInv
<1>2. todo' = Status /\ Idle /\ UNCHANGED vpnIfVars
  BY <1>1, StatusOfWait DEF Wait
<1>3. KeepsFrames
  BY <1>2, SameFrames DEF OrderInv, vpnIfVars
<1>4. mbuf' = mbuf /\ sentTo' = sentTo /\ toLink' = toLink
  BY <1>2 DEF Idle
<1>5. Thins(mbuf, mbuf')
  <2>1. mbuf \in Seq(Items) /\ Len(mbuf) \in Nat
    BY <1>1, Numbers
  <2>2. 0 \in 0 .. Len(mbuf) /\ \A i \in 1 .. Len(mbuf) : i + 0 = i
    BY <2>1
  <2> QED BY <1>4, <2>1, <2>2 DEF Thins
<1>6. "TR" \in todo' => AllOwn(mbuf) /\ \A c \in Clients : toLink[c] <= Own
  <2> SUFFICES ASSUME "TR" \in todo'
               PROVE  AllOwn(mbuf) /\ \A c \in Clients : toLink[c] <= Own
    OBVIOUS
  <2>1. pending = NoClient /\ mbuf = << >>
    BY <1>1, <1>2, StatusOfWait
  <2>2. \A c \in Clients : toLink[c] = Nothing
    BY <1>1, <2>1, NoClientAssumption DEF IInv, OnlyPendingHasOutput, HasOutput
  <2> QED BY <2>1, <2>2 DEF AllOwn, Own, Nothing
<1> QED BY <1>1, <1>3, <1>4, <1>5, <1>6, QuietOrder

LEMMA ManagementReadOrder == ASSUME OrderInv, ManagementRead PROVE OrderInv'
<1>1. IInv /\ IInv'
  BY ManagementReadKeeps DEF OrderInv
<1>2. Turn("MR") /\ UNCHANGED vpnIfVars
  BY DEF ManagementRead
<1>3. todo' \subseteq todo
  BY <1>1, <1>2, TurnTaken DEF Events
<1>4. KeepsFrames
  BY <1>2, SameFrames DEF OrderInv, vpnIfVars
<1>5. CASE Idle
  BY <1>1, <1>3, <1>4, <1>5, IdleOrder
<1>6. CASE ~ Idle
  <2>1. PICK c \in Live :
            /\ toLink' = [toLink EXCEPT ![c] = Nothing]
            /\ Close({c}, mbuf)
            /\ UNCHANGED sentTo
    BY <1>6 DEF ManagementRead
  <2>2. Thins(mbuf, mbuf')
    <3>1. mbuf \in Seq(Items) /\ {c} \in SUBSET Clients
      BY <1>1, <2>1, Numbers DEF Live
    <3> QED BY <2>1, <3>1, DereferenceThins DEF Close
  <2>3. \A d \in Clients : toLink'[d] \in {toLink[d], Nothing}
    BY <1>1, <2>1, Numbers
  <2> QED BY <1>1, <1>3, <1>4, <2>1, <2>2, <2>3, QuietOrder
<1> QED BY <1>5, <1>6

LEMMA SendLinkOrder ==
    ASSUME OrderInv, KeepsFrames, NEW c \in Clients, NEW packet \in Packets,
           Passed(packet), SendLink(c, packet)
    PROVE  /\ \A d \in Clients \ {c} : sentTo'[d] = sentTo[d]
           /\ sentTo'[c] = IF packet > Own THEN packet ELSE sentTo[c]
           /\ \A d \in Clients : \E n \in Int : n = sentTo'[d] /\ Passed(n)'
<1>1. sentTo \in [Clients -> Nat] /\ packet \in Int
  BY Numbers DEF OrderInv, Packets, Nothing
<1>2. /\ \A d \in Clients \ {c} : sentTo'[d] = sentTo[d]
      /\ sentTo'[c] = IF packet > Own THEN packet ELSE sentTo[c]
  BY <1>1 DEF SendLink
<1>3. ASSUME NEW d \in Clients PROVE \E n \in Int : n = sentTo'[d] /\ Passed(n)'
  <2>1. PICK n \in Int : n = sentTo'[d] /\ n \in {packet, sentTo[d]}
    BY <1>1, <1>2
  <2>2. Passed(n)
    BY <2>1 DEF OrderInv
  <2> QED BY <2>1, <2>2 DEF KeepsFrames
<1> QED BY <1>2, <1>3

LEMMA SocketWriteOrder ==
    ASSUME OrderInv, SocketWrite
    PROVE  /\ OrderInv'
           /\ \A d \in Clients : sentTo'[d] # sentTo[d] => sentTo'[d] > sentTo[d]
<1>1. IInv /\ IInv'
  BY SocketWriteKeeps DEF OrderInv
<1>2. Turn("SW") /\ UNCHANGED vpnIfVars
  BY DEF SocketWrite
<1>3. "TR" \notin todo'
  BY <1>1, <1>2, TurnTaken DEF Events
<1>4. KeepsFrames
  BY <1>2, SameFrames DEF OrderInv, vpnIfVars
<1>5. /\ mbuf \in Seq(Items) /\ Len(mbuf) <= MbufSize /\ Len(mbuf) \in Nat
      /\ DOMAIN mbuf = 1 .. Len(mbuf)
      /\ \A i \in 1 .. Len(mbuf) : mbuf[i] \in Items /\ mbuf[i].frame \in Nat
      /\ client \in [Clients -> States] /\ toTun \in [Clients -> BOOLEAN]
      /\ toLink \in [Clients -> Packets] /\ sentTo \in [Clients -> Nat]
      /\ Nothing \in Packets /\ ~ (Nothing > Own) /\ FALSE \in BOOLEAN
      /\ sentTo' \in [Clients -> Nat]
  BY <1>1, Numbers DEF Packets, Own, Nothing, IInv, TypeOK
<1>6. frames \in Nat /\ FrameOrder /\ frames' \in Nat /\ FrameOrder'
  BY <1>1, <1>4 DEF IInv, TypeOK, VpnIfTypeOK, OrderInv, KeepsFrames
<1>7. Passed(Nothing) /\ Passed(Nothing)'
  BY <1>4, <1>6, OwnPassed DEF KeepsFrames, Nothing
<1>8. CASE pending # NoClient
  <2> DEFINE c == pending
  <2>1. c \in Clients /\ client[c] # "closed"
    BY <1>1, <1>8 DEF IInv, TypeOK, NoDanglingInstance, Live
  <2>2. /\ SendLink(c, toLink[c])
        /\ Post(c, Nothing, toTun[c], mbuf, client, FALSE)
    BY <1>8 DEF SocketWrite
  <2>3. toLink[c] \in Packets /\ toTun[c] \in BOOLEAN /\ Passed(toLink[c]) /\ Direct(c)
    BY <1>5, <2>1 DEF OrderInv
  <2>4. /\ \A d \in Clients \ {c} : sentTo'[d] = sentTo[d]
        /\ sentTo'[c] = IF toLink[c] > Own THEN toLink[c] ELSE sentTo[c]
        /\ \A d \in Clients : \E n \in Int : n = sentTo'[d] /\ Passed(n)'
    BY <1>4, <2>1, <2>2, <2>3, SendLinkOrder
  <2>5. Increasing(mbuf) /\ AfterSent(mbuf, sentTo')
    <3>1. CASE toLink[c] > Own
      BY <1>5, <2>3, <3>1, AllOwnOrder DEF Direct
    <3>2. CASE ~ (toLink[c] > Own)
      <4>1. sentTo' = sentTo
        BY <1>5, <2>1, <2>4, <3>2
      <4> QED BY <4>1 DEF OrderInv
    <3> QED BY <3>1, <3>2
  <2>6. \A i \in 1 .. Len(mbuf) : \E n \in Int : n = mbuf[i].frame /\ Passed(n)'
    BY <1>4, <1>5, SMTT(30) DEF OrderInv, QueuePassed, KeepsFrames
  <2>7. OrderInv'
    BY <1>1, <1>3, <1>4, <1>5, <1>7, <2>1, <2>2, <2>3, <2>4, <2>5, <2>6, PostOrder
  <2>8. \A d \in Clients : sentTo'[d] # sentTo[d] => sentTo'[d] > sentTo[d]
    BY <2>3, <2>4 DEF Direct
  <2> QED BY <2>7, <2>8
<1>9. CASE pending = NoClient /\ Referenced(mbuf) = {}
  <2>1. mbuf' = << >> /\ sentTo' = sentTo /\ toLink' = toLink
    BY <1>9 DEF SocketWrite
  <2>2. Thins(mbuf, mbuf')
    BY <1>5, <2>1 DEF Thins
  <2> QED BY <1>1, <1>3, <1>4, <2>1, <2>2, QuietOrder
<1>10. CASE pending = NoClient /\ Referenced(mbuf) # {}
  <2>1. PICK i \in DOMAIN mbuf :
            /\ IsFirst(mbuf, i)
            /\ \E packet \in {mbuf[i].frame, Nothing} : SendLink(mbuf[i].instance, packet)
            /\ Post(mbuf[i].instance, Nothing, toTun[mbuf[i].instance],
                    AfterItem(mbuf, i), client, FALSE)
    BY <1>10 DEF SocketWrite
  <2> DEFINE c == mbuf[i].instance
             rest == AfterItem(mbuf, i)
  <2>2. i \in 1 .. Len(mbuf) /\ i \in 0 .. Len(mbuf) /\ i \in Referenced(mbuf)
    BY <1>5, <2>1 DEF IsFirst
  <2>3. c \in Clients /\ client[c] # "closed" /\ toTun[c] \in BOOLEAN /\ c # NoClient
    BY <1>1, <1>5, <2>2, NoClientAssumption DEF IInv, NoDanglingInstance, Live
  <2>4. PICK packet \in {mbuf[i].frame, Nothing} : SendLink(c, packet)
    BY <2>1
  <2>5. packet \in Packets /\ Passed(packet)
    BY <1>5, <1>7, <2>2 DEF Packets, OrderInv, QueuePassed
  <2>6. packet > Own => packet = mbuf[i].frame /\ packet > sentTo[c]
    BY <1>5, <2>2, <2>3, <2>4 DEF OrderInv, AfterSent
  <2>7. /\ \A d \in Clients \ {c} : sentTo'[d] = sentTo[d]
        /\ sentTo'[c] = IF packet > Own THEN packet ELSE sentTo[c]
        /\ \A d \in Clients : \E n \in Int : n = sentTo'[d] /\ Passed(n)'
    BY <1>4, <2>3, <2>4, <2>5, SendLinkOrder
  <2>8. /\ rest \in Seq(Items)
        /\ Len(rest) = Len(mbuf) - i
        /\ \A j \in 1 .. Len(mbuf) - i : rest[j] = mbuf[j + i]
        /\ Thins(mbuf, rest)
    BY <1>5, <2>2, AfterItems
  <2>9. Len(rest) <= MbufSize
    BY <1>5, <2>2, <2>8, MbufAssumption
  <2> HIDE DEF rest
  <2>10. Increasing(rest)
    BY <1>5, <2>8, ThinsOrder DEF OrderInv
  <2>11. AfterSent(rest, sentTo')
    <3> SUFFICES ASSUME NEW j \in 1 .. Len(rest), rest[j].instance # NoClient,
                        rest[j].frame > Own
                 PROVE  rest[j].frame > sentTo'[rest[j].instance]
      BY DEF AfterSent
    <3> DEFINE k == j + i
               d == rest[j].instance
    <3>1. k \in 1 .. Len(mbuf) /\ i < k /\ rest[j] = mbuf[k]
      BY <1>5, <2>2, <2>8
    <3>2. mbuf[k].frame > sentTo[d]
      BY <3>1 DEF OrderInv, AfterSent
    <3>3. d \in Clients
      BY <1>5, <3>1 DEF Items
    <3>4. CASE d = c /\ packet > Own
      <4>1. mbuf[i].frame < mbuf[k].frame
        BY <2>2, <2>3, <2>6, <3>1, <3>4 DEF OrderInv, Increasing
      <4> QED BY <2>6, <2>7, <3>1, <3>4, <4>1
    <3>5. CASE ~ (d = c /\ packet > Own)
      <4>1. sentTo'[d] = sentTo[d]
        BY <2>7, <3>3, <3>5
      <4> QED BY <3>1, <3>2, <4>1
    <3> QED BY <3>4, <3>5
  <2>12. \A j \in 1 .. Len(rest) : \E n \in Int : n = rest[j].frame /\ Passed(n)'
    <3> SUFFICES ASSUME NEW j \in 1 .. Len(rest)
                 PROVE  \E n \in Int : n = rest[j].frame /\ Passed(n)'
      OBVIOUS
    <3>1. j + i \in 1 .. Len(mbuf) /\ rest[j] = mbuf[j + i]
      BY <1>5, <2>2, <2>8
    <3> QED BY <1>4, <1>5, <3>1, SMTT(30) DEF OrderInv, QueuePassed, KeepsFrames
  <2>13. OrderInv'
    <3>1. Post(c, Nothing, toTun[c], rest, client, FALSE)
      BY <2>1 DEF rest
    <3> HIDE DEF c
    <3> QED BY <1>1, <1>3, <1>4, <1>5, <1>7, <1>10, <2>3, <2>7, <2>8, <2>9, <2>10, <2>11,
               <2>12, <3>1, PostOrder
  <2>14. \A d \in Clients : sentTo'[d] # sentTo[d] => sentTo'[d] > sentTo[d]
    BY <2>6, <2>7
  <2> QED BY <2>13, <2>14
<1> QED BY <1>8, <1>9, <1>10

LEMMA TunWriteOrder ==
    ASSUME OrderInv, TunWrite
    PROVE  OrderInv' /\ sentTo' = sentTo
<1>1. IInv /\ IInv'
  BY TunWriteKeeps DEF OrderInv
<1>2. Turn("TW")
  BY DEF TunWrite
<1>3. "TR" \notin todo'
  BY <1>1, <1>2, TurnTaken DEF Events
<1>4. UNCHANGED <<qRx, output, frames>>
  BY DEF TunWrite, vpnIfVars
<1>5. KeepsFrames
  BY <1>4, SameFrames DEF OrderInv
<1>6. CASE pending = NoClient
  <2>1. Fails
    BY <1>6 DEF TunWrite
  <2> QED BY <1>1, <1>3, <1>5, <2>1, IdleOrder DEF Fails
<1>7. CASE pending # NoClient
  <2> DEFINE c == pending
  <2>1. /\ Post(c, toLink[c], FALSE, mbuf, client, FALSE)
        /\ sentTo' = sentTo
    BY <1>7 DEF TunWrite
  <2>2. c \in Clients /\ client[c] # "closed"
    BY <1>1, <1>7 DEF IInv, TypeOK, NoDanglingInstance, Live
  <2>3. /\ mbuf \in Seq(Items) /\ Len(mbuf) <= MbufSize
        /\ client \in [Clients -> States] /\ toLink[c] \in Packets
        /\ sentTo \in [Clients -> Nat]
        /\ FALSE \in BOOLEAN
    BY <1>1, <2>2, Numbers
  <2>4. Increasing(mbuf) /\ AfterSent(mbuf, sentTo')
    BY <2>1 DEF OrderInv
  <2>5. ASSUME NEW i \in 1 .. Len(mbuf) PROVE \E n \in Int : n = mbuf[i].frame /\ Passed(n)'
    <3>1. mbuf[i].frame \in Int /\ Passed(mbuf[i].frame)
      BY <1>1, Numbers DEF OrderInv, QueuePassed
    <3> QED BY <1>5, <3>1 DEF KeepsFrames
  <2>6. ASSUME NEW d \in Clients PROVE \E n \in Int : n = sentTo'[d] /\ Passed(n)'
    <3>1. sentTo[d] \in Int /\ Passed(sentTo[d])
      BY <2>3 DEF OrderInv
    <3> QED BY <1>5, <2>1, <3>1 DEF KeepsFrames
  <2>7. PICK link \in Packets : link = toLink[c]
    BY <2>3
  <2>8. Passed(link)'
    BY <1>5, <2>2, <2>7 DEF OrderInv, KeepsFrames, Packets, Nothing
  <2>9. link > Own => AllOwn(mbuf) /\ link > sentTo'[c]
    BY <2>1, <2>2, <2>7 DEF OrderInv, Direct
  <2>10. Post(c, link, FALSE, mbuf, client, FALSE)
    BY <2>1, <2>7
  <2>11. OrderInv'
    <3> HIDE DEF c
    <3>1. pending \in {c, NoClient}
      BY DEF c
    <3> QED BY <1>1, <1>3, <1>5, <2>2, <2>3, <2>4, <2>5, <2>6, <2>8, <2>9, <2>10, <3>1, PostOrder
  <2> QED BY <2>1, <2>11
<1> QED BY <1>6, <1>7

LEMMA SocketReadOrder ==
    ASSUME OrderInv, SocketRead
    PROVE  OrderInv' /\ sentTo' = sentTo
<1>1. IInv /\ IInv'
  BY SocketReadKeeps DEF OrderInv
<1>2. Turn("SR") /\ UNCHANGED vpnIfVars
  BY DEF SocketRead
<1>3. todo' \subseteq todo /\ pending = NoClient /\ "TR" \in todo
  BY <1>1, <1>2, TurnTaken DEF Events, IInv, Turns
<1>4. KeepsFrames
  BY <1>2, SameFrames DEF OrderInv, vpnIfVars
<1>5. AllOwn(mbuf)
  BY <1>3 DEF OrderInv, ReadsTun
<1>6. /\ mbuf \in Seq(Items) /\ Len(mbuf) <= MbufSize
      /\ client \in [Clients -> States]
      /\ sentTo \in [Clients -> Nat]
      /\ Nothing \in Packets /\ Nothing <= Own /\ ~ (Nothing > Own)
      /\ TRUE \in BOOLEAN /\ FALSE \in BOOLEAN
      /\ frames' \in Nat
  BY <1>1, Numbers, SMTT(30) DEF Packets, Own, Nothing, IInv, TypeOK, VpnIfTypeOK
<1>7. Passed(Nothing)'
  BY <1>4, <1>6, OwnPassed DEF KeepsFrames, FrameOrder, Passed, Nothing
<1>8. \A c \in Clients : toLink[c] = Nothing
  BY <1>1, <1>3, NoClientAssumption DEF IInv, OnlyPendingHasOutput, HasOutput
\* Whatever the packet is, what it adds to the queue is no frame of the tun.
<1>9. ASSUME NEW c \in Clients, NEW tun \in BOOLEAN, sentTo' = sentTo,
             NEW queue \in Seq(Items), Len(queue) <= MbufSize, AllOwn(queue),
             NEW members \in [Clients -> States], members[c] # "closed",
             Post(c, Nothing, tun, queue, members, TRUE)
      PROVE  OrderInv'
  BY <1>1, <1>3, <1>4, <1>6, <1>7, <1>9, PostOwnOrder
<1>10. CASE Idle
  BY <1>1, <1>3, <1>4, <1>10, IdleOrder DEF Idle
<1>11. ASSUME NEW c \in Clients, NewClient(c) PROVE OrderInv' /\ sentTo' = sentTo
  <2> DEFINE members == [client EXCEPT ![c] = "new"]
  <2>1. members \in [Clients -> States] /\ members[c] # "closed"
    BY <1>6 DEF States
  <2>2. Post(c, Nothing, FALSE, mbuf, members, TRUE) /\ sentTo' = sentTo
    BY <1>11 DEF NewClient
  <2> HIDE DEF members
  <2> QED BY <1>5, <1>6, <1>9, <2>1, <2>2
<1>12. ASSUME NEW c \in Live, FromLive(c) PROVE OrderInv' /\ sentTo' = sentTo
  <2> DEFINE Members(closed) == [d \in Clients |-> IF d \in closed THEN "closed" ELSE client[d]]
             Others(closed) == Live \ (closed \union {c})
  <2>1. PICK closed \in Floats(c) :
            \/ FromClient(c, Members(closed), Dereference(mbuf, closed))
            \/ \E d \in Others(closed) :
                  ToClients(c, {d}, FALSE, Members(closed), Dereference(mbuf, closed))
            \/ ToClients(c, Others(closed), TRUE, Members(closed), Dereference(mbuf, closed))
    BY <1>12 DEF FromLive
  <2> DEFINE members == Members(closed)
             queue == Dereference(mbuf, closed)
             others == Others(closed)
  <2>2. c \in Clients /\ client[c] # "closed" /\ Live \subseteq Clients
    BY DEF Live
  <2>3. closed \in SUBSET Clients /\ c \notin closed
    BY <2>2 DEF Floats
  <2>4. members \in [Clients -> States] /\ members[c] # "closed"
    BY <1>6, <2>2, <2>3 DEF States
  <2>5. queue \in Seq(Items) /\ Len(queue) <= MbufSize /\ AllOwn(queue)
    <3>1. queue \in Seq(Items) /\ Len(queue) <= MbufSize
      BY <1>6, <2>3, DereferenceItems
    <3>2. Thins(mbuf, queue)
      BY <1>6, <2>3, DereferenceThins
    <3> HIDE DEF queue
    <3> QED BY <1>5, <1>6, <3>1, <3>2, ThinsOrder
  <2>6. others \in SUBSET Clients /\ \A d \in others : {d} \in SUBSET Clients
    BY <2>2
  <2>7. \/ FromClient(c, members, queue)
        \/ \E d \in others : ToClients(c, {d}, FALSE, members, queue)
        \/ ToClients(c, others, TRUE, members, queue)
    BY <2>1
  <2>8. toLink[c] = Nothing
    BY <1>8, <2>2
  <2> HIDE DEF members, queue, others
  <2>9. CASE FromClient(c, members, queue)
    <3>1. PICK tun \in BOOLEAN : Post(c, Nothing, tun, queue, members, TRUE)
      BY <2>8, <2>9 DEF FromClient
    <3>2. sentTo' = sentTo
      BY <2>9 DEF FromClient
    <3> QED BY <1>9, <2>2, <2>4, <2>5, <3>1, <3>2
  <2>10. ASSUME NEW S \in SUBSET Clients, NEW tun \in BOOLEAN,
                ToClients(c, S, tun, members, queue)
         PROVE  OrderInv' /\ sentTo' = sentTo
    <3>1. CASE AddFails(queue)
      <4>1. Fails
        BY <2>10, <3>1 DEF ToClients
      <4> QED BY <1>1, <1>3, <1>4, <4>1, IdleOrder DEF Fails
    <3>2. CASE ~ AddFails(queue)
      <4>1. PICK items \in Copies(S, Own) : \E added \in AddItems(queue, items) :
                Post(c, Nothing, tun, added, members, TRUE)
        BY <2>8, <2>10, <3>2 DEF ToClients
      <4>2. PICK added \in AddItems(queue, items) : Post(c, Nothing, tun, added, members, TRUE)
        BY <4>1
      <4>3. sentTo' = sentTo
        BY <2>10, <3>2 DEF ToClients
      <4>4. /\ items \in Seq(Items)
            /\ \A i \in 1 .. Len(items) : items[i].frame = Own
        BY CopiesItems, ZenonT(30) DEF Own
      <4>5. added \in Seq(Items) /\ Len(added) <= MbufSize /\ Thins(queue \o items, added)
        BY <2>5, <4>4, AddItemsFit
      <4>6. queue \o items \in Seq(Items) /\ AllOwn(queue \o items)
        BY <2>5, <4>4 DEF AllOwn
      <4>7. AllOwn(added)
        BY <1>6, <4>5, <4>6, ThinsOrder
      <4> QED BY <1>9, <2>2, <2>4, <4>2, <4>3, <4>5, <4>7
    <3> QED BY <3>1, <3>2
  <2> QED BY <1>6, <2>6, <2>7, <2>9, <2>10
<1> QED BY <1>10, <1>11, <1>12 DEF SocketRead, Idle

\* The frame that is read leaves the others in their order, and is behind them.
LEMMA HeadPassed ==
    ASSUME IInv, FrameOrder, qRx # << >>, qRx' = Tail(qRx), UNCHANGED <<output, frames>>
    PROVE  /\ KeepsFrames
           /\ \E n \in Nat : n = Head(qRx).number /\ Passed(n)'
           /\ Head(qRx).number > Own
           /\ \A n \in Int : Passed(n) => n < Head(qRx).number
<1>1. qRx \in Seq(Frames) /\ Len(qRx) \in Nat /\ Len(qRx) > 0 /\ frames \in Nat
      /\ output \in Seq(Frames)
  BY Numbers
<1>2. /\ Head(qRx) = qRx[1]
      /\ Len(Tail(qRx)) = Len(qRx) - 1
      /\ \A i \in 1 .. Len(qRx) - 1 : Tail(qRx)[i] = qRx[i + 1]
      /\ 1 \in 1 .. Len(qRx)
      /\ \A i \in 1 .. Len(qRx) - 1 : i + 1 \in 1 .. Len(qRx) /\ 1 < i + 1
  BY <1>1
<1>3. Head(qRx).number \in 1 .. frames
  BY <1>2 DEF FrameOrder
<1>4. \A i \in 1 .. Len(qRx) : qRx[i].number \in Nat
  BY <1>1 DEF FrameOrder
<1>5. FrameOrder'
  <2>1. \A i \in 1 .. Len(qRx') : qRx'[i].number \in 1 .. frames
    BY <1>2 DEF FrameOrder
  <2>2. \A i, j \in 1 .. Len(qRx') : i < j => qRx'[i].number < qRx'[j].number
    <3> SUFFICES ASSUME NEW i \in 1 .. Len(qRx) - 1, NEW j \in 1 .. Len(qRx) - 1, i < j
                 PROVE  qRx[i + 1].number < qRx[j + 1].number
      BY <1>2
    <3>1. i + 1 < j + 1
      BY <1>1
    <3> QED BY <1>2, <3>1 DEF FrameOrder
  <2>3. \A j \in 1 .. Len(output) : \A i \in 1 .. Len(qRx') : qRx'[i].number < output[j].number
    BY <1>2 DEF FrameOrder
  <2> QED BY <2>1, <2>2, <2>3 DEF FrameOrder
<1>6. ASSUME NEW n \in Int, Passed(n) PROVE Passed(n)'
  BY <1>2, <1>6 DEF Passed
<1>7. PICK n \in Nat : n = Head(qRx).number
  BY <1>3
<1>8. Passed(n)'
  <2>1. n <= frames
    BY <1>1, <1>3, <1>7
  <2>2. \A i \in 1 .. Len(qRx') : n < qRx'[i].number
    BY <1>2, <1>7 DEF FrameOrder
  <2>3. \A j \in 1 .. Len(output) : n < output[j].number
    BY <1>2, <1>7 DEF FrameOrder
  <2> QED BY <2>1, <2>2, <2>3 DEF Passed
<1>9. \A m \in Int : Passed(m) => m < Head(qRx).number
  BY <1>2 DEF Passed
<1> QED BY <1>3, <1>5, <1>6, <1>7, <1>8, <1>9 DEF KeepsFrames, Own

\* Copies of the next frame go behind a queue that holds no frame of the tun.
LEMMA BroadcastOrder ==
    ASSUME OrderInv, IInv', KeepsFrames, sentTo' = sentTo, toLink' = toLink,
           "TR" \in todo, "TR" \notin todo',
           NEW number \in Nat, Passed(number)', number > Own,
           \A n \in Int : Passed(n) => n < number,
           NEW items \in Copies(Live, number), mbuf' \in AddItems(mbuf, items)
    PROVE  OrderInv'
<1> DEFINE all == mbuf \o items
<1>1. IInv /\ Live \in SUBSET Clients
  BY DEF OrderInv, Live
<1>2. /\ mbuf \in Seq(Items) /\ Len(mbuf) \in Nat
      /\ sentTo \in [Clients -> Nat] /\ toLink \in [Clients -> Packets]
  BY <1>1, Numbers
<1>3. /\ items \in Seq(Items) /\ Len(items) \in Nat
      /\ \A i \in 1 .. Len(items) : items[i].frame = number /\ items[i].instance \in Live
      /\ \A i, j \in 1 .. Len(items) : items[i].instance = items[j].instance => i = j
  <2>1. Live \in SUBSET Clients /\ number \in Nat /\ items \in Copies(Live, number)
    BY <1>1
  <2>2. /\ items \in Seq(Items)
        /\ \A i \in 1 .. Len(items) : items[i].frame = number /\ items[i].instance \in Live
        /\ \A i, j \in 1 .. Len(items) : items[i].instance = items[j].instance => i = j
    BY ONLY <2>1, CopiesItems, ClientsAssumption
  <2>3. Len(items) \in Nat
    BY <2>2
  <2> QED BY <2>2, <2>3
<1>4. mbuf' \in Seq(Items) /\ Thins(all, mbuf')
  BY <1>2, <1>3, AddItemsFit
<1>5. AllOwn(mbuf) /\ \A c \in Clients : toLink[c] <= Own
  BY DEF OrderInv, ReadsTun
<1>6. /\ all \in Seq(Items)
      /\ Len(all) = Len(mbuf) + Len(items)
      /\ \A i \in 1 .. Len(mbuf) : all[i] = mbuf[i]
      /\ \A i \in 1 .. Len(items) : all[Len(mbuf) + i] = items[i]
  BY <1>2, <1>3
<1> HIDE DEF all
<1>7. ASSUME NEW i \in 1 .. Len(all)
      PROVE  \/ i <= Len(mbuf) /\ all[i].frame = Own
             \/ /\ i - Len(mbuf) \in 1 .. Len(items)
                /\ all[i] = items[i - Len(mbuf)]
                /\ all[i].frame = number
                /\ all[i].instance \in Live
  <2>1. CASE i <= Len(mbuf)
    BY <1>2, <1>5, <1>6, <2>1 DEF AllOwn
  <2>2. CASE i > Len(mbuf)
    <3>1. i - Len(mbuf) \in 1 .. Len(items) /\ Len(mbuf) + (i - Len(mbuf)) = i
      BY <1>2, <1>3, <1>6, <2>2
    <3> QED BY <1>3, <1>6, <3>1
  <2> QED BY <1>2, <2>1, <2>2
<1>8. Increasing(all)
  <2> SUFFICES ASSUME NEW i \in 1 .. Len(all), NEW j \in 1 .. Len(all), i < j,
                      all[i].instance = all[j].instance,
                      all[i].frame > Own, all[j].frame > Own
               PROVE  FALSE
    BY DEF Increasing
  <2>1. /\ i - Len(mbuf) \in 1 .. Len(items) /\ all[i] = items[i - Len(mbuf)]
        /\ j - Len(mbuf) \in 1 .. Len(items) /\ all[j] = items[j - Len(mbuf)]
    BY <1>7 DEF Own
  <2>2. i - Len(mbuf) = j - Len(mbuf)
    BY <1>3, <2>1
  <2> QED BY <1>2, <2>2
<1>9. AfterSent(all, sentTo')
  <2> SUFFICES ASSUME NEW i \in 1 .. Len(all), all[i].frame > Own
               PROVE  all[i].frame > sentTo[all[i].instance]
    BY DEF AfterSent
  <2>1. all[i].frame = number /\ all[i].instance \in Clients
    BY <1>1, <1>7 DEF Own
  <2>2. Passed(sentTo[all[i].instance]) /\ sentTo[all[i].instance] \in Int
    BY <1>2, <2>1 DEF OrderInv
  <2> QED BY <2>1, <2>2
<1>10. /\ Increasing(mbuf') /\ AfterSent(mbuf', sentTo')
       /\ \A i \in 1 .. Len(mbuf') : \E j \in 1 .. Len(all) : mbuf'[i].frame = all[j].frame
  BY <1>2, <1>4, <1>6, <1>8, <1>9, ThinsOrder
<1>11. /\ FrameOrder' /\ frames' \in Nat
       /\ Passed(Own)'
  <2>1. FrameOrder' /\ frames' \in Nat
    BY DEF KeepsFrames, IInv, TypeOK, VpnIfTypeOK
  <2> QED BY <2>1, OwnPassed DEF FrameOrder, Passed, Own
<1>12. QueuePassed'
  <2> SUFFICES ASSUME NEW i \in 1 .. Len(mbuf') PROVE Passed(mbuf[i].frame)'
    BY DEF QueuePassed
  <2>1. mbuf'[i].frame \in {Own, number}
    BY <1>7, <1>10
  <2> QED BY <1>11, <2>1 DEF Passed, Own
<1>13. ASSUME NEW c \in Clients PROVE Passed(sentTo[c])' /\ Passed(toLink[c])' /\ Direct(c)'
  <2>1. PICK n \in Int, m \in Int : n = sentTo[c] /\ m = toLink[c]
    BY <1>2 DEF Packets, Nothing
  <2>2. Passed(n)' /\ Passed(m)' /\ n = sentTo'[c] /\ m = toLink'[c]
    BY <2>1 DEF OrderInv, KeepsFrames
  <2>3. ~ (toLink'[c] > Own)
    BY <1>2, <1>5 DEF Packets, Own, Nothing
  <2> QED BY <2>2, <2>3 DEF Passed, Direct
<1> QED BY <1>10, <1>11, <1>12, <1>13 DEF OrderInv, ReadsTun

LEMMA TunReadOrder ==
    ASSUME OrderInv, TunRead
    PROVE  OrderInv' /\ sentTo' = sentTo
<1>1. IInv /\ IInv' /\ FrameOrder
  BY TunReadKeeps DEF OrderInv
<1>2. Turn("TR") /\ UNCHANGED <<output, frames>>
  BY DEF TunRead
<1>3. "TR" \in todo /\ "TR" \notin todo' /\ todo' \subseteq todo
  BY <1>1, <1>2, TurnTaken DEF Events
<1>4. CASE qRx = << >>
  <2>1. Idle /\ UNCHANGED qRx
    BY <1>4 DEF TunRead
  <2>2. KeepsFrames
    BY <1>1, <1>2, <2>1, SameFrames
  <2> QED BY <1>1, <1>3, <2>1, <2>2, IdleOrder DEF Idle
<1>5. CASE qRx # << >>
  <2> DEFINE dest == Head(qRx).dest
  <2>1. qRx' = Tail(qRx)
    BY <1>5 DEF TunRead
  <2>2. /\ KeepsFrames
        /\ \E n \in Nat : n = Head(qRx).number /\ Passed(n)'
        /\ Head(qRx).number > Own
        /\ \A n \in Int : Passed(n) => n < Head(qRx).number
    BY <1>1, <1>2, <1>5, <2>1, HeadPassed
  <2>3. PICK number \in Nat : number = Head(qRx).number /\ Passed(number)'
    BY <2>2
  <2>4. \/ Idle
        \/ Fails
        \/ /\ \E items \in Copies(Live, number) : mbuf' \in AddItems(mbuf, items)
           /\ toLink' = toLink /\ sentTo' = sentTo
        \/ /\ pending = NoClient /\ dest \in Live
           /\ \E link \in {number, Nothing} :
                 Post(dest, link, toTun[dest], mbuf, client, FALSE)
           /\ sentTo' = sentTo
    BY <1>5, <2>3 DEF TunRead
  <2> HIDE DEF dest
  <2>5. CASE Idle \/ Fails
    BY <1>1, <1>3, <2>2, <2>5, IdleOrder DEF Idle, Fails
  <2>6. CASE /\ \E items \in Copies(Live, number) : mbuf' \in AddItems(mbuf, items)
             /\ toLink' = toLink /\ sentTo' = sentTo
    BY <1>1, <1>3, <2>2, <2>3, <2>6, BroadcastOrder
  <2>7. CASE /\ pending = NoClient /\ dest \in Live
             /\ \E link \in {number, Nothing} :
                   Post(dest, link, toTun[dest], mbuf, client, FALSE)
             /\ sentTo' = sentTo
    <3>1. PICK link \in {number, Nothing} : Post(dest, link, toTun[dest], mbuf, client, FALSE)
      BY <2>7
    <3>2. dest \in Clients /\ client[dest] # "closed" /\ link \in Packets /\ FALSE \in BOOLEAN
      BY <2>7 DEF Live, Packets
    <3>3. /\ mbuf \in Seq(Items) /\ Len(mbuf) <= MbufSize
          /\ client \in [Clients -> States] /\ toTun[dest] \in BOOLEAN
          /\ sentTo[dest] \in Int
          /\ frames' \in Nat
      <4>1. mbuf \in Seq(Items) /\ Len(mbuf) <= MbufSize /\ sentTo \in [Clients -> Nat] /\ frames \in Nat
        BY <1>1, Numbers
      <4>2. client \in [Clients -> States] /\ toTun \in [Clients -> BOOLEAN]
        BY <1>1, Numbers
      <4>3. dest \in Clients
        BY <3>2
      <4>4. sentTo[dest] \in Int /\ toTun[dest] \in BOOLEAN
        BY <4>1, <4>2, <4>3
      <4> QED BY <1>2, <4>1, <4>2, <4>4
    <3>4. Passed(link)'
      <4>1. Passed(Nothing)'
        <5>1. /\ \A i \in 1 .. Len(qRx') : qRx'[i].number \in 1 .. frames'
              /\ \A j \in 1 .. Len(output') : output'[j].number \in 1 .. frames'
          BY <2>2 DEF KeepsFrames, FrameOrder
        <5>2. -1 <= frames' /\ \A n \in 1 .. frames' : -1 < n
          BY <3>3
        <5> QED BY <5>1, <5>2 DEF Passed, Nothing
      <4> QED BY <2>3, <3>1, <4>1
    <3>5. link > Own => link > sentTo[dest]
      <4>1. Passed(sentTo[dest])
        BY <3>2 DEF OrderInv
      <4> QED BY <2>2, <2>3, <3>3, <4>1 DEF Own, Nothing
    <3>6. AllOwn(mbuf)
      BY <1>3 DEF OrderInv, ReadsTun
    <3> QED BY <1>1, <1>3, <2>2, <2>7, <3>1, <3>2, <3>3, <3>4, <3>5, <3>6, PostOwnOrder
  <2> QED BY <2>4, <2>5, <2>6, <2>7 DEF Idle, Fails
<1> QED BY <1>4, <1>5

---------------------------------------------------------------------------
\* The other tasks, and the clock.

\* A step of lwIP or of the input task keeps the frames in their order.
LEMMA OtherTasksFrames ==
    ASSUME IInv, FrameOrder, OtherTasks
    PROVE  KeepsFrames
<1>1. /\ qRx \in Seq(Frames) /\ Len(qRx) \in Nat /\ output \in Seq(Frames) /\ frames \in Nat
  BY Numbers
<1>2. \A i \in 1 .. Len(qRx) : qRx[i].number \in Nat /\ qRx[i].number <= frames
  BY <1>1 DEF FrameOrder
<1>3. CASE \E dest \in Clients \union {Everyone} : StackOutput(dest)
  <2>1. PICK dest \in Clients \union {Everyone} : StackOutput(dest)
    BY <1>3
  <2> DEFINE frame == [dest |-> dest, number |-> frames + 1]
  <2>2. output = << >> /\ Len(output) = 0 /\ frames' = frames + 1 /\ frame.number = frames + 1
    BY <2>1 DEF StackOutput, CoreUnlocked
  <2>3. \/ qRx' = Append(qRx, frame) /\ output' = output
        \/ output' = <<frame>> /\ qRx' = qRx
    BY <2>1 DEF StackOutput
  <2> HIDE DEF frame
  <2>4. CASE qRx' = Append(qRx, frame) /\ output' = output
    <3>1. /\ Len(qRx') = Len(qRx) + 1
          /\ \A i \in 1 .. Len(qRx) : qRx'[i] = qRx[i]
          /\ qRx'[Len(qRx) + 1] = frame
      BY <1>1, <2>4
    <3>2. \A i \in 1 .. Len(qRx') : i \in 1 .. Len(qRx) \/ i = Len(qRx) + 1
      BY <1>1, <3>1
    <3>3. \A i \in 1 .. Len(qRx') : qRx'[i].number \in 1 .. frames'
      BY <1>1, <1>2, <2>2, <3>1, <3>2 DEF FrameOrder
    <3>4. \A i, j \in 1 .. Len(qRx') : i < j => qRx'[i].number < qRx'[j].number
      <4> SUFFICES ASSUME NEW i \in 1 .. Len(qRx'), NEW j \in 1 .. Len(qRx'), i < j
                   PROVE  qRx'[i].number < qRx'[j].number
        OBVIOUS
      <4>1. i \in 1 .. Len(qRx) /\ qRx'[i] = qRx[i]
        BY <1>1, <3>1, <3>2
      <4>2. CASE j \in 1 .. Len(qRx)
        BY <3>1, <4>1, <4>2 DEF FrameOrder
      <4>3. CASE j = Len(qRx) + 1
        BY <1>1, <1>2, <2>2, <3>1, <4>1, <4>3
      <4> QED BY <3>2, <4>2, <4>3
    <3>5. FrameOrder'
      BY <2>2, <2>4, <3>3, <3>4 DEF FrameOrder
    <3>6. ASSUME NEW n \in Int, Passed(n) PROVE Passed(n)'
      BY <1>1, <2>2, <2>4, <3>1, <3>2, <3>6 DEF Passed
    <3> QED BY <3>5, <3>6 DEF KeepsFrames
  <2>5. CASE output' = <<frame>> /\ qRx' = qRx
    <3>1. Len(output') = 1 /\ output'[1] = frame /\ \A j \in 1 .. Len(output') : j = 1
      BY <2>5
    <3>2. FrameOrder'
      BY <1>1, <1>2, <2>2, <2>5, <3>1, SMTT(30) DEF FrameOrder
    <3>3. ASSUME NEW n \in Int, Passed(n) PROVE Passed(n)'
      BY <1>1, <2>2, <2>5, <3>1, <3>3 DEF Passed
    <3> QED BY <3>2, <3>3 DEF KeepsFrames
  <2> QED BY <2>3, <2>4, <2>5
<1>4. CASE StackResumes
  <2>1. /\ output # << >> /\ qRx' = qRx \o output /\ output' = << >> /\ frames' = frames
    BY <1>4 DEF StackResumes, CoreUnlocked
  <2>2. Len(output) = 1 /\ 1 \in 1 .. Len(output)
    <3>1. Len(output) \in Nat /\ Len(output) <= 1
      BY <1>1 DEF FrameOrder
    <3>2. Len(output) # 0
      BY <1>1, <2>1
    <3> QED BY <3>1, <3>2
  <2>3. /\ Len(qRx') = Len(qRx) + 1
        /\ \A i \in 1 .. Len(qRx) : qRx'[i] = qRx[i]
        /\ qRx'[Len(qRx) + 1] = output[1]
        /\ Len(output') = 0
    <3> DEFINE both == qRx \o output
    <3>1. Len(both) = Len(qRx) + 1
      <4>1. Len(qRx \o output) = Len(qRx) + Len(output)
        BY <1>1
      <4> QED BY <2>2, <4>1
    <3>2. \A i \in 1 .. Len(qRx) : both[i] = qRx[i]
      BY <1>1, <2>2
    <3>3. both[Len(qRx) + 1] = output[1]
      BY <1>1, <2>2
    <3>4. Len(output') = 0
      BY <2>1
    <3> HIDE DEF both
    <3>5. qRx' = both
      BY <2>1 DEF both
    <3> QED BY <3>1, <3>2, <3>3, <3>4, <3>5
  <2>4. \A i \in 1 .. Len(qRx') : i \in 1 .. Len(qRx) \/ i = Len(qRx) + 1
    BY <1>1, <2>3
  <2>5. output[1].number \in 1 .. frames /\ \A i \in 1 .. Len(qRx) : qRx[i].number < output[1].number
    BY <2>2 DEF FrameOrder
  <2>6. \A i \in 1 .. Len(qRx') : qRx'[i].number \in 1 .. frames'
    BY <2>1, <2>3, <2>4, <2>5 DEF FrameOrder
  <2>7. \A i, j \in 1 .. Len(qRx') : i < j => qRx'[i].number < qRx'[j].number
    <3> SUFFICES ASSUME NEW i \in 1 .. Len(qRx'), NEW j \in 1 .. Len(qRx'), i < j
                 PROVE  qRx'[i].number < qRx'[j].number
      OBVIOUS
    <3>1. i \in 1 .. Len(qRx) /\ qRx'[i] = qRx[i]
      BY <1>1, <2>3, <2>4
    <3>2. CASE j \in 1 .. Len(qRx)
      BY <2>3, <3>1, <3>2 DEF FrameOrder
    <3>3. CASE j = Len(qRx) + 1
      BY <2>3, <2>5, <3>1, <3>3
    <3> QED BY <2>4, <3>2, <3>3
  <2>8. FrameOrder'
    BY <2>3, <2>6, <2>7 DEF FrameOrder
  <2>9. ASSUME NEW n \in Int, Passed(n) PROVE Passed(n)'
    BY <1>1, <2>1, <2>2, <2>3, <2>4, <2>9 DEF Passed
  <2> QED BY <2>8, <2>9 DEF KeepsFrames
<1>5. CASE Input
  BY <1>5, SameFrames DEF Input
<1> QED BY <1>3, <1>4, <1>5 DEF OtherTasks

\* A step that leaves the instances and the queue alone.
LEMMA SameOrder ==
    ASSUME OrderInv, IInv', KeepsFrames, UNCHANGED <<sentTo, mbuf, toLink, todo>>
    PROVE  OrderInv'
<1>1. mbuf \in Seq(Items) /\ Len(mbuf) \in Nat
  BY Numbers DEF OrderInv
<1>2. 0 \in 0 .. Len(mbuf) /\ \A i \in 1 .. Len(mbuf) : i + 0 = i
  BY <1>1
<1>3. Thins(mbuf, mbuf')
  BY <1>1, <1>2 DEF Thins
<1> QED BY <1>3, QuietOrder

---------------------------------------------------------------------------
\* The theorem.

LEMMA InitOrderInv == Init => OrderInv
<1> SUFFICES ASSUME Init PROVE OrderInv
  OBVIOUS
<1>1. IInv
  BY InitIInv
<1>2. /\ qRx = << >> /\ output = << >> /\ mbuf = << >> /\ frames = 0 /\ todo = {}
      /\ \A c \in Clients : sentTo[c] = 0 /\ toLink[c] = -1
  BY DEF Init, VpnIfInit, Nothing
<1>3. Len(<< >>) = 0
  OBVIOUS
<1>4. FrameOrder /\ QueuePassed
  BY <1>2, <1>3 DEF FrameOrder, QueuePassed
<1>5. Increasing(mbuf)
  BY <1>2, <1>3 DEF Increasing
<1>6. AfterSent(mbuf, sentTo)
  BY <1>2, <1>3 DEF AfterSent
<1>7. ReadsTun
  BY <1>2 DEF ReadsTun
<1>8. \A c \in Clients : Passed(sentTo[c]) /\ Passed(toLink[c]) /\ Direct(c)
  <2> TAKE c \in Clients
  <2>1. /\ 0 <= frames /\ -1 <= frames
        /\ 1 .. Len(qRx) = {} /\ 1 .. Len(output) = {}
    BY <1>2, <1>3
  <2>2. Passed(0) /\ Passed(-1)
    BY <2>1 DEF Passed
  <2>3. sentTo[c] = 0 /\ toLink[c] = -1
    BY <1>2
  <2>4. ~(toLink[c] > Own)
    BY <2>3 DEF Own
  <2>5. Direct(c)
    BY <2>4 DEF Direct
  <2>6. Passed(sentTo[c])
    BY <2>2, <2>3
  <2>7. Passed(toLink[c])
    BY <2>2, <2>3
  <2> QED BY <2>5, <2>6, <2>7
<1> QED BY <1>1, <1>4, <1>5, <1>6, <1>7, <1>8 DEF OrderInv

\* What FramesInOrder says of one step.
SendsInOrder == \A c \in Clients : sentTo'[c] # sentTo[c] => sentTo'[c] > sentTo[c]

\* Every step preserves the invariant, and sends a client only frames that come
\* after the last one.
LEMMA NextOrderInv == OrderInv /\ [Next]_vars => OrderInv' /\ SendsInOrder
<1> SUFFICES ASSUME OrderInv, [Next]_vars PROVE OrderInv' /\ SendsInOrder
  OBVIOUS
<1>1. IInv /\ FrameOrder /\ IInv'
  BY NextIInv DEF OrderInv
<1>2. CASE Wait
  BY <1>1, <1>2, WaitOrder, StatusOfWait DEF Wait, Idle, SendsInOrder
<1>3. CASE ManagementRead
  BY <1>3, ManagementReadOrder DEF ManagementRead, Idle, SendsInOrder
<1>4. CASE SocketWrite
  BY <1>4, SocketWriteOrder DEF SendsInOrder
<1>5. CASE TunWrite
  BY <1>5, TunWriteOrder DEF SendsInOrder
<1>6. CASE SocketRead
  BY <1>6, SocketReadOrder DEF SendsInOrder
<1>7. CASE TunRead
  BY <1>7, TunReadOrder DEF SendsInOrder
<1>8. CASE OtherTasks
  <2>1. KeepsFrames /\ UNCHANGED <<sentTo, mbuf, toLink, todo>>
    BY <1>1, <1>8, OtherTasksFrames DEF OtherTasks, serverVars
  <2> QED BY <1>1, <2>1, SameOrder DEF SendsInOrder
<1>9. CASE \E c \in Clients : Tick(c)
  <2>1. UNCHANGED <<qRx, output, frames>> /\ UNCHANGED <<sentTo, mbuf, toLink, todo>>
    BY <1>9 DEF Tick, vpnIfVars
  <2> QED BY <1>1, <2>1, SameFrames, SameOrder DEF SendsInOrder
<1>10. CASE UNCHANGED vars
  <2>1. UNCHANGED <<qRx, output, frames>> /\ UNCHANGED <<sentTo, mbuf, toLink, todo>>
    BY <1>10 DEF vars, vpnIfVars, serverVars
  <2> QED BY <1>1, <2>1, SameFrames, SameOrder DEF SendsInOrder
<1> QED BY <1>2, <1>3, <1>4, <1>5, <1>6, <1>7, <1>8, <1>9, <1>10 DEF Next, Loop

\* The frames of the tun reach each client's link in the order in which lwIP
\* sent them, and none twice.
THEOREM FramesSentInOrder == Spec => FramesInOrder
<1>1. OrderInv /\ [Next]_vars => [SendsInOrder]_vars
  BY NextOrderInv
<1>2. Spec => []OrderInv
  BY InitOrderInv, NextOrderInv, PTL DEF Spec
<1>3. Spec => [][SendsInOrder]_vars
  BY <1>1, <1>2, PTL DEF Spec
<1> QED BY <1>3 DEF FramesInOrder, SendsInOrder
===============================================================================
