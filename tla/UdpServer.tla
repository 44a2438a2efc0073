------------------------------ MODULE UdpServer ------------------------------
(***************************************************************************)
(* The event loop of the UDP server over the virtual interface: mudp.c,    *)
(* what it calls of multi.c, multi.h and mbuf.c, and the wait of event.c.  *)
(*                                                                         *)
(* A client instance has at most one packet for the link (to_link) and one *)
(* for the tun (to_tun); the instance with output is pending, and packets  *)
(* that fan out wait in the queue mbuf.  An iteration of the loop is a     *)
(* sequence of steps: Wait asks for events, and then each of the handlers  *)
(* that multi_process_io_udp calls is one step, in its order.  The other   *)
(* tasks of the board interleave with them, through VpnIf.                 *)
(*                                                                         *)
(* Left out: the packet filter, and signals to the process itself.         *)
(***************************************************************************)
EXTENDS VpnIf, FiniteSets

CONSTANTS
    NoClient,         \* NULL
    MbufSize,         \* --bcast-buffers
    FastIo,           \* --fast-io
    ClientToClient,   \* --client-to-client
    Management        \* whether the management interface may kill clients

ASSUME ClientsAssumption == IsFiniteSet(Clients)
ASSUME NoClientAssumption == NoClient \notin Clients
ASSUME MbufAssumption == MbufSize \in Nat \ {0}
ASSUME OptionsAssumption == {FastIo, ClientToClient, Management} \subseteq BOOLEAN

VARIABLES
    client,           \* whether an instance is "closed", "new", or "up"
                      \* (connection_established_flag)
    toLink,           \* what is in c2.to_link
    toTun,            \* whether there is a packet in c2.to_tun
    pending,          \* m->pending
    mbuf,             \* m->mbuf, oldest first
    due,              \* the clients whose wakeup time has passed
    todo,             \* events of this iteration still to be handled
    running,          \* FALSE once an assertion has ended the program
    sentTo            \* the last frame of the tun that was sent to a client

serverVars ==
    <<client, toLink, toTun, pending, mbuf, due, todo, running, sentTo>>

vars == <<vpnIfVars, serverVars>>

\* to_link holds nothing, a packet that did not come from the tun, or a frame
\* that did, which is its number.
Nothing == -1
Own == 0

Live == {c \in Clients : client[c] # "closed"}

HasOutput(c) == toLink[c] # Nothing \/ toTun[c]

Init ==
    /\ VpnIfInit
    /\ client = [c \in Clients |-> "closed"]
    /\ toLink = [c \in Clients |-> Nothing]
    /\ toTun = [c \in Clients |-> FALSE]
    /\ pending = NoClient
    /\ mbuf = << >>
    /\ due = {}
    /\ todo = {}
    /\ running = TRUE
    /\ sentTo = [c \in Clients |-> 0]

---------------------------------------------------------------------------
\* struct mbuf_set: items are dereferenced when their instance closes.

Dereference(queue, gone) ==
    [i \in DOMAIN queue |->
        IF queue[i].instance \in gone THEN [queue[i] EXCEPT !.instance = NoClient]
        ELSE queue[i]]

Referenced(queue) == {i \in DOMAIN queue : queue[i].instance # NoClient}

\* mbuf_extract_item takes item i: the first that is not dereferenced.
IsFirst(queue, i) ==
    i \in Referenced(queue) /\ \A j \in Referenced(queue) : i <= j

AfterItem(queue, i) == SubSeq(queue, i + 1, Len(queue))

\* Mutant: a full queue grows.
AddItemsMutant(queue, items) == {queue \o items}
\* mbuf_add_item for each of `items`: a full queue makes room by extracting.
\* The queue that results is the one member of this set.
AddItems(queue, items) ==
    LET all == queue \o items
        Fits(i) == Len(all) - i <= MbufSize
        cuts == {i \in Referenced(all) \union {0} : Fits(i)}
    IN {AfterItem(all, i) : i \in {j \in cuts : \A k \in cuts : j <= k}}

\* ASSERT(mbuf_extract_item(ms, &rm)): full, of dereferenced items only.
AddFails(queue) == Len(queue) = MbufSize /\ Referenced(queue) = {}

\* A packet for each client of S, in some order.
Copies(S, frame) ==
    {items \in [1 .. Cardinality(S) -> [instance : S, frame : {frame}]] :
        \A i, j \in DOMAIN items : items[i].instance = items[j].instance => i = j}

---------------------------------------------------------------------------
\* The wait for events.

Events == {"MR", "SW", "TW", "SR", "TR"}

Writes(c) ==
    {e \in {"SW"} : toLink[c] # Nothing} \union {e \in {"TW"} : toTun[c]}

\* Mutant: the loop reads on while broadcasts are queued.
FlagsMutant ==
    IF pending # NoClient THEN Writes(pending)
    ELSE {"SR", "TR"} \union {e \in {"SW"} : mbuf # << >>}
\* Mutant: with no output only the link is read.
FlagsLinkMutant ==
    IF pending # NoClient THEN Writes(pending)
    ELSE IF mbuf # << >> THEN {"SW"} ELSE {"SR"}
\* p2mp_iow_flags
Flags ==
    IF pending # NoClient THEN Writes(pending)
    ELSE IF mbuf # << >> THEN {"SW"} ELSE {"SR", "TR"}

\* The descriptor of the tun is MEMP_NUM_NETCONN-1, and with that one in the
\* set se_wait_fast does not call select: what was asked for is taken to be
\* ready.  --fast-io does not wait for writes in the first place.
Status ==
    IF FastIo /\ (pending # NoClient \/ mbuf # << >>) THEN Flags
    ELSE Flags \union {e \in {"MR"} : Management}

\* Mutant: the tun is read before the link.
RankMutant == [MR |-> 1, SW |-> 2, TW |-> 3, SR |-> 5, TR |-> 4]
\* The handlers of an iteration take their turns in this order.
Rank == [MR |-> 1, SW |-> 2, TW |-> 3, SR |-> 4, TR |-> 5]

IsNext(e) == e \in todo /\ \A f \in todo : Rank[e] <= Rank[f]

Turn(e) ==
    /\ running
    /\ IsNext(e)
    /\ todo' = todo \ {e}

---------------------------------------------------------------------------
\* multi_process_post and multi_close_instance.

\* Mutant: what a closed instance has queued stays.
CloseMutant(gone, queue) == mbuf' = queue
Close(gone, queue) == mbuf' = Dereference(queue, gone)

\* What pre_select may do for c, which has link and tun to send, among the
\* members.  It has a signal for c (or the handler left one), puts a packet
\* of its own into to_link, finds the connection established: older instances
\* of the same common name (dups) are closed then.
Posts(c, link, tun, members, signalled) ==
    LET selects == ~ FastIo \/ (link = Nothing /\ ~ tun)
    IN
    {p \in [selects : {selects}, closes : BOOLEAN, adds : BOOLEAN,
             establishes : BOOLEAN, dups : SUBSET Clients] :
        /\ p.closes => selects \/ signalled
        /\ p.adds => selects /\ link = Nothing
        /\ p.establishes => selects /\ members[c] = "new"
        /\ \A d \in p.dups : d # c /\ members[d] # "closed" /\ p.establishes}

\* Mutant: output does not make an instance pending again.
PendMutant(c, has) == IF pending = c THEN NoClient ELSE pending
\* continue to pend on output?
Pend(c, has) == IF has THEN c ELSE NoClient

\* multi_process_post for c, whose handler left it with link and tun to send,
\* the packets in queue, and the instances as in members.
Post(c, link, tun, queue, members, signalled) ==
    \E p \in Posts(c, link, tun, members, signalled) :
        LET gone == {d \in Clients : members[d] = "closed"} \union p.dups
                        \union (IF p.closes THEN {c} ELSE {})
            link2 == IF p.adds THEN Own ELSE link
        IN
        /\ client' = [d \in Clients |->
                        IF d \in gone THEN "closed"
                        ELSE IF d = c /\ p.establishes THEN "up" ELSE members[d]]
        /\ toLink' = [d \in Clients |->
                        IF d \in gone THEN Nothing ELSE IF d = c THEN link2 ELSE toLink[d]]
        /\ toTun' = [d \in Clients |->
                        IF d \in gone THEN FALSE ELSE IF d = c THEN tun ELSE toTun[d]]
        /\ Close(gone, queue)
        /\ pending' = IF c \notin gone THEN Pend(c, link2 # Nothing \/ tun)
                      ELSE IF pending \in gone THEN NoClient ELSE pending
        /\ due' = (IF p.selects THEN due \ {c} ELSE due) \ gone

\* A handler that finds nothing to do.
Idle == UNCHANGED <<client, toLink, toTun, pending, mbuf, due, running, sentTo>>

\* A handler that fails an assertion.
Fails ==
    /\ running' = FALSE
    /\ UNCHANGED <<client, toLink, toTun, pending, mbuf, due, sentTo>>

---------------------------------------------------------------------------
\* The loop.

\* io_wait, and multi_process_timeout when it times out.
Wait ==
    /\ running
    /\ todo = {}
    /\ todo' = Status
    /\ IF Status = {} /\ due # {}
       THEN /\ \E c \in due : Post(c, toLink[c], toTun[c], mbuf, client, FALSE)
            /\ UNCHANGED <<running, sentTo>>
       ELSE Idle
    /\ UNCHANGED vpnIfVars

\* management_io may kill an instance.
ManagementRead ==
    /\ Turn("MR")
    /\ \/ Idle
       \/ \E c \in Live :
            /\ client' = [client EXCEPT ![c] = "closed"]
            /\ toLink' = [toLink EXCEPT ![c] = Nothing]
            /\ toTun' = [toTun EXCEPT ![c] = FALSE]
            /\ Close({c}, mbuf)
            /\ pending' = IF pending = c THEN NoClient ELSE pending
            /\ due' = due \ {c}
            /\ UNCHANGED <<running, sentTo>>
    /\ UNCHANGED vpnIfVars

\* Sending on the socket takes lwIP's core lock.
SendLink(c, packet) ==
    /\ packet # Nothing => CoreUnlocked
    /\ sentTo' = [sentTo EXCEPT ![c] = IF packet > Own THEN packet ELSE @]

\* multi_process_outgoing_link: the pending instance's packet, or one from the
\* queue.  A packet for which there is no key yet is not sent.
SocketWrite ==
    /\ Turn("SW")
    /\ IF pending # NoClient
       THEN /\ SendLink(pending, toLink[pending])
            /\ Post(pending, Nothing, toTun[pending], mbuf, client, FALSE)
            /\ UNCHANGED running
       ELSE IF Referenced(mbuf) = {}
       THEN /\ mbuf' = << >>
            /\ UNCHANGED <<client, toLink, toTun, pending, due, running, sentTo>>
       ELSE \E i \in DOMAIN mbuf :
            LET c == mbuf[i].instance
            IN /\ IsFirst(mbuf, i)
               /\ \E packet \in {mbuf[i].frame, Nothing} : SendLink(c, packet)
               /\ Post(c, Nothing, toTun[c], AfterItem(mbuf, i), client, FALSE)
               /\ UNCHANGED running
    /\ UNCHANGED vpnIfVars

\* multi_process_outgoing_tun, with its ASSERT(mi)
TunWrite ==
    /\ Turn("TW")
    /\ IF pending = NoClient
       THEN Fails /\ UNCHANGED vpnIfVars
       ELSE /\ IF toTun[pending]
               THEN CanWrite /\ qTx' = qTx + 1
               ELSE UNCHANGED qTx
            /\ Post(pending, toLink[pending], FALSE, mbuf, client, FALSE)
            /\ UNCHANGED <<running, sentTo, qRx, output, frames>>

\* multi_get_create_instance_udp: a hard reset from a new address.
NewClient(c) ==
    /\ c \notin Live
    /\ Post(c, Nothing, FALSE, mbuf, [client EXCEPT ![c] = "new"], TRUE)
    /\ UNCHANGED <<running, sentTo>>

\* multi_process_float closes the instance whose address c takes over.
Floats(c) == {{}} \union {{d} : d \in Live \ {c}}

\* A packet of c that is for OpenVPN itself, is refused, or goes to the tun.
FromClient(c, members, queue) ==
    /\ \E tun \in BOOLEAN : Post(c, toLink[c], tun, queue, members, TRUE)
    /\ UNCHANGED <<running, sentTo>>

\* A packet of c for other clients: one of them, or all, and then for the tun
\* too.
ToClients(c, S, tun, members, queue) ==
    IF AddFails(queue) THEN Fails
    ELSE /\ \E items \in Copies(S, Own) : \E added \in AddItems(queue, items) :
                Post(c, toLink[c], tun, added, members, TRUE)
         /\ UNCHANGED <<running, sentTo>>

FromLive(c) ==
    \E closed \in Floats(c) :
        LET members == [d \in Clients |-> IF d \in closed THEN "closed" ELSE client[d]]
            queue == Dereference(mbuf, closed)
            others == Live \ (closed \union {c})
        IN
        \/ FromClient(c, members, queue)
        \/ /\ ClientToClient
           /\ others # {}
           /\ \/ \E d \in others : ToClients(c, {d}, FALSE, members, queue)
              \/ ToClients(c, others, TRUE, members, queue)

\* read_incoming_link and multi_process_incoming_link.  The socket does not
\* block.  With an instance pending the packet is dropped.
SocketRead ==
    /\ Turn("SR")
    /\ \/ Idle
       \/ /\ pending = NoClient
          /\ \E c \in Clients : NewClient(c) \/ (c \in Live /\ FromLive(c))
    /\ UNCHANGED vpnIfVars

\* read_incoming_tun and multi_process_incoming_tun: openvpnif_read does not
\* wait.  With an instance pending the frame is dropped.
TunRead ==
    /\ Turn("TR")
    /\ IF qRx = << >> THEN Idle /\ UNCHANGED qRx
       ELSE
         LET dest == Head(qRx).dest
             number == Head(qRx).number
         IN
         /\ qRx' = Tail(qRx)
         /\ IF pending # NoClient \/ dest \notin Live \union {Everyone}
               \/ (dest = Everyone /\ Live = {})
            THEN Idle
            ELSE IF dest = Everyone
            THEN IF AddFails(mbuf) THEN Fails
                 ELSE /\ \E items \in Copies(Live, number) : mbuf' \in AddItems(mbuf, items)
                      /\ UNCHANGED <<client, toLink, toTun, pending, due, running, sentTo>>
            ELSE /\ \E link \in {number, Nothing} :
                        Post(dest, link, toTun[dest], mbuf, client, FALSE)
                 /\ UNCHANGED <<running, sentTo>>
    /\ UNCHANGED <<qTx, output, frames>>

\* The wakeup time of a client passes.
Tick(c) ==
    /\ c \in Live \ due
    /\ due' = due \union {c}
    /\ UNCHANGED <<vpnIfVars, client, toLink, toTun, pending, mbuf, todo, running, sentTo>>

Loop ==
    \/ Wait
    \/ ManagementRead
    \/ SocketWrite
    \/ TunWrite
    \/ SocketRead
    \/ TunRead

OtherTasks ==
    /\ \/ \E dest \in Clients \union {Everyone} : StackOutput(dest)
       \/ StackResumes
       \/ Input
    /\ UNCHANGED serverVars

Next == Loop \/ OtherTasks \/ \E c \in Clients : Tick(c)

Spec == Init /\ [][Next]_vars

\* Fairness.  The tasks run: the loop takes a step whenever it can, the input
\* task empties qTx, and a blocked send goes through when there is room.  No
\* instance has a packet of its own to send after every one that was sent.
Fairness ==
    /\ WF_vars(Loop)
    /\ SF_vars(SocketWrite /\ pending' = NoClient)
    /\ WF_vars(Input /\ UNCHANGED serverVars)
    /\ WF_vars(StackResumes /\ UNCHANGED serverVars)

FairSpec == Spec /\ Fairness

---------------------------------------------------------------------------
\* Properties.

\* The types of the state.
TypeOK ==
    /\ VpnIfTypeOK
    /\ client \in [Clients -> {"closed", "new", "up"}]
    /\ toLink \in [Clients -> Nat \union {Nothing}]
    /\ toTun \in [Clients -> BOOLEAN]
    /\ pending \in Clients \union {NoClient}
    /\ mbuf \in Seq([instance : Clients \union {NoClient}, frame : Nat])
    /\ Len(mbuf) <= MbufSize
    /\ due \subseteq Clients
    /\ todo \subseteq Events
    /\ running \in BOOLEAN
    /\ sentTo \in [Clients -> Nat]

\* The instances share their buffers (inherit_context_child), so that only one
\* of them may have output at a time: the one that is pending, and that one has.
OnlyPendingHasOutput == \A c \in Clients : HasOutput(c) <=> pending = c

\* Nothing refers to an instance after it was closed ("prevent dangling
\* pointers", multi_close_instance).
NoDanglingInstance ==
    /\ pending \in Live \union {NoClient}
    /\ due \subseteq Live
    /\ \A i \in Referenced(mbuf) : mbuf[i].instance \in Live

\* A packet that is read from the link is never dropped for an instance's
\* pending output: multi_process_incoming_link is not called with one.
LinkReadWaits == "SR" \in todo => pending = NoClient

\* What multi_process_outgoing_tun asserts: an instance is pending.
TunWriteHasInstance == IsNext("TW") => pending # NoClient

\* The frames of the tun reach a client's link in the order in which they came,
\* and none twice, whether they take the direct way or the queue.
FramesInOrder ==
    [][\A c \in Clients : sentTo'[c] # sentTo[c] => sentTo'[c] > sentTo[c]]_vars

\* The loop comes to rest only where lwIP waits for the loop to empty qRx, and
\* the loop for lwIP to unlock its core; or where an assertion ended it.
CrossWait == ~ CoreUnlocked /\ Len(qRx) = QSize /\ "SW" \in todo

\* What a client sends to the tun is written to it, unless the loop ended so.
TunWritten ==
    \A c \in Clients : toTun[c] ~> (~ toTun[c] \/ CrossWait \/ ~ running)

\* A send that waits for room in qRx gets it, unless the loop ended so.
OutputWaitsForLoop == ~ CoreUnlocked ~> (CoreUnlocked \/ CrossWait \/ ~ running)

\* The scheduler wakes an instance up when its time has come.
WakeupsServed == \A c \in Clients : c \in due ~> c \notin due

=============================================================================
