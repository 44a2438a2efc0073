---------------------------- MODULE ScheduleProofs ----------------------------
(***************************************************************************)
(* The scheduler keeps its treap, its cache is fresh, the loop of the server*)
(* wakes in time for the earliest entry, whoever is served is scheduled anew,*)
(* and all of it implements Wakeups: for any instances, priorities, waits and*)
(* tolerances.                                                             *)
(***************************************************************************)
EXTENDS ScheduleTreap

---------------------------------------------------------------------------
\* What the operations make of the state.

\* compute_wakeup_sigma: the tolerance is shorter than a wait that is not 0.
LEMMA SigmaBounds ==
    ASSUME NEW d \in 0 .. MaxWait
    PROVE  Sigma(d) \in Nat /\ Sigma(d) <= SigmaMax /\ (d # 0 => Sigma(d) < d) /\ (d = 0 => Sigma(d) = 0)
<1>1. SigmaMax \in Nat /\ MaxWait \in Nat /\ SigmaDivisor \in Nat /\ SigmaDivisor >= 2
  BY BoundAssumption, WaitAssumption
<1>2. d \in Nat
  BY <1>1
<1> DEFINE q == d \div SigmaDivisor
<1>3. q \in Nat /\ (d # 0 => q < d) /\ (d = 0 => q = 0)
  BY <1>1, <1>2
<1> HIDE DEF q
<1>4. Sigma(d) = IF q < SigmaMax THEN q ELSE SigmaMax
  BY DEF Sigma, Least, q
<1> QED
  BY <1>1, <1>2, <1>3, <1>4

\* A second makes no difference to the order of the entries.
LEMMA TickSound ==
    ASSUME NEW t, Sound(t)
    PROVE  LET u == [root |-> t.root,
                     node |-> [x \in Entries |->
                                 IF InTree(t, x) THEN [t.node[x] EXCEPT !.tv = @ - 1] ELSE t.node[x]]]
           IN  /\ Sound(u) /\ Members(u) = Members(t)
               /\ \A x \in Members(t) : u.node[x].tv = t.node[x].tv - 1 /\ u.node[x].pri = t.node[x].pri
               /\ \A x \in Entries \ Members(t) : u.node[x] = t.node[x]
<1> DEFINE M == Members(t)
           u == [root |-> t.root,
                 node |-> [x \in Entries |->
                             IF InTree(t, x) THEN [t.node[x] EXCEPT !.tv = @ - 1] ELSE t.node[x]]]
<1>1. PICK sub : Built(t, M, sub) /\ Heap(t, M)
  BY DEF Sound, TreapOf
<1>2. /\ t \in Trees /\ M \subseteq Entries /\ sub \in [M -> SUBSET M]
      /\ Linked(t, M) /\ Subtrees(t, M, sub) /\ Sorted(t, M, sub)
      /\ t.node \in [Entries -> Nodes] /\ t.root \in Links
      /\ \A x \in Entries : t.node[x] \in Nodes
      /\ \A x \in Entries : x \in M <=> InTree(t, x)
  BY <1>1, TreeTypes DEF Built, Members
<1> HIDE DEF M
<1>3. /\ u.root = t.root
      /\ \A x \in Entries : u.node[x] = IF x \in M THEN [t.node[x] EXCEPT !.tv = t.node[x].tv - 1]
                                         ELSE t.node[x]
  BY <1>2
<1>4. u = [root |-> u.root, node |-> [x \in Entries |-> u.node[x]]]
  BY <1>2
<1> HIDE DEF u
<1>5. ASSUME NEW x \in M
      PROVE  /\ u.node[x] \in Nodes /\ u.node[x].tv = t.node[x].tv - 1 /\ u.node[x].pri = t.node[x].pri
             /\ u.node[x].parent = t.node[x].parent
             /\ u.node[x].lt = t.node[x].lt /\ u.node[x].gt = t.node[x].gt
  <2>1. x \in Entries /\ t.node[x] \in Nodes
    BY <1>2
  <2>2. u.node[x] = [t.node[x] EXCEPT !.tv = t.node[x].tv - 1]
    BY <1>3, <2>1
  <2> QED BY <2>1, <2>2 DEF Nodes
<1>6. \A x \in Entries \ M : u.node[x] = t.node[x]
  BY <1>3
<1>7. u \in Trees
  <2>1. \A x \in Entries : u.node[x] \in Nodes
    BY <1>2, <1>5, <1>6
  <2>2. [x \in Entries |-> u.node[x]] \in [Entries -> Nodes]
    BY <2>1
  <2> QED BY <2>2, <1>2, <1>3, <1>4 DEF Trees, Nodes
<1>8. \A x \in Entries : /\ u.node[x].parent = t.node[x].parent
                         /\ u.node[x].lt = t.node[x].lt /\ u.node[x].gt = t.node[x].gt
                         /\ u.node[x].pri = t.node[x].pri
  BY <1>5, <1>6
<1>9. \A x, y \in M : Before(u, x, y) <=> Before(t, x, y)
  <2>1. \A x \in M : t.node[x].tv \in Int
    BY <1>2, TreeTypes
  <2> QED BY <2>1, <1>5 DEF Before
<1>10. Built(u, M, sub) /\ Heap(u, M)
  BY <1>1, <1>2, <1>3, <1>7, <1>8, <1>9, SameShape
<1>11. Members(u) = M
  BY <1>2, <1>8 DEF Members, InTree
<1>12. \A x \in Entries \ M : u.node[x] = Unlinked
  BY <1>6 DEF Sound, M
<1>13. Sound(u)
  BY <1>10, <1>11, <1>12 DEF Sound, TreapOf
<1> QED
  BY <1>5, <1>6, <1>11, <1>13 DEF u, M

\* What was asked for last, and what an entry is scheduled for, are close.
WakeupsKept ==
    \A e \in Entries :
        IF InTree(Tree, e)
        THEN wakeup[e] <= MaxWait /\ node[e].tv - wakeup[e] \in -SigmaMax .. SigmaMax
        ELSE wakeup[e] = 0

\* The wait for the instance that is served next is over only when it is due.
ServedIsDue == timeout = 0 /\ chosen # NULL => node[chosen].tv <= 0

\* The inductive invariant
IInv ==
    /\ TypeOK
    /\ Sound(Tree)
    /\ WakeupsKept
    /\ CacheFresh
    /\ WakesInTime
    /\ ServedIsDue

\* What the operations on the tree change in node
Keeps(e) ==
    \A x \in Entries \ {e} : node'[x].tv = node[x].tv /\ node'[x].pri = node[x].pri

Set(e, d) ==
    /\ Sound(Tree') /\ Members(Tree') = Members(Tree) \union {e}
    /\ node'[e].tv = d /\ node'[e].pri \in Priorities /\ Keeps(e)

Unset(e) ==
    /\ Sound(Tree') /\ Members(Tree') = Members(Tree) \ {e}
    /\ node'[e] = Unlinked /\ Keeps(e)

\* The state after schedule_add_modify or schedule_remove_node is its result.
LEMMA TreeIs ==
    ASSUME NEW t \in Trees, SetTree(t)
    PROVE  Tree' = t
BY DEF SetTree, Tree, Trees

\* multi_schedule_context_wakeup sets the time of an entry, or leaves one where it
\* is that is within the tolerance.
LEMMA Asked ==
    ASSUME Sound(Tree), NEW e \in Entries, NEW d \in 0 .. MaxWait, AddEntry(e, d)
    PROVE  \/ Moves(e, d) /\ Set(e, d) /\ earliest' = NULL
           \/ ~ Moves(e, d) /\ UNCHANGED <<root, node, earliest>>
<1>1. CASE Moves(e, d)
  <2>1. PICK t \in AddModify(Tree, e, d) : SetTree(t)
    BY <1>1 DEF AddEntry
  <2>2. earliest' = NULL
    BY <1>1 DEF AddEntry
  <2>3. d \in Int
    OBVIOUS
  <2> DEFINE s == Tree
  <2>4. s.node = node
    BY DEF Tree
  <2> HIDE DEF s
  <2>5. /\ Sound(t) /\ Members(t) = Members(s) \union {e}
        /\ t.node[e].tv = d /\ t.node[e].pri \in Priorities
        /\ \A x \in Entries \ {e} : t.node[x].tv = s.node[x].tv /\ t.node[x].pri = s.node[x].pri
    BY <2>1, <2>3, Modified DEF s
  <2>6. Tree' = t /\ node' = t.node
    BY <2>1, <2>5, SoundTypes, TreeIs DEF SetTree
  <2>7. Set(e, d)
    BY <2>4, <2>5, <2>6 DEF Set, Keeps, s
  <2> QED BY <1>1, <2>2, <2>7
<1>2. CASE ~ Moves(e, d)
  BY <1>2 DEF AddEntry
<1> QED
  BY <1>1, <1>2

\* multi_close_instance
LEMMA Closed ==
    ASSUME Sound(Tree), NEW e \in Entries, Close(e)
    PROVE  Unset(e) /\ earliest' = NULL /\ wakeup' = [wakeup EXCEPT ![e] = 0]
<1>1. SetTree(RemoveNode(Tree, e)) /\ earliest' = NULL /\ wakeup' = [wakeup EXCEPT ![e] = 0]
  BY DEF Close, RemoveEntry
<1> DEFINE s == Tree
           t == RemoveNode(s, e)
<1>2. s.node = node
  BY DEF Tree
<1> HIDE DEF s
<1>3. /\ Sound(t) /\ Members(t) = Members(s) \ {e}
      /\ t.node[e] = Unlinked
      /\ \A x \in Entries \ {e} : t.node[x].tv = s.node[x].tv /\ t.node[x].pri = s.node[x].pri
  BY Removed DEF s
<1> HIDE DEF t
<1>4. SetTree(t)
  BY <1>1 DEF s, t
<1>5. Tree' = t /\ node' = t.node
  BY <1>3, <1>4, SoundTypes, TreeIs DEF SetTree
<1> QED
  BY <1>1, <1>2, <1>3, <1>5 DEF Unset, Keeps, s

\* A second passes.
LEMMA Ticked ==
    ASSUME Sound(Tree), Tick
    PROVE  /\ Sound(Tree') /\ Members(Tree') = Members(Tree)
           /\ \A x \in Members(Tree) : node'[x].tv = node[x].tv - 1 /\ node'[x].pri = node[x].pri
           /\ \A x \in Entries \ Members(Tree) : node'[x] = node[x]
<1> DEFINE s == Tree
           t == [root |-> s.root,
                 node |-> [x \in Entries |->
                             IF InTree(s, x) THEN [s.node[x] EXCEPT !.tv = @ - 1] ELSE s.node[x]]]
<1>1. s.node = node /\ s.root = root
  BY DEF Tree
<1>2. Tree' = t /\ node' = t.node
  BY <1>1 DEF Tick, Tree
<1>3. /\ Sound(t) /\ Members(t) = Members(s)
      /\ \A x \in Members(s) : t.node[x].tv = s.node[x].tv - 1 /\ t.node[x].pri = s.node[x].pri
      /\ \A x \in Entries \ Members(s) : t.node[x] = s.node[x]
  <2> HIDE DEF s
  <2> QED BY TickSound DEF s
<1> HIDE DEF t
<1> QED
  BY <1>1, <1>2, <1>3

\* The members are those in the tree.
LEMMA MembersAre ==
    /\ \A e \in Entries : InTree(Tree, e) <=> e \in Members(Tree)
    /\ \A e \in Entries : InTree(Tree, e) <=> node[e].pri # 0
    /\ Members(Tree) \subseteq Entries /\ Scheduled = Members(Tree)
BY DEF Members, InTree, Tree, Scheduled

\* The types of root and node, of a sound tree
LEMMA StateTypes ==
    ASSUME Sound(Tree)
    PROVE  /\ root \in Links /\ node \in [Entries -> Nodes]
           /\ \A e \in Entries : node[e].tv \in Int /\ node[e].pri \in Nat
           /\ (root = NULL <=> Members(Tree) = {})
           /\ \A e \in Entries \ Members(Tree) : node[e] = Unlinked
<1> DEFINE s == Tree
<1>1. s.node = node /\ s.root = root
  BY DEF Tree
<1>2. s \in Trees /\ (s.root = NULL <=> Members(s) = {})
      /\ \A x \in Entries \ Members(s) : s.node[x] = Unlinked
  <2> HIDE DEF s
  <2> QED BY SoundTypes DEF s, Sound
<1> HIDE DEF s
<1>3. s.root \in Links /\ s.node \in [Entries -> Nodes]
      /\ \A e \in Entries : s.node[e].tv \in Int /\ s.node[e].pri \in Nat
  BY <1>2, TreeTypes
<1> QED
  BY <1>1, <1>2, <1>3 DEF s

\* The tree is empty at first.
LEMMA InitSound ==
    ASSUME Init
    PROVE  Sound(Tree) /\ Members(Tree) = {}
<1> DEFINE s == Tree
           none == [x \in {} |-> {}]
<1>1. s.root = NULL /\ s.node = [e \in Entries |-> Unlinked] /\ s = [root |-> s.root, node |-> s.node]
  BY DEF Init, Tree
<1> HIDE DEF s
<1>2. /\ \A e \in Entries : s.node[e] = Unlinked /\ Children(s, e) = {}
      /\ \A e \in Entries : s.node[e].parent = NULL /\ s.node[e].pri = 0 /\ s.node[e].tv = 0
  BY <1>1 DEF Unlinked, Children
<1>3. s \in Trees
  <2>1. Unlinked \in Nodes
    BY DEF Unlinked, Nodes, Links
  <2>2. s.node \in [Entries -> Nodes] /\ s.root \in Links
    BY <1>1, <2>1 DEF Links
  <2> QED BY <1>1, <2>2 DEF Trees, Nodes
<1>4. Linked(s, {}) /\ Heap(s, {})
  BY <1>1, <1>2 DEF Linked, Heap
<1>5. Subtrees(s, {}, none) /\ Sorted(s, {}, none) /\ none \in [{} -> SUBSET {}]
  BY <1>1 DEF Subtrees, Sorted
<1> HIDE DEF none
<1>6. TreapOf(s, {})
  BY <1>3, <1>4, <1>5 DEF TreapOf, Built
<1>7. {} \in SUBSET Entries
  OBVIOUS
<1>8. Members(s) = {} /\ Sound(s)
  BY <1>2, <1>6, <1>7, SoundIf
<1> QED
  BY <1>8 DEF s

---------------------------------------------------------------------------
\* The inductive invariant.

\* IN_TREE is membership.
LEMMA InMembers ==
    ASSUME NEW t
    PROVE  \A e \in Entries : InTree(t, e) <=> e \in Members(t)
BY DEF Members

\* What IInv says, in terms of the members
LEMMA IInvSays ==
    ASSUME IInv
    PROVE  /\ MaxOverdue \in Nat /\ SigmaMax \in Nat /\ MaxWait \in Nat /\ MaxPri \in Nat
           /\ Members(Tree) \subseteq Entries
           /\ wakeup \in [Entries -> Int]
           /\ \A e \in Entries : /\ node[e].tv \in -MaxOverdue .. MaxWait /\ node[e].tv \in Int
                                 /\ node[e].pri \in 0 .. MaxPri
           /\ \A e \in Members(Tree) :
                  wakeup[e] <= MaxWait /\ node[e].tv - wakeup[e] \in -SigmaMax .. SigmaMax
           /\ \A e \in Entries \ Members(Tree) : wakeup[e] = 0
           /\ earliest # NULL => /\ earliest \in Members(Tree)
                                 /\ \A e \in Members(Tree) : node[earliest].tv <= node[e].tv
           /\ chosen # NULL => chosen \in Members(Tree)
<1> USE InMembers
<1>1. /\ MaxOverdue \in Nat /\ SigmaMax \in Nat /\ MaxWait \in Nat /\ MaxPri \in Nat
      /\ Members(Tree) \subseteq Entries
  BY BoundAssumption DEF Members
<1>2. wakeup \in [Entries -> Int]
  BY <1>1 DEF IInv, TypeOK
<1>3. \A e \in Entries : /\ node[e].tv \in -MaxOverdue .. MaxWait /\ node[e].tv \in Int
                         /\ node[e].pri \in 0 .. MaxPri
  BY <1>1 DEF IInv, TypeOK
<1>4. /\ \A e \in Members(Tree) :
                  wakeup[e] <= MaxWait /\ node[e].tv - wakeup[e] \in -SigmaMax .. SigmaMax
      /\ \A e \in Entries \ Members(Tree) : wakeup[e] = 0
  BY <1>1 DEF IInv, WakeupsKept
<1>5. /\ earliest # NULL => /\ earliest \in Members(Tree)
                            /\ \A e \in Members(Tree) : node[earliest].tv <= node[e].tv
      /\ chosen # NULL => chosen \in Members(Tree)
  BY <1>1 DEF IInv, CacheFresh, TypeOK
<1> QED
  BY <1>1, <1>2, <1>3, <1>4, <1>5

\* What is to be shown for the next state, while the loop does not wait
LEMMA IInvFollows ==
    ASSUME Sound(Tree'), timeout' \in Awake .. ReapMaxWakeup,
           wakeup' \in [Entries -> Int],
           \A e \in Entries : node'[e].tv \in -MaxOverdue .. MaxWait /\ node'[e].pri \in 0 .. MaxPri,
           \A e \in Members(Tree') :
               wakeup'[e] <= MaxWait /\ node'[e].tv - wakeup'[e] \in -SigmaMax .. SigmaMax,
           \A e \in Entries \ Members(Tree') : wakeup'[e] = 0,
           earliest' # NULL => /\ earliest' \in Members(Tree')
                               /\ \A e \in Members(Tree') : node'[earliest'].tv <= node'[e].tv,
           chosen' # NULL => chosen' \in Members(Tree'),
           timeout' > 0 => /\ \A e \in Members(Tree') : timeout' <= node'[e].tv
                           /\ chosen' # NULL => node'[chosen'].tv = timeout',
           timeout' = 0 /\ chosen' # NULL => node'[chosen'].tv <= 0
    PROVE  IInv'
<1> DEFINE s == Tree'
<1>1. s.node = node' /\ s.root = root'
  BY DEF Tree
<1>2. /\ \A e \in Entries : InTree(s, e) <=> e \in Members(s)
      /\ Members(s) \subseteq Entries
  BY InMembers DEF Members
<1>3. s.root \in Links /\ s.node \in [Entries -> Nodes]
  <2>1. s \in Trees
    BY SoundTypes
  <2> HIDE DEF s
  <2> QED BY <2>1, TreeTypes
<1> HIDE DEF s
<1>4. TypeOK'
  <2>1. /\ MaxOverdue \in Nat /\ SigmaMax \in Nat /\ MaxWait \in Nat
    BY BoundAssumption
  <2>2. node' \in [Entries -> [tv : -MaxOverdue .. MaxWait, pri : 0..MaxPri,
                               parent : Entries \union {NULL}, lt : Entries \union {NULL},
                               gt : Entries \union {NULL}]]
    BY <1>1, <1>3 DEF Nodes, Links
  <2>3. wakeup' \in [Entries -> -(MaxOverdue + SigmaMax) .. MaxWait]
    <3>1. ASSUME NEW e \in Entries PROVE wakeup'[e] \in -(MaxOverdue + SigmaMax) .. MaxWait
      <4>1. CASE e \in Members(s)
        <5>1. /\ wakeup'[e] <= MaxWait /\ node'[e].tv - wakeup'[e] \in -SigmaMax .. SigmaMax
              /\ wakeup'[e] \in Int /\ node'[e].tv \in -MaxOverdue .. MaxWait
          BY <4>1 DEF s
        <5> QED BY <5>1, <2>1
      <4>2. CASE e \notin Members(s)
        <5>1. wakeup'[e] = 0
          BY <4>2 DEF s
        <5> QED BY <5>1, <2>1
      <4> QED BY <4>1, <4>2
    <3> QED BY <3>1
  <2>4. root' \in Entries \union {NULL}
    BY <1>1, <1>3 DEF Links
  <2>5. earliest' \in Entries \union {NULL} /\ chosen' \in Entries \union {NULL}
    BY <1>2 DEF s
  <2> QED BY <2>2, <2>3, <2>4, <2>5 DEF TypeOK
<1>5. WakeupsKept'
  BY <1>2 DEF WakeupsKept, s
<1>6. CacheFresh'
  BY <1>2 DEF CacheFresh, s
<1>7. WakesInTime' /\ ServedIsDue'
  BY <1>2 DEF WakesInTime, ServedIsDue, s
<1> QED
  BY <1>4, <1>5, <1>6, <1>7 DEF IInv

\* An instance asks for a wakeup.
LEMMA ScheduleKeeps ==
    ASSUME IInv, NEW e \in Entries, ScheduleWakeup(e), timeout' = Awake, chosen' \in {chosen, NULL}
    PROVE  IInv'
<1>1. PICK d \in 0 .. MaxWait : wakeup' = [wakeup EXCEPT ![e] = d] /\ AddEntry(e, d)
  BY DEF ScheduleWakeup
<1>2. \/ Moves(e, d) /\ Set(e, d) /\ earliest' = NULL
      \/ ~ Moves(e, d) /\ UNCHANGED <<root, node, earliest>>
  BY <1>1, Asked DEF IInv
<1> DEFINE M == Members(Tree)
           N == Members(Tree')
<1>3. /\ MaxOverdue \in Nat /\ SigmaMax \in Nat /\ MaxWait \in Nat /\ MaxPri \in Nat
      /\ M \subseteq Entries
      /\ wakeup \in [Entries -> Int]
      /\ \A x \in Entries : /\ node[x].tv \in -MaxOverdue .. MaxWait /\ node[x].tv \in Int
                            /\ node[x].pri \in 0 .. MaxPri
      /\ \A x \in M : wakeup[x] <= MaxWait /\ node[x].tv - wakeup[x] \in -SigmaMax .. SigmaMax
      /\ \A x \in Entries \ M : wakeup[x] = 0
      /\ earliest # NULL => earliest \in M /\ \A x \in M : node[earliest].tv <= node[x].tv
      /\ chosen # NULL => chosen \in M
  BY IInvSays
<1>4. d \in Int /\ 0 <= d /\ d <= MaxWait /\ timeout' \in Awake .. ReapMaxWakeup
      /\ ~ (timeout' > 0) /\ timeout' # 0
  BY <1>3, WaitAssumption DEF Awake
<1>5. /\ wakeup' \in [Entries -> Int] /\ wakeup'[e] = d
      /\ \A x \in Entries \ {e} : wakeup'[x] = wakeup[x]
  BY <1>1, <1>3, <1>4
<1>6. CASE Moves(e, d) /\ Set(e, d) /\ earliest' = NULL
  <2>1. /\ Sound(Tree') /\ N = M \union {e}
        /\ node'[e].tv = d /\ node'[e].pri \in 1 .. MaxPri
        /\ \A x \in Entries \ {e} : node'[x].tv = node[x].tv /\ node'[x].pri = node[x].pri
    BY <1>6 DEF Set, Keeps, Priorities
  <2> HIDE DEF M, N
  <2>2. \A x \in Entries : node'[x].tv \in -MaxOverdue .. MaxWait /\ node'[x].pri \in 0 .. MaxPri
    BY <1>3, <1>4, <2>1
  <2>3. \A x \in N : wakeup'[x] <= MaxWait /\ node'[x].tv - wakeup'[x] \in -SigmaMax .. SigmaMax
    <3> TAKE x \in N
    <3>1. CASE x = e
      BY <3>1, <1>3, <1>4, <1>5, <2>1
    <3>2. CASE x # e
      BY <3>2, <1>3, <1>5, <2>1
    <3> QED BY <3>1, <3>2
  <2>4. \A x \in Entries \ N : wakeup'[x] = 0
    BY <1>3, <1>5, <2>1
  <2>5. chosen' # NULL => chosen' \in N
    BY <1>3, <2>1
  <2> QED BY <1>4, <1>5, <1>6, <2>1, <2>2, <2>3, <2>4, <2>5, IInvFollows DEF N
<1>7. CASE ~ Moves(e, d) /\ UNCHANGED <<root, node, earliest>>
  <2>1. /\ Tree' = Tree /\ N = M /\ node' = node /\ earliest' = earliest
    BY <1>7 DEF Tree
  <2>2. Sound(Tree')
    BY <2>1 DEF IInv
  <2>3. e \in M /\ node[e].tv - d \in -Sigma(d) .. Sigma(d)
    <3>1. InTree(Tree, e) /\ WithinSigma(Tree, e, d)
      BY <1>7 DEF Moves
    <3> QED BY <3>1, InMembers DEF WithinSigma, Tree
  <2>4. Sigma(d) \in Nat /\ Sigma(d) <= SigmaMax
    BY SigmaBounds
  <2> HIDE DEF M, N
  <2>5. \A x \in N : wakeup'[x] <= MaxWait /\ node'[x].tv - wakeup'[x] \in -SigmaMax .. SigmaMax
    <3> TAKE x \in N
    <3>1. CASE x = e
      BY <3>1, <1>3, <1>4, <1>5, <2>1, <2>3, <2>4
    <3>2. CASE x # e
      BY <3>2, <1>3, <1>5, <2>1
    <3> QED BY <3>1, <3>2
  <2>6. \A x \in Entries \ N : wakeup'[x] = 0
    BY <1>3, <1>5, <2>1, <2>3
  <2>7. /\ earliest' # NULL => earliest' \in N /\ \A x \in N : node'[earliest'].tv <= node'[x].tv
        /\ chosen' # NULL => chosen' \in N
        /\ \A x \in Entries : node'[x].tv \in -MaxOverdue .. MaxWait /\ node'[x].pri \in 0 .. MaxPri
    BY <1>3, <2>1
  <2> QED BY <1>4, <1>5, <2>2, <2>5, <2>6, <2>7, IInvFollows DEF N
<1> QED
  BY <1>2, <1>6, <1>7

\* An instance is closed.
LEMMA CloseKeeps ==
    ASSUME IInv, NEW e \in Entries, Close(e), timeout' = Awake,
           chosen' = NULL \/ (chosen' = chosen /\ chosen # e)
    PROVE  IInv'
<1> DEFINE M == Members(Tree)
           N == Members(Tree')
<1>1. /\ Sound(Tree') /\ N = M \ {e}
      /\ node'[e] = Unlinked
      /\ \A x \in Entries \ {e} : node'[x].tv = node[x].tv /\ node'[x].pri = node[x].pri
      /\ earliest' = NULL /\ wakeup' = [wakeup EXCEPT ![e] = 0]
  BY Closed DEF Unset, Keeps, IInv
<1>2. /\ MaxOverdue \in Nat /\ SigmaMax \in Nat /\ MaxWait \in Nat /\ MaxPri \in Nat
      /\ M \subseteq Entries
      /\ wakeup \in [Entries -> Int]
      /\ \A x \in Entries : /\ node[x].tv \in -MaxOverdue .. MaxWait /\ node[x].tv \in Int
                            /\ node[x].pri \in 0 .. MaxPri
      /\ \A x \in M : wakeup[x] <= MaxWait /\ node[x].tv - wakeup[x] \in -SigmaMax .. SigmaMax
      /\ \A x \in Entries \ M : wakeup[x] = 0
      /\ chosen # NULL => chosen \in M
  BY IInvSays
<1> HIDE DEF M, N
<1>3. /\ wakeup' \in [Entries -> Int] /\ wakeup'[e] = 0
      /\ \A x \in Entries \ {e} : wakeup'[x] = wakeup[x]
  BY <1>1, <1>2
<1>4. node'[e].tv = 0 /\ node'[e].pri = 0
  BY <1>1 DEF Unlinked
<1>5. \A x \in Entries : node'[x].tv \in -MaxOverdue .. MaxWait /\ node'[x].pri \in 0 .. MaxPri
  BY <1>1, <1>2, <1>4
<1>6. \A x \in N : wakeup'[x] <= MaxWait /\ node'[x].tv - wakeup'[x] \in -SigmaMax .. SigmaMax
  BY <1>1, <1>2, <1>3
<1>7. \A x \in Entries \ N : wakeup'[x] = 0
  BY <1>1, <1>2, <1>3
<1>8. chosen' # NULL => chosen' \in N
  BY <1>1, <1>2
<1>9. timeout' \in Awake .. ReapMaxWakeup /\ ~ (timeout' > 0) /\ timeout' # 0
  BY WaitAssumption DEF Awake
<1> QED
  BY <1>1, <1>3, <1>5, <1>6, <1>7, <1>8, <1>9, IInvFollows DEF N

\* The tree, its cache and what was asked for are left alone.
LEMMA IdleKeeps ==
    ASSUME IInv, UNCHANGED <<root, node, wakeup, earliest>>,
           \/ timeout' = Awake /\ chosen' \in {chosen, NULL}
           \/ timeout' = timeout /\ chosen' = chosen
    PROVE  IInv'
<1> DEFINE M == Members(Tree)
           N == Members(Tree')
<1>1. N = M /\ Sound(Tree') /\ node' = node /\ wakeup' = wakeup /\ earliest' = earliest
  <2>1. Tree' = Tree
    BY DEF Tree
  <2> QED BY <2>1 DEF IInv
<1>2. /\ wakeup \in [Entries -> Int]
      /\ \A x \in Entries : node[x].tv \in -MaxOverdue .. MaxWait /\ node[x].pri \in 0 .. MaxPri
      /\ \A x \in M : wakeup[x] <= MaxWait /\ node[x].tv - wakeup[x] \in -SigmaMax .. SigmaMax
      /\ \A x \in Entries \ M : wakeup[x] = 0
      /\ earliest # NULL => earliest \in M /\ \A x \in M : node[earliest].tv <= node[x].tv
      /\ chosen # NULL => chosen \in M
  BY IInvSays
<1>3. /\ timeout \in Awake .. ReapMaxWakeup
      /\ timeout > 0 => /\ \A x \in M : timeout <= node[x].tv
                        /\ chosen # NULL => node[chosen].tv = timeout
      /\ timeout = 0 /\ chosen # NULL => node[chosen].tv <= 0
  BY InMembers DEF IInv, TypeOK, WakesInTime, ServedIsDue, Members
<1>4. Awake \in Awake .. ReapMaxWakeup /\ ~ (Awake > 0) /\ Awake # 0
  BY WaitAssumption DEF Awake
<1> HIDE DEF M, N
<1>5. /\ timeout' \in Awake .. ReapMaxWakeup
      /\ timeout' > 0 => /\ \A x \in N : timeout' <= node'[x].tv
                         /\ chosen' # NULL => node'[chosen'].tv = timeout'
      /\ timeout' = 0 /\ chosen' # NULL => node'[chosen'].tv <= 0
      /\ chosen' # NULL => chosen' \in N
  <2>1. CASE timeout' = Awake /\ chosen' \in {chosen, NULL}
    BY <2>1, <1>1, <1>2, <1>4
  <2>2. CASE timeout' = timeout /\ chosen' = chosen
    BY <2>2, <1>1, <1>2, <1>3
  <2> QED BY <2>1, <2>2
<1> QED
  BY <1>1, <1>2, <1>5, IInvFollows DEF N

\* schedule_get_earliest_wakeup
LEMMA EarliestIs ==
    ASSUME IInv
    PROVE  /\ Earliest # NULL => /\ Earliest \in Members(Tree)
                                 /\ \A e \in Members(Tree) : node[Earliest].tv <= node[e].tv
           /\ Earliest = NULL => Members(Tree) = {}
<1> DEFINE s == Tree
<1>1. s.node = node /\ s.root = root /\ Sound(s)
  BY DEF Tree, IInv
<1>2. earliest # NULL => /\ earliest \in Members(s)
                         /\ \A e \in Members(s) : node[earliest].tv <= node[e].tv
  BY IInvSays
<1>3. NULL \notin Members(s)
  BY EntriesAssumption DEF Members
<1> HIDE DEF s
<1>4. CASE earliest # NULL
  BY <1>2, <1>4 DEF Earliest, s
<1>5. CASE earliest = NULL
  <2>1. Earliest = FindLeast(s, s.root)
    BY <1>1, <1>5 DEF Earliest, s
  <2>2. CASE s.root = NULL
    <3>1. Members(s) = {} /\ Earliest = NULL
      BY <1>1, <2>1, <2>2, SoundTypes DEF FindLeast
    <3> QED BY <3>1 DEF s
  <2>3. CASE s.root # NULL
    <3>1. /\ Earliest \in Members(s)
          /\ \A x \in Members(s) : s.node[Earliest].tv <= s.node[x].tv
      BY <1>1, <2>1, <2>3, LeastFound DEF Sound
    <3> QED BY <3>1, <1>1, <1>3 DEF s
  <2> QED BY <2>2, <2>3
<1> QED
  BY <1>4, <1>5

\* multi_get_timeout keeps the invariant: it caches and chooses the least entry.
LEMMA GetTimeoutKeeps ==
    ASSUME IInv, GetTimeout
    PROVE  IInv'
<1> DEFINE M == Members(Tree)
           N == Members(Tree')
<1>1. /\ earliest' = Earliest /\ UNCHANGED <<root, node, wakeup>>
      /\ IF Soon(Earliest)
         THEN /\ chosen' = Earliest
              /\ timeout' = IF node[Earliest].tv > 0 THEN node[Earliest].tv ELSE 0
         ELSE chosen' = NULL /\ timeout' = ReapMaxWakeup
  BY DEF GetTimeout
<1>2. Tree' = Tree /\ N = M /\ Sound(Tree') /\ node' = node /\ wakeup' = wakeup
  <2>1. Tree' = Tree
    BY <1>1 DEF Tree
  <2> QED BY <2>1, <1>1 DEF IInv
<1>3. /\ wakeup \in [Entries -> Int] /\ M \subseteq Entries
      /\ \A x \in Entries : node[x].tv \in -MaxOverdue .. MaxWait /\ node[x].pri \in 0 .. MaxPri
      /\ \A x \in Entries : node[x].tv \in Int
      /\ \A x \in M : wakeup[x] <= MaxWait /\ node[x].tv - wakeup[x] \in -SigmaMax .. SigmaMax
      /\ \A x \in Entries \ M : wakeup[x] = 0
  BY IInvSays
<1>4. /\ Earliest # NULL => Earliest \in M /\ \A e \in M : node[Earliest].tv <= node[e].tv
      /\ Earliest = NULL => M = {}
  BY EarliestIs
<1>5. ReapMaxWakeup \in Int /\ ReapMaxWakeup > 0
  BY WaitAssumption
<1> HIDE DEF M, N
<1>6. /\ timeout' \in Awake .. ReapMaxWakeup
      /\ timeout' > 0 => /\ \A x \in N : timeout' <= node'[x].tv
                         /\ chosen' # NULL => node'[chosen'].tv = timeout'
      /\ timeout' = 0 /\ chosen' # NULL => node'[chosen'].tv <= 0
      /\ chosen' # NULL => chosen' \in N
  <2>1. CASE Soon(Earliest)
    <3>1. Earliest # NULL /\ Earliest \in M /\ Earliest \in Entries
          /\ node[Earliest].tv < ReapMaxWakeup /\ node[Earliest].tv \in Int
      BY <2>1, <1>3, <1>4 DEF Soon
    <3>2. chosen' = Earliest /\ timeout' = IF node[Earliest].tv > 0 THEN node[Earliest].tv ELSE 0
      BY <2>1, <1>1
    <3> QED BY <3>1, <3>2, <1>2, <1>3, <1>4, <1>5 DEF Awake
  <2>2. CASE ~ Soon(Earliest)
    <3>1. chosen' = NULL /\ timeout' = ReapMaxWakeup
      BY <2>2, <1>1
    <3>2. \A x \in M : ReapMaxWakeup <= node[x].tv
      <4>1. CASE Earliest = NULL
        BY <4>1, <1>4
      <4>2. CASE Earliest # NULL
        <5>1. Earliest \in Entries /\ ~ (node[Earliest].tv < ReapMaxWakeup)
          BY <4>2, <2>2, <1>3, <1>4 DEF Soon
        <5> QED BY <5>1, <4>2, <1>3, <1>4, <1>5
      <4> QED BY <4>1, <4>2
    <3> QED BY <3>1, <3>2, <1>2, <1>5 DEF Awake
  <2> QED BY <2>1, <2>2
<1>7. earliest' # NULL => earliest' \in N /\ \A x \in N : node'[earliest'].tv <= node'[x].tv
  BY <1>1, <1>2, <1>4
<1> QED
  BY <1>2, <1>3, <1>6, <1>7, IInvFollows DEF N

\* A second keeps the invariant: all the times come nearer alike.
LEMMA TickKeeps ==
    ASSUME IInv, Tick
    PROVE  IInv'
<1> DEFINE M == Members(Tree)
           N == Members(Tree')
<1>1. /\ Sound(Tree') /\ N = M
      /\ \A x \in M : node'[x].tv = node[x].tv - 1 /\ node'[x].pri = node[x].pri
      /\ \A x \in Entries \ M : node'[x] = node[x]
  BY Ticked DEF IInv
<1>2. /\ \A x \in M : node[x].tv > -MaxOverdue
      /\ wakeup' = [x \in Entries |-> IF x \in M THEN wakeup[x] - 1 ELSE wakeup[x]]
      /\ timeout' = IF timeout > 0 THEN timeout - 1 ELSE timeout
      /\ earliest' = earliest /\ chosen' = chosen
  BY InMembers DEF Tick, Members
<1>3. /\ MaxOverdue \in Nat /\ SigmaMax \in Nat /\ MaxWait \in Nat /\ MaxPri \in Nat
      /\ M \subseteq Entries
      /\ wakeup \in [Entries -> Int]
      /\ \A x \in Entries : /\ node[x].tv \in -MaxOverdue .. MaxWait /\ node[x].tv \in Int
                            /\ node[x].pri \in 0 .. MaxPri
      /\ \A x \in M : wakeup[x] <= MaxWait /\ node[x].tv - wakeup[x] \in -SigmaMax .. SigmaMax
      /\ \A x \in Entries \ M : wakeup[x] = 0
      /\ earliest # NULL => earliest \in M /\ \A x \in M : node[earliest].tv <= node[x].tv
      /\ chosen # NULL => chosen \in M
  BY IInvSays
<1>4. /\ timeout \in Awake .. ReapMaxWakeup
      /\ timeout > 0 => /\ \A x \in M : timeout <= node[x].tv
                        /\ chosen # NULL => node[chosen].tv = timeout
      /\ timeout = 0 /\ chosen # NULL => node[chosen].tv <= 0
  BY InMembers DEF IInv, TypeOK, WakesInTime, ServedIsDue, Members
<1>5. ReapMaxWakeup \in Int /\ timeout \in Int
  BY <1>4, WaitAssumption DEF Awake
<1> HIDE DEF M, N
<1>6. wakeup' \in [Entries -> Int]
  BY <1>2, <1>3
<1>7. \A x \in Entries : node'[x].tv \in -MaxOverdue .. MaxWait /\ node'[x].pri \in 0 .. MaxPri
  <2> TAKE x \in Entries
  <2>1. CASE x \in M
    BY <2>1, <1>1, <1>2, <1>3
  <2>2. CASE x \notin M
    BY <2>2, <1>1, <1>3
  <2> QED BY <2>1, <2>2
<1>8. \A x \in N : wakeup'[x] <= MaxWait /\ node'[x].tv - wakeup'[x] \in -SigmaMax .. SigmaMax
  <2> TAKE x \in N
  <2>1. x \in M /\ x \in Entries /\ wakeup'[x] = wakeup[x] - 1 /\ node'[x].tv = node[x].tv - 1
    BY <1>1, <1>2, <1>3
  <2>2. wakeup[x] \in Int /\ node[x].tv \in Int /\ wakeup[x] <= MaxWait
        /\ node[x].tv - wakeup[x] \in -SigmaMax .. SigmaMax
    BY <2>1, <1>3
  <2> QED BY <2>1, <2>2, <1>3
<1>9. \A x \in Entries \ N : wakeup'[x] = 0
  BY <1>1, <1>2, <1>3
<1>10. /\ earliest' # NULL => earliest' \in N /\ \A x \in N : node'[earliest'].tv <= node'[x].tv
       /\ chosen' # NULL => chosen' \in N
  BY <1>1, <1>2, <1>3
<1>11. /\ timeout' \in Awake .. ReapMaxWakeup
       /\ timeout' > 0 => /\ \A x \in N : timeout' <= node'[x].tv
                          /\ chosen' # NULL => node'[chosen'].tv = timeout'
       /\ timeout' = 0 /\ chosen' # NULL => node'[chosen'].tv <= 0
  BY <1>1, <1>2, <1>3, <1>4, <1>5 DEF Awake
<1> QED
  BY <1>1, <1>6, <1>7, <1>8, <1>9, <1>10, <1>11, IInvFollows DEF N

\* An empty scheduler has the invariant.
LEMMA IInvInit ==
    ASSUME Init
    PROVE  IInv
<1>1. Sound(Tree) /\ Members(Tree) = {}
  BY InitSound
<1>2. \A e \in Entries : ~ InTree(Tree, e)
  BY <1>1, InMembers
<1>3. /\ root = NULL /\ node = [e \in Entries |-> Unlinked] /\ wakeup = [e \in Entries |-> 0]
      /\ earliest = NULL /\ chosen = NULL /\ timeout = -1
  BY DEF Init, Awake
<1>4. TypeOK
  <2>1. /\ MaxOverdue \in Nat /\ SigmaMax \in Nat /\ MaxWait \in Nat /\ MaxPri \in Nat
    BY BoundAssumption
  <2>2. 0 \in -MaxOverdue .. MaxWait /\ 0 \in 0..MaxPri /\ 0 \in -(MaxOverdue + SigmaMax) .. MaxWait
    BY <2>1
  <2>3. Unlinked \in [tv : -MaxOverdue .. MaxWait, pri : 0..MaxPri,
                      parent : Entries \union {NULL}, lt : Entries \union {NULL},
                      gt : Entries \union {NULL}]
    BY <2>2 DEF Unlinked
  <2>4. node \in [Entries -> [tv : -MaxOverdue .. MaxWait, pri : 0..MaxPri,
                      parent : Entries \union {NULL}, lt : Entries \union {NULL},
                      gt : Entries \union {NULL}]]
    BY <2>3, <1>3
  <2>5. wakeup \in [Entries -> -(MaxOverdue + SigmaMax) .. MaxWait]
    BY <2>2, <1>3
  <2>6. timeout \in Awake .. ReapMaxWakeup
    BY <1>3, WaitAssumption DEF Awake
  <2> QED BY <2>4, <2>5, <2>6, <1>3 DEF TypeOK
<1>5. WakeupsKept
  BY <1>2, <1>3 DEF WakeupsKept
<1>6. CacheFresh /\ WakesInTime /\ ServedIsDue
  BY <1>3 DEF CacheFresh, WakesInTime, ServedIsDue
<1> QED
  BY <1>1, <1>4, <1>5, <1>6 DEF IInv

\* Every step keeps the invariant.
LEMMA IInvStep ==
    ASSUME IInv, [Next]_vars
    PROVE  IInv'
<1>1. ASSUME NEW e \in Entries, Handle(e) PROVE IInv'
  BY <1>1, ScheduleKeeps DEF Handle
<1>2. ASSUME NEW e \in Entries, CloseInstance(e) PROVE IInv'
  <2>1. /\ Close(e) /\ timeout' = Awake
        /\ chosen' = NULL \/ (chosen' = chosen /\ chosen # e)
    BY <1>2 DEF CloseInstance
  <2> QED BY <2>1, CloseKeeps
<1>3. CASE GetTimeout
  BY <1>3, GetTimeoutKeeps
<1>4. CASE Event
  <2>1. UNCHANGED <<root, node, wakeup, earliest>> /\ timeout' = Awake /\ chosen' \in {chosen, NULL}
    BY <1>4 DEF Event
  <2> QED BY <2>1, IdleKeeps
<1>5. CASE ProcessTimeout
  <2>1. CASE chosen = NULL
    <3>1. UNCHANGED <<root, node, wakeup, earliest>> /\ timeout' = Awake /\ chosen' \in {chosen, NULL}
      BY <1>5, <2>1 DEF ProcessTimeout
    <3> QED BY <3>1, IdleKeeps
  <2>2. CASE chosen # NULL
    <3>1. timeout' = Awake /\ chosen' = NULL /\ (Close(chosen) \/ ScheduleWakeup(chosen))
      BY <1>5, <2>2 DEF ProcessTimeout
    <3>2. chosen \in Entries
      BY <2>2 DEF IInv, TypeOK
    <3>3. CASE Close(chosen)
      BY <3>1, <3>2, <3>3, CloseKeeps
    <3>4. CASE ScheduleWakeup(chosen)
      BY <3>1, <3>2, <3>4, ScheduleKeeps
    <3> QED BY <3>1, <3>3, <3>4
  <2> QED BY <2>1, <2>2
<1>6. CASE Tick
  BY <1>6, TickKeeps
<1>7. CASE UNCHANGED vars
  <2>1. UNCHANGED <<root, node, wakeup, earliest>> /\ timeout' = timeout /\ chosen' = chosen
    BY <1>7 DEF vars
  <2> QED BY <2>1, IdleKeeps
<1> QED
  BY <1>1, <1>2, <1>3, <1>4, <1>5, <1>6, <1>7 DEF Next

\* The inductive invariant holds throughout.
THEOREM Inductive == Spec => []IInv
<1>1. Init => IInv
  BY IInvInit
<1>2. IInv /\ [Next]_vars => IInv'
  BY IInvStep
<1> QED
  BY <1>1, <1>2, PTL DEF Spec

\* The tree of the scheduler is a search tree in the order of the times, a heap in
\* the order of the priorities, and holds what has a priority, whatever was added,
\* moved and removed (schedule.c).
THEOREM TreapHolds == Spec => []Treap
<1>1. IInv => Treap
  <2> SUFFICES ASSUME IInv PROVE Treap
    OBVIOUS
  <2>1. PICK sub : Built(Tree, Members(Tree), sub) /\ Heap(Tree, Members(Tree))
    BY DEF IInv, Sound, TreapOf
  <2>2. Scheduled = Members(Tree)
    BY DEF Scheduled, Members
  <2>3. SearchTree(Tree, Members(Tree))
    BY <2>1 DEF Built, SearchTree
  <2> QED BY <2>1, <2>2, <2>3 DEF IInv, Treap
<1> QED
  BY <1>1, Inductive, PTL

\* What schedule_get_earliest_wakeup has cached is scheduled and the earliest, and
\* m->earliest_wakeup points to an instance that is there.
THEOREM CacheIsFresh == Spec => []CacheFresh
<1>1. IInv => CacheFresh
  BY DEF IInv
<1> QED
  BY <1>1, Inductive, PTL

\* The loop of the server does not wait past a wakeup (multi_get_timeout).
THEOREM LoopWakesInTime == Spec => []WakesInTime
<1>1. IInv => WakesInTime
  BY DEF IInv
<1> QED
  BY <1>1, Inductive, PTL

---------------------------------------------------------------------------
\* Whoever was served, and the refinement.

\* The instance that is served asks for its next wakeup: it is moved, not left due.
LEMMA ServedMoves ==
    ASSUME IInv, timeout = 0, chosen # NULL, ScheduleWakeup(chosen)
    PROVE  \E d \in 0 .. MaxWait : wakeup' = [wakeup EXCEPT ![chosen] = d] /\ Set(chosen, d)
<1>1. chosen \in Entries /\ node[chosen].tv <= 0 /\ node[chosen].tv \in Int
      /\ wakeup \in [Entries -> Int]
  <2>1. chosen \in Entries /\ node[chosen].tv <= 0
    BY DEF IInv, TypeOK, ServedIsDue
  <2> QED BY <2>1, IInvSays
<1>2. PICK d \in 0 .. MaxWait : wakeup' = [wakeup EXCEPT ![chosen] = d] /\ AddEntry(chosen, d)
  BY DEF ScheduleWakeup
<1>3. Moves(chosen, d)
  <2> SUFFICES ASSUME ~ Moves(chosen, d) PROVE FALSE
    OBVIOUS
  <2>1. Sigma(d) # 0 /\ node[chosen].tv - d \in -Sigma(d) .. Sigma(d)
    BY DEF Moves, WithinSigma, Tree
  <2>2. d \in Int /\ Sigma(d) \in Nat /\ (d # 0 => Sigma(d) < d) /\ (d = 0 => Sigma(d) = 0)
    <3>1. d \in Int
      BY BoundAssumption
    <3> QED BY <3>1, SigmaBounds
  <2> QED BY <2>1, <2>2, <1>1
<1>4. Set(chosen, d)
  BY <1>1, <1>2, <1>3, Asked DEF IInv
<1> QED
  BY <1>2, <1>4

\* Whoever was served is scheduled for the time it asked for, or gone
\* (multi_process_timeout): the tolerance of schedule_add_entry does not leave it due.
THEOREM ServedAreRescheduled == Spec => ServedIsRescheduled
<1> DEFINE A == timeout = 0 /\ chosen # NULL /\ chosen' = NULL =>
                   node'[chosen].pri = 0 \/ node'[chosen].tv = wakeup'[chosen]
<1>1. ASSUME IInv, [Next]_vars PROVE [A]_vars
  <2> SUFFICES ASSUME timeout = 0, chosen # NULL, chosen' = NULL
               PROVE  node'[chosen].pri = 0 \/ node'[chosen].tv = wakeup'[chosen]
    OBVIOUS
  <2>1. ProcessTimeout
    BY <1>1 DEF Next, Handle, CloseInstance, GetTimeout, Event, Tick, vars, Awake
  <2>2. chosen \in Entries /\ wakeup \in [Entries -> Int]
    BY <1>1, IInvSays DEF IInv, TypeOK
  <2>3. CASE Close(chosen)
    <3>1. node'[chosen] = Unlinked
      BY <1>1, <2>2, <2>3, Closed DEF IInv, Unset
    <3> QED BY <3>1 DEF Unlinked
  <2>4. CASE ScheduleWakeup(chosen)
    <3>1. PICK d \in 0 .. MaxWait : wakeup' = [wakeup EXCEPT ![chosen] = d] /\ Set(chosen, d)
      BY <1>1, <2>4, ServedMoves
    <3> QED BY <3>1, <2>2 DEF Set
  <2> QED BY <2>1, <2>3, <2>4 DEF ProcessTimeout
<1> QED
  BY <1>1, Inductive, PTL DEF Spec, ServedIsRescheduled

---------------------------------------------------------------------------
\* The scheduler implements Wakeups.

At == [e \in {x \in Entries : InTree(Tree, x)} |-> node[e].tv]
Serving == IF timeout = 0 THEN chosen ELSE NULL

\* The times that Wakeups is shown are those of the members.
LEMMA AtIs ==
    /\ DOMAIN At = Members(Tree) /\ At = [e \in Members(Tree) |-> node[e].tv]
    /\ At' = [e \in Members(Tree') |-> node'[e].tv]
<1>1. At = [e \in Members(Tree) |-> node[e].tv]
  BY DEF At, Members
<1>2. At' = [e \in Members(Tree') |-> node'[e].tv]
  BY DEF At, Members
<1> QED
  BY <1>1, <1>2

\* A set, or a removed, wakeup
LEMMA SetIs ==
    ASSUME NEW e \in Entries, NEW d, Set(e, d)
    PROVE  At' = [f \in DOMAIN At \union {e} |-> IF f = e THEN d ELSE At[f]]
<1>1. /\ Members(Tree') = Members(Tree) \union {e} /\ node'[e].tv = d
      /\ \A x \in Entries \ {e} : node'[x].tv = node[x].tv
      /\ Members(Tree) \subseteq Entries
  BY DEF Set, Keeps, Members
<1> DEFINE M == Members(Tree)
<1>2. DOMAIN At = M /\ At = [f \in M |-> node[f].tv] /\ At' = [f \in M \union {e} |-> node'[f].tv]
  BY <1>1, AtIs
<1> HIDE DEF M
<1>3. \A f \in M \union {e} : node'[f].tv = IF f = e THEN d ELSE At[f]
  BY <1>1, <1>2 DEF M
<1> QED
  BY <1>2, <1>3

\* An entry that is taken out of the tree has no time in Wakeups.
LEMMA UnsetIs ==
    ASSUME NEW e \in Entries, Unset(e)
    PROVE  At' = [f \in DOMAIN At \ {e} |-> At[f]]
<1>1. /\ Members(Tree') = Members(Tree) \ {e}
      /\ \A x \in Entries \ {e} : node'[x].tv = node[x].tv
      /\ Members(Tree) \subseteq Entries
  BY DEF Unset, Keeps, Members
<1> DEFINE M == Members(Tree)
<1>2. DOMAIN At = M /\ At = [f \in M |-> node[f].tv] /\ At' = [f \in M \ {e} |-> node'[f].tv]
  BY <1>1, AtIs
<1> HIDE DEF M
<1>3. \A f \in M \ {e} : node'[f].tv = At[f]
  BY <1>1, <1>2 DEF M
<1> QED
  BY <1>2, <1>3

\* An instance asks for a wakeup outside of its turn.
LEMMA AskIs ==
    ASSUME IInv, NEW e \in Entries, Handle(e)
    PROVE  \E d \in 0 .. MaxWait : Promise!Ask(e, d)
<1>1. timeout = Awake /\ timeout' = Awake
  BY DEF Handle
<1>2. Serving = NULL /\ Serving' = NULL
  BY <1>1 DEF Serving, Awake
<1>3. PICK d \in 0 .. MaxWait : AddEntry(e, d)
  BY DEF Handle, ScheduleWakeup
<1>4. CASE Set(e, d)
  <2>1. At' = [f \in DOMAIN At \union {e} |-> IF f = e THEN d ELSE At[f]]
    BY <1>4, SetIs
  <2>2. Promise!Ask(e, d)
    BY <2>1, <1>2 DEF Promise!Ask, Promise!Set, Promise!Scheduled, At, Serving
  <2> QED BY <2>2
<1>5. CASE ~ Moves(e, d) /\ UNCHANGED <<root, node, earliest>>
  <2>1. At' = At
    BY <1>5 DEF At, Tree
  <2>2. e \in Members(Tree) /\ node[e].tv - d \in -Sigma(d) .. Sigma(d)
    <3>1. InTree(Tree, e) /\ WithinSigma(Tree, e, d)
      BY <1>5 DEF Moves
    <3> QED BY <3>1, InMembers DEF WithinSigma, Tree
  <2>3. e \in DOMAIN At /\ At[e] = node[e].tv
    BY <2>2, AtIs
  <2>4. e \in DOMAIN At /\ At[e] - d \in -Sigma(d) .. Sigma(d)
    BY <2>2, <2>3
  <2>5. [x \in 0 .. MaxWait |-> Sigma(x)][d] = Sigma(d)
    OBVIOUS
  <2>6. Promise!Near(e, d)
    BY <2>4, <2>5 DEF Promise!Near, Promise!Scheduled, At
  <2>7. Promise!Ask(e, d)
    BY <2>1, <2>6, <1>2 DEF Promise!Ask, At, Serving
  <2> QED BY <2>7
<1> QED
  BY <1>3, <1>4, <1>5, Asked DEF IInv

\* Closing an instance cancels its wakeup.
LEMMA CancelIs ==
    ASSUME IInv, NEW e \in Entries, CloseInstance(e)
    PROVE  Promise!Cancel(e)
<1>1. Serving = NULL /\ Serving' = NULL
  BY DEF CloseInstance, Serving, Awake
<1>2. At' = [f \in DOMAIN At \ {e} |-> At[f]]
  BY Closed, UnsetIs DEF CloseInstance, IInv
<1> QED
  BY <1>1, <1>2 DEF Promise!Cancel, Promise!Drop, Promise!Scheduled, At, Serving

\* The wakeup that comes up is due, and the earliest.
LEMMA ComesUpIf ==
    ASSUME NEW e \in DOMAIN At, Serving' = e, At'[e] <= 0, \A f \in DOMAIN At : At'[e] <= At'[f]
    PROVE  Promise!ComesUp(e)
BY DEF Promise!ComesUp, Promise!Scheduled, At, Serving

\* multi_get_timeout begins a wait of Wakeups, or finds somebody due at once.
LEMMA WaitIs ==
    ASSUME IInv, GetTimeout
    PROVE  Promise!Wait \/ Promise!Event
<1>1. At' = At
  BY DEF GetTimeout, At, Tree
<1>2. Serving = NULL
  BY DEF GetTimeout, Serving, Awake
<1>3. CASE Serving' = NULL
  BY <1>1, <1>3 DEF Promise!Event, At, Serving
<1>4. CASE Serving' # NULL
  <2>1. timeout' = 0 /\ Serving' = chosen'
    BY <1>4 DEF Serving
  <2>2. Soon(Earliest) /\ chosen' = Earliest /\ ~ (node[Earliest].tv > 0)
    BY <2>1, WaitAssumption DEF GetTimeout
  <2>3. Earliest \in Members(Tree) /\ \A f \in Members(Tree) : node[Earliest].tv <= node[f].tv
    BY <2>2, EarliestIs DEF Soon
  <2>4. Earliest \in Entries /\ node[Earliest].tv \in Int
    BY <2>3, IInvSays
  <2>5. PICK e \in Entries : e = Earliest
    BY <2>4
  <2>6. e \in DOMAIN At /\ \A f \in DOMAIN At : At[e] <= At[f]
    BY <2>3, <2>5, AtIs
  <2>7. At[e] <= 0
    BY <2>2, <2>3, <2>4, <2>5, AtIs
  <2>8. Serving' = e
    BY <2>1, <2>2, <2>5
  <2>9. Promise!ComesUp(e)
    BY <2>6, <2>7, <2>8, <1>1, ComesUpIf
  <2>10. Promise!Wait
    BY <2>9, <1>1, <1>2 DEF Promise!Wait, At, Serving
  <2> QED BY <2>10
<1> QED
  BY <1>3, <1>4

\* A second passes in Wakeups too.
LEMMA TickIs ==
    ASSUME IInv, Tick
    PROVE  Promise!Tick
<1> DEFINE M == Members(Tree)
<1>1. /\ Members(Tree') = M
      /\ \A x \in M : node'[x].tv = node[x].tv - 1
  BY Ticked DEF IInv
<1>2. DOMAIN At = M /\ \A f \in M : At[f] = node[f].tv /\ At'[f] = node[f].tv - 1
  BY <1>1, AtIs
<1>3. At' = [f \in DOMAIN At |-> At[f] - 1]
  BY <1>1, <1>2, AtIs
<1>4. timeout' = (IF timeout > 0 THEN timeout - 1 ELSE timeout) /\ chosen' = chosen
  BY DEF Tick
<1>5. timeout \in Int
  BY WaitAssumption DEF IInv, TypeOK, Awake
<1>6. Serving' = Serving \/ (Serving = NULL /\ \E e \in Entries : Promise!ComesUp(e))
  <2>1. CASE ~ (timeout > 0)
    BY <2>1, <1>4 DEF Serving
  <2>2. CASE timeout > 0
    <3>1. Serving = NULL
      BY <2>2 DEF Serving
    <3>2. CASE Serving' = NULL
      BY <3>1, <3>2
    <3>3. CASE Serving' # NULL
      <4>1. timeout' = 0 /\ Serving' = chosen /\ chosen # NULL
        BY <3>3, <1>4 DEF Serving
      <4>2. timeout = 1
        BY <4>1, <2>2, <1>4, <1>5
      <4>3. chosen \in M /\ node[chosen].tv = 1 /\ \A f \in M : 1 <= node[f].tv
        BY <4>1, <4>2, <2>2, IInvSays, InMembers DEF IInv, WakesInTime
      <4>4. \A f \in M : node[f].tv \in Int /\ f \in Entries
        BY IInvSays
      <4> HIDE DEF M
      <4>5. PICK e \in Entries : e = chosen
        BY <4>3, <4>4
      <4>6. e \in DOMAIN At /\ At'[e] = 0 /\ Serving' = e
        BY <4>1, <4>3, <4>4, <4>5, <1>2
      <4>7. \A f \in DOMAIN At : At'[e] <= At'[f]
        BY <4>3, <4>4, <4>6, <1>2
      <4>8. Promise!ComesUp(e)
        BY <4>6, <4>7, ComesUpIf
      <4> QED BY <4>8, <3>1
    <3> QED BY <3>2, <3>3
  <2> QED BY <2>1, <2>2
<1> QED
  BY <1>3, <1>6 DEF Promise!Tick, Promise!Scheduled, At, Serving

\* multi_process_timeout serves whom Wakeups lets it serve.
LEMMA ServeIs ==
    ASSUME IInv, ProcessTimeout
    PROVE  Promise!Serve \/ Promise!Event
<1>1. Serving' = NULL /\ Serving = chosen
  BY DEF ProcessTimeout, Serving, Awake
<1>2. CASE chosen = NULL
  <2>1. At' = At
    BY <1>2 DEF ProcessTimeout, At, Tree
  <2> QED BY <1>1, <2>1 DEF Promise!Event, At, Serving
<1>3. CASE chosen # NULL
  <2>1. chosen \in Entries
    BY <1>3 DEF IInv, TypeOK
  <2>2. CASE Close(chosen)
    <3>1. At' = [f \in DOMAIN At \ {chosen} |-> At[f]]
      BY <2>1, <2>2, Closed, UnsetIs DEF IInv
    <3>2. At' = [f \in DOMAIN At \ {Serving} |-> At[f]]
      BY <3>1, <1>1
    <3> QED BY <3>2, <1>1, <1>3 DEF Promise!Serve, Promise!Drop, Promise!Scheduled, At, Serving
  <2>3. CASE ScheduleWakeup(chosen)
    <3>1. PICK d \in 0 .. MaxWait : Set(chosen, d)
      BY <1>3, <2>3, ServedMoves DEF ProcessTimeout
    <3>2. At' = [f \in DOMAIN At \union {chosen} |-> IF f = chosen THEN d ELSE At[f]]
      BY <2>1, <3>1, SetIs
    <3>3. At' = [f \in DOMAIN At \union {Serving} |-> IF f = Serving THEN d ELSE At[f]]
      BY <3>2, <1>1
    <3>4. Promise!Set(Serving, d)
      BY <3>3 DEF Promise!Set, Promise!Scheduled, At
    <3> QED BY <3>4, <1>1, <1>3 DEF Promise!Serve, At, Serving
  <2> QED BY <1>3, <2>2, <2>3 DEF ProcessTimeout
<1> QED
  BY <1>2, <1>3

\* The scheduler keeps what Wakeups promises.
THEOREM Implements == Spec => ImplementsWakeups
<1>1. Init => Promise!Init
  <2> SUFFICES ASSUME Init PROVE Promise!Init
    OBVIOUS
  <2>1. Members(Tree) = {} /\ Serving = NULL
    BY InitSound DEF Init, Serving, Awake
  <2>2. At = [e \in {} |-> 0]
    BY <2>1, AtIs
  <2> QED BY <2>1, <2>2 DEF Promise!Init, At, Serving
<1>2. ASSUME IInv, [Next]_vars
      PROVE  [Promise!Next]_<<At, Serving>>
  <2>1. CASE \E e \in Entries : Handle(e)
    <3>1. PICK e \in Entries : Handle(e)
      BY <2>1
    <3>2. \E d \in 0 .. MaxWait : Promise!Ask(e, d)
      BY <3>1, <1>2, AskIs
    <3> QED BY <3>2 DEF Promise!Next
  <2>2. CASE \E e \in Entries : CloseInstance(e)
    <3>1. PICK e \in Entries : CloseInstance(e)
      BY <2>2
    <3>2. Promise!Cancel(e)
      BY <3>1, <1>2, CancelIs
    <3> QED BY <3>2 DEF Promise!Next
  <2>3. CASE GetTimeout
    BY <2>3, <1>2, WaitIs DEF Promise!Next
  <2>4. CASE Event
    <3>1. At' = At /\ Serving' = NULL
      BY <2>4 DEF Event, At, Serving, Tree, Awake
    <3>2. Promise!Event
      BY <3>1 DEF Promise!Event, At, Serving
    <3> QED BY <3>2 DEF Promise!Next
  <2>5. CASE ProcessTimeout
    BY <2>5, <1>2, ServeIs DEF Promise!Next
  <2>6. CASE Tick
    BY <2>6, <1>2, TickIs DEF Promise!Next
  <2>7. CASE UNCHANGED vars
    BY <2>7 DEF vars, At, Serving, Tree
  <2> QED BY <1>2, <2>1, <2>2, <2>3, <2>4, <2>5, <2>6, <2>7 DEF Next
<1>3. [Promise!Next]_<<At, Serving>> <=>
      [Promise!Next]_<<[e \in {x \in Entries : InTree(Tree, x)} |-> node[e].tv],
                       IF timeout = 0 THEN chosen ELSE NULL>>
  BY DEF At, Serving
<1> QED
  BY <1>1, <1>2, <1>3, Inductive, PTL DEF Spec, ImplementsWakeups, Promise!Spec
===============================================================================
