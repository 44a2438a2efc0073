------------------------------ MODULE Schedule ------------------------------
(***************************************************************************)
(* The scheduler of the client instances: the treap of openvpn/Src/        *)
(* schedule.c, its cached earliest entry, and the functions of multi.c and *)
(* multi.h by which the server's loop uses it.                             *)
(*                                                                         *)
(* A treap is a search tree in the order of <<tv, pri>> and a heap in the  *)
(* order of pri, which is random.  The operators on it take the links of   *)
(* the tree and return them changed, as the C functions do.  Times are     *)
(* relative to now, so that a behaviour has no end.                        *)
(***************************************************************************)
EXTENDS Integers, Sequences, FiniteSets

CONSTANTS
    Entries,        \* the struct schedule_entry of each instance
    NULL,
    MaxPri,         \* bound: priorities are random in 1..MaxPri
    MaxWait,        \* bound: the longest wait asked for
    MaxOverdue,     \* bound: how late a wakeup may be
    SigmaDivisor,   \* a wakeup may be off by this part of the wait
    SigmaMax,       \* but by no more than this
    ReapMaxWakeup   \* REAP_MAX_WAKEUP, the longest wait of the loop

ASSUME EntriesAssumption == IsFiniteSet(Entries) /\ NULL \notin Entries
ASSUME BoundAssumption ==
    /\ {MaxWait, MaxOverdue, SigmaMax} \subseteq Nat
    /\ MaxPri \in Nat /\ MaxPri >= Cardinality(Entries)
ASSUME WaitAssumption ==
    /\ SigmaDivisor \in Nat /\ SigmaDivisor >= 2
    /\ ReapMaxWakeup \in Nat \ {0}

VARIABLES
    root,       \* s->root
    node,       \* the links, priority and time of each entry
    wakeup,     \* mi->wakeup, the time asked for last
    earliest,   \* s->earliest_wakeup, a cache
    chosen,     \* m->earliest_wakeup
    timeout     \* what is left of the wait, or Awake

vars == <<root, node, wakeup, earliest, chosen, timeout>>

Awake == -1

Unlinked == [tv |-> 0, pri |-> 0, parent |-> NULL, lt |-> NULL, gt |-> NULL]

Links == Entries \union {NULL}

Tree == [root |-> root, node |-> node]

Trees ==
    [root : Links,
     node : [Entries -> [tv : Int, pri : Nat, parent : Links, lt : Links, gt : Links]]]

\* The tree t with entry e changed to x.
Change(t, e, x) ==
    [t EXCEPT !.node = [f \in Entries |-> IF f = e THEN x ELSE t.node[f]]]

\* A loop whose body F leaves what it ends with alone.  The path it follows has
\* no more entries than there are.
Loop(F, x) ==
    LET run[n \in Nat] == IF n = 0 THEN x ELSE F[run[n - 1]]
    IN run[Cardinality(Entries)]

---------------------------------------------------------------------------
\* The treap.

\* IN_TREE
InTree(t, e) == t.node[e].pri # 0

\* schedule_entry_compare
Before(t, e, c) ==
    \/ t.node[e].tv < t.node[c].tv
    \/ t.node[e].tv = t.node[c].tv /\ t.node[e].pri < t.node[c].pri

Same(t, e, c) == t.node[e].tv = t.node[c].tv /\ t.node[e].pri = t.node[c].pri

\* x with its link to `from` changed to `to`.
Relink(x, from, to) ==
    IF x.gt = from THEN [x EXCEPT !.gt = to] ELSE [x EXCEPT !.lt = to]

\* schedule_rotate_up: e takes the place of its parent, which becomes its
\* child; the subtree between the two changes sides.
RotateUp(t, e) ==
    LET p == t.node[e].parent
        gp == t.node[p].parent
        right == t.node[p].gt = e
        inner == IF right THEN t.node[e].lt ELSE t.node[e].gt
    IN [root |-> IF gp = NULL THEN e ELSE t.root,
        node |-> [x \in Entries |->
            IF x = e
            THEN IF right THEN [t.node[e] EXCEPT !.parent = gp, !.lt = p]
                 ELSE [t.node[e] EXCEPT !.parent = gp, !.gt = p]
            ELSE IF x = p THEN [Relink(t.node[p], e, inner) EXCEPT !.parent = e]
            ELSE IF x = gp THEN Relink(t.node[gp], p, e)
            ELSE IF x = inner THEN [t.node[x] EXCEPT !.parent = p]
            ELSE t.node[x]]]

\* schedule_detach_parent, of an entry without children
DetachParent(t, e) ==
    LET p == t.node[e].parent
    IN IF p = NULL
       THEN [t EXCEPT !.root = IF @ = e THEN NULL ELSE @]
       ELSE Change(Change(t, p, Relink(t.node[p], e, NULL)),
                   e, [t.node[e] EXCEPT !.parent = NULL])

\* The child that schedule_remove_node rotates up.
\* Mutant: always the left one, if there is one.
LesserChildMutant(t, e) == IF t.node[e].lt # NULL THEN t.node[e].lt ELSE t.node[e].gt
LesserChild(t, e) ==
    LET lt == t.node[e].lt
        gt == t.node[e].gt
    IN IF gt = NULL \/ (lt # NULL /\ t.node[lt].pri < t.node[gt].pri) THEN lt ELSE gt

\* schedule_remove_node.  The time of an entry that is not in the tree is not
\* looked at; it is 0 here.
RemoveNode(t, e) ==
    LET sunk == Loop([u \in Trees |-> IF LesserChild(u, e) = NULL THEN u
                                      ELSE RotateUp(u, LesserChild(u, e))], t)
        out == DetachParent(sunk, e)
    IN Change(out, e, [out.node[e] EXCEPT !.tv = 0, !.pri = 0])

\* The child of c on the side of e
Side(t, e, c) == IF Before(t, e, c) THEN t.node[c].lt ELSE t.node[c].gt

\* schedule_insert, into a tree that is not empty
Insert(t, e) ==
    LET c == Loop([x \in Entries |-> IF Side(t, e, x) = NULL THEN x ELSE Side(t, e, x)], t.root)
    IN Change(Change(t, e, [t.node[e] EXCEPT !.parent = c]), c,
              IF Before(t, e, c) THEN [t.node[c] EXCEPT !.lt = e]
              ELSE [t.node[c] EXCEPT !.gt = e])

\* Whether e is to change places with its parent
Lighter(t, e) ==
    t.node[e].parent # NULL /\ t.node[t.node[e].parent].pri > t.node[e].pri

\* The loop at the end of schedule_add_modify
Lift(t, e) == Loop([u \in Trees |-> IF Lighter(u, e) THEN RotateUp(u, e) ELSE u], t)

\* schedule_set_pri
Priorities == 1..MaxPri

\* schedule_add_modify, with tv already set.  Priorities that collide with an
\* entry of the same time are drawn again.
AddModify(t, e, tv) ==
    LET out == IF InTree(t, e) THEN RemoveNode(t, e) ELSE t
        With(pri) == Change(out, e, [out.node[e] EXCEPT !.tv = tv, !.pri = pri])
        Unique(pri) == \A c \in Entries \ {e} : InTree(t, c) => ~Same(With(pri), e, c)
    IN {IF out.root = NULL THEN [With(pri) EXCEPT !.root = e]
        ELSE Lift(Insert(With(pri), e), e) : pri \in {p \in Priorities : Unique(p)}}

\* schedule_find_least
FindLeast(t, e) ==
    IF e = NULL THEN NULL
    ELSE Loop([c \in Entries |-> IF t.node[c].lt = NULL THEN c ELSE t.node[c].lt], e)

---------------------------------------------------------------------------
\* The scheduler.

Least(a, b) == IF a < b THEN a ELSE b

\* compute_wakeup_sigma
\* Mutant: the tolerance is as long as the wait.
SigmaMutant(d) == d
Sigma(d) == Least(d \div SigmaDivisor, SigmaMax)

WithinSigma(t, e, d) == t.node[e].tv - d \in -Sigma(d) .. Sigma(d)

SetTree(t) == root' = t.root /\ node' = t.node

\* Whether schedule_add_entry does anything
Moves(e, d) == ~InTree(Tree, e) \/ Sigma(d) = 0 \/ ~WithinSigma(Tree, e, d)

\* Mutant: what is cached stays.
AddEntryMutant(e, d) ==
    IF Moves(e, d)
    THEN (\E t \in AddModify(Tree, e, d) : SetTree(t)) /\ UNCHANGED earliest
    ELSE UNCHANGED <<root, node, earliest>>
\* schedule_add_entry
AddEntry(e, d) ==
    IF Moves(e, d)
    THEN (\E t \in AddModify(Tree, e, d) : SetTree(t)) /\ earliest' = NULL
    ELSE UNCHANGED <<root, node, earliest>>

\* schedule_remove_entry, also of an entry that is not in the tree
RemoveEntry(e) ==
    /\ SetTree(RemoveNode(Tree, e))
    /\ earliest' = NULL

Init ==
    /\ root = NULL
    /\ node = [e \in Entries |-> Unlinked]
    /\ wakeup = [e \in Entries |-> 0]
    /\ earliest = NULL
    /\ chosen = NULL
    /\ timeout = Awake

---------------------------------------------------------------------------
\* The server's loop.

\* multi_schedule_context_wakeup
ScheduleWakeup(e) ==
    \E d \in 0..MaxWait :
        /\ wakeup' = [wakeup EXCEPT ![e] = d]
        /\ AddEntry(e, d)

\* A handler calls it.
Handle(e) ==
    /\ timeout = Awake
    /\ ScheduleWakeup(e)
    /\ UNCHANGED <<chosen, timeout>>

\* The scheduler's part of multi_close_instance; the memory is freed.
Close(e) ==
    /\ RemoveEntry(e)
    /\ wakeup' = [wakeup EXCEPT ![e] = 0]

CloseInstance(e) ==
    /\ timeout = Awake
    /\ Close(e)
    /\ chosen' = IF chosen = e THEN NULL ELSE chosen
    /\ UNCHANGED timeout

\* Mutant: the wait is for the root of the tree.
EarliestMutant == IF earliest = NULL THEN root ELSE earliest
\* schedule_get_earliest_wakeup
Earliest == IF earliest = NULL THEN FindLeast(Tree, root) ELSE earliest

Soon(e) == e # NULL /\ node[e].tv < ReapMaxWakeup

\* multi_get_timeout, before the wait
GetTimeout ==
    /\ timeout = Awake
    /\ earliest' = Earliest
    /\ IF Soon(Earliest)
       THEN /\ chosen' = Earliest
            /\ timeout' = IF node[Earliest].tv > 0 THEN node[Earliest].tv ELSE 0
       ELSE chosen' = NULL /\ timeout' = ReapMaxWakeup
    /\ UNCHANGED <<root, node, wakeup>>

\* The wait ends with an event, which handlers follow.
Event ==
    /\ timeout # Awake
    /\ timeout' = Awake
    /\ UNCHANGED <<root, node, wakeup, earliest, chosen>>

\* multi_process_timeout: the instance computes its next wakeup, or is closed.
ProcessTimeout ==
    /\ timeout = 0
    /\ timeout' = Awake
    /\ chosen' = NULL
    /\ IF chosen = NULL THEN UNCHANGED <<root, node, wakeup, earliest>>
       ELSE Close(chosen) \/ ScheduleWakeup(chosen)

\* A second passes, for the entries that are in the tree.
Tick ==
    /\ \A e \in Entries : InTree(Tree, e) => node[e].tv > -MaxOverdue
    /\ node' = [e \in Entries |->
                   IF InTree(Tree, e) THEN [node[e] EXCEPT !.tv = @ - 1] ELSE node[e]]
    /\ wakeup' = [e \in Entries |-> IF InTree(Tree, e) THEN wakeup[e] - 1 ELSE wakeup[e]]
    /\ timeout' = IF timeout > 0 THEN timeout - 1 ELSE timeout
    /\ UNCHANGED <<root, earliest, chosen>>

Next ==
    \/ \E e \in Entries : Handle(e) \/ CloseInstance(e)
    \/ GetTimeout
    \/ Event
    \/ ProcessTimeout
    \/ Tick

Spec == Init /\ [][Next]_vars

---------------------------------------------------------------------------
\* Properties.

\* The types of the state; Treap includes them.
TypeOK ==
    /\ root \in Entries \union {NULL}
    /\ node \in [Entries -> [tv : -MaxOverdue .. MaxWait, pri : 0..MaxPri,
                             parent : Entries \union {NULL}, lt : Entries \union {NULL},
                             gt : Entries \union {NULL}]]
    /\ wakeup \in [Entries -> -(MaxOverdue + SigmaMax) .. MaxWait]
    /\ earliest \in Entries \union {NULL}
    /\ chosen \in Entries \union {NULL}
    /\ timeout \in Awake .. ReapMaxWakeup

Children(t, e) == {t.node[e].lt, t.node[e].gt} \ {NULL}

\* Parents and children of the entries M agree; the others have neither.
Linked(t, M) ==
    /\ IF M = {} THEN t.root = NULL ELSE t.root \in M
    /\ \A e \in Entries \ M : t.node[e].parent = NULL /\ Children(t, e) = {}
    /\ \A e \in M :
          /\ t.node[e].parent = NULL <=> e = t.root
          /\ t.node[e].parent # NULL => e \in Children(t, t.node[e].parent)
          /\ \A c \in Children(t, e) : t.node[c].parent = e

\* sub[e] is the subtree of e, and everything is in the subtree of the root.
Subtrees(t, M, sub) ==
    /\ t.root # NULL => sub[t.root] = M
    /\ \A e \in M :
          /\ sub[e] = {e} \union UNION {sub[c] : c \in Children(t, e)}
          /\ \A x \in sub[e] : sub[x] \subseteq sub[e] /\ (x = e \/ t.node[x].parent \in sub[e])

Sorted(t, M, sub) ==
    \A e \in M :
        /\ t.node[e].lt # NULL => \A x \in sub[t.node[e].lt] : Before(t, x, e)
        /\ t.node[e].gt # NULL => \A x \in sub[t.node[e].gt] : Before(t, e, x)

SearchTree(t, M) ==
    /\ Linked(t, M)
    /\ \E sub \in [M -> SUBSET M] : Subtrees(t, M, sub) /\ Sorted(t, M, sub)

Heap(t, M) ==
    \A e \in M : t.node[e].parent # NULL => t.node[t.node[e].parent].pri <= t.node[e].pri

Scheduled == {e \in Entries : InTree(Tree, e)}

\* Whatever was inserted, moved and removed, parents and children agree, which
\* is what the code asserts; the tree holds exactly the entries that have a
\* priority, each once, in the order of their times, and no child comes before
\* its parent in the order of priorities.
Treap ==
    /\ TypeOK
    /\ SearchTree(Tree, Scheduled)
    /\ Heap(Tree, Scheduled)

\* The cache holds an entry that is scheduled and no later than any other, and
\* m->earliest_wakeup an instance that is still there.
CacheFresh ==
    /\ earliest # NULL =>
          /\ InTree(Tree, earliest)
          /\ \A e \in Entries : InTree(Tree, e) => node[earliest].tv <= node[e].tv
    /\ chosen # NULL => InTree(Tree, chosen)

\* The loop does not wait past a wakeup, and the instance it will serve then is
\* one whose time has come.
WakesInTime ==
    timeout > 0 =>
        /\ \A e \in Entries : InTree(Tree, e) => timeout <= node[e].tv
        /\ chosen # NULL => node[chosen].tv = timeout

Promise == INSTANCE Wakeups WITH
    Tolerance <- [d \in 0..MaxWait |-> Sigma(d)],
    at <- [e \in {x \in Entries : InTree(Tree, x)} |-> node[e].tv],
    serving <- IF timeout = 0 THEN chosen ELSE NULL

\* The scheduler keeps what Wakeups promises: an operation moves no wakeup but
\* that of its own entry, by no more than the tolerance, and loses none; only
\* the earliest one is served, and not before its time.
ImplementsWakeups == Promise!Spec

\* An instance that was served is scheduled for the time it then asked for: the
\* tolerance does not leave it where it was, due at once again.
ServedIsRescheduled ==
    [][timeout = 0 /\ chosen # NULL /\ chosen' = NULL =>
          node'[chosen].pri = 0 \/ node'[chosen].tv = wakeup'[chosen]]_vars
=============================================================================
