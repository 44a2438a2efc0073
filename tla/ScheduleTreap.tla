---------------------------- MODULE ScheduleTreap -----------------------------
(***************************************************************************)
(* The treap of Schedule: what each function of schedule.c makes of a tree.*)
(*                                                                         *)
(* The functions are loops.  LoopEnds says that a loop of Schedule ends,   *)
(* and keeps an invariant, when each turn makes a set of entries smaller;  *)
(* every function below has its invariant and its set.  Removed, Modified  *)
(* and LeastFound are what the proofs about the scheduler use.             *)
(***************************************************************************)
EXTENDS Schedule, FiniteSetTheorems, WellFoundedInduction, TLAPS

---------------------------------------------------------------------------
\* Loops.

\* A set of naturals that holds 0, and with each number the next, holds all.
LEMMA Induction ==
    ASSUME NEW T \in SUBSET Nat, 0 \in T, \A n \in T : n + 1 \in T
    PROVE  T = Nat
<1> SUFFICES ASSUME Nat \ T # {} PROVE FALSE
  OBVIOUS
<1> DEFINE R == OpToRel(<, Nat)
<1>1. IsWellFoundedOn(R, Nat)
  BY NatLessThanWellFounded
<1>2. PICK x \in Nat \ T : \A y \in Nat \ T : <<y, x>> \notin R
  <2> HIDE DEF R
  <2> QED BY <1>1, WFMin
<1>3. \A y \in Nat \ T : ~ (y < x)
  BY <1>2 DEF OpToRel
<1>4. x # 0 /\ x - 1 \in Nat /\ x - 1 < x
  OBVIOUS
<1>5. x - 1 \in T /\ (x - 1) + 1 = x
  BY <1>3, <1>4
<1> QED
  BY <1>5

\* The function that Loop follows exists.
LEMMA LoopRuns ==
    ASSUME NEW F, NEW x
    PROVE  \E f : /\ f = [n \in Nat |-> IF n = 0 THEN x ELSE F[f[n - 1]]]
                 /\ Loop(F, x) = f[Cardinality(Entries)]
<1> DEFINE Runs(m, g) == /\ g = [n \in 0 .. m |-> g[n]]
                         /\ g[0] = x /\ \A n \in 1 .. m : g[n] = F[g[n - 1]]
           T == {m \in Nat : \E g : Runs(m, g)}
           Agrees == {n \in Nat : \A m, k \in Nat : \A g, h :
                                     Runs(m, g) /\ Runs(k, h) /\ n <= m /\ n <= k => g[n] = h[n]}
<1>1. T = Nat
  <2>1. 0 \in T
    <3>1. Runs(0, [n \in 0 .. 0 |-> x])
      OBVIOUS
    <3> QED BY <3>1
  <2>2. ASSUME NEW m \in T PROVE m + 1 \in T
    <3>1. PICK g : Runs(m, g)
      OBVIOUS
    <3> DEFINE h == [n \in 0 .. m + 1 |-> IF n = m + 1 THEN F[g[m]] ELSE g[n]]
    <3>2. \A n \in 0 .. m : h[n] = g[n]
      OBVIOUS
    <3>3. h[m + 1] = F[g[m]]
      OBVIOUS
    <3>4. h = [n \in 0 .. m + 1 |-> h[n]]
      OBVIOUS
    <3> HIDE DEF h
    <3>5. h[0] = x
      BY <3>1, <3>2
    <3>6. \A n \in 1 .. m + 1 : h[n] = F[h[n - 1]]
      <4> TAKE n \in 1 .. m + 1
      <4>1. CASE n = m + 1
        <5>1. n - 1 = m /\ m \in 0 .. m
          BY <4>1
        <5> QED BY <5>1, <4>1, <3>2, <3>3
      <4>2. CASE n # m + 1
        <5>1. n \in 1 .. m /\ n \in 0 .. m /\ n - 1 \in 0 .. m
          BY <4>2
        <5> QED BY <5>1, <3>1, <3>2
      <4> QED BY <4>1, <4>2
    <3>7. Runs(m + 1, h)
      BY <3>4, <3>5, <3>6
    <3> HIDE DEF Runs
    <3> QED BY <3>7
  <2> HIDE DEF T
  <2>3. T \in SUBSET Nat
    BY DEF T
  <2> QED BY <2>1, <2>2, <2>3, Induction
<1>2. Agrees = Nat
  <2>1. 0 \in Agrees
    OBVIOUS
  <2>2. ASSUME NEW n \in Agrees PROVE n + 1 \in Agrees
    <3> SUFFICES ASSUME NEW m \in Nat, NEW k \in Nat, NEW g, NEW h,
                        Runs(m, g), Runs(k, h), n + 1 <= m, n + 1 <= k
                 PROVE  g[n + 1] = h[n + 1]
      OBVIOUS
    <3>1. n <= m /\ n <= k /\ n + 1 \in 1 .. m /\ n + 1 \in 1 .. k /\ (n + 1) - 1 = n
      OBVIOUS
    <3>2. g[n] = h[n]
      <4> HIDE DEF Runs
      <4> QED BY <3>1
    <3>3. g[n + 1] = F[g[n]] /\ h[n + 1] = F[h[n]]
      BY <3>1
    <3> QED BY <3>2, <3>3
  <2> HIDE DEF Agrees
  <2>3. Agrees \in SUBSET Nat
    BY DEF Agrees
  <2> QED BY <2>1, <2>2, <2>3, Induction
<1> DEFINE f == [n \in Nat |-> (CHOOSE g : Runs(n, g))[n]]
<1>3. \A n \in Nat : Runs(n, CHOOSE g : Runs(n, g))
  <2> TAKE n \in Nat
  <2>1. \E g : Runs(n, g)
    BY <1>1
  <2> HIDE DEF Runs
  <2> QED BY <2>1
<1>4. f = [n \in Nat |-> IF n = 0 THEN x ELSE F[f[n - 1]]]
  <2>1. ASSUME NEW n \in Nat PROVE f[n] = IF n = 0 THEN x ELSE F[f[n - 1]]
    <3> DEFINE g == CHOOSE g : Runs(n, g)
    <3>1. Runs(n, g)
      BY <1>3
    <3>2. f[n] = g[n]
      OBVIOUS
    <3>3. CASE n = 0
      <4> HIDE DEF g, f
      <4> QED BY <3>1, <3>2, <3>3
    <3>4. CASE n # 0
      <4> DEFINE h == CHOOSE h : Runs(n - 1, h)
      <4>1. n - 1 \in Nat /\ n \in 1 .. n /\ n - 1 <= n /\ n - 1 <= n - 1
        BY <3>4
      <4>2. Runs(n - 1, h)
        BY <4>1, <1>3
      <4>3. f[n - 1] = h[n - 1]
        BY <4>1
      <4> HIDE DEF g, f, h
      <4>4. g[n - 1] = h[n - 1]
        <5>1. n - 1 \in Agrees
          BY <1>2, <4>1
        <5> HIDE DEF Runs
        <5> QED BY <5>1, <4>1, <3>1, <4>2
      <4>5. g[n] = F[g[n - 1]]
        BY <3>1, <4>1
      <4> QED BY <4>3, <4>4, <4>5, <3>2, <3>4
    <3> QED BY <3>3, <3>4
  <2>2. f = [n \in Nat |-> f[n]]
    OBVIOUS
  <2> HIDE DEF f
  <2> QED BY <2>1, <2>2
<1> HIDE DEF f
<1> DEFINE run[n \in Nat] == IF n = 0 THEN x ELSE F[run[n - 1]]
<1>5. run = [n \in Nat |-> IF n = 0 THEN x ELSE F[run[n - 1]]]
  BY <1>4
<1>6. Loop(F, x) = run[Cardinality(Entries)]
  BY DEF Loop
<1> HIDE DEF run
<1> QED
  BY <1>5, <1>6

\* A loop ends with what its body leaves alone, and keeps its invariant R, if each
\* turn makes a set of entries smaller.
LEMMA LoopEnds ==
    ASSUME NEW F, NEW x, NEW R, NEW v, <<x, v>> \in R,
           \A y, u : <<y, u>> \in R =>
               /\ u \in SUBSET Entries
               /\ F[y] = y \/ \E w : <<F[y], w>> \in R /\ w \subseteq u /\ w # u
    PROVE  F[Loop(F, x)] = Loop(F, x) /\ \E u : <<Loop(F, x), u>> \in R
<1> DEFINE N == Cardinality(Entries)
<1>1. PICK f : f = [n \in Nat |-> IF n = 0 THEN x ELSE F[f[n - 1]]] /\ Loop(F, x) = f[N]
  BY LoopRuns
<1>2. f[0] = x /\ \A n \in Nat : f[n + 1] = F[f[n]]
  BY <1>1
<1>3. /\ N \in Nat
      /\ \A u \in SUBSET Entries : Cardinality(u) \in Nat /\ Cardinality(u) <= N
      /\ \A u \in SUBSET Entries : \A w \in SUBSET u : w # u => Cardinality(w) < Cardinality(u)
  <2>1. \A u \in SUBSET Entries : IsFiniteSet(u) /\ Cardinality(u) \in Nat /\ Cardinality(u) <= N
    BY EntriesAssumption, FS_Subset, FS_CardinalityType
  <2>2. \A u \in SUBSET Entries : \A w \in SUBSET u : w # u => Cardinality(w) < Cardinality(u)
    BY <2>1, FS_Subset
  <2> QED BY <2>1, <2>2, EntriesAssumption, FS_CardinalityType
<1> DEFINE Good(n) == \E u : /\ <<f[n], u>> \in R
                             /\ F[f[n]] = f[n] \/ Cardinality(u) + n <= N
           T == {n \in Nat : Good(n)}
<1> HIDE DEF N
<1>4. 0 \in T
  <2>1. v \in SUBSET Entries
    OBVIOUS
  <2>2. Cardinality(v) + 0 <= N
    BY <1>3, <2>1
  <2> QED BY <1>2, <2>2
<1>5. ASSUME NEW n \in T PROVE n + 1 \in T
  <2>1. PICK u : <<f[n], u>> \in R /\ (F[f[n]] = f[n] \/ Cardinality(u) + n <= N)
    OBVIOUS
  <2>2. f[n + 1] = F[f[n]] /\ n \in Nat
    BY <1>2
  <2>3. CASE F[f[n]] = f[n]
    <3>1. f[n + 1] = f[n] /\ n + 1 \in Nat
      BY <2>2, <2>3
    <3>2. <<f[n + 1], u>> \in R /\ F[f[n + 1]] = f[n + 1]
      BY <2>1, <2>3, <3>1
    <3>3. Good(n + 1)
      BY <3>2
    <3> QED BY <3>1, <3>3
  <2>4. CASE F[f[n]] # f[n]
    <3>1. PICK w : <<F[f[n]], w>> \in R /\ w \subseteq u /\ w # u
      BY <2>1, <2>4
    <3>2. u \in SUBSET Entries /\ w \in SUBSET Entries
      BY <2>1, <3>1
    <3>3. Cardinality(w) < Cardinality(u) /\ Cardinality(w) \in Nat /\ Cardinality(u) \in Nat
      BY <3>1, <3>2, <1>3
    <3>4. Cardinality(w) + (n + 1) <= N
      BY <3>3, <2>1, <2>2, <2>4, <1>3
    <3>5. Good(n + 1)
      BY <3>1, <3>4, <2>2
    <3> QED BY <3>5, <2>2
  <2> QED BY <2>3, <2>4
<1>6. N \in T
  <2> HIDE DEF T
  <2>1. T \in SUBSET Nat
    BY DEF T
  <2> QED BY <2>1, <1>4, <1>5, <1>3, Induction
<1>7. PICK u : <<f[N], u>> \in R /\ (F[f[N]] = f[N] \/ Cardinality(u) + N <= N)
  BY <1>6
<1>8. F[f[N]] = f[N]
  <2> SUFFICES ASSUME F[f[N]] # f[N] PROVE FALSE
    OBVIOUS
  <2>1. PICK w : <<F[f[N]], w>> \in R /\ w \subseteq u /\ w # u
    BY <1>7
  <2>2. u \in SUBSET Entries /\ w \in SUBSET Entries
    BY <1>7, <2>1
  <2>3. Cardinality(w) < Cardinality(u) /\ Cardinality(w) \in Nat /\ Cardinality(u) \in Nat
    BY <2>1, <2>2, <1>3
  <2> QED BY <2>3, <1>7, <1>3
<1> QED
  BY <1>1, <1>7, <1>8

---------------------------------------------------------------------------
\* Trees and their rotation.

Nodes == [tv : Int, pri : Nat, parent : Links, lt : Links, gt : Links]

\* The links and numbers of a tree.
LEMMA TreeTypes ==
    ASSUME NEW t \in Trees
    PROVE  /\ t.root \in Links /\ t.node \in [Entries -> Nodes]
           /\ \A e \in Entries :
                 /\ t.node[e] \in Nodes /\ t.node[e].tv \in Int /\ t.node[e].pri \in Nat
                 /\ t.node[e].parent \in Links /\ t.node[e].lt \in Links /\ t.node[e].gt \in Links
                 /\ Children(t, e) \subseteq Entries
                 /\ NULL \notin Entries
BY EntriesAssumption DEF Trees, Nodes, Links, Children

\* The order of schedule_entry_compare is one.
LEMMA BeforeOrders ==
    ASSUME NEW t \in Trees, NEW x \in Entries, NEW y \in Entries, NEW z \in Entries
    PROVE  /\ ~ Before(t, x, x)
           /\ Before(t, x, y) => ~ Before(t, y, x)
           /\ Before(t, x, y) /\ Before(t, y, z) => Before(t, x, z)
           /\ Before(t, x, y) \/ Before(t, y, x) \/ Same(t, x, y)
<1>1. \A e \in Entries : t.node[e].tv \in Int /\ t.node[e].pri \in Int
  BY TreeTypes
<1> QED
  BY <1>1 DEF Before, Same

\* t is a search tree of the entries M with these subtrees.
Built(t, M, sub) ==
    /\ t \in Trees /\ M \subseteq Entries /\ sub \in [M -> SUBSET M]
    /\ Linked(t, M) /\ Subtrees(t, M, sub) /\ Sorted(t, M, sub)

\* A child has its own subtree within its parent's, apart from its sibling's, and
\* on its side of the parent.
LEMMA BuiltChild ==
    ASSUME NEW t, NEW M, NEW sub, Built(t, M, sub), NEW x \in M, NEW c \in Children(t, x)
    PROVE  /\ c \in M /\ c # x /\ t.node[c].parent = x
           /\ c \in sub[c] /\ sub[c] \subseteq sub[x] /\ x \notin sub[c]
           /\ \A y \in sub[c] : IF c = t.node[x].lt THEN Before(t, y, x) ELSE Before(t, x, y)
           /\ \A d \in Children(t, x) : d # c => sub[d] \intersect sub[c] = {}
           /\ t.node[x].lt # t.node[x].gt
<1>1. /\ M \subseteq Entries /\ x \in Entries /\ x # NULL
      /\ c \in Entries /\ t.node[c].parent = x /\ t \in Trees
      /\ Children(t, x) \subseteq Entries
  BY TreeTypes DEF Built, Linked
<1>2. \A d \in Children(t, x) : d \in M
  BY <1>1, TreeTypes DEF Built, Linked
<1>3. \A d \in Children(t, x) : d \in sub[d] /\ sub[d] \subseteq sub[x] /\ sub[d] \subseteq M
  BY <1>2 DEF Built, Subtrees
<1>4. \A y \in M : ~ Before(t, y, y)
  BY <1>1, BeforeOrders
<1>5. \A y \in M : ~ (Before(t, x, y) /\ Before(t, y, x))
  BY <1>1, BeforeOrders
<1>6. /\ t.node[x].lt # NULL => \A y \in sub[t.node[x].lt] : Before(t, y, x)
      /\ t.node[x].gt # NULL => \A y \in sub[t.node[x].gt] : Before(t, x, y)
  BY DEF Built, Sorted
<1>7. \A d \in Children(t, x) : d = t.node[x].lt \/ d = t.node[x].gt
  BY DEF Children
<1>8. \A d \in Children(t, x) : d # NULL
  BY DEF Children
<1>9. t.node[x].lt # t.node[x].gt
  <2>1. SUFFICES ASSUME t.node[x].lt = t.node[x].gt PROVE FALSE
    OBVIOUS
  <2>2. c = t.node[x].lt /\ c = t.node[x].gt
    BY <2>1, <1>7
  <2>3. c \in sub[c] /\ c \in M
    BY <1>2, <1>3
  <2> QED BY <2>2, <2>3, <1>5, <1>6, <1>8
<1>10. \A d \in Children(t, x) : \A y \in sub[d] :
          IF d = t.node[x].lt THEN Before(t, y, x) ELSE Before(t, x, y)
  BY <1>6, <1>7, <1>8
<1>11. \A d, f \in Children(t, x) : d # f => sub[d] \intersect sub[f] = {}
  BY <1>3, <1>5, <1>7, <1>9, <1>10
<1>12. x \notin sub[c]
  BY <1>4, <1>10
<1>13. c # x
  BY <1>3, <1>12
<1> QED
  BY <1>1, <1>2, <1>3, <1>9, <1>10, <1>11, <1>12, <1>13

\* Who has a parent is a child of it.
LEMMA BuiltParent ==
    ASSUME NEW t, NEW M, NEW sub, Built(t, M, sub), NEW e \in M, t.node[e].parent # NULL
    PROVE  t.node[e].parent \in M /\ e \in Children(t, t.node[e].parent)
<1> DEFINE p == t.node[e].parent
<1>1. e \in Children(t, p) /\ p # NULL /\ e \in Entries /\ t \in Trees
  BY DEF Built, Linked
<1>2. p \in Entries
  BY <1>1, TreeTypes DEF Links
<1> QED
  BY <1>1, <1>2 DEF Built, Linked

\* The links after a rotation.  inner is the subtree that changes sides.
Inner(t, e) ==
    IF t.node[t.node[e].parent].gt = e THEN t.node[e].lt ELSE t.node[e].gt

\* What a rotation of e does to the links of t, where p and gp are the parent and
\* the grandparent.
Rotation(t, M, e, u, p, gp, inner) ==
    /\ e # p /\ gp # e /\ gp # p /\ inner # e /\ inner # p
    /\ p \in M /\ e \in Children(t, p)
    /\ gp # NULL => gp \in M /\ p \in Children(t, gp) /\ inner # gp
    /\ inner # NULL => inner \in Children(t, e)
    /\ u \in Trees
    /\ u.root = IF gp = NULL THEN e ELSE t.root
    /\ \A x \in Entries :
          /\ u.node[x].tv = t.node[x].tv /\ u.node[x].pri = t.node[x].pri
          /\ u.node[x].parent = IF x = e THEN gp ELSE IF x = p THEN e
                                ELSE IF x = inner THEN p ELSE t.node[x].parent
          /\ x \notin {e, p, gp} => /\ u.node[x].lt = t.node[x].lt
                                    /\ u.node[x].gt = t.node[x].gt
    /\ t.node[p].gt = e =>
          /\ inner = t.node[e].lt
          /\ u.node[e].lt = p /\ u.node[e].gt = t.node[e].gt
          /\ u.node[p].lt = t.node[p].lt /\ u.node[p].gt = inner
    /\ t.node[p].gt # e =>
          /\ inner = t.node[e].gt /\ t.node[p].lt = e
          /\ u.node[e].lt = t.node[e].lt /\ u.node[e].gt = p
          /\ u.node[p].lt = inner /\ u.node[p].gt = t.node[p].gt
    /\ gp # NULL =>
          /\ u.node[gp].lt = IF t.node[gp].lt = p THEN e ELSE t.node[gp].lt
          /\ u.node[gp].gt = IF t.node[gp].gt = p THEN e ELSE t.node[gp].gt

\* What schedule_rotate_up does to each link.
LEMMA RotateLinks ==
    ASSUME NEW t, NEW M, NEW sub, Built(t, M, sub), NEW e \in M, t.node[e].parent # NULL
    PROVE  Rotation(t, M, e, RotateUp(t, e), t.node[e].parent,
                    t.node[t.node[e].parent].parent, Inner(t, e))
<1> DEFINE p == t.node[e].parent
           gp == t.node[p].parent
           inner == Inner(t, e)
           right == t.node[p].gt = e
           u == RotateUp(t, e)
<1>1. p \in M /\ e \in Children(t, p) /\ p # NULL
  BY BuiltParent
<1>2. e # p /\ e \in sub[p] /\ p \notin sub[e] /\ e \in sub[e]
  BY <1>1, BuiltChild
<1>3. gp # NULL => gp \in M /\ p \in Children(t, gp) /\ gp # p /\ gp \notin sub[p]
                   /\ t.node[gp].lt # t.node[gp].gt
  BY <1>1, BuiltParent, BuiltChild
<1>4. gp # e /\ gp # p
  BY <1>1, <1>2, <1>3, EntriesAssumption DEF Built
<1>5. inner # NULL => inner \in Children(t, e)
  BY DEF Inner, Children
<1>6. inner # NULL => inner # e /\ inner \in sub[e] /\ inner \in M
  BY <1>5, BuiltChild
<1>7. sub[e] \subseteq sub[p]
  BY <1>1, BuiltChild
<1>8. inner # e /\ inner # p
  BY <1>1, <1>2, <1>6, EntriesAssumption DEF Built
<1>9. gp # NULL => inner # gp
  BY <1>3, <1>6, <1>7
<1>10. /\ t \in Trees /\ M \subseteq Entries /\ e \in Entries /\ p \in Entries
       /\ gp \in Links /\ inner \in Links
       /\ \A x \in Entries : t.node[x] \in Nodes
  <2>1. t \in Trees /\ M \subseteq Entries
    BY DEF Built
  <2> QED
    BY <2>1, <1>1, TreeTypes DEF Inner
<1>11. t.node[p].gt # e => t.node[p].lt = e
  BY <1>1 DEF Children
<1>12. gp # NULL => t.node[gp].lt = p \/ t.node[gp].gt = p
  BY <1>3 DEF Children
<1> DEFINE new(x) ==
        IF x = e
        THEN IF right THEN [t.node[e] EXCEPT !.parent = gp, !.lt = p]
             ELSE [t.node[e] EXCEPT !.parent = gp, !.gt = p]
        ELSE IF x = p THEN [Relink(t.node[p], e, inner) EXCEPT !.parent = e]
        ELSE IF x = gp THEN Relink(t.node[gp], p, e)
        ELSE IF x = inner THEN [t.node[x] EXCEPT !.parent = p]
        ELSE t.node[x]
<1>13. u = [root |-> IF gp = NULL THEN e ELSE t.root, node |-> [x \in Entries |-> new(x)]]
  BY DEF RotateUp, Inner
<1> HIDE DEF u, inner, gp, p
<1>14. /\ new(e).parent = gp /\ new(e).tv = t.node[e].tv /\ new(e).pri = t.node[e].pri
       /\ new(e).lt = IF right THEN p ELSE t.node[e].lt
       /\ new(e).gt = IF right THEN t.node[e].gt ELSE p
       /\ new(e) \in Nodes
  BY <1>10 DEF Nodes, Links
<1>15. /\ new(p).parent = e /\ new(p).tv = t.node[p].tv /\ new(p).pri = t.node[p].pri
       /\ new(p).lt = IF right THEN t.node[p].lt ELSE inner
       /\ new(p).gt = IF right THEN inner ELSE t.node[p].gt
       /\ new(p) \in Nodes
  BY <1>2, <1>10 DEF Nodes, Links, Relink
<1>16. gp # NULL =>
          /\ new(gp).parent = t.node[gp].parent /\ new(gp).tv = t.node[gp].tv
          /\ new(gp).pri = t.node[gp].pri
          /\ new(gp).lt = IF t.node[gp].lt = p THEN e ELSE t.node[gp].lt
          /\ new(gp).gt = IF t.node[gp].gt = p THEN e ELSE t.node[gp].gt
          /\ new(gp) \in Nodes
  BY <1>3, <1>4, <1>10, <1>12 DEF Nodes, Links, Relink
<1>17. ASSUME NEW x \in Entries, x \notin {e, p, gp}
       PROVE  /\ new(x).parent = IF x = inner THEN p ELSE t.node[x].parent
              /\ new(x).tv = t.node[x].tv /\ new(x).pri = t.node[x].pri
              /\ new(x).lt = t.node[x].lt /\ new(x).gt = t.node[x].gt
              /\ new(x) \in Nodes
  BY <1>10, <1>17 DEF Nodes, Links
<1>18. gp # NULL => gp \in Entries
  BY <1>10 DEF Links
<1> HIDE DEF new
<1>19. \A x \in Entries : u.node[x] = new(x)
  BY <1>13
<1>20. u.root = IF gp = NULL THEN e ELSE t.root
  BY <1>13
<1>21. u \in Trees
  <2>1. \A x \in Entries : new(x) \in Nodes
    BY <1>14, <1>15, <1>16, <1>17, EntriesAssumption
  <2>2. t.root \in Links /\ e \in Links
    BY <1>10, TreeTypes DEF Links
  <2>3. u.root \in Links /\ [x \in Entries |-> new(x)] \in [Entries -> Nodes]
    BY <2>1, <2>2, <1>20
  <2> QED BY <2>2, <2>3, <1>13 DEF Trees, Nodes
<1>22. \A x \in Entries :
          /\ u.node[x].tv = t.node[x].tv /\ u.node[x].pri = t.node[x].pri
          /\ u.node[x].parent = IF x = e THEN gp ELSE IF x = p THEN e
                                ELSE IF x = inner THEN p ELSE t.node[x].parent
          /\ x \notin {e, p, gp} => /\ u.node[x].lt = t.node[x].lt
                                    /\ u.node[x].gt = t.node[x].gt
  <2> TAKE x \in Entries
  <2>1. CASE x = e
    BY <2>1, <1>14, <1>19
  <2>2. CASE x = p
    BY <2>2, <1>2, <1>15, <1>19
  <2>3. CASE x = gp
    <3>1. gp # NULL /\ x # inner /\ x # e /\ x # p
      BY <2>3, <1>4, <1>9, EntriesAssumption
    <3> QED BY <2>3, <3>1, <1>16, <1>19
  <2>4. CASE x \notin {e, p, gp}
    BY <2>4, <1>17, <1>19
  <2> QED BY <2>1, <2>2, <2>3, <2>4
<1>23. right =>
          /\ inner = t.node[e].lt
          /\ u.node[e].lt = p /\ u.node[e].gt = t.node[e].gt
          /\ u.node[p].lt = t.node[p].lt /\ u.node[p].gt = inner
  BY <1>10, <1>14, <1>15, <1>19 DEF inner, Inner, p
<1>24. ~right =>
          /\ inner = t.node[e].gt /\ t.node[p].lt = e
          /\ u.node[e].lt = t.node[e].lt /\ u.node[e].gt = p
          /\ u.node[p].lt = inner /\ u.node[p].gt = t.node[p].gt
  BY <1>10, <1>11, <1>14, <1>15, <1>19 DEF inner, Inner, p
<1>25. gp # NULL =>
          /\ u.node[gp].lt = IF t.node[gp].lt = p THEN e ELSE t.node[gp].lt
          /\ u.node[gp].gt = IF t.node[gp].gt = p THEN e ELSE t.node[gp].gt
  BY <1>16, <1>18, <1>19
<1> QED
  BY <1>1, <1>2, <1>3, <1>4, <1>5, <1>8, <1>9, <1>20, <1>21, <1>22, <1>23, <1>24, <1>25
     DEF Rotation, p, gp, inner, u

\* The subtrees after a rotation: e has all that was its parent's, which keeps its
\* other child and gets what changes sides.
Turned(t, sub, e) ==
    LET p == t.node[e].parent
    IN [sub EXCEPT ![e] = sub[p],
                   ![p] = {p} \union UNION {sub[c] : c \in (Children(t, p) \ {e})
                                                           \union ({Inner(t, e)} \ {NULL})}]

\* schedule_rotate_up keeps a search tree: e has its parent's subtree then, and the
\* subtree of its parent has become smaller.
LEMMA RotateBuilt ==
    ASSUME NEW t, NEW M, NEW sub, Built(t, M, sub), NEW e \in M, t.node[e].parent # NULL
    PROVE  /\ Built(RotateUp(t, e), M, Turned(t, sub, e))
           /\ LET p == t.node[e].parent
                  new == Turned(t, sub, e)
              IN  /\ new[p] \subseteq sub[p] /\ e \notin new[p] /\ e \in sub[p]
                  /\ new[e] = sub[p] /\ sub[e] \subseteq sub[p] /\ p \in sub[p] /\ p \notin sub[e]
<1> DEFINE p == t.node[e].parent
           gp == t.node[p].parent
           inner == Inner(t, e)
           u == RotateUp(t, e)
           new == Turned(t, sub, e)
           rest == (Children(t, p) \ {e}) \union ({inner} \ {NULL})
<1>1. Rotation(t, M, e, u, p, gp, inner)
  BY RotateLinks
<1>2. /\ t \in Trees /\ M \subseteq Entries /\ sub \in [M -> SUBSET M] /\ NULL \notin Entries
      /\ Linked(t, M) /\ Subtrees(t, M, sub) /\ Sorted(t, M, sub)
  BY EntriesAssumption DEF Built
<1>3. new = [sub EXCEPT ![e] = sub[p], ![p] = {p} \union UNION {sub[c] : c \in rest}]
  BY DEF Turned
<1> HIDE DEF u, new, inner, gp, p
<1> USE DEF Rotation
<1>4. /\ new[e] = sub[p] /\ new[p] = {p} \union UNION {sub[c] : c \in rest}
      /\ \A x \in M : x \notin {e, p} => new[x] = sub[x]
      /\ new = [x \in M |-> new[x]]
  BY <1>1, <1>2, <1>3
<1> HIDE DEF rest
<1>5. \A x \in M : \A c \in Children(t, x) :
          /\ c \in M /\ c # x /\ t.node[c].parent = x
          /\ c \in sub[c] /\ sub[c] \subseteq sub[x] /\ x \notin sub[c]
          /\ \A y \in sub[c] : IF c = t.node[x].lt THEN Before(t, y, x) ELSE Before(t, x, y)
          /\ \A d \in Children(t, x) : d # c => sub[d] \intersect sub[c] = {}
          /\ t.node[x].lt # t.node[x].gt
  BY BuiltChild
<1>6. \A x \in M : /\ x \in sub[x] /\ sub[x] \subseteq M
                   /\ sub[x] = {x} \union UNION {sub[c] : c \in Children(t, x)}
                   /\ \A y \in sub[x] : sub[y] \subseteq sub[x]
                                        /\ (y = x \/ t.node[y].parent \in sub[x])
  BY <1>2 DEF Subtrees
\* The children.
<1>7. Children(u, p) = rest
  BY <1>1, <1>5 DEF Children, rest
<1>8. Children(u, e) = (Children(t, e) \ {inner}) \union {p}
  <2>1. t.node[e].lt = t.node[e].gt => Children(t, e) = {}
    BY <1>5
  <2>2. /\ e # p /\ inner # p /\ p # NULL
        /\ \/ u.node[e].lt = p /\ u.node[e].gt = t.node[e].gt /\ inner = t.node[e].lt
           \/ u.node[e].gt = p /\ u.node[e].lt = t.node[e].lt /\ inner = t.node[e].gt
    BY <1>1, <1>2
  <2> QED
    BY <2>1, <2>2 DEF Children
<1>9. gp # NULL => Children(u, gp) = (Children(t, gp) \ {p}) \union {e}
  BY <1>1, <1>2, <1>5 DEF Children
<1>10. \A x \in Entries : x \notin {e, p, gp} => Children(u, x) = Children(t, x)
  BY <1>1 DEF Children
<1>11. /\ e \in sub[e] /\ e \in sub[p] /\ p \in sub[p] /\ p \notin sub[e] /\ sub[e] \subseteq sub[p]
       /\ gp # NULL => p \in sub[gp] /\ sub[p] \subseteq sub[gp] /\ gp \notin sub[p]
       /\ inner # NULL => /\ inner \in M /\ inner \in sub[inner] /\ sub[inner] \subseteq sub[e]
                          /\ e \notin sub[inner] /\ p \notin sub[inner]
                          /\ t.node[inner].parent = e
  BY <1>1, <1>5, <1>6
<1>12. Linked(u, M)
  <2>1. IF M = {} THEN u.root = NULL ELSE u.root \in M
    BY <1>1, <1>2 DEF Linked
  <2>2. ASSUME NEW x \in Entries \ M PROVE u.node[x].parent = NULL /\ Children(u, x) = {}
    <3>1. x \notin {e, p, gp} /\ x # inner /\ Children(t, x) = {} /\ t.node[x].parent = NULL
      BY <1>1, <1>2, <1>11 DEF Linked
    <3> QED BY <3>1, <1>1, <1>10
  <2>3. ASSUME NEW x \in M
        PROVE  /\ u.node[x].parent = NULL <=> x = u.root
               /\ u.node[x].parent # NULL => x \in Children(u, u.node[x].parent)
               /\ \A c \in Children(u, x) : u.node[c].parent = x
    <3>1. /\ t.node[x].parent = NULL <=> x = t.root
          /\ t.node[x].parent # NULL => x \in Children(t, t.node[x].parent)
          /\ x \in Entries /\ x # NULL
      BY <1>2 DEF Linked
    <3>2. t.node[p].parent = NULL <=> p = t.root
      BY <1>1, <1>2 DEF Linked
    <3>3. u.node[x].parent = IF x = e THEN gp ELSE IF x = p THEN e
                             ELSE IF x = inner THEN p ELSE t.node[x].parent
      BY <1>1, <3>1
    <3>4. e # NULL /\ p # NULL /\ e # t.root
      BY <1>1, <1>2 DEF Linked, p
    <3>5. u.node[x].parent = NULL <=> x = u.root
      <4>1. CASE gp = NULL
        <5>1. p = t.root /\ u.root = e
          BY <4>1, <1>1, <3>2 DEF gp
        <5> QED BY <4>1, <5>1, <3>1, <3>3, <3>4, <1>1
      <4>2. CASE gp # NULL
        <5>1. p # t.root /\ u.root = t.root
          BY <4>2, <1>1, <3>2 DEF gp
        <5>2. inner # t.root
          <6>1. CASE inner = NULL
            BY <6>1, <1>2, <3>1 DEF Linked
          <6>2. CASE inner # NULL
            BY <6>2, <1>2, <1>11, <3>4 DEF Linked
          <6> QED BY <6>1, <6>2
        <5> QED BY <4>2, <5>1, <5>2, <3>1, <3>3, <3>4
      <4> QED BY <4>1, <4>2
    <3>6. ASSUME u.node[x].parent # NULL PROVE x \in Children(u, u.node[x].parent)
      <4>1. CASE x = e
        BY <4>1, <3>3, <3>6, <1>9
      <4>2. CASE x = p
        BY <4>2, <3>3, <1>1, <1>8
      <4>3. CASE x = inner
        BY <4>3, <3>1, <3>3, <1>1, <1>7 DEF rest
      <4>4. CASE x \notin {e, p, inner}
        <5> DEFINE q == t.node[x].parent
        <5>1. u.node[x].parent = q /\ q # NULL /\ x \in Children(t, q)
          BY <4>4, <3>1, <3>3, <3>6
        <5>2. q \in Entries
          BY <5>1, <1>2, <3>1, TreeTypes DEF Links
        <5> HIDE DEF q
        <5>3. CASE q = e
          BY <5>1, <5>3, <4>4, <1>8
        <5>4. CASE q = p
          BY <5>1, <5>4, <4>4, <1>7 DEF rest
        <5>5. CASE q = gp
          BY <5>1, <5>5, <4>4, <1>9
        <5>6. CASE q \notin {e, p, gp}
          BY <5>1, <5>2, <5>6, <1>10
        <5> QED BY <5>3, <5>4, <5>5, <5>6
      <4> QED BY <4>1, <4>2, <4>3, <4>4
    <3>7. ASSUME NEW c \in Children(u, x) PROVE u.node[c].parent = x
      <4>0. ASSUME NEW d \in Children(t, x), d \notin {e, p, inner}
            PROVE  u.node[d].parent = x
        <5>1. t.node[d].parent = x /\ d \in Entries
          BY <4>0, <1>2, <1>5
        <5> QED BY <5>1, <4>0, <1>1
      <4>1. CASE x = e
        <5>1. c = p \/ (c \in Children(t, e) /\ c # inner)
          BY <4>1, <1>8
        <5>2. e \notin Children(t, e) /\ p \notin Children(t, e)
          BY <1>5, <1>1, <1>11
        <5>3. u.node[p].parent = e
          BY <1>1, <1>2
        <5> QED BY <5>1, <5>2, <5>3, <4>0, <4>1
      <4>2. CASE x = p
        <5>1. (c = inner /\ inner # NULL) \/ (c \in Children(t, p) /\ c # e)
          BY <4>2, <1>7 DEF rest
        <5>2. inner # NULL => u.node[inner].parent = p
          BY <1>1, <1>2, <1>11
        <5>3. p \notin Children(t, p) /\ (inner # NULL => inner \notin Children(t, p))
          BY <1>5, <1>1, <1>11
        <5>4. NULL \notin Children(t, p)
          BY DEF Children
        <5> QED BY <5>1, <5>2, <5>3, <5>4, <4>0, <4>2
      <4>3. CASE x = gp
        <5>1. gp # NULL
          BY <4>3, <3>1
        <5>2. c = e \/ (c \in Children(t, gp) /\ c # p)
          BY <4>3, <5>1, <1>9
        <5>3. u.node[e].parent = gp
          BY <1>1, <1>2
        <5>4. e \notin Children(t, gp) /\ (inner # NULL => inner \notin Children(t, gp))
          BY <1>5, <1>1, <1>11, <5>1
        <5>5. NULL \notin Children(t, gp)
          BY DEF Children
        <5> QED BY <5>1, <5>2, <5>3, <5>4, <5>5, <4>0, <4>3
      <4>4. CASE x \notin {e, p, gp}
        <5>1. c \in Children(t, x) /\ c # NULL
          BY <4>4, <3>1, <1>10 DEF Children
        <5>2. t.node[c].parent = x
          BY <5>1, <1>5
        <5>3. c # e /\ c # p /\ (inner # NULL => c # inner)
          BY <5>2, <4>4, <1>11 DEF gp, p
        <5> QED BY <5>1, <5>3, <4>0
      <4> QED BY <4>1, <4>2, <4>3, <4>4
    <3> QED BY <3>5, <3>6, <3>7
  <2> QED BY <2>1, <2>2, <2>3 DEF Linked
\* The subtrees.
<1>13. \A x \in M : \A c \in Children(u, x) : c \in M
  BY <1>1, <1>5, <1>7, <1>8, <1>9, <1>10, <1>11, <1>2 DEF rest
<1>14. /\ \A c \in Children(t, e) : new[c] = sub[c]
       /\ \A c \in rest : new[c] = sub[c] /\ c \in M /\ sub[c] \subseteq sub[p]
                       /\ e \notin sub[c] /\ p \notin sub[c]
       /\ gp # NULL => \A c \in Children(t, gp) : c # p => new[c] = sub[c]
       /\ \A x \in M : x \notin {p, gp} => \A c \in Children(t, x) : new[c] = sub[c]
  <2>1. \A c \in Children(t, e) : new[c] = sub[c]
    BY <1>1, <1>4, <1>5, <1>11
  <2>2. ASSUME NEW c \in rest
        PROVE  new[c] = sub[c] /\ c \in M /\ sub[c] \subseteq sub[p] /\ e \notin sub[c] /\ p \notin sub[c]
    <3>1. CASE c \in Children(t, p) /\ c # e
      BY <3>1, <1>1, <1>4, <1>5, <1>11
    <3>2. CASE c = inner /\ inner # NULL
      BY <3>2, <1>1, <1>4, <1>11
    <3> QED BY <3>1, <3>2 DEF rest
  <2>3. ASSUME NEW x \in M, x # p, NEW c \in Children(t, x), c # p PROVE new[c] = sub[c]
    <3>1. c # e /\ c \in M
      BY <2>3, <1>5 DEF p
    <3> QED BY <3>1, <2>3, <1>4
  <2>4. ASSUME NEW x \in M, x \notin {p, gp}, NEW c \in Children(t, x) PROVE c # p
    BY <2>4, <1>5 DEF gp
  <2> QED BY <2>1, <2>2, <2>3, <2>4, <1>1
<1>15. new[p] \subseteq sub[p] /\ e \notin new[p] /\ p \in new[p]
  BY <1>4, <1>11, <1>14
<1>16. \A x \in M : new[x] = {x} \union UNION {new[c] : c \in Children(u, x)}
  <2> TAKE x \in M
  <2>1. CASE x = e
    <3>1. UNION {new[c] : c \in Children(u, e)}
             = new[p] \union UNION {sub[c] : c \in Children(t, e) \ {inner}}
      BY <1>8, <1>14
    <3>2. sub[p] = {p} \union sub[e] \union UNION {sub[c] : c \in Children(t, p) \ {e}}
      BY <1>1, <1>6
    <3>3. sub[e] = {e} \union UNION {sub[c] : c \in Children(t, e)}
      BY <1>6
    <3>4. CASE inner = NULL
      <4>1. NULL \notin Children(t, e)
        BY DEF Children
      <4>2. Children(t, e) \ {inner} = Children(t, e)
        BY <3>4, <4>1
      <4>3. new[p] = {p} \union UNION {sub[c] : c \in Children(t, p) \ {e}}
        BY <3>4, <1>4 DEF rest
      <4> QED BY <3>1, <3>2, <3>3, <4>2, <4>3, <2>1, <1>4
    <3>5. CASE inner # NULL
      <4>1. sub[e] = {e} \union sub[inner] \union UNION {sub[c] : c \in Children(t, e) \ {inner}}
        BY <3>3, <3>5, <1>1
      <4>2. new[p] = {p} \union sub[inner] \union UNION {sub[c] : c \in Children(t, p) \ {e}}
        BY <3>5, <1>4 DEF rest
      <4> QED BY <3>1, <3>2, <4>1, <4>2, <2>1, <1>4
    <3> QED BY <3>4, <3>5
  <2>2. CASE x = p
    BY <2>2, <1>4, <1>7, <1>14
  <2>3. CASE x = gp
    <3>1. gp # NULL /\ x \notin {e, p}
      BY <2>3, <1>1, <1>2
    <3>2. UNION {new[c] : c \in Children(u, gp)}
             = new[e] \union UNION {sub[c] : c \in Children(t, gp) \ {p}}
      BY <3>1, <1>9, <1>14
    <3>3. sub[gp] = {gp} \union sub[p] \union UNION {sub[c] : c \in Children(t, gp) \ {p}}
      BY <3>1, <1>1, <1>6
    <3> QED BY <3>1, <3>2, <3>3, <2>3, <1>4
  <2>4. CASE x \notin {e, p, gp}
    <3>1. Children(u, x) = Children(t, x)
      BY <2>4, <1>2, <1>10
    <3>2. new[x] = sub[x] /\ \A c \in Children(t, x) : new[c] = sub[c]
      BY <2>4, <1>4, <1>14
    <3>3. sub[x] = {x} \union UNION {sub[c] : c \in Children(t, x)}
      BY <1>6
    <3> QED BY <3>1, <3>2, <3>3
  <2> QED BY <2>1, <2>2, <2>3, <2>4
<1>17. \A y \in M : u.node[y].parent = IF y = e THEN gp ELSE IF y = p THEN e
                                       ELSE IF y = inner THEN p ELSE t.node[y].parent
  BY <1>1, <1>2
<1>18. ASSUME NEW x \in M, NEW y \in new[x]
       PROVE  new[y] \subseteq new[x] /\ (y = x \/ u.node[y].parent \in new[x])
  <2>0. SUFFICES ASSUME y # x PROVE new[y] \subseteq new[x] /\ u.node[y].parent \in new[x]
    OBVIOUS
  <2>1. CASE x = e
    <3>1. new[x] = sub[p] /\ y \in sub[p] /\ y \in M /\ y # e
      BY <2>0, <2>1, <1>1, <1>4, <1>6
    <3>2. CASE y = p
      BY <3>1, <3>2, <1>1, <1>11, <1>15, <1>17
    <3>3. CASE y # p
      <4>1. sub[y] \subseteq sub[p] /\ t.node[y].parent \in sub[p] /\ new[y] = sub[y]
        BY <3>1, <3>3, <1>1, <1>4, <1>6
      <4> QED BY <4>1, <3>1, <3>3, <1>11, <1>17
    <3> QED BY <3>2, <3>3
  <2>2. CASE x = p
    <3>1. PICK c \in rest : y \in sub[c]
      BY <2>0, <2>2, <1>4
    <3>2. c \in M /\ sub[c] \subseteq new[p] /\ e \notin sub[c] /\ p \notin sub[c] /\ y \in M
      <4>1. c \in M /\ e \notin sub[c] /\ p \notin sub[c]
        BY <3>1, <1>14
      <4>2. sub[c] \subseteq new[p]
        BY <3>1, <1>4
      <4> QED BY <4>1, <4>2, <3>1, <1>6
    <3>3. y # e /\ y # p /\ new[y] = sub[y] /\ sub[y] \subseteq sub[c]
          /\ (y = c \/ t.node[y].parent \in sub[c])
      BY <3>1, <3>2, <1>4, <1>6
    <3>4. CASE y = inner
      BY <3>2, <3>3, <3>4, <2>2, <1>15, <1>17
    <3>5. CASE y # inner /\ y = c
      <4>1. y \in Children(t, p)
        BY <3>1, <3>5 DEF rest
      <4>2. t.node[y].parent = p
        BY <4>1, <1>1, <1>5
      <4> QED BY <4>2, <3>2, <3>3, <3>5, <2>2, <1>15, <1>17
    <3>6. CASE y # inner /\ y # c
      BY <3>2, <3>3, <3>6, <2>2, <1>17
    <3> QED BY <3>4, <3>5, <3>6
  <2>3. CASE x \notin {e, p}
    <3>1. new[x] = sub[x] /\ y \in sub[x] /\ y \in M
      BY <2>3, <1>4, <1>6
    <3>2. sub[y] \subseteq sub[x] /\ t.node[y].parent \in sub[x]
      BY <3>1, <2>0, <1>6
    <3>3. \A z \in M : z \in sub[x] /\ z # x => t.node[z].parent \in sub[x] /\ sub[z] \subseteq sub[x]
      BY <1>6
    <3>4. CASE y = e
      <4>1. p \in sub[x] /\ sub[p] \subseteq sub[x]
        BY <3>2, <3>3, <3>4, <2>3, <1>1 DEF p
      <4>2. gp \in sub[x]
        BY <4>1, <3>3, <2>3, <1>1 DEF gp
      <4> QED BY <4>1, <4>2, <3>1, <3>4, <1>4, <1>17
    <3>5. CASE y = p
      <4>1. e \in sub[x]
        BY <3>2, <3>5, <1>11
      <4> QED BY <4>1, <3>1, <3>2, <3>5, <1>1, <1>15, <1>17
    <3>6. CASE y = inner /\ y \notin {e, p}
      <4>1. inner # NULL /\ t.node[y].parent = e
        BY <3>1, <3>6, <1>2, <1>11
      <4>2. p \in sub[x]
        BY <4>1, <3>2, <3>3, <2>3 DEF p
      <4> QED BY <4>2, <3>1, <3>2, <3>6, <1>4, <1>17
    <3>7. CASE y \notin {e, p, inner}
      BY <3>1, <3>2, <3>7, <1>4, <1>17
    <3> QED BY <3>4, <3>5, <3>6, <3>7
  <2> QED BY <2>1, <2>2, <2>3
<1>19. u.root # NULL => new[u.root] = M
  <2>1. CASE gp = NULL
    <3>1. p = t.root
      BY <2>1, <1>1, <1>2 DEF Linked, gp
    <3>2. t.root # NULL => sub[t.root] = M
      BY <1>2 DEF Subtrees
    <3> QED BY <2>1, <3>1, <3>2, <1>1, <1>2, <1>4
  <2>2. CASE gp # NULL
    <3>1. t.root \in M /\ t.root # e /\ t.root # p
      BY <2>2, <1>1, <1>2 DEF Linked, gp, p
    <3>2. t.root # NULL => sub[t.root] = M
      BY <1>2 DEF Subtrees
    <3> QED BY <2>2, <3>1, <3>2, <1>1, <1>4
  <2> QED BY <2>1, <2>2
<1>20. new \in [M -> SUBSET M]
  <2>1. \A x \in M : new[x] \subseteq M
    BY <1>1, <1>4, <1>6, <1>15
  <2> QED BY <2>1, <1>4
<1>21. Subtrees(u, M, new)
  BY <1>16, <1>18, <1>19 DEF Subtrees
\* The order.
<1>22. \A x, y \in Entries : Before(u, x, y) <=> Before(t, x, y)
  BY <1>1 DEF Before
<1>23. /\ \A x \in M : \A c \in Children(t, x) : \A y \in sub[c] :
             IF c = t.node[x].lt THEN Before(t, y, x) ELSE Before(t, x, y)
       /\ \A x \in M : /\ t.node[x].lt # NULL => t.node[x].lt \in Children(t, x)
                       /\ t.node[x].gt # NULL => t.node[x].gt \in Children(t, x)
                                                 /\ t.node[x].gt # t.node[x].lt
  <2>1. \A x \in M : \A c \in Children(t, x) : \A y \in sub[c] :
            IF c = t.node[x].lt THEN Before(t, y, x) ELSE Before(t, x, y)
    BY <1>5
  <2>2. \A x \in M : /\ t.node[x].lt # NULL => t.node[x].lt \in Children(t, x)
                     /\ t.node[x].gt # NULL => t.node[x].gt \in Children(t, x)
    BY DEF Children
  <2>3. \A x \in M : \A c \in Children(t, x) : t.node[x].lt # t.node[x].gt
    BY <1>5
  <2> QED BY <2>1, <2>2, <2>3
<1>24. ASSUME NEW x \in M
       PROVE  /\ u.node[x].lt # NULL => \A y \in new[u.node[x].lt] : Before(t, y, x)
              /\ u.node[x].gt # NULL => \A y \in new[u.node[x].gt] : Before(t, x, y)
  <2>0. /\ t.node[x].lt # NULL => \A y \in sub[t.node[x].lt] : Before(t, y, x)
        /\ t.node[x].gt # NULL => \A y \in sub[t.node[x].gt] : Before(t, x, y)
    BY <1>23
  <2>1. CASE x = e
    <3>1. CASE t.node[p].gt = e
      <4>1. u.node[x].lt = p /\ u.node[x].gt = t.node[x].gt
        BY <2>1, <3>1, <1>1
      <4>2. \A z \in sub[e] : Before(t, p, z)
        BY <3>1, <1>1, <1>2, <1>23
      <4>3. \A y \in new[p] : Before(t, y, e)
        <5> TAKE y \in new[p]
        <5>1. CASE y = p
          BY <5>1, <4>2, <1>11
        <5>2. CASE y # p
          <6>1. PICK c \in rest : y \in sub[c]
            BY <5>2, <1>4
          <6>2. CASE c = inner
            <7>1. inner = t.node[e].lt /\ inner # NULL
              BY <6>1, <6>2, <3>1, <1>1, <1>2, <1>14
            <7> QED BY <7>1, <6>1, <6>2, <2>0, <2>1
          <6>3. CASE c # inner
            <7>1. c \in Children(t, p) /\ c # e
              BY <6>1, <6>3 DEF rest
            <7>2. c = t.node[p].lt
              BY <7>1, <3>1 DEF Children
            <7>3. Before(t, y, p) /\ y \in Entries
              BY <7>1, <7>2, <6>1, <1>1, <1>2, <1>6, <1>14, <1>23
            <7>4. Before(t, p, e)
              BY <4>2, <1>11
            <7> QED BY <7>3, <7>4, <1>1, <1>2, BeforeOrders
          <6> QED BY <6>2, <6>3
        <5> QED BY <5>1, <5>2
      <4>4. t.node[x].gt # NULL => new[t.node[x].gt] = sub[t.node[x].gt]
        BY <2>1, <1>14, <1>23
      <4> QED BY <4>1, <4>3, <4>4, <2>0, <2>1
    <3>2. CASE t.node[p].gt # e
      <4>1. u.node[x].gt = p /\ u.node[x].lt = t.node[x].lt /\ t.node[p].lt = e
        BY <2>1, <3>2, <1>1
      <4>2. \A z \in sub[e] : Before(t, z, p)
        BY <4>1, <1>1, <1>2, <1>23
      <4>3. \A y \in new[p] : Before(t, e, y)
        <5> TAKE y \in new[p]
        <5>1. CASE y = p
          BY <5>1, <4>2, <1>11
        <5>2. CASE y # p
          <6>1. PICK c \in rest : y \in sub[c]
            BY <5>2, <1>4
          <6>2. CASE c = inner
            <7>1. inner = t.node[e].gt /\ inner # NULL
              BY <6>1, <6>2, <3>2, <1>1, <1>2, <1>14
            <7> QED BY <7>1, <6>1, <6>2, <2>0, <2>1
          <6>3. CASE c # inner
            <7>1. c \in Children(t, p) /\ c # e
              BY <6>1, <6>3 DEF rest
            <7>2. c = t.node[p].gt /\ c # t.node[p].lt
              BY <7>1, <4>1 DEF Children
            <7>3. Before(t, p, y) /\ y \in Entries
              BY <7>1, <7>2, <6>1, <1>1, <1>2, <1>6, <1>14, <1>23
            <7>4. Before(t, e, p)
              BY <4>2, <1>11
            <7> QED BY <7>3, <7>4, <1>1, <1>2, BeforeOrders
          <6> QED BY <6>2, <6>3
        <5> QED BY <5>1, <5>2
      <4>4. t.node[x].lt # NULL => new[t.node[x].lt] = sub[t.node[x].lt]
        BY <2>1, <1>14, <1>23
      <4> QED BY <4>1, <4>3, <4>4, <2>0, <2>1
    <3> QED BY <3>1, <3>2
  <2>2. CASE x = p
    <3>1. inner # NULL => /\ new[inner] = sub[inner] /\ sub[inner] \subseteq sub[e]
      BY <1>1, <1>11, <1>14
    <3>2. CASE t.node[p].gt = e
      <4>1. u.node[x].lt = t.node[p].lt /\ u.node[x].gt = inner
        BY <2>2, <3>2, <1>1
      <4>2. t.node[p].lt # NULL => new[t.node[p].lt] = sub[t.node[p].lt]
        BY <3>2, <1>1, <1>14, <1>23 DEF rest
      <4>3. \A y \in sub[e] : Before(t, x, y)
        BY <2>0, <2>2, <3>2, <1>1, <1>2
      <4> QED BY <4>1, <4>2, <4>3, <3>1, <2>0, <2>2
    <3>3. CASE t.node[p].gt # e
      <4>1. u.node[x].gt = t.node[p].gt /\ u.node[x].lt = inner /\ t.node[p].lt = e
        BY <2>2, <3>3, <1>1
      <4>2. t.node[p].gt # NULL => new[t.node[p].gt] = sub[t.node[p].gt]
        BY <3>3, <1>1, <1>14, <1>23 DEF rest
      <4>3. \A y \in sub[e] : Before(t, y, x)
        BY <2>0, <2>2, <4>1, <1>1, <1>2
      <4> QED BY <4>1, <4>2, <4>3, <3>1, <2>0, <2>2
    <3> QED BY <3>2, <3>3
  <2>3. CASE x = gp
    <3>1. gp # NULL /\ new[e] = sub[p]
      BY <2>3, <1>2, <1>4
    <3>2. /\ u.node[gp].lt = IF t.node[gp].lt = p THEN e ELSE t.node[gp].lt
          /\ u.node[gp].gt = IF t.node[gp].gt = p THEN e ELSE t.node[gp].gt
      BY <3>1, <1>1
    <3>3. /\ t.node[gp].lt \notin {NULL, p} => new[t.node[gp].lt] = sub[t.node[gp].lt]
          /\ t.node[gp].gt \notin {NULL, p} => new[t.node[gp].gt] = sub[t.node[gp].gt]
      BY <3>1, <2>3, <1>14, <1>23
    <3> QED BY <3>1, <3>2, <3>3, <2>0, <2>3, <1>1, <1>2
  <2>4. CASE x \notin {e, p, gp}
    <3>1. u.node[x].lt = t.node[x].lt /\ u.node[x].gt = t.node[x].gt
      BY <2>4, <1>1, <1>2
    <3>2. /\ t.node[x].lt # NULL => new[t.node[x].lt] = sub[t.node[x].lt]
          /\ t.node[x].gt # NULL => new[t.node[x].gt] = sub[t.node[x].gt]
      BY <2>4, <1>14, <1>23
    <3> QED BY <3>1, <3>2, <2>0
  <2> QED BY <2>1, <2>2, <2>3, <2>4
<1>25. Sorted(u, M, new)
  <2>1. ASSUME NEW x \in M
        PROVE  /\ u.node[x].lt # NULL => \A y \in new[u.node[x].lt] : Before(u, y, x)
               /\ u.node[x].gt # NULL => \A y \in new[u.node[x].gt] : Before(u, x, y)
    <3>1. /\ u.node[x].lt # NULL => u.node[x].lt \in M
          /\ u.node[x].gt # NULL => u.node[x].gt \in M
      BY <1>13 DEF Children
    <3>2. /\ u.node[x].lt # NULL => new[u.node[x].lt] \subseteq Entries
          /\ u.node[x].gt # NULL => new[u.node[x].gt] \subseteq Entries
      BY <3>1, <1>2, <1>20
    <3>3. x \in Entries
      BY <1>2
    <3> QED BY <3>2, <3>3, <1>22, <1>24
  <2> QED BY <2>1 DEF Sorted
<1> QED
  BY <1>1, <1>2, <1>4, <1>11, <1>12, <1>15, <1>20, <1>21, <1>25 DEF Built, u, new, p

---------------------------------------------------------------------------
\* Removal.

SameKeys(t, u) ==
    \A x \in Entries : u.node[x].tv = t.node[x].tv /\ u.node[x].pri = t.node[x].pri

\* The heap, where e may be lighter than its parent or heavier than its children.
HeapBut(t, M, e) ==
    \A x \in M :
        /\ x # e /\ t.node[x].parent \notin {NULL, e} =>
               t.node[t.node[x].parent].pri <= t.node[x].pri
        /\ t.node[x].parent = e /\ t.node[e].parent # NULL =>
               t.node[t.node[e].parent].pri <= t.node[x].pri

\* A heap is one in spite of any entry.
LEMMA HeapIsBut ==
    ASSUME NEW t, NEW M, NEW sub, Built(t, M, sub), Heap(t, M), NEW e \in M
    PROVE  HeapBut(t, M, e)
<1>1. /\ t \in Trees /\ M \subseteq Entries /\ \A x \in M : t.node[x].pri \in Nat
      /\ \A x \in M : t.node[x].parent # NULL => t.node[x].parent \in M
  <2>1. t \in Trees /\ M \subseteq Entries
    BY DEF Built
  <2> QED BY <2>1, TreeTypes, BuiltParent
<1>2. ASSUME NEW x \in M, t.node[x].parent = e, t.node[e].parent # NULL
      PROVE  t.node[t.node[e].parent].pri <= t.node[x].pri
  <2>1. e # NULL
    BY <1>1, EntriesAssumption
  <2>2. t.node[t.node[e].parent].pri <= t.node[e].pri /\ t.node[e].pri <= t.node[x].pri
    BY <1>2, <2>1 DEF Heap
  <2> QED BY <2>2, <1>1, <1>2
<1> QED
  BY <1>2 DEF Heap, HeapBut

\* schedule_remove_node rotates up a child with the least priority, if there is one.
LEMMA LesserIsChild ==
    ASSUME NEW t \in Trees, NEW e \in Entries
    PROVE  /\ LesserChild(t, e) = NULL => Children(t, e) = {}
           /\ LesserChild(t, e) # NULL =>
                 /\ LesserChild(t, e) \in Children(t, e)
                 /\ \A d \in Children(t, e) :
                       t.node[LesserChild(t, e)].pri <= t.node[d].pri
<1> DEFINE lt == t.node[e].lt
           gt == t.node[e].gt
<1>1. /\ lt # NULL => t.node[lt].pri \in Int
      /\ gt # NULL => t.node[gt].pri \in Int
  BY TreeTypes DEF Links
<1>2. LesserChild(t, e) = IF gt = NULL \/ (lt # NULL /\ t.node[lt].pri < t.node[gt].pri) THEN lt ELSE gt
  BY DEF LesserChild
<1>3. Children(t, e) = {lt, gt} \ {NULL}
  BY DEF Children
<1> HIDE DEF lt, gt
<1> QED
  BY <1>1, <1>2, <1>3

\* The step of schedule_remove_node.
LEMMA SinkStep ==
    ASSUME NEW t, NEW M, NEW sub, Built(t, M, sub), NEW e \in M, HeapBut(t, M, e),
           LesserChild(t, e) # NULL
    PROVE  LET c == LesserChild(t, e)
               u == RotateUp(t, c)
           IN  /\ c \in M /\ t.node[c].parent = e
               /\ Built(u, M, Turned(t, sub, c)) /\ HeapBut(u, M, e) /\ SameKeys(t, u) /\ u # t
               /\ Turned(t, sub, c)[e] \subseteq sub[e] /\ Turned(t, sub, c)[e] # sub[e]
<1> DEFINE c == LesserChild(t, e)
           u == RotateUp(t, c)
           gp == t.node[e].parent
           inner == Inner(t, c)
<1>1. /\ t \in Trees /\ M \subseteq Entries /\ e # NULL /\ e \in Entries
  BY EntriesAssumption DEF Built
<1>2. c \in Children(t, e) /\ \A d \in Children(t, e) : t.node[c].pri <= t.node[d].pri
  BY <1>1, LesserIsChild
<1> HIDE DEF c
<1>3. c \in M /\ t.node[c].parent = e
  BY <1>2, BuiltChild
<1>4. Rotation(t, M, c, u, e, gp, inner)
  BY <1>1, <1>3, RotateLinks
<1>5. /\ Built(u, M, Turned(t, sub, c))
      /\ Turned(t, sub, c)[e] \subseteq sub[e] /\ c \notin Turned(t, sub, c)[e] /\ c \in sub[e]
  BY <1>1, <1>3, RotateBuilt
<1> HIDE DEF u, inner, gp
<1>6. SameKeys(t, u) /\ u # t
  BY <1>1, <1>3, <1>4 DEF Rotation, SameKeys
<1>7. /\ \A x \in M : u.node[x].parent = IF x = c THEN gp ELSE IF x = e THEN c
                                         ELSE IF x = inner THEN e ELSE t.node[x].parent
      /\ \A x \in M : u.node[x].pri = t.node[x].pri /\ t.node[x].pri \in Int
      /\ c # e /\ gp # c /\ gp # e /\ inner # c /\ inner # e /\ (gp # NULL => gp \in M)
      /\ inner # NULL => inner \in M /\ t.node[inner].parent = c
  <2>1. inner # NULL => inner \in M /\ t.node[inner].parent = c
    BY <1>3, <1>4, BuiltChild DEF Rotation
  <2>2. \A x \in M : t.node[x].pri \in Int
    BY <1>1, TreeTypes
  <2> QED BY <2>1, <2>2, <1>1, <1>4 DEF Rotation
<1>8. ASSUME NEW x \in M, x # e, u.node[x].parent \notin {NULL, e}
      PROVE  u.node[u.node[x].parent].pri <= u.node[x].pri
  <2>1. CASE x = c
    <3>1. u.node[x].parent = gp /\ gp \in M
      BY <2>1, <1>7, <1>8
    <3>2. t.node[gp].pri <= t.node[c].pri
      BY <3>1, <1>3, <1>7, <1>8, <2>1 DEF HeapBut, gp
    <3> QED BY <2>1, <3>1, <3>2, <1>7
  <2>2. CASE x # c
    <3>1. u.node[x].parent = t.node[x].parent
      BY <2>2, <1>7, <1>8
    <3>2. t.node[x].parent \in M
      BY <3>1, <1>8, BuiltParent
    <3>3. t.node[t.node[x].parent].pri <= t.node[x].pri
      BY <3>1, <1>8 DEF HeapBut
    <3> QED BY <3>1, <3>2, <3>3, <1>7
  <2> QED BY <2>1, <2>2
<1>9. ASSUME NEW x \in M, u.node[x].parent = e
      PROVE  u.node[u.node[e].parent].pri <= u.node[x].pri
  <2>1. u.node[e].parent = c
    BY <1>7
  <2>2. x # c /\ x # e
    BY <1>1, <1>7, <1>9
  <2>3. CASE x = inner
    <3>1. t.node[x].parent = c /\ c # NULL
      BY <2>3, <1>1, <1>2, <1>3, EntriesAssumption, <1>7
    <3>2. t.node[c].pri <= t.node[x].pri
      BY <3>1, <2>2, <1>7 DEF HeapBut
    <3> QED BY <3>2, <2>1, <1>3, <1>7
  <2>4. CASE x # inner
    <3>1. t.node[x].parent = e
      BY <2>2, <2>4, <1>7, <1>9
    <3>2. x \in Children(t, e)
      BY <3>1, <1>1, BuiltParent
    <3> QED BY <3>2, <2>1, <1>2, <1>3, <1>7
  <2> QED BY <2>3, <2>4
<1>10. HeapBut(u, M, e)
  BY <1>8, <1>9 DEF HeapBut
<1> QED
  BY <1>3, <1>5, <1>6, <1>10 DEF c, u

\* An entry with another time and another priority
LEMMA Keys ==
    ASSUME NEW n \in Nodes, NEW a, NEW b
    PROVE  [n EXCEPT !.tv = a, !.pri = b]
              = [tv |-> a, pri |-> b, parent |-> n.parent, lt |-> n.lt, gt |-> n.gt]
<1>1. \A A, B, C, v : \A r \in [tv : A, pri : B, parent : C, lt : C, gt : C] :
          [r EXCEPT !.tv = v]
             = [tv |-> v, pri |-> r.pri, parent |-> r.parent, lt |-> r.lt, gt |-> r.gt]
  OBVIOUS
<1>2. \A A, B, C, v : \A r \in [tv : A, pri : B, parent : C, lt : C, gt : C] :
          [r EXCEPT !.pri = v]
             = [tv |-> r.tv, pri |-> v, parent |-> r.parent, lt |-> r.lt, gt |-> r.gt]
  OBVIOUS
<1> DEFINE m == [n EXCEPT !.tv = a]
<1>3. m = [tv |-> a, pri |-> n.pri, parent |-> n.parent, lt |-> n.lt, gt |-> n.gt]
  BY <1>1 DEF Nodes
<1>4. m \in [tv : {a}, pri : Nat, parent : Links, lt : Links, gt : Links]
  BY <1>3 DEF Nodes
<1>5. [n EXCEPT !.tv = a, !.pri = b] = [m EXCEPT !.pri = b]
  OBVIOUS
<1> HIDE DEF m
<1>6. [m EXCEPT !.pri = b] = [tv |-> m.tv, pri |-> b, parent |-> m.parent, lt |-> m.lt, gt |-> m.gt]
  BY <1>2, <1>4
<1> QED
  BY <1>3, <1>5, <1>6

\* What schedule_remove_node leaves of an entry
LEMMA Bare ==
    ASSUME NEW n \in Nodes, n.lt = NULL, n.gt = NULL, n.parent = NULL
    PROVE  [n EXCEPT !.tv = 0, !.pri = 0] = Unlinked
<1>1. [n EXCEPT !.tv = 0, !.pri = 0]
         = [tv |-> 0, pri |-> 0, parent |-> n.parent, lt |-> n.lt, gt |-> n.gt]
  BY Keys
<1> QED
  BY <1>1 DEF Unlinked

\* A leaf can be detached.
LEMMA DetachBuilt ==
    ASSUME NEW t, NEW M, NEW sub, Built(t, M, sub), NEW e \in M, HeapBut(t, M, e), Children(t, e) = {}
    PROVE  LET d == DetachParent(t, e)
               u == Change(d, e, [d.node[e] EXCEPT !.tv = 0, !.pri = 0])
           IN  /\ u.node[e] = Unlinked
               /\ \A x \in Entries \ {e} : u.node[x].tv = t.node[x].tv /\ u.node[x].pri = t.node[x].pri
               /\ Built(u, M \ {e}, [x \in M \ {e} |-> sub[x] \ {e}])
               /\ Heap(u, M \ {e})
<1> DEFINE d == DetachParent(t, e)
           u == Change(d, e, [d.node[e] EXCEPT !.tv = 0, !.pri = 0])
           p == t.node[e].parent
           N == M \ {e}
           new == [x \in N |-> sub[x] \ {e}]
<1>1. /\ t \in Trees /\ M \subseteq Entries /\ e \in Entries /\ NULL \notin Entries /\ NULL \notin M
      /\ sub \in [M -> SUBSET M] /\ Linked(t, M) /\ Subtrees(t, M, sub) /\ Sorted(t, M, sub)
      /\ t.node \in [Entries -> Nodes] /\ t.root \in Links
  BY EntriesAssumption, TreeTypes DEF Built
<1>2. t.node[e].lt = NULL /\ t.node[e].gt = NULL
  BY DEF Children
<1>3. sub[e] = {e}
  BY <1>1 DEF Subtrees
<1>4. p # NULL => /\ p \in M /\ p # e /\ e \in Children(t, p)
                  /\ t.node[p].lt # t.node[p].gt
  <2> SUFFICES ASSUME p # NULL PROVE p \in M /\ p # e /\ e \in Children(t, p) /\ t.node[p].lt # t.node[p].gt
    OBVIOUS
  <2>1. p \in M /\ e \in Children(t, p)
    BY BuiltParent
  <2> HIDE DEF p
  <2> QED BY <2>1, BuiltChild
<1>5. p = NULL <=> e = t.root
  BY <1>1 DEF Linked
<1>6. u = [root |-> IF p = NULL THEN NULL ELSE t.root,
           node |-> [x \in Entries |->
               IF x = e THEN Unlinked ELSE IF x = p THEN Relink(t.node[p], e, NULL) ELSE t.node[x]]]
  <2>1. CASE p = NULL
    <3>1. d = [t EXCEPT !.root = NULL]
      BY <2>1, <1>5 DEF DetachParent
    <3>2. d.node = t.node /\ d.root = NULL
      BY <3>1, <1>1 DEF Trees
    <3>3. [d.node[e] EXCEPT !.tv = 0, !.pri = 0] = Unlinked
      BY <3>2, <2>1, <1>1, <1>2, Bare
    <3>4. u = [d EXCEPT !.node = [x \in Entries |-> IF x = e THEN Unlinked ELSE t.node[x]]]
      BY <3>2, <3>3 DEF Change
    <3>5. d \in Trees
      BY <3>1, <1>1 DEF Trees, Links
    <3>6. u = [root |-> NULL, node |-> [x \in Entries |-> IF x = e THEN Unlinked ELSE t.node[x]]]
      BY <3>2, <3>4, <3>5 DEF Trees
    <3>7. \A x \in Entries : x # p
      BY <2>1, <1>1
    <3> HIDE DEF p, u
    <3> QED BY <3>6, <3>7, <2>1
  <2>2. CASE p # NULL
    <3> DEFINE a == Change(t, p, Relink(t.node[p], e, NULL))
    <3>1. d = Change(a, e, [t.node[e] EXCEPT !.parent = NULL])
      BY <2>2 DEF DetachParent
    <3>2. p \in Entries /\ p # e
      BY <2>2, <1>1, <1>4
    <3>3. a = [root |-> t.root, node |-> [x \in Entries |-> IF x = p THEN Relink(t.node[p], e, NULL) ELSE t.node[x]]]
      BY <1>1 DEF Change, Trees
    <3> HIDE DEF p, a
    <3>4. d = [root |-> t.root,
               node |-> [x \in Entries |-> IF x = e THEN [t.node[e] EXCEPT !.parent = NULL]
                                           ELSE IF x = p THEN Relink(t.node[p], e, NULL) ELSE t.node[x]]]
      BY <3>1, <3>3 DEF Change
    <3>5. [d.node[e] EXCEPT !.tv = 0, !.pri = 0] = Unlinked
      <4>1. d.node[e] = [t.node[e] EXCEPT !.parent = NULL]
        BY <3>4, <1>1
      <4>2. /\ d.node[e] \in Nodes /\ d.node[e].parent = NULL
            /\ d.node[e].lt = NULL /\ d.node[e].gt = NULL
        BY <4>1, <1>1, <1>2 DEF Nodes, Links
      <4> QED BY <4>2, Bare
    <3> HIDE DEF d
    <3>6. u = [root |-> t.root,
               node |-> [x \in Entries |-> IF x = e THEN Unlinked
                                           ELSE IF x = p THEN Relink(t.node[p], e, NULL) ELSE t.node[x]]]
      BY <3>4, <3>5 DEF Change
    <3> QED BY <3>6, <2>2
  <2> QED BY <2>1, <2>2
<1> HIDE DEF d, u, p
<1>7. /\ u.root = IF p = NULL THEN NULL ELSE t.root
      /\ u.node[e] = Unlinked
      /\ \A x \in Entries : x # e /\ x # p => u.node[x] = t.node[x]
      /\ p # NULL => u.node[p] = Relink(t.node[p], e, NULL)
      /\ DOMAIN u.node = Entries
  BY <1>1, <1>4, <1>6
<1>8. ASSUME p # NULL
      PROVE  /\ u.node[p] \in Nodes
             /\ u.node[p].tv = t.node[p].tv /\ u.node[p].pri = t.node[p].pri
             /\ u.node[p].parent = t.node[p].parent
             /\ u.node[p].lt = IF t.node[p].lt = e THEN NULL ELSE t.node[p].lt
             /\ u.node[p].gt = IF t.node[p].gt = e THEN NULL ELSE t.node[p].gt
  BY <1>1, <1>4, <1>7, <1>8 DEF Relink, Nodes, Links, Children
<1>9. u \in Trees
  <2>1. \A x \in Entries : u.node[x] \in Nodes
    <3> TAKE x \in Entries
    <3>1. Unlinked \in Nodes
      BY DEF Unlinked, Nodes, Links
    <3> QED BY <3>1, <1>1, <1>7, <1>8
  <2>2. u.node = [x \in Entries |-> u.node[x]] /\ u = [root |-> u.root, node |-> u.node]
    BY <1>6
  <2>3. u.root \in Links
    BY <1>1, <1>7 DEF Links
  <2> QED BY <2>1, <2>2, <2>3 DEF Trees, Nodes
<1>10. \A x \in Entries \ {e} : /\ u.node[x].tv = t.node[x].tv /\ u.node[x].pri = t.node[x].pri
                                /\ u.node[x].parent = t.node[x].parent
                                /\ u.node[x].lt = IF t.node[x].lt = e THEN NULL ELSE t.node[x].lt
                                /\ u.node[x].gt = IF t.node[x].gt = e THEN NULL ELSE t.node[x].gt
  <2> TAKE x \in Entries \ {e}
  <2>1. CASE x = p
    <3>1. p # NULL
      BY <2>1, <1>1
    <3> QED BY <3>1, <2>1, <1>8
  <2>2. CASE x # p
    <3>1. e \notin Children(t, x)
      BY <2>2, <1>1 DEF Linked, p
    <3>2. t.node[x].lt # e /\ t.node[x].gt # e
      BY <3>1, <1>1 DEF Children
    <3> QED BY <3>2, <2>2, <1>7
  <2> QED BY <2>1, <2>2
<1>11. \A x \in Entries \ {e} : Children(u, x) = Children(t, x) \ {e}
  BY <1>1, <1>10 DEF Children
<1>12. Children(u, e) = {} /\ u.node[e].parent = NULL
  BY <1>7 DEF Children, Unlinked
<1>13. \A x \in M : t.node[x].parent # e
  BY <1>1 DEF Linked
<1>14. \A x \in M : x \in sub[x] /\ sub[x] \subseteq M
  BY <1>1 DEF Subtrees
<1>15. u.root # e /\ (IF N = {} THEN u.root = NULL ELSE u.root \in N)
       /\ (u.root # NULL => sub[u.root] = M)
  <2>1. CASE p = NULL
    <3>1. sub[e] = M
      BY <2>1, <1>1, <1>5 DEF Subtrees
    <3>2. N = {}
      BY <3>1, <1>3
    <3> QED BY <3>2, <2>1, <1>1, <1>7
  <2>2. CASE p # NULL
    <3>1. p \in N /\ u.root = t.root /\ t.root # e
      BY <2>2, <1>4, <1>5, <1>7
    <3>2. t.root \in M /\ (t.root # NULL => sub[t.root] = M)
      BY <1>1 DEF Linked, Subtrees
    <3> QED BY <3>1, <3>2
  <2> QED BY <2>1, <2>2
<1>16. Linked(u, N)
  <2>1. \A x \in Entries \ N : u.node[x].parent = NULL /\ Children(u, x) = {}
    <3> TAKE x \in Entries \ N
    <3>1. CASE x = e
      BY <3>1, <1>12
    <3>2. CASE x # e
      <4>1. x \in Entries \ M
        BY <3>2
      <4>2. t.node[x].parent = NULL /\ Children(t, x) = {}
        BY <4>1, <1>1 DEF Linked
      <4> QED BY <4>2, <3>2, <1>10, <1>11
    <3> QED BY <3>1, <3>2
  <2>2. ASSUME NEW x \in N
        PROVE  /\ u.node[x].parent = NULL <=> x = u.root
               /\ u.node[x].parent # NULL => x \in Children(u, u.node[x].parent)
               /\ \A c \in Children(u, x) : u.node[c].parent = x
    <3>1. /\ t.node[x].parent = NULL <=> x = t.root
          /\ t.node[x].parent # NULL => x \in Children(t, t.node[x].parent)
          /\ \A c \in Children(t, x) : t.node[c].parent = x
      BY <1>1 DEF Linked
    <3>2. u.node[x].parent = t.node[x].parent /\ x \in Entries /\ x # e
      BY <1>1, <1>10
    <3>3. u.node[x].parent = NULL <=> x = u.root
      <4>1. CASE p = NULL
        <5>1. N = {}
          BY <4>1, <1>1, <1>3, <1>5 DEF Subtrees
        <5> QED BY <5>1
      <4>2. CASE p # NULL
        BY <4>2, <3>1, <3>2, <1>7
      <4> QED BY <4>1, <4>2
    <3>4. ASSUME u.node[x].parent # NULL PROVE x \in Children(u, u.node[x].parent)
      <4>1. t.node[x].parent \in Entries /\ t.node[x].parent # e /\ x \in Children(t, t.node[x].parent)
        BY <3>1, <3>2, <3>4, <1>1, <1>13, TreeTypes DEF Links
      <4> QED BY <4>1, <3>2, <1>11
    <3>5. ASSUME NEW c \in Children(u, x) PROVE u.node[c].parent = x
      <4>1. c \in Children(t, x) /\ c # e
        BY <3>2, <1>11
      <4>2. c \in Entries
        BY <4>1, <3>2, <1>1, TreeTypes
      <4> QED BY <4>1, <4>2, <3>1, <1>10
    <3> QED BY <3>3, <3>4, <3>5
  <2> QED BY <2>1, <2>2, <1>15 DEF Linked
<1>17. new \in [N -> SUBSET N]
  BY <1>14
<1>18. \A x \in N : new[x] = sub[x] \ {e} /\ x \in M /\ x # e /\ x \in Entries
  BY <1>1
<1>19. \A x \in N : \A c \in Children(u, x) : c \in N /\ c \in Children(t, x)
  <2> TAKE x \in N
  <2> TAKE c \in Children(u, x)
  <2>1. c \in Children(t, x) /\ c # e
    BY <1>11, <1>18
  <2>2. c \in M
    BY <2>1, <1>18, BuiltChild
  <2> QED BY <2>1, <2>2
<1> HIDE DEF new, N
<1>20. Subtrees(u, N, new)
  <2>1. ASSUME NEW x \in N PROVE new[x] = {x} \union UNION {new[c] : c \in Children(u, x)}
    <3>1. sub[x] = {x} \union UNION {sub[c] : c \in Children(t, x)}
      BY <1>1, <1>18 DEF Subtrees
    <3>2. \A c \in Children(u, x) : new[c] = sub[c] \ {e}
      BY <1>18, <1>19
    <3>3. Children(u, x) = Children(t, x) \ {e}
      BY <1>11, <1>18
    <3>4. ASSUME NEW y \in new[x] PROVE y \in {x} \union UNION {new[c] : c \in Children(u, x)}
      <4>1. y \in sub[x] /\ y # e
        BY <1>18
      <4>2. CASE y # x
        <5>1. PICK c \in Children(t, x) : y \in sub[c]
          BY <4>1, <4>2, <3>1
        <5>2. c # e
          BY <5>1, <4>1, <1>3
        <5> QED BY <5>1, <5>2, <4>1, <3>2, <3>3
      <4> QED BY <4>2
    <3>5. ASSUME NEW y \in {x} \union UNION {new[c] : c \in Children(u, x)} PROVE y \in new[x]
      BY <3>1, <3>2, <3>3, <1>18
    <3> QED BY <3>4, <3>5
  <2>2. ASSUME NEW x \in N, NEW y \in new[x]
        PROVE  new[y] \subseteq new[x] /\ (y = x \/ u.node[y].parent \in new[x])
    <3>1. y \in sub[x] /\ y # e /\ x \in M
      BY <1>18
    <3>2. y \in N /\ y \in Entries
      BY <3>1, <1>1, <1>14 DEF N
    <3>3. sub[y] \subseteq sub[x] /\ (y = x \/ t.node[y].parent \in sub[x])
      BY <3>1, <1>1 DEF Subtrees
    <3> QED BY <3>1, <3>2, <3>3, <1>10, <1>13, <1>18
  <2>3. u.root # NULL => new[u.root] = N
    <3> SUFFICES ASSUME u.root # NULL PROVE new[u.root] = N
      OBVIOUS
    <3>1. u.root \in N
      BY <1>15
    <3> QED BY <3>1, <1>15, <1>18 DEF N
  <2> QED BY <2>1, <2>2, <2>3 DEF Subtrees
<1>21. Sorted(u, N, new)
  <2> SUFFICES ASSUME NEW x \in N
               PROVE  /\ u.node[x].lt # NULL => \A y \in new[u.node[x].lt] : Before(u, y, x)
                      /\ u.node[x].gt # NULL => \A y \in new[u.node[x].gt] : Before(u, x, y)
    BY DEF Sorted
  <2>1. /\ u.node[x].lt # NULL => u.node[x].lt \in N /\ u.node[x].lt = t.node[x].lt
        /\ u.node[x].gt # NULL => u.node[x].gt \in N /\ u.node[x].gt = t.node[x].gt
    BY <1>10, <1>18, <1>19 DEF Children
  <2>2. \A y \in N : /\ Before(u, y, x) <=> Before(t, y, x)
                     /\ Before(u, x, y) <=> Before(t, x, y)
    BY <1>10, <1>18 DEF Before
  <2>3. \A c \in N : new[c] \subseteq N /\ new[c] \subseteq sub[c]
    BY <1>17, <1>18
  <2>4. /\ t.node[x].lt # NULL => \A y \in sub[t.node[x].lt] : Before(t, y, x)
        /\ t.node[x].gt # NULL => \A y \in sub[t.node[x].gt] : Before(t, x, y)
    BY <1>1, <1>18 DEF Sorted
  <2> QED BY <2>1, <2>2, <2>3, <2>4
<1>22. Heap(u, N)
  <2> SUFFICES ASSUME NEW x \in N, u.node[x].parent # NULL
               PROVE  u.node[u.node[x].parent].pri <= u.node[x].pri
    BY DEF Heap
  <2>1. u.node[x].parent = t.node[x].parent /\ x \in M /\ x # e /\ u.node[x].pri = t.node[x].pri
    BY <1>10, <1>18
  <2>2. t.node[x].parent # e /\ t.node[x].parent \in Entries
    BY <2>1, <1>1, <1>13, BuiltParent
  <2>3. t.node[t.node[x].parent].pri <= t.node[x].pri
    BY <2>1, <2>2 DEF HeapBut
  <2> QED BY <2>1, <2>2, <2>3, <1>10
<1> QED
  BY <1>1, <1>7, <1>9, <1>10, <1>16, <1>17, <1>20, <1>21, <1>22 DEF Built, u, d, N, new

\* schedule_remove_node: the others stay a treap, with the times they had.
LEMMA RemoveBuilt ==
    ASSUME NEW t, NEW M, NEW sub, Built(t, M, sub), Heap(t, M), NEW e \in M
    PROVE  LET u == RemoveNode(t, e)
           IN  /\ u.node[e] = Unlinked
               /\ \A x \in Entries \ {e} : u.node[x].tv = t.node[x].tv /\ u.node[x].pri = t.node[x].pri
               /\ \E new : Built(u, M \ {e}, new)
               /\ Heap(u, M \ {e})
<1> DEFINE F == [u \in Trees |-> IF LesserChild(u, e) = NULL THEN u
                                 ELSE RotateUp(u, LesserChild(u, e))]
           Good(u, s) == Built(u, M, s) /\ HeapBut(u, M, e) /\ SameKeys(t, u)
           R == {uv \in Trees \X SUBSET Entries : \E s : Good(uv[1], s) /\ uv[2] = s[e]}
           sunk == Loop(F, t)
<1>1. \A u, s : Good(u, s) => u \in Trees /\ s[e] \in SUBSET Entries
  BY DEF Built
<1>2. \A u, s : Good(u, s) => <<u, s[e]>> \in R
  BY <1>1
<1>3. \A u, v : <<u, v>> \in R => u \in Trees /\ v \in SUBSET Entries /\ \E s : Good(u, s) /\ v = s[e]
  OBVIOUS
<1>4. Good(t, sub)
  BY HeapIsBut DEF SameKeys
<1>5. ASSUME NEW u, NEW s, Good(u, s), LesserChild(u, e) # NULL
      PROVE  F[u] # u /\ \E z : Good(F[u], z) /\ z[e] \subseteq s[e] /\ z[e] # s[e]
  <2> DEFINE c == LesserChild(u, e)
             w == RotateUp(u, c)
  <2>1. /\ Built(w, M, Turned(u, s, c)) /\ HeapBut(w, M, e) /\ SameKeys(u, w) /\ w # u
        /\ Turned(u, s, c)[e] \subseteq s[e] /\ Turned(u, s, c)[e] # s[e]
    BY <1>5, SinkStep
  <2>2. F[u] = w
    BY <1>1, <1>5
  <2>3. SameKeys(t, w)
    BY <2>1, <1>5 DEF SameKeys
  <2> HIDE DEF w, F
  <2> QED BY <2>1, <2>2, <2>3
<1>6. ASSUME NEW u, NEW v, <<u, v>> \in R
      PROVE  /\ v \in SUBSET Entries
             /\ F[u] = u \/ \E w : <<F[u], w>> \in R /\ w \subseteq v /\ w # v
  <2>1. PICK s : Good(u, s) /\ v = s[e] /\ u \in Trees /\ v \in SUBSET Entries
    BY <1>3, <1>6
  <2>2. CASE LesserChild(u, e) = NULL
    <3>1. F[u] = u
      BY <2>1, <2>2
    <3> QED BY <2>1, <3>1
  <2>3. CASE LesserChild(u, e) # NULL
    <3>1. PICK z : Good(F[u], z) /\ z[e] \subseteq s[e] /\ z[e] # s[e]
      BY <2>1, <2>3, <1>5
    <3> HIDE DEF Good, F, R
    <3>2. <<F[u], z[e]>> \in R
      BY <3>1, <1>2
    <3> QED BY <2>1, <3>1, <3>2
  <2> QED BY <2>2, <2>3
<1>7. F[sunk] = sunk /\ \E v : <<sunk, v>> \in R
  <2>1. <<t, sub[e]>> \in R
    BY <1>2, <1>4
  <2> HIDE DEF F, R, Good
  <2> QED BY <2>1, <1>6, LoopEnds
<1>8. PICK s : Good(sunk, s)
  <2> HIDE DEF sunk, F, R, Good
  <2> QED BY <1>3, <1>7
<1>9. LesserChild(sunk, e) = NULL
  <2> HIDE DEF sunk, F, Good
  <2> QED BY <1>5, <1>7, <1>8
<1>10. Children(sunk, e) = {}
  BY <1>1, <1>8, <1>9, LesserIsChild DEF Built
<1> DEFINE d == DetachParent(sunk, e)
           u == Change(d, e, [d.node[e] EXCEPT !.tv = 0, !.pri = 0])
<1>11. RemoveNode(t, e) = u
  BY DEF RemoveNode
<1> HIDE DEF sunk
<1>12. /\ u.node[e] = Unlinked
       /\ \A x \in Entries \ {e} : u.node[x].tv = sunk.node[x].tv /\ u.node[x].pri = sunk.node[x].pri
       /\ Built(u, M \ {e}, [x \in M \ {e} |-> s[x] \ {e}])
       /\ Heap(u, M \ {e})
  BY <1>8, <1>10, DetachBuilt
<1>13. SameKeys(t, sunk)
  BY <1>8
<1> HIDE DEF u, Good, F, R
<1> QED
  BY <1>11, <1>12, <1>13 DEF SameKeys

\* It leaves an entry that is not in the tree alone.
LEMMA RemoveNothing ==
    ASSUME NEW t, NEW M, NEW sub, Built(t, M, sub), NEW e \in Entries \ M, t.node[e] = Unlinked
    PROVE  RemoveNode(t, e) = t
<1> DEFINE F == [u \in Trees |-> IF LesserChild(u, e) = NULL THEN u
                                 ELSE RotateUp(u, LesserChild(u, e))]
           sunk == Loop(F, t)
           d == DetachParent(sunk, e)
<1>1. t \in Trees /\ t.root \in M \union {NULL} /\ NULL \notin Entries
  BY EntriesAssumption DEF Built, Linked
<1>2. LesserChild(t, e) = NULL
  BY DEF LesserChild, Unlinked
<1>3. F[t] = t
  BY <1>1, <1>2
<1>4. sunk = t
  <2> DEFINE R == {<<t, {}>>}
  <2>1. \A u, v : <<u, v>> \in R => u = t /\ v = {}
    OBVIOUS
  <2>2. <<t, {}>> \in R
    OBVIOUS
  <2> HIDE DEF F, R
  <2>3. \E v : <<sunk, v>> \in R
    BY <2>1, <2>2, <1>3, LoopEnds
  <2> QED BY <2>1, <2>3
<1>5. RemoveNode(t, e) = Change(d, e, [d.node[e] EXCEPT !.tv = 0, !.pri = 0])
  BY DEF RemoveNode
<1> HIDE DEF sunk
<1>6. d = t
  <2>1. t.node[e].parent = NULL /\ t.root # e
    BY <1>1 DEF Unlinked
  <2>2. d = [t EXCEPT !.root = @]
    BY <2>1, <1>4 DEF DetachParent
  <2> QED BY <2>2, <1>1 DEF Trees
<1> HIDE DEF d
<1>7. [d.node[e] EXCEPT !.tv = 0, !.pri = 0] = t.node[e]
  <2>1. /\ t.node[e] \in Nodes
        /\ t.node[e].lt = NULL /\ t.node[e].gt = NULL /\ t.node[e].parent = NULL
    BY <1>1, TreeTypes DEF Unlinked
  <2>2. [t.node[e] EXCEPT !.tv = 0, !.pri = 0] = Unlinked
    BY <2>1, Bare
  <2> QED BY <2>2, <1>6
<1>8. RemoveNode(t, e) = [t EXCEPT !.node = [x \in Entries |-> IF x = e THEN t.node[e] ELSE t.node[x]]]
  BY <1>5, <1>6, <1>7 DEF Change
<1>9. [x \in Entries |-> IF x = e THEN t.node[e] ELSE t.node[x]] = t.node
  BY <1>1 DEF Trees
<1> QED
  BY <1>1, <1>8, <1>9 DEF Trees

---------------------------------------------------------------------------
\* Insertion.

\* No entry of M has the place of e.
Distinct(t, M, e) == \A x \in M : ~ Same(t, e, x)

\* c is where the search for the place of e has come to.
Reaches(t, M, sub, e, c) ==
    /\ c \in M
    /\ \A x \in M \ {c} :
          /\ t.node[x].lt # NULL => (c \in sub[t.node[x].lt] => Before(t, e, x))
          /\ t.node[x].gt # NULL => (c \in sub[t.node[x].gt] => ~ Before(t, e, x))

\* A step of the search.
LEMMA DescentStep ==
    ASSUME NEW t, NEW M, NEW sub, Built(t, M, sub), NEW e \in Entries \ M,
           NEW c, Reaches(t, M, sub, e, c), Side(t, e, c) # NULL
    PROVE  LET d == Side(t, e, c)
           IN  Reaches(t, M, sub, e, d) /\ sub[d] \subseteq sub[c] /\ sub[d] # sub[c]
<1> DEFINE d == Side(t, e, c)
<1>1. c \in M /\ d \in Children(t, c) /\ t \in Trees /\ M \subseteq Entries /\ NULL \notin M
  BY EntriesAssumption DEF Reaches, Side, Children, Built
<1>2. /\ d \in M /\ d # c /\ t.node[d].parent = c
      /\ d \in sub[d] /\ sub[d] \subseteq sub[c] /\ c \notin sub[d]
      /\ \A f \in Children(t, c) : f # d => sub[f] \intersect sub[d] = {}
      /\ t.node[c].lt # t.node[c].gt
  BY <1>1, BuiltChild
<1>3. c \in sub[c]
  BY <1>1 DEF Built, Subtrees
<1>4. d = IF Before(t, e, c) THEN t.node[c].lt ELSE t.node[c].gt
  BY DEF Side
<1> HIDE DEF d
<1>5. /\ t.node[c].lt # NULL => (d \in sub[t.node[c].lt] => Before(t, e, c))
      /\ t.node[c].gt # NULL => (d \in sub[t.node[c].gt] => ~ Before(t, e, c))
  BY <1>2, <1>4 DEF Children
<1>6. ASSUME NEW x \in M, NEW y \in Children(t, x), x # c, d \in sub[y] PROVE c \in sub[y]
  <2>1. y \in M /\ t.node[y].parent = x
    BY BuiltChild
  <2>2. d = y \/ t.node[d].parent \in sub[y]
    BY <2>1, <1>6 DEF Built, Subtrees
  <2> QED BY <2>1, <2>2, <1>2, <1>6
<1>7. ASSUME NEW x \in M \ {d}
      PROVE  /\ t.node[x].lt # NULL => (d \in sub[t.node[x].lt] => Before(t, e, x))
             /\ t.node[x].gt # NULL => (d \in sub[t.node[x].gt] => ~ Before(t, e, x))
  <2>1. CASE x = c
    BY <2>1, <1>5
  <2>2. CASE x # c
    <3>1. /\ t.node[x].lt # NULL => (c \in sub[t.node[x].lt] => Before(t, e, x))
          /\ t.node[x].gt # NULL => (c \in sub[t.node[x].gt] => ~ Before(t, e, x))
      BY <2>2 DEF Reaches
    <3>2. /\ t.node[x].lt # NULL => t.node[x].lt \in Children(t, x)
          /\ t.node[x].gt # NULL => t.node[x].gt \in Children(t, x)
      BY DEF Children
    <3> QED BY <3>1, <3>2, <2>2, <1>6
  <2> QED BY <2>1, <2>2
<1> QED
  BY <1>2, <1>3, <1>7 DEF Reaches, d

\* The search ends at an entry that has room for e.
LEMMA DescentEnds ==
    ASSUME NEW t, NEW M, NEW sub, Built(t, M, sub), NEW e \in Entries \ M, t.root # NULL
    PROVE  LET c == Loop([x \in Entries |-> IF Side(t, e, x) = NULL THEN x ELSE Side(t, e, x)], t.root)
           IN  Reaches(t, M, sub, e, c) /\ Side(t, e, c) = NULL
<1> DEFINE F == [x \in Entries |-> IF Side(t, e, x) = NULL THEN x ELSE Side(t, e, x)]
           c == Loop(F, t.root)
           R == {xv \in M \X SUBSET Entries : Reaches(t, M, sub, e, xv[1]) /\ xv[2] = sub[xv[1]]}
<1>1. /\ t \in Trees /\ M \subseteq Entries /\ NULL \notin Entries /\ t.root \in M
      /\ sub \in [M -> SUBSET M] /\ sub[t.root] = M
  BY EntriesAssumption DEF Built, Linked, Subtrees
<1>2. \A x, v : <<x, v>> \in R <=> Reaches(t, M, sub, e, x) /\ v = sub[x]
  BY <1>1 DEF Reaches
<1>3. Reaches(t, M, sub, e, t.root)
  <2>1. ASSUME NEW x \in M, NEW y \in Children(t, x), t.root \in sub[y] PROVE FALSE
    <3>1. y \in M /\ sub[y] \subseteq M /\ x \notin sub[y] /\ t.root # NULL
      BY <1>1, BuiltChild
    <3>2. sub[t.root] \subseteq sub[y]
      BY <3>1, <2>1 DEF Built, Subtrees
    <3> QED BY <3>1, <3>2, <1>1
  <2>2. \A x \in M : /\ t.node[x].lt # NULL => t.node[x].lt \in Children(t, x)
                     /\ t.node[x].gt # NULL => t.node[x].gt \in Children(t, x)
    BY DEF Children
  <2> QED BY <2>1, <2>2, <1>1 DEF Reaches
<1>4. ASSUME NEW x, NEW v, <<x, v>> \in R
      PROVE  /\ v \in SUBSET Entries
             /\ F[x] = x \/ \E w : <<F[x], w>> \in R /\ w \subseteq v /\ w # v
  <2>1. Reaches(t, M, sub, e, x) /\ v = sub[x] /\ x \in M
    BY <1>2, <1>4 DEF Reaches
  <2>2. CASE Side(t, e, x) = NULL
    BY <2>1, <2>2, <1>1
  <2>3. CASE Side(t, e, x) # NULL
    <3>1. F[x] = Side(t, e, x)
      BY <2>1, <2>3, <1>1
    <3>2. /\ Reaches(t, M, sub, e, F[x])
          /\ sub[F[x]] \subseteq sub[x] /\ sub[F[x]] # sub[x]
      BY <2>1, <2>3, <3>1, DescentStep
    <3> HIDE DEF F, R
    <3>3. <<F[x], sub[F[x]]>> \in R
      BY <3>2, <1>2
    <3> QED BY <3>2, <3>3, <2>1, <1>1
  <2> QED BY <2>2, <2>3
<1>5. F[c] = c /\ \E v : <<c, v>> \in R
  <2>1. <<t.root, M>> \in R
    BY <1>1, <1>2, <1>3
  <2> HIDE DEF F, R
  <2> QED BY <2>1, <1>4, LoopEnds
<1> HIDE DEF c
<1>6. Reaches(t, M, sub, e, c) /\ c \in M
  BY <1>2, <1>5 DEF Reaches
<1>7. Side(t, e, c) = NULL
  <2>1. Side(t, e, c) # NULL => Side(t, e, c) # c
    <3>1. \A d \in Children(t, c) : d # c
      BY <1>6, BuiltChild
    <3> QED BY <3>1 DEF Side, Children
  <2> QED BY <2>1, <1>1, <1>5, <1>6
<1> QED
  BY <1>6, <1>7 DEF c

\* The subtrees after e has become a child of c.
Grown(M, sub, e, c) ==
    [x \in M \union {e} |-> IF x = e THEN {e} ELSE IF c \in sub[x] THEN sub[x] \union {e} ELSE sub[x]]

\* schedule_insert
LEMMA InsertBuilt ==
    ASSUME NEW t, NEW M, NEW sub, Built(t, M, sub), Heap(t, M), NEW e \in Entries \ M, t.root # NULL,
           Distinct(t, M, e)
    PROVE  LET u == Insert(t, e)
           IN  /\ \E new : Built(u, M \union {e}, new)
               /\ SameKeys(t, u)
               /\ \A x \in M : u.node[x].parent # NULL =>
                                  u.node[x].parent \in M /\ u.node[u.node[x].parent].pri <= u.node[x].pri
<1> DEFINE c == Loop([x \in Entries |-> IF Side(t, e, x) = NULL THEN x ELSE Side(t, e, x)], t.root)
           u == Insert(t, e)
           N == M \union {e}
           left == Before(t, e, c)
           a == Change(t, e, [t.node[e] EXCEPT !.parent = c])
           new == Grown(M, sub, e, c)
<1>1. /\ t \in Trees /\ M \subseteq Entries /\ e \in Entries /\ NULL \notin Entries /\ NULL \notin M
      /\ sub \in [M -> SUBSET M] /\ Linked(t, M) /\ Subtrees(t, M, sub) /\ Sorted(t, M, sub)
      /\ t.node \in [Entries -> Nodes] /\ t.root \in M
  BY EntriesAssumption, TreeTypes DEF Built, Linked
<1>2. Reaches(t, M, sub, e, c) /\ Side(t, e, c) = NULL
  BY DescentEnds
<1>3. u = Change(a, c, IF left THEN [t.node[c] EXCEPT !.lt = e] ELSE [t.node[c] EXCEPT !.gt = e])
  BY DEF Insert
<1> HIDE DEF c, u, a, new
<1>4. c \in M /\ c \in Entries /\ c # e /\ c # NULL /\ c \in sub[c]
      /\ (IF left THEN t.node[c].lt ELSE t.node[c].gt) = NULL
  BY <1>1, <1>2 DEF Reaches, Side, Subtrees
<1>5. t.node[e].parent = NULL /\ t.node[e].lt = NULL /\ t.node[e].gt = NULL
  BY <1>1 DEF Linked, Children
<1>6. a = [root |-> t.root,
           node |-> [x \in Entries |-> IF x = e THEN [t.node[e] EXCEPT !.parent = c] ELSE t.node[x]]]
  <2>1. a = [t EXCEPT !.node = [x \in Entries |-> IF x = e THEN [t.node[e] EXCEPT !.parent = c] ELSE t.node[x]]]
    BY DEF a, Change
  <2>2. t = [root |-> t.root, node |-> t.node]
    BY <1>1 DEF Trees
  <2> QED BY <2>1, <2>2
<1>7. u = [root |-> t.root,
           node |-> [x \in Entries |->
               IF x = c THEN IF left THEN [t.node[c] EXCEPT !.lt = e] ELSE [t.node[c] EXCEPT !.gt = e]
               ELSE IF x = e THEN [t.node[e] EXCEPT !.parent = c] ELSE t.node[x]]]
  BY <1>3, <1>6 DEF Change
<1> HIDE DEF left
<1>8. /\ u.root = t.root /\ u = [root |-> u.root, node |-> u.node]
      /\ u.node[e] = [t.node[e] EXCEPT !.parent = c]
      /\ u.node[c] = IF left THEN [t.node[c] EXCEPT !.lt = e] ELSE [t.node[c] EXCEPT !.gt = e]
      /\ \A x \in Entries \ {e, c} : u.node[x] = t.node[x]
      /\ u.node = [x \in Entries |-> u.node[x]]
  BY <1>1, <1>4, <1>7
<1>9. /\ u.node[e] \in Nodes
      /\ u.node[e].tv = t.node[e].tv /\ u.node[e].pri = t.node[e].pri
      /\ u.node[e].parent = c /\ u.node[e].lt = NULL /\ u.node[e].gt = NULL
  BY <1>1, <1>4, <1>5, <1>8 DEF Nodes, Links
<1>10. /\ u.node[c] \in Nodes
       /\ u.node[c].tv = t.node[c].tv /\ u.node[c].pri = t.node[c].pri
       /\ u.node[c].parent = t.node[c].parent
       /\ u.node[c].lt = IF left THEN e ELSE t.node[c].lt
       /\ u.node[c].gt = IF left THEN t.node[c].gt ELSE e
  BY <1>1, <1>4, <1>8 DEF Nodes, Links
<1>11. SameKeys(t, u)
  BY <1>8, <1>9, <1>10 DEF SameKeys
<1>12. u \in Trees
  <2>1. \A x \in Entries : u.node[x] \in Nodes
    BY <1>1, <1>8, <1>9, <1>10
  <2>2. u.root \in Links
    BY <1>1, <1>8 DEF Links
  <2>3. u.node \in [Entries -> Nodes]
    BY <2>1, <1>8
  <2> QED BY <1>8, <2>2, <2>3 DEF Trees, Nodes
<1>13. /\ Children(u, e) = {} /\ Children(u, c) = Children(t, c) \union {e}
       /\ \A x \in Entries \ {e, c} : Children(u, x) = Children(t, x)
       /\ \A x \in Entries \ {e} : u.node[x].parent = t.node[x].parent
  <2>1. Children(u, e) = {} /\ Children(u, c) = Children(t, c) \union {e}
    BY <1>1, <1>4, <1>9, <1>10 DEF Children
  <2> QED BY <2>1, <1>8, <1>10 DEF Children
<1>14. \A x \in M : \A d \in Children(t, x) : d \in M /\ t.node[d].parent = x /\ x \notin sub[d] /\ d # e
                                              /\ sub[d] \subseteq sub[x]
  BY BuiltChild
<1>15. Linked(u, N)
  <2>1. \A x \in Entries \ N : u.node[x].parent = NULL /\ Children(u, x) = {}
    <3> TAKE x \in Entries \ N
    <3>1. x \in Entries \ M /\ x \in Entries \ {e, c}
      BY <1>4
    <3>2. t.node[x].parent = NULL /\ Children(t, x) = {}
      BY <3>1, <1>1 DEF Linked
    <3> QED BY <3>1, <3>2, <1>13
  <2>2. ASSUME NEW x \in N
        PROVE  /\ u.node[x].parent = NULL <=> x = u.root
               /\ u.node[x].parent # NULL => x \in Children(u, u.node[x].parent)
               /\ \A d \in Children(u, x) : u.node[d].parent = x
    <3>1. CASE x = e
      <4>1. u.node[x].parent = c /\ c # NULL /\ x # u.root
        BY <3>1, <1>1, <1>4, <1>8, <1>9
      <4> QED BY <4>1, <3>1, <1>13
    <3>2. CASE x # e
      <4>1. x \in M /\ x \in Entries /\ u.node[x].parent = t.node[x].parent
        BY <3>2, <1>1, <1>13
      <4>2. /\ t.node[x].parent = NULL <=> x = t.root
            /\ t.node[x].parent # NULL => x \in Children(t, t.node[x].parent)
            /\ \A d \in Children(t, x) : t.node[d].parent = x
        BY <4>1, <1>1 DEF Linked
      <4>3. t.node[x].parent # NULL => t.node[x].parent \in M
        BY <4>1, BuiltParent
      <4>4. u.node[x].parent # NULL => x \in Children(u, u.node[x].parent)
        BY <4>1, <4>2, <4>3, <1>1, <1>13
      <4>5. ASSUME NEW d \in Children(u, x) PROVE u.node[d].parent = x
        <5>1. CASE d = e
          <6>1. x = c
            BY <5>1, <4>1, <4>5, <3>2, <1>13, <1>14
          <6> QED BY <6>1, <5>1, <1>9
        <5>2. CASE d # e
          <6>1. d \in Children(t, x)
            BY <5>2, <4>1, <4>5, <3>2, <1>13
          <6>2. d \in Entries
            BY <6>1, <4>1, <1>1, <1>14
          <6> QED BY <6>1, <6>2, <5>2, <4>2, <1>13
        <5> QED BY <5>1, <5>2
      <4> QED BY <4>1, <4>2, <4>4, <4>5, <1>8
    <3> QED BY <3>1, <3>2
  <2>3. IF N = {} THEN u.root = NULL ELSE u.root \in N
    BY <1>1, <1>8
  <2> QED BY <2>1, <2>2, <2>3 DEF Linked
<1>16. /\ \A x \in M : new[x] = IF c \in sub[x] THEN sub[x] \union {e} ELSE sub[x]
       /\ new[e] = {e} /\ new \in [N -> SUBSET N]
  BY <1>1 DEF Grown, new
<1>17. \A x \in M : /\ sub[x] = {x} \union UNION {sub[d] : d \in Children(t, x)}
                    /\ sub[x] \subseteq M /\ e \notin sub[x] /\ x \in sub[x]
                    /\ \A y \in sub[x] : sub[y] \subseteq sub[x] /\ (y = x \/ t.node[y].parent \in sub[x])
  BY <1>1 DEF Subtrees
<1>18. Subtrees(u, N, new)
  <2>1. u.root # NULL => new[u.root] = N
    BY <1>1, <1>4, <1>8, <1>16 DEF Subtrees
  <2>2. ASSUME NEW x \in N PROVE new[x] = {x} \union UNION {new[d] : d \in Children(u, x)}
    <3>1. CASE x = e
      BY <3>1, <1>13, <1>16
    <3>2. CASE x = c
      <4>1. \A d \in Children(t, c) : new[d] = sub[d]
        BY <1>4, <1>14, <1>16
      <4>2. Children(u, x) = Children(t, c) \union {e} /\ new[e] = {e} /\ new[x] = sub[c] \union {e}
        BY <3>2, <1>4, <1>13, <1>16
      <4>3. sub[c] = {c} \union UNION {sub[d] : d \in Children(t, c)}
        BY <1>4, <1>17
      <4> QED BY <4>1, <4>2, <4>3, <3>2
    <3>3. CASE x # e /\ x # c
      <4>1. x \in M /\ Children(u, x) = Children(t, x)
        BY <3>3, <1>1, <1>13
      <4>2. sub[x] = {x} \union UNION {sub[d] : d \in Children(t, x)}
        BY <4>1, <1>17
      <4>3. \A d \in Children(t, x) : new[d] = IF c \in sub[d] THEN sub[d] \union {e} ELSE sub[d]
        BY <4>1, <1>14, <1>16
      <4>4. c \in sub[x] <=> \E d \in Children(t, x) : c \in sub[d]
        BY <4>2, <3>3
      <4>5. new[x] = IF c \in sub[x] THEN sub[x] \union {e} ELSE sub[x]
        BY <4>1, <1>16
      <4>6. ASSUME NEW y \in new[x] PROVE y \in {x} \union UNION {new[d] : d \in Children(t, x)}
        <5>1. CASE y \in sub[x] /\ y # x
          <6>1. PICK d \in Children(t, x) : y \in sub[d]
            BY <5>1, <4>2
          <6>2. y \in new[d]
            BY <6>1, <4>3
          <6> QED BY <6>2
        <5>2. CASE y \notin sub[x]
          <6>1. y = e /\ c \in sub[x]
            BY <5>2, <4>5, <4>6
          <6>2. PICK d \in Children(t, x) : c \in sub[d]
            BY <6>1, <4>4
          <6>3. y \in new[d]
            BY <6>1, <6>2, <4>3
          <6> QED BY <6>3
        <5> QED BY <5>1, <5>2
      <4>7. ASSUME NEW y \in {x} \union UNION {new[d] : d \in Children(t, x)} PROVE y \in new[x]
        <5>1. CASE y = x
          BY <5>1, <4>1, <4>5, <1>17
        <5>2. CASE y # x
          <6>1. PICK d \in Children(t, x) : y \in new[d]
            BY <5>2, <4>7
          <6>2. sub[d] \subseteq sub[x]
            BY <6>1, <4>1, <1>14
          <6> QED BY <6>1, <6>2, <4>3, <4>5
        <5> QED BY <5>1, <5>2
      <4> QED BY <4>1, <4>6, <4>7
    <3> QED BY <3>1, <3>2, <3>3
  <2>3. ASSUME NEW x \in N, NEW y \in new[x]
        PROVE  new[y] \subseteq new[x] /\ (y = x \/ u.node[y].parent \in new[x])
    <3>1. CASE x = e
      BY <3>1, <1>16
    <3>2. CASE x # e /\ y = e
      BY <3>2, <1>9, <1>16, <1>17
    <3>3. CASE x # e /\ y # e
      <4>1. x \in M /\ y \in sub[x] /\ y \in M /\ sub[x] \subseteq new[x] /\ y \in Entries
        BY <3>3, <1>1, <1>16, <1>17
      <4>2. sub[y] \subseteq sub[x] /\ (y = x \/ t.node[y].parent \in sub[x])
        BY <4>1, <1>17
      <4>3. u.node[y].parent = t.node[y].parent
        BY <4>1, <3>3, <1>13
      <4>4. new[y] \subseteq new[x]
        BY <4>1, <4>2, <1>16
      <4> QED BY <4>1, <4>2, <4>3, <4>4
    <3> QED BY <3>1, <3>2, <3>3
  <2> QED BY <2>1, <2>2, <2>3 DEF Subtrees
<1>19. \A x \in Entries, y \in Entries : /\ Before(u, x, y) <=> Before(t, x, y)
                                         /\ Same(u, x, y) <=> Same(t, x, y)
  BY <1>11 DEF Before, Same, SameKeys
<1>20. \A x \in M : ~ Before(t, e, x) => Before(t, x, e)
  BY <1>1, BeforeOrders DEF Distinct
<1>21. Sorted(u, N, new)
  <2> SUFFICES ASSUME NEW x \in N
               PROVE  /\ u.node[x].lt # NULL => \A y \in new[u.node[x].lt] : Before(t, y, x)
                      /\ u.node[x].gt # NULL => \A y \in new[u.node[x].gt] : Before(t, x, y)
    <3>1. \A x \in N : Children(u, x) \subseteq N
      <4> TAKE x \in N
      <4>1. x = e \/ (x = c /\ c \in M) \/ (x \in M /\ x \in Entries \ {e, c})
        BY <1>1, <1>4
      <4>2. \A z \in M : Children(t, z) \subseteq M
        BY <1>14
      <4> QED BY <4>1, <4>2, <1>13
    <3>2. \A x \in N : /\ u.node[x].lt # NULL => u.node[x].lt \in N
                       /\ u.node[x].gt # NULL => u.node[x].gt \in N
      BY <3>1 DEF Children
    <3>3. \A x \in N : new[x] \subseteq N /\ x \in Entries
      BY <1>1, <1>16
    <3> QED BY <3>2, <3>3, <1>19, <1>1 DEF Sorted
  <2>1. CASE x = e
    BY <2>1, <1>9
  <2>2. ASSUME x # e, NEW d \in Children(t, x)
        PROVE  /\ d = t.node[x].lt => \A y \in new[d] : Before(t, y, x)
               /\ d = t.node[x].gt => \A y \in new[d] : Before(t, x, y)
    <3>1. x \in M /\ d \in M /\ d # NULL
      BY <2>2, <1>1, <1>14
    <3>2. /\ d = t.node[x].lt => \A y \in sub[d] : Before(t, y, x)
          /\ d = t.node[x].gt => \A y \in sub[d] : Before(t, x, y)
      BY <3>1, <1>1 DEF Sorted
    <3>3. ASSUME c \in sub[d]
          PROVE  /\ d = t.node[x].lt => Before(t, e, x)
                 /\ d = t.node[x].gt => Before(t, x, e)
      <4>1. x # c
        BY <3>1, <3>3, <1>14
      <4>2. /\ t.node[x].lt # NULL => (c \in sub[t.node[x].lt] => Before(t, e, x))
            /\ t.node[x].gt # NULL => (c \in sub[t.node[x].gt] => ~ Before(t, e, x))
        BY <4>1, <3>1, <1>2 DEF Reaches
      <4> QED BY <4>2, <3>1, <3>3, <1>20
    <3> QED BY <3>1, <3>2, <3>3, <1>16
  <2>3. CASE x # e /\ x # c
    <3>1. u.node[x].lt = t.node[x].lt /\ u.node[x].gt = t.node[x].gt
      BY <2>3, <1>1, <1>8
    <3> QED BY <3>1, <2>2, <2>3 DEF Children
  <2>4. CASE x = c
    <3>1. u.node[x].lt # NULL => \A y \in new[u.node[x].lt] : Before(t, y, x)
      <4>1. CASE left
        BY <4>1, <2>4, <1>10, <1>16 DEF left
      <4>2. CASE ~ left
        BY <4>2, <2>2, <2>4, <1>4, <1>10 DEF Children
      <4> QED BY <4>1, <4>2
    <3>2. u.node[x].gt # NULL => \A y \in new[u.node[x].gt] : Before(t, x, y)
      <4>1. CASE left
        BY <4>1, <2>2, <2>4, <1>4, <1>10 DEF Children
      <4>2. CASE ~ left
        BY <4>2, <2>4, <1>4, <1>10, <1>16, <1>20 DEF left
      <4> QED BY <4>1, <4>2
    <3> QED BY <3>1, <3>2
  <2> QED BY <2>1, <2>3, <2>4
<1>22. Built(u, N, new)
  BY <1>1, <1>12, <1>15, <1>16, <1>18, <1>21 DEF Built
<1>23. ASSUME NEW x \in M, u.node[x].parent # NULL
       PROVE  u.node[x].parent \in M /\ u.node[u.node[x].parent].pri <= u.node[x].pri
  <2>1. u.node[x].parent = t.node[x].parent /\ t.node[x].parent \in M
    BY <1>1, <1>13, <1>23, BuiltParent
  <2>2. t.node[t.node[x].parent].pri <= t.node[x].pri
    BY <2>1, <1>23 DEF Heap
  <2> QED BY <2>1, <2>2, <1>1, <1>11 DEF SameKeys
<1> QED
  BY <1>11, <1>22, <1>23 DEF u

\* The heap, where e may be lighter than its parent.
HeapUpTo(t, M, e) ==
    \A x \in M :
        /\ x # e /\ t.node[x].parent # NULL => t.node[t.node[x].parent].pri <= t.node[x].pri
        /\ t.node[x].parent = e /\ t.node[e].parent # NULL =>
               t.node[t.node[e].parent].pri <= t.node[x].pri

\* The step of the loop in schedule_add_modify
LEMMA LiftStep ==
    ASSUME NEW t, NEW M, NEW sub, Built(t, M, sub), NEW e \in M, HeapUpTo(t, M, e), Lighter(t, e)
    PROVE  LET u == RotateUp(t, e)
           IN  /\ Built(u, M, Turned(t, sub, e)) /\ HeapUpTo(u, M, e) /\ SameKeys(t, u) /\ u # t
               /\ sub[e] \subseteq Turned(t, sub, e)[e] /\ Turned(t, sub, e)[e] # sub[e]
<1> DEFINE p == t.node[e].parent
           u == RotateUp(t, e)
           gp == t.node[p].parent
           inner == Inner(t, e)
<1>1. /\ t \in Trees /\ M \subseteq Entries /\ e # NULL /\ e \in Entries /\ NULL \notin Entries
      /\ p # NULL /\ t.node[p].pri > t.node[e].pri
  BY EntriesAssumption DEF Built, Lighter
<1>2. Rotation(t, M, e, u, p, gp, inner)
  BY <1>1, RotateLinks
<1>3. /\ Built(u, M, Turned(t, sub, e))
      /\ sub[e] \subseteq Turned(t, sub, e)[e] /\ p \notin sub[e] /\ p \in Turned(t, sub, e)[e]
  BY <1>1, RotateBuilt
<1>4. p \in M /\ t.node[e].parent = p /\ e \in Children(t, p)
  BY <1>1, BuiltParent
<1> HIDE DEF u, inner, gp, p
<1>5. SameKeys(t, u) /\ u # t
  BY <1>1, <1>2, <1>4 DEF Rotation, SameKeys
<1>6. /\ \A x \in M : u.node[x].parent = IF x = e THEN gp ELSE IF x = p THEN e
                                         ELSE IF x = inner THEN p ELSE t.node[x].parent
      /\ \A x \in M : u.node[x].pri = t.node[x].pri /\ t.node[x].pri \in Int
      /\ e # p /\ gp # e /\ gp # p /\ inner # e /\ inner # p /\ (gp # NULL => gp \in M)
      /\ inner # NULL => inner \in M /\ t.node[inner].parent = e
  <2>1. inner # NULL => inner \in M /\ t.node[inner].parent = e
    BY <1>2, BuiltChild DEF Rotation
  <2>2. \A x \in M : t.node[x].pri \in Int
    BY <1>1, TreeTypes
  <2> QED BY <2>1, <2>2, <1>1, <1>2 DEF Rotation
<1>7. gp # NULL => t.node[gp].pri <= t.node[p].pri
  BY <1>4, <1>6 DEF HeapUpTo, gp
<1>8. \A x \in M : t.node[x].parent = e => t.node[p].pri <= t.node[x].pri
  BY <1>1, <1>4 DEF HeapUpTo
<1>9. ASSUME NEW x \in M, x # e, u.node[x].parent # NULL
      PROVE  u.node[u.node[x].parent].pri <= u.node[x].pri
  <2>1. CASE x = p
    BY <2>1, <1>1, <1>4, <1>6
  <2>2. CASE x = inner /\ x # p
    <3>1. u.node[x].parent = p /\ t.node[x].parent = e
      BY <2>2, <1>1, <1>6, <1>9
    <3> QED BY <3>1, <1>4, <1>6, <1>8
  <2>3. CASE x # p /\ x # inner
    <3>1. u.node[x].parent = t.node[x].parent
      BY <2>3, <1>6, <1>9
    <3>2. t.node[x].parent \in M
      BY <3>1, <1>9, BuiltParent
    <3>3. t.node[t.node[x].parent].pri <= t.node[x].pri
      BY <3>1, <1>9 DEF HeapUpTo
    <3> QED BY <3>1, <3>2, <3>3, <1>6
  <2> QED BY <2>1, <2>2, <2>3
<1>10. ASSUME NEW x \in M, u.node[x].parent = e, u.node[e].parent # NULL
       PROVE  u.node[u.node[e].parent].pri <= u.node[x].pri
  <2>1. u.node[e].parent = gp /\ gp \in M /\ t.node[gp].pri <= t.node[p].pri
    BY <1>6, <1>7, <1>10
  <2>2. CASE x = p
    BY <2>1, <2>2, <1>6
  <2>3. CASE x # p
    <3>1. t.node[x].parent = e
      BY <2>3, <1>6, <1>10
    <3>2. t.node[p].pri <= t.node[x].pri
      BY <3>1, <1>8
    <3> QED BY <2>1, <3>2, <1>4, <1>6
  <2> QED BY <2>2, <2>3
<1>11. HeapUpTo(u, M, e)
  BY <1>9, <1>10 DEF HeapUpTo
<1> QED
  BY <1>3, <1>5, <1>11 DEF u

\* The loop leaves a treap.
LEMMA LiftBuilt ==
    ASSUME NEW t, NEW M, NEW sub, Built(t, M, sub), NEW e \in M, HeapUpTo(t, M, e)
    PROVE  LET u == Lift(t, e)
           IN  SameKeys(t, u) /\ Heap(u, M) /\ \E new : Built(u, M, new)
<1> DEFINE F == [u \in Trees |-> IF Lighter(u, e) THEN RotateUp(u, e) ELSE u]
           Good(u, s) == Built(u, M, s) /\ HeapUpTo(u, M, e) /\ SameKeys(t, u)
           R == {uv \in Trees \X SUBSET Entries : \E s : Good(uv[1], s) /\ uv[2] = M \ s[e]}
           u == Loop(F, t)
<1>1. \A w, s : Good(w, s) => w \in Trees /\ s[e] \in SUBSET M /\ M \in SUBSET Entries
  BY DEF Built
<1>2. \A w, s : Good(w, s) => <<w, M \ s[e]>> \in R
  BY <1>1
<1>3. \A w, v : <<w, v>> \in R => w \in Trees /\ v \in SUBSET Entries /\ \E s : Good(w, s) /\ v = M \ s[e]
  OBVIOUS
<1>4. Good(t, sub)
  BY DEF SameKeys
<1>5. ASSUME NEW w, NEW s, Good(w, s), Lighter(w, e)
      PROVE  F[w] # w /\ \E z : Good(F[w], z) /\ s[e] \subseteq z[e] /\ z[e] # s[e]
  <2> DEFINE r == RotateUp(w, e)
  <2>1. /\ Built(r, M, Turned(w, s, e)) /\ HeapUpTo(r, M, e) /\ SameKeys(w, r) /\ r # w
        /\ s[e] \subseteq Turned(w, s, e)[e] /\ Turned(w, s, e)[e] # s[e]
    BY <1>5, LiftStep
  <2>2. F[w] = r
    BY <1>1, <1>5
  <2>3. SameKeys(t, r)
    BY <2>1, <1>5 DEF SameKeys
  <2> HIDE DEF r, F
  <2> QED BY <2>1, <2>2, <2>3
<1>6. ASSUME NEW w, NEW v, <<w, v>> \in R
      PROVE  /\ v \in SUBSET Entries
             /\ F[w] = w \/ \E x : <<F[w], x>> \in R /\ x \subseteq v /\ x # v
  <2>1. PICK s : Good(w, s) /\ v = M \ s[e] /\ w \in Trees /\ v \in SUBSET Entries
    BY <1>3, <1>6
  <2>2. CASE ~ Lighter(w, e)
    <3>1. F[w] = w
      BY <2>1, <2>2
    <3> QED BY <2>1, <3>1
  <2>3. CASE Lighter(w, e)
    <3>1. PICK z : Good(F[w], z) /\ s[e] \subseteq z[e] /\ z[e] # s[e]
      BY <2>1, <2>3, <1>5
    <3> HIDE DEF F, R
    <3>2. <<F[w], M \ z[e]>> \in R
      BY <3>1, <1>2
    <3>3. s[e] \subseteq M /\ z[e] \subseteq M
      BY <2>1, <3>1, <1>1
    <3> HIDE DEF Good
    <3>4. M \ z[e] \subseteq v /\ M \ z[e] # v
      BY <2>1, <3>1, <3>3
    <3> QED BY <2>1, <3>2, <3>4
  <2> QED BY <2>2, <2>3
<1>7. F[u] = u /\ \E v : <<u, v>> \in R
  <2>1. <<t, M \ sub[e]>> \in R
    BY <1>2, <1>4
  <2> HIDE DEF F, R, Good
  <2> QED BY <2>1, <1>6, LoopEnds
<1>8. PICK s : Good(u, s)
  <2> HIDE DEF u, F, R, Good
  <2> QED BY <1>3, <1>7
<1>9. ~ Lighter(u, e)
  <2> HIDE DEF u, F, Good
  <2> QED BY <1>5, <1>7, <1>8
<1>10. Lift(t, e) = u
  BY DEF Lift
<1> HIDE DEF u, F, R
<1>11. Heap(u, M)
  <2> SUFFICES ASSUME NEW x \in M, u.node[x].parent # NULL
               PROVE  u.node[u.node[x].parent].pri <= u.node[x].pri
    BY DEF Heap
  <2>1. CASE x # e
    BY <2>1, <1>8 DEF HeapUpTo
  <2>2. CASE x = e
    <3>1. u.node[e].parent \in Entries /\ u \in Trees /\ e \in Entries
      BY <2>2, <1>8, BuiltParent DEF Built
    <3>2. u.node[e].pri \in Int /\ u.node[u.node[e].parent].pri \in Int
      BY <3>1, TreeTypes
    <3> QED BY <2>2, <3>2, <1>9 DEF Lighter
  <2> QED BY <2>1, <2>2
<1> QED
  BY <1>8, <1>10, <1>11

---------------------------------------------------------------------------
\* The least entry, and what an operation leaves.

\* A treap of the entries M.
TreapOf(t, M) == (\E sub : Built(t, M, sub)) /\ Heap(t, M)

\* All the entries of M outside the subtree of c come after those in it.
Leads(t, M, sub, c) == c \in M /\ \A x \in M \ sub[c] : \A y \in sub[c] : Before(t, y, x)

\* schedule_find_least
LEMMA LeastFound ==
    ASSUME NEW t, NEW M, TreapOf(t, M), t.root # NULL
    PROVE  /\ FindLeast(t, t.root) \in M
           /\ \A x \in M : t.node[FindLeast(t, t.root)].tv <= t.node[x].tv
<1>1. PICK sub : Built(t, M, sub)
  BY DEF TreapOf
<1> DEFINE F == [c \in Entries |-> IF t.node[c].lt = NULL THEN c ELSE t.node[c].lt]
           c == Loop(F, t.root)
           R == {xv \in M \X SUBSET Entries : Leads(t, M, sub, xv[1]) /\ xv[2] = sub[xv[1]]}
<1>2. /\ t \in Trees /\ M \subseteq Entries /\ NULL \notin Entries /\ t.root \in M
      /\ sub \in [M -> SUBSET M] /\ sub[t.root] = M
  BY <1>1, EntriesAssumption DEF Built, Linked, Subtrees
<1>3. \A x, v : <<x, v>> \in R <=> Leads(t, M, sub, x) /\ v = sub[x]
  BY <1>2 DEF Leads
<1>4. Leads(t, M, sub, t.root)
  BY <1>2 DEF Leads
<1>5. \A x \in M : /\ sub[x] = {x} \union UNION {sub[d] : d \in Children(t, x)}
                  /\ x \in sub[x] /\ sub[x] \subseteq M
  BY <1>1 DEF Built, Subtrees
<1>6. \A x \in M : /\ t.node[x].lt # NULL => \A y \in sub[t.node[x].lt] : Before(t, y, x)
                   /\ t.node[x].gt # NULL => \A y \in sub[t.node[x].gt] : Before(t, x, y)
  BY <1>1 DEF Built, Sorted
<1>7. ASSUME NEW x, Leads(t, M, sub, x), t.node[x].lt # NULL
      PROVE  LET d == t.node[x].lt
             IN  Leads(t, M, sub, d) /\ sub[d] \subseteq sub[x] /\ sub[d] # sub[x]
  <2> DEFINE d == t.node[x].lt
  <2>1. x \in M /\ d \in Children(t, x)
    BY <1>7 DEF Leads, Children
  <2>2. d \in M /\ sub[d] \subseteq sub[x] /\ x \notin sub[d] /\ x \in sub[x]
    BY <2>1, <1>1, <1>5, BuiltChild
  <2>3. ASSUME NEW z \in M \ sub[d], NEW y \in sub[d] PROVE Before(t, y, z)
    <3>1. y \in Entries /\ z \in Entries /\ x \in Entries /\ y \in sub[x] /\ Before(t, y, x)
      BY <2>1, <2>2, <2>3, <1>2, <1>5, <1>6, <1>7
    <3>2. CASE z \notin sub[x]
      BY <3>1, <3>2, <1>7 DEF Leads
    <3>3. CASE z = x
      BY <3>1, <3>3
    <3>4. CASE z \in sub[x] /\ z # x
      <4>1. PICK f \in Children(t, x) : z \in sub[f]
        BY <3>4, <2>1, <1>5
      <4>2. f = t.node[x].gt /\ f # NULL
        BY <4>1, <2>3 DEF Children
      <4>3. Before(t, x, z)
        BY <4>1, <4>2, <2>1, <1>6
      <4> QED BY <4>3, <3>1, <1>2, BeforeOrders
    <3> QED BY <3>2, <3>3, <3>4
  <2> QED BY <2>2, <2>3 DEF Leads
<1>8. ASSUME NEW x, NEW v, <<x, v>> \in R
      PROVE  /\ v \in SUBSET Entries
             /\ F[x] = x \/ \E w : <<F[x], w>> \in R /\ w \subseteq v /\ w # v
  <2>1. Leads(t, M, sub, x) /\ v = sub[x] /\ x \in M /\ x \in Entries
    BY <1>2, <1>3, <1>8 DEF Leads
  <2>2. CASE t.node[x].lt = NULL
    BY <2>1, <2>2, <1>2
  <2>3. CASE t.node[x].lt # NULL
    <3>1. F[x] = t.node[x].lt
      BY <2>1, <2>3
    <3>2. /\ Leads(t, M, sub, F[x])
          /\ sub[F[x]] \subseteq sub[x] /\ sub[F[x]] # sub[x]
      BY <2>1, <2>3, <3>1, <1>7
    <3> HIDE DEF F, R
    <3>3. <<F[x], sub[F[x]]>> \in R
      BY <3>2, <1>3
    <3> QED BY <3>2, <3>3, <2>1, <1>2
  <2> QED BY <2>2, <2>3
<1>9. F[c] = c /\ \E v : <<c, v>> \in R
  <2>1. <<t.root, M>> \in R
    BY <1>2, <1>3, <1>4
  <2> HIDE DEF F, R
  <2> QED BY <2>1, <1>8, LoopEnds
<1>10. FindLeast(t, t.root) = c
  BY DEF FindLeast
<1> HIDE DEF c
<1>11. Leads(t, M, sub, c) /\ c \in M /\ c \in Entries
  BY <1>2, <1>3, <1>9 DEF Leads
<1>12. t.node[c].lt = NULL
  <2>1. t.node[c].lt # NULL => t.node[c].lt # c
    BY <1>1, <1>11, BuiltChild DEF Children
  <2> QED BY <2>1, <1>9, <1>11
<1>13. ASSUME NEW x \in M PROVE t.node[c].tv <= t.node[x].tv
  <2>1. x = c \/ Before(t, c, x)
    <3>1. CASE x \notin sub[c]
      BY <3>1, <1>5, <1>11 DEF Leads
    <3>2. CASE x \in sub[c] /\ x # c
      <4>1. PICK f \in Children(t, c) : x \in sub[f]
        BY <3>2, <1>5, <1>11
      <4>2. f = t.node[c].gt /\ f # NULL
        BY <4>1, <1>12 DEF Children
      <4> QED BY <4>1, <4>2, <1>6, <1>11
    <3> QED BY <3>1, <3>2
  <2>2. t.node[c].tv \in Int /\ t.node[x].tv \in Int
    BY <1>2, <1>11, TreeTypes
  <2> QED BY <2>1, <2>2 DEF Before
<1> QED
  BY <1>10, <1>11, <1>13

\* A treap is its links and the order of its entries.
LEMMA SameShape ==
    ASSUME NEW t, NEW M, NEW sub, Built(t, M, sub), Heap(t, M), NEW u \in Trees, u.root = t.root,
           \A x \in Entries : /\ u.node[x].parent = t.node[x].parent
                             /\ u.node[x].lt = t.node[x].lt /\ u.node[x].gt = t.node[x].gt,
           \A x \in M : u.node[x].pri = t.node[x].pri,
           \A x, y \in M : Before(u, x, y) <=> Before(t, x, y)
    PROVE  Built(u, M, sub) /\ Heap(u, M)
<1>1. /\ t \in Trees /\ M \subseteq Entries /\ sub \in [M -> SUBSET M]
      /\ Linked(t, M) /\ Subtrees(t, M, sub) /\ Sorted(t, M, sub)
  BY DEF Built
<1>2. \A x \in Entries : Children(u, x) = Children(t, x)
  BY DEF Children
<1>3. \A x \in M : x \in Entries /\ Children(t, x) \subseteq M
                   /\ (t.node[x].parent # NULL => t.node[x].parent \in M)
  <2>1. \A x \in M : \A y \in Children(t, x) : y \in M
    BY BuiltChild
  <2>2. \A x \in M : t.node[x].parent # NULL => t.node[x].parent \in M
    BY BuiltParent
  <2> QED BY <2>1, <2>2, <1>1
<1>4. Linked(u, M)
  <2>1. IF M = {} THEN u.root = NULL ELSE u.root \in M
    BY <1>1 DEF Linked
  <2>2. \A x \in Entries \ M : u.node[x].parent = NULL /\ Children(u, x) = {}
    BY <1>1, <1>2 DEF Linked
  <2>3. ASSUME NEW x \in M
        PROVE  /\ u.node[x].parent = NULL <=> x = u.root
               /\ u.node[x].parent # NULL => x \in Children(u, u.node[x].parent)
               /\ \A c \in Children(u, x) : u.node[c].parent = x
    <3>1. /\ t.node[x].parent = NULL <=> x = t.root
          /\ t.node[x].parent # NULL => x \in Children(t, t.node[x].parent)
          /\ \A c \in Children(t, x) : t.node[c].parent = x
      BY <1>1 DEF Linked
    <3> QED BY <3>1, <1>2, <1>3
  <2> QED BY <2>1, <2>2, <2>3 DEF Linked
<1>5. Subtrees(u, M, sub)
  <2>1. u.root # NULL => sub[u.root] = M
    BY <1>1 DEF Subtrees
  <2>2. ASSUME NEW x \in M
        PROVE  /\ sub[x] = {x} \union UNION {sub[c] : c \in Children(u, x)}
               /\ \A y \in sub[x] : sub[y] \subseteq sub[x] /\ (y = x \/ u.node[y].parent \in sub[x])
    <3>1. /\ sub[x] = {x} \union UNION {sub[c] : c \in Children(t, x)}
          /\ \A y \in sub[x] : sub[y] \subseteq sub[x] /\ (y = x \/ t.node[y].parent \in sub[x])
          /\ sub[x] \subseteq M
      BY <1>1 DEF Subtrees
    <3>2. Children(u, x) = Children(t, x)
      BY <1>2, <1>3
    <3> QED BY <3>1, <3>2, <1>1
  <2> QED BY <2>1, <2>2 DEF Subtrees
<1>6. Sorted(u, M, sub)
  <2> SUFFICES ASSUME NEW x \in M
               PROVE  /\ u.node[x].lt # NULL => \A y \in sub[u.node[x].lt] : Before(u, y, x)
                      /\ u.node[x].gt # NULL => \A y \in sub[u.node[x].gt] : Before(u, x, y)
    BY DEF Sorted
  <2>1. /\ t.node[x].lt # NULL => \A y \in sub[t.node[x].lt] : Before(t, y, x)
        /\ t.node[x].gt # NULL => \A y \in sub[t.node[x].gt] : Before(t, x, y)
    BY <1>1 DEF Sorted
  <2>2. /\ t.node[x].lt # NULL => t.node[x].lt \in M
        /\ t.node[x].gt # NULL => t.node[x].gt \in M
    BY <1>3 DEF Children
  <2> QED BY <2>1, <2>2, <1>1, <1>3
<1>7. Heap(u, M)
  BY <1>3 DEF Heap
<1> QED
  BY <1>1, <1>4, <1>5, <1>6, <1>7 DEF Built

\* The tree does not see what an entry outside of it holds.
LEMMA KeyedBuilt ==
    ASSUME NEW t, NEW M, NEW sub, Built(t, M, sub), Heap(t, M), NEW e \in Entries \ M,
           NEW d \in Int, NEW pri \in Nat
    PROVE  LET u == Change(t, e, [t.node[e] EXCEPT !.tv = d, !.pri = pri])
           IN  /\ u.root = t.root
               /\ u.node[e].tv = d /\ u.node[e].pri = pri
               /\ \A x \in Entries \ {e} : u.node[x] = t.node[x]
               /\ Built(u, M, sub) /\ Heap(u, M)
<1> DEFINE n == [t.node[e] EXCEPT !.tv = d, !.pri = pri]
           u == Change(t, e, n)
<1>1. /\ t \in Trees /\ M \subseteq Entries /\ e \in Entries /\ e \notin M
      /\ sub \in [M -> SUBSET M] /\ Linked(t, M) /\ Subtrees(t, M, sub) /\ Sorted(t, M, sub)
      /\ t.node \in [Entries -> Nodes] /\ t.node[e] \in Nodes /\ t.root \in Links
  BY TreeTypes DEF Built
<1>2. n = [tv |-> d, pri |-> pri, parent |-> t.node[e].parent, lt |-> t.node[e].lt, gt |-> t.node[e].gt]
  BY <1>1, Keys
<1> HIDE DEF n
<1>3. u = [root |-> t.root, node |-> [x \in Entries |-> IF x = e THEN n ELSE t.node[x]]]
  BY <1>1 DEF Change, Trees
<1> HIDE DEF u
<1>4. u.root = t.root /\ u.node[e] = n /\ \A x \in Entries \ {e} : u.node[x] = t.node[x]
  BY <1>1, <1>3
<1>5. n \in Nodes /\ n.tv = d /\ n.pri = pri /\ n.parent = t.node[e].parent
      /\ n.lt = t.node[e].lt /\ n.gt = t.node[e].gt
  BY <1>1, <1>2 DEF Nodes
<1>6. u \in Trees
  <2>1. [x \in Entries |-> IF x = e THEN n ELSE t.node[x]] \in [Entries -> Nodes]
    BY <1>1, <1>5
  <2> QED BY <2>1, <1>1, <1>3 DEF Trees, Nodes
<1>7. \A x \in Entries : /\ u.node[x].parent = t.node[x].parent
                         /\ u.node[x].lt = t.node[x].lt /\ u.node[x].gt = t.node[x].gt
  BY <1>4, <1>5
<1>8. \A x \in M : x \in Entries \ {e}
  BY <1>1
<1>9. \A x \in M : u.node[x].pri = t.node[x].pri
  BY <1>4, <1>8
<1>10. \A x, y \in M : Before(u, x, y) <=> Before(t, x, y)
  BY <1>4, <1>8 DEF Before
<1>11. Built(u, M, sub) /\ Heap(u, M)
  BY <1>4, <1>6, <1>7, <1>9, <1>10, SameShape
<1> QED
  BY <1>4, <1>5, <1>11 DEF u, n

\* The entries with a priority
Members(t) == {x \in Entries : InTree(t, x)}

\* A treap of the entries with a priority, where the others hold nothing.
Sound(t) == TreapOf(t, Members(t)) /\ \A x \in Entries \ Members(t) : t.node[x] = Unlinked

\* A sound tree has links and numbers, and a root unless it is empty.
LEMMA SoundTypes ==
    ASSUME NEW t, Sound(t)
    PROVE  t \in Trees /\ (t.root = NULL <=> Members(t) = {})
<1>1. PICK sub : Built(t, Members(t), sub)
  BY DEF Sound, TreapOf
<1> HIDE DEF Members
<1> QED
  BY <1>1, EntriesAssumption DEF Built, Linked

\* What leaves the members, and those outside of the tree bare, is sound.
LEMMA SoundIf ==
    ASSUME NEW t, NEW N \in SUBSET Entries, TreapOf(t, N),
           \A x \in N : t.node[x].pri # 0,
           \A x \in Entries \ N : t.node[x].tv = 0 /\ t.node[x].pri = 0
    PROVE  Members(t) = N /\ Sound(t)
<1>1. Members(t) = N
  BY DEF Members, InTree
<1>2. PICK sub : Built(t, N, sub)
  BY DEF TreapOf
<1>3. ASSUME NEW x \in Entries \ N PROVE t.node[x] = Unlinked
  <2>1. t.node[x] \in Nodes /\ t \in Trees /\ NULL \notin Entries
    BY <1>2, TreeTypes, EntriesAssumption DEF Built
  <2>2. t.node[x].parent = NULL /\ Children(t, x) = {}
    BY <1>2 DEF Built, Linked
  <2>3. t.node[x].lt = NULL /\ t.node[x].gt = NULL
    BY <2>2 DEF Children
  <2>4. t.node[x].tv = 0 /\ t.node[x].pri = 0
    OBVIOUS
  <2> QED BY <2>1, <2>2, <2>3, <2>4 DEF Nodes, Unlinked
<1> QED
  BY <1>1, <1>3 DEF Sound

\* schedule_remove_node, of any entry
LEMMA Removed ==
    ASSUME NEW t, Sound(t), NEW e \in Entries
    PROVE  LET u == RemoveNode(t, e)
           IN  /\ Sound(u) /\ Members(u) = Members(t) \ {e}
               /\ u.node[e] = Unlinked
               /\ \A x \in Entries \ {e} : u.node[x].tv = t.node[x].tv /\ u.node[x].pri = t.node[x].pri
<1> DEFINE M == Members(t)
           u == RemoveNode(t, e)
<1>1. PICK sub : Built(t, M, sub) /\ Heap(t, M) /\ M \subseteq Entries
  BY DEF Sound, TreapOf, Members
<1>2. \A x \in Entries \ M : t.node[x] = Unlinked /\ t.node[x].tv = 0 /\ t.node[x].pri = 0
  BY DEF Sound, Unlinked
<1>3. \A x \in M : t.node[x].pri # 0
  BY DEF Members, InTree
<1> HIDE DEF M, u
<1>4. CASE e \in M
  <2>1. /\ u.node[e] = Unlinked
        /\ \A x \in Entries \ {e} : u.node[x].tv = t.node[x].tv /\ u.node[x].pri = t.node[x].pri
        /\ TreapOf(u, M \ {e})
    BY <1>1, <1>4, RemoveBuilt DEF TreapOf, u
  <2>2. u.node[e].tv = 0 /\ u.node[e].pri = 0
    BY <2>1 DEF Unlinked
  <2>3. M \ {e} \in SUBSET Entries
    BY <1>1
  <2>4. \A x \in M \ {e} : u.node[x].pri # 0
    BY <2>1, <1>1, <1>3
  <2>5. \A x \in Entries \ (M \ {e}) : u.node[x].tv = 0 /\ u.node[x].pri = 0
    BY <2>1, <2>2, <1>2
  <2>6. Members(u) = M \ {e} /\ Sound(u)
    BY <2>1, <2>3, <2>4, <2>5, SoundIf
  <2> QED BY <2>1, <2>6 DEF M, u
<1>5. CASE e \notin M
  <2>1. u = t
    BY <1>1, <1>2, <1>5, RemoveNothing DEF u
  <2> QED BY <2>1, <1>2, <1>5 DEF M, u
<1> QED
  BY <1>4, <1>5

\* A tree of one entry
LEMMA Alone ==
    ASSUME NEW t, NEW sub, Built(t, {}, sub), NEW e \in Entries
    PROVE  LET u == [t EXCEPT !.root = e]
           IN  u.node = t.node /\ TreapOf(u, {e})
<1> DEFINE u == [t EXCEPT !.root = e]
           new == [x \in {e} |-> {e}]
<1>1. t \in Trees /\ NULL \notin Entries
      /\ \A x \in Entries : t.node[x].parent = NULL /\ Children(t, x) = {}
  BY EntriesAssumption DEF Built, Linked
<1>2. u = [root |-> e, node |-> t.node]
  BY <1>1 DEF Trees
<1> HIDE DEF u
<1>3. u.node = t.node /\ u.root = e /\ u \in Trees
  BY <1>1, <1>2 DEF Trees, Links
<1>4. \A x \in Entries : u.node[x].parent = NULL /\ Children(u, x) = {}
  BY <1>1, <1>3 DEF Children
<1>5. Linked(u, {e})
  BY <1>1, <1>3, <1>4 DEF Linked
<1>6. Subtrees(u, {e}, new)
  BY <1>3, <1>4 DEF Subtrees
<1>7. Sorted(u, {e}, new)
  BY <1>4 DEF Sorted, Children
<1>8. Heap(u, {e})
  BY <1>4 DEF Heap
<1>9. new \in [{e} -> SUBSET {e}] /\ {e} \subseteq Entries
  OBVIOUS
<1> HIDE DEF new
<1>10. Built(u, {e}, new)
  BY <1>3, <1>5, <1>6, <1>7, <1>9 DEF Built
<1> QED
  BY <1>3, <1>8, <1>10 DEF TreapOf, u

\* schedule_add_modify
LEMMA Modified ==
    ASSUME NEW t, Sound(t), NEW e \in Entries, NEW d \in Int, NEW u \in AddModify(t, e, d)
    PROVE  /\ Sound(u) /\ Members(u) = Members(t) \union {e}
           /\ u.node[e].tv = d /\ u.node[e].pri \in Priorities
           /\ \A x \in Entries \ {e} : u.node[x].tv = t.node[x].tv /\ u.node[x].pri = t.node[x].pri
<1> DEFINE M == Members(t)
           K == M \ {e}
           out == IF InTree(t, e) THEN RemoveNode(t, e) ELSE t
           With(pri) == Change(out, e, [out.node[e] EXCEPT !.tv = d, !.pri = pri])
           Unique(pri) == \A c \in Entries \ {e} : InTree(t, c) => ~Same(With(pri), e, c)
<1>1. PICK pri \in Priorities : /\ Unique(pri)
                                /\ u = IF out.root = NULL THEN [With(pri) EXCEPT !.root = e]
                                       ELSE Lift(Insert(With(pri), e), e)
  BY DEF AddModify
<1>2. /\ Sound(out) /\ Members(out) = K
      /\ \A x \in Entries \ {e} : out.node[x].tv = t.node[x].tv /\ out.node[x].pri = t.node[x].pri
  <2>1. CASE InTree(t, e)
    BY <2>1, Removed
  <2>2. CASE ~ InTree(t, e)
    <3>1. out = t /\ e \notin M
      BY <2>2 DEF Members
    <3> QED BY <3>1
  <2> QED BY <2>1, <2>2
<1>3. PICK sub : Built(out, K, sub) /\ Heap(out, K)
  BY <1>2 DEF Sound, TreapOf
<1>4. /\ K \in SUBSET Entries /\ K \union {e} \in SUBSET Entries /\ e \in Entries \ K
      /\ \A x \in K : t.node[x].pri # 0 /\ InTree(t, x)
      /\ M \union {e} = K \union {e}
  BY DEF Members, InTree
<1>5. out \in Trees /\ (out.root = NULL <=> K = {})
  BY <1>2, SoundTypes
<1> DEFINE w == With(pri)
<1>6. pri \in Nat /\ pri # 0
  BY BoundAssumption DEF Priorities
<1>7. /\ w.root = out.root
      /\ w.node[e].tv = d /\ w.node[e].pri = pri
      /\ \A x \in Entries \ {e} : w.node[x] = out.node[x]
      /\ Built(w, K, sub) /\ Heap(w, K)
  <2> HIDE DEF K, out
  <2> QED BY <1>3, <1>4, <1>6, KeyedBuilt
<1>8. Distinct(w, K, e)
  BY <1>1, <1>4 DEF Distinct
<1>9. u = IF out.root = NULL THEN [w EXCEPT !.root = e] ELSE Lift(Insert(w, e), e)
  BY <1>1
<1> HIDE DEF w, out
<1>10. TreapOf(u, K \union {e}) /\ SameKeys(w, u)
  <2>1. CASE out.root = NULL
    <3>1. K = {} /\ u = [w EXCEPT !.root = e]
      BY <2>1, <1>5, <1>9
    <3>2. Built(w, {}, sub)
      BY <3>1, <1>7
    <3> HIDE DEF K
    <3>3. u.node = w.node /\ TreapOf(u, {e})
      BY <3>1, <3>2, Alone
    <3>4. K \union {e} = {e}
      BY <3>1
    <3> QED BY <3>3, <3>4 DEF SameKeys
  <2>2. CASE out.root # NULL
    <3> DEFINE i == Insert(w, e)
    <3> HIDE DEF K
    <3>1. u = Lift(i, e) /\ w.root # NULL
      BY <2>2, <1>7, <1>9
    <3>2. /\ \E new : Built(i, K \union {e}, new)
          /\ SameKeys(w, i)
          /\ \A x \in K : i.node[x].parent # NULL =>
                             i.node[x].parent \in K /\ i.node[i.node[x].parent].pri <= i.node[x].pri
      BY <3>1, <1>4, <1>7, <1>8, InsertBuilt
    <3> HIDE DEF i
    <3>3. PICK new : Built(i, K \union {e}, new)
      BY <3>2
    <3>4. e \in K \union {e} /\ e # NULL
      BY EntriesAssumption
    <3>5. ASSUME NEW x \in K \union {e}, i.node[x].parent = e PROVE FALSE
      <4>1. e \in Children(i, e) \/ x # e
        BY <3>3, <3>4, <3>5, BuiltParent
      <4>2. x # e
        BY <4>1, <3>3, <3>4, BuiltChild
      <4> QED BY <4>2, <3>2, <3>4, <3>5, <1>4
    <3>6. HeapUpTo(i, K \union {e}, e)
      BY <3>2, <3>5 DEF HeapUpTo
    <3>7. SameKeys(i, u) /\ TreapOf(u, K \union {e})
      BY <3>1, <3>3, <3>4, <3>6, LiftBuilt DEF TreapOf
    <3> QED BY <3>2, <3>7 DEF SameKeys
  <2> QED BY <2>1, <2>2
<1>11. /\ u.node[e].tv = d /\ u.node[e].pri = pri
       /\ \A x \in Entries \ {e} : u.node[x].tv = t.node[x].tv /\ u.node[x].pri = t.node[x].pri
  BY <1>2, <1>7, <1>10 DEF SameKeys
<1>12. \A x \in K \union {e} : u.node[x].pri # 0
  BY <1>4, <1>6, <1>11
<1>13. \A x \in Entries \ (K \union {e}) : u.node[x].tv = 0 /\ u.node[x].pri = 0
  BY <1>11 DEF Sound, Unlinked
<1> HIDE DEF K
<1>14. Members(u) = K \union {e} /\ Sound(u)
  BY <1>4, <1>10, <1>12, <1>13, SoundIf
<1> QED
  BY <1>1, <1>4, <1>11, <1>14 DEF M
===============================================================================
