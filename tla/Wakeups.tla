------------------------------- MODULE Wakeups -------------------------------
(***************************************************************************)
(* What a scheduler promises the instances that use it, whatever it keeps  *)
(* them in: an instance has at most one wakeup, at the time it asked for   *)
(* last or within a tolerance of it; only the earliest one is served, not  *)
(* before its time.                                                        *)
(***************************************************************************)
EXTENDS Integers

CONSTANTS
    Entries,      \* what can be scheduled
    NULL,
    MaxWait,      \* the longest time an entry asks for
    Tolerance     \* how far off a wakeup may be, for the time asked for

VARIABLES
    at,           \* the time until each wakeup, by entry; negative when overdue
    serving       \* the entry whose wakeup has come up, or NULL

Scheduled == DOMAIN at

Near(e, d) == e \in Scheduled /\ at[e] - d \in -Tolerance[d] .. Tolerance[d]

Init == at = [e \in {} |-> 0] /\ serving = NULL

Set(e, d) == at' = [f \in Scheduled \union {e} |-> IF f = e THEN d ELSE at[f]]

Drop(e) == at' = [f \in Scheduled \ {e} |-> at[f]]

\* A wakeup that is near enough stays where it is.
Ask(e, d) ==
    /\ serving = NULL /\ serving' = NULL
    /\ Set(e, d) \/ (Near(e, d) /\ at' = at)

Cancel(e) == serving = NULL /\ serving' = NULL /\ Drop(e)

\* e is to be served in the next state: it is due, and no other is due before.
ComesUp(e) ==
    /\ e \in Scheduled
    /\ serving' = e
    /\ at'[e] <= 0 /\ \A f \in Scheduled : at'[e] <= at'[f]

Wait == serving = NULL /\ UNCHANGED at /\ \E e \in Entries : ComesUp(e)

Tick ==
    /\ at' = [e \in Scheduled |-> at[e] - 1]
    /\ serving' = serving \/ (serving = NULL /\ \E e \in Entries : ComesUp(e))

\* Something else happened first.
Event == serving' = NULL /\ UNCHANGED at

Serve ==
    /\ serving # NULL /\ serving' = NULL
    /\ Drop(serving) \/ \E d \in 0..MaxWait : Set(serving, d)

Next ==
    \/ \E e \in Entries : Cancel(e) \/ \E d \in 0..MaxWait : Ask(e, d)
    \/ Wait
    \/ Tick
    \/ Event
    \/ Serve

Spec == Init /\ [][Next]_<<at, serving>>
=============================================================================
