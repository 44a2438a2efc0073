----------------------------- MODULE MCSchedule -----------------------------
(* Schedule, whose entries are interchangeable.                            *)
EXTENDS Schedule, TLC

Symmetry == Permutations(Entries)
=============================================================================
