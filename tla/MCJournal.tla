----------------------------- MODULE MCJournal -----------------------------
(* Small instances of Journal, and of the history read from it, for TLC. *)
EXTENDS History, TLC

\* Operations and labels are interchangeable: nothing compares them.
Symmetry == Permutations(Ops) \cup Permutations(Labels)
=============================================================================
