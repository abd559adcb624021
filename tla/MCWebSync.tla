----------------------------- MODULE MCWebSync ------------------------------
(* Small instances of WebSync for TLC. *)
EXTENDS WebSync, TLC

\* Operations are interchangeable.
Symmetry == Permutations(Ops)
=============================================================================
