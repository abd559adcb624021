---------------------------- MODULE MCServerNotes --------------------------
(* Instances of ServerNotes for TLC. *)
EXTENDS ServerNotes, TLC

CONSTANTS n1, n2, pa, pb

MCOrder == <<n1, n2>>
MCRestored == pa :> pb @@ pb :> None
Symmetry == Permutations(Tasks) \cup Permutations(Vaults)
================================================================================
