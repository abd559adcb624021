------------------------------ MODULE MCMerge ------------------------------
(* Small instances of Merge for TLC. *)
EXTENDS Merge, TLC

\* One note of the source is wanted where the destination may have one, the other at the first
\* path the plan would turn to.
Homes ==
  [n \in Ids \cup Own |-> IF n = CHOOSE k \in Ids : TRUE THEN <<"p", 2>> ELSE <<"p">>]
APicture == <<"a">>

Symmetry == Permutations(Marks) \cup Permutations(Spare)
=============================================================================
