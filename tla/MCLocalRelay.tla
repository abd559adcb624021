----------------------------- MODULE MCLocalRelay ---------------------------
(* Instances of LocalRelay for TLC: the note lives in the vault `v2`. *)
EXTENDS LocalRelay
CONSTANTS v1, v2
\* `Picked` is SelectSeq, by places instead of by a test.
ASSUME PickedSelects ==
  \A s \in BoundedSeq({1, 2}, 4), x \in {1, 2} :
    Picked(s, {k \in DOMAIN s : s[k] = x}) = SelectSeq(s, LAMBDA e : e = x)

MCHome == [n \in Notes |-> v2]
=============================================================================
