------------------------------ MODULE MCRelay ------------------------------
(* Small instances of Relay for TLC. *)
EXTENDS Relay, TLC

\* Nothing compares clients, connections, operations, requests or rooms: each is only ever tested for equality.
Symmetry ==
  Permutations(Clients) \cup Permutations(Slots) \cup Permutations(Apis)
    \cup Permutations(RoomIds) \cup Permutations(Ops)
=============================================================================
