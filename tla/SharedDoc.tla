------------------------------ MODULE SharedDoc ------------------------------
(***************************************************************************)
(* What syncing a document promises (SPEC.md, "Sync"; the server's         *)
(* rooms in crates/server/src/app.rs): operations are made by replicas and *)
(* by requests; the store keeps what it was given for ever; a replica only *)
(* ever gains operations, and only ones somebody made; and what a replica  *)
(* holds is in the end kept, and in the end held by every replica.  How:   *)
(* Relay.                                                                  *)
(***************************************************************************)
CONSTANTS Replicas, Operations

VARIABLES
  made,   \* the operations made so far
  kept,   \* those the server's store has
  held    \* those each replica has

shared == <<made, kept, held>>

Init == made = {} /\ kept = {} /\ held = [r \in Replicas |-> {}]

\* A replica makes an operation, and holds it from then on.
Edit(r, op) ==
  /\ op \notin made
  /\ made' = made \cup {op}
  /\ held' = [held EXCEPT ![r] = @ \cup {op}]
  /\ UNCHANGED kept

\* A request makes an operation at the server.
Request(op) ==
  /\ op \notin made
  /\ made' = made \cup {op}
  /\ UNCHANGED <<kept, held>>

\* The store takes operations.
Keep ==
  /\ kept \subseteq kept' /\ kept' \subseteq made
  /\ UNCHANGED <<made, held>>

\* A replica takes operations.
Learn(r) ==
  /\ held[r] \subseteq held'[r] /\ held'[r] \subseteq made
  /\ held' = [held EXCEPT ![r] = held'[r]]
  /\ UNCHANGED <<made, kept>>

Next ==
  \/ \E r \in Replicas, op \in Operations : Edit(r, op)
  \/ \E op \in Operations : Request(op)
  \/ Keep
  \/ \E r \in Replicas : Learn(r)

Agreed == \A r \in Replicas : held[r] = kept

\* Operations are finitely many: in the end everybody has what the store has.
Safety == Init /\ [][Next]_shared
Spec == Safety /\ <>[]Agreed
=============================================================================
