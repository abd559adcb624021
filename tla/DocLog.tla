------------------------------- MODULE DocLog -------------------------------
(***************************************************************************)
(* The journal of one CRDT document, as crates/core/src/store.rs keeps it  *)
(* in the tables doc_updates and doc_snapshots.                            *)
(*                                                                         *)
(* A document is a replicated set of edits: its content is abstracted to   *)
(* the set of operations it holds, an update row to the operations it      *)
(* carries, a snapshot (`encode_full`) to the operations the document held *)
(* when it was taken.  Applying an update is set union, which is what the  *)
(* CRDT guarantees (idempotent, commutative), so loading a document is the *)
(* union of the rows that are read.                                        *)
(*                                                                         *)
(* `u` is the doc_updates table of the document, a function from sequence  *)
(* number to row; `s` is its doc_snapshots table.  Every operator stands   *)
(* for one method of `Store` and returns the table after it.               *)
(***************************************************************************)
EXTENDS Integers, FiniteSets

CONSTANTS
  Ops,              \* operations a document can hold
  Labels,           \* names a user may give a version
  NoLabel,          \* the NULL label of an automatic snapshot
  SnapshotEvery,    \* RetentionPolicy.snapshot_every_updates
  SnapshotInterval, \* RetentionPolicy.snapshot_interval, in clock ticks
  Retain            \* RetentionPolicy.retain_updates, in clock ticks

ASSUME LabelAssumption == NoLabel \notin Labels
ASSUME PolicyAssumption ==
  SnapshotEvery \in Nat /\ SnapshotInterval \in Nat /\ Retain \in Nat

UpdateRows == [ops : SUBSET Ops, at : Nat]
SnapshotRows == [ops : SUBSET Ops, at : Nat, label : Labels \cup {NoLabel}]

Seqs(u, s) == DOMAIN u \cup DOMAIN s

\* COALESCE(MAX(seq), 0) over both tables.
HeadSeq(u, s) ==
  CHOOSE n \in Seqs(u, s) \cup {0} : \A m \in Seqs(u, s) : m <= n

\* Mutant: the next number is taken from doc_updates alone, which maintenance may have emptied.
AppendAfterUpdates(u, s, ops, at) ==
  LET n == HeadSeq(u, [k \in {} |-> 0]) + 1 IN
  [k \in DOMAIN u \cup {n} |-> IF k = n THEN [ops |-> ops, at |-> at] ELSE u[k]]

\* Mutant: the number of the head itself.
AppendAtHead(u, s, ops, at) ==
  LET n == HeadSeq(u, s) IN
  [k \in DOMAIN u \cup {n} |-> IF k = n THEN [ops |-> ops, at |-> at] ELSE u[k]]

\* `append_update_at`: one transaction, at the sequence number after the head.
AppendUpdate(u, s, ops, at) ==
  LET n == HeadSeq(u, s) + 1 IN
  [k \in DOMAIN u \cup {n} |-> IF k = n THEN [ops |-> ops, at |-> at] ELSE u[k]]

\* The snapshot a read up to `n` starts from: none, or the newest one at or before `n`.
Base(s, n) ==
  {m \in DOMAIN s : m <= n /\ \A k \in DOMAIN s : k <= n => k <= m}

\* Mutant: the read does not stop at `n`.
RowsToTheEnd(u, s, n) == {k \in DOMAIN u : \A m \in Base(s, n) : m < k}

\* The update rows such a read takes after it.
RowsAfterBase(u, s, n) ==
  {k \in DOMAIN u : k <= n /\ \A m \in Base(s, n) : m < k}

\* `load_doc_at`: the document as it was at `n`, from the rows still in the journal.
LoadDocAt(u, s, n) ==
  (UNION {s[m].ops : m \in Base(s, n)}) \cup (UNION {u[k].ops : k \in RowsAfterBase(u, s, n)})

\* `load_updates` / `load_doc`: the latest snapshot and every update after it.
LoadDoc(u, s) == LoadDocAt(u, s, HeadSeq(u, s))

\* `snapshot_labeled_at`: INSERT OR REPLACE at the head.
PutSnapshot(u, s, ops, at, label) ==
  LET n == HeadSeq(u, s) IN
  [k \in DOMAIN s \cup {n} |->
     IF k = n THEN [ops |-> ops, at |-> at, label |-> label] ELSE s[k]]

\* Whether the head already carries a name, so that a save is `Saved::Unchanged`.
NamedHead(u, s) ==
  HeadSeq(u, s) \in DOMAIN s /\ s[HeadSeq(u, s)].label # NoLabel

\* Mutant: a save always writes a snapshot row.
SaveAlwaysWrites(u, s, ops, at, label) == PutSnapshot(u, s, ops, at, label)

\* `save_version`: never over a name; an automatic snapshot at the head is named in place.
SaveVersion(u, s, ops, at, label) ==
  LET n == HeadSeq(u, s) IN
  IF NamedHead(u, s) THEN s
  ELSE IF n \in DOMAIN s THEN [s EXCEPT ![n].label = label]
  ELSE PutSnapshot(u, s, ops, at, label)

\* `set_version_label`, for a snapshot that exists; NoLabel takes the name away.
SetVersionLabel(s, n, label) == [s EXCEPT ![n].label = label]

\* The updates no snapshot covers yet.
Pending(u, s) == {k \in DOMAIN u : \A m \in DOMAIN s : m < k}

SnapshotDue(u, s, now) ==
  /\ Pending(u, s) # {}
  /\ \/ Cardinality(Pending(u, s)) >= SnapshotEvery
     \/ \E k \in Pending(u, s) : now - u[k].at >= SnapshotInterval

\* The three statements of `maintain`, each committed on its own.
MaintainSnapshot(u, s, ops, now) ==
  IF SnapshotDue(u, s, now) THEN PutSnapshot(u, s, ops, now, NoLabel) ELSE s

\* Mutant: the retention window is not subtracted.
EverySnapshot(s, now) == {m \in DOMAIN s : s[m].at <= now}

OldSnapshots(s, now) == {m \in DOMAIN s : s[m].at <= now - Retain}

PruneUpdates(u, s, now) ==
  [k \in {j \in DOMAIN u : \A m \in OldSnapshots(s, now) : m < j} |-> u[k]]

\* Mutant: the snapshot pruning rests on is pruned with the older ones.
PruneCutToo(s, now) ==
  [k \in {j \in DOMAIN s : \/ s[j].label # NoLabel
                           \/ \A m \in OldSnapshots(s, now) : m < j} |-> s[k]]

\* Mutant: labels do not protect a snapshot.
PruneNamedToo(s, now) ==
  [k \in {j \in DOMAIN s : \A m \in OldSnapshots(s, now) : m <= j} |-> s[k]]

PruneSnapshots(s, now) ==
  [k \in {j \in DOMAIN s : \/ s[j].label # NoLabel
                           \/ \A m \in OldSnapshots(s, now) : m <= j} |-> s[k]]

\* Mutant: complete whenever any update is left.
AnyUpdateLeft(u) == DOMAIN u # {}

\* `Journal::complete`: the update that started the document is still there.
JournalComplete(u) ==
  \E k \in DOMAIN u : k = 1 /\ \A j \in DOMAIN u : k <= j
=============================================================================
