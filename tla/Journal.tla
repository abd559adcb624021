------------------------------- MODULE Journal ------------------------------
(***************************************************************************)
(* One document and its journal under a single owner: the sync engine of a *)
(* vault, which runs every store call of a document in one task            *)
(* (crates/core/src/client.rs).  The document is edited, saved as a named  *)
(* version, relabelled, maintained on a timer, and loaded again at a       *)
(* restart, which may come between any two statements of `maintain`.       *)
(*                                                                         *)
(* `appended` is a history variable: every update ever appended, in order, *)
(* never pruned.  `kept` is the set of sequence numbers the user has named *)
(* and not un-named.  `steady` says that the wall clock, which may be set  *)
(* to anything, has so far only moved forward.                             *)
(***************************************************************************)
EXTENDS DocLog, Sequences

CONSTANT Horizon  \* bound on the clock

ASSUME ClockAssumption == Horizon \in Nat

VARIABLES doc, updates, snapshots, now, steady, appended, kept

vars == <<doc, updates, snapshots, now, steady, appended, kept>>

TypeOK ==
  /\ doc \subseteq Ops
  /\ DOMAIN updates \subseteq Nat \ {0}
  /\ updates \in [DOMAIN updates -> UpdateRows]
  /\ DOMAIN snapshots \subseteq Nat
  /\ snapshots \in [DOMAIN snapshots -> SnapshotRows]
  /\ now \in Nat
  /\ steady \in BOOLEAN
  /\ appended \in Seq(UpdateRows)
  /\ kept \subseteq Nat

Init ==
  /\ doc = {}
  /\ updates = [k \in {} |-> 0]
  /\ snapshots = [k \in {} |-> 0]
  /\ now = 0
  /\ steady = TRUE
  /\ appended = <<>>
  /\ kept = {}

\* An edit, local or remote: applied to the document, then journaled.  A crash between the two
\* loses it from memory as well, so nothing is left of it.
Edit(op) ==
  /\ op \notin doc
  /\ doc' = doc \cup {op}
  /\ updates' = AppendUpdate(updates, snapshots, {op}, now)
  /\ appended' = Append(appended, [ops |-> {op}, at |-> now])
  /\ UNCHANGED <<snapshots, now, steady, kept>>

\* "Save version": refused (`Saved::Unchanged`) when the head is a named version already.
Save(label) ==
  /\ ~ NamedHead(updates, snapshots)
  /\ snapshots' = SaveVersion(updates, snapshots, doc, now, label)
  /\ kept' = kept \cup {HeadSeq(updates, snapshots)}
  /\ UNCHANGED <<doc, updates, now, steady, appended>>

\* Name, rename, or (NoLabel) un-name a snapshot.
Relabel(n, label) ==
  /\ n \in DOMAIN snapshots
  /\ snapshots' = SetVersionLabel(snapshots, n, label)
  /\ kept' = IF label = NoLabel THEN kept \ {n} ELSE kept \cup {n}
  /\ UNCHANGED <<doc, updates, now, steady, appended>>

\* `maintain`, of whose three statements the first `done` are committed; when the process dies
\* before the last, the document is loaded again from what is there.
Maintain(done) ==
  LET taken == MaintainSnapshot(updates, snapshots, doc, now) IN
  /\ updates' = IF done >= 2 THEN PruneUpdates(updates, taken, now) ELSE updates
  /\ snapshots' = IF done = 3 THEN PruneSnapshots(taken, now) ELSE taken
  /\ doc' = IF done = 3 THEN doc ELSE LoadDoc(updates', snapshots')
  /\ UNCHANGED <<now, steady, appended, kept>>

\* The process starts again and loads the document.
Restart ==
  /\ doc' = LoadDoc(updates, snapshots)
  /\ UNCHANGED <<updates, snapshots, now, steady, appended, kept>>

Tick ==
  /\ \E t \in 0 .. Horizon :
       /\ t # now
       /\ now' = t
       /\ steady' = (steady /\ t > now)
  /\ UNCHANGED <<doc, updates, snapshots, appended, kept>>

Next ==
  \/ \E op \in Ops : Edit(op)
  \/ \E label \in Labels : Save(label)
  \/ \E n \in DOMAIN snapshots, label \in Labels \cup {NoLabel} : Relabel(n, label)
  \/ \E done \in 1 .. 3 : Maintain(done)
  \/ Restart
  \/ Tick

Spec == Init /\ [][Next]_vars
-----------------------------------------------------------------------------
\* The document as it was when `n` was the head.
StateOf(log, n) == UNION {log[k].ops : k \in 1 .. n}
StateAt(n) == StateOf(appended, n)

\* Loading the journal gives the document in memory, whatever has been snapshotted and pruned
\* and wherever `maintain` was interrupted: a restart loses no edit and brings none back.
ReloadGivesDoc ==
  LoadDoc(updates, snapshots) = doc /\ doc = StateAt(Len(appended))

\* Pruning never lets a sequence number be used again: the head stays the number of updates ever
\* appended, so a version a client remembers by number never comes to mean another text.
SeqsNeverReused == HeadSeq(updates, snapshots) = Len(appended)

\* Every version the history lists reads back as the document was at that point.
VersionsReadBack ==
  \A n \in DOMAIN snapshots :
    /\ snapshots[n].ops = StateAt(n)
    /\ LoadDocAt(updates, snapshots, n) = StateAt(n)

\* A version the user named, and did not un-name, is never pruned or unnamed by anything else.
NamedVersionsSurvive ==
  \A n \in kept : n \in DOMAIN snapshots /\ snapshots[n].label # NoLabel

\* "Redundant for reconstructing any state within the retention window": a state that was still
\* current at some moment of the window can be read.  It needs a clock that never went back.
WindowReadable ==
  steady =>
    \A n \in 0 .. Len(appended) :
      (n = Len(appended) \/ appended[n + 1].at > now - Retain)
        => LoadDocAt(updates, snapshots, n) = StateAt(n)

\* A snapshot in the table keeps its content and its time for as long as it is there (INSERT OR
\* REPLACE never replaces), and no save or maintenance changes the name of a named one.
SnapshotKept ==
  \A n \in DOMAIN snapshots \cap DOMAIN snapshots' :
    /\ snapshots'[n].ops = snapshots[n].ops
    /\ snapshots'[n].at = snapshots[n].at
    /\ \/ snapshots[n].label \in {NoLabel, snapshots'[n].label}
       \/ \E label \in Labels \cup {NoLabel} : Relabel(n, label)

SnapshotsNeverOverwritten == [][SnapshotKept]_vars
=============================================================================
