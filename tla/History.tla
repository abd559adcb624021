------------------------------- MODULE History -------------------------------
(***************************************************************************)
(* The version history of a note as people read it                         *)
(* (crates/core/src/history.rs): the snapshots of the journal folded into  *)
(* editing sessions, and of each what changed since the one before.  It is *)
(* a function of the two tables, computed whenever somebody asks, so it is *)
(* stated here over every state Journal can reach: pruned at any point,    *)
(* with names given and taken away, and by any clock.                      *)
(*                                                                         *)
(* A difference of texts is a difference of sets of operations.            *)
(***************************************************************************)
EXTENDS Journal, FiniteSetsExt

CONSTANTS
  Gap,      \* SESSION_GAP, in clock ticks
  Unknown   \* `None`: there is nothing to compare the entry with

ASSUME GapAssumption == Gap \in Nat

\* The snapshot before `n`, if there is one.
Before(s, n) == {m \in DOMAIN s : m < n /\ \A k \in DOMAIN s : k < n => k <= m}

\* Mutant: a name does not end the session.
JoinsOverNames(s, n) == \E p \in Before(s, n) : s[n].at - s[p].at < Gap

\* A snapshot goes on with the session of the one before it: soon after it, and that one unnamed.
Joins(s, n) == \E p \in Before(s, n) : s[p].label = NoLabel /\ s[n].at - s[p].at < Gap

\* The last snapshot of each session stands for it.
Listed(s) == {n \in DOMAIN s : \A k \in DOMAIN s : n \in Before(s, k) => ~ Joins(s, k)}

\* The snapshots the entry `n` folds together.
Session(s, n) ==
  {m \in DOMAIN s : m <= n /\ \A k \in Listed(s) : k < n => k < m}

\* `prev_seq`: the entry before `n`, or 0.
PrevEntry(s, n) == Max({k \in Listed(s) : k < n} \cup {0})

\* What the entry is compared with: the one before it, or the empty note if nothing was pruned.
ComparedWith(u, s, n) ==
  LET earlier == {k \in Listed(s) : k < n} IN
  IF earlier # {} THEN s[Max(earlier)].ops
  ELSE IF JournalComplete(u) THEN {} ELSE Unknown

\* The first update after the entry before, while the journal has one, else the first snapshot.
Started(u, s, n) ==
  LET held == {k \in DOMAIN u : PrevEntry(s, n) < k /\ k <= n} IN
  IF held # {} THEN u[Min(held)].at ELSE s[Min(Session(s, n))].at

\* `entries`: one per session.
Entries(u, s) ==
  [n \in Listed(s) |->
     [at |-> s[n].at, started |-> Started(u, s, n), label |-> s[n].label,
      snapshots |-> Cardinality(Session(s, n)),
      changes |-> IF ComparedWith(u, s, n) = Unknown THEN Unknown
                  ELSE s[n].ops \ ComparedWith(u, s, n)]]
-----------------------------------------------------------------------------
(* The parts of what makes a history `h`, read off the journal as it is, true. *)

\* "A labelled snapshot ... is always listed": a version somebody saved is an entry of its own
\* name, for as long as the name is not taken back.
NamedAreListed(h) == \A n \in kept : n \in DOMAIN h /\ h[n].label # NoLabel

\* An entry that says what changed says it of exactly the edits appended since the entry before;
\* and the oldest says it only while no edit is missing, since otherwise it would claim, as the
\* work of one session, everything written before the history was pruned.
ChangesAreTrue(h) ==
  \A n \in {m \in DOMAIN h : h[m].changes # Unknown} :
    /\ h[n].changes = StateAt(n) \ StateAt(PrevEntry(snapshots, n))
    /\ (\A k \in DOMAIN h : n <= k) => DOMAIN updates = 1 .. Len(appended)

\* While the clock only moved forward, sessions follow one another.
SessionsInOrder(h) ==
  steady =>
    \A n \in DOMAIN h :
      /\ h[n].started <= h[n].at
      /\ \A k \in DOMAIN h : k < n => h[k].at <= h[n].started

\* Every snapshot is folded into exactly one entry, so the counts add up to what is kept.
FoldsEverySnapshot(h) ==
  \A m \in DOMAIN snapshots :
    \E n \in DOMAIN h : {k \in DOMAIN h : m \in Session(snapshots, k)} = {n}

\* The history never tells of a sitting that was not: what its entries say holds after any
\* pruning, naming and interruption of maintenance, and nothing named is left out.
HistoryIsTrue ==
  LET h == Entries(updates, snapshots) IN
  NamedAreListed(h) /\ ChangesAreTrue(h) /\ SessionsInOrder(h) /\ FoldsEverySnapshot(h)
=============================================================================
