---------------------------- MODULE StoreProofs ----------------------------
(***************************************************************************)
(* Proofs about what is stored and carried, for every value of the         *)
(* constants.  Journal and History: every operation, every retention       *)
(* policy and every behaviour of the clock.  Merge: every set of notes,    *)
(* marks and merges; a merge carried through, repeated or given up         *)
(* anywhere loses no text of either vault, and carries the notes           *)
(* themselves, with their ids, their pictures and their history.           *)
(***************************************************************************)
EXTENDS History, Merge, FiniteSetTheorems, WellFoundedInduction, TLAPS

(***************************** Journal, History ****************************)

\* A non-empty set of naturals has a least element.
LEMMA NatMin ==
  ASSUME NEW T \in SUBSET Nat, T # {}
  PROVE  \E m \in T : \A k \in T : m <= k
<1>1. \E x \in T : \A y \in T : ~ (<<y, x>> \in OpToRel(<, Nat))
  BY NatLessThanWellFounded, WFMin
<1>2. \A x, y \in T : y < x => <<y, x>> \in OpToRel(<, Nat)
  BY DEF OpToRel
<1>3. \E x \in T : \A y \in T : ~ (y < x)
  BY <1>1, <1>2
<1> QED BY <1>3

\* A bounded non-empty set of naturals has a greatest element: the newest snapshot exists.
LEMMA NatMax ==
  ASSUME NEW T \in SUBSET Nat, T # {}, NEW b \in Nat, \A k \in T : k <= b
  PROVE  \E m \in T : \A k \in T : k <= m
<1> DEFINE U == {n \in Nat : \A k \in T : k <= n}
<1>1. b \in U
  OBVIOUS
<1>2. PICK m \in U : \A k \in U : m <= k
  BY <1>1, NatMin
<1>3. m \in T
  <2> SUFFICES ASSUME m \notin T PROVE FALSE
    OBVIOUS
  <2>1. \A k \in T : k \in Nat /\ k < m
    BY <1>2
  <2>2. \E k \in T : k \in Nat /\ k < m
    BY <2>1
  <2>3. m - 1 \in U
    BY <2>1, <2>2
  <2> QED BY <2>3, <1>2
<1> QED BY <1>2, <1>3

\* The head of a table whose numbers reach up to N is N.
LEMMA HeadIs ==
  ASSUME NEW u, NEW s, NEW N \in Nat,
         Seqs(u, s) \subseteq 0 .. N,
         N # 0 => N \in Seqs(u, s)
  PROVE  HeadSeq(u, s) = N
<1> DEFINE IsHead(n) == n \in Seqs(u, s) \cup {0} /\ \A m \in Seqs(u, s) : m <= n
<1>1. IsHead(N)
  OBVIOUS
<1>2. \A n : IsHead(n) => n = N
  <2> TAKE n
  <2> HAVE IsHead(n)
  <2>1. n \in 0 .. N
    OBVIOUS
  <2>2. N <= n
    BY <2>1
  <2> QED BY <2>1, <2>2
<1>3. HeadSeq(u, s) = CHOOSE n : IsHead(n)
  BY DEF HeadSeq
<1>4. IsHead(CHOOSE n : IsHead(n))
  BY <1>1
<1> QED BY <1>2, <1>3, <1>4

\* A read starts from at most one snapshot, and from one whenever there is one to start from.
LEMMA BaseIs ==
  ASSUME NEW s, DOMAIN s \subseteq Nat, NEW n \in Nat
  PROVE  /\ \A m \in Base(s, n) : Base(s, n) = {m}
         /\ \A k \in DOMAIN s : k <= n => \E m \in Base(s, n) : k <= m
<1>1. \A m \in Base(s, n) : Base(s, n) = {m}
  BY DEF Base
<1>2. ASSUME NEW k \in DOMAIN s, k <= n
      PROVE  \E m \in Base(s, n) : k <= m
  <2> DEFINE T == {m \in DOMAIN s : m <= n}
  <2>1. T \in SUBSET Nat /\ T # {} /\ \A m \in T : m <= n
    BY <1>2
  <2> HIDE DEF T
  <2>2. PICK m \in T : \A j \in T : j <= m
    BY <2>1, NatMax
  <2>3. m \in Base(s, n) /\ k <= m
    BY <2>2, <1>2 DEF Base, T
  <2> QED BY <2>3
<1> QED BY <1>1, <1>2
-----------------------------------------------------------------------------

(***************************************************************************)
(* What makes the tables u and s a sound journal of the updates in `log`:  *)
(* Covered is the heart of it, an update is gone only when a snapshot at   *)
(* or after it remains; the rest says where the head is and that the rows  *)
(* there are tell the truth.                                               *)
(***************************************************************************)
HeadKnown(u, s, log) ==
  /\ Seqs(u, s) \subseteq 0 .. Len(log)
  /\ Len(log) # 0 => Len(log) \in Seqs(u, s)

RowsTrue(u, s, log) ==
  /\ \A k \in DOMAIN u : k # 0 /\ u[k].ops = log[k].ops
  /\ \A m \in DOMAIN s : s[m].ops = StateOf(log, m)

Covered(u, s, log) ==
  \A k \in 1 .. Len(log) : k \in DOMAIN u \/ \E m \in DOMAIN s : k <= m

Sound(u, s, log) ==
  /\ HeadKnown(u, s, log)
  /\ RowsTrue(u, s, log)
  /\ Covered(u, s, log)

\* The inductive invariant.
JournalInv ==
  /\ TypeOK
  /\ Sound(updates, snapshots, appended)
  /\ doc = StateAt(Len(appended))
  /\ NamedVersionsSurvive
-----------------------------------------------------------------------------
\* A sound journal has its head at the last update.
LEMMA SoundHead ==
  ASSUME NEW u, NEW s, NEW log \in Seq(UpdateRows), HeadKnown(u, s, log)
  PROVE  HeadSeq(u, s) = Len(log)
BY HeadIs DEF HeadKnown

\* A sound journal reads back as it was at n when each update up to n is there or is covered by a
\* snapshot no newer than n.
LEMMA ReadAt ==
  ASSUME NEW u, NEW s, NEW log \in Seq(UpdateRows), Sound(u, s, log),
         NEW n \in 0 .. Len(log),
         \A k \in 1 .. n : k \in DOMAIN u \/ \E m \in DOMAIN s : k <= m /\ m <= n
  PROVE  LoadDocAt(u, s, n) = StateOf(log, n)
<1> DEFINE B == Base(s, n)
           R == RowsAfterBase(u, s, n)
<1>1. n \in Nat /\ DOMAIN s \subseteq Nat /\ DOMAIN u \subseteq 1 .. Len(log)
  BY DEF Sound, HeadKnown, RowsTrue, Seqs
<1>2. LoadDocAt(u, s, n) = (UNION {s[m].ops : m \in B}) \cup (UNION {u[k].ops : k \in R})
  BY DEF LoadDocAt
<1>3. \A m \in B : m \in DOMAIN s /\ m \in 0 .. n /\ s[m].ops = StateOf(log, m)
  BY <1>1 DEF Base, Sound, RowsTrue
<1>4. \A k \in R : k \in 1 .. n /\ u[k].ops = log[k].ops
  BY <1>1 DEF RowsAfterBase, Sound, RowsTrue
<1>5. \A k \in 1 .. n : k \in R \/ \E m \in B : k <= m
  <2>0. \A m \in DOMAIN s : m <= n => \E b \in B : m <= b
    BY <1>1, BaseIs
  <2> SUFFICES ASSUME NEW k \in 1 .. n, \A m \in B : m < k
               PROVE  k \in R
    BY <1>1, <1>3
  <2>1. \A m \in DOMAIN s : m <= n => m < k
    <3> SUFFICES ASSUME NEW m \in DOMAIN s, m <= n PROVE m < k
      OBVIOUS
    <3>1. m \in Nat /\ k \in Nat
      BY <1>1
    <3>2. PICK b \in B : m <= b
      BY <2>0
    <3>3. b \in Nat /\ b < k
      BY <1>3
    <3> QED BY <3>1, <3>2, <3>3
  <2>2. k \in DOMAIN u
    BY <2>1, <1>1
  <2> QED BY <2>2, <1>1 DEF RowsAfterBase
<1>6. (UNION {s[m].ops : m \in B}) \cup (UNION {u[k].ops : k \in R}) \subseteq StateOf(log, n)
  BY <1>3, <1>4 DEF StateOf
<1>7. StateOf(log, n) \subseteq (UNION {s[m].ops : m \in B}) \cup (UNION {u[k].ops : k \in R})
  <2> SUFFICES ASSUME NEW k \in 1 .. n, NEW op \in log[k].ops
               PROVE  \/ \E m \in B : op \in s[m].ops
                      \/ \E j \in R : op \in u[j].ops
    BY DEF StateOf
  <2>1. CASE k \in R
    BY <2>1, <1>4
  <2>2. CASE \E m \in B : k <= m
    <3>1. PICK m \in B : k <= m
      BY <2>2
    <3>2. op \in StateOf(log, m)
      BY <3>1, <1>3 DEF StateOf
    <3> QED BY <3>1, <3>2, <1>3
  <2> QED BY <2>1, <2>2, <1>5
<1> QED BY <1>2, <1>6, <1>7

\* A sound journal loads the state its log ends in.
LEMMA SoundLoad ==
  ASSUME NEW u, NEW s, NEW log \in Seq(UpdateRows), Sound(u, s, log)
  PROVE  LoadDoc(u, s) = StateOf(log, Len(log))
<1> DEFINE N == Len(log)
<1>1. N \in 0 .. N /\ DOMAIN s \subseteq 0 .. N
  BY DEF Sound, HeadKnown, Seqs
<1>2. \A k \in 1 .. N : k \in DOMAIN u \/ \E m \in DOMAIN s : k <= m /\ m <= N
  BY <1>1 DEF Sound, Covered
<1>3. LoadDocAt(u, s, N) = StateOf(log, N)
  BY <1>1, <1>2, ReadAt
<1> QED BY <1>3, SoundHead DEF Sound, LoadDoc
-----------------------------------------------------------------------------
(***************************************************************************)
(* Each operation on the tables keeps a journal sound.                     *)
(***************************************************************************)
LEMMA StateOfAppend ==
  ASSUME NEW log \in Seq(UpdateRows), NEW row \in UpdateRows
  PROVE  /\ \A n \in 0 .. Len(log) : StateOf(Append(log, row), n) = StateOf(log, n)
         /\ StateOf(Append(log, row), Len(log) + 1) = StateOf(log, Len(log)) \cup row.ops
<1> DEFINE N == Len(log)
           long == Append(log, row)
<1>1. /\ N \in Nat
      /\ \A k \in 1 .. N : long[k] = log[k]
      /\ long[N + 1] = row
  OBVIOUS
<1> HIDE DEF long, N
<1>2. \A n \in 0 .. N : StateOf(long, n) = StateOf(log, n)
  <2> TAKE n \in 0 .. N
  <2>1. \A k \in 1 .. n : long[k] = log[k]
    BY <1>1
  <2> QED BY <2>1 DEF StateOf
<1>3. StateOf(long, N + 1) = StateOf(log, N) \cup row.ops
  <2>1. 1 .. (N + 1) = (1 .. N) \cup {N + 1}
    BY <1>1
  <2> QED BY <2>1, <1>1 DEF StateOf
<1> QED BY <1>2, <1>3 DEF long, N

LEMMA AppendSound ==
  ASSUME NEW u, NEW s, NEW log \in Seq(UpdateRows), Sound(u, s, log),
         NEW delta \in SUBSET Ops, NEW at \in Nat
  PROVE  Sound(AppendUpdate(u, s, delta, at), s, Append(log, [ops |-> delta, at |-> at]))
<1> DEFINE N == Len(log)
           row == [ops |-> delta, at |-> at]
           long == Append(log, row)
           v == AppendUpdate(u, s, delta, at)
<1>1. /\ N \in Nat
      /\ Len(long) = N + 1
      /\ \A k \in 1 .. N : long[k] = log[k]
      /\ long[N + 1] = row
      /\ row \in UpdateRows
  BY DEF UpdateRows
<1>2. HeadSeq(u, s) = N
  BY SoundHead DEF Sound
<1>3. /\ DOMAIN v = DOMAIN u \cup {N + 1}
      /\ v[N + 1] = row
      /\ \A k \in DOMAIN u : k # N + 1 => v[k] = u[k]
  BY <1>2 DEF AppendUpdate
<1>4. \A n \in 0 .. N : StateOf(long, n) = StateOf(log, n)
  BY <1>1, StateOfAppend
<1>5. DOMAIN u \subseteq 1 .. N /\ DOMAIN s \subseteq 0 .. N
  BY <1>1 DEF Sound, HeadKnown, RowsTrue, Seqs
<1> HIDE DEF v, long, row, N
<1>6. HeadKnown(v, s, long)
  BY <1>1, <1>3, <1>5 DEF HeadKnown, Seqs
<1>7. RowsTrue(v, s, long)
  <2>1. \A k \in DOMAIN u : u[k].ops = log[k].ops
    BY DEF Sound, RowsTrue
  <2>2. \A k \in DOMAIN v : k # 0 /\ v[k].ops = long[k].ops
    BY <1>1, <1>3, <1>5, <2>1
  <2>3. \A m \in DOMAIN s : s[m].ops = StateOf(long, m)
    BY <1>4, <1>5 DEF Sound, RowsTrue
  <2> QED BY <2>2, <2>3 DEF RowsTrue
<1>8. Covered(v, s, long)
  <2>1. \A k \in 1 .. N : k \in DOMAIN u \/ \E m \in DOMAIN s : k <= m
    BY DEF Sound, Covered, N
  <2> QED BY <1>1, <1>3, <2>1 DEF Covered
<1> QED BY <1>6, <1>7, <1>8 DEF Sound, v, long, row

LEMMA PutSnapshotSound ==
  ASSUME NEW u, NEW s, NEW log \in Seq(UpdateRows), Sound(u, s, log),
         NEW at, NEW label
  PROVE  Sound(u, PutSnapshot(u, s, StateOf(log, Len(log)), at, label), log)
<1> DEFINE N == Len(log)
           z == PutSnapshot(u, s, StateOf(log, N), at, label)
<1>1. N \in Nat /\ HeadSeq(u, s) = N
  BY SoundHead DEF Sound
<1>2. /\ DOMAIN z = DOMAIN s \cup {N}
      /\ z[N].ops = StateOf(log, N)
      /\ \A m \in DOMAIN s : m # N => z[m] = s[m]
  BY <1>1 DEF PutSnapshot
<1> HIDE DEF z
<1>3. HeadKnown(u, z, log)
  BY <1>1, <1>2 DEF Sound, HeadKnown, Seqs
<1>4. RowsTrue(u, z, log)
  BY <1>2 DEF Sound, RowsTrue
<1>5. Covered(u, z, log)
  BY <1>2 DEF Sound, Covered
<1> QED BY <1>3, <1>4, <1>5 DEF Sound, z

\* Labels and times play no part in soundness.
LEMMA SameContentSound ==
  ASSUME NEW u, NEW s, NEW z, NEW log, Sound(u, s, log),
         DOMAIN z = DOMAIN s, \A m \in DOMAIN s : z[m].ops = s[m].ops
  PROVE  Sound(u, z, log)
BY DEF Sound, HeadKnown, RowsTrue, Covered, Seqs

LEMMA PruneUpdatesSound ==
  ASSUME NEW u, NEW s, NEW log \in Seq(UpdateRows), Sound(u, s, log), NEW t
  PROVE  Sound(PruneUpdates(u, s, t), s, log)
<1> DEFINE N == Len(log)
           v == PruneUpdates(u, s, t)
           old == OldSnapshots(s, t)
<1>1. N \in Nat /\ DOMAIN u \subseteq 1 .. N /\ DOMAIN s \subseteq 0 .. N /\ old \subseteq DOMAIN s
  BY DEF Sound, HeadKnown, RowsTrue, Seqs, OldSnapshots
<1>2. /\ DOMAIN v = {j \in DOMAIN u : \A m \in old : m < j}
      /\ \A k \in DOMAIN v : v[k] = u[k]
  BY DEF PruneUpdates
<1> HIDE DEF v, old
<1>3. \A k \in DOMAIN u : k \in DOMAIN v \/ \E m \in DOMAIN s : k <= m
  <2> SUFFICES ASSUME NEW k \in DOMAIN u, k \notin DOMAIN v
               PROVE  \E m \in DOMAIN s : k <= m
    OBVIOUS
  <2>1. PICK m \in old : ~ (m < k)
    BY <1>2
  <2> QED BY <2>1, <1>1
<1>4. HeadKnown(v, s, log)
  <2>1. Seqs(v, s) \subseteq 0 .. N
    BY <1>1, <1>2 DEF Seqs
  <2>2. ASSUME N # 0 PROVE N \in Seqs(v, s)
    <3>1. CASE N \in DOMAIN s
      BY <3>1 DEF Seqs
    <3>2. CASE N \in DOMAIN u
      BY <3>2, <1>1, <1>3 DEF Seqs
    <3> QED BY <2>2, <3>1, <3>2 DEF Sound, HeadKnown, Seqs
  <2> QED BY <2>1, <2>2 DEF HeadKnown
<1>5. RowsTrue(v, s, log)
  BY <1>2 DEF Sound, RowsTrue
<1>6. Covered(v, s, log)
  BY <1>3 DEF Sound, Covered
<1> QED BY <1>4, <1>5, <1>6 DEF Sound, v

LEMMA PruneSnapshotsSound ==
  ASSUME NEW u, NEW s, NEW log \in Seq(UpdateRows), Sound(u, s, log), NEW t
  PROVE  Sound(u, PruneSnapshots(s, t), log)
<1> DEFINE N == Len(log)
           z == PruneSnapshots(s, t)
           old == OldSnapshots(s, t)
<1>1. N \in Nat /\ DOMAIN s \subseteq 0 .. N /\ old \subseteq DOMAIN s
  BY DEF Sound, HeadKnown, Seqs, OldSnapshots
<1>2. /\ DOMAIN z \subseteq DOMAIN s
      /\ \A j \in DOMAIN s : (\A m \in old : m <= j) => j \in DOMAIN z
      /\ \A k \in DOMAIN z : z[k] = s[k]
  BY DEF PruneSnapshots
<1> HIDE DEF z, old
<1>3. \A k \in DOMAIN s : \E m \in DOMAIN z : k <= m
  <2> SUFFICES ASSUME NEW k \in DOMAIN s PROVE \E m \in DOMAIN z : k <= m
    OBVIOUS
  <2>1. CASE \A m \in old : m <= k
    BY <2>1, <1>1, <1>2
  <2>2. CASE \E m \in old : ~ (m <= k)
    <3>1. PICK j \in old : ~ (j <= k)
      BY <2>2
    <3>2. old \in SUBSET Nat /\ old # {} /\ \A m \in old : m <= N
      BY <3>1, <1>1
    <3>3. PICK c \in old : \A m \in old : m <= c
      BY <3>2, <1>1, NatMax
    <3>4. c \in DOMAIN z
      BY <3>3, <1>1, <1>2
    <3>5. k <= c
      BY <3>1, <3>3, <1>1
    <3> QED BY <3>4, <3>5
  <2> QED BY <2>1, <2>2
<1>4. HeadKnown(u, z, log)
  <2>1. N \in DOMAIN s => N \in DOMAIN z
    BY <1>1, <1>2
  <2> QED BY <2>1, <1>1, <1>2 DEF Sound, HeadKnown, Seqs
<1>5. RowsTrue(u, z, log)
  BY <1>2 DEF Sound, RowsTrue
<1>6. Covered(u, z, log)
  <2> SUFFICES ASSUME NEW k \in 1 .. N, k \notin DOMAIN u
               PROVE  \E m \in DOMAIN z : k <= m
    BY DEF Covered
  <2>1. PICK j \in DOMAIN s : k <= j
    BY DEF Sound, Covered
  <2>2. PICK m \in DOMAIN z : j <= m
    BY <1>3
  <2> QED BY <2>1, <2>2, <1>1, <1>2
<1> QED BY <1>4, <1>5, <1>6 DEF Sound, z

\* Maintenance takes a snapshot only where there is none.
LEMMA DueHeadIsFree ==
  ASSUME NEW u, NEW s, NEW log \in Seq(UpdateRows), Sound(u, s, log), NEW t,
         SnapshotDue(u, s, t)
  PROVE  HeadSeq(u, s) \notin DOMAIN s
<1>1. PICK k \in DOMAIN u : \A m \in DOMAIN s : m < k
  BY DEF SnapshotDue, Pending
<1>2. HeadSeq(u, s) = Len(log) /\ Len(log) \in Nat /\ k \in 0 .. Len(log)
  BY SoundHead DEF Sound, HeadKnown, Seqs
<1> QED BY <1>1, <1>2
-----------------------------------------------------------------------------
(***************************************************************************)
(* The invariant holds initially and every step keeps it.                  *)
(***************************************************************************)
LEMMA InitInv == Init => JournalInv
<1> SUFFICES ASSUME Init PROVE JournalInv
  OBVIOUS
<1>1. TypeOK
  BY DEF Init, TypeOK
<1>2. Sound(updates, snapshots, appended)
  BY DEF Init, Sound, HeadKnown, RowsTrue, Covered, Seqs
<1>3. doc = StateAt(Len(appended))
  BY DEF Init, StateAt, StateOf
<1> QED BY <1>1, <1>2, <1>3 DEF Init, JournalInv, NamedVersionsSurvive

LEMMA EditInv == ASSUME JournalInv, NEW op \in Ops, Edit(op) PROVE JournalInv'
<1> DEFINE row == [ops |-> {op}, at |-> now]
<1>1. /\ appended \in Seq(UpdateRows) /\ now \in Nat /\ row \in UpdateRows
      /\ Sound(updates, snapshots, appended)
  BY DEF JournalInv, TypeOK, UpdateRows
<1>2. appended' = Append(appended, row)
  BY DEF Edit
<1>3. Sound(updates, snapshots, appended)'
  <2>1. {op} \in SUBSET Ops
    OBVIOUS
  <2>2. Sound(AppendUpdate(updates, snapshots, {op}, now), snapshots, Append(appended, row))
    BY <1>1, <2>1, AppendSound
  <2> QED BY <2>2, <1>2 DEF Edit
<1>4. TypeOK'
  <2>1. updates' \in [DOMAIN updates' -> UpdateRows]
    <3>1. HeadSeq(updates, snapshots) = Len(appended)
      BY <1>1, SoundHead DEF Sound
    <3> QED BY <1>1, <3>1 DEF Edit, AppendUpdate, JournalInv, TypeOK
  <2>2. DOMAIN updates' \subseteq Nat \ {0}
    <3>1. HeadSeq(updates, snapshots) = Len(appended) /\ Len(appended) \in Nat
      BY <1>1, SoundHead DEF Sound
    <3> QED BY <3>1 DEF Edit, AppendUpdate, JournalInv, TypeOK
  <2>3. appended' \in Seq(UpdateRows)
    BY <1>1, <1>2
  <2> QED BY <2>1, <2>2, <2>3 DEF Edit, JournalInv, TypeOK
<1>5. (doc = StateAt(Len(appended)))'
  <2>1. Len(appended') = Len(appended) + 1
    BY <1>1, <1>2
  <2>2. StateOf(appended', Len(appended) + 1) = StateOf(appended, Len(appended)) \cup {op}
    BY <1>1, <1>2, StateOfAppend
  <2> QED BY <2>1, <2>2 DEF Edit, JournalInv, StateAt
<1>6. NamedVersionsSurvive'
  BY DEF Edit, JournalInv, NamedVersionsSurvive
<1> QED BY <1>3, <1>4, <1>5, <1>6 DEF JournalInv

LEMMA SaveInv == ASSUME JournalInv, NEW label \in Labels, Save(label) PROVE JournalInv'
<1> DEFINE N == Len(appended)
<1>1. /\ appended \in Seq(UpdateRows) /\ N \in Nat /\ now \in Nat /\ doc \in SUBSET Ops
      /\ snapshots \in [DOMAIN snapshots -> SnapshotRows]
      /\ Sound(updates, snapshots, appended)
      /\ doc = StateOf(appended, N)
      /\ label # NoLabel
  BY LabelAssumption DEF JournalInv, TypeOK, StateAt
<1>2. HeadSeq(updates, snapshots) = N
  BY <1>1, SoundHead DEF Sound
<1> HIDE DEF N
<1>3. /\ Sound(updates, snapshots', appended)
      /\ snapshots' \in [DOMAIN snapshots' -> SnapshotRows]
      /\ DOMAIN snapshots' = DOMAIN snapshots \cup {N}
      /\ snapshots'[N].label = label
      /\ \A m \in DOMAIN snapshots : m # N => snapshots'[m] = snapshots[m]
  <2>1. CASE N \in DOMAIN snapshots
    <3>1. snapshots' = [snapshots EXCEPT ![N].label = label]
      BY <2>1, <1>2 DEF Save, SaveVersion
    <3>2. /\ DOMAIN snapshots' = DOMAIN snapshots
          /\ snapshots' \in [DOMAIN snapshots' -> SnapshotRows]
          /\ \A m \in DOMAIN snapshots : snapshots'[m].ops = snapshots[m].ops
          /\ snapshots'[N].label = label
          /\ \A m \in DOMAIN snapshots : m # N => snapshots'[m] = snapshots[m]
      BY <3>1, <2>1, <1>1 DEF SnapshotRows
    <3> QED BY <3>2, <2>1, <1>1, SameContentSound
  <2>2. CASE N \notin DOMAIN snapshots
    <3>1. snapshots' = PutSnapshot(updates, snapshots, doc, now, label)
      BY <2>2, <1>2 DEF Save, SaveVersion
    <3>2. Sound(updates, snapshots', appended)
      BY <3>1, <1>1, PutSnapshotSound DEF N
    <3>3. /\ snapshots' \in [DOMAIN snapshots' -> SnapshotRows]
          /\ DOMAIN snapshots' = DOMAIN snapshots \cup {N}
          /\ snapshots'[N].label = label
          /\ \A m \in DOMAIN snapshots : m # N => snapshots'[m] = snapshots[m]
      <4>1. snapshots' = [k \in DOMAIN snapshots \cup {N} |->
                            IF k = N THEN [ops |-> doc, at |-> now, label |-> label] ELSE snapshots[k]]
        BY <3>1, <1>2 DEF PutSnapshot
      <4> QED BY <4>1, <1>1 DEF SnapshotRows
    <3> QED BY <3>2, <3>3
  <2> QED BY <2>1, <2>2
<1>4. TypeOK'
  BY <1>1, <1>2, <1>3 DEF Save, JournalInv, TypeOK
<1>5. NamedVersionsSurvive'
  <2>1. kept' = kept \cup {N}
    BY <1>2 DEF Save
  <2> QED BY <2>1, <1>1, <1>3 DEF JournalInv, NamedVersionsSurvive
<1> QED BY <1>3, <1>4, <1>5 DEF Save, JournalInv, StateAt

LEMMA RelabelInv ==
  ASSUME JournalInv, NEW n \in DOMAIN snapshots, NEW label \in Labels \cup {NoLabel},
         Relabel(n, label)
  PROVE  JournalInv'
<1>1. /\ DOMAIN snapshots' = DOMAIN snapshots
      /\ snapshots' \in [DOMAIN snapshots' -> SnapshotRows]
      /\ \A m \in DOMAIN snapshots : snapshots'[m].ops = snapshots[m].ops
      /\ snapshots'[n].label = label
      /\ \A m \in DOMAIN snapshots : m # n => snapshots'[m] = snapshots[m]
  BY DEF Relabel, SetVersionLabel, JournalInv, TypeOK, SnapshotRows
<1>2. Sound(updates, snapshots', appended)
  BY <1>1, SameContentSound DEF JournalInv
<1>3. TypeOK'
  BY <1>1 DEF Relabel, JournalInv, TypeOK
<1>4. NamedVersionsSurvive'
  BY <1>1 DEF Relabel, JournalInv, NamedVersionsSurvive
<1> QED BY <1>2, <1>3, <1>4 DEF Relabel, JournalInv, StateAt

\* The table after maintenance's first statement.
LEMMA TakenSound ==
  ASSUME JournalInv
  PROVE  LET taken == MaintainSnapshot(updates, snapshots, doc, now)
         IN  /\ Sound(updates, taken, appended)
             /\ taken \in [DOMAIN taken -> SnapshotRows]
             /\ DOMAIN snapshots \subseteq DOMAIN taken
             /\ DOMAIN taken \subseteq Nat
             /\ \A m \in DOMAIN snapshots : taken[m] = snapshots[m]
<1> DEFINE N == Len(appended)
           taken == MaintainSnapshot(updates, snapshots, doc, now)
<1>1. /\ appended \in Seq(UpdateRows) /\ N \in Nat /\ now \in Nat /\ doc \in SUBSET Ops
      /\ snapshots \in [DOMAIN snapshots -> SnapshotRows]
      /\ DOMAIN snapshots \subseteq Nat
      /\ Sound(updates, snapshots, appended)
      /\ doc = StateOf(appended, N)
  BY DEF JournalInv, TypeOK, StateAt
<1>2. CASE SnapshotDue(updates, snapshots, now)
  <2>1. taken = PutSnapshot(updates, snapshots, doc, now, NoLabel)
    BY <1>2 DEF MaintainSnapshot
  <2>2. N \notin DOMAIN snapshots
    BY <1>1, <1>2, DueHeadIsFree, SoundHead DEF Sound
  <2>3. Sound(updates, taken, appended)
    BY <2>1, <1>1, PutSnapshotSound
  <2>4. /\ taken \in [DOMAIN taken -> SnapshotRows]
        /\ DOMAIN taken = DOMAIN snapshots \cup {N}
        /\ \A m \in DOMAIN snapshots : m # N => taken[m] = snapshots[m]
    <3>1. HeadSeq(updates, snapshots) = N
      BY <1>1, SoundHead DEF Sound
    <3>2. taken = [k \in DOMAIN snapshots \cup {N} |->
                     IF k = N THEN [ops |-> doc, at |-> now, label |-> NoLabel] ELSE snapshots[k]]
      BY <2>1, <3>1 DEF PutSnapshot
    <3> QED BY <3>2, <1>1 DEF SnapshotRows
  <2> QED BY <2>2, <2>3, <2>4, <1>1
<1>3. CASE ~ SnapshotDue(updates, snapshots, now)
  BY <1>1, <1>3 DEF MaintainSnapshot
<1> QED BY <1>2, <1>3

LEMMA MaintainInv ==
  ASSUME JournalInv, NEW done \in 1 .. 3, Maintain(done) PROVE JournalInv'
<1> DEFINE taken == MaintainSnapshot(updates, snapshots, doc, now)
<1>1. /\ Sound(updates, taken, appended)
      /\ taken \in [DOMAIN taken -> SnapshotRows]
      /\ DOMAIN snapshots \subseteq DOMAIN taken
      /\ DOMAIN taken \subseteq Nat
      /\ \A m \in DOMAIN snapshots : taken[m] = snapshots[m]
  BY TakenSound
<1>2. /\ updates' = IF done >= 2 THEN PruneUpdates(updates, taken, now) ELSE updates
      /\ snapshots' = IF done = 3 THEN PruneSnapshots(taken, now) ELSE taken
      /\ doc' = IF done = 3 THEN doc ELSE LoadDoc(updates', snapshots')
      /\ now' = now /\ steady' = steady /\ appended' = appended /\ kept' = kept
  BY DEF Maintain
<1> HIDE DEF taken
<1>3. appended \in Seq(UpdateRows) /\ doc = StateOf(appended, Len(appended))
  BY DEF JournalInv, TypeOK, StateAt
<1>4. Sound(updates', taken, appended)
  BY <1>1, <1>2, <1>3, PruneUpdatesSound
<1>5. Sound(updates', snapshots', appended')
  BY <1>2, <1>3, <1>4, PruneSnapshotsSound
<1>6. doc' = doc
  BY <1>2, <1>3, <1>5, SoundLoad
<1>7. TypeOK'
  <2>1. updates' \in [DOMAIN updates' -> UpdateRows] /\ DOMAIN updates' \subseteq Nat \ {0}
    BY <1>2 DEF PruneUpdates, JournalInv, TypeOK
  <2>2. snapshots' \in [DOMAIN snapshots' -> SnapshotRows] /\ DOMAIN snapshots' \subseteq Nat
    BY <1>1, <1>2 DEF PruneSnapshots
  <2> QED BY <2>1, <2>2, <1>2, <1>6 DEF JournalInv, TypeOK
<1>8. NamedVersionsSurvive'
  <2> SUFFICES ASSUME NEW n \in kept
               PROVE  n \in DOMAIN snapshots' /\ snapshots'[n].label # NoLabel
    BY <1>2 DEF NamedVersionsSurvive
  <2>1. n \in DOMAIN taken /\ taken[n].label # NoLabel
    BY <1>1 DEF JournalInv, NamedVersionsSurvive
  <2> QED BY <2>1, <1>2 DEF PruneSnapshots
<1> QED BY <1>2, <1>3, <1>5, <1>6, <1>7, <1>8 DEF JournalInv, StateAt

LEMMA RestartInv == ASSUME JournalInv, Restart PROVE JournalInv'
<1>1. doc' = doc
  BY SoundLoad DEF Restart, JournalInv, TypeOK, StateAt
<1> QED BY <1>1 DEF Restart, JournalInv, TypeOK, StateAt, NamedVersionsSurvive

LEMMA NextInv == JournalInv /\ [Next]_vars => JournalInv'
<1> SUFFICES ASSUME JournalInv, [Next]_vars PROVE JournalInv'
  OBVIOUS
<1>1. ASSUME NEW op \in Ops, Edit(op) PROVE JournalInv'
  BY <1>1, EditInv
<1>2. ASSUME NEW label \in Labels, Save(label) PROVE JournalInv'
  BY <1>2, SaveInv
<1>3. ASSUME NEW n \in DOMAIN snapshots, NEW label \in Labels \cup {NoLabel}, Relabel(n, label)
      PROVE  JournalInv'
  BY <1>3, RelabelInv
<1>4. ASSUME NEW done \in 1 .. 3, Maintain(done) PROVE JournalInv'
  BY <1>4, MaintainInv
<1>5. CASE Restart
  BY <1>5, RestartInv
<1>6. CASE Tick
  BY <1>6, ClockAssumption DEF Tick, JournalInv, TypeOK, StateAt, NamedVersionsSurvive
<1>7. CASE UNCHANGED vars
  BY <1>7 DEF vars, JournalInv, TypeOK, StateAt, NamedVersionsSurvive
<1> QED BY <1>1, <1>2, <1>3, <1>4, <1>5, <1>6, <1>7 DEF Next

THEOREM InvHolds == Spec => []JournalInv
BY InitInv, NextInv, PTL DEF Spec
-----------------------------------------------------------------------------
(***************************************************************************)
(* The properties TLC checks, for every instance.                          *)
(***************************************************************************)
\* The tables, the clock and the history variables keep their types.
THEOREM TypeCorrect == Spec => []TypeOK
<1>1. JournalInv => TypeOK
  BY DEF JournalInv
<1> QED BY <1>1, InvHolds, PTL

\* Loading the journal always gives the document in memory: no snapshot, pruning or crash between
\* the statements of `maintain` loses or revives an edit.
THEOREM ReloadCorrect == Spec => []ReloadGivesDoc
<1>1. JournalInv => ReloadGivesDoc
  BY SoundLoad DEF JournalInv, TypeOK, ReloadGivesDoc, StateAt
<1> QED BY <1>1, InvHolds, PTL

\* Sequence numbers are never used twice, whatever maintenance deletes.
THEOREM SeqsCorrect == Spec => []SeqsNeverReused
<1>1. JournalInv => SeqsNeverReused
  BY SoundHead DEF JournalInv, TypeOK, SeqsNeverReused, Sound
<1> QED BY <1>1, InvHolds, PTL

\* Every listed version reads back as the document was when it was the head.
THEOREM VersionsCorrect == Spec => []VersionsReadBack
<1>1. JournalInv => VersionsReadBack
  <2> SUFFICES ASSUME JournalInv, NEW n \in DOMAIN snapshots
               PROVE  /\ snapshots[n].ops = StateAt(n)
                      /\ LoadDocAt(updates, snapshots, n) = StateAt(n)
    BY DEF VersionsReadBack
  <2>1. snapshots[n].ops = StateAt(n)
    BY DEF JournalInv, Sound, RowsTrue, StateAt
  <2>2. DOMAIN snapshots \subseteq Nat /\ DOMAIN updates \subseteq Nat
    BY DEF JournalInv, TypeOK
  <2>3. n \in Base(snapshots, n)
    BY <2>2 DEF Base
  <2>4. Base(snapshots, n) = {n}
    BY <2>2, <2>3, BaseIs
  <2>5. RowsAfterBase(updates, snapshots, n) = {}
    BY <2>2, <2>4 DEF RowsAfterBase
  <2> QED BY <2>1, <2>4, <2>5 DEF LoadDocAt
<1> QED BY <1>1, InvHolds, PTL

\* A named version is never pruned or un-named except by the user.
THEOREM NamedCorrect == Spec => []NamedVersionsSurvive
<1>1. JournalInv => NamedVersionsSurvive
  BY DEF JournalInv
<1> QED BY <1>1, InvHolds, PTL

\* A snapshot row keeps content and time while it is there, and a name until it is relabelled.
THEOREM NotOverwritten == Spec => SnapshotsNeverOverwritten
<1>1. JournalInv /\ [Next]_vars => [SnapshotKept]_vars
  <2> SUFFICES ASSUME JournalInv, Next PROVE SnapshotKept
    OBVIOUS
  <2>0. /\ snapshots \in [DOMAIN snapshots -> SnapshotRows]
        /\ appended \in Seq(UpdateRows)
        /\ Sound(updates, snapshots, appended)
    BY DEF JournalInv, TypeOK
  <2>1. ASSUME NEW op \in Ops, Edit(op) PROVE SnapshotKept
    BY <2>1 DEF Edit, SnapshotKept
  <2>2. ASSUME NEW label \in Labels, Save(label) PROVE SnapshotKept
    <3> DEFINE n == HeadSeq(updates, snapshots)
    <3>1. CASE n \in DOMAIN snapshots
      <4>1. snapshots' = [snapshots EXCEPT ![n].label = label] /\ snapshots[n].label = NoLabel
        BY <2>2, <3>1 DEF Save, SaveVersion, NamedHead
      <4> HIDE DEF n
      <4> QED BY <2>0, <4>1, <3>1 DEF SnapshotRows, SnapshotKept
    <3>2. CASE n \notin DOMAIN snapshots
      <4>1. \A m \in DOMAIN snapshots : snapshots'[m] = snapshots[m]
        BY <2>2, <3>2 DEF Save, SaveVersion, PutSnapshot
      <4> QED BY <4>1 DEF SnapshotKept
    <3> QED BY <3>1, <3>2
  <2>3. ASSUME NEW n \in DOMAIN snapshots, NEW label \in Labels \cup {NoLabel}, Relabel(n, label)
        PROVE  SnapshotKept
    <3>1. snapshots' = [snapshots EXCEPT ![n].label = label]
      BY <2>3 DEF Relabel, SetVersionLabel
    <3>2. \A m \in DOMAIN snapshots :
            /\ snapshots'[m].ops = snapshots[m].ops
            /\ snapshots'[m].at = snapshots[m].at
            /\ m # n => snapshots'[m] = snapshots[m]
      BY <3>1, <2>0 DEF SnapshotRows
    <3> QED BY <2>3, <3>2 DEF SnapshotKept
  <2>4. ASSUME NEW done \in 1 .. 3, Maintain(done) PROVE SnapshotKept
    <3> DEFINE taken == MaintainSnapshot(updates, snapshots, doc, now)
    <3>1. DOMAIN snapshots \subseteq DOMAIN taken /\ \A m \in DOMAIN snapshots : taken[m] = snapshots[m]
      BY TakenSound
    <3>2. snapshots' = IF done = 3 THEN PruneSnapshots(taken, now) ELSE taken
      BY <2>4 DEF Maintain
    <3> HIDE DEF taken
    <3> QED BY <3>1, <3>2 DEF PruneSnapshots, SnapshotKept
  <2>5. CASE Restart
    BY <2>5 DEF Restart, SnapshotKept
  <2>6. CASE Tick
    BY <2>6 DEF Tick, SnapshotKept
  <2> QED BY <2>1, <2>2, <2>3, <2>4, <2>5, <2>6 DEF Next
<1> QED BY <1>1, InvHolds, PTL DEF Spec, SnapshotsNeverOverwritten
-----------------------------------------------------------------------------
(***************************************************************************)
(* The retention promise: under a clock that has only                      *)
(* moved forward, every state that was current within the window reads     *)
(* back, however often maintenance ran and wherever it was interrupted.    *)
(*                                                                         *)
(* The argument: there is a cut, 0 or an old snapshot, such that nothing   *)
(* after it has been pruned.  A state from the cut on is therefore all     *)
(* there; one before it was replaced before the cut was taken, and so      *)
(* outside the window.                                                     *)
(***************************************************************************)
\* Times in the tables and in the log follow the numbers.
TimesOrdered(s, log, t) ==
  /\ \A k \in 1 .. Len(log) : log[k].at <= t
  /\ \A m \in DOMAIN s : \A k \in 1 .. Len(log) : k <= m => log[k].at <= s[m].at

\* No update after the cut is missing.
Cut(u, s, log, t, c) ==
  /\ c # 0 => c \in OldSnapshots(s, t)
  /\ \A k \in 1 .. Len(log) : c < k => k \in DOMAIN u

WindowKept(u, s, log, t) ==
  /\ TimesOrdered(s, log, t)
  /\ \E c \in 0 .. Len(log) : Cut(u, s, log, t, c)

\* The inductive invariant.
WindowInv ==
  /\ JournalInv
  /\ steady => WindowKept(updates, snapshots, appended, now)
-----------------------------------------------------------------------------
\* What the induction may use of the tables.
LEMMA Tables ==
  ASSUME JournalInv
  PROVE  /\ appended \in Seq(UpdateRows) /\ Len(appended) \in Nat
         /\ \A k \in 1 .. Len(appended) : appended[k].at \in Nat
         /\ DOMAIN snapshots \subseteq 0 .. Len(appended)
         /\ \A m \in DOMAIN snapshots : snapshots[m].at \in Nat
         /\ HeadSeq(updates, snapshots) = Len(appended)
         /\ now \in Nat /\ Retain \in Nat /\ steady \in BOOLEAN
         /\ Sound(updates, snapshots, appended)
<1>1. /\ appended \in Seq(UpdateRows)
      /\ snapshots \in [DOMAIN snapshots -> SnapshotRows]
      /\ Sound(updates, snapshots, appended)
  BY DEF JournalInv, TypeOK
<1>2. \A k \in 1 .. Len(appended) : appended[k].at \in Nat
  <2>1. \A k \in 1 .. Len(appended) : appended[k] \in UpdateRows
    BY <1>1
  <2> QED BY <2>1 DEF UpdateRows
<1>3. \A m \in DOMAIN snapshots : snapshots[m].at \in Nat
  BY <1>1 DEF SnapshotRows
<1>4. DOMAIN snapshots \subseteq 0 .. Len(appended)
  BY <1>1 DEF Sound, HeadKnown, Seqs
<1>5. HeadSeq(updates, snapshots) = Len(appended)
  BY <1>1, SoundHead DEF Sound
<1>6. now \in Nat /\ steady \in BOOLEAN
  BY DEF JournalInv, TypeOK
<1>7. Len(appended) \in Nat /\ Retain \in Nat
  BY <1>1, PolicyAssumption
<1> QED BY <1>1, <1>2, <1>3, <1>4, <1>5, <1>6, <1>7

\* Table `s` became `z`: none was dropped or moved in time, and one may be new, at the head, now.
Grown(s, z, n, t) ==
  /\ DOMAIN s \subseteq DOMAIN z
  /\ \A m \in DOMAIN s : z[m].at = s[m].at
  /\ \A m \in DOMAIN z \ DOMAIN s : m = n /\ z[m].at = t

LEMMA SaveGrows ==
  ASSUME JournalInv, NEW label \in Labels, Save(label)
  PROVE  Grown(snapshots, snapshots', Len(appended), now)
<1> DEFINE n == HeadSeq(updates, snapshots)
<1>1. n = Len(appended)
  BY Tables
<1>2. CASE n \in DOMAIN snapshots
  <2>1. snapshots' = [snapshots EXCEPT ![n].label = label]
    BY <1>2 DEF Save, SaveVersion
  <2>2. snapshots \in [DOMAIN snapshots -> SnapshotRows]
    BY DEF JournalInv, TypeOK
  <2> HIDE DEF n
  <2> QED BY <2>1, <2>2 DEF SnapshotRows, Grown
<1>3. CASE n \notin DOMAIN snapshots
  <2>1. Grown(snapshots, snapshots', n, now)
    BY <1>3 DEF Save, SaveVersion, PutSnapshot, Grown
  <2> QED BY <1>1, <2>1
<1> QED BY <1>2, <1>3

LEMMA RelabelGrows ==
  ASSUME JournalInv, NEW n \in DOMAIN snapshots, NEW label \in Labels \cup {NoLabel},
         Relabel(n, label)
  PROVE  Grown(snapshots, snapshots', Len(appended), now)
BY DEF Relabel, SetVersionLabel, JournalInv, TypeOK, SnapshotRows, Grown

LEMMA TakenGrows ==
  ASSUME JournalInv
  PROVE  Grown(snapshots, MaintainSnapshot(updates, snapshots, doc, now), Len(appended), now)
<1> DEFINE taken == MaintainSnapshot(updates, snapshots, doc, now)
<1>1. /\ Len(appended) \in Nat /\ now \in Nat
      /\ HeadSeq(updates, snapshots) = Len(appended)
      /\ Sound(updates, snapshots, appended)
  BY Tables
<1>2. CASE SnapshotDue(updates, snapshots, now)
  <2>1. Len(appended) \notin DOMAIN snapshots
    BY <1>1, <1>2, DueHeadIsFree DEF JournalInv, TypeOK
  <2> QED BY <1>1, <1>2, <2>1 DEF MaintainSnapshot, PutSnapshot, Grown
<1>3. CASE ~ SnapshotDue(updates, snapshots, now)
  BY <1>3 DEF MaintainSnapshot, Grown
<1> QED BY <1>2, <1>3

\* A table that grows so keeps the window.
LEMMA SnapshotKeeps ==
  ASSUME JournalInv, WindowKept(updates, snapshots, appended, now), NEW z,
         Grown(snapshots, z, Len(appended), now)
  PROVE  WindowKept(updates, z, appended, now)
<1>1. TimesOrdered(z, appended, now)
  BY DEF WindowKept, TimesOrdered, Grown
<1>2. PICK c \in 0 .. Len(appended) : Cut(updates, snapshots, appended, now, c)
  BY DEF WindowKept
<1>3. Cut(updates, z, appended, now, c)
  BY <1>2 DEF Cut, OldSnapshots, Grown
<1> QED BY <1>1, <1>3 DEF WindowKept

\* The two deletions of `maintain` keep it: the newest old snapshot is the cut.
LEMMA PruneKeeps ==
  ASSUME NEW N \in Nat, NEW log, Len(log) = N, NEW u, NEW s, NEW t \in Nat,
         DOMAIN s \subseteq 0 .. N,
         WindowKept(u, s, log, t)
  PROVE  /\ WindowKept(PruneUpdates(u, s, t), s, log, t)
         /\ WindowKept(PruneUpdates(u, s, t), PruneSnapshots(s, t), log, t)
<1> DEFINE old == OldSnapshots(s, t)
           v == PruneUpdates(u, s, t)
           z == PruneSnapshots(s, t)
<1>1. old \subseteq DOMAIN s
  BY DEF OldSnapshots
<1>2. PICK c \in 0 .. N : Cut(u, s, log, t, c)
  BY DEF WindowKept
<1>3. DOMAIN v = {j \in DOMAIN u : \A m \in old : m < j}
  BY DEF PruneUpdates
<1>4. /\ DOMAIN z \subseteq DOMAIN s
      /\ \A j \in DOMAIN s : (\A m \in old : m <= j) => j \in DOMAIN z
      /\ \A k \in DOMAIN z : z[k] = s[k]
  BY DEF PruneSnapshots
<1>5. TimesOrdered(s, log, t) /\ TimesOrdered(z, log, t)
  BY <1>4 DEF WindowKept, TimesOrdered
<1>6. CASE old = {}
  <2>1. c = 0
    BY <1>2, <1>6 DEF Cut
  <2>2. Cut(v, s, log, t, 0) /\ Cut(v, z, log, t, 0)
    BY <1>2, <1>3, <1>6, <2>1 DEF Cut
  <2> QED BY <2>2, <1>5 DEF WindowKept
<1>7. CASE old # {}
  <2>1. PICK d \in old : \A m \in old : m <= d
    <3>1. old \in SUBSET Nat /\ \A m \in old : m <= N
      BY <1>1
    <3> HIDE DEF old
    <3> QED BY <3>1, <1>7, NatMax
  <2>2. d \in 0 .. N /\ d \in DOMAIN z
    BY <2>1, <1>1, <1>4
  <2>3. d \in OldSnapshots(z, t)
    BY <2>1, <2>2, <1>4 DEF OldSnapshots
  <2>4. c <= d
    BY <1>2, <2>1, <2>2 DEF Cut
  <2>5. \A k \in 1 .. N : d < k => k \in DOMAIN v
    <3> SUFFICES ASSUME NEW k \in 1 .. N, d < k PROVE k \in DOMAIN v
      OBVIOUS
    <3>1. k \in DOMAIN u
      BY <1>2, <2>2, <2>4 DEF Cut
    <3>2. \A m \in old : m < k
      BY <2>1, <2>2, <1>1
    <3> QED BY <3>1, <3>2, <1>3
  <2>6. Cut(v, s, log, t, d) /\ Cut(v, z, log, t, d)
    BY <2>1, <2>3, <2>5 DEF Cut
  <2> QED BY <2>2, <2>6, <1>5 DEF WindowKept
<1> QED BY <1>6, <1>7
-----------------------------------------------------------------------------
LEMMA WindowInit == Init => WindowInv
<1> SUFFICES ASSUME Init PROVE WindowKept(updates, snapshots, appended, now)
  BY InitInv DEF WindowInv
<1>1. Cut(updates, snapshots, appended, now, 0)
  BY DEF Init, Cut
<1> QED BY <1>1 DEF Init, WindowKept, TimesOrdered

LEMMA WindowEdit ==
  ASSUME JournalInv, WindowKept(updates, snapshots, appended, now), NEW op \in Ops, Edit(op)
  PROVE  WindowKept(updates, snapshots, appended, now)'
<1> DEFINE N == Len(appended)
<1>1. /\ N \in Nat /\ now \in Nat /\ appended \in Seq(UpdateRows)
      /\ \A k \in 1 .. N : appended[k].at \in Nat
      /\ DOMAIN snapshots \subseteq 0 .. N
      /\ HeadSeq(updates, snapshots) = N
  BY Tables
<1>2. /\ Len(appended') = N + 1
      /\ \A k \in 1 .. N : appended'[k] = appended[k]
      /\ appended'[N + 1].at = now
  BY <1>1 DEF Edit
<1>3. DOMAIN updates' = DOMAIN updates \cup {N + 1} /\ snapshots' = snapshots /\ now' = now
  BY <1>1 DEF Edit, AppendUpdate
<1> HIDE DEF N
<1>4. TimesOrdered(snapshots, appended', now)
  <2>1. \A k \in 1 .. (N + 1) : appended'[k].at <= now
    BY <1>1, <1>2 DEF WindowKept, TimesOrdered, N
  <2>2. ASSUME NEW m \in DOMAIN snapshots, NEW k \in 1 .. (N + 1), k <= m
        PROVE  appended'[k].at <= snapshots[m].at
    <3>1. k \in 1 .. N
      BY <2>2, <1>1
    <3> QED BY <2>2, <3>1, <1>2 DEF WindowKept, TimesOrdered, N
  <2> QED BY <2>1, <2>2, <1>2 DEF TimesOrdered
<1>5. PICK c \in 0 .. N : Cut(updates, snapshots, appended, now, c)
  BY DEF WindowKept, N
<1>6. Cut(updates', snapshots, appended', now, c)
  BY <1>1, <1>2, <1>3, <1>5 DEF Cut, N
<1> QED BY <1>1, <1>2, <1>3, <1>4, <1>6 DEF WindowKept

LEMMA WindowSave ==
  ASSUME JournalInv, WindowKept(updates, snapshots, appended, now),
         NEW label \in Labels, Save(label)
  PROVE  WindowKept(updates, snapshots, appended, now)'
<1>1. WindowKept(updates, snapshots', appended, now)
  BY SaveGrows, SnapshotKeeps
<1> QED BY <1>1 DEF Save

LEMMA WindowRelabel ==
  ASSUME JournalInv, WindowKept(updates, snapshots, appended, now),
         NEW n \in DOMAIN snapshots, NEW label \in Labels \cup {NoLabel}, Relabel(n, label)
  PROVE  WindowKept(updates, snapshots, appended, now)'
<1>1. WindowKept(updates, snapshots', appended, now)
  BY RelabelGrows, SnapshotKeeps
<1> QED BY <1>1 DEF Relabel

LEMMA WindowMaintain ==
  ASSUME JournalInv, WindowKept(updates, snapshots, appended, now),
         NEW done \in 1 .. 3, Maintain(done)
  PROVE  WindowKept(updates, snapshots, appended, now)'
<1> DEFINE taken == MaintainSnapshot(updates, snapshots, doc, now)
<1>1. /\ updates' = IF done >= 2 THEN PruneUpdates(updates, taken, now) ELSE updates
      /\ snapshots' = IF done = 3 THEN PruneSnapshots(taken, now) ELSE taken
      /\ now' = now /\ appended' = appended
  BY DEF Maintain
<1>2. Grown(snapshots, taken, Len(appended), now)
  BY TakenGrows
<1> HIDE DEF taken
<1>3. WindowKept(updates, taken, appended, now)
  BY <1>2, SnapshotKeeps
<1>4. DOMAIN taken \subseteq 0 .. Len(appended) /\ Len(appended) \in Nat /\ now \in Nat
  BY <1>2, Tables DEF Grown
<1>5. /\ WindowKept(PruneUpdates(updates, taken, now), taken, appended, now)
      /\ WindowKept(PruneUpdates(updates, taken, now), PruneSnapshots(taken, now), appended, now)
  BY <1>3, <1>4, PruneKeeps
<1> QED BY <1>1, <1>3, <1>5

\* Time that passes makes snapshots old and old ones older.
LEMMA WindowTick ==
  ASSUME JournalInv, WindowKept(updates, snapshots, appended, now), Tick, steady'
  PROVE  WindowKept(updates, snapshots, appended, now)'
<1>0. now < now'
  <2>1. PICK t \in 0 .. Horizon : now' = t /\ steady' = (steady /\ t > now)
    BY DEF Tick
  <2>2. t > now
    BY <2>1, Zenon
  <2> QED BY <2>1, <2>2
<1>1. /\ now' \in Nat /\ now \in Nat /\ Retain \in Nat
      /\ updates' = updates /\ snapshots' = snapshots /\ appended' = appended
      /\ \A k \in 1 .. Len(appended) : appended[k].at \in Nat
      /\ \A m \in DOMAIN snapshots : snapshots[m].at \in Nat
  BY Tables, ClockAssumption DEF Tick
<1>2. TimesOrdered(snapshots, appended, now')
  BY <1>0, <1>1 DEF WindowKept, TimesOrdered
<1>3. PICK c \in 0 .. Len(appended) : Cut(updates, snapshots, appended, now, c)
  BY DEF WindowKept
<1>4. Cut(updates, snapshots, appended, now', c)
  BY <1>0, <1>1, <1>3 DEF Cut, OldSnapshots
<1> QED BY <1>1, <1>2, <1>4 DEF WindowKept

LEMMA WindowNext == WindowInv /\ [Next]_vars => WindowInv'
<1> SUFFICES ASSUME WindowInv, [Next]_vars, steady'
             PROVE  WindowKept(updates, snapshots, appended, now)'
  BY NextInv DEF WindowInv
<1>1. JournalInv
  BY DEF WindowInv
<1>2. steady
  <2>1. CASE Tick
    <3>1. PICK t \in 0 .. Horizon : steady' = (steady /\ t > now)
      BY <2>1 DEF Tick
    <3> QED BY <3>1, Zenon
  <2>2. CASE steady' = steady
    BY <2>2
  <2>3. Next => Tick \/ steady' = steady
    BY DEF Next, Edit, Save, Relabel, Maintain, Restart
  <2> QED BY <2>1, <2>2, <2>3 DEF vars
<1>3. WindowKept(updates, snapshots, appended, now)
  BY <1>2 DEF WindowInv
<1>4. ASSUME NEW op \in Ops, Edit(op) PROVE WindowKept(updates, snapshots, appended, now)'
  BY <1>1, <1>3, <1>4, WindowEdit
<1>5. ASSUME NEW label \in Labels, Save(label)
      PROVE  WindowKept(updates, snapshots, appended, now)'
  BY <1>1, <1>3, <1>5, WindowSave
<1>6. ASSUME NEW n \in DOMAIN snapshots, NEW label \in Labels \cup {NoLabel}, Relabel(n, label)
      PROVE  WindowKept(updates, snapshots, appended, now)'
  BY <1>1, <1>3, <1>6, WindowRelabel
<1>7. ASSUME NEW done \in 1 .. 3, Maintain(done)
      PROVE  WindowKept(updates, snapshots, appended, now)'
  BY <1>1, <1>3, <1>7, WindowMaintain
<1>8. CASE Restart
  BY <1>3, <1>8 DEF Restart
<1>9. CASE Tick
  BY <1>1, <1>3, <1>9, WindowTick
<1>10. CASE UNCHANGED vars
  BY <1>3, <1>10 DEF vars
<1> QED BY <1>4, <1>5, <1>6, <1>7, <1>8, <1>9, <1>10 DEF Next

\* While the clock has only moved forward, every state current within the retention window can be
\* read: maintenance prunes no update and no snapshot such a state needs.
THEOREM WindowCorrect == Spec => []WindowReadable
<1>1. WindowInv => WindowReadable
  <2> SUFFICES ASSUME WindowInv, steady, NEW n \in 0 .. Len(appended),
                      n = Len(appended) \/ appended[n + 1].at > now - Retain
               PROVE  LoadDocAt(updates, snapshots, n) = StateAt(n)
    BY DEF WindowReadable
  <2>1. /\ appended \in Seq(UpdateRows) /\ Len(appended) \in Nat
        /\ \A k \in 1 .. Len(appended) : appended[k].at \in Nat
        /\ DOMAIN snapshots \subseteq 0 .. Len(appended)
        /\ \A m \in DOMAIN snapshots : snapshots[m].at \in Nat
        /\ now \in Nat /\ Retain \in Nat
        /\ Sound(updates, snapshots, appended)
    BY Tables DEF WindowInv
  <2>2. PICK c \in 0 .. Len(appended) : Cut(updates, snapshots, appended, now, c)
    BY DEF WindowInv, WindowKept
  <2>3. c <= n
    <3> SUFFICES ASSUME n < c PROVE FALSE
      BY <2>1
    <3>1. /\ c \in DOMAIN snapshots /\ snapshots[c].at <= now - Retain
          /\ n + 1 \in 1 .. Len(appended) /\ n + 1 <= c
      BY <2>1, <2>2 DEF Cut, OldSnapshots
    <3>2. appended[n + 1].at <= snapshots[c].at
      BY <3>1 DEF WindowInv, WindowKept, TimesOrdered
    <3> QED BY <2>1, <3>1, <3>2
  <2>4. \A k \in 1 .. n : k \in DOMAIN updates \/ \E m \in DOMAIN snapshots : k <= m /\ m <= n
    <3> SUFFICES ASSUME NEW k \in 1 .. n, k \notin DOMAIN updates
                 PROVE  c \in DOMAIN snapshots /\ k <= c
      BY <2>1, <2>3
    <3>1. k <= c
      BY <2>1, <2>2 DEF Cut
    <3> QED BY <2>1, <2>2, <3>1 DEF Cut, OldSnapshots
  <2> QED BY <2>1, <2>4, ReadAt DEF StateAt
<1> QED BY <1>1, WindowInit, WindowNext, InvHolds, PTL DEF Spec

-----------------------------------------------------------------------------
(***************************************************************************)
(* The version history.  It dates its entries by the times in the tables   *)
(* and tells from the first row whether anything is missing, so both have  *)
(* to be the truth: a row has the time its update was appended at, what is *)
(* pruned is always a prefix, and under a clock that only moved forward    *)
(* the times of the snapshots follow the numbers as well.                  *)
(***************************************************************************)
RowsDated(u, log) == \A k \in DOMAIN u : u[k].at = log[k].at

\* Only a prefix of the updates is ever missing.
NoGap(u, log) == \A k \in DOMAIN u : \A j \in 1 .. Len(log) : k <= j => j \in DOMAIN u

SnapshotsOrdered(s, log, t) ==
  /\ \A m \in DOMAIN s : s[m].at <= t
  /\ \A m, k \in DOMAIN s : m < k => s[m].at <= s[k].at
  /\ \A m \in DOMAIN s : \A k \in 1 .. Len(log) : m < k => s[m].at <= log[k].at

\* The inductive invariant of the history.
HistoryInv ==
  /\ WindowInv
  /\ RowsDated(updates, appended)
  /\ NoGap(updates, appended)
  /\ steady => SnapshotsOrdered(snapshots, appended, now)

LEMMA GrownOrdered ==
  ASSUME NEW s, NEW z, NEW log, NEW t \in Nat, SnapshotsOrdered(s, log, t),
         Len(log) \in Nat, DOMAIN s \subseteq 0 .. Len(log), Grown(s, z, Len(log), t)
  PROVE  SnapshotsOrdered(z, log, t)
<1>1. \A m \in DOMAIN z : z[m].at <= t
  BY DEF SnapshotsOrdered, Grown
<1>2. ASSUME NEW m \in DOMAIN z, NEW k \in DOMAIN z, m < k PROVE z[m].at <= z[k].at
  <2>1. m \in DOMAIN s
    BY <1>2 DEF Grown
  <2>2. CASE k \in DOMAIN s
    BY <1>2, <2>1, <2>2 DEF SnapshotsOrdered, Grown
  <2>3. CASE k \notin DOMAIN s
    <3>1. z[k].at = t
      BY <2>3 DEF Grown
    <3> QED BY <1>1, <3>1
  <2> QED BY <2>2, <2>3
<1>3. ASSUME NEW m \in DOMAIN z, NEW k \in 1 .. Len(log), m < k PROVE z[m].at <= log[k].at
  <2>1. m \in DOMAIN s
    BY <1>3 DEF Grown
  <2> QED BY <1>3, <2>1 DEF SnapshotsOrdered, Grown
<1> QED BY <1>1, <1>2, <1>3 DEF SnapshotsOrdered

LEMMA PrunedOrdered ==
  ASSUME NEW s, NEW log, NEW t, SnapshotsOrdered(s, log, t), NEW x
  PROVE  SnapshotsOrdered(PruneSnapshots(s, x), log, t)
BY DEF SnapshotsOrdered, PruneSnapshots

LEMMA PrunedRows ==
  ASSUME NEW u, NEW log, Len(log) \in Nat, DOMAIN u \subseteq 1 .. Len(log),
         RowsDated(u, log), NoGap(u, log), NEW s, DOMAIN s \subseteq Nat, NEW x
  PROVE  /\ RowsDated(PruneUpdates(u, s, x), log)
         /\ NoGap(PruneUpdates(u, s, x), log)
<1> DEFINE v == PruneUpdates(u, s, x)
<1>1. /\ DOMAIN v = {j \in DOMAIN u : \A m \in OldSnapshots(s, x) : m < j}
      /\ \A k \in DOMAIN v : v[k] = u[k]
  BY DEF PruneUpdates
<1>2. OldSnapshots(s, x) \subseteq Nat
  BY DEF OldSnapshots
<1> HIDE DEF v
<1>3. RowsDated(v, log)
  BY <1>1 DEF RowsDated
<1>4. ASSUME NEW k \in DOMAIN v, NEW j \in 1 .. Len(log), k <= j PROVE j \in DOMAIN v
  <2>1. k \in DOMAIN u /\ j \in DOMAIN u
    BY <1>1, <1>4 DEF NoGap
  <2>2. ASSUME NEW m \in OldSnapshots(s, x) PROVE m < j
    <3>1. m < k /\ m \in Nat
      BY <1>1, <1>2
    <3> QED BY <1>4, <2>1, <3>1
  <2> QED BY <1>1, <2>1, <2>2
<1> QED BY <1>3, <1>4 DEF NoGap, v

\* Neither a save, a relabel nor maintenance disturbs the order, nor an edit, at a later time.
LEMMA HistoryEdit ==
  ASSUME HistoryInv, NEW op \in Ops, Edit(op)
  PROVE  /\ RowsDated(updates, appended)' /\ NoGap(updates, appended)'
         /\ steady => SnapshotsOrdered(snapshots, appended, now)'
<1> DEFINE N == Len(appended)
<1>1. /\ N \in Nat /\ now \in Nat /\ appended \in Seq(UpdateRows)
      /\ DOMAIN snapshots \subseteq 0 .. N
      /\ DOMAIN updates \subseteq 0 .. N
      /\ HeadSeq(updates, snapshots) = N
  BY Tables DEF HistoryInv, WindowInv, Sound, HeadKnown, Seqs
<1>2. /\ Len(appended') = N + 1
      /\ \A k \in 1 .. N : appended'[k] = appended[k]
      /\ appended'[N + 1].at = now
  BY <1>1 DEF Edit
<1>3. /\ DOMAIN updates' = DOMAIN updates \cup {N + 1}
      /\ \A k \in DOMAIN updates : updates'[k] = updates[k]
      /\ updates'[N + 1].at = now
      /\ snapshots' = snapshots /\ now' = now
  BY <1>1 DEF Edit, AppendUpdate
<1>4. \A k \in DOMAIN updates : k \in 1 .. N
  BY <1>1, Tables DEF HistoryInv, WindowInv, Sound, RowsTrue
<1> HIDE DEF N
<1>5. RowsDated(updates', appended')
  BY <1>2, <1>3, <1>4 DEF RowsDated, HistoryInv
<1>6. NoGap(updates', appended')
  <2> SUFFICES ASSUME NEW k \in DOMAIN updates', NEW j \in 1 .. (N + 1), k <= j,
                      j # N + 1
               PROVE  j \in DOMAIN updates
    BY <1>2, <1>3 DEF NoGap
  <2>1. j \in 1 .. N /\ k \in DOMAIN updates
    BY <1>1, <1>3
  <2> QED BY <2>1 DEF NoGap, HistoryInv, N
<1>7. ASSUME steady PROVE SnapshotsOrdered(snapshots, appended', now)
  <2>1. SnapshotsOrdered(snapshots, appended, now)
    BY <1>7 DEF HistoryInv
  <2>2. ASSUME NEW m \in DOMAIN snapshots, NEW k \in 1 .. (N + 1), m < k
        PROVE  snapshots[m].at <= appended'[k].at
    <3>1. CASE k = N + 1
      BY <1>2, <2>1, <3>1 DEF SnapshotsOrdered
    <3>2. CASE k # N + 1
      <4>1. k \in 1 .. N
        BY <1>1, <3>2
      <4> QED BY <1>2, <2>1, <2>2, <4>1 DEF SnapshotsOrdered, N
    <3> QED BY <3>1, <3>2
  <2> QED BY <1>2, <2>1, <2>2 DEF SnapshotsOrdered
<1> QED BY <1>3, <1>5, <1>6, <1>7

LEMMA HistoryMaintain ==
  ASSUME HistoryInv, NEW done \in 1 .. 3, Maintain(done)
  PROVE  /\ RowsDated(updates, appended)' /\ NoGap(updates, appended)'
         /\ steady => SnapshotsOrdered(snapshots, appended, now)'
<1> DEFINE taken == MaintainSnapshot(updates, snapshots, doc, now)
<1>1. /\ updates' = IF done >= 2 THEN PruneUpdates(updates, taken, now) ELSE updates
      /\ snapshots' = IF done = 3 THEN PruneSnapshots(taken, now) ELSE taken
      /\ now' = now /\ appended' = appended
  BY DEF Maintain
<1>2. Grown(snapshots, taken, Len(appended), now)
  BY TakenGrows DEF HistoryInv, WindowInv
<1> HIDE DEF taken
<1>3. /\ Len(appended) \in Nat /\ now \in Nat
      /\ DOMAIN snapshots \subseteq 0 .. Len(appended)
      /\ Sound(updates, snapshots, appended)
  BY Tables DEF HistoryInv, WindowInv
<1>4. DOMAIN taken \subseteq Nat /\ DOMAIN updates \subseteq 1 .. Len(appended)
  BY <1>2, <1>3 DEF Grown, Sound, HeadKnown, RowsTrue, Seqs
<1>5. /\ RowsDated(PruneUpdates(updates, taken, now), appended)
      /\ NoGap(PruneUpdates(updates, taken, now), appended)
  BY <1>3, <1>4, PrunedRows DEF HistoryInv
<1>6. ASSUME steady
      PROVE  /\ SnapshotsOrdered(taken, appended, now)
             /\ SnapshotsOrdered(PruneSnapshots(taken, now), appended, now)
  BY <1>2, <1>3, <1>6, GrownOrdered, PrunedOrdered DEF HistoryInv
<1> QED BY <1>1, <1>5, <1>6 DEF HistoryInv

LEMMA HistoryNext == HistoryInv /\ [Next]_vars => HistoryInv'
<1> SUFFICES ASSUME HistoryInv, [Next]_vars
             PROVE  /\ RowsDated(updates, appended)' /\ NoGap(updates, appended)'
                    /\ steady' => SnapshotsOrdered(snapshots, appended, now)'
  BY WindowNext DEF HistoryInv
<1>1. /\ Len(appended) \in Nat /\ now \in Nat
      /\ DOMAIN snapshots \subseteq 0 .. Len(appended)
      /\ \A m \in DOMAIN snapshots : snapshots[m].at \in Nat
  BY Tables DEF HistoryInv, WindowInv
<1>2. ASSUME NEW op \in Ops, Edit(op)
      PROVE  /\ RowsDated(updates, appended)' /\ NoGap(updates, appended)'
             /\ steady' => SnapshotsOrdered(snapshots, appended, now)'
  <2>1. steady' = steady
    BY <1>2 DEF Edit
  <2> QED BY <1>2, <2>1, HistoryEdit
<1>3. ASSUME Grown(snapshots, snapshots', Len(appended), now),
             UNCHANGED <<updates, now, steady, appended>>
      PROVE  /\ RowsDated(updates, appended)' /\ NoGap(updates, appended)'
             /\ steady' => SnapshotsOrdered(snapshots, appended, now)'
  <2>1. steady => SnapshotsOrdered(snapshots', appended, now)
    BY <1>1, <1>3, GrownOrdered DEF HistoryInv
  <2> QED BY <1>3, <2>1 DEF HistoryInv
<1>4. ASSUME NEW label \in Labels, Save(label)
      PROVE  /\ RowsDated(updates, appended)' /\ NoGap(updates, appended)'
             /\ steady' => SnapshotsOrdered(snapshots, appended, now)'
  <2>1. Grown(snapshots, snapshots', Len(appended), now)
    BY <1>4, SaveGrows DEF HistoryInv, WindowInv
  <2> QED BY <1>3, <1>4, <2>1 DEF Save
<1>5. ASSUME NEW n \in DOMAIN snapshots, NEW label \in Labels \cup {NoLabel}, Relabel(n, label)
      PROVE  /\ RowsDated(updates, appended)' /\ NoGap(updates, appended)'
             /\ steady' => SnapshotsOrdered(snapshots, appended, now)'
  <2>1. Grown(snapshots, snapshots', Len(appended), now)
    BY <1>5, RelabelGrows DEF HistoryInv, WindowInv
  <2> QED BY <1>3, <1>5, <2>1 DEF Relabel
<1>6. ASSUME NEW done \in 1 .. 3, Maintain(done)
      PROVE  /\ RowsDated(updates, appended)' /\ NoGap(updates, appended)'
             /\ steady' => SnapshotsOrdered(snapshots, appended, now)'
  <2>1. steady' = steady
    BY <1>6 DEF Maintain
  <2> QED BY <1>6, <2>1, HistoryMaintain
<1>7. CASE Restart \/ UNCHANGED vars
  <2>1. UNCHANGED <<updates, snapshots, now, steady, appended>>
    BY <1>7 DEF Restart, vars
  <2> QED BY <2>1 DEF HistoryInv
<1>8. CASE Tick
  <2>1. PICK t \in 0 .. Horizon : now' = t /\ steady' = (steady /\ t > now)
    BY <1>8 DEF Tick
  <2>2. UNCHANGED <<updates, snapshots, appended>>
    BY <1>8 DEF Tick
  <2>3. ASSUME steady' PROVE SnapshotsOrdered(snapshots, appended, now')
    <3>1. steady /\ t > now
      BY <2>1, <2>3, Zenon
    <3>2. SnapshotsOrdered(snapshots, appended, now)
      BY <3>1 DEF HistoryInv
    <3>3. now' = t /\ t \in Nat
      BY <2>1, ClockAssumption
    <3> QED BY <1>1, <3>1, <3>2, <3>3 DEF SnapshotsOrdered
  <2> QED BY <2>2, <2>3 DEF HistoryInv
<1> QED BY <1>2, <1>4, <1>5, <1>6, <1>7, <1>8 DEF Next

LEMMA HistoryHolds == Spec => []HistoryInv
<1>1. Init => HistoryInv
  <2> SUFFICES ASSUME Init
               PROVE  /\ RowsDated(updates, appended) /\ NoGap(updates, appended)
                      /\ SnapshotsOrdered(snapshots, appended, now)
    BY WindowInit DEF HistoryInv
  <2> QED BY DEF Init, RowsDated, NoGap, SnapshotsOrdered
<1> QED BY <1>1, HistoryNext, PTL DEF Spec
-----------------------------------------------------------------------------
\* What the entries say, of any table of snapshots that ends.
LEMMA BeforeIsOne ==
  ASSUME NEW s, DOMAIN s \subseteq Nat, NEW k, NEW m \in Before(s, k)
  PROVE  Before(s, k) = {m}
BY DEF Before

\* A named snapshot is an entry.
LEMMA NamedListed ==
  ASSUME NEW s, DOMAIN s \subseteq Nat, NEW n \in DOMAIN s, s[n].label # NoLabel
  PROVE  n \in Listed(s)
<1> SUFFICES ASSUME NEW k \in DOMAIN s, n \in Before(s, k), Joins(s, k) PROVE FALSE
  BY DEF Listed
<1>1. Before(s, k) = {n}
  BY BeforeIsOne
<1> QED BY <1>1 DEF Joins

\* The newest snapshot of the table is an entry, and so is the first entry at or after any snapshot.
LEMMA EntryOf ==
  ASSUME NEW s, NEW b \in Nat, DOMAIN s \subseteq 0 .. b, NEW m \in DOMAIN s
  PROVE  \E n \in Listed(s) : {k \in Listed(s) : m \in Session(s, k)} = {n}
<1> DEFINE later == {k \in Listed(s) : m <= k}
<1>1. PICK top \in DOMAIN s : \A k \in DOMAIN s : k <= top
  <2>1. DOMAIN s \in SUBSET Nat /\ DOMAIN s # {} /\ \A k \in DOMAIN s : k <= b
    OBVIOUS
  <2> QED BY <2>1, NatMax
<1>2. Listed(s) \subseteq DOMAIN s /\ DOMAIN s \subseteq Nat
  BY DEF Listed
<1>3. top \in later
  BY <1>1, <1>2 DEF Listed, Before
<1>4. later \in SUBSET Nat
  BY <1>2
<1>5. PICK n \in later : \A k \in later : n <= k
  <2> HIDE DEF later
  <2> QED BY <1>3, <1>4, NatMin
<1>6. m \in Session(s, n)
  BY <1>2, <1>5 DEF Session
<1>7. ASSUME NEW k \in Listed(s), m \in Session(s, k) PROVE k = n
  <2>1. k \in later
    BY <1>7 DEF Session
  <2>2. ~ (n < k)
    BY <1>2, <1>5, <1>7 DEF Session
  <2> QED BY <1>2, <1>5, <2>1, <2>2
<1> QED BY <1>5, <1>6, <1>7

LEMMA MaxIs ==
  ASSUME NEW T \in SUBSET Nat, T # {}, NEW b \in Nat, \A k \in T : k <= b
  PROVE  Max(T) \in T /\ \A k \in T : k <= Max(T)
<1>1. \E m \in T : \A k \in T : m >= k
  <2>1. PICK m \in T : \A k \in T : k <= m
    BY NatMax
  <2> QED BY <2>1
<1>2. Max(T) \in T /\ \A k \in T : Max(T) >= k
  BY <1>1 DEF Max
<1> QED BY <1>2

LEMMA MinIs ==
  ASSUME NEW T \in SUBSET Nat, T # {}
  PROVE  Min(T) \in T /\ \A k \in T : Min(T) <= k
<1>1. \E m \in T : \A k \in T : m <= k
  BY NatMin
<1> QED BY <1>1 DEF Min

\* The entry before: the last of the earlier ones, or 0.
LEMMA PrevIs ==
  ASSUME NEW s, NEW b \in Nat, DOMAIN s \subseteq 0 .. b, NEW n \in DOMAIN s
  PROVE  LET earlier == {k \in Listed(s) : k < n} IN
         /\ PrevEntry(s, n) \in Nat
         /\ \A k \in earlier : k <= PrevEntry(s, n)
         /\ earlier = {} => PrevEntry(s, n) = 0
         /\ earlier # {} => /\ PrevEntry(s, n) = Max(earlier)
                            /\ PrevEntry(s, n) \in earlier
<1> DEFINE earlier == {k \in Listed(s) : k < n}
           prev == PrevEntry(s, n)
<1>1. prev = Max(earlier \cup {0})
  BY DEF PrevEntry
<1>2. earlier \in SUBSET Nat /\ \A k \in earlier : k <= b
  BY DEF Listed
<1> HIDE DEF earlier, prev
<1>3. prev \in earlier \cup {0} /\ \A k \in earlier \cup {0} : k <= prev
  <2>1. /\ earlier \cup {0} \in SUBSET Nat /\ earlier \cup {0} # {}
        /\ \A k \in earlier \cup {0} : k <= b
    BY <1>2
  <2> QED BY <1>1, <2>1, MaxIs
<1>4. ASSUME earlier # {} PROVE prev = Max(earlier) /\ prev \in earlier
  <2>1. Max(earlier) \in earlier /\ \A k \in earlier : k <= Max(earlier)
    BY <1>2, <1>4, MaxIs
  <2> DEFINE m == Max(earlier)
  <2> HIDE DEF m
  <2>2. m \in earlier /\ \A k \in earlier : k <= m
    BY <2>1 DEF m
  <2>3. m \in Nat /\ prev \in Nat /\ 0 <= m
    BY <1>2, <1>3, <2>2
  <2>4. m <= prev /\ prev <= m
    BY <1>3, <2>2, <2>3
  <2>5. prev = m
    BY <2>3, <2>4
  <2> QED BY <2>2, <2>5 DEF m
<1>5. prev \in Nat /\ (earlier = {} => prev = 0)
  BY <1>2, <1>3
<1> QED BY <1>3, <1>4, <1>5 DEF earlier, prev

\* What the parts of the theorem use of the tables.
LEMMA HistoryTables ==
  ASSUME HistoryInv
  PROVE  /\ Len(appended) \in Nat
         /\ DOMAIN snapshots \subseteq 0 .. Len(appended)
         /\ DOMAIN updates \subseteq 1 .. Len(appended)
         /\ \A k \in 1 .. Len(appended) : appended[k].at \in Nat
         /\ \A m \in DOMAIN snapshots : /\ snapshots[m].at \in Nat
                                        /\ snapshots[m].ops = StateAt(m)
         /\ \A k \in DOMAIN updates : updates[k].at = appended[k].at
BY Tables DEF HistoryInv, WindowInv, Sound, HeadKnown, RowsTrue, Seqs, StateAt, RowsDated

\* The log has no gap, so it is complete as soon as its first update is there.
LEMMA CompleteIs ==
  ASSUME HistoryInv, JournalComplete(updates)
  PROVE  DOMAIN updates = 1 .. Len(appended)
<1>1. 1 \in DOMAIN updates
  BY DEF JournalComplete
<1>2. DOMAIN updates \subseteq 1 .. Len(appended)
  BY HistoryTables
<1>3. \A j \in 1 .. Len(appended) : 1 <= j
  BY HistoryTables
<1>4. \A j \in 1 .. Len(appended) : j \in DOMAIN updates
  BY <1>1, <1>3 DEF HistoryInv, NoGap
<1> QED BY <1>2, <1>4

LEMMA ChangesHold ==
  ASSUME HistoryInv, NEW n \in Listed(snapshots),
         ComparedWith(updates, snapshots, n) # Unknown
  PROVE  /\ ComparedWith(updates, snapshots, n) = StateAt(PrevEntry(snapshots, n))
         /\ (\A k \in Listed(snapshots) : n <= k) => DOMAIN updates = 1 .. Len(appended)
<1> DEFINE earlier == {k \in Listed(snapshots) : k < n}
           prev == PrevEntry(snapshots, n)
<1>1. /\ Len(appended) \in Nat /\ DOMAIN snapshots \subseteq 0 .. Len(appended)
      /\ \A m \in DOMAIN snapshots : snapshots[m].ops = StateAt(m)
      /\ Listed(snapshots) \subseteq DOMAIN snapshots
  BY HistoryTables DEF Listed
<1>2. /\ earlier = {} => prev = 0
      /\ earlier # {} => prev = Max(earlier) /\ prev \in earlier
  BY <1>1, PrevIs
<1>3. CASE earlier # {}
  <2>1. ComparedWith(updates, snapshots, n) = snapshots[prev].ops
    BY <1>2, <1>3 DEF ComparedWith
  <2>2. prev \in Listed(snapshots) /\ prev < n
    BY <1>2, <1>3
  <2>3. ~ (n <= prev)
    BY <1>1, <2>2
  <2> QED BY <1>1, <2>1, <2>2, <2>3
<1>4. CASE earlier = {}
  <2>1. JournalComplete(updates) /\ ComparedWith(updates, snapshots, n) = {}
    BY <1>4 DEF ComparedWith
  <2>2. StateAt(prev) = {}
    BY <1>2, <1>4 DEF StateAt, StateOf
  <2> QED BY <2>1, <2>2, CompleteIs
<1> QED BY <1>3, <1>4

\* An entry starts no later than it ends, and no earlier than any entry before it ends.
LEMMA StartedHolds ==
  ASSUME HistoryInv, steady, NEW n \in Listed(snapshots)
  PROVE  /\ Started(updates, snapshots, n) <= snapshots[n].at
         /\ \A k \in Listed(snapshots) :
              k < n => snapshots[k].at <= Started(updates, snapshots, n)
<1> DEFINE prev == PrevEntry(snapshots, n)
           held == {k \in DOMAIN updates : prev < k /\ k <= n}
           folded == Session(snapshots, n)
<1>1. /\ Len(appended) \in Nat /\ DOMAIN snapshots \subseteq 0 .. Len(appended)
      /\ DOMAIN updates \subseteq 1 .. Len(appended)
      /\ \A k \in DOMAIN updates : updates[k].at = appended[k].at
      /\ \A m \in DOMAIN snapshots : snapshots[m].at \in Nat
      /\ Listed(snapshots) \subseteq DOMAIN snapshots
  BY HistoryTables DEF Listed
<1>2. /\ prev \in Nat
      /\ \A k \in Listed(snapshots) : k < n => k <= prev
  BY <1>1, PrevIs
<1>3. /\ \A m \in DOMAIN snapshots : \A k \in 1 .. Len(appended) :
           k <= m => appended[k].at <= snapshots[m].at
      /\ \A m, k \in DOMAIN snapshots : m < k => snapshots[m].at <= snapshots[k].at
      /\ \A m \in DOMAIN snapshots : \A k \in 1 .. Len(appended) :
           m < k => snapshots[m].at <= appended[k].at
  BY DEF HistoryInv, WindowInv, WindowKept, TimesOrdered, SnapshotsOrdered
<1>4. Started(updates, snapshots, n) =
        IF held # {} THEN updates[Min(held)].at ELSE snapshots[Min(folded)].at
  BY DEF Started
<1>5. CASE held # {}
  <2>1. held \in SUBSET Nat
    BY <1>1
  <2> DEFINE f == Min(held)
  <2>2. f \in held
    <3> HIDE DEF held
    <3> QED BY <1>5, <2>1, MinIs
  <2>3. f \in DOMAIN updates /\ prev < f /\ f <= n /\ f \in 1 .. Len(appended)
    BY <1>1, <2>2
  <2>4. Started(updates, snapshots, n) = appended[f].at
    BY <1>1, <1>4, <1>5, <2>3
  <2> HIDE DEF f, held, prev
  <2>5. \A k \in Listed(snapshots) : k < n => k < f
    BY <1>1, <1>2, <2>3
  <2> QED BY <1>1, <1>3, <2>3, <2>4, <2>5
<1>6. CASE held = {}
  <2> DEFINE f == Min(folded)
  <2>1. folded \in SUBSET Nat /\ n \in folded
    BY <1>1 DEF Session
  <2>2. f \in folded /\ f <= n
    <3> HIDE DEF folded
    <3> QED BY <2>1, MinIs
  <2>3. /\ f \in DOMAIN snapshots
        /\ \A k \in Listed(snapshots) : k < n => k < f
    BY <2>2 DEF Session
  <2>4. Started(updates, snapshots, n) = snapshots[f].at
    BY <1>4, <1>6
  <2> HIDE DEF f, held, prev, folded
  <2>5. snapshots[f].at <= snapshots[n].at
    BY <1>1, <1>3, <2>2, <2>3
  <2> QED BY <1>1, <1>3, <2>3, <2>4, <2>5
<1> QED BY <1>5, <1>6

\* What the history tells is true, after any pruning, naming and interruption of maintenance:
\* named versions are entries, an entry that says what changed says what was appended since the
\* entry before, sittings follow one another while the clock only moved forward, and every
\* snapshot is counted in exactly one of them.
THEOREM HistoryCorrect == Spec => []HistoryIsTrue
<1>1. ASSUME HistoryInv PROVE HistoryIsTrue
  <2> DEFINE h == Entries(updates, snapshots)
  <2>1. /\ Len(appended) \in Nat /\ DOMAIN snapshots \subseteq 0 .. Len(appended)
        /\ DOMAIN snapshots \subseteq Nat
        /\ \A m \in DOMAIN snapshots : snapshots[m].ops = StateAt(m)
        /\ Listed(snapshots) \subseteq DOMAIN snapshots
    BY <1>1, HistoryTables DEF Listed
  <2>2. DOMAIN h = Listed(snapshots)
    BY DEF Entries
  <2>3. ASSUME NEW n \in Listed(snapshots)
        PROVE  /\ h[n].at = snapshots[n].at
               /\ h[n].label = snapshots[n].label
               /\ h[n].started = Started(updates, snapshots, n)
               /\ h[n].changes = IF ComparedWith(updates, snapshots, n) = Unknown THEN Unknown
                                 ELSE snapshots[n].ops \ ComparedWith(updates, snapshots, n)
    BY DEF Entries
  <2> HIDE DEF h
  <2>4. NamedAreListed(h)
    <3> SUFFICES ASSUME NEW n \in kept PROVE n \in DOMAIN h /\ h[n].label # NoLabel
      BY DEF NamedAreListed
    <3>1. n \in DOMAIN snapshots /\ snapshots[n].label # NoLabel
      BY <1>1 DEF HistoryInv, WindowInv, JournalInv, NamedVersionsSurvive
    <3> QED BY <2>1, <2>2, <2>3, <3>1, NamedListed
  <2>5. ChangesAreTrue(h)
    <3> SUFFICES ASSUME NEW n \in DOMAIN h, h[n].changes # Unknown
                 PROVE  /\ h[n].changes = StateAt(n) \ StateAt(PrevEntry(snapshots, n))
                        /\ (\A k \in DOMAIN h : n <= k) => DOMAIN updates = 1 .. Len(appended)
      BY DEF ChangesAreTrue
    <3>1. ComparedWith(updates, snapshots, n) # Unknown
      BY <2>2, <2>3
    <3>2. h[n].changes = StateAt(n) \ ComparedWith(updates, snapshots, n)
      BY <2>1, <2>2, <2>3, <3>1
    <3> QED BY <1>1, <2>2, <3>1, <3>2, ChangesHold
  <2>6. SessionsInOrder(h)
    <3> SUFFICES ASSUME steady, NEW n \in DOMAIN h
                 PROVE  /\ h[n].started <= h[n].at
                        /\ \A k \in DOMAIN h : k < n => h[k].at <= h[n].started
      BY DEF SessionsInOrder
    <3>1. /\ Started(updates, snapshots, n) <= snapshots[n].at
          /\ \A k \in Listed(snapshots) :
               k < n => snapshots[k].at <= Started(updates, snapshots, n)
      BY <1>1, <2>2, StartedHolds
    <3> QED BY <2>2, <2>3, <3>1
  <2>7. FoldsEverySnapshot(h)
    BY <2>1, <2>2, EntryOf DEF FoldsEverySnapshot
  <2> QED BY <2>4, <2>5, <2>6, <2>7 DEF HistoryIsTrue, h
<1> QED BY <1>1, HistoryHolds, PTL

(********************************** Merge **********************************)

\* What a note of the source has, and whether the request has read it and not written it yet.
Mine(n) == Text(src[n].doc) \cup src[n].file
Reading(n) == req.at \in {"state", "write"} /\ n = Head(req.order)

Stages == {"idle", "survey", "pictures", "read", "state", "write", "retire"}
Routes == UNION {[D -> Paths] : D \in SUBSET Ids}
Request == [at : Stages, order : Seq(Ids), to : Routes,
            pic : [fate : {"new", "same", "renamed"}, to : PicturePaths],
            text : SUBSET Marks, named : BOOLEAN]

\* The request, by where it is.
ReqInv ==
  /\ req \in Request
  /\ req.at \notin {"idle", "survey"} => ToSet(req.order) \subseteq DOMAIN req.to
  /\ req.at \in {"state", "write"} => req.order # <<>>
  /\ retired => req.at = "idle"
  /\ ToSet(req.order) \subseteq DOMAIN src \cup gone

\* What is in the documents somebody made; a note the source never had is nowhere else.
DocsInv ==
  /\ \A n \in DOMAIN src : /\ src[n].doc.ins \subseteq Marks \X {"src"} /\ src[n].doc.del = {}
                           /\ Mine(n) \subseteq made
  /\ \A n \in Notes : store[n].ins \cup store[n].del \subseteq made \X Bytes
  /\ \A n \in DOMAIN dst : dst[n].doc.ins \cup dst[n].doc.del \subseteq made \X Bytes
  /\ \A n \in DOMAIN dst \cap Ids : dst[n].doc = store[n]
  /\ \A p \in DOMAIN stray : /\ stray[p].id = None /\ stray[p].pic = None /\ stray[p].means = None
                             /\ stray[p].text \subseteq made
  /\ req.text \subseteq made
  /\ \A n \in Ids \ (DOMAIN src \cup gone) : n \notin DOMAIN dst /\ store[n] = Empty

\* A mark of a source's note that was put in again at the destination was in the file that was
\* read, is still there, and either came to the file first, or its first insertion is out.
Again(n, m) == <<m, "dst">> \in store[n].ins \cup store[n].del
Kin(n) ==
  /\ \A m \in Marks : <<m, "src">> \in store[n].ins => <<m, "src">> \in src[n].doc.ins
  /\ \A m \in Mine(n) : Again(n, m) =>
       /\ <<m, "dst">> \notin store[n].del
       /\ m \in src[n].file
       /\ m \in apart \/ <<m, "src">> \in store[n].del
       /\ Reading(n) => m \in req.text
  /\ Reading(n) => req.text \subseteq src[n].file
  /\ Reading(n) => \A m \in req.text \ apart : <<m, "src">> \in src[n].doc.ins
  /\ Reading(n) /\ req.at = "write" /\ n \notin DOMAIN dst =>
       \A m \in req.text \ apart : <<m, "src">> \in store[n].ins
KinInv == \A n \in DOMAIN src : Kin(n)

\* Until the source goes, what was made is there; what the request has read or leaves behind the
\* destination has, or it is in what was read and is yet to be written.
Safe == late \cup over \cup cut \cup DestinationHas
KeptInv ==
  /\ ~ retired => made \subseteq over \cup cut \cup SourceHas \cup DestinationHas
  /\ ~ retired /\ req.at # "idle" =>
       \A n \in DOMAIN src : ~ ToRead(n) =>
         Mine(n) \subseteq Safe \cup (IF Reading(n) THEN req.text ELSE {})
  /\ retired => made \subseteq Safe

\* Where the plan has the source's picture, no other is, but for one it did not know of.
PictureInPlan ==
  req.at \in {"pictures", "read", "state", "write"} =>
    /\ req.pic.fate # "renamed" => req.pic.to = Picture
    /\ req.pic.to \in DOMAIN files => files[req.pic.to] = "src" \/ req.pic.to \in met
PicInv == PicturesResolve /\ PictureInPlan

OwnInv == req.at = "retire" \/ retired => DOMAIN req.to \subseteq DOMAIN dst \cup gone

-----------------------------------------------------------------------------
(* Sequences, paths and texts *)

LEMMA FirstOf ==
  ASSUME NEW S, NEW s \in Seq(S), s # <<>>
  PROVE  /\ Head(s) \in S /\ Tail(s) \in Seq(S)
         /\ ToSet(s) = {Head(s)} \cup ToSet(Tail(s))
<1>1. Len(s) \in Nat \ {0} /\ DOMAIN s = 1 .. Len(s) /\ Head(s) = s[1] /\ \A i \in 1 .. Len(s) : s[i] \in S
  OBVIOUS
<1>2. Tail(s) \in Seq(S) /\ Len(Tail(s)) = Len(s) - 1 /\ DOMAIN Tail(s) = 1 .. Len(s) - 1
  OBVIOUS
<1>3. \A i \in 1 .. Len(s) - 1 : Tail(s)[i] = s[i + 1]
  OBVIOUS
<1>4. ASSUME NEW x \in ToSet(s) PROVE x \in {Head(s)} \cup ToSet(Tail(s))
  <2>1. PICK i \in 1 .. Len(s) : x = s[i]
    BY <1>1, <1>4 DEF ToSet
  <2>2. CASE i = 1
    BY <1>1, <2>1, <2>2
  <2>3. CASE i # 1
    <3>1. i - 1 \in 1 .. Len(s) - 1 /\ Tail(s)[i - 1] = s[i]
      BY <1>1, <1>3, <2>1, <2>3
    <3> QED BY <1>2, <2>1, <3>1 DEF ToSet
  <2> QED BY <2>2, <2>3
<1>5. ASSUME NEW x \in {Head(s)} \cup ToSet(Tail(s)) PROVE x \in ToSet(s)
  <2>1. CASE x = Head(s)
    BY <1>1, <2>1 DEF ToSet
  <2>2. CASE x \in ToSet(Tail(s))
    <3>1. PICK i \in 1 .. Len(s) - 1 : x = Tail(s)[i]
      BY <1>2, <2>2 DEF ToSet
    <3>2. i + 1 \in 1 .. Len(s) /\ x = s[i + 1]
      BY <1>1, <1>3, <3>1
    <3> QED BY <1>1, <3>2 DEF ToSet
  <2> QED BY <1>5, <2>1, <2>2
<1> QED BY <1>1, <1>2, <1>4, <1>5

LEMMA NoneLeft == ToSet(<<>>) = {}
BY DEF ToSet

\* An order of a finite set has all of it.
LEMMA OrderedAll ==
  ASSUME NEW S, IsFiniteSet(S), NEW order \in SetToSeqs(S)
  PROVE  order \in Seq(S) /\ ToSet(order) = S
<1>1. Cardinality(S) \in Nat
  BY FS_CardinalityType
<1>2. /\ order \in [1 .. Cardinality(S) -> S]
      /\ \A i, j \in 1 .. Cardinality(S) : i # j => order[i] # order[j]
  BY DEF SetToSeqs
<1>3. order \in Injection(1 .. Cardinality(S), S)
  BY <1>2 DEF Injection, IsInjective
<1>4. IsFiniteSet(1 .. Cardinality(S)) /\ Cardinality(1 .. Cardinality(S)) = Cardinality(S)
  BY <1>1, FS_Interval
<1>5. order \in Surjection(1 .. Cardinality(S), S)
  BY <1>3, <1>4, FS_Injection
<1>6. \A x \in S : \E i \in 1 .. Cardinality(S) : order[i] = x
  BY <1>5 DEF Surjection
<1> QED BY <1>1, <1>2, <1>6 DEF ToSet

LEMMA LeastNumber ==
  ASSUME NEW S \in SUBSET Alternatives, S # {}
  PROVE  Min(S) \in S
<1>0. \A j \in S : j \in Nat /\ (j = 2 \/ j = 3 \/ j = 4)
  BY DEF Alternatives
<1>1. \E k \in S : \A j \in S : k =< j
  <2>1. CASE 2 \in S
    BY <1>0, <2>1
  <2>2. CASE 2 \notin S /\ 3 \in S
    BY <1>0, <2>2
  <2>3. CASE 2 \notin S /\ 3 \notin S
    BY <1>0, <2>3
  <2> QED BY <2>1, <2>2, <2>3
<1> QED BY <1>1 DEF Min

\* A path the plan turns to is the wanted one or one of its numbers.
LEMMA FreePathIs ==
  ASSUME NEW wanted, NEW taken
  PROVE  FreePath(wanted, taken) \in {wanted} \cup Numbered(wanted)
<1> DEFINE free == {k \in Alternatives : Append(wanted, k) \notin taken}
<1>1. CASE wanted \notin taken \/ free = {}
  BY <1>1 DEF FreePath
<1>2. CASE ~ (wanted \notin taken \/ free = {})
  <2>1. Min(free) \in Alternatives
    BY <1>2, LeastNumber
  <2>2. FreePath(wanted, taken) = Append(wanted, Min(free))
    BY <1>2 DEF FreePath
  <2> QED BY <2>1, <2>2 DEF Numbered
<1> QED BY <1>1, <1>2

LEMMA TextIs ==
  ASSUME NEW body \in Doc
  PROVE  Text(body) \in SUBSET Marks
<1>1. body.ins \subseteq Marks \X Places
  BY DEF Doc, Items
<1>2. \A i \in body.ins : i[1] \in Marks
  BY <1>1
<1> QED BY <1>2 DEF Text, Shown

LEMMA SetTextIs ==
  ASSUME NEW body \in Doc, NEW text \in SUBSET Marks, NEW place \in Places
  PROVE  SetText(body, text, place) \in Doc
BY DEF SetText, Doc, Items

\* A text put in is there, unless a mark of it has been put in and taken out before.
LEMMA SetTextShows ==
  ASSUME NEW body \in Doc, NEW text \in SUBSET Marks, NEW place,
         \A m \in text : <<m, place>> \notin body.del
  PROVE  text \subseteq Text(SetText(body, text, place))
<1> DEFINE new == SetText(body, text, place)
<1>0. /\ new.ins = body.ins \cup {<<m, place>> : m \in text \ Text(body)}
      /\ new.del = body.del \cup {i \in body.ins : i[1] \notin text}
  BY DEF SetText
<1>1. SUFFICES ASSUME NEW m \in text PROVE \E i \in new.ins \ new.del : i[1] = m
  BY DEF Text, Shown
<1>2. CASE m \in Text(body)
  <2>1. PICK i \in body.ins \ body.del : i[1] = m
    BY <1>2 DEF Text, Shown
  <2> QED BY <1>0, <2>1
<1>3. CASE m \notin Text(body)
  <2>1. <<m, place>> \in new.ins /\ <<m, place>>[1] = m
    BY <1>0, <1>3
  <2>2. <<m, place>> \notin new.del
    BY <1>0, <2>1
  <2> QED BY <2>1, <2>2
<1> QED BY <1>2, <1>3

-----------------------------------------------------------------------------
(* Types *)

SrcTypes ==
  /\ DOMAIN src \subseteq Ids
  /\ src \in [DOMAIN src -> [doc : Doc, file : SUBSET Marks, named : BOOLEAN, onDisk : BOOLEAN]]
  /\ srcPic \in BOOLEAN /\ retired \in BOOLEAN
DstTypes ==
  /\ DOMAIN dst \subseteq Notes
  /\ dst \in [DOMAIN dst -> [path : Paths, doc : Doc, pic : PicturePaths \cup {None},
                             means : Bytes \cup {None}]]
  /\ store \in [Notes -> Doc]
StrayTypes == DOMAIN stray \subseteq Paths /\ stray \in [DOMAIN stray -> File]
PicTypes ==
  /\ DOMAIN files \subseteq PicturePaths /\ files \in [DOMAIN files -> Bytes]
  /\ DOMAIN entries \subseteq PicturePaths /\ entries \in [DOMAIN entries -> Bytes]
HistTypes ==
  /\ runs \in 0 .. MaxRuns /\ ops \in 0 .. MaxOps
  /\ made \in SUBSET Marks /\ late \in SUBSET Marks /\ apart \in SUBSET Marks
  /\ over \in SUBSET Marks /\ cut \in SUBSET Marks /\ gone \in SUBSET Notes
  /\ met \in SUBSET PicturePaths
Types == SrcTypes /\ DstTypes /\ StrayTypes /\ PicTypes /\ HistTypes /\ ReqInv

LEMMA TypesGive ==
  ASSUME Types
  PROVE  MergeTypeOK
<1>1. req.at \in Stages /\ DOMAIN req.to \subseteq Ids /\ req.to \in [DOMAIN req.to -> Paths]
  <2>1. req.at \in Stages /\ req.to \in Routes
    BY DEF Types, ReqInv, Request
  <2>2. PICK D \in SUBSET Ids : req.to \in [D -> Paths]
    BY <2>1 DEF Routes
  <2> QED BY <2>1, <2>2
<1>2. UNION {made, late, apart, over, cut} \subseteq Marks
  BY DEF Types, HistTypes
<1>3. SrcTypes /\ DstTypes /\ StrayTypes /\ PicTypes /\ HistTypes
  BY DEF Types
<1> QED BY <1>1, <1>2, <1>3 DEF MergeTypeOK, SrcTypes, DstTypes, StrayTypes, PicTypes, HistTypes, Stages

LEMMA EmptyIs == Empty \in Doc
BY DEF Empty, Doc, Items

LEMMA HomesArePaths ==
  ASSUME NEW n \in Ids \cup Own
  PROVE  Home[n] \in Paths /\ Numbered(Home[n]) \subseteq Paths
<1>1. n \in DOMAIN Home
  BY MergeAssumption
<1>2. {Home[n]} \cup Numbered(Home[n]) \in {{Home[k]} \cup Numbered(Home[k]) : k \in DOMAIN Home}
  BY <1>1
<1>3. {Home[n]} \cup Numbered(Home[n]) \subseteq Paths
  BY <1>2 DEF Paths
<1> QED BY <1>3

\* How a file is taken in: under the name it has, on top of what is known of that note, or as new.
AdoptedAs(n, body, path, file) ==
  /\ n \in Notes /\ n \notin DOMAIN dst /\ body \in Doc
  /\ (n \in Spare /\ n # file.id) \/ (n = file.id /\ n \in Ids)
  /\ body = SetText(IF n = file.id THEN store[n] ELSE Empty, file.text, "dst")
  /\ dst' = [d \in DOMAIN dst \cup {n} |->
       IF d = n THEN [path |-> path, doc |-> body, pic |-> file.pic, means |-> file.means]
       ELSE dst[d]]
  /\ store' = [store EXCEPT ![n] = body]

LEMMA Adopts ==
  ASSUME DstTypes, NEW path, NEW file \in File, Adopt(path, file)
  PROVE  \E n, body : AdoptedAs(n, body, path, file)
<1>1. PICK n \in IF file.id # None /\ file.id \notin DOMAIN dst THEN {file.id} ELSE Spare \ DOMAIN dst :
        LET body == SetText(IF n = file.id THEN store[n] ELSE Empty, file.text, "dst") IN
        /\ dst' = [d \in DOMAIN dst \cup {n} |->
             IF d = n THEN [path |-> path, doc |-> body, pic |-> file.pic, means |-> file.means]
             ELSE dst[d]]
        /\ store' = [store EXCEPT ![n] = IF n = file.id THEN Join(@, body) ELSE body]
  BY DEF Adopt
<1> DEFINE known == IF n = file.id THEN store[n] ELSE Empty
<1>2. PICK body : body = SetText(known, file.text, "dst")
  OBVIOUS
<1>3. file.id \in Ids \cup {None} /\ file.text \in SUBSET Marks
  BY DEF File
<1>4. n \in Notes /\ n \notin DOMAIN dst /\ ((n \in Spare /\ n # file.id) \/ (n = file.id /\ n \in Ids))
  BY <1>3, MergeAssumption DEF Notes
<1>5. known \in Doc /\ "dst" \in Places
  BY <1>4, EmptyIs, MergeAssumption DEF DstTypes
<1>6. body \in Doc
  BY ONLY <1>2, <1>3, <1>5, SetTextIs
<1>7. Join(known, body) = body
  BY <1>2, <1>5 DEF Join, SetText, Doc
<1>8. store' = [store EXCEPT ![n] = body]
  <2>1. CASE n = file.id
    BY <1>1, <1>2, <1>4, <1>7, <2>1 DEF DstTypes
  <2>2. CASE n # file.id
    BY <1>1, <1>2, <2>2
  <2> QED BY <2>1, <2>2
<1>9. AdoptedAs(n, body, path, file)
  BY <1>1, <1>2, <1>4, <1>6, <1>8 DEF AdoptedAs
<1> QED BY <1>9

\* The file a note is written from.
Written(n) ==
  LET pic == IF n \in Pictured THEN PictureRewritten ELSE None IN
  [id |-> IF req.named THEN n ELSE None, text |-> req.text, pic |-> pic,
   means |-> IF n \in Pictured /\ pic \in DOMAIN files THEN "src" ELSE None]

LEMMA Writes ==
  ASSUME Types, NEW n \in Ids, WriteNote(n)
  PROVE  /\ Written(n) \in File /\ n \in DOMAIN req.to /\ req.to[n] \in Paths /\ req.to[n] \notin PathsOf(dst)
         /\ Adopt(req.to[n], Written(n))
         /\ req.order \in Seq(Ids) /\ req.order # <<>> /\ n = Head(req.order) /\ req.at = "write"
<1>1. req \in Request /\ ToSet(req.order) \subseteq DOMAIN req.to /\ req.order # <<>> /\ n = Head(req.order) /\ req.at = "write"
  BY DEF Types, ReqInv, WriteNote, IsNext
<1>2. req.order \in Seq(Ids) /\ req.to \in Routes /\ req.pic.to \in PicturePaths /\ req.text \in SUBSET Marks
      /\ req.named \in BOOLEAN
  BY <1>1 DEF Request
<1>3. n \in DOMAIN req.to /\ req.to[n] \in Paths
  <2>1. n \in ToSet(req.order)
    BY <1>1, <1>2, FirstOf
  <2>2. PICK D \in SUBSET Ids : req.to \in [D -> Paths]
    BY <1>2 DEF Routes
  <2> QED BY <1>1, <2>1, <2>2
<1>4. Written(n) \in File
  <2>1. PictureRewritten \in PicturePaths
    BY <1>2 DEF PictureRewritten, PicturePaths
  <2> QED BY <1>2, <2>1 DEF Written, File, Bytes
<1>5. MergeWrite(req.to[n], Written(n))
  BY DEF WriteNote, Written
<1> QED BY <1>1, <1>2, <1>3, <1>4, <1>5 DEF MergeWrite

\* What happens to the destination's pictures leaves all but them and its notes' text alone.
LEMMA PictureSteps ==
  ASSUME PictureStep
  PROVE  /\ UNCHANGED <<src, srcPic, retired>> /\ source' = source
         /\ UNCHANGED <<store, stray, req, made, runs, late, apart, over, cut, gone>>
         /\ User
         /\ met' = met \/ met' = met \cup {req.pic.to}
<1>1. ASSUME NEW path, NEW b, PutPicture(path, b)
      PROVE  /\ UNCHANGED <<source, store, stray, req, made, runs, late, apart, over, cut, gone>>
             /\ User
             /\ met' = met \/ met' = met \cup {req.pic.to}
  BY <1>1 DEF PutPicture, Expects
<1>2. ASSUME NEW path, NEW b, NamePicture(path, b)
      PROVE  UNCHANGED <<source, store, stray, req, made, runs, late, apart, over, cut, gone, met>> /\ User
  BY <1>2 DEF NamePicture
<1>3. ASSUME NEW n, ShowPicture(n)
      PROVE  UNCHANGED <<source, store, stray, req, made, runs, late, apart, over, cut, gone, met>> /\ User
  BY <1>3 DEF ShowPicture
<1> QED BY <1>1, <1>2, <1>3 DEF PictureStep, source

\* What the notes are, it does not change.
LEMMA PictureNotes ==
  ASSUME DstTypes, PicTypes, PictureStep
  PROVE  /\ DstTypes'
         /\ DOMAIN dst' = DOMAIN dst
         /\ \A d \in DOMAIN dst : dst'[d].path = dst[d].path /\ dst'[d].doc = dst[d].doc
<1> DEFINE Note == [path : Paths, doc : Doc, pic : PicturePaths \cup {None}, means : Bytes \cup {None}]
<1>0. Picture \in PicturePaths /\ store' = store /\ \A d \in DOMAIN dst : dst[d] \in Note
  BY PictureSteps DEF PicturePaths, DstTypes
<1>1. ASSUME NEW b \in Bytes \cup {None}, NEW path, PutPicture(path, b)
      PROVE  /\ dst' \in [DOMAIN dst -> Note]
             /\ \A d \in DOMAIN dst : dst'[d].path = dst[d].path /\ dst'[d].doc = dst[d].doc
  <2>1. dst' = [d \in DOMAIN dst |->
          IF dst[d].pic = path THEN [dst[d] EXCEPT !.means = b] ELSE dst[d]]
    BY <1>1 DEF PutPicture
  <2>2. ASSUME NEW d \in DOMAIN dst
        PROVE  LET new == [dst[d] EXCEPT !.means = b] IN
               new \in Note /\ new.path = dst[d].path /\ new.doc = dst[d].doc
    BY <1>0
  <2> QED BY <1>0, <2>1, <2>2
<1>2. ASSUME NEW path, NEW b, NamePicture(path, b) PROVE dst' = dst
  BY <1>2 DEF NamePicture
<1>3. ASSUME NEW n, ShowPicture(n)
      PROVE  /\ dst' \in [DOMAIN dst -> Note]
             /\ \A d \in DOMAIN dst : dst'[d].path = dst[d].path /\ dst'[d].doc = dst[d].doc
  <2>1. n \in DOMAIN dst /\ files[Picture] \in Bytes
    BY <1>3 DEF ShowPicture, PicTypes
  <2>2. dst' = [dst EXCEPT ![n] = [dst[n] EXCEPT !.pic = Picture, !.means = files[Picture]]]
    BY <1>3, <2>1 DEF ShowPicture, DstTypes
  <2>3. LET new == [dst[n] EXCEPT !.pic = Picture, !.means = files[Picture]] IN
        new \in Note /\ new.path = dst[n].path /\ new.doc = dst[n].doc
    BY <1>0, <2>1
  <2> QED BY <1>0, <2>1, <2>2, <2>3 DEF DstTypes
<1>4. PictureStep => /\ dst' \in [DOMAIN dst -> Note]
                     /\ \A d \in DOMAIN dst : dst'[d].path = dst[d].path /\ dst'[d].doc = dst[d].doc
  <2>1. dst \in [DOMAIN dst -> Note]
    BY DEF DstTypes
  <2> QED BY <1>1, <1>2, <1>3, <2>1 DEF PictureStep
<1> QED BY <1>0, <1>4 DEF DstTypes

LEMMA SrcTypesStep ==
  ASSUME Types, [MergeNext]_mergeVars
  PROVE  SrcTypes'
<1>0. SrcTypes /\ MaxOps \in Nat
  BY MergeAssumption DEF Types
<1>1. CASE UNCHANGED source
  BY <1>0, <1>1 DEF source, SrcTypes
<1>2. ASSUME NEW n \in Ids, CreateNote(n) PROVE SrcTypes'
  BY <1>0, <1>2, EmptyIs DEF CreateNote, SrcTypes
<1>3. ASSUME NEW n \in Ids, Settle(n) PROVE SrcTypes'
  <2>1. src[n].doc \in Doc /\ src[n].file \in SUBSET Marks /\ n \in DOMAIN src
    BY <1>0, <1>3 DEF Settle, SrcTypes
  <2>2. InStep(src[n]).doc \in Doc /\ "src" \in Places
    BY <2>1, MergeAssumption DEF InStep, Doc, Items
  <2>3. InStep(src[n]).file \in SUBSET Marks
    BY <2>2, TextIs DEF InStep
  <2>4. InStep(src[n]) \in [doc : Doc, file : SUBSET Marks, named : BOOLEAN, onDisk : BOOLEAN]
    BY <2>2, <2>3 DEF InStep
  <2> QED BY <1>0, <1>3, <2>1, <2>4 DEF Settle, SrcTypes
<1>4. ASSUME NEW n \in Ids, DeleteFromSource(n) PROVE SrcTypes'
  BY <1>0, <1>4 DEF DeleteFromSource, SrcTypes
<1>5. ASSUME NEW n \in Ids, NEW m \in Marks, Type(n, m) PROVE SrcTypes'
  <2>1. src[n].doc \in Doc /\ n \in DOMAIN src
    BY <1>0, <1>5 DEF Type, SrcTypes
  <2>2. [src[n].doc EXCEPT !.ins = @ \cup {<<m, "src">>}] \in Doc
    BY <2>1, MergeAssumption DEF Doc, Items
  <2>3. src' = [src EXCEPT ![n] = [src[n] EXCEPT !.doc = [src[n].doc EXCEPT !.ins = @ \cup {<<m, "src">>}]]]
    BY <1>5, <2>1 DEF Type, SrcTypes
  <2>4. [src[n] EXCEPT !.doc = [src[n].doc EXCEPT !.ins = @ \cup {<<m, "src">>}]]
          \in [doc : Doc, file : SUBSET Marks, named : BOOLEAN, onDisk : BOOLEAN]
    BY <1>0, <2>1, <2>2 DEF SrcTypes
  <2>5. srcPic' = srcPic /\ retired' = retired
    BY <1>5 DEF Type, SourceGains
  <2> QED BY <1>0, <2>1, <2>3, <2>4, <2>5 DEF SrcTypes
<1>6. ASSUME NEW n \in Ids, NEW m \in Marks, NEW named \in BOOLEAN, SaveFile(n, m, named) PROVE SrcTypes'
  <2>1. src' = [src EXCEPT ![n] = [src[n] EXCEPT !.file = @ \cup {m}, !.named = named]]
    BY <1>0, <1>6 DEF SaveFile, SrcTypes
  <2> QED BY <1>0, <1>6, <2>1 DEF SaveFile, SourceGains, SrcTypes
<1>7. CASE FetchPicture
  BY <1>0, <1>7 DEF FetchPicture, SrcTypes
<1>8. CASE Retire
  BY <1>0, <1>8 DEF Retire, SrcTypes
<1>9. CASE UNCHANGED mergeVars
  BY <1>1, <1>9 DEF mergeVars, source
<1>10. ASSUME NEW n \in Ids, RequestStep(n) PROVE UNCHANGED source
  BY <1>10 DEF RequestStep, ReadNote, CarryState, WriteNote, source
<1>11. ASSUME NEW n \in Ids \cup Own \cup Spare, DeleteThere(n) \/ \E m \in Marks : TypeThere(n, m) PROVE UNCHANGED source
  BY <1>11 DEF DeleteThere, TypeThere, source
<1>12. ASSUME NEW n \in Own, NEW path \in Wanted, CreateThere(n, path) PROVE UNCHANGED source
  BY <1>12 DEF CreateThere, source
<1>13. ASSUME NEW path \in Wanted, TakeIn(path) \/ \E m \in Marks : PutFile(path, m) PROVE UNCHANGED source
  BY <1>13 DEF TakeIn, PutFile, source
<1>14. ASSUME Start \/ Plan \/ CopyPicture \/ CheckLanded \/ Fail PROVE UNCHANGED source
  BY <1>14 DEF Start, Plan, CopyPicture, CheckLanded, Fail, source
<1>15. ASSUME PictureStep PROVE UNCHANGED source
  BY <1>15, PictureSteps
<1> QED
  BY <1>15, <1>1, <1>2, <1>3, <1>4, <1>5, <1>6, <1>7, <1>8, <1>9, <1>10, <1>11, <1>12, <1>13, <1>14 DEF MergeNext

LEMMA AdoptTypes ==
  ASSUME DstTypes, NEW path \in Paths, NEW file \in File, Adopt(path, file)
  PROVE  DstTypes'
<1>1. PICK n, body : AdoptedAs(n, body, path, file)
  BY Adopts
<1>2. [path |-> path, doc |-> body, pic |-> file.pic, means |-> file.means]
        \in [path : Paths, doc : Doc, pic : PicturePaths \cup {None}, means : Bytes \cup {None}]
  BY <1>1 DEF AdoptedAs, File
<1> QED BY <1>1, <1>2 DEF AdoptedAs, DstTypes

LEMMA DstTypesStep ==
  ASSUME Types, [MergeNext]_mergeVars
  PROVE  DstTypes'
<1>0. DstTypes /\ StrayTypes /\ PicTypes
  BY DEF Types
<1>1. CASE UNCHANGED <<dst, store>>
  BY <1>0, <1>1 DEF DstTypes, Notes
<1>2. ASSUME NEW n \in Ids, WriteNote(n) PROVE DstTypes'
  BY <1>0, <1>2, Writes, AdoptTypes
<1>3. ASSUME NEW path \in Wanted, TakeIn(path) PROVE DstTypes'
  BY <1>0, <1>3, AdoptTypes DEF TakeIn, StrayTypes
<1>4. ASSUME NEW n \in Ids \cup Own \cup Spare, NEW m \in Marks, TypeThere(n, m) PROVE DstTypes'
  <2>1. n \in DOMAIN dst /\ n \in Notes /\ dst[n].doc \in Doc
    BY <1>0, <1>4 DEF TypeThere, DstTypes, Notes
  <2>2. PICK body : body = [dst[n].doc EXCEPT !.ins = @ \cup {<<m, "dst">>}]
    OBVIOUS
  <2>3. body \in Doc
    BY <2>1, <2>2, MergeAssumption DEF Doc, Items
  <2>4. dst' = [dst EXCEPT ![n] = [dst[n] EXCEPT !.doc = body]]
    BY <1>0, <1>4, <2>1, <2>2 DEF TypeThere, DstTypes
  <2>5. [dst[n] EXCEPT !.doc = body]
          \in [path : Paths, doc : Doc, pic : PicturePaths \cup {None}, means : Bytes \cup {None}]
    BY <1>0, <2>1, <2>3 DEF DstTypes
  <2>6. store' = [store EXCEPT ![n] = body]
    <3>1. store' = [store EXCEPT ![n] = dst'[n].doc]
      BY <1>4 DEF TypeThere
    <3>2. dst'[n].doc = body
      BY <1>0, <2>1, <2>4 DEF DstTypes
    <3> QED BY <3>1, <3>2
  <2> QED BY <1>0, <2>1, <2>3, <2>4, <2>5, <2>6 DEF DstTypes
<1>5. ASSUME NEW n \in Own, NEW path \in Wanted, CreateThere(n, path) PROVE DstTypes'
  <2>1. path \in Paths
    BY <1>5, HomesArePaths DEF Wanted
  <2>2. [path |-> path, doc |-> Empty, pic |-> None, means |-> None]
          \in [path : Paths, doc : Doc, pic : PicturePaths \cup {None}, means : Bytes \cup {None}]
    BY <2>1, EmptyIs
  <2>3. n \in Notes /\ store' = store
        /\ dst' = [d \in DOMAIN dst \cup {n} |->
             IF d = n THEN [path |-> path, doc |-> Empty, pic |-> None, means |-> None] ELSE dst[d]]
    BY <1>5 DEF CreateThere, Notes
  <2> QED BY <1>0, <2>2, <2>3 DEF DstTypes
<1>6. ASSUME NEW n \in Ids \cup Own \cup Spare, DeleteThere(n) PROVE DstTypes'
  BY <1>0, <1>6 DEF DeleteThere, DstTypes
<1>7. ASSUME NEW n \in Ids, CarryState(n) PROVE DstTypes'
  <2>1. dst' = dst /\ store' \in {store, [store EXCEPT ![n] = Join(@, src[n].doc)]} /\ (store' # store => n \in DOMAIN src)
    BY <1>7 DEF CarryState
  <2>2. ASSUME n \in DOMAIN src PROVE Join(store[n], src[n].doc) \in Doc
    <3>1. store[n] \in Doc /\ src[n].doc \in Doc
      BY <1>0, <2>2 DEF Types, SrcTypes, DstTypes, Notes
    <3> QED BY <3>1 DEF Join, Doc
  <2> QED BY <1>0, <2>1, <2>2 DEF DstTypes, Notes
<1>8. CASE UNCHANGED mergeVars
  BY <1>1, <1>8 DEF mergeVars, destination
<1>9. ASSUME NEW n \in Ids, CreateNote(n) \/ Settle(n) \/ DeleteFromSource(n) \/ ReadNote(n) PROVE UNCHANGED <<dst, store>>
  BY <1>9 DEF CreateNote, Settle, DeleteFromSource, ReadNote, destination
<1>10. ASSUME NEW n \in Ids, NEW m \in Marks, Type(n, m) \/ \E named \in BOOLEAN : SaveFile(n, m, named)
       PROVE UNCHANGED <<dst, store>>
  BY <1>10 DEF Type, SaveFile, SourceGains, destination
<1>11. ASSUME NEW path \in Wanted, NEW m \in Marks, PutFile(path, m) PROVE UNCHANGED <<dst, store>>
  BY <1>11 DEF PutFile
<1>12. ASSUME FetchPicture \/ Start \/ Plan \/ CopyPicture \/ CheckLanded \/ Retire \/ Fail PROVE UNCHANGED <<dst, store>>
  BY <1>12 DEF FetchPicture, Start, Plan, CopyPicture, CheckLanded, Retire, Fail, destination
<1>13. CASE PictureStep
  BY <1>0, <1>13, PictureNotes
<1> QED
  BY <1>13, <1>1, <1>2, <1>3, <1>4, <1>5, <1>6, <1>7, <1>8, <1>9, <1>10, <1>11, <1>12 DEF MergeNext, RequestStep

LEMMA StrayTypesStep ==
  ASSUME Types, [MergeNext]_mergeVars
  PROVE  StrayTypes'
<1>0. StrayTypes
  BY DEF Types
<1>1. CASE UNCHANGED stray
  BY <1>0, <1>1 DEF StrayTypes
<1>2. ASSUME NEW path, stray' = [p \in DOMAIN stray \ {path} |-> stray[p]] PROVE StrayTypes'
  BY <1>0, <1>2 DEF StrayTypes
<1>3. ASSUME NEW n \in Ids, WriteNote(n) PROVE StrayTypes'
  BY <1>2, <1>3 DEF WriteNote, MergeWrite
<1>4. ASSUME NEW path \in Wanted, TakeIn(path) PROVE StrayTypes'
  BY <1>2, <1>4 DEF TakeIn
<1>5. ASSUME NEW path \in Wanted, NEW m \in Marks, PutFile(path, m) PROVE StrayTypes'
  <2>1. path \in Paths
    BY HomesArePaths DEF Wanted
  <2>2. [id |-> None, text |-> {m}, pic |-> None, means |-> None] \in File
    BY DEF File
  <2> QED BY <1>0, <1>5, <2>1, <2>2 DEF PutFile, StrayTypes
<1>6. CASE UNCHANGED mergeVars
  BY <1>1, <1>6 DEF mergeVars, destination
<1>7. ASSUME NEW n \in Ids, CreateNote(n) \/ Settle(n) \/ DeleteFromSource(n) \/ ReadNote(n) \/ CarryState(n)
      PROVE UNCHANGED stray
  BY <1>7 DEF CreateNote, Settle, DeleteFromSource, ReadNote, CarryState, destination
<1>8. ASSUME NEW n \in Ids, NEW m \in Marks, Type(n, m) \/ \E named \in BOOLEAN : SaveFile(n, m, named)
      PROVE UNCHANGED stray
  BY <1>8 DEF Type, SaveFile, SourceGains, destination
<1>9. ASSUME NEW n \in Ids \cup Own \cup Spare, DeleteThere(n) \/ \E m \in Marks : TypeThere(n, m) PROVE UNCHANGED stray
  BY <1>9 DEF DeleteThere, TypeThere
<1>10. ASSUME NEW n \in Own, NEW path \in Wanted, CreateThere(n, path) PROVE UNCHANGED stray
  BY <1>10 DEF CreateThere
<1>11. ASSUME FetchPicture \/ Start \/ Plan \/ CopyPicture \/ CheckLanded \/ Retire \/ Fail PROVE UNCHANGED stray
  BY <1>11 DEF FetchPicture, Start, Plan, CopyPicture, CheckLanded, Retire, Fail, destination
<1>12. ASSUME PictureStep PROVE UNCHANGED stray
  BY <1>12, PictureSteps
<1> QED
  BY <1>12, <1>1, <1>3, <1>4, <1>5, <1>6, <1>7, <1>8, <1>9, <1>10, <1>11 DEF MergeNext, RequestStep

LEMMA PlannedPicture ==
  /\ PlanPicture \in [fate : {"new", "same", "renamed"}, to : PicturePaths]
  /\ PlanPicture.fate # "renamed" => PlanPicture.to = Picture
<1> DEFINE renamed == FreePath(Suffixed, DOMAIN Surveyed)
<1>1. renamed \in {Suffixed} \cup Numbered(Suffixed)
  BY FreePathIs
<1>2. renamed \in PicturePaths /\ Picture \in PicturePaths
  BY <1>1 DEF PicturePaths
<1> QED BY <1>2 DEF PlanPicture

LEMMA WithIs ==
  ASSUME NEW pics, NEW path \in PicturePaths, NEW b \in Bytes \cup {None},
         DOMAIN pics \subseteq PicturePaths, pics \in [DOMAIN pics -> Bytes]
  PROVE  /\ DOMAIN With(pics, path, b) \subseteq PicturePaths
         /\ With(pics, path, b) \in [DOMAIN With(pics, path, b) -> Bytes]
<1> DEFINE new == With(pics, path, b)
<1>1. new = [p \in (DOMAIN pics \cup {path}) \ {q \in {path} : b = None} |->
                IF p = path THEN b ELSE pics[p]]
  BY DEF With
<1>2. DOMAIN new = (DOMAIN pics \cup {path}) \ {q \in {path} : b = None}
  BY <1>1
<1>3. ASSUME NEW p \in DOMAIN new PROVE new[p] \in Bytes
  <2>1. CASE p = path
    BY <1>1, <1>2, <1>3, <2>1
  <2>2. CASE p # path
    BY <1>1, <1>2, <1>3, <2>2
  <2> QED BY <2>1, <2>2
<1>4. new = [p \in DOMAIN new |-> new[p]]
  BY <1>1, <1>2
<1>5. DOMAIN new \subseteq PicturePaths
  BY <1>2
<1> HIDE DEF new
<1>6. new \in [DOMAIN new -> Bytes]
  BY <1>3, <1>4
<1> QED BY <1>5, <1>6 DEF new

LEMMA PicTypesStep ==
  ASSUME Types, [MergeNext]_mergeVars
  PROVE  PicTypes'
<1>0. PicTypes /\ req.pic.to \in PicturePaths
  BY DEF Types, ReqInv, Request
<1>1. CASE UNCHANGED pictures
  BY <1>0, <1>1 DEF pictures, PicTypes
<1>2. ASSUME NEW path \in {Picture, Suffixed}, NEW b \in Bytes \cup {None},
             PutPicture(path, b) \/ NamePicture(path, b)
      PROVE  PicTypes'
  <2>1. path \in PicturePaths
    BY <1>2 DEF PicturePaths
  <2>2. CASE PutPicture(path, b)
    <3>1. files' = With(files, path, b) /\ entries' = entries
      BY <2>2 DEF PutPicture
    <3> QED BY <1>0, <2>1, <3>1, WithIs DEF PicTypes
  <2>3. CASE NamePicture(path, b)
    <3>1. entries' = With(entries, path, b) /\ files' = files
      BY <2>3 DEF NamePicture
    <3> QED BY <1>0, <2>1, <3>1, WithIs DEF PicTypes
  <2> QED BY <1>2, <2>2, <2>3
<1>3. ASSUME NEW n \in Ids, WriteNote(n) PROVE UNCHANGED pictures
  BY <1>3 DEF WriteNote, MergeWrite
<1>4. ASSUME NEW path \in Wanted, TakeIn(path) PROVE UNCHANGED pictures
  BY <1>4 DEF TakeIn
<1>5. CASE CopyPicture
  <2>1. entries' = entries
    BY <1>5 DEF CopyPicture
  <2>2. CASE files' = files
    BY <1>0, <2>1, <2>2 DEF PicTypes
  <2>3. CASE files' = With(files, req.pic.to, "src")
    BY <1>0, <2>1, <2>3, WithIs DEF PicTypes, Bytes
  <2> QED BY <1>5, <2>2, <2>3 DEF CopyPicture
<1>6. CASE UNCHANGED mergeVars
  BY <1>1, <1>6 DEF mergeVars, destination
<1>7. ASSUME NEW n \in Ids, CreateNote(n) \/ Settle(n) \/ DeleteFromSource(n) \/ ReadNote(n) \/ CarryState(n)
      PROVE UNCHANGED pictures
  BY <1>7 DEF CreateNote, Settle, DeleteFromSource, ReadNote, CarryState, destination
<1>8. ASSUME NEW n \in Ids, NEW m \in Marks, Type(n, m) \/ \E named \in BOOLEAN : SaveFile(n, m, named)
      PROVE UNCHANGED pictures
  BY <1>8 DEF Type, SaveFile, SourceGains, destination
<1>9. ASSUME NEW n \in Ids \cup Own \cup Spare, DeleteThere(n) \/ \E m \in Marks : TypeThere(n, m) PROVE UNCHANGED pictures
  BY <1>9 DEF DeleteThere, TypeThere
<1>10. ASSUME NEW path \in Wanted, (\E n \in Own : CreateThere(n, path)) \/ (\E m \in Marks : PutFile(path, m))
       PROVE UNCHANGED pictures
  BY <1>10 DEF CreateThere, PutFile
<1>11. ASSUME FetchPicture \/ Start \/ Plan \/ CheckLanded \/ Retire \/ Fail PROVE UNCHANGED pictures
  BY <1>11 DEF FetchPicture, Start, Plan, CheckLanded, Retire, Fail, destination
<1>12. ASSUME NEW n, ShowPicture(n) PROVE UNCHANGED pictures
  BY <1>12 DEF ShowPicture
<1>13. CASE PictureStep
  BY <1>1, <1>2, <1>12, <1>13 DEF PictureStep
<1> QED
  BY <1>13, <1>1, <1>3, <1>4, <1>5, <1>6, <1>7, <1>8, <1>9, <1>10, <1>11 DEF MergeNext, RequestStep

LEMMA HistTypesStep ==
  ASSUME Types, [MergeNext]_mergeVars
  PROVE  HistTypes'
<1>0. HistTypes /\ SrcTypes /\ DstTypes /\ StrayTypes /\ MaxOps \in Nat /\ MaxRuns \in Nat
  BY MergeAssumption DEF Types
<1>1. runs' \in 0 .. MaxRuns /\ ops' \in 0 .. MaxOps
  <2> DEFINE Counts == \/ runs' = runs /\ ops' = ops
                       \/ runs < MaxRuns /\ runs' = runs + 1 /\ ops' = ops
                       \/ User /\ runs' = runs
  <2>1. ASSUME NEW n \in Ids, CreateNote(n) \/ Settle(n) \/ DeleteFromSource(n) \/ RequestStep(n) PROVE Counts
    BY <2>1 DEF CreateNote, Settle, DeleteFromSource, RequestStep, ReadNote, CarryState, WriteNote, history
  <2>2. ASSUME NEW n \in Ids, NEW m \in Marks, Type(n, m) \/ \E named \in BOOLEAN : SaveFile(n, m, named) PROVE Counts
    BY <2>2 DEF Type, SaveFile, SourceGains
  <2>3. ASSUME NEW n \in Ids \cup Own \cup Spare, DeleteThere(n) \/ \E m \in Marks : TypeThere(n, m) PROVE Counts
    BY <2>3 DEF DeleteThere, TypeThere
  <2>4. ASSUME NEW path \in Wanted,
               (\E n \in Own : CreateThere(n, path)) \/ (\E m \in Marks : PutFile(path, m)) \/ TakeIn(path)
        PROVE  Counts
    BY <2>4 DEF CreateThere, PutFile, TakeIn, history
  <2>5. ASSUME Start \/ Plan \/ CopyPicture \/ CheckLanded \/ Retire \/ Fail \/ FetchPicture \/ UNCHANGED mergeVars
        PROVE  Counts
    BY <2>5 DEF Start, Plan, CopyPicture, CheckLanded, Retire, Fail, FetchPicture, mergeVars, history
  <2>6. ASSUME PictureStep PROVE Counts
    BY <2>6, PictureSteps
  <2> HIDE DEF Counts
  <2>7. Counts
    BY <2>1, <2>2, <2>3, <2>4, <2>5, <2>6 DEF MergeNext
  <2> QED BY <1>0, <2>7 DEF Counts, User, HistTypes
<1>2. made' \in SUBSET Marks
  <2>1. made' = made \/ \E m \in Marks : made' = made \cup {m}
    BY PictureSteps DEF MergeNext, RequestStep, mergeVars, history, CreateNote, Settle, DeleteFromSource, ReadNote, CarryState, WriteNote,
       Type, SaveFile, SourceGains, FetchPicture, DeleteThere, TypeThere, CreateThere, TakeIn, PutFile,
       Start, Plan, CopyPicture, CheckLanded, Retire, Fail
  <2> QED BY <1>0, <2>1 DEF HistTypes
<1>3. /\ \A n \in DOMAIN src : Text(src[n].doc) \in SUBSET Marks /\ src[n].file \in SUBSET Marks
      /\ \A n \in DOMAIN dst : Text(dst[n].doc) \in SUBSET Marks
      /\ \A p \in DOMAIN stray : stray[p].text \in SUBSET Marks
  <2>1. \A n \in DOMAIN src : src[n].doc \in Doc /\ src[n].file \in SUBSET Marks
    BY <1>0 DEF SrcTypes
  <2>2. \A n \in DOMAIN dst : dst[n].doc \in Doc
    BY <1>0 DEF DstTypes
  <2>3. \A p \in DOMAIN stray : stray[p].text \in SUBSET Marks
    BY <1>0 DEF StrayTypes, File
  <2> QED BY <2>1, <2>2, <2>3, TextIs
<1>4. late' \in SUBSET Marks
  <2>1. \/ late' \in {late, {}}
        \/ \E m \in Marks : late' = late \cup {m}
        \/ \E n \in DOMAIN src : late' = late \cup (Text(src[n].doc) \ src[n].file)
    BY PictureSteps DEF MergeNext, RequestStep, mergeVars, history, CreateNote, Settle, DeleteFromSource, ReadNote, CarryState, WriteNote,
       Type, SaveFile, SourceGains, FetchPicture, DeleteThere, TypeThere, CreateThere, TakeIn, PutFile,
       Start, Plan, CopyPicture, CheckLanded, Retire, Fail
  <2> QED BY <1>0, <1>3, <2>1 DEF HistTypes
<1>5. apart' \in SUBSET Marks
  <2>1. \/ apart' = apart
        \/ apart' = apart \cup req.text
        \/ \E n \in DOMAIN src : apart' = apart \cup (src[n].file \ Text(src[n].doc))
    BY PictureSteps DEF MergeNext, RequestStep, mergeVars, history, CreateNote, Settle, DeleteFromSource, ReadNote, CarryState, WriteNote,
       Type, SaveFile, SourceGains, FetchPicture, DeleteThere, TypeThere, CreateThere, TakeIn, PutFile,
       Start, Plan, CopyPicture, CheckLanded, Retire, Fail
  <2>2. req.text \in SUBSET Marks
    BY DEF Types, ReqInv, Request
  <2> QED BY <1>0, <1>3, <2>1, <2>2 DEF HistTypes
<1>6. over' \in SUBSET Marks
  <2>1. \/ over' = over
        \/ \E n \in Ids : over' = over \cup UNION {stray[p].text : p \in {req.to[n]} \cap DOMAIN stray}
    BY PictureSteps DEF MergeNext, RequestStep, mergeVars, history, CreateNote, Settle, DeleteFromSource, ReadNote, CarryState, WriteNote,
       Type, SaveFile, SourceGains, FetchPicture, DeleteThere, TypeThere, CreateThere, TakeIn, PutFile,
       Start, Plan, CopyPicture, CheckLanded, Retire, Fail
  <2> QED BY <1>0, <1>3, <2>1 DEF HistTypes
<1>7. cut' \in SUBSET Marks
  <2>1. \/ cut' = cut
        \/ \E n \in DOMAIN src : cut' = cut \cup Text(src[n].doc) \cup src[n].file
        \/ \E n \in DOMAIN dst : cut' = cut \cup Text(dst[n].doc)
    BY PictureSteps DEF MergeNext, RequestStep, mergeVars, history, CreateNote, Settle, DeleteFromSource, ReadNote, CarryState, WriteNote,
       Type, SaveFile, SourceGains, FetchPicture, DeleteThere, TypeThere, CreateThere, TakeIn, PutFile,
       Start, Plan, CopyPicture, CheckLanded, Retire, Fail
  <2> QED BY <1>0, <1>3, <2>1 DEF HistTypes
<1>8. gone' \in SUBSET Notes
  <2>1. gone' = gone \/ \E n \in Notes : gone' = gone \cup {n}
    BY PictureSteps DEF MergeNext, RequestStep, mergeVars, history, CreateNote, Settle, DeleteFromSource, ReadNote, CarryState, WriteNote,
       Type, SaveFile, SourceGains, FetchPicture, DeleteThere, TypeThere, CreateThere, TakeIn, PutFile,
       Start, Plan, CopyPicture, CheckLanded, Retire, Fail, Notes
  <2> QED BY <1>0, <2>1 DEF HistTypes, Notes
<1>9. met' \in SUBSET PicturePaths
  <2>1. req.pic.to \in PicturePaths /\ PlanPicture.to \in PicturePaths
    BY PlannedPicture DEF Types, ReqInv, Request
  <2>2. \/ met' = met
        \/ met' = met \cup {req.pic.to}
        \/ met' = met \cup {PlanPicture.to}
    BY PictureSteps DEF MergeNext, RequestStep, mergeVars, history, CreateNote, Settle, DeleteFromSource, ReadNote, CarryState,
       WriteNote, Type, SaveFile, SourceGains, FetchPicture, DeleteThere, TypeThere, CreateThere, TakeIn, PutFile,
       Start, Plan, CopyPicture, CheckLanded, Retire, Fail
  <2> QED BY <1>0, <2>1, <2>2 DEF HistTypes
<1> QED BY <1>9, <1>1, <1>2, <1>4, <1>5, <1>6, <1>7, <1>8 DEF HistTypes

LEMMA ReqInvStep ==
  ASSUME Types, [MergeNext]_mergeVars
  PROVE  ReqInv'
<1>0. ReqInv /\ SrcTypes /\ PicTypes /\ DstTypes
  BY DEF Types
<1>t. /\ req.at \in Stages /\ req.order \in Seq(Ids) /\ req.to \in Routes /\ req.text \in SUBSET Marks
      /\ req.named \in BOOLEAN /\ req.pic \in [fate : {"new", "same", "renamed"}, to : PicturePaths]
  BY <1>0 DEF ReqInv, Request
<1>i. Idle \in Request /\ Idle.at = "idle" /\ Idle.order = <<>>
  <2>1. [m \in {} |-> <<>>] \in Routes
    <3>1. [m \in {} |-> <<>>] \in [{} -> Paths]
      OBVIOUS
    <3> QED BY <3>1 DEF Routes
  <2>2. Picture \in PicturePaths
    BY DEF PicturePaths
  <2> QED BY <2>1, <2>2 DEF Idle, Request, Stages
<1>1. CASE UNCHANGED req /\ DOMAIN src \cup gone \subseteq (DOMAIN src \cup gone)' /\ retired' = retired
  BY <1>0, <1>1 DEF ReqInv, Request
<1>2. CASE Start
  <2>1. IsFiniteSet(DOMAIN src)
    BY <1>0, MergeAssumption, FS_Subset DEF SrcTypes
  <2>2. PICK order \in SetToSeqs(DOMAIN src) : req' = [Idle EXCEPT !.at = "survey", !.order = order]
    BY <1>2 DEF Start
  <2>3. order \in Seq(DOMAIN src) /\ ToSet(order) = DOMAIN src
    BY <2>1, <2>2, OrderedAll
  <2>4. order \in Seq(Ids)
    BY <1>0, <2>3 DEF SrcTypes
  <2>5. req' \in Request /\ req'.at = "survey" /\ req'.order = order
    BY <1>i, <2>2, <2>4 DEF Request, Stages
  <2>6. retired' = retired /\ ~ retired /\ src' = src /\ gone' = gone
    BY <1>2 DEF Start, source
  <2> QED BY <2>3, <2>5, <2>6 DEF ReqInv
<1>3. CASE Plan
  <2>1. PICK to \in [ToSet(req.order) -> Paths] :
          req' = [req EXCEPT !.at = "pictures", !.to = to, !.pic = PlanPicture]
    BY <1>3 DEF Plan
  <2>2. ToSet(req.order) \in SUBSET Ids
    BY <1>t DEF ToSet
  <2>3. to \in Routes
    BY <2>1, <2>2 DEF Routes
  <2>4. req' \in Request /\ req'.at = "pictures" /\ req'.order = req.order /\ req'.to = to
    BY <1>0, <2>1, <2>3, PlannedPicture DEF ReqInv, Request, Stages
  <2>5. retired' = retired /\ src' = src /\ gone' = gone /\ ~ retired
    BY <1>0, <1>3 DEF Plan, source, history, ReqInv
  <2> QED BY <1>0, <2>1, <2>4, <2>5 DEF ReqInv
<1>4. ASSUME NEW at \in Stages \ {"idle"}, req' = [req EXCEPT !.at = at], UNCHANGED <<src, gone, retired>>,
             req.at \notin {"idle", "survey"}, at \in {"state", "write"} => req.order # <<>>
      PROVE ReqInv'
  BY <1>0, <1>4 DEF ReqInv, Request
<1>5. CASE CopyPicture
  BY <1>4, <1>5 DEF CopyPicture, source, history, Stages
<1>6. ASSUME NEW n \in Ids, ReadNote(n) PROVE ReqInv'
  <2>1. /\ req' = [req EXCEPT !.at = "state", !.text = src[n].file, !.named = src[n].named]
        /\ n \in DOMAIN src /\ req.at = "read" /\ req.order # <<>> /\ UNCHANGED <<src, gone, retired>>
    BY <1>6 DEF ReadNote, IsNext, source
  <2>2. src[n].file \in SUBSET Marks /\ src[n].named \in BOOLEAN
    BY <1>0, <2>1 DEF SrcTypes
  <2> QED BY <1>0, <2>1, <2>2 DEF ReqInv, Request, Stages
<1>7. ASSUME NEW n \in Ids, CarryState(n) PROVE ReqInv'
  BY <1>4, <1>7 DEF CarryState, IsNext, source, history, Stages
<1>8. ASSUME NEW n \in Ids, WriteNote(n) PROVE ReqInv'
  <2>1. req' = [req EXCEPT !.at = "read", !.order = Tail(@)] /\ req.order # <<>> /\ req.at = "write"
        /\ UNCHANGED <<src, gone, retired>>
    BY <1>8 DEF WriteNote, IsNext, source
  <2>2. Tail(req.order) \in Seq(Ids) /\ ToSet(Tail(req.order)) \subseteq ToSet(req.order)
    BY <1>t, <2>1, FirstOf
  <2> QED BY <1>0, <2>1, <2>2 DEF ReqInv, Request, Stages
<1>9. CASE CheckLanded
  BY <1>4, <1>9 DEF CheckLanded, source, history, Stages
<1>10. CASE Retire
  <2>1. req' = [Idle EXCEPT !.to = req.to] /\ UNCHANGED <<src, gone>>
    BY <1>10 DEF Retire, history
  <2>2. req' \in Request /\ req'.at = "idle" /\ req'.order = <<>>
    BY <1>i, <1>t, <2>1 DEF Request
  <2> QED BY <2>1, <2>2, NoneLeft DEF ReqInv
<1>11. CASE Fail
  <2>1. req' = Idle /\ UNCHANGED <<src, gone>>
    BY <1>11 DEF Fail, source, history
  <2> QED BY <1>i, <2>1, NoneLeft DEF ReqInv
<1>12. CASE UNCHANGED mergeVars
  BY <1>1, <1>12 DEF mergeVars, source, history
<1>13. ASSUME NEW n \in Ids, CreateNote(n) \/ Settle(n) \/ DeleteFromSource(n) PROVE ReqInv'
  <2>1. UNCHANGED <<req, retired>>
    BY <1>13 DEF CreateNote, Settle, DeleteFromSource
  <2>2. CASE CreateNote(n)
    BY <1>1, <2>1, <2>2 DEF CreateNote
  <2>3. CASE Settle(n)
    BY <1>1, <2>1, <2>3 DEF Settle, history
  <2>4. CASE DeleteFromSource(n)
    BY <1>1, <2>1, <2>4 DEF DeleteFromSource
  <2> QED BY <1>13, <2>2, <2>3, <2>4
<1>14. ASSUME NEW n \in Ids, NEW m \in Marks, Type(n, m) \/ \E named \in BOOLEAN : SaveFile(n, m, named) PROVE ReqInv'
  <2>1. UNCHANGED <<req, retired, gone>> /\ DOMAIN src' = DOMAIN src
    BY <1>0, <1>14 DEF Type, SaveFile, SourceGains, SrcTypes
  <2> QED BY <1>1, <2>1
<1>15. ASSUME NEW n \in Ids \cup Own \cup Spare, DeleteThere(n) \/ \E m \in Marks : TypeThere(n, m) PROVE ReqInv'
  <2>1. UNCHANGED <<req, src, retired>> /\ gone \subseteq gone'
    BY <1>15 DEF DeleteThere, TypeThere, source
  <2> QED BY <1>1, <2>1
<1>16. ASSUME NEW path \in Wanted,
              (\E n \in Own : CreateThere(n, path)) \/ (\E m \in Marks : PutFile(path, m)) \/ TakeIn(path)
       PROVE ReqInv'
  <2>1. UNCHANGED <<req, src, retired, gone>>
    BY <1>16 DEF CreateThere, PutFile, TakeIn, source, history
  <2> QED BY <1>1, <2>1
<1>17. CASE FetchPicture
  BY <1>1, <1>17 DEF FetchPicture
<1>18. CASE PictureStep
  BY <1>1, <1>18, PictureSteps
<1> QED
  BY <1>18, <1>2, <1>3, <1>5, <1>6, <1>7, <1>8, <1>9, <1>10, <1>11, <1>12, <1>13, <1>14, <1>15, <1>16, <1>17
  DEF MergeNext, RequestStep

LEMMA TypesStep ==
  ASSUME Types, [MergeNext]_mergeVars
  PROVE  Types'
BY SrcTypesStep, DstTypesStep, StrayTypesStep, PicTypesStep, HistTypesStep, ReqInvStep DEF Types

LEMMA TypesAtStart ==
  ASSUME MergeInit
  PROVE  Types
<1>1. PICK live \in SUBSET Ids, first \in Marks :
        /\ src = [n \in live |-> [doc |-> [ins |-> {<<first, "src">>}, del |-> {}], file |-> {first},
                                  named |-> TRUE, onDisk |-> TRUE]]
        /\ made = {first}
  BY DEF MergeInit
<1>2. PICK own \in SUBSET Own, pic \in Bytes \cup {None} :
        /\ files = [p \in {Picture} \ {q \in {Picture} : pic = None} |-> pic]
        /\ entries = files
        /\ dst = [n \in own |-> [path |-> Home[n], doc |-> Empty,
                                 pic |-> IF n \in Pictured /\ pic # None THEN Picture ELSE None,
                                 means |-> IF n \in Pictured THEN pic ELSE None]]
  BY DEF MergeInit
<1>3. SrcTypes
  <2>1. [ins |-> {<<first, "src">>}, del |-> {}] \in Doc
    BY MergeAssumption DEF Doc, Items
  <2>2. srcPic \in BOOLEAN /\ retired \in BOOLEAN
    BY DEF MergeInit
  <2> QED BY <1>1, <2>1, <2>2 DEF SrcTypes
<1>4. DstTypes
  <2>1. \A n \in own : [path |-> Home[n], doc |-> Empty,
                        pic |-> IF n \in Pictured /\ pic # None THEN Picture ELSE None,
                        means |-> IF n \in Pictured THEN pic ELSE None]
                        \in [path : Paths, doc : Doc, pic : PicturePaths \cup {None}, means : Bytes \cup {None}]
    BY HomesArePaths, EmptyIs DEF PicturePaths
  <2>2. store \in [Notes -> Doc]
    BY EmptyIs DEF MergeInit, Notes
  <2> QED BY <1>2, <2>1, <2>2 DEF DstTypes, Notes
<1>5. StrayTypes
  BY DEF MergeInit, StrayTypes
<1>6. PicTypes
  <2>1. DOMAIN files = {Picture} \ {q \in {Picture} : pic = None} /\ Picture \in PicturePaths
    BY <1>2 DEF PicturePaths
  <2>2. \A p \in DOMAIN files : files[p] \in Bytes
    BY <1>2, <2>1
  <2>3. files = [p \in DOMAIN files |-> files[p]]
    BY <1>2
  <2> QED BY <1>2, <2>1, <2>2, <2>3 DEF PicTypes
<1>7. HistTypes
  BY <1>1, MergeAssumption DEF MergeInit, HistTypes
<1>8. ReqInv
  <2>1. [m \in {} |-> <<>>] \in Routes
    <3>1. [m \in {} |-> <<>>] \in [{} -> Paths]
      OBVIOUS
    <3> QED BY <3>1 DEF Routes
  <2>2. Picture \in PicturePaths
    BY DEF PicturePaths
  <2>3. Idle \in Request /\ Idle.at = "idle" /\ Idle.order = <<>>
    BY <2>1, <2>2 DEF Idle, Request, Stages
  <2>4. req = Idle
    BY DEF MergeInit
  <2> QED BY <2>3, <2>4, NoneLeft DEF ReqInv
<1> QED BY <1>3, <1>4, <1>5, <1>6, <1>7, <1>8 DEF Types

-----------------------------------------------------------------------------
(* What is in the documents *)

Inside(body, marks) == body.ins \cup body.del \subseteq marks \X Bytes

LEMMA MarksOf ==
  ASSUME NEW body, NEW marks, Inside(body, marks)
  PROVE  Text(body) \subseteq marks
<1>1. \A i \in body.ins : i[1] \in marks
  BY DEF Inside
<1> QED BY <1>1 DEF Text, Shown

LEMMA SetTextInside ==
  ASSUME NEW body, NEW marks, NEW text \in SUBSET marks, Inside(body, marks)
  PROVE  Inside(SetText(body, text, "dst"), marks)
BY DEF Inside, SetText, Bytes

LEMMA EmptyInside ==
  ASSUME NEW marks
  PROVE  Inside(Empty, marks)
BY DEF Inside, Empty

\* The three parts of DocsInv that do not bear on the request.
SrcDocs ==
  \A n \in DOMAIN src : /\ src[n].doc.ins \subseteq Marks \X {"src"} /\ src[n].doc.del = {}
                        /\ Mine(n) \subseteq made
DstDocs ==
  /\ \A n \in Notes : Inside(store[n], made)
  /\ \A n \in DOMAIN dst : Inside(dst[n].doc, made)
  /\ \A n \in DOMAIN dst \cap Ids : dst[n].doc = store[n]
Strays ==
  \A p \in DOMAIN stray : /\ stray[p].id = None /\ stray[p].pic = None /\ stray[p].means = None
                          /\ stray[p].text \subseteq made
NeverThere == \A n \in Ids \ (DOMAIN src \cup gone) : n \notin DOMAIN dst /\ store[n] = Empty

LEMMA DocsParts == DocsInv <=> SrcDocs /\ DstDocs /\ Strays /\ req.text \subseteq made /\ NeverThere
BY DEF DocsInv, SrcDocs, DstDocs, Strays, NeverThere, Inside

LEMMA MadeGrows ==
  ASSUME [MergeNext]_mergeVars
  PROVE  made \subseteq made'
BY PictureSteps DEF MergeNext, RequestStep, mergeVars, history, CreateNote, Settle, DeleteFromSource, ReadNote, CarryState, WriteNote,
   Type, SaveFile, SourceGains, FetchPicture, DeleteThere, TypeThere, CreateThere, TakeIn, PutFile,
   Start, Plan, CopyPicture, CheckLanded, Retire, Fail

LEMMA GoneGrows ==
  ASSUME [MergeNext]_mergeVars
  PROVE  gone \subseteq gone'
BY PictureSteps DEF MergeNext, RequestStep, mergeVars, history, CreateNote, Settle, DeleteFromSource, ReadNote, CarryState, WriteNote,
   Type, SaveFile, SourceGains, FetchPicture, DeleteThere, TypeThere, CreateThere, TakeIn, PutFile,
   Start, Plan, CopyPicture, CheckLanded, Retire, Fail

\* What an engine of the source does with one note.
LEMMA Settles ==
  ASSUME Types, DocsInv, NEW n \in Ids, Settle(n)
  PROVE  /\ n \in DOMAIN src /\ DOMAIN src' = DOMAIN src
         /\ \A k \in DOMAIN src : k # n => src'[k] = src[k]
         /\ src'[n].doc.ins = src[n].doc.ins \cup {<<m, "src">> : m \in src[n].file \ Text(src[n].doc)}
         /\ src'[n].doc.del = {}
         /\ src'[n].file = Text(src'[n].doc)
         /\ Text(src'[n].doc) = Mine(n)
<1>1. n \in DOMAIN src /\ src[n].doc.del = {} /\ src' = [src EXCEPT ![n] = InStep(src[n])] /\ SrcTypes
  BY DEF Settle, DocsInv, Types
<1>2. /\ src'[n].doc.ins = src[n].doc.ins \cup {<<m, "src">> : m \in src[n].file \ Text(src[n].doc)}
      /\ src'[n].doc.del = {}
      /\ src'[n].file = Text(src'[n].doc)
  <2>1. src[n].doc \in Doc
    BY <1>1 DEF SrcTypes
  <2>2. src'[n] = InStep(src[n])
    BY <1>1 DEF SrcTypes
  <2>3. src'[n].doc = [src[n].doc EXCEPT !.ins = @ \cup {<<m, "src">> : m \in src[n].file \ Text(src[n].doc)}]
    BY <2>2 DEF InStep
  <2>4. src'[n].file = Text(src'[n].doc)
    BY <2>2 DEF InStep
  <2> QED BY <1>1, <2>1, <2>3, <2>4 DEF Doc
<1>3. Text(src'[n].doc) = Mine(n)
  <2>1. Text(src'[n].doc) = {i[1] : i \in src'[n].doc.ins}
    BY <1>2 DEF Text, Shown
  <2>2. Text(src[n].doc) = {i[1] : i \in src[n].doc.ins}
    BY <1>1 DEF Text, Shown
  <2>3. ASSUME NEW m \in Text(src'[n].doc) PROVE m \in Mine(n)
    <3>1. PICK i \in src'[n].doc.ins : i[1] = m
      BY <2>1, <2>3
    <3>2. i \in src[n].doc.ins \/ \E k \in src[n].file : i = <<k, "src">>
      BY <1>2, <3>1
    <3> QED BY <2>2, <3>1, <3>2 DEF Mine
  <2>4. ASSUME NEW m \in Mine(n) PROVE m \in Text(src'[n].doc)
    <3>1. CASE m \in Text(src[n].doc)
      BY <1>2, <2>1, <2>2, <3>1
    <3>2. CASE m \notin Text(src[n].doc)
      <4>1. <<m, "src">> \in src'[n].doc.ins /\ <<m, "src">>[1] = m
        BY <1>2, <2>4, <3>2 DEF Mine
      <4> QED BY <2>1, <4>1
    <3> QED BY <3>1, <3>2
  <2> QED BY <2>3, <2>4
<1>4. DOMAIN src' = DOMAIN src /\ \A k \in DOMAIN src : k # n => src'[k] = src[k]
  BY <1>1 DEF SrcTypes
<1> QED BY <1>1, <1>2, <1>3, <1>4

LEMMA Gains ==
  ASSUME Types, DocsInv, NEW n \in Ids, NEW m \in Marks, Type(n, m) \/ \E named \in BOOLEAN : SaveFile(n, m, named)
  PROVE  /\ n \in DOMAIN src /\ DOMAIN src' = DOMAIN src /\ m \notin made
         /\ \A k \in DOMAIN src : k # n => src'[k] = src[k]
         /\ src'[n].doc.ins \in {src[n].doc.ins, src[n].doc.ins \cup {<<m, "src">>}}
         /\ src'[n].doc.del = {}
         /\ src[n].file \subseteq src'[n].file
         /\ Text(src'[n].doc) \cup src'[n].file = Mine(n) \cup {m}
         /\ SourceGains(n, m)
<1>1. n \in DOMAIN src /\ src[n].doc.del = {} /\ m \notin made /\ SourceGains(n, m) /\ SrcTypes
  BY DEF Type, SaveFile, DocsInv, Types
<1>2. src[n].doc \in Doc /\ src[n] \in [doc : Doc, file : SUBSET Marks, named : BOOLEAN, onDisk : BOOLEAN]
  BY <1>1 DEF SrcTypes
<1>3. CASE Type(n, m)
  <2>1. src' = [src EXCEPT ![n] = [src[n] EXCEPT !.doc = [src[n].doc EXCEPT !.ins = @ \cup {<<m, "src">>}]]]
    BY <1>1, <1>3 DEF Type, SrcTypes
  <2>2. src'[n] = [src[n] EXCEPT !.doc = [src[n].doc EXCEPT !.ins = @ \cup {<<m, "src">>}]]
    BY <1>1, <2>1 DEF SrcTypes
  <2>3. src'[n].doc = [src[n].doc EXCEPT !.ins = @ \cup {<<m, "src">>}] /\ src'[n].file = src[n].file
    BY <1>2, <2>2
  <2>4. src'[n].doc.ins = src[n].doc.ins \cup {<<m, "src">>} /\ src'[n].doc.del = {}
    BY <1>1, <1>2, <2>3 DEF Doc
  <2>5. Text(src'[n].doc) = Text(src[n].doc) \cup {m}
    <3>1. Text(src'[n].doc) = {i[1] : i \in src[n].doc.ins \cup {<<m, "src">>}}
      BY <2>4 DEF Text, Shown
    <3>2. Text(src[n].doc) = {i[1] : i \in src[n].doc.ins}
      BY <1>1 DEF Text, Shown
    <3>3. PICK new : new = <<m, "src">>
      OBVIOUS
    <3>4. new[1] = m
      BY <3>3
    <3>5. {i[1] : i \in src[n].doc.ins \cup {new}} = {i[1] : i \in src[n].doc.ins} \cup {new[1]}
      OBVIOUS
    <3> QED BY <3>1, <3>2, <3>3, <3>4, <3>5
  <2>6. DOMAIN src' = DOMAIN src /\ \A k \in DOMAIN src : k # n => src'[k] = src[k]
    BY <2>1 DEF SrcTypes
  <2>7. Text(src'[n].doc) \cup src'[n].file = Mine(n) \cup {m}
    BY <2>3, <2>5 DEF Mine
  <2> QED BY <1>1, <2>3, <2>4, <2>6, <2>7
<1>4. ASSUME NEW named \in BOOLEAN, SaveFile(n, m, named) PROVE
         /\ src'[n].doc = src[n].doc /\ src'[n].file = src[n].file \cup {m}
         /\ DOMAIN src' = DOMAIN src /\ \A k \in DOMAIN src : k # n => src'[k] = src[k]
  <2>1. src' = [src EXCEPT ![n] = [src[n] EXCEPT !.file = @ \cup {m}, !.named = named]]
    BY <1>1, <1>4 DEF SaveFile, SrcTypes
  <2>2. src'[n] = [src[n] EXCEPT !.file = @ \cup {m}, !.named = named]
    BY <1>1, <2>1 DEF SrcTypes
  <2>3. src'[n].doc = src[n].doc /\ src'[n].file = src[n].file \cup {m}
    BY <1>2, <2>2
  <2>4. DOMAIN src' = DOMAIN src /\ \A k \in DOMAIN src : k # n => src'[k] = src[k]
    BY <2>1 DEF SrcTypes
  <2> QED BY <2>3, <2>4
<1>5. ASSUME NEW named \in BOOLEAN, SaveFile(n, m, named) PROVE
         /\ Text(src'[n].doc) \cup src'[n].file = Mine(n) \cup {m} /\ src[n].file \subseteq src'[n].file
         /\ src'[n].doc.ins = src[n].doc.ins /\ src'[n].doc.del = {}
  <2>1. src'[n].doc = src[n].doc /\ src'[n].file = src[n].file \cup {m}
    BY <1>4, <1>5
  <2> QED BY <1>1, <2>1 DEF Mine
<1> QED BY <1>1, <1>3, <1>4, <1>5

LEMMA SrcDocsStep ==
  ASSUME Types, DocsInv, [MergeNext]_mergeVars
  PROVE  SrcDocs'
<1>0. SrcDocs /\ SrcTypes /\ made \subseteq made'
  BY DocsParts, MadeGrows DEF Types
<1>1. CASE UNCHANGED src
  BY <1>0, <1>1 DEF SrcDocs, Mine
<1>2. ASSUME NEW n \in Ids, CreateNote(n) PROVE SrcDocs'
  <2>1. src' = [k \in DOMAIN src \cup {n} |->
          IF k = n THEN [doc |-> Empty, file |-> {}, named |-> TRUE, onDisk |-> FALSE] ELSE src[k]]
    BY <1>2 DEF CreateNote
  <2>2. Empty.ins = {} /\ Empty.del = {} /\ Text(Empty) = {}
    BY DEF Empty, Text, Shown
  <2>3. ASSUME NEW k \in DOMAIN src' PROVE /\ src'[k].doc.ins \subseteq Marks \X {"src"} /\ src'[k].doc.del = {}
                                           /\ Text(src'[k].doc) \cup src'[k].file \subseteq made'
    <3>1. CASE k = n
      BY <2>1, <2>2, <3>1
    <3>2. CASE k # n
      <4>1. k \in DOMAIN src /\ src'[k] = src[k]
        BY <2>1, <3>2
      <4> QED BY <1>0, <4>1 DEF SrcDocs, Mine
    <3> QED BY <3>1, <3>2
  <2> QED BY <2>3 DEF SrcDocs, Mine
<1>3. ASSUME NEW n \in Ids, Settle(n) PROVE SrcDocs'
  <2>1. \A k \in DOMAIN src : k # n => src'[k] = src[k]
    BY <1>3, Settles
  <2>2. /\ n \in DOMAIN src /\ DOMAIN src' = DOMAIN src /\ src'[n].doc.del = {}
        /\ src'[n].doc.ins = src[n].doc.ins \cup {<<m, "src">> : m \in src[n].file \ Text(src[n].doc)}
        /\ Text(src'[n].doc) \cup src'[n].file = Mine(n)
    BY <1>3, Settles
  <2>3. src[n].file \subseteq Marks
    BY <1>0, <2>2 DEF SrcTypes
  <2>4. src'[n].doc.ins \subseteq Marks \X {"src"} /\ Text(src'[n].doc) \cup src'[n].file \subseteq made'
    BY <1>0, <2>2, <2>3 DEF SrcDocs
  <2> QED BY <1>0, <2>1, <2>2, <2>4 DEF SrcDocs, Mine
<1>4. ASSUME NEW n \in Ids, DeleteFromSource(n) PROVE SrcDocs'
  <2>1. src' = [k \in DOMAIN src \ {n} |-> src[k]]
    BY <1>4 DEF DeleteFromSource
  <2> QED BY <1>0, <2>1 DEF SrcDocs, Mine
<1>5. ASSUME NEW n \in Ids, NEW m \in Marks, Type(n, m) \/ \E named \in BOOLEAN : SaveFile(n, m, named) PROVE SrcDocs'
  <2>1. \A k \in DOMAIN src : k # n => src'[k] = src[k]
    BY <1>5, Gains
  <2>2. /\ n \in DOMAIN src /\ DOMAIN src' = DOMAIN src /\ src'[n].doc.del = {}
        /\ src'[n].doc.ins \in {src[n].doc.ins, src[n].doc.ins \cup {<<m, "src">>}}
        /\ Text(src'[n].doc) \cup src'[n].file = Mine(n) \cup {m} /\ SourceGains(n, m)
    BY <1>5, Gains
  <2>3. m \in made'
    BY <2>2 DEF SourceGains
  <2>4. src'[n].doc.ins \subseteq Marks \X {"src"} /\ Text(src'[n].doc) \cup src'[n].file \subseteq made'
    BY <1>0, <2>2, <2>3 DEF SrcDocs
  <2> QED BY <1>0, <2>1, <2>2, <2>4 DEF SrcDocs, Mine
<1>6. CASE UNCHANGED mergeVars
  BY <1>1, <1>6 DEF mergeVars, source
<1>7. ASSUME NEW n \in Ids, RequestStep(n) PROVE UNCHANGED src
  BY <1>7 DEF RequestStep, ReadNote, CarryState, WriteNote, source
<1>8. ASSUME NEW n \in Ids \cup Own \cup Spare, DeleteThere(n) \/ \E m \in Marks : TypeThere(n, m) PROVE UNCHANGED src
  BY <1>8 DEF DeleteThere, TypeThere, source
<1>9. ASSUME NEW path \in Wanted,
             (\E n \in Own : CreateThere(n, path)) \/ (\E m \in Marks : PutFile(path, m)) \/ TakeIn(path)
      PROVE UNCHANGED src
  BY <1>9 DEF CreateThere, PutFile, TakeIn, source
<1>10. ASSUME FetchPicture \/ Start \/ Plan \/ CopyPicture \/ CheckLanded \/ Retire \/ Fail PROVE UNCHANGED src
  BY <1>10 DEF FetchPicture, Start, Plan, CopyPicture, CheckLanded, Retire, Fail, source
<1>11. ASSUME PictureStep PROVE UNCHANGED src
  BY <1>11, PictureSteps
<1> QED
  BY <1>11, <1>1, <1>2, <1>3, <1>4, <1>5, <1>6, <1>7, <1>8, <1>9, <1>10 DEF MergeNext

\* What taking a file in does to the documents.
LEMMA AdoptDocs ==
  ASSUME Types, DocsInv, NEW path, NEW file \in File, file.text \subseteq made, Adopt(path, file), made' = made
  PROVE  DstDocs'
<1>1. PICK n, body : AdoptedAs(n, body, path, file)
  BY Adopts DEF Types
<1>2. DstDocs /\ DstTypes
  BY DocsParts DEF Types
<1>3. Inside(body, made)
  <2>1. Inside(IF n = file.id THEN store[n] ELSE Empty, made)
    BY <1>1, <1>2, EmptyInside DEF AdoptedAs, DstDocs
  <2> QED BY <1>1, <2>1, SetTextInside DEF AdoptedAs
<1>4. ASSUME NEW k \in Notes PROVE Inside(store'[k], made)
  <2>1. CASE k = n
    BY <1>1, <1>2, <1>3, <2>1 DEF AdoptedAs, DstTypes
  <2>2. CASE k # n
    BY <1>1, <1>2, <2>2 DEF AdoptedAs, DstTypes, DstDocs
  <2> QED BY <2>1, <2>2
<1>5. ASSUME NEW k \in DOMAIN dst' PROVE Inside(dst'[k].doc, made) /\ (k \in Ids => dst'[k].doc = store'[k])
  <2>1. CASE k = n
    <3>1. dst'[k].doc = body /\ store'[k] = body
      BY <1>1, <1>2, <2>1 DEF AdoptedAs, DstTypes
    <3> QED BY <1>3, <3>1
  <2>2. CASE k # n
    <3>1. k \in DOMAIN dst /\ dst'[k] = dst[k] /\ store'[k] = store[k]
      BY <1>1, <1>2, <2>2 DEF AdoptedAs, DstTypes
    <3> QED BY <1>2, <3>1 DEF DstDocs
  <2> QED BY <2>1, <2>2
<1> QED BY <1>4, <1>5 DEF DstDocs, Notes, Inside

LEMMA TypesThere ==
  ASSUME Types, DocsInv, NEW n \in Ids \cup Own \cup Spare, NEW m \in Marks, TypeThere(n, m)
  PROVE  /\ n \in DOMAIN dst /\ n \in Notes /\ DOMAIN dst' = DOMAIN dst
         /\ \A k \in DOMAIN dst : k # n => dst'[k] = dst[k]
         /\ \A k \in Notes : k # n => store'[k] = store[k]
         /\ dst'[n].doc.ins = dst[n].doc.ins \cup {<<m, "dst">>} /\ dst'[n].doc.del = dst[n].doc.del
         /\ store'[n] = dst'[n].doc
         /\ dst'[n].path = dst[n].path /\ dst'[n].pic = dst[n].pic /\ dst'[n].means = dst[n].means
         /\ m \notin made /\ made' = made \cup {m}
<1>1. n \in DOMAIN dst /\ n \in Notes /\ DstTypes /\ m \notin made /\ made' = made \cup {m}
  BY DEF TypeThere, Types, Notes
<1>2. dst[n] \in [path : Paths, doc : Doc, pic : PicturePaths \cup {None}, means : Bytes \cup {None}]
  BY <1>1 DEF DstTypes
<1>3. dst' = [dst EXCEPT ![n] = [dst[n] EXCEPT !.doc = [dst[n].doc EXCEPT !.ins = @ \cup {<<m, "dst">>}]]]
  BY <1>1 DEF TypeThere, DstTypes
<1>4. dst'[n] = [dst[n] EXCEPT !.doc = [dst[n].doc EXCEPT !.ins = @ \cup {<<m, "dst">>}]]
  BY <1>1, <1>3 DEF DstTypes
<1>5. /\ dst'[n].doc = [dst[n].doc EXCEPT !.ins = @ \cup {<<m, "dst">>}]
      /\ dst'[n].path = dst[n].path /\ dst'[n].pic = dst[n].pic /\ dst'[n].means = dst[n].means
  BY <1>2, <1>4
<1>6. dst'[n].doc.ins = dst[n].doc.ins \cup {<<m, "dst">>} /\ dst'[n].doc.del = dst[n].doc.del
  BY <1>2, <1>5 DEF Doc
<1>7. store' = [store EXCEPT ![n] = dst'[n].doc]
  BY DEF TypeThere
<1>8. store'[n] = dst'[n].doc /\ \A k \in Notes : k # n => store'[k] = store[k]
  BY <1>1, <1>7 DEF DstTypes
<1>9. DOMAIN dst' = DOMAIN dst /\ \A k \in DOMAIN dst : k # n => dst'[k] = dst[k]
  BY <1>3 DEF DstTypes
<1> QED BY <1>1, <1>5, <1>6, <1>8, <1>9

\* A state that is carried over is known to be the source's.
LEMMA Carries ==
  ASSUME Types, NEW n \in Ids, CarryState(n)
  PROVE  /\ UNCHANGED <<source, dst, stray, pictures, history>>
         /\ req' = [req EXCEPT !.at = "write"] /\ req.at = "state" /\ n = Head(req.order) /\ req.order # <<>>
         /\ n \in Notes /\ \A k \in Notes : k # n => store'[k] = store[k]
         /\ IF n \in DOMAIN src /\ n \notin DOMAIN dst
              THEN /\ store'[n].ins = store[n].ins \cup src[n].doc.ins
                   /\ store'[n].del = store[n].del \cup src[n].doc.del
              ELSE store' = store
<1>1. n \in Notes /\ DstTypes
  BY DEF Notes, Types
<1>2. UNCHANGED <<source, dst, stray, pictures, history>> /\ req' = [req EXCEPT !.at = "write"]
      /\ req.at = "state" /\ n = Head(req.order) /\ req.order # <<>>
  BY DEF CarryState, IsNext
<1>3. CASE n \in DOMAIN src /\ n \notin DOMAIN dst
  <2>1. store' = [store EXCEPT ![n] = Join(store[n], src[n].doc)]
    BY <1>1, <1>3 DEF CarryState, DstTypes
  <2>2. store'[n] = Join(store[n], src[n].doc) /\ \A k \in Notes : k # n => store'[k] = store[k]
    BY <1>1, <2>1 DEF DstTypes
  <2> QED BY <1>1, <1>2, <1>3, <2>2 DEF Join
<1>4. CASE ~ (n \in DOMAIN src /\ n \notin DOMAIN dst)
  BY <1>1, <1>2, <1>4 DEF CarryState
<1> QED BY <1>3, <1>4

LEMMA WrittenIs ==
  ASSUME Types, DocsInv, NEW n \in Ids, WriteNote(n)
  PROVE  /\ UNCHANGED <<source, pictures>> /\ req' = [req EXCEPT !.at = "read", !.order = Tail(@)]
         /\ made' = made /\ late' = late /\ apart' = apart /\ cut' = cut /\ gone' = gone /\ met' = met
         /\ over' = over \cup UNION {stray[p].text : p \in {req.to[n]} \cap DOMAIN stray}
         /\ stray' = [p \in DOMAIN stray \ {req.to[n]} |-> stray[p]]
         /\ n \in DOMAIN src \cup gone
         /\ \E k, body : AdoptedAs(k, body, req.to[n], Written(n)) /\ (k # n => k \in Spare)
<1>1. PICK k, body : AdoptedAs(k, body, req.to[n], Written(n))
  BY Writes, Adopts DEF Types
<1>2. Written(n).id \in {n, None} /\ None \notin Ids
  BY MergeAssumption DEF Written
<1>3. k # n => k \in Spare
  BY <1>1, <1>2 DEF AdoptedAs
<1>4. n \in DOMAIN src \cup gone
  BY Writes, FirstOf DEF Types, ReqInv
<1> QED BY <1>1, <1>3, <1>4 DEF WriteNote, MergeWrite

LEMMA TakenIn ==
  ASSUME Types, DocsInv, NEW path, TakeIn(path)
  PROVE  /\ UNCHANGED <<source, pictures, req, history>> /\ path \in DOMAIN stray
         /\ stray' = [p \in DOMAIN stray \ {path} |-> stray[p]]
         /\ \E k, body : AdoptedAs(k, body, path, stray[path]) /\ k \in Spare
<1>1. path \in DOMAIN stray /\ stray[path] \in File /\ stray[path].id = None
  BY DEF TakeIn, Types, StrayTypes, DocsInv
<1>2. PICK k, body : AdoptedAs(k, body, path, stray[path])
  BY <1>1, Adopts DEF TakeIn, Types
<1>3. k \in Spare
  BY <1>1, <1>2, MergeAssumption DEF AdoptedAs
<1> QED BY <1>1, <1>2, <1>3 DEF TakeIn

LEMMA DstDocsStep ==
  ASSUME Types, DocsInv, [MergeNext]_mergeVars
  PROVE  DstDocs'
<1>0. DstDocs /\ DstTypes /\ PicTypes /\ made \subseteq made'
  BY DocsParts, MadeGrows DEF Types
<1>1. CASE UNCHANGED <<dst, store>>
  BY <1>0, <1>1 DEF DstDocs, Inside, Notes
<1>2. ASSUME NEW n \in Ids, WriteNote(n) PROVE DstDocs'
  <2>1. Written(n).text \subseteq made /\ made' = made
    BY <1>2, WrittenIs DEF Written, DocsInv
  <2> QED BY <1>2, <2>1, Writes, AdoptDocs
<1>3. ASSUME NEW path \in Wanted, TakeIn(path) PROVE DstDocs'
  <2>1. path \in DOMAIN stray /\ stray[path] \in File /\ stray[path].text \subseteq made /\ made' = made
    BY <1>3, TakenIn DEF Types, StrayTypes, DocsInv, history
  <2> QED BY <1>3, <2>1, AdoptDocs DEF TakeIn
<1>4. ASSUME NEW n \in Ids \cup Own \cup Spare, NEW m \in Marks, TypeThere(n, m) PROVE DstDocs'
  <2>1. /\ n \in DOMAIN dst /\ n \in Notes /\ DOMAIN dst' = DOMAIN dst
        /\ \A k \in DOMAIN dst : k # n => dst'[k] = dst[k]
        /\ \A k \in Notes : k # n => store'[k] = store[k]
        /\ dst'[n].doc.ins = dst[n].doc.ins \cup {<<m, "dst">>} /\ dst'[n].doc.del = dst[n].doc.del
        /\ store'[n] = dst'[n].doc /\ made' = made \cup {m}
    BY <1>4, TypesThere
  <2>2. Inside(dst'[n].doc, made')
    BY <1>0, <2>1 DEF DstDocs, Inside, Bytes
  <2> QED BY <1>0, <2>1, <2>2 DEF DstDocs, Inside, Notes
<1>5. ASSUME NEW n \in Own, NEW path \in Wanted, CreateThere(n, path) PROVE DstDocs'
  <2>1. store' = store /\ n \notin Ids
        /\ dst' = [d \in DOMAIN dst \cup {n} |->
             IF d = n THEN [path |-> path, doc |-> Empty, pic |-> None, means |-> None] ELSE dst[d]]
    BY <1>5, MergeAssumption DEF CreateThere
  <2> QED BY <1>0, <2>1, EmptyInside DEF DstDocs, Inside, Notes
<1>6. ASSUME NEW n \in Ids \cup Own \cup Spare, DeleteThere(n) PROVE DstDocs'
  <2>1. store' = store /\ dst' = [d \in DOMAIN dst \ {n} |-> dst[d]]
    BY <1>6 DEF DeleteThere
  <2> QED BY <1>0, <2>1 DEF DstDocs, Inside, Notes
<1>7. ASSUME NEW n \in Ids, CarryState(n) PROVE DstDocs'
  <2>1. dst' = dst /\ made' = made /\ \A k \in Notes : k # n => store'[k] = store[k]
    BY <1>7, Carries DEF history
  <2>2. CASE n \in DOMAIN src /\ n \notin DOMAIN dst
    <3>1. Inside(src[n].doc, made)
      <4>1. src[n].doc.ins \subseteq Marks \X {"src"} /\ src[n].doc.del = {} /\ Mine(n) \subseteq made
        BY <2>2 DEF DocsInv
      <4>2. \A i \in src[n].doc.ins : i[1] \in Mine(n)
        BY <4>1 DEF Mine, Text, Shown
      <4> QED BY <4>1, <4>2 DEF Inside, Bytes
    <3>2. store'[n].ins = store[n].ins \cup src[n].doc.ins /\ store'[n].del = store[n].del \cup src[n].doc.del
      BY <1>7, <2>2, Carries
    <3>3. n \in Notes /\ Inside(store'[n], made')
      BY <1>0, <2>1, <3>1, <3>2 DEF DstDocs, Inside, Notes
    <3> QED BY <1>0, <2>1, <2>2, <3>3 DEF DstDocs, Inside, Notes
  <2>3. CASE ~ (n \in DOMAIN src /\ n \notin DOMAIN dst)
    <3>1. store' = store
      BY <1>7, <2>3, Carries
    <3> QED BY <1>1, <2>1, <3>1
  <2> QED BY <2>2, <2>3
<1>8. CASE UNCHANGED mergeVars
  BY <1>1, <1>8 DEF mergeVars, destination
<1>9. ASSUME NEW n \in Ids, CreateNote(n) \/ Settle(n) \/ DeleteFromSource(n) \/ ReadNote(n) PROVE UNCHANGED <<dst, store>>
  BY <1>9 DEF CreateNote, Settle, DeleteFromSource, ReadNote, destination
<1>10. ASSUME NEW n \in Ids, NEW m \in Marks, Type(n, m) \/ \E named \in BOOLEAN : SaveFile(n, m, named)
       PROVE UNCHANGED <<dst, store>>
  BY <1>10 DEF Type, SaveFile, SourceGains, destination
<1>11. ASSUME NEW path \in Wanted, NEW m \in Marks, PutFile(path, m) PROVE UNCHANGED <<dst, store>>
  BY <1>11 DEF PutFile
<1>12. ASSUME FetchPicture \/ Start \/ Plan \/ CopyPicture \/ CheckLanded \/ Retire \/ Fail PROVE UNCHANGED <<dst, store>>
  BY <1>12 DEF FetchPicture, Start, Plan, CopyPicture, CheckLanded, Retire, Fail, destination
<1>13. CASE PictureStep
  <2>1. store' = store /\ DOMAIN dst' = DOMAIN dst /\ \A d \in DOMAIN dst : dst'[d].doc = dst[d].doc
    BY <1>0, <1>13, PictureSteps, PictureNotes
  <2> QED BY <1>0, <2>1 DEF DstDocs, Inside, Notes
<1> QED
  BY <1>13, <1>1, <1>2, <1>3, <1>4, <1>5, <1>6, <1>7, <1>8, <1>9, <1>10, <1>11, <1>12 DEF MergeNext, RequestStep

LEMMA StraysStep ==
  ASSUME Types, DocsInv, [MergeNext]_mergeVars
  PROVE  Strays'
<1>0. Strays /\ made \subseteq made'
  BY DocsParts, MadeGrows
<1>1. CASE UNCHANGED stray
  BY <1>0, <1>1 DEF Strays
<1>2. ASSUME NEW path, stray' = [p \in DOMAIN stray \ {path} |-> stray[p]] PROVE Strays'
  BY <1>0, <1>2 DEF Strays
<1>3. ASSUME NEW n \in Ids, WriteNote(n) PROVE Strays'
  BY <1>2, <1>3 DEF WriteNote, MergeWrite
<1>4. ASSUME NEW path \in Wanted, TakeIn(path) PROVE Strays'
  BY <1>2, <1>4 DEF TakeIn
<1>5. ASSUME NEW path \in Wanted, NEW m \in Marks, PutFile(path, m) PROVE Strays'
  <2>1. made' = made \cup {m} /\ stray' = [p \in DOMAIN stray \cup {path} |->
          IF p = path THEN [id |-> None, text |-> {m}, pic |-> None, means |-> None] ELSE stray[p]]
    BY <1>5 DEF PutFile
  <2> QED BY <1>0, <2>1 DEF Strays
<1>6. CASE UNCHANGED mergeVars
  BY <1>1, <1>6 DEF mergeVars, destination
<1>7. ASSUME NEW n \in Ids, CreateNote(n) \/ Settle(n) \/ DeleteFromSource(n) \/ ReadNote(n) \/ CarryState(n)
      PROVE UNCHANGED stray
  BY <1>7 DEF CreateNote, Settle, DeleteFromSource, ReadNote, CarryState, destination
<1>8. ASSUME NEW n \in Ids, NEW m \in Marks, Type(n, m) \/ \E named \in BOOLEAN : SaveFile(n, m, named)
      PROVE UNCHANGED stray
  BY <1>8 DEF Type, SaveFile, SourceGains, destination
<1>9. ASSUME NEW n \in Ids \cup Own \cup Spare, DeleteThere(n) \/ \E m \in Marks : TypeThere(n, m) PROVE UNCHANGED stray
  BY <1>9 DEF DeleteThere, TypeThere
<1>10. ASSUME NEW n \in Own, NEW path \in Wanted, CreateThere(n, path) PROVE UNCHANGED stray
  BY <1>10 DEF CreateThere
<1>11. ASSUME FetchPicture \/ Start \/ Plan \/ CopyPicture \/ CheckLanded \/ Retire \/ Fail PROVE UNCHANGED stray
  BY <1>11 DEF FetchPicture, Start, Plan, CopyPicture, CheckLanded, Retire, Fail, destination
<1>12. ASSUME PictureStep PROVE UNCHANGED stray
  BY <1>12, PictureSteps
<1> QED
  BY <1>12, <1>1, <1>3, <1>4, <1>5, <1>6, <1>7, <1>8, <1>9, <1>10, <1>11 DEF MergeNext, RequestStep

LEMMA NeverThereStep ==
  ASSUME Types, DocsInv, [MergeNext]_mergeVars
  PROVE  NeverThere'
<1>0. NeverThere /\ gone \subseteq gone' /\ SrcTypes /\ DstTypes /\ PicTypes
  BY DocsParts, GoneGrows DEF Types
<1>1. CASE UNCHANGED <<dst, store>> /\ DOMAIN src \cup gone \subseteq (DOMAIN src \cup gone)'
  BY <1>0, <1>1 DEF NeverThere
<1>2. ASSUME NEW n \in Ids, CreateNote(n) \/ Settle(n) \/ DeleteFromSource(n) \/ ReadNote(n)
      PROVE UNCHANGED <<dst, store>> /\ DOMAIN src \cup gone \subseteq (DOMAIN src \cup gone)'
  <2>1. UNCHANGED <<dst, store>>
    BY <1>2 DEF CreateNote, Settle, DeleteFromSource, ReadNote, destination
  <2>2. DOMAIN src \cup gone \subseteq (DOMAIN src \cup gone)'
    BY <1>0, <1>2 DEF CreateNote, Settle, DeleteFromSource, ReadNote, source, history, SrcTypes
  <2> QED BY <2>1, <2>2
<1>3. ASSUME NEW n \in Ids, NEW m \in Marks, Type(n, m) \/ \E named \in BOOLEAN : SaveFile(n, m, named)
      PROVE UNCHANGED <<dst, store>> /\ DOMAIN src \cup gone \subseteq (DOMAIN src \cup gone)'
  BY <1>0, <1>3 DEF Type, SaveFile, SourceGains, destination, SrcTypes
<1>4. ASSUME NEW path \in Wanted, NEW m \in Marks, PutFile(path, m) PROVE UNCHANGED <<dst, store, src>>
  BY <1>4 DEF PutFile, source
<1>5. ASSUME FetchPicture \/ Start \/ Plan \/ CopyPicture \/ CheckLanded \/ Retire \/ Fail PROVE UNCHANGED <<dst, store, src>>
  BY <1>5 DEF FetchPicture, Start, Plan, CopyPicture, CheckLanded, Retire, Fail, destination, source
<1>6. ASSUME NEW n, n \in DOMAIN src \cup gone \/ n \in Spare, UNCHANGED src,
             DOMAIN dst' \subseteq DOMAIN dst \cup {n}, \A k \in Notes : k # n => store'[k] = store[k]
      PROVE NeverThere'
  <2>1. ASSUME NEW k \in Ids \ (DOMAIN src' \cup gone') PROVE k \notin DOMAIN dst' /\ store'[k] = Empty
    <3>1. k # n /\ k \in Ids \ (DOMAIN src \cup gone) /\ k \in Notes
      BY <1>0, <1>6, <2>1, MergeAssumption DEF Notes
    <3> QED BY <1>0, <1>6, <3>1 DEF NeverThere
  <2> QED BY <2>1 DEF NeverThere
<1>7. ASSUME NEW n \in Ids, WriteNote(n) PROVE NeverThere'
  <2>1. PICK k, body : AdoptedAs(k, body, req.to[n], Written(n)) /\ (k # n => k \in Spare)
    BY <1>7, WrittenIs
  <2>2. n \in DOMAIN src \cup gone /\ UNCHANGED src
    BY <1>7, WrittenIs DEF source
  <2>3. DOMAIN dst' \subseteq DOMAIN dst \cup {k} /\ \A j \in Notes : j # k => store'[j] = store[j]
    BY <1>0, <2>1 DEF AdoptedAs, DstTypes
  <2> QED BY <1>6, <2>1, <2>2, <2>3
<1>8. ASSUME NEW path \in Wanted, TakeIn(path) PROVE NeverThere'
  <2>1. PICK k, body : AdoptedAs(k, body, path, stray[path]) /\ k \in Spare
    BY <1>8, TakenIn
  <2>2. UNCHANGED src
    BY <1>8, TakenIn DEF source
  <2>3. DOMAIN dst' \subseteq DOMAIN dst \cup {k} /\ \A j \in Notes : j # k => store'[j] = store[j]
    BY <1>0, <2>1 DEF AdoptedAs, DstTypes
  <2> QED BY <1>6, <2>1, <2>2, <2>3
<1>9. ASSUME NEW n \in Ids, CarryState(n) PROVE NeverThere'
  <2>1. n \in DOMAIN src \cup gone
    BY <1>9, Carries, FirstOf DEF Types, ReqInv, Request
  <2>2. UNCHANGED <<src, dst>> /\ \A k \in Notes : k # n => store'[k] = store[k]
    BY <1>9, Carries DEF source
  <2> QED BY <1>6, <2>1, <2>2
<1>10. ASSUME NEW n \in Ids \cup Own \cup Spare, NEW m \in Marks, TypeThere(n, m) PROVE NeverThere'
  <2>1. n \in DOMAIN dst /\ DOMAIN dst' = DOMAIN dst /\ \A k \in Notes : k # n => store'[k] = store[k]
    BY <1>10, TypesThere
  <2>2. UNCHANGED src
    BY <1>10 DEF TypeThere, source
  <2> QED BY <1>0, <2>1, <2>2 DEF NeverThere, Notes
<1>11. ASSUME NEW n \in Own, NEW path \in Wanted, CreateThere(n, path) PROVE NeverThere'
  <2>1. UNCHANGED <<src, store>> /\ DOMAIN dst' = DOMAIN dst \cup {n} /\ n \notin Ids
    BY <1>11, MergeAssumption DEF CreateThere, source
  <2> QED BY <1>0, <2>1 DEF NeverThere
<1>12. ASSUME NEW n \in Ids \cup Own \cup Spare, DeleteThere(n) PROVE NeverThere'
  <2>1. UNCHANGED <<src, store>> /\ DOMAIN dst' = DOMAIN dst \ {n}
    BY <1>12 DEF DeleteThere, source
  <2> QED BY <1>0, <2>1 DEF NeverThere
<1>13. CASE UNCHANGED mergeVars
  BY <1>0, <1>1, <1>13 DEF mergeVars, destination, source
<1>14. CASE PictureStep
  <2>1. UNCHANGED <<src, store>> /\ DOMAIN dst' = DOMAIN dst
    BY <1>0, <1>14, PictureSteps, PictureNotes
  <2> QED BY <1>0, <2>1 DEF NeverThere
<1> QED
  BY <1>14, <1>0, <1>1, <1>2, <1>3, <1>4, <1>5, <1>7, <1>8, <1>9, <1>10, <1>11, <1>12, <1>13 DEF MergeNext, RequestStep

LEMMA DocsStep ==
  ASSUME Types, DocsInv, [MergeNext]_mergeVars
  PROVE  DocsInv'
<1>1. made \subseteq made' /\ req.text \subseteq made /\ req \in Request
  BY MadeGrows DEF Types, ReqInv, DocsInv
<1>2. \/ req' = req \/ req' = Idle \/ req' = [Idle EXCEPT !.to = req.to]
      \/ \E order : req' = [Idle EXCEPT !.at = "survey", !.order = order]
      \/ \E to, pic : req' = [req EXCEPT !.at = "pictures", !.to = to, !.pic = pic]
      \/ \E at : req' = [req EXCEPT !.at = at]
      \/ \E n \in DOMAIN src : req' = [req EXCEPT !.at = "state", !.text = src[n].file, !.named = src[n].named]
      \/ req' = [req EXCEPT !.at = "read", !.order = Tail(@)]
  BY PictureSteps DEF MergeNext, RequestStep, mergeVars, CreateNote, Settle, DeleteFromSource, ReadNote, CarryState, WriteNote,
     Type, SaveFile, SourceGains, FetchPicture, DeleteThere, TypeThere, CreateThere, TakeIn, PutFile,
     Start, Plan, CopyPicture, CheckLanded, Retire, Fail
<1>6. req'.text \in {req.text, {}} \/ \E n \in DOMAIN src : req'.text = src[n].file
  <2>1. CASE req' = req \/ req' = Idle \/ req' = [Idle EXCEPT !.to = req.to]
    BY <2>1 DEF Idle
  <2>2. CASE \E order : req' = [Idle EXCEPT !.at = "survey", !.order = order]
    BY <2>2 DEF Idle
  <2>3. CASE \E to, pic : req' = [req EXCEPT !.at = "pictures", !.to = to, !.pic = pic]
    BY <1>1, <2>3 DEF Request
  <2>4. CASE \E at : req' = [req EXCEPT !.at = at]
    BY <1>1, <2>4 DEF Request
  <2>5. CASE \E n \in DOMAIN src : req' = [req EXCEPT !.at = "state", !.text = src[n].file, !.named = src[n].named]
    BY <1>1, <2>5 DEF Request
  <2>6. CASE req' = [req EXCEPT !.at = "read", !.order = Tail(@)]
    BY <1>1, <2>6 DEF Request
  <2> QED BY <1>2, <2>1, <2>2, <2>3, <2>4, <2>5, <2>6
<1>3. req'.text \subseteq made'
  BY <1>1, <1>6 DEF DocsInv, Mine
<1>4. SrcDocs' /\ DstDocs' /\ Strays' /\ NeverThere'
  BY SrcDocsStep, DstDocsStep, StraysStep, NeverThereStep
<1>5. (SrcDocs /\ DstDocs /\ Strays /\ req.text \subseteq made /\ NeverThere)' => DocsInv'
  BY DEF DocsInv, SrcDocs, DstDocs, Strays, NeverThere, Inside, Mine
<1> QED BY <1>3, <1>4, <1>5

LEMMA DocsAtStart ==
  ASSUME MergeInit
  PROVE  DocsInv
<1>1. PICK live \in SUBSET Ids, first \in Marks :
        /\ src = [n \in live |-> [doc |-> [ins |-> {<<first, "src">>}, del |-> {}], file |-> {first},
                                  named |-> TRUE, onDisk |-> TRUE]]
        /\ made = {first}
  BY DEF MergeInit
<1>2. PICK own \in SUBSET Own, pic \in Bytes \cup {None} :
        dst = [n \in own |-> [path |-> Home[n], doc |-> Empty,
                              pic |-> IF n \in Pictured /\ pic # None THEN Picture ELSE None,
                              means |-> IF n \in Pictured THEN pic ELSE None]]
  BY DEF MergeInit
<1>3. SrcDocs
  BY <1>1 DEF SrcDocs, Mine, Text, Shown
<1>4. DstDocs
  BY <1>2, EmptyInside, MergeAssumption DEF MergeInit, DstDocs, Notes
<1>5. Strays /\ req.text \subseteq made
  BY DEF MergeInit, Strays, Idle
<1>6. NeverThere
  BY <1>2, MergeAssumption DEF MergeInit, NeverThere
<1> QED BY <1>3, <1>4, <1>5, <1>6, DocsParts

-----------------------------------------------------------------------------
(* The notes of the source, and what became of them at the destination *)

\* Where each of the request's steps that touch no note takes it.
LEMMA RequestAt ==
  ASSUME ReqInv
  PROVE  /\ Start => req'.at = "survey"
         /\ Plan => req'.at = "pictures" /\ req'.order = req.order
         /\ CopyPicture => req'.at = "read" /\ req'.order = req.order /\ req'.to = req.to /\ req'.pic = req.pic
         /\ CheckLanded => req'.at = "retire" /\ req'.order = req.order /\ req'.to = req.to
         /\ Retire => req'.at = "idle" /\ req'.to = req.to
         /\ Fail => req'.at = "idle" /\ req' = Idle
<1>0. req \in Request
  BY DEF ReqInv
<1>1. Start => req'.at = "survey"
  <2>1. ASSUME NEW order, req' = [Idle EXCEPT !.at = "survey", !.order = order] PROVE req'.at = "survey"
    BY <2>1 DEF Idle
  <2> QED BY <2>1 DEF Start
<1>2. Plan => req'.at = "pictures" /\ req'.order = req.order
  <2>1. ASSUME NEW to, req' = [req EXCEPT !.at = "pictures", !.to = to, !.pic = PlanPicture]
        PROVE req'.at = "pictures" /\ req'.order = req.order
    BY <1>0, <2>1 DEF Request
  <2> QED BY <2>1 DEF Plan
<1>3. CopyPicture => req'.at = "read" /\ req'.order = req.order /\ req'.to = req.to /\ req'.pic = req.pic
  BY <1>0 DEF CopyPicture, Request
<1>4. CheckLanded => req'.at = "retire" /\ req'.order = req.order /\ req'.to = req.to
  BY <1>0 DEF CheckLanded, Request
<1>5. Retire => req'.at = "idle" /\ req'.to = req.to
  BY DEF Retire, Idle
<1>6. Fail => req'.at = "idle" /\ req' = Idle
  BY DEF Fail, Idle
<1> QED BY <1>1, <1>2, <1>3, <1>4, <1>5, <1>6

LEMMA KinStays ==
  ASSUME NEW n, Kin(n), src'[n] = src[n], store'[n] = store[n], apart \subseteq apart',
         Reading(n)' => Reading(n) /\ req'.text = req.text,
         Reading(n)' /\ req'.at = "write" /\ n \notin DOMAIN dst' =>
           req.at = "write" /\ (n \notin DOMAIN dst \/ req.text \subseteq apart')
  PROVE  Kin(n)'
<1> DEFINE text == req.text
<1>1. /\ \A m \in Marks : <<m, "src">> \in store'[n].ins => <<m, "src">> \in src'[n].doc.ins
      /\ \A m \in Text(src'[n].doc) \cup src'[n].file : <<m, "dst">> \in store'[n].ins \cup store'[n].del =>
           /\ <<m, "dst">> \notin store'[n].del
           /\ m \in src'[n].file
           /\ m \in apart' \/ <<m, "src">> \in store'[n].del
           /\ Reading(n)' => m \in req'.text
  BY DEF Kin, Mine, Again
<1>2. Reading(n)' => req'.text \subseteq src'[n].file /\ \A m \in req'.text \ apart' : <<m, "src">> \in src'[n].doc.ins
  BY DEF Kin
<1>3. Reading(n)' /\ req'.at = "write" /\ n \notin DOMAIN dst' =>
        \A m \in req'.text \ apart' : <<m, "src">> \in store'[n].ins
  BY DEF Kin
<1> QED BY <1>1, <1>2, <1>3 DEF Kin, Mine, Again

LEMMA KinStep ==
  ASSUME Types, DocsInv, KinInv, [MergeNext]_mergeVars
  PROVE  KinInv'
<1>0. SrcTypes /\ DstTypes /\ PicTypes /\ ReqInv /\ DOMAIN src \subseteq Ids /\ Ids \subseteq Notes
  BY DEF Types, SrcTypes, Notes
<1>h. req.at \in {"state", "write"} => Head(req.order) \in DOMAIN src \cup gone
  BY <1>0, FirstOf DEF ReqInv, Request
<1>1. ASSUME UNCHANGED <<src, store>>, apart \subseteq apart', DOMAIN dst \subseteq DOMAIN dst',
             UNCHANGED req \/ req'.at \notin {"state", "write"}
      PROVE KinInv'
  <2>1. ASSUME NEW k \in DOMAIN src' PROVE Kin(k)'
    <3>1. Kin(k) /\ src'[k] = src[k] /\ store'[k] = store[k]
      BY <1>1, <2>1 DEF KinInv
    <3>2. Reading(k)' => Reading(k) /\ req'.text = req.text /\ req'.at = req.at
      BY <1>1 DEF Reading
    <3> QED BY <1>1, <3>1, <3>2, KinStays
  <2> QED BY <2>1 DEF KinInv
<1>2. ASSUME NEW n \in Ids, UNCHANGED <<req, store, dst, apart>>, DOMAIN src' \subseteq DOMAIN src \cup {n},
             \A k \in DOMAIN src : k # n => src'[k] = src[k], n \in DOMAIN src' => Kin(n)'
      PROVE KinInv'
  <2>1. ASSUME NEW k \in DOMAIN src', k # n PROVE Kin(k)'
    <3>1. Kin(k) /\ src'[k] = src[k] /\ store'[k] = store[k]
      BY <1>2, <2>1 DEF KinInv
    <3>2. Reading(k)' => Reading(k)
      BY <1>2 DEF Reading
    <3> QED BY <1>2, <3>1, <3>2, KinStays
  <2> QED BY <1>2, <2>1 DEF KinInv
<1>3. ASSUME NEW n \in Ids, CreateNote(n) PROVE KinInv'
  <2>1. /\ UNCHANGED <<req, store, dst, apart>> /\ n \notin DOMAIN src \cup gone
        /\ src' = [k \in DOMAIN src \cup {n} |->
             IF k = n THEN [doc |-> Empty, file |-> {}, named |-> TRUE, onDisk |-> FALSE] ELSE src[k]]
    BY <1>3 DEF CreateNote, destination
  <2>2. store'[n] = Empty /\ src'[n].doc = Empty /\ src'[n].file = {}
    BY <2>1 DEF DocsInv
  <2>3. Empty.ins = {} /\ Empty.del = {} /\ Text(Empty) = {}
    BY DEF Empty, Text, Shown
  <2>4. ~ Reading(n)'
    BY <1>h, <2>1 DEF Reading
  <2>5. Kin(n)'
    BY <2>2, <2>3, <2>4 DEF Kin, Mine
  <2> QED BY <1>2, <2>1, <2>5
<1>4. ASSUME NEW n \in Ids, Settle(n) PROVE KinInv'
  <2>1. \A k \in DOMAIN src : k # n => src'[k] = src[k]
    BY <1>4, Settles
  <2>2. /\ n \in DOMAIN src /\ DOMAIN src' = DOMAIN src /\ src[n].doc.ins \subseteq src'[n].doc.ins
        /\ src'[n].file = Mine(n) /\ Text(src'[n].doc) \cup src'[n].file = Mine(n) /\ src[n].file \subseteq Mine(n)
    BY <1>4, Settles DEF Mine
  <2>3. UNCHANGED <<req, store, dst, apart>>
    BY <1>4 DEF Settle, destination, history
  <2>4. Reading(n)' <=> Reading(n)
    BY <2>3 DEF Reading
  <2>5. Kin(n)
    BY <2>2 DEF KinInv
  <2>6. Kin(n)'
    BY <2>2, <2>3, <2>4, <2>5 DEF Kin, Mine, Again
  <2> QED BY <1>2, <2>1, <2>2, <2>3, <2>6
<1>5. ASSUME NEW n \in Ids, NEW m \in Marks, Type(n, m) \/ \E named \in BOOLEAN : SaveFile(n, m, named) PROVE KinInv'
  <2>1. \A k \in DOMAIN src : k # n => src'[k] = src[k]
    BY <1>5, Gains
  <2>2. /\ n \in DOMAIN src /\ DOMAIN src' = DOMAIN src /\ src[n].doc.ins \subseteq src'[n].doc.ins
        /\ src[n].file \subseteq src'[n].file /\ Text(src'[n].doc) \cup src'[n].file = Mine(n) \cup {m} /\ m \notin made
        /\ SourceGains(n, m)
    BY <1>5, Gains
  <2>3. UNCHANGED <<req, store, dst, apart>>
    BY <2>2 DEF SourceGains, destination
  <2>4. Reading(n)' <=> Reading(n)
    BY <2>3 DEF Reading
  <2>5. Kin(n) /\ store[n].ins \cup store[n].del \subseteq made \X Bytes
    BY <1>0, <2>2 DEF KinInv, DocsInv
  <2>6. ~ Again(n, m)
    BY <2>2, <2>5 DEF Again
  <2>7. Kin(n)'
    BY <2>2, <2>3, <2>4, <2>5, <2>6 DEF Kin, Mine, Again
  <2> QED BY <1>2, <2>1, <2>2, <2>3, <2>7
<1>6. ASSUME NEW n \in Ids, DeleteFromSource(n) PROVE KinInv'
  <2>1. UNCHANGED <<req, store, dst, apart>> /\ src' = [k \in DOMAIN src \ {n} |-> src[k]]
    BY <1>6 DEF DeleteFromSource, destination
  <2> QED BY <1>2, <2>1
\* One step of the request for note n: no other is being read.
<1>7. ASSUME NEW n \in Ids, UNCHANGED src, apart \subseteq apart', \A k \in Ids : k # n => store'[k] = store[k],
             \A k \in Ids : Reading(k)' => k = n, n \in DOMAIN src => Kin(n)'
      PROVE KinInv'
  <2>1. ASSUME NEW k \in DOMAIN src', k # n PROVE Kin(k)'
    <3>1. Kin(k) /\ src'[k] = src[k] /\ store'[k] = store[k] /\ ~ Reading(k)'
      BY <1>0, <1>7, <2>1 DEF KinInv
    <3> QED BY <1>7, <3>1, KinStays
  <2> QED BY <1>7, <2>1 DEF KinInv
<1>8. ASSUME NEW n \in Ids, ReadNote(n) PROVE KinInv'
  <2>1. /\ UNCHANGED <<src, store, dst>> /\ n \in DOMAIN src
        /\ apart' = apart \cup (src[n].file \ Text(src[n].doc))
        /\ req' = [req EXCEPT !.at = "state", !.text = src[n].file, !.named = src[n].named]
        /\ n = Head(req.order)
    BY <1>8 DEF ReadNote, IsNext, source, destination
  <2>2. req'.at = "state" /\ req'.text = src[n].file /\ req'.order = req.order
    BY <1>0, <2>1 DEF ReqInv, Request
  <2>3. Kin(n) /\ src[n].doc.ins \subseteq Marks \X {"src"}
    BY <2>1 DEF KinInv, DocsInv
  <2>4. ASSUME NEW m \in src[n].file \ apart' PROVE <<m, "src">> \in src[n].doc.ins
    <3>1. m \in Text(src[n].doc)
      BY <2>1, <2>4
    <3>2. PICK i \in src[n].doc.ins : i[1] = m
      BY <3>1 DEF Text, Shown
    <3> QED BY <2>3, <3>2
  <2>5. Kin(n)'
    BY <2>1, <2>2, <2>3, <2>4 DEF Kin, Mine, Again
  <2>6. \A k \in Ids : Reading(k)' => k = n
    BY <2>1, <2>2 DEF Reading
  <2> QED BY <1>7, <2>1, <2>5, <2>6
<1>9. ASSUME NEW n \in Ids, CarryState(n) PROVE KinInv'
  <2>1. /\ UNCHANGED <<src, dst, apart>> /\ req' = [req EXCEPT !.at = "write"] /\ req.at = "state"
        /\ n = Head(req.order) /\ \A k \in Notes : k # n => store'[k] = store[k]
        /\ IF n \in DOMAIN src /\ n \notin DOMAIN dst
             THEN /\ store'[n].ins = store[n].ins \cup src[n].doc.ins
                  /\ store'[n].del = store[n].del \cup src[n].doc.del
             ELSE store' = store
    BY <1>9, Carries DEF source, history
  <2>2. req'.at = "write" /\ req'.text = req.text /\ req'.order = req.order
    BY <1>0, <2>1 DEF ReqInv, Request
  <2>3. \A k \in Ids : Reading(k)' => k = n
    BY <2>1, <2>2 DEF Reading
  <2>4. ASSUME n \in DOMAIN src PROVE Kin(n)'
    <3>1. Kin(n) /\ Reading(n) /\ Reading(n)' /\ src[n].doc.ins \subseteq Marks \X {"src"} /\ src[n].doc.del = {}
      BY <2>1, <2>2, <2>4 DEF KinInv, DocsInv, Reading
    <3>2. store'[n].del = store[n].del /\ store[n].ins \subseteq store'[n].ins
          /\ store'[n].ins \subseteq store[n].ins \cup src[n].doc.ins
      BY <2>1, <2>4, <3>1
    <3>3. \A m : Again(n, m)' <=> Again(n, m)
      BY <3>1, <3>2 DEF Again
    <3>4. n \notin DOMAIN dst => src[n].doc.ins \subseteq store'[n].ins
      BY <2>1, <2>4
    <3> QED BY <2>1, <2>2, <3>1, <3>2, <3>3, <3>4 DEF Kin, Mine
  <2> QED BY <1>0, <1>7, <2>1, <2>3, <2>4
<1>10. ASSUME NEW n \in Ids, WriteNote(n) PROVE KinInv'
  <2>1. /\ UNCHANGED src /\ req' = [req EXCEPT !.at = "read", !.order = Tail(@)] /\ apart' = apart
        /\ \E k, body : AdoptedAs(k, body, req.to[n], Written(n)) /\ (k # n => k \in Spare)
    BY <1>10, WrittenIs DEF source
  <2>2. PICK k, body : AdoptedAs(k, body, req.to[n], Written(n)) /\ (k # n => k \in Spare)
    BY <2>1
  <2>3. \A j \in Notes : j # k => store'[j] = store[j]
    BY <1>0, <2>2 DEF AdoptedAs, DstTypes
  <2>4. req'.at = "read"
    BY <1>0, <2>1 DEF ReqInv, Request
  <2>5. \A j \in Ids : j # n => store'[j] = store[j]
    BY <1>0, <2>2, <2>3, MergeAssumption
  <2>6. ASSUME n \in DOMAIN src PROVE Kin(n)'
    <3>1. Kin(n) /\ Reading(n) /\ req.at = "write" /\ ~ Reading(n)'
      BY <1>10, <2>4, <2>6, Writes DEF KinInv, Reading
    <3>2. CASE k # n
      <4>1. store'[n] = store[n]
        BY <1>0, <2>3, <3>2
      <4> QED BY <2>1, <3>1, <4>1, KinStays
    <3>3. CASE k = n
      <4>1. /\ store'[n] = body /\ n \notin DOMAIN dst
            /\ body = SetText(IF n = Written(n).id THEN store[n] ELSE Empty, req.text, "dst")
            /\ (n \in Spare /\ n # Written(n).id) \/ n = Written(n).id
        BY <1>0, <2>2, <3>3 DEF AdoptedAs, DstTypes, Written
      <4>2. n = Written(n).id
        BY <4>1, MergeAssumption
      <4>3. /\ store'[n].ins = store[n].ins \cup {<<m, "dst">> : m \in req.text \ Text(store[n])}
            /\ store'[n].del = store[n].del \cup {i \in store[n].ins : i[1] \notin req.text}
        BY <4>1, <4>2 DEF SetText
      <4>4. ASSUME NEW m \in Mine(n), Again(n, m)'
            PROVE  /\ <<m, "dst">> \notin store'[n].del /\ m \in src[n].file
                   /\ m \in apart \/ <<m, "src">> \in store'[n].del
        <5>1. CASE Again(n, m)
          BY <3>1, <4>3, <4>4, <5>1 DEF Kin
        <5>2. CASE ~ Again(n, m)
          <6>1. m \in req.text \ Text(store[n]) /\ <<m, "dst">> \notin store[n].ins \cup store[n].del
            BY <4>3, <4>4, <5>2 DEF Again
          <6>2. <<m, "dst">> \notin store'[n].del /\ m \in src[n].file
            BY <3>1, <4>3, <6>1 DEF Kin
          <6>3. m \in apart \/ <<m, "src">> \in store[n].ins
            BY <3>1, <4>1, <6>1 DEF Kin
          <6>4. <<m, "src">> \in store[n].ins => <<m, "src">> \in store[n].del
            BY <6>1 DEF Text, Shown
          <6> QED BY <4>3, <6>2, <6>3, <6>4
        <5> QED BY <5>1, <5>2
      <4>5. \A m \in Marks : <<m, "src">> \in store'[n].ins => <<m, "src">> \in src[n].doc.ins
        BY <3>1, <4>3 DEF Kin
      <4> QED BY <2>1, <3>1, <4>4, <4>5 DEF Kin, Mine
    <3> QED BY <3>2, <3>3
  <2> QED BY <1>7, <2>1, <2>4, <2>5, <2>6 DEF Reading
<1>11. ASSUME NEW n \in Ids \cup Own \cup Spare, DeleteThere(n) PROVE KinInv'
  <2>1. /\ UNCHANGED <<src, store, req>> /\ dst' = [d \in DOMAIN dst \ {n} |-> dst[d]]
        /\ apart' = IF req.at = "write" /\ n = Head(req.order) THEN apart \cup req.text ELSE apart
    BY <1>11 DEF DeleteThere, source
  <2>2. ASSUME NEW k \in DOMAIN src' PROVE Kin(k)'
    <3>1. Kin(k) /\ src'[k] = src[k] /\ store'[k] = store[k] /\ apart \subseteq apart'
      BY <2>1, <2>2 DEF KinInv
    <3>2. Reading(k)' => Reading(k) /\ req'.text = req.text
      BY <2>1 DEF Reading
    <3>3. Reading(k)' /\ req'.at = "write" /\ k \notin DOMAIN dst' =>
            req.at = "write" /\ (k \notin DOMAIN dst \/ req.text \subseteq apart')
      BY <2>1 DEF Reading
    <3> QED BY <3>1, <3>2, <3>3, KinStays
  <2> QED BY <2>2 DEF KinInv
<1>12. ASSUME NEW n \in Ids \cup Own \cup Spare, NEW m \in Marks, TypeThere(n, m) PROVE KinInv'
  <2>1. /\ n \in DOMAIN dst /\ n \in Notes /\ DOMAIN dst' = DOMAIN dst
        /\ \A k \in Notes : k # n => store'[k] = store[k]
        /\ dst'[n].doc.ins = dst[n].doc.ins \cup {<<m, "dst">>} /\ dst'[n].doc.del = dst[n].doc.del
        /\ store'[n] = dst'[n].doc /\ m \notin made
    BY <1>12, TypesThere
  <2>2. UNCHANGED <<src, req, apart>>
    BY <1>12 DEF TypeThere, source
  <2>3. ASSUME NEW k \in DOMAIN src', k # n PROVE Kin(k)'
    <3>1. Kin(k) /\ src'[k] = src[k] /\ store'[k] = store[k]
      BY <1>0, <2>1, <2>2, <2>3 DEF KinInv
    <3>2. Reading(k)' => Reading(k)
      BY <2>2 DEF Reading
    <3> QED BY <2>1, <2>2, <3>1, <3>2, KinStays
  <2>4. ASSUME n \in DOMAIN src PROVE Kin(n)'
    <3>1. dst[n].doc = store[n] /\ Mine(n) \subseteq made /\ Kin(n) /\ n \in Ids
      BY <1>0, <2>1, <2>4 DEF DocsInv, KinInv
    <3>2. store'[n].ins = store[n].ins \cup {<<m, "dst">>} /\ store'[n].del = store[n].del
      BY <2>1, <3>1
    <3>3. \A x \in Mine(n) : Again(n, x)' => Again(n, x)
      BY <2>1, <3>1, <3>2 DEF Again
    <3>4. (Reading(n)' <=> Reading(n)) /\ n \in DOMAIN dst'
      BY <2>1, <2>2 DEF Reading
    <3>5. Mine(n)' = Mine(n)
      BY <2>2 DEF Mine
    <3> QED BY <2>2, <3>1, <3>2, <3>3, <3>4, <3>5 DEF Kin
  <2> QED BY <2>2, <2>3, <2>4 DEF KinInv
<1>13. ASSUME NEW path \in Wanted, TakeIn(path) PROVE KinInv'
  <2>1. UNCHANGED <<src, req, apart>>
    BY <1>13, TakenIn DEF source, history
  <2>2. PICK k, body : AdoptedAs(k, body, path, stray[path]) /\ k \in Spare
    BY <1>13, TakenIn
  <2>3. DOMAIN dst \subseteq DOMAIN dst' /\ \A j \in Ids : store'[j] = store[j]
    BY <1>0, <2>2, MergeAssumption DEF AdoptedAs, DstTypes
  <2>4. ASSUME NEW j \in DOMAIN src' PROVE Kin(j)'
    <3>1. Kin(j) /\ src'[j] = src[j] /\ store'[j] = store[j]
      BY <1>0, <2>1, <2>3, <2>4 DEF KinInv
    <3>2. Reading(j)' => Reading(j)
      BY <2>1 DEF Reading
    <3> QED BY <2>1, <2>3, <3>1, <3>2, KinStays
  <2> QED BY <2>4 DEF KinInv
<1>14. ASSUME NEW n \in Own, NEW path \in Wanted, CreateThere(n, path) PROVE KinInv'
  <2>1. UNCHANGED <<src, store, req, apart>> /\ DOMAIN dst' = DOMAIN dst \cup {n}
    BY <1>14 DEF CreateThere, source
  <2> QED BY <1>1, <2>1
<1>15. ASSUME NEW path \in Wanted, NEW m \in Marks, PutFile(path, m) PROVE KinInv'
  <2>1. UNCHANGED <<src, store, req, apart, dst>>
    BY <1>15 DEF PutFile, source
  <2> QED BY <1>1, <2>1
<1>16. ASSUME Start \/ Plan \/ CopyPicture \/ CheckLanded \/ Retire \/ Fail PROVE KinInv'
  <2>1. UNCHANGED <<src, store, apart, dst>>
    BY <1>16 DEF Start, Plan, CopyPicture, CheckLanded, Retire, Fail, source, destination, history
  <2>2. req'.at \notin {"state", "write"}
    <3>1. CASE Start \/ Plan \/ CopyPicture
      <4>1. req'.at \in {"survey", "pictures", "read"}
        BY <1>0, <3>1, RequestAt
      <4> QED BY <4>1
    <3>2. CASE CheckLanded \/ Retire \/ Fail
      <4>1. req'.at \in {"retire", "idle"}
        BY <1>0, <3>2, RequestAt
      <4> QED BY <4>1
    <3> QED BY <1>16, <3>1, <3>2
  <2> QED BY <1>1, <2>1, <2>2
<1>17. CASE FetchPicture \/ UNCHANGED mergeVars
  <2>1. UNCHANGED <<src, store, apart, dst, req>>
    BY <1>17 DEF FetchPicture, mergeVars, source, destination, history
  <2> QED BY <1>1, <2>1
<1>18. CASE PictureStep
  <2>1. UNCHANGED <<src, store, req, apart>> /\ DOMAIN dst' = DOMAIN dst
    BY <1>0, <1>18, PictureSteps, PictureNotes
  <2> QED BY <1>1, <2>1
<1> QED
  BY <1>18, <1>3, <1>4, <1>5, <1>6, <1>8, <1>9, <1>10, <1>11, <1>12, <1>13, <1>14, <1>15, <1>16, <1>17 DEF MergeNext, RequestStep

LEMMA KinAtStart ==
  ASSUME MergeInit
  PROVE  KinInv
<1>1. \A n \in DOMAIN src : n \in Ids
  BY DEF MergeInit
<1>2. \A n \in Ids : store[n] = Empty
  BY DEF MergeInit
<1>3. \A n \in DOMAIN src : ~ Reading(n)
  BY DEF MergeInit, Idle, Reading
<1> QED BY <1>1, <1>2, <1>3 DEF KinInv, Kin, Again, Empty

-----------------------------------------------------------------------------
(* Nothing made is lost *)

DocsThere == UNION {Text(dst[n].doc) : n \in DOMAIN dst}
StraysThere == UNION {stray[p].text : p \in DOMAIN stray}

LEMMA DestinationIs ==
  /\ DestinationHas = DocsThere \cup StraysThere
  /\ DestinationHas' = DocsThere' \cup StraysThere'
BY DEF DestinationHas, DocsThere, StraysThere

\* What is taken in is added to the documents, and shown, where it has not been taken out before.
LEMMA AdoptKeeps ==
  ASSUME Types, NEW k, NEW body, NEW path, NEW file \in File, AdoptedAs(k, body, path, file)
  PROVE  /\ DocsThere \subseteq DocsThere'
         /\ (\A m \in file.text : <<m, "dst">> \notin (IF k = file.id THEN store[k] ELSE Empty).del) =>
              file.text \subseteq DocsThere'
<1>1. /\ k \notin DOMAIN dst /\ DOMAIN dst' = DOMAIN dst \cup {k} /\ dst'[k].doc = body
      /\ \A d \in DOMAIN dst : dst'[d] = dst[d]
  BY DEF AdoptedAs
<1>2. DocsThere \subseteq DocsThere' /\ Text(body) \subseteq DocsThere'
  BY <1>1 DEF DocsThere
<1>3. (IF k = file.id THEN store[k] ELSE Empty) \in Doc /\ file.text \in SUBSET Marks
  BY EmptyIs DEF AdoptedAs, File, Types, DstTypes
<1>4. body = SetText(IF k = file.id THEN store[k] ELSE Empty, file.text, "dst")
  BY DEF AdoptedAs
<1>5. (\A m \in file.text : <<m, "dst">> \notin (IF k = file.id THEN store[k] ELSE Empty).del) =>
        file.text \subseteq Text(body)
  BY <1>3, <1>4, SetTextShows
<1> QED BY <1>2, <1>5

\* What the request read of a note the source still has is there once it is written.
LEMMA Lands ==
  ASSUME Types, DocsInv, KinInv, NEW n \in Ids, WriteNote(n)
  PROVE  DocsThere \subseteq DocsThere' /\ (n \in DOMAIN src => req.text \subseteq DocsThere')
<1>1. PICK k, body : AdoptedAs(k, body, req.to[n], Written(n)) /\ (k # n => k \in Spare)
  BY WrittenIs
<1>2. Written(n) \in File /\ req.at = "write" /\ n = Head(req.order) /\ Written(n).text = req.text
      /\ Written(n).id \in {n, None}
  BY Writes DEF Written
<1>3. DocsThere \subseteq DocsThere' /\
      ((\A m \in req.text : <<m, "dst">> \notin (IF k = Written(n).id THEN store[k] ELSE Empty).del) =>
         req.text \subseteq DocsThere')
  BY <1>1, <1>2, AdoptKeeps
<1>4. ASSUME n \in DOMAIN src, NEW m \in req.text
      PROVE  <<m, "dst">> \notin (IF k = Written(n).id THEN store[k] ELSE Empty).del
  <2>1. CASE k # Written(n).id
    BY <2>1 DEF Empty
  <2>2. CASE k = Written(n).id
    <3>1. k = n
      BY <1>1, <1>2, <2>2, MergeAssumption
    <3>2. Reading(n) /\ Kin(n)
      BY <1>2, <1>4 DEF Reading, KinInv
    <3>3. m \in Mine(n)
      BY <1>4, <3>2 DEF Kin, Mine
    <3>4. <<m, "dst">> \notin store[n].del
      BY <3>2, <3>3 DEF Kin, Again
    <3> QED BY <2>2, <3>1, <3>4
  <2> QED BY <2>1, <2>2
<1> QED BY <1>3, <1>4

LEMMA DestinationGrows ==
  ASSUME Types, DocsInv, KinInv, [MergeNext]_mergeVars
  PROVE  /\ over \subseteq over' /\ cut \subseteq cut'
         /\ over \cup cut \cup DestinationHas \subseteq over' \cup cut' \cup DestinationHas'
<1> DEFINE Grows == /\ over \subseteq over' /\ cut \subseteq cut'
                    /\ over \cup cut \cup DestinationHas \subseteq over' \cup cut' \cup DestinationHas'
<1>0. DstTypes /\ StrayTypes /\ PicTypes
  BY DEF Types
<1>1. ASSUME UNCHANGED <<dst, stray, over>>, cut \subseteq cut' PROVE Grows
  BY <1>1 DEF DestinationHas
<1>2. ASSUME NEW n \in Ids, CreateNote(n) \/ Settle(n) \/ DeleteFromSource(n) PROVE Grows
  <2>1. UNCHANGED <<dst, stray, over>> /\ cut \subseteq cut'
    BY <1>2 DEF CreateNote, Settle, DeleteFromSource, destination, history
  <2> QED BY <1>1, <2>1
<1>3. ASSUME NEW n \in Ids, NEW m \in Marks, Type(n, m) \/ \E named \in BOOLEAN : SaveFile(n, m, named) PROVE Grows
  <2>1. UNCHANGED <<dst, stray, over>> /\ cut \subseteq cut'
    BY <1>3 DEF Type, SaveFile, SourceGains, destination
  <2> QED BY <1>1, <2>1
<1>4. ASSUME NEW n \in Ids, ReadNote(n) \/ CarryState(n) PROVE Grows
  <2>1. UNCHANGED <<dst, stray, over>> /\ cut \subseteq cut'
    BY <1>4 DEF ReadNote, CarryState, destination, history
  <2> QED BY <1>1, <2>1
<1>5. ASSUME NEW n \in Ids, WriteNote(n) PROVE Grows
  <2>1. /\ stray' = [p \in DOMAIN stray \ {req.to[n]} |-> stray[p]] /\ cut' = cut
        /\ over' = over \cup UNION {stray[p].text : p \in {req.to[n]} \cap DOMAIN stray}
    BY <1>5, WrittenIs
  <2>2. StraysThere \subseteq StraysThere' \cup over'
    BY <2>1 DEF StraysThere
  <2> QED BY <1>5, <2>1, <2>2, Lands, DestinationIs
<1>6. ASSUME NEW n \in Ids \cup Own \cup Spare, DeleteThere(n) PROVE Grows
  <2>1. dst' = [d \in DOMAIN dst \ {n} |-> dst[d]] /\ cut' = cut \cup Text(dst[n].doc) /\ UNCHANGED <<stray, over>>
    BY <1>6 DEF DeleteThere
  <2>2. DocsThere \subseteq DocsThere' \cup cut'
    BY <2>1 DEF DocsThere
  <2>3. StraysThere' = StraysThere
    BY <2>1 DEF StraysThere
  <2> QED BY <2>1, <2>2, <2>3, DestinationIs
<1>7. ASSUME NEW n \in Ids \cup Own \cup Spare, NEW m \in Marks, TypeThere(n, m) PROVE Grows
  <2>1. /\ DOMAIN dst' = DOMAIN dst /\ \A k \in DOMAIN dst : k # n => dst'[k] = dst[k]
        /\ dst'[n].doc.ins = dst[n].doc.ins \cup {<<m, "dst">>} /\ dst'[n].doc.del = dst[n].doc.del
        /\ UNCHANGED <<stray, over, cut>>
    BY <1>7, TypesThere DEF TypeThere
  <2>2. Text(dst[n].doc) \subseteq Text(dst'[n].doc)
    BY <2>1 DEF Text, Shown
  <2>3. \A k \in DOMAIN dst : Text(dst[k].doc) \subseteq Text(dst'[k].doc)
    BY <2>1, <2>2
  <2>4. DocsThere \subseteq DocsThere' /\ StraysThere' = StraysThere
    BY <2>1, <2>3 DEF DocsThere, StraysThere
  <2> QED BY <2>1, <2>4, DestinationIs
<1>8. ASSUME NEW path \in Wanted, TakeIn(path) PROVE Grows
  <2>1. PICK k, body : AdoptedAs(k, body, path, stray[path]) /\ k \in Spare
    BY <1>8, TakenIn
  <2>2. UNCHANGED <<over, cut>> /\ path \in DOMAIN stray /\ stray' = [p \in DOMAIN stray \ {path} |-> stray[p]]
    BY <1>8, TakenIn DEF history
  <2>3. stray[path] \in File /\ stray[path].id = None /\ k # None
    BY <1>0, <2>1, <2>2, MergeAssumption DEF StrayTypes, DocsInv
  <2>4. DocsThere \subseteq DocsThere' /\ stray[path].text \subseteq DocsThere'
    BY <2>1, <2>3, AdoptKeeps DEF Empty
  <2>5. StraysThere \subseteq StraysThere' \cup stray[path].text
    BY <2>2 DEF StraysThere
  <2> QED BY <2>2, <2>4, <2>5, DestinationIs
<1>9. ASSUME NEW n \in Own, NEW path \in Wanted, CreateThere(n, path) PROVE Grows
  <2>1. /\ UNCHANGED <<stray, over, cut>> /\ DOMAIN dst \subseteq DOMAIN dst'
        /\ \A d \in DOMAIN dst : dst'[d] = dst[d]
    BY <1>9 DEF CreateThere
  <2>2. DocsThere \subseteq DocsThere' /\ StraysThere' = StraysThere
    BY <2>1 DEF DocsThere, StraysThere
  <2> QED BY <2>1, <2>2, DestinationIs
<1>10. ASSUME NEW path \in Wanted, NEW m \in Marks, PutFile(path, m) PROVE Grows
  <2>1. /\ UNCHANGED <<dst, over, cut>> /\ DOMAIN stray \subseteq DOMAIN stray'
        /\ \A p \in DOMAIN stray : stray'[p] = stray[p]
    BY <1>10 DEF PutFile
  <2>2. StraysThere \subseteq StraysThere' /\ DocsThere' = DocsThere
    BY <2>1 DEF DocsThere, StraysThere
  <2> QED BY <2>1, <2>2, DestinationIs
<1>11. ASSUME Start \/ Plan \/ CopyPicture \/ CheckLanded \/ Retire \/ Fail \/ FetchPicture \/ UNCHANGED mergeVars PROVE Grows
  <2>1. UNCHANGED <<dst, stray, over, cut>>
    BY <1>11 DEF Start, Plan, CopyPicture, CheckLanded, Retire, Fail, FetchPicture, mergeVars, destination, history
  <2> QED BY <1>1, <2>1
<1>12. CASE PictureStep
  <2>1. /\ UNCHANGED <<stray, over, cut>> /\ DOMAIN dst' = DOMAIN dst
        /\ \A d \in DOMAIN dst : dst'[d].doc = dst[d].doc
    BY <1>0, <1>12, PictureSteps, PictureNotes
  <2>2. DocsThere' = DocsThere /\ StraysThere' = StraysThere
    BY <2>1 DEF DocsThere, StraysThere
  <2> QED BY <2>1, <2>2, DestinationIs
<1> QED
  BY <1>12, <1>2, <1>3, <1>4, <1>5, <1>6, <1>7, <1>8, <1>9, <1>10, <1>11 DEF MergeNext, RequestStep

LEMMA LateGrows ==
  ASSUME ReqInv, [MergeNext]_mergeVars
  PROVE  /\ ~ Start => late \subseteq late'
         /\ retired => late' = late
         /\ retired => retired'
<1>1. ASSUME NEW n \in Ids, CreateNote(n) \/ Settle(n) \/ DeleteFromSource(n) PROVE UNCHANGED <<late, retired>>
  BY <1>1 DEF CreateNote, Settle, DeleteFromSource, history
<1>2. ASSUME NEW n \in Ids, NEW m \in Marks, Type(n, m) \/ \E named \in BOOLEAN : SaveFile(n, m, named)
      PROVE ~ retired /\ late \subseteq late'
  BY <1>2 DEF Type, SaveFile, SourceGains
<1>3. ASSUME NEW n \in Ids, RequestStep(n) PROVE ~ retired /\ late \subseteq late'
  BY <1>3 DEF RequestStep, ReadNote, CarryState, WriteNote, history, ReqInv
<1>4. ASSUME NEW n \in Ids \cup Own \cup Spare, DeleteThere(n) \/ \E m \in Marks : TypeThere(n, m) PROVE UNCHANGED <<late, retired>>
  BY <1>4 DEF DeleteThere, TypeThere, source
<1>5. ASSUME NEW n \in Own, NEW path \in Wanted, CreateThere(n, path) PROVE UNCHANGED <<late, retired>>
  BY <1>5 DEF CreateThere, source
<1>6. ASSUME NEW path \in Wanted, TakeIn(path) \/ \E m \in Marks : PutFile(path, m) PROVE UNCHANGED <<late, retired>>
  BY <1>6 DEF TakeIn, PutFile, source, history
<1>7. Start => ~ retired
  BY DEF Start
<1>8. ASSUME Plan \/ CopyPicture \/ CheckLanded \/ Retire \/ Fail PROVE late' = late /\ (retired => retired')
  <2>1. CASE Plan \/ CopyPicture \/ CheckLanded \/ Fail
    <3>1. UNCHANGED <<late, retired>>
      BY <2>1 DEF Plan, CopyPicture, CheckLanded, Fail, source, history
    <3> QED BY <3>1
  <2>2. CASE Retire
    BY <2>2 DEF Retire, history
  <2> QED BY <1>8, <2>1, <2>2
<1>9. ASSUME FetchPicture \/ UNCHANGED mergeVars PROVE UNCHANGED <<late, retired>>
  BY <1>9 DEF FetchPicture, mergeVars, source, history
<1>10. ASSUME PictureStep PROVE UNCHANGED <<late, retired>>
  BY <1>10, PictureSteps
<1> QED
  BY <1>10, <1>1, <1>2, <1>3, <1>4, <1>5, <1>6, <1>7, <1>8, <1>9 DEF MergeNext

\* Where the request is, no step but its own takes it elsewhere.
LEMMA RequestStays ==
  ASSUME [MergeNext]_mergeVars
  PROVE  \/ UNCHANGED req
         \/ \E n \in Ids : RequestStep(n)
         \/ Start \/ Plan \/ CopyPicture \/ CheckLanded \/ Retire \/ Fail
<1>1. ASSUME NEW n \in Ids, CreateNote(n) \/ Settle(n) \/ DeleteFromSource(n) PROVE UNCHANGED req
  BY <1>1 DEF CreateNote, Settle, DeleteFromSource
<1>2. ASSUME NEW n \in Ids, NEW m \in Marks, Type(n, m) \/ \E named \in BOOLEAN : SaveFile(n, m, named) PROVE UNCHANGED req
  BY <1>2 DEF Type, SaveFile, SourceGains
<1>3. ASSUME NEW n \in Ids \cup Own \cup Spare, DeleteThere(n) \/ \E m \in Marks : TypeThere(n, m) PROVE UNCHANGED req
  BY <1>3 DEF DeleteThere, TypeThere
<1>4. ASSUME NEW n \in Own, NEW path \in Wanted, CreateThere(n, path) PROVE UNCHANGED req
  BY <1>4 DEF CreateThere
<1>5. ASSUME NEW path \in Wanted, TakeIn(path) \/ \E m \in Marks : PutFile(path, m) PROVE UNCHANGED req
  BY <1>5 DEF TakeIn, PutFile
<1>6. ASSUME FetchPicture \/ UNCHANGED mergeVars PROVE UNCHANGED req
  BY <1>6 DEF FetchPicture, mergeVars
<1>7. ASSUME PictureStep PROVE UNCHANGED req
  BY <1>7, PictureSteps
<1> QED
  BY <1>7, <1>1, <1>2, <1>3, <1>4, <1>5, <1>6 DEF MergeNext

\* What the notes of the source have, until it goes: it only grows, or is deleted by its users.
LEMMA SourceStep ==
  ASSUME Types, DocsInv, [MergeNext]_mergeVars
  PROVE  \/ /\ UNCHANGED made
            /\ \A k \in DOMAIN src' : (k \in DOMAIN src /\ Mine(k)' \subseteq Mine(k)) \/ Mine(k)' = {}
            /\ \A k \in DOMAIN src : (k \in DOMAIN src' /\ Mine(k) \subseteq Mine(k)') \/ Mine(k) \subseteq cut'
         \/ \E n \in DOMAIN src, m \in Marks :
              /\ ~ retired /\ SourceGains(n, m) /\ DOMAIN src' = DOMAIN src /\ Mine(n)' = Mine(n) \cup {m}
              /\ \A k \in DOMAIN src : k # n => Mine(k)' = Mine(k)
         \/ /\ UNCHANGED src
            /\ \E m \in Marks : made' = made \cup {m} /\ m \in DestinationHas'
<1> DEFINE Kept == /\ UNCHANGED made
                   /\ \A k \in DOMAIN src' : (k \in DOMAIN src /\ Mine(k)' \subseteq Mine(k)) \/ Mine(k)' = {}
                   /\ \A k \in DOMAIN src : (k \in DOMAIN src' /\ Mine(k) \subseteq Mine(k)') \/ Mine(k) \subseteq cut'
<1>1. ASSUME UNCHANGED <<made, src>> PROVE Kept
  BY <1>1 DEF Mine
<1>2. ASSUME NEW n \in Ids, CreateNote(n) PROVE Kept
  <2>1. /\ n \notin DOMAIN src /\ DOMAIN src' = DOMAIN src \cup {n} /\ made' = made
        /\ src'[n].doc = Empty /\ src'[n].file = {} /\ \A k \in DOMAIN src : src'[k] = src[k]
    BY <1>2 DEF CreateNote
  <2>2. Mine(n)' = {} /\ \A k \in DOMAIN src : Mine(k)' = Mine(k)
    BY <2>1 DEF Mine, Text, Shown, Empty
  <2> QED BY <2>1, <2>2
<1>3. ASSUME NEW n \in Ids, Settle(n) PROVE Kept
  <2>1. /\ DOMAIN src' = DOMAIN src /\ \A k \in DOMAIN src : k # n => src'[k] = src[k]
        /\ src'[n].file = Text(src'[n].doc) /\ Text(src'[n].doc) = Mine(n)
    BY <1>3, Settles
  <2>2. \A k \in DOMAIN src : Mine(k)' = Mine(k)
    BY <2>1 DEF Mine
  <2> QED BY <1>3, <2>1, <2>2 DEF Settle, history
<1>4. ASSUME NEW n \in Ids, DeleteFromSource(n) PROVE Kept
  <2>1. /\ DOMAIN src' = DOMAIN src \ {n} /\ made' = made /\ cut' = cut \cup Mine(n)
        /\ \A k \in DOMAIN src' : src'[k] = src[k]
    BY <1>4 DEF DeleteFromSource, Mine
  <2>2. \A k \in DOMAIN src' : Mine(k)' = Mine(k)
    BY <2>1 DEF Mine
  <2> QED BY <2>1, <2>2
<1>5. ASSUME NEW n \in Ids, NEW m \in Marks, Type(n, m) \/ \E named \in BOOLEAN : SaveFile(n, m, named)
      PROVE  /\ n \in DOMAIN src /\ SourceGains(n, m) /\ DOMAIN src' = DOMAIN src /\ Mine(n)' = Mine(n) \cup {m}
             /\ \A k \in DOMAIN src : k # n => Mine(k)' = Mine(k)
             /\ ~ retired
  <2>1. ~ retired
    BY <1>5 DEF Type, SaveFile
  <2> QED BY <1>5, <2>1, Gains DEF Mine
<1>6. ASSUME NEW n \in Ids, RequestStep(n) PROVE UNCHANGED <<made, src>>
  BY <1>6 DEF RequestStep, ReadNote, CarryState, WriteNote, source, history
<1>7. ASSUME NEW n \in Ids \cup Own \cup Spare, DeleteThere(n) PROVE UNCHANGED <<made, src>>
  BY <1>7 DEF DeleteThere, source
<1>8. ASSUME NEW n \in Ids \cup Own \cup Spare, NEW m \in Marks, TypeThere(n, m)
      PROVE  UNCHANGED src /\ made' = made \cup {m} /\ m \in DestinationHas'
  <2>1. UNCHANGED src /\ made' = made \cup {m} /\ n \in DOMAIN dst' /\ m \notin made
        /\ dst'[n].doc.ins = dst[n].doc.ins \cup {<<m, "dst">>} /\ dst'[n].doc.del = dst[n].doc.del
        /\ dst[n].doc.del \subseteq made \X Bytes
    BY <1>8, TypesThere DEF TypeThere, source, DocsInv
  <2>2. m \in Text(dst'[n].doc)
    <3>1. <<m, "dst">> \in dst'[n].doc.ins \ dst'[n].doc.del /\ <<m, "dst">>[1] = m
      BY <2>1
    <3> QED BY <3>1 DEF Text, Shown
  <2> QED BY <2>1, <2>2 DEF DestinationHas
<1>9. ASSUME NEW path \in Wanted, NEW m \in Marks, PutFile(path, m)
      PROVE  UNCHANGED src /\ made' = made \cup {m} /\ m \in DestinationHas'
  <2>1. UNCHANGED src /\ made' = made \cup {m} /\ path \in DOMAIN stray' /\ stray'[path].text = {m}
    BY <1>9 DEF PutFile, source
  <2> QED BY <2>1 DEF DestinationHas
<1>10. ASSUME NEW n \in Own, NEW path \in Wanted, CreateThere(n, path) PROVE UNCHANGED <<made, src>>
  BY <1>10 DEF CreateThere, source
<1>11. ASSUME NEW path \in Wanted, TakeIn(path) PROVE UNCHANGED <<made, src>>
  BY <1>11 DEF TakeIn, source, history
<1>12. ASSUME Start \/ Plan \/ CopyPicture \/ CheckLanded \/ Retire \/ Fail \/ FetchPicture \/ UNCHANGED mergeVars
       PROVE UNCHANGED <<made, src>>
  BY <1>12 DEF Start, Plan, CopyPicture, CheckLanded, Retire, Fail, FetchPicture, mergeVars, source, history
<1>13. ASSUME PictureStep PROVE UNCHANGED <<made, src>>
  BY <1>13, PictureSteps
<1> QED
  BY <1>13, <1>1, <1>2, <1>3, <1>4, <1>5, <1>6, <1>7, <1>8, <1>9, <1>10, <1>11, <1>12 DEF MergeNext

\* What the request has read is safe, or in what it is about to write.
ReadIsSafe(n) == ~ ToRead(n) => Mine(n) \subseteq Safe \cup (IF Reading(n) THEN req.text ELSE {})

LEMMA ReadStep ==
  ASSUME Types, DocsInv, KinInv, KeptInv, [MergeNext]_mergeVars, ~ retired', req'.at # "idle",
         NEW n \in DOMAIN src'
  PROVE  ReadIsSafe(n)'
<1>0. /\ ReqInv /\ req \in Request /\ req.order \in Seq(Ids) /\ ~ retired /\ n \in Ids
      /\ \A k \in DOMAIN src : req.at # "idle" => ReadIsSafe(k)
  <2>1. ReqInv /\ req \in Request /\ SrcTypes'
    BY SrcTypesStep DEF Types, ReqInv
  <2>2. ~ retired
    BY <2>1, LateGrows
  <2> QED BY <2>1, <2>2 DEF Request, SrcTypes, KeptInv, ReadIsSafe
<1>1. ~ Start => Safe \subseteq Safe'
  BY <1>0, LateGrows, DestinationGrows DEF Safe
<1>2. CASE Start
  <2>1. PICK order \in SetToSeqs(DOMAIN src) : req' = [Idle EXCEPT !.at = "survey", !.order = order]
    BY <1>2 DEF Start
  <2>2. IsFiniteSet(DOMAIN src)
    BY FS_Subset, MergeAssumption DEF Types, SrcTypes
  <2>3. ToSet(order) = DOMAIN src /\ src' = src
    BY <1>2, <2>1, <2>2, OrderedAll DEF Start, source
  <2>4. req'.at = "survey" /\ req'.order = order
    BY <2>1 DEF Idle
  <2> QED BY <2>3, <2>4 DEF ToRead, ReadIsSafe
<1>3. CASE Plan \/ CopyPicture \/ CheckLanded
  <2>1. /\ req.at \in {"survey", "pictures", "read"} /\ req'.at \in {"pictures", "read", "retire"} /\ req'.order = req.order
        /\ req'.at = "retire" => req.order = <<>>
    <3>1. CASE Plan
      BY <1>0, <3>1, RequestAt DEF Plan
    <3>2. CASE CopyPicture
      BY <1>0, <3>2, RequestAt DEF CopyPicture
    <3>3. CASE CheckLanded
      BY <1>0, <3>3, RequestAt DEF CheckLanded
    <3> QED BY <1>3, <3>1, <3>2, <3>3
  <2>2. src' = src /\ ~ Start
    BY <1>3, <2>1 DEF Plan, CopyPicture, CheckLanded, Start, source
  <2>3. ToRead(n) => ToRead(n)' \/ (req'.at = "retire" /\ n \in ToSet(req.order))
    BY <2>1 DEF ToRead
  <2>4. ToRead(n) => ToRead(n)'
    BY <2>1, <2>3, NoneLeft
  <2>5. ~ Reading(n) /\ Mine(n)' = Mine(n)
    BY <2>1, <2>2 DEF Reading, Mine
  <2> QED BY <1>0, <1>1, <2>1, <2>2, <2>4, <2>5 DEF ReadIsSafe
<1>4. CASE Retire \/ Fail
  BY <1>0, <1>4, RequestAt
<1>5. ASSUME NEW k \in Ids, ReadNote(k) PROVE ReadIsSafe(n)'
  <2>1. /\ req.at = "read" /\ req.order # <<>> /\ k = Head(req.order) /\ UNCHANGED src /\ ~ Start
        /\ req' = [req EXCEPT !.at = "state", !.text = src[k].file, !.named = src[k].named]
        /\ late' = late \cup (Text(src[k].doc) \ src[k].file)
    BY <1>5 DEF ReadNote, IsNext, source, Start
  <2>2. req'.at = "state" /\ req'.order = req.order /\ req'.text = src[k].file
    BY <1>0, <2>1 DEF Request
  <2>3. Mine(n)' = Mine(n) /\ ~ Reading(n)
    BY <2>1 DEF Mine, Reading
  <2>4. CASE n = k
    <3>1. Reading(n)'
      BY <2>1, <2>2, <2>4 DEF Reading
    <3>2. Mine(n) \subseteq late' \cup req'.text
      BY <2>1, <2>2, <2>4 DEF Mine
    <3> QED BY <2>3, <3>1, <3>2 DEF ReadIsSafe, Safe
  <2>5. CASE n # k
    <3>1. ToRead(n) => ToRead(n)'
      BY <1>0, <2>1, <2>2, <2>5, FirstOf DEF ToRead
    <3> QED BY <1>0, <1>1, <2>1, <2>3, <3>1 DEF ReadIsSafe
  <2> QED BY <2>4, <2>5
<1>6. ASSUME NEW k \in Ids, CarryState(k) PROVE ReadIsSafe(n)'
  <2>1. UNCHANGED src /\ req.at = "state" /\ req' = [req EXCEPT !.at = "write"] /\ ~ Start
    BY <1>6, Carries DEF source, Start
  <2>2. req'.at = "write" /\ req'.order = req.order /\ req'.text = req.text
    BY <1>0, <2>1 DEF Request
  <2>3. Mine(n)' = Mine(n) /\ (Reading(n)' <=> Reading(n)) /\ (ToRead(n)' <=> ToRead(n))
    BY <2>1, <2>2 DEF Mine, Reading, ToRead
  <2> QED BY <1>0, <1>1, <2>1, <2>2, <2>3 DEF ReadIsSafe
<1>7. ASSUME NEW k \in Ids, WriteNote(k) PROVE ReadIsSafe(n)'
  <2>1. /\ req.at = "write" /\ k = Head(req.order) /\ UNCHANGED src /\ ~ Start
        /\ req' = [req EXCEPT !.at = "read", !.order = Tail(@)]
    BY <1>7, WrittenIs, Writes DEF source, Start
  <2>2. req'.at = "read" /\ req'.order = Tail(req.order)
    BY <1>0, <2>1 DEF Request
  <2>3. Mine(n)' = Mine(n) /\ (ToRead(n)' <=> ToRead(n)) /\ ~ Reading(n)' /\ (Reading(n) => n = k)
    BY <2>1, <2>2 DEF Mine, Reading, ToRead
  <2>4. n = k => req.text \subseteq Safe'
    BY <1>7, <2>1, Lands, DestinationIs DEF Safe
  <2> QED BY <1>0, <1>1, <2>1, <2>3, <2>4 DEF ReadIsSafe
<1>8. CASE UNCHANGED req
  <2>1. (ToRead(n)' <=> ToRead(n)) /\ (Reading(n)' <=> Reading(n)) /\ req.at # "idle"
    BY <1>8 DEF ToRead, Reading
  <2>2. ~ Start
    BY <2>1 DEF Start
  <2>3. (n \in DOMAIN src /\ Mine(n)' \subseteq Mine(n)) \/ Mine(n)' = {} \/ (n \in DOMAIN src /\ Mine(n)' = Mine(n))
        \/ \E m \in Marks : n \in DOMAIN src /\ SourceGains(n, m) /\ Mine(n)' = Mine(n) \cup {m}
    <3>1. UNCHANGED src => Mine(n)' = Mine(n) /\ n \in DOMAIN src
      BY DEF Mine
    <3> QED BY <3>1, SourceStep
  <2>4. ASSUME NEW m \in Marks, n \in DOMAIN src, SourceGains(n, m), Mine(n)' = Mine(n) \cup {m} PROVE ReadIsSafe(n)'
    <3>1. ~ ToRead(n) => m \in late'
      BY <2>4 DEF SourceGains
    <3> QED BY <1>0, <1>1, <1>8, <2>1, <2>2, <2>4, <3>1 DEF ReadIsSafe, Safe
  <2>5. ASSUME n \in DOMAIN src, Mine(n)' \subseteq Mine(n) PROVE ReadIsSafe(n)'
    BY <1>0, <1>1, <1>8, <2>1, <2>2, <2>5 DEF ReadIsSafe
  <2>6. ASSUME Mine(n)' = {} PROVE ReadIsSafe(n)'
    BY <2>6 DEF ReadIsSafe
  <2> QED BY <2>3, <2>4, <2>5, <2>6
<1> QED
  BY <1>2, <1>3, <1>4, <1>5, <1>6, <1>7, <1>8, RequestStays DEF RequestStep

LEMMA MadeStep ==
  ASSUME Types, DocsInv, KinInv, KeptInv, [MergeNext]_mergeVars, ~ retired'
  PROVE  made' \subseteq (over \cup cut \cup SourceHas \cup DestinationHas)'
<1> DEFINE There == over \cup cut \cup DestinationHas
<1>0. ~ retired
  BY LateGrows DEF Types
<1>1. There \subseteq There' /\ cut' \subseteq There'
  BY DestinationGrows
<1>2. ASSUME NEW x \in made PROVE x \in There \/ \E k \in DOMAIN src : x \in Mine(k)
  BY <1>0 DEF KeptInv, SourceHas, Mine
<1>3. ASSUME NEW k \in DOMAIN src', NEW x \in Mine(k)' PROVE x \in SourceHas'
  BY <1>3 DEF SourceHas, Mine
<1>4. CASE /\ UNCHANGED made
           /\ \A k \in DOMAIN src : (k \in DOMAIN src' /\ Mine(k) \subseteq Mine(k)') \/ Mine(k) \subseteq cut'
  <2>1. SUFFICES ASSUME NEW x \in made PROVE x \in There' \cup SourceHas'
    BY <1>4
  <2>2. CASE x \in There
    BY <1>1, <2>2
  <2>3. ASSUME NEW k \in DOMAIN src, x \in Mine(k) PROVE x \in There' \cup SourceHas'
    BY <1>1, <1>3, <1>4, <2>3
  <2> QED BY <1>2, <2>2, <2>3
<1>5. ASSUME NEW n \in DOMAIN src, NEW m \in Marks, SourceGains(n, m), DOMAIN src' = DOMAIN src,
             Mine(n)' = Mine(n) \cup {m}, \A k \in DOMAIN src : k # n => Mine(k)' = Mine(k)
      PROVE  made' \subseteq There' \cup SourceHas'
  <2>1. made' = made \cup {m} /\ m \in SourceHas'
    BY <1>3, <1>5 DEF SourceGains
  <2>2. ASSUME NEW k \in DOMAIN src PROVE Mine(k) \subseteq Mine(k)' /\ k \in DOMAIN src'
    BY <1>5
  <2>3. ASSUME NEW x \in made PROVE x \in There' \cup SourceHas'
    BY <1>1, <1>2, <1>3, <2>2
  <2> QED BY <2>1, <2>3
<1>6. ASSUME UNCHANGED src, NEW m \in Marks, made' = made \cup {m}, m \in DestinationHas'
      PROVE  made' \subseteq There' \cup SourceHas'
  <2>1. \A k \in DOMAIN src : Mine(k)' = Mine(k)
    BY <1>6 DEF Mine
  <2>2. ASSUME NEW x \in made PROVE x \in There' \cup SourceHas'
    BY <1>1, <1>2, <1>3, <1>6, <2>1
  <2> QED BY <1>6, <2>2
<1> QED
  BY <1>4, <1>5, <1>6, SourceStep

\* The source goes when the request has it retire, and stays gone.
LEMMA RetiredBy ==
  ASSUME [MergeNext]_mergeVars
  PROVE  UNCHANGED retired \/ Retire
<1>1. ASSUME NEW n \in Ids, CreateNote(n) \/ Settle(n) \/ DeleteFromSource(n) PROVE UNCHANGED retired
  BY <1>1 DEF CreateNote, Settle, DeleteFromSource
<1>2. ASSUME NEW n \in Ids, NEW m \in Marks, Type(n, m) \/ \E named \in BOOLEAN : SaveFile(n, m, named) PROVE UNCHANGED retired
  BY <1>2 DEF Type, SaveFile, SourceGains
<1>3. ASSUME NEW n \in Ids, RequestStep(n) PROVE UNCHANGED retired
  BY <1>3 DEF RequestStep, ReadNote, CarryState, WriteNote, source
<1>4. ASSUME NEW n \in Ids \cup Own \cup Spare, DeleteThere(n) \/ \E m \in Marks : TypeThere(n, m) PROVE UNCHANGED retired
  BY <1>4 DEF DeleteThere, TypeThere, source
<1>5. ASSUME NEW n \in Own, NEW path \in Wanted, CreateThere(n, path) PROVE UNCHANGED retired
  BY <1>5 DEF CreateThere, source
<1>6. ASSUME NEW path \in Wanted, TakeIn(path) \/ \E m \in Marks : PutFile(path, m) PROVE UNCHANGED retired
  BY <1>6 DEF TakeIn, PutFile, source
<1>7. ASSUME Start \/ Plan \/ CopyPicture \/ CheckLanded \/ Fail \/ FetchPicture \/ UNCHANGED mergeVars PROVE UNCHANGED retired
  BY <1>7 DEF Start, Plan, CopyPicture, CheckLanded, Fail, FetchPicture, mergeVars, source
<1>8. ASSUME PictureStep PROVE UNCHANGED retired
  BY <1>8, PictureSteps
<1> QED BY <1>8, <1>1, <1>2, <1>3, <1>4, <1>5, <1>6, <1>7 DEF MergeNext

\* Once the source is gone, nothing made was only there.
LEMMA GoneStep ==
  ASSUME Types, DocsInv, KinInv, KeptInv, [MergeNext]_mergeVars, retired'
  PROVE  made' \subseteq Safe'
<1>1. CASE ~ retired
  <2>1. Retire
    BY <1>1, RetiredBy
  <2>2. req.at = "retire" /\ UNCHANGED <<src, made, late, over, cut, dst, stray>>
    BY <2>1 DEF Retire, destination, history
  <2>3. \A n \in DOMAIN src : ~ ToRead(n) /\ ~ Reading(n)
    BY <2>2 DEF ToRead, Reading
  <2>4. \A n \in DOMAIN src : Mine(n) \subseteq Safe
    BY <1>1, <2>2, <2>3 DEF KeptInv
  <2>5. SourceHas \subseteq Safe
    BY <1>1, <2>4 DEF SourceHas, Mine
  <2>6. Safe' = Safe
    BY <2>2 DEF Safe, DestinationHas
  <2> QED BY <1>1, <2>2, <2>5, <2>6 DEF KeptInv, Safe
<1>2. CASE retired
  <2>1. late' = late /\ made \subseteq Safe /\ ReqInv
    BY <1>2, LateGrows DEF KeptInv, Types
  <2>2. made \subseteq Safe'
    BY <2>1, DestinationGrows DEF Safe
  <2> QED BY <1>2, <2>2, SourceStep DEF Safe
<1> QED BY <1>1, <1>2

LEMMA KeptStep ==
  ASSUME Types, DocsInv, KinInv, KeptInv, [MergeNext]_mergeVars
  PROVE  KeptInv'
<1>1. ~ retired' /\ req'.at # "idle" => \A n \in DOMAIN src' : ReadIsSafe(n)'
  BY ReadStep
<1> QED BY <1>1, MadeStep, GoneStep DEF KeptInv, ReadIsSafe

LEMMA KeptAtStart ==
  ASSUME MergeInit
  PROVE  KeptInv
<1>1. PICK live \in SUBSET Ids, first \in Marks :
        /\ live # {} /\ made = {first}
        /\ src = [n \in live |-> [doc |-> [ins |-> {<<first, "src">>}, del |-> {}], file |-> {first},
                                  named |-> TRUE, onDisk |-> TRUE]]
  BY DEF MergeInit
<1>2. retired = FALSE /\ req.at = "idle"
  BY DEF MergeInit, Idle
<1>3. PICK n : n \in live
  BY <1>1
<1>4. first \in src[n].file /\ n \in DOMAIN src
  BY <1>1, <1>3
<1>5. first \in SourceHas
  BY <1>2, <1>4 DEF SourceHas
<1> QED BY <1>1, <1>2, <1>5 DEF KeptInv

-----------------------------------------------------------------------------
(* Pictures, and the notes' own ids *)

\* Where the destination's notes come from: they stay, go when deleted, or are written by the merge;
\* and what they show is changed by nothing else than what happens to the pictures themselves.
LEMMA NotesThere ==
  ASSUME Types, DocsInv, [MergeNext]_mergeVars
  PROVE  /\ DOMAIN dst \subseteq DOMAIN dst' \/ \E n \in Ids \cup Own \cup Spare : DeleteThere(n)
         /\ ~ PictureStep => \A d \in DOMAIN dst' :
              \/ d \in DOMAIN dst /\ dst'[d].pic = dst[d].pic /\ dst'[d].means = dst[d].means
              \/ dst'[d].means = None
              \/ \E n \in Ids : WriteNote(n) /\ dst'[d].pic = Written(n).pic /\ dst'[d].means = Written(n).means
<1> DEFINE Stays(d) == d \in DOMAIN dst /\ dst'[d].pic = dst[d].pic /\ dst'[d].means = dst[d].means
<1>1. ASSUME UNCHANGED dst PROVE DOMAIN dst \subseteq DOMAIN dst' /\ \A d \in DOMAIN dst' : Stays(d)
  BY <1>1
<1>2. ASSUME NEW n \in Ids, CreateNote(n) \/ Settle(n) \/ DeleteFromSource(n) PROVE UNCHANGED dst
  BY <1>2 DEF CreateNote, Settle, DeleteFromSource, destination
<1>3. ASSUME NEW n \in Ids, NEW m \in Marks, Type(n, m) \/ \E named \in BOOLEAN : SaveFile(n, m, named) PROVE UNCHANGED dst
  BY <1>3 DEF Type, SaveFile, SourceGains, destination
<1>4. ASSUME NEW n \in Ids, ReadNote(n) \/ CarryState(n) PROVE UNCHANGED dst
  BY <1>4 DEF ReadNote, CarryState, destination
<1>5. ASSUME NEW path, NEW file, NEW k, NEW body, AdoptedAs(k, body, path, file)
      PROVE  /\ DOMAIN dst \subseteq DOMAIN dst'
             /\ \A d \in DOMAIN dst' : Stays(d) \/ (dst'[d].pic = file.pic /\ dst'[d].means = file.means)
  BY <1>5 DEF AdoptedAs
<1>6. ASSUME NEW n \in Ids, WriteNote(n)
      PROVE  /\ DOMAIN dst \subseteq DOMAIN dst'
             /\ \A d \in DOMAIN dst' : Stays(d) \/ (dst'[d].pic = Written(n).pic /\ dst'[d].means = Written(n).means)
  BY <1>5, <1>6, WrittenIs
<1>7. ASSUME NEW path \in Wanted, TakeIn(path)
      PROVE  /\ DOMAIN dst \subseteq DOMAIN dst'
             /\ \A d \in DOMAIN dst' : Stays(d) \/ dst'[d].means = None
  <2>1. PICK k, body : AdoptedAs(k, body, path, stray[path])
    BY <1>7, TakenIn
  <2>2. path \in DOMAIN stray /\ stray[path].means = None
    BY <1>7, TakenIn DEF DocsInv
  <2> QED BY <1>5, <2>1, <2>2
<1>8. ASSUME NEW n \in Ids \cup Own \cup Spare, NEW m \in Marks, TypeThere(n, m)
      PROVE  DOMAIN dst \subseteq DOMAIN dst' /\ \A d \in DOMAIN dst' : Stays(d)
  <2>1. /\ DOMAIN dst' = DOMAIN dst /\ \A k \in DOMAIN dst : k # n => dst'[k] = dst[k]
        /\ dst'[n].pic = dst[n].pic /\ dst'[n].means = dst[n].means
    BY <1>8, TypesThere
  <2> QED BY <2>1
<1>9. ASSUME NEW n \in Ids \cup Own \cup Spare, DeleteThere(n) PROVE \A d \in DOMAIN dst' : Stays(d)
  BY <1>9 DEF DeleteThere
<1>10. ASSUME NEW n \in Own, NEW path \in Wanted, CreateThere(n, path)
       PROVE  DOMAIN dst \subseteq DOMAIN dst' /\ \A d \in DOMAIN dst' : Stays(d) \/ dst'[d].means = None
  BY <1>10 DEF CreateThere
<1>11. ASSUME NEW path \in Wanted, NEW m \in Marks, PutFile(path, m) PROVE UNCHANGED dst
  BY <1>11 DEF PutFile
<1>12. ASSUME Start \/ Plan \/ CopyPicture \/ CheckLanded \/ Retire \/ Fail \/ FetchPicture \/ UNCHANGED mergeVars PROVE UNCHANGED dst
  BY <1>12 DEF Start, Plan, CopyPicture, CheckLanded, Retire, Fail, FetchPicture, mergeVars, destination
<1>13. PictureStep => DOMAIN dst \subseteq DOMAIN dst'
  BY PictureNotes DEF Types
<1> QED
  BY <1>13, <1>1, <1>2, <1>3, <1>4, <1>6, <1>7, <1>8, <1>9, <1>10, <1>11, <1>12 DEF MergeNext, RequestStep

LEMMA FilesStep ==
  ASSUME Types, DocsInv, [MergeNext]_mergeVars
  PROVE  PictureStep \/ CopyPicture \/ (UNCHANGED files /\ met \subseteq met')
<1> DEFINE Stays == UNCHANGED files /\ met \subseteq met'
<1>1. ASSUME UNCHANGED <<pictures, met>> PROVE Stays
  BY <1>1 DEF pictures
<1>2. ASSUME NEW n \in Ids, CreateNote(n) \/ Settle(n) \/ DeleteFromSource(n) PROVE Stays
  BY <1>1, <1>2 DEF CreateNote, Settle, DeleteFromSource, destination, history
<1>3. ASSUME NEW n \in Ids, NEW m \in Marks, Type(n, m) \/ \E named \in BOOLEAN : SaveFile(n, m, named) PROVE Stays
  BY <1>1, <1>3 DEF Type, SaveFile, SourceGains, destination
<1>4. ASSUME NEW n \in Ids, ReadNote(n) \/ CarryState(n) PROVE Stays
  BY <1>1, <1>4 DEF ReadNote, CarryState, destination, history
<1>5. ASSUME NEW n \in Ids, WriteNote(n) PROVE Stays
  BY <1>1, <1>5, WrittenIs
<1>6. ASSUME NEW path \in Wanted, TakeIn(path) PROVE Stays
  BY <1>1, <1>6, TakenIn DEF history
<1>7. ASSUME NEW n \in Ids \cup Own \cup Spare, DeleteThere(n) \/ \E m \in Marks : TypeThere(n, m) PROVE Stays
  BY <1>1, <1>7 DEF DeleteThere, TypeThere
<1>8. ASSUME NEW n \in Own, NEW path \in Wanted, CreateThere(n, path) PROVE Stays
  BY <1>1, <1>8 DEF CreateThere
<1>9. ASSUME NEW path \in Wanted, NEW m \in Marks, PutFile(path, m) PROVE Stays
  BY <1>1, <1>9 DEF PutFile
<1>10. ASSUME Start \/ CheckLanded \/ Retire \/ Fail \/ FetchPicture \/ UNCHANGED mergeVars PROVE Stays
  BY <1>1, <1>10 DEF Start, CheckLanded, Retire, Fail, FetchPicture, mergeVars, destination, history
<1>11. ASSUME Plan PROVE Stays
  BY <1>11 DEF Plan, destination, pictures
<1> QED
  BY <1>2, <1>3, <1>4, <1>5, <1>6, <1>7, <1>8, <1>9, <1>10, <1>11 DEF MergeNext, RequestStep

\* A path that was planned is free, but where all its numbers are taken.
LEMMA FreePathIsFree ==
  ASSUME NEW wanted, NEW taken, FreePath(wanted, taken) \in taken
  PROVE  Numbered(wanted) \subseteq taken
<1> DEFINE free == {k \in Alternatives : Append(wanted, k) \notin taken}
<1>1. wanted \in taken
  BY DEF FreePath
<1>2. CASE free = {}
  BY <1>2 DEF Numbered
<1>3. CASE free # {}
  <2>1. Min(free) \in free
    BY <1>3, LeastNumber
  <2>2. FreePath(wanted, taken) = Append(wanted, Min(free))
    BY <1>1, <1>3 DEF FreePath
  <2> QED BY <2>1, <2>2
<1> QED BY <1>2, <1>3

\* Other bytes at the path that is planned are overlooked.
LEMMA PlannedOver ==
  ASSUME PlanPicture.to \in DOMAIN files, files[PlanPicture.to] # "src"
  PROVE  Overlooked(PlanPicture.to)
<1>1. CASE Picture \notin DOMAIN Surveyed
  BY <1>1 DEF PlanPicture, Overlooked
<1>2. CASE Picture \in DOMAIN Surveyed /\ Surveyed[Picture] = "src"
  <2>1. PlanPicture.to = Picture
    BY <1>2 DEF PlanPicture
  <2> QED BY <1>2, <2>1 DEF Overlooked
<1>3. CASE Picture \in DOMAIN Surveyed /\ Surveyed[Picture] # "src"
  <2>1. PlanPicture.to = FreePath(Suffixed, DOMAIN Surveyed)
    BY <1>3 DEF PlanPicture
  <2>2. PlanPicture.to \in DOMAIN Surveyed => Numbered(Suffixed) \subseteq DOMAIN Surveyed
    BY <2>1, FreePathIsFree
  <2> QED BY <2>2 DEF Overlooked
<1> QED BY <1>1, <1>2, <1>3

\* The source's picture comes where there is none, where it is, or where it was not looked for.
LEMMA Copies ==
  ASSUME Types, PicInv, CopyPicture
  PROVE  /\ dst' = dst /\ met' = met /\ req'.pic = req.pic
         /\ DOMAIN files \subseteq DOMAIN files'
         /\ \A p \in DOMAIN files \ met : files'[p] = files[p]
         /\ req.pic.to \in DOMAIN files' \ DOMAIN files => files'[req.pic.to] = "src"
<1>1. req.at = "pictures" /\ dst' = dst /\ met' = met /\ req'.pic = req.pic
  BY RequestAt DEF CopyPicture, history, Types
<1>2. CASE UNCHANGED files
  BY <1>1, <1>2
<1>3. CASE files' = With(files, req.pic.to, "src") /\ "src" # None
  <2>1. files' = [p \in DOMAIN files \cup {req.pic.to} |-> IF p = req.pic.to THEN "src" ELSE files[p]]
    BY <1>3 DEF With
  <2>2. req.pic.to \in DOMAIN files => files[req.pic.to] = "src" \/ req.pic.to \in met
    BY <1>1 DEF PicInv, PictureInPlan
  <2> QED BY <1>1, <2>1, <2>2
<1> QED BY <1>2, <1>3, MergeAssumption DEF CopyPicture

\* What happens to the pictures happens to what the notes mean, and is met where it is in the way.
LEMMA PicturesMove ==
  ASSUME DstTypes, PicTypes, PicInv, PictureStep
  PROVE  PicInv'
<1>0. req' = req
  BY PictureSteps
<1>1. ASSUME NEW path, NEW b \in Bytes \cup {None}, PutPicture(path, b) PROVE PicInv'
  <2>1. /\ files' = [p \in (DOMAIN files \cup {path}) \ {q \in {path} : b = None} |->
                       IF p = path THEN b ELSE files[p]]
        /\ dst' = [d \in DOMAIN dst |->
             IF dst[d].pic = path THEN [dst[d] EXCEPT !.means = b] ELSE dst[d]]
        /\ met' = IF Expects(path) /\ b = "dst" THEN met \cup {path} ELSE met
    BY <1>1 DEF PutPicture, With
  <2>2. PicturesResolve'
    <3>1. SUFFICES ASSUME NEW d \in DOMAIN dst', dst'[d].means # None, dst'[d].pic \notin met'
                   PROVE  dst'[d].pic \in DOMAIN files' /\ files'[dst'[d].pic] = dst'[d].means
      BY DEF PicturesResolve
    <3>2. d \in DOMAIN dst /\ dst[d] \in [path : Paths, doc : Doc, pic : PicturePaths \cup {None},
                                         means : Bytes \cup {None}]
      BY <2>1 DEF DstTypes
    <3>3. CASE dst[d].pic = path
      <4>1. dst'[d].pic = path /\ dst'[d].means = b
        BY <2>1, <3>2, <3>3
      <4> QED BY <2>1, <3>1, <4>1
    <3>4. CASE dst[d].pic # path
      <4>1. dst'[d] = dst[d] /\ dst[d].pic \notin met
        BY <2>1, <3>1, <3>2, <3>4
      <4>2. dst[d].pic \in DOMAIN files /\ files[dst[d].pic] = dst[d].means
        BY <3>1, <3>2, <4>1 DEF PicInv, PicturesResolve
      <4> QED BY <2>1, <3>4, <4>1, <4>2
    <3> QED BY <3>3, <3>4
  <2>3. ASSUME req.at \in {"pictures", "read", "state", "write"}, req.pic.to \in DOMAIN files'
        PROVE  files'[req.pic.to] = "src" \/ req.pic.to \in met'
    <3>1. CASE req.pic.to = path
      <4>1. files'[path] = b /\ b # None /\ Expects(path)
        BY <2>1, <2>3, <3>1 DEF Expects
      <4> QED BY <2>1, <3>1, <4>1 DEF Bytes
    <3>2. CASE req.pic.to # path
      BY <2>1, <2>3, <3>2 DEF PicInv, PictureInPlan
    <3> QED BY <3>1, <3>2
  <2> QED BY <1>0, <2>2, <2>3 DEF PicInv, PictureInPlan
<1>2. ASSUME NEW path, NEW b, NamePicture(path, b) PROVE PicInv'
  BY <1>0, <1>2 DEF NamePicture, PicInv, PicturesResolve, PictureInPlan
<1>3. ASSUME NEW n, ShowPicture(n) PROVE PicInv'
  <2>1. /\ n \in DOMAIN dst /\ Picture \in DOMAIN files /\ files' = files /\ met' = met
        /\ dst' = [dst EXCEPT ![n] = [dst[n] EXCEPT !.pic = Picture, !.means = files[Picture]]]
    BY <1>3 DEF ShowPicture, pictures, DstTypes
  <2>2. dst'[n].pic = Picture /\ dst'[n].means = files[Picture]
    BY <2>1 DEF DstTypes
  <2>3. DOMAIN dst' = DOMAIN dst /\ \A d \in DOMAIN dst : d # n => dst'[d] = dst[d]
    BY <2>1 DEF DstTypes
  <2>4. PicturesResolve'
    BY <2>1, <2>2, <2>3 DEF PicInv, PicturesResolve
  <2> QED BY <1>0, <2>1, <2>4 DEF PicInv, PictureInPlan
<1> QED BY <1>1, <1>2, <1>3 DEF PictureStep

LEMMA PicStep ==
  ASSUME Types, DocsInv, PicInv, [MergeNext]_mergeVars
  PROVE  PicInv'
<1>0. DstTypes /\ PicTypes /\ ReqInv /\ req \in Request /\ PicturesResolve /\ PictureInPlan
  BY DEF Types, ReqInv, PicInv
<1>1. CASE PictureStep
  BY <1>0, <1>1, PicturesMove
<1>2. CASE CopyPicture
  <2>1. /\ dst' = dst /\ met' = met /\ req'.pic = req.pic /\ DOMAIN files \subseteq DOMAIN files'
        /\ \A p \in DOMAIN files \ met : files'[p] = files[p]
        /\ req.pic.to \in DOMAIN files' \ DOMAIN files => files'[req.pic.to] = "src"
    BY <1>2, Copies
  <2>2. PicturesResolve'
    BY <1>0, <2>1 DEF PicturesResolve
  <2>3. req.at = "pictures"
    BY <1>2 DEF CopyPicture
  <2>4. PictureInPlan'
    BY <1>0, <2>1, <2>3 DEF PictureInPlan
  <2> QED BY <2>2, <2>4 DEF PicInv
<1>3. ASSUME ~ PictureStep, UNCHANGED files, met \subseteq met' PROVE PicturesResolve'
  <2>1. SUFFICES ASSUME NEW d \in DOMAIN dst', dst'[d].means # None, dst'[d].pic \notin met
                 PROVE  dst'[d].pic \in DOMAIN files /\ files[dst'[d].pic] = dst'[d].means
    BY <1>3 DEF PicturesResolve
  <2>2. CASE d \in DOMAIN dst /\ dst'[d].pic = dst[d].pic /\ dst'[d].means = dst[d].means
    BY <1>0, <2>1, <2>2 DEF PicturesResolve
  <2>3. ASSUME NEW n \in Ids, WriteNote(n), dst'[d].pic = Written(n).pic, dst'[d].means = Written(n).means
        PROVE  dst'[d].pic \in DOMAIN files /\ files[dst'[d].pic] = dst'[d].means
    <3>1. PICK pic : pic = Written(n).pic
      OBVIOUS
    <3>2. pic = PictureRewritten /\ pic \in DOMAIN files /\ Written(n).means = "src"
      BY <2>1, <2>3, <3>1 DEF Written
    <3>3. req.at = "write"
      BY <2>3, Writes
    <3>4. PictureRewritten = req.pic.to
      BY <1>0, <3>3 DEF PictureRewritten, PictureInPlan
    <3> QED BY <1>0, <2>1, <2>3, <3>1, <3>2, <3>3, <3>4 DEF PictureInPlan
  <2> QED BY <1>3, <2>1, <2>2, <2>3, NotesThere
<1>4. ASSUME UNCHANGED files, met \subseteq met' PROVE PictureInPlan'
  <2>1. CASE UNCHANGED req
    BY <1>0, <1>4, <2>1 DEF PictureInPlan
  <2>2. ASSUME NEW n \in Ids, RequestStep(n) PROVE PictureInPlan'
    <3>1. req.at \in {"read", "state", "write"} /\ req'.pic = req.pic
      BY <1>0, <2>2 DEF RequestStep, ReadNote, CarryState, WriteNote, Request
    <3> QED BY <1>0, <1>4, <3>1 DEF PictureInPlan
  <2>3. CASE Start \/ CheckLanded \/ Retire \/ Fail
    <3>1. req'.at \in {"survey", "retire", "idle"}
      BY <1>0, <2>3, RequestAt
    <3> QED BY <3>1 DEF PictureInPlan
  <2>4. CASE Plan
    <3>1. PICK to : req' = [req EXCEPT !.at = "pictures", !.to = to, !.pic = PlanPicture]
      BY <2>4 DEF Plan
    <3>2. req'.pic = PlanPicture
      BY <1>0, <3>1 DEF Request
    <3>3. PlanPicture.to \in DOMAIN files => files[PlanPicture.to] = "src" \/ PlanPicture.to \in met'
      BY <2>4, PlannedOver DEF Plan
    <3> QED BY <1>4, <3>2, <3>3, PlannedPicture DEF PictureInPlan
  <2>5. CASE CopyPicture
    <3>1. req.at = "pictures" /\ req'.pic = req.pic
      BY <1>0, <2>5, RequestAt DEF CopyPicture
    <3> QED BY <1>0, <1>4, <3>1 DEF PictureInPlan
  <2> QED BY <2>1, <2>2, <2>3, <2>4, <2>5, RequestStays
<1> QED BY <1>1, <1>2, <1>3, <1>4, FilesStep DEF PicInv

LEMMA PicAtStart ==
  ASSUME MergeInit
  PROVE  PicInv
<1>1. PICK own \in SUBSET Own, pic \in Bytes \cup {None} :
        /\ files = [p \in {Picture} \ {q \in {Picture} : pic = None} |-> pic]
        /\ dst = [n \in own |->
             [path |-> Home[n], doc |-> Empty,
              pic |-> IF n \in Pictured /\ pic # None THEN Picture ELSE None,
              means |-> IF n \in Pictured THEN pic ELSE None]]
  BY DEF MergeInit
<1>2. req.at = "idle"
  BY DEF MergeInit, Idle
<1>3. DOMAIN files = IF pic = None THEN {} ELSE {Picture}
  BY <1>1
<1>4. PicturesResolve
  BY <1>1, <1>3 DEF PicturesResolve
<1> QED BY <1>2, <1>4 DEF PicInv, PictureInPlan

LEMMA OwnStep ==
  ASSUME Types, DocsInv, OwnInv, [MergeNext]_mergeVars
  PROVE  OwnInv'
<1>0. ReqInv /\ gone \subseteq gone'
  BY GoneGrows DEF Types
<1>1. CASE CheckLanded
  <2>1. DOMAIN req'.to \subseteq DOMAIN dst' /\ req'.to = req.to
    BY <1>0, <1>1, RequestAt DEF CheckLanded, destination
  <2> QED BY <2>1 DEF OwnInv
<1>2. ASSUME req.at = "retire" \/ retired, req'.to = req.to PROVE OwnInv'
  <2>1. DOMAIN req.to \subseteq DOMAIN dst \cup gone
    BY <1>2 DEF OwnInv
  <2>2. ASSUME NEW n \in Ids \cup Own \cup Spare, DeleteThere(n)
        PROVE  DOMAIN dst \cup gone \subseteq DOMAIN dst' \cup gone'
    BY <1>2, <2>2 DEF DeleteThere
  <2>3. DOMAIN dst \cup gone \subseteq DOMAIN dst' \cup gone'
    BY <1>0, <2>2, NotesThere
  <2> QED BY <1>2, <2>1, <2>3 DEF OwnInv
<1>3. CASE UNCHANGED <<req, retired>>
  BY <1>2, <1>3 DEF OwnInv
<1>4. CASE Retire
  BY <1>0, <1>2, <1>4, RequestAt DEF Retire
<1>5. CASE Start \/ Plan \/ CopyPicture \/ Fail \/ \E n \in Ids : RequestStep(n)
  <2>1. req'.at # "retire"
    <3>1. CASE Start \/ Plan \/ CopyPicture \/ Fail
      BY <1>0, <3>1, RequestAt
    <3>2. ASSUME NEW n \in Ids, RequestStep(n) PROVE req'.at # "retire"
      BY <1>0, <3>2 DEF RequestStep, ReadNote, CarryState, WriteNote, ReqInv, Request
    <3> QED BY <1>5, <3>1, <3>2
  <2>2. ~ retired'
    <3>1. ~ retired
      BY <1>0, <1>5 DEF ReqInv, Start, Plan, CopyPicture, Fail, RequestStep, ReadNote, CarryState, WriteNote
    <3>2. UNCHANGED retired
      BY <1>5 DEF Start, Plan, CopyPicture, Fail, RequestStep, ReadNote, CarryState, WriteNote, source
    <3> QED BY <3>1, <3>2
  <2> QED BY <2>1, <2>2 DEF OwnInv
<1>6. UNCHANGED req => UNCHANGED retired \/ Retire
  BY RetiredBy
<1> QED
  BY <1>1, <1>3, <1>4, <1>5, <1>6, RequestStays

LEMMA OwnAtStart ==
  ASSUME MergeInit
  PROVE  OwnInv
BY DEF MergeInit, Idle, OwnInv

\* A note's copies share the place of each mark: what was put in at either vault is there once.
LEMMA OnceFrom ==
  ASSUME Types, DocsInv, KinInv
  PROVE  OnceOnly
<1>1. SUFFICES ASSUME NEW n \in DOMAIN dst \cap DOMAIN src, NEW m \in Twice(Join(dst[n].doc, src[n].doc))
               PROVE  m \in apart
  BY DEF OnceOnly
<1>2. n \in Ids /\ dst[n].doc = store[n] /\ Kin(n)
  BY DEF Types, SrcTypes, DocsInv, KinInv
<1>3. /\ src[n].doc.ins \subseteq Marks \X {"src"} /\ src[n].doc.del = {}
      /\ store[n].ins \subseteq made \X Bytes /\ made \subseteq Marks
  BY <1>2 DEF DocsInv, Types, HistTypes, Notes
<1>4. PICK i, j \in Shown(Join(store[n], src[n].doc)) : i # j /\ i[1] = m /\ j[1] = m
  BY <1>1, <1>2 DEF Twice
<1>5. \A x \in Shown(Join(store[n], src[n].doc)) :
        x \in Marks \X Bytes /\ x \in store[n].ins \cup src[n].doc.ins /\ x \notin store[n].del
  BY <1>3 DEF Shown, Join, Bytes
<1>6. {i, j} = {<<m, "src">>, <<m, "dst">>} /\ m \in Marks
  BY <1>4, <1>5 DEF Bytes
<1>7. <<m, "dst">> \in store[n].ins /\ <<m, "src">> \notin store[n].del
  BY <1>3, <1>4, <1>5, <1>6
<1>8. <<m, "src">> \in src[n].doc.ins
  BY <1>2, <1>4, <1>5, <1>6 DEF Kin
<1>9. m \in Mine(n)
  BY <1>3, <1>8 DEF Mine, Text, Shown
<1> QED BY <1>2, <1>7, <1>9 DEF Kin, Again

-----------------------------------------------------------------------------
(* The theorems *)

MergeInv == Types /\ DocsInv /\ KinInv /\ KeptInv /\ PicInv /\ OwnInv

LEMMA MergeInvAtStart ==
  ASSUME MergeInit
  PROVE  MergeInv
BY TypesAtStart, DocsAtStart, KinAtStart, KeptAtStart, PicAtStart, OwnAtStart DEF MergeInv

LEMMA MergeInvStep ==
  ASSUME MergeInv, [MergeNext]_mergeVars
  PROVE  MergeInv'
BY TypesStep, DocsStep, KinStep, KeptStep, PicStep, OwnStep DEF MergeInv

LEMMA MergeInvGives ==
  ASSUME MergeInv
  PROVE  NothingLost /\ CarriedWhole
<1>1. MergeTypeOK
  BY TypesGive DEF MergeInv
<1>2. made \ (late \cup over \cup cut) \subseteq SourceHas \cup DestinationHas
  <2>1. CASE retired
    BY <2>1 DEF MergeInv, KeptInv, Safe
  <2>2. CASE ~ retired
    BY <2>2 DEF MergeInv, KeptInv
  <2> QED BY <2>1, <2>2
<1>3. OwnIds /\ PicturesResolve
  BY DEF MergeInv, OwnInv, PicInv, OwnIds
<1>4. OnceOnly
  BY OnceFrom DEF MergeInv
<1> QED BY <1>1, <1>2, <1>3, <1>4 DEF NothingLost, CarriedWhole

\* A merge loses no text of either vault, however often it is asked for and wherever it is given up,
\* whatever is written, made or deleted in either vault meanwhile (merge_vaults, local.rs): the
\* source retires only when what it had is in the destination, but for what came to a note after
\* the request read its file and for files put where a note was about to land.
THEOREM NothingLostHolds == MergeSpec => []NothingLost
<1>1. MergeInit => MergeInv
  BY MergeInvAtStart
<1>2. MergeInv /\ [MergeNext]_mergeVars => MergeInv'
  BY MergeInvStep
<1>3. MergeInv => NothingLost
  BY MergeInvGives
<1> QED BY <1>1, <1>2, <1>3, PTL DEF MergeSpec

\* The notes themselves are carried: nothing is retired unless the destination holds every note under
\* its own id; every note shows the picture it showed where it came from, whatever becomes of the
\* destination's, but for one the plan did not know of where it has the source's; and when a note's
\* copies meet its text is not there twice, but for a save read before the source had taken it in.
THEOREM CarriedWholeHolds == MergeSpec => []CarriedWhole
<1>1. MergeInit => MergeInv
  BY MergeInvAtStart
<1>2. MergeInv /\ [MergeNext]_mergeVars => MergeInv'
  BY MergeInvStep
<1>3. MergeInv => CarriedWhole
  BY MergeInvGives
<1> QED BY <1>1, <1>2, <1>3, PTL DEF MergeSpec
============================================================================
