----------------------------- MODULE RelayProofs ----------------------------
(***************************************************************************)
(* Relay.tla's rooms and store, proved for every number of clients,        *)
(* connections, requests, rooms and operations, and for every fault the    *)
(* module has: requests dropped half way, appends refused, connections     *)
(* lost, crashes.  That its steps are steps of SharedDoc.  And, over a     *)
(* store that works, what its clients get.                                 *)
(***************************************************************************)
EXTENDS Relay, WellFoundedInduction, TLAPS

\* A non-empty set of naturals has a least element.
LEMMA NatMin ==
  ASSUME NEW T \in SUBSET Nat, T # {}
  PROVE  \E m \in T : \A k \in T : m <= k
<1>1. \E x \in T : \A y \in T : ~ (<<y, x>> \in OpToRel(<, Nat))
  BY NatLessThanWellFounded, WFMin
<1>2. \A x, y \in T : y < x => <<y, x>> \in OpToRel(<, Nat)
  BY DEF OpToRel
<1>3. \E x \in T : \A y \in T : ~ (y < x)
  BY <1>1, <1>2
<1> QED BY <1>3

\* A bounded non-empty set of naturals has a greatest element: the newest snapshot exists.
LEMMA NatMax ==
  ASSUME NEW T \in SUBSET Nat, T # {}, NEW b \in Nat, \A k \in T : k <= b
  PROVE  \E m \in T : \A k \in T : k <= m
<1> DEFINE U == {n \in Nat : \A k \in T : k <= n}
<1>1. b \in U
  OBVIOUS
<1>2. PICK m \in U : \A k \in U : m <= k
  BY <1>1, NatMin
<1>3. m \in T
  <2> SUFFICES ASSUME m \notin T PROVE FALSE
    OBVIOUS
  <2>1. \A k \in T : k \in Nat /\ k < m
    BY <1>2
  <2>2. \E k \in T : k \in Nat /\ k < m
    BY <2>1
  <2>3. m - 1 \in U
    BY <2>1, <2>2
  <2> QED BY <2>3, <1>2
<1> QED BY <1>2, <1>3

\* A read starts from at most one snapshot, and from one whenever there is one to start from.
LEMMA BaseIs ==
  ASSUME NEW s, DOMAIN s \subseteq Nat, NEW n \in Nat
  PROVE  /\ \A m \in Base(s, n) : Base(s, n) = {m}
         /\ \A k \in DOMAIN s : k <= n => \E m \in Base(s, n) : k <= m
<1>1. \A m \in Base(s, n) : Base(s, n) = {m}
  BY DEF Base
<1>2. ASSUME NEW k \in DOMAIN s, k <= n
      PROVE  \E m \in Base(s, n) : k <= m
  <2> DEFINE T == {m \in DOMAIN s : m <= n}
  <2>1. T \in SUBSET Nat /\ T # {} /\ \A m \in T : m <= n
    BY <1>2
  <2> HIDE DEF T
  <2>2. PICK m \in T : \A j \in T : j <= m
    BY <2>1, NatMax
  <2>3. m \in Base(s, n) /\ k <= m
    BY <2>2, <1>2 DEF Base, T
  <2> QED BY <2>3
<1> QED BY <1>1, <1>2
-----------------------------------------------------------------------------
(***************************************************************************)
(* Tables of several writers: a snapshot may hold more than the rows up to *)
(* it, operations applied and not yet journaled, but never less.           *)
(***************************************************************************)
Numbered(u, s) == \E N \in Nat : Seqs(u, s) \subseteq 0 .. N

NeverBehind(u, s) ==
  \A m \in DOMAIN s :
    /\ \A k \in DOMAIN u : k <= m => u[k].ops \subseteq s[m].ops
    /\ \A k \in DOMAIN s : k <= m => s[k].ops \subseteq s[m].ops

InOrder(u, s) == Numbered(u, s) /\ NeverBehind(u, s)

Everything(u, s) ==
  (UNION {u[k].ops : k \in DOMAIN u}) \cup (UNION {s[m].ops : m \in DOMAIN s})

\* No number is beyond the head.
LEMMA HeadBounds ==
  ASSUME NEW u, NEW s, Numbered(u, s)
  PROVE  /\ HeadSeq(u, s) \in Seqs(u, s) \cup {0}
         /\ HeadSeq(u, s) \in Nat
         /\ \A k \in Seqs(u, s) : k \in Nat /\ k <= HeadSeq(u, s)
<1> DEFINE T == Seqs(u, s) \cup {0}
           IsHead(n) == n \in T /\ \A m \in Seqs(u, s) : m <= n
<1>1. PICK N \in Nat : Seqs(u, s) \subseteq 0 .. N
  BY DEF Numbered
<1>2. T \in SUBSET Nat /\ T # {} /\ \A k \in T : k <= N
  BY <1>1
<1>3. \E n \in T : \A k \in T : k <= n
  <2> HIDE DEF T
  <2> QED BY <1>2, NatMax
<1>4. \E n : IsHead(n)
  BY <1>3
<1>5. HeadSeq(u, s) = CHOOSE n : IsHead(n)
  BY DEF HeadSeq
<1>6. IsHead(HeadSeq(u, s))
  <2> HIDE DEF IsHead
  <2> QED BY <1>4, <1>5
<1> QED BY <1>2, <1>6

\* Such tables load everything that is in them.
LEMMA LoadsEverything ==
  ASSUME NEW u, NEW s, InOrder(u, s)
  PROVE  LoadDoc(u, s) = Everything(u, s)
<1> DEFINE n == HeadSeq(u, s)
           B == Base(s, n)
           R == RowsAfterBase(u, s, n)
<1>1. /\ n \in Nat /\ DOMAIN s \subseteq Nat /\ DOMAIN u \subseteq Nat
      /\ \A k \in DOMAIN u : k <= n
      /\ \A m \in DOMAIN s : m <= n
  BY HeadBounds DEF InOrder, Seqs
<1>2. LoadDoc(u, s) = (UNION {s[m].ops : m \in B}) \cup (UNION {u[k].ops : k \in R})
  BY DEF LoadDoc, LoadDocAt
<1>3. B \subseteq DOMAIN s /\ R \subseteq DOMAIN u
  BY DEF Base, RowsAfterBase
<1>4. \A m \in DOMAIN s : \E b \in B : s[m].ops \subseteq s[b].ops
  <2> SUFFICES ASSUME NEW m \in DOMAIN s PROVE \E b \in B : s[m].ops \subseteq s[b].ops
    OBVIOUS
  <2>1. PICK b \in B : m <= b
    BY <1>1, BaseIs
  <2> QED BY <2>1, <1>3 DEF InOrder, NeverBehind
<1>5. \A k \in DOMAIN u : k \in R \/ \E b \in B : u[k].ops \subseteq s[b].ops
  <2> SUFFICES ASSUME NEW k \in DOMAIN u, k \notin R
               PROVE  \E b \in B : u[k].ops \subseteq s[b].ops
    OBVIOUS
  <2>1. PICK b \in B : ~ (b < k)
    BY <1>1 DEF RowsAfterBase
  <2>2. b \in Nat /\ k \in Nat /\ k <= b
    BY <2>1, <1>1, <1>3
  <2> QED BY <2>2, <1>3 DEF InOrder, NeverBehind
<1> HIDE DEF B, R
<1> QED BY <1>2, <1>3, <1>4, <1>5 DEF Everything

\* An update appended to them is after every snapshot.
LEMMA AppendInOrder ==
  ASSUME NEW u, NEW s, InOrder(u, s), NEW ops, NEW at
  PROVE  LET v == AppendUpdate(u, s, ops, at) IN
         InOrder(v, s) /\ Everything(v, s) = Everything(u, s) \cup ops
<1> DEFINE n == HeadSeq(u, s) + 1
           v == AppendUpdate(u, s, ops, at)
<1>1. /\ n \in Nat
      /\ \A k \in DOMAIN u \cup DOMAIN s : k \in Nat /\ k < n
  BY HeadBounds DEF InOrder, Seqs
<1>2. /\ DOMAIN v = DOMAIN u \cup {n}
      /\ v[n].ops = ops
      /\ \A k \in DOMAIN u : v[k] = u[k]
  BY <1>1 DEF AppendUpdate
<1> HIDE DEF v, n
<1>3. Numbered(v, s)
  BY <1>1, <1>2 DEF Numbered, Seqs
<1>4. NeverBehind(v, s)
  BY <1>1, <1>2 DEF InOrder, NeverBehind
<1>5. Everything(v, s) = Everything(u, s) \cup ops
  BY <1>1, <1>2 DEF Everything
<1> QED BY <1>3, <1>4, <1>5 DEF InOrder, v

\* So is a snapshot of a document that has all they hold.
LEMMA PutSnapshotInOrder ==
  ASSUME NEW u, NEW s, InOrder(u, s), NEW ops, Everything(u, s) \subseteq ops, NEW at, NEW label
  PROVE  LET z == PutSnapshot(u, s, ops, at, label) IN
         InOrder(u, z) /\ Everything(u, z) = ops
<1> DEFINE n == HeadSeq(u, s)
           z == PutSnapshot(u, s, ops, at, label)
<1>1. /\ n \in Nat
      /\ \A k \in DOMAIN u \cup DOMAIN s : k \in Nat /\ k <= n
  BY HeadBounds DEF InOrder, Seqs
<1>2. /\ DOMAIN z = DOMAIN s \cup {n}
      /\ z[n].ops = ops
      /\ \A m \in DOMAIN s : m # n => z[m] = s[m]
  BY DEF PutSnapshot
<1> HIDE DEF z, n
<1>3. Numbered(u, z)
  BY <1>1, <1>2 DEF Numbered, Seqs
<1>4. \A k \in DOMAIN u : u[k].ops \subseteq ops
  BY DEF Everything
<1>5. \A m \in DOMAIN z : z[m].ops \subseteq ops
  BY <1>2 DEF Everything
<1>6. NeverBehind(u, z)
  BY <1>1, <1>2, <1>4, <1>5 DEF InOrder, NeverBehind
<1>7. Everything(u, z) = ops
  BY <1>2, <1>4, <1>5 DEF Everything
<1> QED BY <1>3, <1>6, <1>7 DEF InOrder, z

\* Pruning updates takes away what a snapshot holds.
LEMMA PruneUpdatesInOrder ==
  ASSUME NEW u, NEW s, InOrder(u, s), NEW t
  PROVE  LET v == PruneUpdates(u, s, t) IN
         InOrder(v, s) /\ Everything(v, s) = Everything(u, s)
<1> DEFINE v == PruneUpdates(u, s, t)
           old == OldSnapshots(s, t)
<1>1. DOMAIN u \subseteq Nat /\ DOMAIN s \subseteq Nat /\ old \subseteq DOMAIN s
  BY HeadBounds DEF InOrder, Seqs, OldSnapshots
<1>2. /\ DOMAIN v = {j \in DOMAIN u : \A m \in old : m < j}
      /\ \A k \in DOMAIN v : v[k] = u[k]
  BY DEF PruneUpdates
<1> HIDE DEF v, old
<1>3. \A k \in DOMAIN u : k \in DOMAIN v \/ \E m \in DOMAIN s : u[k].ops \subseteq s[m].ops
  <2> SUFFICES ASSUME NEW k \in DOMAIN u, k \notin DOMAIN v
               PROVE  \E m \in DOMAIN s : u[k].ops \subseteq s[m].ops
    OBVIOUS
  <2>1. PICK m \in old : ~ (m < k)
    BY <1>2
  <2>2. m \in DOMAIN s /\ k <= m
    BY <2>1, <1>1
  <2> QED BY <2>2 DEF InOrder, NeverBehind
<1>4. InOrder(v, s)
  BY <1>2 DEF InOrder, Numbered, Seqs, NeverBehind
<1>5. Everything(v, s) = Everything(u, s)
  BY <1>2, <1>3 DEF Everything
<1> QED BY <1>4, <1>5 DEF v

\* Pruning snapshots leaves one that holds what the pruned ones held.
LEMMA PruneSnapshotsInOrder ==
  ASSUME NEW u, NEW s, InOrder(u, s), NEW t
  PROVE  LET z == PruneSnapshots(s, t) IN
         InOrder(u, z) /\ Everything(u, z) = Everything(u, s)
<1> DEFINE z == PruneSnapshots(s, t)
           old == OldSnapshots(s, t)
           n == HeadSeq(u, s)
<1>1. /\ n \in Nat /\ DOMAIN s \subseteq Nat /\ \A k \in DOMAIN s : k <= n
      /\ old \subseteq DOMAIN s
  BY HeadBounds DEF InOrder, Seqs, OldSnapshots
<1>2. /\ DOMAIN z \subseteq DOMAIN s
      /\ \A j \in DOMAIN s : (\A m \in old : m <= j) => j \in DOMAIN z
      /\ \A k \in DOMAIN z : z[k] = s[k]
  BY DEF PruneSnapshots
<1> HIDE DEF z, old, n
<1>3. \A k \in DOMAIN s : k \in DOMAIN z \/ \E m \in DOMAIN z : s[k].ops \subseteq s[m].ops
  <2> SUFFICES ASSUME NEW k \in DOMAIN s, k \notin DOMAIN z
               PROVE  \E m \in DOMAIN z : s[k].ops \subseteq s[m].ops
    OBVIOUS
  <2>1. PICK j \in old : ~ (j <= k)
    BY <1>2
  <2>2. old \in SUBSET Nat /\ old # {} /\ \A m \in old : m <= n
    BY <2>1, <1>1
  <2>3. PICK c \in old : \A m \in old : m <= c
    BY <2>2, <1>1, NatMax
  <2>4. c \in DOMAIN z /\ c \in DOMAIN s
    BY <2>3, <1>1, <1>2
  <2>5. k <= c
    BY <2>1, <2>3, <1>1
  <2>6. s[k].ops \subseteq s[c].ops
    BY <2>4, <2>5 DEF InOrder, NeverBehind
  <2> QED BY <2>4, <2>6
<1>4. InOrder(u, z)
  BY <1>2 DEF InOrder, Numbered, Seqs, NeverBehind
<1>5. Everything(u, z) = Everything(u, s)
  BY <1>2, <1>3 DEF Everything
<1> QED BY <1>4, <1>5 DEF z

\* Maintenance of such tables, with a document that has all they hold, takes a snapshot and prunes:
\* they hold what they held, and perhaps the document.
LEMMA MaintainInOrder ==
  ASSUME NEW u, NEW s, InOrder(u, s), NEW ops, Everything(u, s) \subseteq ops, NEW t
  PROVE  LET z == MaintainSnapshot(u, s, ops, t)
             v == PruneUpdates(u, z, t)
             w == PruneSnapshots(z, t)
         IN  /\ InOrder(v, w)
             /\ Everything(v, w) \in {Everything(u, s), ops}
<1> DEFINE z == MaintainSnapshot(u, s, ops, t)
           v == PruneUpdates(u, z, t)
<1>1. InOrder(u, z) /\ Everything(u, z) \in {Everything(u, s), ops}
  BY PutSnapshotInOrder DEF MaintainSnapshot
<1> HIDE DEF z
<1>2. InOrder(v, z) /\ Everything(v, z) = Everything(u, z)
  BY <1>1, PruneUpdatesInOrder
<1> HIDE DEF v
<1>3. LET w == PruneSnapshots(z, t) IN InOrder(v, w) /\ Everything(v, w) = Everything(v, z)
  BY <1>2, PruneSnapshotsInOrder
<1> QED BY <1>1, <1>2, <1>3 DEF v, z
-----------------------------------------------------------------------------
(***************************************************************************)
(* Types.                                                                  *)
(***************************************************************************)
UpdateTable(u) == DOMAIN u \subseteq Nat \ {0} /\ u \in [DOMAIN u -> UpdateRows]
SnapshotTable(s) == s \in [DOMAIN s -> SnapshotRows]

LEMMA AppendType ==
  ASSUME NEW u, NEW s, Numbered(u, s), UpdateTable(u), NEW ops \in SUBSET Ops, NEW at \in Nat
  PROVE  UpdateTable(AppendUpdate(u, s, ops, at))
<1> DEFINE n == HeadSeq(u, s) + 1
           row == [ops |-> ops, at |-> at]
<1>1. n \in Nat \ {0}
  BY HeadBounds
<1>2. row \in UpdateRows
  BY DEF UpdateRows
<1>3. AppendUpdate(u, s, ops, at) = [k \in DOMAIN u \cup {n} |-> IF k = n THEN row ELSE u[k]]
  BY DEF AppendUpdate
<1> QED BY <1>1, <1>2, <1>3 DEF UpdateTable

LEMMA PruneUpdatesType ==
  ASSUME NEW u, NEW s, UpdateTable(u), NEW t
  PROVE  UpdateTable(PruneUpdates(u, s, t))
BY DEF UpdateTable, PruneUpdates

LEMMA MaintainSnapshotType ==
  ASSUME NEW u, NEW s, SnapshotTable(s), NEW ops \in SUBSET Ops, NEW t \in Nat
  PROVE  SnapshotTable(MaintainSnapshot(u, s, ops, t))
<1>1. [ops |-> ops, at |-> t, label |-> NoLabel] \in SnapshotRows
  BY DEF SnapshotRows
<1> QED BY <1>1 DEF SnapshotTable, MaintainSnapshot, PutSnapshot

LEMMA PruneSnapshotsType ==
  ASSUME NEW s, SnapshotTable(s), NEW t
  PROVE  SnapshotTable(PruneSnapshots(s, t))
BY DEF SnapshotTable, PruneSnapshots
-----------------------------------------------------------------------------

\* A task that works on the document has the room in the map, and an update it has applied and
\* not yet passed on is in that room.
Working(t) ==
  /\ task[t].at \in {"answer", "apply", "journal", "publish"} => task[t].room = map /\ map # None
  /\ task[t].at \in {"idle", "done"} => task[t].room = None
  /\ task[t].at \in {"journal", "publish"} => task[t].ops \subseteq docs[map]

\* The inductive invariant.
RoomInv ==
  /\ TypeOK
  /\ InOrder(updates, snapshots)
  /\ \A t \in Tasks : Working(t)
  /\ map # None => Stored \subseteq docs[map]

\* What the store and the rooms look like after a step: all of RoomInv but the clients' side.
ServerTypes ==
  /\ UpdateTable(updates) /\ SnapshotTable(snapshots)
  /\ map \in RoomIds \cup {None}
  /\ docs \in [RoomIds -> SUBSET Ops]
  /\ task \in [Tasks -> Task]

NetTypes ==
  /\ socket \in [Conns -> {"free", "open", "closed"}]
  /\ subscribed \subseteq Conns
  /\ up \in [Conns -> Seq(Frame)] /\ down \in [Conns -> Seq(Frame)]
  /\ bus \in [Conns -> Seq(Outbound)]
  /\ replica \in [Clients -> SUBSET Ops]
  /\ conn \in [Clients -> Conns \cup {None}]
  /\ made \subseteq Ops
  /\ faults \in 0 .. MaxFaults

LEMMA TypeParts == TypeOK <=> ServerTypes /\ NetTypes
BY DEF TypeOK, ServerTypes, NetTypes, UpdateTable, SnapshotTable
-----------------------------------------------------------------------------
(***************************************************************************)
(* Types: the clients, the network.                                        *)
(***************************************************************************)
LEMMA FrameTypes ==
  /\ \A ops \in SUBSET Ops : Step1(ops) \in Frame /\ Update(ops) \in Frame
  /\ \A t \in Tasks, ops \in SUBSET Ops : [from |-> t, ops |-> ops] \in Outbound
  /\ \A f \in Frame : f.ops \in SUBSET Ops
  /\ \A m \in Outbound : m.ops \in SUBSET Ops
BY DEF Frame, Step1, Update, Outbound

LEMMA HeadType ==
  ASSUME NEW S, NEW q \in Seq(S), q # <<>>
  PROVE  Head(q) \in S /\ Tail(q) \in Seq(S) /\ Len(q) >= 1
OBVIOUS

\* The beginning of a queue is one.
LEMMA PrefixType ==
  ASSUME NEW S, NEW q \in Seq(S), NEW n \in 0 .. Len(q)
  PROVE  SubSeq(q, 1, n) \in Seq(S)
BY SMT

LEMMA ClientTypes ==
  ASSUME NetTypes, NEW c \in Clients,
         \/ Connect(c) \/ ClientReceive(c) \/ Drop(c)
         \/ \E op \in Ops : ClientEdit(c, op)
  PROVE  NetTypes'
<1> USE DEF NetTypes
<1>1. CASE Connect(c)
  BY <1>1, FrameTypes DEF Connect, Conns
<1>2. CASE ClientReceive(c)
  <2> DEFINE k == conn[c]
  <2>1. k \in Conns /\ Head(down[k]) \in Frame /\ Head(down[k]).ops \in SUBSET Ops
    BY <1>2, FrameTypes, HeadType DEF ClientReceive
  <2>2. down' \in [Conns -> Seq(Frame)]
    BY <1>2, <2>1 DEF ClientReceive
  <2>3. up' \in [Conns -> Seq(Frame)]
    <3>1. Update(replica[c] \ Head(down[k]).ops) \in Frame
      BY FrameTypes
    <3>2. [up EXCEPT ![k] = Append(@, Update(replica[c] \ Head(down[k]).ops))] \in [Conns -> Seq(Frame)]
      BY <2>1, <3>1
    <3> QED BY <1>2, <3>2 DEF ClientReceive
  <2>4. replica' \in [Clients -> SUBSET Ops]
    BY <1>2, <2>1 DEF ClientReceive
  <2> QED BY <1>2, <2>2, <2>3, <2>4 DEF ClientReceive
<1>3. CASE Drop(c)
  <2> DEFINE k == conn[c]
  <2>1. k \in Conns
    BY <1>3 DEF Drop
  <2>2. PICK n \in 0 .. Len(up[k]) : up' = [up EXCEPT ![k] = SubSeq(@, 1, n)]
    BY <1>3 DEF Drop
  <2>3. SubSeq(up[k], 1, n) \in Seq(Frame)
    BY <2>1, PrefixType
  <2>4. up' \in [Conns -> Seq(Frame)]
    BY <2>1, <2>2, <2>3
  <2>5. faults' \in 0 .. MaxFaults
    BY <1>3, BoundAssumption DEF Drop
  <2> QED BY <1>3, <2>1, <2>4, <2>5 DEF Drop
<1>4. ASSUME NEW op \in Ops, ClientEdit(c, op) PROVE NetTypes'
  <2>1. Update({op}) \in Frame
    BY FrameTypes
  <2>2. up' \in [Conns -> Seq(Frame)]
    BY <1>4, <2>1 DEF ClientEdit
  <2> QED BY <1>4, <2>2 DEF ClientEdit
<1> QED BY <1>1, <1>2, <1>3, <1>4

LEMMA ConnTypes ==
  ASSUME NetTypes, NEW k \in Conns, Forward(k) \/ Lagged(k) \/ Close(k)
  PROVE  NetTypes'
<1> USE DEF NetTypes
<1>1. CASE Forward(k)
  <2>1. Head(bus[k]) \in Outbound /\ Head(bus[k]).ops \in SUBSET Ops
    BY <1>1, FrameTypes, HeadType DEF Forward
  <2>2. Update(Head(bus[k]).ops) \in Frame
    BY <2>1, FrameTypes
  <2>3. bus' \in [Conns -> Seq(Outbound)]
    BY <1>1 DEF Forward
  <2>4. down' \in [Conns -> Seq(Frame)]
    BY <1>1, <2>2 DEF Forward
  <2> QED BY <1>1, <2>3, <2>4 DEF Forward
<1>2. CASE End(k)
  <2>1. conn' \in [Clients -> Conns \cup {None}]
    BY <1>2 DEF End
  <2> QED BY <1>2, <2>1 DEF End
<1> QED BY <1>1, <1>2 DEF Lagged, Close
-----------------------------------------------------------------------------
(***************************************************************************)
(* Rooms and tasks.  Each lemma is one action on the server's side.        *)
(***************************************************************************)
LEMMA RoomTypes == RoomInv <=> /\ ServerTypes /\ NetTypes
                               /\ InOrder(updates, snapshots)
                               /\ \A t \in Tasks : Working(t)
                               /\ map # None => Stored \subseteq docs[map]
BY TypeParts DEF RoomInv

\* The store loads everything it holds.
LEMMA StoredIs ==
  ASSUME ServerTypes, InOrder(updates, snapshots)
  PROVE  Stored = Everything(updates, snapshots) /\ Stored \subseteq Ops
<1>1. Stored = Everything(updates, snapshots)
  BY LoadsEverything DEF Stored
<1>2. Everything(updates, snapshots) \subseteq Ops
  BY DEF ServerTypes, UpdateTable, SnapshotTable, UpdateRows, SnapshotRows, Everything
<1> QED BY <1>1, <1>2

\* Every task that holds a room holds the one in the map.
LEMMA HeldIs == (\A t \in Tasks : task[t] \in Task /\ Working(t)) => Held \subseteq {map}
<1> SUFFICES ASSUME \A t \in Tasks : task[t] \in Task /\ Working(t)
             PROVE  Held \subseteq {map}
  OBVIOUS
<1>1. \A t \in Tasks : task[t].room \in {map, None}
  BY DEF Working, Task, Steps
<1> QED BY <1>1 DEF Held

\* What does not touch the server's side.
LEMMA ServerKept ==
  ASSUME RoomInv, UNCHANGED <<store, rooms, task>>, NetTypes'
  PROVE  RoomInv' /\ Stored' = Stored
<1>1. ServerTypes'
  BY RoomTypes DEF ServerTypes, store, rooms
<1>2. InOrder(updates, snapshots)' /\ Stored' = Stored
  BY RoomTypes DEF store, Stored
<1>3. \A t \in Tasks : Working(t)'
  BY RoomTypes DEF rooms, Working
<1>4. (map # None => Stored \subseteq docs[map])'
  BY <1>2, RoomTypes DEF rooms
<1> QED BY <1>1, <1>2, <1>3, <1>4 DEF RoomInv, ServerTypes, NetTypes, TypeOK, UpdateTable, SnapshotTable

\* Finding the room: the one in the map, or one that holds what the store does.  A task that works
\* already goes on in the same room.
LEMMA RoomFound ==
  ASSUME RoomInv, NEW r \in RoomIds, GetRoom(r)
  PROVE  /\ map' = r /\ r # None
         /\ docs' \in [RoomIds -> SUBSET Ops]
         /\ Stored \subseteq docs'[r]
         /\ map # None => map' = map /\ docs' = docs
         /\ map = None => docs'[r] = Stored /\ \A x \in RoomIds : x # r => docs'[x] = docs[x]
<1>1. docs \in [RoomIds -> SUBSET Ops] /\ Stored \subseteq Ops
  BY RoomTypes, StoredIs DEF ServerTypes
<1>2. map # None => Stored \subseteq docs[map]
  BY DEF RoomInv
<1> QED BY <1>1, <1>2, NamesAssumption DEF GetRoom, rooms

\* The other tasks do not notice when a task moves on, or its room gains something.
LEMMA OthersWork ==
  ASSUME RoomInv, NEW t \in Tasks,
         task' \in [Tasks -> Task], \A x \in Tasks \ {t} : task'[x] = task[x],
         map # None => map' = map /\ docs[map] \subseteq docs'[map],
         Working(t)'
  PROVE  \A x \in Tasks : Working(x)'
<1> SUFFICES ASSUME NEW x \in Tasks, x # t PROVE Working(x)'
  OBVIOUS
<1>1. Working(x) /\ task[x] \in Task /\ task'[x] = task[x]
  BY RoomTypes DEF ServerTypes
<1> QED BY <1>1 DEF Working, Task, Steps

\* A task that lets the room go.
LEMMA Finishes ==
  ASSUME RoomInv, NEW t \in Tasks, Finish(t)
  PROVE  /\ task' \in [Tasks -> Task]
         /\ Working(t)'
         /\ \A x \in Tasks \ {t} : task'[x] = task[x]
         /\ task'[t].at \in {"idle", "done"} /\ task'[t].ops = {}
<1>1. IdleTask \in Task /\ [IdleTask EXCEPT !.at = "done"] \in Task
  BY DEF IdleTask, Task, Steps
<1>2. task \in [Tasks -> Task]
  BY RoomTypes DEF ServerTypes
<1> QED BY <1>1, <1>2 DEF Finish, IdleTask, Working

LEMMA ReceiveInv ==
  ASSUME RoomInv, NEW k \in Conns, Receive(k)
  PROVE  RoomInv' /\ Stored \subseteq Stored'
<1> DEFINE f == Head(up[k])
           at == IF f.kind = "step1" THEN "answer" ELSE "apply"
<1>1. PICK r \in RoomIds : GetRoom(r) /\ task' = [task EXCEPT ![k] = [at |-> at, room |-> r, ops |-> f.ops]]
  BY DEF Receive
<1>2. k \in Tasks /\ f \in Frame /\ f.ops \in SUBSET Ops /\ Tail(up[k]) \in Seq(Frame)
  BY FrameTypes, HeadType, RoomTypes DEF Receive, NetTypes, Tasks
<1>3. [at |-> at, room |-> r, ops |-> f.ops] \in Task
  BY <1>2 DEF Task, Steps
<1>4. task' \in [Tasks -> Task]
  BY <1>1, <1>2, <1>3, RoomTypes DEF ServerTypes
<1>5. /\ map' = r /\ r # None /\ docs' \in [RoomIds -> SUBSET Ops] /\ Stored \subseteq docs'[r]
      /\ map # None => map' = map /\ docs' = docs
  BY <1>1, RoomFound
<1>6. \A x \in Tasks : Working(x)'
  <2>1. Working(k)'
    BY <1>1, <1>2, <1>5, RoomTypes DEF Working, ServerTypes
  <2>2. \A x \in Tasks \ {k} : task'[x] = task[x]
    BY <1>1, RoomTypes DEF ServerTypes
  <2>3. map # None => map' = map /\ docs[map] \subseteq docs'[map]
    BY <1>5
  <2> QED BY <1>2, <1>4, <2>1, <2>2, <2>3, OthersWork
<1>7. ServerTypes' /\ InOrder(updates, snapshots)' /\ Stored' = Stored
  BY <1>4, <1>5, RoomTypes DEF Receive, ServerTypes, store, Stored
<1>8. NetTypes'
  BY <1>2, RoomTypes DEF Receive, NetTypes
<1>9. (map # None => Stored \subseteq docs[map])'
  BY <1>5, <1>7
<1>10. TypeOK'
  BY <1>7, <1>8, TypeParts, PTL
<1> QED BY <1>6, <1>7, <1>9, <1>10 DEF RoomInv

\* A step of the server that leaves the network's types, seen as a whole.
LEMMA InvFromParts ==
  ASSUME ServerTypes', NetTypes', InOrder(updates, snapshots)', \A x \in Tasks : Working(x)',
         (map # None => Stored \subseteq docs[map])'
  PROVE  RoomInv'
<1>1. TypeOK'
  BY TypeParts, PTL
<1> QED BY <1>1 DEF RoomInv

LEMMA AnswerInv ==
  ASSUME RoomInv, NEW k \in Conns, Answer(k)
  PROVE  RoomInv' /\ Stored \subseteq Stored'
<1> DEFINE d == docs[task[k].room]
<1>1. k \in Tasks /\ Working(k) /\ task[k] \in Task /\ docs \in [RoomIds -> SUBSET Ops]
  BY RoomTypes DEF Tasks, ServerTypes
<1>2. task[k].room \in RoomIds /\ task[k].ops \in SUBSET Ops
  BY <1>1 DEF Answer, Working, Task
<1>3. Update(d \ task[k].ops) \in Frame /\ Step1(d) \in Frame
  BY <1>1, <1>2, FrameTypes
<1>4. <<Update(d \ task[k].ops), Step1(d)>> \in Seq(Frame)
  BY <1>3
<1>5. down[k] \in Seq(Frame)
  BY RoomTypes DEF NetTypes
<1>6. down[k] \o <<Update(d \ task[k].ops), Step1(d)>> \in Seq(Frame)
  BY <1>4, <1>5
<1>7. down' \in [Conns -> Seq(Frame)]
  BY <1>6, RoomTypes DEF Answer, NetTypes
<1>8. NetTypes'
  BY <1>7, RoomTypes DEF Answer, NetTypes
<1>9. \A x \in Tasks : Working(x)'
  BY <1>1, Finishes, OthersWork DEF Answer, rooms
<1>10. ServerTypes' /\ InOrder(updates, snapshots)' /\ Stored' = Stored
  BY <1>1, Finishes, RoomTypes DEF Answer, ServerTypes, store, rooms, Stored
<1>11. (map # None => Stored \subseteq docs[map])'
  BY <1>10 DEF Answer, rooms, RoomInv
<1> QED BY <1>8, <1>9, <1>10, <1>11, InvFromParts

LEMMA ApplyInv ==
  ASSUME RoomInv, NEW t \in Tasks, Apply(t)
  PROVE  RoomInv' /\ Stored \subseteq Stored'
<1> DEFINE r == task[t].room
<1>1. /\ Working(t) /\ task[t] \in Task /\ docs \in [RoomIds -> SUBSET Ops]
      /\ task \in [Tasks -> Task]
  BY RoomTypes DEF ServerTypes
<1>2. r = map /\ map # None /\ r \in RoomIds /\ task[t].ops \in SUBSET Ops
  BY <1>1 DEF Apply, Working, Task
<1>3. docs' \in [RoomIds -> SUBSET Ops] /\ docs'[map] = docs[map] \cup task[t].ops /\ map' = map
  BY <1>1, <1>2 DEF Apply
<1>4. /\ task' \in [Tasks -> Task] /\ Working(t)'
      /\ \A x \in Tasks \ {t} : task'[x] = task[x]
  <2>1. CASE Finish(t)
    BY <2>1, Finishes
  <2>2. CASE task' = [task EXCEPT ![t].at = "journal"]
    <3>1. [task[t] EXCEPT !.at = "journal"] \in Task
      BY <1>1 DEF Task, Steps
    <3>2. Working(t)'
      BY <1>1, <1>2, <1>3, <2>2 DEF Working, Task
    <3> QED BY <1>1, <3>1, <3>2, <2>2
  <2> QED BY <2>1, <2>2 DEF Apply
<1>5. \A x \in Tasks : Working(x)'
  BY <1>2, <1>3, <1>4, OthersWork
<1>6. ServerTypes' /\ InOrder(updates, snapshots)' /\ Stored' = Stored
  BY <1>3, <1>4, RoomTypes DEF Apply, ServerTypes, store, Stored
<1>7. NetTypes'
  BY RoomTypes DEF Apply, NetTypes, net
<1>8. (map # None => Stored \subseteq docs[map])'
  BY <1>3, <1>6 DEF RoomInv
<1> QED BY <1>5, <1>6, <1>7, <1>8, InvFromParts

\* A step of a task that leaves the rooms and clients alone and takes the store from tables in order
\* to tables in order that hold more, but nothing the room has not.
LEMMA StoreInv ==
  ASSUME RoomInv, NEW t \in Tasks, task[t].at = "journal",
         UNCHANGED <<rooms, net, replica, made, faults>>,
         task' = [task EXCEPT ![t].at = "publish"] \/ Finish(t),
         UpdateTable(updates'), SnapshotTable(snapshots'), InOrder(updates', snapshots'),
         Everything(updates, snapshots) \subseteq Everything(updates', snapshots'),
         Everything(updates', snapshots') \subseteq docs[map]
  PROVE  RoomInv' /\ Stored \subseteq Stored'
<1>1. Working(t) /\ task[t] \in Task /\ task \in [Tasks -> Task]
  BY RoomTypes DEF ServerTypes
<1>2. /\ task' \in [Tasks -> Task] /\ Working(t)'
      /\ \A x \in Tasks \ {t} : task'[x] = task[x]
  <2>1. CASE Finish(t)
    BY <2>1, Finishes
  <2>2. CASE task' = [task EXCEPT ![t].at = "publish"]
    <3>1. [task[t] EXCEPT !.at = "publish"] \in Task
      BY <1>1 DEF Task, Steps
    <3>2. Working(t)'
      BY <1>1, <2>2 DEF Working, Task, rooms
    <3> QED BY <1>1, <3>1, <3>2, <2>2
  <2> QED BY <2>1, <2>2
<1>3. \A x \in Tasks : Working(x)'
  BY <1>2, OthersWork DEF rooms
<1>4. ServerTypes'
  BY <1>2, RoomTypes DEF ServerTypes, rooms, UpdateTable, SnapshotTable
<1>5. NetTypes'
  BY RoomTypes DEF NetTypes, net
<1>6. Stored = Everything(updates, snapshots) /\ Stored' = Everything(updates', snapshots')
  <2>1. Stored = Everything(updates, snapshots)
    BY StoredIs, RoomTypes
  <2>2. Stored' = Everything(updates', snapshots')
    BY LoadsEverything DEF Stored
  <2> QED BY <2>1, <2>2
<1>7. (map # None => Stored \subseteq docs[map])'
  BY <1>6 DEF rooms
<1> QED BY <1>3, <1>4, <1>5, <1>6, <1>7, InvFromParts

LEMMA JournalInv ==
  ASSUME RoomInv, NEW t \in Tasks, JournalUpdate(t)
  PROVE  RoomInv' /\ Stored \subseteq Stored' /\ task[t].ops \subseteq Stored'
<1> DEFINE d == docs[task[t].room]
           u == AppendUpdate(updates, snapshots, task[t].ops, 0)
           s == MaintainSnapshot(u, snapshots, d, 0)
<1>1. /\ Working(t) /\ task[t] \in Task /\ docs \in [RoomIds -> SUBSET Ops]
      /\ UpdateTable(updates) /\ SnapshotTable(snapshots)
      /\ InOrder(updates, snapshots) /\ Stored = Everything(updates, snapshots)
      /\ task[t].at = "journal"
  BY RoomTypes, StoredIs DEF ServerTypes, JournalUpdate
<1>2. /\ d = docs[map] /\ task[t].ops \subseteq d
      /\ d \in SUBSET Ops /\ task[t].ops \in SUBSET Ops
      /\ Stored \subseteq d
  BY <1>1 DEF Working, Task, RoomInv
<1>3. /\ UpdateTable(u) /\ InOrder(u, snapshots)
      /\ Everything(u, snapshots) = Stored \cup task[t].ops
  BY <1>1, <1>2, AppendType, AppendInOrder DEF InOrder
<1>4. SnapshotTable(s)
  BY <1>1, <1>2, MaintainSnapshotType
<1>5. updates' = PruneUpdates(u, s, 0) /\ snapshots' = PruneSnapshots(s, 0)
  BY DEF JournalUpdate
<1> HIDE DEF u, d
<1>6. /\ InOrder(updates', snapshots')
      /\ Everything(updates', snapshots') \in {Everything(u, snapshots), d}
  BY <1>2, <1>3, <1>5, MaintainInOrder
<1>7. UpdateTable(updates') /\ SnapshotTable(snapshots')
  BY <1>3, <1>4, <1>5, PruneUpdatesType, PruneSnapshotsType
<1>8. Stored' = Everything(updates', snapshots')
  BY <1>6, LoadsEverything DEF Stored
<1>9. RoomInv' /\ Stored \subseteq Stored'
  BY <1>1, <1>2, <1>3, <1>6, <1>7, StoreInv DEF JournalUpdate
<1> QED BY <1>2, <1>3, <1>6, <1>8, <1>9

LEMMA JournalFailsInv ==
  ASSUME RoomInv, NEW t \in Tasks, JournalFails(t)
  PROVE  RoomInv' /\ Stored \subseteq Stored'
<1> DEFINE d == docs[task[t].room]
           s == MaintainSnapshot(updates, snapshots, d, 0)
<1>1. /\ Working(t) /\ task[t] \in Task /\ docs \in [RoomIds -> SUBSET Ops]
      /\ UpdateTable(updates) /\ SnapshotTable(snapshots)
      /\ InOrder(updates, snapshots) /\ Stored = Everything(updates, snapshots)
      /\ task[t].at = "journal"
  BY RoomTypes, StoredIs DEF ServerTypes, JournalFails
<1>2. d = docs[map] /\ d \in SUBSET Ops /\ Stored \subseteq d
  BY <1>1 DEF Working, Task, RoomInv
<1>3. /\ UpdateTable(updates') /\ SnapshotTable(snapshots') /\ InOrder(updates', snapshots')
      /\ Stored \subseteq Everything(updates', snapshots')
      /\ Everything(updates', snapshots') \subseteq d
  <2>1. CASE UNCHANGED store
    BY <1>1, <1>2, <2>1 DEF store
  <2>2. CASE updates' = PruneUpdates(updates, s, 0) /\ snapshots' = PruneSnapshots(s, 0)
    <3>1. SnapshotTable(s)
      BY <1>1, <1>2, MaintainSnapshotType
    <3>2. UpdateTable(updates') /\ SnapshotTable(snapshots')
      BY <1>1, <2>2, <3>1, PruneUpdatesType, PruneSnapshotsType
    <3>3. /\ InOrder(updates', snapshots')
          /\ Everything(updates', snapshots') \in {Stored, d}
      BY <1>1, <1>2, <2>2, MaintainInOrder
    <3> QED BY <1>2, <3>2, <3>3
  <2> QED BY <2>1, <2>2 DEF JournalFails
<1>4. task' = [task EXCEPT ![t].at = "publish"] \/ Finish(t)
  BY DEF JournalFails
<1> QED BY <1>1, <1>2, <1>3, <1>4, StoreInv DEF JournalFails

LEMMA PublishInv ==
  ASSUME RoomInv, NEW t \in Tasks, Publish(t)
  PROVE  RoomInv' /\ Stored \subseteq Stored'
<1>1. task[t].ops \in SUBSET Ops
  BY RoomTypes DEF ServerTypes, Task
<1>2. [from |-> t, ops |-> task[t].ops] \in Outbound
  BY <1>1, FrameTypes
<1>3. bus' \in [Conns -> Seq(Outbound)]
  <2>1. \A k \in Conns : bus[k] \in Seq(Outbound) /\ Append(bus[k], [from |-> t, ops |-> task[t].ops]) \in Seq(Outbound)
    BY <1>2, RoomTypes DEF NetTypes
  <2> QED BY <2>1 DEF Publish
<1>4. NetTypes'
  BY <1>3, RoomTypes DEF Publish, NetTypes
<1>5. \A x \in Tasks : Working(x)'
  BY Finishes, OthersWork DEF Publish, rooms
<1>6. ServerTypes' /\ InOrder(updates, snapshots)' /\ Stored' = Stored
  BY Finishes, RoomTypes DEF Publish, ServerTypes, store, rooms, Stored
<1>7. (map # None => Stored \subseteq docs[map])'
  BY <1>6 DEF Publish, rooms, RoomInv
<1> QED BY <1>4, <1>5, <1>6, <1>7, InvFromParts

LEMMA ApiStartInv ==
  ASSUME RoomInv, NEW a \in Apis, NEW op \in Ops, ApiStart(a, op)
  PROVE  RoomInv' /\ Stored \subseteq Stored'
<1>1. PICK r \in RoomIds :
        GetRoom(r) /\ task' = [task EXCEPT ![a] = [at |-> "apply", room |-> r, ops |-> {op}]]
  BY DEF ApiStart
<1>2. a \in Tasks /\ task \in [Tasks -> Task] /\ [at |-> "apply", room |-> r, ops |-> {op}] \in Task
  BY RoomTypes DEF Tasks, ServerTypes, Task, Steps
<1>3. task' \in [Tasks -> Task] /\ \A x \in Tasks \ {a} : task'[x] = task[x]
  BY <1>1, <1>2
<1>4. /\ map' = r /\ r # None /\ docs' \in [RoomIds -> SUBSET Ops] /\ Stored \subseteq docs'[r]
      /\ map # None => map' = map /\ docs' = docs
  BY <1>1, RoomFound
<1>5. Working(a)'
  BY <1>1, <1>2, <1>4 DEF Working
<1>6. \A x \in Tasks : Working(x)'
  BY <1>2, <1>3, <1>4, <1>5, OthersWork
<1>7. ServerTypes' /\ InOrder(updates, snapshots)' /\ Stored' = Stored
  BY <1>3, <1>4, RoomTypes DEF ApiStart, ServerTypes, store, Stored
<1>8. NetTypes'
  BY RoomTypes DEF ApiStart, NetTypes, net
<1>9. (map # None => Stored \subseteq docs[map])'
  BY <1>4, <1>7
<1> QED BY <1>6, <1>7, <1>8, <1>9, InvFromParts

LEMMA ApiStopInv ==
  ASSUME RoomInv, NEW a \in Apis, ApiStop(a)
  PROVE  RoomInv' /\ Stored \subseteq Stored'
<1>1. a \in Tasks
  BY DEF Tasks
<1>2. \A x \in Tasks : Working(x)'
  BY <1>1, Finishes, OthersWork DEF ApiStop, rooms
<1>3. ServerTypes' /\ InOrder(updates, snapshots)' /\ Stored' = Stored
  BY <1>1, Finishes, RoomTypes DEF ApiStop, ServerTypes, store, rooms, Stored
<1>4. NetTypes'
  BY RoomTypes DEF ApiStop, NetTypes, net
<1>5. (map # None => Stored \subseteq docs[map])'
  BY <1>3 DEF ApiStop, rooms, RoomInv
<1> QED BY <1>2, <1>3, <1>4, <1>5, InvFromParts

\* A room nobody holds can be dropped: no task works.
LEMMA EvictInv ==
  ASSUME RoomInv, Evict
  PROVE  RoomInv' /\ Stored \subseteq Stored'
<1>1. map \in RoomIds /\ map \notin Held /\ map' = None
  BY RoomTypes DEF Evict, ServerTypes
<1>2. \A t \in Tasks : task[t] \in Task /\ Working(t) /\ task[t].room # map
  BY <1>1, RoomTypes, NamesAssumption DEF Held, ServerTypes
<1>3. \A t \in Tasks : Working(t)'
  BY <1>2 DEF Evict, Working, Task, Steps
<1>4. ServerTypes' /\ InOrder(updates, snapshots)' /\ Stored' = Stored
  BY <1>1, RoomTypes DEF Evict, ServerTypes, store, Stored
<1>5. NetTypes'
  BY RoomTypes DEF Evict, NetTypes, net
<1>6. (map # None => Stored \subseteq docs[map])'
  BY <1>1
<1> QED BY <1>3, <1>4, <1>5, <1>6, InvFromParts

LEMMA CrashInv ==
  ASSUME RoomInv, Crash
  PROVE  RoomInv' /\ Stored \subseteq Stored'
<1>1. IdleTask \in Task /\ [IdleTask EXCEPT !.at = "done"] \in Task
  BY DEF IdleTask, Task, Steps
<1>2. task' \in [Tasks -> Task]
  BY <1>1 DEF Crash
<1>3. \A t \in Tasks : Working(t)'
  BY DEF Crash, Working, IdleTask
<1>4. ServerTypes' /\ InOrder(updates, snapshots)' /\ Stored' = Stored
  BY <1>2, RoomTypes DEF Crash, ServerTypes, store, Stored
<1>5. faults' \in 0 .. MaxFaults
  BY RoomTypes, BoundAssumption DEF Crash, NetTypes
<1>6. NetTypes'
  BY <1>5, RoomTypes DEF Crash, NetTypes
<1>7. (map # None => Stored \subseteq docs[map])'
  BY DEF Crash
<1> QED BY <1>3, <1>4, <1>6, <1>7, InvFromParts

LEMMA ClientInv ==
  ASSUME RoomInv,
         \/ \E c \in Clients : Connect(c) \/ ClientReceive(c) \/ Drop(c)
         \/ \E c \in Clients, op \in Ops : ClientEdit(c, op)
         \/ \E k \in Conns : Forward(k) \/ Lagged(k) \/ Close(k)
  PROVE  RoomInv' /\ Stored' = Stored
<1>1. NetTypes'
  BY RoomTypes, ClientTypes, ConnTypes
<1>2. UNCHANGED <<store, rooms, task>>
  BY DEF Connect, ClientReceive, Drop, ClientEdit, Forward, Lagged, Close, End
<1> QED BY <1>1, <1>2, ServerKept

LEMMA InitInv == Init => RoomInv
<1> SUFFICES ASSUME Init PROVE RoomInv
  OBVIOUS
<1>1. IdleTask \in Task
  BY DEF IdleTask, Task, Steps
<1>2. ServerTypes
  BY <1>1 DEF Init, ServerTypes, UpdateTable, SnapshotTable
<1>3. NetTypes
  BY BoundAssumption DEF Init, NetTypes
<1>4. InOrder(updates, snapshots)
  BY DEF Init, InOrder, Numbered, NeverBehind, Seqs
<1>5. \A t \in Tasks : Working(t)
  BY DEF Init, IdleTask, Working
<1>6. map = None
  BY DEF Init
<1> QED BY <1>2, <1>3, <1>4, <1>5, <1>6, RoomTypes

\* No step forgets anything that was stored.
LEMMA NextInv == RoomInv /\ [Next]_vars => RoomInv' /\ Stored \subseteq Stored'
<1> SUFFICES ASSUME RoomInv, [Next]_vars PROVE RoomInv' /\ Stored \subseteq Stored'
  OBVIOUS
<1>1. CASE \/ \E c \in Clients : Connect(c) \/ ClientReceive(c) \/ Drop(c)
           \/ \E c \in Clients, op \in Ops : ClientEdit(c, op)
           \/ \E k \in Conns : Forward(k) \/ Lagged(k) \/ Close(k)
  BY <1>1, ClientInv
<1>2. CASE \E k \in Conns : Receive(k) \/ Answer(k)
  BY <1>2, ReceiveInv, AnswerInv
<1>3. CASE \E t \in Tasks : TaskStep(t)
  BY <1>3, ApplyInv, JournalInv, JournalFailsInv, PublishInv DEF TaskStep
<1>4. CASE \E a \in Apis : ApiStop(a) \/ \E op \in Ops : ApiStart(a, op)
  BY <1>4, ApiStartInv, ApiStopInv
<1>5. CASE Evict \/ Crash
  BY <1>5, EvictInv, CrashInv
<1>6. CASE UNCHANGED vars
  <2>1. NetTypes'
    BY <1>6, RoomTypes DEF vars, net, NetTypes
  <2> QED BY <1>6, <2>1, ServerKept DEF vars
<1> QED BY <1>1, <1>2, <1>3, <1>4, <1>5, <1>6 DEF Next, ConnStep, Tasks
-----------------------------------------------------------------------------
LEMMA InvHolds == Spec => []RoomInv
<1>1. Init => RoomInv
  BY InitInv
<1>2. RoomInv /\ [Next]_vars => RoomInv'
  BY NextInv
<1> QED BY <1>1, <1>2, PTL DEF Spec

\* A document has one room, never behind the store: however often it is dropped and loaded again,
\* and whatever requests are dropped half way, appends refused or crashes happen (`get_room`,
\* `evict_idle_rooms`), every task works on the room in the map, and a SyncStep1 is answered with
\* everything that was ever journaled.
THEOREM RoomCorrect == Spec => []RoomCoversStore
<1>1. RoomInv => RoomCoversStore
  BY HeldIs, RoomTypes DEF RoomInv, RoomCoversStore, OneRoom, ServerTypes
<1> QED BY <1>1, InvHolds, PTL

\* The store never forgets an operation (`maintain` under many writers): the snapshot of one task
\* has what every other task has journaled, though not all of what it snapshots is in the journal.
THEOREM StoreCorrect == Spec => StoreNeverShrinks
<1>1. RoomInv /\ [Next]_vars => [Stored \subseteq Stored']_vars
  BY NextInv
<1> QED BY <1>1, InvHolds, PTL DEF Spec, StoreNeverShrinks
-----------------------------------------------------------------------------
(***************************************************************************)
(* The refinement of SharedDoc.tla, fairness apart, for every size and     *)
(* every fault: what the store, the rooms, the tasks, the queues and the   *)
(* clients hold was made by somebody, and every step is a step of          *)
(* SharedDoc or changes nothing SharedDoc speaks of.                       *)
(***************************************************************************)
(***************************************************************************)
(* The operations in a queue.                                              *)
(***************************************************************************)
LEMMA OpsInEmpty == OpsIn(<<>>) = {} /\ InFrames(<<>>) = {}
BY DEF OpsIn, InFrames

LEMMA OpsInAppend ==
  ASSUME NEW S, NEW q \in Seq(S), NEW e \in S
  PROVE  OpsIn(Append(q, e)) = OpsIn(q) \cup e.ops
<1> DEFINE N == Len(q)
           w == Append(q, e)
<1>1. N \in Nat /\ Len(w) = N + 1 /\ w[N + 1] = e /\ \A i \in 1 .. N : w[i] = q[i]
  OBVIOUS
<1> HIDE DEF w, N
<1>2. 1 .. (N + 1) = (1 .. N) \cup {N + 1}
  BY <1>1
<1>3. OpsIn(w) = UNION {w[i].ops : i \in 1 .. (N + 1)}
  BY <1>1 DEF OpsIn
<1>4. OpsIn(q) = UNION {w[i].ops : i \in 1 .. N}
  BY <1>1 DEF OpsIn, N
<1> QED BY <1>1, <1>2, <1>3, <1>4 DEF w

LEMMA OpsInAppendFrame ==
  /\ \A q \in Seq(Frame), e \in Frame : OpsIn(Append(q, e)) = OpsIn(q) \cup e.ops
  /\ \A q \in Seq(Outbound), e \in Outbound : OpsIn(Append(q, e)) = OpsIn(q) \cup e.ops
BY OpsInAppend

LEMMA OpsInTail ==
  ASSUME NEW S, NEW q \in Seq(S), q # <<>>
  PROVE  /\ OpsIn(q) = Head(q).ops \cup OpsIn(Tail(q))
         /\ Head(q).ops \subseteq OpsIn(q) /\ OpsIn(Tail(q)) \subseteq OpsIn(q)
<1> DEFINE N == Len(q)
           w == Tail(q)
<1>1. /\ N \in Nat /\ N >= 1 /\ Len(w) = N - 1 /\ Head(q) = q[1]
      /\ \A i \in 1 .. N - 1 : w[i] = q[i + 1]
  OBVIOUS
<1> HIDE DEF w, N
<1>2. OpsIn(w) \subseteq OpsIn(q)
  BY <1>1 DEF OpsIn, N
<1>3. Head(q).ops \subseteq OpsIn(q)
  BY <1>1 DEF OpsIn, N
<1>4. ASSUME NEW i \in 1 .. N PROVE q[i].ops \subseteq Head(q).ops \cup OpsIn(w)
  <2>1. CASE i = 1
    BY <1>1, <2>1
  <2>2. CASE i # 1
    <3>1. i - 1 \in 1 .. N - 1 /\ w[i - 1] = q[i]
      BY <1>1, <2>2
    <3> QED BY <3>1, <1>1 DEF OpsIn
  <2> QED BY <2>1, <2>2
<1>5. OpsIn(q) \subseteq Head(q).ops \cup OpsIn(w)
  BY <1>4 DEF OpsIn, N
<1> QED BY <1>2, <1>3, <1>5 DEF w

LEMMA OpsInPrefix ==
  ASSUME NEW S, NEW q \in Seq(S), NEW n \in 0 .. Len(q)
  PROVE  OpsIn(SubSeq(q, 1, n)) \subseteq OpsIn(q)
<1>1. Len(SubSeq(q, 1, n)) = n /\ \A i \in 1 .. n : SubSeq(q, 1, n)[i] = q[i]
  OBVIOUS
<1> QED BY <1>1 DEF OpsIn

\* Two frames at once are two appended.
LEMMA AppendTwo ==
  ASSUME NEW S, NEW q \in Seq(S), NEW e \in S, NEW f \in S
  PROVE  q \o <<e, f>> = Append(Append(q, e), f)
OBVIOUS

\* The operations in updates, for the client that reads the queue.
UpdateIn(e) == IF e.kind = "update" THEN e.ops ELSE {}
LEMMA InFramesAppend ==
  ASSUME NEW S, NEW q \in Seq(S), NEW e \in S
  PROVE  InFrames(Append(q, e)) = InFrames(q) \cup UpdateIn(e)
<1> DEFINE N == Len(q)
           w == Append(q, e)
<1>1. N \in Nat /\ Len(w) = N + 1 /\ w[N + 1] = e /\ \A i \in 1 .. N : w[i] = q[i]
  OBVIOUS
<1> HIDE DEF w, N
<1>2. 1 .. (N + 1) = (1 .. N) \cup {N + 1}
  BY <1>1
<1>3. InFrames(w) = UNION {w[i].ops : i \in {j \in 1 .. (N + 1) : w[j].kind = "update"}}
  BY <1>1 DEF InFrames
<1>4. InFrames(q) = UNION {w[i].ops : i \in {j \in 1 .. N : w[j].kind = "update"}}
  BY <1>1 DEF InFrames, N
<1> QED BY <1>1, <1>2, <1>3, <1>4 DEF w, UpdateIn

LEMMA InFramesAppendFrame ==
  \A q \in Seq(Frame), e \in Frame : InFrames(Append(q, e)) = InFrames(q) \cup UpdateIn(e)
BY InFramesAppend

LEMMA InFramesTail ==
  ASSUME NEW S, NEW q \in Seq(S), q # <<>>
  PROVE  InFrames(q) \subseteq InFrames(Tail(q)) \cup UpdateIn(Head(q))
<1> DEFINE N == Len(q)
           w == Tail(q)
<1>1. /\ N \in Nat /\ N >= 1 /\ Len(w) = N - 1 /\ Head(q) = q[1]
      /\ \A i \in 1 .. N - 1 : w[i] = q[i + 1]
  OBVIOUS
<1> HIDE DEF w, N
<1>2. ASSUME NEW i \in 1 .. N, q[i].kind = "update"
      PROVE  q[i].ops \subseteq InFrames(w) \cup UpdateIn(Head(q))
  <2>1. CASE i = 1
    BY <1>1, <1>2, <2>1 DEF UpdateIn
  <2>2. CASE i # 1
    <3>1. i - 1 \in 1 .. N - 1 /\ w[i - 1] = q[i]
      BY <1>1, <2>2
    <3> QED BY <3>1, <1>1, <1>2 DEF InFrames
  <2> QED BY <2>1, <2>2
<1> QED BY <1>2 DEF InFrames, N, w
-----------------------------------------------------------------------------
(***************************************************************************)
(* Nothing comes from nowhere: whatever the store, a room, a task, a queue *)
(* or a replica holds was made.                                            *)
(***************************************************************************)
MadeBy(t) == task[t].ops \subseteq made
MadeOn(k) == OpsIn(up[k]) \subseteq made /\ OpsIn(down[k]) \subseteq made /\ OpsIn(bus[k]) \subseteq made

AllMade ==
  /\ Stored \subseteq made
  /\ \A r \in RoomIds : docs[r] \subseteq made
  /\ \A t \in Tasks : MadeBy(t)
  /\ \A k \in Conns : MadeOn(k)
  /\ \A c \in Clients : replica[c] \subseteq made

\* A queue of S that holds nothing outside m stays so when it is read, cut off, or added to.
StaysMade(S, q, m) ==
  /\ q # <<>> => OpsIn(Tail(q)) \subseteq m /\ Head(q).ops \subseteq m
  /\ \A n \in 0 .. Len(q) : OpsIn(SubSeq(q, 1, n)) \subseteq m
  /\ \A e \in S : e.ops \subseteq m => OpsIn(Append(q, e)) \subseteq m
LEMMA QueueStaysMade ==
  ASSUME NEW S, NEW q \in Seq(S), NEW m, OpsIn(q) \subseteq m
  PROVE  StaysMade(S, q, m)
<1>1. q # <<>> => OpsIn(Tail(q)) \subseteq m /\ Head(q).ops \subseteq m
  BY OpsInTail
<1>2. \A n \in 0 .. Len(q) : OpsIn(SubSeq(q, 1, n)) \subseteq m
  BY OpsInPrefix
<1>3. \A e \in S : e.ops \subseteq m => OpsIn(Append(q, e)) \subseteq m
  BY OpsInAppend
<1> QED BY <1>1, <1>2, <1>3 DEF StaysMade

LEMMA QueuesMade ==
  ASSUME NetTypes, AllMade, NEW k \in Conns
  PROVE  /\ \A q \in {up[k], down[k]} :
              /\ q # <<>> => OpsIn(Tail(q)) \subseteq made /\ Head(q).ops \subseteq made
              /\ \A n \in 0 .. Len(q) : OpsIn(SubSeq(q, 1, n)) \subseteq made
              /\ \A e \in Frame : e.ops \subseteq made => OpsIn(Append(q, e)) \subseteq made
         /\ bus[k] # <<>> => OpsIn(Tail(bus[k])) \subseteq made /\ Head(bus[k]).ops \subseteq made
         /\ \A e \in Outbound : e.ops \subseteq made => OpsIn(Append(bus[k], e)) \subseteq made
         /\ OpsIn(<<>>) \subseteq made
<1>1. /\ \A q \in {up[k], down[k]} : q \in Seq(Frame) /\ OpsIn(q) \subseteq made
      /\ bus[k] \in Seq(Outbound) /\ OpsIn(bus[k]) \subseteq made
  BY DEF NetTypes, AllMade, MadeOn
<1>2. ASSUME NEW q \in {up[k], down[k]}
      PROVE  /\ q # <<>> => OpsIn(Tail(q)) \subseteq made /\ Head(q).ops \subseteq made
             /\ \A n \in 0 .. Len(q) : OpsIn(SubSeq(q, 1, n)) \subseteq made
             /\ \A e \in Frame : e.ops \subseteq made => OpsIn(Append(q, e)) \subseteq made
  <2>1. q \in Seq(Frame) /\ OpsIn(q) \subseteq made
    BY <1>1
  <2>2. StaysMade(Frame, q, made)
    BY <2>1, QueueStaysMade
  <2> QED BY <2>2 DEF StaysMade
<1>3. /\ bus[k] # <<>> => OpsIn(Tail(bus[k])) \subseteq made /\ Head(bus[k]).ops \subseteq made
      /\ \A e \in Outbound : e.ops \subseteq made => OpsIn(Append(bus[k], e)) \subseteq made
  <2>1. StaysMade(Outbound, bus[k], made)
    BY <1>1, QueueStaysMade
  <2> QED BY <2>1 DEF StaysMade
<1> QED BY <1>2, <1>3, OpsInEmpty

LEMMA FrameOps ==
  /\ \A ops : Step1(ops).ops = ops /\ Update(ops).ops = ops
  /\ \A ops : Step1(ops).kind = "step1" /\ Update(ops).kind = "update"
BY DEF Step1, Update

LEMMA ConnectMade ==
  ASSUME RoomInv, AllMade, NEW c \in Clients, Connect(c)
  PROVE  AllMade'
<1>1. PICK i \in Slots : up' = [up EXCEPT ![<<c, i>>] = <<Step1(replica[c])>>]
  BY DEF Connect
<1>2. Step1(replica[c]) \in Frame /\ Step1(replica[c]).ops \subseteq made
  BY FrameTypes, FrameOps, RoomTypes DEF NetTypes, AllMade
<1>3. OpsIn(<<Step1(replica[c])>>) \subseteq made
  <2>1. <<>> \in Seq(Frame) /\ Append(<<>>, Step1(replica[c])) = <<Step1(replica[c])>>
    BY <1>2
  <2>2. OpsIn(Append(<<>>, Step1(replica[c]))) = OpsIn(<<>>) \cup Step1(replica[c]).ops
    BY <1>2, <2>1, OpsInAppend, ZenonT(60)
  <2> QED BY <1>2, <2>1, <2>2, OpsInEmpty
<1>4. \A k \in Conns : MadeOn(k)'
  BY <1>1, <1>3, RoomTypes DEF Connect, NetTypes, AllMade, MadeOn
<1> QED BY <1>4 DEF Connect, AllMade, MadeBy, store, rooms, Stored

LEMMA EditMade ==
  ASSUME RoomInv, AllMade, NEW c \in Clients, NEW op \in Ops, ClientEdit(c, op)
  PROVE  AllMade'
<1>1. made' = made \cup {op} /\ NetTypes
  BY RoomTypes DEF ClientEdit
<1>2. \A k \in Conns : MadeOn(k)'
  <2> TAKE k \in Conns
  <2>1. up[k] \in Seq(Frame) /\ Update({op}) \in Frame /\ Update({op}).ops = {op}
    BY <1>1, FrameTypes, FrameOps DEF NetTypes
  <2>2. up'[k] \in {up[k], Append(up[k], Update({op}))}
    BY <1>1 DEF ClientEdit, NetTypes
  <2>3. OpsIn(up'[k]) \subseteq OpsIn(up[k]) \cup {op}
    <3>1. OpsIn(Append(up[k], Update({op}))) = OpsIn(up[k]) \cup {op}
      BY <2>1, OpsInAppendFrame
    <3> QED BY <2>2, <3>1
  <2> QED BY <1>1, <2>3 DEF ClientEdit, AllMade, MadeOn
<1>3. \A x \in Clients : replica'[x] \subseteq made'
  BY <1>1 DEF ClientEdit, AllMade, NetTypes
<1> QED BY <1>1, <1>2, <1>3 DEF ClientEdit, AllMade, MadeBy, store, rooms, Stored

LEMMA ClientReceiveMade ==
  ASSUME RoomInv, AllMade, NEW c \in Clients, ClientReceive(c)
  PROVE  AllMade'
<1> DEFINE k == conn[c]
           f == Head(down[k])
           reply == Update(replica[c] \ f.ops)
<1>1. NetTypes /\ k \in Conns /\ down[k] # <<>>
  BY RoomTypes DEF ClientReceive, NetTypes
<1>2. f.ops \subseteq made /\ OpsIn(Tail(down[k])) \subseteq made
  BY <1>1, QueuesMade
<1>3. reply \in Frame /\ reply.ops \subseteq made
  BY <1>1, FrameTypes, FrameOps DEF NetTypes, AllMade
<1>4. OpsIn(Append(up[k], reply)) \subseteq made
  BY <1>1, <1>3, QueuesMade
<1>5. \A x \in Conns : MadeOn(x)'
  <2> TAKE x \in Conns
  <2>1. OpsIn(down'[x]) \subseteq made
    BY <1>1, <1>2 DEF ClientReceive, AllMade, MadeOn, NetTypes
  <2>2. up'[x] = up[x] \/ (x = k /\ up'[x] = Append(up[k], reply))
    BY <1>1 DEF ClientReceive, NetTypes
  <2> QED BY <1>4, <2>1, <2>2 DEF ClientReceive, AllMade, MadeOn
<1>6. \A x \in Clients : replica'[x] \subseteq made
  BY <1>1, <1>2, ZenonT(60) DEF ClientReceive, AllMade, NetTypes
<1> QED BY <1>5, <1>6 DEF ClientReceive, AllMade, MadeBy, store, rooms, Stored

LEMMA DropMade ==
  ASSUME RoomInv, AllMade, NEW c \in Clients, Drop(c)
  PROVE  AllMade'
<1> DEFINE k == conn[c]
<1>1. NetTypes /\ k \in Conns
  BY RoomTypes DEF Drop, NetTypes
<1>2. PICK n \in 0 .. Len(up[k]) : up' = [up EXCEPT ![k] = SubSeq(@, 1, n)]
  BY DEF Drop
<1>3. OpsIn(SubSeq(up[k], 1, n)) \subseteq made /\ OpsIn(<<>>) \subseteq made
  BY <1>1, QueuesMade
<1>4. \A x \in Conns : MadeOn(x)'
  BY <1>1, <1>2, <1>3 DEF Drop, AllMade, MadeOn, NetTypes
<1> QED BY <1>4 DEF Drop, AllMade, MadeBy, store, rooms, Stored

LEMMA ForwardMade ==
  ASSUME RoomInv, AllMade, NEW k \in Conns, Forward(k)
  PROVE  AllMade'
<1> DEFINE e == Update(Head(bus[k]).ops)
<1>1. NetTypes /\ bus[k] # <<>> /\ Head(bus[k]) \in Outbound
  BY RoomTypes, HeadType DEF Forward, NetTypes
<1>2. e \in Frame /\ e.ops \subseteq made /\ OpsIn(Tail(bus[k])) \subseteq made
  BY <1>1, FrameTypes, FrameOps, QueuesMade
<1>3. OpsIn(Append(down[k], e)) \subseteq made
  BY <1>1, <1>2, QueuesMade
<1>4. \A x \in Conns : MadeOn(x)'
  BY <1>1, <1>2, <1>3 DEF Forward, AllMade, MadeOn, NetTypes
<1> QED BY <1>4 DEF Forward, AllMade, MadeBy, store, rooms, Stored

LEMMA EndMade ==
  ASSUME RoomInv, AllMade, NEW k \in Conns, End(k)
  PROVE  AllMade'
<1>1. NetTypes /\ OpsIn(<<>>) \subseteq made
  BY RoomTypes, OpsInEmpty
<1>2. \A x \in Conns : MadeOn(x)'
  BY <1>1 DEF End, AllMade, MadeOn, NetTypes
<1> QED BY <1>2 DEF End, AllMade, MadeBy, store, rooms, Stored

\* A room that is found holds what was made, and so does the task that found it.
LEMMA FoundMade ==
  ASSUME RoomInv, AllMade, NEW r \in RoomIds, GetRoom(r)
  PROVE  \A x \in RoomIds : docs'[x] \subseteq made
BY RoomFound DEF AllMade, RoomInv

LEMMA ReceiveMade ==
  ASSUME RoomInv, AllMade, NEW k \in Conns, Receive(k)
  PROVE  AllMade'
<1>1. /\ NetTypes /\ up[k] # <<>> /\ k \in Tasks /\ task \in [Tasks -> Task]
      /\ UNCHANGED <<store, down, bus, replica, made>>
  BY RoomTypes DEF Receive, Tasks, ServerTypes
<1>2. Head(up[k]).ops \subseteq made /\ OpsIn(Tail(up[k])) \subseteq made
  BY <1>1, QueuesMade
<1>3. \A x \in Conns : MadeOn(x)'
  BY <1>1, <1>2 DEF Receive, AllMade, MadeOn, NetTypes
<1>4. \A t \in Tasks : MadeBy(t)'
  BY <1>1, <1>2 DEF Receive, AllMade, MadeBy
<1>5. \A r \in RoomIds : docs'[r] \subseteq made
  BY FoundMade DEF Receive
<1> QED BY <1>1, <1>3, <1>4, <1>5 DEF AllMade, store, Stored

\* A task that goes on, or lets the room go, holds nothing it did not.
LEMMA TaskMade ==
  ASSUME RoomInv, AllMade, NEW t \in Tasks, UNCHANGED made,
         \/ Finish(t)
         \/ \E at \in Steps : task' = [task EXCEPT ![t].at = at]
  PROVE  \A x \in Tasks : MadeBy(x)'
<1>1. task \in [Tasks -> Task]
  BY RoomTypes DEF ServerTypes
<1> QED BY <1>1 DEF Finish, IdleTask, AllMade, MadeBy, Task

LEMMA AnswerMade ==
  ASSUME RoomInv, AllMade, NEW k \in Conns, Answer(k)
  PROVE  AllMade'
<1> DEFINE d == docs[task[k].room]
           e == Update(d \ task[k].ops)
           f == Step1(d)
<1>1. /\ NetTypes /\ k \in Tasks /\ Working(k) /\ task[k] \in Task /\ docs \in [RoomIds -> SUBSET Ops]
      /\ UNCHANGED <<store, docs, up, bus, replica, made>>
  BY RoomTypes DEF Tasks, ServerTypes, Answer, rooms
<1>2. task[k].room \in RoomIds
  BY <1>1 DEF Answer, Working, Task
<1>3. d \in SUBSET Ops /\ d \subseteq made
  BY <1>1, <1>2 DEF AllMade
<1>4. /\ e \in Frame /\ f \in Frame /\ e.ops \subseteq made /\ f.ops \subseteq made
      /\ down[k] \in Seq(Frame)
  BY <1>1, <1>3, FrameTypes, FrameOps DEF NetTypes
<1>5. OpsIn(down[k] \o <<e, f>>) \subseteq made
  <2> HIDE DEF e, f
  <2>1. Append(down[k], e) \in Seq(Frame)
    BY <1>4
  <2>2. OpsIn(Append(down[k], e)) \subseteq made
    BY <1>1, <1>4, QueuesMade
  <2>3. OpsIn(Append(Append(down[k], e), f)) = OpsIn(Append(down[k], e)) \cup f.ops
    BY <1>4, <2>1, OpsInAppendFrame
  <2>4. down[k] \o <<e, f>> = Append(Append(down[k], e), f)
    BY <1>4, AppendTwo
  <2> QED BY <1>4, <2>2, <2>3, <2>4
<1>6. \A x \in Conns : MadeOn(x)'
  BY <1>1, <1>5 DEF Answer, AllMade, MadeOn, NetTypes
<1>7. \A x \in Tasks : MadeBy(x)'
  BY <1>1, TaskMade DEF Answer
<1> QED BY <1>1, <1>6, <1>7 DEF AllMade, store, Stored

LEMMA ApplyMade ==
  ASSUME RoomInv, AllMade, NEW t \in Tasks, Apply(t)
  PROVE  AllMade'
<1>1. /\ task[t].ops \subseteq made /\ docs \in [RoomIds -> SUBSET Ops]
      /\ UNCHANGED <<store, net, replica, made>>
  BY RoomTypes DEF AllMade, MadeBy, ServerTypes, Apply
<1>2. \A r \in RoomIds : docs'[r] \subseteq made
  BY <1>1 DEF Apply, AllMade
<1>3. \A x \in Tasks : MadeBy(x)'
  BY <1>1, TaskMade DEF Apply, Steps
<1> QED BY <1>1, <1>2, <1>3 DEF AllMade, MadeOn, net, store, Stored

\* What the store holds after a step of a task, the room holds.
LEMMA StoreMade ==
  ASSUME RoomInv, RoomInv', AllMade, NEW t \in Tasks, JournalUpdate(t) \/ JournalFails(t)
  PROVE  AllMade'
<1>1. /\ Working(t) /\ task[t].at = "journal" /\ map \in RoomIds \cup {None}
      /\ UNCHANGED <<rooms, net, replica, made>>
  BY RoomTypes DEF ServerTypes, JournalUpdate, JournalFails
<1>2. map' = map /\ map \in RoomIds /\ docs' = docs
  BY <1>1 DEF Working, rooms
<1>3. Stored' \subseteq docs[map]
  BY <1>1, <1>2 DEF RoomInv, Working
<1>4. \A x \in Tasks : MadeBy(x)'
  BY <1>1, TaskMade DEF JournalUpdate, JournalFails, Steps
<1> QED BY <1>1, <1>2, <1>3, <1>4 DEF AllMade, MadeOn, net

LEMMA PublishMade ==
  ASSUME RoomInv, AllMade, NEW t \in Tasks, Publish(t)
  PROVE  AllMade'
<1> DEFINE e == [from |-> t, ops |-> task[t].ops]
<1>1. /\ NetTypes /\ e \in Outbound /\ e.ops \subseteq made
      /\ UNCHANGED <<store, rooms, up, down, replica, made>>
  BY RoomTypes, FrameTypes DEF ServerTypes, Task, AllMade, MadeBy, Publish
<1>2. \A x \in Conns : MadeOn(x)'
  <2> TAKE x \in Conns
  <2>1. OpsIn(Append(bus[x], e)) \subseteq made
    BY <1>1, QueuesMade
  <2> QED BY <1>1, <2>1 DEF Publish, AllMade, MadeOn
<1>3. \A x \in Tasks : MadeBy(x)'
  BY <1>1, TaskMade DEF Publish
<1> QED BY <1>1, <1>2, <1>3 DEF AllMade, store, rooms, Stored

LEMMA ApiMade ==
  ASSUME RoomInv, AllMade, NEW a \in Apis, ApiStop(a) \/ \E op \in Ops : ApiStart(a, op)
  PROVE  AllMade'
<1>1. a \in Tasks /\ task \in [Tasks -> Task]
  BY RoomTypes DEF Tasks, ServerTypes
<1>2. CASE ApiStop(a)
  <2>1. \A x \in Tasks : MadeBy(x)'
    BY <1>1, <1>2, TaskMade DEF ApiStop
  <2> QED BY <1>2, <2>1 DEF ApiStop, AllMade, MadeOn, store, rooms, net, Stored
<1>3. ASSUME NEW op \in Ops, ApiStart(a, op) PROVE AllMade'
  <2>1. made' = made \cup {op} /\ UNCHANGED <<store, net, replica>>
    BY <1>3 DEF ApiStart
  <2>2. \A r \in RoomIds : docs'[r] \subseteq made
    BY <1>3, FoundMade DEF ApiStart
  <2>3. \A x \in Tasks : MadeBy(x)'
    BY <1>1, <1>3, <2>1 DEF ApiStart, AllMade, MadeBy
  <2> QED BY <2>1, <2>2, <2>3 DEF AllMade, MadeOn, net, store, Stored
<1> QED BY <1>2, <1>3

LEMMA OtherMade ==
  ASSUME RoomInv, AllMade, Evict \/ Crash
  PROVE  AllMade'
<1>1. docs \in [RoomIds -> SUBSET Ops] /\ OpsIn(<<>>) = {}
  BY RoomTypes, OpsInEmpty DEF ServerTypes
<1>2. CASE Evict
  BY <1>1, <1>2 DEF Evict, AllMade, MadeOn, MadeBy, net, store, Stored
<1>3. CASE Crash
  BY <1>1, <1>3 DEF Crash, AllMade, MadeOn, MadeBy, IdleTask, store, Stored
<1> QED BY <1>2, <1>3

\* Empty tables hold nothing.
LEMMA StoredInit == Init => Stored = {}
<1> SUFFICES ASSUME Init PROVE Stored = {}
  OBVIOUS
<1>1. Stored = Everything(updates, snapshots)
  BY InitInv, RoomTypes, StoredIs
<1> QED BY <1>1 DEF Init, Everything

LEMMA InitMade == Init => AllMade
<1> SUFFICES ASSUME Init PROVE AllMade
  OBVIOUS
<1>1. Stored = {} /\ OpsIn(<<>>) = {}
  BY StoredInit, OpsInEmpty
<1> QED BY <1>1 DEF Init, AllMade, MadeBy, MadeOn, IdleTask

LEMMA NextMade == RoomInv /\ AllMade /\ [Next]_vars => AllMade'
<1> SUFFICES ASSUME RoomInv, AllMade, [Next]_vars PROVE AllMade'
  OBVIOUS
<1>1. CASE \/ \E c \in Clients : Connect(c) \/ ClientReceive(c) \/ Drop(c)
           \/ \E c \in Clients, op \in Ops : ClientEdit(c, op)
  BY <1>1, ConnectMade, EditMade, ClientReceiveMade, DropMade
<1>2. CASE \E k \in Conns : \/ Receive(k) \/ Answer(k) \/ Forward(k)
                            \/ Lagged(k) \/ Close(k)
  BY <1>2, ReceiveMade, AnswerMade, ForwardMade, EndMade DEF Lagged, Close
<1>3. CASE \E t \in Tasks : TaskStep(t)
  <2>1. RoomInv'
    BY NextInv
  <2> QED BY <1>3, <2>1, ApplyMade, StoreMade, PublishMade DEF TaskStep
<1>4. CASE \E a \in Apis : ApiStop(a) \/ \E op \in Ops : ApiStart(a, op)
  BY <1>4, ApiMade
<1>5. CASE Evict \/ Crash
  BY <1>5, OtherMade
<1>6. CASE UNCHANGED vars
  BY <1>6 DEF vars, AllMade, MadeOn, MadeBy, net, store, rooms, Stored
<1> QED BY <1>1, <1>2, <1>3, <1>4, <1>5, <1>6 DEF Next, ConnStep, Tasks

LEMMA MadeHolds == Spec => [](RoomInv /\ AllMade)
<1>1. Init => RoomInv /\ AllMade
  BY InitInv, InitMade
<1>2. RoomInv /\ AllMade /\ [Next]_vars => (RoomInv /\ AllMade)'
  BY NextInv, NextMade
<1> QED BY <1>1, <1>2, PTL DEF Spec
-----------------------------------------------------------------------------
(***************************************************************************)
(* Relay implements SharedDoc, fairness apart.                             *)
(***************************************************************************)
\* Steps that neither make an operation, nor store one, nor bring a replica one.
LEMMA QuietStep ==
  ASSUME UNCHANGED <<made, replica, store>>
  PROVE  UNCHANGED Shared!shared
BY DEF Shared!shared, store, Stored

LEMMA StepIsShared ==
  ASSUME RoomInv, AllMade, RoomInv', AllMade', [Next]_vars
  PROVE  [Shared!Next]_(Shared!shared)
<1> USE DEF Shared!Next
<1>1. ASSUME NEW c \in Clients, NEW op \in Ops, ClientEdit(c, op)
      PROVE  Shared!Edit(c, op)
  BY <1>1 DEF ClientEdit, Shared!Edit, store, Stored
<1>2. ASSUME NEW a \in Apis, NEW op \in Ops, ApiStart(a, op)
      PROVE  Shared!Request(op)
  BY <1>2 DEF ApiStart, Shared!Request, store, Stored
<1>3. ASSUME NEW t \in Tasks, JournalUpdate(t) \/ JournalFails(t)
      PROVE  Shared!Keep
  <2>1. Stored \subseteq Stored' /\ Stored' \subseteq made'
    BY <1>3, JournalInv, JournalFailsInv DEF AllMade
  <2> QED BY <1>3, <2>1 DEF JournalUpdate, JournalFails, Shared!Keep
<1>4. ASSUME NEW c \in Clients, ClientReceive(c)
      PROVE  Shared!Learn(c) \/ UNCHANGED Shared!shared
  <2>1. CASE UNCHANGED replica
    BY <1>4, <2>1, QuietStep DEF ClientReceive
  <2>2. CASE replica' = [replica EXCEPT ![c] = @ \cup Head(down[conn[c]]).ops]
    <3>1. replica \in [Clients -> SUBSET Ops] /\ replica' \in [Clients -> SUBSET Ops]
      BY RoomInv, RoomInv' DEF RoomInv, TypeOK
    <3>2. replica[c] \subseteq replica'[c] /\ replica'[c] \subseteq made'
      BY <2>2, <3>1 DEF AllMade
    <3>3. replica' = [replica EXCEPT ![c] = replica'[c]]
      BY <2>2, <3>1
    <3>4. made' = made /\ Stored' = Stored
      BY <1>4 DEF ClientReceive, store, Stored
    <3> QED BY <3>2, <3>3, <3>4 DEF Shared!Learn
  <2> QED BY <1>4, <2>1, <2>2 DEF ClientReceive
<1>5. ASSUME \/ \E c \in Clients : Connect(c) \/ Drop(c)
             \/ \E k \in Conns : Receive(k) \/ Answer(k) \/ Forward(k) \/ Lagged(k) \/ Close(k)
             \/ \E t \in Tasks : Apply(t) \/ Publish(t)
             \/ \E a \in Apis : ApiStop(a)
             \/ Evict \/ Crash \/ UNCHANGED vars
      PROVE  UNCHANGED Shared!shared
  <2>1. UNCHANGED <<made, replica, store>>
    BY <1>5 DEF Connect, Drop, Receive, Answer, Forward, Lagged, Close, End, Apply, Publish,
                ApiStop, Evict, Crash, vars
  <2> QED BY <2>1, QuietStep
<1> QED BY <1>1, <1>2, <1>3, <1>4, <1>5 DEF Next, ConnStep, TaskStep, Tasks

\* The server, its clients and its faults are the shared document of SharedDoc: an operation is
\* never lost by the store or by a client, and nobody gets one that was not made.
THEOREM RelayIsShared == Spec => Shared!Safety
<1>1. Init => Shared!Init
  BY StoredInit DEF Init, Shared!Init
<1>2. (RoomInv /\ AllMade) /\ (RoomInv /\ AllMade)' /\ [Next]_vars => [Shared!Next]_(Shared!shared)
  BY StepIsShared
<1> QED BY <1>1, <1>2, MadeHolds, PTL DEF Spec, Shared!Safety
-----------------------------------------------------------------------------
(***************************************************************************)
(* What the clients get over a store that takes every append and requests  *)
(* that run to their end, drops and crashes included: nothing is published *)
(* before it is stored, a room nobody holds can be dropped, an answered    *)
(* client misses nothing.                                                  *)
(***************************************************************************)
StoreWorks == ~StoreMayFail /\ ~ApiMayStop

\* What a task has passed the store is in it.
Published(t) == task[t].at = "publish" => task[t].ops \subseteq Stored

\* What a room has and the store has not, a task is about to journal.
Journaling(op) == \E t \in Tasks : task[t].at = "journal" /\ op \in task[t].ops
RoomIsStored == map # None => \A op \in docs[map] : op \in Stored \/ Journaling(op)

StoredInv ==
  /\ RoomInv
  /\ \A t \in Tasks : Published(t)
  /\ PublishedIsStored
  /\ RoomIsStored
-----------------------------------------------------------------------------
LEMMA StepTypes ==
  ASSUME RoomInv
  PROVE  /\ \A t \in Tasks : Working(t) /\ task[t] \in Task
         /\ task \in [Tasks -> Task]
         /\ docs \in [RoomIds -> SUBSET Ops]
         /\ bus \in [Conns -> Seq(Outbound)]
         /\ Conns \subseteq Tasks /\ Apis \subseteq Tasks
BY RoomTypes DEF ServerTypes, NetTypes, Tasks

\* A step that stores nothing, publishes nothing and keeps the tasks that journal or publish.
LEMMA StoredKept ==
  ASSUME StoredInv, RoomInv', UNCHANGED store,
         \A t \in Tasks : task'[t].at \in {"journal", "publish"} => task'[t] = task[t],
         \A t \in Tasks : task[t].at \in {"journal", "publish"} => task'[t] = task[t],
         \A k \in Conns : OpsIn(bus'[k]) \subseteq OpsIn(bus[k]),
         map' = None \/ (map' = map /\ docs'[map] \subseteq docs[map])
           \/ (map' # None /\ docs'[map'] \subseteq Stored)
  PROVE  StoredInv'
<1>1. Stored' = Stored
  BY DEF store, Stored
<1>2. \A t \in Tasks : Published(t)'
  BY <1>1 DEF StoredInv, Published
<1>3. PublishedIsStored'
  BY <1>1 DEF StoredInv, PublishedIsStored
<1>4. \A op : Journaling(op) => Journaling(op)'
  BY DEF Journaling
<1>5. RoomIsStored'
  BY <1>1, <1>4 DEF StoredInv, RoomIsStored
<1> QED BY <1>2, <1>3, <1>5 DEF StoredInv

LEMMA ClientStored ==
  ASSUME StoredInv, RoomInv',
         \/ \E c \in Clients : Connect(c) \/ ClientReceive(c) \/ Drop(c)
         \/ \E c \in Clients, op \in Ops : ClientEdit(c, op)
  PROVE  StoredInv'
<1>1. UNCHANGED <<store, rooms, task, bus>>
  BY DEF Connect, ClientReceive, Drop, ClientEdit
<1> QED BY <1>1, StoredKept DEF rooms

\* A receiver that is read, or goes with its connection.
LEMMA ReceiverStored ==
  ASSUME StoredInv, RoomInv', NEW k \in Conns, Forward(k) \/ Lagged(k) \/ Close(k)
  PROVE  StoredInv'
<1>1. bus \in [Conns -> Seq(Outbound)] /\ UNCHANGED <<store, rooms, task>>
  BY StepTypes DEF StoredInv, Forward, Lagged, Close, End
<1>2. \A x \in Conns : OpsIn(bus'[x]) \subseteq OpsIn(bus[x])
  <2>1. CASE Forward(k)
    <3>1. OpsIn(Tail(bus[k])) \subseteq OpsIn(bus[k])
      BY <1>1, <2>1, OpsInTail DEF Forward
    <3> QED BY <1>1, <2>1, <3>1 DEF Forward
  <2>2. CASE End(k)
    BY <1>1, <2>2, OpsInEmpty DEF End
  <2> QED BY <2>1, <2>2 DEF Lagged, Close
<1> QED BY <1>1, <1>2, StoredKept DEF rooms

LEMMA ReceiveStored ==
  ASSUME StoredInv, RoomInv', NEW k \in Conns, Receive(k)
  PROVE  StoredInv'
<1>1. PICK r \in RoomIds :
        GetRoom(r) /\ \E at \in {"answer", "apply"} : \E ops :
          task' = [task EXCEPT ![k] = [at |-> at, room |-> r, ops |-> ops]]
  BY DEF Receive
<1>2. /\ map' = r /\ r # None
      /\ map # None => map' = map /\ docs' = docs
      /\ map = None => docs'[r] = Stored
  BY <1>1, RoomFound DEF StoredInv
<1>3. \A t \in Tasks : task'[t] = task[t] \/ (task[t].at = "idle" /\ task'[t].at \in {"answer", "apply"})
  BY <1>1, StepTypes DEF StoredInv, Receive
<1>4. (map' = map /\ docs'[map] \subseteq docs[map]) \/ (map' # None /\ docs'[map'] \subseteq Stored)
  BY <1>2
<1>5. \A x \in Conns : OpsIn(bus'[x]) \subseteq OpsIn(bus[x])
  BY DEF Receive
<1>6. UNCHANGED store
  BY DEF Receive
<1> QED BY <1>3, <1>4, <1>5, <1>6, StoredKept

LEMMA AnswerStored ==
  ASSUME StoredInv, RoomInv', NEW k \in Conns, Answer(k)
  PROVE  StoredInv'
<1>1. \A t \in Tasks : task'[t] = task[t] \/ (task[t].at = "answer" /\ task'[t].at \in {"idle", "done"})
  BY StepTypes, Finishes DEF StoredInv, Answer
<1> QED BY <1>1, StoredKept DEF Answer, rooms

LEMMA ApplyStored ==
  ASSUME StoredInv, RoomInv', NEW t \in Tasks, Apply(t)
  PROVE  StoredInv'
<1>1. /\ task[t].room = map /\ map \in RoomIds /\ task \in [Tasks -> Task]
      /\ docs \in [RoomIds -> SUBSET Ops]
  BY StepTypes DEF StoredInv, Apply, Working, Task
<1>2. docs'[map] = docs[map] \cup task[t].ops /\ map' = map
  BY <1>1 DEF Apply
<1>3. CASE Finish(t) /\ task[t].ops \subseteq docs[map]
  <2>1. \A x \in Tasks : task'[x] = task[x] \/ (task[x].at = "apply" /\ task'[x].at \in {"idle", "done"})
    BY <1>3, Finishes DEF StoredInv, Apply
  <2> QED BY <1>2, <1>3, <2>1, StoredKept DEF Apply, net
<1>4. CASE task' = [task EXCEPT ![t].at = "journal"]
  <2>1. Stored' = Stored /\ bus' = bus
    BY DEF Apply, store, net, Stored
  <2>2. task'[t].at = "journal" /\ task'[t].ops = task[t].ops /\ \A x \in Tasks \ {t} : task'[x] = task[x]
    BY <1>1, <1>4 DEF Task
  <2>3. \A x \in Tasks : Published(x)'
    BY <2>1, <2>2 DEF StoredInv, Published
  <2>4. PublishedIsStored'
    BY <2>1 DEF StoredInv, PublishedIsStored
  <2>5. \A op : Journaling(op) \/ op \in task[t].ops => Journaling(op)'
    BY <2>2 DEF Journaling, Apply
  <2>6. RoomIsStored'
    BY <1>2, <2>1, <2>5 DEF StoredInv, RoomIsStored
  <2> QED BY <2>3, <2>4, <2>6 DEF StoredInv
<1> QED BY <1>1, <1>3, <1>4 DEF Apply

LEMMA JournalStored ==
  ASSUME StoredInv, RoomInv', NEW t \in Tasks, JournalUpdate(t)
  PROVE  StoredInv'
<1>1. Stored \subseteq Stored' /\ task[t].ops \subseteq Stored' /\ UNCHANGED <<rooms, bus>>
  BY JournalInv DEF StoredInv, JournalUpdate, net
<1>2. /\ task'[t].at = "publish" /\ task'[t].ops = task[t].ops
      /\ \A x \in Tasks \ {t} : task'[x] = task[x]
  BY StepTypes DEF StoredInv, JournalUpdate, Task
<1>3. \A x \in Tasks : Published(x)'
  BY <1>1, <1>2 DEF StoredInv, Published
<1>4. PublishedIsStored'
  BY <1>1 DEF StoredInv, PublishedIsStored
<1>5. \A op : Journaling(op) => Journaling(op)' \/ op \in task[t].ops
  BY <1>2 DEF Journaling
<1>6. RoomIsStored'
  BY <1>1, <1>5 DEF StoredInv, RoomIsStored, rooms
<1> QED BY <1>3, <1>4, <1>6 DEF StoredInv

LEMMA PublishStored ==
  ASSUME StoredInv, RoomInv', NEW t \in Tasks, Publish(t)
  PROVE  StoredInv'
<1> DEFINE e == [from |-> t, ops |-> task[t].ops]
<1>1. /\ Stored' = Stored /\ UNCHANGED rooms /\ task[t].at = "publish"
      /\ e \in Outbound /\ e.ops \subseteq Stored /\ bus \in [Conns -> Seq(Outbound)]
  BY StepTypes, FrameTypes DEF StoredInv, Publish, Published, store, Stored, Task
<1>2. \A x \in Tasks \ {t} : task'[x] = task[x]
  BY Finishes DEF StoredInv, Publish
<1>3. task'[t].at \in {"idle", "done"}
  BY Finishes DEF StoredInv, Publish
<1>4. \A x \in Tasks : Published(x)'
  BY <1>1, <1>2, <1>3 DEF StoredInv, Published
<1>5. PublishedIsStored'
  <2> SUFFICES ASSUME NEW k \in Conns PROVE OpsIn(bus'[k]) \subseteq Stored
    BY <1>1 DEF PublishedIsStored
  <2>1. OpsIn(Append(bus[k], e)) = OpsIn(bus[k]) \cup e.ops
    BY <1>1, OpsInAppendFrame
  <2>2. bus'[k] \in {bus[k], Append(bus[k], e)}
    BY DEF Publish
  <2> QED BY <1>1, <2>1, <2>2 DEF StoredInv, PublishedIsStored
<1>6. \A op : Journaling(op) => Journaling(op)'
  BY <1>1, <1>2 DEF Journaling
<1>7. RoomIsStored'
  BY <1>1, <1>6 DEF StoredInv, RoomIsStored, rooms
<1> QED BY <1>4, <1>5, <1>7 DEF StoredInv

LEMMA ApiStartStored ==
  ASSUME StoredInv, RoomInv', NEW a \in Apis, NEW op \in Ops, ApiStart(a, op)
  PROVE  StoredInv'
<1>1. PICK r \in RoomIds :
        GetRoom(r) /\ task' = [task EXCEPT ![a] = [at |-> "apply", room |-> r, ops |-> {op}]]
  BY DEF ApiStart
<1>2. /\ map' = r /\ r # None
      /\ map # None => map' = map /\ docs' = docs
      /\ map = None => docs'[r] = Stored
  BY <1>1, RoomFound DEF StoredInv
<1>3. \A t \in Tasks : task'[t] = task[t] \/ (task[t].at = "idle" /\ task'[t].at = "apply")
  BY <1>1, StepTypes DEF StoredInv, ApiStart
<1>4. (map' = map /\ docs'[map] \subseteq docs[map]) \/ (map' # None /\ docs'[map'] \subseteq Stored)
  BY <1>2
<1>5. \A x \in Conns : OpsIn(bus'[x]) \subseteq OpsIn(bus[x])
  BY DEF ApiStart, net
<1>6. UNCHANGED store
  BY DEF ApiStart
<1> QED BY <1>3, <1>4, <1>5, <1>6, StoredKept

LEMMA EvictStored ==
  ASSUME StoredInv, RoomInv', Evict
  PROVE  StoredInv'
BY StoredKept DEF Evict, net

LEMMA CrashStored ==
  ASSUME StoredInv, RoomInv', Crash
  PROVE  StoredInv'
<1>1. Stored' = Stored /\ map' = None
  BY DEF Crash, store, Stored
<1>2. \A t \in Tasks : Published(t)'
  BY DEF Crash, Published, IdleTask
<1>3. PublishedIsStored'
  BY OpsInEmpty DEF Crash, PublishedIsStored
<1> QED BY <1>1, <1>2, <1>3 DEF StoredInv, RoomIsStored

LEMMA InitStored == Init => StoredInv
<1> SUFFICES ASSUME Init PROVE StoredInv
  OBVIOUS
<1>1. RoomInv /\ OpsIn(<<>>) = {}
  BY InitInv, OpsInEmpty
<1> QED BY <1>1 DEF Init, StoredInv, Published, IdleTask, PublishedIsStored, RoomIsStored

LEMMA NextStored ==
  ASSUME StoreWorks, StoredInv, [Next]_vars
  PROVE  StoredInv'
<1>0. RoomInv'
  BY NextInv DEF StoredInv
<1>1. CASE \/ \E c \in Clients : Connect(c) \/ ClientReceive(c) \/ Drop(c)
           \/ \E c \in Clients, op \in Ops : ClientEdit(c, op)
  BY <1>0, <1>1, ClientStored
<1>2. CASE \E k \in Conns : \/ Receive(k) \/ Answer(k) \/ Forward(k)
                            \/ Lagged(k) \/ Close(k)
  BY <1>0, <1>2, ReceiveStored, AnswerStored, ReceiverStored
<1>3. CASE \E t \in Tasks : TaskStep(t)
  BY <1>0, <1>3, ApplyStored, JournalStored, PublishStored DEF TaskStep, JournalFails, StoreWorks
<1>4. CASE \E a \in Apis : ApiStop(a) \/ \E op \in Ops : ApiStart(a, op)
  BY <1>0, <1>4, ApiStartStored DEF ApiStop, StoreWorks
<1>5. CASE Evict \/ Crash
  BY <1>0, <1>5, EvictStored, CrashStored
<1>6. CASE UNCHANGED vars
  BY <1>0, <1>6, StoredKept DEF vars, net, rooms
<1> QED BY <1>1, <1>2, <1>3, <1>4, <1>5, <1>6 DEF Next, ConnStep, Tasks

LEMMA StoredHolds == ASSUME StoreWorks PROVE Spec => []StoredInv
<1>1. Init => StoredInv
  BY InitStored
<1>2. StoredInv /\ [Next]_vars => StoredInv'
  BY NextStored
<1> QED BY <1>1, <1>2, PTL DEF Spec

\* "An update is in the store before it is fanned out" (`evict_idle_rooms`): whatever is on any
\* connection's receiver, a crash cannot take back.
THEOREM PublishedCorrect == ASSUME StoreWorks PROVE Spec => []PublishedIsStored
<1>1. StoredInv => PublishedIsStored
  BY DEF StoredInv
<1> QED BY <1>1, StoredHolds, PTL

\* "Safe at any time: a dropped room loads again exactly as it was" (`evict_idle_rooms`).
THEOREM EvictionCorrect == ASSUME StoreWorks PROVE Spec => []EvictionIsSafe
<1>1. ASSUME StoredInv PROVE EvictionIsSafe
  <2> SUFFICES ASSUME map # None, map \notin Held PROVE docs[map] = Stored
    BY DEF EvictionIsSafe
  <2>1. \A t \in Tasks : task[t].at # "journal"
    BY <1>1, StepTypes DEF StoredInv, Working, Held
  <2>2. docs[map] \subseteq Stored
    BY <1>1, <2>1, StepTypes DEF StoredInv, RoomIsStored, Journaling
  <2> QED BY <1>1, <2>2 DEF StoredInv, RoomInv
<1> QED BY <1>1, StoredHolds, PTL
-----------------------------------------------------------------------------
(***************************************************************************)
(* Whose operations are whose: what comes up an open connection, what its  *)
(* task works on, and what comes back to it over the bus, its client has.  *)
(* The first frame of a connection is a SyncStep1.                         *)
(***************************************************************************)
\* What k itself put on a receiver is in m.
OwnIn(q, k, m) == \A i \in 1 .. Len(q) : q[i].from = k => q[i].ops \subseteq m

Unused(k) ==
  socket[k] = "free" =>
    /\ up[k] = <<>> /\ down[k] = <<>> /\ bus[k] = <<>>
    /\ k \notin subscribed
    /\ task[k].at = "idle"

Asks(k) == up[k] # <<>> /\ Head(up[k]).kind = "step1" /\ task[k].at = "idle"

Own(k) ==
  socket[k] = "open" =>
    /\ k \notin subscribed => Asks(k)
    /\ OpsIn(up[k]) \subseteq replica[Client(k)]
    /\ task[k].ops \subseteq replica[Client(k)]
    /\ OwnIn(bus[k], k, replica[Client(k)])

HoldsNothing(t) == task[t].at = "idle" => task[t].ops = {}
UsesOwn(c) == conn[c] # None => Client(conn[c]) = c /\ socket[conn[c]] = "open"

OwnInv ==
  /\ \A k \in Conns : Unused(k) /\ Own(k)
  /\ \A t \in Tasks : HoldsNothing(t)
  /\ \A c \in Clients : UsesOwn(c)

LEMMA OwnInAppend ==
  \A q \in Seq(Outbound), e \in Outbound : \A k, m :
    OwnIn(q, k, m) /\ (e.from = k => e.ops \subseteq m) => OwnIn(Append(q, e), k, m)
BY DEF OwnIn

LEMMA OwnInTail ==
  \A q \in Seq(Outbound) : \A k, m :
    q # <<>> /\ OwnIn(q, k, m)
      => OwnIn(Tail(q), k, m) /\ (Head(q).from = k => Head(q).ops \subseteq m)
BY DEF OwnIn

LEMMA OwnInMore ==
  ASSUME NEW q, NEW k, NEW m, NEW n, OwnIn(q, k, m), m \subseteq n
  PROVE  OwnIn(q, k, n)
BY DEF OwnIn

LEMMA OwnInEmpty == \A k, m : OwnIn(<<>>, k, m)
BY DEF OwnIn

\* The first of a queue stays the first when more is put in.
LEMMA HeadStays ==
  ASSUME NEW S, NEW q \in Seq(S), NEW e \in S, q # <<>>
  PROVE  Append(q, e) # <<>> /\ Head(Append(q, e)) = Head(q)
OBVIOUS

\* A connection none of whose own is touched, while its client may gain operations.
LEMMA OwnKept ==
  ASSUME NEW k \in Conns, Own(k), Unused(k),
         socket'[k] = socket[k] \/ socket'[k] = "closed",
         k \in subscribed' <=> k \in subscribed,
         up'[k] = up[k] \/ socket'[k] = "closed",
         down'[k] = down[k] \/ socket'[k] # "free",
         bus'[k] = bus[k], task'[k] = task[k],
         replica[Client(k)] \subseteq replica'[Client(k)]
  PROVE  Own(k)' /\ Unused(k)'
<1>1. Own(k)'
  <2> SUFFICES ASSUME socket'[k] = "open" PROVE Own(k)'
    BY DEF Own
  <2>1. /\ socket[k] = "open" /\ up'[k] = up[k]
        /\ k \notin subscribed => Asks(k)
        /\ OpsIn(up[k]) \subseteq replica[Client(k)]
        /\ task[k].ops \subseteq replica[Client(k)]
        /\ OwnIn(bus[k], k, replica[Client(k)])
    BY DEF Own
  <2>2. OwnIn(bus[k], k, replica'[Client(k)])
    BY <2>1, OwnInMore
  <2> QED BY <2>1, <2>2 DEF Own, Asks, Client
<1>2. Unused(k)'
  BY DEF Unused
<1> QED BY <1>1, <1>2

LEMMA NetShape ==
  ASSUME RoomInv
  PROVE  /\ socket \in [Conns -> {"free", "open", "closed"}]
         /\ subscribed \subseteq Conns
         /\ up \in [Conns -> Seq(Frame)] /\ down \in [Conns -> Seq(Frame)]
         /\ bus \in [Conns -> Seq(Outbound)]
         /\ replica \in [Clients -> SUBSET Ops]
         /\ conn \in [Clients -> Conns \cup {None}]
         /\ \A k \in Conns : Client(k) \in Clients
         /\ \A c \in Clients, i \in Slots : <<c, i>> \in Conns /\ Client(<<c, i>>) = c
BY RoomTypes DEF NetTypes, Conns, Client

LEMMA ConnectOwn ==
  ASSUME RoomInv, OwnInv, NEW c \in Clients, Connect(c)
  PROVE  OwnInv'
<1>1. PICK i \in Slots :
        /\ socket[<<c, i>>] = "free"
        /\ conn' = [conn EXCEPT ![c] = <<c, i>>]
        /\ socket' = [socket EXCEPT ![<<c, i>>] = "open"]
        /\ up' = [up EXCEPT ![<<c, i>>] = <<Step1(replica[c])>>]
  BY DEF Connect
<1> DEFINE n == <<c, i>>
           f == Step1(replica[c])
<1>2. n \in Conns /\ Client(n) = c /\ n \in Tasks
  BY NetShape DEF Tasks
<1> HIDE DEF n
<1>3. f \in Frame /\ f.kind = "step1" /\ f.ops = replica[c]
  BY NetShape, FrameTypes, FrameOps
<1>4. OpsIn(<<f>>) \subseteq replica[c]
  <2>1. <<>> \in Seq(Frame) /\ Append(<<>>, f) = <<f>>
    BY <1>3
  <2>2. OpsIn(Append(<<>>, f)) = OpsIn(<<>>) \cup f.ops
    BY <1>3, <2>1, OpsInAppendFrame
  <2> QED BY <1>3, <2>1, <2>2, OpsInEmpty
<1>5. UNCHANGED <<task, replica, bus, subscribed, down>>
  BY DEF Connect
<1>6. Own(n)'
  <2>1. Unused(n) /\ HoldsNothing(n) /\ socket[n] = "free"
    BY <1>1, <1>2 DEF OwnInv, n
  <2>2. task[n].at = "idle" /\ task[n].ops = {} /\ bus[n] = <<>> /\ n \notin subscribed
    BY <2>1 DEF Unused, HoldsNothing
  <2>3. up'[n] = <<f>>
    BY <1>1, <1>2, NetShape DEF n
  <2>4. Asks(n)'
    BY <1>3, <1>5, <2>2, <2>3 DEF Asks
  <2>5. OwnIn(bus[n], n, replica[c])
    BY <2>2, OwnInEmpty
  <2> QED BY <1>2, <1>4, <1>5, <2>2, <2>3, <2>4, <2>5 DEF Own, Client
<1>7. Unused(n)'
  BY <1>1, <1>2, NetShape DEF Unused, n
<1>8. \A k \in Conns \ {n} : Own(k)' /\ Unused(k)'
  <2> TAKE k \in Conns \ {n}
  <2>1. socket'[k] = socket[k] /\ up'[k] = up[k]
    BY <1>1, NetShape DEF n
  <2> QED BY <1>5, <2>1, OwnKept DEF OwnInv
<1>9. \A x \in Clients : UsesOwn(x)'
  <2> TAKE x \in Clients
  <2>1. CASE x = c
    BY <1>1, <1>2, <2>1, NetShape DEF UsesOwn, n, Client
  <2>2. CASE x # c
    BY <1>1, <1>2, <2>2, NetShape DEF UsesOwn, OwnInv, n, Client
  <2> QED BY <2>1, <2>2
<1> QED BY <1>5, <1>6, <1>7, <1>8, <1>9 DEF OwnInv, HoldsNothing

\* A frame put on the way up by a client.
LEMMA SentOwn ==
  ASSUME RoomInv, NEW k \in Conns, Own(k), socket[k] = "open", NEW f \in Frame,
         socket'[k] = "open", k \in subscribed' <=> k \in subscribed,
         up'[k] = Append(up[k], f), f.ops \subseteq replica'[Client(k)],
         bus'[k] = bus[k], task'[k] = task[k],
         replica[Client(k)] \subseteq replica'[Client(k)]
  PROVE  Own(k)' /\ Unused(k)'
<1>1. up[k] \in Seq(Frame)
  BY NetShape
<1>2. OpsIn(up'[k]) = OpsIn(up[k]) \cup f.ops
  BY <1>1, OpsInAppendFrame
<1>3. up[k] # <<>> => up'[k] # <<>> /\ Head(up'[k]) = Head(up[k])
  BY <1>1, HeadStays
<1>4. /\ k \notin subscribed => Asks(k)
      /\ OpsIn(up[k]) \subseteq replica[Client(k)]
      /\ task[k].ops \subseteq replica[Client(k)]
      /\ OwnIn(bus[k], k, replica[Client(k)])
  BY DEF Own
<1>5. OwnIn(bus[k], k, replica'[Client(k)])
  BY <1>4, OwnInMore
<1> QED BY <1>2, <1>3, <1>4, <1>5 DEF Own, Asks, Client, Unused

LEMMA EditOwn ==
  ASSUME RoomInv, OwnInv, NEW c \in Clients, NEW op \in Ops, ClientEdit(c, op)
  PROVE  OwnInv'
<1>1. /\ UNCHANGED <<task, bus, socket, subscribed, down, conn>>
      /\ replica' = [replica EXCEPT ![c] = @ \cup {op}]
  BY DEF ClientEdit
<1>2. \A k \in Conns : replica[Client(k)] \subseteq replica'[Client(k)]
  BY <1>1, NetShape
<1>3. ASSUME NEW k \in Conns PROVE Own(k)' /\ Unused(k)'
  <2>1. CASE conn[c] = k
    <3>1. conn[c] # None /\ Client(k) = c /\ socket[k] = "open"
      BY <2>1, NamesAssumption DEF OwnInv, UsesOwn
    <3>2. Update({op}) \in Frame /\ Update({op}).ops \subseteq replica'[Client(k)]
      BY <1>1, <3>1, FrameTypes, FrameOps, NetShape
    <3>3. up'[k] = Append(up[k], Update({op}))
      BY <2>1, <3>1, NetShape DEF ClientEdit
    <3> QED BY <1>1, <1>2, <3>1, <3>2, <3>3, SentOwn DEF OwnInv
  <2>2. CASE conn[c] # k
    <3>1. up'[k] = up[k]
      BY <2>2, NetShape DEF ClientEdit
    <3> QED BY <1>1, <1>2, <3>1, OwnKept DEF OwnInv
  <2> QED BY <2>1, <2>2
<1> QED BY <1>1, <1>3 DEF OwnInv, HoldsNothing, UsesOwn

LEMMA ClientReceiveOwn ==
  ASSUME RoomInv, OwnInv, NEW c \in Clients, ClientReceive(c)
  PROVE  OwnInv'
<1> DEFINE k == conn[c]
           reply == Update(replica[c] \ Head(down[k]).ops)
<1>1. /\ UNCHANGED <<task, bus, socket, subscribed, conn>>
      /\ k \in Conns /\ Client(k) = c /\ socket[k] = "open"
      /\ \A x \in Conns \ {k} : down'[x] = down[x]
  BY NetShape DEF ClientReceive, OwnInv, UsesOwn
<1>2. \A x \in Conns : replica[Client(x)] \subseteq replica'[Client(x)]
  BY NetShape DEF ClientReceive
<1>3. up' = up \/ (up' = [up EXCEPT ![k] = Append(@, reply)])
  BY DEF ClientReceive
<1>4. ASSUME NEW x \in Conns PROVE Own(x)' /\ Unused(x)'
  <2>1. CASE up'[x] = up[x]
    BY <1>1, <1>2, <2>1, OwnKept DEF OwnInv
  <2>2. CASE x = k /\ up'[x] = Append(up[x], reply)
    <3>1. reply \in Frame /\ reply.ops \subseteq replica'[Client(k)]
      BY <1>1, <1>2, FrameTypes, FrameOps, NetShape
    <3> HIDE DEF reply, k
    <3> QED BY <1>1, <1>2, <2>2, <3>1, SentOwn DEF OwnInv
  <2> QED BY <1>1, <1>3, <2>1, <2>2, NetShape
<1> QED BY <1>1, <1>4 DEF OwnInv, HoldsNothing, UsesOwn

LEMMA DropOwn ==
  ASSUME RoomInv, OwnInv, NEW c \in Clients, Drop(c)
  PROVE  OwnInv'
<1> DEFINE k == conn[c]
<1>1. /\ UNCHANGED <<task, bus, subscribed, replica>>
      /\ k \in Conns /\ Client(k) = c /\ socket'[k] = "closed"
      /\ \A x \in Conns \ {k} : down'[x] = down[x] /\ up'[x] = up[x] /\ socket'[x] = socket[x]
  BY NetShape DEF Drop, OwnInv, UsesOwn
<1>2. \A x \in Conns : Own(x)' /\ Unused(x)'
  BY <1>1, OwnKept DEF OwnInv
<1>3. \A x \in Clients : UsesOwn(x)'
  <2> TAKE x \in Clients
  <2>1. CASE x = c
    BY <2>1, NetShape DEF Drop, UsesOwn
  <2>2. CASE x # c
    BY <1>1, <2>2, NetShape DEF Drop, OwnInv, UsesOwn, Client
  <2> QED BY <2>1, <2>2
<1> QED BY <1>1, <1>2, <1>3 DEF OwnInv, HoldsNothing

LEMMA ReceiveOwn ==
  ASSUME RoomInv, OwnInv, NEW k \in Conns, Receive(k)
  PROVE  OwnInv'
<1>1. /\ UNCHANGED <<bus, replica, down, conn, socket>>
      /\ subscribed' = subscribed \cup {k}
      /\ up[k] \in Seq(Frame) /\ up[k] # <<>> /\ up'[k] = Tail(up[k])
      /\ \A x \in Conns \ {k} : up'[x] = up[x]
  BY NetShape DEF Receive
<1>2. /\ task'[k].at \in {"answer", "apply"} /\ task'[k].ops = Head(up[k]).ops
      /\ \A x \in Tasks \ {k} : task'[x] = task[x]
  BY StepTypes DEF Receive
<1>3. Head(up[k]).ops \subseteq OpsIn(up[k]) /\ OpsIn(Tail(up[k])) \subseteq OpsIn(up[k])
  BY <1>1, OpsInTail
<1>4. Own(k)' /\ Unused(k)'
  BY <1>1, <1>2, <1>3 DEF OwnInv, Own, Unused, Client
<1>5. \A x \in Conns \ {k} : Own(x)' /\ Unused(x)'
  BY <1>1, <1>2, StepTypes, OwnKept DEF OwnInv
<1>6. \A x \in Tasks : HoldsNothing(x)'
  BY <1>2 DEF OwnInv, HoldsNothing
<1> QED BY <1>1, <1>4, <1>5, <1>6 DEF OwnInv, UsesOwn

\* A task at work that goes on: a connection's works for one in use.
LEMMA TaskOwn ==
  ASSUME RoomInv, OwnInv, NEW t \in Tasks, task[t].at \notin {"idle", "done"},
         UNCHANGED <<socket, subscribed, up, replica, conn>>,
         \A x \in Tasks \ {t} : task'[x] = task[x],
         task'[t].ops \in {{}, task[t].ops},
         task'[t].at = "idle" => task'[t].ops = {},
         \A k \in Conns : socket[k] = "free" => down'[k] = down[k] /\ bus'[k] = bus[k],
         \A k \in Conns : socket[k] = "open" => OwnIn(bus'[k], k, replica[Client(k)])
  PROVE  OwnInv'
<1>1. ASSUME NEW k \in Conns PROVE Own(k)' /\ Unused(k)'
  <2>1. Own(k) /\ Unused(k) /\ k \in Tasks
    BY StepTypes DEF OwnInv
  <2>2. Unused(k)'
    BY <2>1 DEF Unused
  <2>3. Own(k)'
    <3> SUFFICES ASSUME socket[k] = "open" PROVE Own(k)'
      BY DEF Own
    <3>1. k \notin subscribed => Asks(k)'
      BY <2>1 DEF Own, Asks
    <3>2. task'[k].ops \subseteq replica[Client(k)]
      BY <2>1 DEF Own
    <3> QED BY <2>1, <3>1, <3>2 DEF Own, Client
  <2> QED BY <2>2, <2>3
<1>2. \A x \in Tasks : HoldsNothing(x)'
  BY DEF OwnInv, HoldsNothing
<1> QED BY <1>1, <1>2 DEF OwnInv, UsesOwn

LEMMA WorkOwn ==
  ASSUME RoomInv, OwnInv, NEW t \in Tasks,
         Apply(t) \/ JournalUpdate(t) \/ (t \in Conns /\ Answer(t))
  PROVE  OwnInv'
<1>1. UNCHANGED <<socket, subscribed, up, replica, conn, bus>>
  BY DEF Apply, JournalUpdate, Answer, net
<1>2. \/ Finish(t)
      \/ \E at \in {"journal", "publish"} : task' = [task EXCEPT ![t].at = at]
  BY DEF Apply, JournalUpdate, Answer
<1>3. /\ \A x \in Tasks \ {t} : task'[x] = task[x]
      /\ task'[t].ops \in {{}, task[t].ops}
      /\ task'[t].at = "idle" => task'[t].ops = {}
  BY <1>2, StepTypes, Finishes DEF Task
<1>4. task[t].at \notin {"idle", "done"}
  BY DEF Apply, JournalUpdate, Answer
<1>5. \A k \in Conns : socket[k] = "free" => down'[k] = down[k]
  <2> TAKE k \in Conns
  <2>1. CASE Apply(t) \/ JournalUpdate(t)
    BY <2>1 DEF Apply, JournalUpdate, net
  <2>2. CASE Answer(t) /\ k # t
    BY <2>2, NetShape DEF Answer
  <2>3. CASE Answer(t) /\ k = t
    BY <2>3, <1>4 DEF OwnInv, Unused
  <2> QED BY <2>1, <2>2, <2>3
<1>6. \A k \in Conns : socket[k] = "open" => OwnIn(bus[k], k, replica[Client(k)])
  BY DEF OwnInv, Own
<1> QED BY <1>1, <1>3, <1>4, <1>5, <1>6, TaskOwn

LEMMA PublishOwn ==
  ASSUME RoomInv, OwnInv, NEW t \in Tasks, Publish(t)
  PROVE  OwnInv'
<1> DEFINE e == [from |-> t, ops |-> task[t].ops]
<1>1. UNCHANGED <<socket, subscribed, up, down, replica, conn>> /\ task[t].at = "publish"
  BY DEF Publish
<1>2. /\ \A x \in Tasks \ {t} : task'[x] = task[x]
      /\ task'[t].ops = {}
  BY Finishes DEF Publish
<1>3. e \in Outbound /\ e.from = t /\ e.ops = task[t].ops
  BY StepTypes, FrameTypes DEF Task
<1>4. \A k \in Conns : bus'[k] = IF socket[k] = "open" THEN Append(bus[k], e) ELSE bus[k]
  BY DEF Publish, Open
<1>5. ASSUME NEW k \in Conns, socket[k] = "open" PROVE OwnIn(bus'[k], k, replica[Client(k)])
  <2>1. OwnIn(bus[k], k, replica[Client(k)]) /\ task[k].ops \subseteq replica[Client(k)]
    BY <1>5 DEF OwnInv, Own
  <2>2. e.from = k => e.ops \subseteq replica[Client(k)]
    BY <1>3, <2>1
  <2>3. bus[k] \in Seq(Outbound)
    BY NetShape
  <2> HIDE DEF e
  <2>4. OwnIn(Append(bus[k], e), k, replica[Client(k)])
    BY <1>3, <2>1, <2>2, <2>3, OwnInAppend
  <2> QED BY <1>4, <1>5, <2>4
<1>6. \A k \in Conns : socket[k] = "free" => down'[k] = down[k] /\ bus'[k] = bus[k]
  BY <1>1, <1>4
<1> QED BY <1>1, <1>2, <1>5, <1>6, TaskOwn

LEMMA ForwardOwn ==
  ASSUME RoomInv, OwnInv, NEW k \in Conns, Forward(k)
  PROVE  OwnInv'
<1>1. /\ UNCHANGED <<socket, subscribed, up, replica, conn, task>> /\ socket[k] = "open"
      /\ bus[k] \in Seq(Outbound) /\ bus[k] # <<>> /\ bus'[k] = Tail(bus[k])
      /\ \A x \in Conns \ {k} : bus'[x] = bus[x] /\ down'[x] = down[x]
  BY NetShape DEF Forward, Open
<1>2. OwnIn(bus'[k], k, replica[Client(k)])
  BY <1>1, OwnInTail DEF OwnInv, Own
<1>3. Own(k)' /\ Unused(k)'
  BY <1>1, <1>2 DEF OwnInv, Own, Asks, Unused, Client
<1>4. \A x \in Conns \ {k} : Own(x)' /\ Unused(x)'
  BY <1>1, OwnKept DEF OwnInv
<1> QED BY <1>1, <1>3, <1>4 DEF OwnInv, HoldsNothing, UsesOwn

LEMMA EndOwn ==
  ASSUME RoomInv, OwnInv, NEW k \in Conns, Lagged(k) \/ Close(k)
  PROVE  OwnInv'
<1>1. End(k) /\ task[k].at = "idle"
  BY DEF Lagged, Close
<1>2. /\ UNCHANGED <<replica, task>>
      /\ socket'[k] = "free" /\ up'[k] = <<>> /\ down'[k] = <<>> /\ bus'[k] = <<>>
      /\ subscribed' = subscribed \ {k}
      /\ \A x \in Conns \ {k} : /\ up'[x] = up[x] /\ bus'[x] = bus[x] /\ down'[x] = down[x]
                                /\ socket'[x] = socket[x]
  BY <1>1, NetShape DEF End
<1>3. Own(k)' /\ Unused(k)'
  BY <1>1, <1>2 DEF Own, Unused
<1>4. \A x \in Conns \ {k} : Own(x)' /\ Unused(x)'
  BY <1>2, OwnKept DEF OwnInv
<1>5. ASSUME NEW c \in Clients PROVE UsesOwn(c)'
  <2>1. CASE conn[c] = k
    <3>1. Client(k) = c
      BY <2>1, NamesAssumption DEF OwnInv, UsesOwn
    <3> QED BY <1>1, <2>1, <3>1, NetShape DEF End, UsesOwn
  <2>2. CASE conn[c] # k
    <3>1. conn'[c] = conn[c]
      BY <1>1, <2>2, NetShape DEF End
    <3> QED BY <1>2, <2>2, <3>1, NetShape DEF OwnInv, UsesOwn, Client
  <2> QED BY <2>1, <2>2
<1> QED BY <1>2, <1>3, <1>4, <1>5 DEF OwnInv, HoldsNothing

\* What leaves connections and clients alone.
LEMMA OtherOwn ==
  ASSUME RoomInv, OwnInv, Evict \/ \E a \in Apis, op \in Ops : ApiStart(a, op)
  PROVE  OwnInv'
<1>1. UNCHANGED <<net, replica>>
  BY DEF Evict, ApiStart
<1>2. /\ \A x \in Conns : task'[x] = task[x]
      /\ \A x \in Tasks : task'[x] = task[x] \/ task'[x].at = "apply"
  BY StepTypes, NamesAssumption DEF Evict, ApiStart
<1>3. \A x \in Conns : Own(x)' /\ Unused(x)'
  BY <1>1, <1>2, OwnKept DEF OwnInv, net
<1> QED BY <1>1, <1>2, <1>3 DEF OwnInv, HoldsNothing, UsesOwn, net

LEMMA CrashOwn ==
  ASSUME RoomInv, OwnInv, Crash
  PROVE  OwnInv'
<1>1. \A k \in Conns : Own(k)' /\ Unused(k)'
  BY StepTypes, NamesAssumption DEF Crash, Own, Unused, IdleTask
<1>2. \A t \in Tasks : HoldsNothing(t)'
  BY DEF Crash, HoldsNothing, IdleTask
<1>3. \A c \in Clients : UsesOwn(c)'
  BY DEF Crash, UsesOwn
<1> QED BY <1>1, <1>2, <1>3 DEF OwnInv

LEMMA InitOwn == Init => OwnInv
<1> SUFFICES ASSUME Init PROVE OwnInv
  OBVIOUS
<1>1. \A k \in Conns : Own(k) /\ Unused(k)
  BY StepTypes, InitInv DEF Init, Own, Unused, IdleTask
<1> QED BY <1>1 DEF Init, OwnInv, HoldsNothing, UsesOwn, IdleTask

LEMMA NextOwn ==
  ASSUME StoreWorks, RoomInv, OwnInv, [Next]_vars
  PROVE  OwnInv'
<1>1. CASE \/ \E c \in Clients : Connect(c) \/ ClientReceive(c) \/ Drop(c)
           \/ \E c \in Clients, op \in Ops : ClientEdit(c, op)
  BY <1>1, ConnectOwn, EditOwn, ClientReceiveOwn, DropOwn
<1>2. CASE \E k \in Conns : \/ Receive(k) \/ Answer(k) \/ Forward(k)
                            \/ Lagged(k) \/ Close(k)
  BY <1>2, ReceiveOwn, WorkOwn, ForwardOwn, EndOwn DEF Tasks
<1>3. CASE \E t \in Tasks : TaskStep(t)
  BY <1>3, WorkOwn, PublishOwn DEF TaskStep, JournalFails, StoreWorks
<1>4. CASE \E a \in Apis : ApiStop(a) \/ \E op \in Ops : ApiStart(a, op)
  BY <1>4, OtherOwn DEF ApiStop, StoreWorks
<1>5. CASE Evict \/ Crash
  BY <1>5, OtherOwn, CrashOwn
<1>6. CASE UNCHANGED vars
  BY <1>6 DEF vars, net, OwnInv, Own, Unused, Asks, HoldsNothing, UsesOwn
<1> QED BY <1>1, <1>2, <1>3, <1>4, <1>5, <1>6 DEF Next, ConnStep, Tasks
-----------------------------------------------------------------------------
(***************************************************************************)
(* Nothing is missed.                                                      *)
(***************************************************************************)
\* Somebody else is about to publish op.
InHand(k, op) == \E t \in Tasks \ {k} : task[t].at \in {"journal", "publish"} /\ op \in task[t].ops

Reaches(k, op) ==
  \/ op \in replica[Client(k)]
  \/ op \in InFrames(down[k])
  \/ op \in OpsIn(bus[k])
  \/ InHand(k, op)

InTouch(k) == socket[k] = "open" /\ Answered(k)
MissesNothing(k) == InTouch(k) => \A op \in Content : Reaches(k, op)

DeliveryInv ==
  /\ StoredInv
  /\ OwnInv
  /\ \A k \in Conns : MissesNothing(k)

\* A step that does not bring the server anything, and after which k has in reach what it had.
LEMMA StillReached ==
  ASSUME NEW k \in Conns, MissesNothing(k), InTouch(k)' => InTouch(k), Content' \subseteq Content,
         \A op : Reaches(k, op) => Reaches(k, op)'
  PROVE  MissesNothing(k)'
BY DEF MissesNothing

\* In particular one that leaves the queues and only takes tasks to and from where they carry nothing.
LEMMA ReachKept ==
  ASSUME RoomInv, NEW k \in Conns, MissesNothing(k), InTouch(k)' => InTouch(k),
         Content' \subseteq Content,
         replica[Client(k)] \subseteq replica'[Client(k)], down'[k] = down[k], bus'[k] = bus[k],
         \A t \in Tasks \ {k} : task[t].at \in {"journal", "publish"} =>
                                  task'[t].at \in {"journal", "publish"} /\ task'[t].ops = task[t].ops
  PROVE  MissesNothing(k)'
<1>1. \A op : InHand(k, op) => InHand(k, op)'
  BY DEF InHand
<1>2. \A op : Reaches(k, op) => Reaches(k, op)'
  BY <1>1 DEF Reaches, Client
<1> QED BY <1>2, StillReached

LEMMA SameContent ==
  ASSUME UNCHANGED <<store, rooms>>
  PROVE  Content' = Content
BY DEF Content, Stored, store, rooms

LEMMA FoundContent ==
  ASSUME RoomInv, NEW r \in RoomIds, GetRoom(r), UNCHANGED store
  PROVE  Content' = Content
BY RoomFound DEF Content, Stored, store

LEMMA ConnectReach ==
  ASSUME DeliveryInv, NEW c \in Clients, Connect(c), NEW k \in Conns
  PROVE  MissesNothing(k)'
<1>0. RoomInv
  BY DEF DeliveryInv, StoredInv
<1>1. UNCHANGED <<store, rooms, task, subscribed, down, bus, replica>>
  BY DEF Connect
<1>2. InTouch(k)' => InTouch(k)
  <2>1. k \in subscribed => socket[k] # "free"
    BY DEF DeliveryInv, OwnInv, Unused
  <2>2. socket'[k] = socket[k] \/ socket[k] = "free"
    BY <1>0, NetShape DEF Connect
  <2> QED BY <1>1, <2>1, <2>2 DEF InTouch, Answered
<1> QED BY <1>0, <1>1, <1>2, SameContent, ReachKept DEF DeliveryInv

LEMMA EditReach ==
  ASSUME DeliveryInv, NEW c \in Clients, NEW op \in Ops, ClientEdit(c, op), NEW k \in Conns
  PROVE  MissesNothing(k)'
<1>0. RoomInv
  BY DEF DeliveryInv, StoredInv
<1>1. UNCHANGED <<store, rooms, task, socket, subscribed, down, bus>>
  BY DEF ClientEdit
<1>2. replica[Client(k)] \subseteq replica'[Client(k)]
  BY <1>0, NetShape DEF ClientEdit
<1>3. InTouch(k)' => InTouch(k)
  BY <1>1 DEF InTouch, Answered
<1> QED BY <1>0, <1>1, <1>2, <1>3, SameContent, ReachKept DEF DeliveryInv

LEMMA ClientReceiveReach ==
  ASSUME DeliveryInv, NEW c \in Clients, ClientReceive(c), NEW k \in Conns
  PROVE  MissesNothing(k)'
<1>0. RoomInv
  BY DEF DeliveryInv, StoredInv
<1>1. UNCHANGED <<store, rooms, task, socket, subscribed, bus>>
  BY DEF ClientReceive
<1>2. replica[Client(k)] \subseteq replica'[Client(k)]
  BY <1>0, NetShape DEF ClientReceive
<1>3. InTouch(k)' => InTouch(k)
  BY <1>1 DEF InTouch, Answered
<1>4. CASE conn[c] # k
  <2>1. down'[k] = down[k]
    BY <1>0, <1>4, NetShape DEF ClientReceive
  <2> QED BY <1>0, <1>1, <1>2, <1>3, <2>1, SameContent, ReachKept DEF DeliveryInv
<1>5. CASE conn[c] = k
  <2>1. down[k] \in Seq(Frame) /\ down[k] # <<>> /\ down'[k] = Tail(down[k]) /\ Client(k) = c
    BY <1>0, <1>5, NetShape, NamesAssumption DEF ClientReceive, DeliveryInv, OwnInv, UsesOwn
  <2>2. InFrames(down[k]) \subseteq InFrames(down'[k]) \cup UpdateIn(Head(down[k]))
    BY <2>1, InFramesTail
  <2>3. UpdateIn(Head(down[k])) \subseteq replica'[c]
    BY <1>0, <1>5, NetShape DEF ClientReceive, UpdateIn
  <2>4. \A op : InHand(k, op) => InHand(k, op)'
    BY <1>1 DEF InHand
  <2>5. \A op : Reaches(k, op) => Reaches(k, op)'
    BY <1>1, <1>2, <2>1, <2>2, <2>3, <2>4 DEF Reaches, Client
  <2> QED BY <1>1, <1>3, <2>5, SameContent, StillReached DEF DeliveryInv
<1> QED BY <1>4, <1>5

LEMMA DropReach ==
  ASSUME DeliveryInv, NEW c \in Clients, Drop(c), NEW k \in Conns
  PROVE  MissesNothing(k)'
<1>0. RoomInv
  BY DEF DeliveryInv, StoredInv
<1>1. UNCHANGED <<store, rooms, task, subscribed, bus, replica>>
  BY DEF Drop
<1>2. CASE conn[c] # k
  <2>1. down'[k] = down[k] /\ socket'[k] = socket[k]
    BY <1>0, <1>2, NetShape DEF Drop
  <2>2. InTouch(k)' => InTouch(k)
    BY <1>1, <2>1 DEF InTouch, Answered
  <2> QED BY <1>0, <1>1, <2>1, <2>2, SameContent, ReachKept DEF DeliveryInv
<1>3. CASE conn[c] = k
  BY <1>0, <1>3, NetShape DEF Drop, MissesNothing, InTouch
<1> QED BY <1>2, <1>3

\* The first frame of a connection is a question, and until it is answered nothing is promised.
LEMMA ReceiveReach ==
  ASSUME DeliveryInv, NEW n \in Conns, Receive(n), NEW k \in Conns
  PROVE  MissesNothing(k)'
<1>0. RoomInv
  BY DEF DeliveryInv, StoredInv
<1>1. PICK r \in RoomIds : GetRoom(r)
  BY DEF Receive
<1>2. /\ UNCHANGED <<store, socket, down, bus, replica>>
      /\ subscribed' = subscribed \cup {n}
      /\ task[n].at = "idle"
      /\ Head(up[n]).kind = "step1" => task'[n].at = "answer"
      /\ \A t \in Tasks \ {n} : task'[t] = task[t]
  BY <1>0, StepTypes DEF Receive
<1>3. InTouch(k)' => InTouch(k)
  <2>1. CASE k # n
    BY <1>0, <1>2, <2>1, StepTypes DEF InTouch, Answered
  <2>2. CASE k = n
    BY <1>2, <2>2 DEF InTouch, Answered, DeliveryInv, OwnInv, Own, Asks
  <2> QED BY <2>1, <2>2
<1> QED BY <1>0, <1>1, <1>2, <1>3, FoundContent, ReachKept DEF DeliveryInv

LEMMA AnswerReach ==
  ASSUME DeliveryInv, NEW n \in Conns, Answer(n), NEW k \in Conns
  PROVE  MissesNothing(k)'
<1> DEFINE d == docs[task[n].room]
           e == Update(d \ task[n].ops)
           f == Step1(d)
<1>0. RoomInv
  BY DEF DeliveryInv, StoredInv
<1>1. /\ UNCHANGED <<store, rooms, socket, subscribed, bus, replica>>
      /\ task[n].at = "answer"
      /\ \A t \in Tasks \ {n} : task'[t] = task[t]
  BY <1>0, StepTypes, Finishes DEF Answer
<1>2. d = Content /\ d \in SUBSET Ops
  BY <1>0, <1>1, StepTypes DEF Working, Content, Task
<1>3. CASE k # n
  <2>1. down'[k] = down[k]
    BY <1>0, <1>3, NetShape DEF Answer
  <2>2. InTouch(k)' => InTouch(k)
    BY <1>0, <1>1, <1>3, StepTypes DEF InTouch, Answered
  <2> QED BY <1>0, <1>1, <2>1, <2>2, SameContent, ReachKept DEF DeliveryInv
<1>4. CASE k = n
  <2> SUFFICES ASSUME socket[k] = "open", NEW op \in Content
               PROVE  Reaches(k, op)'
    BY <1>1, <1>4, SameContent DEF MissesNothing, InTouch
  <2>1. task[k].ops \subseteq replica[Client(k)]
    BY DEF DeliveryInv, OwnInv, Own
  <2>2. down[k] \in Seq(Frame) /\ down'[k] = down[k] \o <<e, f>>
    BY <1>0, <1>4, NetShape DEF Answer, Open
  <2>3. e \in Frame /\ f \in Frame /\ UpdateIn(e) = d \ task[n].ops
    BY <1>2, FrameTypes, FrameOps DEF UpdateIn
  <2>4. d \ task[n].ops \subseteq InFrames(down'[k])
    <3> HIDE DEF e, f, d
    <3>1. Append(down[k], e) \in Seq(Frame)
      BY <2>2, <2>3
    <3>2. InFrames(Append(down[k], e)) = InFrames(down[k]) \cup UpdateIn(e)
      BY <2>2, <2>3, InFramesAppendFrame
    <3>3. InFrames(Append(Append(down[k], e), f)) = InFrames(Append(down[k], e)) \cup UpdateIn(f)
      BY <2>3, <3>1, InFramesAppendFrame
    <3>4. down[k] \o <<e, f>> = Append(Append(down[k], e), f)
      BY <2>2, <2>3, AppendTwo
    <3> QED BY <2>2, <2>3, <3>2, <3>3, <3>4
  <2> QED BY <1>1, <1>2, <1>4, <2>1, <2>4 DEF Reaches, Client
<1> QED BY <1>3, <1>4

LEMMA ApplyReach ==
  ASSUME DeliveryInv, NEW t \in Tasks, Apply(t), NEW k \in Conns
  PROVE  MissesNothing(k)'
<1>0. RoomInv /\ task \in [Tasks -> Task] /\ k \in Tasks
  BY StepTypes DEF DeliveryInv, StoredInv
<1>1. /\ UNCHANGED <<store, map, socket, subscribed, down, bus, replica>>
      /\ task[t].at = "apply" /\ map # None
      /\ docs'[map] = docs[map] \cup task[t].ops
  BY <1>0, StepTypes DEF Apply, net, Working, Task
<1>2. Content = docs[map] /\ Content' = docs[map] \cup task[t].ops
  BY <1>1 DEF Content
<1>3. InTouch(k)' => InTouch(k)
  <2>1. CASE k = t
    BY <1>1, <2>1 DEF InTouch, Answered
  <2>2. CASE k # t
    <3>1. task'[k] = task[k]
      BY <1>0, <2>2, Finishes DEF Apply
    <3> QED BY <1>1, <3>1 DEF InTouch, Answered
  <2> QED BY <2>1, <2>2
<1>4. CASE Finish(t) /\ task[t].ops \subseteq docs[map]
  <2>1. \A x \in Tasks \ {t} : task'[x] = task[x]
    BY <1>0, <1>4, Finishes
  <2> QED BY <1>0, <1>1, <1>2, <1>3, <1>4, <2>1, ReachKept DEF DeliveryInv
<1>5. CASE task' = [task EXCEPT ![t].at = "journal"]
  <2>1. task'[t].at = "journal" /\ task'[t].ops = task[t].ops /\ \A x \in Tasks \ {t} : task'[x] = task[x]
    BY <1>0, <1>5 DEF Task
  <2>2. \A op : InHand(k, op) => InHand(k, op)'
    BY <1>1, <2>1 DEF InHand
  <2>3. \A op : Reaches(k, op) => Reaches(k, op)'
    BY <1>1, <2>2 DEF Reaches, Client
  <2>4. InTouch(k) => \A op \in task[t].ops : Reaches(k, op)'
    <3>1. CASE k = t
      BY <1>1, <3>1 DEF InTouch, DeliveryInv, OwnInv, Own, Reaches, Client
    <3>2. CASE k # t
      BY <2>1, <3>2 DEF InHand, Reaches
    <3> QED BY <3>1, <3>2
  <2> QED BY <1>2, <1>3, <2>3, <2>4 DEF DeliveryInv, MissesNothing
<1>6. task[t].room = map
  BY <1>0, <1>1, StepTypes DEF Working
<1> QED BY <1>4, <1>5, <1>6 DEF Apply

LEMMA JournalReach ==
  ASSUME DeliveryInv, NEW t \in Tasks, JournalUpdate(t), NEW k \in Conns
  PROVE  MissesNothing(k)'
<1>0. RoomInv /\ task \in [Tasks -> Task] /\ k \in Tasks
  BY StepTypes DEF DeliveryInv, StoredInv
<1>1. /\ UNCHANGED <<rooms, socket, subscribed, down, bus, replica>>
      /\ task[t].at = "journal" /\ map # None
  BY <1>0, StepTypes DEF JournalUpdate, net, Working
<1>2. task'[t].at = "publish" /\ task'[t].ops = task[t].ops /\ \A x \in Tasks \ {t} : task'[x] = task[x]
  BY <1>0 DEF JournalUpdate, Task
<1>3. Content' = Content
  BY <1>1 DEF Content, rooms
<1>4. InTouch(k)' => InTouch(k)
  BY <1>0, <1>1, <1>2 DEF InTouch, Answered
<1> QED BY <1>0, <1>1, <1>2, <1>3, <1>4, ReachKept DEF DeliveryInv

LEMMA PublishReach ==
  ASSUME DeliveryInv, NEW t \in Tasks, Publish(t), NEW k \in Conns
  PROVE  MissesNothing(k)'
<1> DEFINE e == [from |-> t, ops |-> task[t].ops]
<1>0. RoomInv /\ k \in Tasks /\ bus[k] \in Seq(Outbound)
  BY StepTypes DEF DeliveryInv, StoredInv
<1>1. /\ UNCHANGED <<store, rooms, socket, subscribed, down, replica>>
      /\ task[t].at = "publish"
      /\ task'[t].at \in {"idle", "done"}
      /\ \A x \in Tasks \ {t} : task'[x] = task[x]
  BY <1>0, Finishes DEF Publish
<1>2. InTouch(k)' => InTouch(k)
  BY <1>0, <1>1 DEF InTouch, Answered
<1>3. InTouch(k) => OpsIn(bus'[k]) = OpsIn(bus[k]) \cup task[t].ops
  <2>1. e \in Outbound /\ e.ops = task[t].ops
    BY <1>0, StepTypes, FrameTypes DEF Task
  <2>2. InTouch(k) => bus'[k] = Append(bus[k], e)
    BY DEF Publish, InTouch, Open
  <2> HIDE DEF e
  <2>3. OpsIn(Append(bus[k], e)) = OpsIn(bus[k]) \cup e.ops
    BY <1>0, <2>1, OpsInAppendFrame
  <2> QED BY <2>1, <2>2, <2>3
<1>4. \A op : InHand(k, op) => InHand(k, op)' \/ op \in task[t].ops
  BY <1>1 DEF InHand
<1>5. InTouch(k) => \A op : Reaches(k, op) => Reaches(k, op)'
  BY <1>1, <1>3, <1>4 DEF Reaches, Client
<1> QED BY <1>1, <1>2, <1>5, SameContent DEF DeliveryInv, MissesNothing

LEMMA ForwardReach ==
  ASSUME DeliveryInv, NEW n \in Conns, Forward(n), NEW k \in Conns
  PROVE  MissesNothing(k)'
<1>0. RoomInv
  BY DEF DeliveryInv, StoredInv
<1>1. UNCHANGED <<store, rooms, task, socket, subscribed, replica>>
  BY DEF Forward
<1>2. InTouch(k)' => InTouch(k)
  BY <1>1 DEF InTouch, Answered
<1>3. CASE k # n
  <2>1. down'[k] = down[k] /\ bus'[k] = bus[k]
    BY <1>0, <1>3, NetShape DEF Forward
  <2> QED BY <1>0, <1>1, <1>2, <2>1, SameContent, ReachKept DEF DeliveryInv
<1>4. CASE k = n
  <2> DEFINE h == Head(bus[k])
  <2>1. /\ bus[k] \in Seq(Outbound) /\ bus[k] # <<>> /\ bus'[k] = Tail(bus[k])
        /\ down[k] \in Seq(Frame) /\ socket[k] = "open"
    BY <1>0, <1>4, NetShape DEF Forward, Open
  <2>2. OpsIn(bus[k]) = h.ops \cup OpsIn(bus'[k])
    BY <2>1, OpsInTail
  <2>3. OwnIn(bus[k], k, replica[Client(k)])
    BY <2>1 DEF DeliveryInv, OwnInv, Own
  <2>4. h.from = k => h.ops \subseteq replica[Client(k)]
    BY <2>1, <2>3, OwnInTail
  <2>5. Update(h.ops) \in Frame /\ UpdateIn(Update(h.ops)) = h.ops
    BY <2>1, HeadType, FrameTypes, FrameOps DEF UpdateIn
  <2>6. InFrames(Append(down[k], Update(h.ops))) = InFrames(down[k]) \cup h.ops
    BY <2>1, <2>5, InFramesAppendFrame
  <2>7. /\ k \in subscribed /\ h.from # k => InFrames(down'[k]) = InFrames(down[k]) \cup h.ops
        /\ ~ (k \in subscribed /\ h.from # k) => down'[k] = down[k]
    BY <1>0, <1>4, <2>6, NetShape DEF Forward
  <2>8. \A op : InHand(k, op) => InHand(k, op)'
    BY <1>1 DEF InHand
  <2> HIDE DEF h
  <2>9. InTouch(k) => \A op : Reaches(k, op) => Reaches(k, op)'
    BY <1>1, <2>2, <2>4, <2>7, <2>8 DEF Reaches, Client, InTouch, Answered
  <2> QED BY <1>1, <1>2, <2>9, SameContent DEF DeliveryInv, MissesNothing
<1> QED BY <1>3, <1>4

LEMMA EndReach ==
  ASSUME DeliveryInv, NEW n \in Conns, Lagged(n) \/ Close(n), NEW k \in Conns
  PROVE  MissesNothing(k)'
<1>0. RoomInv /\ End(n)
  BY DEF DeliveryInv, StoredInv, Lagged, Close
<1>1. UNCHANGED <<store, rooms, task, replica>>
  BY <1>0 DEF End
<1>2. CASE k # n
  <2>1. down'[k] = down[k] /\ bus'[k] = bus[k] /\ socket'[k] = socket[k] /\ subscribed' = subscribed \ {n}
    BY <1>0, <1>2, NetShape DEF End
  <2>2. InTouch(k)' => InTouch(k)
    BY <1>1, <2>1 DEF InTouch, Answered
  <2> QED BY <1>0, <1>1, <2>1, <2>2, SameContent, ReachKept DEF DeliveryInv
<1>3. CASE k = n
  BY <1>0, <1>3, NetShape DEF End, MissesNothing, InTouch
<1> QED BY <1>2, <1>3

LEMMA OtherReach ==
  ASSUME DeliveryInv, Evict \/ Crash \/ \E a \in Apis, op \in Ops : ApiStart(a, op), NEW k \in Conns
  PROVE  MissesNothing(k)'
<1>0. RoomInv
  BY DEF DeliveryInv, StoredInv
<1>1. CASE Evict
  <2>1. Content' \subseteq Content
    BY <1>0, <1>1 DEF Evict, Content, Stored, store, RoomInv
  <2>2. InTouch(k)' => InTouch(k)
    BY <1>1 DEF Evict, net, InTouch, Answered
  <2> QED BY <1>0, <1>1, <2>1, <2>2, ReachKept DEF DeliveryInv, Evict, net
<1>2. CASE Crash
  BY <1>2 DEF Crash, MissesNothing, InTouch
<1>3. ASSUME NEW a \in Apis, NEW op \in Ops, ApiStart(a, op) PROVE MissesNothing(k)'
  <2>1. PICK r \in RoomIds : GetRoom(r)
    BY <1>3 DEF ApiStart
  <2>2. UNCHANGED <<store, net, replica>>
    BY <1>3 DEF ApiStart
  <2>3. \A t \in Tasks : task'[t] = task[t] \/ (task[t].at = "idle" /\ task'[t].at = "apply" /\ t \in Apis)
    BY <1>0, <1>3, StepTypes DEF ApiStart
  <2>4. InTouch(k)' => InTouch(k)
    BY <1>0, <2>2, <2>3, StepTypes DEF net, InTouch, Answered
  <2>5. Content' = Content
    BY <1>0, <2>1, <2>2, FoundContent
  <2> QED BY <1>0, <2>2, <2>3, <2>4, <2>5, ReachKept DEF DeliveryInv, net
<1> QED BY <1>1, <1>2, <1>3

LEMMA InitDelivery == Init => DeliveryInv
BY InitStored, InitOwn DEF Init, DeliveryInv, MissesNothing, InTouch

LEMMA NextDelivery ==
  ASSUME StoreWorks, DeliveryInv, [Next]_vars
  PROVE  DeliveryInv'
<1>1. StoredInv' /\ OwnInv'
  BY NextStored, NextOwn DEF DeliveryInv, StoredInv
<1>2. ASSUME NEW k \in Conns PROVE MissesNothing(k)'
  <2>1. CASE \/ \E c \in Clients : Connect(c) \/ ClientReceive(c) \/ Drop(c)
             \/ \E c \in Clients, op \in Ops : ClientEdit(c, op)
    BY <2>1, ConnectReach, EditReach, ClientReceiveReach, DropReach
  <2>2. CASE \E n \in Conns : \/ Receive(n) \/ Answer(n) \/ Forward(n)
                              \/ Lagged(n) \/ Close(n)
    BY <2>2, ReceiveReach, AnswerReach, ForwardReach, EndReach
  <2>3. CASE \E t \in Tasks : TaskStep(t)
    BY <2>3, ApplyReach, JournalReach, PublishReach DEF TaskStep, JournalFails, StoreWorks
  <2>4. CASE \E a \in Apis : ApiStop(a) \/ \E op \in Ops : ApiStart(a, op)
    BY <2>4, OtherReach DEF ApiStop, StoreWorks
  <2>5. CASE Evict \/ Crash
    BY <2>5, OtherReach
  <2>6. CASE UNCHANGED vars
    <3>1. UNCHANGED <<store, rooms, task, down, bus, replica>> /\ (InTouch(k)' => InTouch(k))
      BY <2>6 DEF vars, net, InTouch, Answered
    <3> QED BY <3>1, SameContent, ReachKept DEF DeliveryInv, StoredInv
  <2> QED BY <2>1, <2>2, <2>3, <2>4, <2>5, <2>6 DEF Next, ConnStep, Tasks
<1> QED BY <1>1, <1>2 DEF DeliveryInv

LEMMA DeliveryHolds == ASSUME StoreWorks PROVE Spec => []DeliveryInv
<1>1. Init => DeliveryInv
  BY InitDelivery
<1>2. DeliveryInv /\ [Next]_vars => DeliveryInv'
  BY NextDelivery
<1> QED BY <1>1, <1>2, PTL DEF Spec

\* A connected client that was answered misses nothing (`handle_frame`): it subscribed before it was
\* answered, what one task found applied another has yet to publish, and its own it has.
THEOREM NothingMissedHolds == ASSUME StoreWorks PROVE Spec => []NothingMissed
<1>1. ASSUME DeliveryInv PROVE NothingMissed
  <2> SUFFICES ASSUME NEW k \in Open, Answered(k), NEW op \in Content
               PROVE  op \in replica[Client(k)] \cup InFrames(down[k]) \cup OpsIn(bus[k]) \cup CarriedFor(k)
    BY DEF NothingMissed
  <2>1. k \in Conns /\ InTouch(k)
    BY DEF Open, InTouch
  <2>2. Reaches(k, op)
    BY <1>1, <2>1 DEF DeliveryInv, MissesNothing
  <2>3. InHand(k, op) => op \in CarriedFor(k)
    BY DEF InHand, CarriedFor
  <2> QED BY <2>2, <2>3 DEF Reaches
<1> QED BY <1>1, DeliveryHolds, PTL
=============================================================================
