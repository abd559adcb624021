-------------------------- MODULE ServerNotesProofs -------------------------
(***************************************************************************)
(* ServerNotes.tla's safety properties, proved for every number of vaults, *)
(* notes, paths and requests handled at the same time.                     *)
(*                                                                         *)
(* A vault's room is the stored document joined with the changes of the    *)
(* requests between applying and journaling: every entry of it is the      *)
(* stored one or a pending one, and none of those is later.  A room nobody *)
(* works in is therefore what is stored, and may be dropped or lost; from  *)
(* that the rows follow the document once the last request has derived,    *)
(* and what create_lock has seen free stays so.                            *)
(***************************************************************************)
EXTENDS ServerNotes, TLAPS

\* The requests that have changed the vault's room and not journaled it.
Pending(v) == {t \in Tasks : task[t].pc = "vault" /\ task[t].v = v}
Touching(v, n) == {t \in Pending(v) : n \in DOMAIN task[t].change}
Entry(t, n) == [path |-> task[t].change[n], at |-> task[t].at]

\* An entry of the room is the latest of the stored one and the pending ones.
CaughtAs(v, n, e) ==
  /\ docs[v][n].at <= e.at
  /\ docs[v][n].at = e.at => docs[v][n] = e
  /\ \A t \in Touching(v, n) : /\ task[t].at <= e.at
                               /\ task[t].at = e.at => Entry(t, n) = e
  /\ e = docs[v][n] \/ \E t \in Touching(v, n) : e = Entry(t, n)
CaughtUp(v, n) == CaughtAs(v, n, room[v][n])

\* Who holds a vault's room has one: the one in the map, or the one an erase has cut out of it.
HoldInv(t) ==
  \A v \in Vaults : Holding(t, v) =>
    IF task[t].old THEN cut[v] # None /\ (Erasing(v) \/ v \in erased) ELSE room[v] # None

\* A vault nobody was in while it was erased.
VaultInv(v) ==
  /\ \A t \in Tasks : task[t].v = v => ~ task[t].old
  /\ Erasing(v) => room[v] = None
  /\ room[v] # None => \A n \in Notes : CaughtUp(v, n)

\* No stamp is of the future.
StampsPast ==
  /\ \A v \in Vaults, n \in Notes :
       docs[v][n].at <= ops /\ (room[v] # None => room[v][n].at <= ops)
  /\ \A t \in Tasks : task[t].pc = "vault" => task[t].at \in 1 .. ops

\* The same of texts, which only grow.
Below(x, y) == x = "empty" \/ y = "whole" \/ (x = "part" /\ y = "part")
Writing(n) == {t \in Tasks : task[t].pc = "note" /\ task[t].n = n}
TextCaughtUp(n) ==
  /\ Below(texts[n], nroom[n])
  /\ \A t \in Writing(n) : Below(Text("empty", task[t].update), nroom[n])
  /\ nroom[n] = texts[n] \/ \E t \in Writing(n) : nroom[n] = Text("empty", task[t].update)

\* Between a purge and the sweep after it, only of the notes somebody holds.
NoteInv(n) ==
  /\ \A t \in Tasks : HoldingNote(t, n) => nroom[n] # None
  /\ n \notin met /\ nroom[n] # None /\ (purging => ~ UnheldNote(n)) => TextCaughtUp(n)

\* What each request under way is about.
TaskInv(t) ==
  /\ task[t].pc = "idle" => task[t] = Idle
  /\ task[t].old => task[t].v # None /\ task[t].pc \in {"note", "place", "vault", "derive"}
  /\ task[t].pc \in {"place", "restore", "vault", "derive", "erase"} => task[t].v \in Vaults
  /\ task[t].pc \in {"text", "note", "place", "restore"} => task[t].n \in Notes
  /\ task[t].pc = "text" => task[t].v = None
  /\ task[t].pc = "place" \/ (task[t].pc = "note" /\ task[t].v # None) =>
       lock = t /\ task[t].api /\ task[t].path \in Paths
  /\ task[t].pc = "restore" =>
       task[t].path \in Paths /\ (HasRow(task[t].n) \/ task[t].n \in gone)

\* An entry nothing has changed is of a note that has, or had, a row.
OldEntries ==
  \A v \in Vaults, n \in Notes :
    \/ HasRow(n) \/ n \in gone
    \/ /\ docs[v][n].at = 0 => docs[v][n].path = None
       /\ room[v] # None /\ room[v][n].at = 0 => room[v][n].path = None

Creating(t) == task[t].v # None /\ task[t].pc \in {"note", "place"}
Creates(t, v, n, p) == Creating(t) /\ task[t].v = v /\ task[t].n = n /\ task[t].path = p
Sound(v) == v \notin erased \cup met

\* A note being created is in nothing of its vault, and its path is still free of created ones.
Unused(v, n) ==
  /\ docs[v][n] = Blank[n] /\ RoomOf(v)[n] = Blank[n]
  /\ Touching(v, n) = {}
  /\ ~ \E t \in Tasks : task[t].pc = "restore" /\ task[t].v = v /\ task[t].n = n
  /\ HasRow(n) => rows[n].vault # v

PathFree(v, n, p) ==
  \A m \in Notes \ {n} : born[m] = <<v, p>> => m \notin Entries(RoomOf(v))

CreateInv(t) ==
  \A v \in Vaults, n \in Notes, p \in Paths :
    Creates(t, v, n, p) /\ Sound(v) => Unused(v, n) /\ PathFree(v, n, p)

\* The entry of a note nothing has touched since it was created is not there, or as created; and
\* what is stored of it is in the room.
BornInv(n) ==
  \A v \in Vaults, p \in Paths : born[n] = <<v, p>> /\ Sound(v) =>
    /\ {docs[v][n].path, RoomOf(v)[n].path} \subseteq {None, p}
    /\ docs[v][n].path = p => RoomOf(v)[n].path = p
    /\ \A t \in Touching(v, n) : task[t].change[n] = p /\ RoomOf(v)[n].path = p

\* The inductive invariant.
NotesInv ==
  /\ TypeOK
  /\ \A t \in Tasks : TaskInv(t)
  /\ \A t \in Tasks : HoldInv(t)
  /\ StampsPast
  /\ \A v \in Vaults \ met : VaultInv(v)
  /\ \A n \in Notes : NoteInv(n)
  /\ OldEntries
  /\ \A t \in Tasks : CreateInv(t)
  /\ \A n \in Notes : BornInv(n)
  /\ OneCreatePerPath
  /\ RowsFollowDoc

-----------------------------------------------------------------------------
(***************************************************************************)
(* Documents, changes and tasks.                                           *)
(***************************************************************************)
DocEntry == [path : Paths \cup {None}, at : Nat]

LEMMA DocIs ==
  ASSUME NEW d \in Docs
  PROVE  /\ d # None
         /\ \A n \in Notes : d[n].path \in Paths \cup {None} /\ d[n].at \in Nat
         /\ \A n \in Notes : d[n] = [path |-> d[n].path, at |-> d[n].at]
<1>1. d # None
  BY NoneAssumption
<1>2. \A n \in Notes : d[n] \in DocEntry
  BY DEF Docs, DocEntry
<1> QED BY <1>1, <1>2 DEF DocEntry

LEMMA BlankDoc == Blank \in Docs
BY DEF Blank, Docs

LEMMA ChangesAre ==
  ASSUME NEW c \in Changes
  PROVE  DOMAIN c \subseteq Notes /\ \A n \in DOMAIN c : c[n] \in Paths \cup {None}
BY DEF Changes

LEMMA OneChange ==
  ASSUME NEW n \in Notes, NEW p \in Paths \cup {None}
  PROVE  [m \in {n} |-> p] \in Changes
<1>1. [m \in {n} |-> p] \in [{n} -> Paths \cup {None}] /\ {n} \in SUBSET Notes
  OBVIOUS
<1> QED BY <1>1 DEF Changes

LEMMA ChangedIs ==
  ASSUME NEW d \in Docs, NEW c \in Changes, NEW at \in Nat
  PROVE  /\ Changed(d, c, at) \in Docs
         /\ \A n \in Notes : Changed(d, c, at)[n] =
              IF n \in DOMAIN c /\ at > d[n].at THEN [path |-> c[n], at |-> at] ELSE d[n]
<1>1. \A n \in Notes : Changed(d, c, at)[n] =
        IF n \in DOMAIN c /\ at > d[n].at THEN [path |-> c[n], at |-> at] ELSE d[n]
  BY DEF Changed
<1>2. \A n \in Notes : d[n] \in DocEntry
  BY DEF Docs, DocEntry
<1>3. ASSUME NEW n \in Notes PROVE Changed(d, c, at)[n] \in DocEntry
  <2>1. d[n] \in DocEntry
    BY <1>2
  <2>2. n \in DOMAIN c => [path |-> c[n], at |-> at] \in DocEntry
    BY ChangesAre DEF DocEntry
  <2> QED BY <1>1, <2>1, <2>2
<1>4. Changed(d, c, at) \in Docs
  BY <1>3 DEF Changed, Docs, DocEntry
<1> QED BY <1>1, <1>4

\* What a room is, and what a document is while nobody has it open.
LEMMA RoomTypes ==
  ASSUME TypeOK, NEW v \in Vaults
  PROVE  /\ room[v] \in Docs \cup {None} /\ docs[v] \in Docs /\ cut[v] \in Docs \cup {None}
         /\ RoomOf(v) \in Docs
BY DEF TypeOK, RoomOf

LEMMA TaskTypes ==
  ASSUME TypeOK, NEW t \in Tasks
  PROVE  /\ task[t] \in Task
         /\ task[t].pc \in {"idle", "text", "note", "place", "restore", "vault", "derive", "erase"}
         /\ task[t].v \in Vaults \cup {None} /\ task[t].n \in Notes \cup {None}
         /\ task[t].path \in Paths \cup {None}
         /\ task[t].change \in Changes /\ task[t].at \in Nat
         /\ task[t].old \in BOOLEAN /\ task[t].api \in BOOLEAN
         /\ task[t].update \in {"whole", "more"}
<1>1. task[t] \in Task
  BY DEF TypeOK
<1> QED BY <1>1 DEF Task

LEMMA IdleTask == Idle \in Task
<1>1. [n \in {} |-> None] \in [{} -> Paths \cup {None}]
  OBVIOUS
<1>2. [n \in {} |-> None] \in Changes
  BY <1>1 DEF Changes
<1> QED BY <1>2 DEF Idle, Task

\* What a step may make of a request.
LEMMA Retask ==
  ASSUME NEW r \in Task
  PROVE  /\ \A pc \in {"idle", "text", "note", "place", "restore", "vault", "derive", "erase"} :
              [r EXCEPT !.pc = pc] \in Task
         /\ [r EXCEPT !.old = TRUE] \in Task
         /\ [r EXCEPT !.api = TRUE] \in Task
         /\ \A u \in {"whole", "more"} : [r EXCEPT !.pc = "note", !.update = u] \in Task
         /\ \A v \in Vaults, c \in Changes, at \in Nat :
              [r EXCEPT !.pc = "vault", !.v = v, !.change = c, !.at = at] \in Task
BY DEF Task

-----------------------------------------------------------------------------
(***************************************************************************)
(* Types.                                                                  *)
(***************************************************************************)
RowTypes == rows \in [Notes -> Row \cup {None}]
DocTypes ==
  /\ docs \in [Vaults -> Docs] /\ texts \in [Notes -> Texts]
  /\ room \in [Vaults -> Docs \cup {None}] /\ cut \in [Vaults -> Docs \cup {None}]
  /\ nroom \in [Notes -> Texts \cup {None}]
TaskTypesOK == task \in [Tasks -> Task] /\ lock \in Tasks \cup {None}
CountTypes ==
  /\ purging \in BOOLEAN /\ {ops, crashes, purges} \subseteq Nat
  /\ {erased, behind} \subseteq SUBSET Vaults /\ gone \subseteq Notes
  /\ met \subseteq Vaults \cup Notes /\ born \in [Notes -> (Vaults \X Paths) \cup {None}]
Types == RowTypes /\ DocTypes /\ TaskTypesOK /\ CountTypes

LiveApart == \A v \in Vaults : \A n, m \in Live(v) : rows[n].path = rows[m].path => n = m

LEMMA TypesOf == TypeOK => Types /\ LiveApart
BY DEF TypeOK, Types, RowTypes, DocTypes, TaskTypesOK, CountTypes, LiveApart

LEMMA TypeOKOf == ASSUME Types, LiveApart, \A t \in Tasks : TaskInv(t) PROVE TypeOK
BY DEF TypeOK, Types, RowTypes, DocTypes, TaskTypesOK, CountTypes, LiveApart, TaskInv

\* A change of a vault document, as every request makes it.
LEMMA ApplyTypes ==
  ASSUME TypeOK, NEW t \in Tasks, NEW v \in Vaults, NEW change \in Changes, NEW rec \in Task,
         Apply(t, v, change, rec), task[t].old => cut[v] # None
  PROVE  /\ room' \in [Vaults -> Docs \cup {None}] /\ cut' \in [Vaults -> Docs \cup {None}]
         /\ task' \in [Tasks -> Task]
         /\ ops' = ops + 1 /\ ops \in Nat
         /\ met' = met \cup {d \in {v} : Erasing(d)}
         /\ task' = [task EXCEPT ![t] = [rec EXCEPT !.pc = "vault", !.v = v,
                                                   !.change = change, !.at = ops + 1]]
<1>1. /\ task' = [task EXCEPT ![t] = [rec EXCEPT !.pc = "vault", !.v = v,
                                                !.change = change, !.at = ops + 1]]
      /\ ops' = ops + 1 /\ met' = met \cup {d \in {v} : Erasing(d)}
  BY DEF Apply, Meets
<1>2. /\ ops \in Nat /\ ops + 1 \in Nat /\ task \in [Tasks -> Task]
      /\ room \in [Vaults -> Docs \cup {None}] /\ cut \in [Vaults -> Docs \cup {None}]
  BY DEF TypeOK
<1>3. [rec EXCEPT !.pc = "vault", !.v = v, !.change = change, !.at = ops + 1] \in Task
  BY <1>2, Retask
<1>4. task' \in [Tasks -> Task]
  BY <1>1, <1>2, <1>3
<1>5. CASE task[t].old
  <2>1. cut' = [cut EXCEPT ![v] = Changed(cut[v], change, ops + 1)] /\ room' = room
    BY <1>5 DEF Apply
  <2>2. Changed(cut[v], change, ops + 1) \in Docs
    BY <1>2, <1>5, RoomTypes, ChangedIs
  <2> QED BY <1>1, <1>2, <1>4, <2>1, <2>2
<1>6. CASE ~ task[t].old
  <2>1. room' = [room EXCEPT ![v] = Changed(RoomOf(v), change, ops + 1)] /\ cut' = cut
    BY <1>6 DEF Apply
  <2>2. Changed(RoomOf(v), change, ops + 1) \in Docs
    BY <1>2, RoomTypes, ChangedIs
  <2> QED BY <1>1, <1>2, <1>4, <2>1, <2>2
<1> QED BY <1>5, <1>6

-----------------------------------------------------------------------------
(***************************************************************************)
(* What deriving a vault makes of the rows.                                *)
(***************************************************************************)
LEMMA SoonerOrders ==
  /\ \A n \in Notes : ~ Sooner(n, n)
  /\ \A k, m, n \in Notes : Sooner(k, m) /\ Sooner(m, n) => Sooner(k, n)
  /\ \A m, n \in Notes : m # n => Sooner(m, n) \/ Sooner(n, m)
<1>1. /\ DOMAIN Order \subseteq Nat
      /\ \A i, j \in DOMAIN Order : Order[i] = Order[j] => i = j
      /\ \A n \in Notes : \E i \in DOMAIN Order : Order[i] = n
  BY ServerNotesAssumption DEF Notes, ToSet
<1>2. ASSUME NEW n \in Notes, Sooner(n, n) PROVE FALSE
  BY <1>1, <1>2 DEF Sooner
<1>3. ASSUME NEW k \in Notes, NEW m \in Notes, NEW n \in Notes, Sooner(k, m), Sooner(m, n)
      PROVE  Sooner(k, n)
  <2>1. PICK i, j \in DOMAIN Order : i < j /\ Order[i] = k /\ Order[j] = m
    BY <1>3 DEF Sooner
  <2>2. PICK h, l \in DOMAIN Order : h < l /\ Order[h] = m /\ Order[l] = n
    BY <1>3 DEF Sooner
  <2>3. j = h
    BY <1>1, <2>1, <2>2
  <2>4. i < l
    BY <1>1, <2>1, <2>2, <2>3
  <2> QED BY <2>1, <2>2, <2>4 DEF Sooner
<1>4. ASSUME NEW m \in Notes, NEW n \in Notes, m # n PROVE Sooner(m, n) \/ Sooner(n, m)
  <2>1. PICK i, j \in DOMAIN Order : Order[i] = m /\ Order[j] = n
    BY <1>1
  <2>2. i \in Nat /\ j \in Nat /\ i # j
    BY <1>1, <1>4, <2>1
  <2>3. i < j \/ j < i
    BY <2>2
  <2> QED BY <2>1, <2>3 DEF Sooner
<1> QED BY <1>2, <1>3, <1>4

\* The live rows of a table are apart.
Apart(table) ==
  \A n, m \in Notes : /\ table[n] # None /\ table[m] # None
                      /\ table[n].live /\ table[m].live
                      /\ table[n].vault = table[m].vault /\ table[n].path = table[m].path
                      => n = m

LEMMA ApartIs == ASSUME RowTypes PROVE LiveApart <=> Apart(rows)
<1>1. ASSUME LiveApart, NEW n \in Notes, NEW m \in Notes,
             rows[n] # None, rows[m] # None, rows[n].live, rows[m].live,
             rows[n].vault = rows[m].vault, rows[n].path = rows[m].path
      PROVE  n = m
  <2>1. rows[n] \in Row
    BY <1>1 DEF RowTypes
  <2>2. rows[n].vault \in Vaults
    BY <2>1 DEF Row
  <2>3. n \in Live(rows[n].vault) /\ m \in Live(rows[n].vault)
    BY <1>1 DEF Live
  <2> QED BY <1>1, <2>2, <2>3 DEF LiveApart
<1>2. ASSUME Apart(rows), NEW v \in Vaults, NEW n \in Live(v), NEW m \in Live(v),
             rows[n].path = rows[m].path
      PROVE  n = m
  BY <1>2 DEF Live, Apart
<1> QED BY <1>1, <1>2 DEF LiveApart, Apart

\* The rows follow the document of a vault.
Follows(table, v, doc) ==
  /\ \A n \in Notes : table[n] # None /\ table[n].vault = v =>
       IF table[n].live THEN table[n].path = doc[n].path ELSE n \notin Entries(doc)
  /\ \A n \in Entries(doc) : table[n] # None

LEMMA DerivedIs ==
  ASSUME RowTypes, LiveApart, NEW t \in Tasks, NEW v \in Vaults, NEW doc \in Docs
  PROVE  LET res == Derived(t, v, doc) IN
         /\ res.rows \in [Notes -> Row \cup {None}]
         /\ Apart(res.rows)
         /\ \A n \in Notes : HasRow(n) => res.rows[n] # None
         /\ \A n \in Notes : res.rows[n] # rows[n] => res.rows[n] # None /\ res.rows[n].vault = v
         /\ \A n \in Notes : res.rows[n] # None /\ res.rows[n].vault = v =>
              n \in Entries(doc) \/ (HasRow(n) /\ rows[n].vault = v)
         /\ res.ok => Follows(res.rows, v, doc)
<1> DEFINE upsert == [n \in Entries(doc) |->
                        [vault |-> v, path |-> doc[n].path, aged |-> FALSE, live |-> TRUE]]
           wanted == {n \in Entries(doc) : HasRow(n) /\ rows[n].vault # v => MayTake(t, n)}
           With(upserted) ==
             [n \in Notes |-> IF n \in upserted THEN upsert[n]
                              ELSE IF n \in Live(v) \ Entries(doc)
                                THEN [rows[n] EXCEPT !.live = FALSE]
                              ELSE rows[n]]
           Earlier(n) == {m \in wanted : Sooner(m, n)}
           refused == {n \in wanted : Taken(With(Earlier(n)), v, doc[n].path, n)}
           done == {n \in wanted : \A m \in refused : Sooner(n, m)}
           res == Derived(t, v, doc)
<1>1. res = [rows |-> With(done), ok |-> refused = {}]
  BY DEF Derived, DerivedAs
<1>2. /\ wanted \subseteq Entries(doc) /\ done \subseteq wanted /\ refused \subseteq wanted
      /\ Entries(doc) \subseteq Notes /\ Live(v) \subseteq Notes
  BY DEF Entries, Live
<1>3. ASSUME NEW n \in Entries(doc)
      PROVE  /\ upsert[n] \in Row /\ upsert[n] # None /\ upsert[n].vault = v /\ upsert[n].live
             /\ upsert[n].path = doc[n].path
  <2>1. doc[n].path \in Paths
    BY <1>2, DocIs DEF Entries
  <2>2. upsert[n] \in Row
    BY <2>1 DEF Row
  <2> QED BY <2>2, NoneAssumption
<1>4. ASSUME NEW n \in Live(v) \ Entries(doc)
      PROVE  /\ [rows[n] EXCEPT !.live = FALSE] \in Row
             /\ [rows[n] EXCEPT !.live = FALSE] # None
             /\ ~ [rows[n] EXCEPT !.live = FALSE].live
             /\ [rows[n] EXCEPT !.live = FALSE].vault = v
             /\ rows[n] # None /\ rows[n].vault = v
  <2>1. rows[n] # None /\ rows[n].vault = v /\ rows[n] \in Row
    BY <1>2 DEF Live, RowTypes
  <2>2. [rows[n] EXCEPT !.live = FALSE] \in Row
    BY <2>1 DEF Row
  <2>3. /\ ~ [rows[n] EXCEPT !.live = FALSE].live
        /\ [rows[n] EXCEPT !.live = FALSE].vault = v
    BY <2>1 DEF Row
  <2> QED BY <2>1, <2>2, <2>3, NoneAssumption
\* A table is known by what it makes of each note.
<1>5. ASSUME NEW ns, ns \subseteq wanted, NEW n \in Notes
      PROVE  /\ n \in ns => With(ns)[n] = upsert[n]
             /\ n \notin ns /\ n \in Live(v) \ Entries(doc) =>
                  With(ns)[n] = [rows[n] EXCEPT !.live = FALSE]
             /\ n \notin ns /\ ~ (n \in Live(v) \ Entries(doc)) => With(ns)[n] = rows[n]
  OBVIOUS
<1>6. \A n \in Notes : rows[n] \in Row \cup {None}
  BY DEF RowTypes
<1>7. \A n \in refused : n \in wanted /\ Taken(With(Earlier(n)), v, doc[n].path, n)
  OBVIOUS
<1>8. \A n \in wanted : Taken(With(Earlier(n)), v, doc[n].path, n) => n \in refused
  OBVIOUS
<1>9. \A n \in done : n \in wanted /\ n \notin refused
  BY <1>2, SoonerOrders
<1>10. \A n \in done, m \in wanted : Sooner(m, n) => m \in done
  <2> SUFFICES ASSUME NEW n \in done, NEW m \in wanted, Sooner(m, n), NEW r \in refused
               PROVE  Sooner(m, r)
    OBVIOUS
  <2>1. Sooner(n, r) /\ n \in Notes /\ m \in Notes /\ r \in Notes
    BY <1>2
  <2> QED BY <2>1, SoonerOrders
<1>11. \A n \in Notes : Earlier(n) \subseteq wanted
  OBVIOUS
<1>12. ASSUME NEW n \in wanted PROVE HasRow(n) /\ rows[n].vault # v => MayTake(t, n)
  OBVIOUS
<1>13. ASSUME refused = {}, NEW n \in Entries(doc) PROVE n \in done \/ (HasRow(n) /\ rows[n].vault # v)
  BY <1>13
<1> DEFINE table == With(done)
<1>14. res.rows = table /\ res.ok = (refused = {})
  BY <1>1
<1>15. ASSUME NEW n \in Notes, n \in done
       PROVE  table[n] = upsert[n] /\ n \in Entries(doc)
  BY <1>2, <1>5, <1>15
<1>16. ASSUME NEW n \in Notes, n \notin done
       PROVE  /\ n \in Live(v) \ Entries(doc) => table[n] = [rows[n] EXCEPT !.live = FALSE]
              /\ ~ (n \in Live(v) \ Entries(doc)) => table[n] = rows[n]
  BY <1>2, <1>5, <1>16
<1>17. table = [n \in Notes |-> table[n]]
  OBVIOUS
<1> HIDE DEF upsert, res, table
<1>18. table \in [Notes -> Row \cup {None}]
  <2>1. \A n \in Notes : table[n] \in Row \cup {None}
    BY <1>3, <1>4, <1>6, <1>15, <1>16
  <2> QED BY <1>17, <2>1
<1>19. \A n \in Notes : HasRow(n) => table[n] # None
  BY <1>3, <1>4, <1>15, <1>16, ZenonT(60) DEF HasRow
<1>20. ASSUME NEW n \in Notes, table[n] # rows[n] PROVE table[n] # None /\ table[n].vault = v
  <2>1. CASE n \in done
    BY <1>3, <1>15, <2>1
  <2>2. CASE n \notin done
    <3>1. n \in Live(v) \ Entries(doc)
      BY <1>16, <1>20, <2>2
    <3> QED BY <1>4, <1>16, <2>2, <3>1
  <2> QED BY <2>1, <2>2
<1>21. \A n \in Notes : table[n] # None /\ table[n].vault = v =>
         n \in Entries(doc) \/ (HasRow(n) /\ rows[n].vault = v)
  BY <1>3, <1>4, <1>15, <1>16 DEF HasRow
\* Who comes to the place of another is refused.
<1>22. ASSUME NEW a \in done, NEW b \in Notes, a # b, b \in done => Sooner(b, a),
              table[b] # None, table[b].live, table[b].vault = v, table[b].path = doc[a].path
       PROVE  FALSE
  <2> DEFINE before == With(Earlier(a))
  <2>1. a \in wanted /\ a \in Notes
    BY <1>2, <1>9
  <2>2. before[b] = table[b]
    <3>1. CASE b \in done
      <4>1. b \in Earlier(a)
        BY <1>9, <1>22, <3>1
      <4> QED BY <1>5, <1>11, <1>15, <2>1, <3>1, <4>1
    <3>2. CASE b \notin done
      <4>1. b \notin Earlier(a)
        BY <1>10, <3>2
      <4> QED BY <1>5, <1>11, <1>16, <2>1, <3>2, <4>1
    <3> QED BY <3>1, <3>2
  <2> HIDE DEF before
  <2>3. Taken(before, v, doc[a].path, a)
    BY <1>22, <2>2 DEF Taken
  <2>4. a \in refused
    BY <1>8, <2>1, <2>3 DEF before
  <2> QED BY <1>9, <2>4
<1>23. ASSUME NEW k \in Notes, k \notin done, table[k] # None, table[k].live
       PROVE  table[k] = rows[k]
  BY <1>4, <1>16, <1>23
<1>24. ASSUME NEW n \in Notes, NEW m \in Notes, table[n] # None, table[m] # None,
              table[n].live, table[m].live,
              table[n].vault = table[m].vault, table[n].path = table[m].path, n # m
       PROVE  FALSE
  <2>1. CASE n \in done
    <3>1. table[n].vault = v /\ table[n].path = doc[n].path
      BY <1>3, <1>15, <2>1
    <3>2. m \in done /\ ~ Sooner(m, n)
      BY <1>22, <1>24, <2>1, <3>1
    <3>3. table[m].path = doc[m].path
      BY <1>3, <1>15, <3>2
    <3>4. Sooner(n, m)
      BY <1>24, <3>2, SoonerOrders
    <3> QED BY <1>22, <1>24, <2>1, <3>1, <3>2, <3>3, <3>4
  <2>2. CASE m \in done
    <3>1. table[m].vault = v /\ table[m].path = doc[m].path
      BY <1>3, <1>15, <2>2
    <3> QED BY <1>22, <1>24, <2>1, <2>2, <3>1
  <2>3. CASE n \notin done /\ m \notin done
    <3>1. table[n] = rows[n] /\ table[m] = rows[m]
      BY <1>23, <1>24, <2>3
    <3>2. Apart(rows)
      BY ApartIs
    <3> QED BY <1>24, <3>1, <3>2 DEF Apart
  <2> QED BY <2>1, <2>2, <2>3
<1>25. Apart(table)
  BY <1>24 DEF Apart
<1>26. ASSUME refused = {} PROVE Follows(table, v, doc)
  <2>1. ASSUME NEW n \in Notes, table[n] # None, table[n].vault = v
        PROVE  IF table[n].live THEN table[n].path = doc[n].path ELSE n \notin Entries(doc)
    <3>1. CASE n \in done
      BY <1>3, <1>15, <3>1
    <3>2. CASE n \notin done
      <4>1. CASE n \in Live(v) \ Entries(doc)
        BY <1>4, <1>16, <3>2, <4>1
      <4>2. CASE ~ (n \in Live(v) \ Entries(doc))
        <5>1. table[n] = rows[n]
          BY <1>16, <3>2, <4>2
        <5>2. n \notin Entries(doc)
          BY <1>13, <1>26, <2>1, <3>2, <5>1
        <5>3. ~ table[n].live
          BY <2>1, <4>2, <5>1, <5>2 DEF Live
        <5> QED BY <5>2, <5>3
      <4> QED BY <4>1, <4>2
    <3> QED BY <3>1, <3>2
  <2>2. ASSUME NEW n \in Entries(doc) PROVE table[n] # None
    <3>1. CASE n \in done
      BY <1>2, <1>3, <1>15, <3>1
    <3>2. CASE n \notin done
      <4>1. HasRow(n) /\ n \in Notes
        BY <1>2, <1>13, <1>26, <3>2
      <4> QED BY <1>19, <4>1
    <3> QED BY <3>1, <3>2
  <2> QED BY <2>1, <2>2 DEF Follows
<1> QED BY <1>14, <1>18, <1>19, <1>20, <1>21, <1>25, <1>26 DEF res

-----------------------------------------------------------------------------
(***************************************************************************)
(* Every step keeps the types, and the live rows apart.                    *)
(***************************************************************************)
\* The document a request derives from.
Source(t, v) == IF task[t].old THEN cut[v] ELSE RoomOf(v)

LEMMA SourceIs ==
  ASSUME TypeOK, NEW t \in Tasks, TaskInv(t), HoldInv(t), task[t].pc = "derive"
  PROVE  task[t].v \in Vaults /\ Source(t, task[t].v) \in Docs
<1>1. task[t].v \in Vaults
  BY DEF TaskInv
<1>2. task[t].old => cut[task[t].v] # None
  BY <1>1 DEF HoldInv, Holding
<1> QED BY <1>1, <1>2, RoomTypes DEF Source

LEMMA DeriveStep ==
  ASSUME TypeOK, NEW t \in Tasks, TaskInv(t), HoldInv(t), DeriveVault(t)
  PROVE  LET v == task[t].v IN
         /\ v \in Vaults
         /\ rows' \in [Notes -> Row \cup {None}] /\ Apart(rows')
         /\ \A n \in Notes : HasRow(n) => rows'[n] # None
         /\ \A n \in Notes : rows'[n] # rows[n] => rows'[n] # None /\ rows'[n].vault = v
         /\ \A n \in Notes : rows'[n] # None /\ rows'[n].vault = v =>
              n \in Entries(Source(t, v)) \/ (HasRow(n) /\ rows[n].vault = v)
         /\ v \notin behind' => Follows(rows', v, Source(t, v))
         /\ behind' \in {behind \ {v}, behind \cup {v}}
         /\ gone' = {n \in gone : rows'[n] = None}
<1> DEFINE v == task[t].v
           res == Derived(t, v, Source(t, v))
<1>1. v \in Vaults /\ Source(t, v) \in Docs
  BY SourceIs DEF DeriveVault
<1>2. /\ rows' = res.rows
      /\ behind' = IF res.ok THEN behind \ {v} ELSE behind \cup {v}
      /\ gone' = {n \in gone : res.rows[n] = None}
  BY DEF DeriveVault, Source
<1>3. RowTypes /\ LiveApart
  BY TypesOf DEF Types
<1> HIDE DEF v
<1>4. /\ res.rows \in [Notes -> Row \cup {None}]
      /\ Apart(res.rows)
      /\ \A n \in Notes : HasRow(n) => res.rows[n] # None
      /\ \A n \in Notes : res.rows[n] # rows[n] => res.rows[n] # None /\ res.rows[n].vault = v
      /\ \A n \in Notes : res.rows[n] # None /\ res.rows[n].vault = v =>
           n \in Entries(Source(t, v)) \/ (HasRow(n) /\ rows[n].vault = v)
      /\ res.ok => Follows(res.rows, v, Source(t, v))
  BY <1>1, <1>3, DerivedIs
<1> HIDE DEF res
<1>5. v \notin behind' => res.ok
  BY <1>2
<1> QED BY <1>1, <1>2, <1>4, <1>5 DEF v

\* What restoring does to the row.
LEMMA RestoreStep ==
  ASSUME TypeOK, NEW t \in Tasks, NEW v \in Vaults, NEW n \in Notes, Restore(t, v, n)
  PROVE  \E path \in Paths :
           /\ HasRow(n) /\ rows[n].vault = v
           /\ rows'[n] \in Row /\ rows'[n].live
           /\ rows'[n].vault = v /\ rows'[n].path = path
           /\ \A m \in Notes : m # n => rows'[m] = rows[m]
           /\ rows' \in [Notes -> Row \cup {None}]
           /\ ~ Taken(rows, v, path, n)
<1> DEFINE path == IF Taken(rows, v, rows[n].path, n) THEN Restored[rows[n].path] ELSE rows[n].path
           row == [rows[n] EXCEPT !.live = TRUE, !.aged = FALSE, !.path = path]
<1>1. /\ HasRow(n) /\ rows[n].vault = v /\ path # None /\ ~ Taken(rows, v, path, n)
      /\ rows' = [rows EXCEPT ![n].live = TRUE, ![n].aged = FALSE, ![n].path = path]
  BY DEF Restore
<1>2. rows[n] \in Row /\ rows \in [Notes -> Row \cup {None}]
  BY <1>1 DEF TypeOK, HasRow
<1>3. rows[n].path \in Paths
  BY <1>2 DEF Row
<1>4. path \in Paths
  BY <1>1, <1>3, ServerNotesAssumption
<1> HIDE DEF path
<1>5. rows' = [rows EXCEPT ![n] = row]
  BY <1>1, <1>2
<1>6. row \in Row /\ row.live /\ row.vault = v /\ row.path = path
  BY <1>1, <1>2, <1>4 DEF Row
<1> HIDE DEF row
<1>7. /\ rows'[n] = row
      /\ \A m \in Notes : m # n => rows'[m] = rows[m]
      /\ rows' \in [Notes -> Row \cup {None}]
  BY <1>2, <1>5, <1>6
<1> QED BY <1>1, <1>4, <1>6, <1>7

LEMMA AgeRow ==
  ASSUME TypeOK, NEW n \in Notes, Age(n)
  PROVE  /\ HasRow(n) /\ ~ rows[n].live
         /\ rows'[n] \in Row /\ ~ rows'[n].live /\ rows'[n].vault = rows[n].vault
         /\ \A m \in Notes : m # n => rows'[m] = rows[m]
         /\ rows' \in [Notes -> Row \cup {None}]
<1> DEFINE row == [rows[n] EXCEPT !.aged = TRUE]
<1>1. /\ HasRow(n) /\ rows[n] \in Row /\ ~ rows[n].live
      /\ rows \in [Notes -> Row \cup {None}]
  BY DEF TypeOK, HasRow, Age
<1>2. rows' = [rows EXCEPT ![n] = row]
  BY <1>1 DEF Age
<1>3. row \in Row /\ row.live = rows[n].live /\ row.vault = rows[n].vault
  BY <1>1 DEF Row
<1> HIDE DEF row
<1> QED BY <1>1, <1>2, <1>3

\* Tables that differ in what is gone, or in the age of what is trashed, are as far apart.
LEMMA LessApart ==
  ASSUME RowTypes, LiveApart, NEW table,
         \A n \in Notes : table[n] # None /\ table[n].live =>
           rows[n] # None /\ rows[n].live /\ rows[n].vault = table[n].vault
                          /\ rows[n].path = table[n].path
  PROVE  Apart(table)
BY ApartIs DEF Apart

LEMMA RowsStep ==
  ASSUME TypeOK, \A t \in Tasks : TaskInv(t) /\ HoldInv(t), Next
  PROVE  RowTypes' /\ Apart(rows')
<1>1. RowTypes /\ LiveApart /\ rows \in [Notes -> Row \cup {None}]
  BY TypesOf DEF Types, RowTypes
<1>2. ASSUME NEW t \in Tasks, DeriveVault(t) PROVE RowTypes' /\ Apart(rows')
  BY <1>2, DeriveStep DEF RowTypes
<1>3. ASSUME NEW t \in Tasks, NEW v \in Vaults, NEW n \in Notes, Restore(t, v, n)
      PROVE  RowTypes' /\ Apart(rows')
  <2>1. PICK path \in Paths :
          /\ rows'[n].vault = v /\ rows'[n].path = path
          /\ \A m \in Notes : m # n => rows'[m] = rows[m]
          /\ rows' \in [Notes -> Row \cup {None}]
          /\ ~ Taken(rows, v, path, n)
    BY <1>3, RestoreStep
  <2>4. Apart(rows)
    BY <1>1, ApartIs
  <2>6. \A m \in Notes \ {n} : ~ (/\ rows[m] # None /\ rows[m].vault = v /\ rows[m].live
                                  /\ rows[m].path = path)
    BY <2>1 DEF Taken
  <2>7. Apart(rows')
    BY <2>1, <2>4, <2>6 DEF Apart
  <2> QED BY <2>1, <2>7 DEF RowTypes
<1>4. ASSUME NEW t \in Tasks, EraseTables(t) PROVE RowTypes' /\ Apart(rows')
  <2>1. \A n \in Notes : rows'[n] \in {rows[n], None}
    BY <1>4 DEF EraseTables
  <2>2. RowTypes'
    BY <1>1, <1>4 DEF EraseTables, RowTypes
  <2> QED BY <1>1, <2>1, <2>2, LessApart
<1>5. ASSUME NEW n \in Notes, Age(n) PROVE RowTypes' /\ Apart(rows')
  BY <1>1, <1>5, AgeRow, LessApart DEF RowTypes
<1>6. ASSUME PurgeTrash PROVE RowTypes' /\ Apart(rows')
  <2>1. \A n \in Notes : rows'[n] \in {rows[n], None}
    BY <1>6 DEF PurgeTrash
  <2>2. RowTypes'
    BY <1>1, <1>6 DEF PurgeTrash, RowTypes
  <2> QED BY <1>1, <2>1, <2>2, LessApart
<1>7. CASE UNCHANGED rows
  BY <1>1, <1>7, ApartIs DEF RowTypes
<1>8. ASSUME NEW t \in Tasks, Request(t)
      PROVE  \/ DeriveVault(t) \/ EraseTables(t) \/ UNCHANGED rows
             \/ \E v \in Vaults, n \in Notes : Restore(t, v, n)
  BY <1>8 DEF Request, SyncVault, ApiEdit, Create, Erase, SyncText, JournalVault, Place, TakeText,
              JournalText, RestoreEntry, tables
<1>9. Next => \/ \E t \in Tasks : Request(t)
              \/ \E n \in Notes : Age(n)
              \/ PurgeTrash \/ UNCHANGED rows
  BY DEF Next, SweepRooms, EvictIdle, Crash, tables
<1> QED BY <1>2, <1>3, <1>4, <1>5, <1>6, <1>7, <1>8, <1>9

-----------------------------------------------------------------------------
\* What the four requests that change a vault document have in common.
ApplyStep(t, v, change) ==
  /\ change \in Changes
  /\ task[t].pc \in {"idle", "restore", "place"}
  /\ task[t].pc \in {"restore", "place"} => task[t].v = v
  /\ UNCHANGED <<rows, docs, texts, nroom, lock, purging, crashes, purges, erased, behind, gone>>
  /\ ops \in Nat /\ ops' = ops + 1 /\ met' = met \cup {d \in {v} : Erasing(d)}
  /\ task[t].old => /\ cut[v] # None /\ room' = room
                    /\ cut' = [cut EXCEPT ![v] = Changed(cut[v], change, ops + 1)]
  /\ ~ task[t].old => /\ cut' = cut
                      /\ room' = [room EXCEPT ![v] = Changed(RoomOf(v), change, ops + 1)]
  /\ room' \in [Vaults -> Docs \cup {None}] /\ cut' \in [Vaults -> Docs \cup {None}]
  /\ task' \in [Tasks -> Task]
  /\ \A u \in Tasks : u # t => task'[u] = task[u]
  /\ task'[t].pc = "vault" /\ task'[t].v = v
  /\ task'[t].change = change /\ task'[t].at = ops + 1
  /\ task'[t].old = task[t].old
  /\ task'[t].n = IF task[t].pc = "place" THEN task[t].n ELSE None

LEMMA IdleIs ==
  /\ Idle.pc = "idle" /\ Idle.v = None /\ Idle.n = None /\ Idle.old = FALSE
  /\ Idle.api = FALSE /\ Idle.path = None /\ Idle.at = 0
BY DEF Idle

LEMMA ApplyIs ==
  ASSUME TypeOK, NEW t \in Tasks, NEW v \in Vaults, NEW change \in Changes, NEW rec \in Task,
         Apply(t, v, change, rec),
         UNCHANGED <<rows, docs, texts, nroom, lock, purging, crashes, purges, erased, behind, gone>>,
         task[t].pc \in {"idle", "restore", "place"},
         task[t].pc \in {"restore", "place"} => task[t].v = v,
         task[t].old => cut[v] # None,
         rec.old = task[t].old,
         rec.n = IF task[t].pc = "place" THEN task[t].n ELSE None
  PROVE  ApplyStep(t, v, change)
<1>1. /\ room' \in [Vaults -> Docs \cup {None}] /\ cut' \in [Vaults -> Docs \cup {None}]
      /\ task' \in [Tasks -> Task] /\ ops' = ops + 1 /\ ops \in Nat
      /\ met' = met \cup {d \in {v} : Erasing(d)}
  BY ApplyTypes
<1>2. task \in [Tasks -> Task]
  BY DEF TypeOK
<1> DEFINE r == [rec EXCEPT !.pc = "vault", !.v = v, !.change = change, !.at = ops + 1]
<1>3. /\ r.pc = "vault" /\ r.v = v /\ r.change = change /\ r.at = ops + 1
      /\ r.old = rec.old /\ r.n = rec.n
  BY DEF Task
<1>4. task' = [task EXCEPT ![t] = r]
  BY DEF Apply
<1> HIDE DEF r
<1>5. task'[t] = r /\ \A u \in Tasks : u # t => task'[u] = task[u]
  BY <1>2, <1>4
<1>6. task[t].old => /\ room' = room
                     /\ cut' = [cut EXCEPT ![v] = Changed(cut[v], change, ops + 1)]
  BY DEF Apply
<1>7. ~ task[t].old => /\ cut' = cut
                       /\ room' = [room EXCEPT ![v] = Changed(RoomOf(v), change, ops + 1)]
  BY DEF Apply
<1> QED BY <1>1, <1>3, <1>5, <1>6, <1>7 DEF ApplyStep

LEMMA SyncVaultStep ==
  ASSUME TypeOK, NEW t \in Tasks, TaskInv(t), HoldInv(t), NEW v \in Vaults, NEW change \in Changes,
         SyncVault(t, v, change)
  PROVE  ApplyStep(t, v, change)
<1>1. task[t].pc = "idle" /\ task[t] = Idle
  BY DEF SyncVault, Free, TaskInv
<1>2. task[t].old = FALSE
  BY <1>1, IdleIs
<1> QED BY <1>1, <1>2, ApplyIs, IdleTask, IdleIs DEF SyncVault, tables, bounds

LEMMA ApiIdle ==
  /\ [Idle EXCEPT !.api = TRUE] \in Task
  /\ [Idle EXCEPT !.api = TRUE].old = FALSE /\ [Idle EXCEPT !.api = TRUE].n = None
<1>1. [Idle EXCEPT !.api = TRUE] \in Task
  BY IdleTask, Retask
<1> QED BY <1>1, IdleTask, IdleIs DEF Task

LEMMA ApiEditStep ==
  ASSUME TypeOK, NEW t \in Tasks, TaskInv(t), HoldInv(t), NEW v \in Vaults, NEW n \in Notes,
         NEW path \in Paths \cup {None}, ApiEdit(t, v, n, path)
  PROVE  ApplyStep(t, v, [m \in {n} |-> path])
<1>1. task[t].pc = "idle" /\ task[t] = Idle
  BY DEF ApiEdit, Free, TaskInv
<1>2. task[t].old = FALSE
  BY <1>1, IdleIs
<1>3. [m \in {n} |-> path] \in Changes
  BY OneChange
<1> DEFINE change == [m \in {n} |-> path]
           rec == [Idle EXCEPT !.api = TRUE]
<1>4. /\ Apply(t, v, change, rec)
      /\ UNCHANGED <<rows, docs, texts, nroom, lock, purging, crashes, purges, erased, behind, gone>>
  BY DEF ApiEdit, tables, bounds
<1>5. change \in Changes /\ rec \in Task /\ rec.old = FALSE /\ rec.n = None
  BY <1>3, ApiIdle
<1> HIDE DEF change, rec
<1>6. ApplyStep(t, v, change)
  BY <1>1, <1>2, <1>4, <1>5, ApplyIs
<1> QED BY <1>1, <1>6 DEF change

LEMMA PlaceStep ==
  ASSUME TypeOK, NEW t \in Tasks, TaskInv(t), HoldInv(t), Place(t)
  PROVE  /\ task[t].v \in Vaults /\ task[t].n \in Notes /\ task[t].path \in Paths
         /\ ApplyStep(t, task[t].v, [m \in {task[t].n} |-> task[t].path])
<1>1. task[t].pc = "place" /\ task[t].v \in Vaults /\ task[t].n \in Notes /\ task[t].path \in Paths
  BY DEF Place, TaskInv
<1>2. task[t].old => cut[task[t].v] # None
  BY <1>1 DEF HoldInv, Holding
<1>3. [m \in {task[t].n} |-> task[t].path] \in Changes
  BY <1>1, OneChange
<1>4. task[t] \in Task
  BY TaskTypes
<1> QED BY <1>1, <1>2, <1>3, <1>4, ApplyIs DEF Place, tables, bounds

LEMMA RestoreEntryStep ==
  ASSUME TypeOK, NEW t \in Tasks, TaskInv(t), HoldInv(t), RestoreEntry(t)
  PROVE  /\ task[t].v \in Vaults /\ task[t].n \in Notes /\ task[t].path \in Paths
         /\ ApplyStep(t, task[t].v, [m \in {task[t].n} |-> task[t].path])
<1>1. /\ task[t].pc = "restore" /\ task[t].v \in Vaults /\ task[t].n \in Notes
      /\ task[t].path \in Paths /\ task[t].old \in BOOLEAN
  BY TaskTypes DEF RestoreEntry, TaskInv
<1>2. task[t].old = FALSE
  BY <1>1 DEF TaskInv
<1>3. [m \in {task[t].n} |-> task[t].path] \in Changes
  BY <1>1, OneChange
<1> DEFINE change == [m \in {task[t].n} |-> task[t].path]
           rec == [Idle EXCEPT !.api = TRUE]
<1>4. /\ Apply(t, task[t].v, change, rec)
      /\ UNCHANGED <<rows, docs, texts, nroom, lock, purging, crashes, purges, erased, behind, gone>>
  BY DEF RestoreEntry, tables, bounds
<1>5. change \in Changes /\ rec \in Task /\ rec.old = FALSE /\ rec.n = None
  BY <1>3, ApiIdle
<1> HIDE DEF change, rec
<1>6. ApplyStep(t, task[t].v, change)
  BY <1>1, <1>2, <1>4, <1>5, ApplyIs
<1> QED BY <1>1, <1>6 DEF change

-----------------------------------------------------------------------------
(***************************************************************************)
(* What the other steps make of the requests.                              *)
(***************************************************************************)
Others(t) == \A u \in Tasks : u # t => task'[u] = task[u]
Keeps(t) == /\ task'[t].v = task[t].v /\ task'[t].n = task[t].n /\ task'[t].path = task[t].path
            /\ task'[t].change = task[t].change /\ task'[t].at = task[t].at
            /\ task'[t].old = task[t].old /\ task'[t].api = task[t].api

LEMMA JournalVaultTask ==
  ASSUME TypeOK, NEW t \in Tasks, JournalVault(t)
  PROVE  /\ task' \in [Tasks -> Task] /\ Others(t) /\ Keeps(t)
         /\ task[t].pc = "vault" /\ task'[t].pc = "derive"
<1> DEFINE r == [task[t] EXCEPT !.pc = "derive"]
<1>1. task[t] \in Task /\ task \in [Tasks -> Task]
  BY DEF TypeOK
<1>2. task' = [task EXCEPT ![t] = r]
  BY <1>1 DEF JournalVault
<1>3. /\ r \in Task
      /\ r.pc = "derive" /\ r.v = task[t].v /\ r.n = task[t].n /\ r.path = task[t].path
      /\ r.change = task[t].change /\ r.at = task[t].at /\ r.old = task[t].old
      /\ r.api = task[t].api
  BY <1>1 DEF Task
<1> HIDE DEF r
<1> QED BY <1>1, <1>2, <1>3 DEF JournalVault, Others, Keeps

LEMMA DeriveTask ==
  ASSUME TypeOK, NEW t \in Tasks, DeriveVault(t)
  PROVE  /\ task' \in [Tasks -> Task] /\ Others(t)
         /\ task[t].pc = "derive" /\ task'[t] = Idle
BY IdleTask DEF TypeOK, DeriveVault, Others

LEMMA CreateTask ==
  ASSUME TypeOK, NEW t \in Tasks, NEW v \in Vaults, NEW n \in Notes, NEW path \in Paths,
         Create(t, v, n, path)
  PROVE  /\ task' \in [Tasks -> Task] /\ Others(t)
         /\ task[t].pc = "idle"
         /\ task'[t].pc = "note" /\ task'[t].v = v /\ task'[t].n = n /\ task'[t].path = path
         /\ task'[t].update = "whole"
         /\ ~ task'[t].old /\ task'[t].api
<1> DEFINE r == [Idle EXCEPT !.pc = "note", !.v = v, !.n = n, !.path = path,
                             !.api = TRUE, !.update = "whole"]
<1>1. task \in [Tasks -> Task] /\ task[t].pc = "idle"
  BY DEF TypeOK, Create, Free
<1>2. task' = [task EXCEPT ![t] = r]
  BY DEF Create
<1>3. /\ r \in Task
      /\ r.pc = "note" /\ r.v = v /\ r.n = n /\ r.path = path
      /\ r.update = "whole"
      /\ ~ r.old /\ r.api
  BY IdleTask, IdleIs DEF Task
<1> HIDE DEF r
<1> QED BY <1>1, <1>2, <1>3 DEF Others

LEMMA SyncTextTask ==
  ASSUME TypeOK, NEW t \in Tasks, NEW n \in Notes, SyncText(t, n)
  PROVE  /\ task' \in [Tasks -> Task] /\ Others(t)
         /\ task[t].pc = "idle"
         /\ task'[t].pc = "text" /\ task'[t].v = None /\ task'[t].n = n /\ task'[t].old = FALSE
<1> DEFINE r == [Idle EXCEPT !.pc = "text", !.n = n]
<1>1. task \in [Tasks -> Task] /\ task[t].pc = "idle"
  BY DEF TypeOK, SyncText, Free
<1>2. task' = [task EXCEPT ![t] = r]
  BY DEF SyncText
<1>3. r \in Task /\ r.pc = "text" /\ r.v = None /\ r.n = n /\ r.old = FALSE
  BY IdleTask, IdleIs DEF Task
<1> HIDE DEF r
<1> QED BY <1>1, <1>2, <1>3 DEF Others

LEMMA TakeTextTask ==
  ASSUME TypeOK, NEW t \in Tasks, TaskInv(t), TakeText(t)
  PROVE  /\ task' \in [Tasks -> Task] /\ Others(t) /\ Keeps(t)
         /\ task[t].pc = "text" /\ task'[t].pc = "note" /\ task[t].n \in Notes
         /\ nroom' = [nroom EXCEPT ![task[t].n] = Text(NoteRoomOf(task[t].n), task'[t].update)]
<1>1. task[t] \in Task /\ task \in [Tasks -> Task] /\ task[t].pc = "text" /\ task[t].n \in Notes
  BY DEF TypeOK, TakeText, TaskInv
<1>2. PICK update \in {"whole", "more"} :
        /\ nroom' = [nroom EXCEPT ![task[t].n] = Text(NoteRoomOf(task[t].n), update)]
        /\ task' = [task EXCEPT ![t].pc = "note", ![t].update = update]
  BY DEF TakeText
<1> DEFINE r == [task[t] EXCEPT !.pc = "note", !.update = update]
<1>3. task' = [task EXCEPT ![t] = r]
  BY <1>1, <1>2
<1>4. /\ r \in Task
      /\ r.pc = "note" /\ r.v = task[t].v /\ r.n = task[t].n /\ r.path = task[t].path
      /\ r.change = task[t].change /\ r.at = task[t].at /\ r.old = task[t].old
      /\ r.api = task[t].api /\ r.update = update
  BY <1>1 DEF Task
<1> HIDE DEF r
<1> QED BY <1>1, <1>2, <1>3, <1>4 DEF Others, Keeps

LEMMA JournalTextTask ==
  ASSUME TypeOK, NEW t \in Tasks, JournalText(t)
  PROVE  /\ task' \in [Tasks -> Task] /\ Others(t)
         /\ task[t].pc = "note"
         /\ task[t].v = None => task'[t] = Idle
         /\ task[t].v # None => task'[t].pc = "place" /\ Keeps(t)
<1> DEFINE r == [task[t] EXCEPT !.pc = "place"]
<1>1. task[t] \in Task /\ task \in [Tasks -> Task] /\ task[t].pc = "note"
  BY DEF TypeOK, JournalText
<1>2. task' = [task EXCEPT ![t] = IF task[t].v = None THEN Idle ELSE r]
  BY <1>1 DEF JournalText
<1>3. /\ r \in Task
      /\ r.pc = "place" /\ r.v = task[t].v /\ r.n = task[t].n /\ r.path = task[t].path
      /\ r.change = task[t].change /\ r.at = task[t].at /\ r.old = task[t].old
      /\ r.api = task[t].api
  BY <1>1 DEF Task
<1> HIDE DEF r
<1> QED BY <1>1, <1>2, <1>3, IdleTask DEF Others, Keeps

LEMMA RestoreTask ==
  ASSUME TypeOK, NEW t \in Tasks, NEW v \in Vaults, NEW n \in Notes, Restore(t, v, n)
  PROVE  /\ task' \in [Tasks -> Task] /\ Others(t)
         /\ task[t].pc = "idle"
         /\ task'[t].pc = "restore" /\ task'[t].v = v /\ task'[t].n = n /\ task'[t].path \in Paths
         /\ task'[t].old = FALSE
<1>1. task \in [Tasks -> Task] /\ task[t].pc = "idle"
  BY DEF TypeOK, Restore, Free
<1> DEFINE path == IF Taken(rows, v, rows[n].path, n) THEN Restored[rows[n].path] ELSE rows[n].path
<1>2. path \in Paths
  <2>1. HasRow(n) /\ path # None
    BY DEF Restore
  <2>2. rows[n] \in Row
    BY <2>1 DEF TypeOK, HasRow
  <2>3. rows[n].path \in Paths
    BY <2>2 DEF Row
  <2> QED BY <2>1, <2>3, ServerNotesAssumption
<1> DEFINE r == [Idle EXCEPT !.pc = "restore", !.v = v, !.n = n, !.path = path, !.api = TRUE]
<1>3. /\ r \in Task
      /\ r.pc = "restore" /\ r.v = v /\ r.n = n /\ r.path = path /\ r.old = FALSE
  BY <1>2, IdleTask, IdleIs DEF Task
<1>4. task' = [task EXCEPT ![t] = r]
  BY DEF Restore
<1> HIDE DEF r
<1> QED BY <1>1, <1>2, <1>3, <1>4 DEF Others

\* Who holds the vault goes on holding what has been cut out of the map.
LEMMA EraseTask ==
  ASSUME TypeOK, NEW t \in Tasks, NEW v \in Vaults, Erase(t, v)
  PROVE  /\ task' \in [Tasks -> Task]
         /\ task[t].pc = "idle"
         /\ task'[t].pc = "erase" /\ task'[t].v = v /\ task'[t].n = None /\ task'[t].old = FALSE
<1> DEFINE r == [Idle EXCEPT !.pc = "erase", !.v = v]
           o(u) == [task[u] EXCEPT !.old = TRUE]
<1>1. task \in [Tasks -> Task] /\ task[t].pc = "idle"
  BY DEF TypeOK, Erase, Free
<1>2. task' = [u \in Tasks |-> IF u = t THEN r ELSE IF Holding(u, v) THEN o(u) ELSE task[u]]
  BY DEF Erase
<1>3. r \in Task /\ r.pc = "erase" /\ r.v = v /\ r.n = None /\ r.old = FALSE
  BY IdleTask, IdleIs DEF Task
<1>4. ASSUME NEW u \in Tasks
      PROVE  /\ o(u) \in Task
             /\ o(u).pc = task[u].pc /\ o(u).v = task[u].v /\ o(u).n = task[u].n
             /\ o(u).path = task[u].path /\ o(u).change = task[u].change
             /\ o(u).at = task[u].at /\ o(u).api = task[u].api
             /\ o(u).update = task[u].update /\ o(u).old
  <2>1. task[u] \in Task
    BY <1>1
  <2> QED BY <2>1 DEF Task
<1> HIDE DEF r, o
<1>5. task' \in [Tasks -> Task]
  BY <1>1, <1>2, <1>3, <1>4
<1>6. task'[t] = r
  BY <1>2
<1> QED BY <1>1, <1>3, <1>5, <1>6

LEMMA EraseOther ==
  ASSUME TypeOK, NEW t \in Tasks, NEW v \in Vaults, Erase(t, v), NEW u \in Tasks, u # t
  PROVE  /\ task'[u].pc = task[u].pc /\ task'[u].v = task[u].v /\ task'[u].n = task[u].n
         /\ task'[u].path = task[u].path /\ task'[u].change = task[u].change
         /\ task'[u].at = task[u].at /\ task'[u].update = task[u].update
         /\ task'[u].api <=> task[u].api
         /\ IF Holding(u, v) THEN task'[u].old ELSE task'[u] = task[u]
<1> DEFINE o == [task[u] EXCEPT !.old = TRUE]
<1>1. task[u] \in Task
  BY DEF TypeOK
<1>2. task'[u] = IF Holding(u, v) THEN o ELSE task[u]
  BY DEF Erase
<1>3. /\ o.pc = task[u].pc /\ o.v = task[u].v /\ o.n = task[u].n
      /\ o.path = task[u].path /\ o.change = task[u].change
      /\ o.at = task[u].at /\ o.update = task[u].update
      /\ o.api <=> task[u].api
      /\ o.old
  BY <1>1 DEF Task
<1> HIDE DEF o
<1>4. CASE Holding(u, v)
  <2>1. task'[u] = o
    BY <1>2, <1>4
  <2> QED BY <1>3, <1>4, <2>1
<1>5. CASE ~ Holding(u, v)
  BY <1>2, <1>5
<1> QED BY <1>4, <1>5

LEMMA EraseTablesTask ==
  ASSUME TypeOK, NEW t \in Tasks, EraseTables(t)
  PROVE  /\ task' \in [Tasks -> Task] /\ Others(t)
         /\ task[t].pc = "erase" /\ task'[t] = Idle
BY IdleTask DEF TypeOK, EraseTables, Others

LEMMA CrashTask ==
  ASSUME Crash
  PROVE  task' \in [Tasks -> Task] /\ \A u \in Tasks : task'[u] = Idle
BY IdleTask DEF Crash

-----------------------------------------------------------------------------
(***************************************************************************)
(* The steps, as the rest is about them.                                   *)
(***************************************************************************)
Base == TypeOK /\ (\A t \in Tasks : TaskInv(t)) /\ (\A t \in Tasks : HoldInv(t))

\* A change of a vault document: of which notes it may be, and whose history it ends or begins.
Edits(t, v, change) ==
  /\ ApplyStep(t, v, change)
  /\ born' = [n \in Notes |-> IF n \notin DOMAIN change THEN born[n]
                              ELSE IF task[t].pc = "place" THEN <<v, task[t].path>> ELSE None]
  /\ task[t].pc = "place" => task[t].path \in Paths /\ task[t].n \in Notes
                             /\ change = [m \in {task[t].n} |-> task[t].path]
  /\ \A n \in DOMAIN change : IF task[t].pc = "idle" THEN ~ Unheard(n) \/ RoomOf(v)[n].path # None
                                                     ELSE n = task[t].n

\* Rooms nobody holds are dropped.
Sweeps ==
  /\ DropUnheld
  /\ purging' = purging \/ purging' = FALSE
  /\ UNCHANGED <<rows, docs, texts, cut, lock, task, ops, crashes, purges,
                 erased, behind, gone, met, born>>

LEMMA BaseIs == ASSUME Base, NEW t \in Tasks PROVE TypeOK /\ TaskInv(t) /\ HoldInv(t)
BY DEF Base

LEMMA SyncVaultEdits ==
  ASSUME Base, NEW t \in Tasks, NEW v \in Vaults, NEW change \in Changes, SyncVault(t, v, change)
  PROVE  Edits(t, v, change)
<1>1. ApplyStep(t, v, change)
  BY SyncVaultStep, BaseIs
<1>2. /\ task[t].pc = "idle" /\ \A n \in DOMAIN change : ~ Unheard(n)
      /\ born' = [n \in Notes |-> IF n \in DOMAIN change THEN None ELSE born[n]]
  BY DEF SyncVault, Free
<1> QED BY <1>1, <1>2 DEF Edits

LEMMA ApiEditEdits ==
  ASSUME Base, NEW t \in Tasks, NEW v \in Vaults, NEW n \in Notes, NEW path \in Paths \cup {None},
         ApiEdit(t, v, n, path)
  PROVE  Edits(t, v, [m \in {n} |-> path])
<1> DEFINE change == [m \in {n} |-> path]
<1>1. ApplyStep(t, v, change)
  BY ApiEditStep, BaseIs
<1>2. /\ task[t].pc = "idle" /\ RoomOf(v)[n].path # None
      /\ born' = [born EXCEPT ![n] = None]
  BY DEF ApiEdit, Free, Entries
<1>3. DOMAIN change = {n} /\ born = [m \in Notes |-> born[m]]
  BY DEF Base, TypeOK
<1> HIDE DEF change
<1>4. Edits(t, v, change)
  BY <1>1, <1>2, <1>3 DEF Edits
<1> QED BY <1>4 DEF change

LEMMA PlaceEdits ==
  ASSUME Base, NEW t \in Tasks, Place(t)
  PROVE  task[t].v \in Vaults /\ task[t].n \in Notes /\ task[t].path \in Paths
         /\ Edits(t, task[t].v, [m \in {task[t].n} |-> task[t].path])
<1> DEFINE v == task[t].v
           n == task[t].n
           change == [m \in {n} |-> task[t].path]
<1>1. v \in Vaults /\ n \in Notes /\ task[t].path \in Paths /\ ApplyStep(t, v, change)
  BY PlaceStep, BaseIs
<1>2. task[t].pc = "place" /\ born' = [born EXCEPT ![n] = <<v, task[t].path>>]
  BY DEF Place
<1>3. DOMAIN change = {n} /\ born = [m \in Notes |-> born[m]]
  BY DEF Base, TypeOK
<1>4. change = [m \in {task[t].n} |-> task[t].path]
  OBVIOUS
<1>5. n = task[t].n
  OBVIOUS
<1> HIDE DEF change, v, n
<1>6. Edits(t, v, change)
  BY <1>1, <1>2, <1>3, <1>4, <1>5 DEF Edits
<1> QED BY <1>1, <1>6 DEF change, v, n

LEMMA RestoreEntryEdits ==
  ASSUME Base, NEW t \in Tasks, RestoreEntry(t)
  PROVE  task[t].v \in Vaults /\ task[t].n \in Notes /\ task[t].path \in Paths
         /\ Edits(t, task[t].v, [m \in {task[t].n} |-> task[t].path])
<1> DEFINE v == task[t].v
           n == task[t].n
           change == [m \in {n} |-> task[t].path]
<1>1. v \in Vaults /\ n \in Notes /\ task[t].path \in Paths /\ ApplyStep(t, v, change)
  BY RestoreEntryStep, BaseIs
<1>2. task[t].pc = "restore" /\ born' = [born EXCEPT ![n] = None]
  BY DEF RestoreEntry
<1>3. DOMAIN change = {n} /\ born = [m \in Notes |-> born[m]]
  BY DEF Base, TypeOK
<1>5. n = task[t].n
  OBVIOUS
<1> HIDE DEF change, v, n
<1>6. Edits(t, v, change)
  BY <1>1, <1>2, <1>3, <1>5 DEF Edits
<1> QED BY <1>1, <1>6 DEF change, v, n

LEMMA NextIs ==
  ASSUME Base, Next
  PROVE  \/ \E t \in Tasks, v \in Vaults, change \in Changes : Edits(t, v, change)
         \/ \E t \in Tasks : JournalVault(t)
         \/ \E t \in Tasks : DeriveVault(t)
         \/ \E t \in Tasks, v \in Vaults, n \in Notes, p \in Paths : Create(t, v, n, p)
         \/ \E t \in Tasks, n \in Notes : SyncText(t, n)
         \/ \E t \in Tasks : TakeText(t)
         \/ \E t \in Tasks : JournalText(t)
         \/ \E t \in Tasks, v \in Vaults, n \in Notes : Restore(t, v, n)
         \/ \E t \in Tasks, v \in Vaults : Erase(t, v)
         \/ \E t \in Tasks : EraseTables(t)
         \/ \E n \in Notes : Age(n)
         \/ PurgeTrash \/ Sweeps \/ Crash
<1>1. ASSUME NEW t \in Tasks, NEW v \in Vaults, NEW n \in Notes, NEW p \in Paths \cup {None},
             ApiEdit(t, v, n, p)
      PROVE  \E change \in Changes : Edits(t, v, change)
  BY <1>1, ApiEditEdits, OneChange
<1>2. ASSUME NEW t \in Tasks, Place(t) \/ RestoreEntry(t)
      PROVE  \E v \in Vaults, change \in Changes : Edits(t, v, change)
  <2>1. /\ task[t].v \in Vaults /\ task[t].n \in Notes /\ task[t].path \in Paths
        /\ Edits(t, task[t].v, [m \in {task[t].n} |-> task[t].path])
    BY <1>2, PlaceEdits, RestoreEntryEdits
  <2>2. [m \in {task[t].n} |-> task[t].path] \in Changes
    BY <2>1, OneChange
  <2> QED BY <2>1, <2>2
<1>3. ASSUME NEW t \in Tasks, NEW v \in Vaults, NEW change \in Changes, SyncVault(t, v, change)
      PROVE  Edits(t, v, change)
  BY <1>3, SyncVaultEdits
<1>4. SweepRooms \/ EvictIdle => Sweeps
  BY DEF SweepRooms, EvictIdle, Sweeps, tables, bounds, history
<1>5. ASSUME NEW t \in Tasks, Request(t)
      PROVE  \/ \E v \in Vaults, change \in Changes : SyncVault(t, v, change)
             \/ \E v \in Vaults, n \in Notes, p \in Paths \cup {None} : ApiEdit(t, v, n, p)
             \/ \E v \in Vaults, n \in Notes, p \in Paths : Create(t, v, n, p)
             \/ \E v \in Vaults, n \in Notes : Restore(t, v, n)
             \/ \E v \in Vaults : Erase(t, v)
             \/ \E n \in Notes : SyncText(t, n)
             \/ JournalVault(t) \/ DeriveVault(t) \/ Place(t) \/ TakeText(t) \/ JournalText(t)
             \/ RestoreEntry(t) \/ EraseTables(t)
  BY <1>5 DEF Request
<1> QED BY <1>1, <1>2, <1>3, <1>4, <1>5 DEF Next

LEMMA TextIs ==
  ASSUME NEW x \in Texts, NEW u \in {"whole", "more"}
  PROVE  Text(x, u) \in Texts /\ Below(x, Text(x, u)) /\ Below(Text("empty", u), Text(x, u))
         /\ Text(x, u) \in {x, Text("empty", u)}
BY DEF Text, Texts, Below

LEMMA NoteRoomType ==
  ASSUME TypeOK, NEW n \in Notes
  PROVE  NoteRoomOf(n) \in Texts /\ texts[n] \in Texts /\ nroom[n] \in Texts \cup {None}
         /\ None \notin Texts
BY NoneAssumption DEF TypeOK, NoteRoomOf

LEMMA TypesStep ==
  ASSUME Base, Next
  PROVE  DocTypes' /\ TaskTypesOK' /\ CountTypes'
<1>1. DocTypes /\ TaskTypesOK /\ CountTypes /\ TypeOK
  BY TypesOf DEF Types, Base
<1> USE DEF DocTypes, TaskTypesOK, CountTypes
<1>2. ASSUME NEW t \in Tasks, NEW v \in Vaults, NEW change \in Changes, Edits(t, v, change)
      PROVE  DocTypes' /\ TaskTypesOK' /\ CountTypes'
  <2>1. DocTypes' /\ TaskTypesOK'
    BY <1>1, <1>2 DEF Edits, ApplyStep
  <2>2. ASSUME NEW n \in Notes PROVE born'[n] \in (Vaults \X Paths) \cup {None}
    BY <1>1, <1>2 DEF Edits
  <2>3. ops' \in Nat /\ met' \subseteq Vaults \cup Notes
    BY <1>1, <1>2 DEF Edits, ApplyStep
  <2>4. born' \in [Notes -> (Vaults \X Paths) \cup {None}]
    BY <1>2, <2>2 DEF Edits
  <2> QED BY <1>1, <1>2, <2>1, <2>3, <2>4 DEF Edits, ApplyStep
<1>3. ASSUME NEW t \in Tasks, JournalVault(t) PROVE DocTypes' /\ TaskTypesOK' /\ CountTypes'
  <2>1. task[t].v \in Vaults /\ task[t].change \in Changes /\ task[t].at \in Nat
    BY <1>3, TaskTypes DEF Base, TaskInv, JournalVault
  <2>2. Changed(docs[task[t].v], task[t].change, task[t].at) \in Docs
    BY <1>1, <2>1, ChangedIs
  <2>3. docs' \in [Vaults -> Docs]
    BY <1>1, <1>3, <2>1, <2>2 DEF JournalVault
  <2> QED BY <1>1, <1>3, <2>3, JournalVaultTask DEF JournalVault, rooms, bounds, history
<1>4. ASSUME NEW t \in Tasks, DeriveVault(t) PROVE DocTypes' /\ TaskTypesOK' /\ CountTypes'
  <2>1. task[t].v \in Vaults
    BY <1>4 DEF Base, TaskInv, DeriveVault
  <2>2. behind' \subseteq Vaults /\ gone' \subseteq Notes /\ lock' \in Tasks \cup {None}
    BY <1>1, <1>4, <2>1 DEF DeriveVault
  <2> QED BY <1>1, <1>4, <2>2, DeriveTask DEF DeriveVault, rooms, bounds
<1>5. ASSUME NEW t \in Tasks, NEW v \in Vaults, NEW n \in Notes, NEW p \in Paths, Create(t, v, n, p)
      PROVE  DocTypes' /\ TaskTypesOK' /\ CountTypes'
  <2>1. room' \in [Vaults -> Docs \cup {None}]
    BY <1>1, <1>5, RoomTypes DEF Create
  <2>2. nroom' \in [Notes -> Texts \cup {None}]
    BY <1>1, <1>5 DEF Create, Texts
  <2>3. met' \subseteq Vaults \cup Notes
    BY <1>1, <1>5 DEF Create, Meets
  <2> QED BY <1>1, <1>5, <2>1, <2>2, <2>3, CreateTask DEF Create, tables, bounds
<1>6. ASSUME NEW t \in Tasks, NEW n \in Notes, SyncText(t, n)
      PROVE  DocTypes' /\ TaskTypesOK' /\ CountTypes'
  <2>1. TaskTypesOK'
    BY <1>1, <1>6, SyncTextTask DEF SyncText
  <2>2. CountTypes'
    BY <1>1, <1>6 DEF SyncText, bounds, history
  <2>3. DocTypes'
    BY <1>1, <1>6 DEF SyncText, tables, rooms
  <2> QED BY <2>1, <2>2, <2>3
<1>7. ASSUME NEW t \in Tasks, TakeText(t) PROVE DocTypes' /\ TaskTypesOK' /\ CountTypes'
  <2>1. /\ task' \in [Tasks -> Task] /\ task[t].n \in Notes
        /\ nroom' = [nroom EXCEPT ![task[t].n] = Text(NoteRoomOf(task[t].n), task'[t].update)]
    BY <1>7, TakeTextTask DEF Base
  <2>2. task'[t].update \in {"whole", "more"}
    <3>1. task'[t] \in Task
      BY <2>1
    <3> QED BY <3>1 DEF Task
  <2>3. nroom' \in [Notes -> Texts \cup {None}]
    BY <1>1, <2>1, <2>2, TextIs, NoteRoomType
  <2>4. met' \subseteq Vaults \cup Notes
    BY <1>1, <1>7, <2>1 DEF TakeText
  <2> QED BY <1>1, <1>7, <2>1, <2>3, <2>4 DEF TakeText, tables, bounds
<1>8. ASSUME NEW t \in Tasks, JournalText(t) PROVE DocTypes' /\ TaskTypesOK' /\ CountTypes'
  <2>1. task[t].n \in Notes /\ task[t].update \in {"whole", "more"}
    BY <1>8, TaskTypes DEF Base, TaskInv, JournalText
  <2>2. texts' \in [Notes -> Texts]
    BY <1>1, <1>8, <2>1, TextIs DEF JournalText
  <2> QED BY <1>1, <1>8, <2>2, JournalTextTask DEF JournalText, rooms, bounds, history
<1>9. ASSUME NEW t \in Tasks, NEW v \in Vaults, NEW n \in Notes, Restore(t, v, n)
      PROVE  DocTypes' /\ TaskTypesOK' /\ CountTypes'
  BY <1>1, <1>9, RestoreTask DEF Restore, rooms, bounds, history
<1>10. ASSUME NEW t \in Tasks, NEW v \in Vaults, Erase(t, v)
       PROVE  DocTypes' /\ TaskTypesOK' /\ CountTypes'
  <2>1. /\ room' \in [Vaults -> Docs \cup {None}] /\ cut' \in [Vaults -> Docs \cup {None}]
        /\ met' \subseteq Vaults \cup Notes /\ ops' \in Nat
    BY <1>1, <1>10 DEF Erase
  <2>2. TaskTypesOK'
    BY <1>1, <1>10, EraseTask DEF Erase
  <2>3. CountTypes'
    BY <1>1, <1>10, <2>1 DEF Erase, bounds
  <2>4. DocTypes'
    BY <1>1, <1>10, <2>1 DEF Erase, tables
  <2> QED BY <2>2, <2>3, <2>4
<1>11. ASSUME NEW t \in Tasks, EraseTables(t) PROVE DocTypes' /\ TaskTypesOK' /\ CountTypes'
  <2>1. task[t].v \in Vaults
    BY <1>11 DEF Base, TaskInv, EraseTables
  <2>2. docs' \in [Vaults -> Docs]
    BY <1>1, <1>11, BlankDoc DEF EraseTables
  <2>3. erased' \subseteq Vaults /\ gone' \subseteq Notes
    BY <1>1, <1>11, <2>1 DEF EraseTables
  <2> QED BY <1>1, <1>11, <2>2, <2>3, EraseTablesTask DEF EraseTables, rooms, bounds
<1>12. ASSUME NEW n \in Notes, Age(n) PROVE DocTypes' /\ TaskTypesOK' /\ CountTypes'
  BY <1>1, <1>12 DEF Age, rooms, bounds, history
<1>13. ASSUME PurgeTrash PROVE DocTypes' /\ TaskTypesOK' /\ CountTypes'
  <2>1. texts' \in [Notes -> Texts]
    BY <1>1, <1>13 DEF PurgeTrash, Texts
  <2>2. /\ gone' \subseteq Notes /\ met' \subseteq Vaults \cup Notes /\ purging' \in BOOLEAN
        /\ purges' \in Nat
    BY <1>1, <1>13 DEF PurgeTrash, Aged
  <2> QED BY <1>1, <1>13, <2>1, <2>2 DEF PurgeTrash, rooms
<1>14. ASSUME Sweeps PROVE DocTypes' /\ TaskTypesOK' /\ CountTypes'
  <2>1. room' \in [Vaults -> Docs \cup {None}] /\ nroom' \in [Notes -> Texts \cup {None}]
    BY <1>1, <1>14 DEF Sweeps, DropUnheld
  <2> QED BY <1>1, <1>14, <2>1 DEF Sweeps
<1>15. ASSUME Crash PROVE DocTypes' /\ TaskTypesOK' /\ CountTypes'
  <2>1. room' = [v \in Vaults |-> None] /\ cut' = room' /\ nroom' = [n \in Notes |-> None]
    BY <1>15 DEF Crash
  <2>2. DocTypes'
    BY <1>1, <1>15, <2>1 DEF Crash, tables
  <2>3. behind' \subseteq Vaults
    BY <1>1, <1>15 DEF Crash
  <2>4. crashes' = crashes + 1 /\ purging' = FALSE /\ lock' = None
    BY <1>15 DEF Crash
  <2>5. CountTypes'
    <3>1. UNCHANGED <<ops, purges, erased, gone, met, born>>
      BY <1>15 DEF Crash
    <3>4. purging' \in BOOLEAN
      BY <2>4
    <3>2. ops' \in Nat /\ crashes' \in Nat /\ purges' \in Nat
      <4>1. ops \in Nat /\ crashes \in Nat /\ purges \in Nat
        BY <1>1 DEF TypeOK
      <4> QED BY <2>4, <3>1, <4>1
    <3>3. erased' \subseteq Vaults /\ gone' \subseteq Notes /\ met' \subseteq Vaults \cup Notes
          /\ born' \in [Notes -> (Vaults \X Paths) \cup {None}]
      BY <1>1, <3>1
    <3> QED BY <2>3, <3>2, <3>3, <3>4
  <2>6. TaskTypesOK'
    BY <2>4, CrashTask, <1>15
  <2> QED BY <2>2, <2>5, <2>6
<1> QED BY <1>2, <1>3, <1>4, <1>5, <1>6, <1>7, <1>8, <1>9, <1>10, <1>11, <1>12, <1>13, <1>14, <1>15,
           NextIs

\* Nobody forgets that a note has, or had, a row.
Known(n) == HasRow(n) \/ n \in gone

LEMMA KnownStep ==
  ASSUME Base, Next, NEW n \in Notes, Known(n)
  PROVE  Known(n)'
<1> USE DEF Known, HasRow
<1>1. ASSUME NEW t \in Tasks, DeriveVault(t) PROVE Known(n)'
  BY <1>1, DeriveStep DEF Base
<1>2. ASSUME NEW t \in Tasks, NEW v \in Vaults, NEW m \in Notes, Restore(t, v, m) PROVE Known(n)'
  <2>1. rows'[m] \in Row /\ (m # n => rows'[n] = rows[n]) /\ gone' = gone
    BY <1>2, RestoreStep DEF Base, Restore, history
  <2> QED BY <2>1, NoneAssumption
<1>3. ASSUME NEW t \in Tasks, EraseTables(t) PROVE Known(n)'
  BY <1>3 DEF EraseTables
<1>4. ASSUME NEW m \in Notes, Age(m) PROVE Known(n)'
  <2>1. rows'[m] \in Row /\ (m # n => rows'[n] = rows[n]) /\ gone' = gone
    BY <1>4, AgeRow DEF Base, Age, history
  <2> QED BY <2>1, NoneAssumption
<1>5. ASSUME PurgeTrash PROVE Known(n)'
  BY <1>5 DEF PurgeTrash
<1>6. CASE UNCHANGED <<rows, gone>>
  BY <1>6
<1>7. ASSUME NEW t \in Tasks, NEW v \in Vaults, NEW change \in Changes, Edits(t, v, change)
      PROVE  UNCHANGED <<rows, gone>>
  BY <1>7 DEF Edits, ApplyStep
<1>8. ASSUME \/ \E t \in Tasks : JournalVault(t) \/ TakeText(t) \/ JournalText(t)
             \/ \E t \in Tasks, m \in Notes : SyncText(t, m)
             \/ \E t \in Tasks, v \in Vaults, m \in Notes, p \in Paths : Create(t, v, m, p)
             \/ \E t \in Tasks, v \in Vaults : Erase(t, v)
             \/ Sweeps \/ Crash
      PROVE  UNCHANGED <<rows, gone>>
  BY <1>8 DEF JournalVault, TakeText, JournalText, SyncText, Create, Erase, Sweeps, Crash, tables, history
<1> QED BY <1>1, <1>2, <1>3, <1>4, <1>5, <1>6, <1>7, <1>8, NextIs

\* A request whose record stays goes on being about the same.
LEMMA TaskStays ==
  ASSUME Base, Next, NEW u \in Tasks, task'[u] = task[u], lock = u => lock' = u
  PROVE  TaskInv(u)'
<1>1. TaskInv(u)
  BY DEF Base
<1>2. task[u].pc = "restore" => Known(task[u].n)'
  BY <1>1, KnownStep DEF TaskInv, Known
<1> QED BY <1>1, <1>2 DEF TaskInv, Known, HasRow

LEMMA TaskInvStep ==
  ASSUME Base, Next, NEW u \in Tasks
  PROVE  TaskInv(u)'
<1>1. TaskInv(u) /\ TypeOK
  BY DEF Base
<1>2. ASSUME task'[u] = Idle PROVE TaskInv(u)'
  BY <1>2, IdleIs DEF TaskInv
<1>3. ASSUME NEW t \in Tasks, NEW v \in Vaults, NEW change \in Changes, Edits(t, v, change)
      PROVE  TaskInv(u)'
  <2>1. CASE u # t
    BY <1>3, <2>1, TaskStays DEF Edits, ApplyStep
  <2>2. CASE u = t
    <3>1. task'[t].pc = "vault" /\ task'[t].v = v
      BY <1>3 DEF Edits, ApplyStep
    <3>2. v # None
      BY NoneAssumption
    <3> QED BY <2>2, <3>1, <3>2 DEF TaskInv
  <2> QED BY <2>1, <2>2
<1>4. ASSUME NEW t \in Tasks, JournalVault(t) PROVE TaskInv(u)'
  <2>1. Others(t) /\ Keeps(t) /\ task[t].pc = "vault" /\ task'[t].pc = "derive" /\ lock' = lock
    BY <1>1, <1>4, JournalVaultTask DEF JournalVault
  <2>2. CASE u # t
    BY <2>1, <2>2, TaskStays DEF Others
  <2>3. CASE u = t
    BY <1>1, <2>1, <2>3 DEF TaskInv, Keeps
  <2> QED BY <2>2, <2>3
<1>5. ASSUME NEW t \in Tasks, DeriveVault(t) PROVE TaskInv(u)'
  <2>1. Others(t) /\ task'[t] = Idle /\ lock' = IF lock = t THEN None ELSE lock
    BY <1>1, <1>5, DeriveTask DEF DeriveVault
  <2>2. CASE u # t
    BY <2>1, <2>2, TaskStays DEF Others
  <2> QED BY <1>2, <2>1, <2>2
<1>6. ASSUME NEW t \in Tasks, NEW v \in Vaults, NEW n \in Notes, NEW p \in Paths, Create(t, v, n, p)
      PROVE  TaskInv(u)'
  <2>1. /\ Others(t)
        /\ task'[t].pc = "note" /\ task'[t].v = v /\ task'[t].n = n /\ task'[t].path = p
    BY <1>1, <1>6, CreateTask
  <2>5. ~ task'[t].old /\ task'[t].api
    BY <1>1, <1>6, CreateTask
  <2>4. lock = None /\ lock' = t
    BY <1>6 DEF Create, CreateLockFree
  <2>2. CASE u # t
    <3>1. lock # u
      BY <2>4, NoneAssumption
    <3> QED BY <2>1, <2>2, <3>1, TaskStays DEF Others
  <2>3. CASE u = t
    BY <2>1, <2>3, <2>4, <2>5 DEF TaskInv
  <2> QED BY <2>2, <2>3
<1>7. ASSUME NEW t \in Tasks, NEW n \in Notes, SyncText(t, n) PROVE TaskInv(u)'
  <2>1. /\ Others(t) /\ lock' = lock
        /\ task'[t].pc = "text" /\ task'[t].v = None /\ task'[t].n = n /\ task'[t].old = FALSE
    BY <1>1, <1>7, SyncTextTask DEF SyncText
  <2>2. CASE u # t
    BY <2>1, <2>2, TaskStays DEF Others
  <2>3. CASE u = t
    BY <2>1, <2>3 DEF TaskInv
  <2> QED BY <2>2, <2>3
<1>8. ASSUME NEW t \in Tasks, TakeText(t) PROVE TaskInv(u)'
  <2>0. TaskInv(t)
    BY DEF Base
  <2>1. Others(t) /\ Keeps(t) /\ task[t].pc = "text" /\ task'[t].pc = "note" /\ lock' = lock
    BY <1>1, <1>8, <2>0, TakeTextTask DEF TakeText
  <2>2. CASE u # t
    BY <2>1, <2>2, TaskStays DEF Others
  <2>3. CASE u = t
    BY <1>1, <2>1, <2>3 DEF TaskInv, Keeps
  <2> QED BY <2>2, <2>3
<1>9. ASSUME NEW t \in Tasks, JournalText(t) PROVE TaskInv(u)'
  <2>1. /\ Others(t) /\ lock' = lock /\ task[t].pc = "note"
        /\ task[t].v = None => task'[t] = Idle
        /\ task[t].v # None => task'[t].pc = "place" /\ Keeps(t)
    BY <1>1, <1>9, JournalTextTask DEF JournalText
  <2>2. CASE u # t
    BY <2>1, <2>2, TaskStays DEF Others
  <2>3. CASE u = t /\ task[t].v # None
    <3>1. task[t].v \in Vaults
      BY <1>1, <2>3, TaskTypes
    <3> QED BY <1>1, <2>1, <2>3, <3>1 DEF TaskInv, Keeps
  <2> QED BY <1>2, <2>1, <2>2, <2>3
<1>10. ASSUME NEW t \in Tasks, NEW v \in Vaults, NEW n \in Notes, Restore(t, v, n)
       PROVE  TaskInv(u)'
  <2>1. /\ Others(t)
        /\ task'[t].pc = "restore" /\ task'[t].v = v /\ task'[t].n = n /\ task'[t].path \in Paths
        /\ task'[t].old = FALSE
    BY <1>1, <1>10, RestoreTask, ZenonT(60)
  <2>2. HasRow(n) /\ lock' = lock
    BY <1>10 DEF Restore
  <2>3. Known(n)'
    BY <2>2, KnownStep DEF Known
  <2>4. CASE u # t
    BY <2>1, <2>2, <2>4, TaskStays DEF Others
  <2>5. CASE u = t
    BY <2>1, <2>3, <2>5 DEF TaskInv, Known, HasRow
  <2> QED BY <2>4, <2>5
<1>11. ASSUME NEW t \in Tasks, NEW v \in Vaults, Erase(t, v) PROVE TaskInv(u)'
  <2>5. lock' = lock
    BY <1>11 DEF Erase
  <2>1. task'[t].pc = "erase" /\ task'[t].v = v /\ task'[t].old = FALSE
    BY <1>1, <1>11, EraseTask
  <2>2. CASE u = t
    BY <2>1, <2>2 DEF TaskInv
  <2>3. CASE u # t
    <3>1. v # None
      BY NoneAssumption
    <3>2. /\ task'[u].pc = task[u].pc /\ task'[u].v = task[u].v /\ task'[u].n = task[u].n
          /\ task'[u].path = task[u].path
          /\ task'[u].api <=> task[u].api
          /\ IF Holding(u, v) THEN task'[u].old ELSE task'[u] = task[u]
      BY <1>1, <1>11, <2>3, EraseOther
    <3>3. CASE Holding(u, v)
      BY <1>1, <2>5, <3>1, <3>2, <3>3 DEF TaskInv, Holding
    <3>4. CASE ~ Holding(u, v)
      BY <2>5, <3>2, <3>4, TaskStays
    <3> QED BY <3>3, <3>4
  <2> QED BY <2>2, <2>3
<1>12. ASSUME NEW t \in Tasks, EraseTables(t) PROVE TaskInv(u)'
  <2>1. Others(t) /\ task'[t] = Idle /\ lock' = lock
    BY <1>1, <1>12, EraseTablesTask DEF EraseTables
  <2>2. CASE u # t
    BY <2>1, <2>2, TaskStays DEF Others
  <2> QED BY <1>2, <2>1, <2>2
<1>13. ASSUME UNCHANGED <<task, lock>> PROVE TaskInv(u)'
  BY <1>13, TaskStays
<1>14. ASSUME \/ \E n \in Notes : Age(n)
              \/ PurgeTrash \/ Sweeps
       PROVE  TaskInv(u)'
  BY <1>13, <1>14 DEF Age, PurgeTrash, Sweeps
<1>15. ASSUME Crash PROVE TaskInv(u)'
  BY <1>2, <1>15, CrashTask
<1> QED BY <1>3, <1>4, <1>5, <1>6, <1>7, <1>8, <1>9, <1>10, <1>11, <1>12, <1>14, <1>15, NextIs

-----------------------------------------------------------------------------
\* A vault being erased is until it is, or until a restart.
LEMMA ErasingStays ==
  ASSUME Base, Next, ~ Crash, NEW v \in Vaults, Erasing(v) \/ v \in erased
  PROVE  Erasing(v)' \/ v \in erased'
<1>1. TypeOK
  BY DEF Base
<1>2. ASSUME NEW t \in Tasks, task[t].pc # "erase", Others(t), erased' = erased
      PROVE  Erasing(v)' \/ v \in erased'
  BY <1>2 DEF Erasing, Others
<1>3. ASSUME NEW t \in Tasks, NEW w \in Vaults, NEW change \in Changes, Edits(t, w, change)
      PROVE  Erasing(v)' \/ v \in erased'
  BY <1>2, <1>3 DEF Edits, ApplyStep, Others
<1>4. ASSUME NEW t \in Tasks, JournalVault(t) PROVE Erasing(v)' \/ v \in erased'
  BY <1>1, <1>2, <1>4, JournalVaultTask DEF JournalVault, history
<1>5. ASSUME NEW t \in Tasks, DeriveVault(t) PROVE Erasing(v)' \/ v \in erased'
  BY <1>1, <1>2, <1>5, DeriveTask DEF DeriveVault
<1>6. ASSUME NEW t \in Tasks, NEW w \in Vaults, NEW n \in Notes, NEW p \in Paths, Create(t, w, n, p)
      PROVE  Erasing(v)' \/ v \in erased'
  <2>1. task[t].pc = "idle" /\ Others(t)
    BY <1>1, <1>6, CreateTask
  <2> QED BY <1>2, <1>6, <2>1 DEF Create
<1>7. ASSUME NEW t \in Tasks, NEW n \in Notes, SyncText(t, n) PROVE Erasing(v)' \/ v \in erased'
  <2>1. task[t].pc = "idle" /\ Others(t)
    BY <1>1, <1>7, SyncTextTask
  <2> QED BY <1>2, <1>7, <2>1 DEF SyncText, history
<1>8. ASSUME NEW t \in Tasks, TakeText(t) PROVE Erasing(v)' \/ v \in erased'
  <2>1. task[t].pc = "text" /\ Others(t)
    BY <1>1, <1>8, TakeTextTask DEF Base
  <2> QED BY <1>2, <1>8, <2>1 DEF TakeText
<1>9. ASSUME NEW t \in Tasks, JournalText(t) PROVE Erasing(v)' \/ v \in erased'
  <2>1. task[t].pc = "note" /\ Others(t)
    BY <1>1, <1>9, JournalTextTask
  <2> QED BY <1>2, <1>9, <2>1 DEF JournalText, history
<1>10. ASSUME NEW t \in Tasks, NEW w \in Vaults, NEW n \in Notes, Restore(t, w, n)
       PROVE  Erasing(v)' \/ v \in erased'
  <2>1. task[t].pc = "idle" /\ Others(t)
    BY <1>1, <1>10, RestoreTask
  <2> QED BY <1>2, <1>10, <2>1 DEF Restore, history
<1>11. ASSUME NEW t \in Tasks, NEW w \in Vaults, Erase(t, w) PROVE Erasing(v)' \/ v \in erased'
  <2>1. task[t].pc = "idle" /\ erased' = erased
    BY <1>11 DEF Erase, Free
  <2>2. ASSUME NEW u \in Tasks, u # t PROVE task'[u].pc = task[u].pc /\ task'[u].v = task[u].v
    BY <1>1, <1>11, <2>2, EraseOther
  <2> QED BY <2>1, <2>2 DEF Erasing
<1>12. ASSUME NEW t \in Tasks, EraseTables(t) PROVE Erasing(v)' \/ v \in erased'
  <2>1. Others(t) /\ erased' = erased \cup {task[t].v}
    BY <1>1, <1>12, EraseTablesTask DEF EraseTables
  <2> QED BY <2>1 DEF Erasing, Others
<1>13. ASSUME UNCHANGED <<task, erased>> PROVE Erasing(v)' \/ v \in erased'
  BY <1>13 DEF Erasing
<1>14. ASSUME (\E n \in Notes : Age(n)) \/ PurgeTrash \/ Sweeps PROVE Erasing(v)' \/ v \in erased'
  BY <1>13, <1>14 DEF Age, PurgeTrash, Sweeps, history
<1> QED BY <1>3, <1>4, <1>5, <1>6, <1>7, <1>8, <1>9, <1>10, <1>11, <1>12, <1>14, NextIs

\* A request whose hold stays, of rooms that do.
HoldStaysOf(u) ==
  \A v \in Vaults : Holding(u, v)' => /\ Holding(u, v)
                                      /\ task'[u].old <=> task[u].old
                                      /\ task[u].old /\ cut[v] # None => cut'[v] # None
                                      /\ ~ task[u].old /\ room[v] # None => room'[v] # None

LEMMA HoldStays ==
  ASSUME Base, Next, ~ Crash, NEW u \in Tasks, HoldStaysOf(u)
  PROVE  HoldInv(u)'
<1>1. HoldInv(u)
  BY DEF Base
<1>2. ASSUME NEW v \in Vaults, Holding(u, v)'
      PROVE  IF task'[u].old THEN cut'[v] # None /\ (Erasing(v)' \/ v \in erased') ELSE room'[v] # None
  <2>1. /\ Holding(u, v)
        /\ task'[u].old <=> task[u].old
        /\ task[u].old /\ cut[v] # None => cut'[v] # None
        /\ ~ task[u].old /\ room[v] # None => room'[v] # None
    BY <1>2 DEF HoldStaysOf
  <2>2. IF task[u].old THEN cut[v] # None /\ (Erasing(v) \/ v \in erased) ELSE room[v] # None
    BY <1>1, <2>1 DEF HoldInv
  <2>3. CASE task[u].old
    BY <2>1, <2>2, <2>3, ErasingStays
  <2>4. CASE ~ task[u].old
    BY <2>1, <2>2, <2>4
  <2> QED BY <2>3, <2>4
<1> QED BY <1>2 DEF HoldInv

LEMMA HoldInvStep ==
  ASSUME Base, Next, NEW u \in Tasks
  PROVE  HoldInv(u)'
<1>1. TypeOK /\ TaskInv(u) /\ HoldInv(u)
  BY DEF Base
<1>2. ASSUME task'[u].pc \notin {"note", "place", "vault", "derive"} \/ task'[u].v = None
      PROVE  HoldInv(u)'
  BY <1>2, NoneAssumption DEF HoldInv, Holding
<1>3. ASSUME NEW t \in Tasks, u # t, ~ Crash, Others(t), cut' = cut, room' = room PROVE HoldInv(u)'
  <2>1. HoldStaysOf(u)
    BY <1>3 DEF HoldStaysOf, Others, Holding
  <2> QED BY <1>3, <2>1, HoldStays
<1>4. ASSUME Crash PROVE HoldInv(u)'
  BY <1>2, <1>4, CrashTask, IdleIs
<1>5. ASSUME NEW t \in Tasks, NEW v \in Vaults, NEW change \in Changes, Edits(t, v, change), ~ Crash
      PROVE  HoldInv(u)'
  <2>1. /\ room' \in [Vaults -> Docs \cup {None}] /\ cut' \in [Vaults -> Docs \cup {None}]
        /\ \A w \in Vaults : w # v => room'[w] = room[w] /\ cut'[w] = cut[w]
        /\ IF task[t].old THEN room' = room /\ cut'[v] # None ELSE cut' = cut /\ room'[v] # None
    <3>1. Changed(RoomOf(v), change, ops + 1) # None
      BY <1>1, <1>5, RoomTypes, ChangedIs, DocIs DEF Edits, ApplyStep
    <3>2. task[t].old => Changed(cut[v], change, ops + 1) # None
      <4>1. task[t].old => cut[v] \in Docs
        BY <1>1, <1>5, RoomTypes DEF Edits, ApplyStep
      <4> QED BY <1>5, <4>1, ChangedIs, DocIs DEF Edits, ApplyStep
    <3> QED BY <1>1, <1>5, <3>1, <3>2 DEF Edits, ApplyStep, TypeOK
  <2>2. CASE u # t
    <3>1. task'[u] = task[u]
      BY <1>5, <2>2 DEF Edits, ApplyStep
    <3>2. HoldStaysOf(u)
      BY <2>1, <3>1 DEF HoldStaysOf, Holding
    <3> QED BY <1>5, <3>2, HoldStays
  <2>3. CASE u = t
    <3>1. task'[t].v = v /\ task'[t].old = task[t].old
      BY <1>5 DEF Edits, ApplyStep
    <3>2. task[t].old => Holding(t, v)
      BY <1>1, <1>5, <2>3 DEF Edits, ApplyStep, TaskInv, Holding
    <3>3. task[t].old => Erasing(v) \/ v \in erased
      BY <1>1, <2>3, <3>2 DEF HoldInv
    <3>4. task[t].old => Erasing(v)' \/ v \in erased'
      BY <1>5, <3>3, ErasingStays
    <3> QED BY <2>1, <2>3, <3>1, <3>4 DEF HoldInv, Holding
  <2> QED BY <2>2, <2>3
<1>6. ASSUME NEW t \in Tasks, JournalVault(t), ~ Crash PROVE HoldInv(u)'
  <2>1. /\ Others(t) /\ Keeps(t) /\ task[t].pc = "vault" /\ task'[t].pc = "derive"
        /\ cut' = cut /\ room' = room
    BY <1>1, <1>6, JournalVaultTask DEF JournalVault, rooms
  <2>2. CASE u = t
    <3>1. HoldStaysOf(u)
      BY <2>1, <2>2 DEF HoldStaysOf, Keeps, Holding
    <3> QED BY <1>6, <3>1, HoldStays
  <2> QED BY <1>3, <1>6, <2>1, <2>2
<1>7. ASSUME NEW t \in Tasks, DeriveVault(t), ~ Crash PROVE HoldInv(u)'
  <2>1. Others(t) /\ task'[t] = Idle /\ cut' = cut /\ room' = room
    BY <1>1, <1>7, DeriveTask DEF DeriveVault, rooms
  <2> QED BY <1>2, <1>3, <1>7, <2>1, IdleIs
<1>8. ASSUME NEW t \in Tasks, NEW v \in Vaults, NEW n \in Notes, NEW p \in Paths,
             Create(t, v, n, p), ~ Crash
      PROVE  HoldInv(u)'
  <2>1. Others(t) /\ task'[t].v = v
    BY <1>1, <1>8, CreateTask
  <2>2. ~ task'[t].old
    BY <1>1, <1>8, CreateTask
  <2>3. cut' = cut /\ room'[v] # None /\ \A w \in Vaults : w # v => room'[w] = room[w]
    <3>1. RoomOf(v) # None
      BY <1>1, RoomTypes, DocIs
    <3> QED BY <1>1, <1>8, <3>1 DEF Create, TypeOK
  <2>4. CASE u = t
    BY <2>1, <2>2, <2>3, <2>4 DEF HoldInv, Holding
  <2>5. CASE u # t
    <3>1. HoldStaysOf(u)
      BY <2>1, <2>3, <2>5 DEF HoldStaysOf, Others, Holding
    <3> QED BY <1>8, <3>1, HoldStays
  <2> QED BY <2>4, <2>5
<1>9. ASSUME NEW t \in Tasks, NEW n \in Notes, SyncText(t, n), ~ Crash PROVE HoldInv(u)'
  <2>1. Others(t) /\ task'[t].pc = "text"
    BY <1>1, <1>9, SyncTextTask
  <2>2. cut' = cut /\ room' = room
    BY <1>9 DEF SyncText, rooms
  <2> QED BY <1>2, <1>3, <1>9, <2>1, <2>2
<1>10. ASSUME NEW t \in Tasks, TakeText(t), ~ Crash PROVE HoldInv(u)'
  <2>0. TaskInv(t)
    BY DEF Base
  <2>1. Others(t) /\ Keeps(t) /\ task[t].pc = "text" /\ cut' = cut /\ room' = room
    BY <1>1, <1>10, <2>0, TakeTextTask DEF TakeText
  <2>2. task'[t].v = None
    BY <2>0, <2>1 DEF TaskInv, Keeps
  <2> QED BY <1>2, <1>3, <1>10, <2>1, <2>2
<1>11. ASSUME NEW t \in Tasks, JournalText(t), ~ Crash PROVE HoldInv(u)'
  <2>1. /\ Others(t) /\ task[t].pc = "note" /\ cut' = cut /\ room' = room
        /\ task[t].v = None => task'[t] = Idle
        /\ task[t].v # None => task'[t].pc = "place" /\ Keeps(t)
    BY <1>1, <1>11, JournalTextTask DEF JournalText, rooms
  <2>2. CASE u = t /\ task[t].v # None
    <3>1. HoldStaysOf(u)
      BY <2>1, <2>2 DEF HoldStaysOf, Keeps, Holding
    <3> QED BY <1>11, <3>1, HoldStays
  <2> QED BY <1>2, <1>3, <1>11, <2>1, <2>2, IdleIs
<1>12. ASSUME NEW t \in Tasks, NEW v \in Vaults, NEW n \in Notes, Restore(t, v, n), ~ Crash
       PROVE  HoldInv(u)'
  <2>1. Others(t) /\ task'[t].pc = "restore"
    BY <1>1, <1>12, RestoreTask
  <2>2. cut' = cut /\ room' = room
    BY <1>12 DEF Restore, rooms
  <2> QED BY <1>2, <1>3, <1>12, <2>1, <2>2
<1>13. ASSUME NEW t \in Tasks, NEW v \in Vaults, Erase(t, v), ~ Crash PROVE HoldInv(u)'
  <2>1. task'[t].pc = "erase" /\ task'[t].v = v
    BY <1>1, <1>13, EraseTask
  <2>2. CASE u = t
    BY <1>2, <2>1, <2>2
  <2>3. CASE u # t
    <3>1. /\ task'[u].pc = task[u].pc /\ task'[u].v = task[u].v
          /\ IF Holding(u, v) THEN task'[u].old ELSE task'[u] = task[u]
      BY <1>1, <1>13, <2>3, EraseOther
    <3>2. \A w \in Vaults : w # v => room'[w] = room[w] /\ cut'[w] = cut[w]
      BY <1>1, <1>13 DEF Erase, TypeOK
    <3>3. CASE Holding(u, v)
      <4>1. room[v] # None
        BY <1>1, <1>13, <3>3 DEF HoldInv, Erase
      <4>2. cut'[v] = room[v]
        BY <1>1, <1>13, <3>3 DEF Erase, TypeOK
      <4>3. Erasing(v)'
        BY <2>1 DEF Erasing
      <4>4. \A w \in Vaults : Holding(u, w)' => w = v
        BY <3>1, <3>3 DEF Holding
      <4> QED BY <3>1, <3>3, <4>1, <4>2, <4>3, <4>4 DEF HoldInv
    <3>4. CASE ~ Holding(u, v)
      <4>1. HoldStaysOf(u)
        BY <3>1, <3>2, <3>4 DEF HoldStaysOf, Holding
      <4> QED BY <1>13, <4>1, HoldStays
    <3> QED BY <3>3, <3>4
  <2> QED BY <2>2, <2>3
<1>14. ASSUME NEW t \in Tasks, EraseTables(t), ~ Crash PROVE HoldInv(u)'
  <2>1. Others(t) /\ task'[t] = Idle /\ cut' = cut /\ room' = room
    BY <1>1, <1>14, EraseTablesTask DEF EraseTables, rooms
  <2> QED BY <1>2, <1>3, <1>14, <2>1, IdleIs
<1>15. ASSUME UNCHANGED <<task, room, cut>>, ~ Crash PROVE HoldInv(u)'
  <2>1. HoldStaysOf(u)
    BY <1>15 DEF HoldStaysOf, Holding
  <2> QED BY <1>15, <2>1, HoldStays
<1>16. ASSUME (\E n \in Notes : Age(n)) \/ PurgeTrash, ~ Crash PROVE HoldInv(u)'
  BY <1>15, <1>16 DEF Age, PurgeTrash, rooms
<1>17. ASSUME Sweeps, ~ Crash PROVE HoldInv(u)'
  <2>1. task' = task /\ cut' = cut
    BY <1>17 DEF Sweeps
  <2>2. ASSUME NEW v \in Vaults, Holding(u, v), ~ task[u].old PROVE room'[v] = room[v]
    <3>1. ~ Unheld(v)
      BY <2>2 DEF Unheld
    <3> QED BY <1>17, <3>1 DEF Sweeps, DropUnheld
  <2>3. HoldStaysOf(u)
    BY <2>1, <2>2 DEF HoldStaysOf, Holding
  <2> QED BY <1>17, <2>3, HoldStays
<1> QED BY <1>4, <1>5, <1>6, <1>7, <1>8, <1>9, <1>10, <1>11, <1>12, <1>13, <1>14, <1>16, <1>17, NextIs

LEMMA BaseStep == ASSUME Base, Next PROVE Base'
<1>1. (\A t \in Tasks : TaskInv(t)') /\ (\A t \in Tasks : HoldInv(t)')
  BY TaskInvStep, HoldInvStep
<1>2. RowTypes' /\ Apart(rows')
  BY RowsStep DEF Base
<1>3. LiveApart'
  <2>1. ASSUME NEW v \in Vaults, NEW n \in Live(v)', NEW m \in Live(v)', rows'[n].path = rows'[m].path
        PROVE  n = m
    BY <1>2, <2>1 DEF Live, Apart
  <2> QED BY <2>1 DEF LiveApart
<1>4. Types'
  BY <1>2, TypesStep DEF Types
<1>5. TypeOK'
  BY <1>1, <1>3, <1>4 DEF TypeOK, Types, RowTypes, DocTypes, TaskTypesOK, CountTypes, LiveApart, TaskInv
<1> QED BY <1>1, <1>5 DEF Base

-----------------------------------------------------------------------------
(***************************************************************************)
(* A vault's room, what is stored of it, and what is pending.              *)
(***************************************************************************)
LEMMA StampsStep ==
  ASSUME Base, StampsPast, Next
  PROVE  StampsPast'
<1>1. /\ TypeOK /\ ops \in Nat
      /\ docs \in [Vaults -> Docs] /\ room \in [Vaults -> Docs \cup {None}]
  BY DEF Base, TypeOK
<1>2. \A v \in Vaults, n \in Notes : RoomOf(v)[n].at <= ops
  BY DEF StampsPast, RoomOf
<1>3. \A v \in Vaults, n \in Notes : docs[v][n].at \in Nat /\ RoomOf(v)[n].at \in Nat
  BY <1>1, RoomTypes, DocIs
<1>4. ASSUME ops' \in {ops, ops + 1},
             \A v \in Vaults : /\ docs'[v] \in {docs[v], Blank}
                               /\ room'[v] \in {room[v], docs[v], None},
             \A t \in Tasks : task'[t].pc = "vault" => task[t].pc = "vault" /\ task'[t].at = task[t].at
      PROVE  StampsPast'
  <2>1. ops' \in Nat /\ ops <= ops'
    BY <1>1, <1>4
  <2>2. ASSUME NEW v \in Vaults, NEW n \in Notes
        PROVE  docs'[v][n].at <= ops' /\ (room'[v] # None => room'[v][n].at <= ops')
    <3>1. docs'[v][n].at = docs[v][n].at \/ docs'[v][n].at = 0
      BY <1>4 DEF Blank
    <3>2. docs[v][n].at <= ops /\ docs[v][n].at \in Nat
      BY <1>3 DEF StampsPast
    <3>3. room'[v] # None => room'[v] = RoomOf(v) \/ room'[v] = docs[v]
      BY <1>4 DEF RoomOf
    <3>4. RoomOf(v)[n].at <= ops /\ RoomOf(v)[n].at \in Nat
      BY <1>2, <1>3
    <3> QED BY <1>1, <2>1, <3>1, <3>2, <3>3, <3>4
  <2>3. ASSUME NEW t \in Tasks, task'[t].pc = "vault" PROVE task'[t].at \in 1 .. ops'
    <3>1. task[t].at \in 1 .. ops /\ task'[t].at = task[t].at
      BY <1>4, <2>3 DEF StampsPast
    <3> QED BY <1>1, <2>1, <3>1
  <2> QED BY <2>2, <2>3 DEF StampsPast
<1>5. ASSUME NEW t \in Tasks, NEW v \in Vaults, NEW change \in Changes, Edits(t, v, change)
      PROVE  StampsPast'
  <2>1. /\ ops' = ops + 1 /\ docs' = docs
        /\ \A w \in Vaults : w # v => room'[w] = room[w]
        /\ room'[v] = IF task[t].old THEN room[v] ELSE Changed(RoomOf(v), change, ops + 1)
    BY <1>1, <1>5 DEF Edits, ApplyStep
  <2>2. ASSUME NEW n \in Notes PROVE Changed(RoomOf(v), change, ops + 1)[n].at <= ops + 1
    <3>1. Changed(RoomOf(v), change, ops + 1)[n] =
            IF n \in DOMAIN change /\ ops + 1 > RoomOf(v)[n].at
            THEN [path |-> change[n], at |-> ops + 1] ELSE RoomOf(v)[n]
      BY <1>1, RoomTypes, ChangedIs
    <3> QED BY <1>1, <1>2, <1>3, <3>1
  <2>3. ASSUME NEW w \in Vaults, NEW n \in Notes
        PROVE  docs'[w][n].at <= ops' /\ (room'[w] # None => room'[w][n].at <= ops')
    <3>1. docs[w][n].at <= ops /\ docs[w][n].at \in Nat /\ RoomOf(w)[n].at <= ops /\ RoomOf(w)[n].at \in Nat
      BY <1>2, <1>3 DEF StampsPast
    <3>2. room[w] # None => room[w] = RoomOf(w)
      BY DEF RoomOf
    <3> QED BY <1>1, <2>1, <2>2, <3>1, <3>2
  <2>4. ASSUME NEW u \in Tasks, task'[u].pc = "vault" PROVE task'[u].at \in 1 .. ops'
    <3>1. CASE u = t
      BY <1>1, <1>5, <3>1 DEF Edits, ApplyStep
    <3>2. CASE u # t
      <4>1. task[u].at \in 1 .. ops /\ task'[u] = task[u]
        BY <1>5, <2>4, <3>2 DEF Edits, ApplyStep, StampsPast
      <4> QED BY <1>1, <2>1, <4>1
    <3> QED BY <3>1, <3>2
  <2> QED BY <2>3, <2>4 DEF StampsPast
<1>6. ASSUME NEW t \in Tasks, JournalVault(t) PROVE StampsPast'
  <2>1. /\ task[t].v \in Vaults /\ task[t].change \in Changes /\ task[t].at \in Nat
        /\ task[t].pc = "vault"
    BY <1>1, <1>6, TaskTypes DEF Base, TaskInv, JournalVault
  <2>2. /\ ops' = ops /\ room' = room
        /\ \A w \in Vaults : docs'[w] = IF w = task[t].v THEN Changed(docs[w], task[t].change, task[t].at)
                                        ELSE docs[w]
    BY <1>1, <1>6 DEF JournalVault, rooms
  <2>3. task[t].at <= ops
    BY <1>1, <2>1 DEF StampsPast
  <2>4. ASSUME NEW w \in Vaults, NEW n \in Notes PROVE docs'[w][n].at <= ops
    <3>1. Changed(docs[w], task[t].change, task[t].at)[n] =
            IF n \in DOMAIN task[t].change /\ task[t].at > docs[w][n].at
            THEN [path |-> task[t].change[n], at |-> task[t].at] ELSE docs[w][n]
      BY <1>1, <2>1, ChangedIs
    <3>2. docs[w][n].at <= ops
      BY DEF StampsPast
    <3> QED BY <2>2, <2>3, <3>1, <3>2
  <2>5. ASSUME NEW u \in Tasks, task'[u].pc = "vault" PROVE task'[u].at \in 1 .. ops'
    <3>1. task'[u] = task[u]
      BY <1>1, <1>6, <2>5, JournalVaultTask DEF Others
    <3> QED BY <2>2, <2>5, <3>1 DEF StampsPast
  <2> QED BY <2>2, <2>4, <2>5 DEF StampsPast
<1>7. ASSUME NEW t \in Tasks, DeriveVault(t) PROVE StampsPast'
  BY <1>1, <1>4, <1>7, DeriveTask, IdleIs DEF DeriveVault, rooms, Others
<1>8. ASSUME NEW t \in Tasks, NEW v \in Vaults, NEW n \in Notes, NEW p \in Paths, Create(t, v, n, p)
      PROVE  StampsPast'
  <2>1. Others(t) /\ task'[t].pc = "note"
    BY <1>1, <1>8, CreateTask
  <2>2. /\ ops' = ops /\ docs' = docs
        /\ \A w \in Vaults : room'[w] \in {room[w], docs[w]}
    BY <1>1, <1>8 DEF Create, tables, RoomOf
  <2> QED BY <1>4, <2>1, <2>2 DEF Others
<1>9. ASSUME NEW t \in Tasks, NEW n \in Notes, SyncText(t, n) PROVE StampsPast'
  <2>1. Others(t) /\ task'[t].pc = "text"
    BY <1>1, <1>9, SyncTextTask
  <2>2. ops' = ops + 1 /\ docs' = docs /\ room' = room
    BY <1>9 DEF SyncText, tables, rooms
  <2> QED BY <1>4, <2>1, <2>2 DEF Others
<1>10. ASSUME NEW t \in Tasks, TakeText(t) PROVE StampsPast'
  <2>1. Others(t) /\ task'[t].pc = "note"
    BY <1>1, <1>10, TakeTextTask DEF Base
  <2>2. ops' = ops /\ docs' = docs /\ room' = room
    BY <1>10 DEF TakeText, tables
  <2> QED BY <1>4, <2>1, <2>2 DEF Others
<1>11. ASSUME NEW t \in Tasks, JournalText(t) PROVE StampsPast'
  <2>1. Others(t) /\ (task'[t] = Idle \/ task'[t].pc = "place")
    BY <1>1, <1>11, JournalTextTask
  <2>2. ops' = ops /\ docs' = docs /\ room' = room
    BY <1>11 DEF JournalText, rooms
  <2> QED BY <1>4, <2>1, <2>2, IdleIs DEF Others
<1>12. ASSUME NEW t \in Tasks, NEW v \in Vaults, NEW n \in Notes, Restore(t, v, n)
       PROVE  StampsPast'
  <2>1. Others(t) /\ task'[t].pc = "restore"
    BY <1>1, <1>12, RestoreTask
  <2>2. ops' = ops /\ docs' = docs /\ room' = room
    BY <1>12 DEF Restore, rooms
  <2> QED BY <1>4, <2>1, <2>2 DEF Others
<1>13. ASSUME NEW t \in Tasks, NEW v \in Vaults, Erase(t, v) PROVE StampsPast'
  <2>1. task'[t].pc = "erase"
    BY <1>1, <1>13, EraseTask
  <2>2. ASSUME NEW u \in Tasks, u # t PROVE task'[u].pc = task[u].pc /\ task'[u].at = task[u].at
    BY <1>1, <1>13, <2>2, EraseOther
  <2>3. ops' = ops + 1 /\ docs' = docs /\ \A w \in Vaults : room'[w] \in {room[w], None}
    BY <1>1, <1>13 DEF Erase, tables
  <2> QED BY <1>4, <2>1, <2>2, <2>3
<1>14. ASSUME NEW t \in Tasks, EraseTables(t) PROVE StampsPast'
  <2>1. Others(t) /\ task'[t] = Idle
    BY <1>1, <1>14, EraseTablesTask
  <2>2. ops' = ops /\ room' = room /\ \A w \in Vaults : docs'[w] \in {docs[w], Blank}
    BY <1>1, <1>14 DEF EraseTables, rooms
  <2> QED BY <1>4, <2>1, <2>2, IdleIs DEF Others
<1>15. ASSUME (\E n \in Notes : Age(n)) \/ PurgeTrash PROVE StampsPast'
  <2>1. UNCHANGED <<docs, room, ops, task>>
    BY <1>15 DEF Age, PurgeTrash, rooms
  <2> QED BY <1>4, <2>1
<1>16. ASSUME Sweeps PROVE StampsPast'
  <2>1. UNCHANGED <<docs, ops, task>> /\ \A w \in Vaults : room'[w] \in {room[w], None}
    BY <1>16 DEF Sweeps, DropUnheld
  <2> QED BY <1>4, <2>1
<1>17. ASSUME Crash PROVE StampsPast'
  <2>1. /\ UNCHANGED <<docs, ops>> /\ \A w \in Vaults : room'[w] = None
        /\ \A u \in Tasks : task'[u] = Idle
    BY <1>17 DEF Crash, tables
  <2> QED BY <1>4, <2>1, IdleIs
<1> QED BY <1>5, <1>6, <1>7, <1>8, <1>9, <1>10, <1>11, <1>12, <1>13, <1>14, <1>15, <1>16, <1>17, NextIs

\* A room nobody works in has nothing pending, and is what is stored.
LEMMA NotPending ==
  ASSUME Base, NEW v \in Vaults, VaultInv(v), room[v] = None \/ Unheld(v)
  PROVE  Pending(v) = {}
<1>1. ASSUME NEW t \in Pending(v) PROVE FALSE
  <2>1. t \in Tasks /\ Holding(t, v)
    BY DEF Pending, Holding
  <2>2. ~ task[t].old
    BY <2>1 DEF VaultInv, Pending
  <2>3. room[v] # None
    BY <2>1, <2>2 DEF Base, HoldInv
  <2> QED BY <2>1, <2>2, <2>3 DEF Unheld
<1> QED BY <1>1

LEMMA RoomCaughtUp ==
  ASSUME Base, NEW v \in Vaults, VaultInv(v), NEW n \in Notes
  PROVE  CaughtAs(v, n, RoomOf(v)[n])
<1>1. CASE room[v] # None
  BY <1>1 DEF VaultInv, CaughtUp, RoomOf
<1>2. CASE room[v] = None
  <2>1. Touching(v, n) = {}
    BY <1>2, NotPending DEF Touching
  <2>2. docs[v][n].at \in Nat
    BY RoomTypes, DocIs DEF Base
  <2> QED BY <1>2, <2>1, <2>2 DEF CaughtAs, RoomOf
<1> QED BY <1>1, <1>2

LEMMA RoomIsDocs ==
  ASSUME Base, NEW v \in Vaults, VaultInv(v), Unheld(v)
  PROVE  RoomOf(v) = docs[v]
<1>1. RoomOf(v) \in [Notes -> DocEntry] /\ docs[v] \in [Notes -> DocEntry]
  BY RoomTypes DEF Base, Docs, DocEntry
<1>2. ASSUME NEW n \in Notes PROVE RoomOf(v)[n] = docs[v][n]
  BY RoomCaughtUp, NotPending DEF CaughtAs, Touching
<1> QED BY <1>1, <1>2

-----------------------------------------------------------------------------
(***************************************************************************)
(* What a step may be to a vault nobody was in while it was erased.        *)
(***************************************************************************)
\* Nothing: its room may be dropped or loaded.
Still(v) ==
  /\ docs'[v] = docs[v]
  /\ room'[v] = RoomOf(v) \/ (room'[v] = None /\ RoomOf(v) = docs[v])
  /\ \A u \in Tasks : task'[u].pc = "vault" /\ task'[u].v = v <=> task[u].pc = "vault" /\ task[u].v = v
  /\ \A u \in Pending(v) : task'[u].change = task[u].change /\ task'[u].at = task[u].at

LEMMA StillRoom == ASSUME Base, NEW v \in Vaults, Still(v) PROVE RoomOf(v)' = RoomOf(v)
<1>1. RoomOf(v) # None
  BY RoomTypes, DocIs DEF Base
<1> QED BY <1>1 DEF Still, RoomOf

\* A step of a request that neither is nor becomes pending, and leaves the rooms.
LEMMA StillOf ==
  ASSUME NEW v \in Vaults, NEW t \in Tasks, Others(t),
         ~ (task[t].pc = "vault" /\ task[t].v = v), ~ (task'[t].pc = "vault" /\ task'[t].v = v),
         docs'[v] = docs[v], room'[v] = RoomOf(v) \/ room'[v] = room[v]
  PROVE  Still(v)
<1>1. room[v] = RoomOf(v) \/ (room[v] = None /\ RoomOf(v) = docs[v])
  BY DEF RoomOf
<1>2. \A u \in Tasks : task'[u].pc = "vault" /\ task'[u].v = v <=> task[u].pc = "vault" /\ task[u].v = v
  BY DEF Others
<1>3. \A u \in Pending(v) : task'[u].change = task[u].change /\ task'[u].at = task[u].at
  BY DEF Others, Pending
<1> QED BY <1>1, <1>2, <1>3 DEF Still

LEMMA NotOld ==
  ASSUME Base, NEW v \in Vaults, VaultInv(v), NEW t \in Tasks, NEW change \in Changes,
         Edits(t, v, change)
  PROVE  ~ task[t].old
<1>1. CASE task[t].pc = "idle"
  BY <1>1, IdleIs DEF Base, TaskInv
<1>2. CASE task[t].pc # "idle"
  BY <1>2 DEF Edits, ApplyStep, VaultInv
<1> QED BY <1>1, <1>2

LEMMA VaultKinds ==
  ASSUME Base, Next, NEW v \in Vaults, v \notin met', VaultInv(v)
  PROVE  \/ Still(v)
         \/ \E t \in Tasks, change \in Changes : Edits(t, v, change)
         \/ \E t \in Tasks : JournalVault(t) /\ task[t].v = v
         \/ \E t \in Tasks : EraseTables(t) /\ task[t].v = v
         \/ Crash
<1>1. TypeOK /\ docs \in [Vaults -> Docs] /\ room \in [Vaults -> Docs \cup {None}]
  BY DEF Base, TypeOK
<1>2. ASSUME NEW t \in Tasks, NEW w \in Vaults, NEW change \in Changes, Edits(t, w, change), w # v
      PROVE  Still(v)
  <2>1. Others(t) /\ docs' = docs /\ task[t].pc # "vault" /\ task'[t].v = w
    BY <1>2 DEF Edits, ApplyStep, Others
  <2>2. room'[v] = room[v]
    BY <1>1, <1>2 DEF Edits, ApplyStep
  <2> QED BY <1>2, <2>1, <2>2, StillOf
<1>3. ASSUME NEW t \in Tasks, JournalVault(t), task[t].v # v PROVE Still(v)
  <2>1. Others(t) /\ task'[t].pc = "derive"
    BY <1>1, <1>3, JournalVaultTask
  <2>2. docs'[v] = docs[v] /\ room' = room
    BY <1>1, <1>3 DEF JournalVault, rooms
  <2> QED BY <1>3, <2>1, <2>2, StillOf
<1>4. ASSUME NEW t \in Tasks, DeriveVault(t) PROVE Still(v)
  <2>1. Others(t) /\ task[t].pc = "derive" /\ task'[t] = Idle
    BY <1>1, <1>4, DeriveTask
  <2>2. docs' = docs /\ room' = room
    BY <1>4 DEF DeriveVault, rooms
  <2> QED BY <2>1, <2>2, StillOf, IdleIs
<1>5. ASSUME NEW t \in Tasks, NEW w \in Vaults, NEW n \in Notes, NEW p \in Paths, Create(t, w, n, p)
      PROVE  Still(v)
  <2>1. Others(t) /\ task[t].pc = "idle" /\ task'[t].pc = "note"
    BY <1>1, <1>5, CreateTask
  <2>2. docs' = docs /\ (room'[v] = room[v] \/ room'[v] = RoomOf(v))
    BY <1>1, <1>5 DEF Create, tables
  <2> QED BY <2>1, <2>2, StillOf
<1>6. ASSUME NEW t \in Tasks, NEW n \in Notes, SyncText(t, n) PROVE Still(v)
  <2>1. Others(t) /\ task[t].pc = "idle" /\ task'[t].pc = "text"
    BY <1>1, <1>6, SyncTextTask
  <2>2. docs' = docs /\ room' = room
    BY <1>6 DEF SyncText, tables, rooms
  <2> QED BY <2>1, <2>2, StillOf
<1>7. ASSUME NEW t \in Tasks, TakeText(t) PROVE Still(v)
  <2>1. Others(t) /\ task[t].pc = "text" /\ task'[t].pc = "note"
    BY <1>1, <1>7, TakeTextTask DEF Base
  <2>2. docs' = docs /\ room' = room
    BY <1>7 DEF TakeText, tables
  <2> QED BY <2>1, <2>2, StillOf
<1>8. ASSUME NEW t \in Tasks, JournalText(t) PROVE Still(v)
  <2>1. Others(t) /\ task[t].pc = "note" /\ (task'[t] = Idle \/ task'[t].pc = "place")
    BY <1>1, <1>8, JournalTextTask
  <2>2. docs' = docs /\ room' = room
    BY <1>8 DEF JournalText, rooms
  <2> QED BY <2>1, <2>2, StillOf, IdleIs
<1>9. ASSUME NEW t \in Tasks, NEW w \in Vaults, NEW n \in Notes, Restore(t, w, n) PROVE Still(v)
  <2>1. Others(t) /\ task[t].pc = "idle" /\ task'[t].pc = "restore"
    BY <1>1, <1>9, RestoreTask
  <2>2. docs' = docs /\ room' = room
    BY <1>9 DEF Restore, rooms
  <2> QED BY <2>1, <2>2, StillOf
<1>10. ASSUME NEW t \in Tasks, NEW w \in Vaults, Erase(t, w) PROVE Still(v)
  <2>1. task[t].pc = "idle" /\ task'[t].pc = "erase"
    BY <1>1, <1>10, EraseTask
  <2>2. ASSUME NEW u \in Tasks, u # t
        PROVE  /\ task'[u].pc = task[u].pc /\ task'[u].v = task[u].v
               /\ task'[u].change = task[u].change /\ task'[u].at = task[u].at
    BY <1>1, <1>10, <2>2, EraseOther
  <2>3. docs' = docs
    BY <1>10 DEF Erase, tables
  <2>4. room'[v] = RoomOf(v) \/ (room'[v] = None /\ RoomOf(v) = docs[v])
    <3>1. CASE w # v
      BY <1>1, <1>10, <3>1 DEF Erase, RoomOf
    <3>2. CASE w = v
      <4>1. ~ \E u \in Tasks : Holding(u, v)
        BY <1>10, <3>2 DEF Erase
      <4>2. RoomOf(v) = docs[v]
        BY <4>1, RoomIsDocs DEF Unheld
      <4> QED BY <1>1, <1>10, <3>2, <4>2 DEF Erase
    <3> QED BY <3>1, <3>2
  <2>5. \A u \in Tasks :
          task'[u].pc = "vault" /\ task'[u].v = v <=> task[u].pc = "vault" /\ task[u].v = v
    BY <2>1, <2>2
  <2>6. \A u \in Pending(v) : task'[u].change = task[u].change /\ task'[u].at = task[u].at
    BY <2>1, <2>2 DEF Pending
  <2> QED BY <2>3, <2>4, <2>5, <2>6 DEF Still
<1>11. ASSUME NEW t \in Tasks, EraseTables(t), task[t].v # v PROVE Still(v)
  <2>1. Others(t) /\ task[t].pc = "erase" /\ task'[t] = Idle
    BY <1>1, <1>11, EraseTablesTask
  <2>2. docs'[v] = docs[v] /\ room' = room
    BY <1>1, <1>11 DEF EraseTables, rooms
  <2> QED BY <2>1, <2>2, StillOf, IdleIs
<1>12. ASSUME (\E n \in Notes : Age(n)) \/ PurgeTrash PROVE Still(v)
  BY <1>12 DEF Age, PurgeTrash, rooms, Still, RoomOf, Pending
<1>13. ASSUME Sweeps PROVE Still(v)
  <2>1. docs' = docs /\ task' = task /\ room'[v] = IF Unheld(v) THEN None ELSE room[v]
    BY <1>13 DEF Sweeps, DropUnheld
  <2>2. Unheld(v) => RoomOf(v) = docs[v]
    BY RoomIsDocs
  <2> QED BY <2>1, <2>2 DEF Still, RoomOf
<1> QED BY <1>2, <1>3, <1>4, <1>5, <1>6, <1>7, <1>8, <1>9, <1>10, <1>11, <1>12, <1>13, NextIs

\* Nobody is in a room an erase has cut out, and there is no other.
Unentered(v) ==
  /\ \A t \in Tasks : task[t].v = v => ~ task[t].old
  /\ Erasing(v) => room[v] = None

LEMMA UnenteredOf ==
  ASSUME NEW v \in Vaults, VaultInv(v), NEW t \in Tasks, Others(t),
         task'[t].pc # "erase" \/ task'[t].v # v, task'[t].v = v => ~ task'[t].old,
         room'[v] = room[v] \/ room'[v] = None \/ ~ Erasing(v)
  PROVE  Unentered(v)'
<1>1. Erasing(v)' => Erasing(v)
  BY DEF Erasing, Others
<1>2. \A u \in Tasks : task'[u].v = v => ~ task'[u].old
  BY DEF Others, VaultInv
<1> QED BY <1>1, <1>2 DEF Unentered, VaultInv

LEMMA UnenteredStep ==
  ASSUME Base, Next, NEW v \in Vaults, v \notin met', VaultInv(v)
  PROVE  Unentered(v)'
<1>1. TypeOK /\ docs \in [Vaults -> Docs] /\ room \in [Vaults -> Docs \cup {None}]
  BY DEF Base, TypeOK
<1>2. ASSUME NEW t \in Tasks, NEW w \in Vaults, NEW change \in Changes, Edits(t, w, change)
      PROVE  Unentered(v)'
  <2>1. Others(t) /\ task'[t].pc = "vault" /\ task'[t].v = w
    BY <1>2 DEF Edits, ApplyStep, Others
  <2>2. w = v => ~ task'[t].old
    BY <1>2, NotOld DEF Edits, ApplyStep
  <2>3. room'[v] = room[v] \/ w = v
    BY <1>1, <1>2 DEF Edits, ApplyStep
  <2>4. w = v => ~ Erasing(v)
    BY <1>2 DEF Edits, ApplyStep
  <2> QED BY <2>1, <2>2, <2>3, <2>4, UnenteredOf
<1>3. ASSUME NEW t \in Tasks, JournalVault(t) PROVE Unentered(v)'
  <2>1. Others(t) /\ Keeps(t) /\ task'[t].pc = "derive" /\ room' = room
    BY <1>1, <1>3, JournalVaultTask DEF JournalVault, rooms
  <2>2. task'[t].v = v => ~ task'[t].old
    BY <2>1 DEF Keeps, VaultInv
  <2> QED BY <2>1, <2>2, UnenteredOf
<1>4. ASSUME NEW t \in Tasks, DeriveVault(t) PROVE Unentered(v)'
  <2>1. Others(t) /\ task'[t] = Idle /\ room' = room
    BY <1>1, <1>4, DeriveTask DEF DeriveVault, rooms
  <2> QED BY <2>1, UnenteredOf, IdleIs
<1>5. ASSUME NEW t \in Tasks, NEW w \in Vaults, NEW n \in Notes, NEW p \in Paths, Create(t, w, n, p)
      PROVE  Unentered(v)'
  <2>1. Others(t) /\ task'[t].pc = "note" /\ task'[t].v = w
    BY <1>1, <1>5, CreateTask
  <2>2. ~ task'[t].old
    BY <1>1, <1>5, CreateTask
  <2>3. room'[v] = room[v] \/ ~ Erasing(v)
    BY <1>1, <1>5 DEF Create, Meets
  <2> QED BY <2>1, <2>2, <2>3, UnenteredOf
<1>6. ASSUME NEW t \in Tasks, NEW n \in Notes, SyncText(t, n) PROVE Unentered(v)'
  <2>1. Others(t) /\ task'[t].pc = "text" /\ task'[t].v = None
    BY <1>1, <1>6, SyncTextTask
  <2>2. room' = room
    BY <1>6 DEF SyncText, rooms
  <2> QED BY <2>1, <2>2, UnenteredOf, NoneAssumption
<1>7. ASSUME NEW t \in Tasks, TakeText(t) PROVE Unentered(v)'
  <2>0. TaskInv(t)
    BY DEF Base
  <2>1. Others(t) /\ Keeps(t) /\ task[t].pc = "text" /\ task'[t].pc = "note"
    BY <1>1, <1>7, <2>0, TakeTextTask
  <2>2. room' = room
    BY <1>7 DEF TakeText
  <2>3. task'[t].v = None
    BY <2>0, <2>1 DEF TaskInv, Keeps
  <2> QED BY <2>1, <2>2, <2>3, UnenteredOf, NoneAssumption
<1>8. ASSUME NEW t \in Tasks, JournalText(t) PROVE Unentered(v)'
  <2>1. /\ Others(t)
        /\ task'[t] = Idle \/ (task'[t].pc = "place" /\ Keeps(t))
    BY <1>1, <1>8, JournalTextTask
  <2>2. room' = room
    BY <1>8 DEF JournalText, rooms
  <2>3. task'[t].v = v => ~ task'[t].old
    BY <2>1, IdleIs DEF Keeps, VaultInv
  <2> QED BY <2>1, <2>2, <2>3, UnenteredOf, IdleIs
<1>9. ASSUME NEW t \in Tasks, NEW w \in Vaults, NEW n \in Notes, Restore(t, w, n)
      PROVE  Unentered(v)'
  <2>1. Others(t) /\ task'[t].pc = "restore" /\ task'[t].old = FALSE
    BY <1>1, <1>9, RestoreTask
  <2>2. room' = room
    BY <1>9 DEF Restore, rooms
  <2> QED BY <2>1, <2>2, UnenteredOf
<1>10. ASSUME NEW t \in Tasks, NEW w \in Vaults, Erase(t, w) PROVE Unentered(v)'
  <2>1. task'[t].v = w /\ task'[t].old = FALSE
    BY <1>1, <1>10, EraseTask
  <2>2. ASSUME NEW u \in Tasks, u # t
        PROVE  /\ task'[u].pc = task[u].pc /\ task'[u].v = task[u].v
               /\ IF Holding(u, w) THEN task'[u].old ELSE task'[u] = task[u]
    BY <1>1, <1>10, <2>2, EraseOther
  <2>3. ~ (w = v /\ \E u \in Tasks : Holding(u, v))
    BY <1>10 DEF Erase
  <2>4. ASSUME NEW u \in Tasks, task'[u].v = v PROVE ~ task'[u].old
    <3>1. CASE u = t
      BY <2>1, <3>1
    <3>2. CASE u # t
      BY <2>2, <2>3, <2>4, <3>2 DEF VaultInv, Holding
    <3> QED BY <3>1, <3>2
  <2>5. Erasing(v)' => room'[v] = None
    <3>1. room'[v] = IF w = v THEN None ELSE room[v]
      BY <1>1, <1>10 DEF Erase
    <3>2. w # v /\ Erasing(v)' => Erasing(v)
      BY <2>1, <2>2 DEF Erasing
    <3> QED BY <3>1, <3>2 DEF VaultInv
  <2> QED BY <2>4, <2>5 DEF Unentered
<1>11. ASSUME NEW t \in Tasks, EraseTables(t) PROVE Unentered(v)'
  <2>1. Others(t) /\ task'[t] = Idle /\ room' = room
    BY <1>1, <1>11, EraseTablesTask DEF EraseTables, rooms
  <2> QED BY <2>1, UnenteredOf, IdleIs
<1>12. ASSUME (\E n \in Notes : Age(n)) \/ PurgeTrash PROVE Unentered(v)'
  BY <1>12 DEF Age, PurgeTrash, rooms, Unentered, VaultInv, Erasing
<1>13. ASSUME Sweeps PROVE Unentered(v)'
  <2>1. task' = task /\ room'[v] \in {None, room[v]}
    BY <1>13 DEF Sweeps, DropUnheld
  <2> QED BY <2>1 DEF Unentered, VaultInv, Erasing
<1>14. ASSUME Crash PROVE Unentered(v)'
  <2>1. (\A u \in Tasks : task'[u] = Idle) /\ room'[v] = None
    BY <1>14, CrashTask DEF Crash
  <2> QED BY <2>1, IdleIs DEF Unentered
<1> QED BY <1>2, <1>3, <1>4, <1>5, <1>6, <1>7, <1>8, <1>9, <1>10, <1>11, <1>12, <1>13, <1>14, NextIs

\* What a change makes of the room, and of what is pending.
LEMMA EditedRoom ==
  ASSUME Base, StampsPast, NEW v \in Vaults, VaultInv(v), NEW t \in Tasks, NEW change \in Changes,
         Edits(t, v, change), NEW n \in Notes
  PROVE  /\ room'[v] # None /\ RoomOf(v)' = room'[v]
         /\ room'[v][n] = IF n \in DOMAIN change THEN [path |-> change[n], at |-> ops + 1]
                          ELSE RoomOf(v)[n]
         /\ docs'[v] = docs[v] /\ t \notin Touching(v, n)
         /\ Touching(v, n)' = IF n \in DOMAIN change THEN Touching(v, n) \cup {t} ELSE Touching(v, n)
         /\ \A u \in Touching(v, n) : task'[u] = task[u]
         /\ n \in DOMAIN change => Entry(t, n)' = room'[v][n]
<1>1. /\ TypeOK /\ ops \in Nat /\ room \in [Vaults -> Docs \cup {None}] /\ ~ task[t].old
      /\ RoomOf(v) \in Docs /\ RoomOf(v)[n].at \in Nat
  BY NotOld, RoomTypes, DocIs DEF Base, TypeOK
<1>2. room'[v] = Changed(RoomOf(v), change, ops + 1)
  BY <1>1 DEF Edits, ApplyStep
<1>3. RoomOf(v)[n].at <= ops
  BY DEF StampsPast, RoomOf
<1>4. /\ room'[v] \in Docs
      /\ room'[v][n] = IF n \in DOMAIN change /\ ops + 1 > RoomOf(v)[n].at
                       THEN [path |-> change[n], at |-> ops + 1] ELSE RoomOf(v)[n]
  BY <1>1, <1>2, ChangedIs
<1>5. room'[v] # None /\ RoomOf(v)' = room'[v]
  BY <1>4, DocIs DEF RoomOf
<1>6. room'[v][n] = IF n \in DOMAIN change THEN [path |-> change[n], at |-> ops + 1] ELSE RoomOf(v)[n]
  BY <1>1, <1>3, <1>4
<1>7. /\ Others(t) /\ docs'[v] = docs[v] /\ task[t].pc # "vault"
      /\ task'[t].pc = "vault" /\ task'[t].v = v /\ task'[t].change = change /\ task'[t].at = ops + 1
  BY DEF Edits, ApplyStep, Others
<1>8. t \notin Touching(v, n) /\ \A u \in Touching(v, n) : task'[u] = task[u]
  BY <1>7 DEF Touching, Pending, Others
<1>9. Touching(v, n)' = IF n \in DOMAIN change THEN Touching(v, n) \cup {t} ELSE Touching(v, n)
  BY <1>7 DEF Touching, Pending, Others
<1>10. n \in DOMAIN change => Entry(t, n)' = room'[v][n]
  BY <1>6, <1>7 DEF Entry
<1> QED BY <1>5, <1>6, <1>7, <1>8, <1>9, <1>10

\* What journaling makes of what is stored, and of what is pending.
LEMMA JournaledRoom ==
  ASSUME Base, NEW t \in Tasks, JournalVault(t), NEW v \in Vaults, task[t].v = v, NEW n \in Notes
  PROVE  /\ room' = room /\ Touching(v, n)' = Touching(v, n) \ {t}
         /\ docs'[v][n] = IF t \in Touching(v, n) /\ task[t].at > docs[v][n].at THEN Entry(t, n)
                          ELSE docs[v][n]
         /\ \A u \in Tasks : u # t => task'[u] = task[u]
<1> DEFINE c == task[t].change
           at == task[t].at
<1>1. /\ TypeOK /\ c \in Changes /\ at \in Nat
      /\ task[t].pc = "vault" /\ docs \in [Vaults -> Docs] /\ docs[v] \in Docs
  BY TaskTypes DEF Base, JournalVault, TypeOK
<1>2. Others(t) /\ task'[t].pc = "derive" /\ room' = room
  BY <1>1, JournalVaultTask DEF JournalVault, rooms
<1>3. docs'[v] = Changed(docs[v], c, at)
  BY <1>1 DEF JournalVault
<1>5. n \in DOMAIN c <=> t \in Touching(v, n)
  BY <1>1 DEF Touching, Pending
<1>7. Entry(t, n) = [path |-> c[n], at |-> at]
  BY DEF Entry
<1> HIDE DEF c, at
<1>4. docs'[v][n] = IF n \in DOMAIN c /\ at > docs[v][n].at
                    THEN [path |-> c[n], at |-> at] ELSE docs[v][n]
  BY <1>1, <1>3, ChangedIs
<1>6. Touching(v, n)' = Touching(v, n) \ {t}
  <2>1. ASSUME NEW u \in Tasks PROVE u \in Touching(v, n)' <=> u \in Touching(v, n) /\ u # t
    <3>1. CASE u = t
      BY <1>2, <3>1 DEF Touching, Pending
    <3>2. CASE u # t
      BY <1>2, <3>2 DEF Touching, Pending, Others
    <3> QED BY <3>1, <3>2
  <2>2. Touching(v, n)' \subseteq Tasks /\ Touching(v, n) \subseteq Tasks
    BY DEF Touching, Pending
  <2> QED BY <2>1, <2>2
<1> QED BY <1>2, <1>4, <1>5, <1>6, <1>7 DEF at, Others

LEMMA VaultInvStep ==
  ASSUME Base, StampsPast, Next, NEW v \in Vaults, v \notin met', VaultInv(v)
  PROVE  VaultInv(v)'
<1>1. Unentered(v)'
  BY UnenteredStep
<1>2. /\ TypeOK /\ docs \in [Vaults -> Docs] /\ room \in [Vaults -> Docs \cup {None}]
      /\ RoomOf(v) # None /\ ops \in Nat
  BY RoomTypes, DocIs DEF Base, TypeOK
<1>3. ASSUME Still(v), room'[v] # None, NEW n \in Notes PROVE CaughtUp(v, n)'
  <2>1. room'[v] = RoomOf(v) /\ docs'[v] = docs[v]
    BY <1>3 DEF Still
  <2>2. Touching(v, n)' = Touching(v, n)
    BY <1>3 DEF Still, Touching, Pending
  <2>3. \A u \in Touching(v, n) : task'[u].at = task[u].at /\ Entry(u, n)' = Entry(u, n)
    BY <1>3 DEF Still, Touching, Entry
  <2>4. CaughtAs(v, n, RoomOf(v)[n])
    BY RoomCaughtUp
  <2> QED BY <2>1, <2>2, <2>3, <2>4 DEF CaughtUp, CaughtAs
<1>4. ASSUME NEW t \in Tasks, NEW change \in Changes, Edits(t, v, change), NEW n \in Notes
      PROVE  CaughtUp(v, n)'
  <2>1. CaughtAs(v, n, RoomOf(v)[n])
    BY RoomCaughtUp
  <2>2. /\ room'[v][n] = IF n \in DOMAIN change THEN [path |-> change[n], at |-> ops + 1]
                         ELSE RoomOf(v)[n]
        /\ docs'[v] = docs[v] /\ t \notin Touching(v, n)
        /\ Touching(v, n)' = IF n \in DOMAIN change THEN Touching(v, n) \cup {t} ELSE Touching(v, n)
        /\ \A u \in Touching(v, n) : task'[u] = task[u]
        /\ n \in DOMAIN change => Entry(t, n)' = room'[v][n]
    BY <1>4, EditedRoom
  <2>3. \A u \in Touching(v, n) : task'[u].at = task[u].at /\ Entry(u, n)' = Entry(u, n)
    BY <2>2 DEF Entry
  <2>4. CASE n \notin DOMAIN change
    BY <2>1, <2>2, <2>3, <2>4 DEF CaughtUp, CaughtAs
  <2>5. CASE n \in DOMAIN change
    <3>1. docs[v][n].at <= ops /\ docs[v][n].at \in Nat
      BY <1>2, DocIs DEF StampsPast
    <3>2. \A u \in Touching(v, n) : task[u].at <= ops /\ task[u].at \in Nat
      BY <1>2 DEF StampsPast, Touching, Pending
    <3>3. room'[v][n].at = ops + 1 /\ task'[t].at = ops + 1
      BY <1>4, <2>2, <2>5 DEF Edits, ApplyStep
    <3>4. docs'[v][n].at <= room'[v][n].at /\ docs'[v][n].at # room'[v][n].at
      BY <1>2, <2>2, <3>1, <3>3
    <3>5. ASSUME NEW u \in Touching(v, n)'
          PROVE  task'[u].at <= room'[v][n].at
                 /\ (task'[u].at = room'[v][n].at => Entry(u, n)' = room'[v][n])
      <4>1. CASE u = t
        BY <1>2, <2>2, <2>5, <3>3, <4>1
      <4>2. CASE u # t
        <5>1. u \in Touching(v, n)
          BY <2>2, <3>5, <4>2
        <5>2. task'[u].at <= ops /\ task'[u].at \in Nat
          BY <2>3, <3>2, <5>1
        <5> QED BY <1>2, <3>3, <5>2
      <4> QED BY <4>1, <4>2
    <3>6. t \in Touching(v, n)' /\ room'[v][n] = Entry(t, n)'
      BY <2>2, <2>5
    <3> QED BY <3>4, <3>5, <3>6 DEF CaughtUp, CaughtAs
  <2> QED BY <2>4, <2>5
<1>5. ASSUME NEW t \in Tasks, JournalVault(t), task[t].v = v, room[v] # None, NEW n \in Notes
      PROVE  CaughtUp(v, n)'
  <2>1. CaughtAs(v, n, room[v][n])
    BY <1>5 DEF VaultInv, CaughtUp
  <2>2. /\ room' = room /\ Touching(v, n)' = Touching(v, n) \ {t}
        /\ docs'[v][n] = IF t \in Touching(v, n) /\ task[t].at > docs[v][n].at THEN Entry(t, n)
                         ELSE docs[v][n]
        /\ \A u \in Tasks : u # t => task'[u] = task[u]
    BY <1>5, JournaledRoom
  <2>3. \A u \in Touching(v, n)' : u \in Touching(v, n) /\ task'[u].at = task[u].at /\ Entry(u, n)' = Entry(u, n)
    BY <2>2 DEF Entry, Touching, Pending
  <2>4. Entry(t, n).at = task[t].at /\ task[t].at \in Nat /\ docs[v][n].at \in Nat /\ room[v][n].at \in Nat
    BY <1>2, <1>5, TaskTypes, DocIs DEF Entry
  <2>5. CASE t \in Touching(v, n) /\ task[t].at > docs[v][n].at
    BY <2>1, <2>2, <2>3, <2>4, <2>5 DEF CaughtUp, CaughtAs
  <2>6. CASE ~ (t \in Touching(v, n) /\ task[t].at > docs[v][n].at)
    <3>1. docs'[v][n] = docs[v][n]
      BY <2>2, <2>6
    <3>2. t \in Touching(v, n) /\ room[v][n] = Entry(t, n) => room[v][n] = docs[v][n]
      BY <2>1, <2>4, <2>6 DEF CaughtAs
    <3>3. room[v][n] = docs[v][n] \/ \E u \in Touching(v, n)' : room[v][n] = Entry(u, n)'
      BY <2>1, <2>2, <2>3, <3>2 DEF CaughtAs
    <3> QED BY <2>1, <2>2, <2>3, <3>1, <3>3 DEF CaughtUp, CaughtAs
  <2> QED BY <2>5, <2>6
<1>6. ASSUME NEW t \in Tasks, EraseTables(t), task[t].v = v PROVE room'[v] = None
  <2>1. Erasing(v) /\ room' = room
    BY <1>6 DEF EraseTables, rooms, Erasing
  <2> QED BY <2>1 DEF VaultInv
<1>7. Crash => room'[v] = None
  BY DEF Crash
<1>8. ASSUME NEW t \in Tasks, JournalVault(t) PROVE room' = room
  BY <1>8 DEF JournalVault, rooms
<1>9. ASSUME room'[v] # None PROVE \A n \in Notes : CaughtUp(v, n)'
  BY <1>3, <1>4, <1>5, <1>6, <1>7, <1>8, <1>9, VaultKinds
<1> QED BY <1>1, <1>9 DEF VaultInv, Unentered

-----------------------------------------------------------------------------
(***************************************************************************)
(* Rows follow the document.                                               *)
(***************************************************************************)
LEMMA MetGrows ==
  ASSUME Base, Next
  PROVE  met \subseteq met' /\ erased \subseteq erased'
<1>1. ASSUME NEW t \in Tasks, NEW v \in Vaults, NEW change \in Changes, Edits(t, v, change)
      PROVE  met \subseteq met' /\ erased' = erased
  BY <1>1 DEF Edits, ApplyStep
<1>2. ASSUME \/ \E t \in Tasks : JournalVault(t) \/ DeriveVault(t) \/ JournalText(t)
             \/ \E t \in Tasks, n \in Notes : SyncText(t, n)
             \/ \E t \in Tasks, v \in Vaults, n \in Notes : Restore(t, v, n)
             \/ \E n \in Notes : Age(n)
             \/ Sweeps \/ Crash
      PROVE  met' = met /\ erased' = erased
  BY <1>2 DEF JournalVault, DeriveVault, JournalText, SyncText, Restore, Age, Sweeps, Crash, history
<1>3. ASSUME NEW t \in Tasks, NEW v \in Vaults, NEW n \in Notes, NEW p \in Paths, Create(t, v, n, p)
      PROVE  met \subseteq met' /\ erased' = erased
  BY <1>3 DEF Create, Meets
<1>4. ASSUME NEW t \in Tasks, TakeText(t) PROVE met \subseteq met' /\ erased' = erased
  BY <1>4 DEF TakeText
<1>5. ASSUME NEW t \in Tasks, NEW v \in Vaults, Erase(t, v) PROVE met \subseteq met' /\ erased' = erased
  BY <1>5 DEF Erase
<1>6. ASSUME NEW t \in Tasks, EraseTables(t) PROVE met' = met /\ erased \subseteq erased'
  BY <1>6 DEF EraseTables
<1>7. ASSUME PurgeTrash PROVE met \subseteq met' /\ erased' = erased
  BY <1>7 DEF PurgeTrash
<1> QED BY <1>1, <1>2, <1>3, <1>4, <1>5, <1>6, <1>7, NextIs

\* With nothing pending the room is what is stored, whoever holds it.
LEMMA NothingPending ==
  ASSUME Base, NEW v \in Vaults, VaultInv(v), Pending(v) = {}
  PROVE  RoomOf(v) = docs[v]
<1>1. RoomOf(v) \in [Notes -> DocEntry] /\ docs[v] \in [Notes -> DocEntry]
  BY RoomTypes DEF Base, Docs, DocEntry
<1>2. ASSUME NEW n \in Notes PROVE RoomOf(v)[n] = docs[v][n]
  BY RoomCaughtUp DEF CaughtAs, Touching
<1> QED BY <1>1, <1>2

\* A vault whose document nobody is changing still has been so, unless it was just derived.
IsWork(r, v) == r.v = v /\ r.pc \in {"vault", "derive", "restore"}

LEMMA WorkingOf ==
  ASSUME NEW v \in Vaults, NEW t \in Tasks, Others(t), ~ Working(v)',
         IsWork(task[t], v) => IsWork(task'[t], v)
  PROVE  ~ Working(v)
BY DEF Working, Others, IsWork

LEMMA WorkingStays ==
  ASSUME Base, Next, NEW v \in Vaults, ~ Working(v)', v \notin behind',
         ~ \E t \in Tasks : DeriveVault(t) /\ task[t].v = v
  PROVE  ~ Working(v) /\ v \notin behind
<1>1. TypeOK
  BY DEF Base
<1> USE DEF IsWork
<1>2. ASSUME NEW t \in Tasks, NEW w \in Vaults, NEW change \in Changes, Edits(t, w, change)
      PROVE  ~ Working(v) /\ v \notin behind
  <2>1. Others(t) /\ behind' = behind /\ (IsWork(task[t], v) => IsWork(task'[t], v))
    BY <1>2 DEF Edits, ApplyStep, Others
  <2> QED BY <2>1, WorkingOf
<1>3. ASSUME NEW t \in Tasks, JournalVault(t) PROVE ~ Working(v) /\ v \notin behind
  <2>1. Others(t) /\ Keeps(t) /\ task'[t].pc = "derive" /\ behind' = behind
    BY <1>1, <1>3, JournalVaultTask DEF JournalVault, history
  <2> QED BY <2>1, WorkingOf DEF Keeps
<1>4. ASSUME NEW t \in Tasks, DeriveVault(t) PROVE ~ Working(v) /\ v \notin behind
  <2>1. Others(t) /\ task[t].v # v
    BY <1>1, <1>4, DeriveTask
  <2>2. v \notin behind
    BY <1>4, <2>1 DEF DeriveVault
  <2> QED BY <2>1, <2>2, WorkingOf
<1>5. ASSUME NEW t \in Tasks, NEW w \in Vaults, NEW n \in Notes, NEW p \in Paths, Create(t, w, n, p)
      PROVE  ~ Working(v) /\ v \notin behind
  <2>1. Others(t) /\ task[t].pc = "idle"
    BY <1>1, <1>5, CreateTask
  <2>2. behind' = behind
    BY <1>5 DEF Create
  <2> QED BY <2>1, <2>2, WorkingOf
<1>6. ASSUME NEW t \in Tasks, NEW n \in Notes, SyncText(t, n) PROVE ~ Working(v) /\ v \notin behind
  <2>1. Others(t) /\ task[t].pc = "idle"
    BY <1>1, <1>6, SyncTextTask
  <2>2. behind' = behind
    BY <1>6 DEF SyncText, history
  <2> QED BY <2>1, <2>2, WorkingOf
<1>7. ASSUME NEW t \in Tasks, TakeText(t) PROVE ~ Working(v) /\ v \notin behind
  <2>1. Others(t) /\ task[t].pc = "text"
    BY <1>1, <1>7, TakeTextTask DEF Base
  <2>2. behind' = behind
    BY <1>7 DEF TakeText
  <2> QED BY <2>1, <2>2, WorkingOf
<1>8. ASSUME NEW t \in Tasks, JournalText(t) PROVE ~ Working(v) /\ v \notin behind
  <2>1. Others(t) /\ task[t].pc = "note"
    BY <1>1, <1>8, JournalTextTask
  <2>2. behind' = behind
    BY <1>8 DEF JournalText, history
  <2> QED BY <2>1, <2>2, WorkingOf
<1>9. ASSUME NEW t \in Tasks, NEW w \in Vaults, NEW n \in Notes, Restore(t, w, n)
      PROVE  ~ Working(v) /\ v \notin behind
  <2>1. Others(t) /\ task[t].pc = "idle"
    BY <1>1, <1>9, RestoreTask
  <2>2. behind' = behind
    BY <1>9 DEF Restore, history
  <2> QED BY <2>1, <2>2, WorkingOf
<1>10. ASSUME NEW t \in Tasks, NEW w \in Vaults, Erase(t, w) PROVE ~ Working(v) /\ v \notin behind
  <2>1. task[t].pc = "idle"
    BY <1>1, <1>10, EraseTask
  <2>2. ASSUME NEW u \in Tasks, u # t PROVE task'[u].pc = task[u].pc /\ task'[u].v = task[u].v
    BY <1>1, <1>10, <2>2, EraseOther
  <2>3. behind' = behind
    BY <1>10 DEF Erase
  <2> QED BY <2>1, <2>2, <2>3 DEF Working
<1>11. ASSUME NEW t \in Tasks, EraseTables(t) PROVE ~ Working(v) /\ v \notin behind
  <2>1. Others(t) /\ task[t].pc = "erase"
    BY <1>1, <1>11, EraseTablesTask
  <2>2. behind' = behind
    BY <1>11 DEF EraseTables
  <2> QED BY <2>1, <2>2, WorkingOf
<1>12. ASSUME (\E n \in Notes : Age(n)) \/ PurgeTrash \/ Sweeps PROVE ~ Working(v) /\ v \notin behind
  BY <1>12 DEF Age, PurgeTrash, Sweeps, history, Working
<1>13. ASSUME Crash PROVE ~ Working(v) /\ v \notin behind
  BY <1>13 DEF Crash, Working
<1> QED BY <1>2, <1>3, <1>4, <1>5, <1>6, <1>7, <1>8, <1>9, <1>10, <1>11, <1>12, <1>13, NextIs

LEMMA RoomStays ==
  ASSUME Base, Next, NEW v \in Vaults, v \notin met', v \notin erased', VaultInv(v),
         ~ Working(v)', ~ Working(v)
  PROVE  RoomOf(v)' = RoomOf(v)
<1>1. TypeOK
  BY DEF Base
<1>2. ASSUME NEW t \in Tasks, NEW change \in Changes, Edits(t, v, change) PROVE FALSE
  BY <1>2 DEF Edits, ApplyStep, Working
<1>3. ASSUME NEW t \in Tasks, JournalVault(t), task[t].v = v PROVE FALSE
  BY <1>3 DEF JournalVault, Working
<1>4. ASSUME NEW t \in Tasks, EraseTables(t), task[t].v = v PROVE FALSE
  BY <1>4 DEF EraseTables
<1>5. ASSUME Crash PROVE RoomOf(v)' = RoomOf(v)
  <2>1. RoomOf(v) = docs[v]
    BY NothingPending DEF Pending, Working
  <2> QED BY <1>5, <2>1 DEF Crash, tables, RoomOf
<1> QED BY <1>2, <1>3, <1>4, <1>5, VaultKinds, StillRoom

\* The rows of a vault nobody works in: fewer, or older.
RowStays(v, n) ==
  /\ rows[n] # None /\ rows[n].vault = v
  /\ rows'[n].live <=> rows[n].live
  /\ rows'[n].live => rows'[n].path = rows[n].path

LEMMA RowsStay ==
  ASSUME Base, Next, NEW v \in Vaults, ~ Working(v)', ~ Working(v), NEW n \in Notes,
         rows'[n] # None, rows'[n].vault = v
  PROVE  RowStays(v, n)
<1>0. TypeOK
  BY DEF Base
<1>1. ASSUME rows'[n] = rows[n] PROVE RowStays(v, n)
  BY <1>1 DEF RowStays
<1>2. ASSUME NEW t \in Tasks, DeriveVault(t) PROVE RowStays(v, n)
  <2>1. task[t].v # v
    BY <1>2 DEF DeriveVault, Working
  <2>2. rows'[n] # rows[n] => rows'[n].vault = task[t].v
    BY <1>2, DeriveStep DEF Base
  <2> QED BY <1>1, <2>1, <2>2
<1>3. ASSUME NEW t \in Tasks, NEW w \in Vaults, NEW m \in Notes, Restore(t, w, m)
      PROVE  RowStays(v, n)
  <2>1. task'[t].pc = "restore" /\ task'[t].v = w
    BY <1>0, <1>3, RestoreTask
  <2>2. w # v
    BY <2>1 DEF Working
  <2>3. rows'[m].vault = w /\ (m # n => rows'[n] = rows[n])
    BY <1>0, <1>3, RestoreStep
  <2> QED BY <1>1, <2>2, <2>3
<1>4. ASSUME NEW t \in Tasks, EraseTables(t) PROVE RowStays(v, n)
  BY <1>1, <1>4 DEF EraseTables
<1>5. ASSUME NEW m \in Notes, Age(m) PROVE RowStays(v, n)
  <2>1. CASE m # n
    BY <1>0, <1>1, <1>5, <2>1, AgeRow
  <2>2. CASE m = n
    BY <1>0, <1>5, <2>2, AgeRow DEF RowStays, HasRow
  <2> QED BY <2>1, <2>2
<1>6. ASSUME PurgeTrash PROVE RowStays(v, n)
  BY <1>1, <1>6 DEF PurgeTrash
<1>7. ASSUME NEW t \in Tasks, NEW w \in Vaults, NEW change \in Changes, Edits(t, w, change)
      PROVE  RowStays(v, n)
  BY <1>1, <1>7 DEF Edits, ApplyStep
<1>8. ASSUME \/ \E t \in Tasks : JournalVault(t) \/ TakeText(t) \/ JournalText(t)
             \/ \E t \in Tasks, m \in Notes : SyncText(t, m)
             \/ \E t \in Tasks, w \in Vaults, m \in Notes, p \in Paths : Create(t, w, m, p)
             \/ \E t \in Tasks, w \in Vaults : Erase(t, w)
             \/ Sweeps \/ Crash
      PROVE  RowStays(v, n)
  <2>1. rows' = rows
    BY <1>8 DEF JournalVault, TakeText, JournalText, SyncText, Create, Erase, Sweeps, Crash, tables
  <2> QED BY <1>1, <2>1
<1> QED BY <1>2, <1>3, <1>4, <1>5, <1>6, <1>7, <1>8, NextIs

Agrees(v) ==
  /\ \A n \in Notes : HasRow(n) /\ rows[n].vault = v =>
       IF rows[n].live THEN rows[n].path = RoomOf(v)[n].path
                       ELSE n \notin Entries(RoomOf(v))
  /\ \A n \in Entries(RoomOf(v)) \ gone : HasRow(n)

LEMMA RowsFollowDocIs ==
  RowsFollowDoc <=>
    \A v \in Vaults : ~ Working(v) /\ v \notin erased \cup behind \cup met => Agrees(v)
BY DEF RowsFollowDoc, Agrees

LEMMA AgreesStep ==
  ASSUME Base, Next, NEW v \in Vaults, ~ Working(v)', v \notin (erased \cup behind \cup met)',
         VaultInv(v), ~ Working(v) /\ v \notin erased \cup behind \cup met => Agrees(v)
  PROVE  Agrees(v)'
<1>1. ASSUME NEW t \in Tasks, DeriveVault(t), task[t].v = v PROVE Agrees(v)'
  <2>1. TypeOK /\ TaskInv(t) /\ HoldInv(t)
    BY DEF Base
  <2>2. ~ task[t].old
    BY <1>1 DEF VaultInv
  <2>3. Source(t, v) = RoomOf(v)
    BY <2>2 DEF Source
  <2>4. Follows(rows', v, Source(t, v)) /\ gone' = {n \in gone : rows'[n] = None}
    BY <1>1, <2>1, DeriveStep
  <2>5. RoomOf(v)' = RoomOf(v)
    BY <1>1 DEF DeriveVault, rooms, RoomOf
  <2>6. Entries(RoomOf(v))' = Entries(RoomOf(v))
    BY <2>5 DEF Entries
  <2> QED BY <2>3, <2>4, <2>5, <2>6 DEF Agrees, Follows, HasRow
<1>2. ASSUME ~ \E t \in Tasks : DeriveVault(t) /\ task[t].v = v PROVE Agrees(v)'
  <2>1. ~ Working(v) /\ v \notin behind
    BY <1>2, WorkingStays
  <2>2. Agrees(v)
    BY <2>1, MetGrows
  <2>3. RoomOf(v)' = RoomOf(v)
    BY <2>1, RoomStays
  <2>4. Entries(RoomOf(v))' = Entries(RoomOf(v)) /\ Entries(RoomOf(v)) \subseteq Notes
    BY <2>3 DEF Entries
  <2>5. ASSUME NEW n \in Notes, rows'[n] # None, rows'[n].vault = v
        PROVE  IF rows'[n].live THEN rows'[n].path = RoomOf(v)[n].path
                                ELSE n \notin Entries(RoomOf(v))
    BY <2>1, <2>2, <2>5, RowsStay DEF RowStays, Agrees, HasRow
  <2>6. ASSUME NEW n \in Entries(RoomOf(v)) \ gone' PROVE rows'[n] # None
    <3>1. Known(n)
      BY <2>2 DEF Agrees, Known
    <3>2. Known(n)'
      BY <2>4, <3>1, KnownStep
    <3> QED BY <3>2 DEF Known, HasRow
  <2> QED BY <2>3, <2>4, <2>5, <2>6 DEF Agrees, HasRow
<1> QED BY <1>1, <1>2

LEMMA RowsFollowDocStep ==
  ASSUME Base, \A v \in Vaults \ met : VaultInv(v), RowsFollowDoc, Next
  PROVE  RowsFollowDoc'
<1>1. ASSUME NEW v \in Vaults, ~ Working(v)', v \notin (erased \cup behind \cup met)'
      PROVE  Agrees(v)'
  <2>1. VaultInv(v)
    BY <1>1, MetGrows
  <2>2. ~ Working(v) /\ v \notin erased \cup behind \cup met => Agrees(v)
    BY RowsFollowDocIs
  <2> QED BY <1>1, <2>1, <2>2, AgreesStep
<1> QED BY <1>1 DEF RowsFollowDoc, Agrees

-----------------------------------------------------------------------------
(***************************************************************************)
(* A note's room.                                                          *)
(***************************************************************************)
LEMMA BelowOrders ==
  ASSUME NEW x \in Texts, NEW y \in Texts, NEW z \in Texts
  PROVE  /\ Below(x, x)
         /\ Below(x, y) /\ Below(y, z) => Below(x, z)
         /\ Below(x, y) /\ Below(y, x) => x = y
BY DEF Below, Texts

\* A step that is nothing to a note, but that its room may be dropped.
NoteStill(n) ==
  /\ texts'[n] = texts[n]
  /\ nroom'[n] = nroom[n] \/ (nroom'[n] = None /\ UnheldNote(n))
  /\ \A u \in Tasks : HoldingNote(u, n)' => HoldingNote(u, n)
  /\ \A u \in Tasks : u \in Writing(n)' <=> u \in Writing(n)
  /\ \A u \in Writing(n) : task'[u].update = task[u].update
  /\ purging => purging' \/ nroom'[n] = None \/ ~ UnheldNote(n)

LEMMA NoteStillInv ==
  ASSUME NEW n \in Notes, NoteInv(n), NoteStill(n), met \subseteq met'
  PROVE  NoteInv(n)'
<1>1. ASSUME NEW u \in Tasks, HoldingNote(u, n)' PROVE nroom'[n] # None
  BY <1>1 DEF NoteStill, NoteInv, UnheldNote
<1>2. ASSUME n \notin met', nroom'[n] # None, purging' => ~ UnheldNote(n)' PROVE TextCaughtUp(n)'
  <2>1. nroom'[n] = nroom[n] /\ texts'[n] = texts[n]
    BY <1>2 DEF NoteStill
  <2>2. ~ UnheldNote(n)' => ~ UnheldNote(n)
    BY DEF UnheldNote, NoteStill
  <2>3. TextCaughtUp(n)
    BY <1>2, <2>1, <2>2 DEF NoteStill, NoteInv
  <2>4. Writing(n)' = Writing(n)
    BY DEF NoteStill, Writing
  <2> QED BY <2>1, <2>3, <2>4 DEF TextCaughtUp, NoteStill
<1> QED BY <1>1, <1>2 DEF NoteInv

\* A step of a request that was not in the note's room in the first place.
LEMMA NoteStillOf ==
  ASSUME NEW n \in Notes, NEW t \in Tasks, Others(t),
         texts'[n] = texts[n], nroom'[n] = nroom[n], purging' = purging,
         HoldingNote(t, n)' => HoldingNote(t, n), t \notin Writing(n), t \notin Writing(n)'
  PROVE  NoteStill(n)
<1>1. \A u \in Tasks : HoldingNote(u, n)' => HoldingNote(u, n)
  BY DEF HoldingNote, Others
<1>2. \A u \in Tasks : u \in Writing(n)' <=> u \in Writing(n)
  BY DEF Writing, Others
<1>3. \A u \in Writing(n) : task'[u].update = task[u].update
  BY DEF Writing, Others
<1> QED BY <1>1, <1>2, <1>3 DEF NoteStill

LEMMA TakeTextNote ==
  ASSUME Base, NEW t \in Tasks, TakeText(t), NEW n \in Notes, task[t].n = n, NoteInv(n)
  PROVE  NoteInv(n)'
<1>1. TypeOK /\ TaskInv(t)
  BY DEF Base
<1>2. /\ task' \in [Tasks -> Task] /\ Others(t) /\ task[t].pc = "text" /\ task'[t].pc = "note"
      /\ nroom' = [nroom EXCEPT ![n] = Text(NoteRoomOf(n), task'[t].update)]
      /\ task'[t].n = n
  BY <1>1, TakeTextTask DEF Keeps
<1> DEFINE u == task'[t].update
           x == NoteRoomOf(n)
<1>3. u \in {"whole", "more"}
  <2>1. task'[t] \in Task
    BY <1>2
  <2> QED BY <2>1 DEF Task
<1>4. x \in Texts /\ texts[n] \in Texts /\ Text("empty", u) \in Texts
  BY <1>1, <1>3, NoteRoomType, TextIs DEF Texts
<1>5. nroom'[n] = Text(x, u)
  BY <1>1, <1>2 DEF TypeOK
<1> HIDE DEF u, x
<1>6. /\ nroom'[n] \in Texts /\ Below(x, nroom'[n]) /\ Below(Text("empty", u), nroom'[n])
      /\ nroom'[n] \in {x, Text("empty", u)}
  BY <1>3, <1>4, <1>5, TextIs
<1>7. nroom'[n] # None
  BY <1>6, NoneAssumption
<1>8. ASSUME n \notin met' PROVE TextCaughtUp(n)'
  <2>1. ~ purging /\ n \notin met /\ texts' = texts
    BY <1>1, <1>8 DEF TakeText, tables
  <2>2. Writing(n)' = Writing(n) \cup {t} /\ t \notin Writing(n)
    BY <1>2 DEF Writing, Others
  <2>3. /\ Below(texts[n], x)
        /\ \A w \in Writing(n) : Below(Text("empty", task[w].update), x)
        /\ x = texts[n] \/ \E w \in Writing(n) : x = Text("empty", task[w].update)
    <3>1. CASE nroom[n] # None
      BY <2>1, <3>1 DEF x, NoteInv, TextCaughtUp, NoteRoomOf
    <3>2. CASE nroom[n] = None
      <4>1. Writing(n) = {}
        BY <3>2 DEF NoteInv, Writing, HoldingNote
      <4> QED BY <1>4, <3>2, <4>1, BelowOrders DEF x, NoteRoomOf
    <3> QED BY <3>1, <3>2
  <2>4. \A w \in Writing(n) : task'[w].update = task[w].update
                             /\ Text("empty", task[w].update) \in Texts
    <3>1. \A w \in Writing(n) : w \in Tasks /\ w # t
      BY <2>2 DEF Writing
    <3>2. \A w \in Tasks : task[w].update \in {"whole", "more"}
      BY <1>1, TaskTypes
    <3> QED BY <1>2, <3>1, <3>2, TextIs DEF Others, Texts
  <2>5. Below(texts[n], nroom'[n])
    BY <1>4, <1>6, <2>3, BelowOrders
  <2>6. ASSUME NEW w \in Writing(n)' PROVE Below(Text("empty", task'[w].update), nroom'[n])
    <3>1. CASE w = t
      BY <1>6, <3>1 DEF u
    <3>2. CASE w # t
      <4>1. w \in Writing(n)
        BY <2>2, <3>2
      <4> QED BY <1>4, <1>6, <2>3, <2>4, <4>1, BelowOrders
    <3> QED BY <3>1, <3>2
  <2>7. nroom'[n] = texts'[n] \/ \E w \in Writing(n)' : nroom'[n] = Text("empty", task'[w].update)
    <3>1. CASE nroom'[n] = Text("empty", u)
      BY <2>2, <3>1 DEF u
    <3>2. CASE nroom'[n] = x
      BY <2>1, <2>2, <2>3, <2>4, <3>2
    <3> QED BY <1>6, <3>1, <3>2
  <2> QED BY <2>1, <2>5, <2>6, <2>7 DEF TextCaughtUp
<1> QED BY <1>7, <1>8 DEF NoteInv

LEMMA JournalTextNote ==
  ASSUME Base, NEW t \in Tasks, JournalText(t), NEW n \in Notes, task[t].n = n, NoteInv(n)
  PROVE  NoteInv(n)'
<1>1. TypeOK /\ TaskInv(t)
  BY DEF Base
<1>2. /\ Others(t) /\ task[t].pc = "note"
      /\ task'[t] = Idle \/ (task'[t].pc = "place" /\ Keeps(t))
      /\ nroom' = nroom /\ purging' = purging /\ met' = met
  BY <1>1, JournalTextTask DEF JournalText, rooms, history
<1> DEFINE u == task[t].update
<1>3. u \in {"whole", "more"} /\ texts[n] \in Texts /\ texts'[n] = Text(texts[n], u)
  BY <1>1, TaskTypes DEF JournalText, TypeOK
<1>4. HoldingNote(t, n) /\ t \in Writing(n)
  BY <1>2 DEF HoldingNote, Writing
<1>5. \A w \in Tasks : HoldingNote(w, n)' => HoldingNote(w, n)
  BY <1>2, <1>4, IdleIs DEF HoldingNote, Others
<1>6. Writing(n)' = Writing(n) \ {t}
  <2>1. ASSUME NEW w \in Tasks PROVE w \in Writing(n)' <=> w \in Writing(n) /\ w # t
    <3>1. CASE w = t
      BY <1>2, <3>1, IdleIs DEF Writing
    <3>2. CASE w # t
      BY <1>2, <3>2 DEF Writing, Others
    <3> QED BY <3>1, <3>2
  <2>2. Writing(n)' \subseteq Tasks /\ Writing(n) \subseteq Tasks
    BY DEF Writing
  <2> QED BY <2>1, <2>2
<1>7. nroom[n] # None
  BY <1>4 DEF NoteInv
<1> HIDE DEF u
<1>8. ASSUME n \notin met PROVE TextCaughtUp(n)'
  <2>1. TextCaughtUp(n)
    BY <1>4, <1>7, <1>8 DEF NoteInv, UnheldNote
  <2>2. nroom[n] \in Texts /\ Text("empty", u) \in Texts /\ texts'[n] \in Texts
    BY <1>1, <1>3, <1>7, TextIs DEF TypeOK, Texts
  <2>3. /\ Below(texts[n], nroom[n]) /\ Below(Text("empty", u), nroom[n])
        /\ Below(texts[n], texts'[n]) /\ Below(Text("empty", u), texts'[n])
        /\ texts'[n] \in {texts[n], Text("empty", u)}
    BY <1>3, <1>4, <2>1, TextIs DEF TextCaughtUp, u
  <2>4. Below(texts'[n], nroom[n])
    BY <2>3
  <2>5. \A w \in Writing(n)' : w \in Writing(n) /\ task'[w].update = task[w].update
    <3>1. \A w \in Writing(n)' : w \in Writing(n) /\ w # t /\ w \in Tasks
      BY <1>6 DEF Writing
    <3> QED BY <1>2, <3>1 DEF Others
  <2>6. nroom[n] = texts'[n] \/ \E w \in Writing(n)' : nroom[n] = Text("empty", task'[w].update)
    <3>1. CASE nroom[n] = texts[n] \/ nroom[n] = Text("empty", u)
      <4>1. Below(nroom[n], texts'[n])
        BY <2>3, <3>1
      <4> QED BY <2>2, <2>4, <4>1, BelowOrders
    <3>2. CASE ~ (nroom[n] = texts[n] \/ nroom[n] = Text("empty", u))
      <4>1. PICK w \in Writing(n) : nroom[n] = Text("empty", task[w].update)
        BY <2>1, <3>2 DEF TextCaughtUp
      <4>2. w # t
        BY <3>2, <4>1 DEF u
      <4> QED BY <1>6, <2>5, <4>1, <4>2
    <3> QED BY <3>1, <3>2
  <2> QED BY <1>2, <2>1, <2>4, <2>5, <2>6 DEF TextCaughtUp
<1> QED BY <1>2, <1>5, <1>7, <1>8 DEF NoteInv

LEMMA CreateNote ==
  ASSUME Base, NEW t \in Tasks, NEW v \in Vaults, NEW n \in Notes, NEW p \in Paths,
         Create(t, v, n, p), NoteInv(n)
  PROVE  NoteInv(n)'
<1>1. TypeOK
  BY DEF Base
<1>2. /\ Others(t) /\ task'[t].pc = "note" /\ task'[t].n = n /\ task'[t].update = "whole"
  BY <1>1, CreateTask
<1>3. /\ texts[n] = "empty" /\ texts' = texts /\ nroom[n] = None /\ nroom'[n] = "whole"
  BY <1>1 DEF Create, tables, TypeOK
<1>4. \A w \in Tasks : ~ HoldingNote(w, n)
  BY <1>3 DEF NoteInv
<1>5. Writing(n)' = {t}
  BY <1>2, <1>4 DEF Writing, HoldingNote, Others
<1>6. Text("empty", "whole") = "whole" /\ "whole" # None
  BY NoneAssumption DEF Text, Texts
<1>7. TextCaughtUp(n)'
  BY <1>2, <1>3, <1>5, <1>6 DEF TextCaughtUp, Below
<1> QED BY <1>3, <1>6, <1>7 DEF NoteInv

LEMMA NoteInvStep ==
  ASSUME Base, Next, NEW n \in Notes, NoteInv(n)
  PROVE  NoteInv(n)'
<1>1. TypeOK /\ n # None /\ met \subseteq met' /\ nroom \in [Notes -> Texts \cup {None}]
  BY NoneAssumption, MetGrows DEF Base, TypeOK
<1> USE DEF HoldingNote, Writing
<1>2. ASSUME NEW t \in Tasks, NEW v \in Vaults, NEW change \in Changes, Edits(t, v, change)
      PROVE  NoteInv(n)'
  <2>1. /\ Others(t) /\ texts' = texts /\ nroom' = nroom /\ purging' = purging
        /\ task[t].pc \in {"idle", "restore", "place"} /\ task'[t].pc = "vault"
        /\ task'[t].n = IF task[t].pc = "place" THEN task[t].n ELSE None
    BY <1>2 DEF Edits, ApplyStep, Others
  <2>2. NoteStill(n)
    BY <1>1, <2>1, NoteStillOf
  <2> QED BY <1>1, <2>2, NoteStillInv
<1>3. ASSUME NEW t \in Tasks, JournalVault(t) PROVE NoteInv(n)'
  <2>1. /\ Others(t) /\ Keeps(t) /\ task[t].pc = "vault" /\ task'[t].pc = "derive"
    BY <1>1, <1>3, JournalVaultTask
  <2>2. texts' = texts /\ nroom' = nroom /\ purging' = purging
    BY <1>3 DEF JournalVault, rooms
  <2>3. NoteStill(n)
    BY <2>1, <2>2, NoteStillOf DEF Keeps
  <2> QED BY <1>1, <2>3, NoteStillInv
<1>4. ASSUME NEW t \in Tasks, DeriveVault(t) PROVE NoteInv(n)'
  <2>1. Others(t) /\ task[t].pc = "derive" /\ task'[t] = Idle
    BY <1>1, <1>4, DeriveTask
  <2>2. texts' = texts /\ nroom' = nroom /\ purging' = purging
    BY <1>4 DEF DeriveVault, rooms
  <2>3. NoteStill(n)
    BY <2>1, <2>2, NoteStillOf, IdleIs
  <2> QED BY <1>1, <2>3, NoteStillInv
<1>5. ASSUME NEW t \in Tasks, NEW v \in Vaults, NEW m \in Notes, NEW p \in Paths, Create(t, v, m, p)
      PROVE  NoteInv(n)'
  <2>1. CASE m = n
    BY <1>5, <2>1, CreateNote
  <2>2. CASE m # n
    <3>1. Others(t) /\ task[t].pc = "idle" /\ task'[t].n = m
      BY <1>1, <1>5, CreateTask
    <3>2. texts' = texts /\ nroom'[n] = nroom[n] /\ purging' = purging
      BY <1>1, <1>5, <2>2 DEF Create, tables
    <3>3. NoteStill(n)
      BY <2>2, <3>1, <3>2, NoteStillOf
    <3> QED BY <1>1, <3>3, NoteStillInv
  <2> QED BY <2>1, <2>2
<1>6. ASSUME NEW t \in Tasks, NEW m \in Notes, SyncText(t, m) PROVE NoteInv(n)'
  <2>1. Others(t) /\ task[t].pc = "idle" /\ task'[t].pc = "text"
    BY <1>1, <1>6, SyncTextTask
  <2>2. texts' = texts /\ nroom' = nroom /\ purging' = purging
    BY <1>6 DEF SyncText, tables, rooms
  <2>3. NoteStill(n)
    BY <2>1, <2>2, NoteStillOf
  <2> QED BY <1>1, <2>3, NoteStillInv
<1>7. ASSUME NEW t \in Tasks, TakeText(t) PROVE NoteInv(n)'
  <2>1. CASE task[t].n = n
    BY <1>7, <2>1, TakeTextNote
  <2>2. CASE task[t].n # n
    <3>1. /\ Others(t) /\ Keeps(t) /\ task[t].pc = "text" /\ task[t].n \in Notes
          /\ nroom' = [nroom EXCEPT ![task[t].n] = Text(NoteRoomOf(task[t].n), task'[t].update)]
      BY <1>1, <1>7, TakeTextTask DEF Base
    <3>2. texts' = texts /\ nroom'[n] = nroom[n] /\ purging' = purging
      BY <1>1, <1>7, <2>2, <3>1 DEF TakeText, tables
    <3>3. NoteStill(n)
      BY <2>2, <3>1, <3>2, NoteStillOf DEF Keeps
    <3> QED BY <1>1, <3>3, NoteStillInv
  <2> QED BY <2>1, <2>2
<1>8. ASSUME NEW t \in Tasks, JournalText(t) PROVE NoteInv(n)'
  <2>1. CASE task[t].n = n
    BY <1>8, <2>1, JournalTextNote
  <2>2. CASE task[t].n # n
    <3>1. Others(t) /\ (task'[t] = Idle \/ (task'[t].pc = "place" /\ Keeps(t)))
      BY <1>1, <1>8, JournalTextTask
    <3>2. texts'[n] = texts[n] /\ nroom' = nroom /\ purging' = purging
      BY <1>1, <1>8, <2>2 DEF JournalText, rooms, TypeOK
    <3>3. NoteStill(n)
      BY <2>2, <3>1, <3>2, NoteStillOf, IdleIs DEF Keeps
    <3> QED BY <1>1, <3>3, NoteStillInv
  <2> QED BY <2>1, <2>2
<1>9. ASSUME NEW t \in Tasks, NEW v \in Vaults, NEW m \in Notes, Restore(t, v, m)
      PROVE  NoteInv(n)'
  <2>1. Others(t) /\ task[t].pc = "idle" /\ task'[t].pc = "restore"
    BY <1>1, <1>9, RestoreTask
  <2>2. texts' = texts /\ nroom' = nroom /\ purging' = purging
    BY <1>9 DEF Restore, rooms
  <2>3. NoteStill(n)
    BY <2>1, <2>2, NoteStillOf
  <2> QED BY <1>1, <2>3, NoteStillInv
<1>10. ASSUME NEW t \in Tasks, NEW v \in Vaults, Erase(t, v) PROVE NoteInv(n)'
  <2>1. task[t].pc = "idle" /\ task'[t].pc = "erase"
    BY <1>1, <1>10, EraseTask
  <2>2. ASSUME NEW u \in Tasks, u # t
        PROVE  task'[u].pc = task[u].pc /\ task'[u].n = task[u].n /\ task'[u].update = task[u].update
    BY <1>1, <1>10, <2>2, EraseOther
  <2>3. texts' = texts /\ nroom' = nroom /\ purging' = purging
    BY <1>10 DEF Erase, tables
  <2>4. NoteStill(n)
    BY <2>1, <2>2, <2>3 DEF NoteStill
  <2> QED BY <1>1, <2>4, NoteStillInv
<1>11. ASSUME NEW t \in Tasks, EraseTables(t) PROVE NoteInv(n)'
  <2>1. Others(t) /\ task[t].pc = "erase" /\ task'[t] = Idle
    BY <1>1, <1>11, EraseTablesTask
  <2>2. texts' = texts /\ nroom' = nroom /\ purging' = purging
    BY <1>11 DEF EraseTables, rooms
  <2>3. NoteStill(n)
    BY <2>1, <2>2, NoteStillOf, IdleIs
  <2> QED BY <1>1, <2>3, NoteStillInv
<1>12. ASSUME NEW m \in Notes, Age(m) PROVE NoteInv(n)'
  <2>1. NoteStill(n)
    BY <1>12 DEF Age, rooms, NoteStill
  <2> QED BY <1>1, <2>1, NoteStillInv
<1>13. ASSUME PurgeTrash PROVE NoteInv(n)'
  <2>1. /\ task' = task /\ nroom' = nroom /\ ~ purging /\ purging'
        /\ texts'[n] = IF n \in Aged THEN "empty" ELSE texts[n]
        /\ met' = met \cup {m \in Aged : \E t \in Tasks : HoldingNote(t, m)}
    BY <1>13 DEF PurgeTrash, rooms
  <2>2. CASE n \notin Aged
    <3>1. NoteStill(n)
      BY <2>1, <2>2 DEF NoteStill
    <3> QED BY <1>1, <3>1, NoteStillInv
  <2>3. CASE n \in Aged
    <3>1. n \notin met' => UnheldNote(n)'
      BY <2>1, <2>3 DEF UnheldNote
    <3> QED BY <2>1, <3>1 DEF NoteInv
  <2> QED BY <2>2, <2>3
<1>14. ASSUME Sweeps PROVE NoteInv(n)'
  <2>1. nroom'[n] = IF UnheldNote(n) THEN None ELSE nroom[n]
    BY <1>14 DEF Sweeps, DropUnheld
  <2>2. task' = task /\ texts' = texts
    BY <1>14 DEF Sweeps
  <2>3. NoteStill(n)
    BY <2>1, <2>2 DEF NoteStill
  <2> QED BY <1>1, <2>3, NoteStillInv
<1>15. ASSUME Crash PROVE NoteInv(n)'
  <2>1. nroom'[n] = None /\ \A u \in Tasks : task'[u] = Idle
    BY <1>15, CrashTask DEF Crash
  <2> QED BY <2>1, IdleIs DEF NoteInv
<1> QED BY <1>2, <1>3, <1>4, <1>5, <1>6, <1>7, <1>8, <1>9, <1>10, <1>11, <1>12, <1>13, <1>14, <1>15,
           NextIs

-----------------------------------------------------------------------------
(***************************************************************************)
(* Creating notes.                                                         *)
(***************************************************************************)
OldEntry(v, n) ==
  \/ Known(n)
  \/ /\ docs[v][n].at = 0 => docs[v][n].path = None
     /\ room[v] # None /\ room[v][n].at = 0 => room[v][n].path = None

LEMMA OldEntriesAre == OldEntries <=> \A v \in Vaults, n \in Notes : OldEntry(v, n)
BY DEF OldEntries, OldEntry, Known

LEMMA BlankEntry == \A n \in Notes : Blank[n].path = None /\ Blank[n].at = 0
BY DEF Blank

LEMMA OldEntryOfRoom ==
  ASSUME NEW v \in Vaults, NEW n \in Notes, OldEntry(v, n), ~ Known(n), RoomOf(v)[n].at = 0
  PROVE  RoomOf(v)[n].path = None
BY DEF OldEntry, RoomOf

LEMMA OldEntryStep ==
  ASSUME Base, StampsPast, Next, NEW v \in Vaults, NEW n \in Notes, OldEntry(v, n)
  PROVE  OldEntry(v, n)'
<1>1. /\ TypeOK /\ ops \in Nat
      /\ docs \in [Vaults -> Docs] /\ room \in [Vaults -> Docs \cup {None}]
  BY DEF Base, TypeOK
<1>2. CASE Known(n)
  BY <1>2, KnownStep DEF OldEntry
<1> SUFFICES ASSUME ~ Known(n) PROVE OldEntry(v, n)'
  BY <1>2
<1>3. ASSUME docs'[v] \in {docs[v], Blank}, room'[v] \in {room[v], docs[v], None}
      PROVE  OldEntry(v, n)'
  BY <1>3, BlankEntry DEF OldEntry
<1>4. ASSUME NEW t \in Tasks, NEW w \in Vaults, NEW change \in Changes, Edits(t, w, change)
      PROVE  OldEntry(v, n)'
  <2>1. docs' = docs /\ room'[v] = IF w = v /\ ~ task[t].old THEN Changed(RoomOf(v), change, ops + 1)
                                   ELSE room[v]
    BY <1>1, <1>4 DEF Edits, ApplyStep
  <2>2. Changed(RoomOf(v), change, ops + 1)[n] =
          IF n \in DOMAIN change /\ ops + 1 > RoomOf(v)[n].at
          THEN [path |-> change[n], at |-> ops + 1] ELSE RoomOf(v)[n]
    BY <1>1, RoomTypes, ChangedIs
  <2>3. Changed(RoomOf(v), change, ops + 1)[n].at = 0 =>
          Changed(RoomOf(v), change, ops + 1)[n].path = None
    BY <1>1, <2>2, OldEntryOfRoom
  <2> QED BY <2>1, <2>3 DEF OldEntry
<1>5. ASSUME NEW t \in Tasks, JournalVault(t) PROVE OldEntry(v, n)'
  <2>1. CASE task[t].v = v
    <3>1. /\ room' = room
          /\ docs'[v][n] = IF t \in Touching(v, n) /\ task[t].at > docs[v][n].at THEN Entry(t, n)
                           ELSE docs[v][n]
      BY <1>5, <2>1, JournaledRoom
    <3>2. t \in Touching(v, n) => task[t].at \in 1 .. ops
      BY DEF StampsPast, Touching, Pending
    <3>3. t \in Touching(v, n) => Entry(t, n).at # 0
      BY <1>1, <3>2 DEF Entry
    <3>4. docs'[v][n].at = 0 => docs'[v][n].path = None
      BY <3>1, <3>3 DEF OldEntry
    <3> QED BY <3>1, <3>4 DEF OldEntry
  <2>2. CASE task[t].v # v
    <3>1. docs'[v] = docs[v] /\ room' = room
      BY <1>1, <1>5, <2>2 DEF JournalVault, rooms
    <3> QED BY <1>3, <3>1
  <2> QED BY <2>1, <2>2
<1>6. ASSUME NEW t \in Tasks, NEW w \in Vaults, NEW m \in Notes, NEW p \in Paths, Create(t, w, m, p)
      PROVE  OldEntry(v, n)'
  <2>1. docs' = docs /\ room'[v] \in {room[v], docs[v]}
    BY <1>1, <1>6 DEF Create, tables, RoomOf
  <2> QED BY <1>3, <2>1
<1>7. ASSUME NEW t \in Tasks, NEW w \in Vaults, Erase(t, w) PROVE OldEntry(v, n)'
  <2>1. docs' = docs /\ room'[v] \in {room[v], None}
    BY <1>1, <1>7 DEF Erase, tables
  <2> QED BY <1>3, <2>1
<1>8. ASSUME NEW t \in Tasks, EraseTables(t) PROVE OldEntry(v, n)'
  <2>1. room' = room /\ docs'[v] \in {docs[v], Blank}
    BY <1>1, <1>8 DEF EraseTables, rooms
  <2> QED BY <1>3, <2>1
<1>9. ASSUME Sweeps PROVE OldEntry(v, n)'
  <2>1. docs' = docs /\ room'[v] \in {room[v], None}
    BY <1>9 DEF Sweeps, DropUnheld
  <2> QED BY <1>3, <2>1
<1>10. ASSUME Crash PROVE OldEntry(v, n)'
  <2>1. docs' = docs /\ room'[v] = None
    BY <1>10 DEF Crash, tables
  <2> QED BY <1>3, <2>1
<1>11. ASSUME \/ \E t \in Tasks : DeriveVault(t) \/ TakeText(t) \/ JournalText(t)
              \/ \E t \in Tasks, m \in Notes : SyncText(t, m)
              \/ \E t \in Tasks, w \in Vaults, m \in Notes : Restore(t, w, m)
              \/ \E m \in Notes : Age(m)
              \/ PurgeTrash
       PROVE  OldEntry(v, n)'
  <2>1. docs' = docs /\ room' = room
    BY <1>11 DEF DeriveVault, TakeText, JournalText, SyncText, Restore, Age, PurgeTrash, tables, rooms
  <2> QED BY <1>3, <2>1
<1> QED BY <1>4, <1>5, <1>6, <1>7, <1>8, <1>9, <1>10, <1>11, NextIs

LEMMA SoundStep ==
  ASSUME Base, Next, NEW v \in Vaults, Sound(v)'
  PROVE  Sound(v) /\ v \notin met' /\ ~ \E t \in Tasks : EraseTables(t) /\ task[t].v = v
<1>1. met \subseteq met' /\ erased \subseteq erased'
  BY MetGrows
<1>2. ASSUME NEW t \in Tasks, EraseTables(t), task[t].v = v PROVE v \in erased'
  BY <1>2 DEF EraseTables
<1> QED BY <1>1, <1>2 DEF Sound

LEMMA StillTouching ==
  ASSUME NEW v \in Vaults, Still(v), NEW n \in Notes
  PROVE  /\ Touching(v, n)' = Touching(v, n)
         /\ \A u \in Touching(v, n) : task'[u].change = task[u].change
BY DEF Still, Touching, Pending

\* What journaling makes of a room: nothing.
LEMMA JournalRoomOf ==
  ASSUME Base, NEW v \in Vaults, VaultInv(v), NEW t \in Tasks, JournalVault(t), task[t].v = v
  PROVE  RoomOf(v)' = RoomOf(v)
<1>1. task[t].pc = "vault" /\ room' = room
  BY DEF JournalVault, rooms
<1>2. Holding(t, v) /\ ~ task[t].old
  BY <1>1 DEF Holding, VaultInv
<1>3. room[v] # None
  BY <1>2 DEF Base, HoldInv
<1> QED BY <1>1, <1>3 DEF RoomOf

\* A request creating a note was doing so before, or begins to.
LEMMA CreatingStays ==
  ASSUME Base, Next, NEW u \in Tasks, Creating(u)'
  PROVE  \/ /\ Creating(u) /\ task'[u].v = task[u].v /\ task'[u].n = task[u].n
            /\ task'[u].path = task[u].path
         \/ \E v \in Vaults, n \in Notes, p \in Paths :
              /\ Create(u, v, n, p)
              /\ task'[u].v = v /\ task'[u].n = n /\ task'[u].path = p
<1> DEFINE Stays == /\ Creating(u) /\ task'[u].v = task[u].v /\ task'[u].n = task[u].n
                    /\ task'[u].path = task[u].path
           Begins == \E v \in Vaults, n \in Notes, p \in Paths :
                       /\ Create(u, v, n, p)
                       /\ task'[u].v = v /\ task'[u].n = n /\ task'[u].path = p
<1>1. TypeOK /\ TaskInv(u)
  BY DEF Base
<1>2. task'[u] = task[u] => Stays
  BY DEF Creating
<1>3. task'[u].pc \in {"note", "place"} /\ task'[u].v # None
  BY DEF Creating
<1>4. ASSUME NEW t \in Tasks, NEW v \in Vaults, NEW change \in Changes, Edits(t, v, change)
      PROVE  Stays
  BY <1>2, <1>3, <1>4 DEF Edits, ApplyStep
<1>5. ASSUME NEW t \in Tasks, JournalVault(t) PROVE Stays
  BY <1>1, <1>2, <1>3, <1>5, JournalVaultTask DEF Others
<1>6. ASSUME NEW t \in Tasks, DeriveVault(t) PROVE Stays
  BY <1>1, <1>2, <1>3, <1>6, DeriveTask, IdleIs DEF Others
<1>7. ASSUME NEW t \in Tasks, NEW v \in Vaults, NEW n \in Notes, NEW p \in Paths, Create(t, v, n, p)
      PROVE  Stays \/ Begins
  <2>1. /\ Others(t) /\ task'[t].v = v /\ task'[t].n = n /\ task'[t].path = p
    BY <1>1, <1>7, CreateTask
  <2>2. CASE t = u
    BY <1>7, <2>1, <2>2
  <2>3. CASE t # u
    BY <1>2, <2>1, <2>3 DEF Others
  <2> QED BY <2>2, <2>3
<1>8. ASSUME NEW t \in Tasks, NEW n \in Notes, SyncText(t, n) PROVE Stays
  BY <1>1, <1>2, <1>3, <1>8, SyncTextTask DEF Others
<1>9. ASSUME NEW t \in Tasks, TakeText(t) PROVE Stays
  <2>1. /\ Others(t) /\ Keeps(t) /\ task[t].pc = "text"
    BY <1>1, <1>9, TakeTextTask DEF Base
  <2>2. task[t].v = None
    BY <2>1 DEF Base, TaskInv
  <2> QED BY <1>2, <1>3, <2>1, <2>2 DEF Others, Keeps
<1>10. ASSUME NEW t \in Tasks, JournalText(t) PROVE Stays
  <2>1. /\ Others(t) /\ task[t].pc = "note"
        /\ task[t].v = None => task'[t] = Idle
        /\ task[t].v # None => task'[t].pc = "place" /\ Keeps(t)
    BY <1>1, <1>10, JournalTextTask
  <2> QED BY <1>2, <1>3, <2>1, IdleIs DEF Others, Keeps, Creating
<1>11. ASSUME NEW t \in Tasks, NEW v \in Vaults, NEW n \in Notes, Restore(t, v, n) PROVE Stays
  BY <1>1, <1>2, <1>3, <1>11, RestoreTask DEF Others
<1>12. ASSUME NEW t \in Tasks, NEW v \in Vaults, Erase(t, v) PROVE Stays
  <2>1. task'[t].pc = "erase"
    BY <1>1, <1>12, EraseTask
  <2>2. u # t
    BY <1>3, <2>1
  <2>3. /\ task'[u].pc = task[u].pc /\ task'[u].v = task[u].v /\ task'[u].n = task[u].n
        /\ task'[u].path = task[u].path
    BY <1>1, <1>12, <2>2, EraseOther
  <2> QED BY <1>3, <2>3 DEF Creating
<1>13. ASSUME NEW t \in Tasks, EraseTables(t) PROVE Stays
  BY <1>1, <1>2, <1>3, <1>13, EraseTablesTask, IdleIs DEF Others
<1>14. ASSUME (\E n \in Notes : Age(n)) \/ PurgeTrash \/ Sweeps PROVE Stays
  <2>1. task' = task
    BY <1>14 DEF Age, PurgeTrash, Sweeps
  <2> QED BY <1>2, <2>1
<1>15. ~ Crash
  BY <1>3, CrashTask, IdleIs
<1> QED BY <1>4, <1>5, <1>6, <1>7, <1>8, <1>9, <1>10, <1>11, <1>12, <1>13, <1>14, <1>15, NextIs

\* A request restoring a note was doing so before, or begins to.
LEMMA RestoringStays ==
  ASSUME Base, Next, NEW u \in Tasks, task'[u].pc = "restore"
  PROVE  \/ task[u].pc = "restore" /\ task'[u].v = task[u].v /\ task'[u].n = task[u].n
         \/ \E v \in Vaults, n \in Notes :
              Restore(u, v, n) /\ task'[u].v = v /\ task'[u].n = n
<1> DEFINE Stays == task[u].pc = "restore" /\ task'[u].v = task[u].v /\ task'[u].n = task[u].n
           Begins == \E v \in Vaults, n \in Notes :
                       Restore(u, v, n) /\ task'[u].v = v /\ task'[u].n = n
<1>1. TypeOK /\ TaskInv(u)
  BY DEF Base
<1>2. task'[u] = task[u] => Stays
  OBVIOUS
<1>4. ASSUME NEW t \in Tasks, NEW v \in Vaults, NEW change \in Changes, Edits(t, v, change)
      PROVE  Stays
  BY <1>2, <1>4 DEF Edits, ApplyStep
<1>5. ASSUME NEW t \in Tasks, JournalVault(t) PROVE Stays
  BY <1>1, <1>2, <1>5, JournalVaultTask DEF Others
<1>6. ASSUME NEW t \in Tasks, DeriveVault(t) PROVE Stays
  BY <1>1, <1>2, <1>6, DeriveTask, IdleIs DEF Others
<1>7. ASSUME NEW t \in Tasks, NEW v \in Vaults, NEW n \in Notes, NEW p \in Paths, Create(t, v, n, p)
      PROVE  Stays
  BY <1>1, <1>2, <1>7, CreateTask DEF Others
<1>8. ASSUME NEW t \in Tasks, NEW n \in Notes, SyncText(t, n) PROVE Stays
  BY <1>1, <1>2, <1>8, SyncTextTask DEF Others
<1>9. ASSUME NEW t \in Tasks, TakeText(t) PROVE Stays
  <2>1. Others(t) /\ task'[t].pc = "note"
    BY <1>1, <1>9, TakeTextTask DEF Base
  <2> QED BY <1>2, <2>1 DEF Others
<1>10. ASSUME NEW t \in Tasks, JournalText(t) PROVE Stays
  <2>1. Others(t) /\ (task'[t] = Idle \/ task'[t].pc = "place")
    BY <1>1, <1>10, JournalTextTask
  <2> QED BY <1>2, <2>1, IdleIs DEF Others
<1>11. ASSUME NEW t \in Tasks, NEW v \in Vaults, NEW n \in Notes, Restore(t, v, n)
       PROVE  Stays \/ Begins
  <2>1. /\ task' \in [Tasks -> Task] /\ Others(t)
        /\ task[t].pc = "idle"
        /\ task'[t].pc = "restore" /\ task'[t].v = v /\ task'[t].n = n /\ task'[t].path \in Paths
        /\ task'[t].old = FALSE
    BY <1>1, <1>11, RestoreTask, Zenon
  <2>2. CASE t = u
    BY <1>11, <2>1, <2>2
  <2>3. CASE t # u
    BY <1>2, <2>1, <2>3 DEF Others
  <2> QED BY <2>2, <2>3
<1>12. ASSUME NEW t \in Tasks, NEW v \in Vaults, Erase(t, v) PROVE Stays
  <2>1. task'[t].pc = "erase"
    BY <1>1, <1>12, EraseTask
  <2>2. u # t
    BY <2>1
  <2>3. /\ task'[u].pc = task[u].pc /\ task'[u].v = task[u].v /\ task'[u].n = task[u].n
    BY <1>1, <1>12, <2>2, EraseOther
  <2> QED BY <2>3
<1>13. ASSUME NEW t \in Tasks, EraseTables(t) PROVE Stays
  BY <1>1, <1>2, <1>13, EraseTablesTask, IdleIs DEF Others
<1>14. ASSUME (\E n \in Notes : Age(n)) \/ PurgeTrash \/ Sweeps PROVE Stays
  <2>1. task' = task
    BY <1>14 DEF Age, PurgeTrash, Sweeps
  <2> QED BY <1>2, <2>1
<1>15. ~ Crash
  BY CrashTask, IdleIs
<1> QED BY <1>4, <1>5, <1>6, <1>7, <1>8, <1>9, <1>10, <1>11, <1>12, <1>13, <1>14, <1>15, NextIs

\* Whose history a step begins: that of the note it places.
LEMMA BornStep ==
  ASSUME Base, Next, NEW n \in Notes
  PROVE  \/ /\ born'[n] = born[n]
            /\ \A t \in Tasks, v \in Vaults, change \in Changes :
                 Edits(t, v, change) => n \notin DOMAIN change
         \/ born'[n] = None
         \/ \E t \in Tasks, v \in Vaults, change \in Changes :
              /\ Edits(t, v, change)
              /\ task[t].pc = "place" /\ task[t].v = v /\ task[t].n = n
              /\ born'[n] = <<v, task[t].path>>
<1>1. ASSUME NEW t \in Tasks, NEW v \in Vaults, NEW change \in Changes, Edits(t, v, change),
             n \in DOMAIN change
      PROVE  born'[n] = None \/ (/\ task[t].pc = "place" /\ task[t].v = v /\ task[t].n = n
                                 /\ born'[n] = <<v, task[t].path>>)
  <2>1. CASE task[t].pc = "place"
    <3>1. n = task[t].n
      BY <1>1, <2>1 DEF Edits
    <3>2. task[t].v = v
      BY <1>1, <2>1 DEF Edits, ApplyStep
    <3>3. born'[n] = <<v, task[t].path>>
      BY <1>1, <2>1 DEF Edits
    <3> QED BY <2>1, <3>1, <3>2, <3>3
  <2>2. CASE task[t].pc # "place"
    BY <1>1, <2>2 DEF Edits
  <2> QED BY <2>1, <2>2
<1>2. ASSUME NEW t \in Tasks, NEW v \in Vaults, NEW change \in Changes, Edits(t, v, change),
             n \notin DOMAIN change
      PROVE  born'[n] = born[n]
  BY <1>2 DEF Edits
<1>3. ASSUME ~ \E t \in Tasks, v \in Vaults, change \in Changes : Edits(t, v, change)
      PROVE  born' = born
  <2>1. ASSUME \/ \E t \in Tasks : JournalVault(t) \/ DeriveVault(t) \/ JournalText(t) \/ TakeText(t)
                                   \/ EraseTables(t)
               \/ \E t \in Tasks, m \in Notes : SyncText(t, m)
               \/ \E t \in Tasks, v \in Vaults, m \in Notes : Restore(t, v, m)
               \/ \E t \in Tasks, v \in Vaults : Erase(t, v)
               \/ \E m \in Notes : Age(m)
               \/ Sweeps \/ Crash \/ PurgeTrash
        PROVE  born' = born
    BY <2>1 DEF JournalVault, DeriveVault, JournalText, SyncText, Restore, Age, Sweeps, Crash, history,
                TakeText, EraseTables, Erase, PurgeTrash
  <2>2. ASSUME NEW t \in Tasks, NEW v \in Vaults, NEW m \in Notes, NEW p \in Paths, Create(t, v, m, p)
        PROVE  born' = born
    BY <2>2 DEF Create
  <2> QED BY <1>3, <2>1, <2>2, NextIs
<1> QED BY <1>1, <1>2, <1>3

\* Nobody places a note while another is creating one.
LEMMA OneCreates ==
  ASSUME Base, NEW t \in Tasks, NEW u \in Tasks, task[t].pc = "place", Creating(u)
  PROVE  t = u
BY DEF Base, TaskInv, Creating

\* Nobody changes the entry of a note before it is placed.
LEMMA NotTouched ==
  ASSUME Base, NEW u \in Tasks, Creating(u), NEW v \in Vaults, task[u].v = v,
         NEW n \in Notes, task[u].n = n, Unused(v, n),
         NEW t \in Tasks, t # u, NEW change \in Changes, Edits(t, v, change)
  PROVE  n \notin DOMAIN change
<1> SUFFICES ASSUME n \in DOMAIN change PROVE FALSE
  OBVIOUS
<1>1. task[u].api /\ HoldingNote(u, n)
  BY DEF Base, TaskInv, Creating, HoldingNote
<1>2. Unheard(n) /\ RoomOf(v)[n].path = None
  BY <1>1, BlankEntry DEF Unheard, Unused
<1>3. task[t].pc \in {"restore", "place"} /\ task[t].v = v
  BY <1>2 DEF Edits, ApplyStep
<1>4. n = task[t].n
  BY <1>3 DEF Edits
<1>5. CASE task[t].pc = "restore"
  BY <1>3, <1>4, <1>5 DEF Unused
<1>6. CASE task[t].pc = "place"
  BY <1>6, OneCreates
<1> QED BY <1>3, <1>5, <1>6

LEMMA UnusedRow ==
  ASSUME Base, Next, NEW v \in Vaults, VaultInv(v), NEW n \in Notes,
         HasRow(n) => rows[n].vault # v, RoomOf(v)[n].path = None
  PROVE  HasRow(n)' => rows'[n].vault # v
<1>1. TypeOK
  BY DEF Base
<1>2. rows'[n] = rows[n] => (HasRow(n)' => rows'[n].vault # v)
  BY DEF HasRow
<1>3. ASSUME NEW t \in Tasks, DeriveVault(t) PROVE HasRow(n)' => rows'[n].vault # v
  <2>1. /\ rows'[n] # rows[n] => rows'[n] # None /\ rows'[n].vault = task[t].v
        /\ rows'[n] # None /\ rows'[n].vault = task[t].v =>
             n \in Entries(Source(t, task[t].v)) \/ (HasRow(n) /\ rows[n].vault = task[t].v)
    BY <1>3, DeriveStep DEF Base
  <2>2. CASE task[t].v = v
    <3>1. Source(t, v) = RoomOf(v)
      BY <2>2 DEF Source, VaultInv
    <3>2. n \notin Entries(Source(t, v))
      BY <3>1 DEF Entries
    <3> QED BY <2>1, <2>2, <3>2 DEF HasRow
  <2>3. CASE task[t].v # v
    BY <1>2, <2>1, <2>3
  <2> QED BY <2>2, <2>3
<1>4. ASSUME NEW t \in Tasks, NEW w \in Vaults, NEW m \in Notes, Restore(t, w, m)
      PROVE  HasRow(n)' => rows'[n].vault # v
  <2>1. /\ HasRow(m) /\ rows[m].vault = w /\ rows'[m].vault = w
        /\ \A k \in Notes : k # m => rows'[k] = rows[k]
    BY <1>1, <1>4, RestoreStep
  <2> QED BY <1>2, <2>1
<1>5. ASSUME NEW m \in Notes, Age(m) PROVE HasRow(n)' => rows'[n].vault # v
  <2>1. /\ HasRow(m) /\ rows'[m].vault = rows[m].vault
        /\ \A k \in Notes : k # m => rows'[k] = rows[k]
    BY <1>1, <1>5, AgeRow
  <2> QED BY <1>2, <2>1
<1>6. ASSUME PurgeTrash \/ \E t \in Tasks : EraseTables(t) PROVE HasRow(n)' => rows'[n].vault # v
  <2>1. rows'[n] \in {rows[n], None}
    BY <1>6 DEF PurgeTrash, EraseTables
  <2> QED BY <1>2, <2>1 DEF HasRow
<1>7. ASSUME NEW t \in Tasks, NEW w \in Vaults, NEW change \in Changes, Edits(t, w, change)
      PROVE  rows' = rows
  BY <1>7 DEF Edits, ApplyStep
<1>8. ASSUME \/ \E t \in Tasks : JournalVault(t) \/ TakeText(t) \/ JournalText(t)
             \/ \E t \in Tasks, m \in Notes : SyncText(t, m)
             \/ \E t \in Tasks, w \in Vaults, m \in Notes, p \in Paths : Create(t, w, m, p)
             \/ \E t \in Tasks, w \in Vaults : Erase(t, w)
             \/ Sweeps \/ Crash
      PROVE  rows' = rows
  BY <1>8 DEF JournalVault, TakeText, JournalText, SyncText, Create, Erase, Sweeps, Crash, tables
<1> QED BY <1>2, <1>3, <1>4, <1>5, <1>6, <1>7, <1>8, NextIs

\* A note being created stays out of its vault until it is placed.
LEMMA UnusedStays ==
  ASSUME Base, StampsPast, Next, NEW v \in Vaults, VaultInv(v), Sound(v)', NEW n \in Notes,
         NEW u \in Tasks, Creating(u), task[u].v = v, task[u].n = n, Unused(v, n), Creating(u)'
  PROVE  Unused(v, n)'
<1> USE DEF Unused
<1>1. TypeOK /\ Blank' = Blank
  BY DEF Base, Blank
<1>2. v \notin met' /\ ~ \E t \in Tasks : EraseTables(t) /\ task[t].v = v
  BY SoundStep
<1> DEFINE Out == docs'[v][n] = Blank[n] /\ RoomOf(v)'[n] = Blank[n] /\ Touching(v, n)' = {}
<1>3. ASSUME Still(v) PROVE Out
  BY <1>3, StillRoom, StillTouching DEF Still
<1>4. ASSUME NEW t \in Tasks, NEW change \in Changes, Edits(t, v, change) PROVE Out
  <2>1. t # u
    BY <1>4 DEF Edits, ApplyStep, Creating
  <2>2. n \notin DOMAIN change
    BY <1>4, <2>1, NotTouched
  <2>3. /\ RoomOf(v)' = room'[v] /\ docs'[v] = docs[v]
        /\ room'[v][n] = IF n \in DOMAIN change THEN [path |-> change[n], at |-> ops + 1]
                         ELSE RoomOf(v)[n]
        /\ Touching(v, n)' = IF n \in DOMAIN change THEN Touching(v, n) \cup {t} ELSE Touching(v, n)
    <3> HIDE DEF Out, Unused
    <3> QED BY <1>4, EditedRoom
  <2> QED BY <2>2, <2>3
<1>5. ASSUME NEW t \in Tasks, JournalVault(t), task[t].v = v PROVE Out
  <2>1. docs'[v][n] = docs[v][n] /\ Touching(v, n)' = {}
    BY <1>5, JournaledRoom
  <2> QED BY <1>5, <2>1, JournalRoomOf
<1>6. ~ Crash
  BY CrashTask, IdleIs DEF Creating
<1>7. Out
  <2> HIDE DEF Out
  <2> QED BY <1>2, <1>3, <1>4, <1>5, <1>6, VaultKinds
<1>8. ASSUME NEW t \in Tasks, task'[t].pc = "restore", task'[t].v = v, task'[t].n = n PROVE FALSE
  <2>1. CASE task[t].pc = "restore" /\ task'[t].v = task[t].v /\ task'[t].n = task[t].n
    BY <1>8, <2>1
  <2>2. CASE Restore(t, v, n)
    BY <2>2 DEF Restore
  <2> QED BY <1>8, <2>1, <2>2, RestoringStays
<1>9. HasRow(n)' => rows'[n].vault # v
  <2>1. HasRow(n) => rows[n].vault # v
    OBVIOUS
  <2>2. RoomOf(v)[n].path = None
    BY BlankEntry
  <2> QED BY <2>1, <2>2, UnusedRow
<1> QED BY <1>1, <1>7, <1>8, <1>9

\* An entry no request changes is what it was, as long as the process runs.
LEMMA EntryStays ==
  ASSUME Base, StampsPast, Next, NEW v \in Vaults, VaultInv(v), Sound(v)', NEW m \in Notes,
         \A t \in Tasks, w \in Vaults, change \in Changes : Edits(t, w, change) => m \notin DOMAIN change,
         ~ Crash
  PROVE  RoomOf(v)'[m] = RoomOf(v)[m]
<1>1. v \notin met' /\ ~ \E t \in Tasks : EraseTables(t) /\ task[t].v = v
  BY SoundStep
<1>2. ASSUME NEW t \in Tasks, NEW change \in Changes, Edits(t, v, change)
      PROVE  RoomOf(v)'[m] = RoomOf(v)[m]
  <2>1. m \notin DOMAIN change
    BY <1>2
  <2>2. /\ RoomOf(v)' = room'[v]
        /\ room'[v][m] = IF m \in DOMAIN change THEN [path |-> change[m], at |-> ops + 1]
                         ELSE RoomOf(v)[m]
    BY <1>2, EditedRoom
  <2> QED BY <2>1, <2>2
<1>3. ASSUME Still(v) PROVE RoomOf(v)'[m] = RoomOf(v)[m]
  BY <1>3, StillRoom
<1>4. ASSUME NEW t \in Tasks, JournalVault(t), task[t].v = v PROVE RoomOf(v)'[m] = RoomOf(v)[m]
  BY <1>4, JournalRoomOf
<1> QED BY <1>1, <1>2, <1>3, <1>4, VaultKinds

LEMMA NotNone ==
  ASSUME NEW v \in Vaults, NEW p \in Paths
  PROVE  None # <<v, p>> /\ None # p
BY NoneAssumption

LEMMA PathFreeIs ==
  ASSUME NEW v \in Vaults, NEW n \in Notes, NEW p \in Paths, PathFree(v, n, p),
         NEW m \in Notes, m # n, born[m] = <<v, p>>
  PROVE  m \notin Entries(RoomOf(v))
BY DEF PathFree

\* A path that was free of created notes stays so for who holds create_lock.
LEMMA PathStays ==
  ASSUME Base, StampsPast, Next, NEW v \in Vaults, VaultInv(v), Sound(v)', NEW n \in Notes,
         NEW p \in Paths, NEW u \in Tasks, Creating(u), Creating(u)', PathFree(v, n, p)
  PROVE  PathFree(v, n, p)'
<1> SUFFICES ASSUME NEW m \in Notes, m # n, born'[m] = <<v, p>> PROVE m \notin Entries(RoomOf(v))'
  BY DEF PathFree
<1>1. ASSUME NEW t \in Tasks, NEW w \in Vaults, NEW change \in Changes, Edits(t, w, change)
      PROVE  task[t].pc # "place"
  <2>1. t # u
    BY <1>1 DEF Edits, ApplyStep, Creating
  <2> QED BY <2>1, OneCreates
<1>2. /\ born[m] = <<v, p>>
      /\ \A t \in Tasks, w \in Vaults, change \in Changes : Edits(t, w, change) => m \notin DOMAIN change
  BY <1>1, BornStep, NotNone
<1>3. ~ Crash
  BY CrashTask, IdleIs DEF Creating
<1>4. RoomOf(v)'[m] = RoomOf(v)[m]
  BY <1>2, <1>3, EntryStays
<1>5. m \notin Entries(RoomOf(v))
  BY <1>2, PathFreeIs
<1> QED BY <1>4, <1>5 DEF Entries

\* What create_note finds: the note in nothing, and the path free.
LEMMA CreateFinds ==
  ASSUME Base, StampsPast, Next, NEW v \in Vaults, VaultInv(v), Sound(v), NEW n \in Notes,
         NEW p \in Paths, NEW u \in Tasks, Create(u, v, n, p), OldEntry(v, n),
         \A m \in Notes : BornInv(m)
  PROVE  Unused(v, n)' /\ PathFree(v, n, p)'
<1>1. /\ TypeOK /\ Blank' = Blank /\ room \in [Vaults -> Docs \cup {None}]
      /\ RoomOf(v) \in Docs /\ RoomOf(v) # None /\ docs[v] \in Docs
  BY RoomTypes, DocIs DEF Base, Blank, TypeOK
<1>2. /\ ~ HasRow(n) /\ n \notin gone
      /\ RoomOf(v)[n].at = 0 /\ docs[v][n].at = 0
      /\ room' = [room EXCEPT ![v] = RoomOf(v)]
      /\ UNCHANGED <<rows, docs, born>>
  BY DEF Create, tables
<1>3. RoomOf(v)' = RoomOf(v)
  BY <1>1, <1>2 DEF RoomOf
<1>4. docs[v][n].path = None /\ RoomOf(v)[n].path = None
  BY <1>2, OldEntryOfRoom DEF OldEntry, Known
<1>5. docs[v][n] = Blank[n] /\ RoomOf(v)[n] = Blank[n]
  <2>1. Blank[n] = [path |-> None, at |-> 0]
    BY DEF Blank
  <2>2. \A d \in Docs : d[n] = [path |-> d[n].path, at |-> d[n].at]
    BY DocIs
  <2> QED BY <1>1, <1>2, <1>4, <2>1, <2>2
<1>6. Touching(v, n) = {}
  <2> SUFFICES ASSUME NEW t \in Touching(v, n) PROVE FALSE
    OBVIOUS
  <2>1. task[t].at \in 1 .. ops
    BY DEF StampsPast, Touching, Pending
  <2>2. task[t].at <= RoomOf(v)[n].at
    BY RoomCaughtUp DEF CaughtAs
  <2> QED BY <1>2, <2>1, <2>2
<1>7. Others(u) /\ task'[u].pc = "note" /\ task[u].pc = "idle"
  BY <1>1, CreateTask
<1>8. Touching(v, n)' = {}
  BY <1>6, <1>7 DEF Touching, Pending, Others
<1>9. ASSUME NEW t \in Tasks, task'[t].pc = "restore", task'[t].n = n PROVE FALSE
  <2>1. task[t].pc = "restore" /\ task[t].n = n
    BY <1>7, <1>9 DEF Others
  <2> QED BY <1>2, <2>1 DEF Base, TaskInv
<1>10. ~ HasRow(n)'
  BY <1>2 DEF HasRow
<1>11. Unused(v, n)'
  BY <1>1, <1>2, <1>3, <1>5, <1>8, <1>9, <1>10 DEF Unused
<1>12. ASSUME NEW m \in Notes, m # n, born'[m] = <<v, p>> PROVE m \notin Entries(RoomOf(v))'
  <2>1. RoomOf(v)[m].path \in {None, p}
    BY <1>2, <1>12 DEF BornInv
  <2>2. m \in Entries(RoomOf(v)) => RoomOf(v)[m].path # p
    BY DEF Create
  <2> QED BY <1>3, <2>1, <2>2 DEF Entries
<1> QED BY <1>11, <1>12 DEF PathFree

LEMMA CreateInvStep ==
  ASSUME Base, StampsPast, Next, \A v \in Vaults \ met : VaultInv(v),
         \A v \in Vaults, n \in Notes : OldEntry(v, n), \A n \in Notes : BornInv(n),
         NEW u \in Tasks, CreateInv(u)
  PROVE  CreateInv(u)'
<1> SUFFICES ASSUME NEW v \in Vaults, NEW n \in Notes, NEW p \in Paths,
                    Creates(u, v, n, p)', Sound(v)'
             PROVE  Unused(v, n)' /\ PathFree(v, n, p)'
  BY DEF CreateInv
<1>1. Creating(u)' /\ task'[u].v = v /\ task'[u].n = n /\ task'[u].path = p
  BY DEF Creates
<1>2. Sound(v) /\ v \notin met
  BY SoundStep DEF Sound
<1>3. VaultInv(v)
  BY <1>2
<1>4. CASE /\ Creating(u) /\ task'[u].v = task[u].v /\ task'[u].n = task[u].n
           /\ task'[u].path = task[u].path
  <2>1. task[u].v = v /\ task[u].n = n /\ task[u].path = p
    BY <1>1, <1>4
  <2>2. Unused(v, n) /\ PathFree(v, n, p)
    BY <1>2, <1>4, <2>1 DEF CreateInv, Creates
  <2>3. Unused(v, n)'
    BY <1>1, <1>3, <1>4, <2>1, <2>2, UnusedStays
  <2>4. PathFree(v, n, p)'
    BY <1>1, <1>3, <1>4, <2>2, PathStays
  <2> QED BY <2>3, <2>4
<1>5. CASE Create(u, v, n, p)
  <2>1. OldEntry(v, n)
    OBVIOUS
  <2> QED BY <1>2, <1>3, <1>5, <2>1, CreateFinds
<1> QED BY <1>1, <1>4, <1>5, CreatingStays

LEMMA BornInvStep ==
  ASSUME Base, StampsPast, Next, \A v \in Vaults \ met : VaultInv(v),
         \A u \in Tasks : CreateInv(u), NEW n \in Notes, BornInv(n)
  PROVE  BornInv(n)'
<1> SUFFICES ASSUME NEW v \in Vaults, NEW p \in Paths, born'[n] = <<v, p>>, Sound(v)'
             PROVE  /\ {docs'[v][n].path, RoomOf(v)'[n].path} \subseteq {None, p}
                    /\ docs'[v][n].path = p => RoomOf(v)'[n].path = p
                    /\ \A t \in Touching(v, n)' : task'[t].change[n] = p /\ RoomOf(v)'[n].path = p
  BY DEF BornInv
<1>1. Sound(v) /\ v \notin met /\ v \notin met' /\ ~ \E t \in Tasks : EraseTables(t) /\ task[t].v = v
  BY SoundStep DEF Sound
<1>2. VaultInv(v)
  BY <1>1
<1>3. ASSUME NEW t \in Tasks, NEW w \in Vaults, NEW change \in Changes, Edits(t, w, change),
             task[t].pc = "place", task[t].v = w, task[t].n = n, <<v, p>> = <<w, task[t].path>>
      PROVE  /\ docs'[v][n].path = None /\ RoomOf(v)'[n].path = p
             /\ \A u \in Touching(v, n)' : task'[u].change[n] = p
  <2>1. w = v /\ task[t].path = p /\ Edits(t, v, change)
    BY <1>3
  <2>2. Creates(t, v, n, p)
    BY <1>3, <2>1, NoneAssumption DEF Creates, Creating
  <2>3. Unused(v, n)
    BY <1>1, <2>2 DEF CreateInv
  <2>4. change = [m \in {n} |-> p] /\ task'[t].change = change
    BY <1>3, <2>1 DEF Edits, ApplyStep
  <2>5. n \in DOMAIN change /\ change[n] = p
    BY <2>4
  <2>6. /\ RoomOf(v)' = room'[v] /\ docs'[v] = docs[v]
        /\ room'[v][n] = IF n \in DOMAIN change THEN [path |-> change[n], at |-> ops + 1]
                         ELSE RoomOf(v)[n]
        /\ Touching(v, n)' = IF n \in DOMAIN change THEN Touching(v, n) \cup {t} ELSE Touching(v, n)
    BY <1>2, <2>1, EditedRoom
  <2>7. RoomOf(v)'[n].path = p
    BY <2>5, <2>6
  <2>8. docs'[v][n].path = None
    BY <2>3, <2>6, BlankEntry DEF Unused
  <2>9. Touching(v, n)' = {t}
    BY <2>3, <2>5, <2>6 DEF Unused
  <2> QED BY <2>4, <2>5, <2>7, <2>8, <2>9
<1>4. CASE /\ born'[n] = born[n]
           /\ \A t \in Tasks, w \in Vaults, change \in Changes :
                Edits(t, w, change) => n \notin DOMAIN change
  <2>1. /\ {docs[v][n].path, RoomOf(v)[n].path} \subseteq {None, p}
        /\ docs[v][n].path = p => RoomOf(v)[n].path = p
        /\ \A t \in Touching(v, n) : task[t].change[n] = p /\ RoomOf(v)[n].path = p
    BY <1>1, <1>4 DEF BornInv
  <2>2. CASE Crash
    <3>1. docs' = docs /\ RoomOf(v)' = docs[v]
      BY <2>2 DEF Crash, tables, RoomOf
    <3>2. Touching(v, n)' = {}
      BY <2>2, CrashTask, IdleIs DEF Touching, Pending
    <3> QED BY <2>1, <3>1, <3>2
  <2>3. CASE ~ Crash
    <3>1. RoomOf(v)'[n] = RoomOf(v)[n]
      BY <1>2, <1>4, <2>3, EntryStays
    <3>2. ASSUME NEW t \in Tasks, NEW change \in Changes, Edits(t, v, change)
          PROVE  /\ docs'[v] = docs[v] /\ Touching(v, n)' = Touching(v, n)
                 /\ \A u \in Touching(v, n) : task'[u].change = task[u].change
      <4>1. n \notin DOMAIN change
        BY <1>4, <3>2
      <4>2. /\ room'[v] # None /\ RoomOf(v)' = room'[v]
            /\ room'[v][n] = IF n \in DOMAIN change THEN [path |-> change[n], at |-> ops + 1]
                             ELSE RoomOf(v)[n]
            /\ docs'[v] = docs[v] /\ t \notin Touching(v, n)
            /\ Touching(v, n)' = IF n \in DOMAIN change THEN Touching(v, n) \cup {t} ELSE Touching(v, n)
            /\ \A u \in Touching(v, n) : task'[u] = task[u]
            /\ n \in DOMAIN change => Entry(t, n)' = room'[v][n]
        BY <1>2, <3>2, EditedRoom, Zenon
      <4> QED BY <4>1, <4>2
    <3>3. ASSUME Still(v)
          PROVE  /\ docs'[v] = docs[v] /\ Touching(v, n)' = Touching(v, n)
                 /\ \A u \in Touching(v, n) : task'[u].change = task[u].change
      BY <3>3, StillTouching DEF Still
    <3>4. ASSUME NEW t \in Tasks, JournalVault(t), task[t].v = v
          PROVE  /\ docs'[v][n].path \in {docs[v][n].path, p}
                 /\ docs'[v][n].path = p => RoomOf(v)[n].path = p
                 /\ \A u \in Touching(v, n)' : u \in Touching(v, n) /\ task'[u].change = task[u].change
      <4>1. /\ Touching(v, n)' = Touching(v, n) \ {t}
            /\ docs'[v][n] = IF t \in Touching(v, n) /\ task[t].at > docs[v][n].at THEN Entry(t, n)
                             ELSE docs[v][n]
            /\ \A u \in Tasks : u # t => task'[u] = task[u]
        BY <3>4, JournaledRoom
      <4>2. Entry(t, n).path = task[t].change[n]
        BY DEF Entry
      <4>3. \A u \in Touching(v, n)' : u \in Touching(v, n) /\ task'[u].change = task[u].change
        BY <4>1 DEF Touching, Pending
      <4>4. docs'[v][n].path \in {docs[v][n].path, p}
        BY <2>1, <4>1, <4>2
      <4>5. docs'[v][n].path = p => RoomOf(v)[n].path = p
        BY <2>1, <4>1, <4>2
      <4> QED BY <4>3, <4>4, <4>5
    <3>5. CASE \E t \in Tasks : JournalVault(t) /\ task[t].v = v
      BY <2>1, <3>1, <3>4, <3>5
    <3>6. CASE \/ Still(v) \/ \E t \in Tasks, change \in Changes : Edits(t, v, change)
      <4>1. /\ docs'[v] = docs[v] /\ Touching(v, n)' = Touching(v, n)
            /\ \A u \in Touching(v, n) : task'[u].change = task[u].change
        BY <3>2, <3>3, <3>6
      <4> QED BY <2>1, <3>1, <4>1
    <3> QED BY <1>1, <1>2, <2>3, <3>5, <3>6, VaultKinds
  <2> QED BY <2>2, <2>3
<1>5. CASE \E t \in Tasks, w \in Vaults, change \in Changes :
             /\ Edits(t, w, change)
             /\ task[t].pc = "place" /\ task[t].v = w /\ task[t].n = n
             /\ born'[n] = <<w, task[t].path>>
  <2>1. /\ docs'[v][n].path = None /\ RoomOf(v)'[n].path = p
        /\ \A u \in Touching(v, n)' : task'[u].change[n] = p
    BY <1>3, <1>5
  <2> QED BY <2>1, NotNone
<1>6. born'[n] # None
  BY NotNone
<1>7. \/ /\ born'[n] = born[n]
         /\ \A t \in Tasks, w \in Vaults, change \in Changes :
              Edits(t, w, change) => n \notin DOMAIN change
      \/ \E t \in Tasks, w \in Vaults, change \in Changes :
           /\ Edits(t, w, change)
           /\ task[t].pc = "place" /\ task[t].v = w /\ task[t].n = n
           /\ born'[n] = <<w, task[t].path>>
  BY <1>6, BornStep
<1> QED BY <1>4, <1>5, <1>7

\* What OneCreatePerPath says of a path of a vault.
OneCreate(v, p) ==
  \A n, m \in Notes : n # m /\ born[n] = <<v, p>> /\ born[m] = <<v, p>> =>
    v \in erased \cup met \/ ~ ({n, m} \subseteq Entries(RoomOf(v)))

LEMMA OneCreateIs ==
  ASSUME TypeOK
  PROVE  OneCreatePerPath <=> \A v \in Vaults, p \in Paths : OneCreate(v, p)
<1>1. ASSUME NEW n \in Notes, born[n] # None
      PROVE  \E v \in Vaults, p \in Paths : born[n] = <<v, p>> /\ born[n][1] = v
  BY <1>1 DEF TypeOK
<1>2. ASSUME OneCreatePerPath, NEW v \in Vaults, NEW p \in Paths, NEW n \in Notes, NEW m \in Notes,
             n # m, born[n] = <<v, p>>, born[m] = <<v, p>>
      PROVE  v \in erased \cup met \/ ~ ({n, m} \subseteq Entries(RoomOf(v)))
  <2>1. born[n] # None /\ born[n] = born[m] /\ born[n][1] = v
    BY <1>2, NotNone
  <2> QED BY <1>2, <2>1 DEF OneCreatePerPath
<1>3. ASSUME \A v \in Vaults, p \in Paths : OneCreate(v, p), NEW n \in Notes, NEW m \in Notes,
             n # m, born[n] # None, born[n] = born[m]
      PROVE  LET v == born[n][1] IN v \in erased \cup met \/ ~ ({n, m} \subseteq Entries(RoomOf(v)))
  <2>1. PICK v \in Vaults, p \in Paths : born[n] = <<v, p>> /\ born[n][1] = v
    BY <1>1, <1>3
  <2>2. OneCreate(v, p)
    BY <1>3
  <2>3. v \in erased \cup met \/ ~ ({n, m} \subseteq Entries(RoomOf(v)))
    <3>1. born[m] = <<v, p>>
      BY <1>3, <2>1
    <3> QED BY <1>3, <2>1, <2>2, <3>1 DEF OneCreate
  <2> QED BY <2>1, <2>3
<1> QED BY <1>2, <1>3 DEF OneCreatePerPath, OneCreate

LEMMA OneCreateStep ==
  ASSUME Base, StampsPast, Next, \A v \in Vaults \ met : VaultInv(v),
         \A u \in Tasks : CreateInv(u), \A n \in Notes : BornInv(n),
         NEW v \in Vaults, NEW p \in Paths, OneCreate(v, p)
  PROVE  OneCreate(v, p)'
<1> SUFFICES ASSUME NEW n \in Notes, NEW m \in Notes, n # m, born'[n] = <<v, p>>, born'[m] = <<v, p>>,
                    Sound(v)', n \in Entries(RoomOf(v))', m \in Entries(RoomOf(v))'
             PROVE  FALSE
  BY DEF OneCreate, Sound
<1>1. Sound(v) /\ v \notin met
  BY SoundStep DEF Sound
<1>2. VaultInv(v)
  BY <1>1
\* The note that is placed finds its path free of the other.
<1>3. ASSUME NEW a \in Notes, NEW b \in Notes, a # b, born'[b] = <<v, p>>,
             b \in Entries(RoomOf(v))',
             NEW t \in Tasks, NEW w \in Vaults, NEW change \in Changes, Edits(t, w, change),
             task[t].pc = "place", task[t].v = w, task[t].n = a, <<v, p>> = <<w, task[t].path>>
      PROVE  FALSE
  <2>1. w = v /\ task[t].path = p /\ Edits(t, v, change)
    BY <1>3
  <2>2. Creates(t, v, a, p)
    BY <1>3, <2>1, NoneAssumption DEF Creates, Creating
  <2>3. PathFree(v, a, p)
    BY <1>1, <2>2 DEF CreateInv
  <2>4. change = [k \in {a} |-> p]
    BY <1>3, <2>1 DEF Edits
  <2>5. b \notin DOMAIN change
    BY <1>3, <2>4
  <2>6. born[b] = <<v, p>>
    BY <1>3, <2>5 DEF Edits
  <2>7. b \notin Entries(RoomOf(v))
    BY <1>3, <2>3, <2>6, PathFreeIs
  <2>8. /\ RoomOf(v)' = room'[v]
        /\ room'[v][b] = IF b \in DOMAIN change THEN [path |-> change[b], at |-> ops + 1]
                         ELSE RoomOf(v)[b]
    BY <1>2, <2>1, EditedRoom
  <2>9. RoomOf(v)'[b] = RoomOf(v)[b]
    BY <2>5, <2>8
  <2> QED BY <1>3, <2>7, <2>9 DEF Entries
<1>4. ASSUME NEW a \in Notes, NEW b \in Notes, a # b, born'[a] = <<v, p>>, born'[b] = <<v, p>>,
             b \in Entries(RoomOf(v))'
      PROVE  /\ born[a] = <<v, p>>
             /\ \A t \in Tasks, w \in Vaults, change \in Changes :
                  Edits(t, w, change) => a \notin DOMAIN change
  <2>1. CASE \E t \in Tasks, w \in Vaults, change \in Changes :
               /\ Edits(t, w, change)
               /\ task[t].pc = "place" /\ task[t].v = w /\ task[t].n = a
               /\ born'[a] = <<w, task[t].path>>
    BY <1>3, <1>4, <2>1
  <2>2. born'[a] # None
    BY <1>4, NotNone
  <2>3. CASE /\ born'[a] = born[a]
             /\ \A t \in Tasks, w \in Vaults, change \in Changes :
                  Edits(t, w, change) => a \notin DOMAIN change
    BY <1>4, <2>3
  <2> QED BY <2>1, <2>2, <2>3, BornStep
<1>5. /\ born[n] = <<v, p>> /\ born[m] = <<v, p>>
      /\ \A t \in Tasks, w \in Vaults, change \in Changes :
           Edits(t, w, change) => n \notin DOMAIN change /\ m \notin DOMAIN change
  BY <1>4
<1>6. ~ ({n, m} \subseteq Entries(RoomOf(v)))
  BY <1>1, <1>5 DEF OneCreate, Sound
<1>7. CASE ~ Crash
  <2>1. RoomOf(v)'[n] = RoomOf(v)[n] /\ RoomOf(v)'[m] = RoomOf(v)[m]
    BY <1>2, <1>5, <1>7, EntryStays
  <2> QED BY <1>6, <2>1 DEF Entries
<1>8. CASE Crash
  <2>1. RoomOf(v)' = docs[v]
    BY <1>8 DEF Crash, tables, RoomOf
  <2>2. ASSUME NEW k \in Notes, born[k] = <<v, p>>, k \in Entries(RoomOf(v))'
        PROVE  k \in Entries(RoomOf(v))
    <3>1. docs[v][k].path # None
      BY <2>1, <2>2 DEF Entries
    <3>2. /\ docs[v][k].path \in {None, p}
          /\ docs[v][k].path = p => RoomOf(v)[k].path = p
      BY <1>1, <2>2 DEF BornInv
    <3> QED BY <3>1, <3>2, NotNone DEF Entries
  <2> QED BY <1>5, <1>6, <2>2
<1> QED BY <1>7, <1>8

-----------------------------------------------------------------------------
(***************************************************************************)
(* The invariant, and what it says.                                        *)
(***************************************************************************)
\* The tables a server starts with: empty, or with one note.
StartsWith(v, p, first) ==
  /\ \A n \in Notes : rows[n] = IF n \in first THEN [vault |-> v, path |-> p, live |-> TRUE,
                                                      aged |-> FALSE] ELSE None
  /\ rows = [n \in Notes |-> rows[n]]
  /\ docs \in [Vaults -> Docs]
  /\ \A w \in Vaults, n \in Notes :
       /\ docs[w][n].path = IF w = v /\ n \in first THEN p ELSE None
       /\ docs[w][n].at = 0
  /\ texts \in [Notes -> Texts]

LEMMA InitRows ==
  ASSUME Init
  PROVE  \E v \in Vaults, p \in Paths, first \in SUBSET {Order[1]} : StartsWith(v, p, first)
<1>1. PICK v \in Vaults, p \in Paths, first \in {{}, {Order[1]}} :
        /\ Restored[p] # None
        /\ rows = [n \in Notes |-> IF n \in first THEN [vault |-> v, path |-> p, live |-> TRUE,
                                                        aged |-> FALSE] ELSE None]
        /\ docs = [[w \in Vaults |-> Blank] EXCEPT ![v] = [n \in Notes |-> IF n \in first
                                             THEN [path |-> p, at |-> 0] ELSE Blank[n]]]
        /\ texts = [n \in Notes |-> IF n \in first THEN "whole" ELSE "empty"]
  BY Zenon DEF Init
<1> DEFINE doc == [n \in Notes |-> IF n \in first THEN [path |-> p, at |-> 0] ELSE Blank[n]]
<1>2. doc \in Docs
  BY DEF Docs, Blank
<1>3. \A n \in Notes : doc[n].path = (IF n \in first THEN p ELSE None) /\ doc[n].at = 0
  BY BlankEntry
<1>4. \A w \in Vaults : docs[w] = IF w = v THEN doc ELSE Blank
  BY <1>1
<1> HIDE DEF doc
<1>5. docs = [w \in Vaults |-> docs[w]]
  BY <1>1
<1>6. docs \in [Vaults -> Docs]
  BY <1>2, <1>4, <1>5, BlankDoc
<1>7. ASSUME NEW w \in Vaults, NEW n \in Notes
      PROVE  /\ docs[w][n].path = IF w = v /\ n \in first THEN p ELSE None
             /\ docs[w][n].at = 0
  BY <1>3, <1>4, BlankEntry
<1>8. texts \in [Notes -> Texts] /\ first \in SUBSET {Order[1]}
  BY <1>1 DEF Texts
<1>9. rows = [n \in Notes |-> rows[n]]
  BY <1>1
<1>10. \A n \in Notes : rows[n] = IF n \in first THEN [vault |-> v, path |-> p, live |-> TRUE,
                                                       aged |-> FALSE] ELSE None
  BY <1>1
<1>11. StartsWith(v, p, first)
  BY <1>6, <1>7, <1>8, <1>9, <1>10 DEF StartsWith
<1> QED BY <1>8, <1>11

LEMMA InitRest ==
  ASSUME Init
  PROVE  /\ room = [v \in Vaults |-> None] /\ cut = room
         /\ nroom = [n \in Notes |-> None] /\ born = nroom
         /\ lock = None /\ task = [t \in Tasks |-> Idle]
         /\ purging = FALSE /\ ops = 0 /\ crashes = 0 /\ purges = 0
         /\ erased = {} /\ behind = {} /\ gone = {} /\ met = {}
BY DEF Init

LEMMA NotesInvInit == Init => NotesInv
<1> SUFFICES ASSUME Init PROVE NotesInv
  OBVIOUS
<1>0. PICK v \in Vaults, p \in Paths, first \in SUBSET {Order[1]} : StartsWith(v, p, first)
  BY InitRows
<1>1. /\ rows = [n \in Notes |-> rows[n]]
      /\ docs \in [Vaults -> Docs]
      /\ \A w \in Vaults, n \in Notes :
           /\ docs[w][n].path = IF w = v /\ n \in first THEN p ELSE None
           /\ docs[w][n].at = 0
      /\ texts \in [Notes -> Texts]
  BY <1>0 DEF StartsWith
<1> DEFINE row == [vault |-> v, path |-> p, live |-> TRUE, aged |-> FALSE]
<1>2. /\ row \in Row /\ row # None
      /\ row.vault = v /\ row.path = p /\ row.live
  <2>1. row \in Row /\ row.vault = v /\ row.path = p /\ row.live
    BY DEF Row
  <2> QED BY <2>1, NoneAssumption
<1>3. \A n \in Notes : rows[n] = IF n \in first THEN row ELSE None
  BY <1>0 DEF StartsWith
<1> HIDE DEF row
<1>4. \A w \in Vaults : room[w] = None /\ RoomOf(w) = docs[w]
  BY InitRest DEF RoomOf
<1>5. \A t \in Tasks : task[t] = Idle
  BY InitRest
<1>6. \A n \in Notes : nroom[n] = None /\ born[n] = None
  BY InitRest
<1>7. Types
  <2>1. RowTypes
    BY <1>1, <1>2, <1>3 DEF RowTypes
  <2>2. DocTypes
    BY <1>1, InitRest DEF DocTypes
  <2>3. TaskTypesOK
    BY InitRest, IdleTask DEF TaskTypesOK
  <2>4. CountTypes
    BY InitRest DEF CountTypes
  <2> QED BY <2>1, <2>2, <2>3, <2>4 DEF Types
<1>8. LiveApart
  BY <1>1, <1>3 DEF LiveApart, Live
<1>9. \A t \in Tasks : TaskInv(t)
  BY <1>5, IdleIs DEF TaskInv
<1>10. TypeOK
  BY <1>7, <1>8, <1>9, TypeOKOf
<1>11. \A t \in Tasks : HoldInv(t)
  BY <1>5, IdleIs DEF HoldInv, Holding
<1>12. StampsPast
  BY <1>1, <1>4, <1>5, IdleIs, InitRest DEF StampsPast
<1>13. \A w \in Vaults : VaultInv(w)
  BY <1>4, <1>5, IdleIs DEF VaultInv
<1>14. \A n \in Notes : NoteInv(n)
  BY <1>5, <1>6, IdleIs DEF NoteInv, HoldingNote
<1>15. OldEntries
  BY <1>1, <1>2, <1>3, <1>4 DEF OldEntries, HasRow
<1>16. \A t \in Tasks : CreateInv(t)
  BY <1>5, IdleIs DEF CreateInv, Creates, Creating
<1>17. \A n \in Notes : BornInv(n)
  BY <1>6, NotNone DEF BornInv
<1>18. OneCreatePerPath
  BY <1>6 DEF OneCreatePerPath
<1>19. \A w \in Vaults : Agrees(w)
  <2> SUFFICES ASSUME NEW w \in Vaults PROVE Agrees(w)
    OBVIOUS
  <2>1. ASSUME NEW n \in Notes, HasRow(n), rows[n].vault = w
        PROVE  IF rows[n].live THEN rows[n].path = RoomOf(w)[n].path
                               ELSE n \notin Entries(RoomOf(w))
    BY <1>1, <1>2, <1>3, <1>4, <2>1 DEF HasRow
  <2>2. ASSUME NEW n \in Entries(RoomOf(w)) \ gone PROVE HasRow(n)
    BY <1>1, <1>2, <1>3, <1>4, <2>2 DEF HasRow, Entries
  <2> QED BY <2>1, <2>2 DEF Agrees
<1>20. RowsFollowDoc
  BY <1>19, RowsFollowDocIs
<1> QED BY <1>9, <1>10, <1>11, <1>12, <1>13, <1>14, <1>15, <1>16, <1>17, <1>18, <1>20 DEF NotesInv

LEMMA NotesInvStep == NotesInv /\ Next => NotesInv'
<1> SUFFICES ASSUME NotesInv, Next PROVE NotesInv'
  OBVIOUS
<1>1. Base /\ StampsPast
  BY DEF NotesInv, Base
<1>2. /\ \A v \in Vaults \ met : VaultInv(v)
      /\ \A n \in Notes : NoteInv(n)
      /\ \A t \in Tasks : CreateInv(t)
      /\ \A n \in Notes : BornInv(n)
      /\ RowsFollowDoc
  BY DEF NotesInv
<1>3. \A v \in Vaults, n \in Notes : OldEntry(v, n)
  BY OldEntriesAre DEF NotesInv
<1>4. \A v \in Vaults, p \in Paths : OneCreate(v, p)
  BY OneCreateIs DEF NotesInv
<1>5. Base' /\ StampsPast'
  BY <1>1, BaseStep, StampsStep
<1>6. ASSUME NEW v \in Vaults \ met' PROVE VaultInv(v)'
  <2>1. v \notin met
    BY <1>1, MetGrows
  <2> QED BY <1>1, <1>2, <2>1, VaultInvStep
<1>7. \A n \in Notes : NoteInv(n)'
  BY <1>1, <1>2, NoteInvStep
<1>8. \A v \in Vaults, n \in Notes : OldEntry(v, n)'
  BY <1>1, <1>3, OldEntryStep
<1>9. OldEntries'
  BY <1>8, OldEntriesAre DEF OldEntries, OldEntry, Known
<1>10. \A t \in Tasks : CreateInv(t)'
  BY <1>1, <1>2, <1>3, CreateInvStep
<1>11. \A n \in Notes : BornInv(n)'
  BY <1>1, <1>2, BornInvStep
<1>12. \A v \in Vaults, p \in Paths : OneCreate(v, p)'
  BY <1>1, <1>2, <1>4, OneCreateStep
<1>13. RowsFollowDoc'
  BY <1>1, <1>2, RowsFollowDocStep
<1>14. OneCreatePerPath'
  <2>1. ASSUME NEW n \in Notes, NEW m \in Notes, n # m, born'[n] # None, born'[n] = born'[m]
        PROVE  \E v \in Vaults : /\ v = born'[n][1]
                                 /\ v \in (erased \cup met)' \/ ~ ({n, m} \subseteq Entries(RoomOf(v))')
    <3>1. PICK v \in Vaults, p \in Paths : born'[n] = <<v, p>> /\ born'[n][1] = v
      BY <1>5, <2>1 DEF Base, TypeOK
    <3>2. OneCreate(v, p)' /\ born'[m] = <<v, p>>
      BY <1>12, <2>1, <3>1
    <3>3. v \in (erased \cup met)' \/ ~ ({n, m} \subseteq Entries(RoomOf(v))')
      BY <2>1, <3>1, <3>2 DEF OneCreate
    <3> QED BY <3>1, <3>3
  <2> QED BY <2>1 DEF OneCreatePerPath, Entries, RoomOf
<1> QED BY <1>5, <1>6, <1>7, <1>9, <1>10, <1>11, <1>13, <1>14 DEF NotesInv, Base

LEMMA NotesInvStutters == NotesInv /\ UNCHANGED vars => NotesInv'
<1> SUFFICES ASSUME NotesInv, UNCHANGED vars PROVE NotesInv'
  OBVIOUS
<1>1. UNCHANGED <<rows, docs, texts, room, cut, nroom, lock, task, purging, ops, crashes, purges,
                  erased, behind, gone, met, born>>
  BY DEF vars
<1>2. TypeOK'
  <2>1. TypeOK
    BY DEF NotesInv
  <2> QED BY <1>1, <2>1 DEF TypeOK, Live
<1>3. \A t \in Tasks : TaskInv(t)' /\ HoldInv(t)'
  <2>1. \A t \in Tasks : TaskInv(t) /\ HoldInv(t)
    BY DEF NotesInv
  <2> QED BY <1>1, <2>1 DEF TaskInv, HasRow, HoldInv, Holding, Erasing
<1>4. StampsPast'
  <2>1. StampsPast
    BY DEF NotesInv
  <2> QED BY <1>1, <2>1 DEF StampsPast
<1>5. \A v \in Vaults \ met' : VaultInv(v)'
  <2>1. \A v \in Vaults \ met : VaultInv(v)
    BY DEF NotesInv
  <2> QED BY <1>1, <2>1 DEF VaultInv, CaughtUp, CaughtAs, Touching, Pending, Entry, Erasing
<1>6. \A n \in Notes : NoteInv(n)'
  <2>1. \A n \in Notes : NoteInv(n)
    BY DEF NotesInv
  <2> QED BY <1>1, <2>1 DEF NoteInv, HoldingNote, UnheldNote, TextCaughtUp, Writing
<1>7. OldEntries'
  <2>1. OldEntries
    BY DEF NotesInv
  <2> QED BY <1>1, <2>1 DEF OldEntries, HasRow
<1>8. \A t \in Tasks : CreateInv(t)'
  <2>1. \A t \in Tasks : CreateInv(t)
    BY DEF NotesInv
  <2> QED BY <1>1, <2>1 DEF CreateInv, Creates, Creating, Sound, Unused, PathFree, RoomOf, Blank,
                            Touching, Pending, HasRow, Entries
<1>9. \A n \in Notes : BornInv(n)'
  <2>1. \A n \in Notes : BornInv(n)
    BY DEF NotesInv
  <2> QED BY <1>1, <2>1 DEF BornInv, Sound, RoomOf, Touching, Pending
<1>10. OneCreatePerPath'
  <2>1. OneCreatePerPath
    BY DEF NotesInv
  <2> QED BY <1>1, <2>1 DEF OneCreatePerPath, Entries, RoomOf
<1>11. RowsFollowDoc'
  <2>1. RowsFollowDoc
    BY DEF NotesInv
  <2> QED BY <1>1, <2>1 DEF RowsFollowDoc, Working, HasRow, RoomOf, Entries
<1> QED BY <1>2, <1>3, <1>4, <1>5, <1>6, <1>7, <1>8, <1>9, <1>10, <1>11 DEF NotesInv

\* A note nobody is in is what is stored of it.
LEMMA NotesInvStored == NotesInv => RoomIsStored
<1> SUFFICES ASSUME NotesInv PROVE RoomIsStored
  OBVIOUS
<1>1. Base
  BY DEF NotesInv, Base
<1>2. TypeOK
  BY DEF NotesInv
<1>3. ASSUME NEW v \in Vaults \ met, room[v] # None, Unheld(v) PROVE room[v] = docs[v]
  <2>1. VaultInv(v)
    BY DEF NotesInv
  <2> QED BY <1>1, <1>3, <2>1, RoomIsDocs DEF RoomOf
<1>4. ASSUME NEW n \in Notes \ met, nroom[n] # None, UnheldNote(n), ~ purging PROVE nroom[n] = texts[n]
  <2>1. NoteInv(n)
    BY DEF NotesInv
  <2>2. TextCaughtUp(n)
    BY <1>4, <2>1 DEF NoteInv
  <2>3. Writing(n) = {}
    BY <1>4 DEF UnheldNote, HoldingNote, Writing
  <2> QED BY <2>2, <2>3 DEF TextCaughtUp
<1> QED BY <1>2, <1>3, <1>4 DEF RoomIsStored

LEMMA NotesInvHolds == Spec => []NotesInv
<1>1. NotesInv /\ [Next]_vars => NotesInv'
  BY NotesInvStep, NotesInvStutters
<1> QED BY <1>1, NotesInvInit, PTL DEF Spec

-----------------------------------------------------------------------------
\* Whatever the order in which the requests on a vault derive, and whatever is dropped, swept or
\* restarted in between: once the last of them has derived, the vault's live rows are its
\* document's entries and every entry has a row (derive_metadata).
THEOREM RowsFollowDocHolds == Spec => []RowsFollowDoc
<1>1. NotesInv => RowsFollowDoc
  BY DEF NotesInv
<1> QED BY <1>1, NotesInvHolds, PTL

\* A room nobody works in is what its journal loads to, so that dropping it (evict_idle_rooms) or
\* losing it in a restart loses nothing; and the types, the live rows' paths and create_lock.
THEOREM RoomIsStoredHolds == Spec => []RoomIsStored
BY NotesInvStored, NotesInvHolds, PTL

\* Two notes the API created are never both in a vault at one path, whatever its room went through
\* between create_note's look and its change (create_lock).
THEOREM OneCreatePerPathHolds == Spec => []OneCreatePerPath
<1>1. NotesInv => OneCreatePerPath
  BY DEF NotesInv
<1> QED BY <1>1, NotesInvHolds, PTL
=============================================================================
