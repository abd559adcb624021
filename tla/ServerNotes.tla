----------------------------- MODULE ServerNotes ---------------------------
(***************************************************************************)
(* The server's note tables (crates/server/src/app.rs and the tables of    *)
(* crates/core/src/store.rs): each vault's document, in memory as a room   *)
(* and in the journal, and the rows derived from it that listing, search,  *)
(* trash and authorization read.  Many requests are handled at once; each  *)
(* takes a document's room, changes it, journals the change and derives    *)
(* the rows in steps of their own, while vaults are erased, the trash is   *)
(* purged, idle rooms are dropped and the process restarts.                *)
(*                                                                         *)
(* A vault document maps a note to its path; every change of an entry has  *)
(* a stamp and the latest wins (how concurrent changes of one entry are    *)
(* ordered is VaultNames's subject).  A note document is abstracted to     *)
(* what it reads as: nothing, the whole text, or a part whose earlier      *)
(* updates are missing.  Every user here may edit every vault, and every   *)
(* append succeeds (Relay has the failing ones).                           *)
(***************************************************************************)
EXTENDS Naturals, Sequences, FiniteSets, SequencesExt

CONSTANTS
  Vaults,
  Order,      \* the notes, in the order of their ids
  Paths,
  Restored,   \* the path "x (restored)" of a path x
  Tasks,      \* requests handled at the same time
  None,
  MaxOps,     \* bound: requests
  MaxChange,  \* bound: entries one update of a client changes
  MaxCrashes, \* bound: restarts
  MaxPurges   \* bound: runs of the trash purge

Notes == ToSet(Order)

ASSUME ServerNotesAssumption ==
  /\ Restored \in [Paths -> Paths \cup {None}]
  /\ {MaxOps, MaxChange, MaxCrashes, MaxPurges} \subseteq Nat
  /\ Order \in Seq(Notes)
  /\ \A i, j \in DOMAIN Order : Order[i] = Order[j] => i = j

Docs == [Notes -> [path : Paths \cup {None}, at : Nat]]
Blank == [n \in Notes |-> [path |-> None, at |-> 0]]
Texts == {"empty", "part", "whole"}
Row == [vault : Vaults, path : Paths, live : BOOLEAN, aged : BOOLEAN]
Changes == UNION {[ns -> Paths \cup {None}] : ns \in SUBSET Notes}
Task == [pc : {"idle", "text", "note", "place", "restore", "vault", "derive",
               "erase"},
         v : Vaults \cup {None}, n : Notes \cup {None},
         path : Paths \cup {None}, change : Changes, at : Nat,
         old : BOOLEAN, api : BOOLEAN, update : {"whole", "more"}]
Idle == [pc |-> "idle", v |-> None, n |-> None, path |-> None,
         change |-> [n \in {} |-> None], at |-> 0, old |-> FALSE, api |-> FALSE,
         update |-> "more"]

(* None is none of the things it stands for the lack of. *)
ASSUME NoneAssumption ==
  /\ None \notin Vaults \cup Notes \cup Paths \cup Tasks
  /\ None \notin Docs /\ None \notin Row /\ None \notin Texts
  /\ None \notin Vaults \X Paths

VARIABLES
  rows,     \* the notes table: a row of each note, or None
  docs,     \* what each vault document's journal loads to
  texts,    \* what each note document's journal loads to
  room,     \* AppState.rooms, vaults: the room's document, or None
  cut,      \* the room an erase took out of the map, for those still holding it
  nroom,    \* AppState.rooms, notes
  lock,     \* create_lock: the task holding it, or None
  task,
  purging,  \* between purge_trash and the sweep of rooms after it
  ops, crashes, purges,   \* bounded by MaxOps, MaxCrashes, MaxPurges
  erased,   \* history: vaults that were erased
  behind,   \* history: vaults whose last derive failed or was cut off
  gone,     \* history: notes whose row an erase or a purge removed
  met,      \* history: documents a request took while they were being removed
  born      \* history: where the API created a note nothing has touched since

tables == <<rows, docs, texts>>
rooms == <<room, cut, nroom>>
bounds == <<crashes, purges>>
history == <<erased, behind, gone, met, born>>
vars == <<rows, docs, texts, room, cut, nroom, lock, task, purging,
          ops, crashes, purges, erased, behind, gone, met, born>>

Entries(doc) == {n \in Notes : doc[n].path # None}
Live(v) == {n \in Notes : rows[n] # None /\ rows[n].vault = v /\ rows[n].live}
HasRow(n) == rows[n] # None
Sooner(m, n) == \E i, j \in DOMAIN Order : i < j /\ Order[i] = m /\ Order[j] = n
Holding(t, v) == task[t].v = v /\ task[t].pc \in {"note", "place", "vault", "derive"}
HoldingNote(t, n) == task[t].n = n /\ task[t].pc \in {"note", "place", "vault", "derive"}
(* note_by_path: the live row at a path. *)
Taken(table, v, p, n) ==
  \E m \in Notes \ {n} : table[m] # None /\ table[m].vault = v /\ table[m].live
                         /\ table[m].path = p

(* Applying a change: of each entry the latest stamp wins. *)
Changed(doc, change, at) ==
  [n \in Notes |-> IF n \in DOMAIN change /\ at > doc[n].at
                   THEN [path |-> change[n], at |-> at] ELSE doc[n]]

(* get_room: the room in the map, or a new one loaded from the journal. *)
RoomOf(v) == IF room[v] # None THEN room[v] ELSE docs[v]
NoteRoomOf(n) == IF nroom[n] # None THEN nroom[n] ELSE texts[n]

(* An update of a note's text: "whole" carries all of it (a new note, or   *)
(* the answer of a handshake with an empty room), "more" only the change.  *)
Text(text, update) ==
  IF update = "whole" THEN "whole" ELSE IF text = "empty" THEN "part" ELSE text

(* may_take: whether v's document may take a note whose row is elsewhere. *)
MayTake(t, n) == task[t].api \/ n \in DOMAIN task[t].change

(* derive_metadata of a vault: rows the document no longer names go to the *)
(* trash, then every entry it may take is upserted, in the order of the    *)
(* ids, until one meets the unique index on live paths.  `upsert` gives    *)
(* the row an entry becomes.                                               *)
DerivedAs(t, v, doc, upsert) ==
  LET wanted == {n \in Entries(doc) : HasRow(n) /\ rows[n].vault # v => MayTake(t, n)}
      With(upserted) ==
        [n \in Notes |-> IF n \in upserted THEN upsert[n]
                         ELSE IF n \in Live(v) \ Entries(doc) THEN [rows[n] EXCEPT !.live = FALSE]
                         ELSE rows[n]]
      refused == {n \in wanted :
                    Taken(With({m \in wanted : Sooner(m, n)}), v, doc[n].path, n)}
  IN [rows |-> With({n \in wanted : \A m \in refused : Sooner(n, m)}), ok |-> refused = {}]

(* Mutant: the upsert leaves deleted_at alone. *)
DerivedStillTrashed(t, v, doc) ==
  DerivedAs(t, v, doc,
    [n \in Entries(doc) |-> [vault |-> v, path |-> doc[n].path, aged |-> FALSE,
                             live |-> HasRow(n) => rows[n].live]])

Derived(t, v, doc) ==
  DerivedAs(t, v, doc,
    [n \in Entries(doc) |-> [vault |-> v, path |-> doc[n].path, aged |-> FALSE, live |-> TRUE]])

-----------------------------------------------------------------------------
Init ==
  /\ \E v \in Vaults, p \in Paths, first \in {{}, {Order[1]}} :   \* empty, or one note
       /\ Restored[p] # None
       /\ rows = [n \in Notes |-> IF n \in first THEN [vault |-> v, path |-> p, live |-> TRUE,
                                                       aged |-> FALSE] ELSE None]
       /\ docs = [[w \in Vaults |-> Blank] EXCEPT ![v] = [n \in Notes |-> IF n \in first
                                            THEN [path |-> p, at |-> 0] ELSE Blank[n]]]
       /\ texts = [n \in Notes |-> IF n \in first THEN "whole" ELSE "empty"]
  /\ room = [v \in Vaults |-> None] /\ cut = room
  /\ nroom = [n \in Notes |-> None] /\ born = nroom
  /\ lock = None
  /\ task = [t \in Tasks |-> Idle]
  /\ purging = FALSE
  /\ ops = 0 /\ crashes = 0 /\ purges = 0
  /\ erased = {} /\ behind = {} /\ gone = {} /\ met = {}

Free(t) == task[t].pc = "idle" /\ ops < MaxOps
Erasing(v) == \E t \in Tasks : task[t].v = v /\ task[t].pc = "erase"
Meets(v) == met' = met \cup {d \in {v} : Erasing(d)}

(* A task changes a vault document, under the document's lock: in the room *)
(* it holds, or in the one get_room gives it.                              *)
Apply(t, v, change, rec) ==
  LET at == ops + 1 IN
  /\ ops' = at
  /\ IF task[t].old
     THEN cut' = [cut EXCEPT ![v] = Changed(cut[v], change, at)] /\ UNCHANGED room
     ELSE room' = [room EXCEPT ![v] = Changed(RoomOf(v), change, at)] /\ UNCHANGED cut
  /\ Meets(v)
  /\ task' = [task EXCEPT ![t] = [rec EXCEPT !.pc = "vault", !.v = v,
                                  !.change = change, !.at = at]]

(* A note the API is still creating: no client has heard of its id. *)
Unheard(n) == \E t \in Tasks : HoldingNote(t, n) /\ task[t].api

(* handle_frame: a client's update of a vault document, of any entries. *)
SyncVault(t, v, change) ==
  /\ Free(t)
  /\ Cardinality(DOMAIN change) <= MaxChange
  /\ \A n \in DOMAIN change : ~Unheard(n)
  /\ \E n \in DOMAIN change : change[n] # RoomOf(v)[n].path
  /\ Apply(t, v, change, Idle)
  /\ born' = [n \in Notes |-> IF n \in DOMAIN change THEN None ELSE born[n]]
  /\ UNCHANGED <<tables, nroom, lock, purging, bounds, erased, behind, gone>>

(* patch_note, delete_note: found in the document, and the path free. *)
ApiEdit(t, v, n, path) ==
  /\ Free(t)
  /\ n \in Entries(RoomOf(v))
  /\ \A m \in Entries(RoomOf(v)) \ {n} : RoomOf(v)[m].path # path
  /\ Apply(t, v, [m \in {n} |-> path], [Idle EXCEPT !.api = TRUE])
  /\ born' = [born EXCEPT ![n] = None]
  /\ UNCHANGED <<tables, nroom, lock, purging, bounds, erased, behind, gone>>

JournalVault(t) ==
  LET v == task[t].v IN
  /\ task[t].pc = "vault"
  /\ docs' = [docs EXCEPT ![v] = Changed(@, task[t].change, task[t].at)]
  /\ task' = [task EXCEPT ![t].pc = "derive"]
  /\ UNCHANGED <<rows, texts, rooms, lock, purging, ops, bounds, history>>

DeriveVault(t) ==
  LET v == task[t].v
      res == Derived(t, v, IF task[t].old THEN cut[v] ELSE RoomOf(v))
  IN
  /\ task[t].pc = "derive"
  /\ rows' = res.rows
  /\ behind' = IF res.ok THEN behind \ {v} ELSE behind \cup {v}
  /\ gone' = {n \in gone : res.rows[n] = None}
  /\ lock' = IF lock = t THEN None ELSE lock
  /\ task' = [task EXCEPT ![t] = Idle]
  /\ UNCHANGED <<docs, texts, rooms, purging, ops, bounds, erased, met, born>>

AlwaysFree == TRUE   \* mutant: create_note without create_lock
CreateLockFree == lock = None

(* create_note: under create_lock the path is looked up, and a new note's  *)
(* text is written to its own room first.                                  *)
Create(t, v, n, path) ==
  /\ Free(t)
  /\ CreateLockFree
  /\ texts[n] = "empty" /\ ~HasRow(n) /\ nroom[n] = None /\ n \notin gone
  /\ \A w \in Vaults : RoomOf(w)[n].at = 0 /\ docs[w][n].at = 0
  /\ \A m \in Entries(RoomOf(v)) : RoomOf(v)[m].path # path
  /\ room' = [room EXCEPT ![v] = RoomOf(v)]
  /\ nroom' = [nroom EXCEPT ![n] = "whole"]
  /\ lock' = t
  /\ task' = [task EXCEPT ![t] = [Idle EXCEPT !.pc = "note", !.v = v, !.n = n, !.path = path,
                                              !.api = TRUE, !.update = "whole"]]
  /\ Meets(v)
  /\ UNCHANGED <<tables, cut, purging, ops, bounds, erased, behind, gone, born>>

(* create_note_in: then its entry, in the room of the vault held since. *)
Place(t) ==
  LET v == task[t].v  n == task[t].n IN
  /\ task[t].pc = "place"
  /\ Apply(t, v, [m \in {n} |-> task[t].path], task[t])
  /\ born' = [born EXCEPT ![n] = <<v, task[t].path>>]
  /\ UNCHANGED <<tables, nroom, lock, purging, bounds, erased, behind, gone>>

(* handle_frame, put_note: whether a frame of a note is let in depends on   *)
(* its row, or for a note without one on a claim that lapses after an hour *)
(* (vault_of_note); here every one may be.                                 *)
SyncText(t, n) ==
  /\ Free(t)
  /\ ~Unheard(n)
  /\ ops' = ops + 1
  /\ task' = [task EXCEPT ![t] = [Idle EXCEPT !.pc = "text", !.n = n]]
  /\ UNCHANGED <<tables, rooms, lock, purging, bounds, history>>

(* Then its room is taken and changed. *)
TakeText(t) ==
  LET n == task[t].n IN
  /\ task[t].pc = "text"
  /\ \E update \in {"whole", "more"} :
       /\ update = "whole" => NoteRoomOf(n) # "whole"
       /\ update = "more" => NoteRoomOf(n) # "empty" \/ n \in gone
       /\ nroom' = [nroom EXCEPT ![n] = Text(NoteRoomOf(n), update)]
       /\ task' = [task EXCEPT ![t].pc = "note", ![t].update = update]
  /\ met' = IF purging THEN met \cup {n} ELSE met
  /\ UNCHANGED <<tables, room, cut, lock, purging, ops, bounds,
                 erased, behind, gone, born>>

JournalText(t) ==
  LET n == task[t].n IN
  /\ task[t].pc = "note"
  /\ texts' = [texts EXCEPT ![n] = Text(@, task[t].update)]
  /\ task' = [task EXCEPT ![t] = IF task[t].v = None THEN Idle ELSE [@ EXCEPT !.pc = "place"]]
  /\ UNCHANGED <<rows, docs, rooms, lock, purging, ops, bounds, history>>

(* restore_note: the row first, under a free path ... *)
Restore(t, v, n) ==
  LET path == IF Taken(rows, v, rows[n].path, n) THEN Restored[rows[n].path] ELSE rows[n].path
  IN
  /\ Free(t)
  /\ HasRow(n) /\ rows[n].vault = v /\ ~rows[n].live
  /\ path # None /\ ~Taken(rows, v, path, n)
  /\ rows' = [rows EXCEPT ![n].live = TRUE, ![n].aged = FALSE, ![n].path = path]
  /\ task' = [task EXCEPT ![t] = [Idle EXCEPT !.pc = "restore", !.v = v, !.n = n,
                                              !.path = path, !.api = TRUE]]
  /\ UNCHANGED <<docs, texts, rooms, lock, purging, ops, bounds, history>>

(* ... then the entry. *)
RestoreEntry(t) ==
  LET v == task[t].v  n == task[t].n IN
  /\ task[t].pc = "restore"
  /\ Apply(t, v, [m \in {n} |-> task[t].path], [Idle EXCEPT !.api = TRUE])
  /\ born' = [born EXCEPT ![n] = None]
  /\ UNCHANGED <<tables, nroom, lock, purging, bounds, erased, behind, gone>>

(* delete_vault: the room out of the map, then the tables. *)
Erase(t, v) ==
  /\ Free(t)
  /\ v \notin erased /\ ~Erasing(v)
  /\ room' = [room EXCEPT ![v] = None]
  /\ cut' = [cut EXCEPT ![v] = IF \E u \in Tasks : Holding(u, v) THEN room[v] ELSE None]
  /\ task' = [u \in Tasks |-> IF u = t THEN [Idle EXCEPT !.pc = "erase", !.v = v]
                              ELSE IF Holding(u, v) THEN [task[u] EXCEPT !.old = TRUE]
                              ELSE task[u]]
  /\ met' = met \cup {d \in {v} : \E u \in Tasks : Holding(u, v)}
  /\ ops' = ops + 1
  /\ UNCHANGED <<tables, nroom, lock, purging, bounds, erased, behind, gone, born>>

EraseTables(t) ==
  LET v == task[t].v
      of == {n \in Notes : HasRow(n) /\ rows[n].vault = v}
  IN
  /\ task[t].pc = "erase"
  /\ rows' = [n \in Notes |-> IF n \in of THEN None ELSE rows[n]]
  /\ docs' = [docs EXCEPT ![v] = Blank]
  /\ erased' = erased \cup {v}
  /\ gone' = gone \cup of
  /\ task' = [task EXCEPT ![t] = Idle]
  /\ UNCHANGED <<texts, rooms, lock, purging, ops, bounds, behind, met, born>>

-----------------------------------------------------------------------------
(* Thirty days in the trash: no request takes that long. *)
Age(n) ==
  /\ \A t \in Tasks : task[t].pc = "idle"
  /\ HasRow(n) /\ ~rows[n].live /\ ~rows[n].aged
  /\ rows' = [rows EXCEPT ![n].aged = TRUE]
  /\ UNCHANGED <<docs, texts, rooms, lock, task, purging, ops, bounds, history>>

(* purge_orphans: purge_trash, under one lock of the store ... *)
Aged == {n \in Notes : HasRow(n) /\ rows[n].aged}
PurgeTrash ==
  /\ ~purging /\ purges < MaxPurges
  /\ Aged # {}
  /\ rows' = [n \in Notes |-> IF n \in Aged THEN None ELSE rows[n]]
  /\ texts' = [n \in Notes |-> IF n \in Aged THEN "empty" ELSE texts[n]]
  /\ purging' = TRUE /\ purges' = purges + 1
  /\ gone' = gone \cup Aged
  /\ met' = met \cup {n \in Aged : \E t \in Tasks : HoldingNote(t, n)}
  /\ UNCHANGED <<docs, rooms, lock, task, ops, crashes, erased, behind, born>>

Unheld(v) == ~\E t \in Tasks : Holding(t, v) /\ ~task[t].old
UnheldNote(n) == ~\E t \in Tasks : HoldingNote(t, n)
(* Mutant: only the vaults' rooms go. *)
DropVaults ==
  /\ room' = [v \in Vaults |-> IF Unheld(v) THEN None ELSE room[v]]
  /\ nroom' = nroom

(* evict_idle_rooms: the rooms nobody holds go, here all of them at once. *)
DropUnheld ==
  /\ room' = [v \in Vaults |-> IF Unheld(v) THEN None ELSE room[v]]
  /\ nroom' = [n \in Notes |-> IF UnheldNote(n) THEN None ELSE nroom[n]]

(* ... then evict_idle_rooms(0). *)
SweepRooms ==
  /\ purging
  /\ purging' = FALSE
  /\ DropUnheld
  /\ UNCHANGED <<tables, cut, lock, task, ops, bounds, history>>

(* get_room's own sweep, of rooms unused for ROOM_IDLE. *)
EvictIdle ==
  /\ ~purging
  /\ DropUnheld
  /\ <<room, nroom>>' # <<room, nroom>>
  /\ UNCHANGED <<tables, cut, lock, task, purging, ops, bounds, history>>

(* The process restarts, in the middle of something: the tables stay. *)
Crash ==
  /\ crashes < MaxCrashes
  /\ \E t \in Tasks : task[t].pc # "idle"
  /\ crashes' = crashes + 1
  /\ room' = [v \in Vaults |-> None] /\ cut' = room'
  /\ nroom' = [n \in Notes |-> None]
  /\ lock' = None
  /\ behind' = behind \cup {v \in Vaults : \E t \in Tasks :
                              task[t].v = v /\ task[t].pc \in {"derive", "restore", "vault"}}
  /\ task' = [t \in Tasks |-> Idle]
  /\ purging' = FALSE
  /\ UNCHANGED <<tables, ops, purges, erased, gone, met, born>>

Request(t) ==
  \/ \E v \in Vaults :
       \/ \E change \in Changes : SyncVault(t, v, change)
       \/ \E n \in Notes, p \in Paths \cup {None} : ApiEdit(t, v, n, p)
       \/ \E n \in Notes, p \in Paths : Create(t, v, n, p)
       \/ \E n \in Notes : Restore(t, v, n)
       \/ Erase(t, v)
  \/ \E n \in Notes : SyncText(t, n)
  \/ JournalVault(t) \/ DeriveVault(t) \/ Place(t) \/ TakeText(t) \/ JournalText(t)
  \/ RestoreEntry(t) \/ EraseTables(t)

Next ==
  \/ \E t \in Tasks : Request(t)
  \/ \E n \in Notes : Age(n)
  \/ PurgeTrash \/ SweepRooms \/ EvictIdle \/ Crash

Spec == Init /\ [][Next]_vars
-----------------------------------------------------------------------------
(* Every row is of a vault, no vault has two live notes at one path        *)
(* (notes_live_path), and one task at a time creates notes.                *)
TypeOK ==
  /\ rows \in [Notes -> Row \cup {None}]
  /\ docs \in [Vaults -> Docs] /\ texts \in [Notes -> Texts]
  /\ room \in [Vaults -> Docs \cup {None}] /\ cut \in [Vaults -> Docs \cup {None}]
  /\ nroom \in [Notes -> Texts \cup {None}]
  /\ task \in [Tasks -> Task] /\ lock \in Tasks \cup {None}
  /\ purging \in BOOLEAN /\ {ops, crashes, purges} \subseteq Nat
  /\ {erased, behind} \subseteq SUBSET Vaults /\ gone \subseteq Notes
  /\ met \subseteq Vaults \cup Notes /\ born \in [Notes -> (Vaults \X Paths) \cup {None}]
  /\ \A v \in Vaults : \A n, m \in Live(v) : rows[n].path = rows[m].path => n = m
  /\ \A t \in Tasks : task[t].pc = "place" => lock = t

(* derive_metadata: "Keep the relational tables in step with the CRDT      *)
(* truth".  Once every request on a vault that changed its document has    *)
(* derived, whatever their order, the vault's live rows are the document's *)
(* entries, and every entry has a row.  Left out: a vault that was erased, *)
(* that a request was holding, or took, while it was being erased, or      *)
(* whose last derive failed or was cut off by a restart; and a note whose  *)
(* row an erase or a purge took.                                           *)
Working(v) == \E t \in Tasks : task[t].v = v /\ task[t].pc \in {"vault", "derive", "restore"}
RowsFollowDoc ==
  \A v \in Vaults : ~Working(v) /\ v \notin erased \cup behind \cup met =>
    /\ \A n \in Notes : HasRow(n) /\ rows[n].vault = v =>
         IF rows[n].live THEN rows[n].path = RoomOf(v)[n].path
                         ELSE n \notin Entries(RoomOf(v))
    /\ \A n \in Entries(RoomOf(v)) \ gone : HasRow(n)

(* What answers is what is stored: a room nobody is working in holds what  *)
(* its journal loads to, so a vault that was erased or a note that was     *)
(* purged does not go on answering out of memory.  Left out: a document a  *)
(* request was holding, or took, while it was being removed.               *)
RoomIsStored ==
  /\ TypeOK
  /\ \A v \in Vaults \ met : room[v] # None /\ Unheld(v) /\ ~Erasing(v) => room[v] = docs[v]
  /\ \A n \in Notes \ met : nroom[n] # None /\ UnheldNote(n) /\ ~purging => nroom[n] = texts[n]

(* create_lock: "so two requests cannot both find the path free".  Two     *)
(* notes the API created, and nothing has renamed or restored since, are   *)
(* not both in a vault at one path, whatever its room went through in      *)
(* between.  Left out: a vault that was erased meanwhile.                  *)
OneCreatePerPath ==
  \A n, m \in Notes : n # m /\ born[n] # None /\ born[n] = born[m] =>
    LET v == born[n][1] IN v \in erased \cup met \/ ~{n, m} \subseteq Entries(RoomOf(v))

================================================================================
