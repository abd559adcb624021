----------------------------- MODULE VaultNames -----------------------------
(***************************************************************************)
(* Which note is at which path, in one engine of a vault folder            *)
(* (crates/core/src/client.rs): the vault document, which everyone edits,  *)
(* the engine's `notes` and `by_path`, the rows of its sidecar store, and  *)
(* the files, which the user creates, copies, renames and removes.         *)
(*                                                                         *)
(* A handler calls others, so each is an operator from one state of the    *)
(* engine to the next (a record `e`), and the action of the outermost one  *)
(* installs the result.  Of a file, what counts is the id its front matter *)
(* carries and whether it holds something the engine has not taken in;     *)
(* what taking it in does to the text is NoteFile's subject.               *)
(*                                                                         *)
(* e.erased and e.panicked are history: something not taken in was written *)
(* over or deleted, and a note was looked up that is not there.  e.short   *)
(* ends a run that would need more ids or numbered paths than there are.   *)
(***************************************************************************)
EXTENDS Integers, FiniteSets, FiniteSetsExt

CONSTANTS
  Notes,      \* note ids, compared where two claim one path
  Paths,
  Numbered,   \* those the collision rule names: a path with a number put after it
  Links,      \* <<n, m>>: note n links to note m
  None,
  MaxLocal,   \* bound: files created, changed, copied, renamed or removed here
  MaxRemote,  \* bound: changes of the vault document from elsewhere
  MaxStarts,  \* bound: restarts
  Races,      \* whether a note may be moved or removed while its removed file waits out the rename window
  Hasty       \* whether files may come where the engine is about to write a note for the first time

ASSUME NamesAssumption ==
  /\ Notes \subseteq Nat /\ Numbered \subseteq Paths /\ Links \subseteq Notes \X Notes
  /\ MaxLocal \in Nat /\ MaxRemote \in Nat /\ MaxStarts \in Nat
  /\ Races \in BOOLEAN /\ Hasty \in BOOLEAN
  /\ IsFiniteSet(Notes) /\ IsFiniteSet(Paths) /\ None \notin Notes \cup Paths

VARIABLES
  e,        \* the engine, its store and the folder
  opening,  \* `reconcile_disk` is going through the folder
  local, remote, starts

bounds == <<local, remote, starts>>
vars == <<e, opening, bounds>>

File(n, new) == [id |-> n, new |-> new]
NoFile == File(None, FALSE)
Files == [id : Notes \cup {None}, new : BOOLEAN]
Removals == [path : Paths, id : Notes]

TypeOK ==
  /\ e.vault \in [Notes -> Paths \cup {None}]   \* the vault document
  /\ e.at \in [Notes -> Paths \cup {None}]      \* `notes`, with the path of each
  /\ e.byPath \in [Paths -> Notes \cup {None}]
  /\ e.row \in [Notes -> Paths \cup {None}]     \* rows not in the trash
  /\ e.proj \in [Notes -> Paths \cup {None}]    \* projection rows
  /\ e.files \in [Paths -> Files]
  /\ e.dirty \subseteq Notes
  /\ e.removals \subseteq Removals              \* `pending_removals`
  /\ e.events \subseteq Paths                   \* `pending_fs`
  /\ e.used \subseteq Notes                     \* ids that exist anywhere
  /\ {e.erased, e.panicked, e.short, opening} \subseteq BOOLEAN

Init ==
  /\ e = [vault |-> [n \in Notes |-> None], at |-> [n \in Notes |-> None],
          byPath |-> [p \in Paths |-> None], row |-> [n \in Notes |-> None],
          proj |-> [n \in Notes |-> None], files |-> [p \in Paths |-> NoFile],
          dirty |-> {}, removals |-> {}, events |-> {}, used |-> {},
          erased |-> FALSE, panicked |-> FALSE, short |-> FALSE]
  /\ opening = FALSE
  /\ local = 0 /\ remote = 0 /\ starts = 0
-----------------------------------------------------------------------------
(* Statements the handlers are made of *)

There(x, p) == x.files[p] # NoFile

\* A statement for each member of a set, which is most often empty.
Each(Op(_, _), x, S) == IF S = {} THEN x ELSE FoldSet(LAMBDA n, y : Op(y, n), x, S)

\* The engine writes a note, or deletes a file: the watcher reports its own changes too.
Put(x, p, f) ==
  [x EXCEPT !.files[p] = f, !.erased = @ \/ x.files[p].new,
            !.events = IF x.files[p] = f THEN @ ELSE @ \cup {p}]
Write(x, n, p) == [Put(x, p, File(n, FALSE)) EXCEPT !.proj[n] = p]

\* The index of live rows is unique per path: a row does not go where another is.
RowFree(x, n, p) == \A m \in Notes \ {n} : x.row[m] # p
Index(x, n, p) == [x EXCEPT !.row[n] = p]

\* `forget`
Forget(x, n, p) ==
  [x EXCEPT !.row[n] = None, !.proj[n] = None, !.byPath[p] = None, !.at[n] = None,
            !.dirty = @ \ {n}]

\* What `local_edit` and `ingest_unsaved` compare: the file with the text last projected.
Differs(x, n, p) == x.proj[n] = None \/ x.files[p] # File(n, FALSE)

\* What a handler reads is taken in, whatever becomes of it.
Seen(x, p) == [x EXCEPT !.files[p].new = FALSE]

\* `local_edit`: the file is taken in, and carries the note's id from then on.
LocalEdit(x, n, p) ==
  IF ~ Differs(x, n, p) THEN x
  ELSE IF x.at[n] = None THEN [x EXCEPT !.panicked = TRUE]
  ELSE LET y == Write(Seen(x, p), n, p) IN IF RowFree(y, n, p) THEN Index(y, n, p) ELSE y

\* `ingest_unsaved`
IngestUnsaved(x, n) ==
  LET p == x.at[n] IN
  IF p # None /\ x.proj[n] = p /\ There(x, p) /\ Differs(x, n, p)
    THEN LocalEdit([x EXCEPT !.events = @ \ {p}], n, p) ELSE x

\* `rewrite_links`: the notes that link to a note at a new path are written again, without a look at
\* what lies there: what this erases is left out of e.erased.
Relink(x, n) == [Write(x, n, x.at[n]) EXCEPT !.erased = x.erased]
RewriteLinks(x, m) == Each(Relink, x, {n \in Notes : <<n, m>> \in Links /\ x.at[n] # None})

\* `apply_local_rename`
ApplyLocalRename(x, n, p) ==
  IF x.at[n] = None THEN [x EXCEPT !.panicked = TRUE]
  ELSE LET y == [x EXCEPT !.byPath = [@ EXCEPT ![x.at[n]] = None, ![p] = n],
                          !.at[n] = p, !.proj[n] = p]
       IN IF RowFree(x, n, p)
            THEN RewriteLinks(LocalEdit([Index(y, n, p) EXCEPT !.vault[n] = p], n, p), n)
            ELSE y

\* An id for a note that has none, or whose id another note has.
Fresh(x) == Min(Notes \ x.used)

\* The last part of `local_create`: a note of its own, under the id its file names if that is free.
Create(x, n, p) ==
  LET y == [Write(x, n, p) EXCEPT !.byPath[p] = n, !.at[n] = p, !.used = @ \cup {n}] IN
  IF RowFree(x, n, p) THEN [Index(y, n, p) EXCEPT !.vault[n] = p] ELSE y

\* `local_create`: the second half of a rename, by id or by content, or a new note.
LocalCreate(x, p) ==
  LET f == x.files[p]
      y == Seen(x, p)
      same == {r \in x.removals : ~ f.new /\ r.id = f.id}
  IN
  IF f.id # None /\ x.at[f.id] # None /\ ~ There(x, x.at[f.id])
    THEN ApplyLocalRename([y EXCEPT !.removals = {r \in @ : r.id # f.id}], f.id, p)
  ELSE IF same # {}
    THEN ApplyLocalRename([y EXCEPT !.removals = @ \ same], f.id, p)
  ELSE IF f.id # None /\ x.at[f.id] = None THEN Create(y, f.id, p)
  ELSE IF Notes \subseteq x.used THEN [x EXCEPT !.short = TRUE]
  ELSE Create(y, Fresh(x), p)

\* `local_remove`
LocalRemove(x, p) ==
  IF x.byPath[p] = None THEN x
  ELSE [x EXCEPT !.removals = @ \cup {[path |-> p, id |-> x.byPath[p]]}]

\* `process_path`
ProcessPath(x, p) ==
  IF There(x, p)
    THEN IF x.byPath[p] # None THEN LocalEdit(x, x.byPath[p], p) ELSE LocalCreate(x, p)
    ELSE LocalRemove(x, p)

\* `finalize_removals`, of one that is due.
Finalize(x, r) ==
  LET y == [x EXCEPT !.removals = @ \ {r}] IN
  IF There(x, r.path) THEN y
  ELSE [Forget(y, r.id, r.path) EXCEPT !.vault[r.id] = None]

FinalizeAll(x) == Each(Finalize, x, x.removals)

\* `project`
Project(x, n) ==
  LET y == IngestUnsaved([x EXCEPT !.dirty = @ \ {n}], n) IN
  IF y.at[n] = None THEN y
  ELSE LET z == Write(y, n, y.at[n]) IN
       IF RowFree(z, n, y.at[n]) THEN Index(z, n, y.at[n]) ELSE z
-----------------------------------------------------------------------------
(* `reconcile_vault`, stage by stage *)

\* `take_in_occupants`: files not taken in yet where the vault document puts a note.
Occupants(x) ==
  {p \in Paths : /\ \E n \in Notes : x.vault[n] = p /\ x.at[n] # p
                 /\ x.byPath[p] = None /\ There(x, p)}

\* Mutant: the watcher's events are left to come.
TakeInNone(x) == x

TakeInOccupant(x, p) == LocalCreate([x EXCEPT !.events = @ \ {p}], p)
TakeInOccupants(x) == Each(TakeInOccupant, x, Occupants(x))

\* `resolve_collisions`: the lowest id keeps the path, the others get free ones.
Losers(x) ==
  {n \in Notes : x.vault[n] # None /\ \E m \in Notes : m < n /\ x.vault[m] = x.vault[n]}
FreePaths(x) == {p \in Numbered : x.byPath[p] = None /\ \A n \in Notes : x.vault[n] # p}
ResolveCollisions(x) ==
  LET lost == Losers(x)
      free == FreePaths(x)
  IN
  IF lost = {} THEN x
  ELSE IF Cardinality(lost) > Cardinality(free) THEN [x EXCEPT !.short = TRUE]
  ELSE LET name == CHOOSE f \in [lost -> free] : \A n, m \in lost : f[n] = f[m] => n = m
       IN [x EXCEPT !.vault = [n \in Notes |-> IF n \in lost THEN name[n] ELSE @[n]]]

Gone(x) == {n \in Notes : x.at[n] # None /\ x.vault[n] = None}
Moving(x) == {n \in Notes : x.at[n] # None /\ x.vault[n] \notin {None, x.at[n]}}
Coming(x) == {n \in Notes : x.at[n] = None /\ x.vault[n] # None}
Blocked(x, n) ==
  /\ x.byPath[x.vault[n]] \notin {None, n}
  /\ \A m \in Gone(x) \cup Moving(x) : x.at[m] # x.vault[n]

\* 2. Only a file this replica wrote or read is deleted.
Remove(x, n) ==
  LET p == x.at[n] IN
  Forget(IF x.proj[n] = p THEN Put(x, p, NoFile) ELSE x, n, p)

\* Mutant: the row keeps its place while the note moves.
GiveUpKeepsRow(x, n) ==
  LET p == x.at[n]
      y == IF x.proj[n] = p THEN Put(x, p, NoFile) ELSE x
  IN [y EXCEPT !.byPath[p] = IF @ = n THEN None ELSE @]

\* 3. The old path of a note that moves is given up, its row parked in the trash.
GiveUp(x, n) ==
  LET p == x.at[n]
      y == IF x.proj[n] = p THEN Put(x, p, NoFile) ELSE x
  IN [y EXCEPT !.row[n] = None, !.byPath[p] = IF @ = n THEN None ELSE @]

\* ... and the new one taken; `place_moved` writes the file and the row.
Take(x, n) ==
  LET p == x.vault[n]
      y == [x EXCEPT !.byPath[p] = n, !.at[n] = p, !.dirty = @ \ {n}]
  IN IF RowFree(x, n, p) THEN Write(Index(y, n, p), n, p) ELSE y

\* Mutant: the new note is not marked to be written.
AdoptUnwritten(x, n) ==
  LET p == x.vault[n] IN
  IF RowFree(x, n, p)
    THEN [Index(x, n, p) EXCEPT !.byPath[p] = n, !.at[n] = p, !.used = @ \cup {n}]
    ELSE x

\* 4. A note new to this replica, to be written.
Adopt(x, n) ==
  LET p == x.vault[n] IN
  IF RowFree(x, n, p)
    THEN [Index(x, n, p) EXCEPT !.byPath[p] = n, !.at[n] = p, !.dirty = @ \cup {n},
                                !.used = @ \cup {n}]
    ELSE x

ReconcileVault(x) ==
  LET a == ResolveCollisions(TakeInOccupants(x))
      gone == Gone(a)
      moving == {n \in Moving(a) : ~ Blocked(a, n)}
      coming == {n \in Coming(a) : ~ Blocked(a, n)}
      b == Each(IngestUnsaved, a, gone \cup moving)
      c == Each(Remove, b, gone)
      d == Each(Take, Each(GiveUp, c, moving), moving)
  IN IF a.short THEN a ELSE Each(Adopt, Each(RewriteLinks, d, moving), coming)
-----------------------------------------------------------------------------
(* What happens *)

\* The state a handler leaves, unless the instance is too small to hold it: the run ends there.
Install(x) == e' = IF x.short THEN [e EXCEPT !.short = TRUE] ELSE x
Running == ~ e.panicked /\ ~ e.short
Up == ~ opening /\ Running

\* Other programs: a file is created or changed, copied, renamed, removed.
\* A path nothing is about to be written to for the first time; one of those `resolve_collisions`
\* makes up, only while it is that of a note whose file is there.
Settled(p) ==
  LET n == e.byPath[p]
      written == n # None /\ e.proj[n] = p
  IN
  /\ There(e, p) \/ n = None \/ written
  /\ p \in Numbered => There(e, p) /\ written /\ \A r \in e.removals : r.path # p
UserSave ==
  /\ ~ e.short /\ local < MaxLocal /\ local' = local + 1
  /\ \E p \in Paths :
       /\ ~ Hasty => Settled(p)
       /\ e' = [e EXCEPT !.files[p].new = TRUE, !.events = @ \cup {p}]
  /\ UNCHANGED <<opening, remote, starts>>

UserCopy ==
  /\ ~ e.short /\ local < MaxLocal /\ local' = local + 1
  /\ \E p, q \in Paths :
       /\ There(e, p) /\ ~ There(e, q)
       /\ ~ Hasty => Settled(q)
       /\ e' = [e EXCEPT !.files[q] = File(e.files[p].id, TRUE), !.events = @ \cup {q}]
  /\ UNCHANGED <<opening, remote, starts>>

UserRename ==
  /\ ~ e.short /\ local < MaxLocal /\ local' = local + 1
  /\ \E p, q \in Paths :
       /\ There(e, p) /\ ~ There(e, q)
       /\ ~ Hasty => Settled(q)
       /\ e' = [e EXCEPT !.files = [@ EXCEPT ![q] = e.files[p], ![p] = NoFile],
                         !.events = @ \cup {p, q}]
  /\ UNCHANGED <<opening, remote, starts>>

UserRemove ==
  /\ ~ e.short /\ local < MaxLocal /\ local' = local + 1
  /\ \E p \in Paths :
       /\ There(e, p)
       /\ e' = [e EXCEPT !.files[p] = NoFile, !.events = @ \cup {p}]
  /\ UNCHANGED <<opening, remote, starts>>

\* A change of the vault document, or the server's SyncStep1: up to two entries at once.
RemoteVault ==
  /\ Up /\ remote < MaxRemote /\ remote' = remote + 1
  /\ ~ Races => e.removals = {}
  /\ \E S \in SUBSET Notes :
       /\ Cardinality(S) <= 2
       /\ \E to \in [S -> Paths \cup {None}] :
            /\ \A n \in S : to[n] # e.vault[n]
            /\ Install(ReconcileVault([e EXCEPT
                 !.vault = [n \in Notes |-> IF n \in S THEN to[n] ELSE @[n]],
                 !.used = @ \cup {n \in S : to[n] # None}]))
  /\ UNCHANGED <<opening, local, starts>>

Processed ==
  /\ Running
  /\ UNCHANGED <<opening, bounds>>
  /\ \E p \in e.events : Install(ProcessPath([e EXCEPT !.events = @ \ {p}], p))

RemovalDue ==
  /\ Up
  /\ UNCHANGED <<opening, bounds>>
  /\ \E r \in e.removals : Install(Finalize(e, r))

Projected ==
  /\ Up
  /\ UNCHANGED <<opening, bounds>>
  /\ \E n \in e.dirty : Install(Project(e, n))

\* The local API: `api_rename`, `api_delete`, and a note brought back from the trash.
ApiRename ==
  /\ Up /\ local < MaxLocal /\ local' = local + 1
  /\ \E n \in Notes, p \in Paths :
       /\ ~ Races => \A r \in e.removals : r.id # n
       /\ e.at[n] # None /\ There(e, e.at[n])
       /\ e.byPath[p] = None /\ ~ There(e, p)
       /\ Install(ApplyLocalRename(
            [e EXCEPT !.files = [@ EXCEPT ![p] = e.files[e.at[n]], ![e.at[n]] = NoFile],
                      !.events = @ \cup {p, e.at[n]}], n, p))
  /\ UNCHANGED <<opening, remote, starts>>

ApiDelete ==
  /\ Up /\ local < MaxLocal /\ local' = local + 1
  /\ \E n \in Notes :
       /\ e.at[n] # None
       /\ Install(FinalizeAll(LocalRemove(
            [e EXCEPT !.files[e.at[n]] = NoFile, !.events = @ \cup {e.at[n]}], e.at[n])))
  /\ UNCHANGED <<opening, remote, starts>>

Restore ==
  /\ Up /\ remote < MaxRemote /\ remote' = remote + 1
  /\ \E n \in e.used, p \in Paths :
       /\ e.row[n] = None
       /\ RowFree(e, n, p)
       /\ There(e, p) => Hasty
       /\ e' = [Index(e, n, p) EXCEPT !.byPath[p] = n, !.at[n] = p, !.vault[n] = p,
                                      !.dirty = @ \cup {n}]
  /\ UNCHANGED <<opening, local, starts>>

\* The engine starts again, after a panic or a quit: `open` reads the rows, `reconcile_disk` takes
\* every file as touched and every file that is gone as removed, and ends the rename window.
Start ==
  /\ ~ e.short
  /\ ~ e.panicked => starts < MaxStarts
  /\ starts' = IF e.panicked THEN starts ELSE starts + 1
  /\ LET absent == {n \in Notes : e.row[n] # None /\ ~ There(e, e.row[n])} IN
     e' = [e EXCEPT
       !.at = e.row,
       !.byPath = [p \in Paths |-> IF \E n \in Notes : e.row[n] = p
                                     THEN CHOOSE n \in Notes : e.row[n] = p ELSE None],
       !.events = {p \in Paths : There(e, p)},
       !.removals = {[path |-> e.row[n], id |-> n] : n \in {m \in absent : e.proj[m] # None}},
       !.dirty = {n \in absent : e.proj[n] = None},
       !.panicked = FALSE]
  /\ opening' = TRUE
  /\ UNCHANGED <<local, remote>>

Opened ==
  /\ opening /\ Running
  /\ e.events = {}
  /\ e' = FinalizeAll(e)
  /\ opening' = FALSE
  /\ UNCHANGED bounds

Next ==
  \/ UserSave \/ UserCopy \/ UserRename \/ UserRemove
  \/ RemoteVault \/ Processed \/ RemovalDue \/ Projected
  \/ ApiRename \/ ApiDelete \/ Restore
  \/ Start \/ Opened

\* The engine is one task, whose timers go on firing: while there is something to do, it does it.
Fairness == WF_vars(Processed \/ RemovalDue \/ Projected \/ Opened)

Spec == Init /\ [][Next]_vars
FairSpec == Spec /\ Fairness
-----------------------------------------------------------------------------
\* `notes` and `by_path` are each other's inverse: no path leads to a note that is not there, and no
\* note is without its path; and no note is looked up that is not there, which would take the engine
\* of the vault down.
NamesAgree ==
  /\ TypeOK
  /\ \A n \in Notes : e.at[n] # None => e.byPath[e.at[n]] = n
  /\ \A p \in Paths : e.byPath[p] # None => e.at[e.byPath[p]] = p
  /\ ~ e.panicked

\* Between handlers, every note is where the vault document puts it, memory agrees with itself, and
\* the store says the same, so that a restart continues from there.
InStep == NamesAgree /\ (~ opening => e.at = e.vault /\ e.row = e.at)

\* Nothing a user saved is written over or deleted before it was taken in, but where links to a
\* moved note are rewritten: `rewrite_links` asks `ingest_unsaved` nothing before it writes.
NothingErased == ~ e.erased

\* In the end every note has its file where the vault document puts it, and every file was taken in.
Settles ==
  \/ <> e.short
  \/ <>[](/\ \A n \in Notes : e.vault[n] # None => e.files[e.vault[n]].id = n
          /\ \A p \in Paths : ~ e.files[p].new)
=============================================================================
