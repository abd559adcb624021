# lemmate: a verification development

TLA+ models of the parts of lemmate in which order, failure and concurrency
decide whether a user's text survives, the TLC runs that check them on small
instances, and proofs, checked by TLAPS, of what can be proved for every size.
The modules are translated from the sources under `src/`; `PROJECT.json` says
which lines each definition stands for.

## The system

lemmate keeps notes in folders of Markdown files and synchronises them through
a server. Every note is a CRDT document (Yrs/Yjs); so is the list of the notes
and files of a vault, the *vault document*. A desktop engine keeps the folder, the
documents and a sidecar SQLite database in step; browser tabs hold documents in
memory and IndexedDB; the server relays updates between them and stores every
one.

| Component | State it keeps | Operations | Meets the others through |
|---|---|---|---|
| Document journal (`core/src/store.rs`) | `doc_updates`, `doc_snapshots` of a document | append, save a version, label, maintain (snapshot, prune updates, prune snapshots), load at the head or at a point | called by the engine and the server, one transaction per statement |
| Version history (`core/src/history.rs`) | none; a reading of the journal's tables | fold the snapshots into sessions, compare each with the one before | asked for by windows |
| Sync server (`server/src/app.rs`) | the map of rooms, a document per room, one task per connection, the broadcast bus | handshake, update, REST writes, eviction | frames on WebSockets, REST, the store |
| Server note tables (`app.rs`, `store.rs`) | notes rows, trash, vaults | derive the rows, trash, restore, purge, delete a vault | derived from vault documents; read by every request |
| Access (`auth.rs`, `app.rs`) | members, shares, sessions; what each connection subscribed to | share, leave, hand over, revoke, recheck | asked on every frame and request |
| Vault engine (`core/src/client.rs`) | documents, `by_path`, the queues `dirty`, `pending_fs` and `pending_removals`, the projection rows, handshakes, `awaiting` | events of the file watcher, frames of the server and of local windows, timers | the folder, the store, the server |
| Vault document (`core/src/vault_doc.rs`) | the path of every note id, the hash of every file | add, move, remove | edited by every replica, reconciled by the engine |
| Attachments (`attachments.rs`, `files.rs`, `app.rs`, `client.rs`) | blobs by hash, their rows, remembered hashes, transfers in flight | upload, download, save on a base, drop, sweep | REST beside the WebSocket, entries of the vault document |
| Local relay (`core/src/local.rs`) | windows, engines' channels, the table of notes, held frames | route, hold, claim, announce, reopen | between windows and engines |
| Merge (`core/src/merge.rs`, `local.rs`, `client.rs`) | none of its own; a request | survey, plan, copy, check, retire | questions to two engines |
| Web client (`ui/src/lib/sync.ts`, `vault.svelte.ts`) | entries per note, the set of pending notes in localStorage, IndexedDB | open, close, edit, handshake, probe, acknowledge | frames on one WebSocket |
| Sign-in and invites, approvals, import and export, rendering, search, CLI, desktop, web pages | see `PROJECT.json` | | |

### What is hard about it

* *Interleaving.* The server unlocks a document between applying an update and
  journaling it, so the tasks of several connections interleave exactly there;
  a room is dropped when nothing holds it and loaded again on demand; a
  connection's task outlives its socket.
* *Two writers of one file.* Any program may save a note's file at any moment;
  the engine finds out by an event, or by reading the file before it writes.
  All it has to tell its own writes from others' is the text it last recorded.
* *Commits that are not one transaction.* `maintain` commits three times, taking
  in a file twice, projecting is a commit and a write to disk that can fail.
* *Timers.* A removed file waits two seconds for its other half, a projection
  half a second for quiet; both waits are in memory.
* *Loss without notice.* A client whose connection died does not know what the
  server took; a slow receiver loses bus messages; the server may restart.
* *Counting answers.* The web client decides from the order of answers that the
  server has everything; the mark it then clears is all that keeps an offline
  edit from being forgotten.
* *Text without history.* A folder may have a note's text and not its document; put
  into an empty one, it is there twice once the server's copy arrives.
* *Checked under one lock, done under the next.* Rooms and rows, roles and requests,
  routing tables and channels, the plan of a merge and the folder it is carried out
  in: each is consistent alone, and in between anything may happen.

## Modules

| Module | Models | Kind |
|---|---|---|
| `DocLog` | the tables of one document's journal and every operation on them, as operators on functions from sequence numbers to rows | library |
| `Texts` | a document as marks put in at places: how texts join, and how `set_text` edits | library |
| `Journal` | one document and its journal under a single owner; crashes between the statements of `maintain`; any clock | component |
| `History` | the version history as a function of the journal's tables | pure functions over the states of `Journal` |
| `SharedDoc` | what syncing a document promises | abstract specification |
| `Relay` | rooms, connections, REST requests, bus and clients of one document, over the tables of `DocLog`; implements `SharedDoc` | composition |
| `RelayProofs` | `DocLog`'s tables under several writers; rooms, the store and the steps of `SharedDoc`, under every fault of `Relay`; what its clients get over a store that works | proofs |
| `ServerNotes` | the rows derived from vault documents, in memory and in the journal, under concurrent requests, purges, erasures and restarts | composition |
| `ServerNotesProofs` | theorems about `ServerNotes` | proofs |
| `Access` | members, shares, sessions and the connections that rest on them | composition |
| `NoteFile` | one note, its file, its journal and its projection row, in one engine | component |
| `EngineProofs` | the theorems about `NoteFile` and about `Attachments` | proofs |
| `VaultNames` | several notes and the paths they are at: the maps of the engine, the vault document, files, renames, links and removals | component |
| `VaultNamesProofs` | the theorems about `VaultNames` | proofs |
| `ServerLink` | one engine and its server: joining, losing, rejoining; files that wait for the server's history; `--once` | composition |
| `ConnectionProofs` | the theorems about `Access` and about `ServerLink` | proofs |
| `Attachments` | one file of a vault between replicas' disks, their engines and transfer workers, and the server's blobs and sweep | composition |
| `LocalRelay` | windows, the relay's routing and held frames, engines that stop and are started again | composition |
| `LocalRelayProofs` | the theorems about `LocalRelay` | proofs |
| `Merge` | one vault merged into another by questions to two engines that go on working | composition |
| `StoreProofs` | what the operations of `DocLog` keep true of the tables, and that sound tables read back; the theorems about `Journal`, `History` and `Merge` | proofs |
| `WebSync` | one note of a browser tab: socket client, session, cache and server | composition |
| `WebSyncProofs` | the theorem about `WebSync` | proofs |
| `MC...` | instances for TLC | model checking |

Conventions. In `DocLog`, `Journal`, `Relay` and `WebSync` a document is the *set of
operations* it holds: applying updates is union, so it commutes and is idempotent as a
CRDT's is, a state vector is the set itself, and a diff a difference. Where it matters
what the text reads as (`NoteFile`, `Merge`, `ServerLink`) a text is a set of marks, and
in the last two a document also knows where each mark was put in, so that the same text
put in at two places is there twice. An action is a handler, up to the point where it
lets another task run or commits to the disk. History variables are named as such in each
module's header. Definitions whose comment begins with "Mutant" are plausible bugs, not
part of any specification: each property is shown to fail when one of them replaces the
definition it stands next to. Where a property has several parts, as `CarriedWhole` has, a
further one may stand by for a part that the mutant of `PROJECT.json` does not touch.

### From state and actions to code

* **`DocLog`, `Journal`.** `updates` and `snapshots` are `doc_updates` and
  `doc_snapshots` of one document, as functions from sequence numbers to rows;
  `doc` is the document in memory. `Edit` is `append_update`, `Save`
  `save_version`, `Relabel` `set_version_label`; `Maintain(done)` is `maintain`
  of whose three commits the first `done` happened before the process died;
  `Tick` is the wall clock, which may go back. `appended` (all ever appended),
  `kept` (names given and not taken back) and `steady` (the clock never went
  back) are history.
* **`Relay`.** `map` is the room of the document in the server's map of rooms,
  `docs` what each room that somebody may still hold contains. A task is what
  one connection or one REST request is in the middle of: `handle_frame` is cut
  at its lock releases into `Apply`, `JournalUpdate` or `JournalFails`, and
  `Publish`, a handshake into `Receive` and `Answer`; `GetRoom` loads on demand,
  `Evict` is one turn of `evict_idle_rooms`. A connection is a client and a
  slot, so that a client reconnects while its old task still runs. `ApiStop`
  is the request's future being dropped.
* **`NoteFile`.** `file` is the text on disk, `proj` the projected text of the
  sidecar, `stored` the journal and `doc` the document of one note; `event`,
  `dirty`, `removal` are its entries in `pending_fs`, `dirty` and
  `pending_removals`. A text is a set of marks, a deletion takes one away, and
  `Merge` is the three-way merge of `ingest_external_edit`. `made`, `cut` and
  `onPurpose` are history.
* **`WebSync`.** `entry` is the socket client's `Entry` with its outstanding
  probes, `pending` the mark in localStorage, `cached` the IndexedDB copy, `up`
  and `down` the two directions of one WebSocket.
* **`VaultNames`.** `e.vault` is the vault document, `e.at` the engine's `notes`,
  `e.byPath` its `by_path`, `e.row` and `e.proj` the live rows and projection
  rows of the store, `e.files` the folder (of a file: the id in its front matter
  and whether it holds anything not taken in). Handlers that call each other are
  operators from one such record to the next (`LocalEdit`, `LocalCreate`,
  `Project`, `ReconcileVault` and its stages); the actions install what the
  outermost one returns.
* **`History`.** `Listed` is the choice of the snapshot that stands for each session,
  `PrevEntry` and `ComparedWith` what it is compared with, `Entries` what a window is
  answered.
* **`ServerNotes`.** `room` and `docs` are a vault's document in memory and in the
  journal, `texts` the notes' journals, `rows` the notes table, `task` what each request is
  in the middle of: frames and REST requests are cut where they let go of a lock
  (`SyncVault`, `JournalVault`, `DeriveVault`; `Create`, `TakeText`, `JournalText`, `Place`;
  `Restore`, `RestoreEntry`; `Erase`, `EraseTables`). `Derived` is `derive_metadata`, one
  step as it is under one lock. `PurgeTrash` and `SweepRooms` are the two halves of the
  nightly purge; `EvictIdle` and `Crash` happen beside them. `behind`, `gone` and `met`
  are history.
* **`Access`.** `member`, `share`, `row` and `claims` are the tables; a request is cut
  between the check of its caller's role (`Check`) and its effect (`PutMember`,
  `DeleteMember`, `ChangeShare`, `DeleteVault`). `TakeFrame` and `Serve` are the two halves
  of `handle_frame` on a connection, `Recheck` the turn of `handle_socket` that asks again
  for each subscription. `quiet` and `late` are history.
* **`Attachments`.** `eng[r]` is a replica: disk, remembered hash (`local_hashes`), vault
  document, and the transfer in flight; `srv` the server: blobs, their rows, orphan marks
  and the vault document. A transfer is queued, done by the worker (`Transfer`) and
  reported back (`Finish`) in three steps; a save over REST is cut into `CheckSave`,
  `StoreSave` and `CommitSave`. `known` is the hash its vault document gave the file
  while its user keeps it (`known_kept`); every write of that document by the replica
  itself refreshes it (`Persisted`, for `persist_and_send`, `client.rs:2533-2537`), so that
  a file put or uploaded here goes from the disk when it is deleted elsewhere. `missed`, `lost`, `crossed` and `overtaken` are history;
  `crossed` has a replica whose file changed while a transfer of it was under way, be it by
  its user (`Touch`) or by a removal that arrives (`Overtakes`).
* **`LocalRelay`.** Looking an owner up and routing (`Route`), holding (`Hold`), claiming
  (`SyncRoutes`), listing and announcing a window (`List`, `Announce`), giving an engine a
  channel (`Renew`) are actions of their own, since each takes a lock of its own. `missed`
  is history.
* **`Merge`.** `src`, `dst` and what surrounds them are the two vaults; each question the
  request asks (`Start`, `Plan`, `CopyPicture`, `ReadNote`, `CarryState`, `WriteNote`,
  `CheckLanded`, `Retire`) is an action, `Fail` ends it anywhere, and what users, programs
  and the engines do happens in between. `files` are the destination's pictures and
  `entries` what its vault document names; they change on their own between any two steps
  (`PutPicture`, `NamePicture`, `ShowPicture`). `late`, `apart`, `over`, `cut`, `gone` and
  `met` are history.
* **`ServerLink`.** `e` is the engine with its sidecar and folder: `file`, `proj`, `doc`,
  `vault` as above, `known` whether the note is in `notes`, `awaiting`, `dirty`,
  `touched` (`pending_fs`), `removal` (`pending_removals`), `hs` (`handshakes`), `out` and
  `up` (the outbox and what is on the wire). Handlers are operators from one such record
  to the next. `srv` and `subs` are the server's documents and the connection's
  subscriptions, `down` the frames coming back. `early`, `overruled`, `made` and `cut` are
  history.

## What makes each part correct, and what is checked

| Run | Properties | What it shows |
|---|---|---|
| `journal_safety` | `ReloadGivesDoc`, `SeqsNeverReused`, `VersionsReadBack`, `NamedVersionsSurvive`, `WindowReadable`, `HistoryIsTrue`, `SnapshotsNeverOverwritten` | a reload gives back exactly what was appended, wherever maintenance stopped and whatever the clock did; versions keep their numbers, contents and names; every state of the retention window can be read while the clock only moves forward; the history people see lists every name and says truly what each session changed |
| `relay_faults` | `RoomCoversStore`, `StoreNeverShrinks` | dropped requests, refused appends and crashes never give a document two rooms, a room behind the store, or a store that forgets |
| `relay_converges` | `EvictionIsSafe`, `PublishedIsStored`, `NothingMissed`, `ImplementsSharedDoc` | over a store that works: an idle room may be dropped, nothing is fanned out before it is stored, an answered client misses nothing; and rooms, bus, connections and crashes together are the shared document of `SharedDoc`, which agrees in the end |
| `servernotes_safety` | `RowsFollowDoc`, `RoomIsStored`, `OneCreatePerPath` | when nothing is under way the rows say what the vault documents list, an open room that nobody works in holds what its journal loads to, and two requests never create a note at one path |
| `access_safety` | `Owned`, `AccessWithdrawn`, `EventuallyWithdrawn` | concurrent requests never leave a vault without an owner; a connection with no news of changed access before it is subscribed to nothing its user may not read; and what is lost without news is withdrawn in the end |
| `notefile_safety` | `NothingLostUndisturbed`, `NothingUndoneUndisturbed`, `TrashedOnPurposeUndisturbed`, `OverwritesTakenIn`, `CatchesUpUndisturbed` | two writers of one file, and a note that is removed and restored; see below for `...Undisturbed` |
| `vaultnames_safety` | `InStep`, `NothingErased`, `Settles` | swaps, collisions, copies, links, renames and removals from three sides leave memory, store, vault document and folder naming the same paths |
| `serverlink_joins` | `TakenInOnce`, `OnceIsSynced`, `Settles` | a folder with a copy of a note joins a server that may have the note: its text is taken in once and nothing of it is lost; `--once` ends, and then the server has everything; all agree in the end, whatever connection was lost |
| `attachments_safety` | `EntriesResolve`, `InStep`, `VersionsStay` | what a vault document names can be downloaded, in spite of the sweep; replicas at rest have the file their document names; and no transfer that ends late sets an older version back, no removal takes an edit with it |
| `localrelay_safety` | `AckedInOrder`, `EveryWindowIsHeard`, `Delivered` | what a window is told was taken is in its vault's journal; a window past its announcement is known to every engine that runs, or about to be; and what was made in a window is stored in the end, through engines that stop, vaults opened late and queues that overflow |
| `merge_safety` | `NothingLost`, `CarriedWhole` | a merge carried through, given up or made again loses no text, and carries ids, pictures and history, so that nothing is in a note twice when a server joins the copies |
| `websync_safety` | `NothingForgotten`, `EditsArrive` | the mark that an edit is still owed is cleared only when it is not, and every edit arrives by itself |

Every module has one type invariant, in most a conjunct of the first property of its run.
For every property a mutant, named in `PROJECT.json`, shows that it fails when the code is
changed the way a slip would change it.

### The refinement

`SharedDoc` says what syncing a document promises, without rooms or connections:
operations are made by replicas and requests; the store keeps what it was given; a replica
only gains operations somebody made; and in the end the store has, and every replica
holds, what was made (`Agreed`). `Relay` states that it implements `SharedDoc` with what
the clients hold, what the store would load, and all operations made as the three
variables, and `relay_converges` checks both its steps and its liveness part.

### Preconditions, and what happens without them

A passing run is told by its constants what its environment does not do, and its
properties exempt, by name, what the code does not keep; each such restriction is one
that the code needs, and lifting it shows why.

**Notes and their files** (`NoteFile`, `VaultNames`)

* `Undisturbed` (no crash inside a handler, no failing write). A crash between
  recording a file as read and journaling it loses the save (`client.rs:1307`, against
  `client.rs:1113-1114`; check `NothingLost` with `MaxCrashes = 1`). A failing write
  after the text was recorded makes the next save undo the update (`client.rs:1456`,
  against `SPEC.md:426-427`), or, if it was the first, trashes the note at the next
  start (`client.rs:1121-1123`).
* `Ahead = FALSE` (no rename, and no removal coming due, while the document is ahead of
  the file). Otherwise the rename records the document's text as the file's, and the
  update not yet written is undone (`client.rs:1416-1417`); and a note that takes a
  removed path while it is being typed in is trashed (`client.rs:1343`).
* `stops = 0` in `CatchesUpUndisturbed`: the wait of a projection is in memory, so a
  restart within it leaves the file behind until the next update (`client.rs:1303`,
  against `SPEC.md:417-418`).
* `Races = FALSE`: no note is moved or removed from elsewhere while its own removed file
  waits out the rename window. A pending removal names a note and a path, and
  `finalize_removals` looks at neither again (`client.rs:1361-1370`): a note moved
  meanwhile is trashed though its file is there, and a note removed meanwhile is looked
  up by the rename that follows, which panics.
* `Hasty = FALSE`: no file comes to a path the engine is about to write for the first
  time. Notes never projected have no row `ingest_unsaved` could compare with, and the
  names `resolve_collisions` makes up are not looked for on disk.
* Rewriting links after a rename writes the files of other notes without taking in what
  lies there, and a save is lost (`client.rs:1403`, against `client.rs:1427-1428`);
  `NothingErased` exempts a save such a rewrite wrote over.
* A file that comes back while its removal waits, and is then matched by content to a
  copy, stays behind untracked until it is touched or the engine starts again; `Settles`
  does not say otherwise.
* `Project` reads the file and writes it in one step. A program that saves between the two
  (`client.rs:1431` and `client.rs:1457`) loses its save, as it would in any program that
  replaces a file; nothing here says otherwise.

**An engine and its server** (`ServerLink`)

* `early`: a note that waits for the server's history and is removed elsewhere is taken in
  without it (`client.rs:2224-2232`), because the vault document is answered first; so its
  text goes into an empty document, and is there twice when the note is restored, which is
  what waiting was for (`client.rs:953-957`). The same is done for a note that was moved
  elsewhere. And a window that types into a waiting note has its text taken out when the
  answer comes, or, after a restart, has a document that no longer counts as waiting. And a
  note found without its document, but listed in the vault document, is adopted before the
  server has answered, though it has the text (`client.rs:1247`): what is typed in it before
  that comes, or saved to its file, gives it a history, so that a copy brought back after it was
  removed elsewhere no longer waits. And a refusal of something a viewer wrote is taken for
  the answer to the question (`client.rs:2869`), and ends the wait. `TakenInOnce` exempts all
  of these.
* `TakenInOnce` is about the text here and the text here and there joined, not about what
  the server alone shows: text taken out while there is no connection, and put back by a copy
  of the file, may get there as an edit before the handshake brings the removal, and is there
  twice until then. From somebody the server hands nothing out to, it asks the first only.
* `Forgotten`: `forget` (`client.rs:2436-2447`) does not clear `awaiting`, so a note whose
  file is removed while it waits keeps `is_idle` false, and a run with `--once` never ends
  (against `guide.md:148`, "Add `--once` to sync and exit"). Nor does it for a note the
  server refuses to hand out, whose handshake is never done. `Settles` exempts the two.
* A run with `--once` reports success to a viewer whose edits the server refused;
  `OnceIsSynced` is about editors. What was written just before it ends is taken to go
  out, though the writer is aborted (`client.rs:515`).
* Text typed offline into a note that was removed elsewhere stays in the local journal;
  `OnceIsSynced` is about notes not in the trash.
* A file that an adoption finds without text the server has takes that text out, since
  "the file is the truth" (`overruled`).
* An update whose base has not arrived is dropped (`Joined`), where the code's CRDT keeps it
  until the base comes. The handshake that brings the base brings the update too, so
  the two differ only in between.
* A copy of a file is put (`Bring`) only where the engine lacks the note. Put over a note
  listed here whose document has not arrived, and which was therefore projected as an empty
  file, it would be there twice; so would two folders' copies of a note whose text neither
  has sent yet.

**The server** (`Relay`, `ServerNotes`, `Access`)

* `ApiMayStop`, `StoreMayFail`: a REST request dropped between editing the room and
  journaling leaves a room ahead of the store (`app.rs:1172`, against `app.rs:286-287`);
  with a failing append the server logs a warning and fans the update out all the same
  (`app.rs:647`, against `SPEC.md:500`). `EvictionIsSafe` and `PublishedIsStored` are
  claimed of requests that end and a store that works; `relay_faults` says what holds
  without.
* `RowsFollowDoc` is about vaults at rest, and exempts what the code does not keep: a
  chain or swap of renames within one update, which `derive_metadata` gives up on at the
  unique index (`app.rs:816`); a note two vaults list (`app.rs:792`: a REST change on the
  one pulls its row over, and removing it from the vault its row is in has it purged
  although the other lists it); a crash between journaling an update and deriving its
  rows, or inside `purge_trash`.
* A room loaded, or still held, while its vault is erased goes on answering and is
  written back (`app.rs:1416-1429`). `patch_note` and `restore_note` look a path up
  without `create_lock` (`app.rs:1007`); `OneCreatePerPath` is about requests that create.
* `DeleteVault` is one step, though the server takes the lock of the claims between erasing
  the vault and announcing it (`app.rs:1430-1434`): for as long as that takes, a connection
  stays subscribed to a vault that is gone, with no news of it yet. `AccessWithdrawn` speaks of
  the erasure and its announcement as one.
* A late `put_member` gives a vault just erased a member and no owner (`auth.rs:1128`),
  a late `put_share` leaves a share of a note that has no row; `Owned` exempts the former
  (`late`).

**Files** (`Attachments`). The history variables mark what a property leaves out:

* a replica that has a note's text but not yet its picture finds the picture unused and
  drops its entry for everyone (`client.rs:2023`, against `client.rs:2020-2022`). The
  definition `UsedIsNotDropped` states what the comment says, and no run claims it: check
  it with `Saves = {}`;
* an entry that arrives while the version before it is being downloaded is set back when
  that download's file event comes (`client.rs:1993`); after a restart or a failed
  download, the file on disk wins over a newer entry (`client.rs:1157`);
* an upload that ends remembers the hash of the bytes it sent (`client.rs:2112-2114`),
  though the file was put again meanwhile: the newer copy then counts as unchanged, and is
  deleted if the entry goes (`client.rs:2411-2431`). It also sets the entry to
  what it sent, whatever others set it to while it was under way (`overtaken`, `crossed`);
* a kept file deleted elsewhere while its upload is under way goes from the disk here, and the
  upload that ends names it again and remembers its hash (`client.rs:2110-2114`), so that
  `local_hash` (`client.rs:1896-1899`) finds the file in step that is not there: it is not
  fetched before the next start. `crossed` marks this too;
* a kept file whose first upload fails is not tried again; of two saves over REST on the
  same base both are accepted (`app.rs:2266-2280`); a download writes over a newer save
  the watcher has not delivered; a blob marked as an orphan keeps the mark when it is
  asked for again.

**The local relay** (`LocalRelay`). A frame held for a window is answered to nobody if the
engine's first tick comes before it hears of the window (`client.rs:2919`, against
`local.rs:382`). A note created together with its vault, offline, may be sent to the only
engine there is, and is acknowledged but not stored in its vault (`local.rs:345`);
and a frame held for such a note comes back ahead of an earlier one that engine has in its
channel when it claims the note. The history variable `missed` marks such runs, which
`Delivered` and `AckedInOrder` exempt. A connection ends here because its outbox is full or
closed (`Unlist`); a window that closes its socket by itself (`local.rs:739`) and opens
another, with frames of the old one still coming in beside the new one's handshake, is not
modelled.

**History.** The start of the oldest session is its first *remaining* update: after a
pruning it is later than the session's first snapshot, though `history.rs:42-43` says it
falls back to that.

**Merge.** The source retires with what reached it after it was surveyed or read
(`local.rs:2025-2042`, against the comment at `local.rs:1933`); a document ahead of its
file, or a save its engine had not read, makes the destination's `set_text` undo text or
put it in twice; a refused `AdoptState` is not noticed, so that newer text may come without
history (`apart`); a step that fails leaves copies in the destination; a note for which no
numbered path is free goes to the one it wanted, taken or not (`unwrap_or_else`, with as
many numbers as `Alternatives` allows). Untracked files at
a planned path are written over, and a picture not yet on the source's disk is skipped.
So are pictures: the plan is made from one survey of the destination (`local.rs:1957`), and
`merge_write` then looks for notes only (`client.rs:1629-1632`), so that the copy goes over a
picture that came to the planned path after the survey (`local.rs:1988`), or that the survey
did not tell of, because nothing named or used it or because its entry was not the file's; a
note of the destination that shows it shows the source's from then on. Where the plan takes
the two for the same and copies nothing, or the copy is made first, it is the carried note
that shows the wrong one. `met` marks the paths, and `PicturesResolve`, the part of
`CarriedWhole` about pictures, is about all others; without `met`, TLC refutes it. The source's
picture keeps its bytes. `NothingLost` and `CarriedWhole` name each.

**The web client** (`WebSync`). `SlowCache = FALSE`: IndexedDB answers before the server,
or a restarted tab forgets an offline edit (`vault.svelte.ts:156`). `Reopens = FALSE`: no
note is closed and opened again while an answer is in flight, since answers carry no
question (`sync.ts:229`, against `sync.ts:26-29`).

### Bounds

| Run | Instance | Why it is enough to be interesting |
|---|---|---|
| `journal_safety` | 2 operations, 2 names, snapshot every 2 updates, window 1, clock 0..3, sessions of 2 | a snapshot, updates behind and after it, pruning of both kinds, all interruptions, the clock before, in and after the window and going back; sessions of one and of several snapshots, named and not |
| `relay_faults` | 1 client with 2 connections, 1 request, 2 rooms, 2 faults | every half-done write meets another task and a reload; a room dropped and loaded while its old one is still held |
| `relay_converges` | 2 clients, 1 connection each, 2 operations, bus of 1, 1 drop or crash | two tasks between unlock and append, a lagging receiver, an edit lost with its connection, one lost with the server |
| `servernotes_safety` | 2 vaults, 2 notes, 2 paths, 2 requests at once, 3 in all, 1 purge, 1 restart | any two handlers interleaved at every lock, with a third before, between or after |
| `access_safety` | 2 users, 1 connection, 2 requests at once, 2 vaults, 3 operations | two owners that step down at once; a claim that lapses; a frame let through before its user lost the vault |
| `notefile_safety` | 3 marks, 2 removals, 2 stops, 1 crash, 1 failing write | edits of both sides before, between and after a projection; a note removed, restored and removed again; a restart after each |
| `vaultnames_safety` | 3 ids, 3 paths of which 1 is numbered, links between two notes, 2 things done in the folder (or through the local API), 2 remote changes of up to two entries, 1 restart | swaps, chains, a collision and its loser, copies under a known id, an id adopted from a file, a link to a renamed note; a run that needs more ids or numbered paths ends (`e.short`) |
| `serverlink_joins` | 2 marks, all combinations of what folder, sidecar and server know, 3 roles, 2 edits, 1 break | an edit on each side of every frame; a join, a connection lost in the middle of it, and another; a file removed, brought or changed while it waits |
| `attachments_safety` | 2 replicas, 1 save over REST, 2 things that happen, 5 writes to documents | two versions, uploaded, downloaded and swept in any order; a restart or a failure in the middle; longer runs are left to the proofs |
| `localrelay_safety` | 1 window and its connection, a vault and a second one with a note created in the window, queue of 2, 1 stop | a frame for a vault that is not open, a note nobody owns, an engine that stops with frames in its channel, an overflow |
| `merge_safety` | 2 notes and 1 in the destination, 2 ids for copies, 2 marks, 2 merges, 2 edits, or pictures put, replaced, removed, named or shown in the destination at any step | a path, a picture and an id already taken; a picture that comes or goes between the survey, the copy and the note; a merge given up at any step and made again over its leavings |
| `websync_safety` | 3 edits, 1 drop, 1 closed tab, 2 changes of role | three probes in flight at once, a refusal between them, a drop with a frame in each direction |

Symmetry is used only in runs without liveness.

### Fairness

Only what the code's own loops guarantee is assumed, and all of it is weak fairness:
server tasks and the clients' reconnect loop run on (`Relay`; reconnecting never gives
up); the watcher and the engine's `tick` come round (`NoteFile`; in `VaultNames` and
`ServerLink` one condition for the engine as a whole, one task that does something while
there is something to do, and in the latter one for the server, and a user who starts the
engine again); relay, engines and supervisor as one process (`LocalRelay`); each
connection reads its frames and rechecks at least every five minutes (`Access`); the tab's
socket, timers and IndexedDB go on while it is open and a tab comes back (`WebSync`).
Nobody is obliged to edit, save, drop, crash or fail.

## What is proved

TLC checks instances; the following is proved for every value of the constants, from the
assumptions their modules name and, where it says so, one more. Each theorem rests on an inductive invariant, found by strengthening the property
until every step kept it; TLC checked each invariant on a run's instance first.

| Theorem | Property | Further assumption |
|---|---|---|
| `StoreProofs`: `TypeCorrect`, `ReloadCorrect`, `SeqsCorrect`, `VersionsCorrect`, `NamedCorrect`, `NotOverwritten`, `WindowCorrect`, `HistoryCorrect` | `TypeOK`, `ReloadGivesDoc`, `SeqsNeverReused`, `VersionsReadBack`, `NamedVersionsSurvive`, `SnapshotsNeverOverwritten` (of the steps), `WindowReadable`, `HistoryIsTrue` | |
| `RelayProofs`: `RoomCorrect`, `StoreCorrect`, `RelayIsShared` | `RoomCoversStore`, `StoreNeverShrinks` (of the steps), the safety half of the refinement of `SharedDoc` | |
| `RelayProofs`: `PublishedCorrect`, `EvictionCorrect`, `NothingMissedHolds` | `PublishedIsStored`, `EvictionIsSafe`, `NothingMissed` | `StoreWorks` |
| `ServerNotesProofs`: `RowsFollowDocHolds`, `RoomIsStoredHolds`, `OneCreatePerPathHolds` | `RowsFollowDoc`, `RoomIsStored`, `OneCreatePerPath` | |
| `ConnectionProofs`: `OwnedHolds`, `AccessWithdrawnHolds` | `Owned`, `AccessWithdrawn` | |
| `EngineProofs`: `NothingLostHolds`, `NothingUndoneHolds`, `TrashedOnPurposeHolds` | `NothingLostUndisturbed`, `NothingUndoneUndisturbed`, `TrashedOnPurposeUndisturbed` | `~ Ahead` |
| `VaultNamesProofs`: `NamesHolds`, `InStepHolds`, `NothingErasedHolds` | the inductive invariant of `VaultNames`, `InStep`, `NothingErased` | `~ Races`, `~ Hasty` |
| `EngineProofs`: `OverwritesTakenInHolds` | `OverwritesTakenIn` (of the steps) | |
| `EngineProofs`: `EntriesResolveHolds`, `FileInStepHolds`, `VersionsStayHolds` | `EntriesResolve`, `InStep` of `Attachments`, `VersionsStay` (of the steps) | |
| `ConnectionProofs`: `LinkHolds`, `TakenInOnceHolds`, `OnceIsSyncedHolds` | the inductive invariant of `ServerLink`, `TakenInOnce`, `OnceIsSynced` | |
| `WebSyncProofs`: `NothingForgottenHolds` | `NothingForgotten` | `Calm` |
| `LocalRelayProofs`: `WindowsHeardHolds`, `AckedInOrderHolds` | `EveryWindowIsHeard`, `AckedInOrder` | |
| `StoreProofs`: `NothingLostHolds`, `CarriedWholeHolds` | `NothingLost`, `CarriedWhole` | |

`StoreWorks` says that no append fails and no REST request is dropped half way, `Calm` that
IndexedDB answers before the server and no note is reopened with an answer under way,
`~ Ahead` that no note is renamed or its removal comes due ahead of its file, `~ Races`
that none is moved or removed from elsewhere while its own removal waits, and `~ Hasty` that
no file comes to a path about to be written for the first time: what
the runs of these properties assume too, and, as *Preconditions* says, what the code needs.
Lost connections, clients that lag, evictions, stops and restarts are in all of them where
the module has them; so are crashes, which only the first three properties of `NoteFile`
exempt. The notes and paths of `VaultNames` are any finite sets, and the links between the
notes any relation.

### The arguments

*The journal.* `JournalInv` adds `Sound`, which relates the two tables to the log of all
that was ever appended: rows tell the truth, the head is known, and an update is gone only
when a snapshot at or after it remains. Each operation of `DocLog` is shown to keep the
tables sound (`AppendSound`, `PutSnapshotSound`, `PruneUpdatesSound`,
`PruneSnapshotsSound`), and sound tables to read back (`ReadAt`, `SoundLoad`); the theorems
about actions only combine these. The heart is that pruned updates lie at or below a
snapshot that stays, because `PruneSnapshots` spares the newest one before the cut-off.
For the window, `WindowInv` adds, while the clock only went forward, that times grow along
the log and that there is a *cut*: the beginning, or an old snapshot, after which no update
is missing. A state from the cut on is all there; one before it was replaced before the cut
was taken, and so lies outside the window. Pruning moves the cut, and the clock can only
shrink what the window needs.

*The history.* `HistoryInv` adds that the remaining updates have their dates and no gap
among them, and that snapshots come in the order of their times. Then every snapshot lies in
exactly one session, the one that is listed for it is its last, and what it is compared with
is the state before its first.

*Rooms.* `RoomInv`: a task that works on the document has the room that is in the map, its
update is in that room, and the room has at least what the store has. The last is what a new
room has by being loaded, and what keeps `maintain` honest: the snapshot of one task covers
what every other has journaled. For the refinement, `AllMade` says that everything in the
store, the rooms, the tasks, the queues and the clients was made by somebody. Over a store
that works, `StoredInv` adds that a room has no more than the store and what a task is about
to journal; so a room without tasks is the store, and what is published was stored. Then
`DeliveryInv` follows every operation of a room to every answered client, through the task,
the bus and the wire, and never finds it in none of them.

*Rows.* The difficulty is that rows are derived by requests in any order from a document
that others have changed meanwhile. `CaughtUp` says that each entry of a room is the latest
of the stored one and of those the requests between their change and its journaling have
pending. A vault with nothing pending is therefore what is stored, whoever drops its room or
restarts the process, and its rows are those of the last derive. Texts are the same without
stamps, since they only grow. For `OneCreatePerPath`, `CreateInv` says that a note being
created is in nothing of its vault and that no note created at its path is in it, which only
`create_lock` keeps; `BornInv` says that what a crash brings back of a created note is what
the room had. `met` marks the vaults and notes a request was in while they were removed:
for them nothing of this holds, because a request with the room that an erase took out of
the map, and another with a new room, derive from two documents in turn.

*Access.* `AccessInv`: a connection that has, or is about to be given, what its user may not
read has been told so and has yet to look (`due`), or was passed over, by name, by a change
nobody is told of (`quiet`); a vault with members has an owner.

*An engine and its server.* `LinkInv` has two halves. `Sent` is about what goes up: nothing is
on its way that this replica does not have, and once a handshake is done there is a place in
what is on its way from which everything this replica has follows, each edit behind what it
was made on, if the server does not have it (`Handed`); the entry of the vault document that
leads the others is there or on its way too (`Entrusted`). Handshakes are only done when both
sides have answered, so `--once` ends no earlier. That of two entries the map shows one
whichever order they come in (`LeadsOn`, `LeadsEither`) is by the first place where the chains
of those who set them part. The other half, `Kept`, is about a text that was not taken in too
early. `Whole` says where each mark is that nobody meant to take out, and that the file's last
known text is in the document unless the file still waits. `Once` says that what was put in
there is never put in here as well, unless it is taken out here: a document that is not empty
has the text of the folder's copy if the server has it, so a file set on it finds that text;
and what comes down is an answer with all of it, or made on it (`Comes`). `Born` says that
there is nothing of a note before somebody brings it.

*The web client.* Answers carry no question: they are counted. `WebInv` therefore says where
in the two streams of frames the answer to each outstanding question is or will be
(`Coming`), and that before that place everything the tab owes is on the server, under way,
or refused (`Clear`). The mark is cleared when such an answer arrives with nothing sent
after its question.

*Notes and their files.* `NoteInv` says, of states no crash inside a handler and no failed
write came before, that document and journal agree, and that a file differs from its row
only in what was meant: what it lacks somebody cut, what it has besides nobody did, and
that is not yet in the document (`Apart`). So what is taken in is what others did to the
file since, whatever happened to the document meanwhile; a rename, whose base is the
document, takes in the same as long as the document is the row. A live note's missing file
was removed on purpose or is still to be written (`Missing`), and in the second case no
removal comes due. `FilesInv` holds through crashes and failed writes too: that a live note's
file has a row is all `OverwritesTakenIn` needs.

*Several notes and their paths.* `NamesInv` says of the engine between two handlers
(`Steady`) that `at` and `byPath` are inverse and the rows are `at` (`Indexed`); that a note
is projected where it is, and that one not written yet has no file in its way, but perhaps
one not new at a path of the collision rule (`Projections`); that what is new at such a path
is in the file of the note written there (`NumberedAre`); that a removal that waits is that
of a note that is still where it was (`RemovalsAre`); and that `at` is the vault document. The middle
three are what the properties lack: they say which writes could meet something unread.

Half of the proof is about loops. `Each` folds a handler over a finite set, in an order the
proof knows nothing of. `FoldExists` says that the fold has a value for every set, and
`FoldKeeps` that what each application of the handler keeps holds at its end, both by the
size of a smallest set without it (`SetsAll`), since induction theorems are out of reach.
What is kept may mention the members still to come, so what a loop has yet to do can be
said.

The other half is `reconcile_vault`, which breaks all of this and mends it stage by stage.
Taking in the files that lie where notes are to go ends with every such path held by a note
(`Occupied`), so the collision rule sees each, and gives every loser a path of its own and
leaves the vault document without doubles (`Ready`). What is unread in the files of the
notes that go or move is then taken in (`Cleared`), so that those files may go: after the
removals and the first half of the moves every one of those paths is free in memory, rows
and folder (`Vacated`). Therefore no row is in the way of the second half, in whatever order
a chain or a swap of notes takes its new paths (`Taken`). What is left are notes that come
(`Adopting`), each to a free path without a file, but for those of the collision rule, and
writing one disturbs no other: `Steady` again.

*Files.* `Ways` reduces a step of `Attachments` to what it can do to one replica: go on with its own work, the disk as it is (`Moves`); take the
server's entry in (`Takes`); have its user change the file (`Changes`); move bytes, end a
transfer, start again. `AttachmentsInv` then follows a hash.
`Resolves`: whatever names one that the server has yet to hear of (an entry ahead of the
server's, an upload that is done, a save that is stored) names one the server has, or was
purged from under somebody who had been told of it; so it may be merged in at any time.
`KeepsUp`: the remembered hash is the disk's unless an event is still to come (`Intact`), and
what differs from the entry is being fetched, sent, or still to be looked at (`Caught`). This
is what an upload that ends over a file that changed breaks, hence `crossed`.
`Recalls` says that a replica has seen what it takes for synced; since a removal takes only such
a copy, an edited one stays. For `NewVersionStays`, `Fresh` says that bytes not yet looked at
are nobody else's, so an upload puts something new or what the entry names already; and
`Catches` that a replica whose file is an older version is fetching the newer one, and
so sends nothing before it has it.

*The local relay.* `RelayInv` says of each connection where its session, its window and its
place in `listed` and `full` may be, and of each engine's channel that a window it hears to be
gone has been taken off the list and that what came back for a claim is in front. So nothing
after its announcement takes a window from an engine's peers but its own farewell or a stop of
the engine, whose restart closes the outbox of everybody listed. That what
`Picked` leaves of a queue is a queue of the same elements is by a least counterexample, since
induction theorems are out of reach.

For the acknowledgements, `OrderInv` lays the frames of one window about one document out in
one line, as long as nothing was missed: the answers on their way down, what came back for a
claim, then what is in the engine's channel, held, about to be held and on its way up. Frames
of a note are held after those sent to the only engine there was, frames of a vault before
those sent to its engine, and that is where a place in the line comes from. `LineInv` says
that there is one question in the line at most, and that each thing it is about is stored or
in a frame ahead of it; a question that comes to the front is therefore answered by a store
that has it all. What a stop or an overflow takes out of the line it takes with the
connection, or with every question; `Whole` marks the lines nothing was taken from. Each step
is shown to move every line in order (`LineMoves`, and from it `LineKeeps`, `LineShifts` and
`LineJumps`). Of the four ways to miss a frame three are needed: a question handled before
its window was heard of is lost, and loses no order. The one that lets a frame held for a
note come back ahead of an earlier one was found by the attempt: without it the invariant is
not kept.

*Merging.* `MergeInv` follows a text from the source through the request to the destination.
`KeptInv` says that until the source goes what was made is in one of the two vaults, and that
what the request has read of the source, and will not read again, is at the destination
already or in the text it is about to write. What makes `Retire` safe is that the survey
left nothing out: a plan that treats the notes of a finite set one after another treats all
of them. `OwnInv` says why writing erases nothing: the destination's text is that of
its file, or differs from it in what the history variables name. `KinInv` is for texts that
are carried with their history: a mark that the destination takes over has been put in where
the source put it in, so that a text set on it shows the whole and shows nothing twice.
`PicInv` keeps the pictures apart while the destination's come, are replaced and go. It adds
to the property that where the request has planned the source's picture to be, there is no
other but one marked `met`: the plan keeps a name that is new to the survey, or that has the
same bytes, and otherwise takes one outside the survey (`FreePathIsFree`), so that what lies
there unsurveyed is met at once, and what is put there afterwards when it is put. A note that
means a picture at another path is out of the copy's way, and a carried note finds at the
planned path the source's picture, or none.

### What is not proved

Every invariant and action property of a run is a theorem. Only model-checked is liveness,
which is out of the prover's reach: `CatchesUpUndisturbed`, `EditsArrive`, `Delivered`,
`EventuallyWithdrawn`, `Settles` of `VaultNames` and of `ServerLink`, and the second half of
the refinement of `SharedDoc`.

## What is not modelled

The CRDT and the text it computes (taken as given), text merge beyond adding and removing
marks, front matter beyond the id, paths a disk cannot hold and folders that ignore case,
awareness, rate limits, the wire encoding, and of the components modelled:

* of the server: tokens and their scopes, links to notes, accounts, invites, the throttle
  of sign-ins, OpenID; one process, one database;
* of the engine: vaults without a server, the back-off, retirement upstream, restarts of an
  engine that failed; moves in `ServerLink`, which has one path (`VaultNames` has them);
* of files: moves of files, several files or notes at once, vault resources, files that
  are too large, the pause after a failed upload;
* of the local relay: the limits on held frames and how long they are held, a second
  window, presence;
* of a merge: the folder chosen for it, marks and resources, a source whose server is out
  of reach.

The components marked `not_modelled` in `PROJECT.json` are, for the most part, sequential
passes over text or files, or wrappers around external programs, whose correctness is a
matter of formats: parsing Markdown, import and export, rendering, styles and templates,
configuration, windows and pages. They make up most of the lines of the repository and have
no state that another part could find halfway through.

## Plan

Done, in this order: `DocLog`, `Journal` and their proofs; `Relay`; `NoteFile`; `WebSync`;
`VaultNames`; `LocalRelay`; `ServerNotes`; `Attachments`; `Access`; `History`; `SharedDoc`
and the refinement; `Merge`; `ServerLink`. The proofs of `Journal` and `History`, `Relay`
and its refinement, `ServerNotes`, `Access`, `NoteFile`, `Attachments`, `WebSync`,
`LocalRelay`, `Merge`, `ServerLink` and `VaultNames` are done. No invariant is left to
prove; what remains open is named under *What is not modelled*.

Attempts at proofs showed what larger instances then confirmed: `VersionsStay`, `InStep` of
`Attachments` and `TakenInOnce` once claimed more than the code keeps, and now name the runs
they leave out (`overtaken`, `crossed` when a removal arrives, and what `early` marks of
refused edits, stops while a note waits, and notes typed in before the server's text came).
