----------------------------- MODULE Attachments ---------------------------
(***************************************************************************)
(* One file of a vault that is not a note, as it travels between desktops  *)
(* (crates/core/src/client.rs, "Attachments" and "The file manager") and   *)
(* the server (crates/server/src/app.rs: attachments, files, the orphan    *)
(* sweep).  Each replica has the file on its disk, the hash it remembers   *)
(* of it, its vault document's entry for it, and a worker that uploads and *)
(* downloads one file at a time beside the engine's loop.  The server has  *)
(* the blobs, a row for each and the vault document.                       *)
(*                                                                         *)
(* One note may name the file; its text is abstracted to whether it does.  *)
(* The file is one no other file is named by, and not too large.  Bytes    *)
(* and hash are one value.  Documents merge by stamps: a later write of a  *)
(* cell wins, and a removal removes only the write it saw.                 *)
(***************************************************************************)
EXTENDS Naturals, Sequences, FiniteSets, FiniteSetsExt, SequencesExt

CONSTANTS
  Replicas,
  Saves,        \* PUT /files requests handled at the same time
  Absent,       \* no file, no entry
  MaxOps,       \* bound: what users do, and what happens to them
  MaxStamp      \* bound: writes to the documents

ASSUME AttachmentsAssumption == Absent \notin Nat /\ MaxOps \in Nat /\ MaxStamp \in Nat

Stamps == 0 .. MaxStamp
Hashes == 0 .. MaxOps     \* every put of bytes puts new ones; 0 are those there at first
Contents == Hashes \cup {Absent}
Documents == {"vault", "note"}
Cell(V) == [val : V, at : Stamps, gone : BOOLEAN]
Job == [up : BOOLEAN, hash : Contents, pc : {"queued", "done", "failed"}]
Engine == [disk : Contents, event : BOOLEAN, cache : Contents, fs : BOOLEAN,
           touched : BOOLEAN, pending : Contents, flight : BOOLEAN,
           jobs : Seq(Job), file : Cell(Contents), kept : Cell({TRUE, Absent}),
           names : Cell(BOOLEAN), shown : BOOLEAN, recorded : BOOLEAN,
           dirty : BOOLEAN, due : BOOLEAN, known : Contents, out : BOOLEAN, shaken : SUBSET Documents]
Server == [file : Cell(Contents), kept : Cell({TRUE, Absent}),
           names : Cell(BOOLEAN), blobs : SUBSET Hashes,
           row : [Hashes -> {"none", "live", "marked", "aged"}]]
Save == [pc : {"idle", "checked", "stored"}, hash : Contents]

VARIABLES
  eng,      \* the replicas
  srv,      \* the server
  save,     \* the server's PUT /files requests
  ops,      \* what users did, and what happened to them, at most MaxOps
  seen,     \* history: what a replica's entry has named
  missed,   \* history: replicas that restarted, or failed a download, behind their entry
  lost,     \* history: blobs purged while somebody had been told they were there
  crossed,  \* history: replicas whose file changed while a transfer of it was under way
  overtaken \* history: replicas whose entry changed elsewhere while they owed an upload

told == <<missed, lost, crossed, overtaken>>
filesVars == <<eng, srv, save, ops, seen, missed, lost, crossed, overtaken>>

-----------------------------------------------------------------------------
(* Documents.                                                              *)
Value(cell) == IF cell.gone THEN Absent ELSE cell.val
MergeCells(c, d) ==
  IF c.at = d.at THEN [c EXCEPT !.gone = c.gone \/ d.gone]
  ELSE IF c.at > d.at THEN c ELSE d
Now == 1 + Max({x.file.at : x \in Range(eng)} \cup {x.kept.at : x \in Range(eng)}
               \cup {x.names.at : x \in Range(eng)} \cup {srv.file.at, srv.kept.at})
Written(val) == [val |-> val, at |-> Now, gone |-> FALSE]
Removed(cell) == [cell EXCEPT !.gone = cell.val # Absent]
SetFile(x, h) == IF Value(x.file) = h THEN x ELSE [x EXCEPT !.file = Written(h)]
Kept(x) == Value(x.kept) = TRUE
Keep(x) == IF Kept(x) THEN x ELSE [x EXCEPT !.kept = Written(TRUE)]
PutKept(x, h) ==
  IF Value(x.file) = h /\ Kept(x) THEN x
  ELSE [x EXCEPT !.file = Written(h), !.kept = Written(TRUE)]
Forget(x) == [x EXCEPT !.file = Removed(@), !.kept = Removed(@)]

(* kept_now, and persist_and_send of a write of the vault document: a kept *)
(* file a replica recorded itself is one it knows.  Without an update      *)
(* nothing is recorded, and known is what it was: kept_now already.        *)
KeptNow(x) == IF Kept(x) THEN Value(x.file) ELSE Absent
Persisted(e) == [e EXCEPT !.known = KeptNow(e)]

-----------------------------------------------------------------------------
(* One engine.  Each operator is what a function of client.rs makes of the *)
(* engine's state e.                                                       *)
LocalHash(e) == IF e.cache # Absent THEN e.cache ELSE e.disk
Hashed(e) == [e EXCEPT !.cache = LocalHash(e)]
HasFile(e) == e.disk # Absent

WantUpload(e) ==
  IF LocalHash(e) \in {Absent, Value(e.file)} \/ e.flight THEN Hashed(e)
  ELSE [Hashed(e) EXCEPT !.pending = LocalHash(e)]

(* discover_attachments: the note is recorded to use the file if it names  *)
(* it and the file is here.                                                *)
Discover(e) ==
  LET uses == e.names.val /\ HasFile(e)
      found == [e EXCEPT !.recorded = uses, !.due = TRUE]
  IN IF uses THEN WantUpload(found) ELSE found

(* refresh_dependencies, after this file was touched: a file no entry      *)
(* names may be what the note was waiting for.                             *)
Refresh(e) ==
  IF ~e.touched THEN e
  ELSE LET f == [e EXCEPT !.touched = FALSE, !.due = TRUE]
       IN IF Value(e.file) = Absent /\ HasFile(e) /\ e.names.val THEN Discover(f) ELSE f

(* Mutant: the entry is written before the server has the bytes. *)
FlushNamed(e) ==
  IF e.pending = Absent \/ ~e.out THEN e
  ELSE [Persisted(SetFile(e, e.pending)) EXCEPT !.pending = Absent, !.flight = TRUE,
          !.jobs = Append(@, [up |-> TRUE, hash |-> Absent, pc |-> "queued"])]
Flush(e) ==
  IF e.pending = Absent \/ ~e.out THEN e
  ELSE [e EXCEPT !.pending = Absent, !.flight = TRUE,
                 !.jobs = Append(@, [up |-> TRUE, hash |-> Absent, pc |-> "queued"])]

(* Mutant: only files that are missing are fetched. *)
ReconcileMissing(e) ==
  IF ~e.out \/ Value(e.file) = Absent \/ e.flight \/ e.pending # Absent \/ HasFile(e) THEN e
  ELSE [e EXCEPT !.flight = TRUE,
          !.jobs = Append(@, [up |-> FALSE, hash |-> Value(e.file), pc |-> "queued"])]
(* reconcile_attachments: fetch the file if the entry names other bytes.   *)
Reconcile(e) ==
  IF ~e.out \/ Value(e.file) = Absent \/ e.flight \/ e.pending # Absent THEN e
  ELSE IF LocalHash(e) = Value(e.file) THEN Hashed(e)
  ELSE [Hashed(e) EXCEPT !.flight = TRUE,
          !.jobs = Append(@, [up |-> FALSE, hash |-> Value(e.file), pc |-> "queued"])]

(* process_attachment_path, once the file's events have settled.           *)
ProcessFile(e) ==
  LET f == [e EXCEPT !.fs = FALSE, !.cache = Absent,
                        !.touched = @ \/ Value(e.file) = Absent]
  IN IF Value(e.file) = Absent THEN f
     ELSE IF HasFile(e) THEN WantUpload(f) ELSE Reconcile(f)

(* project: write the note's text to its file and index it. *)
ProjectNote(e) ==
  IF e.shown = e.names.val THEN [e EXCEPT !.dirty = FALSE]
  ELSE Discover([e EXCEPT !.dirty = FALSE, !.shown = e.names.val])

Idle(e) ==
  /\ e.out /\ e.shaken = Documents
  /\ ~e.dirty /\ ~e.fs /\ ~e.flight /\ e.pending = Absent

(* cleanup_orphans: drop the entry if no note is recorded to use the file. *)
Cleanup(e) ==
  IF e.recorded \/ Kept(e) THEN [e EXCEPT !.due = FALSE]
  ELSE Persisted([e EXCEPT !.due = FALSE, !.file = Removed(@)])

(* drop_removed_kept_files: a kept file whose entry is gone goes from the  *)
(* disk too, while it is still the copy that was synced.                   *)
DropRemoved(e) ==
  LET f == Persisted(e)
  IN IF e.known # Absent /\ Value(e.file) = Absent /\ HasFile(e) /\ LocalHash(e) = e.known
     THEN [f EXCEPT !.disk = Absent, !.event = TRUE, !.cache = Absent] ELSE f

(* Mutant: after a change of the vault's document the file here wins. *)
ReconcileLocally(e) == WantUpload(DropRemoved(e))
ReconcileVault(e) == Reconcile(DropRemoved(e))

(* tick: what is due, in the order of the code; a change that has not      *)
(* settled yet waits for a later one.                                      *)
Tick(e, fs, dirty) ==
  LET a == IF fs THEN ProcessFile(e) ELSE e
      b == Flush(Refresh(a))
      c == IF dirty THEN ProjectNote(b) ELSE b
  IN IF c.due /\ Idle(c) THEN Cleanup(c) ELSE c

(* Opening a vault, and reconcile_disk: what may have changed while the     *)
(* engine was not running.  A text not yet written to its file waits for   *)
(* the next change (NoteFile).                                             *)
Opened(e) ==
  LET blank == [e EXCEPT !.cache = Absent, !.fs = FALSE, !.event = FALSE, !.touched = FALSE,
                         !.pending = Absent, !.flight = FALSE, !.jobs = <<>>,
                         !.due = TRUE, !.out = FALSE, !.shaken = {}, !.dirty = FALSE,
                         !.known = KeptNow(e)]
      found == Refresh([blank EXCEPT !.touched = TRUE])
      owed == IF found.recorded THEN WantUpload(found) ELSE found
  IN IF Value(e.file) # Absent /\ LocalHash(owed) \notin {Absent, Value(e.file)}
     THEN [Hashed(owed) EXCEPT !.pending = LocalHash(owed)] ELSE owed

-----------------------------------------------------------------------------
Blank == [val |-> Absent, at |-> 0, gone |-> FALSE]
NewEngine(c, file, kept, names) ==
  [disk |-> c, event |-> FALSE, cache |-> Absent, fs |-> FALSE, touched |-> FALSE,
   pending |-> Absent, flight |-> FALSE, jobs |-> <<>>, file |-> file,
   kept |-> kept, names |-> names, shown |-> names.val,
   recorded |-> names.val, dirty |-> FALSE, due |-> FALSE,
   known |-> IF kept.val = TRUE THEN c ELSE Absent, out |-> TRUE,
   shaken |-> Documents]

(* A file every replica has, which the note uses or the vault keeps; or    *)
(* none yet, with a blob of bytes nobody used for longer than the grace    *)
(* period.                                                                 *)
FilesInit ==
  /\ \E c \in {0, Absent}, k \in {TRUE, Absent} :
       LET file == [Blank EXCEPT !.val = c]
           kept == [Blank EXCEPT !.val = k]
           names == [Blank EXCEPT !.val = c = 0 /\ k = Absent]
       IN /\ c = Absent => k = Absent
          /\ eng = [r \in Replicas |-> NewEngine(c, file, kept, names)]
          /\ seen = [r \in Replicas |-> {c} \ {Absent}]
          /\ srv = [file |-> file, kept |-> kept, names |-> names, blobs |-> {0},
                    row |-> [h \in Hashes |-> IF h # 0 THEN "none"
                                              ELSE IF c = 0 THEN "live" ELSE "aged"]]
  /\ save = [t \in Saves |-> [pc |-> "idle", hash |-> Absent]]
  /\ ops = 0
  /\ missed = {} /\ lost = {} /\ crossed = {} /\ overtaken = {}

Fault == ops < MaxOps /\ ops' = ops + 1
Op == Fault /\ Now <= MaxStamp
Set(r, e) ==   \* the next state of a replica, and of what it has seen
  /\ eng' = [eng EXCEPT ![r] = e]
  /\ seen' = [seen EXCEPT ![r] = @ \cup ({Value(e.file)} \ {Absent})]

(* A user puts other bytes at the path, or takes the file away.            *)
Touch(r, c) ==
  /\ Op /\ c # eng[r].disk
  /\ Set(r, [eng[r] EXCEPT !.disk = c, !.event = TRUE])
  /\ crossed' = IF eng[r].flight THEN crossed \cup {r} ELSE crossed
  /\ UNCHANGED <<srv, save, missed, lost, overtaken>>

(* on_fs_event *)
Watch(r) ==
  /\ eng[r].event
  /\ Set(r, [eng[r] EXCEPT !.event = FALSE, !.fs = TRUE, !.cache = Absent])
  /\ UNCHANGED <<srv, save, ops, told>>

(* A user's change of the note's file that starts or stops naming the      *)
(* file, taken in: local_edit, index.                                      *)
EditNote(r) ==
  /\ Op
  /\ eng[r].shown = eng[r].names.val
  /\ LET to == ~eng[r].shown
     IN Set(r, Discover([eng[r] EXCEPT !.names = Written(to), !.shown = to]))
  /\ UNCHANGED <<srv, save, told>>

(* put_file and delete_file, asked of a replica's file manager.            *)
PutFile(r) ==
  /\ Op
  /\ LET e == [Persisted(Keep(eng[r])) EXCEPT !.disk = ops + 1, !.event = TRUE,
                                               !.cache = ops + 1, !.pending = ops + 1]
     IN Set(r, [Flush(e) EXCEPT !.touched = TRUE])
  /\ crossed' = IF eng[r].flight THEN crossed \cup {r} ELSE crossed
  /\ UNCHANGED <<srv, save, missed, lost, overtaken>>
DeleteFile(r) ==
  /\ Op
  /\ HasFile(eng[r]) \/ Value(eng[r].file) # Absent \/ Kept(eng[r])
  /\ Set(r, [Persisted(Forget(eng[r])) EXCEPT !.disk = Absent, !.cache = Absent,
               !.event = eng[r].event \/ HasFile(eng[r]), !.pending = Absent, !.due = TRUE])
  /\ crossed' = IF eng[r].flight THEN crossed \cup {r} ELSE crossed
  /\ UNCHANGED <<srv, save, missed, lost, overtaken>>

TickEngine(r) ==
  /\ \E fs \in {FALSE, eng[r].fs}, dirty \in {FALSE, eng[r].dirty} :
       Set(r, Tick(eng[r], fs, dirty))
  /\ eng' # eng
  /\ UNCHANGED <<srv, save, ops, told>>

-----------------------------------------------------------------------------
(* The connection.  A document's updates both ways are abstracted to one   *)
(* side merging what the other has.                                        *)
Connect(r) ==
  /\ ~eng[r].out
  /\ Set(r, Reconcile([eng[r] EXCEPT !.out = TRUE, !.shaken = {}]))
  /\ UNCHANGED <<srv, save, ops, told>>
Disconnect(r) ==
  /\ eng[r].out /\ Fault
  /\ Set(r, [eng[r] EXCEPT !.out = FALSE, !.shaken = {}])
  /\ UNCHANGED <<srv, save, told>>
TakeNote(e) ==
  LET names == MergeCells(e.names, srv.names)
  IN [e EXCEPT !.names = names, !.dirty = @ \/ names # e.names]
TakeVault(e) ==
  LET got == [e EXCEPT !.file = MergeCells(@, srv.file), !.kept = MergeCells(@, srv.kept)]
  IN IF got = e THEN e ELSE [ReconcileVault(got) EXCEPT !.due = TRUE]
Overtakes(r) ==   \* the next entry is not the one an upload is for, or the file goes during it
  /\ overtaken' = IF eng'[r].file # eng[r].file /\ (eng[r].flight \/ eng[r].pending # Absent)
                  THEN overtaken \cup {r} ELSE overtaken
  /\ crossed' = IF eng'[r].disk # eng[r].disk /\ eng[r].flight THEN crossed \cup {r} ELSE crossed
  /\ UNCHANGED <<missed, lost>>
Handshake(r) ==
  /\ eng[r].out
  /\ \/ /\ "note" \notin eng[r].shaken
        /\ Set(r, [TakeNote(eng[r]) EXCEPT !.shaken = @ \cup {"note"}])
     \/ /\ "vault" \notin eng[r].shaken
        /\ Set(r, [ReconcileVault(TakeVault(eng[r])) EXCEPT !.shaken = @ \cup {"vault"}])
  /\ Overtakes(r)
  /\ UNCHANGED <<srv, save, ops>>
Receive(r) ==
  /\ eng[r].shaken = Documents
  /\ Set(r, TakeVault(TakeNote(eng[r])))
  /\ eng' # eng
  /\ Overtakes(r)
  /\ UNCHANGED <<srv, save, ops>>
Send(r) ==
  /\ eng[r].out
  /\ srv' = [srv EXCEPT !.names = MergeCells(@, eng[r].names), !.file = MergeCells(@, eng[r].file),
                        !.kept = MergeCells(@, eng[r].kept)]
  /\ srv' # srv
  /\ UNCHANGED <<eng, save, ops, seen, told>>

-----------------------------------------------------------------------------
(* Transfers.                                                              *)
Store(s, h) ==
  [s EXCEPT !.blobs = @ \cup {h}, !.row[h] = IF @ = "none" THEN "live" ELSE @]
Waiting(r) == {i \in DOMAIN eng[r].jobs : eng[r].jobs[i].pc = "queued"}
(* run_transfer, of the first job that is waiting: an upload reads the     *)
(* file, and sends it unless the server says it has it.                    *)
Transfer(r) ==
  /\ Waiting(r) # {}
  /\ LET i == Min(Waiting(r))
         job == eng[r].jobs[i]
         Ends(h, pc) == Set(r, [eng[r] EXCEPT !.jobs[i] = [job EXCEPT !.hash = h, !.pc = pc]])
     IN \/ /\ job.up /\ HasFile(eng[r])
           /\ srv' = Store(srv, eng[r].disk)
           /\ lost' = lost \ {eng[r].disk}
           /\ Ends(eng[r].disk, "done")
           /\ UNCHANGED ops
        \/ /\ ~job.up /\ job.hash \in srv.blobs
           /\ Ends(job.hash, "done")
           /\ UNCHANGED <<srv, ops, lost>>
        \/ /\ IF job.up THEN ~HasFile(eng[r]) ELSE job.hash \notin srv.blobs
           /\ Ends(job.hash, "failed")
           /\ UNCHANGED <<srv, ops, lost>>
        \/ /\ Fault
           /\ Ends(job.hash, "failed")
           /\ UNCHANGED <<srv, lost>>
  /\ UNCHANGED <<save, missed, crossed, overtaken>>

(* try_transfer_done *)
Landed(e) == [e EXCEPT !.jobs = Tail(@), !.flight = FALSE]
Uploaded(e, h) == [Persisted(SetFile(e, h)) EXCEPT !.cache = h]
Downloaded(e, h) == [e EXCEPT !.disk = h, !.cache = h, !.event = TRUE]
Failed(e, up) ==
  IF up /\ e.cache # Absent THEN [e EXCEPT !.pending = e.cache] ELSE e
Finish(r) ==
  /\ Now <= MaxStamp /\ eng[r].jobs # <<>>
  /\ Head(eng[r].jobs).pc \in {"done", "failed"}
  /\ LET job == Head(eng[r].jobs)
         e == Landed(eng[r])
         f == IF job.pc = "failed" THEN Failed(e, job.up)
              ELSE IF job.up THEN Uploaded(e, job.hash) ELSE Downloaded(e, job.hash)
     IN /\ Set(r, f)
        /\ missed' = IF f.pending = Absent /\ f.disk # Value(f.file)
                        /\ (job.pc = "failed" \/ ~job.up)
                     THEN missed \cup {r} ELSE missed
  /\ UNCHANGED <<srv, save, ops, lost, crossed, overtaken>>

Restart(r) ==
  /\ Fault
  /\ Set(r, Opened(eng[r]))
  /\ missed' = IF eng[r].disk # Value(eng[r].file) THEN missed \cup {r} ELSE missed
  /\ UNCHANGED <<srv, save, lost, crossed, overtaken>>

-----------------------------------------------------------------------------
(* The server.                                                             *)
(* put_file: the entry is looked at, the bytes are stored, the entry is    *)
(* written: three steps with the vault's room unlocked between them.       *)
CheckSave(t) ==
  /\ Op /\ save[t].pc = "idle"
  /\ save' = [save EXCEPT ![t] = [pc |-> "checked", hash |-> ops + 1]]
  /\ UNCHANGED <<eng, srv, seen, told>>
StoreSave(t) ==
  /\ save[t].pc = "checked"
  /\ srv' = Store(srv, save[t].hash)
  /\ lost' = lost \ {save[t].hash}
  /\ save' = [save EXCEPT ![t].pc = "stored"]
  /\ UNCHANGED <<eng, ops, seen, missed, crossed, overtaken>>
CommitSave(t) ==
  /\ save[t].pc = "stored" /\ Now <= MaxStamp
  /\ srv' = PutKept(srv, save[t].hash)
  /\ save' = [save EXCEPT ![t] = [pc |-> "idle", hash |-> Absent]]
  /\ UNCHANGED <<eng, ops, seen, missed, lost, crossed, overtaken>>
DeleteAtServer ==
  /\ Op /\ (Value(srv.file) # Absent \/ Kept(srv))
  /\ srv' = Forget(srv)
  /\ UNCHANGED <<eng, save, seen, told>>

(* purge_orphans, of this vault, and the grace period passing.             *)
Live == {Value(srv.file)} \ {Absent}
Purged == {h \in Hashes \ Live : srv.row[h] = "aged"}
Promised ==
  {Value(eng[r].file) : r \in {q \in Replicas : eng[q].file.at > srv.file.at}}
  \cup {j.hash : j \in {k \in UNION {Range(eng[r].jobs) : r \in Replicas} : k.up /\ k.pc = "done"}}
  \cup {save[t].hash : t \in {u \in Saves : save[u].pc = "stored"}}
Sweep ==
  /\ Fault
  /\ srv' = [srv EXCEPT !.blobs = @ \ Purged,
               !.row = [h \in Hashes |-> IF @[h] = "none" \/ h \in Purged THEN "none"
                                        ELSE IF h \in Live THEN "live"
                                        ELSE IF @[h] = "live" THEN "marked" ELSE @[h]]]
  /\ lost' = lost \cup (Purged \cap Promised)
  /\ UNCHANGED <<eng, save, seen, missed, crossed, overtaken>>
Age ==
  /\ \E h \in Hashes : srv.row[h] = "marked"
  /\ srv' = [srv EXCEPT !.row = [h \in Hashes |-> IF @[h] = "marked" THEN "aged" ELSE @[h]]]
  /\ UNCHANGED <<eng, save, ops, seen, told>>

FilesNext ==
  \/ \E r \in Replicas :
       \/ Watch(r) \/ EditNote(r) \/ DeleteFile(r) \/ TickEngine(r)
       \/ Connect(r) \/ Disconnect(r) \/ Handshake(r) \/ Receive(r) \/ Send(r)
       \/ Transfer(r) \/ Finish(r) \/ Restart(r)
       \/ PutFile(r) \/ \E c \in {ops + 1, Absent} : Touch(r, c)
  \/ \E t \in Saves : CheckSave(t) \/ StoreSave(t) \/ CommitSave(t)
  \/ DeleteAtServer \/ Sweep \/ Age

FilesSpec == FilesInit /\ [][FilesNext]_filesVars

-----------------------------------------------------------------------------
FilesType ==
  /\ eng \in [Replicas -> Engine]
  /\ \A r \in Replicas : eng[r].flight => eng[r].jobs # <<>>
  /\ srv \in Server /\ srv.blobs = {h \in Hashes : srv.row[h] # "none"}
  /\ save \in [Saves -> Save]
  /\ seen \in [Replicas -> SUBSET Hashes]
  /\ missed \cup crossed \cup overtaken \subseteq Replicas /\ lost \subseteq Hashes

(* Content-addressed references resolve (put_attachment before             *)
(* set_attachment, put_file, purge_orphans): whatever uploads, saves,      *)
(* removals and sweeps cross, what the vault names the server has, unless  *)
(* a sweep took it from under somebody it had told that it was there.      *)
EntriesResolve == FilesType /\ Value(srv.file) \in srv.blobs \cup lost \cup {Absent}

Settled(r) ==
  LET e == eng[r]
  IN /\ e.out /\ e.shaken = Documents /\ e.jobs = <<>> /\ e.pending = Absent
     /\ ~e.event /\ ~e.fs /\ ~e.touched /\ ~e.dirty /\ ~e.due
     /\ e.file = srv.file /\ e.kept = srv.kept /\ e.names = srv.names
(* reconcile_attachments: "Fetch every vault-doc attachment whose local    *)
(* file is missing or has different content".  Once a replica has nothing  *)
(* left to do and knows what the server knows, its file is the vault's.    *)
(* Left out: replicas whose file changed during a transfer of it, and      *)
(* those that restarted or failed a download behind their entry.           *)
InStep ==
  \A r \in Replicas \ (missed \cup crossed) :
    Settled(r) /\ Value(srv.file) # Absent => eng[r].disk = Value(srv.file)

(* A replica replaces what the vault names only by what its user put       *)
(* there, never by bytes it had before: an upload that ends, an event that *)
(* arrives late or a reconnect does not set an older version back          *)
(* (try_transfer_done, want_upload, reconcile_attachments).  Left out: as  *)
(* in InStep, where the copy found here wins; and replicas whose entry was *)
(* changed elsewhere while they owed an upload: try_transfer_done writes   *)
(* what it uploaded without looking at the entry again.                    *)
Returns(r) ==
  LET old == Value(eng[r].file)  new == Value(eng'[r].file)
  IN eng'[r].file.at = Now /\ old # Absent /\ new \in seen[r]
NewVersionStays == [][missed \cup crossed \cup overtaken = {} => \A r \in Replicas : ~Returns(r)]_filesVars

(* drop_removed_kept_files: "only while it is still the copy that was     *)
(* synced".  A kept file deleted elsewhere goes here only if its bytes are *)
(* a version the vault named; an edit the watcher has reported stays.      *)
(* Left out: a replica whose file changed during a transfer of it, which   *)
(* ends by remembering the hash of the bytes it moved.                     *)
EditedCopiesStay ==
  [][\A r \in Replicas \ crossed : ops' = ops /\ eng'[r].disk = Absent /\ ~eng[r].event
       => eng[r].disk \in seen[r] \cup {Absent}]_filesVars

(* No version goes that is worth keeping, on the way in or on the way out. *)
VersionsStay == NewVersionStays /\ EditedCopiesStay

(* cleanup_orphans: "Only runs when the replica is fully caught up, so a   *)
(* note whose content has not arrived yet cannot make its attachments look *)
(* unreferenced".  A file a live note uses is not dropped from the vault.  *)
(* No run claims it: it does not hold (README).                            *)
UsedIsNotDropped ==
  [][\A r \in Replicas : ops' = ops /\ eng'[r].file = Removed(eng[r].file)
       /\ ~eng[r].file.gone /\ srv.file # eng'[r].file => ~eng'[r].names.val]_filesVars
================================================================================
