------------------------------ MODULE NoteFile ------------------------------
(***************************************************************************)
(* One note and its file: how the sync engine of a vault folder            *)
(* (crates/core/src/client.rs) keeps a CRDT document and a file that any   *)
(* program may edit in step, using the text it last wrote or read there    *)
(* (the `projection` row of the sidecar store) as the base of every diff.  *)
(*                                                                         *)
(* A text is a set of marks, each written once by somebody: an edit adds   *)
(* marks or cuts some.  The engine is one task, so a handler is atomic     *)
(* with respect to every other one; but every store call commits on its    *)
(* own and a write to disk can fail, so a handler can stop half way.       *)
(* Documents are edited by other replicas and by windows of the same       *)
(* machine (RemoteEdit); both reach the engine as one journaled update.    *)
(*                                                                         *)
(* `made`, `cut` and `onPurpose` are history variables: the marks ever     *)
(* written, those somebody meant to delete, and whether somebody meant to  *)
(* delete the note.                                                        *)
(***************************************************************************)
EXTENDS Integers, FiniteSets

CONSTANTS
  Marks,       \* what a text can be made of
  None,        \* no file, no projection row
  MaxRemovals, \* bound: times the note is removed, by anyone
  MaxStops,    \* bound: times the engine stops between two handlers
  MaxCrashes,  \* bound: times it stops inside one
  MaxFails,    \* bound: writes to the disk that fail
  Ahead        \* whether a note may be renamed, or its removal come due, while its document is
               \* ahead of its file

ASSUME BoundAssumption ==
  /\ Ahead \in BOOLEAN /\ \A text \in SUBSET Marks : text # None
  /\ MaxRemovals \in Nat /\ MaxStops \in Nat /\ MaxCrashes \in Nat /\ MaxFails \in Nat

VARIABLES
  file,      \* the file at the note's path
  proj,      \* the projection row: what the engine last wrote or read there
  doc,       \* the document in memory
  stored,    \* the document as its journal gives it back
  note,      \* "unknown" to the engine, "live", or "trashed"
  running,
  dirty,     \* to be projected
  event,     \* the watcher has reported the path
  removal,   \* seen missing, waiting out the rename window
  made, cut, onPurpose,
  removals, stops, crashes, fails

disk == <<file, proj>>
text == <<doc, stored>>
queues == <<dirty, event, removal>>
history == <<made, cut, onPurpose>>
bounds == <<removals, stops, crashes, fails>>
vars == <<disk, text, note, running, queues, history, bounds>>

Texts == SUBSET Marks
Base == IF proj = None THEN {} ELSE proj

TypeOK ==
  /\ file \in Texts \cup {None} /\ proj \in Texts \cup {None}
  /\ doc \in Texts /\ stored \in Texts
  /\ note \in {"unknown", "live", "trashed"}
  /\ {running, dirty, event, removal, onPurpose} \subseteq BOOLEAN
  /\ made \in Texts /\ cut \subseteq made
  /\ note # "live" => proj = None
  /\ running \/ ~ (dirty \/ event \/ removal)
  /\ removals \in 0 .. MaxRemovals /\ stops \in 0 .. MaxStops
  /\ crashes \in 0 .. MaxCrashes /\ fails \in 0 .. MaxFails

Init ==
  /\ file = None /\ proj = None
  /\ doc = {} /\ stored = {}
  /\ note = "unknown"
  /\ running = TRUE
  /\ dirty = FALSE /\ event = FALSE /\ removal = FALSE
  /\ made = {} /\ cut = {} /\ onPurpose = FALSE
  /\ removals = 0 /\ stops = 0 /\ crashes = 0 /\ fails = 0
-----------------------------------------------------------------------------
(* What others do *)

\* Other programs save the file: one more mark, or one mark less.
UserSave ==
  /\ file # None \/ (note = "unknown" /\ stored = {})
  /\ LET seen == IF file = None THEN {} ELSE file IN
     \/ \E m \in Marks \ made :
          /\ file' = seen \cup {m}
          /\ made' = made \cup {m}
          /\ UNCHANGED cut
     \/ \E m \in seen :
          /\ file' = seen \ {m}
          /\ cut' = cut \cup {m}
          /\ UNCHANGED made
  /\ event' = running
  /\ UNCHANGED <<proj, text, note, running, dirty, removal, onPurpose, bounds>>

\* The user removes the file; an edit in it that the engine never saw goes with it.
UserRemove ==
  /\ file # None /\ note = "live"
  /\ removals < MaxRemovals
  /\ removals' = removals + 1
  /\ file' = None
  /\ cut' = (cut \cup (file \ Base)) \ (doc \cap (Base \ file))
  /\ onPurpose' = TRUE
  /\ event' = running
  /\ UNCHANGED <<proj, text, note, running, dirty, removal, made, stops, crashes, fails>>

\* The file was gone only while an editor replaced it.
UserRestore ==
  /\ file = None /\ proj # None /\ onPurpose /\ note = "live"
  /\ file' = proj
  /\ onPurpose' = FALSE
  /\ event' = running
  /\ UNCHANGED <<proj, text, note, running, dirty, removal, made, cut, bounds>>

\* Mutant: an update does not ask for a projection.
QuietEdit ==
  /\ running /\ note = "live"
  /\ \E m \in Marks \ made :
       doc' = doc \cup {m} /\ stored' = stored \cup {m} /\ made' = made \cup {m}
  /\ UNCHANGED <<disk, note, running, queues, cut, onPurpose, bounds>>

\* An update from the server or from a local window: applied, journaled, to be projected.
RemoteEdit ==
  /\ running /\ note = "live"
  /\ \/ \E m \in Marks \ made :
          /\ doc' = doc \cup {m}
          /\ stored' = stored \cup {m}
          /\ made' = made \cup {m}
          /\ UNCHANGED cut
     \/ \E m \in doc :
          /\ doc' = doc \ {m}
          /\ stored' = stored \ {m}
          /\ cut' = cut \cup {m}
          /\ UNCHANGED made
  /\ dirty' = TRUE
  /\ UNCHANGED <<disk, note, running, event, removal, onPurpose, bounds>>

\* `reconcile_vault`, a note new to this replica, or restored from the trash elsewhere.
RemoteNew ==
  /\ running /\ note # "live" /\ file = None
  /\ note' = "live"
  /\ doc' = stored
  /\ dirty' = TRUE
  /\ onPurpose' = FALSE
  /\ UNCHANGED <<disk, stored, running, event, removal, made, cut, bounds>>
-----------------------------------------------------------------------------
(* The engine *)

\* `ingest_external_edit`: what the file changed since the base, done to a text.
Merge(t, base, onDisk) == (t \ (base \ onDisk)) \cup (onDisk \ base)

\* The file taken in as an edit of `base`; `dirty` when the document is ahead of it afterwards.
Taken(base) == [doc |-> Merge(doc, base, file), stored |-> Merge(stored, base, file),
                proj |-> file, dirty |-> Merge(doc, base, file) # file]
NotTaken == [doc |-> doc, stored |-> stored, proj |-> proj, dirty |-> FALSE]

\* `local_edit`
LocalEdit == IF file = Base THEN NotTaken ELSE Taken(Base)

\* Mutant: nothing looks at the file.
IngestNever == NotTaken

\* `ingest_unsaved`: only against a row, and only a file that is there.
Ingest == IF file # None /\ proj # None THEN LocalEdit ELSE NotTaken

Take(e) == doc' = e.doc /\ stored' = e.stored /\ dirty' = (dirty \/ e.dirty)

\* `local_create`: the file is a note of its own, or one the store already has a history of.
LocalCreate ==
  /\ doc' = file /\ stored' = file /\ proj' = file
  /\ note' = "live"
  /\ UNCHANGED <<dirty, removal>>

\* `forget`, then the entry leaves the vault document.
Trash ==
  /\ note' = "trashed"
  /\ proj' = None
  /\ dirty' = FALSE

\* `process_path`: what a touched path means is decided by what is there now.
ProcessPath ==
  /\ running /\ event
  /\ event' = FALSE
  /\ \/ file # None /\ note = "live" /\ Take(LocalEdit) /\ proj' = LocalEdit.proj
          /\ UNCHANGED <<note, removal>>
     \/ file # None /\ note = "unknown" /\ LocalCreate
     \/ file = None /\ note = "live" /\ removal' = TRUE /\ UNCHANGED <<text, proj, note, dirty>>
     \/ file = None /\ note # "live" /\ UNCHANGED <<text, proj, note, dirty, removal>>
  /\ UNCHANGED <<file, running, history, bounds>>

\* `apply_local_rename`, by `api_rename` or after the watcher saw the file move: the document's text
\* is recorded as projected at the new path, and the file there taken in as an edit of that.
Rename ==
  LET e == IF file = doc THEN [NotTaken EXCEPT !.proj = doc] ELSE Taken(doc) IN
  /\ running /\ note = "live" /\ file # None
  /\ doc # Base => Ahead
  /\ Take(e) /\ proj' = e.proj
  /\ UNCHANGED <<file, note, running, event, removal, history, bounds>>

\* Mutant: a file that is back is not noticed.
FinalizeAnyway ==
  /\ running /\ removal
  /\ dirty => Ahead
  /\ removal' = FALSE
  /\ IF note = "live" THEN Trash ELSE UNCHANGED <<note, proj, dirty>>
  /\ UNCHANGED <<file, text, running, event, history, bounds>>

\* `finalize_removals`, once the rename window (2 s) has passed, which is longer than a projection
\* waits (500 ms after the last update); a file that is back is left alone.
FinalizeRemovals ==
  /\ running /\ removal
  /\ dirty => Ahead
  /\ removal' = FALSE
  /\ IF file = None /\ note = "live" THEN Trash ELSE UNCHANGED <<note, proj, dirty>>
  /\ UNCHANGED <<file, text, running, event, history, bounds>>

\* Mutant: the file is written over without looking at it first.
ProjectBlindly ==
  /\ running /\ note = "live" /\ dirty
  /\ proj' = doc /\ file' = doc
  /\ dirty' = FALSE
  /\ UNCHANGED <<text, note, running, event, removal, history, bounds>>

\* Mutant: what is written is not recorded.
ProjectUnrecorded ==
  LET e == Ingest IN
  /\ running /\ note = "live" /\ dirty
  /\ doc' = e.doc /\ stored' = e.stored /\ dirty' = e.dirty
  /\ event' = (event /\ e = NotTaken)
  /\ proj' = e.proj
  /\ file' = e.doc
  /\ UNCHANGED <<note, running, removal, history, bounds>>

\* `project`: take in an unsaved file, record the text, write it.  The write may fail.
Project ==
  LET e == Ingest IN
  /\ running /\ note = "live" /\ dirty
  /\ doc' = e.doc /\ stored' = e.stored /\ dirty' = e.dirty
  /\ event' = (event /\ e = NotTaken)
  /\ proj' = e.doc
  /\ \/ file' = e.doc /\ UNCHANGED fails
     \/ file # e.doc /\ fails < MaxFails /\ fails' = fails + 1 /\ UNCHANGED file
  /\ UNCHANGED <<note, running, removal, history, removals, stops, crashes>>

\* The removal of a note arrives: an unsaved file is taken in before it is deleted, which the
\* watcher reports like any other change.
RemoteRemove ==
  LET e == Ingest
      deletes == file # None /\ proj # None
  IN
  /\ running /\ note = "live"
  /\ removals < MaxRemovals
  /\ removals' = removals + 1
  /\ doc' = e.doc /\ stored' = e.stored
  /\ file' = IF deletes THEN None ELSE file
  /\ event' = (deletes \/ event)
  /\ Trash
  /\ onPurpose' = TRUE
  /\ UNCHANGED <<running, removal, made, cut, stops, crashes, fails>>

\* What a stopped engine leaves: the store and the disk, with `kept` in the note's journal.
Down(kept) ==
  /\ running' = FALSE
  /\ stored' = kept /\ doc' = kept
  /\ dirty' = FALSE /\ event' = FALSE /\ removal' = FALSE

\* The engine stops between two handlers: quit, restarted, or killed.
Stop ==
  /\ running /\ stops < MaxStops
  /\ stops' = stops + 1
  /\ Down(stored)
  /\ UNCHANGED <<disk, note, history, removals, crashes, fails>>

\* `open` and `reconcile_disk`: the directory as it is now, handled like watcher events.
Start ==
  /\ ~ running
  /\ running' = TRUE
  /\ \/ /\ note = "live" /\ file # None
        /\ Take(LocalEdit) /\ proj' = LocalEdit.proj
        /\ UNCHANGED <<note, removal>>
     \/ /\ note = "live" /\ file = None /\ proj # None
        /\ Trash
        /\ UNCHANGED <<text, removal>>
     \/ /\ note = "live" /\ file = None /\ proj = None
        /\ dirty' = TRUE
        /\ UNCHANGED <<text, proj, note, removal>>
     \/ note = "unknown" /\ file # None /\ LocalCreate
     \/ /\ note # "live" /\ file = None
        /\ UNCHANGED <<text, proj, note, dirty, removal>>
  /\ UNCHANGED <<file, event, history, bounds>>

\* The process dies inside a handler, between two of its committed steps.
Crash ==
  /\ crashes < MaxCrashes
  /\ crashes' = crashes + 1
  /\ \/ \* `local_edit`: the file recorded as read, the update not yet journaled
        /\ note = "live" /\ file # None /\ file # Base
        /\ event \/ dirty \/ ~ running
        /\ proj' = file
        /\ Down(stored)
        /\ UNCHANGED note
     \/ \* `project`: the text recorded as written, the file not yet
        /\ running /\ note = "live" /\ dirty
        /\ proj' = Ingest.doc
        /\ Down(Ingest.stored)
        /\ UNCHANGED note
     \/ \* `finalize_removals`: forgotten here, still in the vault document
        /\ running /\ removal /\ file = None /\ note = "live"
        /\ note' = "unknown" /\ proj' = None
        /\ Down(stored)
  /\ UNCHANGED <<file, history, removals, stops, fails>>

Next ==
  \/ UserSave \/ UserRemove \/ UserRestore
  \/ RemoteEdit \/ RemoteNew \/ RemoteRemove
  \/ ProcessPath \/ FinalizeRemovals \/ Project \/ Rename
  \/ Stop \/ Start \/ Crash

\* The watcher reports every change and the debounced work of `tick` keeps coming round.
Fairness ==
  /\ WF_vars(ProcessPath) /\ WF_vars(FinalizeRemovals) /\ WF_vars(Project) /\ WF_vars(Start)

Spec == Init /\ [][Next]_vars
FairSpec == Spec /\ Fairness
-----------------------------------------------------------------------------
\* Nothing anyone wrote is lost: until somebody means to delete it, it is in the journal, or in the
\* file as a change against what was last projected, which the next look at the file takes in.
NothingLost == made \ cut \subseteq stored \cup (IF file = None THEN {} ELSE file \ Base)

\* Nothing comes back: what somebody deleted is gone from the document, or the file says so
\* against what was last projected.
NothingUndone == cut \cap stored \subseteq (IF file = None THEN {} ELSE Base \ file)

\* A note is only ever trashed because somebody removed it.
TrashedOnPurpose == note = "trashed" => onPurpose

\* A handler that dies half way and a write that fails break all three (see the findings); without
\* them, the three hold whatever the order, stops between handlers included.
Undisturbed == crashes = 0 /\ fails = 0
NothingLostUndisturbed == TypeOK /\ (Undisturbed => NothingLost)
NothingUndoneUndisturbed == Undisturbed => NothingUndone
TrashedOnPurposeUndisturbed == Undisturbed => TrashedOnPurpose

\* A save the watcher has not reported is taken in before the engine writes over the file or deletes
\* it, whatever fails or stops elsewhere.
OverwritesTakenIn ==
  [][Project \/ RemoteRemove => file = None \/ file \ Base \subseteq stored']_vars

\* Once edits stop, the file is the note.
CatchesUp == <>[](note = "live" => running /\ file = doc)

\* An engine that keeps running, and whose writes succeed, brings the file up to the note.
CatchesUpUndisturbed == CatchesUp \/ <>(stops > 0 \/ ~ Undisturbed)
=============================================================================
