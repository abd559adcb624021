----------------------------- MODULE EngineProofs -----------------------------
(***************************************************************************)
(* Proofs about the engine of a vault folder.                              *)
(*                                                                         *)
(* A note and its file (NoteFile), for every set of marks and every number *)
(* of removals, stops, crashes and failed writes: what the engine writes   *)
(* over it has taken in, whatever fails; and as long as no handler dies    *)
(* half way and no write fails, nothing is lost, nothing comes back, and a *)
(* note is trashed on purpose.                                             *)
(*                                                                         *)
(* A file that is no note (Attachments), for every number of replicas and  *)
(* of saves at the server: what the vault names the server has, a replica  *)
(* that has nothing left to do has it too, and neither an older version    *)
(* comes back nor an edited copy goes.                                     *)
(***************************************************************************)
EXTENDS NoteFile, Attachments, WellFoundedInduction, TLAPS

-----------------------------------------------------------------------------
(* A note and its file                                                     *)


OnDisk == IF file = None THEN {} ELSE file

\* A live note whose file is there has a row, which is what every diff is made against.
FilesInv ==
  /\ TypeOK
  /\ doc \cup stored \subseteq made /\ OnDisk \cup Base \subseteq made
  /\ note = "live" /\ file # None => proj # None
  /\ note = "trashed" => file = None

\* The file and the document have no mark in common that the row has not, and they differ from it
\* in what was meant: what the file has not somebody cut, what it has besides nobody did.
Apart ==
  /\ doc = stored
  /\ note = "unknown" => stored = {}
  /\ file # None => /\ file \cap stored \subseteq Base
                    /\ Base \ file \subseteq cut
                    /\ (file \ Base) \cap cut = {}

\* A file that is not there was removed, or is yet to be written.
Missing ==
  note = "live" /\ file = None => onPurpose \/ (proj = None /\ (dirty \/ ~ running))

KeptInv == NothingLost /\ NothingUndone /\ TrashedOnPurpose /\ Apart /\ Missing
NoteInv == FilesInv /\ (Undisturbed => KeptInv)
-----------------------------------------------------------------------------
(* What is taken in *)

LEMMA Types ==
  ASSUME TypeOK
  PROVE  /\ file \in (SUBSET Marks) \cup {None} /\ proj \in (SUBSET Marks) \cup {None} /\ None \notin SUBSET Marks
         /\ Base \in SUBSET Marks /\ doc \in SUBSET Marks /\ stored \in SUBSET Marks
         /\ made \in SUBSET Marks /\ cut \in SUBSET Marks /\ cut \subseteq made
         /\ running \in BOOLEAN /\ dirty \in BOOLEAN /\ event \in BOOLEAN /\ removal \in BOOLEAN /\ onPurpose \in BOOLEAN
         /\ note \in {"unknown", "live", "trashed"} /\ (note # "live" => proj = None)
         /\ running \/ ~ (dirty \/ event \/ removal)
         /\ removals \in Nat /\ stops \in Nat /\ crashes \in Nat /\ fails \in Nat
<1>0. file \in (SUBSET Marks) \cup {None} /\ proj \in (SUBSET Marks) \cup {None} /\ None \notin SUBSET Marks
  <2>1. file \in (SUBSET Marks) \cup {None} /\ proj \in (SUBSET Marks) \cup {None}
    BY DEF TypeOK, Texts
  <2>2. None \notin SUBSET Marks
    BY BoundAssumption
  <2> QED BY <2>1, <2>2
<1>1. /\ Base \in SUBSET Marks /\ doc \in SUBSET Marks /\ stored \in SUBSET Marks
      /\ made \in SUBSET Marks /\ cut \in SUBSET Marks /\ cut \subseteq made
  BY <1>0 DEF TypeOK, Texts, Base
<1>2. /\ running \in BOOLEAN /\ dirty \in BOOLEAN /\ event \in BOOLEAN /\ removal \in BOOLEAN /\ onPurpose \in BOOLEAN
      /\ note \in {"unknown", "live", "trashed"} /\ (note # "live" => proj = None)
      /\ running \/ ~ (dirty \/ event \/ removal)
  BY DEF TypeOK
<1>3. removals \in Nat /\ stops \in Nat /\ crashes \in Nat /\ fails \in Nat
  BY BoundAssumption DEF TypeOK
<1> QED BY <1>0, <1>1, <1>2, <1>3

\* Taking in a file that changed nothing changes nothing.
LEMMA EditIs ==
  ASSUME FilesInv, note = "live", file # None
  PROVE  /\ proj # None /\ Base = proj /\ file \in SUBSET Marks
         /\ LocalEdit.doc = (doc \ (Base \ file)) \cup (file \ Base)
         /\ LocalEdit.stored = (stored \ (Base \ file)) \cup (file \ Base)
         /\ LocalEdit.proj = file /\ LocalEdit.dirty \in BOOLEAN
<1>1. proj # None /\ Base = proj /\ file \in SUBSET Marks
  <2>1. TypeOK /\ proj # None
    BY DEF FilesInv
  <2>2. file \in (SUBSET Marks) \cup {None}
    BY <2>1, Types
  <2>3. file \in SUBSET Marks
    BY <2>2
  <2> QED BY <2>1, <2>3 DEF Base
<1>2. CASE file = Base
  <2>1. LocalEdit = [doc |-> doc, stored |-> stored, proj |-> proj, dirty |-> FALSE]
    BY <1>2 DEF LocalEdit, NotTaken
  <2> QED BY <1>1, <1>2, <2>1
<1>3. CASE file # Base
  <2>1. LocalEdit = [doc |-> (doc \ (Base \ file)) \cup (file \ Base), stored |-> (stored \ (Base \ file)) \cup (file \ Base),
                     proj |-> file, dirty |-> (doc \ (Base \ file)) \cup (file \ Base) # file]
    BY <1>3 DEF LocalEdit, Taken, Merge
  <2> QED BY <1>1, <2>1
<1> QED BY <1>2, <1>3

LEMMA IngestIs ==
  ASSUME FilesInv, note = "live"
  PROVE  /\ file = None => Ingest.doc = doc /\ Ingest.stored = stored /\ Ingest.proj = proj
         /\ file # None => /\ Ingest.doc = (doc \ (Base \ file)) \cup (file \ Base)
                           /\ Ingest.stored = (stored \ (Base \ file)) \cup (file \ Base)
                           /\ Ingest.proj = file
         /\ Ingest.dirty \in BOOLEAN
<1>1. CASE file = None
  <2>1. Ingest = [doc |-> doc, stored |-> stored, proj |-> proj, dirty |-> FALSE]
    BY <1>1 DEF Ingest, NotTaken
  <2> QED BY <1>1, <2>1
<1>2. CASE file # None
  <2>1. Ingest = LocalEdit
    BY <1>2, EditIs DEF Ingest
  <2> QED BY <1>2, <2>1, EditIs
<1> QED BY <1>1, <1>2

-----------------------------------------------------------------------------
(* Every step leaves the files, the row and the note as they can be *)

LEMMA TypeStep == ASSUME FilesInv, Next PROVE TypeOK'
<1>0. TypeOK /\ doc \cup stored \subseteq made /\ OnDisk \cup Base \subseteq made
  BY DEF FilesInv
<1>1. CASE UserSave
  BY <1>0, <1>1, Types DEF UserSave, TypeOK, Texts, OnDisk, text, bounds
<1>2. CASE UserRemove
  BY <1>0, <1>2, Types, BoundAssumption DEF UserRemove, TypeOK, Texts, OnDisk, text
<1>3. CASE UserRestore
  BY <1>0, <1>3, Types DEF UserRestore, TypeOK, Texts, text, bounds
<1>4. CASE RemoteEdit
  BY <1>0, <1>4, Types DEF RemoteEdit, TypeOK, Texts, disk, bounds
<1>5. CASE RemoteNew
  BY <1>0, <1>5, Types DEF RemoteNew, TypeOK, Texts, disk, bounds
<1>6. CASE RemoteRemove
  <2>1. running /\ note = "live" /\ removals < MaxRemovals
    BY <1>6 DEF RemoteRemove
  <2>2. doc' = Ingest.doc /\ stored' = Ingest.stored /\ file' \in {file, None} /\ proj' = None
    BY <1>6 DEF RemoteRemove, Trash
  <2>3. /\ removals' = removals + 1 /\ note' = "trashed" /\ dirty' = FALSE /\ onPurpose' = TRUE
        /\ event' \in BOOLEAN
    BY <1>6, Types, <1>0 DEF RemoteRemove, Trash
  <2>4. UNCHANGED <<running, removal, made, cut, stops, crashes, fails>>
    BY <1>6 DEF RemoteRemove
  <2>5. doc' \in SUBSET Marks /\ stored' \in SUBSET Marks
    BY <1>0, <2>1, <2>2, Types, IngestIs, EditIs
  <2>6. removals' \in 0 .. MaxRemovals
    BY <1>0, <2>1, <2>3, Types, BoundAssumption
  <2> QED BY <1>0, <2>1, <2>2, <2>3, <2>4, <2>5, <2>6 DEF TypeOK, Texts
<1>7. CASE ProcessPath
  BY <1>0, <1>7, Types, EditIs DEF ProcessPath, Take, LocalCreate, TypeOK, Texts, FilesInv, text, history, bounds
<1>8. CASE FinalizeRemovals
  BY <1>0, <1>8, Types DEF FinalizeRemovals, Trash, TypeOK, Texts, text, history, bounds
<1>9. CASE Project
  BY <1>0, <1>9, Types, IngestIs, EditIs, BoundAssumption DEF Project, TypeOK, Texts, FilesInv, history
<1>11. CASE Stop
  <2>1. stops' = stops + 1 /\ stops' \in 0 .. MaxStops
    BY <1>0, <1>11, Types, BoundAssumption DEF Stop, TypeOK
  <2>2. UNCHANGED <<file, proj, note, made, cut, onPurpose, removals, crashes, fails>>
    BY <1>11 DEF Stop, disk, history
  <2>3. /\ running' = FALSE /\ dirty' = FALSE /\ event' = FALSE /\ removal' = FALSE
        /\ stored' = stored /\ doc' = stored
    BY <1>11 DEF Stop, Down
  <2> QED BY <1>0, <2>1, <2>2, <2>3 DEF TypeOK, Texts
<1>12. CASE Start
  BY <1>0, <1>12, Types, EditIs DEF Start, Trash, Take, LocalCreate, TypeOK, Texts, FilesInv, text, history, bounds
<1>10. CASE Rename
  <2>1. running /\ note = "live" /\ file # None /\ file \in SUBSET Marks
    BY <1>0, <1>10, Types, EditIs DEF Rename
  <2>2. UNCHANGED <<file, note, running, event, removal, made, cut, onPurpose, removals, stops, crashes, fails>>
    BY <1>10 DEF Rename, history, bounds
  <2>3. CASE file = doc
    <3>1. doc' = doc /\ stored' = stored /\ proj' = doc /\ dirty' = (dirty \/ FALSE)
      BY <1>10, <2>3 DEF Rename, Take, NotTaken
    <3> QED BY <1>0, <2>1, <2>2, <3>1 DEF TypeOK, Texts
  <2>4. CASE file # doc
    <3>1. /\ doc' = (doc \ (doc \ file)) \cup (file \ doc) /\ stored' = (stored \ (doc \ file)) \cup (file \ doc)
          /\ proj' = file /\ dirty' \in BOOLEAN
      BY <1>0, <1>10, <2>4, Types DEF Rename, Take, Taken, Merge
    <3>2. doc' \in SUBSET Marks /\ stored' \in SUBSET Marks
      BY <1>0, <2>1, <3>1, Types
    <3> QED BY <1>0, <2>1, <2>2, <3>1, <3>2 DEF TypeOK, Texts
  <2> QED BY <2>3, <2>4
<1>13. CASE Crash
  <2>1. crashes' = crashes + 1 /\ crashes' \in 0 .. MaxCrashes
    BY <1>0, <1>13, Types, BoundAssumption DEF Crash, TypeOK
  <2>2. UNCHANGED <<file, made, cut, onPurpose, removals, stops, fails>>
    BY <1>13 DEF Crash, history
  <2>3. PICK kept : /\ Down(kept)
                    /\ \/ note' = note /\ note = "live" /\ file # None /\ proj' = file /\ kept = stored
                       \/ note' = note /\ note = "live" /\ proj' = Ingest.doc /\ kept = Ingest.stored
                       \/ note' = "unknown" /\ proj' = None /\ kept = stored
    BY <1>13 DEF Crash
  <2>4. kept \in SUBSET Marks /\ proj' \in (SUBSET Marks) \cup {None}
    BY <1>0, <2>3, Types, IngestIs, EditIs
  <2>5. note' \in {"unknown", "live", "trashed"} /\ (note' # "live" => proj' = None)
    BY <1>0, <2>3, Types
  <2> QED BY <1>0, <2>1, <2>2, <2>3, <2>4, <2>5 DEF Down, TypeOK, Texts
<1> QED BY <1>1, <1>2, <1>3, <1>4, <1>5, <1>6, <1>7, <1>8, <1>9, <1>10, <1>11, <1>12, <1>13 DEF Next

\* A file that is there, or a row, holds only marks that were written; a live note's file has a row.
LEMMA FilesStep == ASSUME FilesInv, Next PROVE FilesInv'
<1>0. /\ TypeOK /\ doc \cup stored \subseteq made /\ OnDisk \cup Base \subseteq made
      /\ (note = "live" /\ file # None => proj # None) /\ (note = "trashed" => file = None)
  BY DEF FilesInv
<1>1. TypeOK'
  BY TypeStep
<1>2. SUFFICES /\ doc' \cup stored' \subseteq made' /\ OnDisk' \cup Base' \subseteq made'
               /\ (note' = "live" /\ file' # None => proj' # None)
               /\ (note' = "trashed" => file' = None)
  BY <1>1 DEF FilesInv
<1>3. CASE UserSave
  BY <1>0, <1>3, Types DEF UserSave, OnDisk, Base, text, bounds
<1>4. CASE UserRemove
  BY <1>0, <1>4, Types DEF UserRemove, OnDisk, Base, text
<1>5. CASE UserRestore
  BY <1>0, <1>5, Types DEF UserRestore, OnDisk, Base, text, bounds
<1>6. CASE RemoteEdit
  BY <1>0, <1>6, Types DEF RemoteEdit, OnDisk, Base, disk, bounds
<1>7. CASE RemoteNew
  BY <1>0, <1>7, Types DEF RemoteNew, OnDisk, Base, disk, bounds
<1>8. CASE RemoteRemove
  BY <1>0, <1>8, Types, IngestIs, EditIs DEF RemoteRemove, Trash, OnDisk, Base
<1>9. CASE ProcessPath
  BY <1>0, <1>9, Types, EditIs DEF ProcessPath, Take, LocalCreate, OnDisk, Base, text, history, bounds
<1>10. CASE FinalizeRemovals
  BY <1>0, <1>10, Types DEF FinalizeRemovals, Trash, OnDisk, Base, text, history, bounds
<1>11. CASE Project
  BY <1>0, <1>11, Types, IngestIs, EditIs DEF Project, OnDisk, Base, history
<1>12. CASE Stop
  BY <1>0, <1>12, Types DEF Stop, Down, OnDisk, Base, disk, history
<1>13. CASE Start
  BY <1>0, <1>13, Types, EditIs DEF Start, Trash, Take, LocalCreate, OnDisk, Base, text, history, bounds
<1>14. CASE Rename
  BY <1>0, <1>14, Types, EditIs DEF Rename, Take, Taken, NotTaken, Merge, OnDisk, Base, history, bounds
<1>15. CASE Crash
  BY <1>0, <1>15, Types, IngestIs, EditIs DEF Crash, Down, OnDisk, Base, history
<1> QED BY <1>3, <1>4, <1>5, <1>6, <1>7, <1>8, <1>9, <1>10, <1>11, <1>12, <1>13, <1>14, <1>15 DEF Next

-----------------------------------------------------------------------------
(* What is kept as long as no handler dies half way and no write fails *)

LEMMA KeptOthers ==
  ASSUME FilesInv, KeptInv, UserSave \/ UserRemove \/ UserRestore \/ RemoteEdit \/ RemoteNew PROVE KeptInv'
<1>0. /\ doc \cup stored \subseteq made /\ OnDisk \cup Base \subseteq made /\ TypeOK
      /\ (note = "live" /\ file # None => proj # None) /\ (note = "trashed" => file = None)
  BY DEF FilesInv
<1>1. CASE UserSave
  <2>1. NothingLost'
    BY <1>0, <1>1, Types DEF UserSave, KeptInv, NothingLost, Apart, OnDisk, Base, text, bounds
  <2>2. NothingUndone'
    BY <1>0, <1>1, Types DEF UserSave, KeptInv, NothingUndone, Apart, OnDisk, Base, text, bounds
  <2>3. Apart'
    BY <1>0, <1>1, Types DEF UserSave, KeptInv, Apart, OnDisk, Base, text, bounds
  <2>4. Missing' /\ TrashedOnPurpose'
    BY <1>0, <1>1, Types DEF UserSave, KeptInv, TrashedOnPurpose, Missing, text, bounds
  <2> QED BY <2>1, <2>2, <2>3, <2>4 DEF KeptInv
<1>2. CASE UserRemove
  <2>1. NothingLost'
    BY <1>0, <1>2, Types DEF UserRemove, KeptInv, NothingLost, Apart, OnDisk, Base, text
  <2>2. NothingUndone'
    BY <1>0, <1>2, Types DEF UserRemove, KeptInv, NothingUndone, Apart, OnDisk, Base, text
  <2>3. Apart'
    BY <1>0, <1>2, Types DEF UserRemove, KeptInv, Apart, OnDisk, Base, text
  <2>4. Missing' /\ TrashedOnPurpose'
    BY <1>0, <1>2, Types DEF UserRemove, KeptInv, TrashedOnPurpose, Missing
  <2> QED BY <2>1, <2>2, <2>3, <2>4 DEF KeptInv
<1>3. CASE UserRestore
  <2>1. NothingLost'
    BY <1>0, <1>3, Types DEF UserRestore, KeptInv, NothingLost, Apart, OnDisk, Base, text
  <2>2. NothingUndone'
    BY <1>0, <1>3, Types DEF UserRestore, KeptInv, NothingUndone, Apart, OnDisk, Base, text
  <2>3. Apart'
    BY <1>0, <1>3, Types DEF UserRestore, KeptInv, Apart, OnDisk, Base, text
  <2>4. Missing' /\ TrashedOnPurpose'
    BY <1>0, <1>3, Types DEF UserRestore, KeptInv, TrashedOnPurpose, Missing
  <2> QED BY <2>1, <2>2, <2>3, <2>4 DEF KeptInv
<1>4. CASE RemoteEdit
  <2>1. NothingLost'
    BY <1>0, <1>4, Types DEF RemoteEdit, KeptInv, NothingLost, Apart, OnDisk, Base, disk
  <2>2. NothingUndone'
    BY <1>0, <1>4, Types DEF RemoteEdit, KeptInv, NothingUndone, Apart, OnDisk, Base, disk
  <2>3. Apart'
    BY <1>0, <1>4, Types DEF RemoteEdit, KeptInv, Apart, OnDisk, Base, disk
  <2>4. Missing' /\ TrashedOnPurpose'
    BY <1>0, <1>4, Types DEF RemoteEdit, KeptInv, TrashedOnPurpose, Missing, disk
  <2> QED BY <2>1, <2>2, <2>3, <2>4 DEF KeptInv
<1>5. CASE RemoteNew
  <2>1. NothingLost'
    BY <1>0, <1>5, Types DEF RemoteNew, KeptInv, NothingLost, Apart, OnDisk, Base, disk
  <2>2. NothingUndone'
    BY <1>0, <1>5, Types DEF RemoteNew, KeptInv, NothingUndone, Apart, OnDisk, Base, disk
  <2>3. Apart'
    BY <1>0, <1>5, Types DEF RemoteNew, KeptInv, Apart, OnDisk, Base, disk
  <2>4. Missing' /\ TrashedOnPurpose'
    BY <1>0, <1>5, Types DEF RemoteNew, KeptInv, TrashedOnPurpose, Missing, disk
  <2> QED BY <2>1, <2>2, <2>3, <2>4 DEF KeptInv
<1> QED BY <1>1, <1>2, <1>3, <1>4, <1>5

\* What the engine does: it looks at the file first.
LEMMA KeptEngine ==
  ASSUME FilesInv, KeptInv, ~ Ahead,
         \/ ProcessPath \/ FinalizeRemovals \/ Rename \/ RemoteRemove \/ Stop \/ Start
         \/ Project /\ UNCHANGED fails
  PROVE KeptInv'
<1>0. /\ doc \cup stored \subseteq made /\ OnDisk \cup Base \subseteq made /\ TypeOK
      /\ (note = "live" /\ file # None => proj # None) /\ (note = "trashed" => file = None)
  BY DEF FilesInv
<1>1. CASE ProcessPath
  <2>1. NothingLost'
    BY <1>0, <1>1, Types, EditIs DEF ProcessPath, Take, LocalCreate, text, history, bounds, KeptInv, NothingLost, Apart, OnDisk, Base
  <2>2. NothingUndone'
    BY <1>0, <1>1, Types, EditIs DEF ProcessPath, Take, LocalCreate, text, history, bounds, KeptInv, NothingUndone, Apart, OnDisk, Base
  <2>3. Apart'
    BY <1>0, <1>1, Types, EditIs DEF ProcessPath, Take, LocalCreate, text, history, bounds, KeptInv, Apart, OnDisk, Base
  <2>4. Missing' /\ TrashedOnPurpose'
    BY <1>0, <1>1, Types, EditIs DEF ProcessPath, Take, LocalCreate, text, history, bounds, KeptInv, TrashedOnPurpose, Missing
  <2> QED BY <2>1, <2>2, <2>3, <2>4 DEF KeptInv
<1>2. CASE FinalizeRemovals
  <2>1. NothingLost'
    BY <1>0, <1>2, Types DEF FinalizeRemovals, Trash, text, history, bounds, KeptInv, NothingLost, Apart, OnDisk, Base
  <2>2. NothingUndone'
    BY <1>0, <1>2, Types DEF FinalizeRemovals, Trash, text, history, bounds, KeptInv, NothingUndone, Apart, OnDisk, Base
  <2>3. Apart'
    BY <1>0, <1>2, Types DEF FinalizeRemovals, Trash, text, history, bounds, KeptInv, Apart, OnDisk, Base
  <2>4. Missing' /\ TrashedOnPurpose'
    BY <1>0, <1>2, Types DEF FinalizeRemovals, Trash, text, history, bounds, KeptInv, TrashedOnPurpose, Missing
  <2> QED BY <2>1, <2>2, <2>3, <2>4 DEF KeptInv
<1>3. CASE RemoteRemove
  <2>1. NothingLost'
    BY <1>0, <1>3, Types, IngestIs, EditIs DEF RemoteRemove, Trash, KeptInv, NothingLost, Apart, OnDisk, Base
  <2>2. NothingUndone'
    BY <1>0, <1>3, Types, IngestIs, EditIs DEF RemoteRemove, Trash, KeptInv, NothingUndone, Apart, OnDisk, Base
  <2>3. Apart'
    BY <1>0, <1>3, Types, IngestIs, EditIs DEF RemoteRemove, Trash, KeptInv, Apart, OnDisk, Base
  <2>4. Missing' /\ TrashedOnPurpose'
    BY <1>0, <1>3, Types, IngestIs, EditIs DEF RemoteRemove, Trash, KeptInv, TrashedOnPurpose, Missing
  <2> QED BY <2>1, <2>2, <2>3, <2>4 DEF KeptInv
<1>4. CASE Stop
  <2>1. NothingLost'
    BY <1>0, <1>4, Types DEF Stop, Down, disk, history, KeptInv, NothingLost, Apart, OnDisk, Base
  <2>2. NothingUndone'
    BY <1>0, <1>4, Types DEF Stop, Down, disk, history, KeptInv, NothingUndone, Apart, OnDisk, Base
  <2>3. Apart'
    BY <1>0, <1>4, Types DEF Stop, Down, disk, history, KeptInv, Apart, OnDisk, Base
  <2>4. Missing' /\ TrashedOnPurpose'
    BY <1>0, <1>4, Types DEF Stop, Down, disk, history, KeptInv, TrashedOnPurpose, Missing
  <2> QED BY <2>1, <2>2, <2>3, <2>4 DEF KeptInv
<1>5. CASE Start
  <2>1. NothingLost'
    BY <1>0, <1>5, Types, EditIs DEF Start, Take, LocalCreate, Trash, text, history, bounds, KeptInv, NothingLost, Apart, OnDisk, Base
  <2>2. NothingUndone'
    BY <1>0, <1>5, Types, EditIs DEF Start, Take, LocalCreate, Trash, text, history, bounds, KeptInv, NothingUndone, Apart, OnDisk, Base
  <2>3. Apart'
    BY <1>0, <1>5, Types, EditIs DEF Start, Take, LocalCreate, Trash, text, history, bounds, KeptInv, Apart, OnDisk, Base
  <2>4. Missing' /\ TrashedOnPurpose'
    BY <1>0, <1>5, Types, EditIs DEF Start, Take, LocalCreate, Trash, text, history, bounds, KeptInv, TrashedOnPurpose, Missing
  <2> QED BY <2>1, <2>2, <2>3, <2>4 DEF KeptInv
<1>6. CASE Project /\ UNCHANGED fails
  <2>1. NothingLost'
    BY <1>0, <1>6, Types, IngestIs, EditIs DEF Project, history, KeptInv, NothingLost, Apart, OnDisk, Base
  <2>2. NothingUndone'
    BY <1>0, <1>6, Types, IngestIs, EditIs DEF Project, history, KeptInv, NothingUndone, Apart, OnDisk, Base
  <2>3. Apart'
    <3>1. /\ note = "live" /\ doc' = Ingest.doc /\ stored' = Ingest.stored /\ proj' = Ingest.doc
          /\ file' = Ingest.doc \/ fails' = fails + 1
      BY <1>6 DEF Project
    <3>2. file' = Ingest.doc
      BY <1>0, <1>6, <3>1, Types
    <3>3. doc = stored
      BY DEF KeptInv, Apart
    <3>4. Ingest.stored = Ingest.doc /\ Ingest.doc \in SUBSET Marks
      BY <1>0, <3>1, <3>3, Types, IngestIs, EditIs
    <3>5. Base' = Ingest.doc
      BY <1>0, <3>1, <3>4, Types DEF Base
    <3>6. note' = "live"
      BY <1>6, <3>1 DEF Project
    <3> QED BY <3>1, <3>2, <3>4, <3>5, <3>6 DEF Apart
  <2>4. Missing' /\ TrashedOnPurpose'
    BY <1>0, <1>6, Types, IngestIs, EditIs DEF Project, history, KeptInv, TrashedOnPurpose, Missing
  <2> QED BY <2>1, <2>2, <2>3, <2>4 DEF KeptInv
<1>7. CASE Rename
  <2>1. /\ running /\ note = "live" /\ file # None /\ doc = Base /\ proj # None /\ Base = proj
        /\ file \in SUBSET Marks
    BY <1>0, <1>7, EditIs DEF Rename
  <2>2. UNCHANGED <<file, note, running, event, removal, made, cut, onPurpose>>
    BY <1>7 DEF Rename, history
  <2>3. /\ doc' = (doc \ (Base \ file)) \cup (file \ Base) /\ stored' = (stored \ (Base \ file)) \cup (file \ Base)
        /\ proj' = file
    <3>1. CASE file = doc
      <4>1. doc' = doc /\ stored' = stored /\ proj' = doc
        BY <1>7, <3>1 DEF Rename, Take, NotTaken
      <4> QED BY <2>1, <3>1, <4>1
    <3>2. CASE file # doc
      BY <1>7, <2>1, <3>2 DEF Rename, Take, Taken, Merge
    <3> QED BY <3>1, <3>2
  <2>4. NothingLost'
    BY <1>0, <2>1, <2>2, <2>3, Types DEF KeptInv, NothingLost, Apart, Base, OnDisk
  <2>5. NothingUndone'
    BY <1>0, <2>1, <2>2, <2>3, Types DEF KeptInv, NothingUndone, Apart, Base, OnDisk
  <2>6. Apart'
    BY <1>0, <2>1, <2>2, <2>3, Types DEF KeptInv, Apart, Base, OnDisk
  <2>7. Missing' /\ TrashedOnPurpose'
    BY <2>1, <2>2 DEF KeptInv, Missing, TrashedOnPurpose
  <2> QED BY <2>4, <2>5, <2>6, <2>7 DEF KeptInv
<1> QED BY <1>1, <1>2, <1>3, <1>4, <1>5, <1>6, <1>7

-----------------------------------------------------------------------------
(* The theorems *)

\* A step between two states with neither a crash nor a failed write is neither of them.
LEMMA StillUndisturbed ==
  ASSUME FilesInv, Next, Undisturbed'
  PROVE  Undisturbed /\ ~ Crash /\ (Project => UNCHANGED fails)
<1>1. crashes \in Nat /\ fails \in Nat /\ crashes' = 0 /\ fails' = 0
  BY Types DEF FilesInv, Undisturbed
<1>2. ~ Crash
  BY <1>1 DEF Crash
<1>3. Project => UNCHANGED fails /\ UNCHANGED crashes
  BY <1>1 DEF Project
<1>4. crashes' = crashes /\ fails' = fails
  BY <1>2, <1>3 DEF Next, UserSave, UserRemove, UserRestore, RemoteEdit, RemoteNew, RemoteRemove, ProcessPath,
                    FinalizeRemovals, Rename, Stop, Start, bounds
<1> QED BY <1>1, <1>2, <1>3, <1>4 DEF Undisturbed

LEMMA InitInv == Init => NoteInv
<1> SUFFICES ASSUME Init PROVE NoteInv
  OBVIOUS
<1>1. TypeOK
  <2>1. removals \in 0 .. MaxRemovals /\ stops \in 0 .. MaxStops /\ crashes \in 0 .. MaxCrashes /\ fails \in 0 .. MaxFails
    BY BoundAssumption DEF Init
  <2>2. {running, dirty, event, removal, onPurpose} \subseteq BOOLEAN
    BY DEF Init
  <2> QED BY <2>1, <2>2 DEF Init, TypeOK, Texts
<1>2. OnDisk = {} /\ Base = {}
  BY DEF Init, OnDisk, Base
<1>3. FilesInv
  BY <1>1, <1>2 DEF Init, FilesInv
<1>4. NothingLost /\ NothingUndone
  BY DEF Init, NothingLost, NothingUndone
<1>5. TrashedOnPurpose /\ Apart /\ Missing
  BY DEF Init, TrashedOnPurpose, Apart, Missing
<1> QED BY <1>3, <1>4, <1>5 DEF NoteInv, KeptInv

LEMMA FilesAlways == Spec => []FilesInv
<1>1. Init => FilesInv
  BY InitInv DEF NoteInv
<1>2. FilesInv /\ [Next]_vars => FilesInv'
  <2> SUFFICES ASSUME FilesInv, UNCHANGED vars PROVE FilesInv'
    BY FilesStep
  <2> QED BY DEF vars, disk, text, queues, history, bounds, FilesInv, TypeOK, OnDisk, Base
<1> QED BY <1>1, <1>2, PTL DEF Spec

LEMMA NoteInvAlways == ASSUME ~ Ahead PROVE Spec => []NoteInv
<1>1. NoteInv /\ [Next]_vars => NoteInv'
  <2>1. ASSUME NoteInv, Next PROVE NoteInv'
    <3>1. FilesInv'
      BY <2>1, FilesStep DEF NoteInv
    <3>2. ASSUME Undisturbed' PROVE KeptInv'
      BY <2>1, <3>2, StillUndisturbed, KeptOthers, KeptEngine DEF NoteInv, Next
    <3> QED BY <3>1, <3>2 DEF NoteInv
  <2>2. ASSUME NoteInv, UNCHANGED vars PROVE NoteInv'
    <3>1. FilesInv'
      BY <2>2 DEF vars, disk, text, queues, history, bounds, NoteInv, FilesInv, TypeOK, OnDisk, Base
    <3>2. (Undisturbed => KeptInv)'
      BY <2>2 DEF vars, disk, text, queues, history, bounds, NoteInv, Undisturbed, KeptInv, NothingLost, NothingUndone,
                  TrashedOnPurpose, Apart, Missing, Base
    <3> QED BY <3>1, <3>2 DEF NoteInv
  <2> QED BY <2>1, <2>2
<1> QED BY <1>1, InitInv, PTL DEF Spec

\* Nothing anyone wrote is lost (`ingest_external_edit`, `project`): until somebody means to delete it,
\* it is in the journal of the note or in its file as a change against the row, unless a handler died
\* half way or a write failed.
THEOREM NothingLostHolds == ASSUME ~ Ahead PROVE Spec => []NothingLostUndisturbed
<1>1. NoteInv => NothingLostUndisturbed
  BY DEF NoteInv, FilesInv, KeptInv, NothingLostUndisturbed
<1> QED BY <1>1, NoteInvAlways, PTL

\* Nothing somebody deleted comes back with a file that is taken in (`local_edit`).
THEOREM NothingUndoneHolds == ASSUME ~ Ahead PROVE Spec => []NothingUndoneUndisturbed
<1>1. NoteInv => NothingUndoneUndisturbed
  BY DEF NoteInv, KeptInv, NothingUndoneUndisturbed
<1> QED BY <1>1, NoteInvAlways, PTL

\* A note is only trashed because somebody removed it, here or elsewhere (`finalize_removals`,
\* `reconcile_disk`).
THEOREM TrashedOnPurposeHolds == ASSUME ~ Ahead PROVE Spec => []TrashedOnPurposeUndisturbed
<1>1. NoteInv => TrashedOnPurposeUndisturbed
  BY DEF NoteInv, KeptInv, TrashedOnPurposeUndisturbed
<1> QED BY <1>1, NoteInvAlways, PTL

\* Whatever fails or stops, and however a rename races an update: what a projection or an arriving
\* removal writes over or deletes is in the journal first (`ingest_unsaved`).
THEOREM OverwritesTakenInHolds == Spec => OverwritesTakenIn
<1>1. FilesInv /\ [Next]_vars
        => [Project \/ RemoteRemove => file = None \/ file \ Base \subseteq stored']_vars
  <2> SUFFICES ASSUME FilesInv, Project \/ RemoteRemove, file # None PROVE file \ Base \subseteq stored'
    OBVIOUS
  <2>1. note = "live" /\ stored' = Ingest.stored
    BY DEF Project, RemoteRemove
  <2> QED BY <2>1, IngestIs
<1> QED BY <1>1, FilesAlways, PTL DEF Spec, OverwritesTakenIn

-----------------------------------------------------------------------------
(* Another file: what the handlers of the engine make of it                *)


\* An engine as its own handlers leave it.
Engines == {e \in Engine : (e.flight => e.jobs # <<>>) /\ (e.shaken # {} => e.out)}

\* The same file and entry, and more work at most.
Same(f, e) ==
  /\ f.file = e.file /\ f.kept = e.kept /\ f.disk = e.disk /\ f.event = e.event
  /\ f.out = e.out /\ f.shaken = e.shaken /\ f.known = e.known /\ f.fs = e.fs
Grows(f, e) ==
  /\ Len(e.jobs) <= Len(f.jobs)
  /\ \A i \in DOMAIN f.jobs :
       IF i <= Len(e.jobs) THEN f.jobs[i] = e.jobs[i]
       ELSE f.jobs[i].pc = "queued" /\ f.jobs[i].hash \in {Absent, Value(e.file)}

\* What the engine remembers of its file is the file, unless an event is to come; it has one
\* transfer at most, and an upload that is done carried what lies there.
Stale(e) == e.cache \notin {Absent, e.disk}
Intact(e) ==
  /\ Stale(e) => e.event
  /\ Len(e.jobs) <= 1 /\ (e.jobs # <<>> => e.flight) /\ (e.flight => e.pending = Absent)
  /\ \A i \in DOMAIN e.jobs : e.jobs[i].up /\ e.jobs[i].pc = "done" => e.jobs[i].hash = e.disk

\* A file that is not what its entry names is about to be looked at.
Busy(e) == e.event \/ e.fs \/ e.flight \/ e.pending # Absent \/ ~e.out \/ "vault" \notin e.shaken
Caught(e) == Value(e.file) # Absent /\ e.disk # Value(e.file) => Busy(e)

Works(f, e) ==
  /\ f \in Engines /\ Same(f, e) /\ Grows(f, e)
  /\ Stale(f) => Stale(e)
  /\ Intact(e) => Intact(f)
  /\ Caught(e) => Caught(f)

LEMMA WorksTrans ==
  ASSUME NEW e \in Engines, NEW f, NEW g, Works(f, e), Works(g, f)
  PROVE  Works(g, e)
<1>1. /\ e.jobs \in Seq(Job) /\ f.jobs \in Seq(Job) /\ g.jobs \in Seq(Job)
  BY DEF Works, Engines, Engine
<1>2. Grows(g, e)
  <2>1. f.file = e.file
    BY DEF Works, Same
  <2> QED BY <1>1, <2>1 DEF Works, Grows
<1>3. Same(g, e)
  BY DEF Works, Same
<1> QED BY <1>2, <1>3 DEF Works

LEMMA WorksRefl ==
  ASSUME NEW e \in Engines
  PROVE  Works(e, e)
BY DEF Works, Same, Grows, Engines, Engine

LEMMA HashedWorks ==
  ASSUME NEW e \in Engines
  PROVE  Works(Hashed(e), e) /\ Hashed(e).pending = e.pending /\ Hashed(e).flight = e.flight /\ Hashed(e).jobs = e.jobs
         /\ LocalHash(Hashed(e)) = LocalHash(e) /\ Hashed(e).cache = LocalHash(e)
<1> DEFINE f == Hashed(e)
<1>1. /\ f \in Engines
      /\ Same(f, e) /\ f.pending = e.pending /\ f.flight = e.flight /\ f.jobs = e.jobs /\ f.cache = LocalHash(e)
  BY DEF Hashed, LocalHash, Engines, Engine, Same
<1>2. Grows(f, e)
  BY <1>1 DEF Grows, Engines, Engine
<1>3. (Stale(f) => Stale(e)) /\ LocalHash(f) = LocalHash(e)
  BY <1>1 DEF Stale, LocalHash, Same
<1>4. (Intact(e) => Intact(f)) /\ (Caught(e) => Caught(f))
  BY <1>1, <1>3 DEF Intact, Caught, Same, Busy
<1> QED BY <1>1, <1>2, <1>3, <1>4 DEF Works

LEMMA WantUploadWorks ==
  ASSUME NEW e \in Engines
  PROVE  /\ Works(WantUpload(e), e) /\ WantUpload(e).jobs = e.jobs /\ WantUpload(e).flight = e.flight
         /\ e.pending # Absent => WantUpload(e).pending # Absent
         /\ e.disk # Value(e.file) /\ HasFile(e) /\ e.cache = Absent =>
              e.flight \/ WantUpload(e).pending # Absent
<1> DEFINE h == Hashed(e)
           f == WantUpload(e)
<1>1. Works(h, e) /\ h.jobs = e.jobs /\ h.flight = e.flight /\ h.pending = e.pending
  BY HashedWorks
<1>2. CASE f = h
  BY <1>1, <1>2 DEF WantUpload, LocalHash, HasFile
<1>3. CASE f # h
  <2>1. f = [h EXCEPT !.pending = LocalHash(e)] /\ LocalHash(e) # Absent /\ ~e.flight
    BY <1>3 DEF WantUpload
  <2>2. h \in Engines /\ LocalHash(e) \in Contents
    BY <1>1 DEF Works, LocalHash, Engines, Engine
  <2>3. /\ f \in Engines /\ Same(f, h) /\ f.jobs = e.jobs /\ f.flight = e.flight /\ f.cache = h.cache
        /\ f.pending # Absent
    BY <1>1, <2>1, <2>2 DEF Engines, Engine, Same
  <2>4. Works(f, h)
    BY <1>1, <2>1, <2>2, <2>3 DEF Works, Grows, Stale, Intact, Caught, Busy, Same, Engines, Engine
  <2>5. Works(f, e)
    BY <1>1, <2>4, WorksTrans
  <2> QED BY <2>3, <2>5
<1> QED BY <1>2, <1>3

LEMMA ReconcileWorks ==
  ASSUME NEW e \in Engines
  PROVE  /\ Works(Reconcile(e), e)
         /\ e.pending # Absent => Reconcile(e).pending # Absent
         /\ e.out /\ Value(e.file) # Absent =>
              \/ e.flight \/ e.pending # Absent \/ LocalHash(e) = Value(e.file)
              \/ /\ Reconcile(e).flight
                 /\ Reconcile(e).jobs = Append(e.jobs, [up |-> FALSE, hash |-> Value(e.file), pc |-> "queued"])
<1> DEFINE h == Hashed(e)
           f == Reconcile(e)
           job == [up |-> FALSE, hash |-> Value(e.file), pc |-> "queued"]
<1>1. Works(h, e) /\ h.jobs = e.jobs /\ h.flight = e.flight /\ h.pending = e.pending
  BY HashedWorks
<1>2. Works(e, e)
  BY WorksRefl
<1>3. CASE f \in {e, h}
  BY <1>1, <1>2, <1>3 DEF Reconcile
<1>4. CASE f \notin {e, h}
  <2>1. /\ f = [h EXCEPT !.flight = TRUE, !.jobs = Append(h.jobs, job)]
        /\ e.out /\ Value(e.file) # Absent /\ ~e.flight /\ e.pending = Absent
    BY <1>4 DEF Reconcile
  <2>2. h \in Engines /\ job \in Job /\ h.jobs \in Seq(Job)
    BY <1>1 DEF Works, Value, Cell, Engines, Engine, Job, Contents
  <2>3. /\ Append(e.jobs, job) \in Seq(Job) /\ Append(e.jobs, job) # <<>>
        /\ Len(Append(e.jobs, job)) = Len(e.jobs) + 1
        /\ \A i \in 1 .. Len(e.jobs) : Append(e.jobs, job)[i] = e.jobs[i]
        /\ Append(e.jobs, job)[Len(e.jobs) + 1] = job
    BY <1>1, <2>2
  <2> DEFINE more == Append(e.jobs, job)
  <2>a. f = [h EXCEPT !.flight = TRUE, !.jobs = more]
    BY <1>1, <2>1
  <2>b. more \in Seq(Job) /\ more # <<>>
    BY <2>3
  <2> HIDE DEF more, f, h
  <2>4. /\ f \in Engines /\ Same(f, h) /\ f.jobs = more /\ f.flight /\ f.cache = h.cache
        /\ f.pending = Absent
    BY <1>1, <2>1, <2>2, <2>a, <2>b DEF Engines, Engine, Same
  <2> USE DEF more, f, h
  <2>5. Grows(f, h)
    BY <1>1, <2>2, <2>3, <2>4 DEF Grows, Works, Same
  <2>6. Intact(h) => Intact(f)
    <3>1. ASSUME Intact(h) PROVE h.jobs = <<>> /\ Len(h.jobs) = 0
      BY <1>1, <2>1, <2>2, <3>1 DEF Intact
    <3> QED BY <1>1, <2>2, <2>3, <2>4, <3>1 DEF Intact, Stale, Same
  <2>7. Works(f, h)
    BY <2>4, <2>5, <2>6 DEF Works, Stale, Same, Caught, Busy
  <2>8. Works(f, e)
    BY <1>1, <2>7, WorksTrans
  <2> QED BY <2>1, <2>4, <2>8
<1> QED BY <1>3, <1>4

LEMMA FlushWorks ==
  ASSUME NEW e \in Engines
  PROVE  Works(Flush(e), e)
<1> DEFINE f == Flush(e)
           job == [up |-> TRUE, hash |-> Absent, pc |-> "queued"]
<1>1. CASE f = e
  BY <1>1, WorksRefl DEF Works
<1>2. CASE f # e
  <2>1. f = [e EXCEPT !.pending = Absent, !.flight = TRUE, !.jobs = Append(@, job)] /\ e.pending # Absent
    BY <1>2 DEF Flush
  <2>2. job \in Job /\ e.jobs \in Seq(Job)
    BY DEF Engines, Engine, Job, Contents
  <2>3. /\ Append(e.jobs, job) \in Seq(Job) /\ Append(e.jobs, job) # <<>>
        /\ Len(Append(e.jobs, job)) = Len(e.jobs) + 1
        /\ \A i \in 1 .. Len(e.jobs) : Append(e.jobs, job)[i] = e.jobs[i]
        /\ Append(e.jobs, job)[Len(e.jobs) + 1] = job
    BY <2>2
  <2>4. /\ f \in Engines /\ Same(f, e) /\ f.jobs = Append(e.jobs, job) /\ f.flight /\ f.cache = e.cache
        /\ f.pending = Absent
    BY <2>1, <2>2, <2>3 DEF Engines, Engine, Same, Contents
  <2>5. Grows(f, e)
    BY <2>2, <2>3, <2>4 DEF Grows
  <2>6. Intact(e) => Intact(f)
    <3>1. ASSUME Intact(e) PROVE e.jobs = <<>> /\ Len(e.jobs) = 0
      BY <2>1, <2>2, <3>1 DEF Intact
    <3> QED BY <2>2, <2>3, <2>4, <3>1 DEF Intact, Stale, Same
  <2> QED BY <2>4, <2>5, <2>6 DEF Works, Stale, Same, Caught, Busy
<1> QED BY <1>1, <1>2

\* What is recorded beside does not matter.
LEMMA AsideWorks ==
  ASSUME NEW e \in Engines, NEW f \in Engines, Same(f, e), f.jobs = e.jobs, f.flight = e.flight,
         f.pending = e.pending, f.cache \in {e.cache, Absent}
  PROVE  Works(f, e)
BY DEF Works, Same, Grows, Stale, Intact, Caught, Busy, Engines, Engine

LEMMA DiscoverWorks ==
  ASSUME NEW e \in Engines
  PROVE  Works(Discover(e), e) /\ (e.pending # Absent => Discover(e).pending # Absent)
<1> DEFINE uses == e.names.val /\ HasFile(e)
           found == [e EXCEPT !.recorded = uses, !.due = TRUE]
<1>1. uses \in BOOLEAN
  BY DEF Engines, Engine, Cell, HasFile
<1> HIDE DEF uses
<1>2. found \in Engines /\ Same(found, e) /\ found.jobs = e.jobs /\ found.flight = e.flight
      /\ found.pending = e.pending /\ found.cache = e.cache
  BY <1>1 DEF Engines, Engine, Same
<1>3. Works(found, e)
  BY <1>2, AsideWorks
<1> HIDE DEF found
<1>4. /\ Works(WantUpload(found), found) /\ (found.pending # Absent => WantUpload(found).pending # Absent)
  BY <1>2, WantUploadWorks
<1>5. Discover(e) \in {found, WantUpload(found)}
  BY DEF Discover, uses, found
<1> QED BY <1>2, <1>3, <1>4, <1>5, WorksTrans

LEMMA RefreshWorks ==
  ASSUME NEW e \in Engines
  PROVE  Works(Refresh(e), e) /\ (e.pending # Absent => Refresh(e).pending # Absent)
<1> DEFINE f == [e EXCEPT !.touched = FALSE, !.due = TRUE]
<1>1. f \in Engines /\ Same(f, e) /\ f.jobs = e.jobs /\ f.flight = e.flight
      /\ f.pending = e.pending /\ f.cache = e.cache
  BY DEF Engines, Engine, Same
<1>2. Works(f, e)
  BY <1>1, AsideWorks
<1> HIDE DEF f
<1>3. Works(Discover(f), f) /\ (f.pending # Absent => Discover(f).pending # Absent)
  BY <1>1, DiscoverWorks
<1>4. Refresh(e) \in {e, f, Discover(f)}
  BY DEF Refresh, f
<1> QED BY <1>1, <1>2, <1>3, <1>4, WorksTrans, WorksRefl

LEMMA ProjectWorks ==
  ASSUME NEW e \in Engines
  PROVE  Works(ProjectNote(e), e)
<1> DEFINE f == [e EXCEPT !.dirty = FALSE]
           g == [e EXCEPT !.dirty = FALSE, !.shown = e.names.val]
<1>1. /\ f \in Engines /\ Same(f, e) /\ f.jobs = e.jobs /\ f.flight = e.flight
      /\ f.pending = e.pending /\ f.cache = e.cache
  BY DEF Engines, Engine, Same
<1>2. /\ g \in Engines /\ Same(g, e) /\ g.jobs = e.jobs /\ g.flight = e.flight
      /\ g.pending = e.pending /\ g.cache = e.cache
  BY DEF Engines, Engine, Same, Cell
<1>3. Works(f, e) /\ Works(g, e)
  BY <1>1, <1>2, AsideWorks
<1> HIDE DEF f, g
<1>4. Works(Discover(g), g)
  BY <1>2, DiscoverWorks
<1>5. ProjectNote(e) \in {f, Discover(g)}
  BY DEF ProjectNote, f, g
<1> QED BY <1>2, <1>3, <1>4, <1>5, WorksTrans

\* A look at the file leaves nothing unnoticed, and all else as it was.
Looked(f, e) ==
  /\ f \in Engines /\ Grows(f, e) /\ f.file = e.file /\ f.kept = e.kept /\ f.disk = e.disk
  /\ f.event = e.event /\ f.out = e.out /\ f.shaken = e.shaken /\ f.known = e.known
  /\ Stale(f) => Stale(e)
  /\ Intact(e) => Intact(f)
  /\ Caught(e) => Caught(f)

LEMMA LookedOn ==
  ASSUME NEW e \in Engines, NEW f, NEW g, Looked(f, e), Works(g, f)
  PROVE  Looked(g, e)
<1>1. /\ e.jobs \in Seq(Job) /\ f.jobs \in Seq(Job) /\ g.jobs \in Seq(Job)
  BY DEF Works, Engines, Engine, Looked
<1>2. Grows(g, e)
  BY <1>1 DEF Works, Grows, Looked
<1> QED BY <1>2 DEF Works, Looked, Same

LEMMA LookedWorks ==
  ASSUME NEW e \in Engines, NEW f \in Engines, NEW g, Grows(f, e), f.file = e.file, f.kept = e.kept,
         f.disk = e.disk, f.event = e.event, f.out = e.out, f.shaken = e.shaken, f.known = e.known,
         ~Stale(f), Intact(e) => Intact(f), Works(g, f), Caught(g)
  PROVE  Looked(g, e)
<1>1. /\ e.jobs \in Seq(Job) /\ f.jobs \in Seq(Job) /\ g.jobs \in Seq(Job)
  BY DEF Works, Engines, Engine
<1>2. Grows(g, e)
  BY <1>1 DEF Works, Grows
<1> QED BY <1>2 DEF Works, Looked, Same

LEMMA ProcessFileLooks ==
  ASSUME NEW e \in Engines
  PROVE  Looked(ProcessFile(e), e)
<1> DEFINE f == [e EXCEPT !.fs = FALSE, !.cache = Absent, !.touched = e.touched \/ Value(e.file) = Absent]
<1>1. /\ f \in Engines /\ f.fs = FALSE /\ f.cache = Absent /\ f.jobs = e.jobs /\ f.flight = e.flight /\ f.pending = e.pending
      /\ f.file = e.file /\ f.kept = e.kept /\ f.disk = e.disk /\ f.event = e.event /\ f.out = e.out
      /\ f.shaken = e.shaken /\ f.known = e.known
  BY DEF Engines, Engine, Contents
<1>2. ProcessFile(e) = IF Value(e.file) = Absent THEN f
                       ELSE IF HasFile(e) THEN WantUpload(f) ELSE Reconcile(f)
  BY DEF ProcessFile
<1> HIDE DEF f
<1>3. Grows(f, e) /\ ~Stale(f) /\ (Intact(e) => Intact(f))
  BY <1>1 DEF Grows, Stale, Intact, Engines, Engine
<1>4. CASE Value(e.file) = Absent
  BY <1>1, <1>2, <1>3, <1>4 DEF Looked, Caught
<1>5. CASE Value(e.file) # Absent /\ HasFile(e)
  <2>1. /\ Works(WantUpload(f), f) /\ WantUpload(f).flight = f.flight
        /\ f.pending # Absent => WantUpload(f).pending # Absent
        /\ f.disk # Value(f.file) => f.flight \/ WantUpload(f).pending # Absent
    BY <1>1, <1>5, WantUploadWorks DEF HasFile
  <2>2. Caught(WantUpload(f))
    BY <1>1, <2>1 DEF Caught, Busy, Works, Same
  <2> QED BY <1>1, <1>2, <1>3, <1>5, <2>1, <2>2, LookedWorks
<1>6. CASE Value(e.file) # Absent /\ ~HasFile(e)
  <2>1. /\ Works(Reconcile(f), f) /\ (f.pending # Absent => Reconcile(f).pending # Absent)
        /\ f.out /\ Value(f.file) # Absent =>
             f.flight \/ f.pending # Absent \/ LocalHash(f) = Value(f.file) \/ Reconcile(f).flight
    BY <1>1, ReconcileWorks
  <2>2. LocalHash(f) = f.disk /\ f.disk = Absent
    BY <1>1, <1>6 DEF LocalHash, HasFile
  <2>3. f.flight => Reconcile(f).flight
    BY DEF Reconcile, Hashed
  <2>4. Caught(Reconcile(f))
    BY <1>1, <1>6, <2>1, <2>2, <2>3 DEF Caught, Busy, Works, Same
  <2> QED BY <1>1, <1>2, <1>3, <1>6, <2>1, <2>4, LookedWorks
<1> QED BY <1>4, <1>5, <1>6

LEMMA RemovedIs ==
  ASSUME NEW c \in Cell(Contents)
  PROVE  Removed(c) \in Cell(Contents) /\ Value(Removed(c)) = Absent /\ Removed(c).at = c.at
BY DEF Removed, Cell, Value, Contents

\* What persist_and_send makes of an engine that has written the vault's document.
LEMMA PersistedIs ==
  ASSUME NEW e \in Engines
  PROVE  LET p == Persisted(e) IN
         /\ KeptNow(e) \in Contents /\ KeptNow(e) \in {Value(e.file), Absent}
         /\ p \in Engines /\ p.known = KeptNow(e)
         /\ p.disk = e.disk /\ p.event = e.event /\ p.cache = e.cache /\ p.fs = e.fs
         /\ p.pending = e.pending /\ p.flight = e.flight /\ p.jobs = e.jobs
         /\ p.file = e.file /\ p.kept = e.kept /\ p.out = e.out /\ p.shaken = e.shaken
<1>1. KeptNow(e) \in Contents /\ KeptNow(e) \in {Value(e.file), Absent}
  BY DEF KeptNow, Engines, Engine, Value, Cell, Contents
<1> DEFINE now == KeptNow(e)
<1>2. Persisted(e) = [e EXCEPT !.known = now]
  BY DEF Persisted
<1> HIDE DEF now
<1>3. now \in Contents
  BY <1>1 DEF now
<1> DEFINE p == [e EXCEPT !.known = now]
<1>4. /\ p \in Engines /\ p.known = now
      /\ p.disk = e.disk /\ p.event = e.event /\ p.cache = e.cache /\ p.fs = e.fs
      /\ p.pending = e.pending /\ p.flight = e.flight /\ p.jobs = e.jobs
      /\ p.file = e.file /\ p.kept = e.kept /\ p.out = e.out /\ p.shaken = e.shaken
  BY <1>3 DEF Engines, Engine
<1> HIDE DEF p
<1> QED BY <1>1, <1>2, <1>4 DEF now, p

\* A turn of the engine's loop may also drop the entry.
Ticked(f, e) ==
  /\ f \in Engines /\ Grows(f, e) /\ f.file \in {e.file, Removed(e.file)} /\ f.kept = e.kept /\ f.disk = e.disk
  /\ f.event = e.event /\ f.out = e.out /\ f.shaken = e.shaken /\ f.known \in {e.known, Absent}
  /\ Stale(f) => Stale(e)
  /\ Intact(e) => Intact(f)
  /\ Caught(e) => Caught(f)

LEMMA TickTicks ==
  ASSUME NEW e \in Engines, NEW fs \in BOOLEAN, NEW unsaved \in BOOLEAN
  PROVE  Ticked(Tick(e, fs, unsaved), e)
<1> DEFINE a == IF fs THEN ProcessFile(e) ELSE e
           p == Refresh(a)
           b == Flush(p)
           c == IF unsaved THEN ProjectNote(b) ELSE b
<1>1. Tick(e, fs, unsaved) = IF c.due /\ Idle(c) THEN Cleanup(c) ELSE c
  BY DEF Tick
<1>2. Looked(e, e)
  BY WorksRefl DEF Works, Same, Looked
<1>3. Looked(a, e)
  BY <1>2, ProcessFileLooks
<1> HIDE DEF a
<1>4. Looked(p, e)
  BY <1>3, RefreshWorks, LookedOn DEF Looked
<1> HIDE DEF p
<1>5. Looked(b, e)
  BY <1>4, FlushWorks, LookedOn DEF Looked
<1> HIDE DEF b
<1>6. Looked(c, e)
  BY <1>5, ProjectWorks, LookedOn DEF Looked
<1> HIDE DEF c
<1>7. CASE Tick(e, fs, unsaved) = c
  BY <1>6, <1>7 DEF Looked, Ticked
<1>8. CASE Tick(e, fs, unsaved) = Cleanup(c)
  <2> DEFINE d == Cleanup(c)
  <2>1. c \in Engines /\ c.file \in Cell(Contents)
    BY <1>6 DEF Looked, Engines, Engine
  <2>2. Removed(c.file) \in Cell(Contents) /\ Value(Removed(c.file)) = Absent
    BY <2>1, RemovedIs
  <2>3. /\ d \in Engines /\ d.file \in {c.file, Removed(c.file)} /\ d.kept = c.kept /\ d.disk = c.disk
        /\ d.event = c.event /\ d.out = c.out /\ d.shaken = c.shaken /\ d.known \in {c.known, Absent}
        /\ d.fs = c.fs
        /\ d.cache = c.cache /\ d.jobs = c.jobs /\ d.flight = c.flight /\ d.pending = c.pending
    <3>1. CASE c.recorded \/ Kept(c)
      BY <2>1, <3>1 DEF Cleanup, Engines, Engine
    <3>2. CASE ~(c.recorded \/ Kept(c))
      <4> DEFINE n == [c EXCEPT !.due = FALSE, !.file = Removed(c.file)]
      <4>1. d = Persisted(n)
        BY <3>2 DEF Cleanup
      <4>2. /\ n \in Engines /\ n.file = Removed(c.file) /\ n.kept = c.kept /\ n.disk = c.disk
            /\ n.event = c.event /\ n.out = c.out /\ n.shaken = c.shaken /\ n.fs = c.fs
            /\ n.cache = c.cache /\ n.jobs = c.jobs /\ n.flight = c.flight /\ n.pending = c.pending
        BY <2>1, <2>2 DEF Engines, Engine
      <4> HIDE DEF n, d
      <4> QED BY <2>2, <4>1, <4>2, PersistedIs
    <3> QED BY <3>1, <3>2
  <2> HIDE DEF d
  <2>4. Grows(d, e) /\ (Stale(d) => Stale(e)) /\ (Intact(e) => Intact(d)) /\ (Caught(e) => Caught(d))
    BY <1>6, <2>2, <2>3 DEF Looked, Grows, Stale, Intact, Caught, Busy
  <2>5. Ticked(d, e)
    BY <1>6, <2>3, <2>4 DEF Looked, Ticked
  <2> QED BY <1>8, <2>5 DEF d
<1> QED BY <1>1, <1>7, <1>8

\* A change of the vault document: the file may be removed here, or is fetched.
Vaulted(f, e) ==
  /\ f \in Engines /\ Grows(f, e) /\ f.file = e.file /\ f.out = e.out /\ f.shaken = e.shaken
  /\ f.known \in {Value(e.file), Absent}
  /\ f.disk # e.disk => Value(e.file) = Absent /\ f.disk = Absent /\ LocalHash(e) = e.known /\ e.known # Absent
  /\ f.disk = e.disk => f.event = e.event
  /\ f.flight = e.flight \/ Value(e.file) # Absent
  /\ Stale(f) => f.disk = e.disk /\ Stale(e)
  /\ Intact(e) /\ (f.disk = e.disk \/ ~e.flight) => Intact(f)
  /\ Caught(e) => Caught(f)
  /\ e.out /\ Value(e.file) # Absent =>
       \/ f.flight \/ f.pending # Absent \/ LocalHash(f) = Value(e.file)
  /\ e.out /\ Value(e.file) # Absent /\ e.jobs = <<>> =>
       \/ e.flight \/ e.pending # Absent \/ LocalHash(e) = Value(e.file)
       \/ f.jobs # <<>> /\ ~f.jobs[1].up

LEMMA DropRemovedDoes ==
  ASSUME NEW e \in Engines
  PROVE  LET f == DropRemoved(e) IN
         /\ f \in Engines /\ f.file = e.file /\ f.kept = e.kept /\ f.out = e.out /\ f.shaken = e.shaken
         /\ f.known \in {Value(e.file), Absent} /\ f.jobs = e.jobs /\ f.flight = e.flight /\ f.pending = e.pending
         /\ f.fs = e.fs
         /\ \/ f.disk = e.disk /\ f.event = e.event /\ f.cache = e.cache
            \/ /\ f.disk = Absent /\ f.event /\ f.cache = Absent /\ e.disk # Absent
               /\ Value(e.file) = Absent /\ LocalHash(e) = e.known /\ e.known # Absent
<1>1. Value(e.file) \in Contents /\ Absent \in Contents
  BY DEF Engines, Engine, Value, Cell, Contents
<1> DEFINE now == KeptNow(e)
           f == Persisted(e)
           g == [f EXCEPT !.disk = Absent, !.event = TRUE, !.cache = Absent]
<1>2. now \in {Value(e.file), Absent}
  BY PersistedIs
<1>3. /\ f \in Engines /\ f.file = e.file /\ f.kept = e.kept /\ f.out = e.out /\ f.shaken = e.shaken
      /\ f.known = now /\ f.jobs = e.jobs /\ f.flight = e.flight /\ f.pending = e.pending /\ f.fs = e.fs
      /\ f.disk = e.disk /\ f.event = e.event /\ f.cache = e.cache
  BY PersistedIs
<1> HIDE DEF now, f
<1>4. /\ g \in Engines /\ g.file = e.file /\ g.kept = e.kept /\ g.out = e.out /\ g.shaken = e.shaken
      /\ g.known = now /\ g.jobs = e.jobs /\ g.flight = e.flight /\ g.pending = e.pending /\ g.fs = e.fs
      /\ g.disk = Absent /\ g.event /\ g.cache = Absent
  BY <1>1, <1>3 DEF Engines, Engine
<1>5. DropRemoved(e) = IF e.known # Absent /\ Value(e.file) = Absent /\ HasFile(e) /\ LocalHash(e) = e.known
                       THEN g ELSE f
  BY DEF DropRemoved, f
<1> HIDE DEF g
<1> QED BY <1>2, <1>3, <1>4, <1>5 DEF HasFile

LEMMA ReconcileVaultDoes ==
  ASSUME NEW e \in Engines
  PROVE  Vaulted(ReconcileVault(e), e)
<1> DEFINE d == DropRemoved(e)
           f == Reconcile(d)
           job == [up |-> FALSE, hash |-> Value(d.file), pc |-> "queued"]
<1>1. /\ d \in Engines /\ d.file = e.file /\ d.kept = e.kept /\ d.out = e.out /\ d.shaken = e.shaken
      /\ d.known \in {Value(e.file), Absent} /\ d.jobs = e.jobs /\ d.flight = e.flight /\ d.pending = e.pending
      /\ d.fs = e.fs
      /\ \/ d.disk = e.disk /\ d.event = e.event /\ d.cache = e.cache
         \/ /\ d.disk = Absent /\ d.event /\ d.cache = Absent /\ e.disk # Absent
            /\ Value(e.file) = Absent /\ LocalHash(e) = e.known /\ e.known # Absent
  BY DropRemovedDoes
<1> HIDE DEF d
<1>2. /\ Works(f, d)
      /\ d.pending # Absent => f.pending # Absent
      /\ d.out /\ Value(d.file) # Absent =>
           \/ d.flight \/ d.pending # Absent \/ LocalHash(d) = Value(d.file)
           \/ f.flight /\ f.jobs = Append(d.jobs, job)
  BY <1>1, ReconcileWorks
<1>3. f.flight = d.flight \/ Value(d.file) # Absent
  BY DEF Reconcile, Hashed
<1>4. d.flight => f.flight
  BY DEF Reconcile, Hashed
<1>5. LocalHash(d) = Value(d.file) /\ Value(d.file) # Absent => f.flight \/ LocalHash(f) = Value(d.file) 
  BY <1>1 DEF Reconcile, Hashed, LocalHash, Engines, Engine
<1>6. ReconcileVault(e) = f
  BY DEF ReconcileVault, d
<1> HIDE DEF f
<1>7. Grows(f, e)
  BY <1>1, <1>2 DEF Works, Grows
<1>8. (Stale(f) => f.disk = e.disk /\ Stale(e)) /\ (Caught(e) => Caught(f))
  BY <1>1, <1>2 DEF Works, Same, Stale, Caught, Busy
<1>9. ASSUME Intact(e), f.disk = e.disk \/ ~e.flight PROVE Intact(f)
  <2>1. e.jobs \in Seq(Job)
    BY DEF Engines, Engine
  <2>2. Intact(d)
    BY <1>1, <1>2, <1>9, <2>1 DEF Intact, Stale, Works, Same
  <2> QED BY <1>2, <2>2 DEF Works
<1>10. ASSUME e.out, Value(e.file) # Absent PROVE f.flight \/ f.pending # Absent \/ LocalHash(f) = Value(e.file)
  BY <1>1, <1>2, <1>4, <1>5, <1>10
<1>11. ASSUME e.out, Value(e.file) # Absent, e.jobs = <<>>
       PROVE  \/ e.flight \/ e.pending # Absent \/ LocalHash(e) = Value(e.file)
              \/ f.jobs # <<>> /\ ~f.jobs[1].up
  <2>1. LocalHash(d) = LocalHash(e)
    BY <1>1, <1>11 DEF LocalHash
  <2>2. Append(<<>>, job) = <<job>> /\ <<job>> # <<>> /\ <<job>>[1] = job /\ ~job.up
    OBVIOUS
  <2> QED BY <1>1, <1>2, <1>11, <2>1, <2>2
<1> QED BY <1>1, <1>2, <1>3, <1>6, <1>7, <1>8, <1>9, <1>10, <1>11 DEF Vaulted, Works, Same

LEMMA VaultedTwice ==
  ASSUME NEW e \in Engines, NEW f, NEW g, Vaulted(f, e), Vaulted(g, f)
  PROVE  Vaulted(g, e)
<1>1. /\ e.jobs \in Seq(Job) /\ f.jobs \in Seq(Job) /\ g.jobs \in Seq(Job) /\ f \in Engines /\ g \in Engines
  BY DEF Vaulted, Engines, Engine
<1>2. Grows(g, e)
  BY <1>1 DEF Vaulted, Grows
<1>3. g.disk # e.disk => Value(e.file) = Absent /\ g.disk = Absent /\ LocalHash(e) = e.known /\ e.known # Absent
  <2>1. CASE f.disk # e.disk
    BY <2>1 DEF Vaulted
  <2>2. CASE f.disk = e.disk
    BY <2>2 DEF Vaulted
  <2> QED BY <2>1, <2>2
<1>4. Intact(e) /\ (g.disk = e.disk \/ ~e.flight) => Intact(g)
  BY <1>3 DEF Vaulted
<1>5. e.out /\ Value(e.file) # Absent /\ e.jobs = <<>> =>
        \/ e.flight \/ e.pending # Absent \/ LocalHash(e) = Value(e.file)
        \/ g.jobs # <<>> /\ ~g.jobs[1].up
  <2>1. f.jobs # <<>> /\ ~f.jobs[1].up => g.jobs # <<>> /\ ~g.jobs[1].up
    <3>1. ASSUME f.jobs # <<>> PROVE g.jobs # <<>> /\ g.jobs[1] = f.jobs[1]
      <4>1. Len(f.jobs) >= 1
        BY <1>1, <3>1
      <4>2. Len(g.jobs) >= 1 /\ 1 \in DOMAIN g.jobs
        BY <1>1, <4>1 DEF Vaulted, Grows
      <4> QED BY <1>1, <4>1, <4>2 DEF Vaulted, Grows
    <3> QED BY <3>1
  <2> QED BY <2>1 DEF Vaulted
<1> QED BY <1>1, <1>2, <1>3, <1>4, <1>5 DEF Vaulted

\* An engine that starts again.
Started(f, e) ==
  /\ f \in Engines /\ f.file = e.file /\ f.kept = e.kept /\ f.disk = e.disk
  /\ ~f.flight /\ f.jobs = <<>> /\ ~f.out /\ f.cache \in {Absent, e.disk}
  /\ f.known \in {Value(e.file), Absent}

LEMMA OpenedStarts ==
  ASSUME NEW e \in Engines
  PROVE  Started(Opened(e), e)
<1> DEFINE now == KeptNow(e)
           blank == [e EXCEPT !.cache = Absent, !.fs = FALSE, !.event = FALSE, !.touched = FALSE,
                         !.pending = Absent, !.flight = FALSE, !.jobs = <<>>,
                         !.due = TRUE, !.out = FALSE, !.shaken = {}, !.dirty = FALSE,
                         !.known = now]
           b == [blank EXCEPT !.touched = TRUE]
           found == Refresh(b)
           owed == IF found.recorded THEN WantUpload(found) ELSE found
           h == Hashed(owed)
           o == [h EXCEPT !.pending = LocalHash(owed)]
<1>1. now \in Contents /\ now \in {Value(e.file), Absent} /\ Absent \in Contents
      /\ <<>> \in Seq(Job) /\ {} \in SUBSET Documents
  BY PersistedIs DEF Contents
<1> HIDE DEF now
<1>2. /\ blank \in Engines /\ blank.file = e.file /\ blank.kept = e.kept /\ blank.disk = e.disk /\ blank.jobs = <<>>
      /\ ~blank.flight /\ ~blank.out /\ blank.cache = Absent /\ blank.known = now
  BY <1>1 DEF Engines, Engine
<1>3. /\ b \in Engines /\ b.file = e.file /\ b.kept = e.kept /\ b.disk = e.disk /\ b.jobs = <<>>
      /\ ~b.flight /\ ~b.out /\ b.cache = Absent /\ b.known = now
  <2> HIDE DEF blank
  <2> QED BY <1>2 DEF Engines, Engine
<1>4. Opened(e) = IF Value(e.file) # Absent /\ LocalHash(owed) \notin {Absent, Value(e.file)} THEN o ELSE owed
  BY DEF Opened, now
<1> HIDE DEF b
<1> DEFINE Is(f) == /\ f \in Engines /\ f.file = e.file /\ f.kept = e.kept /\ f.disk = e.disk /\ f.jobs = <<>>
                    /\ ~f.flight /\ ~f.out /\ f.cache \in {Absent, e.disk} /\ f.known = now
<1>5. ASSUME NEW f \in Engines, NEW g, Is(f), Works(g, f), g.jobs = f.jobs, g.flight = f.flight PROVE Is(g)
  BY <1>5 DEF Works, Same, Stale
<1>6. /\ Works(found, b) /\ found.jobs = b.jobs /\ found.flight = b.flight
  <2>1. found.jobs = b.jobs /\ found.flight = b.flight
    BY DEF Refresh, Discover, WantUpload, Hashed
  <2> QED BY <1>3, <2>1, RefreshWorks
<1>7. Is(found)
  BY <1>3, <1>5, <1>6
<1> HIDE DEF found
<1>8. Is(owed)
  BY <1>5, <1>7, WantUploadWorks
<1> HIDE DEF owed
<1>9. Is(h)
  BY <1>5, <1>8, HashedWorks
<1>10. Is(o)
  <2>1. h \in Engines /\ LocalHash(owed) \in Contents /\ ~h.flight
    BY <1>8, <1>9 DEF LocalHash, Engines, Engine
  <2> HIDE DEF h
  <2>2. /\ o \in Engines /\ o.file = h.file /\ o.kept = h.kept /\ o.disk = h.disk /\ o.jobs = h.jobs
        /\ o.flight = h.flight /\ o.out = h.out /\ o.cache = h.cache /\ o.known = h.known
    BY <2>1 DEF Engines, Engine
  <2> QED BY <1>9, <2>2
<1> QED BY <1>1, <1>4, <1>8, <1>10 DEF Started

-----------------------------------------------------------------------------
(* Stamps and documents *)

LEMMA NatMin ==
  ASSUME NEW T \in SUBSET Nat, T # {}
  PROVE  \E m \in T : \A k \in T : m <= k
<1>1. \E x \in T : \A y \in T : ~ (<<y, x>> \in OpToRel(<, Nat))
  BY NatLessThanWellFounded, WFMin
<1>2. \A x, y \in T : y < x => <<y, x>> \in OpToRel(<, Nat)
  BY DEF OpToRel
<1>3. \E x \in T : \A y \in T : ~ (y < x)
  BY <1>1, <1>2
<1> QED BY <1>3

\* A bounded non-empty set of naturals has a greatest element: the last stamp exists.
LEMMA NatMax ==
  ASSUME NEW T \in SUBSET Nat, T # {}, NEW b \in Nat, \A k \in T : k <= b
  PROVE  \E m \in T : \A k \in T : k <= m
<1> DEFINE U == {n \in Nat : \A k \in T : k <= n}
<1>1. b \in U
  OBVIOUS
<1>2. PICK m \in U : \A k \in U : m <= k
  BY <1>1, NatMin
<1>3. m \in T
  <2> SUFFICES ASSUME m \notin T PROVE FALSE
    OBVIOUS
  <2>1. \A k \in T : k \in Nat /\ k < m
    BY <1>2
  <2>2. \E k \in T : k \in Nat /\ k < m
    BY <2>1
  <2>3. m - 1 \in U
    BY <2>1, <2>2
  <2> QED BY <2>3, <1>2
<1> QED BY <1>2, <1>3


LEMMA MaxIs ==
  ASSUME NEW T \in SUBSET Nat, T # {}, NEW b \in Nat, \A k \in T : k <= b
  PROVE  Max(T) \in T /\ \A k \in T : k <= Max(T)
<1>1. \E m \in T : \A k \in T : m >= k
  <2>1. PICK m \in T : \A k \in T : k <= m
    BY NatMax
  <2> QED BY <2>1
<1>2. Max(T) \in T /\ \A k \in T : Max(T) >= k
  BY <1>1, Zenon DEF Max
<1> QED BY <1>2

TypesInv ==
  /\ FilesType
  /\ ops \in 0 .. MaxOps
  /\ \A r \in Replicas : eng[r] \in Engines

\* A write comes after all that was written.
LEMMA NowIs ==
  ASSUME TypesInv
  PROVE  /\ Now \in Nat \ {0}
         /\ srv.file.at < Now /\ srv.kept.at < Now
         /\ \A r \in Replicas : eng[r].file.at < Now /\ eng[r].kept.at < Now /\ eng[r].names.at < Now
<1> DEFINE T == {x.file.at : x \in Range(eng)} \cup {x.kept.at : x \in Range(eng)}
                \cup {x.names.at : x \in Range(eng)} \cup {srv.file.at, srv.kept.at}
<1>1. Range(eng) = {eng[r] : r \in Replicas}
  BY DEF TypesInv, FilesType, Range
<1>2. \A x \in Range(eng) : x.file.at \in Stamps /\ x.kept.at \in Stamps /\ x.names.at \in Stamps
  BY <1>1 DEF TypesInv, Engines, Engine, Cell
<1>3. srv.file.at \in Stamps /\ srv.kept.at \in Stamps
  BY DEF TypesInv, FilesType, Server, Cell
<1>4. T \in SUBSET Stamps /\ T # {} /\ MaxStamp \in Nat
  BY <1>2, <1>3, AttachmentsAssumption
<1>5. T \in SUBSET Nat /\ \A k \in T : k <= MaxStamp
  BY <1>4 DEF Stamps
<1> HIDE DEF T
<1>6. Max(T) \in T /\ \A k \in T : k <= Max(T)
  BY <1>4, <1>5, MaxIs
<1>7. Now = 1 + Max(T)
  BY DEF Now, T
<1>8. /\ srv.file.at \in T /\ srv.kept.at \in T
      /\ \A r \in Replicas : eng[r].file.at \in T /\ eng[r].kept.at \in T /\ eng[r].names.at \in T
  BY <1>1 DEF T
<1>9. Max(T) \in Nat
  BY <1>5, <1>6
<1>10. \A k \in T : k \in Nat /\ k < 1 + Max(T)
  BY <1>5, <1>6, <1>9
<1> QED BY <1>7, <1>8, <1>9, <1>10

\* Of two writes the later one is taken, and of one and the same what either removed is removed.
LEMMA MergeIs ==
  ASSUME NEW V, NEW c \in Cell(V), NEW d \in Cell(V)
  PROVE  /\ MergeCells(c, d) \in Cell(V)
         /\ MergeCells(c, d).at \in {c.at, d.at} /\ c.at <= MergeCells(c, d).at
         /\ \/ MergeCells(c, d) = c /\ d.at < c.at
            \/ MergeCells(c, d) = d /\ c.at < d.at
            \/ MergeCells(c, d).at = c.at /\ c.at = d.at /\ Value(MergeCells(c, d)) \in {Value(c), Absent}
<1> MaxStamp \in Nat
  BY AttachmentsAssumption
<1>1. c.at \in Nat /\ d.at \in Nat /\ c.gone \in BOOLEAN /\ d.gone \in BOOLEAN
  BY DEF Cell, Stamps
<1>2. CASE c.at = d.at
  BY <1>1, <1>2 DEF MergeCells, Cell, Value
<1>3. CASE c.at # d.at
  <2>1. MergeCells(c, d) = IF c.at > d.at THEN c ELSE d
    BY <1>3 DEF MergeCells
  <2>2. CASE c.at > d.at
    BY <1>1, <2>1, <2>2
  <2>3. CASE ~(c.at > d.at)
    BY <1>1, <1>3, <2>1, <2>3
  <2> QED BY <2>2, <2>3
<1> QED BY <1>2, <1>3

LEMMA WrittenIs ==
  ASSUME TypesInv, Now <= MaxStamp, NEW V, NEW val \in V
  PROVE  Written(val) \in Cell(V) /\ Written(val).at = Now /\ (val # Absent => Value(Written(val)) = val)
         /\ Value(Written(val)) \in {val}
BY NowIs, AttachmentsAssumption DEF Written, Cell, Value, Stamps

\* The next state of one replica.
LEMMA SetIs ==
  ASSUME TypesInv, NEW r \in Replicas, NEW f \in Engines, Set(r, f)
  PROVE  /\ eng' \in [Replicas -> Engine] /\ \A q \in Replicas : eng'[q] \in Engines
         /\ eng'[r] = f /\ \A q \in Replicas \ {r} : eng'[q] = eng[q]
         /\ seen' \in [Replicas -> SUBSET Hashes]
         /\ seen'[r] = seen[r] \cup ({Value(f.file)} \ {Absent})
         /\ \A q \in Replicas \ {r} : seen'[q] = seen[q]
<1>1. Value(f.file) \in Contents /\ f \in Engine
  BY DEF Engines, Engine, Value, Cell, Contents
<1>2. {Value(f.file)} \ {Absent} \in SUBSET Hashes
  BY <1>1 DEF Contents
<1> QED BY <1>1, <1>2 DEF Set, TypesInv, FilesType

-----------------------------------------------------------------------------
(* What each action does to the engine it is of *)

LEMMA TypesFrom ==
  ASSUME TypesInv, eng' \in [Replicas -> Engine], \A q \in Replicas : eng'[q] \in Engines,
         seen' \in [Replicas -> SUBSET Hashes],
         srv' = srv \/ (srv' \in Server /\ srv'.blobs = {h \in Hashes : srv'.row[h] # "none"}),
         save' \in [Saves -> Save], missed' \subseteq Replicas, crossed' \subseteq Replicas,
         overtaken' \subseteq Replicas, lost' \subseteq Hashes, ops' \in 0 .. MaxOps
  PROVE  TypesInv'
<1>1. srv' \in Server /\ srv'.blobs = {h \in Hashes : srv'.row[h] # "none"}
  BY DEF TypesInv, FilesType
<1>2. \A r \in Replicas : eng'[r].flight => eng'[r].jobs # <<>>
  BY DEF Engines
<1> QED BY <1>1, <1>2 DEF TypesInv, FilesType

\* Another thing done.
LEMMA OpIs ==
  ASSUME TypesInv, Fault
  PROVE  ops' \in 0 .. MaxOps /\ ops' = ops + 1 /\ ops + 1 \in Hashes /\ ops + 1 \in Contents /\ Absent \in Contents
         /\ ops + 1 # Absent
BY AttachmentsAssumption DEF TypesInv, Fault, Hashes, Contents

\* Nothing happens to the other replicas.
Only(r) ==
  /\ seen'[r] = seen[r] \cup ({Value(eng'[r].file)} \ {Absent})
  /\ \A q \in Replicas \ {r} : eng'[q] = eng[q] /\ seen'[q] = seen[q]

LEMMA EngineMoves ==
  ASSUME TypesInv, NEW r \in Replicas, NEW f \in Engines, Set(r, f), ops' \in 0 .. MaxOps, save' = save,
         srv' = srv \/ (srv' \in Server /\ srv'.blobs = {h \in Hashes : srv'.row[h] # "none"}),
         missed' \subseteq Replicas, crossed' \subseteq Replicas,
         overtaken' \subseteq Replicas, lost' \subseteq Hashes
  PROVE  TypesInv' /\ Only(r) /\ eng'[r] = f
<1>1. /\ eng' \in [Replicas -> Engine] /\ \A q \in Replicas : eng'[q] \in Engines
      /\ eng'[r] = f /\ \A q \in Replicas \ {r} : eng'[q] = eng[q]
      /\ seen' \in [Replicas -> SUBSET Hashes]
      /\ seen'[r] = seen[r] \cup ({Value(f.file)} \ {Absent})
      /\ \A q \in Replicas \ {r} : seen'[q] = seen[q]
  BY SetIs
<1>2. save' \in [Saves -> Save]
  BY DEF TypesInv, FilesType
<1> QED BY <1>1, <1>2, TypesFrom DEF Only

\* The entry, the transfers and the connection are left as they are.
Leaves(f, e) ==
  /\ f.file = e.file /\ f.known = e.known /\ f.jobs = e.jobs /\ f.flight = e.flight
  /\ f.pending = e.pending /\ f.out = e.out /\ f.shaken = e.shaken

LEMMA TouchDoes ==
  ASSUME TypesInv, NEW r \in Replicas, NEW c \in {ops + 1, Absent}, Touch(r, c)
  PROVE  /\ TypesInv' /\ Only(r) /\ Leaves(eng'[r], eng[r])
         /\ eng'[r].disk = c /\ eng'[r].event
<1> DEFINE e == eng[r]
           f == [e EXCEPT !.disk = c, !.event = TRUE]
<1>1. c \in Contents /\ ops' \in 0 .. MaxOps
  BY OpIs DEF Touch, Op
<1>2. e \in Engines
  BY DEF TypesInv
<1>3. f \in Engines /\ f.disk = c /\ f.event /\ Leaves(f, e)
  <2> HIDE DEF e
  <2> QED BY <1>1, <1>2 DEF Engines, Engine, Leaves
<1>4. Set(r, f)
  BY DEF Touch
<1> HIDE DEF f
<1> QED BY <1>1, <1>3, <1>4, EngineMoves DEF Touch, TypesInv, FilesType

LEMMA WatchDoes ==
  ASSUME TypesInv, NEW r \in Replicas, Watch(r)
  PROVE  /\ TypesInv' /\ Only(r) /\ Leaves(eng'[r], eng[r])
         /\ eng'[r].disk = eng[r].disk /\ eng'[r].fs /\ eng'[r].cache = Absent
<1> DEFINE e == eng[r]
           f == [e EXCEPT !.event = FALSE, !.fs = TRUE, !.cache = Absent]
<1>1. e \in Engines /\ Absent \in Contents
  BY DEF TypesInv, Contents
<1>2. f \in Engines /\ f.disk = e.disk /\ f.fs /\ f.cache = Absent /\ Leaves(f, e)
  <2> HIDE DEF e
  <2> QED BY <1>1 DEF Engines, Engine, Leaves
<1>3. Set(r, f)
  BY DEF Watch
<1> HIDE DEF f
<1> QED BY <1>2, <1>3, EngineMoves DEF Watch, told, TypesInv, FilesType

LEMMA EditNoteDoes ==
  ASSUME TypesInv, NEW r \in Replicas, EditNote(r)
  PROVE  TypesInv' /\ Only(r) /\ Works(eng'[r], eng[r])
<1> DEFINE e == eng[r]
           to == ~e.shown
           named == Written(to)
           g == [e EXCEPT !.names = named, !.shown = to]
           f == Discover(g)
<1>1. e \in Engines /\ ops' \in 0 .. MaxOps
  BY OpIs DEF TypesInv, EditNote, Op
<1>2. named \in Cell(BOOLEAN)
  BY WrittenIs DEF EditNote, Op
<1> HIDE DEF named
<1>3. /\ g \in Engines /\ Same(g, e) /\ g.jobs = e.jobs /\ g.flight = e.flight
      /\ g.pending = e.pending /\ g.cache = e.cache
  <2> HIDE DEF e
  <2> QED BY <1>1, <1>2 DEF Engines, Engine, Same
<1>4. Set(r, f)
  BY DEF EditNote, named
<1> HIDE DEF g, e
<1>5. Works(f, e)
  BY <1>1, <1>3, AsideWorks, DiscoverWorks, WorksTrans
<1> HIDE DEF f
<1> QED BY <1>1, <1>4, <1>5, EngineMoves DEF EditNote, told, TypesInv, FilesType, Works, e

LEMMA TickEngineDoes ==
  ASSUME TypesInv, NEW r \in Replicas, TickEngine(r)
  PROVE  TypesInv' /\ Only(r) /\ Ticked(eng'[r], eng[r]) /\ UNCHANGED <<srv, save, ops, told>>
<1>1. eng[r] \in Engines /\ eng[r].fs \in BOOLEAN /\ eng[r].dirty \in BOOLEAN
  BY DEF TypesInv, Engines, Engine
<1>2. PICK fs \in BOOLEAN, unsaved \in BOOLEAN : Set(r, Tick(eng[r], fs, unsaved))
  BY <1>1 DEF TickEngine
<1>3. Ticked(Tick(eng[r], fs, unsaved), eng[r])
  BY <1>1, TickTicks
<1> DEFINE f == Tick(eng[r], fs, unsaved)
<1>4. Ticked(f, eng[r]) /\ Set(r, f)
  BY <1>2, <1>3
<1> HIDE DEF f
<1> QED BY <1>4, EngineMoves DEF TickEngine, told, TypesInv, FilesType, Ticked

LEMMA FlushCache ==
  ASSUME NEW e \in Engines
  PROVE  Flush(e).cache = e.cache
BY DEF Flush, Engines, Engine

LEMMA PutFileDoes ==
  ASSUME TypesInv, NEW r \in Replicas, PutFile(r)
  PROVE  /\ TypesInv' /\ Only(r) /\ Grows(eng'[r], eng[r])
         /\ eng'[r].file = eng[r].file /\ eng'[r].known \in {Value(eng[r].file), Absent}
         /\ eng'[r].disk = ops + 1 /\ eng'[r].cache = ops + 1 /\ eng'[r].event
         /\ Intact(eng[r]) /\ ~eng[r].flight => Intact(eng'[r])
         /\ eng'[r].out = eng[r].out /\ eng'[r].shaken = eng[r].shaken
<1> DEFINE e == eng[r]
           k == Persisted(Keep(e))
           g == [k EXCEPT !.disk = ops + 1, !.event = TRUE, !.cache = ops + 1, !.pending = ops + 1]
           h == Flush(g)
           f == [h EXCEPT !.touched = TRUE]
<1>1. e \in Engines /\ ops' \in 0 .. MaxOps /\ ops + 1 \in Contents
  BY OpIs DEF TypesInv, PutFile, Op
<1>2. Written(TRUE) \in Cell({TRUE, Absent})
  BY WrittenIs DEF PutFile, Op
<1>3. Set(r, f)
  BY DEF PutFile
<1> HIDE DEF e
<1>4. /\ k \in Engines /\ k.file = e.file /\ k.known \in {Value(e.file), Absent}
      /\ k.jobs = e.jobs /\ k.flight = e.flight /\ k.out = e.out /\ k.shaken = e.shaken
  <2>1. /\ Keep(e) \in Engines /\ Keep(e).file = e.file /\ Keep(e).jobs = e.jobs
        /\ Keep(e).flight = e.flight /\ Keep(e).out = e.out /\ Keep(e).shaken = e.shaken
    BY <1>1, <1>2 DEF Keep, Engines, Engine
  <2> QED BY <2>1, PersistedIs
<1> HIDE DEF k
<1>5. /\ g \in Engines /\ g.file = e.file /\ g.known \in {Value(e.file), Absent}
      /\ g.jobs = e.jobs /\ g.flight = e.flight
      /\ g.disk = ops + 1 /\ g.event /\ g.cache = ops + 1 /\ g.pending = ops + 1
      /\ g.out = e.out /\ g.shaken = e.shaken
  BY <1>1, <1>4 DEF Engines, Engine
<1> HIDE DEF g
<1>6. Works(h, g)
  BY <1>5, FlushWorks
<1> HIDE DEF h
<1>7. /\ f \in Engines /\ Same(f, h) /\ f.jobs = h.jobs /\ f.flight = h.flight
      /\ f.pending = h.pending /\ f.cache = h.cache
  BY <1>6 DEF Works, Engines, Engine, Same
<1>8. Works(f, g)
  BY <1>5, <1>6, <1>7, AsideWorks, WorksTrans DEF Works
<1> HIDE DEF f
<1>9. Grows(f, e)
  BY <1>5, <1>8 DEF Works, Grows
<1>10. ASSUME Intact(e), ~e.flight PROVE Intact(f)
  <2>1. Intact(g)
    BY <1>1, <1>5, <1>10 DEF Intact, Stale, Engines, Engine
  <2> QED BY <1>8, <2>1 DEF Works
<1>11. f.cache = ops + 1
  BY <1>5, <1>6, <1>7, FlushCache DEF h
<1> QED BY <1>1, <1>3, <1>5, <1>8, <1>9, <1>10, <1>11, EngineMoves DEF PutFile, TypesInv, FilesType, Works, Same, e

LEMMA DeleteFileDoes ==
  ASSUME TypesInv, NEW r \in Replicas, DeleteFile(r)
  PROVE  /\ TypesInv' /\ Only(r)
         /\ eng'[r].file = Removed(eng[r].file) /\ eng'[r].known = Absent /\ eng'[r].disk = Absent
         /\ eng'[r].cache = Absent /\ eng'[r].jobs = eng[r].jobs /\ eng'[r].flight = eng[r].flight
         /\ eng'[r].pending = Absent /\ eng'[r].out = eng[r].out /\ eng'[r].shaken = eng[r].shaken
<1> DEFINE e == eng[r]
           ev == e.event \/ HasFile(e)
           g == Persisted(Forget(e))
           f == [g EXCEPT !.disk = Absent, !.cache = Absent, !.event = ev, !.pending = Absent, !.due = TRUE]
<1>1. e \in Engines /\ ops' \in 0 .. MaxOps /\ Absent \in Contents
  BY OpIs DEF TypesInv, DeleteFile, Op
<1>2. Set(r, f)
  BY DEF DeleteFile
<1> HIDE DEF e
<1>3. Removed(e.file) \in Cell(Contents) /\ Removed(e.kept) \in Cell({TRUE, Absent}) /\ ev \in BOOLEAN
  BY <1>1 DEF Removed, Cell, Engines, Engine, HasFile
<1>4. /\ g \in Engines /\ g.file = Removed(e.file) /\ g.jobs = e.jobs /\ g.flight = e.flight
      /\ g.out = e.out /\ g.shaken = e.shaken /\ g.known = Absent
  <2>1. /\ Forget(e) \in Engines /\ Forget(e).file = Removed(e.file) /\ Forget(e).jobs = e.jobs
        /\ Forget(e).flight = e.flight /\ Forget(e).out = e.out /\ Forget(e).shaken = e.shaken
    BY <1>1, <1>3 DEF Forget, Engines, Engine
  <2>2. Value(Removed(e.file)) = Absent
    BY <1>1, RemovedIs DEF Engines, Engine
  <2> QED BY <2>1, <2>2, PersistedIs
<1> HIDE DEF g, ev
<1>5. /\ f \in Engines /\ f.file = Removed(e.file) /\ f.jobs = e.jobs /\ f.flight = e.flight
      /\ f.out = e.out /\ f.shaken = e.shaken /\ f.known = Absent /\ f.disk = Absent /\ f.cache = Absent
      /\ f.pending = Absent
  BY <1>1, <1>3, <1>4 DEF Engines, Engine
<1> HIDE DEF f
<1> QED BY <1>1, <1>2, <1>5, EngineMoves DEF DeleteFile, TypesInv, FilesType, e

LEMMA ConnectDoes ==
  ASSUME TypesInv, NEW r \in Replicas, Connect(r)
  PROVE  /\ TypesInv' /\ Only(r) /\ UNCHANGED <<srv, save, ops, told>>
         /\ eng'[r].shaken = {}
         /\ \E g \in Engines :
              /\ Works(eng'[r], g)
              /\ g.file = eng[r].file /\ g.known = eng[r].known /\ g.jobs = eng[r].jobs /\ g.flight = eng[r].flight
              /\ g.pending = eng[r].pending /\ g.disk = eng[r].disk /\ g.event = eng[r].event
              /\ g.cache = eng[r].cache
<1> DEFINE e == eng[r]
           g == [e EXCEPT !.out = TRUE, !.shaken = {}]
           f == Reconcile(g)
<1>1. e \in Engines
  BY DEF TypesInv
<1>2. Set(r, f) /\ UNCHANGED <<srv, save, ops, told>>
  BY DEF Connect
<1> HIDE DEF e
<1>3. /\ g \in Engines /\ g.file = e.file /\ g.known = e.known /\ g.jobs = e.jobs /\ g.flight = e.flight
      /\ g.pending = e.pending /\ g.disk = e.disk /\ g.event = e.event /\ g.cache = e.cache /\ g.shaken = {}
  BY <1>1 DEF Engines, Engine
<1> HIDE DEF g
<1>4. Works(f, g)
  BY <1>3, ReconcileWorks
<1> HIDE DEF f
<1>5. TypesInv' /\ Only(r) /\ eng'[r] = f
  BY <1>2, <1>4, EngineMoves DEF TypesInv, FilesType, told, Works
<1> QED BY <1>2, <1>3, <1>4, <1>5 DEF Works, Same, e

\* The same in all that matters, but for the entry and the connection; and with these two.
Still(f, e) ==
  /\ f.known = e.known /\ f.jobs = e.jobs /\ f.flight = e.flight /\ f.pending = e.pending
  /\ f.disk = e.disk /\ f.event = e.event /\ f.cache = e.cache /\ f.fs = e.fs
Alike(f, e) == Still(f, e) /\ f.file = e.file /\ f.out = e.out

LEMMA DisconnectDoes ==
  ASSUME TypesInv, NEW r \in Replicas, Disconnect(r)
  PROVE  /\ TypesInv' /\ Only(r) /\ eng'[r].shaken = {} /\ ~eng'[r].out
         /\ Still(eng'[r], eng[r]) /\ eng'[r].file = eng[r].file
<1> DEFINE e == eng[r]
           f == [e EXCEPT !.out = FALSE, !.shaken = {}]
<1>1. e \in Engines /\ ops' \in 0 .. MaxOps
  BY OpIs DEF TypesInv, Disconnect
<1>2. Set(r, f)
  BY DEF Disconnect
<1> HIDE DEF e
<1>3. f \in Engines /\ f.shaken = {} /\ ~f.out /\ Still(f, e) /\ f.file = e.file
  BY <1>1 DEF Engines, Engine, Still
<1> HIDE DEF f
<1> QED BY <1>1, <1>2, <1>3, EngineMoves DEF Disconnect, TypesInv, FilesType, told, e

\* The entry the server has is merged.
Got(g, e) ==
  g \in Engines /\ Still(g, e) /\ g.out = e.out /\ g.shaken = e.shaken /\ g.file = MergeCells(e.file, srv.file)

LEMMA TakeNoteDoes ==
  ASSUME TypesInv, NEW e \in Engines
  PROVE  TakeNote(e) \in Engines /\ Alike(TakeNote(e), e) /\ TakeNote(e).shaken = e.shaken /\ TakeNote(e).kept = e.kept
<1> DEFINE names == MergeCells(e.names, srv.names)
           unsaved == e.dirty \/ names # e.names
<1>1. names \in Cell(BOOLEAN) /\ unsaved \in BOOLEAN
  BY MergeIs DEF TypesInv, FilesType, Server, Engines, Engine
<1>2. TakeNote(e) = [e EXCEPT !.names = names, !.dirty = unsaved]
  BY DEF TakeNote
<1> HIDE DEF names, unsaved
<1> QED BY <1>1, <1>2 DEF Engines, Engine, Alike, Still

LEMMA TakeVaultDoes ==
  ASSUME TypesInv, NEW e \in Engines
  PROVE  \E g : /\ Got(g, e)
                /\ \/ TakeVault(e) = e /\ g.file = e.file
                   \/ \E f : Vaulted(f, g) /\ TakeVault(e) \in Engines /\ Alike(TakeVault(e), f)
                             /\ TakeVault(e).shaken = e.shaken
<1> DEFINE entry == MergeCells(e.file, srv.file)
           kept == MergeCells(e.kept, srv.kept)
           g == [e EXCEPT !.file = entry, !.kept = kept]
           f == ReconcileVault(g)
<1>1. entry \in Cell(Contents) /\ kept \in Cell({TRUE, Absent})
  BY MergeIs DEF TypesInv, FilesType, Server, Engines, Engine
<1>2. TakeVault(e) = IF g = e THEN e ELSE [f EXCEPT !.due = TRUE]
  BY DEF TakeVault
<1> HIDE DEF entry, kept
<1>3. g \in Engines /\ g.shaken = e.shaken /\ g.out = e.out /\ Still(g, e) /\ g.file = entry
  BY <1>1 DEF Engines, Engine, Still
<1>4. Got(g, e)
  BY <1>3 DEF Got, entry
<1> HIDE DEF g
<1>5. Vaulted(f, g)
  BY <1>3, ReconcileVaultDoes
<1> HIDE DEF f
<1>6. [f EXCEPT !.due = TRUE] \in Engines /\ Alike([f EXCEPT !.due = TRUE], f) /\ [f EXCEPT !.due = TRUE].shaken = e.shaken
  BY <1>3, <1>5 DEF Vaulted, Engines, Engine, Alike, Still
<1> QED BY <1>2, <1>3, <1>4, <1>5, <1>6

LEMMA VaultedAlike ==
  ASSUME NEW e \in Engines, NEW t \in Engines, NEW g, Vaulted(g, t), Alike(t, e), t.shaken = e.shaken
  PROVE  Vaulted(g, e)
<1>1. Value(t.file) = Value(e.file) /\ LocalHash(t) = LocalHash(e)
  BY DEF Alike, Still, Value, LocalHash
<1>2. (Stale(t) <=> Stale(e)) /\ (Intact(t) <=> Intact(e)) /\ (Caught(t) <=> Caught(e))
  BY DEF Alike, Still, Stale, Intact, Caught, Busy
<1>3. Grows(g, e)
  BY <1>1 DEF Vaulted, Alike, Still, Grows
<1> QED BY <1>1, <1>2, <1>3 DEF Vaulted, Alike, Still

LEMMA HandshakeDoes ==
  ASSUME TypesInv, NEW r \in Replicas, Handshake(r)
  PROVE  /\ TypesInv' /\ Only(r) /\ eng[r].out /\ UNCHANGED <<srv, save, ops>>
         /\ \/ Alike(eng'[r], eng[r]) /\ ("vault" \in eng'[r].shaken => "vault" \in eng[r].shaken)
            \/ \E g, f : Got(g, eng[r]) /\ Vaulted(f, g) /\ Alike(eng'[r], f)
<1> DEFINE e == eng[r]
<1>1. e \in Engines /\ e.out
  BY DEF TypesInv, Handshake
<1>2. CASE Set(r, [TakeNote(e) EXCEPT !.shaken = @ \cup {"note"}])
  <2> DEFINE n == TakeNote(e)
             f == [n EXCEPT !.shaken = n.shaken \cup {"note"}]
  <2>1. n \in Engines /\ Alike(n, e) /\ n.shaken = e.shaken
    BY <1>1, TakeNoteDoes
  <2>2. Set(r, f)
    BY <1>2
  <2> HIDE DEF n
  <2>3. n.shaken \cup {"note"} \in SUBSET Documents /\ n.out
    BY <1>1, <2>1 DEF Documents, Engines, Engine, Alike, Still
  <2>4. f \in Engines /\ Alike(f, n) /\ f.shaken = n.shaken \cup {"note"}
    BY <2>1, <2>3 DEF Engines, Engine, Alike, Still
  <2> HIDE DEF f
  <2>5. Alike(f, e) /\ ("vault" \in f.shaken => "vault" \in e.shaken)
    BY <2>1, <2>4 DEF Alike, Still
  <2> QED BY <1>1, <2>2, <2>4, <2>5, EngineMoves DEF Handshake, Overtakes, TypesInv, FilesType
<1>3. CASE Set(r, [ReconcileVault(TakeVault(e)) EXCEPT !.shaken = @ \cup {"vault"}])
  <2> DEFINE t == TakeVault(e)
             v == ReconcileVault(t)
             f == [v EXCEPT !.shaken = v.shaken \cup {"vault"}]
  <2>1. PICK g : /\ Got(g, e)
                 /\ \/ t = e /\ g.file = e.file
                    \/ \E u : Vaulted(u, g) /\ t \in Engines /\ Alike(t, u) /\ t.shaken = e.shaken
    BY <1>1, TakeVaultDoes
  <2>2. t \in Engines
    BY <1>1, <2>1
  <2>3. Vaulted(v, t)
    BY <2>2, ReconcileVaultDoes
  <2>4. Set(r, f)
    BY <1>3
  <2> HIDE DEF v
  <2>5. v.shaken \cup {"vault"} \in SUBSET Documents /\ v \in Engines /\ v.out
    <3>1. t.out
      BY <1>1, <2>1 DEF Got, Vaulted, Alike, Still
    <3> QED BY <2>3, <3>1 DEF Documents, Engines, Engine, Vaulted
  <2>6. f \in Engines /\ Alike(f, v)
    BY <2>5 DEF Engines, Engine, Alike, Still
  <2> HIDE DEF f, t
  <2>7. \E h : Got(h, e) /\ Vaulted(v, h)
    <3>1. CASE t = e /\ g.file = e.file
      <4>1. Got(e, e)
        BY <1>1, <2>1, <3>1 DEF Got, Alike, Still
      <4> QED BY <2>3, <3>1, <4>1
    <3>2. CASE \E u : Vaulted(u, g) /\ t \in Engines /\ Alike(t, u) /\ t.shaken = e.shaken
      <4>1. PICK u : Vaulted(u, g) /\ Alike(t, u) /\ t.shaken = e.shaken
        BY <3>2
      <4>2. u \in Engines /\ g \in Engines /\ u.shaken = e.shaken
        BY <2>1, <4>1 DEF Vaulted, Got
      <4>3. Vaulted(v, u)
        BY <2>2, <2>3, <4>1, <4>2, VaultedAlike
      <4>4. Vaulted(v, g)
        BY <4>1, <4>2, <4>3, VaultedTwice
      <4> QED BY <2>1, <4>4
    <3> QED BY <2>1, <3>1, <3>2
  <2> QED BY <1>1, <2>4, <2>6, <2>7, EngineMoves DEF Handshake, Overtakes, TypesInv, FilesType
<1> QED BY <1>2, <1>3 DEF Handshake

LEMMA ReceiveDoes ==
  ASSUME TypesInv, NEW r \in Replicas, Receive(r)
  PROVE  /\ TypesInv' /\ Only(r) /\ eng[r].out /\ UNCHANGED <<srv, save, ops>>
         /\ eng'[r].shaken = eng[r].shaken
         /\ \/ Alike(eng'[r], eng[r])
            \/ \E g, f : Got(g, eng[r]) /\ Vaulted(f, g) /\ Alike(eng'[r], f)
<1> DEFINE e == eng[r]
           n == TakeNote(e)
           t == TakeVault(n)
<1>1. e \in Engines /\ e.out
  BY DEF TypesInv, Receive, Engines, Documents
<1>2. Set(r, t)
  BY DEF Receive
<1> HIDE DEF e
<1>3. n \in Engines /\ Alike(n, e) /\ n.shaken = e.shaken
  BY <1>1, TakeNoteDoes
<1> HIDE DEF n
<1>4. PICK g : /\ Got(g, n)
               /\ \/ t = n /\ g.file = n.file
                  \/ \E u : Vaulted(u, g) /\ t \in Engines /\ Alike(t, u) /\ t.shaken = n.shaken
  BY <1>3, TakeVaultDoes
<1> HIDE DEF t
<1>5. Got(g, e)
  BY <1>3, <1>4 DEF Got, Alike, Still
<1>6. t \in Engines /\ t.shaken = e.shaken
  BY <1>3, <1>4
<1>7. Alike(t, e) \/ \E u : Got(g, e) /\ Vaulted(u, g) /\ Alike(t, u)
  BY <1>3, <1>4, <1>5
<1> QED BY <1>1, <1>2, <1>6, <1>7, EngineMoves DEF Receive, Overtakes, TypesInv, FilesType, e

LEMMA StoreIs ==
  ASSUME TypesInv, NEW h \in Hashes
  PROVE  LET s == Store(srv, h) IN
         /\ s \in Server /\ s.blobs = {k \in Hashes : s.row[k] # "none"}
         /\ s.blobs = srv.blobs \cup {h} /\ s.file = srv.file
<1> DEFINE blobs == srv.blobs \cup {h}
           row == [srv.row EXCEPT ![h] = IF @ = "none" THEN "live" ELSE @]
           s == [srv EXCEPT !.blobs = blobs, !.row = row]
<1>1. srv \in Server /\ srv.blobs = {k \in Hashes : srv.row[k] # "none"}
  BY DEF TypesInv, FilesType
<1>2. srv.row \in [Hashes -> {"none", "live", "marked", "aged"}]
  BY <1>1 DEF Server
<1>3. row \in [Hashes -> {"none", "live", "marked", "aged"}] /\ blobs \in SUBSET Hashes
  BY <1>1, <1>2 DEF Server
<1>4. blobs = {k \in Hashes : row[k] # "none"}
  BY <1>1, <1>2
<1>5. Store(srv, h) = s
  BY DEF Store
<1> HIDE DEF blobs, row
<1>6. s \in Server /\ s.blobs = blobs /\ s.row = row /\ s.file = srv.file
  BY <1>1, <1>3 DEF Server
<1> QED BY <1>4, <1>5, <1>6 DEF blobs

\* What a transfer makes of a job: its end.
Ended(f, e, i, h, pc) ==
  /\ f.file = e.file /\ f.known = e.known /\ f.flight = e.flight /\ f.pending = e.pending
  /\ f.out = e.out /\ f.disk = e.disk /\ f.event = e.event /\ f.cache = e.cache /\ f.fs = e.fs
  /\ f.shaken = e.shaken
  /\ Len(f.jobs) = Len(e.jobs) /\ i \in DOMAIN e.jobs /\ e.jobs[i].pc = "queued"
  /\ f.jobs[i].up = e.jobs[i].up /\ f.jobs[i].hash = h /\ f.jobs[i].pc = pc
  /\ \A k \in DOMAIN e.jobs \ {i} : f.jobs[k] = e.jobs[k]

LEMMA EndedIs ==
  ASSUME NEW e \in Engines, NEW i \in DOMAIN e.jobs, e.jobs[i].pc = "queued", NEW h \in Contents,
         NEW pc \in {"done", "failed"}
  PROVE  LET f == [e EXCEPT !.jobs[i] = [e.jobs[i] EXCEPT !.hash = h, !.pc = pc]] IN
         f \in Engines /\ Ended(f, e, i, h, pc)
<1> DEFINE job == [e.jobs[i] EXCEPT !.hash = h, !.pc = pc]
           jobs == [e.jobs EXCEPT ![i] = job]
           f == [e EXCEPT !.jobs = jobs]
<1>1. e.jobs \in Seq(Job) /\ e.jobs[i] \in Job /\ DOMAIN e.jobs = 1 .. Len(e.jobs)
  BY DEF Engines, Engine
<1>2. job \in Job /\ job.up = e.jobs[i].up /\ job.hash = h /\ job.pc = pc
  BY <1>1 DEF Job
<1> HIDE DEF job
<1>3. /\ jobs \in Seq(Job) /\ Len(jobs) = Len(e.jobs) /\ jobs[i] = job
      /\ \A k \in DOMAIN e.jobs \ {i} : jobs[k] = e.jobs[k]
  BY <1>1, <1>2
<1>4. jobs # <<>>
  BY <1>1, <1>3
<1> HIDE DEF jobs
<1>5. f \in Engines /\ f.jobs = jobs /\ Ended(f, e, i, h, pc)
  BY <1>2, <1>3, <1>4 DEF Engines, Engine, Ended
<1> QED BY <1>5 DEF jobs, job

LEMMA TransferDoes ==
  ASSUME TypesInv, NEW r \in Replicas, Transfer(r)
  PROVE  /\ TypesInv' /\ Only(r) /\ UNCHANGED <<save, missed, crossed, overtaken>> /\ ops' \in {ops, ops + 1}
         /\ srv'.file = srv.file
         /\ \E i \in DOMAIN eng[r].jobs :
              LET e == eng[r] job == e.jobs[i] IN
              \/ /\ job.up /\ HasFile(e) /\ Ended(eng'[r], e, i, e.disk, "done")
                 /\ srv'.blobs = srv.blobs \cup {e.disk} /\ lost' = lost \ {e.disk}
              \/ /\ ~job.up /\ job.hash \in srv.blobs /\ Ended(eng'[r], e, i, job.hash, "done")
                 /\ srv' = srv /\ lost' = lost
              \/ /\ Ended(eng'[r], e, i, job.hash, "failed")
                 /\ srv' = srv /\ lost' = lost
<1> DEFINE e == eng[r]
           i == Min(Waiting(r))
           job == e.jobs[i]
           f(h, pc) == [e EXCEPT !.jobs[i] = [job EXCEPT !.hash = h, !.pc = pc]]
<1>1. e \in Engines /\ e.jobs \in Seq(Job) /\ ops \in 0 .. MaxOps
  BY DEF TypesInv, Engines, Engine
<1>2. i \in Waiting(r)
  <2>1. Waiting(r) \in SUBSET Nat /\ Waiting(r) # {}
    <3>1. DOMAIN eng[r].jobs \subseteq Nat
      BY <1>1
    <3> QED BY <3>1 DEF Waiting, Transfer
  <2>2. \E x \in Waiting(r) : \A y \in Waiting(r) : x <= y
    BY <2>1, NatMin
  <2> QED BY <2>2, Zenon DEF Min
<1>3. i \in DOMAIN e.jobs /\ job \in Job /\ job.pc = "queued" /\ job.hash \in Contents
  <2>1. i \in DOMAIN eng[r].jobs /\ eng[r].jobs[i].pc = "queued"
    <3> HIDE DEF i
    <3> QED BY <1>2 DEF Waiting
  <2> HIDE DEF i
  <2>2. job \in Job
    BY <1>1, <2>1
  <2> QED BY <2>1, <2>2 DEF Job
<1>4. \/ /\ job.up /\ HasFile(e)
         /\ srv' = Store(srv, e.disk)
         /\ lost' = lost \ {e.disk}
         /\ Set(r, f(e.disk, "done")) /\ ops' = ops
      \/ /\ ~job.up /\ job.hash \in srv.blobs
         /\ Set(r, f(job.hash, "done")) /\ srv' = srv /\ lost' = lost /\ ops' = ops
      \/ /\ Set(r, f(job.hash, "failed")) /\ srv' = srv /\ lost' = lost /\ (ops' = ops \/ Fault)
  BY DEF Transfer
<1>5. UNCHANGED <<save, missed, crossed, overtaken>>
  BY DEF Transfer
<1>6. \A h \in Contents, pc \in {"done", "failed"} : f(h, pc) \in Engines /\ Ended(f(h, pc), e, i, h, pc)
  BY <1>1, <1>3, EndedIs
<1>7. missed \subseteq Replicas /\ crossed \subseteq Replicas /\ overtaken \subseteq Replicas /\ lost \subseteq Hashes
  BY DEF TypesInv, FilesType
<1>8. ops' \in 0 .. MaxOps /\ ops' \in {ops, ops + 1}
  BY <1>1, <1>4, OpIs
<1> HIDE DEF i, job, f, e
<1>9. CASE /\ job.up /\ HasFile(e) /\ srv' = Store(srv, e.disk) /\ lost' = lost \ {e.disk}
           /\ Set(r, f(e.disk, "done")) /\ ops' = ops
  <2>1. e.disk \in Hashes /\ e.disk \in Contents
    BY <1>1, <1>9 DEF HasFile, Engines, Engine, Contents
  <2>2. /\ srv' \in Server /\ srv'.blobs = {k \in Hashes : srv'.row[k] # "none"}
        /\ srv'.blobs = srv.blobs \cup {e.disk} /\ srv'.file = srv.file
    BY <1>9, <2>1, StoreIs
  <2>3. TypesInv' /\ Only(r) /\ eng'[r] = f(e.disk, "done")
    BY <1>5, <1>6, <1>7, <1>8, <1>9, <2>1, <2>2, EngineMoves
  <2> QED BY <1>3, <1>5, <1>6, <1>8, <1>9, <2>1, <2>2, <2>3 DEF e, job
<1>10. CASE /\ ~job.up /\ job.hash \in srv.blobs
            /\ Set(r, f(job.hash, "done")) /\ srv' = srv /\ lost' = lost /\ ops' = ops
  <2>1. TypesInv' /\ Only(r) /\ eng'[r] = f(job.hash, "done")
    BY <1>3, <1>5, <1>6, <1>7, <1>8, <1>10, EngineMoves
  <2> QED BY <1>3, <1>5, <1>6, <1>8, <1>10, <2>1 DEF e, job
<1>11. CASE Set(r, f(job.hash, "failed")) /\ srv' = srv /\ lost' = lost
  <2>1. TypesInv' /\ Only(r) /\ eng'[r] = f(job.hash, "failed")
    BY <1>3, <1>5, <1>6, <1>7, <1>8, <1>11, EngineMoves
  <2> QED BY <1>3, <1>5, <1>6, <1>8, <1>11, <2>1 DEF e, job
<1> QED BY <1>4, <1>9, <1>10, <1>11

LEMMA FinishDoes ==
  ASSUME TypesInv, NEW r \in Replicas, Finish(r)
  PROVE  LET e == eng[r] f == eng'[r] job == e.jobs[1] IN
         /\ TypesInv' /\ Only(r) /\ UNCHANGED <<srv, save, ops, lost, crossed, overtaken>>
         /\ e.jobs # <<>> /\ f.jobs = Tail(e.jobs) /\ ~f.flight
         /\ f.out = e.out /\ f.shaken = e.shaken /\ f.known \in {e.known, Value(f.file), Absent} /\ f.fs = e.fs
         /\ \/ /\ job.up /\ job.pc = "done" /\ f.disk = e.disk /\ f.event = e.event /\ f.cache = job.hash
               /\ f.pending = e.pending /\ Value(f.file) = job.hash
               /\ \/ f.file = e.file
                  \/ f.file.at = Now /\ Value(e.file) # job.hash
            \/ /\ ~job.up /\ job.pc = "done" /\ f.disk = job.hash /\ f.cache = job.hash /\ f.event
               /\ f.pending = e.pending /\ f.file = e.file
            \/ /\ job.pc = "failed" /\ f.disk = e.disk /\ f.cache = e.cache /\ f.event = e.event /\ f.file = e.file
               /\ e.pending # Absent => f.pending # Absent
               /\ ~job.up => f.pending = e.pending
         /\ missed' = IF f.pending = Absent /\ f.disk # Value(f.file) /\ (job.pc = "failed" \/ ~job.up)
                      THEN missed \cup {r} ELSE missed
<1> DEFINE e == eng[r]
           job == e.jobs[1]
           g == Landed(e)
           f == IF job.pc = "failed" THEN Failed(g, job.up)
                ELSE IF job.up THEN Uploaded(g, job.hash) ELSE Downloaded(g, job.hash)
<1>1. e \in Engines /\ e.jobs \in Seq(Job) /\ e.jobs # <<>> /\ Now <= MaxStamp
  BY DEF TypesInv, Engines, Engine, Finish
<1>2. Head(e.jobs) = job /\ job \in Job /\ Tail(e.jobs) \in Seq(Job)
  BY <1>1
<1>3. job.pc \in {"done", "failed"} /\ job.up \in BOOLEAN /\ job.hash \in Contents
  BY <1>2 DEF Finish, Job
<1>4. /\ Set(r, f) /\ UNCHANGED <<srv, save, ops, lost, crossed, overtaken>>
      /\ missed' = IF f.pending = Absent /\ f.disk # Value(f.file) /\ (job.pc = "failed" \/ ~job.up)
                   THEN missed \cup {r} ELSE missed
  BY <1>2 DEF Finish
<1> HIDE DEF e, job
<1> DEFINE rest == Tail(e.jobs)
<1>5. /\ g \in Engines /\ g.jobs = rest /\ ~g.flight /\ g.out = e.out /\ g.shaken = e.shaken
      /\ g.known = e.known /\ g.fs = e.fs /\ g.disk = e.disk /\ g.event = e.event /\ g.cache = e.cache
      /\ g.file = e.file /\ g.pending = e.pending
  <2> HIDE DEF rest
  <2>1. g = [e EXCEPT !.jobs = rest, !.flight = FALSE] /\ rest \in Seq(Job)
    BY <1>2 DEF Landed, rest
  <2> QED BY <1>1, <2>1 DEF Engines, Engine
<1> HIDE DEF g, rest
<1> DEFINE Is(x) == /\ x \in Engines /\ x.jobs = rest /\ ~x.flight /\ x.out = e.out /\ x.shaken = e.shaken
                    /\ x.known \in {e.known, Value(x.file), Absent} /\ x.fs = e.fs
<1>6. CASE job.pc = "failed"
  <2> DEFINE x == Failed(g, job.up)
  <2>1. /\ Is(x) /\ x.disk = e.disk /\ x.cache = e.cache /\ x.event = e.event /\ x.file = e.file
        /\ e.pending # Absent => x.pending # Absent
        /\ ~job.up => x.pending = e.pending
    <3>1. CASE job.up /\ g.cache # Absent
      <4>1. x = [g EXCEPT !.pending = g.cache]
        BY <3>1 DEF Failed
      <4> HIDE DEF x
      <4> QED BY <1>5, <3>1, <4>1 DEF Engines, Engine
    <3>2. CASE ~(job.up /\ g.cache # Absent)
      BY <1>5, <3>2 DEF Failed
    <3> QED BY <3>1, <3>2
  <2>2. f = x
    BY <1>6
  <2> HIDE DEF x, f
  <2>3. TypesInv' /\ Only(r) /\ eng'[r] = f
    BY <1>4, <2>1, <2>2, EngineMoves DEF TypesInv, FilesType
  <2> QED BY <1>1, <1>4, <1>6, <2>1, <2>2, <2>3 DEF e, job, rest
<1>7. CASE job.pc = "done" /\ job.up
  <2> DEFINE s == SetFile(g, job.hash)
             x == Uploaded(g, job.hash)
  <2>1. Written(job.hash) \in Cell(Contents) /\ Written(job.hash).at = Now /\ Value(Written(job.hash)) = job.hash
    BY <1>1, <1>3, WrittenIs
  <2>2. /\ Is(s) /\ s.disk = e.disk /\ s.event = e.event /\ s.pending = e.pending
        /\ Value(s.file) = job.hash
        /\ \/ s.file = e.file
           \/ s.file.at = Now /\ Value(e.file) # job.hash
    <3> DEFINE w == Written(job.hash)
    <3> HIDE DEF w
    <3>1. CASE Value(g.file) = job.hash
      BY <1>5, <3>1 DEF SetFile
    <3>2. CASE Value(g.file) # job.hash
      <4>1. s = [g EXCEPT !.file = w]
        BY <3>2 DEF SetFile, w
      <4>2. w \in Cell(Contents) /\ w.at = Now /\ Value(w) = job.hash
        BY <2>1 DEF w
      <4> HIDE DEF s
      <4> QED BY <1>5, <3>2, <4>1, <4>2 DEF Engines, Engine
    <3> QED BY <3>1, <3>2
  <2> DEFINE p == Persisted(s)
  <2>3. x = [p EXCEPT !.cache = job.hash]
    BY DEF Uploaded
  <2> HIDE DEF s, x
  <2>7. /\ Is(p) /\ p.disk = e.disk /\ p.event = e.event /\ p.pending = e.pending /\ p.file = s.file
    BY <2>2, PersistedIs
  <2> HIDE DEF p
  <2>4. /\ Is(x) /\ x.disk = e.disk /\ x.event = e.event /\ x.pending = e.pending /\ x.cache = job.hash
        /\ Value(x.file) = job.hash
        /\ \/ x.file = e.file
           \/ x.file.at = Now /\ Value(e.file) # job.hash
    BY <1>3, <2>2, <2>3, <2>7 DEF Engines, Engine
  <2>5. f = x
    BY <1>7 DEF x
  <2> HIDE DEF f
  <2>6. TypesInv' /\ Only(r) /\ eng'[r] = f
    BY <1>4, <2>4, <2>5, EngineMoves DEF TypesInv, FilesType
  <2> QED BY <1>1, <1>4, <1>7, <2>4, <2>5, <2>6 DEF e, job, rest
<1>8. CASE job.pc = "done" /\ ~job.up
  <2> DEFINE x == Downloaded(g, job.hash)
  <2>1. x = [g EXCEPT !.disk = job.hash, !.cache = job.hash, !.event = TRUE]
    BY DEF Downloaded
  <2> HIDE DEF x
  <2>2. Is(x) /\ x.disk = job.hash /\ x.cache = job.hash /\ x.event /\ x.pending = e.pending /\ x.file = e.file
    BY <1>3, <1>5, <2>1 DEF Engines, Engine
  <2>3. f = x
    BY <1>8 DEF x
  <2> HIDE DEF f
  <2>4. TypesInv' /\ Only(r) /\ eng'[r] = f
    BY <1>4, <2>2, <2>3, EngineMoves DEF TypesInv, FilesType
  <2> QED BY <1>1, <1>4, <1>8, <2>2, <2>3, <2>4 DEF e, job, rest
<1> QED BY <1>3, <1>6, <1>7, <1>8

LEMMA RestartDoes ==
  ASSUME TypesInv, NEW r \in Replicas, Restart(r)
  PROVE  /\ TypesInv' /\ Only(r) /\ Started(eng'[r], eng[r]) /\ UNCHANGED <<srv, save, lost, crossed, overtaken>>
         /\ ops' = ops + 1
         /\ missed' = IF eng[r].disk # Value(eng[r].file) THEN missed \cup {r} ELSE missed
<1> DEFINE f == Opened(eng[r])
<1>1. Started(f, eng[r])
  BY OpenedStarts DEF TypesInv
<1>2. Set(r, f) /\ ops' \in 0 .. MaxOps /\ ops' = ops + 1
  BY OpIs DEF Restart
<1> HIDE DEF f
<1>3. TypesInv' /\ Only(r) /\ eng'[r] = f
  BY <1>1, <1>2, EngineMoves DEF Restart, TypesInv, FilesType, Started
<1> QED BY <1>1, <1>2, <1>3 DEF Restart

-----------------------------------------------------------------------------
(* The server *)

LEMMA ServerMoves ==
  ASSUME TypesInv, eng' = eng, seen' = seen, ops' \in 0 .. MaxOps,
         srv' = srv \/ (srv' \in Server /\ srv'.blobs = {h \in Hashes : srv'.row[h] # "none"}),
         save' \in [Saves -> Save], UNCHANGED <<missed, crossed, overtaken>>, lost' \subseteq Hashes
  PROVE  TypesInv'
BY TypesFrom DEF TypesInv, FilesType

\* Another entry, with the blobs and their rows as they are.
LEMMA EntryIs ==
  ASSUME TypesInv, NEW s, s \in Server, s.blobs = srv.blobs, s.row = srv.row
  PROVE  s.blobs = {h \in Hashes : s.row[h] # "none"}
BY DEF TypesInv, FilesType

LEMMA SendDoes ==
  ASSUME TypesInv, NEW r \in Replicas, Send(r)
  PROVE  /\ TypesInv' /\ UNCHANGED <<eng, save, ops, seen, told>>
         /\ srv'.blobs = srv.blobs /\ srv'.file = MergeCells(srv.file, eng[r].file)
<1> DEFINE entry == MergeCells(srv.file, eng[r].file)
           kept == MergeCells(srv.kept, eng[r].kept)
           names == MergeCells(srv.names, eng[r].names)
<1>1. entry \in Cell(Contents) /\ kept \in Cell({TRUE, Absent}) /\ names \in Cell(BOOLEAN)
  BY MergeIs DEF TypesInv, FilesType, Server, Engines, Engine
<1>2. srv' = [srv EXCEPT !.names = names, !.file = entry, !.kept = kept] /\ srv \in Server
  BY DEF Send, TypesInv, FilesType
<1> HIDE DEF entry, kept, names
<1>3. srv' \in Server /\ srv'.blobs = srv.blobs /\ srv'.row = srv.row /\ srv'.file = entry
  BY <1>1, <1>2 DEF Server
<1>4. TypesInv'
  BY <1>3, EntryIs, ServerMoves DEF Send, told, TypesInv, FilesType
<1> QED BY <1>3, <1>4 DEF Send, entry

LEMMA CheckSaveDoes ==
  ASSUME TypesInv, NEW t \in Saves, CheckSave(t)
  PROVE  /\ TypesInv' /\ UNCHANGED <<eng, srv, seen, told>> /\ ops' = ops + 1
         /\ save'[t].hash = ops + 1 /\ save'[t].pc = "checked"
         /\ \A u \in Saves \ {t} : save'[u] = save[u]
<1>1. ops' \in 0 .. MaxOps /\ ops' = ops + 1 /\ ops + 1 \in Contents
  BY OpIs DEF CheckSave, Op
<1>2. [pc |-> "checked", hash |-> ops + 1] \in Save
  BY <1>1 DEF Save
<1>3. /\ save' \in [Saves -> Save] /\ save'[t] = [pc |-> "checked", hash |-> ops + 1]
      /\ \A u \in Saves \ {t} : save'[u] = save[u]
  BY <1>2 DEF CheckSave, TypesInv, FilesType
<1>4. TypesInv'
  BY <1>1, <1>3, ServerMoves DEF CheckSave, told, TypesInv, FilesType
<1> QED BY <1>1, <1>3, <1>4 DEF CheckSave

\* A save that is under way has a hash.
SavesHash == \A t \in Saves : save[t].pc # "idle" => save[t].hash \in Hashes

LEMMA StoreSaveDoes ==
  ASSUME TypesInv, SavesHash, NEW t \in Saves, StoreSave(t)
  PROVE  /\ TypesInv' /\ UNCHANGED <<eng, ops, seen, missed, crossed, overtaken>>
         /\ save'[t].hash = save[t].hash /\ save'[t].pc = "stored"
         /\ \A u \in Saves \ {t} : save'[u] = save[u]
         /\ srv'.file = srv.file /\ srv'.blobs = srv.blobs \cup {save[t].hash} /\ lost' = lost \ {save[t].hash}
<1>1. save[t].hash \in Hashes /\ save \in [Saves -> Save]
  BY DEF StoreSave, SavesHash, TypesInv, FilesType
<1>2. /\ srv' \in Server /\ srv'.blobs = {k \in Hashes : srv'.row[k] # "none"}
      /\ srv'.blobs = srv.blobs \cup {save[t].hash} /\ srv'.file = srv.file
  BY <1>1, StoreIs DEF StoreSave
<1>3. /\ save' \in [Saves -> Save] /\ save'[t].hash = save[t].hash /\ save'[t].pc = "stored"
      /\ \A u \in Saves \ {t} : save'[u] = save[u]
  BY <1>1 DEF StoreSave, Save
<1>4. TypesInv'
  BY <1>1, <1>2, <1>3, ServerMoves DEF StoreSave, TypesInv, FilesType
<1> QED BY <1>2, <1>3, <1>4 DEF StoreSave

LEMMA CommitSaveDoes ==
  ASSUME TypesInv, NEW t \in Saves, CommitSave(t)
  PROVE  /\ TypesInv' /\ UNCHANGED <<eng, ops, seen, missed, lost, crossed, overtaken>>
         /\ save[t].pc = "stored" /\ save'[t].pc = "idle" /\ save'[t].hash = Absent
         /\ \A u \in Saves \ {t} : save'[u] = save[u]
         /\ srv'.blobs = srv.blobs
         /\ Value(srv'.file) = save[t].hash
         /\ srv'.file = srv.file \/ srv'.file.at = Now
<1>1. save[t].hash \in Contents /\ save \in [Saves -> Save] /\ srv \in Server /\ Now <= MaxStamp
  BY DEF CommitSave, TypesInv, FilesType, Save
<1> DEFINE h == save[t].hash
           entry == Written(h)
           kept == Written(TRUE)
<1>2. entry \in Cell(Contents) /\ entry.at = Now /\ Value(entry) = h /\ kept \in Cell({TRUE, Absent})
  BY <1>1, WrittenIs
<1>3. srv' = IF Value(srv.file) = h /\ Kept(srv) THEN srv ELSE [srv EXCEPT !.file = entry, !.kept = kept]
  BY DEF CommitSave, PutKept
<1> HIDE DEF entry, kept
<1>4. /\ srv' \in Server /\ srv'.blobs = srv.blobs /\ srv'.row = srv.row
      /\ Value(srv'.file) = h
      /\ srv'.file = srv.file \/ srv'.file.at = Now
  BY <1>1, <1>2, <1>3 DEF Server
<1>5. [pc |-> "idle", hash |-> Absent] \in Save
  BY DEF Save, Contents
<1>6. /\ save' \in [Saves -> Save] /\ save'[t].pc = "idle" /\ save'[t].hash = Absent
      /\ \A u \in Saves \ {t} : save'[u] = save[u]
  BY <1>1, <1>5 DEF CommitSave
<1>7. TypesInv'
  BY <1>4, <1>6, EntryIs, ServerMoves DEF CommitSave, TypesInv, FilesType
<1> QED BY <1>4, <1>6, <1>7 DEF CommitSave

LEMMA DeleteAtServerDoes ==
  ASSUME TypesInv, DeleteAtServer
  PROVE  /\ TypesInv' /\ UNCHANGED <<eng, save, seen, told>> /\ ops' = ops + 1
         /\ srv'.blobs = srv.blobs /\ Value(srv'.file) = Absent /\ srv'.file.at = srv.file.at
<1> DEFINE entry == Removed(srv.file)
           kept == Removed(srv.kept)
<1>1. srv \in Server /\ ops' \in 0 .. MaxOps /\ ops' = ops + 1
  BY OpIs DEF DeleteAtServer, Op, TypesInv, FilesType
<1>2. entry \in Cell(Contents) /\ Value(entry) = Absent /\ entry.at = srv.file.at
  BY <1>1, RemovedIs DEF Server
<1>3. kept \in Cell({TRUE, Absent})
  BY <1>1 DEF Removed, Server, Cell
<1>4. srv' = [srv EXCEPT !.file = entry, !.kept = kept]
  BY <1>1 DEF DeleteAtServer, Forget, Server
<1> HIDE DEF entry, kept
<1>5. srv' \in Server /\ srv'.blobs = srv.blobs /\ srv'.row = srv.row /\ srv'.file = entry
  BY <1>1, <1>2, <1>3, <1>4 DEF Server
<1>6. TypesInv'
  BY <1>1, <1>5, EntryIs, ServerMoves DEF DeleteAtServer, told, TypesInv, FilesType
<1> QED BY <1>1, <1>2, <1>5, <1>6 DEF DeleteAtServer

LEMMA SweepDoes ==
  ASSUME TypesInv, Sweep
  PROVE  /\ TypesInv' /\ UNCHANGED <<eng, save, seen, missed, crossed, overtaken>> /\ ops' = ops + 1
         /\ srv'.blobs = srv.blobs \ Purged /\ srv'.file = srv.file
         /\ lost' = lost \cup (Purged \cap Promised)
<1> DEFINE blobs == srv.blobs \ Purged
           row == [h \in Hashes |-> IF srv.row[h] = "none" \/ h \in Purged THEN "none"
                                    ELSE IF h \in Live THEN "live"
                                    ELSE IF srv.row[h] = "live" THEN "marked" ELSE srv.row[h]]
<1>1. srv \in Server /\ ops' \in 0 .. MaxOps /\ ops' = ops + 1 /\ lost \subseteq Hashes
      /\ srv.blobs = {k \in Hashes : srv.row[k] # "none"}
  BY OpIs DEF Sweep, TypesInv, FilesType
<1>2. srv.row \in [Hashes -> {"none", "live", "marked", "aged"}] /\ srv.blobs \in SUBSET Hashes
  BY <1>1 DEF Server
<1>3. Purged \subseteq Hashes
  BY DEF Purged
<1>4. row \in [Hashes -> {"none", "live", "marked", "aged"}] /\ blobs \in SUBSET Hashes
  BY <1>2
<1>5. blobs = {k \in Hashes : row[k] # "none"}
  BY <1>1, <1>2
<1>6. srv' = [srv EXCEPT !.blobs = blobs, !.row = row]
  BY DEF Sweep
<1>7. lost' = lost \cup (Purged \cap Promised)
  BY DEF Sweep
<1> HIDE DEF blobs, row
<1>8. srv' \in Server /\ srv'.blobs = blobs /\ srv'.row = row /\ srv'.file = srv.file
  BY <1>1, <1>4, <1>6 DEF Server
<1>9. TypesInv'
  BY <1>1, <1>3, <1>5, <1>7, <1>8, ServerMoves DEF Sweep, TypesInv, FilesType
<1> QED BY <1>1, <1>7, <1>8, <1>9 DEF Sweep, blobs

LEMMA AgeDoes ==
  ASSUME TypesInv, Age
  PROVE  TypesInv' /\ UNCHANGED <<eng, save, ops, seen, told>> /\ srv'.blobs = srv.blobs /\ srv'.file = srv.file
<1> DEFINE row == [h \in Hashes |-> IF srv.row[h] = "marked" THEN "aged" ELSE srv.row[h]]
<1>1. srv \in Server /\ srv.blobs = {k \in Hashes : srv.row[k] # "none"}
  BY DEF TypesInv, FilesType
<1>2. srv.row \in [Hashes -> {"none", "live", "marked", "aged"}]
  BY <1>1 DEF Server
<1>3. row \in [Hashes -> {"none", "live", "marked", "aged"}] /\ srv.blobs = {k \in Hashes : row[k] # "none"}
  BY <1>1, <1>2
<1>4. srv' = [srv EXCEPT !.row = row]
  BY DEF Age
<1> HIDE DEF row
<1>5. srv' \in Server /\ srv'.blobs = srv.blobs /\ srv'.row = row /\ srv'.file = srv.file
  BY <1>1, <1>3, <1>4 DEF Server
<1>6. TypesInv'
  BY <1>3, <1>5, ServerMoves DEF Age, told, TypesInv, FilesType
<1> QED BY <1>5, <1>6 DEF Age

-----------------------------------------------------------------------------
(* The ways a step can go *)

\* The engine works on: its file stays, and its entry stays or goes.
Moved(f, e) ==
  /\ f.file.at = e.file.at /\ Value(f.file) \in {Value(e.file), Absent}
  /\ f.disk = e.disk /\ f.known \in {e.known, Absent} /\ Grows(f, e)
  /\ Stale(f) => Stale(e)
  /\ Intact(e) => Intact(f)
  /\ Caught(e) => Caught(f)
Moves(r) == Only(r) /\ Moved(eng'[r], eng[r]) /\ UNCHANGED <<srv, save, lost>>

\* It takes in the server's entry: the file may go, or is to be fetched.
Took(f, g) ==
  /\ Grows(f, g) /\ f.file = g.file /\ f.known \in {Value(g.file), Absent}
  /\ f.disk # g.disk => f.disk = Absent /\ LocalHash(g) = g.known /\ g.known # Absent
  /\ Stale(f) => f.disk = g.disk /\ Stale(g)
  /\ Intact(g) /\ (f.disk = g.disk \/ ~g.flight) => Intact(f)
  /\ Intact(f) => Caught(f)
  /\ Value(g.file) # Absent /\ g.jobs = <<>> =>
       \/ g.flight \/ g.pending # Absent \/ LocalHash(g) = Value(g.file)
       \/ f.jobs # <<>> /\ ~f.jobs[1].up
Takes(r) ==
  /\ Only(r) /\ UNCHANGED <<srv, save, ops>> /\ Overtakes(r)
  /\ \E g : Got(g, eng[r]) /\ Took(eng'[r], g)

\* Its user changes the file.
Changed(f, e) ==
  /\ f.file.at = e.file.at /\ Value(f.file) \in {Value(e.file), Absent}
  /\ f.disk \in {ops + 1, Absent} /\ f.known \in {e.known, Value(e.file), Absent} /\ Grows(f, e)
  /\ Intact(e) /\ ~e.flight => Intact(f)
  /\ Caught(f)
Changes(r) ==
  /\ Only(r) /\ Changed(eng'[r], eng[r]) /\ UNCHANGED <<srv, save, lost>>
  /\ ops' = ops + 1 /\ (eng[r].flight => r \in crossed')

LEMMA SameGrows ==
  ASSUME NEW e \in Engines, NEW f, f.jobs = e.jobs
  PROVE  Grows(f, e)
BY DEF Grows, Engines, Engine

LEMMA WorksMoved ==
  ASSUME NEW e \in Engines, NEW f, Works(f, e)
  PROVE  Moved(f, e)
BY DEF Works, Same, Moved

LEMMA EngineWays ==
  ASSUME TypesInv, NEW r \in Replicas,
         \/ Watch(r) \/ EditNote(r) \/ TickEngine(r) \/ Connect(r) \/ Disconnect(r)
  PROVE  TypesInv' /\ Moves(r)
<1> DEFINE e == eng[r]
           f == eng'[r]
<1>0. e \in Engines
  BY DEF TypesInv
<1>1. CASE Watch(r)
  <2>1. TypesInv' /\ Only(r) /\ Leaves(f, e) /\ f.disk = e.disk /\ f.fs /\ f.cache = Absent
    BY <1>1, WatchDoes
  <2>2. Grows(f, e)
    BY <1>0, <2>1, SameGrows DEF Leaves
  <2>3. Moved(f, e)
    BY <2>1, <2>2 DEF Moved, Leaves, Stale, Intact, Caught, Busy
  <2> QED BY <1>1, <2>1, <2>3 DEF Moves, Watch, told
<1>2. CASE EditNote(r)
  BY <1>0, <1>2, EditNoteDoes, WorksMoved DEF Moves, EditNote, told
<1>3. CASE TickEngine(r)
  <2>1. TypesInv' /\ Only(r) /\ Ticked(f, e) /\ UNCHANGED <<srv, save, ops, told>>
    BY <1>3, TickEngineDoes
  <2>2. Value(Removed(e.file)) = Absent /\ Removed(e.file).at = e.file.at
    BY <1>0, RemovedIs DEF Engines, Engine
  <2>3. Moved(f, e)
    BY <2>1, <2>2 DEF Ticked, Moved
  <2> QED BY <2>1, <2>3 DEF Moves, told
<1>4. CASE Connect(r)
  <2>1. /\ TypesInv' /\ Only(r) /\ UNCHANGED <<srv, save, ops, told>> /\ f.shaken = {}
        /\ \E g \in Engines :
             /\ Works(f, g)
             /\ g.file = e.file /\ g.known = e.known /\ g.jobs = e.jobs /\ g.flight = e.flight
             /\ g.pending = e.pending /\ g.disk = e.disk /\ g.event = e.event /\ g.cache = e.cache
    BY <1>4, ConnectDoes
  <2>2. PICK g \in Engines :
             /\ Works(f, g)
             /\ g.file = e.file /\ g.known = e.known /\ g.jobs = e.jobs /\ g.flight = e.flight
             /\ g.pending = e.pending /\ g.disk = e.disk /\ g.event = e.event /\ g.cache = e.cache
    BY <2>1
  <2>3. Grows(f, e)
    BY <2>2 DEF Works, Grows
  <2>4. (Stale(f) => Stale(e)) /\ (Intact(e) => Intact(f))
    <3>1. (Stale(g) => Stale(e)) /\ (Intact(e) => Intact(g))
      BY <2>2 DEF Stale, Intact
    <3> QED BY <2>2, <3>1 DEF Works
  <2>5. Caught(f)
    BY <2>1 DEF Caught, Busy
  <2>6. Moved(f, e)
    BY <2>2, <2>3, <2>4, <2>5 DEF Moved, Works, Same
  <2> QED BY <2>1, <2>6 DEF Moves, told
<1>5. CASE Disconnect(r)
  <2>1. TypesInv' /\ Only(r) /\ f.shaken = {} /\ ~f.out /\ Still(f, e) /\ f.file = e.file
    BY <1>5, DisconnectDoes
  <2>2. Grows(f, e)
    BY <1>0, <2>1, SameGrows DEF Still
  <2>3. Moved(f, e)
    BY <2>1, <2>2 DEF Still, Moved, Stale, Intact, Caught, Busy
  <2> QED BY <1>5, <2>1, <2>3 DEF Moves, Disconnect, told
<1> QED BY <1>1, <1>2, <1>3, <1>4, <1>5

LEMMA DocumentWays ==
  ASSUME TypesInv, NEW r \in Replicas, Handshake(r) \/ Receive(r)
  PROVE  TypesInv' /\ (Moves(r) \/ Takes(r))
<1> DEFINE e == eng[r]
           f == eng'[r]
<1>0. e \in Engines /\ Overtakes(r)
  BY DEF TypesInv, Handshake, Receive
<1>1. /\ TypesInv' /\ Only(r) /\ e.out /\ UNCHANGED <<srv, save, ops>>
      /\ \/ Alike(f, e) /\ ("vault" \in f.shaken => "vault" \in e.shaken)
         \/ \E g, u : Got(g, e) /\ Vaulted(u, g) /\ Alike(f, u)
  BY HandshakeDoes, ReceiveDoes
<1>2. CASE Alike(f, e) /\ ("vault" \in f.shaken => "vault" \in e.shaken)
  <2>1. Grows(f, e)
    BY <1>0, <1>2, SameGrows DEF Alike, Still
  <2>2. Moved(f, e)
    BY <1>2, <2>1 DEF Moved, Alike, Still, Stale, Intact, Caught, Busy
  <2> QED BY <1>0, <1>1, <2>2 DEF Moves, Overtakes
<1>3. CASE \E g, u : Got(g, e) /\ Vaulted(u, g) /\ Alike(f, u)
  <2>1. PICK g, u : Got(g, e) /\ Vaulted(u, g) /\ Alike(f, u)
    BY <1>3
  <2>2. Grows(f, g)
    BY <2>1 DEF Vaulted, Grows, Alike, Still
  <2>3. (Stale(f) <=> Stale(u)) /\ (Intact(f) <=> Intact(u)) /\ LocalHash(f) = LocalHash(u)
    BY <2>1 DEF Alike, Still, Stale, Intact, LocalHash
  <2>4. ASSUME Intact(f) PROVE Caught(f)
    <3>1. Value(f.file) # Absent => f.flight \/ f.pending # Absent \/ LocalHash(f) = Value(f.file)
      BY <1>1, <2>1, <2>3 DEF Vaulted, Got, Alike, Still
    <3>2. LocalHash(f) = Value(f.file) /\ f.disk # Value(f.file) => Stale(f)
      BY DEF LocalHash, Stale
    <3> QED BY <2>4, <3>1, <3>2 DEF Intact, Caught, Busy
  <2>5. Took(f, g)
    BY <1>1, <2>1, <2>2, <2>3, <2>4 DEF Vaulted, Got, Alike, Still, Took
  <2> QED BY <1>0, <1>1, <2>1, <2>5 DEF Takes
<1> QED BY <1>1, <1>2, <1>3

LEMMA UserWays ==
  ASSUME TypesInv, NEW r \in Replicas,
         PutFile(r) \/ DeleteFile(r) \/ \E c \in {ops + 1, Absent} : Touch(r, c)
  PROVE  TypesInv' /\ Changes(r)
<1> DEFINE e == eng[r]
           f == eng'[r]
<1>0. e \in Engines /\ e.jobs \in Seq(Job)
  BY DEF TypesInv, Engines, Engine
<1>1. /\ UNCHANGED <<srv, save, lost>>
      /\ ops' = ops + 1 /\ (e.flight => r \in crossed')
  BY OpIs DEF PutFile, DeleteFile, Touch, Op
<1>2. CASE PutFile(r)
  <2>1. Caught(f)
    BY <1>2, PutFileDoes DEF Caught, Busy
  <2> QED BY <1>1, <1>2, <2>1, PutFileDoes DEF Changes, Changed
<1>3. CASE DeleteFile(r)
  <2>1. /\ TypesInv' /\ Only(r)
        /\ f.file = Removed(e.file) /\ f.known = Absent /\ f.disk = Absent
        /\ f.cache = Absent /\ f.jobs = e.jobs /\ f.flight = e.flight /\ f.pending = Absent
    BY <1>3, DeleteFileDoes
  <2>2. Value(f.file) = Absent /\ f.file.at = e.file.at
    BY <1>0, <2>1, RemovedIs DEF Engines, Engine
  <2>3. Grows(f, e)
    BY <1>0, <2>1, SameGrows
  <2>4. Caught(f) /\ (Intact(e) /\ ~e.flight => Intact(f))
    BY <1>0, <2>1, <2>2 DEF Caught, Intact, Stale
  <2> QED BY <1>1, <2>1, <2>2, <2>3, <2>4 DEF Changes, Changed
<1>4. CASE \E c \in {ops + 1, Absent} : Touch(r, c)
  <2>1. PICK c \in {ops + 1, Absent} : Touch(r, c)
    BY <1>4
  <2>2. TypesInv' /\ Only(r) /\ Leaves(f, e) /\ f.disk = c /\ f.event
    BY <2>1, TouchDoes
  <2>3. Grows(f, e)
    BY <1>0, <2>2, SameGrows DEF Leaves
  <2>4. Caught(f) /\ (Intact(e) /\ ~e.flight => Intact(f))
    BY <1>0, <2>2 DEF Caught, Busy, Intact, Stale, Leaves
  <2> QED BY <1>1, <2>2, <2>3, <2>4 DEF Changes, Changed, Leaves
<1> QED BY <1>2, <1>3, <1>4

LEMMA Ways ==
  ASSUME TypesInv, SavesHash, FilesNext
  PROVE  /\ TypesInv'
         /\ \/ \E r \in Replicas : Moves(r) \/ Takes(r) \/ Changes(r) \/ Transfer(r) \/ Finish(r) \/ Restart(r)
            \/ \E r \in Replicas : Send(r)
            \/ \E t \in Saves : CheckSave(t) \/ StoreSave(t) \/ CommitSave(t)
            \/ DeleteAtServer \/ Sweep \/ Age
<1>1. ASSUME NEW r \in Replicas,
             \/ Watch(r) \/ EditNote(r) \/ TickEngine(r) \/ Connect(r) \/ Disconnect(r)
             \/ Handshake(r) \/ Receive(r)
             \/ PutFile(r) \/ DeleteFile(r) \/ \E c \in {ops + 1, Absent} : Touch(r, c)
      PROVE TypesInv' /\ (Moves(r) \/ Takes(r) \/ Changes(r))
  BY <1>1, EngineWays, DocumentWays, UserWays
<1>2. ASSUME NEW r \in Replicas, Transfer(r) \/ Finish(r) \/ Restart(r) \/ Send(r) PROVE TypesInv'
  BY <1>2, TransferDoes, FinishDoes, RestartDoes, SendDoes
<1>3. ASSUME NEW t \in Saves, CheckSave(t) \/ StoreSave(t) \/ CommitSave(t) PROVE TypesInv'
  BY <1>3, CheckSaveDoes, StoreSaveDoes, CommitSaveDoes
<1>4. ASSUME DeleteAtServer \/ Sweep \/ Age PROVE TypesInv'
  BY <1>4, DeleteAtServerDoes, SweepDoes, AgeDoes
<1>5. \/ \E r \in Replicas :
            \/ Watch(r) \/ EditNote(r) \/ TickEngine(r) \/ Connect(r) \/ Disconnect(r)
            \/ Handshake(r) \/ Receive(r)
            \/ PutFile(r) \/ DeleteFile(r) \/ \E c \in {ops + 1, Absent} : Touch(r, c)
      \/ \E r \in Replicas : Transfer(r) \/ Finish(r) \/ Restart(r) \/ Send(r)
      \/ \E t \in Saves : CheckSave(t) \/ StoreSave(t) \/ CommitSave(t)
      \/ DeleteAtServer \/ Sweep \/ Age
  BY Zenon DEF FilesNext
<1>6. CASE \E r \in Replicas :
            \/ Watch(r) \/ EditNote(r) \/ TickEngine(r) \/ Connect(r) \/ Disconnect(r)
            \/ Handshake(r) \/ Receive(r)
            \/ PutFile(r) \/ DeleteFile(r) \/ \E c \in {ops + 1, Absent} : Touch(r, c)
  BY <1>1, <1>6, Zenon
<1>7. CASE \E r \in Replicas : Transfer(r) \/ Finish(r) \/ Restart(r) \/ Send(r)
  BY <1>2, <1>7, Zenon
<1>8. CASE \E t \in Saves : CheckSave(t) \/ StoreSave(t) \/ CommitSave(t)
  BY <1>3, <1>8, Zenon
<1>9. CASE DeleteAtServer \/ Sweep \/ Age
  BY <1>4, <1>9, Zenon
<1> QED BY <1>5, <1>6, <1>7, <1>8, <1>9, Zenon

\* What happened is not forgotten.
LEMMA Remembered ==
  ASSUME TypesInv, SavesHash, FilesNext
  PROVE  missed \subseteq missed' /\ crossed \subseteq crossed' /\ overtaken \subseteq overtaken'
         /\ ops' \in {ops, ops + 1}
<1> USE DEF told
<1>1. ASSUME NEW r \in Replicas, \/ Watch(r) \/ EditNote(r) \/ TickEngine(r) \/ Connect(r) \/ Disconnect(r) \/ Send(r)
      PROVE  missed' = missed /\ crossed' = crossed /\ overtaken' = overtaken /\ ops' \in {ops, ops + 1}
  BY <1>1 DEF Watch, EditNote, TickEngine, Connect, Disconnect, Send, Op, Fault
<1>2. ASSUME NEW r \in Replicas, \/ Handshake(r) \/ Receive(r)
                                 \/ PutFile(r) \/ DeleteFile(r) \/ \E c \in {ops + 1, Absent} : Touch(r, c)
      PROVE  missed' = missed /\ crossed' \in {crossed, crossed \cup {r}} /\ overtaken' \in {overtaken, overtaken \cup {r}}
             /\ ops' \in {ops, ops + 1}
  BY <1>2 DEF Handshake, Receive, Overtakes, PutFile, DeleteFile, Touch, Op, Fault
<1>3. ASSUME NEW r \in Replicas, Transfer(r) \/ Finish(r) \/ Restart(r)
      PROVE  missed' \in {missed, missed \cup {r}} /\ crossed' = crossed /\ overtaken' = overtaken
             /\ ops' \in {ops, ops + 1}
  BY <1>3, TransferDoes, FinishDoes, RestartDoes
<1>4. ASSUME \/ \E t \in Saves : CheckSave(t) \/ StoreSave(t) \/ CommitSave(t)
             \/ DeleteAtServer \/ Sweep \/ Age
      PROVE  missed' = missed /\ crossed' = crossed /\ overtaken' = overtaken /\ ops' \in {ops, ops + 1}
  BY <1>4, CheckSaveDoes, StoreSaveDoes, CommitSaveDoes, DeleteAtServerDoes, SweepDoes, AgeDoes
<1>5. \/ \E r \in Replicas : \/ Watch(r) \/ EditNote(r) \/ TickEngine(r) \/ Connect(r) \/ Disconnect(r) \/ Send(r)
      \/ \E r \in Replicas : \/ Handshake(r) \/ Receive(r)
                             \/ PutFile(r) \/ DeleteFile(r) \/ \E c \in {ops + 1, Absent} : Touch(r, c)
      \/ \E r \in Replicas : Transfer(r) \/ Finish(r) \/ Restart(r)
      \/ \/ \E t \in Saves : CheckSave(t) \/ StoreSave(t) \/ CommitSave(t)
         \/ DeleteAtServer \/ Sweep \/ Age
  BY Zenon DEF FilesNext
<1> QED BY <1>1, <1>2, <1>3, <1>4, <1>5

\* A save stores what it was given.
LEMMA SavesHashStep ==
  ASSUME TypesInv, SavesHash, FilesNext
  PROVE  SavesHash'
<1> USE DEF SavesHash
<1>1. ASSUME NEW r \in Replicas, Moves(r) \/ Takes(r) \/ Changes(r) \/ Transfer(r) \/ Finish(r) \/ Restart(r) \/ Send(r)
      PROVE save' = save
  BY <1>1 DEF Moves, Takes, Changes, Transfer, Finish, Restart, Send
<1>2. ASSUME NEW t \in Saves, CheckSave(t) PROVE SavesHash'
  BY <1>2, CheckSaveDoes, OpIs DEF CheckSave, Op
<1>3. ASSUME NEW t \in Saves, StoreSave(t) \/ CommitSave(t) PROVE SavesHash'
  BY <1>3, StoreSaveDoes, CommitSaveDoes DEF StoreSave
<1>4. ASSUME DeleteAtServer \/ Sweep \/ Age PROVE save' = save
  BY <1>4 DEF DeleteAtServer, Sweep, Age
<1> QED BY <1>1, <1>2, <1>3, <1>4, Ways

-----------------------------------------------------------------------------
(* A replica that has nothing left to do has what the vault names *)

\* Unless its file changed during a transfer of it, a replica knows what it has; and unless it
\* also restarted or failed a download behind its entry, it still is to look at what differs.
KeepsUp ==
  \A r \in Replicas : /\ r \notin crossed => Intact(eng[r])
                      /\ r \notin crossed \cup missed => Caught(eng[r])

LEMMA OnlyOne ==
  ASSUME NEW S, NEW s \in Seq(S), s # <<>>, Len(s) <= 1
  PROVE  Tail(s) = <<>> /\ 1 \in DOMAIN s
<1>1. Len(s) \in Nat /\ Len(s) # 0
  OBVIOUS
<1>2. Len(s) = 1
  BY <1>1
<1>3. Tail(s) \in Seq(S) /\ Len(Tail(s)) = 0
  BY <1>2
<1>4. Tail(s) = <<>>
  BY <1>3
<1>5. 1 \in DOMAIN s
  BY <1>2
<1> QED BY <1>4, <1>5

\* At most one job, and it is the flight's.
LEMMA OneJob ==
  ASSUME NEW e \in Engines, Intact(e)
  PROVE  /\ \A i \in DOMAIN e.jobs : i = 1
         /\ e.jobs # <<>> => Tail(e.jobs) = <<>> /\ 1 \in DOMAIN e.jobs /\ e.flight /\ e.pending = Absent
<1>1. e.jobs \in Seq(Job) /\ Len(e.jobs) <= 1
  BY DEF Engines, Engine, Intact
<1>2. ASSUME e.jobs # <<>> PROVE Tail(e.jobs) = <<>> /\ 1 \in DOMAIN e.jobs
  BY <1>1, <1>2, OnlyOne
<1> QED BY <1>1, <1>2 DEF Intact

LEMMA KeepsUpStep ==
  ASSUME TypesInv, SavesHash, KeepsUp, FilesNext
  PROVE  KeepsUp'
<1>0. missed \subseteq missed' /\ crossed \subseteq crossed'
  BY Remembered
<1>e. \A r \in Replicas : eng[r] \in Engines /\ eng[r].jobs \in Seq(Job) /\ eng'[r] \in Engines /\ eng'[r].jobs \in Seq(Job)
  BY Ways DEF TypesInv, Engines, Engine
<1> DEFINE Ok(r) == /\ r \notin crossed' => Intact(eng'[r])
                    /\ r \notin crossed' \cup missed' => Caught(eng'[r])
<1>1. ASSUME NEW r \in Replicas, Only(r), Ok(r) PROVE KeepsUp'
  BY <1>0, <1>1 DEF Only, KeepsUp
<1>2. ASSUME eng' = eng PROVE KeepsUp'
  BY <1>0, <1>2 DEF KeepsUp
<1>3. ASSUME NEW r \in Replicas, Moves(r) PROVE KeepsUp'
  BY <1>0, <1>1, <1>3 DEF Moves, Moved, KeepsUp
<1>4. ASSUME NEW r \in Replicas, Changes(r) PROVE KeepsUp'
  BY <1>0, <1>1, <1>4 DEF Changes, Changed, KeepsUp
<1>5. ASSUME NEW r \in Replicas, Takes(r) PROVE KeepsUp'
  <2>1. PICK g : Got(g, eng[r]) /\ Took(eng'[r], g)
    BY <1>5 DEF Takes
  <2>2. Intact(g) <=> Intact(eng[r])
    BY <2>1 DEF Got, Still, Intact, Stale
  <2>3. r \notin crossed' => eng'[r].disk = g.disk \/ ~g.flight
    BY <1>5, <2>1 DEF Takes, Overtakes, Got, Still
  <2>4. Ok(r)
    BY <1>0, <2>1, <2>2, <2>3 DEF Took, KeepsUp
  <2> QED BY <1>1, <1>5, <2>4 DEF Takes
<1>6. ASSUME NEW r \in Replicas, Transfer(r) PROVE KeepsUp'
  <2>1. PICK i \in DOMAIN eng[r].jobs :
           \/ eng[r].jobs[i].up /\ Ended(eng'[r], eng[r], i, eng[r].disk, "done")
           \/ ~eng[r].jobs[i].up /\ Ended(eng'[r], eng[r], i, eng[r].jobs[i].hash, "done")
           \/ Ended(eng'[r], eng[r], i, eng[r].jobs[i].hash, "failed")
    BY <1>6, TransferDoes
  <2>2. Caught(eng[r]) => Caught(eng'[r])
    BY <2>1 DEF Ended, Caught, Busy
  <2>3. Intact(eng[r]) => Intact(eng'[r])
    BY <1>e, <2>1 DEF Ended, Intact, Stale
  <2> QED BY <1>0, <1>1, <1>6, <2>2, <2>3, TransferDoes DEF KeepsUp
<1>7. ASSUME NEW r \in Replicas, Finish(r) PROVE KeepsUp'
  <2> DEFINE e == eng[r]
             f == eng'[r]
             job == e.jobs[1]
  <2>1. /\ Only(r) /\ UNCHANGED <<srv, save, ops, lost, crossed, overtaken>>
        /\ e.jobs # <<>> /\ f.jobs = Tail(e.jobs) /\ ~f.flight
        /\ f.out = e.out /\ f.shaken = e.shaken /\ f.fs = e.fs
        /\ \/ /\ job.up /\ job.pc = "done" /\ f.disk = e.disk /\ f.event = e.event /\ f.cache = job.hash
              /\ f.pending = e.pending /\ Value(f.file) = job.hash
           \/ /\ ~job.up /\ job.pc = "done" /\ f.disk = job.hash /\ f.cache = job.hash /\ f.event
              /\ f.pending = e.pending /\ f.file = e.file
           \/ /\ job.pc = "failed" /\ f.disk = e.disk /\ f.cache = e.cache /\ f.event = e.event /\ f.file = e.file
        /\ missed' = IF f.pending = Absent /\ f.disk # Value(f.file) /\ (job.pc = "failed" \/ ~job.up)
                     THEN missed \cup {r} ELSE missed
    BY <1>7, FinishDoes
  <2>2. Intact(e) => f.jobs = <<>> /\ Len(f.jobs) = 0 /\ (job.up /\ job.pc = "done" => job.hash = e.disk)
    <3>1. Intact(e) => f.jobs = <<>> /\ 1 \in DOMAIN e.jobs
      BY <1>e, <2>1, OneJob
    <3>2. f.jobs = <<>> => Len(f.jobs) = 0
      OBVIOUS
    <3> QED BY <3>1, <3>2 DEF Intact
  <2>3. Intact(e) => Intact(f)
    BY <1>e, <2>1, <2>2 DEF Intact, Stale
  <2>4. Intact(e) /\ r \notin missed' => Caught(f)
    BY <2>1, <2>2 DEF Caught, Busy
  <2>5. Ok(r)
    BY <1>0, <2>3, <2>4 DEF KeepsUp
  <2> QED BY <1>1, <2>1, <2>5
<1>8. ASSUME NEW r \in Replicas, Restart(r) PROVE KeepsUp'
  <2>1. Only(r) /\ Started(eng'[r], eng[r])
        /\ missed' = IF eng[r].disk # Value(eng[r].file) THEN missed \cup {r} ELSE missed
    BY <1>8, RestartDoes
  <2>2. Intact(eng'[r]) /\ (r \notin missed' => Caught(eng'[r]))
    BY <1>e, <2>1 DEF Started, Intact, Stale, Caught
  <2> QED BY <1>1, <2>1, <2>2
<1>9. ASSUME \/ \E r \in Replicas : Send(r)
             \/ \E t \in Saves : CheckSave(t) \/ StoreSave(t) \/ CommitSave(t)
             \/ DeleteAtServer \/ Sweep \/ Age
      PROVE  KeepsUp'
  BY <1>2, <1>9 DEF Send, CheckSave, StoreSave, CommitSave, DeleteAtServer, Sweep, Age
<1> QED BY <1>3, <1>4, <1>5, <1>6, <1>7, <1>8, <1>9, Ways

LEMMA KeepsUpInStep ==
  ASSUME TypesInv, KeepsUp
  PROVE  InStep
<1> SUFFICES ASSUME NEW r \in Replicas \ (missed \cup crossed), Settled(r), Value(srv.file) # Absent,
                    eng[r].disk # Value(srv.file)
             PROVE  FALSE
  BY DEF InStep
<1>1. Caught(eng[r]) /\ eng[r] \in Engines
  BY DEF KeepsUp, TypesInv
<1> QED BY <1>1 DEF Settled, Caught, Busy, Engines, Documents

-----------------------------------------------------------------------------
(* What the vault names the server has *)

Had(h) == h \in srv.blobs \cup lost \cup {Absent}
Has(h) == h \in srv'.blobs \cup lost' \cup {Absent}
Resolves ==
  /\ Had(Value(srv.file))
  /\ \A r \in Replicas :
       /\ eng[r].file.at > srv.file.at => Had(Value(eng[r].file))
       /\ \A i \in DOMAIN eng[r].jobs :
            eng[r].jobs[i].up /\ eng[r].jobs[i].pc = "done" => Had(eng[r].jobs[i].hash)
  /\ \A t \in Saves : save[t].pc = "stored" => Had(save[t].hash)

\* More work brings no upload that is done.
LEMMA GrowsDone ==
  ASSUME NEW e \in Engines, NEW f \in Engines, Grows(f, e), NEW i \in DOMAIN f.jobs,
         f.jobs[i].up, f.jobs[i].pc = "done"
  PROVE  i \in DOMAIN e.jobs /\ e.jobs[i] = f.jobs[i]
<1>1. e.jobs \in Seq(Job) /\ f.jobs \in Seq(Job)
  BY DEF Engines, Engine
<1> QED BY <1>1 DEF Grows

LEMMA TypesSay ==
  ASSUME TypesInv
  PROVE  /\ \A r \in Replicas : /\ eng[r] \in Engines /\ eng[r].jobs \in Seq(Job) /\ eng[r].file \in Cell(Contents)
                                /\ eng[r].file.at \in Nat
         /\ srv.file.at \in Nat /\ srv.file \in Cell(Contents)
<1>1. MaxStamp \in Nat /\ srv \in Server
  BY AttachmentsAssumption DEF TypesInv, FilesType
<1>2. \A c \in Cell(Contents) : c.at \in Nat
  BY <1>1 DEF Cell, Stamps
<1>3. \A r \in Replicas : eng[r] \in Engines /\ eng[r].jobs \in Seq(Job) /\ eng[r].file \in Cell(Contents)
  BY DEF TypesInv, Engines, Engine
<1>4. srv.file \in Cell(Contents)
  BY <1>1 DEF Server
<1> QED BY <1>2, <1>3, <1>4

LEMMA ResolvesStep ==
  ASSUME TypesInv, SavesHash, Resolves, FilesNext
  PROVE  Resolves'
<1>e. /\ \A r \in Replicas : /\ eng[r] \in Engines /\ eng[r].jobs \in Seq(Job) /\ eng'[r] \in Engines
                             /\ eng'[r].jobs \in Seq(Job) /\ eng[r].file \in Cell(Contents)
                             /\ eng[r].file.at \in Nat
      /\ srv.file.at \in Nat /\ srv.file \in Cell(Contents)
  <2>1. \A r \in Replicas : eng'[r] \in Engines
    BY Ways DEF TypesInv
  <2> QED BY <2>1, TypesSay DEF Engines, Engine
<1> DEFINE Ok(r) == /\ eng'[r].file.at > srv.file.at => Has(Value(eng'[r].file))
                    /\ \A i \in DOMAIN eng'[r].jobs :
                         eng'[r].jobs[i].up /\ eng'[r].jobs[i].pc = "done" => Has(eng'[r].jobs[i].hash)
<1>1. ASSUME NEW r \in Replicas, Only(r), Ok(r), srv'.file = srv.file, save' = save, \A h : Had(h) => Has(h)
      PROVE  Resolves'
  BY <1>1 DEF Only, Resolves, Has, Had
<1>a. srv' = srv /\ lost' = lost => \A h : Had(h) => Has(h)
  BY DEF Had, Has
<1>g. ASSUME NEW r \in Replicas, Grows(eng'[r], eng[r]), \A h : Had(h) => Has(h)
      PROVE  \A i \in DOMAIN eng'[r].jobs :
               eng'[r].jobs[i].up /\ eng'[r].jobs[i].pc = "done" => Has(eng'[r].jobs[i].hash)
  BY <1>e, <1>g, GrowsDone DEF Resolves
<1>2. ASSUME NEW r \in Replicas, Moves(r) \/ Changes(r) PROVE Resolves'
  <2>1. /\ Only(r) /\ srv' = srv /\ save' = save /\ lost' = lost /\ Grows(eng'[r], eng[r])
        /\ eng'[r].file.at = eng[r].file.at /\ Value(eng'[r].file) \in {Value(eng[r].file), Absent}
    BY <1>2 DEF Moves, Changes, Moved, Changed
  <2>2. eng'[r].file.at > srv.file.at => Has(Value(eng'[r].file))
    BY <1>a, <2>1 DEF Resolves, Has
  <2> QED BY <1>1, <1>a, <1>g, <2>1, <2>2
<1>3. ASSUME NEW r \in Replicas, Takes(r) PROVE Resolves'
  <2>1. PICK g : Got(g, eng[r]) /\ Took(eng'[r], g)
    BY <1>3 DEF Takes
  <2>2. /\ Only(r) /\ srv' = srv /\ save' = save /\ lost' = lost
        /\ eng'[r].file = MergeCells(eng[r].file, srv.file)
    BY <1>3, <2>1 DEF Takes, Overtakes, Got, Took
  <2>3. eng'[r].file.at > srv.file.at => Has(Value(eng'[r].file))
    BY <1>e, <1>a, <2>2, MergeIs DEF Resolves, Has
  <2>4. g.jobs = eng[r].jobs /\ g \in Engines
    BY <2>1 DEF Got, Still
  <2>5. \A i \in DOMAIN eng'[r].jobs :
          eng'[r].jobs[i].up /\ eng'[r].jobs[i].pc = "done" => Has(eng'[r].jobs[i].hash)
    BY <1>e, <1>a, <2>1, <2>2, <2>4, GrowsDone DEF Took, Resolves
  <2> QED BY <1>1, <1>a, <2>2, <2>3, <2>5
<1>4. ASSUME NEW r \in Replicas, Transfer(r) PROVE Resolves'
  <2> DEFINE e == eng[r]
             f == eng'[r]
  <2>1. Only(r) /\ save' = save /\ srv'.file = srv.file
    BY <1>4, TransferDoes
  <2>2. PICK i \in DOMAIN e.jobs :
          \/ /\ e.jobs[i].up /\ Ended(f, e, i, e.disk, "done")
             /\ srv'.blobs = srv.blobs \cup {e.disk} /\ lost' = lost \ {e.disk}
          \/ /\ ~e.jobs[i].up /\ Ended(f, e, i, e.jobs[i].hash, "done")
             /\ srv' = srv /\ lost' = lost
          \/ /\ Ended(f, e, i, e.jobs[i].hash, "failed")
             /\ srv' = srv /\ lost' = lost
    BY <1>4, TransferDoes
  <2>3. \A h : Had(h) => Has(h)
    BY <2>2 DEF Had, Has
  <2>4. f.file.at > srv.file.at => Has(Value(f.file))
    BY <2>2, <2>3 DEF Resolves, Ended
  <2>5. ASSUME NEW k \in DOMAIN f.jobs, f.jobs[k].up, f.jobs[k].pc = "done" PROVE Has(f.jobs[k].hash)
    <3>1. k \in DOMAIN e.jobs
      BY <1>e, <2>2 DEF Ended
    <3>2. CASE k # i
      BY <2>2, <2>3, <2>5, <3>1, <3>2 DEF Ended, Resolves
    <3>3. CASE k = i
      BY <2>2, <2>5, <3>3 DEF Ended, Has
    <3> QED BY <3>2, <3>3
  <2> QED BY <1>1, <2>1, <2>3, <2>4, <2>5
<1>5. ASSUME NEW r \in Replicas, Finish(r) PROVE Resolves'
  <2> DEFINE e == eng[r]
             f == eng'[r]
             job == e.jobs[1]
  <2>1. /\ Only(r) /\ srv' = srv /\ save' = save /\ lost' = lost
        /\ e.jobs # <<>> /\ f.jobs = Tail(e.jobs)
        /\ f.file = e.file \/ (job.up /\ job.pc = "done" /\ Value(f.file) = job.hash)
    BY <1>5, FinishDoes
  <2>2. e.jobs \in Seq(Job) /\ e.jobs # <<>>
    BY <1>e, <2>1
  <2>3. 1 \in DOMAIN e.jobs /\ \A i \in DOMAIN f.jobs : i + 1 \in DOMAIN e.jobs /\ f.jobs[i] = e.jobs[i + 1]
    BY <2>1, <2>2
  <2>4. Ok(r)
    BY <1>a, <2>1, <2>3 DEF Resolves
  <2> QED BY <1>1, <1>a, <2>1, <2>4
<1>6. ASSUME NEW r \in Replicas, Restart(r) PROVE Resolves'
  <2>1. Only(r) /\ Started(eng'[r], eng[r]) /\ srv' = srv /\ save' = save /\ lost' = lost
    BY <1>6, RestartDoes
  <2>2. Ok(r)
    BY <1>a, <2>1 DEF Started, Resolves
  <2> QED BY <1>1, <1>a, <2>1, <2>2
<1>7. ASSUME NEW r \in Replicas, Send(r) PROVE Resolves'
  <2>1. /\ UNCHANGED <<eng, save, lost>>
        /\ srv'.blobs = srv.blobs /\ srv'.file = MergeCells(srv.file, eng[r].file)
    BY <1>7, SendDoes DEF told
  <2>2. \A h : Had(h) => Has(h)
    BY <2>1 DEF Had, Has
  <2>3. srv'.file.at \in Nat /\ srv.file.at <= srv'.file.at /\ Has(Value(srv'.file))
    BY <1>e, <2>1, <2>2, MergeIs DEF Resolves, Has
  <2>4. \A q \in Replicas : eng[q].file.at > srv'.file.at => eng[q].file.at > srv.file.at
    BY <1>e, <2>3
  <2> QED BY <2>1, <2>2, <2>3, <2>4 DEF Resolves, Has, Had
<1>8. ASSUME NEW t \in Saves, CheckSave(t) PROVE Resolves'
  BY <1>8, CheckSaveDoes DEF told, Resolves, Had
<1>9. ASSUME NEW t \in Saves, StoreSave(t) PROVE Resolves'
  <2>1. /\ UNCHANGED <<eng>> /\ save'[t].hash = save[t].hash
        /\ \A u \in Saves \ {t} : save'[u] = save[u]
        /\ srv'.file = srv.file /\ srv'.blobs = srv.blobs \cup {save[t].hash} /\ lost' = lost \ {save[t].hash}
    BY <1>9, StoreSaveDoes
  <2>2. \A h : Had(h) => Has(h)
    BY <2>1 DEF Had, Has
  <2>3. Has(save[t].hash)
    BY <2>1 DEF Has
  <2> QED BY <2>1, <2>2, <2>3 DEF Resolves, Has, Had
<1>10. ASSUME NEW t \in Saves, CommitSave(t) PROVE Resolves'
  <2>1. /\ UNCHANGED <<eng, lost>> /\ save[t].pc = "stored" /\ save'[t].pc = "idle"
        /\ \A u \in Saves \ {t} : save'[u] = save[u]
        /\ srv'.blobs = srv.blobs /\ Value(srv'.file) = save[t].hash
        /\ srv'.file = srv.file \/ srv'.file.at = Now
    BY <1>10, CommitSaveDoes
  <2>2. \A h : Had(h) => Has(h)
    BY <2>1 DEF Had, Has
  <2>3. \A q \in Replicas : eng[q].file.at > srv'.file.at => eng[q].file.at > srv.file.at
    BY <1>e, <2>1, NowIs
  <2> QED BY <2>1, <2>2, <2>3 DEF Resolves, Has, Had
<1>11. ASSUME DeleteAtServer PROVE Resolves'
  <2>1. /\ UNCHANGED <<eng, save, lost>>
        /\ srv'.blobs = srv.blobs /\ Value(srv'.file) = Absent /\ srv'.file.at = srv.file.at
    BY <1>11, DeleteAtServerDoes DEF told
  <2>2. \A h : Had(h) => Has(h)
    BY <2>1 DEF Had, Has
  <2> QED BY <2>1, <2>2 DEF Resolves, Has, Had
<1>12. ASSUME Sweep PROVE Resolves'
  <2>1. /\ UNCHANGED <<eng, save>> /\ srv'.blobs = srv.blobs \ Purged /\ srv'.file = srv.file
        /\ lost' = lost \cup (Purged \cap Promised)
    BY <1>12, SweepDoes
  <2>2. \A h \in Promised : Had(h) => Has(h)
    BY <2>1 DEF Had, Has
  <2>3. Has(Value(srv.file))
    BY <2>1 DEF Resolves, Had, Has, Purged, Live
  <2>4. \A r \in Replicas : eng[r].file.at > srv.file.at => Value(eng[r].file) \in Promised
    BY DEF Promised
  <2>5. \A t \in Saves : save[t].pc = "stored" => save[t].hash \in Promised
    BY DEF Promised
  <2>6. ASSUME NEW r \in Replicas, NEW i \in DOMAIN eng[r].jobs, eng[r].jobs[i].up, eng[r].jobs[i].pc = "done"
        PROVE  eng[r].jobs[i].hash \in Promised
    <3>1. eng[r].jobs[i] \in Range(eng[r].jobs)
      BY DEF Range
    <3>2. eng[r].jobs[i] \in UNION {Range(eng[q].jobs) : q \in Replicas}
      BY <3>1
    <3> QED BY <2>6, <3>2 DEF Promised
  <2> QED BY <2>1, <2>2, <2>3, <2>4, <2>5, <2>6 DEF Resolves, Has, Had
<1>13. ASSUME Age PROVE Resolves'
  BY <1>13, AgeDoes DEF told, Resolves, Had
<1> QED BY <1>2, <1>3, <1>4, <1>5, <1>6, <1>7, <1>8, <1>9, <1>10, <1>11, <1>12, <1>13, Ways

-----------------------------------------------------------------------------
(* An edited copy stays *)

\* A replica has seen what it remembers as synced, what its entry names and what it fetches.
Recalls ==
  \A r \in Replicas : LET e == eng[r] IN
    /\ e.known \in seen[r] \cup {Absent}
    /\ Value(e.file) \in seen[r] \cup {Absent}
    /\ \A i \in DOMAIN e.jobs : /\ e.jobs[i].up \/ e.jobs[i].hash \in seen[r] \cup {Absent}
                                /\ ~e.jobs[i].up /\ e.jobs[i].pc = "done" => e.jobs[i].hash # Absent

LEMMA GrowsJobs ==
  ASSUME NEW e \in Engines, NEW f \in Engines, Grows(f, e), NEW i \in DOMAIN f.jobs
  PROVE  \/ i \in DOMAIN e.jobs /\ f.jobs[i] = e.jobs[i]
         \/ f.jobs[i].pc = "queued" /\ f.jobs[i].hash \in {Absent, Value(e.file)}
<1>1. e.jobs \in Seq(Job) /\ f.jobs \in Seq(Job)
  BY DEF Engines, Engine
<1> QED BY <1>1 DEF Grows

LEMMA RecallsStep ==
  ASSUME TypesInv, SavesHash, Recalls, FilesNext
  PROVE  Recalls'
<1>e. \A r \in Replicas : eng[r] \in Engines /\ eng'[r] \in Engines /\ eng[r].jobs \in Seq(Job) /\ eng'[r].jobs \in Seq(Job)
  <2>1. \A r \in Replicas : eng'[r] \in Engines
    BY Ways DEF TypesInv
  <2> QED BY <2>1 DEF TypesInv, Engines, Engine
<1>f. Absent \notin Hashes
  BY AttachmentsAssumption DEF Hashes
<1> DEFINE Ok(r) == LET f == eng'[r] IN
             /\ f.known \in seen[r] \cup {Absent, Value(f.file)}
             /\ \A i \in DOMAIN f.jobs :
                  /\ f.jobs[i].up \/ f.jobs[i].hash \in seen[r] \cup {Absent, Value(f.file)}
                  /\ ~f.jobs[i].up /\ f.jobs[i].pc = "done" => f.jobs[i].hash # Absent
<1>1. ASSUME NEW r \in Replicas, Only(r), Ok(r) PROVE Recalls'
  BY <1>1 DEF Only, Recalls
<1>2. ASSUME NEW r \in Replicas, Moves(r) \/ Changes(r) PROVE Recalls'
  <2>1. /\ Only(r) /\ Grows(eng'[r], eng[r]) /\ eng'[r].known \in {eng[r].known, Value(eng[r].file), Absent}
    BY <1>2 DEF Moves, Changes, Moved, Changed
  <2>2. \A i \in DOMAIN eng'[r].jobs :
          \/ i \in DOMAIN eng[r].jobs /\ eng'[r].jobs[i] = eng[r].jobs[i]
          \/ eng'[r].jobs[i].pc = "queued" /\ eng'[r].jobs[i].hash \in {Absent, Value(eng[r].file)}
    BY <1>e, <2>1, GrowsJobs
  <2>3. Ok(r)
    BY <2>1, <2>2 DEF Recalls
  <2> QED BY <1>1, <2>1, <2>3
<1>3. ASSUME NEW r \in Replicas, Takes(r) PROVE Recalls'
  <2>1. PICK g : Got(g, eng[r]) /\ Took(eng'[r], g)
    BY <1>3 DEF Takes
  <2>2. g.jobs = eng[r].jobs /\ g \in Engines /\ eng'[r].file = g.file /\ eng'[r].known \in {Value(g.file), Absent}
    BY <2>1 DEF Got, Still, Took
  <2>3. \A i \in DOMAIN eng'[r].jobs :
          \/ i \in DOMAIN g.jobs /\ eng'[r].jobs[i] = g.jobs[i]
          \/ eng'[r].jobs[i].pc = "queued" /\ eng'[r].jobs[i].hash \in {Absent, Value(g.file)}
    BY <1>e, <2>1, <2>2, GrowsJobs DEF Took
  <2>4. Ok(r)
    BY <2>2, <2>3 DEF Recalls
  <2> QED BY <1>1, <1>3, <2>4 DEF Takes
<1>4. ASSUME NEW r \in Replicas, Transfer(r) PROVE Recalls'
  <2> DEFINE e == eng[r]
             f == eng'[r]
  <2>1. Only(r) /\ srv.blobs \subseteq Hashes
    BY <1>4, TransferDoes DEF TypesInv, FilesType
  <2>2. PICK i \in DOMAIN e.jobs :
          \/ e.jobs[i].up /\ Ended(f, e, i, e.disk, "done")
          \/ ~e.jobs[i].up /\ e.jobs[i].hash \in srv.blobs /\ Ended(f, e, i, e.jobs[i].hash, "done")
          \/ Ended(f, e, i, e.jobs[i].hash, "failed")
    BY <1>4, TransferDoes
  <2>3. ASSUME NEW k \in DOMAIN f.jobs
        PROVE  /\ f.jobs[k].up \/ f.jobs[k].hash \in seen[r] \cup {Absent}
               /\ ~f.jobs[k].up /\ f.jobs[k].pc = "done" => f.jobs[k].hash # Absent
    <3>1. k \in DOMAIN e.jobs
      BY <1>e, <2>2 DEF Ended
    <3>2. CASE k # i
      BY <2>2, <3>1, <3>2 DEF Ended, Recalls
    <3>3. CASE k = i
      BY <1>f, <2>1, <2>2, <3>3 DEF Ended, Recalls
    <3> QED BY <3>2, <3>3
  <2>4. f.known = e.known
    BY <2>2 DEF Ended
  <2>5. Ok(r)
    BY <2>3, <2>4 DEF Recalls
  <2> QED BY <1>1, <2>1, <2>5
<1>5. ASSUME NEW r \in Replicas, Finish(r) PROVE Recalls'
  <2> DEFINE e == eng[r]
             f == eng'[r]
  <2>1. Only(r) /\ e.jobs # <<>> /\ f.jobs = Tail(e.jobs) /\ f.known \in {e.known, Value(f.file), Absent}
    BY <1>5, FinishDoes
  <2>2. e.jobs \in Seq(Job) /\ e.jobs # <<>>
    BY <1>e, <2>1
  <2>3. \A i \in DOMAIN f.jobs : i + 1 \in DOMAIN e.jobs /\ f.jobs[i] = e.jobs[i + 1]
    BY <2>1, <2>2
  <2>4. Ok(r)
    BY <2>1, <2>3 DEF Recalls
  <2> QED BY <1>1, <2>1, <2>4
<1>6. ASSUME NEW r \in Replicas, Restart(r) PROVE Recalls'
  <2>1. Only(r) /\ Started(eng'[r], eng[r])
    BY <1>6, RestartDoes
  <2>2. Ok(r)
    BY <2>1 DEF Started, Recalls
  <2> QED BY <1>1, <2>1, <2>2
<1>7. ASSUME \/ \E r \in Replicas : Send(r)
             \/ \E t \in Saves : CheckSave(t) \/ StoreSave(t) \/ CommitSave(t)
             \/ DeleteAtServer \/ Sweep \/ Age
      PROVE  Recalls'
  <2>1. UNCHANGED <<eng, seen>>
    BY <1>7 DEF Send, CheckSave, StoreSave, CommitSave, DeleteAtServer, Sweep, Age
  <2> QED BY <2>1 DEF Recalls
<1> QED BY <1>2, <1>3, <1>4, <1>5, <1>6, <1>7, Ways

LEMMA EditedCopyStays ==
  ASSUME TypesInv, SavesHash, KeepsUp, Recalls, FilesNext, NEW r \in Replicas \ crossed,
         ops' = ops, eng'[r].disk = Absent, ~eng[r].event
  PROVE  eng[r].disk \in seen[r] \cup {Absent}
<1>e. eng[r] \in Engines /\ eng[r].jobs \in Seq(Job) /\ ops \in Nat
  <2>1. ops \in 0 .. MaxOps /\ MaxOps \in Nat
    BY AttachmentsAssumption DEF TypesInv
  <2>2. ops \in Nat
    BY <2>1
  <2> QED BY <2>2 DEF TypesInv, Engines, Engine
<1>1. CASE eng'[r].disk = eng[r].disk
  BY <1>1
<1>2. ASSUME NEW q \in Replicas, Only(q), q # r PROVE eng'[r].disk = eng[r].disk
  BY <1>2 DEF Only
<1>3. ASSUME NEW q \in Replicas, Changes(q) PROVE FALSE
  BY <1>3, <1>e DEF Changes
<1>4. ASSUME NEW q \in Replicas, Moves(q) \/ Transfer(q) \/ Restart(q) PROVE eng'[r].disk = eng[r].disk
  <2>1. Only(q)
    BY <1>4, TransferDoes, RestartDoes DEF Moves
  <2>2. eng'[q].disk = eng[q].disk
    <3>1. CASE Moves(q)
      BY <3>1 DEF Moves, Moved
    <3>2. CASE Transfer(q)
      BY <3>2, TransferDoes DEF Ended
    <3>3. CASE Restart(q)
      BY <3>3, RestartDoes DEF Started
    <3> QED BY <1>4, <3>1, <3>2, <3>3
  <2> QED BY <1>2, <2>1, <2>2
<1>5. ASSUME Takes(r), eng'[r].disk # eng[r].disk PROVE eng[r].disk \in seen[r] \cup {Absent}
  <2>1. PICK g : Got(g, eng[r]) /\ Took(eng'[r], g)
    BY <1>5 DEF Takes
  <2>2. LocalHash(g) = eng[r].known /\ eng[r].known # Absent /\ LocalHash(g) = LocalHash(eng[r])
    BY <1>5, <2>1 DEF Got, Still, Took, LocalHash
  <2>3. LocalHash(eng[r]) = eng[r].disk
    BY DEF KeepsUp, Intact, Stale, LocalHash
  <2> QED BY <2>2, <2>3 DEF Recalls
<1>6. ASSUME Finish(r) PROVE eng'[r].disk = eng[r].disk
  <2>1. 1 \in DOMAIN eng[r].jobs
    BY <1>6, <1>e, FinishDoes, OneJob DEF KeepsUp
  <2>2. ~eng[r].jobs[1].up /\ eng[r].jobs[1].pc = "done" => eng[r].jobs[1].hash # Absent
    BY <2>1 DEF Recalls
  <2> QED BY <1>6, <2>2, FinishDoes
<1>7. ASSUME \/ \E q \in Replicas : Send(q)
             \/ \E t \in Saves : CheckSave(t) \/ StoreSave(t) \/ CommitSave(t)
             \/ DeleteAtServer \/ Sweep \/ Age
      PROVE  eng' = eng
  BY <1>7 DEF Send, CheckSave, StoreSave, CommitSave, DeleteAtServer, Sweep, Age
<1>8. ASSUME NEW q \in Replicas, Takes(q) \/ Finish(q) PROVE eng[r].disk \in seen[r] \cup {Absent}
  BY <1>1, <1>2, <1>5, <1>6, <1>8, FinishDoes DEF Takes
<1> QED BY <1>1, <1>3, <1>4, <1>7, <1>8, Ways

-----------------------------------------------------------------------------
(* What a user puts at the path is new *)

Past == 0 .. ops \cup {Absent}

\* Nothing names or holds the bytes a replica has not noticed yet but its own disk.
Fresh ==
  crossed = {} =>
    /\ Value(srv.file) \in Past
    /\ \A t \in Saves : save[t].hash \in Past
    /\ \A r \in Replicas :
         /\ eng[r].disk \in Past /\ seen[r] \subseteq Past
         /\ Stale(eng[r]) /\ eng[r].disk # Absent =>
              /\ eng[r].disk # Value(srv.file)
              /\ \A t \in Saves : eng[r].disk # save[t].hash
              /\ \A q \in Replicas : eng[r].disk \notin seen[q] /\ (q # r => eng[r].disk # eng[q].disk)

Another(h) == h = ops + 1 /\ ops' = ops + 1

\* Where a replica has what it comes to have, and to name, from.
Sourced(r) ==
  /\ Only(r) /\ srv'.file = srv.file /\ save' = save
  /\ eng'[r].disk \in seen[r] \cup {eng[r].disk, Absent} \/ Another(eng'[r].disk)
  /\ \/ Value(eng'[r].file) \in seen[r] \cup {Absent, Value(srv.file)}
     \/ Value(eng'[r].file) = eng[r].disk /\ ~Stale(eng'[r])
  /\ Stale(eng'[r]) /\ eng'[r].disk # Absent =>
       \/ eng'[r].disk = eng[r].disk /\ Stale(eng[r])
       \/ Another(eng'[r].disk)
Served ==
  /\ UNCHANGED <<eng, seen>>
  /\ Value(srv'.file) \in {Value(srv.file), Absent} \cup {save[t].hash : t \in Saves} \cup UNION {seen[r] : r \in Replicas}
  /\ \A t \in Saves : save'[t].hash \in {save[t].hash, Absent} \/ Another(save'[t].hash)

LEMMA Sources ==
  ASSUME TypesInv, SavesHash, KeepsUp, Recalls, crossed = {}, FilesNext
  PROVE  Served \/ \E r \in Replicas : Sourced(r)
<1>e. \A r \in Replicas : eng[r] \in Engines /\ Intact(eng[r]) /\ eng[r].file \in Cell(Contents) /\ srv.file \in Cell(Contents)
  BY TypesSay DEF KeepsUp
<1>1. ASSUME NEW r \in Replicas, Moves(r) \/ Changes(r) PROVE Sourced(r)
  <2>1. Value(eng[r].file) \in seen[r] \cup {Absent}
    BY DEF Recalls
  <2>2. CASE Moves(r)
    BY <2>1, <2>2 DEF Moves, Moved, Sourced
  <2>3. CASE Changes(r)
    BY <2>1, <2>3 DEF Changes, Changed, Sourced, Another
  <2> QED BY <1>1, <2>2, <2>3
<1>2. ASSUME NEW r \in Replicas, Takes(r) PROVE Sourced(r)
  <2>1. PICK g : Got(g, eng[r]) /\ Took(eng'[r], g)
    BY <1>2 DEF Takes
  <2>2. Value(eng'[r].file) \in {Value(eng[r].file), Value(srv.file), Absent}
    BY <1>e, <2>1, MergeIs DEF Got, Took
  <2>3. Value(eng'[r].file) \in seen[r] \cup {Absent, Value(srv.file)}
    BY <2>2 DEF Recalls
  <2>4. eng'[r].disk \in {eng[r].disk, Absent}
    BY <2>1 DEF Got, Still, Took
  <2>5. Stale(eng'[r]) => eng'[r].disk = eng[r].disk /\ Stale(eng[r])
    BY <2>1 DEF Got, Still, Took, Stale
  <2> QED BY <1>2, <2>3, <2>4, <2>5 DEF Takes, Sourced
<1>3. ASSUME NEW r \in Replicas, Transfer(r) PROVE Sourced(r)
  <2>1. Only(r) /\ srv'.file = srv.file /\ save' = save
        /\ eng'[r].disk = eng[r].disk /\ eng'[r].file = eng[r].file /\ eng'[r].cache = eng[r].cache
    BY <1>3, TransferDoes DEF Ended
  <2>2. Value(eng[r].file) \in seen[r] \cup {Absent}
    BY DEF Recalls
  <2> QED BY <2>1, <2>2 DEF Sourced, Stale
<1>4. ASSUME NEW r \in Replicas, Finish(r) PROVE Sourced(r)
  <2> DEFINE e == eng[r]
             f == eng'[r]
             job == e.jobs[1]
  <2>1. /\ Only(r) /\ srv' = srv /\ save' = save /\ e.jobs # <<>>
        /\ \/ /\ job.up /\ job.pc = "done" /\ f.disk = e.disk /\ f.cache = job.hash /\ Value(f.file) = job.hash
           \/ /\ ~job.up /\ job.pc = "done" /\ f.disk = job.hash /\ f.cache = job.hash /\ f.file = e.file
           \/ /\ job.pc = "failed" /\ f.disk = e.disk /\ f.cache = e.cache /\ f.file = e.file
    BY <1>4, FinishDoes
  <2>2. 1 \in DOMAIN e.jobs
    BY <1>e, <2>1, OneJob
  <2>3. Value(e.file) \in seen[r] \cup {Absent} /\ (~job.up => job.hash \in seen[r] \cup {Absent})
    BY <2>2 DEF Recalls
  <2>4. job.up /\ job.pc = "done" => job.hash = e.disk
    BY <1>e, <2>2 DEF Intact
  <2> QED BY <2>1, <2>3, <2>4 DEF Sourced, Stale
<1>5. ASSUME NEW r \in Replicas, Restart(r) PROVE Sourced(r)
  <2>1. Only(r) /\ Started(eng'[r], eng[r]) /\ srv' = srv /\ save' = save
    BY <1>5, RestartDoes
  <2>2. Value(eng[r].file) \in seen[r] \cup {Absent}
    BY DEF Recalls
  <2> QED BY <2>1, <2>2 DEF Started, Sourced, Stale
<1>6. ASSUME NEW r \in Replicas, Send(r) PROVE Served
  <2>1. UNCHANGED <<eng, seen, save>> /\ srv'.file = MergeCells(srv.file, eng[r].file)
    BY <1>6, SendDoes
  <2>2. Value(srv'.file) \in {Value(srv.file), Value(eng[r].file), Absent}
    BY <1>e, <2>1, MergeIs
  <2>3. Value(eng[r].file) \in seen[r] \cup {Absent}
    BY DEF Recalls
  <2> QED BY <2>1, <2>2, <2>3 DEF Served
<1>7. ASSUME NEW t \in Saves, CheckSave(t) PROVE Served
  BY <1>7, CheckSaveDoes DEF Served, Another
<1>8. ASSUME NEW t \in Saves, StoreSave(t) PROVE Served
  BY <1>8, StoreSaveDoes DEF Served
<1>9. ASSUME NEW t \in Saves, CommitSave(t) PROVE Served
  BY <1>9, CommitSaveDoes DEF Served
<1>10. ASSUME DeleteAtServer \/ Sweep \/ Age PROVE Served
  BY <1>10, DeleteAtServerDoes, SweepDoes, AgeDoes DEF Served
<1> QED BY <1>1, <1>2, <1>3, <1>4, <1>5, <1>6, <1>7, <1>8, <1>9, <1>10, Ways

LEMMA FreshStep ==
  ASSUME TypesInv, SavesHash, KeepsUp, Recalls, Fresh, FilesNext
  PROVE  Fresh'
<1> SUFFICES ASSUME crossed' = {} PROVE Fresh'
  BY DEF Fresh
<1>1. crossed = {} /\ ops' \in {ops, ops + 1} /\ TypesInv'
  BY Remembered, Ways
<1>2. ops \in Nat /\ ops' \in Nat /\ Absent \notin Nat
  <2>1. ops \in 0 .. MaxOps /\ MaxOps \in Nat
    BY AttachmentsAssumption DEF TypesInv
  <2> QED BY <1>1, <2>1, AttachmentsAssumption
<1>3. Past \subseteq Past' /\ Absent \in Past /\ \A h : Another(h) => h \in Past' /\ h \notin Past /\ h # Absent
  BY <1>1, <1>2 DEF Past, Another
<1> HIDE DEF Past, Another
<1>4. /\ Value(srv.file) \in Past
      /\ \A t \in Saves : save[t].hash \in Past
      /\ \A r \in Replicas : eng[r].disk \in Past /\ seen[r] \subseteq Past
  BY <1>1 DEF Fresh
<1> DEFINE Own(r) == /\ eng[r].disk # Value(srv.file)
                     /\ \A t \in Saves : eng[r].disk # save[t].hash
                     /\ \A q \in Replicas : eng[r].disk \notin seen[q] /\ (q # r => eng[r].disk # eng[q].disk)
           Owns(r) == /\ eng'[r].disk # Value(srv'.file)
                      /\ \A t \in Saves : eng'[r].disk # save'[t].hash
                      /\ \A q \in Replicas : eng'[r].disk \notin seen'[q] /\ (q # r => eng'[r].disk # eng'[q].disk)
<1>5. \A r \in Replicas : Stale(eng[r]) /\ eng[r].disk # Absent => Own(r)
  BY <1>1 DEF Fresh
<1>6. CASE Served
  <2>1. Value(srv'.file) \in Past /\ \A t \in Saves : save'[t].hash \in Past'
    BY <1>3, <1>4, <1>6 DEF Served
  <2>2. ASSUME NEW r \in Replicas, Stale(eng[r]), eng[r].disk # Absent PROVE Owns(r)
    <3>1. eng[r].disk # Value(srv'.file)
      BY <1>5, <1>6, <2>2 DEF Served
    <3>2. ASSUME NEW t \in Saves PROVE eng[r].disk # save'[t].hash
      BY <1>3, <1>4, <1>5, <1>6, <2>2 DEF Served
    <3> QED BY <1>5, <1>6, <2>2, <3>1, <3>2 DEF Served
  <2> QED BY <1>3, <1>4, <1>6, <2>1, <2>2 DEF Served, Fresh
<1>7. ASSUME NEW r \in Replicas, Sourced(r) PROVE Fresh'
  <2> DEFINE e == eng[r]
             f == eng'[r]
  <2>1. /\ srv'.file = srv.file /\ save' = save
        /\ seen'[r] = seen[r] \cup ({Value(f.file)} \ {Absent})
        /\ \A q \in Replicas \ {r} : eng'[q] = eng[q] /\ seen'[q] = seen[q]
    BY <1>7 DEF Sourced, Only
  <2>2. Value(f.file) \in Past /\ f.disk \in Past'
    BY <1>3, <1>4, <1>7 DEF Sourced
  <2>3. \A q \in Replicas : seen'[q] \subseteq Past
    BY <1>4, <2>1, <2>2
  <2>4. ASSUME Stale(f), f.disk # Absent PROVE Owns(r)
    <3>1. CASE Another(f.disk)
      BY <1>3, <1>4, <2>1, <2>3, <3>1
    <3>2. CASE f.disk = e.disk /\ Stale(e)
      <4>1. Own(r) /\ Value(f.file) \in seen[r] \cup {Absent, Value(srv.file)}
        BY <1>5, <1>7, <2>4, <3>2 DEF Sourced
      <4> QED BY <2>1, <2>4, <3>2, <4>1
    <3> QED BY <1>7, <2>4, <3>1, <3>2 DEF Sourced
  <2>5. ASSUME NEW p \in Replicas \ {r}, Stale(eng[p]), eng[p].disk # Absent PROVE Owns(p)
    <3>1. Own(p) /\ eng'[p] = eng[p] /\ eng[p].disk \in Past
      BY <1>4, <1>5, <2>1, <2>5
    <3>2. eng[p].disk # Value(f.file)
      BY <1>7, <2>5, <3>1 DEF Sourced
    <3>3. eng[p].disk # f.disk
      BY <1>3, <1>7, <2>5, <3>1 DEF Sourced
    <3> QED BY <2>1, <3>1, <3>2, <3>3
  <2>6. \A p \in Replicas : Stale(eng'[p]) /\ eng'[p].disk # Absent => Owns(p)
    BY <2>1, <2>4, <2>5
  <2>7. /\ Value(srv'.file) \in Past' /\ \A t \in Saves : save'[t].hash \in Past'
        /\ \A p \in Replicas : eng'[p].disk \in Past' /\ seen'[p] \subseteq Past'
    BY <1>3, <1>4, <2>1, <2>2, <2>3
  <2> QED BY <2>6, <2>7 DEF Fresh
<1> QED BY <1>1, <1>6, <1>7, Sources

-----------------------------------------------------------------------------
(* An older version does not come back *)

\* Left alone, a replica whose file is an older version than its entry names is fetching it.
Owes(e, had) == /\ e.disk # Absent /\ Value(e.file) # Absent
                /\ e.disk # Value(e.file) /\ e.disk \in had
Fetches(e) == e.jobs # <<>> /\ ~e.jobs[1].up
Catches ==
  missed \cup crossed \cup overtaken = {} => \A r \in Replicas : Owes(eng[r], seen[r]) => Fetches(eng[r])

LEMMA GrowsFetches ==
  ASSUME NEW e \in Engines, NEW f \in Engines, Grows(f, e), Fetches(e)
  PROVE  Fetches(f)
<1>1. e.jobs \in Seq(Job) /\ f.jobs \in Seq(Job)
  BY DEF Engines, Engine
<1>2. Len(e.jobs) \in Nat /\ Len(e.jobs) # 0 /\ Len(f.jobs) \in Nat
  BY <1>1 DEF Fetches
<1>3. Len(f.jobs) >= 1 /\ Len(e.jobs) >= 1
  BY <1>2 DEF Grows
<1>4. f.jobs # <<>> /\ 1 \in DOMAIN f.jobs
  BY <1>1, <1>3
<1> QED BY <1>3, <1>4 DEF Grows, Fetches

LEMMA CatchesStep ==
  ASSUME TypesInv, SavesHash, KeepsUp, Recalls, Fresh, Catches, FilesNext
  PROVE  Catches'
<1> SUFFICES ASSUME missed' \cup crossed' \cup overtaken' = {} PROVE Catches'
  BY DEF Catches
<1>0. missed = {} /\ crossed = {} /\ overtaken = {} /\ \A r \in Replicas : Owes(eng[r], seen[r]) => Fetches(eng[r])
  BY Remembered DEF Catches
<1>e. \A r \in Replicas : /\ eng[r] \in Engines /\ eng'[r] \in Engines /\ eng[r].jobs \in Seq(Job)
                          /\ Intact(eng[r]) /\ seen[r] \subseteq Past
                          /\ Value(eng[r].file) \in seen[r] \cup {Absent}
  <2>1. \A r \in Replicas : eng'[r] \in Engines
    BY Ways DEF TypesInv
  <2> QED BY <1>0, <2>1, TypesSay DEF KeepsUp, Fresh, Recalls
<1>1. ASSUME NEW r \in Replicas, Only(r), Owes(eng'[r], seen'[r]) => Fetches(eng'[r]) PROVE Catches'
  BY <1>0, <1>1 DEF Only, Catches
<1>2. ASSUME UNCHANGED <<eng, seen>> PROVE Catches'
  BY <1>0, <1>2 DEF Catches
<1>s. ASSUME NEW r \in Replicas, Only(r), Value(eng'[r].file) \in {Value(eng[r].file), Absent}
      PROVE  seen'[r] = seen[r]
  BY <1>e, <1>s DEF Only
<1>3. ASSUME NEW r \in Replicas, Moves(r) PROVE Catches'
  <2>1. Only(r) /\ Moved(eng'[r], eng[r])
    BY <1>3 DEF Moves
  <2>2. seen'[r] = seen[r]
    BY <1>s, <2>1 DEF Moved
  <2>3. Owes(eng'[r], seen'[r]) => Owes(eng[r], seen[r])
    BY <2>1, <2>2 DEF Moved, Owes
  <2> QED BY <1>0, <1>1, <1>e, <2>1, <2>3, GrowsFetches DEF Moved
<1>4. ASSUME NEW r \in Replicas, Changes(r) PROVE Catches'
  <2>1. Only(r) /\ Changed(eng'[r], eng[r])
    BY <1>4 DEF Changes
  <2>2. seen'[r] = seen[r]
    BY <1>s, <2>1 DEF Changed
  <2>3. ops + 1 \notin Past
    <3>1. ops \in 0 .. MaxOps /\ MaxOps \in Nat
      BY AttachmentsAssumption DEF TypesInv
    <3>2. ops \in Nat /\ ops + 1 \in Nat /\ Absent \notin Nat
      BY <3>1, AttachmentsAssumption
    <3> QED BY <3>2 DEF Past
  <2>4. ~Owes(eng'[r], seen'[r])
    BY <1>e, <2>1, <2>2, <2>3 DEF Changed, Owes
  <2> QED BY <1>1, <2>1, <2>4
<1>5. ASSUME NEW r \in Replicas, Takes(r) PROVE Catches'
  <2> DEFINE e == eng[r]
             f == eng'[r]
  <2>1. PICK g : Got(g, e) /\ Took(f, g)
    BY <1>5 DEF Takes
  <2>2. /\ Only(r) /\ f.file = g.file /\ g.jobs = e.jobs /\ g \in Engines
        /\ f.file # e.file => ~e.flight /\ e.pending = Absent
    BY <1>0, <1>5, <2>1 DEF Takes, Overtakes, Got, Still, Took
  <2>3. CASE f.file = e.file
    <3>1. seen'[r] = seen[r]
      BY <1>s, <2>2, <2>3
    <3>2. Owes(f, seen'[r]) => Owes(e, seen[r])
      BY <2>1, <2>3, <3>1 DEF Got, Still, Took, Owes
    <3>3. Fetches(e) => Fetches(f)
      <4>1. Fetches(e) => Fetches(g)
        BY <2>2 DEF Fetches
      <4> QED BY <1>e, <2>1, <2>2, <4>1, GrowsFetches DEF Took
    <3> QED BY <1>0, <1>1, <2>2, <3>2, <3>3
  <2>4. CASE f.file # e.file
    <3>1. ~g.flight /\ g.pending = Absent /\ g.jobs = <<>> /\ g.disk = e.disk /\ g.cache = e.cache
      BY <1>e, <2>1, <2>2, <2>4 DEF Got, Still, Intact
    <3> SUFFICES ASSUME Owes(f, seen'[r]), ~Fetches(f) PROVE FALSE
      BY <1>1, <2>2
    <3>2. LocalHash(g) = Value(g.file) /\ Value(g.file) # Absent /\ g.disk # Value(g.file) /\ f.disk = e.disk
      BY <2>1, <2>2, <3>1 DEF Took, Owes, Fetches
    <3>3. Stale(e) /\ e.disk # Absent
      BY <3>1, <3>2 DEF Stale, LocalHash, Owes
    <3>4. e.disk \notin seen[r]
      BY <1>0, <3>3 DEF Fresh
    <3>5. f.disk \in seen[r] \cup ({Value(f.file)} \ {Absent})
      BY <2>2 DEF Only, Owes
    <3> QED BY <2>2, <3>1, <3>2, <3>4, <3>5
  <2> QED BY <2>3, <2>4
<1>6. ASSUME NEW r \in Replicas, Transfer(r) PROVE Catches'
  <2> DEFINE e == eng[r]
             f == eng'[r]
  <2>1. Only(r)
    BY <1>6, TransferDoes
  <2>2. PICK i \in DOMAIN e.jobs : \E h, pc : Ended(f, e, i, h, pc)
    BY <1>6, TransferDoes
  <2>3. seen'[r] = seen[r]
    BY <1>s, <2>1, <2>2 DEF Ended
  <2>4. Owes(f, seen'[r]) => Owes(e, seen[r])
    BY <2>2, <2>3 DEF Ended, Owes
  <2>5. Fetches(e) => Fetches(f)
    <3>1. f.jobs \in Seq(Job) /\ e.jobs \in Seq(Job) /\ Len(f.jobs) = Len(e.jobs)
      BY <1>e, <2>2 DEF Ended, Engines, Engine
    <3>2. ASSUME e.jobs # <<>> PROVE f.jobs # <<>> /\ 1 \in DOMAIN e.jobs
      <4>1. Len(e.jobs) \in Nat /\ Len(e.jobs) # 0
        BY <3>1, <3>2
      <4> QED BY <3>1, <4>1
    <3>3. \A k \in DOMAIN e.jobs : f.jobs[k].up = e.jobs[k].up
      BY <2>2 DEF Ended
    <3> QED BY <3>2, <3>3 DEF Fetches
  <2> QED BY <1>0, <1>1, <2>1, <2>4, <2>5
<1>7. ASSUME NEW r \in Replicas, Finish(r) PROVE Catches'
  <2> DEFINE e == eng[r]
             f == eng'[r]
             job == e.jobs[1]
  <2>1. /\ Only(r) /\ e.jobs # <<>>
        /\ \/ /\ job.up /\ job.pc = "done" /\ f.disk = e.disk /\ Value(f.file) = job.hash
           \/ /\ ~job.up /\ job.pc = "done" /\ f.pending = e.pending /\ f.file = e.file
           \/ /\ job.pc = "failed" /\ f.disk = e.disk /\ f.file = e.file
              /\ ~job.up => f.pending = e.pending
        /\ missed' = IF f.pending = Absent /\ f.disk # Value(f.file) /\ (job.pc = "failed" \/ ~job.up)
                     THEN missed \cup {r} ELSE missed
    BY <1>7, FinishDoes
  <2>2. 1 \in DOMAIN e.jobs /\ e.pending = Absent
    BY <1>e, <2>1, OneJob
  <2>3. job.up /\ job.pc = "done" => job.hash = e.disk
    BY <1>e, <2>2 DEF Intact
  <2>4. ASSUME f.file = e.file, f.disk = e.disk, Owes(f, seen'[r]) PROVE ~job.up
    <3>1. seen'[r] = seen[r]
      BY <1>s, <2>1, <2>4
    <3> QED BY <1>0, <2>4, <3>1 DEF Owes, Fetches
  <2>5. r \notin missed'
    OBVIOUS
  <2>6. ~Owes(f, seen'[r])
    BY <2>1, <2>2, <2>3, <2>4, <2>5 DEF Owes
  <2> QED BY <1>1, <2>1, <2>6
<1>8. ASSUME NEW r \in Replicas, Restart(r) PROVE Catches'
  <2>1. /\ Only(r) /\ Started(eng'[r], eng[r])
        /\ missed' = IF eng[r].disk # Value(eng[r].file) THEN missed \cup {r} ELSE missed
    BY <1>8, RestartDoes
  <2>2. ~Owes(eng'[r], seen'[r])
    BY <2>1 DEF Started, Owes
  <2> QED BY <1>1, <2>1, <2>2
<1>9. ASSUME \/ \E r \in Replicas : Send(r)
             \/ \E t \in Saves : CheckSave(t) \/ StoreSave(t) \/ CommitSave(t)
             \/ DeleteAtServer \/ Sweep \/ Age
      PROVE  Catches'
  BY <1>2, <1>9 DEF Send, CheckSave, StoreSave, CommitSave, DeleteAtServer, Sweep, Age
<1> QED BY <1>3, <1>4, <1>5, <1>6, <1>7, <1>8, <1>9, Ways

LEMMA NothingReturns ==
  ASSUME TypesInv, SavesHash, KeepsUp, Recalls, Catches, FilesNext, missed \cup crossed \cup overtaken = {},
         NEW r \in Replicas
  PROVE  ~Returns(r)
<1> SUFFICES ASSUME Returns(r) PROVE FALSE
  OBVIOUS
<1>1. /\ eng'[r].file.at = Now /\ Value(eng[r].file) # Absent /\ Value(eng'[r].file) \in seen[r]
      /\ eng[r].file.at < Now /\ srv.file.at < Now /\ Now \in Nat
      /\ \A q \in Replicas : eng[q].file \in Cell(Contents) /\ eng[q].file.at \in Nat
      /\ srv.file \in Cell(Contents) /\ srv.file.at \in Nat
  BY NowIs, TypesSay DEF Returns
<1>2. eng'[r].file.at \notin {eng[r].file.at, srv.file.at}
  BY <1>1
<1>3. ASSUME NEW q \in Replicas, Only(q) PROVE q = r
  BY <1>2, <1>3 DEF Only
<1>4. ASSUME NEW q \in Replicas, Moves(q) \/ Takes(q) \/ Changes(q) \/ Transfer(q) \/ Restart(q) PROVE FALSE
  <2>1. q = r
    BY <1>3, <1>4, TransferDoes, RestartDoes DEF Moves, Takes, Changes
  <2>2. CASE Moves(r) \/ Changes(r)
    BY <1>2, <2>2 DEF Moves, Moved, Changes, Changed
  <2>3. CASE Takes(r)
    <3>1. eng'[r].file = MergeCells(eng[r].file, srv.file)
      BY <2>3 DEF Takes, Got, Took
    <3> QED BY <1>1, <1>2, <3>1, MergeIs
  <2>4. CASE Transfer(r)
    BY <1>2, <2>4, TransferDoes DEF Ended
  <2>5. CASE Restart(r)
    BY <1>2, <2>5, RestartDoes DEF Started
  <2> QED BY <1>4, <2>1, <2>2, <2>3, <2>4, <2>5
<1>5. ASSUME NEW q \in Replicas, Finish(q) PROVE FALSE
  <2> DEFINE e == eng[r]
             f == eng'[r]
             job == e.jobs[1]
  <2>1. q = r
    BY <1>3, <1>5, FinishDoes
  <2>2. /\ e.jobs # <<>> /\ job.up /\ job.pc = "done" /\ Value(f.file) = job.hash /\ Value(e.file) # job.hash
    BY <1>2, <1>5, <2>1, FinishDoes
  <2>3. e \in Engines /\ Intact(e)
    BY DEF TypesInv, KeepsUp
  <2>4. 1 \in DOMAIN e.jobs
    BY <2>2, <2>3, OneJob
  <2>5. job.hash = e.disk
    BY <2>2, <2>3, <2>4 DEF Intact
  <2>6. Absent \notin seen[r]
    BY AttachmentsAssumption DEF TypesInv, FilesType, Hashes
  <2>7. Owes(e, seen[r])
    BY <1>1, <2>2, <2>5, <2>6 DEF Owes
  <2> QED BY <2>2, <2>7 DEF Catches, Fetches
<1>6. ASSUME \/ \E q \in Replicas : Send(q)
             \/ \E t \in Saves : CheckSave(t) \/ StoreSave(t) \/ CommitSave(t)
             \/ DeleteAtServer \/ Sweep \/ Age
      PROVE  FALSE
  <2>1. eng' = eng
    BY <1>6 DEF Send, CheckSave, StoreSave, CommitSave, DeleteAtServer, Sweep, Age
  <2> QED BY <1>2, <2>1
<1> QED BY <1>4, <1>5, <1>6, Ways

-----------------------------------------------------------------------------
(* The invariant, and what follows from it *)

AttachmentsInv == TypesInv /\ SavesHash /\ Resolves /\ KeepsUp /\ Recalls /\ Fresh /\ Catches

LEMMA AttachmentsStart ==
  ASSUME FilesInit
  PROVE  AttachmentsInv
<1>0. MaxOps \in Nat /\ MaxStamp \in Nat /\ Absent \notin Nat
  BY AttachmentsAssumption
<1>1. PICK c \in {0, Absent}, k \in {TRUE, Absent} :
       LET entry == [Blank EXCEPT !.val = c]
           kept == [Blank EXCEPT !.val = k]
           names == [Blank EXCEPT !.val = c = 0 /\ k = Absent]
       IN /\ c = Absent => k = Absent
          /\ eng = [r \in Replicas |-> NewEngine(c, entry, kept, names)]
          /\ seen = [r \in Replicas |-> {c} \ {Absent}]
          /\ srv = [file |-> entry, kept |-> kept, names |-> names, blobs |-> {0},
                    row |-> [h \in Hashes |-> IF h # 0 THEN "none"
                                              ELSE IF c = 0 THEN "live" ELSE "aged"]]
  BY DEF FilesInit
<1>2. /\ save = [t \in Saves |-> [pc |-> "idle", hash |-> Absent]]
      /\ ops = 0 /\ missed = {} /\ lost = {} /\ crossed = {} /\ overtaken = {}
  BY DEF FilesInit
<1> DEFINE entry == [Blank EXCEPT !.val = c]
           kept == [Blank EXCEPT !.val = k]
           b == (c = 0 /\ k = Absent)
           names == [Blank EXCEPT !.val = b]
           known == IF kept.val = TRUE THEN c ELSE Absent
           e == NewEngine(c, entry, kept, names)
           row == [h \in Hashes |-> IF h # 0 THEN "none" ELSE IF c = 0 THEN "live" ELSE "aged"]
<1>3. 0 \in Hashes /\ c \in Contents /\ Absent \in Contents /\ 0 \in Stamps /\ b \in BOOLEAN
  BY <1>0 DEF Hashes, Contents, Stamps
<1> HIDE DEF b
<1>4. /\ entry \in Cell(Contents) /\ entry.at = 0 /\ Value(entry) = c
      /\ kept \in Cell({TRUE, Absent}) /\ names \in Cell(BOOLEAN) /\ names.val \in BOOLEAN
  BY <1>3 DEF Blank, Cell, Value
<1>5. known \in {c, Absent} /\ known \in Contents
  BY <1>3
<1>6. e = [disk |-> c, event |-> FALSE, cache |-> Absent, fs |-> FALSE, touched |-> FALSE,
           pending |-> Absent, flight |-> FALSE, jobs |-> <<>>, file |-> entry,
           kept |-> kept, names |-> names, shown |-> names.val,
           recorded |-> names.val, dirty |-> FALSE, due |-> FALSE,
           known |-> known, out |-> TRUE, shaken |-> Documents]
  BY DEF NewEngine
<1>7. /\ eng = [r \in Replicas |-> e] /\ seen = [r \in Replicas |-> {c} \ {Absent}]
      /\ srv = [file |-> entry, kept |-> kept, names |-> names, blobs |-> {0}, row |-> row]
  BY <1>1 DEF b
<1>8. row \in [Hashes -> {"none", "live", "marked", "aged"}] /\ {0} = {h \in Hashes : row[h] # "none"}
  BY <1>3
<1> HIDE DEF entry, kept, names, known, row
<1>9. <<>> \in Seq(Job) /\ Len(<<>>) = 0 /\ DOMAIN <<>> = {}
  OBVIOUS
<1>10. e \in Engines
  BY <1>3, <1>4, <1>5, <1>6, <1>9 DEF Engines, Engine
<1>11. /\ e.disk = c /\ e.cache = Absent /\ e.jobs = <<>> /\ ~e.flight /\ e.file = entry /\ e.known = known
  BY <1>6
<1> HIDE DEF e
<1>12. srv \in Server /\ srv.blobs = {h \in Hashes : srv.row[h] # "none"} /\ srv.file = entry /\ srv.blobs = {0}
  BY <1>3, <1>4, <1>7, <1>8 DEF Server
<1>13. save \in [Saves -> Save]
  BY <1>2, <1>3 DEF Save
<1>14. seen \in [Replicas -> SUBSET Hashes]
  BY <1>3, <1>7 DEF Contents
<1>15. TypesInv
  BY <1>0, <1>2, <1>7, <1>10, <1>12, <1>13, <1>14 DEF TypesInv, FilesType, Engines
<1>16. SavesHash
  BY <1>2 DEF SavesHash
<1>17. \A r \in Replicas : eng[r] = e /\ seen[r] = {c} \ {Absent}
  BY <1>7
<1>18. Resolves
  BY <1>2, <1>4, <1>9, <1>11, <1>12, <1>17 DEF Resolves, Had
<1>19. KeepsUp
  BY <1>4, <1>9, <1>11, <1>17 DEF KeepsUp, Intact, Stale, Caught
<1>20. Recalls
  BY <1>4, <1>5, <1>9, <1>11, <1>17 DEF Recalls
<1>21. Fresh
  <2>1. c \in Past /\ Absent \in Past
    BY <1>0, <1>2 DEF Past
  <2>2. \A t \in Saves : save[t].hash = Absent
    BY <1>2
  <2> QED BY <1>4, <1>11, <1>12, <1>17, <2>1, <2>2 DEF Fresh, Stale
<1>22. Catches
  BY <1>4, <1>11, <1>17 DEF Catches, Owes
<1> QED BY <1>15, <1>16, <1>18, <1>19, <1>20, <1>21, <1>22 DEF AttachmentsInv

LEMMA AttachmentsStep ==
  ASSUME AttachmentsInv, [FilesNext]_filesVars
  PROVE  AttachmentsInv'
<1>1. CASE FilesNext
  BY <1>1, Ways, SavesHashStep, ResolvesStep, KeepsUpStep, RecallsStep, FreshStep, CatchesStep DEF AttachmentsInv
<1>2. CASE UNCHANGED filesVars
  BY <1>2 DEF filesVars, AttachmentsInv, TypesInv, FilesType, SavesHash, Resolves, Had, KeepsUp, Recalls, Fresh, Past, Catches
<1> QED BY <1>1, <1>2

LEMMA AttachmentsAlways == FilesSpec => []AttachmentsInv
BY AttachmentsStart, AttachmentsStep, PTL DEF FilesSpec

\* Content-addressed references resolve (put_attachment before set_attachment, put_file,
\* purge_orphans): whatever uploads, saves, removals and sweeps cross, what the vault names the
\* server has, unless a sweep took it from under somebody it had told that it was there.
THEOREM EntriesResolveHolds == FilesSpec => []EntriesResolve
<1>1. AttachmentsInv => EntriesResolve
  BY DEF AttachmentsInv, TypesInv, Resolves, Had, EntriesResolve
<1> QED BY <1>1, AttachmentsAlways, PTL

\* A replica that has nothing left to do has the file the vault names (reconcile_attachments),
\* unless its file changed during a transfer of it, or it restarted or failed a download behind.
THEOREM FileInStepHolds == FilesSpec => []InStep
<1>1. AttachmentsInv => InStep
  BY KeepsUpInStep DEF AttachmentsInv
<1> QED BY <1>1, AttachmentsAlways, PTL

\* A replica puts no older version in the place of what the vault names, and an edited copy of a
\* kept file stays when the file is deleted elsewhere (try_transfer_done, drop_removed_kept_files).
THEOREM VersionsStayHolds == FilesSpec => VersionsStay
<1>1. AttachmentsInv /\ [FilesNext]_filesVars =>
        [missed \cup crossed \cup overtaken = {} => \A r \in Replicas : ~Returns(r)]_filesVars
  BY NothingReturns DEF AttachmentsInv
<1>2. AttachmentsInv /\ [FilesNext]_filesVars =>
        [\A r \in Replicas \ crossed : ops' = ops /\ eng'[r].disk = Absent /\ ~eng[r].event
           => eng[r].disk \in seen[r] \cup {Absent}]_filesVars
  BY EditedCopyStays DEF AttachmentsInv
<1>3. FilesSpec => NewVersionStays
  BY <1>1, AttachmentsAlways, PTL DEF FilesSpec, NewVersionStays
<1>4. FilesSpec => EditedCopiesStay
  BY <1>2, AttachmentsAlways, PTL DEF FilesSpec, EditedCopiesStay
<1> QED BY <1>3, <1>4 DEF VersionsStay
===============================================================================
