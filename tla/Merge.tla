-------------------------------- MODULE Merge -------------------------------
(***************************************************************************)
(* Merging one vault into another (crates/core/src/local.rs merge_vaults,  *)
(* crates/core/src/merge.rs plan, and the queries client.rs answers): a    *)
(* request that surveys both vaults, plans, copies pictures and notes      *)
(* through their two engines, checks that the notes have landed, and only  *)
(* then has the source retire.  Each question to an engine is a turn of    *)
(* that engine's loop, so whatever else happens to either vault happens    *)
(* between two of them; the request may fail or be dropped at any, and     *)
(* may be made again.  A restart of the process is a request that fails:   *)
(* both engines start from what they have on disk.                         *)
(*                                                                         *)
(* Documents are as in Texts, a mark's place the vault it was put in by.   *)
(* Users only add marks, or delete a note; what else disappears, the merge *)
(* took away.  A note's picture, where it has one, is a file either vault  *)
(* may have under the same name; the source's stays as it is, those of the *)
(* destination change.  The source's notes have a document, a file, and a  *)
(* wait between the two in either direction; in the destination the two    *)
(* are in step, but for files it has not taken in yet (`stray`).           *)
(***************************************************************************)
EXTENDS Texts, Naturals, Sequences, FiniteSets, SequencesExt

CONSTANTS
  Ids,          \* notes of the source
  Own,          \* notes of the destination
  Spare,        \* bound: ids the destination gives to copies
  Pictured,     \* notes whose text shows the picture
  Home,         \* the path a note is wanted at, in the merge's folder
  Picture,      \* the picture's path
  None,
  MaxRuns,      \* bound: merges asked for
  MaxOps        \* bound: what users and programs do

ASSUME MergeAssumption ==
  /\ {MaxRuns, MaxOps} \subseteq Nat
  /\ Pictured \subseteq Ids \cup Own
  /\ DOMAIN Home = Ids \cup Own
  /\ None \notin Ids \cup Own \cup Spare \cup {"src", "dst"}
  /\ Ids \cap Own = {} /\ (Ids \cup Own) \cap Spare = {} /\ IsFiniteSet(Ids)
  /\ {"src", "dst"} \subseteq Places

VARIABLES
  src,       \* the source's notes: document, file, whether the file names the note
  srcPic,    \* whether the picture is on the source's disk
  retired,   \* whether the source is gone; `src` then is what a server still had of it
  dst,       \* the destination's notes: path, document, picture, the bytes its text means
  store,     \* the documents its journal has, of notes it has and others
  stray,     \* files in its folder it has not taken in
  files,     \* its pictures, on disk
  entries,   \* those its vault document names, and the bytes it knows of each
  req,       \* the request: where it is, its plan, what it has read
  made,      \* marks made
  runs, ops,
  late,      \* history: marks that came to the source after the request read the note
  apart,     \* history: marks the destination may get otherwise than with their note's history
  over,      \* history: marks of files that lay, not taken in, where a note was to come
  cut,       \* history: marks of notes users deleted
  gone,      \* history: ids users deleted
  met        \* history: paths where the copy meets a picture its plan does not know of

history == <<made, runs, ops, late, apart, over, cut, gone, met>>
source == <<src, srcPic, retired>>
pictures == <<files, entries>>
destination == <<dst, store, stray, pictures>>
mergeVars == <<source, destination, req, history>>

-----------------------------------------------------------------------------
(* The plan.                                                               *)
Alternatives == 2 .. 4   \* bound: the code goes on to 999
Numbered(path) == {Append(path, k) : k \in Alternatives}
Paths == UNION {{Home[n]} \cup Numbered(Home[n]) : n \in DOMAIN Home}
Bytes == {"src", "dst"}
Suffixed == Append(Picture, 1)   \* named after the hash of the source's bytes, too
PicturePaths == {Picture, Suffixed} \cup Numbered(Suffixed)

\* `free_path`: the wanted path, or the first numbered one nothing has taken; the wanted one if all
\* are.
FreePath(wanted, taken) ==
  LET free == {k \in Alternatives : Append(wanted, k) \notin taken} IN
  IF wanted \notin taken \/ free = {} THEN wanted ELSE Append(wanted, Min(free))

\* The notes in the order of the survey, each at a path neither vault's notes will have.
PlannedTo(to, order) ==
  \A i \in DOMAIN order :
    to[order[i]] = FreePath(Home[order[i]],
                            {dst[d].path : d \in DOMAIN dst} \cup {to[order[j]] : j \in 1 .. i - 1})

\* Mutant: a picture of the destination's is never in the way.
PictureAsIs == [fate |-> "new", to |-> Picture]

\* `merge_attachments`: what the vault document names, and what else the notes use and the disk
\* has.
Used == {dst[d].pic : d \in DOMAIN dst}
Surveyed ==
  [p \in DOMAIN entries \cup (Used \cap DOMAIN files) |->
     IF p \in DOMAIN entries THEN entries[p] ELSE files[p]]

\* New, the same bytes, or, if others have its name, renamed after its hash.
PlanPicture ==
  IF Picture \notin DOMAIN Surveyed THEN [fate |-> "new", to |-> Picture]
  ELSE IF Surveyed[Picture] = "src" THEN [fate |-> "same", to |-> Picture]
  ELSE [fate |-> "renamed", to |-> FreePath(Suffixed, DOMAIN Surveyed)]

\* Other bytes lie at the planned path than the survey tells, or there was no free one.
Overlooked(to) ==
  /\ to \in DOMAIN files /\ files[to] # "src"
  /\ to \in DOMAIN Surveyed =>
       Surveyed[to] # files[to] \/ Numbered(Suffixed) \subseteq DOMAIN Surveyed

Idle == [at |-> "idle", order |-> <<>>, to |-> [m \in {} |-> <<>>],
         pic |-> [fate |-> "same", to |-> Picture], text |-> {}, named |-> TRUE]

\* Whether the request will still read the note.
ToRead(n) ==
  \/ req.at = "idle"
  \/ req.at \in {"survey", "pictures", "read"} /\ n \in ToSet(req.order)
  \/ req.at \in {"state", "write"} /\ n \in ToSet(Tail(req.order))

\* Whether the request has planned to have the source's picture there, and has notes to write.
Expects(path) ==
  /\ req.at \in {"pictures", "read", "state", "write"}
  /\ path = req.pic.to

-----------------------------------------------------------------------------
\* Init, Next and Spec have names of their own: StoreProofs extends this module and Journal.
MergeInit ==
  /\ \E live \in SUBSET Ids, first \in Marks :
       /\ live # {}
       /\ src = [n \in live |->
            [doc |-> [ins |-> {<<first, "src">>}, del |-> {}], file |-> {first},
             named |-> TRUE, onDisk |-> TRUE]]
       /\ made = {first}
  /\ srcPic \in BOOLEAN
  /\ retired = FALSE
  /\ \E own \in SUBSET Own, pic \in Bytes \cup {None} :
       /\ files = [p \in {Picture} \ {q \in {Picture} : pic = None} |-> pic]
       /\ entries = files
       /\ dst = [n \in own |->
            [path |-> Home[n], doc |-> Empty,
             pic |-> IF n \in Pictured /\ pic # None THEN Picture ELSE None,
             means |-> IF n \in Pictured THEN pic ELSE None]]
  /\ store = [n \in Ids \cup Own \cup Spare |-> Empty]
  /\ stray = [p \in {} |-> 0]
  /\ req = Idle
  /\ runs = 0 /\ ops = 0
  /\ late = {} /\ apart = {} /\ over = {} /\ cut = {} /\ gone = {} /\ met = {}

-----------------------------------------------------------------------------
(* The source vault.                                                       *)

\* Somebody, not the merge, does something.
User == ops < MaxOps /\ ops' = ops + 1

\* Something is written in a note of the source; the request may have read it already.
SourceGains(n, m) ==
  /\ made' = made \cup {m}
  /\ late' = IF ToRead(n) THEN late ELSE late \cup {m}
  /\ UNCHANGED <<destination, req, srcPic, retired, runs, apart, over, cut, gone, met>>

\* A window edits: the file follows at a tick.
Type(n, m) ==
  /\ User
  /\ ~ retired /\ n \in DOMAIN src /\ m \notin made
  /\ src' = [src EXCEPT ![n].doc.ins = @ \cup {<<m, "src">>}]
  /\ SourceGains(n, m)

\* A program saves the file, with or without the line that names the note.
SaveFile(n, m, named) ==
  /\ User
  /\ ~ retired /\ n \in DOMAIN src /\ m \notin made
  /\ src[n].onDisk
  /\ src' = [src EXCEPT ![n].file = @ \cup {m}, ![n].named = named]
  /\ SourceGains(n, m)

\* A note of the source is made by a window; its file is written at a tick.
CreateNote(n) ==
  /\ User
  /\ ~ retired /\ n \in Ids \ (DOMAIN src \cup gone)
  /\ src' = [k \in DOMAIN src \cup {n} |->
       IF k = n THEN [doc |-> Empty, file |-> {}, named |-> TRUE, onDisk |-> FALSE] ELSE src[k]]
  /\ UNCHANGED <<destination, req, srcPic, retired, made, runs, late, apart, over, cut, gone, met>>

\* `local_edit` then `project`: the save is taken in, and what the window wrote is written.
InStep(note) ==
  LET body == [note.doc EXCEPT !.ins = @ \cup {<<m, "src">> : m \in note.file \ Text(note.doc)}] IN
  [doc |-> body, file |-> Text(body), named |-> TRUE, onDisk |-> TRUE]

Settle(n) ==
  /\ ~ retired /\ n \in DOMAIN src
  /\ src' = [src EXCEPT ![n] = InStep(@)]
  /\ UNCHANGED <<destination, req, srcPic, retired, history>>

\* A note of the source is deleted, file and all.
DeleteFromSource(n) ==
  /\ User
  /\ ~ retired /\ n \in DOMAIN src
  /\ src' = [k \in DOMAIN src \ {n} |-> src[k]]
  /\ cut' = cut \cup Text(src[n].doc) \cup src[n].file
  /\ gone' = gone \cup {n}
  /\ UNCHANGED <<destination, req, srcPic, retired, made, runs, late, apart, over, met>>

\* The picture arrives at the source's disk.
FetchPicture ==
  /\ User
  /\ ~ retired /\ ~ srcPic
  /\ srcPic' = TRUE
  /\ UNCHANGED <<destination, req, src, retired, made, runs, late, apart, over, cut, gone, met>>

-----------------------------------------------------------------------------
(* The destination vault.                                                  *)

PathsOf(notes) == {notes[d].path : d \in DOMAIN notes}

\* `local_create`: a file nobody has is the note it names, as an edit of all that is known of that
\* note; or, if it names none or one that is here, a new note.
Adopt(path, file) ==
  \E n \in IF file.id # None /\ file.id \notin DOMAIN dst
             THEN {file.id} ELSE Spare \ DOMAIN dst :
    LET body == SetText(IF n = file.id THEN store[n] ELSE Empty, file.text, "dst") IN
    /\ dst' = [d \in DOMAIN dst \cup {n} |->
         IF d = n THEN [path |-> path, doc |-> body, pic |-> file.pic, means |-> file.means]
         ELSE dst[d]]
    /\ store' = [store EXCEPT ![n] = IF n = file.id THEN Join(@, body) ELSE body]

\* Mutant: only the note's own path is refused.
MergeWriteOver(path, file) ==
  /\ IF path \in PathsOf(dst)
       THEN LET n == CHOOSE d \in DOMAIN dst : dst[d].path = path IN
            /\ dst' = [dst EXCEPT ![n].doc = SetText(@, file.text, "dst"), ![n].pic = file.pic,
                                  ![n].means = file.means]
            /\ store' = [store EXCEPT ![n] = dst'[n].doc]
       ELSE Adopt(path, file)
  /\ stray' = [p \in DOMAIN stray \ {path} |-> stray[p]]
  /\ UNCHANGED pictures

\* `merge_write` of a note, not at a path a note of the vault has: written, and taken in at once.
MergeWrite(path, file) ==
  /\ path \notin PathsOf(dst)
  /\ Adopt(path, file)
  /\ stray' = [p \in DOMAIN stray \ {path} |-> stray[p]]
  /\ UNCHANGED pictures

\* A window edits a note of the destination.
TypeThere(n, m) ==
  /\ User
  /\ n \in DOMAIN dst /\ m \notin made
  /\ made' = made \cup {m}
  /\ dst' = [dst EXCEPT ![n].doc.ins = @ \cup {<<m, "dst">>}]
  /\ store' = [store EXCEPT ![n] = dst'[n].doc]
  /\ UNCHANGED <<source, stray, pictures, req, runs, late, apart, over, cut, gone, met>>

\* A window makes a note in the destination, anywhere nothing is.
CreateThere(n, path) ==
  /\ User
  /\ n \in Own \ (DOMAIN dst \cup gone)
  /\ path \notin PathsOf(dst) \cup DOMAIN stray
  /\ dst' = [d \in DOMAIN dst \cup {n} |->
       IF d = n THEN [path |-> path, doc |-> Empty, pic |-> None, means |-> None] ELSE dst[d]]
  /\ UNCHANGED <<source, store, stray, pictures, req, made, runs, late, apart, over, cut, gone, met>>

\* A note of the destination is deleted; its journal stays.
DeleteThere(n) ==
  /\ User
  /\ n \in DOMAIN dst
  /\ dst' = [d \in DOMAIN dst \ {n} |-> dst[d]]
  /\ cut' = cut \cup Text(dst[n].doc)
  /\ gone' = IF n \in Own \/ req.at = "retire" \/ retired THEN gone \cup {n} ELSE gone
  /\ apart' = IF req.at = "write" /\ n = Head(req.order) THEN apart \cup req.text ELSE apart
  /\ UNCHANGED <<source, store, stray, pictures, req, made, runs, late, over, met>>

\* A program puts a file into the destination's folder.
PutFile(path, m) ==
  /\ User
  /\ path \notin PathsOf(dst) \cup DOMAIN stray /\ m \notin made
  /\ made' = made \cup {m}
  /\ stray' = [p \in DOMAIN stray \cup {path} |->
       IF p = path THEN [id |-> None, text |-> {m}, pic |-> None, means |-> None] ELSE stray[p]]
  /\ UNCHANGED <<source, dst, store, pictures, req, runs, late, apart, over, cut, gone, met>>

\* The destination takes it in.
TakeIn(path) ==
  /\ path \in DOMAIN stray
  /\ Adopt(path, stray[path])
  /\ stray' = [p \in DOMAIN stray \ {path} |-> stray[p]]
  /\ UNCHANGED <<source, pictures, req, history>>

\* Bytes b at a path, or nothing.
With(pics, path, b) ==
  [p \in (DOMAIN pics \cup {path}) \ {q \in {path} : b = None} |->
     IF p = path THEN b ELSE pics[p]]

\* A picture comes to the destination's disk, is replaced there, or goes: `store_attachment`, to a
\* path that is free, `put_file`, `delete_file`, a download, or a program.  The notes that name
\* the path mean it from then on.
PutPicture(path, b) ==
  /\ User
  /\ files' = With(files, path, b) /\ files' # files
  /\ dst' = [d \in DOMAIN dst |->
       IF dst[d].pic = path THEN [dst[d] EXCEPT !.means = b] ELSE dst[d]]
  /\ met' = IF Expects(path) /\ b = "dst" THEN met \cup {path} ELSE met
  /\ UNCHANGED <<source, store, stray, entries, req, made, runs, late, apart, over, cut, gone>>

\* The vault document names another picture at a path, or none: one that a note uses or its user
\* keeps was uploaded or deleted, one that none uses is dropped, or another replica's change
\* arrives.
NamePicture(path, b) ==
  /\ User
  /\ entries' = With(entries, path, b) /\ entries' # entries
  /\ UNCHANGED <<source, dst, store, stray, files, req, made, runs, late, apart, over, cut, gone, met>>

\* A window puts the picture into a note's text.
ShowPicture(n) ==
  /\ User
  /\ n \in DOMAIN dst \cap Pictured /\ dst[n].pic = None /\ Picture \in DOMAIN files
  /\ dst' = [dst EXCEPT ![n].pic = Picture, ![n].means = files[Picture]]
  /\ UNCHANGED <<source, store, stray, pictures, req, made, runs, late, apart, over, cut, gone, met>>

-----------------------------------------------------------------------------
(* The request.                                                            *)

\* The source is surveyed, if it is there.
Start ==
  /\ req.at = "idle" /\ ~ retired /\ runs < MaxRuns
  /\ runs' = runs + 1
  /\ \E order \in SetToSeqs(DOMAIN src) : req' = [Idle EXCEPT !.at = "survey", !.order = order]
  /\ late' = {}
  /\ UNCHANGED <<source, destination, made, ops, apart, over, cut, gone, met>>

\* The destination is, and the merge planned.
Plan ==
  /\ req.at = "survey"
  /\ \E to \in [ToSet(req.order) -> Paths] :
       /\ PlannedTo(to, req.order)
       /\ req' = [req EXCEPT !.at = "pictures", !.to = to, !.pic = PlanPicture]
  /\ met' = IF Overlooked(PlanPicture.to) THEN met \cup {PlanPicture.to} ELSE met
  /\ UNCHANGED <<source, destination, made, runs, ops, late, apart, over, cut, gone>>

\* The picture is copied, unless the destination has it, or the source's disk has not; whatever
\* is there by now is written over: `merge_write` looks at notes' paths only.
CopyPicture ==
  /\ req.at = "pictures"
  /\ req' = [req EXCEPT !.at = "read"]
  /\ files' = IF req.pic.fate # "same" /\ srcPic THEN With(files, req.pic.to, "src") ELSE files
  /\ UNCHANGED <<source, dst, store, stray, entries, history>>

IsNext(n) == req.order # <<>> /\ n = Head(req.order)

\* The next note's file is read.
ReadNote(n) ==
  /\ req.at = "read" /\ IsNext(n)
  /\ n \in DOMAIN src /\ src[n].onDisk
  /\ req' = [req EXCEPT !.at = "state", !.text = src[n].file, !.named = src[n].named]
  /\ late' = late \cup (Text(src[n].doc) \ src[n].file)
  /\ apart' = apart \cup (src[n].file \ Text(src[n].doc))
  /\ UNCHANGED <<source, destination, made, runs, ops, over, cut, gone, met>>

\* Mutant: the note's history stays behind.
CarryNothing(n) ==
  /\ req.at = "state" /\ IsNext(n)
  /\ req' = [req EXCEPT !.at = "write"]
  /\ UNCHANGED <<source, destination, history>>

\* Its history, if the source still has it, goes first; a destination that has the note does not
\* take it.
CarryState(n) ==
  /\ req.at = "state" /\ IsNext(n)
  /\ store' = IF n \in DOMAIN src /\ n \notin DOMAIN dst
                THEN [store EXCEPT ![n] = Join(@, src[n].doc)] ELSE store
  /\ req' = [req EXCEPT !.at = "write"]
  /\ UNCHANGED <<source, dst, stray, pictures, history>>

\* Mutant: the note goes on naming the old path.
PictureNotRewritten == Picture

\* `rewrite_references`: the note names its picture's new path.
PictureRewritten == IF req.pic.fate = "renamed" THEN req.pic.to ELSE Picture

\* The note is written at its path, unless a note of the destination is there by now.
WriteNote(n) ==
  /\ req.at = "write" /\ IsNext(n)
  /\ LET pic == IF n \in Pictured THEN PictureRewritten ELSE None IN
     MergeWrite(req.to[n],
       [id |-> IF req.named THEN n ELSE None, text |-> req.text, pic |-> pic,
        means |-> IF n \in Pictured /\ pic \in DOMAIN files THEN "src" ELSE None])
  /\ req' = [req EXCEPT !.at = "read", !.order = Tail(@)]
  /\ over' = over \cup UNION {stray[p].text : p \in {req.to[n]} \cap DOMAIN stray}
  /\ UNCHANGED <<source, made, runs, ops, late, apart, cut, gone, met>>

\* Mutant: the ids are not looked for.
LandedAnyway ==
  /\ req.at = "read" /\ req.order = <<>>
  /\ req' = [req EXCEPT !.at = "retire"]
  /\ UNCHANGED <<source, destination, history>>

\* "Nothing is deleted until the destination holds every note under its own id."
CheckLanded ==
  /\ req.at = "read" /\ req.order = <<>>
  /\ DOMAIN req.to \subseteq DOMAIN dst
  /\ req' = [req EXCEPT !.at = "retire"]
  /\ UNCHANGED <<source, destination, history>>

\* `retire`: everything the source has by now is removed, and its engine ends.
Retire ==
  /\ req.at = "retire"
  /\ retired' = TRUE
  /\ req' = [Idle EXCEPT !.to = req.to]
  /\ UNCHANGED <<src, srcPic, destination, history>>

\* A question fails or is refused, or whoever asked goes away: the request ends where it is.
Fail ==
  /\ req.at # "idle"
  /\ req' = Idle
  /\ UNCHANGED <<source, destination, history>>

PictureStep ==
  \/ \E path \in {Picture, Suffixed}, b \in Bytes \cup {None} :
       PutPicture(path, b) \/ NamePicture(path, b)
  \/ \E n \in Ids \cup Own : ShowPicture(n)
RequestStep(n) == ReadNote(n) \/ CarryState(n) \/ WriteNote(n)

Wanted == {Home[n] : n \in Ids \cup Own}

MergeNext ==
  \/ \E n \in Ids : CreateNote(n) \/ Settle(n) \/ DeleteFromSource(n) \/ RequestStep(n)
  \/ \E n \in Ids, m \in Marks : Type(n, m) \/ \E named \in BOOLEAN : SaveFile(n, m, named)
  \/ FetchPicture
  \/ \E n \in Ids \cup Own \cup Spare : DeleteThere(n) \/ \E m \in Marks : TypeThere(n, m)
  \/ \E n \in Own, path \in Wanted : CreateThere(n, path)
  \/ PictureStep
  \/ \E path \in Wanted : TakeIn(path) \/ \E m \in Marks : PutFile(path, m)
  \/ Start \/ Plan \/ CopyPicture \/ CheckLanded \/ Retire \/ Fail

MergeSpec == MergeInit /\ [][MergeNext]_mergeVars

-----------------------------------------------------------------------------
Notes == Ids \cup Own \cup Spare
File == [id : Ids \cup {None}, text : SUBSET Marks, pic : PicturePaths \cup {None},
         means : Bytes \cup {None}]

MergeTypeOK ==
  /\ DOMAIN src \subseteq Ids
  /\ src \in [DOMAIN src -> [doc : Doc, file : SUBSET Marks, named : BOOLEAN, onDisk : BOOLEAN]]
  /\ srcPic \in BOOLEAN /\ retired \in BOOLEAN
  /\ DOMAIN dst \subseteq Notes
  /\ dst \in [DOMAIN dst -> [path : Paths, doc : Doc, pic : PicturePaths \cup {None},
                             means : Bytes \cup {None}]]
  /\ store \in [Notes -> Doc]
  /\ DOMAIN stray \subseteq Paths /\ stray \in [DOMAIN stray -> File]
  /\ DOMAIN files \subseteq PicturePaths /\ files \in [DOMAIN files -> Bytes]
  /\ DOMAIN entries \subseteq PicturePaths /\ entries \in [DOMAIN entries -> Bytes]
  /\ req.at \in {"idle", "survey", "pictures", "read", "state", "write", "retire"}
  /\ DOMAIN req.to \subseteq Ids /\ req.to \in [DOMAIN req.to -> Paths]
  /\ runs \in 0 .. MaxRuns /\ ops \in 0 .. MaxOps
  /\ UNION {made, late, apart, over, cut} \subseteq Marks /\ gone \subseteq Notes
  /\ met \subseteq PicturePaths

SourceHas == IF retired THEN {} ELSE UNION {Text(src[n].doc) \cup src[n].file : n \in DOMAIN src}
DestinationHas ==
  UNION ({Text(dst[n].doc) : n \in DOMAIN dst} \cup {stray[p].text : p \in DOMAIN stray})

\* A merge, carried through, repeated or given up anywhere, loses no text of either vault, whatever
\* is written, made or deleted in either meanwhile: but for what comes to a note of the source
\* after the request read its file, what a window typed that the file did not have yet, and a
\* file that a program put where a note was about to land.
NothingLost == MergeTypeOK /\ made \ (late \cup over \cup cut) \subseteq SourceHas \cup DestinationHas

\* merge_vaults: "Nothing is deleted until the destination holds every note under its own id".
OwnIds == retired => DOMAIN req.to \subseteq DOMAIN dst \cup gone

\* A note shows the picture it showed in its own vault, those of the destination too, whatever
\* pictures come and go there: but for one at a path the merge uses for its own, that its plan
\* did not know of or that came after it (`met`).
PicturesResolve ==
  \A n \in {d \in DOMAIN dst : dst[d].means # None /\ dst[d].pic \notin met} :
    dst[n].pic \in DOMAIN files /\ files[dst[n].pic] = dst[n].means

\* When the note's copies meet, in a server that had the source's, nothing is in it twice: but for
\* a save that the request read before the source had taken it in.
OnceOnly ==
  \A n \in DOMAIN dst \cap DOMAIN src : Twice(Join(dst[n].doc, src[n].doc)) \subseteq apart

\* What a merge carries is the notes themselves: with their ids, their pictures and their history.
CarriedWhole == OwnIds /\ PicturesResolve /\ OnceOnly
=============================================================================
