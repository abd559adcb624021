----------------------------- MODULE ServerLink -----------------------------
(***************************************************************************)
(* A vault folder and its server (crates/core/src/client.rs): how an       *)
(* engine joins, leaves and joins again, and how a file that names a note  *)
(* of which this folder has no history waits for the server's copy before  *)
(* it is taken in.  One note and the vault document's entry for it; other  *)
(* replicas edit both directly at the server.                              *)
(*                                                                         *)
(* The engine is one task: a handler is an operator from its state `e` to  *)
(* the next, and an action installs what the outermost one returns.  What  *)
(* it sends goes into `e.up`, and from there to the server in order; what  *)
(* the server sends comes back in order through `down`.  A connection can  *)
(* end at any moment, with whatever is in either direction.  The document  *)
(* in memory and its journal are the same thing here: crashes inside a     *)
(* handler are NoteFile's, the server's own failures Relay's.              *)
(*                                                                         *)
(* The entry of the vault document is a map's: `by` is the chain of those  *)
(* who set it, each knowing what it replaced.  Of two set without knowing  *)
(* of each other the one with the greater client id wins, for good.        *)
(***************************************************************************)
EXTENDS Texts, Naturals, Sequences, FiniteSets

CONSTANTS
  Old,       \* the text a copy of the folder from elsewhere has
  NoText,    \* no file, or none written or read yet
  MaxActs,    \* bound: edits, files put and removed, notes removed and restored
  MaxBreaks  \* bound: connections that end, and times the engine is stopped

ASSUME LinkAssumption ==
  /\ Old \subseteq Marks /\ Old # {}
  /\ Places = {"here", "there"}
  /\ {MaxActs, MaxBreaks} \subseteq Nat
  /\ \A text \in SUBSET Marks : text # NoText

VARIABLES
  e,         \* the engine, its sidecar and its folder
  running,
  once,      \* started with --once
  outcome,   \* "open", or what such a run reported: "synced" or "failed"
  link,      \* whether the connection is up
  down,      \* frames on their way from the server
  srv,       \* the server's documents
  subs,      \* those the connection is subscribed to
  role,      \* what the server allows this user
  first,     \* the replica whose client id is the greater
  made, cut, \* history: marks written, and those somebody meant to take out
  acts, breaks

server == <<srv, subs>>
fixed == <<once, role, first>>
meant == <<made, cut>>
bounds == <<acts, breaks>>
linkVars == <<e, running, outcome, link, down, server, fixed, meant, bounds>>

-----------------------------------------------------------------------------
(* The entry of the vault document.                                        *)
NoEntry == [by |-> <<>>, listed |-> FALSE]

\* Which of two entries is the one the map shows when both are in it.
Prefers(a, b) ==
  LET k == CHOOSE i \in 1 .. Len(a.by) + 1 :
             /\ \A j \in 1 .. i - 1 : j <= Len(b.by) /\ a.by[j] = b.by[j]
             /\ \/ i > Len(a.by) \/ i > Len(b.by)
                \/ a.by[i] # b.by[i]
  IN k <= Len(a.by) /\ (k > Len(b.by) \/ a.by[k] = first)

JoinEntry(a, b) ==
  IF a.by = b.by THEN [a EXCEPT !.listed = a.listed /\ b.listed]
  ELSE IF Prefers(a, b) THEN a ELSE b

SetEntry(entry, place) == [by |-> Append(entry.by, place), listed |-> TRUE]

-----------------------------------------------------------------------------
(* Frames.                                                                 *)
Ask(of) == [of |-> of, kind |-> "step1"]
Answer(of, data) == [of |-> of, kind |-> "step2", data |-> data]
Refusal(of) == [of |-> of, kind |-> "auth"]

\* An edit holds what it changed; a replica that lacks what it was made on puts it by until it has.
Update(old, new) ==
  [of |-> "note", kind |-> "update", on |-> old.ins,
   data |-> [ins |-> new.ins \ old.ins, del |-> new.del \ old.del]]
EntryUpdate(entry) == [of |-> "vault", kind |-> "update", data |-> entry]

Joined(doc, frame) ==
  IF frame.kind = "update" /\ ~ (frame.on \subseteq doc.ins) THEN doc ELSE Join(doc, frame.data)

\* What the server lets this user do.
MayRead(of) == role # "outsider" \/ of = "vault"
MayWrite(of) == role = "editor" \/ (role = "outsider" /\ of = "vault")

-----------------------------------------------------------------------------
(* The engine.                                                             *)

\* To the server only, if there is a connection.
Send(s, frame) == IF s.out THEN [s EXCEPT !.up = Append(@, frame)] ELSE s

\* `handshake`: the server is asked, and has not answered.
Handshake(s, of) ==
  IF s.out THEN [Send(s, Ask(of)) EXCEPT !.hs[of] = "sent"] ELSE s

\* The document changes here: it is journaled and the change sent.
Edited(s, doc) ==
  IF doc = s.doc THEN s ELSE [Send(s, Update(s.doc, doc)) EXCEPT !.doc = doc]

\* `set_path`, `remove` and `persist_and_send`.
Entered(s, entry) ==
  IF entry = s.vault THEN s ELSE [Send(s, EntryUpdate(entry)) EXCEPT !.vault = entry]

\* Mutant: a file is put into whatever document there is.
WaitsForNothing(s) == FALSE

\* A file whose note has no history here, though the server may well have one.
WaitsForServer(s) == s.doc = Empty

\* `local_create` of a file that names the note.
LocalCreate(s) ==
  LET waits == WaitsForServer(s)
      doc == IF waits THEN s.doc ELSE SetText(s.doc, s.file, "here")
      entry == IF s.vault.listed THEN s.vault ELSE SetEntry(s.vault, "here")
      asked == Handshake(Entered([s EXCEPT !.known = TRUE, !.proj = s.file], entry), "note")
  IN [Edited(asked, doc) EXCEPT !.awaiting = @ \/ waits,
                                !.overruled = @ \cup (Text(s.doc) \ Text(doc))]

\* `finish_adoption`: the server has answered, and the file is an edit of what it had.
FinishAdoption(s) ==
  IF ~ s.awaiting THEN s
  ELSE IF ~ s.known THEN [s EXCEPT !.awaiting = FALSE]
  ELSE IF s.file = NoText THEN [s EXCEPT !.awaiting = FALSE, !.dirty = TRUE]
  ELSE [Edited(s, SetText(s.doc, s.file, "here")) EXCEPT
          !.awaiting = FALSE, !.proj = s.file,
          !.overruled = @ \cup (Text(s.doc) \ s.file)]

\* History: the file is taken in though the server has not answered,
TooEarly(s) == [s EXCEPT !.early = @ \/ s.awaiting]

\* or the document begins here, though the server has the text of a folder's copy.
Begun(s) == [s EXCEPT !.early = @ \/ (s.doc = Empty /\ (Old \X {"there"}) \cap srv.doc.ins # {})]

Base(s) == IF s.proj = NoText THEN {} ELSE s.proj

\* `local_edit`: what changed in the file since it was last written or read changes in the document.
LocalEdit(s) ==
  IF s.awaiting \/ s.file = Base(s) THEN s
  ELSE LET doc == [ins |-> s.doc.ins \cup {<<m, "here">> : m \in s.file \ Base(s)},
                   del |-> s.doc.del \cup {i \in s.doc.ins : i[1] \in Base(s) \ s.file}]
       IN [Edited(Begun(s), doc) EXCEPT !.proj = s.file, !.dirty = @ \/ Text(doc) # s.file]

\* `ingest_unsaved`, before a file is written or removed.
IngestUnsaved(s) ==
  IF s.known /\ s.proj # NoText /\ s.file # NoText /\ s.file # s.proj
    THEN [LocalEdit(s) EXCEPT !.touched = FALSE] ELSE s

\* `project`: "never projected while waiting: the file is the truth until then".  Otherwise the
\* document's text goes to the file, unless it is there.
Project(s) ==
  LET t == IngestUnsaved([s EXCEPT !.dirty = FALSE]) IN
  IF s.awaiting THEN [s EXCEPT !.dirty = FALSE]
  ELSE IF ~ t.known \/ (t.proj = Text(t.doc) /\ t.file # NoText) THEN t
  ELSE [t EXCEPT !.proj = Text(t.doc), !.file = Text(t.doc)]

\* `forget`: the journal stays.
Forget(s) == [s EXCEPT !.known = FALSE, !.proj = NoText, !.dirty = FALSE, !.hs["note"] = "none"]

\* A note removed elsewhere: its file is taken in, and goes if it is one this engine wrote or read.
\* One that waits is not waited for: its text goes into the document as it is.
Gone(s) ==
  LET t == IngestUnsaved(FinishAdoption(TooEarly(s))) IN
  Forget([t EXCEPT !.file = IF t.proj # NoText THEN NoText ELSE @])

\* A note new here.
NewNote(s) == Handshake([s EXCEPT !.known = TRUE, !.dirty = TRUE], "note")

\* `reconcile_vault`: a file not taken in yet is, before the vault's note lands on it.
ReconcileVault(s) ==
  IF s.vault.listed /\ ~ s.known
    THEN IF s.file # NoText THEN [LocalCreate(s) EXCEPT !.touched = FALSE] ELSE NewNote(s)
  ELSE IF s.known /\ ~ s.vault.listed THEN Gone(s)
  ELSE s

\* `process_path`.
ProcessPath(s) ==
  IF s.file # NoText THEN IF s.known THEN LocalEdit(s) ELSE LocalCreate(s)
  ELSE [s EXCEPT !.removal = @ \/ s.known]

\* `finalize_removals`: unless the file is back, its note is trashed.
FinalizeRemovals(s) ==
  IF ~ s.removal THEN s
  ELSE LET t == [s EXCEPT !.removal = FALSE] IN
       IF s.file # NoText THEN t
       ELSE Entered(Forget(t), [t.vault EXCEPT !.listed = FALSE])

\* `open` and `reconcile_disk`: the folder as it is now, against what the sidecar remembers.
Opened(s) ==
  LET t == [s EXCEPT !.awaiting = s.known /\ s.doc = Empty /\ s.proj \notin {NoText, {}}]
      u == IF t.known /\ t.file = NoText
             THEN IF t.proj # NoText THEN [t EXCEPT !.removal = TRUE] ELSE [t EXCEPT !.dirty = TRUE]
             ELSE t
  IN FinalizeRemovals(IF u.file = NoText THEN u ELSE ProcessPath(u))

\* Mutant: the server's answer ends a handshake, though it does not have ours.
DoneWithAnswer(s, of) == IF s.hs[of] = "sent" THEN [s EXCEPT !.hs[of] = "done"] ELSE s

\* A handshake the server has answered, whichever way.
Advance(s, of) == IF s.hs[of] = "sent" THEN [s EXCEPT !.hs[of] = "step2"] ELSE s

\* `try_handle_frame`, of a frame from the server.
HandleFrame(s, f) ==
  IF f.of = "note" /\ ~ s.known THEN s
  ELSE CASE f.kind = "step1" ->
         LET t == [Send(s, Answer(f.of, IF f.of = "vault" THEN s.vault ELSE s.doc))
                     EXCEPT !.hs[f.of] = "done"]
         IN IF f.of = "vault" THEN ReconcileVault(t) ELSE t
    [] f.kind \in {"step2", "update"} /\ f.of = "vault" ->
         LET entry == JoinEntry(s.vault, f.data)
             t == IF entry = s.vault THEN s ELSE ReconcileVault([s EXCEPT !.vault = entry])
         IN Advance(t, "vault")
    [] f.kind \in {"step2", "update"} /\ f.of = "note" ->
         LET doc == Joined(s.doc, f)
             t == Advance([s EXCEPT !.doc = doc, !.dirty = @ \/ doc # s.doc], "note")
         IN IF f.kind = "step2" THEN FinishAdoption(t) ELSE t
    [] f.kind = "auth" ->   \* also of a write, by somebody who may read
         IF f.of # "note" THEN s
         ELSE FinishAdoption(IF MayRead("note") THEN TooEarly(s) ELSE s)

\* Mutant: only the vault is asked for.
ConnectedVaultOnly(s) ==
  Handshake([s EXCEPT !.out = TRUE, !.hs = [of \in {"vault", "note"} |-> "none"]], "vault")

\* `on_connect`: everything is asked for, the vault first.
Connected(s) ==
  LET t == Handshake([s EXCEPT !.out = TRUE, !.hs = [of \in {"vault", "note"} |-> "none"]], "vault")
  IN IF s.known THEN Handshake(t, "note") ELSE t

\* `on_disconnect`.
Disconnected(s) == [s EXCEPT !.out = FALSE, !.up = <<>>, !.hs = [of \in {"vault", "note"} |-> "none"]]

\* `is_idle`: nothing left to do, as far as this replica knows.
IsIdle(s) ==
  /\ s.out /\ ~ s.awaiting
  /\ \A of \in {"vault", "note"} : s.hs[of] \in {"none", "done"}
  /\ ~ (s.dirty \/ s.touched \/ s.removal)

-----------------------------------------------------------------------------
(* What runs.                                                              *)
Engine == running /\ UNCHANGED <<running, once, role, first, outcome>>

\* The engine is started on a folder that has a file of the note or not, and a sidecar that has
\* its history, or that is fresh; the server knows the note or not, or has it in its trash.
LinkInit ==
  /\ once \in BOOLEAN /\ role \in {"editor", "viewer", "outsider"} /\ first \in Places
  /\ \E there \in {Empty, [ins |-> Old \X {"there"}, del |-> {}]}, listed \in BOOLEAN,
        sidecar \in BOOLEAN, file \in {Old, NoText} :
       /\ listed => there # Empty
       /\ sidecar => there # Empty
       /\ srv = [doc |-> there,
                 vault |-> IF there = Empty THEN NoEntry ELSE [by |-> <<"there">>, listed |-> listed]]
       /\ e = [file |-> file,
               proj |-> IF sidecar THEN Old ELSE NoText,
               doc |-> IF sidecar THEN there ELSE Empty,
               vault |-> IF sidecar THEN [by |-> <<"there">>, listed |-> TRUE] ELSE NoEntry,
               known |-> sidecar, awaiting |-> FALSE, dirty |-> FALSE, touched |-> FALSE,
               removal |-> FALSE, out |-> FALSE, up |-> <<>>,
               hs |-> [of \in {"vault", "note"} |-> "none"],
               early |-> FALSE, overruled |-> {}]
       /\ made = (IF file = NoText THEN {} ELSE Old) \cup (IF there = Empty THEN {} ELSE Old)
  /\ running = FALSE
  /\ outcome = "open"
  /\ link = FALSE /\ down = <<>> /\ subs = {}
  /\ cut = {}
  /\ acts = 0 /\ breaks = 0

\* The engine starts.
Launch ==
  /\ ~ running /\ outcome = "open"
  /\ running' = TRUE
  /\ UNCHANGED <<outcome, link, down, server, fixed, meant, bounds>>
  /\ e' = Opened(e)

\* It is stopped, by whoever started it, between two handlers; what is under way is lost.  Not while a
\* file is behind its document: it would stay so (NoteFile).
Stop ==
  /\ running /\ ~ once /\ breaks < MaxBreaks
  /\ e.dirty => e.proj = NoText
  /\ breaks' = breaks + 1
  /\ running' = FALSE
  /\ e' = [Disconnected(e) EXCEPT
             !.awaiting = FALSE, !.dirty = FALSE, !.touched = FALSE, !.removal = FALSE,
             !.early = @ \/ (e.awaiting /\ e.doc # Empty)]
  /\ link' = FALSE /\ down' = <<>> /\ subs' = {}
  /\ UNCHANGED <<outcome, srv, fixed, meant, acts>>

Connect ==
  /\ running /\ ~ link
  /\ link' = TRUE
  /\ UNCHANGED <<running, outcome, down, server, fixed, meant, bounds>>
  /\ e' = Connected(e)

\* The connection ends; a run with --once fails, any other connects again.
Drop ==
  /\ link /\ running /\ breaks < MaxBreaks
  /\ breaks' = breaks + 1
  /\ link' = FALSE /\ down' = <<>> /\ subs' = {}
  /\ e' = Disconnected(e)
  /\ running' = ~ once
  /\ outcome' = IF once THEN "failed" ELSE outcome
  /\ UNCHANGED <<srv, fixed, meant, acts>>

\* A run with --once ends when there is nothing left to do.  What it has written goes out.
Finish ==
  /\ running /\ once /\ IsIdle(e)
  /\ UNCHANGED <<e, link, down, server, fixed, meant, bounds>>
  /\ outcome' = "synced"
  /\ running' = FALSE

\* The next frame from the server is handled.
HandleNext ==
  /\ Engine
  /\ down # <<>>
  /\ down' = Tail(down)
  /\ UNCHANGED <<link, server, meant, bounds>>
  /\ e' = HandleFrame(e, Head(down))

\* A tick takes in a touched file,
TakeTouched ==
  /\ Engine
  /\ e.touched
  /\ UNCHANGED <<link, down, server, meant, bounds>>
  /\ e' = ProcessPath([e EXCEPT !.touched = FALSE])

\* or gives up waiting for one that went,
Removed ==
  /\ Engine
  /\ e.removal
  /\ UNCHANGED <<link, down, server, meant, bounds>>
  /\ e' = FinalizeRemovals(e)

\* or writes one whose document changed.
Write ==
  /\ Engine
  /\ e.dirty
  /\ UNCHANGED <<link, down, server, meant, bounds>>
  /\ e' = Project(e)

\* The server takes the next frame: a question is answered and asked back, an edit applied, unless
\* the user may not.
ServeFrame ==
  /\ e.up # <<>>
  /\ UNCHANGED <<running, outcome, link, fixed, meant, bounds>>
  /\ LET f == Head(e.up) IN
     /\ e' = [e EXCEPT !.up = Tail(@)]
     /\ IF f.kind = "step1" /\ MayRead(f.of)
          THEN /\ subs' = subs \cup {f.of}
               /\ down' = down \o
                    <<Answer(f.of, IF f.of = "vault" THEN srv.vault ELSE srv.doc), Ask(f.of)>>
               /\ UNCHANGED srv
        ELSE IF f.kind # "step1" /\ MayWrite(f.of)
          THEN /\ subs' = subs \cup {f.of}
               /\ srv' = IF f.of = "vault" THEN [srv EXCEPT !.vault = JoinEntry(@, f.data)]
                         ELSE [srv EXCEPT !.doc = Joined(@, f)]
               /\ UNCHANGED down
        ELSE /\ down' = Append(down, Refusal(f.of))
             /\ UNCHANGED server

-----------------------------------------------------------------------------
(* What others do.                                                         *)
User ==
  /\ outcome = "open" /\ acts < MaxActs
  /\ acts' = acts + 1
  /\ UNCHANGED <<running, outcome, link, fixed, breaks>>

\* A program writes a mark into the file, or takes one out.
Save ==
  /\ User
  /\ e.file # NoText
  /\ \/ \E m \in Marks \ made :
          /\ e' = [e EXCEPT !.file = @ \cup {m}, !.touched = running]
          /\ made' = made \cup {m}
          /\ UNCHANGED cut
     \/ \E m \in e.file :
          /\ e.file # {m}
          /\ e' = [e EXCEPT !.file = @ \ {m}, !.touched = running]
          /\ cut' = cut \cup {m}
          /\ UNCHANGED made
  /\ UNCHANGED <<down, server>>

\* It removes the file, with what was not taken in.
Delete ==
  /\ User
  /\ e.file # NoText
  /\ e' = [e EXCEPT !.file = NoText, !.touched = running]
  /\ cut' = cut \cup e.file
  /\ UNCHANGED <<down, server, made>>

\* A copy of the note's file comes from elsewhere, where the engine does not have the note; not while
\* it waits for a removed file's other half.
Bring ==
  /\ User
  /\ e.file = NoText /\ ~ e.known /\ ~ e.removal
  /\ (Old \X {"here"}) \cap e.doc.ins = {}
  /\ e' = [e EXCEPT !.file = Old, !.touched = running]
  /\ made' = made \cup Old
  /\ UNCHANGED <<down, server, cut>>

\* A window of this machine writes.
Type ==
  /\ User
  /\ running /\ e.known
  /\ \E m \in Marks \ made :
       /\ e' = [Edited(Begun(e), [e.doc EXCEPT !.ins = @ \cup {<<m, "here">>}]) EXCEPT !.dirty = TRUE]
       /\ made' = made \cup {m}
  /\ UNCHANGED <<down, server, cut>>

ToSubscriber(frame) == down' = IF frame.of \in subs THEN Append(down, frame) ELSE down

\* Another replica writes, or takes out what is there.
RemoteEdit ==
  /\ User
  /\ srv.vault.listed
  /\ \E doc \in {[srv.doc EXCEPT !.ins = @ \cup {<<m, "there">>}] : m \in Marks \ made}
              \cup {[srv.doc EXCEPT !.del = @ \cup {i}] : i \in Shown(srv.doc)} :
       /\ srv' = [srv EXCEPT !.doc = doc]
       /\ made' = made \cup Text(doc)
       /\ cut' = cut \cup (Text(srv.doc) \ Text(doc))
       /\ ToSubscriber(Update(srv.doc, doc))
  /\ UNCHANGED <<e, subs>>

\* Another replica removes the note, or puts it back.
RemoteEntry ==
  /\ User
  /\ srv.vault.by # <<>>
  /\ LET entry == IF srv.vault.listed THEN [srv.vault EXCEPT !.listed = FALSE]
                  ELSE SetEntry(srv.vault, "there") IN
     /\ srv' = [srv EXCEPT !.vault = entry]
     /\ ToSubscriber(EntryUpdate(entry))
  /\ UNCHANGED <<e, subs, meant>>

Others == Save \/ Delete \/ Bring \/ Type \/ RemoteEdit \/ RemoteEntry
Works == HandleNext \/ TakeTouched \/ Removed \/ Write
Runs == Launch \/ Connect \/ Finish \/ Works
LinkNext == Runs \/ ServeFrame \/ Stop \/ Drop \/ Others

\* The engine's loop goes round while there is something to do, connecting again never gives up,
\* whoever started the engine starts it again, and the server serves.
Fairness == WF_linkVars(Runs) /\ WF_linkVars(ServeFrame)

LinkSpec == LinkInit /\ [][LinkNext]_linkVars /\ Fairness

-----------------------------------------------------------------------------
Phases == {"none", "sent", "step2", "done"}
Entries == [by : Seq(Places), listed : BOOLEAN]

LinkType ==
  /\ \A text \in {e.file, e.proj} : text = NoText \/ text \subseteq Marks
  /\ e.doc \in Doc /\ srv.doc \in Doc
  /\ e.vault \in Entries /\ srv.vault \in Entries
  /\ {e.known, e.awaiting, e.dirty, e.touched, e.removal, e.out, e.early} \subseteq BOOLEAN
  /\ e.hs \in [{"vault", "note"} -> Phases]
  /\ {running, once, link} \subseteq BOOLEAN /\ outcome \in {"open", "synced", "failed"}
  /\ subs \subseteq {"vault", "note"}
  /\ role \in {"editor", "viewer", "outsider"} /\ first \in Places
  /\ made \subseteq Marks /\ cut \subseteq Marks
  /\ running => e.out = link
  /\ acts \in 0 .. MaxActs /\ breaks \in 0 .. MaxBreaks

InFile == IF e.file = NoText THEN {} ELSE e.file

\* A file whose note this folder has no history of is taken in once: with the server's history, when
\* that comes, or as the note's beginning when there is none; nothing of the file or of the document
\* is lost on the way, but what somebody took out and what a waiting file did not have.  Save where
\* the file had to be taken in before the server answered.
TakenInOnce ==
  /\ LinkType
  /\ \/ e.early
     \/ /\ Twice(e.doc) = {}
        /\ MayRead("note") => Twice(Join(e.doc, srv.doc)) = {}
        /\ made \ (cut \cup e.overruled) \subseteq InFile \cup Text(e.doc) \cup Text(srv.doc)

\* What is on its way to the server.
OnItsWay(of) == {e.up[i].data : i \in {k \in DOMAIN e.up : e.up[k].of = of /\ e.up[k].kind # "step1"}}

\* A run with --once that says it is done has handed the server everything it has, of the notes that
\* are not in the trash.
OnceIsSynced ==
  outcome = "synced" /\ role = "editor" =>
    /\ e.known =>
         /\ e.doc.ins \subseteq srv.doc.ins \cup UNION {d.ins : d \in OnItsWay("note")}
         /\ e.doc.del \subseteq srv.doc.del \cup UNION {d.del : d \in OnItsWay("note")}
    /\ \E entry \in {srv.vault} \cup OnItsWay("vault") : JoinEntry(e.vault, entry) = entry

\* A note whose file is removed while it waits is forgotten, but not that it waited.
Forgotten == e.awaiting /\ ~ e.known

AtRest ==
  /\ e.awaiting => Forgotten
  /\ e.known = e.vault.listed
  /\ e.known => e.early \/ e.file = Text(e.doc)
  /\ JoinEntry(e.vault, srv.vault) = e.vault
  /\ MayWrite("vault") => e.vault = srv.vault
  /\ e.known /\ MayRead("note") => Within(srv.doc, e.doc)
  /\ e.known /\ MayWrite("note") => Within(e.doc, srv.doc)

\* Whatever was edited where, in the end the folder, its documents and the server agree, as far as
\* the user may read and write; no file waits for ever; and a run with --once ends, unless it still
\* waits for a note it has forgotten, or one the server refuses.
Settles ==
  <>[](outcome # "open" \/ (AtRest /\ (once => Forgotten \/ role = "outsider")))
=============================================================================
