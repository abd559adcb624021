------------------------------ MODULE WebSync -------------------------------
(***************************************************************************)
(* One note in the web client: when may a tab forget that it owes the      *)
(* server an edit?  The session (ui/src/lib/vault.svelte.ts) marks a note  *)
(* pending at its first local edit, keeps it subscribed while it is, and   *)
(* clears the mark when the socket client (ui/src/lib/sync.ts) says that   *)
(* the server has everything, which it works out by counting what it sent  *)
(* and asking with a SyncStep1.  The mark is in localStorage, the document *)
(* in IndexedDB; both outlive the tab.                                     *)
(*                                                                         *)
(* A document is the set of operations it holds, a state vector is that    *)
(* set.  The server takes the frames of a connection in order; what it     *)
(* does with them is Relay's subject and one step here.                    *)
(***************************************************************************)
EXTENDS Integers, Sequences

CONSTANTS
  Ops,       \* operations, each made once, here or elsewhere
  None,
  MaxDrops,  \* bound: connections lost
  MaxTabs,   \* bound: times the tab is closed and opened again
  MaxRoles,  \* bound: times the user is made a viewer, or an editor again
  SlowCache, \* whether IndexedDB may answer after the server has
  Reopens    \* whether a note may be opened again while the server's answer to its last opening
             \* is still on its way

ASSUME BoundAssumption ==
  /\ MaxDrops \in Nat /\ MaxTabs \in Nat /\ MaxRoles \in Nat
  /\ SlowCache \in BOOLEAN /\ Reopens \in BOOLEAN

Entries == [doc : SUBSET Ops, hydrated : BOOLEAN, synced : BOOLEAN, sent : Nat,
            probes : Seq(Nat), timer : BOOLEAN, denied : BOOLEAN]

ASSUME NoneAssumption == None \notin Entries

VARIABLES
  tab,       \* the tab is open
  online,    \* its socket is open
  entry,     \* the note's entry, or None when it is not subscribed
  viewed,    \* something shows the note
  pending,   \* the note is marked in localStorage as owed to the server
  cached,    \* the note in IndexedDB
  up, down,  \* frames in flight
  server,    \* the note on the server
  editor,    \* the user may write it
  made,      \* operations made so far, anywhere
  mine,      \* those made in this tab
  drops, tabs, roles

socket == <<online, up, down>>
bounds == <<drops, tabs, roles>>
vars == <<tab, entry, viewed, pending, cached, socket, server, editor, made, mine, bounds>>

Step1(ops) == [kind |-> "step1", ops |-> ops]
Update(ops) == [kind |-> "update", ops |-> ops]
Denied == [kind |-> "denied", ops |-> {}]
Frames == [kind : {"step1", "update", "denied"}, ops : SUBSET Ops]

Doc == IF entry = None THEN {} ELSE entry.doc

TypeOK ==
  /\ {tab, online, viewed, pending, editor} \subseteq BOOLEAN
  /\ entry = None \/ entry \in Entries
  /\ cached \subseteq made /\ server \subseteq made
  /\ mine \subseteq made /\ made \subseteq Ops
  /\ up \in Seq(Frames) /\ down \in Seq(Frames)
  /\ tab \/ ~ (online \/ viewed \/ entry # None)
  /\ viewed \/ (pending /\ tab) => entry # None
  /\ drops \in 0 .. MaxDrops /\ tabs \in 0 .. MaxTabs /\ roles \in 0 .. MaxRoles

Init ==
  /\ tab = TRUE /\ online = FALSE
  /\ entry = None /\ viewed = FALSE /\ pending = FALSE
  /\ cached = {} /\ server = {}
  /\ up = <<>> /\ down = <<>>
  /\ editor = TRUE
  /\ made = {} /\ mine = {}
  /\ drops = 0 /\ tabs = 0 /\ roles = 0
-----------------------------------------------------------------------------
(* The socket client *)

Sent(frames) == up' = IF online THEN up \o frames ELSE up

\* `probe`: remember how much had been sent when the question went out.
Probe(e) == [e EXCEPT !.probes = Append(@, e.sent)]

\* `handshake`: answers to earlier questions will never come.
Handshake(e) == Probe([e EXCEPT !.probes = <<>>, !.denied = FALSE])

\* `onUpdate`, for a change not from the socket: sent, counted (offline too), to be asked about.
Changed(e, ops) ==
  [e EXCEPT !.doc = @ \cup ops, !.sent = @ + 1, !.timer = TRUE]

\* `open`: a new entry, handshaken if online.  Its copy in IndexedDB arrives by itself.
Opened ==
  LET e == [doc |-> {}, hydrated |-> FALSE, synced |-> FALSE, sent |-> 0, probes |-> <<>>,
            timer |-> FALSE, denied |-> FALSE]
  IN IF online THEN Handshake(e) ELSE e

\* IndexedDB has answered for what is subscribed, or is slow enough for this not to matter.
CacheFirst == entry # None /\ ~ SlowCache => entry.hydrated

\* `onopen`: every subscribed document is handshaken.
Connect ==
  /\ tab /\ ~ online /\ CacheFirst
  /\ online' = TRUE
  /\ IF entry = None
       THEN up' = <<>> /\ UNCHANGED entry
       ELSE up' = <<Step1(entry.doc)>> /\ entry' = Handshake(entry)
  /\ down' = <<>>
  /\ UNCHANGED <<tab, viewed, pending, cached, server, editor, made, mine, bounds>>

\* `onclose`: of what was sent, the server handles no more than it has.
Drop ==
  /\ online /\ drops < MaxDrops
  /\ drops' = drops + 1
  /\ online' = FALSE /\ up' = <<>> /\ down' = <<>>
  /\ entry' = IF entry = None THEN None ELSE [entry EXCEPT !.synced = FALSE]
  /\ UNCHANGED <<tab, viewed, pending, cached, server, editor, made, mine, tabs, roles>>

\* The copy in IndexedDB arrives, which is a change not from the socket; what was edited before
\* it did goes into IndexedDB now.
Hydrate ==
  /\ entry # None /\ ~ entry.hydrated
  /\ cached' = cached \cup entry.doc
  /\ IF cached \subseteq entry.doc
       THEN entry' = [entry EXCEPT !.hydrated = TRUE] /\ UNCHANGED up
       ELSE /\ entry' = Changed([entry EXCEPT !.hydrated = TRUE], cached)
            /\ Sent(<<Update(cached \ entry.doc)>>)
  /\ UNCHANGED <<tab, viewed, pending, online, down, server, editor, made, mine, bounds>>

\* The timer of `scheduleProbe`: before the handshake is answered there is nothing to ask.
ProbeTimer ==
  /\ entry # None /\ entry.timer
  /\ LET e == [entry EXCEPT !.timer = FALSE] IN
     IF entry.synced /\ online
       THEN entry' = Probe(e) /\ Sent(<<Step1(entry.doc)>>)
       ELSE entry' = e /\ UNCHANGED up
  /\ UNCHANGED <<tab, viewed, pending, cached, online, down, server, editor, made, mine, bounds>>

\* Mutant: any answer will do, however much was sent after the question.
AnyAnswer(e) == e.probes # <<>>

\* Everything sent had been sent when the question now answered was asked.
AllAnswered(e) == e.probes # <<>> /\ Head(e.probes) = e.sent

\* `answered`, after sending `reply`: acknowledge, or ask again for what came since.
Answered(e, reply) ==
  LET rest == [e EXCEPT !.probes = IF @ = <<>> THEN @ ELSE Tail(@)]
      more == e.probes # <<>> /\ Head(e.probes) # e.sent /\ rest.probes = <<>>
  IN
  \/ /\ AllAnswered(e) /\ ~ e.denied
     /\ Sent(reply)
     /\ pending' = FALSE
     /\ entry' = IF pending /\ ~ viewed THEN None ELSE rest
  \/ /\ more
     /\ Sent(reply \o <<Step1(e.doc)>>)
     /\ entry' = Probe([rest EXCEPT !.timer = FALSE])
     /\ UNCHANGED pending
  \/ /\ ~ more /\ ~ (AllAnswered(e) /\ ~ e.denied)
     /\ Sent(reply)
     /\ entry' = rest
     /\ UNCHANGED pending

\* `handle`: the next frame from the server.
Receive ==
  /\ online /\ down # <<>> /\ CacheFirst
  /\ down' = Tail(down)
  /\ LET f == Head(down) IN
     \/ /\ entry = None
        /\ UNCHANGED <<entry, pending, cached, up>>
     \/ /\ entry # None /\ f.kind = "update"
        /\ entry' = [entry EXCEPT !.doc = @ \cup f.ops]
        /\ cached' = IF entry.hydrated THEN cached \cup f.ops ELSE cached
        /\ UNCHANGED <<pending, up>>
     \/ /\ entry # None /\ f.kind = "step1" /\ entry.synced
        /\ Answered(entry, <<>>)
        /\ UNCHANGED cached
     \/ /\ entry # None /\ f.kind = "step1" /\ ~ entry.synced
        /\ Answered([entry EXCEPT !.sent = @ + 1, !.synced = TRUE],
                    <<Update(entry.doc \ f.ops)>>)
        /\ UNCHANGED cached
     \/ /\ entry # None /\ f.kind = "denied"
        /\ entry' = [entry EXCEPT !.denied = TRUE]
        /\ UNCHANGED <<pending, cached, up>>
  /\ UNCHANGED <<tab, viewed, online, server, editor, made, mine, bounds>>
-----------------------------------------------------------------------------
(* The session *)

\* `acquire` with nothing subscribed: a document of its own, and a handshake if online.
Subscribe ==
  /\ entry' = Opened
  /\ up' = IF online THEN Append(up, Step1(Opened.doc)) ELSE up

\* A view opens the note.
View ==
  /\ tab /\ ~ viewed
  /\ viewed' = TRUE
  /\ \/ /\ entry = None
        /\ Reopens \/ (up = <<>> /\ down = <<>>)
        /\ Subscribe
     \/ entry # None /\ UNCHANGED <<entry, up>>
  /\ UNCHANGED <<tab, pending, cached, online, down, server, editor, made, mine, bounds>>

\* `release`: an unsent edit outranks the view.
Release ==
  /\ viewed
  /\ viewed' = FALSE
  /\ entry' = IF pending THEN entry ELSE None
  /\ UNCHANGED <<tab, pending, cached, socket, server, editor, made, mine, bounds>>

\* An edit in the view: marked, sent, counted, cached.
Edit(op) ==
  /\ viewed /\ op \notin made
  /\ made' = made \cup {op} /\ mine' = mine \cup {op}
  /\ pending' = TRUE
  /\ entry' = Changed(entry, {op})
  /\ cached' = IF entry.hydrated THEN cached \cup {op} ELSE cached
  /\ Sent(<<Update({op})>>)
  /\ UNCHANGED <<tab, viewed, online, down, server, editor, bounds>>

\* The tab goes; localStorage and IndexedDB stay.
CloseTab ==
  /\ tab /\ tabs < MaxTabs
  /\ tabs' = tabs + 1
  /\ tab' = FALSE /\ online' = FALSE /\ up' = <<>> /\ down' = <<>>
  /\ entry' = None /\ viewed' = FALSE
  /\ UNCHANGED <<pending, cached, server, editor, made, mine, drops, roles>>

\* Mutant: what is owed waits for someone to open the note.
OpenTabWaits ==
  /\ ~ tab
  /\ tab' = TRUE
  /\ UNCHANGED <<entry, viewed, pending, cached, socket, server, editor, made, mine, bounds>>

\* The session's constructor: what is owed is subscribed again, whether anything shows it or not.
OpenTab ==
  /\ ~ tab
  /\ tab' = TRUE
  /\ entry' = IF pending THEN Opened ELSE None
  /\ UNCHANGED <<viewed, pending, cached, socket, server, editor, made, mine, bounds>>
-----------------------------------------------------------------------------
(* The server and everyone else *)

\* The next frame of the connection: a SyncStep1 is answered, a write is applied or refused.
Serve ==
  /\ online /\ up # <<>>
  /\ up' = Tail(up)
  /\ LET f == Head(up) IN
     \/ /\ f.kind = "step1"
        /\ down' = down \o <<Update(server \ f.ops), Step1(server)>>
        /\ UNCHANGED server
     \/ /\ f.kind = "update" /\ editor
        /\ server' = server \cup f.ops
        /\ UNCHANGED down
     \/ /\ f.kind = "update" /\ ~ editor
        /\ down' = Append(down, Denied)
        /\ UNCHANGED server
  /\ UNCHANGED <<tab, entry, viewed, pending, cached, online, editor, made, mine, bounds>>

OtherEdit(op) ==
  /\ op \notin made
  /\ made' = made \cup {op}
  /\ server' = server \cup {op}
  /\ down' = IF online THEN Append(down, Update({op})) ELSE down
  /\ UNCHANGED <<tab, entry, viewed, pending, cached, online, up, editor, mine, bounds>>

ChangeRole ==
  /\ roles < MaxRoles
  /\ roles' = roles + 1
  /\ editor' = ~ editor
  /\ UNCHANGED <<tab, entry, viewed, pending, cached, socket, server, made, mine, drops, tabs>>

Next ==
  \/ Connect \/ Drop \/ Hydrate \/ ProbeTimer \/ Receive
  \/ View \/ Release \/ CloseTab \/ OpenTab
  \/ \E op \in Ops : Edit(op) \/ OtherEdit(op)
  \/ Serve \/ ChangeRole

\* The tab runs and comes back, the socket reconnects for ever, the server serves.
Fairness ==
  /\ WF_vars(Connect) /\ WF_vars(Hydrate) /\ WF_vars(ProbeTimer) /\ WF_vars(Receive)
  /\ WF_vars(OpenTab) /\ WF_vars(Serve)

Spec == Init /\ [][Next]_vars
FairSpec == Spec /\ Fairness
-----------------------------------------------------------------------------
\* What this tab made and still has.
Owed == mine \cap (Doc \cup cached)

\* An edit is never forgotten: the mark stays until the server has every edit made here, however
\* connections drop, views close, tabs close, and permissions change in between.
NothingForgotten == TypeOK /\ (pending \/ Owed \subseteq server)

\* Every edit made here reaches the server by itself, without anyone opening the note again, as long
\* as the user may write it all along.
EditsArrive == <>[](Owed \subseteq server) \/ <>(roles > 0)
=============================================================================
