------------------------------ MODULE LocalRelay ----------------------------
(***************************************************************************)
(* The relay of a desktop client (crates/core/src/local.rs, and the engine *)
(* and supervisor around it in client.rs): one process that serves every   *)
(* vault of the machine to the windows open on it.  Each window has one    *)
(* WebSocket for all vaults; each vault has an engine with a channel of    *)
(* its own; the relay sends a window's frame to the engine that owns the   *)
(* document, and holds the frames of a document nobody owns yet.           *)
(*                                                                         *)
(* A vault frame names its vault; a note frame does not, so the engines    *)
(* publish the notes they hold in a table.  Reading the table, holding the *)
(* frame, claiming a note, listing a window, announcing it, giving an      *)
(* engine a new channel and closing the windows are each atomic under a    *)
(* lock of their own, and nothing ties one to the next.                    *)
(*                                                                         *)
(* What a document holds is a set of items: of a note, the text it was     *)
(* created with; of a vault, the entries of its notes.                     *)
(* An answer to a SyncStep1 carries all the engine holds of the document,  *)
(* standing for the SyncStep2 and SyncStep1 sent together.                 *)
(***************************************************************************)
EXTENDS Naturals, Sequences, FiniteSets, SequencesExt

CONSTANTS
  Windows,     \* browser windows on the relay
  Slots,       \* connections a window can have open or ending at once
  Vaults,
  Notes,
  Home,        \* the vault each note is created in
  Start,       \* vaults open when the relay starts; the others a window creates
  None,
  PeerQueue,   \* PEER_QUEUE_BYTES, in frames
  MaxStops     \* bound: engines that stop with an error or a panic

ASSUME RelayAssumption ==
  /\ Home \in [Notes -> Vaults]
  /\ Vaults \cap Notes = {} /\ None \notin Vaults \cup (Windows \X Slots)
  /\ Start \subseteq Vaults /\ Start # {} /\ IsFiniteSet(Start)
  /\ PeerQueue \in Nat \ {0}
  /\ MaxStops \in Nat

Docs == Vaults \cup Notes
Peers == Windows \X Slots
Items == Notes \X {"text", "entry"}
DocOf(i) == IF i[2] = "entry" THEN Home[i[1]] ELSE i[1]
VaultOf(i) == Home[i[1]]
Part(items, d) == {i \in items : DocOf(i) = d}

Frame == [doc : Docs, ask : BOOLEAN, items : SUBSET Items]
Ask(d) == [doc |-> d, ask |-> TRUE, items |-> {}]
Update(d, items) == [doc |-> d, ask |-> FALSE, items |-> items]
Event == [kind : {"connected", "gone"}, peer : Peers]
           \cup [kind : {"frame", "released"}, peer : Peers, frame : Frame]

VARIABLES
  reg,      \* vaults in LocalState.engines
  owner,    \* RouteTable.owner: the vault that claimed a note, or None
  held,     \* RouteTable.held: frames waiting for a claim, oldest first
  wanted,   \* vaults the supervisor has been asked to open
  listed,   \* LocalState.peers
  full,     \* outboxes that refuse frames: overflowed or closed
  session,  \* peer_session of each connection: where it is, and a frame it is about to hold
  chan,     \* each engine's channel of LocalEvents
  engine,   \* "none"; "new", then "running" from its first event or tick; "stopped"; "renewed": a
            \* new channel, not started yet
  known,    \* Engine.peers
  subs,     \* Peer.subs
  dirty,    \* Engine.routes_dirty
  pending,  \* Engine.pending_docs
  memory,   \* what an engine's documents hold
  journal,  \* what its store holds
  conn,     \* the connection a window uses, or None
  open,     \* documents a window has open
  has,      \* what a window's documents hold
  mine,     \* what was made in it
  synced,   \* documents whose handshake was answered on this connection
  probe,    \* per document, the question not yet answered: what had been made by then
  acked,    \* what each window was told its engine has
  up, down, \* frames in flight, per connection
  stops,
  missed    \* history: a frame was sent to a vault its note is not of, held after its document
            \* had been claimed, released ahead of earlier ones of its note, or handled before its
            \* window had been heard of

relay == <<reg, owner, held, wanted, listed, full, session>>
engines == <<chan, engine, known, subs, dirty, pending, memory, journal>>
windows == <<conn, open, has, mine, synced, probe, acked>>
vars == <<relay, engines, windows, up, down, stops, missed>>

Where == {"free", "new", "listed", "open", "holding", "unlisted", "farewell"}

TypeOK ==
  /\ reg \subseteq Vaults /\ wanted \subseteq Vaults
  /\ owner \in [Notes -> Vaults \cup {None}]
  /\ held \in Seq([peer : Peers, frame : Frame])
  /\ listed \subseteq Peers /\ full \subseteq Peers
  /\ session \in [Peers -> [at : Where, frame : Frame \cup {None}]]
  /\ chan \in [Vaults -> Seq(Event)]
  /\ engine \in [Vaults -> {"none", "new", "running", "stopped", "renewed"}]
  /\ known \in [Vaults -> SUBSET Peers]
  /\ subs \in [Vaults -> SUBSET (Peers \X Docs)]
  /\ dirty \in [Vaults -> BOOLEAN]
  /\ pending \in [Vaults -> SUBSET Notes]
  /\ memory \in [Vaults -> SUBSET Items] /\ journal \in [Vaults -> SUBSET Items]
  /\ conn \in [Windows -> Peers \cup {None}]
  /\ open \in [Windows -> SUBSET Docs] /\ synced \in [Windows -> SUBSET Docs]
  /\ has \in [Windows -> SUBSET Items] /\ mine \in [Windows -> SUBSET Items]
  /\ probe \in [Windows -> [Docs -> SUBSET SUBSET Items]]
  /\ acked \in [Windows -> SUBSET Items]
  /\ up \in [Peers -> Seq(Frame)] /\ down \in [Peers -> Seq(Frame)]
  /\ stops \in 0 .. MaxStops /\ missed \in BOOLEAN

\* What is at the places `ks` of a sequence, in their order.
Picked(s, ks) ==
  LET upTo[i \in 0 .. Len(s)] ==
        IF i = 0 THEN <<>>
        ELSE IF i \in ks THEN Append(upTo[i - 1], s[i]) ELSE upTo[i - 1]
  IN upTo[Len(s)]

Idle == [at |-> "free", frame |-> None]

Init ==
  /\ reg = Start /\ wanted = {} /\ listed = {} /\ full = {} /\ held = <<>>
  /\ owner = [n \in Notes |-> None]
  /\ session = [p \in Peers |-> Idle]
  /\ chan = [v \in Vaults |-> <<>>]
  /\ engine = [v \in Vaults |-> IF v \in Start THEN "new" ELSE "none"]
  /\ known = [v \in Vaults |-> {}]
  /\ subs = [v \in Vaults |-> {}]
  /\ dirty = [v \in Vaults |-> v \in Start]
  /\ pending = [v \in Vaults |-> {}]
  /\ memory = [v \in Vaults |-> {}] /\ journal = [v \in Vaults |-> {}]
  /\ conn = [w \in Windows |-> None]
  /\ open = [w \in Windows |-> Start]
  /\ has = [w \in Windows |-> {}] /\ mine = [w \in Windows |-> {}]
  /\ synced = [w \in Windows |-> {}]
  /\ probe = [w \in Windows |-> [d \in Docs |-> {}]]
  /\ acked = [w \in Windows |-> {}]
  /\ up = [p \in Peers |-> <<>>] /\ down = [p \in Peers |-> <<>>]
  /\ stops = 0 /\ missed = FALSE
-----------------------------------------------------------------------------
(* Windows (ui/src/lib/sync.ts) *)

Said(w, frames) ==
  IF conn[w] = None THEN up ELSE [up EXCEPT ![conn[w]] = @ \o frames]

\* No trace of a connection is left: its number, which is never given twice, may stand for a new one.
Traceless(p) ==
  /\ session[p] = Idle
  /\ \A v \in Vaults :
       /\ p \notin known[v]
       /\ \A k \in 1 .. Len(chan[v]) : chan[v][k].peer # p
  /\ \A k \in 1 .. Len(held) : held[k].peer # p

\* `onopen`: every open document is handshaken, on a connection the relay has yet to list.
Connect(w) ==
  /\ conn[w] = None
  /\ UNCHANGED <<reg, owner, held, wanted, listed, full, engines, open, has, mine, synced, probe,
                 acked, down, stops, missed>>
  /\ \E s \in Slots :
       LET p == <<w, s>> IN
       /\ Traceless(p)
       /\ conn' = [conn EXCEPT ![w] = p]
       /\ session' = [session EXCEPT ![p].at = "new"]
       /\ up' = [up EXCEPT ![p] = [k \in 1 .. Cardinality(open[w]) |-> Ask(SetToSeq(open[w])[k])]]

\* `newVault`: a vault no engine has heard of, its document open at once.
NewVault(w, v) ==
  /\ v \notin Start
  /\ v \notin open[w]
  /\ UNCHANGED <<relay, engines, conn, has, mine, synced, probe, acked, down, stops, missed>>
  /\ open' = [open EXCEPT ![w] = @ \cup {v}]
  /\ up' = Said(w, <<Ask(v)>>)

\* `createNote`: the note's document is opened and filled before its entry is written.
CreateNote(w, n) ==
  LET text == <<n, "text">>
      entry == <<n, "entry">>
  IN
  /\ Home[n] \in open[w]
  /\ \A x \in Windows : text \notin mine[x]
  /\ UNCHANGED <<relay, engines, conn, synced, probe, acked, down, stops, missed>>
  /\ open' = [open EXCEPT ![w] = @ \cup {n}]
  /\ has' = [has EXCEPT ![w] = @ \cup {text, entry}]
  /\ mine' = [mine EXCEPT ![w] = @ \cup {text, entry}]
  /\ up' = Said(w, <<Ask(n), Update(n, {text}), Update(Home[n], {entry})>>)

\* `scheduleProbe`: once a burst has settled, the window asks whether the engine has it.
Probe(w, d) ==
  /\ conn[w] # None
  /\ d \in synced[w]
  /\ probe[w][d] = {}
  /\ ~ Part(mine[w], d) \subseteq acked[w]
  /\ UNCHANGED <<relay, engines, conn, open, has, mine, synced, acked, down, stops, missed>>
  /\ probe' = [probe EXCEPT ![w][d] = {Part(mine[w], d)}]
  /\ up' = Said(w, <<Ask(d)>>)

\* Mutant: any answer will do.
SettledByAny(w, d) == probe[w][d] # {}

\* `answered`: the question answered was asked of all that has been made since.
Settled(w, d) == probe[w][d] = {Part(mine[w], d)}

\* `handle`: what the engine holds is merged.  The answer to a handshake is answered with what the
\* engine lacks, and a question follows; the answer to a question acknowledges what had been made
\* when it was asked, provided nothing was made since.
Receive(w) ==
  LET p == conn[w]
      f == Head(down[p])
      d == f.doc
      own == Part(mine[w], d)
      owed == Part(has[w], d) \ f.items
      news == IF owed = {} THEN <<>> ELSE <<Update(d, owed)>>
  IN
  /\ p # None
  /\ down[p] # <<>>
  /\ UNCHANGED <<relay, engines, conn, open, mine, stops, missed>>
  /\ down' = [down EXCEPT ![p] = Tail(@)]
  /\ has' = [has EXCEPT ![w] = @ \cup f.items]
  /\ IF ~ f.ask
       THEN UNCHANGED <<synced, probe, acked, up>>
     ELSE IF d \notin synced[w]
       THEN /\ synced' = [synced EXCEPT ![w] = @ \cup {d}]
            /\ probe' = [probe EXCEPT ![w][d] = {own}]
            /\ up' = Said(w, news \o <<Ask(d)>>)
            /\ UNCHANGED acked
     ELSE IF Settled(w, d)
       THEN /\ acked' = [acked EXCEPT ![w] = @ \cup own]
            /\ probe' = [probe EXCEPT ![w][d] = {}]
            /\ UNCHANGED <<synced, up>>
       ELSE /\ probe' = [probe EXCEPT ![w][d] = {own}]
            /\ up' = Said(w, <<Ask(d)>>)
            /\ UNCHANGED <<synced, acked>>
-----------------------------------------------------------------------------
(* The relay's session of one connection *)

\* `peers.insert`.
List(p) ==
  /\ session[p].at = "new"
  /\ UNCHANGED <<reg, owner, held, wanted, full, engines, windows, up, down, stops, missed>>
  /\ session' = [session EXCEPT ![p].at = "listed"]
  /\ listed' = listed \cup {p}

\* A channel whose engine stopped takes nothing: the send fails and nobody hears.
Posted(vs, ev) ==
  [v \in Vaults |-> IF v \in vs /\ engine[v] \in {"new", "running", "renewed"}
                      THEN Append(chan[v], ev) ELSE chan[v]]

\* `broadcast(PeerConnected)`: every engine hears of the window.
Announce(p) ==
  /\ session[p].at = "listed"
  /\ UNCHANGED <<reg, owner, held, wanted, listed, full, engine, known, subs, dirty, pending,
                 memory, journal, windows, up, down, stops, missed>>
  /\ session' = [session EXCEPT ![p].at = "open"]
  /\ chan' = Posted(reg, [kind |-> "connected", peer |-> p])

\* The vault a frame goes to, or None when it has to wait.
Target(d) ==
  IF d \in Vaults THEN IF d \in reg THEN d ELSE None
  ELSE IF owner[d] # None THEN owner[d]
  ELSE IF Cardinality(reg) = 1 THEN CHOOSE v \in reg : TRUE
  ELSE None

\* `route_frame`: the next frame of a window goes to the engine its document belongs to, or is
\* about to be held.
Route(p) ==
  LET f == Head(up[p])
      v == Target(f.doc)
  IN
  /\ session[p].at = "open"
  /\ up[p] # <<>>
  /\ UNCHANGED <<reg, owner, held, wanted, listed, full, engine, known, subs, dirty, pending,
                 memory, journal, windows, down, stops>>
  /\ up' = [up EXCEPT ![p] = Tail(@)]
  /\ IF v = None
       THEN /\ session' = [session EXCEPT ![p] = [at |-> "holding", frame |-> f]]
            /\ UNCHANGED chan
       ELSE /\ chan' = Posted({v} \cap reg, [kind |-> "frame", peer |-> p, frame |-> f])
            /\ UNCHANGED session
  /\ missed' = (missed \/ (f.doc \in Notes /\ v # None /\ v # Home[f.doc]))

\* `want_vault`: only a vault can be opened.
Want(d) == {d} \cap Vaults

\* `Routes::hold`, and for a vault nobody has, the request to open it.  The table is not looked at
\* again: a document claimed since the frame was routed keeps the frame all the same.
Hold(p) ==
  LET d == session[p].frame.doc IN
  /\ session[p].at = "holding"
  /\ UNCHANGED <<reg, owner, listed, full, engines, windows, up, down, stops>>
  /\ session' = [session EXCEPT ![p] = [at |-> "open", frame |-> None]]
  /\ held' = Append(held, [peer |-> p, frame |-> session[p].frame])
  /\ wanted' = wanted \cup Want(d)
  /\ missed' = (missed \/ Target(d) # None)

\* The session's loop ends, because its outbox refused a frame or was closed: the writer is
\* aborted, the window taken off the list, and the window sees its connection gone.
Unlist(p) ==
  LET w == p[1] IN
  /\ session[p].at = "open"
  /\ p \in full
  /\ UNCHANGED <<reg, owner, held, wanted, engines, open, has, mine, acked, stops, missed>>
  /\ session' = [session EXCEPT ![p].at = "unlisted"]
  /\ listed' = listed \ {p}
  /\ full' = full \ {p}
  /\ up' = [up EXCEPT ![p] = <<>>]
  /\ down' = [down EXCEPT ![p] = <<>>]
  /\ conn' = [conn EXCEPT ![w] = None]
  /\ synced' = [synced EXCEPT ![w] = {}]
  /\ probe' = [probe EXCEPT ![w] = [d \in Docs |-> {}]]

\* `broadcast(PeerGone)`.
Farewell(p) ==
  /\ session[p].at = "unlisted"
  /\ UNCHANGED <<reg, owner, held, wanted, listed, full, engine, known, subs, dirty, pending,
                 memory, journal, windows, up, down, stops, missed>>
  /\ session' = [session EXCEPT ![p].at = "farewell"]
  /\ chan' = Posted(reg, [kind |-> "gone", peer |-> p])

\* `forget_peer`: what the window had waiting goes with it.
ForgetPeer(p) ==
  /\ session[p].at = "farewell"
  /\ UNCHANGED <<reg, owner, wanted, listed, full, engines, windows, up, down, stops, missed>>
  /\ session' = [session EXCEPT ![p] = Idle]
  /\ held' = Picked(held, {k \in DOMAIN held : held[k].peer # p})
-----------------------------------------------------------------------------
(* Engines *)

NotesIn(v) == {n \in Notes : <<n, "entry">> \in memory[v]}

\* `Outbox::send` to each of `ps`: a queue without room refuses this frame and every later one; the
\* queue of a connection that is gone is written to nobody.
Deliver(ps, f) ==
  LET live == {p \in ps : session[p].at \in {"listed", "open", "holding"}} IN
  /\ down' = [p \in Peers |-> IF p \in live \ full /\ Len(down[p]) < PeerQueue
                                THEN Append(down[p], f) ELSE down[p]]
  /\ full' = full \cup {p \in live : Len(down[p]) >= PeerQueue}

\* Every event ends with the claims it calls for; an engine just started has all of them to make,
\* and its first event may come before its first tick.
Works(v) == engine[v] \in {"new", "running"}
Listens(v) == engine[v] = "new" \/ (engine[v] = "running" /\ ~ dirty[v])
Busy(v) == engine' = [engine EXCEPT ![v] = "running"]

\* `PeerConnected`, `PeerGone`.
HearOfPeer(v) ==
  LET ev == Head(chan[v]) IN
  /\ Listens(v) = TRUE
  /\ chan[v] # <<>>
  /\ ev.kind \in {"connected", "gone"}
  /\ Busy(v)
  /\ UNCHANGED <<relay, dirty, pending, memory, journal, windows, up, down, stops, missed>>
  /\ chan' = [chan EXCEPT ![v] = Tail(@)]
  /\ known' = [known EXCEPT ![v] = IF ev.kind = "gone" THEN @ \ {ev.peer} ELSE @ \cup {ev.peer}]
  /\ subs' = [subs EXCEPT ![v] = {s \in @ : s[1] # ev.peer}]

\* `try_handle_frame` for a window's frame: the sender is subscribed; a question is answered; what
\* an update brings is journaled and sent to the other subscribers; entries new to the vault
\* adopt their notes, with the pending document or the stored one.
HandleFrame(v) ==
  LET ev == Head(chan[v])
      f == ev.frame
      d == f.doc
      p == ev.peer
      holding == IF d \in Notes /\ d \notin NotesIn(v) THEN pending[v] \cup {d} ELSE pending[v]
      subscribed == IF p \in known[v] THEN subs[v] \cup {<<p, d>>} ELSE subs[v]
      news == f.items \ memory[v]
      adopted == {i[1] : i \in {j \in news : j[2] = "entry"}}
      loaded == {i \in journal[v] : i[1] \in adopted \ holding /\ i[2] = "text"}
  IN
  /\ chan[v] # <<>>
  /\ IF ev.kind = "released" THEN engine[v] = "running" ELSE ev.kind = "frame" /\ Listens(v)
  /\ Busy(v)
  /\ UNCHANGED <<reg, owner, held, wanted, listed, session, known, windows, up, stops>>
  /\ chan' = [chan EXCEPT ![v] = Tail(@)]
  /\ subs' = [subs EXCEPT ![v] = subscribed]
  /\ pending' = [pending EXCEPT ![v] = holding \ adopted]
  /\ memory' = [memory EXCEPT ![v] = @ \cup news \cup loaded]
  /\ journal' = [journal EXCEPT ![v] = @ \cup news]
  /\ dirty' = [dirty EXCEPT ![v] = @ \/ adopted # {}]
  /\ IF f.ask
       THEN Deliver({p} \cap known[v], [doc |-> d, ask |-> TRUE, items |-> Part(memory[v], d)])
     ELSE IF news # {}
       THEN Deliver({q \in known[v] \ {p} : <<q, d>> \in subscribed}, Update(d, f.items))
     ELSE UNCHANGED <<down, full>>
  /\ missed' = (missed \/ (p \in listed /\ p \notin known[v]))

\* Mutant: claiming a note leaves what was held for it.
ClaimOnly(v) ==
  /\ Works(v) /\ dirty[v] /\ Busy(v)
  /\ chan[v] # <<>> => Head(chan[v]).kind # "released"
  /\ UNCHANGED <<reg, held, wanted, listed, full, session, chan, known, subs, pending, memory,
                 journal, windows, up, down, stops, missed>>
  /\ owner' = [n \in Notes |-> IF n \in NotesIn(v) THEN v ELSE IF owner[n] = v THEN None ELSE owner[n]]
  /\ dirty' = [dirty EXCEPT ![v] = FALSE]

\* A frame held for a note that comes back ahead of one its window sent before, when the engine
\* was the only one and needed no claim.
Overtakes(v, h) ==
  \E k \in DOMAIN chan[v] :
    /\ chan[v][k].kind = "frame" /\ chan[v][k].peer = h.peer
    /\ chan[v][k].frame.doc = h.frame.doc /\ h.frame.doc \in Notes

\* `sync_routes`, `Routes::claim`: the table gets the engine's notes, and the frames held for the
\* vault, and for the notes nobody owned until now, come back oldest first, to be handled before
\* anything else; then the engine claims again.
SyncRoutes(v) ==
  LET mineNow == NotesIn(v)
      taken == {v} \cup {n \in mineNow : owner[n] = None}
      claimed == {k \in DOMAIN held : held[k].frame.doc \in taken}
      back == Picked(held, claimed)
  IN
  /\ Works(v) /\ dirty[v] /\ Busy(v)
  /\ chan[v] # <<>> => Head(chan[v]).kind # "released"
  /\ UNCHANGED <<reg, wanted, listed, full, session, known, subs, pending, memory, journal,
                 windows, up, down, stops>>
  /\ owner' = [n \in Notes |-> IF n \in mineNow THEN v ELSE IF owner[n] = v THEN None ELSE owner[n]]
  /\ held' = Picked(held, DOMAIN held \ claimed)
  /\ chan' = [chan EXCEPT ![v] =
       [k \in 1 .. Len(back) |-> [kind |-> "released", peer |-> back[k].peer, frame |-> back[k].frame]] \o @]
  /\ dirty' = [dirty EXCEPT ![v] = back # <<>>]
  /\ missed' = (missed \/ \E k \in claimed : Overtakes(v, held[k]))

\* The engine's run ends in an error or a panic: its channel and all it held in memory are gone.
Stop(v) ==
  /\ Works(v)
  /\ stops < MaxStops
  /\ UNCHANGED <<relay, journal, windows, up, down, missed>>
  /\ stops' = stops + 1
  /\ engine' = [engine EXCEPT ![v] = "stopped"]
  /\ chan' = [chan EXCEPT ![v] = <<>>]
  /\ known' = [known EXCEPT ![v] = {}]
  /\ subs' = [subs EXCEPT ![v] = {}]
  /\ pending' = [pending EXCEPT ![v] = {}]
  /\ memory' = [memory EXCEPT ![v] = {}]
  /\ dirty' = [dirty EXCEPT ![v] = FALSE]

\* `renew`, first half: the relay sends the vault's frames to a new channel.
Renew(v) ==
  /\ engine[v] = "stopped"
  /\ UNCHANGED <<relay, chan, known, subs, dirty, pending, memory, journal, windows, up, down,
                 stops, missed>>
  /\ engine' = [engine EXCEPT ![v] = "renewed"]

\* What `Engine::open` loads: the vault, and the notes it has entries for.
Loaded(v) == LET entries == {i \in journal[v] : i[2] = "entry"} IN
  {i \in journal[v] : <<i[1], "entry">> \in entries}

\* `renew`, second half: every listed window is disconnected; then the vault is opened again.
Restart(v) ==
  /\ engine[v] = "renewed"
  /\ UNCHANGED <<reg, owner, held, wanted, listed, session, chan, known, subs, pending, journal,
                 windows, up, down, stops, missed>>
  /\ engine' = [engine EXCEPT ![v] = "new"]
  /\ full' = full \cup listed
  /\ memory' = [memory EXCEPT ![v] = Loaded(v)]
  /\ dirty' = [dirty EXCEPT ![v] = TRUE]

\* Mutant: an engine that arrives late is not told of the windows already there.
OpenVaultUnannounced(v) ==
  /\ v \in wanted
  /\ UNCHANGED <<owner, held, listed, full, session, chan, known, subs, pending, memory, journal,
                 windows, up, down, stops, missed>>
  /\ wanted' = wanted \ {v}
  /\ IF v \in reg THEN UNCHANGED <<reg, engine, dirty>>
     ELSE /\ reg' = reg \cup {v}
          /\ engine' = [engine EXCEPT ![v] = "new"]
          /\ dirty' = [dirty EXCEPT ![v] = TRUE]

\* `open_new_vault`, `Registrar::add`: a vault the relay does not hold gets an engine, which hears
\* of every listed window before anything else.
OpenVault(v) ==
  LET peers == SetToSeq(listed) IN
  /\ v \in wanted
  /\ UNCHANGED <<owner, held, listed, full, session, known, subs, pending, memory, journal,
                 windows, up, down, stops, missed>>
  /\ wanted' = wanted \ {v}
  /\ IF v \in reg
       THEN UNCHANGED <<reg, engine, dirty, chan>>
       ELSE /\ reg' = reg \cup {v}
            /\ engine' = [engine EXCEPT ![v] = "new"]
            /\ dirty' = [dirty EXCEPT ![v] = TRUE]
            /\ chan' = [chan EXCEPT ![v] =
                 [k \in 1 .. Len(peers) |-> [kind |-> "connected", peer |-> peers[k]]]]
-----------------------------------------------------------------------------
Work ==
  \/ \E w \in Windows : Connect(w) \/ Receive(w) \/ (\E d \in Docs : Probe(w, d))
  \/ \E p \in Peers : List(p) \/ Announce(p) \/ Route(p) \/ Hold(p)
                      \/ Unlist(p) \/ Farewell(p) \/ ForgetPeer(p)
  \/ \E v \in Vaults : HearOfPeer(v) \/ HandleFrame(v) \/ SyncRoutes(v)
                       \/ Renew(v) \/ Restart(v) \/ OpenVault(v)

Next ==
  \/ Work
  \/ \E w \in Windows :
       \/ \E v \in Vaults : NewVault(w, v)
       \/ \E n \in Notes : CreateNote(w, n)
  \/ \E v \in Vaults : Stop(v)

\* The tasks of the process keep running, and the windows reconnect and ask of their own accord.
Fairness == WF_vars(Work)
Spec == Init /\ [][Next]_vars /\ Fairness
-----------------------------------------------------------------------------
(* What a window has been told its engine has, the store of the note's vault has (sync.ts:         *)
(* "the server takes a connection's frames in order").                                             *)
AckedIsStored ==
  \A w \in Windows : \A i \in acked[w] : i \in journal[VaultOf(i)]

(* The same where no frame went to another vault, was held after its document had been claimed,    *)
(* came back ahead of an earlier one of its note, or was handled by an engine that had not heard   *)
(* of its window: across engines that stop, windows that do not keep up and vaults opened late, an *)
(* acknowledgement is about the document's store.                                                  *)
AckedInOrder == missed \/ AckedIsStored

(* A window whose session is past its announcement is a peer of every engine that runs, or the     *)
(* engine is about to hear of it, or the connection is about to be dropped: `renew` and `add`      *)
(* against a window that is connecting meanwhile (local.rs, "after the swap").                     *)
EveryWindowIsHeard ==
  /\ TypeOK
  /\ \A p \in Peers : \A v \in reg :
       (session[p].at \in {"open", "holding"} /\ p \notin full /\ Works(v)) =>
         \/ p \in known[v]
         \/ \E k \in 1 .. Len(chan[v]) : chan[v][k].kind = "connected" /\ chan[v][k].peer = p

(* Once the windows keep up and nothing more goes astray, whatever was made in a window, online or *)
(* not, in a vault the relay had or had not opened, reaches the store of its vault and stays.      *)
KeepsUp == full = {} /\ ~ missed
Delivered ==
  <>[]KeepsUp => <>[](\A w \in Windows : \A i \in mine[w] : i \in journal[VaultOf(i)])

=============================================================================
