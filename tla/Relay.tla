-------------------------------- MODULE Relay -------------------------------
(***************************************************************************)
(* The sync server's path of one document (crates/server/src/app.rs): the  *)
(* room that holds the document in memory, the journal in the store, the   *)
(* broadcast bus, one task per WebSocket connection, REST requests that    *)
(* write through the same room, and clients that edit while connected or   *)
(* not and handshake again whenever they reconnect.                        *)
(*                                                                         *)
(* A task handles one frame (or one bus message) at a time, but releases   *)
(* the document between applying an update and journaling it, so tasks of  *)
(* different connections interleave there; a REST task the same.  A room   *)
(* is a reference-counted object found through the map of rooms; it is     *)
(* dropped from the map when idle and unheld, and loaded again on demand.  *)
(* The task of a connection outlives the socket: it still handles what was *)
(* read from it, perhaps while the client is back on another connection.   *)
(*                                                                         *)
(* The content of a document is the set of operations it holds (DocLog); a *)
(* state vector is that set, a diff the set difference.  All rows carry    *)
(* time 0, so with Retain = 0 maintenance prunes as hard as it ever can.   *)
(***************************************************************************)
EXTENDS DocLog, Sequences

CONSTANTS
  Clients,    \* replicas: a desktop engine or a browser tab
  Slots,      \* WebSocket connections a client can have open or lingering at once
  Apis,       \* REST requests that write the document, one operation each
  RoomIds,    \* room objects
  None,       \* no room, no connection, no operation
  BusCap,     \* capacity of the broadcast channel
  MaxFaults,  \* bound: connections lost and server restarts
  ApiMayStop, \* whether a REST request can be dropped by its client half way
  StoreMayFail \* whether the store can refuse an append (full disk, I/O error)

ASSUME BoundAssumption ==
  /\ BusCap \in Nat \ {0} /\ MaxFaults \in Nat
  /\ ApiMayStop \in BOOLEAN /\ StoreMayFail \in BOOLEAN

Conns == Clients \X Slots
Tasks == Conns \cup Apis

ASSUME NamesAssumption == None \notin RoomIds \cup Conns /\ Conns \cap Apis = {}

Client(k) == k[1]

VARIABLES
  updates, snapshots, \* the store
  map,                \* AppState.rooms, for this document: a room or None
  docs,               \* what each room object holds
  task,               \* the task of each connection and request: where it is, what it holds
  socket,             \* "free", "open", or "closed": the client is gone, the task is not yet
  subscribed,         \* connections that asked for the document
  up, down,           \* frames in flight, per connection and direction
  bus,                \* each connection's receiver on the broadcast bus
  replica,            \* what each client holds
  conn,               \* the connection each client uses now, or None
  made,               \* operations made so far (an operation is made once)
  faults

store == <<updates, snapshots>>
rooms == <<map, docs>>
net == <<socket, subscribed, up, down, bus, conn>>
vars == <<store, rooms, task, net, replica, made, faults>>

Steps == {"idle", "answer", "apply", "journal", "publish", "done"}
IdleTask == [at |-> "idle", room |-> None, ops |-> {}]
Task == [at : Steps, room : RoomIds \cup {None}, ops : SUBSET Ops]
Frame == [kind : {"step1", "update"}, ops : SUBSET Ops]
Step1(ops) == [kind |-> "step1", ops |-> ops]
Update(ops) == [kind |-> "update", ops |-> ops]
Outbound == [from : Tasks, ops : SUBSET Ops]

TypeOK ==
  /\ DOMAIN updates \subseteq Nat \ {0}
  /\ updates \in [DOMAIN updates -> UpdateRows]
  /\ snapshots \in [DOMAIN snapshots -> SnapshotRows]
  /\ map \in RoomIds \cup {None}
  /\ docs \in [RoomIds -> SUBSET Ops]
  /\ task \in [Tasks -> Task]
  /\ socket \in [Conns -> {"free", "open", "closed"}]
  /\ subscribed \subseteq Conns
  /\ up \in [Conns -> Seq(Frame)] /\ down \in [Conns -> Seq(Frame)]
  /\ bus \in [Conns -> Seq(Outbound)]
  /\ replica \in [Clients -> SUBSET Ops]
  /\ conn \in [Clients -> Conns \cup {None}]
  /\ made \subseteq Ops
  /\ faults \in 0 .. MaxFaults

Init ==
  /\ updates = [n \in {} |-> 0]
  /\ snapshots = [n \in {} |-> 0]
  /\ map = None
  /\ docs = [r \in RoomIds |-> {}]
  /\ task = [t \in Tasks |-> IdleTask]
  /\ socket = [k \in Conns |-> "free"]
  /\ subscribed = {}
  /\ up = [k \in Conns |-> <<>>]
  /\ down = [k \in Conns |-> <<>>]
  /\ bus = [k \in Conns |-> <<>>]
  /\ replica = [c \in Clients |-> {}]
  /\ conn = [c \in Clients |-> None]
  /\ made = {}
  /\ faults = 0

Held == {task[t].room : t \in Tasks} \ {None}
Stored == LoadDoc(updates, snapshots)
Open == {k \in Conns : socket[k] = "open"}
-----------------------------------------------------------------------------
(* Clients *)

\* `onopen` / `on_connect`: a new connection starts with a SyncStep1 of the document.
Connect(c) ==
  /\ conn[c] = None
  /\ \E i \in Slots :
       /\ socket[<<c, i>>] = "free"
       /\ conn' = [conn EXCEPT ![c] = <<c, i>>]
       /\ socket' = [socket EXCEPT ![<<c, i>>] = "open"]
       /\ up' = [up EXCEPT ![<<c, i>>] = <<Step1(replica[c])>>]
  /\ UNCHANGED <<store, rooms, task, subscribed, down, bus, replica, made, faults>>

\* An edit in a replica; online it goes out at once, offline it waits for the next handshake.
ClientEdit(c, op) ==
  /\ op \notin made
  /\ made' = made \cup {op}
  /\ replica' = [replica EXCEPT ![c] = @ \cup {op}]
  /\ up' = IF conn[c] = None THEN up ELSE [up EXCEPT ![conn[c]] = Append(@, Update({op}))]
  /\ UNCHANGED <<store, rooms, task, socket, subscribed, down, bus, conn, faults>>

\* A frame from the server: a SyncStep1 is answered with what the server lacks, anything else is
\* applied.
ClientReceive(c) ==
  LET k == conn[c] IN
  /\ k # None
  /\ down[k] # <<>>
  /\ down' = [down EXCEPT ![k] = Tail(@)]
  /\ \/ /\ Head(down[k]).kind = "step1"
        /\ up' = [up EXCEPT ![k] = Append(@, Update(replica[c] \ Head(down[k]).ops))]
        /\ UNCHANGED replica
     \/ /\ Head(down[k]).kind = "update"
        /\ replica' = [replica EXCEPT ![c] = @ \cup Head(down[k]).ops]
        /\ UNCHANGED up
  /\ UNCHANGED <<store, rooms, task, socket, subscribed, bus, conn, made, faults>>

\* The network drops a connection: the client forgets it, what was on its way down is lost, and
\* of what was on its way up some prefix has reached the server and is still to be handled.
Drop(c) ==
  LET k == conn[c] IN
  /\ k # None
  /\ faults < MaxFaults
  /\ faults' = faults + 1
  /\ \E n \in 0 .. Len(up[k]) : up' = [up EXCEPT ![k] = SubSeq(@, 1, n)]
  /\ down' = [down EXCEPT ![k] = <<>>]
  /\ socket' = [socket EXCEPT ![k] = "closed"]
  /\ conn' = [conn EXCEPT ![c] = None]
  /\ UNCHANGED <<store, rooms, task, subscribed, bus, replica, made>>
-----------------------------------------------------------------------------
(* The server *)

\* Mutant: the room is in the map before it is loaded.
GetRoomUnloaded(r) ==
  IF map # None
    THEN r = map /\ UNCHANGED rooms
    ELSE r \notin Held /\ map' = r /\ UNCHANGED docs

\* `get_room`: the room in the map, or a new one loaded from the store.
GetRoom(r) ==
  IF map # None
    THEN r = map /\ UNCHANGED rooms
    ELSE /\ r \notin Held
         /\ map' = r
         /\ docs' = [docs EXCEPT ![r] = Stored]

\* `evict_idle_rooms`: a room of the map that no task holds is dropped.
Evict ==
  /\ map # None
  /\ map \notin Held
  /\ map' = None
  /\ docs' = [docs EXCEPT ![map] = {}]
  /\ UNCHANGED <<store, task, net, replica, made, faults>>

\* A connection's task takes the next frame and finds the room.
Receive(k) ==
  /\ task[k].at = "idle"
  /\ up[k] # <<>>
  /\ up' = [up EXCEPT ![k] = Tail(@)]
  /\ subscribed' = subscribed \cup {k}
  /\ \E r \in RoomIds :
       /\ GetRoom(r)
       /\ task' = [task EXCEPT ![k] =
            [at |-> IF Head(up[k]).kind = "step1" THEN "answer" ELSE "apply",
             room |-> r, ops |-> Head(up[k]).ops]]
  /\ UNCHANGED <<store, socket, down, bus, replica, conn, made, faults>>

\* The task lets the room go: a connection's waits for its next frame, a request is over.
Finish(t) ==
  task' = [task EXCEPT ![t] = IF t \in Apis THEN [IdleTask EXCEPT !.at = "done"] ELSE IdleTask]

\* Mutant: the server does not ask the client for what it has.
AnswerOnly(k) ==
  /\ task[k].at = "answer"
  /\ down' = IF k \in Open
               THEN [down EXCEPT ![k] = Append(@, Update(docs[task[k].room] \ task[k].ops))]
               ELSE down
  /\ Finish(k)
  /\ UNCHANGED <<store, rooms, socket, subscribed, up, bus, replica, conn, made, faults>>

\* SyncStep1 answered with SyncStep2 and a SyncStep1 of the server's own.
Answer(k) ==
  LET d == docs[task[k].room] IN
  /\ task[k].at = "answer"
  /\ down' = IF k \in Open
               THEN [down EXCEPT ![k] = @ \o <<Update(d \ task[k].ops), Step1(d)>>]
               ELSE down
  /\ Finish(k)
  /\ UNCHANGED <<store, rooms, socket, subscribed, up, bus, replica, conn, made, faults>>

\* Mutant: the update goes to the bus before the store.
ApplyThenPublish(t) ==
  /\ task[t].at = "apply"
  /\ docs' = [docs EXCEPT ![task[t].room] = @ \cup task[t].ops]
  /\ task' = [task EXCEPT ![t].at = "publish"]
  /\ UNCHANGED <<store, map, net, replica, made, faults>>

\* An update is applied; one that brings nothing new goes no further.
Apply(t) ==
  LET r == task[t].room IN
  /\ task[t].at = "apply"
  /\ docs' = [docs EXCEPT ![r] = @ \cup task[t].ops]
  /\ IF task[t].ops \subseteq docs[r] /\ t \in Conns
       THEN Finish(t)
       ELSE task' = [task EXCEPT ![t].at = "journal"]
  /\ UNCHANGED <<store, map, net, replica, made, faults>>

\* Mutant: the snapshot holds the update, not the document.
SnapshotOfUpdate(t) ==
  LET u == AppendUpdate(updates, snapshots, task[t].ops, 0)
      s == MaintainSnapshot(u, snapshots, task[t].ops, 0)
  IN
  /\ task[t].at = "journal"
  /\ updates' = PruneUpdates(u, s, 0)
  /\ snapshots' = PruneSnapshots(s, 0)
  /\ task' = [task EXCEPT ![t].at = "publish"]
  /\ UNCHANGED <<rooms, net, replica, made, faults>>

\* With the document and the store locked, the update is journaled and the journal maintained.
JournalUpdate(t) ==
  LET d == docs[task[t].room]
      u == AppendUpdate(updates, snapshots, task[t].ops, 0)
      s == MaintainSnapshot(u, snapshots, d, 0)
  IN
  /\ task[t].at = "journal"
  /\ updates' = PruneUpdates(u, s, 0)
  /\ snapshots' = PruneSnapshots(s, 0)
  /\ task' = [task EXCEPT ![t].at = "publish"]
  /\ UNCHANGED <<rooms, net, replica, made, faults>>

\* The store refuses the append: a connection's task warns, maintains the journal if the store lets
\* it, and goes on to the broadcast; a REST request ends in an error.
JournalFails(t) ==
  /\ StoreMayFail
  /\ task[t].at = "journal"
  /\ \/ UNCHANGED store
     \/ /\ t \in Conns
        /\ LET s == MaintainSnapshot(updates, snapshots, docs[task[t].room], 0) IN
           updates' = PruneUpdates(updates, s, 0) /\ snapshots' = PruneSnapshots(s, 0)
  /\ IF t \in Conns
       THEN task' = [task EXCEPT ![t].at = "publish"]
       ELSE Finish(t)
  /\ UNCHANGED <<rooms, net, replica, made, faults>>

\* The update goes to every connection's receiver, the sender's own included.
Publish(t) ==
  /\ task[t].at = "publish"
  /\ bus' = [k \in Conns |->
       IF k \in Open THEN Append(bus[k], [from |-> t, ops |-> task[t].ops]) ELSE bus[k]]
  /\ Finish(t)
  /\ UNCHANGED <<store, rooms, socket, subscribed, up, down, replica, conn, made, faults>>

\* A connection's task takes the next bus message, and sends it on when another task published
\* it and its client subscribed.
Forward(k) ==
  /\ k \in Open
  /\ task[k].at = "idle"
  /\ bus[k] # <<>>
  /\ Len(bus[k]) <= BusCap
  /\ bus' = [bus EXCEPT ![k] = Tail(@)]
  /\ down' = IF k \in subscribed /\ Head(bus[k]).from # k
               THEN [down EXCEPT ![k] = Append(@, Update(Head(bus[k]).ops))] ELSE down
  /\ UNCHANGED <<store, rooms, task, socket, subscribed, up, conn, replica, made, faults>>

\* The connection's task ends: everything of the connection goes.
End(k) ==
  /\ socket' = [socket EXCEPT ![k] = "free"]
  /\ subscribed' = subscribed \ {k}
  /\ up' = [up EXCEPT ![k] = <<>>]
  /\ down' = [down EXCEPT ![k] = <<>>]
  /\ bus' = [bus EXCEPT ![k] = <<>>]
  /\ conn' = [conn EXCEPT ![Client(k)] = IF @ = k THEN None ELSE @]
  /\ UNCHANGED <<store, rooms, task, replica, made, faults>>

\* The socket is gone: at the end of what it received, or as soon as a send to it fails.
Close(k) ==
  /\ socket[k] = "closed"
  /\ task[k].at = "idle"
  /\ End(k)

\* Mutant: a receiver that fell behind goes on with what is still in the channel.
LaggedGoesOn(k) ==
  /\ k \in Open
  /\ task[k].at = "idle"
  /\ Len(bus[k]) > BusCap
  /\ bus' = [bus EXCEPT ![k] = SubSeq(@, Len(@) - BusCap + 1, Len(@))]
  /\ UNCHANGED <<store, rooms, task, socket, subscribed, up, down, conn, replica, made, faults>>

\* A receiver that fell behind the bus has lost messages: its connection is closed, so that the
\* client handshakes again.
Lagged(k) ==
  /\ k \in Open
  /\ task[k].at = "idle"
  /\ Len(bus[k]) > BusCap
  /\ End(k)

\* A REST write (`put_note`, ...): find the room, then as a connection does, with its own edit.
ApiStart(a, op) ==
  /\ task[a].at = "idle"
  /\ op \notin made
  /\ made' = made \cup {op}
  /\ \E r \in RoomIds :
       /\ GetRoom(r)
       /\ task' = [task EXCEPT ![a] = [at |-> "apply", room |-> r, ops |-> {op}]]
  /\ UNCHANGED <<store, net, replica, faults>>

\* The client of a REST request goes away and the request is dropped where it stands.
ApiStop(a) ==
  /\ ApiMayStop
  /\ task[a].at \in {"apply", "journal", "publish"}
  /\ Finish(a)
  /\ UNCHANGED <<store, rooms, net, replica, made, faults>>

\* The server process dies and comes back: the store is all that is left of it.
Crash ==
  /\ faults < MaxFaults
  /\ faults' = faults + 1
  /\ map' = None
  /\ docs' = [r \in RoomIds |-> {}]
  /\ task' = [t \in Tasks |-> IF t \in Apis /\ task[t].at # "idle"
                                THEN [IdleTask EXCEPT !.at = "done"] ELSE IdleTask]
  /\ socket' = [k \in Conns |-> "free"]
  /\ subscribed' = {}
  /\ up' = [k \in Conns |-> <<>>]
  /\ down' = [k \in Conns |-> <<>>]
  /\ bus' = [k \in Conns |-> <<>>]
  /\ conn' = [c \in Clients |-> None]
  /\ UNCHANGED <<store, replica, made>>

TaskStep(t) == Apply(t) \/ JournalUpdate(t) \/ JournalFails(t) \/ Publish(t)
ConnStep(k) == Receive(k) \/ Answer(k) \/ TaskStep(k) \/ Forward(k) \/ Lagged(k) \/ Close(k)

Next ==
  \/ \E c \in Clients : Connect(c) \/ ClientReceive(c) \/ Drop(c)
  \/ \E c \in Clients, op \in Ops : ClientEdit(c, op)
  \/ \E k \in Conns : ConnStep(k)
  \/ \E a \in Apis : TaskStep(a) \/ ApiStop(a)
  \/ \E a \in Apis, op \in Ops : ApiStart(a, op)
  \/ Evict
  \/ Crash

\* Tasks run, clients reconnect (with a back-off, for ever) and read what they are sent.
Fairness ==
  /\ \A c \in Clients : WF_vars(Connect(c)) /\ WF_vars(ClientReceive(c))
  /\ \A k \in Conns : WF_vars(ConnStep(k))
  /\ \A a \in Apis : WF_vars(TaskStep(a))

Spec == Init /\ [][Next]_vars
FairSpec == Spec /\ Fairness
-----------------------------------------------------------------------------
Content == IF map = None THEN Stored ELSE docs[map]

\* A document has one room, however often it is dropped and loaded: every task that works on
\* the document works on the room in the map.
OneRoom == Held \subseteq {map}

\* That room is never behind the store, even when appends fail or requests are dropped half way: a
\* SyncStep1 is answered with everything that was ever journaled.
RoomCoversStore == TypeOK /\ OneRoom /\ (map # None => Stored \subseteq docs[map])

\* evict_idle_rooms: "Safe at any time: ... a dropped room loads again exactly as it was".
EvictionIsSafe == map # None /\ map \notin Held => docs[map] = Stored

OpsIn(q) == UNION {q[i].ops : i \in 1 .. Len(q)}

\* evict_idle_rooms: "an update is in the store before it is fanned out".
PublishedIsStored == \A k \in Conns : OpsIn(bus[k]) \subseteq Stored

InFrames(q) == UNION {q[i].ops : i \in {j \in 1 .. Len(q) : q[j].kind = "update"}}
Answered(k) == k \in subscribed /\ task[k].at # "answer"
CarriedFor(k) ==
  UNION {task[t].ops : t \in {x \in Tasks \ {k} : task[x].at \in {"journal", "publish"}}}

\* No update is missed: what the server holds, a connected client that was answered holds too, or
\* it is on its way to it, or another task has yet to publish it.  The hazards are the gap between
\* the answer and the subscription, and an update one task finds already applied by another.
NothingMissed ==
  \A k \in Open :
    Answered(k) /\ Len(bus[k]) <= BusCap
      => Content \subseteq
           replica[Client(k)] \cup InFrames(down[k]) \cup OpsIn(bus[k]) \cup CarriedFor(k)

\* The store only ever gains operations: a snapshot taken while other tasks have applied updates
\* they have not journaled yet never makes it forget one.
StoreNeverShrinks == [][Stored \subseteq Stored']_vars

Shared == INSTANCE SharedDoc WITH Replicas <- Clients, Operations <- Ops,
            made <- made, kept <- Stored, held <- replica

\* The server and its clients share the document as SharedDoc says.  Nobody ever loses an
\* operation, the store included; nobody gets one that was not made; and once edits stop and
\* connections hold, everybody has what the store has: an edit made offline, sent on a connection
\* that died, or journaled by a server that crashed reaches everyone.
ImplementsSharedDoc == Shared!Spec
=============================================================================
