-------------------------------- MODULE Access -------------------------------
(***************************************************************************)
(* Who may do what on the server, while that changes: members of vaults    *)
(* and shares of notes (crates/server/src/auth.rs), the requests that      *)
(* change them, and the WebSocket connections that rest on them            *)
(* (crates/server/src/app.rs, `handle_socket`).                            *)
(*                                                                         *)
(* A request checks its caller's role under the store's lock, lets it go,  *)
(* and acts under the lock taken again.  A connection asks for the role of *)
(* its user with each frame, and works on the frame without the lock; what *)
(* it subscribed to it keeps until it checks again, which it does between  *)
(* frames, when told that access changed and every five minutes.           *)
(*                                                                         *)
(* A vault document is the set of notes it lists; a role is a number.      *)
(* Tokens narrower than their user, links to notes, accounts and invites   *)
(* are left out.                                                           *)
(***************************************************************************)
EXTENDS Naturals, FiniteSets, FiniteSetsExt

CONSTANTS
  Users, Vaults, Notes, Sockets, Requests, None,
  UserOf,     \* the user each socket is opened by
  MaxOps      \* bound: requests, frames, and what happens to sessions and claims

ASSUME AccessAssumption ==
  UserOf \in [Sockets -> Users] /\ Vaults # {} /\ None \notin Vaults \cup Notes /\ MaxOps \in Nat

Nobody == 0
Viewer == 1
Editor == 2
Owner == 3
Roles == Nobody .. Owner
Docs == Vaults \cup Notes
Row == [vault : Vaults \cup {None}, live : BOOLEAN]
Frame == [doc : Docs, write : BOOLEAN, notes : SUBSET Notes]
NoFrame == [doc |-> None, write |-> FALSE, notes |-> {}]
Conn == [open : BOOLEAN, stands : BOOLEAN, vault : Vaults \cup {None},
         subscribed : SUBSET Docs, due : BOOLEAN, frame : Frame \cup {NoFrame}]
Kinds == {"put_member", "delete_member", "put_share", "delete_share", "delete_vault"}
Request == [kind : Kinds, vault : Vaults, note : Notes, target : Users, role : Roles]
NoRequest == [kind |-> "none"]

VARIABLES
  member,    \* the role of each user in each vault
  share,     \* the role of each user on each note
  listed,    \* the notes each vault document lists
  row,       \* the row of each note
  history,   \* the notes with a journal
  claims,    \* the vault a note without a row was claimed for
  conn,      \* the connections
  request,   \* requests that were let through and have not acted yet
  ops,
  quiet,     \* history: access lost with nobody told, <<socket, document>>; None is the session
  late       \* history: vaults erased under a request that then acted on their members

access == <<member, share>>
notes == <<listed, row, history, claims>>
vars == <<access, notes, conn, request, ops, quiet, late>>

-----------------------------------------------------------------------------
Members(v) == {u \in Users : member[v][u] # Nobody}
Owners(v) == {u \in Users : member[v][u] = Owner}

\* `vault_of_note`
VaultOf(s, n) ==
  IF row[n].vault # None THEN row[n].vault
  ELSE IF claims[n] # None THEN claims[n]
  ELSE IF n \in history THEN None
  ELSE conn[s].vault

\* `note_role`
NoteRole(u, n, v) ==
  IF v = None \/ row[n].vault \notin {None, v} THEN Nobody
  ELSE Max({member[v][u], IF row[n].vault # None /\ row[n].live THEN share[n][u] ELSE Nobody})

\* `doc_role`, of a connection that only asks.
DocRole(s, d) ==
  IF d \in Vaults THEN member[d][UserOf[s]] ELSE NoteRole(UserOf[s], d, VaultOf(s, d))

\* What connections have, or are about to have, against the role of their users.
Subscribed(s) == IF conn[s].open THEN conn[s].subscribed ELSE {}
Unreadable(ss) == {p \in ss \X Docs : /\ p[2] \in Subscribed(p[1]) \cup {conn[p[1]].frame.doc}
                                      /\ DocRole(p[1], p[2]) = Nobody}
\* What this step takes from the connections ss with nobody told.
QuietlyFrom(ss) == quiet' = quiet \cup (Unreadable(ss)' \ Unreadable(ss))
Quietly == QuietlyFrom(Sockets)

-----------------------------------------------------------------------------
\* One vault, somebody's; which one makes no difference.
Init ==
  /\ \E v \in {CHOOSE w \in Vaults : TRUE}, u \in Users, roles \in [Users -> Roles] :
       /\ roles[u] = Owner
       /\ member = [w \in Vaults |-> IF w = v THEN roles ELSE [x \in Users |-> Nobody]]
       /\ \E ns \in SUBSET Notes :
            /\ listed = [w \in Vaults |-> IF w = v THEN ns ELSE {}]
            /\ row = [n \in Notes |-> IF n \in ns THEN [vault |-> v, live |-> TRUE]
                                                  ELSE [vault |-> None, live |-> FALSE]]
            /\ history = ns
  /\ share = [n \in Notes |-> [u \in Users |-> Nobody]]
  /\ claims = [n \in Notes |-> None]
  /\ conn = [s \in Sockets |-> [open |-> TRUE, stands |-> TRUE, vault |-> None,
                                subscribed |-> {}, due |-> FALSE, frame |-> NoFrame]]
  /\ request = [q \in Requests |-> NoRequest]
  /\ ops = 0 /\ quiet = {} /\ late = {}

Op == ops < MaxOps /\ ops' = ops + 1

\* `auth_changed`
Told == [s \in Sockets |-> [conn[s] EXCEPT !.due = conn[s].open]]

-----------------------------------------------------------------------------
(* Connections                                                             *)

\* A vault nobody owns is claimed, and so is a note nobody has written.
Unowned(d) == d \in Vaults /\ Members(d) = {}
New(d) == d \in Notes /\ row[d].vault = None /\ claims[d] = None /\ d \notin history
RoleToClaim(s, d) == IF Unowned(d) THEN Owner ELSE DocRole(s, d)

\* A connection whose frame asks for a document on which its user has a role.
Admitted(s, f, role) ==
  IF role >= (IF f.write THEN Editor ELSE Viewer)
    THEN [conn[s] EXCEPT !.frame = f, !.vault = IF f.doc \in Vaults THEN f.doc ELSE conn[s].vault]
    ELSE [conn[s] EXCEPT !.subscribed = IF role = Nobody THEN conn[s].subscribed \ {f.doc}
                                                         ELSE conn[s].subscribed]

\* `handle_frame`, up to its taking the room: claims, and the role decides.  A claim may take a
\* note whose earlier claim has lapsed to another vault than the one it has in the eyes of
\* another connection.
TakeFrame(s, f) ==
  /\ Op
  /\ conn[s].open /\ conn[s].frame = NoFrame
  /\ member' = IF Unowned(f.doc) THEN [member EXCEPT ![f.doc][UserOf[s]] = Owner] ELSE member
  /\ claims' = IF New(f.doc) THEN [claims EXCEPT ![f.doc] = conn[s].vault] ELSE claims
  /\ conn' = [conn EXCEPT ![s] = Admitted(s, f, RoleToClaim(s, f.doc))]
  /\ UNCHANGED <<share, listed, row, history, request, late>>
  /\ QuietlyFrom(Sockets \ {s})

\* `derive_metadata` of vault v, whose document lists `ns` after a change by user u: rows of
\* notes it no longer lists go to the trash; a note of another vault is taken if the change put
\* it there and its user may edit the vault it leaves (`may_take`).
Taken(v, ns, u) ==
  {n \in ns : \/ row[n].vault \in {None, v}
              \/ n \notin listed[v] /\ member[row[n].vault][u] >= Editor}
Moved(v, ns, u) == \E n \in Taken(v, ns, u) : row[n].vault \notin {None, v}
Derive(v, ns, u) ==
  [n \in Notes |-> IF n \in Taken(v, ns, u) THEN [vault |-> v, live |-> TRUE]
                   ELSE IF row[n].vault = v /\ n \notin ns THEN [row[n] EXCEPT !.live = FALSE]
                   ELSE row[n]]

\* The connections once the frame of s is served: it has subscribed.
Served(s) == [conn EXCEPT ![s].frame = NoFrame, ![s].subscribed = @ \cup {conn[s].frame.doc}]

\* The rest of `handle_frame`: subscribe, and apply.
Serve(s) ==
  LET f == conn[s].frame
      u == UserOf[s]
      served == Served(s)
      all == [x \in Sockets |-> [served[x] EXCEPT !.due = served[x].open]]
  IN
  /\ f # NoFrame
  /\ IF f.write /\ f.doc \in Vaults /\ f.notes # listed[f.doc]
       THEN /\ listed' = [listed EXCEPT ![f.doc] = f.notes]
            /\ row' = Derive(f.doc, f.notes, u)
            /\ claims' = [n \in Notes |-> IF n \in Taken(f.doc, f.notes, u) THEN None ELSE claims[n]]
            /\ conn' = IF Moved(f.doc, f.notes, u) THEN all ELSE served
            /\ UNCHANGED <<access, history>>
            /\ IF Moved(f.doc, f.notes, u) THEN quiet' = quiet ELSE Quietly
       ELSE /\ conn' = served
            /\ history' = IF f.write THEN history \cup ({f.doc} \cap Notes) ELSE history
            /\ UNCHANGED <<access, listed, row, claims>>
            /\ Quietly
  /\ UNCHANGED <<request, ops, late>>

\* Mutant: only vaults are asked about again.
CheckedVaults(s) ==
  IF conn[s].stands
    THEN [conn[s] EXCEPT !.due = FALSE,
            !.subscribed = {d \in conn[s].subscribed : d \in Notes \/ DocRole(s, d) # Nobody}]
    ELSE [conn[s] EXCEPT !.open = FALSE, !.due = FALSE, !.subscribed = {}]
\* What a connection is left with when its user and roles are asked for again.
Checked(s) ==
  IF conn[s].stands
    THEN [conn[s] EXCEPT !.due = FALSE,
            !.subscribed = {d \in conn[s].subscribed : DocRole(s, d) # Nobody}]
    ELSE [conn[s] EXCEPT !.open = FALSE, !.due = FALSE, !.subscribed = {}]

\* `recheck_socket`, when told and every WS_RECHECK.
Recheck(s) ==
  /\ conn[s].open /\ conn[s].frame = NoFrame
  /\ quiet' = {p \in quiet : p[1] # s}
  /\ conn' = [conn EXCEPT ![s] = Checked(s)]
  /\ conn' # conn
  /\ UNCHANGED <<access, notes, request, ops, late>>

\* A client whose connection was closed signs in and connects again.
Open(s) ==
  /\ Op /\ ~conn[s].open
  /\ conn' = [conn EXCEPT ![s] = [@ EXCEPT !.open = TRUE, !.stands = TRUE, !.vault = None]]
  /\ UNCHANGED <<access, notes, request, quiet, late>>

\* `logout`, `revoke_token`, a password changed; and a session that runs out, of which nobody is told.
SignOut(s) ==
  /\ Op /\ conn[s].stands
  /\ conn' = [Told EXCEPT ![s].stands = FALSE]
  /\ UNCHANGED <<access, notes, request, quiet, late>>
Expire(s) ==
  /\ Op /\ conn[s].stands /\ conn[s].open
  /\ conn' = [conn EXCEPT ![s].stands = FALSE]
  /\ quiet' = quiet \cup {<<s, None>>}
  /\ UNCHANGED <<access, notes, request, late>>

-----------------------------------------------------------------------------
(* Requests: let through by a check, and acting later.                     *)
InVault(n, v) == row[n] = [vault |-> v, live |-> TRUE]
Allowed(u, r) ==
  LET role == member[r.vault][u] IN
  CASE r.kind \in {"put_member", "delete_vault"} -> role = Owner
    [] r.kind = "delete_member" -> role = Owner \/ (role # Nobody /\ r.target = u)
    [] r.kind \in {"put_share", "delete_share"} -> role >= Editor /\ InVault(r.note, r.vault)

\* What each kind of request is asked: the fields it does not use are fixed.
Asked(r) ==
  /\ r.kind = "put_member" => r.role # Nobody
  /\ r.kind = "put_share" => r.role \in {Viewer, Editor}
  /\ r.kind \notin {"put_member", "put_share"} => r.role = Nobody
  /\ r.kind \notin {"put_share", "delete_share"} => r.note = CHOOSE n \in Notes : TRUE
  /\ r.kind = "delete_vault" => r.target = CHOOSE u \in Users : TRUE

Check(q, u, r) ==
  /\ Op /\ request[q] = NoRequest
  /\ Asked(r) /\ Allowed(u, r)
  /\ request' = [request EXCEPT ![q] = r]
  /\ UNCHANGED <<access, notes, conn, quiet, late>>

Acting(q, kind) == request[q].kind = kind /\ request' = [request EXCEPT ![q] = NoRequest]

\* Mutant: any owner may go.
LastOwnerNever(v, u) == FALSE
\* `last_owner`
LastOwner(v, u) == Owners(v) = {u}

\* `put_member`: also for a user who is no member yet; refused for the only owner.
PutMember(q) ==
  LET r == request[q]  refused == r.role < Owner /\ LastOwner(r.vault, r.target) IN
  /\ Acting(q, "put_member")
  /\ member' = IF refused THEN member ELSE [member EXCEPT ![r.vault][r.target] = r.role]
  /\ conn' = IF refused THEN conn ELSE Told
  /\ late' = IF Members(r.vault) = {} THEN late \cup {r.vault} ELSE late
  /\ UNCHANGED <<share, notes, ops, quiet>>

\* Mutant: nobody is told of a member who is gone.
DeleteMemberUntold(q) ==
  LET r == request[q]  refused == LastOwner(r.vault, r.target) IN
  /\ Acting(q, "delete_member")
  /\ member' = IF refused THEN member ELSE [member EXCEPT ![r.vault][r.target] = Nobody]
  /\ UNCHANGED <<share, notes, conn, ops, quiet, late>>
DeleteMember(q) ==
  LET r == request[q]  refused == LastOwner(r.vault, r.target) IN
  /\ Acting(q, "delete_member")
  /\ member' = IF refused THEN member ELSE [member EXCEPT ![r.vault][r.target] = Nobody]
  /\ conn' = IF refused THEN conn ELSE Told
  /\ UNCHANGED <<share, notes, ops, quiet, late>>

\* `put_share` with a user, `delete_share` of one: they set the role on the note, or clear it.
ChangeShare(q) ==
  LET r == request[q] IN
  /\ Acting(q, "put_share") \/ Acting(q, "delete_share")
  /\ share' = [share EXCEPT ![r.note][r.target] = r.role]
  /\ conn' = Told
  /\ UNCHANGED <<member, notes, ops, quiet, late>>

\* `delete_vault`: its members, rows, shares and document, in one transaction.
DeleteVault(q) ==
  LET v == request[q].vault  mine == {n \in Notes : row[n].vault = v} IN
  /\ Acting(q, "delete_vault")
  /\ member' = [member EXCEPT ![v] = [u \in Users |-> Nobody]]
  /\ share' = [n \in Notes |-> IF n \in mine THEN [u \in Users |-> Nobody] ELSE share[n]]
  /\ row' = [n \in Notes |-> IF n \in mine THEN [vault |-> None, live |-> FALSE] ELSE row[n]]
  /\ listed' = [listed EXCEPT ![v] = {}]
  /\ claims' = [n \in Notes |-> IF claims[n] = v THEN None ELSE claims[n]]
  /\ conn' = Told
  /\ late' = late \ {v}
  /\ UNCHANGED <<history, ops, quiet>>

\* `purge_trash`, of a note that was in the trash for long enough.
Purge(n) ==
  /\ Op /\ row[n].vault # None /\ ~row[n].live
  /\ row' = [row EXCEPT ![n] = [vault |-> None, live |-> FALSE]]
  /\ share' = [share EXCEPT ![n] = [u \in Users |-> Nobody]]
  /\ history' = history \ {n}
  /\ UNCHANGED <<member, listed, claims, conn, request, late>>
  /\ Quietly

\* A claim lapses after CLAIM_TTL.
Lapse(n) ==
  /\ Op /\ claims[n] # None
  /\ claims' = [claims EXCEPT ![n] = None]
  /\ UNCHANGED <<access, listed, row, history, conn, request, late>>
  /\ Quietly

Frames == {f \in Frame : ~f.write \/ f.doc \in Notes => f.notes = {}}
Next ==
  \/ \E s \in Sockets :
       \/ Serve(s) \/ Recheck(s) \/ Open(s) \/ SignOut(s) \/ Expire(s)
       \/ \E f \in Frames : TakeFrame(s, f)
  \/ \E q \in Requests :
       \/ \E u \in Users, r \in Request : Check(q, u, r)
       \/ PutMember(q) \/ DeleteMember(q) \/ ChangeShare(q) \/ DeleteVault(q)
  \/ \E n \in Notes : Purge(n) \/ Lapse(n)

\* A connection's task goes on with its frame, and comes to its timer.
Spec == Init /\ [][Next]_vars /\ \A s \in Sockets : WF_vars(Serve(s)) /\ WF_vars(Recheck(s))

-----------------------------------------------------------------------------
TypeOK ==
  /\ member \in [Vaults -> [Users -> Roles]] /\ share \in [Notes -> [Users -> Nobody .. Editor]]
  /\ listed \in [Vaults -> SUBSET Notes] /\ row \in [Notes -> Row]
  /\ history \subseteq Notes /\ claims \in [Notes -> Vaults \cup {None}]
  /\ conn \in [Sockets -> Conn] /\ request \in [Requests -> {r \in Request : Asked(r)} \cup {NoRequest}]
  /\ quiet \subseteq Sockets \X (Docs \cup {None}) /\ late \subseteq Vaults

\* A vault that has members has an owner, whichever requests to change it or to leave it run at once:
\* "An owner may hand the vault over, but not leave it with nobody to own it" (`put_member`,
\* `delete_member`).  Apart from the vaults a late request gave a member after they were erased.
Owned ==
  TypeOK /\ \A v \in Vaults \ late : Members(v) # {} => Owners(v) # {}

\* "A WebSocket asks this again whenever accounts or access change, so a socket does not outlive the
\* credential it was opened with" (`authenticate_token`): what a connection is subscribed to, or will
\* be when the frame let through is served, with no news of changed access before it, its user may
\* read, and its session stands; a frame let through before access was withdrawn subscribes it all
\* the same, and is made good by the news behind it.  Apart from what was lost with nobody told.
AccessWithdrawn ==
  \A s \in Sockets : conn[s].open /\ ~conn[s].due =>
    /\ conn[s].stands \/ <<s, None>> \in quiet
    /\ \A d \in Docs \cap (conn[s].subscribed \cup {conn[s].frame.doc}) :
         DocRole(s, d) # Nobody \/ <<s, d>> \in quiet

\* Access lost in any way, a note trashed, a claim lapsed and a session run out included, of which
\* no connection is told, is withdrawn in the end (WS_RECHECK).
EventuallyWithdrawn ==
  \A s \in Sockets :
    /\ \A d \in Docs :
         d \in Subscribed(s) /\ DocRole(s, d) = Nobody ~> d \notin Subscribed(s) \/ DocRole(s, d) # Nobody
    /\ conn[s].open /\ ~conn[s].stands ~> ~conn[s].open \/ conn[s].stands
=============================================================================
