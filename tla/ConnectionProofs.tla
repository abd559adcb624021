--------------------------- MODULE ConnectionProofs --------------------------
(***************************************************************************)
(* What the server lets a connection do, and what an engine does with the  *)
(* connection it has: Access.tla's safety properties, proved for every     *)
(* number of users, vaults, notes, connections and requests, and then      *)
(* ServerLink.tla's, for every text and any number of edits and breaks.    *)
(***************************************************************************)
EXTENDS Access, ServerLink, WellFoundedInduction, TLAPS

\* A vault with members has an owner, the vaults a late request revived apart.
OwnersStay == \A v \in Vaults \ late : Members(v) # {} => Owners(v) # {}

\* A connection that is closed has nothing, and works on nothing.
Closed(s) == ~conn[s].open => conn[s].subscribed = {} /\ conn[s].frame = NoFrame

\* The documents connection s has, or is about to have, against the role of its user.
Blind(s, d) == d \in Subscribed(s) \cup {conn[s].frame.doc} /\ DocRole(s, d) = Nobody

\* A connection has been told that access changed, or what it may not have was taken quietly.
Informed(s) ==
  conn[s].open => \/ conn[s].due
                  \/ /\ conn[s].stands \/ <<s, None>> \in quiet
                     /\ \A d \in Docs : Blind(s, d) => <<s, d>> \in quiet

\* The inductive invariant.
AccessInv ==
  /\ TypeOK
  /\ OwnersStay
  /\ \A s \in Sockets : Closed(s) /\ Informed(s)
-----------------------------------------------------------------------------
(* Types.                                                                  *)

\* A request that acts is one that was asked.
LEMMA ActingType ==
  ASSUME TypeOK, NEW q \in Requests, NEW kind \in Kinds, Acting(q, kind)
  PROVE  /\ request[q] \in Request
         /\ Asked(request[q])
         /\ request' \in [Requests -> {r \in Request : Asked(r)} \cup {NoRequest}]
BY DEF TypeOK, Acting, Kinds, NoRequest, Request

\* What the steps make of a connection is one.
LEMMA ConnType ==
  ASSUME NEW c \in Conn
  PROVE  /\ c.vault \in Vaults \cup {None} /\ c.subscribed \in SUBSET Docs /\ c.frame \in Frame \cup {NoFrame}
         /\ \A f \in Frame, v \in Vaults \cup {None} : [c EXCEPT !.frame = f, !.vault = v] \in Conn
         /\ \A ds \in SUBSET Docs :
              /\ [c EXCEPT !.subscribed = ds] \in Conn
              /\ [c EXCEPT !.frame = NoFrame, !.subscribed = ds] \in Conn
              /\ [c EXCEPT !.due = FALSE, !.subscribed = ds] \in Conn
         /\ [c EXCEPT !.open = FALSE, !.due = FALSE, !.subscribed = {}] \in Conn
         /\ [c EXCEPT !.open = TRUE, !.stands = TRUE, !.vault = None] \in Conn
         /\ [c EXCEPT !.stands = FALSE] \in Conn
         /\ [c EXCEPT !.due = c.open] \in Conn
BY DEF Conn

\* Every connection stays a connection when all are told.
LEMMA ToldType ==
  ASSUME TypeOK
  PROVE  /\ Told \in [Sockets -> Conn]
         /\ \A s \in Sockets : Told[s] = [conn[s] EXCEPT !.due = conn[s].open]
BY ZenonT(60) DEF TypeOK, Told, Conn

\* The vault v there is at first, with an owner u and a member for every role.
FirstVault(v, u, roles) ==
  /\ roles[u] = Owner
  /\ member = [w \in Vaults |-> IF w = v THEN roles ELSE [x \in Users |-> Nobody]]
  /\ \E ns \in SUBSET Notes :
       /\ listed = [w \in Vaults |-> IF w = v THEN ns ELSE {}]
       /\ row = [n \in Notes |-> IF n \in ns THEN [vault |-> v, live |-> TRUE]
                                             ELSE [vault |-> None, live |-> FALSE]]
       /\ history = ns
LEMMA InitVault ==
  ASSUME Init
  PROVE  \E v \in Vaults, u \in Users, roles \in [Users -> Roles] : FirstVault(v, u, roles)
<1>1. \E v \in {CHOOSE w \in Vaults : TRUE}, u \in Users, roles \in [Users -> Roles] :
        FirstVault(v, u, roles)
  BY DEF Init, FirstVault
<1>2. (CHOOSE w \in Vaults : TRUE) \in Vaults
  BY AccessAssumption
<1> QED BY <1>1, <1>2

LEMMA InitType == Init => TypeOK
<1> SUFFICES ASSUME Init PROVE TypeOK
  OBVIOUS
<1>1. PICK v \in Vaults, u \in Users, roles \in [Users -> Roles] : FirstVault(v, u, roles)
  BY InitVault
<1>2. member \in [Vaults -> [Users -> Roles]]
  BY <1>1 DEF FirstVault, Roles, Nobody, Owner
<1>3. listed \in [Vaults -> SUBSET Notes] /\ row \in [Notes -> Row] /\ history \subseteq Notes
  BY <1>1 DEF FirstVault, Row
<1>4. conn \in [Sockets -> Conn]
  BY DEF Init, Conn
<1>5. share \in [Notes -> [Users -> Nobody .. Editor]]
  BY DEF Init, Nobody, Editor
<1>6. claims \in [Notes -> Vaults \cup {None}] /\ request \in [Requests -> {r \in Request : Asked(r)} \cup {NoRequest}]
  BY DEF Init
<1>7. quiet \subseteq Sockets \X (Docs \cup {None}) /\ late \subseteq Vaults
  BY DEF Init
<1> QED BY <1>2, <1>3, <1>4, <1>5, <1>6, <1>7 DEF TypeOK


\* What one step of frames does to the types.
LEMMA FrameType ==
  ASSUME TypeOK, NEW s \in Sockets, NEW f \in Frames, TakeFrame(s, f)
  PROVE  TypeOK'
<1> USE DEF TypeOK, TakeFrame
<1>1. UserOf[s] \in Users /\ f \in Frame /\ f.doc \in Docs
  BY AccessAssumption DEF Frames, Frame
<1>2. member' \in [Vaults -> [Users -> Roles]]
  BY <1>1 DEF Unowned, Roles, Owner, Nobody
<1>3. claims' \in [Notes -> Vaults \cup {None}]
  BY DEF Conn
<1>4. conn' \in [Sockets -> Conn]
  <2>1. conn[s] \in Conn
    OBVIOUS
  <2>2. conn[s].subscribed \ {f.doc} \in SUBSET Docs
    BY <2>1, ConnType
  <2>3. Admitted(s, f, RoleToClaim(s, f.doc)) \in Conn
    BY <1>1, <2>1, <2>2, ConnType DEF Admitted
  <2> QED BY <2>3
<1>5. quiet' \subseteq Sockets \X (Docs \cup {None})
  BY DEF QuietlyFrom, Unreadable
<1> QED BY <1>2, <1>3, <1>4, <1>5

LEMMA ServedType ==
  ASSUME TypeOK, NEW s \in Sockets, conn[s].frame # NoFrame
  PROVE  /\ conn[s].frame \in Frame
         /\ Served(s) \in [Sockets -> Conn]
<1>1. conn[s] \in Conn /\ conn[s].frame \in Frame
  BY DEF TypeOK, Conn
<1>2. conn[s].subscribed \cup {conn[s].frame.doc} \in SUBSET Docs
  BY <1>1, ConnType DEF Frame
<1>3. [conn[s] EXCEPT !.frame = NoFrame, !.subscribed = conn[s].subscribed \cup {conn[s].frame.doc}] \in Conn
  BY <1>1, <1>2, ConnType
<1> QED BY <1>1, <1>3 DEF TypeOK, Served

LEMMA ServeType ==
  ASSUME TypeOK, NEW s \in Sockets, Serve(s)
  PROVE  TypeOK'
<1> DEFINE f == conn[s].frame
           all == [x \in Sockets |-> [Served(s)[x] EXCEPT !.due = Served(s)[x].open]]
<1>1. f \in Frame
  BY ServedType DEF Serve
<1>2. f.doc \in Docs /\ f.notes \in SUBSET Notes
  BY <1>1 DEF Frame
<1>3. Served(s) \in [Sockets -> Conn]
  BY ServedType DEF Serve
<1>4. all \in [Sockets -> Conn]
  BY <1>3, ConnType
<1>5. conn' \in [Sockets -> Conn]
  BY <1>3, <1>4 DEF Serve
<1>6. quiet' \subseteq Sockets \X (Docs \cup {None})
  BY DEF TypeOK, Serve, Quietly, QuietlyFrom, Unreadable
<1>7. listed' \in [Vaults -> SUBSET Notes]
  BY <1>2 DEF TypeOK, Serve
<1>8. row' \in [Notes -> Row]
  <2>1. CASE row' = row
    BY <2>1 DEF TypeOK
  <2>2. CASE row' = Derive(f.doc, f.notes, UserOf[s]) /\ f.doc \in Vaults
    BY <2>2, ZenonT(60) DEF TypeOK, Derive, Row
  <2> QED BY <2>1, <2>2 DEF Serve
<1>9. claims' \in [Notes -> Vaults \cup {None}] /\ history' \subseteq Notes
  BY DEF TypeOK, Serve
<1> QED BY <1>5, <1>6, <1>7, <1>8, <1>9 DEF TypeOK, Serve, access

\* A connection checked again, opened, signed out or outlived.
LEMMA SocketType ==
  ASSUME TypeOK, NEW s \in Sockets, Recheck(s) \/ Open(s) \/ SignOut(s) \/ Expire(s)
  PROVE  TypeOK'
<1>1. conn' \in [Sockets -> Conn]
  <2>1. conn[s] \in Conn
    BY DEF TypeOK
  <2>2. CASE Recheck(s)
    <3>1. {d \in conn[s].subscribed : DocRole(s, d) # Nobody} \in SUBSET Docs
      BY <2>1, ConnType
    <3>2. Checked(s) \in Conn
      BY <2>1, <3>1, ConnType DEF Checked
    <3> QED BY <2>2, <3>2 DEF TypeOK, Recheck
  <2>3. CASE Open(s)
    BY <2>1, <2>3, ConnType DEF TypeOK, Open
  <2>4. CASE SignOut(s)
    BY <2>4, ToldType, ConnType DEF SignOut
  <2>5. CASE Expire(s)
    BY <2>1, <2>5, ConnType DEF TypeOK, Expire
  <2> QED BY <2>2, <2>3, <2>4, <2>5
<1>2. quiet' \subseteq Sockets \X (Docs \cup {None})
  BY DEF TypeOK, Recheck, Open, SignOut, Expire
<1> QED BY <1>1, <1>2 DEF TypeOK, Recheck, Open, SignOut, Expire, access, notes

LEMMA CheckType ==
  ASSUME TypeOK, NEW q \in Requests, NEW u \in Users, NEW r \in Request, Check(q, u, r)
  PROVE  TypeOK'
BY DEF TypeOK, Check, access, notes

\* A request that acts.
LEMMA RequestType ==
  ASSUME TypeOK, NEW q \in Requests,
         PutMember(q) \/ DeleteMember(q) \/ ChangeShare(q) \/ DeleteVault(q)
  PROVE  TypeOK'
<1>1. /\ request[q] \in Request
      /\ Asked(request[q])
      /\ request' \in [Requests -> {r \in Request : Asked(r)} \cup {NoRequest}]
  BY ActingType DEF PutMember, DeleteMember, ChangeShare, DeleteVault, Kinds
<1>2. /\ request[q].vault \in Vaults /\ request[q].note \in Notes /\ request[q].target \in Users
      /\ request[q].role \in Roles
  BY <1>1 DEF Request
<1>3. conn' \in [Sockets -> Conn]
  BY ToldType DEF TypeOK, PutMember, DeleteMember, ChangeShare, DeleteVault
<1>4. CASE PutMember(q)
  BY <1>1, <1>2, <1>3, <1>4 DEF TypeOK, PutMember, notes
<1>5. CASE DeleteMember(q)
  BY <1>1, <1>2, <1>3, <1>5 DEF TypeOK, DeleteMember, notes, Roles, Nobody, Owner
<1>6. CASE ChangeShare(q)
  BY <1>1, <1>2, <1>3, <1>6 DEF TypeOK, ChangeShare, Acting, Asked, notes, Roles, Nobody, Viewer, Editor, Owner
<1>7. CASE DeleteVault(q)
  BY <1>1, <1>2, <1>3, <1>7 DEF TypeOK, DeleteVault, Roles, Row, Nobody, Owner, Editor
<1> QED BY <1>4, <1>5, <1>6, <1>7

LEMMA NoteType ==
  ASSUME TypeOK, NEW n \in Notes, Purge(n) \/ Lapse(n)
  PROVE  TypeOK'
<1>1. quiet' \subseteq Sockets \X (Docs \cup {None})
  BY DEF TypeOK, Purge, Lapse, Quietly, QuietlyFrom, Unreadable
<1>2. CASE Purge(n)
  BY <1>1, <1>2 DEF TypeOK, Purge, Row, Nobody, Editor
<1>3. CASE Lapse(n)
  BY <1>1, <1>3 DEF TypeOK, Lapse, access
<1> QED BY <1>2, <1>3

LEMMA NextType == TypeOK /\ [Next]_vars => TypeOK'
<1> SUFFICES ASSUME TypeOK, [Next]_vars PROVE TypeOK'
  OBVIOUS
<1>1. CASE UNCHANGED vars
  BY <1>1 DEF TypeOK, vars, access, notes
<1>2. CASE Next
  BY <1>2, FrameType, ServeType, SocketType, CheckType, RequestType, NoteType DEF Next
<1> QED BY <1>1, <1>2
-----------------------------------------------------------------------------
(* Owners.                                                                 *)

LEMMA InitOwners == Init => OwnersStay
<1> SUFFICES ASSUME Init PROVE OwnersStay
  OBVIOUS
<1>1. PICK v \in Vaults, u \in Users, roles \in [Users -> Roles] : FirstVault(v, u, roles)
  BY InitVault
<1> USE DEF FirstVault
<1>2. ASSUME NEW w \in Vaults PROVE Members(w) # {} => Owners(w) # {}
  <2>1. CASE w = v
    BY <1>1, <2>1 DEF Owners
  <2>2. CASE w # v
    BY <1>1, <2>2 DEF Members
  <2> QED BY <2>1, <2>2
<1> QED BY <1>2 DEF OwnersStay

\* A role given or taken that does not take the last owner's.
LEMMA RoleChange ==
  ASSUME TypeOK, OwnersStay, NEW v \in Vaults, NEW u \in Users, NEW r \in Roles,
         r < Owner => ~LastOwner(v, u),
         member' = [member EXCEPT ![v][u] = r],
         Members(v) = {} => v \in late', late \subseteq late'
  PROVE  OwnersStay'
<1> SUFFICES ASSUME NEW w \in Vaults \ late', Members(w)' # {} PROVE Owners(w)' # {}
  BY DEF OwnersStay
<1>1. w \in Vaults \ late /\ (w = v => Members(w) # {})
  OBVIOUS
<1>2. CASE w # v
  BY <1>1, <1>2 DEF OwnersStay, Members, Owners, TypeOK
<1>3. CASE w = v
  <2>1. Owners(v) # {}
    BY <1>1, <1>3 DEF OwnersStay
  <2>2. \A x \in Users : member'[v][x] = IF x = u THEN r ELSE member[v][x]
    BY DEF TypeOK
  <2>3. CASE r = Owner
    BY <1>3, <2>2, <2>3 DEF Owners
  <2>4. CASE r # Owner
    <3>1. Owners(v) # {u}
      BY <2>4 DEF LastOwner, Roles, Owner, Nobody
    <3>2. PICK x \in Owners(v) : x # u
      BY <2>1, <3>1
    <3> QED BY <1>3, <2>2, <3>2 DEF Owners
  <2> QED BY <2>3, <2>4
<1> QED BY <1>2, <1>3

LEMMA NextOwners == TypeOK /\ OwnersStay /\ [Next]_vars => OwnersStay'
<1> SUFFICES ASSUME TypeOK, OwnersStay, [Next]_vars PROVE OwnersStay'
  OBVIOUS
<1> USE DEF Members, Owners
<1>1. CASE member' = member /\ late' = late
  BY <1>1 DEF OwnersStay
<1>2. ASSUME NEW s \in Sockets, NEW f \in Frames, TakeFrame(s, f)
      PROVE  OwnersStay'
  <2>1. CASE Unowned(f.doc)
    <3>1. f.doc \in Vaults /\ UserOf[s] \in Users
      BY <2>1, AccessAssumption DEF Unowned
    <3>2. \A x \in Users :
            member'[f.doc][x] = IF x = UserOf[s] THEN Owner ELSE member[f.doc][x]
      BY <1>2, <2>1, <3>1 DEF TakeFrame, TypeOK
    <3>3. \A w \in Vaults : w # f.doc => member'[w] = member[w]
      BY <1>2, <2>1, <3>1 DEF TakeFrame, TypeOK
    <3> QED BY <1>2, <3>1, <3>2, <3>3 DEF TakeFrame, OwnersStay
  <2>2. CASE ~Unowned(f.doc)
    BY <1>1, <1>2, <2>2 DEF TakeFrame
  <2> QED BY <2>1, <2>2
<1>3. ASSUME NEW q \in Requests, PutMember(q) \/ DeleteMember(q) PROVE OwnersStay'
  <2> DEFINE r == request[q]
  <2>1. r \in Request /\ Asked(r)
    BY <1>3, ActingType DEF PutMember, DeleteMember, Kinds
  <2>2. r.vault \in Vaults /\ r.target \in Users /\ r.role \in Roles
    BY <2>1 DEF Request
  <2>3. CASE PutMember(q) /\ ~(r.role < Owner /\ LastOwner(r.vault, r.target))
    <3>1. /\ member' = [member EXCEPT ![r.vault][r.target] = r.role]
          /\ late \subseteq late'
          /\ Members(r.vault) = {} => r.vault \in late'
      BY <2>3 DEF PutMember
    <3>2. r.role < Owner => ~LastOwner(r.vault, r.target)
      BY <2>3
    <3> QED BY <2>2, <3>1, <3>2, RoleChange
  <2>4. CASE PutMember(q) /\ r.role < Owner /\ LastOwner(r.vault, r.target)
    BY <2>4 DEF PutMember, OwnersStay
  <2>5. CASE DeleteMember(q) /\ ~LastOwner(r.vault, r.target) /\ Members(r.vault) # {}
    <3>1. /\ member' = [member EXCEPT ![r.vault][r.target] = Nobody]
          /\ late' = late /\ Nobody \in Roles
      BY <2>5 DEF DeleteMember, Roles, Nobody, Owner
    <3> QED BY <2>2, <2>5, <3>1, RoleChange
  <2>6. CASE DeleteMember(q) /\ ~LastOwner(r.vault, r.target) /\ Members(r.vault) = {}
    <3>1. /\ member' = [member EXCEPT ![r.vault][r.target] = Nobody]
          /\ late' = late
      BY <2>6 DEF DeleteMember
    <3>2. \A w \in Vaults, x \in Users : member'[w][x] = member[w][x]
      BY <2>2, <2>6, <3>1 DEF TypeOK
    <3> QED BY <3>1, <3>2 DEF OwnersStay
  <2>7. CASE DeleteMember(q) /\ LastOwner(r.vault, r.target)
    BY <1>1, <2>7 DEF DeleteMember
  <2> QED BY <1>3, <2>3, <2>4, <2>5, <2>6, <2>7
<1>4. ASSUME NEW q \in Requests, DeleteVault(q) PROVE OwnersStay'
  <2> DEFINE v == request[q].vault
  <2>1. v \in Vaults
    BY <1>4, ActingType DEF DeleteVault, Kinds, Request
  <2>2. \A u \in Users : member'[v][u] = Nobody
    BY <1>4, <2>1 DEF DeleteVault, TypeOK
  <2>3. \A w \in Vaults : w # v => member'[w] = member[w]
    BY <1>4, <2>1 DEF DeleteVault, TypeOK
  <2>4. late' = late \ {v}
    BY <1>4 DEF DeleteVault
  <2> QED BY <2>2, <2>3, <2>4 DEF OwnersStay
<1>5. ASSUME NEW s \in Sockets, Serve(s) \/ Recheck(s) \/ Open(s) \/ SignOut(s) \/ Expire(s)
      PROVE  OwnersStay'
  BY <1>1, <1>5 DEF Serve, Recheck, Open, SignOut, Expire, access
<1>6. ASSUME NEW q \in Requests, \/ \E u \in Users, r \in Request : Check(q, u, r)
                                 \/ ChangeShare(q)
      PROVE  OwnersStay'
  BY <1>1, <1>6 DEF Check, ChangeShare, access
<1>7. ASSUME NEW n \in Notes, Purge(n) \/ Lapse(n) PROVE OwnersStay'
  BY <1>1, <1>7 DEF Purge, Lapse, access
<1>8. CASE UNCHANGED vars
  BY <1>1, <1>8 DEF vars, access
<1>9. CASE Next
  BY <1>9, <1>2, <1>3, <1>4, <1>5, <1>6, <1>7 DEF Next
<1> QED BY <1>8, <1>9
-----------------------------------------------------------------------------
(* Connections.                                                            *)
AllInformed == \A s \in Sockets : Closed(s) /\ Informed(s)

LEMMA MaxOfTwo ==
  ASSUME NEW a \in Nat, NEW b \in Nat
  PROVE  Max({a, b}) \in Nat /\ (Max({a, b}) = 0 <=> a = 0 /\ b = 0)
<1>1. \E x \in {a, b} : \A y \in {a, b} : x >= y
  <2>1. CASE a >= b
    BY <2>1
  <2>2. CASE b >= a
    BY <2>2
  <2> QED BY <2>1, <2>2
<1>2. Max({a, b}) \in {a, b} /\ \A y \in {a, b} : Max({a, b}) >= y
  BY <1>1 DEF Max
<1> QED BY <1>2

\* A user has no role on a note whose vault is v just when neither vault nor note give one.
NoRole(u, n, v) ==
  \/ v = None \/ row[n].vault \notin {None, v}
  \/ /\ member[v][u] = Nobody
     /\ row[n].vault # None /\ row[n].live => share[n][u] = Nobody
NoteRolesRight ==
  \A u \in Users, n \in Notes, v \in Vaults \cup {None} :
    NoteRole(u, n, v) \in Nat /\ (NoteRole(u, n, v) = Nobody <=> NoRole(u, n, v))
LEMMA NoNoteRole == TypeOK => NoteRolesRight
<1> SUFFICES ASSUME TypeOK, NEW u \in Users, NEW n \in Notes, NEW v \in Vaults \cup {None}
             PROVE  NoteRole(u, n, v) \in Nat /\ (NoteRole(u, n, v) = Nobody <=> NoRole(u, n, v))
  BY DEF NoteRolesRight
<1> USE DEF NoRole
<1> DEFINE shared == IF row[n].vault # None /\ row[n].live THEN share[n][u] ELSE Nobody
<1>1. CASE v = None \/ row[n].vault \notin {None, v}
  BY <1>1 DEF NoteRole, Nobody
<1>2. CASE v # None /\ row[n].vault \in {None, v}
  <2>1. member[v][u] \in Nat /\ shared \in Nat
    BY <1>2 DEF TypeOK, Roles, Nobody, Owner, Editor
  <2>2. NoteRole(u, n, v) = Max({member[v][u], shared})
    BY <1>2 DEF NoteRole
  <2> HIDE DEF shared
  <2>3. NoteRole(u, n, v) \in Nat /\ (NoteRole(u, n, v) = 0 <=> member[v][u] = 0 /\ shared = 0)
    BY <2>1, <2>2, MaxOfTwo
  <2> USE DEF shared
  <2> QED BY <1>2, <2>3 DEF Nobody
<1> QED BY <1>1, <1>2

LEMMA VaultOfType ==
  ASSUME TypeOK, NEW s \in Sockets, NEW n \in Notes
  PROVE  VaultOf(s, n) \in Vaults \cup {None}
BY DEF TypeOK, VaultOf, Row, Conn

LEMMA DocRoleType ==
  ASSUME TypeOK, NEW s \in Sockets, NEW d \in Docs
  PROVE  DocRole(s, d) \in Nat
<1>1. UserOf[s] \in Users
  BY AccessAssumption
<1>2. CASE d \in Vaults
  BY <1>1, <1>2 DEF DocRole, TypeOK, Roles, Nobody, Owner
<1>3. CASE d \notin Vaults
  BY <1>1, <1>3, NoNoteRole, VaultOfType DEF NoteRolesRight, DocRole, Docs
<1> QED BY <1>2, <1>3

\* A step that tells every connection.
LEMMA Telling ==
  ASSUME TypeOK, AllInformed, conn' = Told
  PROVE  AllInformed'
<1> SUFFICES ASSUME NEW s \in Sockets PROVE Closed(s)' /\ Informed(s)'
  BY DEF AllInformed
<1>1. conn'[s] = [conn[s] EXCEPT !.due = conn[s].open]
  BY ToldType
<1>2. conn[s] \in Conn /\ Closed(s)
  BY DEF TypeOK, AllInformed
<1>3. /\ conn'[s].open = conn[s].open /\ conn'[s].subscribed = conn[s].subscribed
      /\ conn'[s].frame = conn[s].frame /\ conn'[s].due = conn[s].open
  BY <1>1, <1>2 DEF Conn
<1> QED BY <1>2, <1>3 DEF Closed, Informed

\* A step that leaves connection s and its access alone, or writes down what it takes.
LEMMA StaysInformed ==
  ASSUME NEW s \in Sockets, Closed(s), Informed(s), conn'[s] = conn[s],
         \A d \in Docs \cup {None} : <<s, d>> \in quiet => <<s, d>> \in quiet',
         \A d \in Docs : Blind(s, d)' => Blind(s, d) \/ <<s, d>> \in quiet'
  PROVE  Closed(s)' /\ Informed(s)'
BY DEF Closed, Informed

\* Such a step for every connection of the set ss.
LEMMA QuietStep ==
  ASSUME TypeOK, NEW ss \in SUBSET Sockets, QuietlyFrom(ss)
  PROVE  /\ quiet \subseteq quiet'
         /\ \A s \in ss, d \in Docs : Blind(s, d)' => Blind(s, d) \/ <<s, d>> \in quiet'
BY DEF QuietlyFrom, Unreadable, Blind

LEMMA InitInformed == Init => AllInformed
BY AccessAssumption DEF Init, AllInformed, Closed, Informed, Blind, Subscribed, NoFrame, Docs

LEMMA NoNoteRoleNext == TypeOK' => NoteRolesRight'
<1>1. (TypeOK => NoteRolesRight)'
  BY NoNoteRole, PTL
<1> QED BY <1>1

\* A frame takes no access from the connection it arrives on.
LEMMA FrameKeepsAccess ==
  ASSUME TypeOK, TypeOK', NEW s \in Sockets, NEW f \in Frames, TakeFrame(s, f),
         NEW d \in Docs, DocRole(s, d)' = Nobody
  PROVE  DocRole(s, d) = Nobody
<1> DEFINE u == UserOf[s]
           admitted == RoleToClaim(s, f.doc) >= (IF f.write THEN Editor ELSE Viewer)
<1>1. u \in Users /\ f \in Frame /\ f.doc \in Docs
  BY AccessAssumption DEF Frames, Frame
<1>2. \A v \in Vaults : member'[v][u] = Nobody => member[v][u] = Nobody
  BY <1>1 DEF TypeOK, TakeFrame, Owner, Nobody
<1>3. conn[s] \in Conn
  BY DEF TypeOK
<1>4. conn'[s] = Admitted(s, f, RoleToClaim(s, f.doc))
  BY DEF TakeFrame, TypeOK
<1>5. conn'[s].vault = IF admitted /\ f.doc \in Vaults THEN f.doc ELSE conn[s].vault
  BY <1>3, <1>4 DEF Admitted, Conn
<1>6. ASSUME admitted, f.doc \in Vaults PROVE member'[f.doc][u] # Nobody
  <2>1. CASE Unowned(f.doc)
    BY <1>1, <1>6, <2>1 DEF TakeFrame, TypeOK, Owner, Nobody
  <2>2. CASE ~Unowned(f.doc)
    BY <1>1, <1>6, <2>2 DEF TakeFrame, TypeOK, RoleToClaim, DocRole, Viewer, Editor, Nobody
  <2> QED BY <2>1, <2>2
<1>7. CASE d \in Vaults
  BY <1>2, <1>7 DEF DocRole
<1>8. CASE d \notin Vaults
  <2>1. d \in Notes
    BY <1>8 DEF Docs
  <2>2. DocRole(s, d) = NoteRole(u, d, VaultOf(s, d))
    BY <1>8 DEF DocRole
  <2>3. /\ row' = row /\ history' = history /\ share' = share
        /\ claims' = IF New(f.doc) THEN [claims EXCEPT ![f.doc] = conn[s].vault] ELSE claims
    BY DEF TakeFrame
  <2>4. VaultOf(s, d) \in Vaults \cup {None}
    BY <2>1, VaultOfType
  <2>5. ASSUME NEW v \in Vaults \cup {None}, v = VaultOf(s, d)'
        PROVE  NoRole(u, d, v)'
    <3>1. NoteRole(u, d, v)' = Nobody
      BY <1>8, <2>5 DEF DocRole, NoteRole
    <3>2. NoteRolesRight'
      BY NoNoteRoleNext
    <3> QED BY <1>1, <2>1, <3>1, <3>2 DEF NoteRolesRight
  <2>6. CASE VaultOf(s, d)' = VaultOf(s, d)
    <3>1. PICK v \in Vaults \cup {None} : v = VaultOf(s, d)
      BY <2>4
    <3>2. NoRole(u, d, v)'
      BY <2>6, <2>5, <3>1
    <3>3. NoRole(u, d, v)
      BY <1>2, <2>3, <3>2 DEF NoRole
    <3> QED BY <1>1, <2>1, <2>2, <3>1, <3>3, NoNoteRole DEF NoteRolesRight
  <2>7. CASE VaultOf(s, d)' # VaultOf(s, d)
    <3>1. New(d)
      BY <2>1, <2>3, <2>7 DEF VaultOf, New, TypeOK
    <3>2. d # f.doc
      BY <1>5, <1>8, <2>1, <2>3, <2>7, <3>1 DEF VaultOf, New, TypeOK
    <3>3. VaultOf(s, d)' = conn'[s].vault /\ VaultOf(s, d) = conn[s].vault
      BY <2>1, <2>3, <3>1, <3>2 DEF VaultOf, New, TypeOK
    <3>4. VaultOf(s, d)' = f.doc /\ f.doc \in Vaults /\ member'[f.doc][u] # Nobody
      BY <1>5, <1>6, <2>7, <3>3
    <3>5. ~NoRole(u, d, f.doc)'
      BY <2>3, <3>1, <3>4, AccessAssumption DEF NoRole, New
    <3> QED BY <2>5, <3>4, <3>5
  <2> QED BY <2>6, <2>7
<1> QED BY <1>7, <1>8

LEMMA FrameInforms ==
  ASSUME TypeOK, TypeOK', AllInformed, NEW s \in Sockets, NEW f \in Frames, TakeFrame(s, f)
  PROVE  AllInformed'
<1> DEFINE admitted == RoleToClaim(s, f.doc) >= (IF f.write THEN Editor ELSE Viewer)
<1>1. f \in Frame /\ f.doc \in Docs /\ conn[s] \in Conn /\ UserOf[s] \in Users
  BY AccessAssumption DEF Frames, Frame, TypeOK
<1>2. QuietlyFrom(Sockets \ {s})
  BY DEF TakeFrame
<1>3. quiet \subseteq quiet'
  BY <1>2, QuietStep
<1>4. ASSUME NEW x \in Sockets, x # s PROVE Closed(x)' /\ Informed(x)'
  <2>1. conn'[x] = conn[x]
    BY <1>4 DEF TakeFrame, TypeOK
  <2>2. \A d \in Docs : Blind(x, d)' => Blind(x, d) \/ <<x, d>> \in quiet'
    BY <1>2, <1>4, QuietStep
  <2>3. Closed(x) /\ Informed(x)
    BY DEF AllInformed
  <2> QED BY <1>3, <2>1, <2>2, <2>3, StaysInformed
<1>5. Closed(s)' /\ Informed(s)'
  <2>1. conn[s].open /\ conn[s].frame = NoFrame /\ Informed(s)
    BY DEF TakeFrame, AllInformed
  <2>2. conn'[s] = Admitted(s, f, RoleToClaim(s, f.doc))
    BY DEF TakeFrame, TypeOK
  <2>3. conn'[s].open /\ conn'[s].due = conn[s].due /\ conn'[s].stands = conn[s].stands
    BY <1>1, <2>1, <2>2 DEF Admitted, Conn
  <2>4. ASSUME NEW d \in Docs, Blind(s, d)' PROVE Blind(s, d)
    <3>1. DocRole(s, d)' = Nobody /\ DocRole(s, d) = Nobody
      BY <2>4, FrameKeepsAccess DEF Blind
    <3>2. CASE admitted
      <4>1. conn'[s].subscribed = conn[s].subscribed /\ conn'[s].frame = f
        BY <1>1, <2>2, <3>2 DEF Admitted, Conn
      <4>2. DocRole(s, f.doc)' # Nobody
        <5>1. CASE Unowned(f.doc)
          BY <1>1, <5>1 DEF Unowned, TakeFrame, TypeOK, DocRole, Owner, Nobody
        <5>2. CASE ~Unowned(f.doc)
          <6>1. DocRole(s, f.doc) # Nobody
            BY <3>2, <5>2 DEF RoleToClaim, Viewer, Editor, Nobody
          <6> QED BY <1>1, <6>1, FrameKeepsAccess
        <5> QED BY <5>1, <5>2
      <4> QED BY <2>1, <2>3, <2>4, <3>1, <4>1, <4>2 DEF Blind, Subscribed
    <3>3. CASE ~admitted
      <4>1. conn'[s].subscribed \subseteq conn[s].subscribed /\ conn'[s].frame = conn[s].frame
        BY <1>1, <2>2, <3>3 DEF Admitted, Conn
      <4> QED BY <2>1, <2>3, <2>4, <3>1, <4>1 DEF Blind, Subscribed
    <3> QED BY <3>2, <3>3
  <2> QED BY <1>3, <2>1, <2>3, <2>4 DEF Closed, Informed
<1> QED BY <1>4, <1>5 DEF AllInformed

LEMMA ServeInforms ==
  ASSUME TypeOK, AllInformed, NEW s \in Sockets, Serve(s)
  PROVE  AllInformed'
<1> DEFINE served == Served(s)
           all == [x \in Sockets |-> [served[x] EXCEPT !.due = served[x].open]]
<1>1. \A x \in Sockets : Closed(x) /\ Informed(x) /\ conn[x] \in Conn
  BY DEF AllInformed, TypeOK
<1>2. conn[s].open /\ conn[s].frame # NoFrame
  BY <1>1 DEF Serve, Closed
<1>3. \A x \in Sockets :
        /\ served[x].open = conn[x].open /\ served[x].due = conn[x].due
        /\ served[x].stands = conn[x].stands
        /\ served[x].subscribed \cup {served[x].frame.doc}
             \subseteq conn[x].subscribed \cup {conn[x].frame.doc, None}
        /\ ~served[x].open => served[x].subscribed = {} /\ served[x].frame = NoFrame
  BY <1>1, <1>2, ZenonT(60) DEF TypeOK, Conn, Closed, NoFrame, Served
<1>4. CASE conn' = served /\ Quietly
  <2>1. quiet \subseteq quiet' /\ \A x \in Sockets, d \in Docs :
                                     Blind(x, d)' => Blind(x, d) \/ <<x, d>> \in quiet'
    BY <1>4, QuietStep DEF Quietly
  <2>2. ASSUME NEW x \in Sockets PROVE Closed(x)' /\ Informed(x)'
    BY <1>1, <1>3, <1>4, <2>1 DEF Closed, Informed
  <2> QED BY <2>2 DEF AllInformed
<1>5. CASE conn' = all
  <2>1. ASSUME NEW x \in Sockets PROVE Closed(x)' /\ Informed(x)'
    <3>1. served[x] \in Conn
      BY <1>2, ServedType
    <3>2. conn'[x] = [served[x] EXCEPT !.due = served[x].open]
      BY <1>5
    <3> HIDE DEF served
    <3>3. /\ conn'[x].open = served[x].open /\ conn'[x].due = served[x].open
          /\ conn'[x].subscribed = served[x].subscribed /\ conn'[x].frame = served[x].frame
      BY <3>1, <3>2 DEF Conn
    <3> QED BY <1>3, <3>3 DEF Closed, Informed
  <2> QED BY <2>1 DEF AllInformed
<1> QED BY <1>4, <1>5 DEF Serve

\* Where no role changes, what a connection may not have is what it has anew.
LEMMA SameRoles ==
  ASSUME NEW x \in Sockets, NEW d \in Docs, UNCHANGED <<access, notes>>,
         conn'[x].vault = conn[x].vault
  PROVE  DocRole(x, d)' = DocRole(x, d)
BY DEF access, notes, DocRole, NoteRole, VaultOf

LEMMA SocketInforms ==
  ASSUME TypeOK, AllInformed, NEW s \in Sockets, Recheck(s) \/ Open(s) \/ Expire(s)
  PROVE  AllInformed'
<1>1. UNCHANGED <<access, notes>>
  BY DEF Recheck, Open, Expire
<1>2. conn[s] \in Conn /\ Closed(s) /\ Informed(s)
  BY DEF TypeOK, AllInformed
<1>3. ASSUME NEW x \in Sockets, x # s PROVE Closed(x)' /\ Informed(x)'
  <2>1. conn'[x] = conn[x]
    BY <1>3 DEF Recheck, Open, Expire, TypeOK
  <2>2. \A d \in Docs \cup {None} : <<x, d>> \in quiet => <<x, d>> \in quiet'
    BY <1>3 DEF Recheck, Open, Expire
  <2>3. \A d \in Docs : Blind(x, d)' => Blind(x, d)
    BY <1>1, <2>1, SameRoles DEF Blind, Subscribed
  <2>4. Closed(x) /\ Informed(x)
    BY DEF AllInformed
  <2> QED BY <2>1, <2>2, <2>3, <2>4, StaysInformed
<1>4. Closed(s)' /\ Informed(s)'
  <2>1. CASE Recheck(s)
    <3>1. conn'[s] = Checked(s) /\ conn[s].frame = NoFrame
      BY <2>1 DEF Recheck, TypeOK
    <3>2. CASE ~conn[s].stands
      <4>1. ~conn'[s].open /\ conn'[s].subscribed = {} /\ conn'[s].frame = NoFrame
        BY <1>2, <3>1, <3>2 DEF Checked, Conn
      <4> QED BY <4>1 DEF Closed, Informed
    <3>3. CASE conn[s].stands
      <4>1. /\ conn'[s].open = conn[s].open /\ conn'[s].stands /\ conn'[s].vault = conn[s].vault
            /\ conn'[s].subscribed = {d \in conn[s].subscribed : DocRole(s, d) # Nobody}
            /\ conn'[s].frame = NoFrame
        BY <1>2, <3>1, <3>3 DEF Checked, Conn
      <4>2. conn[s].open
        BY <2>1 DEF Recheck
      <4>3. ASSUME NEW d \in Docs PROVE ~Blind(s, d)'
        BY <1>1, <4>1, <4>2, SameRoles, AccessAssumption DEF Blind, Subscribed, NoFrame, Docs
      <4> QED BY <4>1, <4>2, <4>3 DEF Closed, Informed
    <3> QED BY <3>2, <3>3
  <2>2. CASE Open(s)
    <3>1. conn'[s].open /\ conn'[s].stands /\ conn'[s].subscribed = {} /\ conn'[s].frame = NoFrame
      BY <1>2, <2>2 DEF Open, TypeOK, Conn, Closed
    <3> QED BY <3>1, AccessAssumption DEF Closed, Informed, Blind, Subscribed, NoFrame, Docs
  <2>3. CASE Expire(s)
    <3>1. /\ conn'[s].open = conn[s].open /\ conn'[s].due = conn[s].due
          /\ conn'[s].subscribed = conn[s].subscribed /\ conn'[s].frame = conn[s].frame
          /\ conn'[s].vault = conn[s].vault
      BY <1>2, <2>3 DEF Expire, TypeOK, Conn
    <3>2. <<s, None>> \in quiet' /\ quiet \subseteq quiet'
      BY <2>3 DEF Expire
    <3>3. \A d \in Docs : Blind(s, d)' => Blind(s, d)
      BY <1>1, <3>1, SameRoles DEF Blind, Subscribed
    <3> QED BY <1>2, <3>1, <3>2, <3>3 DEF Closed, Informed
  <2> QED BY <2>1, <2>2, <2>3
<1> QED BY <1>3, <1>4 DEF AllInformed

LEMMA SignOutInforms ==
  ASSUME TypeOK, AllInformed, NEW s \in Sockets, SignOut(s)
  PROVE  AllInformed'
<1>1. conn' = [Told EXCEPT ![s].stands = FALSE]
  BY DEF SignOut
<1>2. ASSUME NEW x \in Sockets
      PROVE  /\ conn'[x].open = conn[x].open /\ conn'[x].due = conn[x].open
             /\ conn'[x].subscribed = conn[x].subscribed /\ conn'[x].frame = conn[x].frame
  <2>1. Told[x] = [conn[x] EXCEPT !.due = conn[x].open] /\ Told \in [Sockets -> Conn]
    BY ToldType
  <2>2. conn'[x] = IF x = s THEN [Told[x] EXCEPT !.stands = FALSE] ELSE Told[x]
    BY <1>1, <2>1
  <2>3. conn[x] \in Conn /\ Told[x] \in Conn
    BY <2>1 DEF TypeOK
  <2> QED BY <2>1, <2>2, <2>3 DEF Conn
<1> QED BY <1>2 DEF AllInformed, Closed, Informed

LEMMA NextInformed == TypeOK /\ AllInformed /\ [Next]_vars => AllInformed'
<1> SUFFICES ASSUME TypeOK, AllInformed, [Next]_vars PROVE AllInformed'
  OBVIOUS
<1>1. TypeOK'
  BY NextType
<1>2. ASSUME conn' = conn, UNCHANGED <<access, notes, quiet>> PROVE AllInformed'
  <2>1. ASSUME NEW x \in Sockets PROVE Closed(x)' /\ Informed(x)'
    <3>1. \A d \in Docs : Blind(x, d)' => Blind(x, d)
      BY <1>2, SameRoles DEF Blind, Subscribed
    <3>2. Closed(x) /\ Informed(x)
      BY DEF AllInformed
    <3> QED BY <1>2, <3>1, <3>2, StaysInformed
  <2> QED BY <2>1 DEF AllInformed
<1>3. ASSUME conn' = conn, Quietly PROVE AllInformed'
  <2>1. /\ quiet \subseteq quiet'
        /\ \A x \in Sockets, d \in Docs : Blind(x, d)' => Blind(x, d) \/ <<x, d>> \in quiet'
    BY <1>3, QuietStep DEF Quietly
  <2>2. ASSUME NEW x \in Sockets PROVE Closed(x)' /\ Informed(x)'
    BY <1>3, <2>1, StaysInformed DEF AllInformed
  <2> QED BY <2>2 DEF AllInformed
<1>4. ASSUME NEW s \in Sockets, Serve(s) \/ Recheck(s) \/ Open(s) \/ SignOut(s) \/ Expire(s)
                                \/ \E f \in Frames : TakeFrame(s, f)
      PROVE  AllInformed'
  BY <1>1, <1>4, ServeInforms, SocketInforms, SignOutInforms, FrameInforms
<1>5. ASSUME NEW q \in Requests, \E u \in Users, r \in Request : Check(q, u, r)
      PROVE  AllInformed'
  BY <1>2, <1>5 DEF Check
<1>6. ASSUME NEW q \in Requests, PutMember(q) \/ DeleteMember(q) \/ ChangeShare(q) \/ DeleteVault(q)
      PROVE  AllInformed'
  <2>1. CASE conn' = Told
    BY <2>1, Telling
  <2>2. CASE conn' # Told
    BY <1>2, <1>6, <2>2 DEF PutMember, DeleteMember, ChangeShare, DeleteVault, access
  <2> QED BY <2>1, <2>2
<1>7. ASSUME NEW n \in Notes, Purge(n) \/ Lapse(n) PROVE AllInformed'
  BY <1>3, <1>7 DEF Purge, Lapse
<1>8. CASE UNCHANGED vars
  BY <1>2, <1>8 DEF vars
<1>9. CASE Next
  BY <1>9, <1>4, <1>5, <1>6, <1>7 DEF Next
<1> QED BY <1>8, <1>9
-----------------------------------------------------------------------------
LEMMA InvInit == Init => AccessInv
BY InitType, InitOwners, InitInformed DEF AccessInv, AllInformed

LEMMA InvNext == AccessInv /\ [Next]_vars => AccessInv'
BY NextType, NextOwners, NextInformed DEF AccessInv, AllInformed

LEMMA InvHolds == Spec => []AccessInv
BY InvInit, InvNext, PTL DEF Spec

\* Whatever requests to change members cross, a vault with members has an owner, unless a late
\* request gave it a member after it was erased (`put_member`, `delete_member`).
THEOREM OwnedHolds == Spec => []Owned
<1>1. AccessInv => Owned
  BY DEF AccessInv, OwnersStay, Owned
<1> QED BY <1>1, InvHolds, PTL

\* No connection keeps what its user may no longer read, nor outlives its session, once it has
\* dealt with the news of changed access, unless nobody was told (`recheck_socket`).
THEOREM AccessWithdrawnHolds == Spec => []AccessWithdrawn
<1>1. AccessInv => AccessWithdrawn
  <2> SUFFICES ASSUME AccessInv, NEW s \in Sockets, conn[s].open, ~conn[s].due
               PROVE  /\ conn[s].stands \/ <<s, None>> \in quiet
                      /\ \A d \in Docs \cap (conn[s].subscribed \cup {conn[s].frame.doc}) :
                           DocRole(s, d) # Nobody \/ <<s, d>> \in quiet
    BY DEF AccessWithdrawn
  <2>1. Informed(s)
    BY DEF AccessInv
  <2> QED BY <2>1 DEF Informed, Blind, Subscribed
<1> QED BY <1>1, InvHolds, PTL

-----------------------------------------------------------------------------
(* An engine and its server.                                               *)

\* The least number of a set of them.
LEMMA LeastOf ==
  ASSUME NEW S \in SUBSET Nat, S # {}
  PROVE  \E n \in S : \A m \in S : n <= m
<1>1. PICK x \in S : \A y \in S : ~ (<<y, x>> \in OpToRel(<, Nat))
  BY NatLessThanWellFounded, WFMin
<1>2. \A y \in S : ~ (y < x)
  BY <1>1 DEF OpToRel
<1> QED BY <1>2

-----------------------------------------------------------------------------
(* The entries of the vault document are in one line.                      *)

Splits(a, b, k) ==
  /\ k \in 1 .. Len(a) + 1
  /\ \A j \in 1 .. k - 1 : j <= Len(b) /\ a[j] = b[j]
  /\ k > Len(a) \/ k > Len(b) \/ a[k] # b[k]

LEMMA SplitOnce ==
  ASSUME NEW a \in Seq(Places), NEW b \in Seq(Places)
  PROVE  \E k \in Nat : Splits(a, b, k) /\ \A i \in Nat : Splits(a, b, i) => i = k
<1> DEFINE S == {k \in Nat : k >= 1 /\ (k > Len(a) \/ k > Len(b) \/ a[k] # b[k])}
<1>1. Len(a) \in Nat /\ Len(b) \in Nat
  OBVIOUS
<1>2. Len(a) + 1 \in S
  BY <1>1
<1>3. PICK k \in S : \A m \in S : k <= m
  <2>1. S \in SUBSET Nat /\ S # {}
    BY <1>2
  <2> QED BY <2>1, LeastOf
<1>4. \A j \in 1 .. k - 1 : j <= Len(a) /\ j <= Len(b) /\ a[j] = b[j]
  BY <1>1, <1>3
<1>5. Splits(a, b, k)
  BY <1>1, <1>2, <1>3, <1>4 DEF Splits
<1>6. ASSUME NEW i \in Nat, Splits(a, b, i) PROVE i = k
  <2>1. i \in S
    BY <1>6, <1>1 DEF Splits
  <2>2. k <= i
    BY <1>3, <2>1
  <2>3. ~ (k < i)
    BY <1>1, <1>3, <1>6 DEF Splits
  <2> QED BY <1>3, <2>2, <2>3
<1> QED BY <1>3, <1>5, <1>6

LEMMA SplitsBack ==
  ASSUME NEW a \in Seq(Places), NEW b \in Seq(Places), NEW k \in Nat, Splits(a, b, k)
  PROVE  Splits(b, a, k)
<1>1. Len(a) \in Nat /\ Len(b) \in Nat
  OBVIOUS
<1>2. k - 1 <= Len(b)
  BY <1>1 DEF Splits
<1>3. k \in 1 .. Len(b) + 1
  BY <1>1, <1>2 DEF Splits
<1> QED BY <1>1, <1>3 DEF Splits

LEMMA PrefersIs ==
  ASSUME NEW a \in Entries, NEW b \in Entries, NEW k \in Nat, Splits(a.by, b.by, k)
  PROVE  Prefers(a, b) <=> k <= Len(a.by) /\ (k > Len(b.by) \/ a.by[k] = first)
<1>1. a.by \in Seq(Places) /\ b.by \in Seq(Places)
  BY DEF Entries
<1> DEFINE P(i) == /\ \A j \in 1 .. i - 1 : j <= Len(b.by) /\ a.by[j] = b.by[j]
                   /\ \/ i > Len(a.by) \/ i > Len(b.by)
                      \/ a.by[i] # b.by[i]
<1>2. \A i \in 1 .. Len(a.by) + 1 : P(i) <=> Splits(a.by, b.by, i)
  BY DEF Splits
<1>3. k \in 1 .. Len(a.by) + 1 /\ P(k)
  BY <1>2 DEF Splits
<1>4. \A i \in 1 .. Len(a.by) + 1 : P(i) => i = k
  <2>1. \A i \in 1 .. Len(a.by) + 1 : i \in Nat
    BY <1>1
  <2> QED BY <1>1, <1>2, <2>1, SplitOnce
<1>5. (CHOOSE i \in 1 .. Len(a.by) + 1 : P(i)) = k
  BY <1>3, <1>4
<1> QED BY <1>5 DEF Prefers

LEMMA EitherPrefers ==
  ASSUME NEW a \in Entries, NEW b \in Entries, first \in Places, a.by # b.by
  PROVE  Prefers(a, b) <=> ~ Prefers(b, a)
<1>1. a.by \in Seq(Places) /\ b.by \in Seq(Places)
  BY DEF Entries
<1>2. Len(a.by) \in Nat /\ Len(b.by) \in Nat
  BY <1>1
<1>3. PICK k \in Nat : Splits(a.by, b.by, k)
  BY <1>1, SplitOnce
<1>4. Splits(b.by, a.by, k)
  BY <1>1, <1>3, SplitsBack
<1>5. Prefers(a, b) <=> k <= Len(a.by) /\ (k > Len(b.by) \/ a.by[k] = first)
  BY <1>3, PrefersIs
<1>6. Prefers(b, a) <=> k <= Len(b.by) /\ (k > Len(a.by) \/ b.by[k] = first)
  BY <1>4, PrefersIs
<1>7. ~ (k > Len(a.by) /\ k > Len(b.by))
  <2> SUFFICES ASSUME k > Len(a.by), k > Len(b.by) PROVE FALSE
    OBVIOUS
  <2>1. Len(a.by) = k - 1 /\ Len(b.by) = k - 1
    BY <1>2, <1>3, <1>4 DEF Splits
  <2>2. \A j \in 1 .. Len(a.by) : a.by[j] = b.by[j]
    BY <1>3, <2>1 DEF Splits
  <2> QED BY <1>1, <2>1, <2>2
<1>8. CASE k <= Len(a.by) /\ k <= Len(b.by)
  <2>1. a.by[k] # b.by[k] /\ k \in 1 .. Len(a.by) /\ k \in 1 .. Len(b.by)
    BY <1>2, <1>3, <1>8 DEF Splits
  <2>2. a.by[k] \in Places /\ b.by[k] \in Places
    BY <1>1, <2>1
  <2>3. a.by[k] = first <=> b.by[k] # first
    BY <2>1, <2>2, LinkAssumption
  <2> QED BY <1>2, <1>5, <1>6, <1>8, <2>3
<1>9. CASE ~ (k <= Len(a.by) /\ k <= Len(b.by))
  BY <1>2, <1>5, <1>6, <1>7, <1>9
<1> QED BY <1>8, <1>9

LEMMA SameBy ==
  ASSUME NEW a \in Entries, NEW b \in Entries, NEW c \in Entries, a.by = b.by
  PROVE  (Prefers(c, a) <=> Prefers(c, b)) /\ (Prefers(a, c) <=> Prefers(b, c))
<1>1. a.by \in Seq(Places) /\ c.by \in Seq(Places)
  BY DEF Entries
<1>2. PICK k \in Nat : Splits(a.by, c.by, k)
  BY <1>1, SplitOnce
<1>3. PICK l \in Nat : Splits(c.by, a.by, l)
  BY <1>1, SplitOnce
<1>4. Splits(b.by, c.by, k) /\ Splits(c.by, b.by, l)
  BY <1>2, <1>3
<1>5. Prefers(a, c) <=> Prefers(b, c)
  BY <1>2, <1>4, PrefersIs
<1>6. Prefers(c, a) <=> Prefers(c, b)
  BY <1>3, <1>4, PrefersIs
<1> QED BY <1>5, <1>6

LEMMA PrefersOn ==
  ASSUME NEW a \in Entries, NEW b \in Entries, NEW c \in Entries, first \in Places,
         a.by # b.by, b.by # c.by, Prefers(a, b), Prefers(b, c)
  PROVE  a.by # c.by /\ Prefers(a, c)
<1>1. a.by \in Seq(Places) /\ b.by \in Seq(Places) /\ c.by \in Seq(Places)
  BY DEF Entries
<1>2. Len(a.by) \in Nat /\ Len(b.by) \in Nat /\ Len(c.by) \in Nat
  BY <1>1
<1>3. PICK k \in Nat : Splits(a.by, b.by, k)
  BY <1>1, SplitOnce
<1>4. PICK l \in Nat : Splits(b.by, c.by, l)
  BY <1>1, SplitOnce
<1>5. k <= Len(a.by) /\ (k > Len(b.by) \/ a.by[k] = first)
  BY <1>3, PrefersIs
<1>6. l <= Len(b.by) /\ (l > Len(c.by) \/ b.by[l] = first)
  BY <1>4, PrefersIs
<1>7. a.by # c.by
  <2> SUFFICES ASSUME a.by = c.by PROVE FALSE
    OBVIOUS
  <2>1. Prefers(b, a)
    BY SameBy
  <2> QED BY <2>1, EitherPrefers
<1>8. CASE k < l
  <2>1. Splits(a.by, c.by, k)
    BY <1>2, <1>3, <1>4, <1>6, <1>8 DEF Splits
  <2>2. a.by[k] = first
    BY <1>2, <1>5, <1>6, <1>8
  <2> QED BY <1>5, <1>7, <2>1, <2>2, PrefersIs
<1>9. CASE l < k
  <2>1. Splits(a.by, c.by, l)
    BY <1>2, <1>3, <1>4, <1>5, <1>6, <1>9 DEF Splits
  <2>2. a.by[l] = b.by[l]
    BY <1>2, <1>3, <1>4, <1>9 DEF Splits
  <2>3. l <= Len(a.by)
    BY <1>2, <1>5, <1>9
  <2> QED BY <1>6, <1>7, <2>1, <2>2, <2>3, PrefersIs
<1>10. CASE k = l
  <2>1. a.by[k] = first
    BY <1>2, <1>5, <1>6, <1>10
  <2>2. l > Len(c.by) \/ c.by[l] # b.by[l]
    BY <1>2, <1>4, <1>6 DEF Splits
  <2>3. k \in 1 .. Len(a.by) + 1 /\ \A j \in 1 .. k - 1 : j <= Len(c.by) /\ a.by[j] = c.by[j]
    BY <1>2, <1>3, <1>4, <1>10 DEF Splits
  <2>4. k > Len(c.by) \/ c.by[k] # a.by[k]
    <3>1. CASE l > Len(c.by)
      BY <1>10, <3>1
    <3>2. CASE ~ (l > Len(c.by))
      <4>1. b.by[k] = first
        BY <1>2, <1>6, <1>10, <3>2
      <4>2. k \in 1 .. Len(a.by) /\ k \in 1 .. Len(b.by) /\ a.by[k] # b.by[k]
        BY <1>2, <1>3, <1>5, <1>6, <1>10 DEF Splits
      <4> QED BY <2>1, <4>1, <4>2
    <3> QED BY <3>1, <3>2
  <2>5. Splits(a.by, c.by, k)
    BY <2>3, <2>4 DEF Splits
  <2> QED BY <1>5, <1>7, <2>1, <2>5, PrefersIs
<1> QED BY <1>2, <1>8, <1>9, <1>10

\* What is at or before what: the entry the map shows when both are in it.
Leads(b, a) == JoinEntry(a, b) = b

LEMMA JoinEntryIs ==
  ASSUME NEW a \in Entries, NEW b \in Entries
  PROVE  /\ JoinEntry(a, b) \in Entries
         /\ JoinEntry(a, b) \in {a, b} /\ (a = b => JoinEntry(a, b) = a)
<1>1. CASE a.by = b.by
  <2>1. a = [by |-> a.by, listed |-> a.listed] /\ b = [by |-> b.by, listed |-> b.listed]
    BY DEF Entries
  <2>2. JoinEntry(a, b) = [by |-> a.by, listed |-> a.listed /\ b.listed]
    BY <1>1, <2>1 DEF JoinEntry
  <2>3. a.listed \in BOOLEAN /\ b.listed \in BOOLEAN
    BY DEF Entries
  <2>4. CASE a.listed
    <3>1. (a.listed /\ b.listed) = b.listed
      BY <2>3, <2>4
    <3> QED BY <1>1, <2>1, <2>2, <3>1
  <2>5. CASE ~ a.listed
    <3>1. (a.listed /\ b.listed) = a.listed
      BY <2>3, <2>5
    <3> QED BY <1>1, <2>1, <2>2, <3>1
  <2> QED BY <2>4, <2>5
<1>2. CASE a.by # b.by
  BY <1>2 DEF JoinEntry
<1> QED BY <1>1, <1>2

LEMMA LeadsIs ==
  ASSUME NEW a \in Entries, NEW b \in Entries, first \in Places
  PROVE  Leads(b, a) <=> \/ a.by = b.by /\ (b.listed => a.listed)
                         \/ a.by # b.by /\ Prefers(b, a)
<1>1. a = [by |-> a.by, listed |-> a.listed] /\ b = [by |-> b.by, listed |-> b.listed]
  BY DEF Entries
<1>2. a.listed \in BOOLEAN /\ b.listed \in BOOLEAN
  BY DEF Entries
<1>3. CASE a.by = b.by
  <2>1. JoinEntry(a, b) = [by |-> a.by, listed |-> a.listed /\ b.listed]
    BY <1>1, <1>3 DEF JoinEntry
  <2>2. JoinEntry(a, b) = b <=> (a.listed /\ b.listed) = b.listed
    BY <1>1, <1>3, <2>1
  <2>3. (a.listed /\ b.listed) = b.listed <=> (b.listed => a.listed)
    BY <1>2
  <2> QED BY <1>3, <2>2, <2>3 DEF Leads
<1>4. CASE a.by # b.by
  <2>1. Prefers(b, a) <=> ~ Prefers(a, b)
    BY <1>4, EitherPrefers
  <2>2. JoinEntry(a, b) = IF Prefers(a, b) THEN a ELSE b
    BY <1>4 DEF JoinEntry
  <2> QED BY <1>4, <2>1, <2>2 DEF Leads
<1> QED BY <1>3, <1>4

LEMMA LeadsOn ==
  ASSUME NEW a \in Entries, NEW b \in Entries, NEW c \in Entries, first \in Places,
         Leads(b, a), Leads(c, b)
  PROVE  Leads(c, a)
<1>1. CASE a.by # b.by /\ b.by # c.by
  <2>1. Prefers(c, b) /\ Prefers(b, a)
    BY <1>1, LeadsIs
  <2>2. c.by # a.by /\ Prefers(c, a)
    BY <1>1, <2>1, PrefersOn
  <2> QED BY <2>2, LeadsIs
<1>2. CASE a.by = b.by /\ b.by = c.by
  BY <1>2, LeadsIs
<1>3. CASE a.by = b.by /\ b.by # c.by
  <2>1. Prefers(c, b)
    BY <1>3, LeadsIs
  <2>2. Prefers(c, a)
    BY <1>3, <2>1, SameBy
  <2> QED BY <1>3, <2>2, LeadsIs
<1>4. CASE a.by # b.by /\ b.by = c.by
  <2>1. Prefers(b, a)
    BY <1>4, LeadsIs
  <2>2. Prefers(c, a)
    BY <1>4, <2>1, SameBy
  <2> QED BY <1>4, <2>2, LeadsIs
<1> QED BY <1>1, <1>2, <1>3, <1>4

LEMMA LeadsEither ==
  ASSUME NEW a \in Entries, NEW b \in Entries, first \in Places
  PROVE  Leads(a, a) /\ (Leads(b, a) \/ Leads(a, b))
<1>1. CASE a.by = b.by
  BY <1>1, LeadsIs
<1>2. CASE a.by # b.by
  BY <1>2, LeadsIs, EitherPrefers
<1>3. Leads(a, a)
  BY LeadsIs
<1> QED BY <1>1, <1>2, <1>3

LEMMA LeadsJoin ==
  ASSUME NEW a \in Entries, NEW b \in Entries, first \in Places
  PROVE  Leads(JoinEntry(a, b), a) /\ Leads(JoinEntry(a, b), b)
<1>1. CASE Leads(b, a)
  BY <1>1, LeadsEither DEF Leads
<1>2. CASE ~ Leads(b, a)
  <2>1. JoinEntry(a, b) = a
    BY <1>2, JoinEntryIs DEF Leads
  <2>2. Leads(a, b)
    BY <1>2, LeadsEither
  <2> QED BY <2>1, <2>2, LeadsEither
<1> QED BY <1>1, <1>2

\* An entry that is set, and one that is no longer listed, are ahead of what they replace.
LEMMA SetLeads ==
  ASSUME NEW a \in Entries, NEW place \in Places, first \in Places
  PROVE  /\ SetEntry(a, place) \in Entries /\ Leads(SetEntry(a, place), a)
         /\ [a EXCEPT !.listed = FALSE] \in Entries /\ Leads([a EXCEPT !.listed = FALSE], a)
<1> DEFINE b == SetEntry(a, place)
<1>1. a.by \in Seq(Places) /\ Len(a.by) \in Nat
  BY DEF Entries
<1>2. b.by = Append(a.by, place) /\ b \in Entries
  BY <1>1 DEF SetEntry, Entries
<1>3. Len(b.by) = Len(a.by) + 1 /\ \A j \in 1 .. Len(a.by) : b.by[j] = a.by[j]
  BY <1>1, <1>2
<1>4. a.by # b.by
  BY <1>1, <1>3
<1> HIDE DEF b
<1>5. Splits(b.by, a.by, Len(a.by) + 1)
  BY <1>1, <1>3 DEF Splits
<1>6. Len(a.by) + 1 \in Nat /\ Len(a.by) + 1 <= Len(b.by) /\ Len(a.by) + 1 > Len(a.by)
  BY <1>1, <1>3
<1>7. Prefers(b, a)
  BY <1>2, <1>5, <1>6, PrefersIs
<1>8. [a EXCEPT !.listed = FALSE] \in Entries
  BY DEF Entries
<1>9. /\ [a EXCEPT !.listed = FALSE].by = a.by
      /\ [a EXCEPT !.listed = FALSE].listed = FALSE
  BY DEF Entries
<1> QED BY <1>2, <1>4, <1>7, <1>8, <1>9, LeadsIs DEF b

-----------------------------------------------------------------------------
(* The invariant.                                                          *)

Of == {"vault", "note"}
Reads == (SUBSET Marks) \cup {NoText}
NoteData == [of : {"note"}, kind : {"step2"}, data : Doc]
            \cup [of : {"note"}, kind : {"update"}, on : SUBSET Items, data : Doc]
VaultData == [of : {"vault"}, kind : {"step2", "update"}, data : Entries]
Questions == [of : Of, kind : {"step1"}]
Sendable == Questions \cup NoteData \cup VaultData
LinkFrames == Sendable \cup [of : Of, kind : {"auth"}]
Engines ==
  [file : Reads, proj : Reads, doc : Doc, vault : Entries, known : BOOLEAN, awaiting : BOOLEAN,
   dirty : BOOLEAN, touched : BOOLEAN, removal : BOOLEAN, out : BOOLEAN, up : Seq(Sendable),
   hs : [Of -> Phases], early : BOOLEAN, overruled : SUBSET Marks]

LinkTypes ==
  /\ LinkType
  /\ e \in Engines /\ srv \in [doc : Doc, vault : Entries] /\ down \in Seq(LinkFrames)
  /\ outcome = "open" /\ ~ running => ~ link /\ ~ e.out
  /\ ~ e.out => down = <<>> /\ subs = {}
  /\ ~ MayRead("note") => "note" \notin subs

\* What is sent of the note gets to the server, from place k on: nothing is sent but on what is there
\* or ahead, and all this replica has is there or ahead.
Gets(S, up, k) ==
  \A x \in S : x \in srv.doc.ins \/ \E j \in k .. Len(up) : up[j] \in NoteData /\ x \in up[j].data.ins
GetsOut(S, up, k) ==
  \A x \in S : x \in srv.doc.del \/ \E j \in k .. Len(up) : up[j] \in NoteData /\ x \in up[j].data.del
Lands(up, k) ==
  \A i \in k .. Len(up) :
    up[i].of = "note" /\ up[i].kind = "update" =>
      \A x \in up[i].on :
        x \in srv.doc.ins \/ \E j \in k .. i - 1 : up[j] \in NoteData /\ x \in up[j].data.ins
Handed(s) ==
  \E k \in 1 .. Len(s.up) + 1 :
    Lands(s.up, k) /\ Gets(s.doc.ins, s.up, k) /\ GetsOut(s.doc.del, s.up, k)
Entrusted(s) ==
  \/ Leads(srv.vault, s.vault)
  \/ \E i \in 1 .. Len(s.up) : s.up[i] \in VaultData /\ Leads(s.up[i].data, s.vault)

\* What is on its way to the server this replica has; and what it has been asked for and has answered,
\* the server has or gets.
Sent(s) ==
  /\ \A i \in 1 .. Len(s.up) : s.up[i] \in NoteData => Within(s.up[i].data, s.doc)
  /\ IF s.out THEN s.hs["vault"] # "none" ELSE s.up = <<>> /\ \A of \in Of : s.hs[of] = "none"
  /\ role = "editor" /\ s.hs["note"] = "done" => Handed(s)
  /\ role = "editor" /\ s.hs["vault"] = "done" => Entrusted(s)

Asks(s) == s.known /\ s.out => s.hs["note"] # "none"

\* There is nothing of the note before its file is brought.
Unborn(s) ==
  /\ s.file = NoText /\ ~ s.known /\ ~ s.removal /\ s.vault = NoEntry /\ srv.vault = NoEntry
  /\ \A i \in 1 .. Len(s.up) : s.up[i] \in VaultData => s.up[i].data = NoEntry
  /\ \A i \in 1 .. Len(down) : down[i] \in VaultData => down[i].data = NoEntry
Born(s) == Old \subseteq made \/ Unborn(s)

H(m) == <<m, "here">>
T(m) == <<m, "there">>
MarksOf(doc) == {i[1] : i \in doc.ins}
\* The text of the folder's copy is in X, if the server has it.
HasOld(X) == \A m \in Old : T(m) \in srv.doc.ins => T(m) \in X
Meant(s) == cut \cup s.overruled
Read(s) == IF s.file = NoText THEN {} ELSE s.file

\* Where a mark is that is not known to be taken out; w: the file waits, or what waited is forgotten.
Whole(s, w) ==
  /\ Read(s) \cup Base(s) \cup MarksOf(s.doc) \cup MarksOf(srv.doc) \subseteq made
  /\ \A i \in s.doc.del \cup srv.doc.del : i[1] \in made /\ i[1] \in Meant(s)
  /\ made \subseteq Meant(s) \cup Read(s) \cup MarksOf(s.doc) \cup MarksOf(srv.doc)
  /\ ~ w => Base(s) \subseteq MarksOf(s.doc) \cup Meant(s)
  /\ s.file = NoText => Base(s) \subseteq MarksOf(s.doc) \cup Meant(s)
  /\ s.known /\ s.file # NoText => s.proj # NoText /\ Base(s) \ Read(s) \subseteq Meant(s)
  /\ ~ s.known => s.proj = NoText

\* Where it was put in: what was put in here was not there, or has been taken out.
Once(s) ==
  /\ \A m \in Marks : /\ T(m) \in s.doc.ins => T(m) \in srv.doc.ins
                      /\ H(m) \in srv.doc.ins => H(m) \in s.doc.ins /\ MayRead("note")
  /\ s.known => \A m \in Read(s) \ Base(s) : T(m) \notin srv.doc.ins
  /\ MayRead("note") =>
       \A m \in Read(s) \cup Base(s) :
         m \in Old \/ T(m) \in s.doc.ins \cup s.doc.del \/ T(m) \notin srv.doc.ins
  /\ MayRead("note") /\ s.doc # Empty => HasOld(s.doc.ins)
  /\ \A m \in Marks :
       H(m) \in s.doc.ins /\ (T(m) \in s.doc.ins \/ (MayRead("note") /\ T(m) \in srv.doc.ins))
         => T(m) \in s.doc.del

Kept(s, w) == ~ s.early => Whole(s, w) /\ Once(s)
Waits == IF running THEN e.awaiting ELSE e.doc = Empty \/ outcome # "open"

\* What is on its way to this replica the server has, and an answer has all that was there.
Comes(f, early) ==
  /\ f \in NoteData =>
       /\ MayRead("note") /\ Within(f.data, srv.doc)
       /\ early \/ HasOld(IF f.kind = "step2" THEN f.data.ins ELSE f.on)
  /\ f \in VaultData => Leads(srv.vault, f.data)
OnWire(d) == \A i \in 1 .. Len(d) : Comes(d[i], e.early)

Reported ==
  outcome = "synced" => /\ ~ running
                        /\ e.known => e.hs["note"] = "done"
                        /\ e.hs["vault"] = "done"

LinkInv ==
  /\ LinkTypes /\ Sent(e) /\ Asks(e) /\ Born(e) /\ Kept(e, Waits) /\ OnWire(down) /\ Reported

World ==
  /\ srv \in [doc : Doc, vault : Entries] /\ down \in Seq(LinkFrames)
  /\ first \in Places /\ role \in {"editor", "viewer", "outsider"}
  /\ made \subseteq Marks /\ cut \subseteq Marks
Good(s) == Sent(s) /\ Asks(s) /\ Born(s) /\ Kept(s, s.awaiting)

-----------------------------------------------------------------------------
(* What the engine sends.                                                  *)

LEMMA PlacesAre == "here" \in Places /\ "there" \in Places
BY LinkAssumption

LEMMA MarksIn ==
  ASSUME NEW m \in Marks
  PROVE  H(m) \in Items /\ T(m) \in Items /\ H(m)[1] = m /\ T(m)[1] = m /\ H(m) # T(m)
BY LinkAssumption DEF Items, H, T

LEMMA ItemsAre ==
  ASSUME NEW i \in Items
  PROVE  i[1] \in Marks /\ i \in {H(i[1]), T(i[1])}
BY LinkAssumption DEF Items, H, T

\* A frame is of one kind.
LEMMA FramesAre ==
  /\ \A f \in NoteData : f.of = "note" /\ f.kind # "step1" /\ f \notin VaultData /\ f.data \in Doc /\ f \in Sendable
  /\ \A f \in VaultData : f.of = "vault" /\ f.kind # "step1" /\ f \notin NoteData /\ f.data \in Entries /\ f \in Sendable
  /\ \A f \in Questions : f.kind = "step1" /\ f \notin VaultData /\ f \notin NoteData /\ f \in Sendable
  /\ \A f \in Sendable : f.of \in Of /\ (f \in Questions \/ f \in NoteData \/ f \in VaultData)
<1>1. \A f \in NoteData : f.of = "note" /\ f.kind \in {"step2", "update"} /\ f.data \in Doc
  BY DEF NoteData
<1>2. \A f \in VaultData : f.of = "vault" /\ f.kind \in {"step2", "update"} /\ f.data \in Entries
  BY DEF VaultData
<1>3. \A f \in Questions : f.kind = "step1" /\ f.of \in Of
  BY DEF Questions
<1>4. Of = {"vault", "note"} /\ Sendable = Questions \cup NoteData \cup VaultData
  BY DEF Of, Sendable
<1> QED BY <1>1, <1>2, <1>3, <1>4

LEMMA AskIs ==
  ASSUME NEW of \in Of
  PROVE  Ask(of) \in Questions /\ Ask(of) \in Sendable
<1>1. Ask(of) \in Questions
  BY DEF Ask, Questions
<1> QED BY <1>1, FramesAre

LEMMA NoteAnswerIs ==
  ASSUME NEW doc \in Doc
  PROVE  Answer("note", doc) \in NoteData /\ Answer("note", doc).kind = "step2" /\ Answer("note", doc).data = doc
BY DEF Answer, NoteData

LEMMA VaultAnswerIs ==
  ASSUME NEW entry \in Entries
  PROVE  /\ Answer("vault", entry) \in VaultData /\ Answer("vault", entry).data = entry
         /\ EntryUpdate(entry) \in VaultData /\ EntryUpdate(entry).data = entry
BY DEF Answer, EntryUpdate, VaultData

LEMMA UpdateIs ==
  ASSUME NEW old \in Doc, NEW new \in Doc
  PROVE  /\ Update(old, new) \in NoteData /\ Update(old, new).kind = "update"
         /\ Update(old, new).on = old.ins
         /\ Update(old, new).data = [ins |-> new.ins \ old.ins, del |-> new.del \ old.del]
BY DEF Update, NoteData, Doc

LEMMA AppendIs ==
  ASSUME NEW X, NEW u \in Seq(X), NEW f \in X
  PROVE  /\ Append(u, f) \in Seq(X) /\ Len(Append(u, f)) = Len(u) + 1 /\ Len(u) \in Nat
         /\ \A p \in 1 .. Len(u) : Append(u, f)[p] = u[p]
         /\ Append(u, f)[Len(u) + 1] = f
OBVIOUS

LEMMA TailIs ==
  ASSUME NEW X, NEW u \in Seq(X), u # <<>>
  PROVE  /\ Tail(u) \in Seq(X) /\ Len(Tail(u)) = Len(u) - 1 /\ Len(u) \in Nat /\ Len(u) >= 1
         /\ \A p \in 1 .. Len(u) - 1 : Tail(u)[p] = u[p + 1]
         /\ Head(u) = u[1] /\ u[1] \in X
OBVIOUS

LEMMA SendIs ==
  ASSUME NEW s \in Engines, NEW f \in Sendable
  PROVE  /\ Send(s, f) \in Engines
         /\ Send(s, f) = [s EXCEPT !.up = IF s.out THEN Append(s.up, f) ELSE s.up]
<1>1. s.up \in Seq(Sendable) /\ s.out \in BOOLEAN
  BY DEF Engines
<1>2. Append(s.up, f) \in Seq(Sendable)
  BY <1>1
<1> QED BY <1>1, <1>2 DEF Send, Engines

\* What lands still lands when more is sent, on what is there or ahead.
LEMMA GetsMore ==
  ASSUME NEW u \in Seq(Sendable), NEW f \in Sendable, NEW k \in 1 .. Len(u) + 1, NEW S
  PROVE  /\ Gets(S, u, k) => Gets(S, Append(u, f), k)
         /\ GetsOut(S, u, k) => GetsOut(S, Append(u, f), k)
<1>1. Len(Append(u, f)) = Len(u) + 1 /\ Len(u) \in Nat /\ \A p \in 1 .. Len(u) : Append(u, f)[p] = u[p]
  BY AppendIs
<1>2. \A j \in k .. Len(u) : j \in k .. Len(Append(u, f)) /\ j \in 1 .. Len(u)
  BY <1>1
<1> QED BY <1>1, <1>2 DEF Gets, GetsOut

LEMMA LandsMore ==
  ASSUME NEW u \in Seq(Sendable), NEW f \in Sendable, NEW k \in 1 .. Len(u) + 1, Lands(u, k),
         f.of = "note" /\ f.kind = "update" => Gets(f.on, u, k)
  PROVE  Lands(Append(u, f), k)
<1>1. Len(Append(u, f)) = Len(u) + 1 /\ Len(u) \in Nat /\ Append(u, f)[Len(u) + 1] = f
  BY AppendIs
<1>2. \A p \in 1 .. Len(u) : Append(u, f)[p] = u[p]
  BY AppendIs
<1> DEFINE v == Append(u, f)
<1> HIDE DEF v
<1> SUFFICES ASSUME NEW i \in k .. Len(v), v[i].of = "note", v[i].kind = "update", NEW x \in v[i].on,
                    x \notin srv.doc.ins
             PROVE  \E j \in k .. i - 1 : v[j] \in NoteData /\ x \in v[j].data.ins
  BY DEF Lands, v
<1>3. CASE i = Len(u) + 1
  <2>1. v[i] = f /\ Gets(f.on, u, k)
    BY <1>1, <1>3 DEF v
  <2>2. PICK j \in k .. Len(u) : u[j] \in NoteData /\ x \in u[j].data.ins
    BY <2>1 DEF Gets
  <2>3. j \in 1 .. Len(u) /\ j \in k .. i - 1
    BY <1>1, <1>3
  <2> QED BY <1>2, <2>2, <2>3 DEF v
<1>4. CASE i # Len(u) + 1
  <2>1. i \in k .. Len(u) /\ i \in 1 .. Len(u)
    BY <1>1, <1>4 DEF v
  <2>2. v[i] = u[i]
    BY <1>2, <2>1 DEF v
  <2>3. PICK j \in k .. i - 1 : u[j] \in NoteData /\ x \in u[j].data.ins
    BY <2>1, <2>2 DEF Lands
  <2>4. j \in 1 .. Len(u)
    BY <1>1, <2>1
  <2> QED BY <1>2, <2>3, <2>4 DEF v
<1> QED BY <1>3, <1>4

NoNew(v, u) == \A i \in 1 .. Len(v) : v[i] \in VaultData => \E j \in 1 .. Len(u) : u[j] = v[i]

LEMMA SentSame ==
  ASSUME NEW s \in Engines, NEW r, Sent(s), r.up = s.up, r.doc = s.doc, r.vault = s.vault,
         r.out = s.out, r.hs = s.hs
  PROVE  Sent(r)
BY DEF Sent, Handed, Entrusted

LEMMA EntrustedMore ==
  ASSUME NEW s \in Engines, NEW r, NEW f \in Sendable, Entrusted(s), r.vault = s.vault,
         r.up = Append(s.up, f)
  PROVE  Entrusted(r)
<1>1. s.up \in Seq(Sendable)
  BY DEF Engines
<1>2. Len(r.up) = Len(s.up) + 1 /\ Len(s.up) \in Nat /\ \A p \in 1 .. Len(s.up) : r.up[p] = s.up[p]
  BY <1>1, AppendIs
<1> QED BY <1>2 DEF Entrusted

LEMMA EditedDoes ==
  ASSUME NEW s \in Engines, Sent(s), NEW doc \in Doc, Within(s.doc, doc)
  PROVE  LET r == Edited(s, doc)
         IN /\ r \in Engines /\ Sent(r) /\ NoNew(r.up, s.up)
            /\ r = [s EXCEPT !.doc = doc, !.up = r.up]
<1> DEFINE r == Edited(s, doc)
           f == Update(s.doc, doc)
<1>0. s.up \in Seq(Sendable) /\ s.doc \in Doc /\ s.out \in BOOLEAN /\ Len(s.up) \in Nat
  BY DEF Engines
<1>1. CASE doc = s.doc
  <2>1. r = s
    BY <1>1 DEF Edited
  <2>2. s = [s EXCEPT !.doc = doc, !.up = s.up]
    BY <1>1 DEF Engines
  <2> QED BY <2>1, <2>2 DEF NoNew
<1>2. CASE doc # s.doc
  <2>1. /\ f \in NoteData /\ f.kind = "update" /\ f.on = s.doc.ins /\ f \in Sendable
        /\ f.data = [ins |-> doc.ins \ s.doc.ins, del |-> doc.del \ s.doc.del]
    BY <1>0, UpdateIs, FramesAre
  <2>2. f \notin VaultData /\ f.of = "note"
    BY <2>1, FramesAre
  <2> HIDE DEF f
  <2>3. r = [Send(s, f) EXCEPT !.doc = doc]
    BY <1>2 DEF Edited, f
  <2>4. Send(s, f) = [s EXCEPT !.up = IF s.out THEN Append(s.up, f) ELSE s.up]
    BY <2>1, SendIs
  <2>5. Append(s.up, f) \in Seq(Sendable)
    BY <1>0, <2>1
  <2>6. CASE ~ s.out
    <3>1. r = [s EXCEPT !.doc = doc, !.up = s.up]
      BY <2>3, <2>4, <2>6 DEF Engines
    <3>2. r \in Engines /\ r.up = s.up /\ r.out = s.out /\ r.hs = s.hs /\ r.doc = doc
      BY <1>0, <3>1 DEF Engines
    <3>3. Sent(r)
      BY <1>0, <2>6, <3>2 DEF Sent, Within, Of
    <3>4. NoNew(r.up, s.up)
      BY <3>2 DEF NoNew
    <3> QED BY <3>1, <3>2, <3>3, <3>4
  <2>7. CASE s.out
    <3>1. r = [s EXCEPT !.doc = doc, !.up = Append(s.up, f)]
      BY <2>3, <2>4, <2>7 DEF Engines
    <3>2. /\ r \in Engines /\ r.up = Append(s.up, f) /\ r.out = s.out /\ r.hs = s.hs /\ r.doc = doc
          /\ r.vault = s.vault
      BY <1>0, <2>5, <3>1 DEF Engines
    <3> HIDE DEF r
    <3>3. /\ Len(r.up) = Len(s.up) + 1 /\ r.up[Len(s.up) + 1] = f
          /\ \A p \in 1 .. Len(s.up) : r.up[p] = s.up[p]
      BY <1>0, <2>1, <3>2, AppendIs
    <3>4. NoNew(r.up, s.up)
      BY <1>0, <2>2, <3>3 DEF NoNew
    <3>5. \A i \in 1 .. Len(r.up) : r.up[i] \in NoteData => Within(r.up[i].data, r.doc)
      <4> SUFFICES ASSUME NEW i \in 1 .. Len(r.up), r.up[i] \in NoteData PROVE Within(r.up[i].data, doc)
        BY <3>2
      <4>1. CASE i = Len(s.up) + 1
        BY <2>1, <3>3, <4>1 DEF Within
      <4>2. CASE i # Len(s.up) + 1
        <5>1. i \in 1 .. Len(s.up) /\ r.up[i] = s.up[i]
          BY <1>0, <3>3, <4>2
        <5> QED BY <5>1 DEF Sent, Within
      <4> QED BY <4>1, <4>2
    <3>6. ASSUME Handed(s) PROVE Handed(r)
      <4>1. PICK k \in 1 .. Len(s.up) + 1 :
               Lands(s.up, k) /\ Gets(s.doc.ins, s.up, k) /\ GetsOut(s.doc.del, s.up, k)
        BY <3>6 DEF Handed
      <4>2. k \in 1 .. Len(r.up) + 1 /\ Len(s.up) + 1 \in k .. Len(r.up)
        BY <1>0, <3>3, <4>1
      <4>3. Lands(r.up, k)
        BY <1>0, <2>1, <3>2, <4>1, LandsMore
      <4>4. Gets(s.doc.ins, r.up, k) /\ GetsOut(s.doc.del, r.up, k)
        BY <1>0, <2>1, <3>2, <4>1, GetsMore
      <4>5. Gets(doc.ins, r.up, k)
        <5>1. \A x \in doc.ins : x \in s.doc.ins \/ x \in r.up[Len(s.up) + 1].data.ins
          BY <2>1, <3>3
        <5>2. r.up[Len(s.up) + 1] \in NoteData
          BY <2>1, <3>3
        <5> QED BY <4>2, <4>4, <5>1, <5>2 DEF Gets
      <4>6. GetsOut(doc.del, r.up, k)
        BY <2>1, <3>3, <4>2, <4>4 DEF GetsOut
      <4> QED BY <3>2, <4>2, <4>3, <4>5, <4>6 DEF Handed
    <3>7. Entrusted(s) => Entrusted(r)
      BY <2>1, <3>2, EntrustedMore
    <3>8. Sent(r)
      BY <2>7, <3>2, <3>5, <3>6, <3>7 DEF Sent
    <3> QED BY <3>1, <3>2, <3>4, <3>8 DEF r
  <2> QED BY <1>0, <2>6, <2>7
<1> QED BY <1>1, <1>2

\* More of anything but of the note's text.
LEMMA HandedMore ==
  ASSUME NEW s \in Engines, NEW r, NEW f \in Sendable, f \notin NoteData, Handed(s), r.doc = s.doc,
         r.up = Append(s.up, f)
  PROVE  Handed(r)
<1>1. s.up \in Seq(Sendable)
  BY DEF Engines
<1>2. Len(r.up) = Len(s.up) + 1 /\ Len(s.up) \in Nat
  BY <1>1, AppendIs
<1>3. PICK k \in 1 .. Len(s.up) + 1 :
         Lands(s.up, k) /\ Gets(s.doc.ins, s.up, k) /\ GetsOut(s.doc.del, s.up, k)
  BY DEF Handed
<1>4. ~ (f.of = "note" /\ f.kind = "update")
  BY FramesAre DEF Questions, VaultData
<1>5. Lands(r.up, k) /\ Gets(s.doc.ins, r.up, k) /\ GetsOut(s.doc.del, r.up, k)
  BY <1>1, <1>3, <1>4, LandsMore, GetsMore
<1> QED BY <1>2, <1>3, <1>5 DEF Handed

LEMMA EnteredDoes ==
  ASSUME World, NEW s \in Engines, Sent(s), NEW entry \in Entries
  PROVE  LET r == Entered(s, entry)
         IN /\ r \in Engines /\ Sent(r)
            /\ r = [s EXCEPT !.vault = entry, !.up = r.up]
<1> DEFINE r == Entered(s, entry)
           f == EntryUpdate(entry)
<1>0. s.up \in Seq(Sendable) /\ s.out \in BOOLEAN /\ Len(s.up) \in Nat
  BY DEF Engines
<1>1. CASE entry = s.vault
  <2>1. r = s
    BY <1>1 DEF Entered
  <2>2. s = [s EXCEPT !.vault = entry, !.up = s.up]
    BY <1>1 DEF Engines
  <2> QED BY <2>1, <2>2
<1>2. CASE entry # s.vault
  <2>1. f \in VaultData /\ f.data = entry /\ f \in Sendable /\ f \notin NoteData
    BY VaultAnswerIs, FramesAre
  <2> HIDE DEF f
  <2>3. r = [Send(s, f) EXCEPT !.vault = entry]
    BY <1>2 DEF Entered, f
  <2>4. Send(s, f) = [s EXCEPT !.up = IF s.out THEN Append(s.up, f) ELSE s.up]
    BY <2>1, SendIs
  <2>5. Append(s.up, f) \in Seq(Sendable)
    BY <1>0, <2>1
  <2>6. CASE ~ s.out
    <3>1. r = [s EXCEPT !.vault = entry, !.up = s.up]
      BY <2>3, <2>4, <2>6 DEF Engines
    <3>2. r \in Engines /\ r.up = s.up /\ r.out = s.out /\ r.hs = s.hs /\ r.doc = s.doc
      BY <1>0, <3>1 DEF Engines
    <3>3. Sent(r)
      BY <1>0, <2>6, <3>2 DEF Sent, Of
    <3> QED BY <3>1, <3>2, <3>3
  <2>7. CASE s.out
    <3>1. r = [s EXCEPT !.vault = entry, !.up = Append(s.up, f)]
      BY <2>3, <2>4, <2>7 DEF Engines
    <3>2. /\ r \in Engines /\ r.up = Append(s.up, f) /\ r.out = s.out /\ r.hs = s.hs /\ r.doc = s.doc
          /\ r.vault = entry
      BY <1>0, <2>5, <3>1 DEF Engines
    <3> HIDE DEF r
    <3>3. /\ Len(r.up) = Len(s.up) + 1 /\ r.up[Len(s.up) + 1] = f
          /\ \A p \in 1 .. Len(s.up) : r.up[p] = s.up[p]
      BY <1>0, <2>1, <3>2, AppendIs
    <3>5. \A i \in 1 .. Len(r.up) : r.up[i] \in NoteData => Within(r.up[i].data, r.doc)
      <4> SUFFICES ASSUME NEW i \in 1 .. Len(r.up), r.up[i] \in NoteData PROVE Within(r.up[i].data, s.doc)
        BY <3>2
      <4>1. i \in 1 .. Len(s.up) /\ r.up[i] = s.up[i]
        BY <1>0, <2>1, <3>3
      <4> QED BY <4>1 DEF Sent
    <3>6. Handed(s) => Handed(r)
      BY <2>1, <3>2, HandedMore
    <3>7. Entrusted(r)
      <4>1. Leads(f.data, r.vault)
        BY <2>1, <3>2, LeadsEither DEF World
      <4> QED BY <1>0, <2>1, <3>3, <4>1 DEF Entrusted
    <3>8. Sent(r)
      BY <2>7, <3>2, <3>5, <3>6, <3>7 DEF Sent
    <3> QED BY <3>1, <3>2, <3>8 DEF r
  <2> QED BY <1>0, <2>6, <2>7
<1> QED BY <1>1, <1>2

\* A question is sent.
LEMMA HandshakeDoes ==
  ASSUME NEW s \in Engines, NEW of \in Of,
         Sent(s) \/ (s.out /\ of = "vault" /\ Sent([s EXCEPT !.out = FALSE]))
  PROVE  LET r == Handshake(s, of)
         IN /\ r \in Engines /\ Sent(r) /\ NoNew(r.up, s.up)
            /\ r = [s EXCEPT !.up = r.up, !.hs = r.hs]
            /\ s.out => r.hs[of] = "sent"
<1> DEFINE r == Handshake(s, of)
           f == Ask(of)
<1>0. /\ s.up \in Seq(Sendable) /\ s.out \in BOOLEAN /\ Len(s.up) \in Nat /\ s.hs \in [Of -> Phases]
      /\ "sent" \in Phases
  BY DEF Engines, Phases
<1>1. CASE ~ s.out
  <2>1. r = s
    BY <1>1 DEF Handshake
  <2>2. s = [s EXCEPT !.up = s.up, !.hs = s.hs]
    BY DEF Engines
  <2> QED BY <1>1, <2>1, <2>2 DEF NoNew
<1>2. CASE s.out
  <2>1. f \in Sendable /\ f \notin NoteData /\ f \notin VaultData
    BY AskIs, FramesAre
  <2> HIDE DEF f
  <2>3. r = [Send(s, f) EXCEPT !.hs[of] = "sent"]
    BY <1>2 DEF Handshake, f
  <2>4. Send(s, f) = [s EXCEPT !.up = IF s.out THEN Append(s.up, f) ELSE s.up]
    BY <2>1, SendIs
  <2>5. Append(s.up, f) \in Seq(Sendable)
    BY <1>0, <2>1
  <2> DEFINE hs == [s.hs EXCEPT ![of] = "sent"]
  <2>6. hs \in [Of -> Phases] /\ hs[of] = "sent" /\ \A o \in Of : hs[o] = s.hs[o] \/ hs[o] = "sent"
    BY <1>0
  <2>7. r = [s EXCEPT !.up = Append(s.up, f), !.hs = hs]
    BY <1>2, <2>3, <2>4 DEF Engines
  <2> HIDE DEF hs
  <2>8. /\ r \in Engines /\ r.up = Append(s.up, f) /\ r.out = s.out /\ r.hs = hs /\ r.doc = s.doc
        /\ r.vault = s.vault
    BY <1>0, <2>5, <2>6, <2>7 DEF Engines
  <2> HIDE DEF r
  <2>9. /\ Len(r.up) = Len(s.up) + 1 /\ r.up[Len(s.up) + 1] = f
        /\ \A p \in 1 .. Len(s.up) : r.up[p] = s.up[p]
    BY <1>0, <2>1, <2>8, AppendIs
  <2> DEFINE z == [s EXCEPT !.out = FALSE]
  <2>10. z.up = s.up /\ z.doc = s.doc /\ z.hs = s.hs /\ ~ z.out
    BY DEF Engines
  <2> HIDE DEF z
  <2>11. /\ \A i \in 1 .. Len(s.up) : s.up[i] \in NoteData => Within(s.up[i].data, s.doc)
         /\ r.hs["vault"] # "none"
         /\ role = "editor" /\ s.hs["note"] = "done" => Handed(s)
         /\ role = "editor" /\ s.hs["vault"] = "done" => Entrusted(s)
    <3>1. CASE Sent(s)
      BY <1>2, <2>6, <2>8, <3>1 DEF Sent, Of
    <3>2. CASE of = "vault" /\ Sent(z)
      BY <2>6, <2>8, <2>10, <3>2 DEF Sent, Of
    <3> QED BY <3>1, <3>2 DEF z
  <2>12. NoNew(r.up, s.up)
    BY <1>0, <2>1, <2>9 DEF NoNew
  <2>13. \A i \in 1 .. Len(r.up) : r.up[i] \in NoteData => Within(r.up[i].data, r.doc)
    <3> SUFFICES ASSUME NEW i \in 1 .. Len(r.up), r.up[i] \in NoteData PROVE Within(r.up[i].data, s.doc)
      BY <2>8
    <3>1. i \in 1 .. Len(s.up) /\ r.up[i] = s.up[i]
      BY <1>0, <2>1, <2>9
    <3> QED BY <2>11, <3>1
  <2>14. Handed(s) => Handed(r)
    BY <2>1, <2>8, HandedMore
  <2>15. Entrusted(s) => Entrusted(r)
    BY <2>1, <2>8, EntrustedMore
  <2>16. Sent(r)
    BY <1>2, <2>6, <2>8, <2>11, <2>13, <2>14, <2>15 DEF Sent, Of
  <2> QED BY <1>2, <2>6, <2>7, <2>8, <2>12, <2>16 DEF r
<1> QED BY <1>0, <1>1, <1>2

-----------------------------------------------------------------------------
(* What is kept, as texts are taken in.                                    *)

LEMMA KeptSame ==
  ASSUME NEW s, NEW r, NEW w, Kept(s, w), r.file = s.file, r.proj = s.proj, r.doc = s.doc,
         r.known = s.known, r.overruled = s.overruled, s.early => r.early
  PROVE  Kept(r, w)
BY DEF Kept, Whole, Once, Read, Base, Meant

LEMMA TextsAre ==
  ASSUME NEW s \in Engines
  PROVE  /\ Read(s) \subseteq Marks /\ Base(s) \subseteq Marks
         /\ s.file # NoText => s.file \subseteq Marks /\ Read(s) = s.file
         /\ s.proj # NoText => s.proj \subseteq Marks /\ Base(s) = s.proj
         /\ s.doc \in Doc /\ s.overruled \subseteq Marks
BY DEF Engines, Reads, Read, Base

LEMMA DocsAre ==
  ASSUME NEW doc \in Doc
  PROVE  /\ doc.ins \subseteq Items /\ doc.del \subseteq Items
         /\ doc = [ins |-> doc.ins, del |-> doc.del]
         /\ Text(doc) \subseteq MarksOf(doc) /\ MarksOf(doc) \subseteq Marks
         /\ \A i \in doc.ins : i \in doc.del \/ i[1] \in Text(doc)
         /\ \A m \in MarksOf(doc) : H(m) \in doc.ins \/ T(m) \in doc.ins
         /\ \A m \in Marks : H(m) \in doc.ins \/ T(m) \in doc.ins => m \in MarksOf(doc)
         /\ \A m \in Text(doc) : \/ H(m) \in doc.ins /\ H(m) \notin doc.del
                                 \/ T(m) \in doc.ins /\ T(m) \notin doc.del
<1>1. doc.ins \subseteq Items /\ doc.del \subseteq Items /\ doc = [ins |-> doc.ins, del |-> doc.del]
  BY DEF Doc
<1>2. \A i \in doc.ins : i[1] \in Marks /\ i \in {H(i[1]), T(i[1])}
  BY <1>1, ItemsAre
<1>3. \A m \in Marks : H(m)[1] = m /\ T(m)[1] = m
  BY MarksIn
<1>4. MarksOf(doc) = {i[1] : i \in doc.ins} /\ Text(doc) = {i[1] : i \in doc.ins \ doc.del}
  BY DEF MarksOf, Text, Shown
<1> HIDE DEF H, T
<1>5. Text(doc) \subseteq MarksOf(doc) /\ MarksOf(doc) \subseteq Marks
  BY <1>2, <1>4
<1>6. \A i \in doc.ins : i \in doc.del \/ i[1] \in Text(doc)
  BY <1>4
<1>7. \A m \in MarksOf(doc) : H(m) \in doc.ins \/ T(m) \in doc.ins
  BY <1>2, <1>4
<1>8. \A m \in Marks : H(m) \in doc.ins \/ T(m) \in doc.ins => m \in MarksOf(doc)
  BY <1>3, <1>4
<1>9. \A m \in Text(doc) : \/ H(m) \in doc.ins /\ H(m) \notin doc.del
                           \/ T(m) \in doc.ins /\ T(m) \notin doc.del
  BY <1>2, <1>4
<1> QED BY <1>1, <1>5, <1>6, <1>7, <1>8, <1>9

\* What is put in here, and what is taken out.
Changed(doc, S, D) ==
  [ins |-> doc.ins \cup {<<m, "here">> : m \in S}, del |-> doc.del \cup D]
LEMMA PutIn ==
  ASSUME NEW doc \in Doc, NEW S \in SUBSET Marks, NEW D \in SUBSET doc.ins
  PROVE  LET new == Changed(doc, S, D)
         IN /\ new \in Doc /\ Within(doc, new)
            /\ MarksOf(new) = MarksOf(doc) \cup S
            /\ \A m \in Marks : /\ H(m) \in new.ins <=> H(m) \in doc.ins \/ m \in S
                                /\ T(m) \in new.ins <=> T(m) \in doc.ins
<1> DEFINE new == Changed(doc, S, D)
<1>1. \A m \in Marks : H(m) \in Items /\ H(m)[1] = m /\ \A n \in Marks : H(m) # T(n) /\ (H(m) = H(n) => m = n)
  BY LinkAssumption DEF Items, H, T
<1>2. {<<m, "here">> : m \in S} = {H(m) : m \in S}
  BY DEF H
<1>3. new.ins = doc.ins \cup {H(m) : m \in S} /\ new.del = doc.del \cup D
  BY <1>2 DEF Changed
<1>4. new \in Doc /\ Within(doc, new)
  BY <1>1, <1>2 DEF Doc, Within, Changed
<1> HIDE DEF new
<1>5. MarksOf(new) = MarksOf(doc) \cup S
  <2>1. ASSUME NEW m \in S PROVE m \in MarksOf(new)
    <3>1. H(m) \in new.ins /\ H(m)[1] = m
      BY <1>1, <1>3
    <3> QED BY <3>1 DEF MarksOf
  <2>2. MarksOf(doc) \subseteq MarksOf(new)
    BY <1>3 DEF MarksOf
  <2>3. ASSUME NEW m \in MarksOf(new) PROVE m \in MarksOf(doc) \cup S
    <3>1. PICK i \in new.ins : m = i[1]
      BY DEF MarksOf
    <3>2. CASE i \in doc.ins
      BY <3>1, <3>2 DEF MarksOf
    <3>3. CASE i \notin doc.ins
      <4>1. PICK n \in S : i = H(n)
        BY <1>3, <3>1, <3>3
      <4>2. m = n
        BY <1>1, <3>1, <4>1
      <4> QED BY <4>1, <4>2
    <3> QED BY <3>2, <3>3
  <2> QED BY <2>1, <2>2, <2>3
<1> HIDE DEF H, T
<1>6. ASSUME NEW m \in Marks
      PROVE  /\ H(m) \in new.ins <=> H(m) \in doc.ins \/ m \in S
             /\ T(m) \in new.ins <=> T(m) \in doc.ins
  BY <1>1, <1>3
<1> QED BY <1>4, <1>5, <1>6 DEF new

LEMMA SetTextIs ==
  ASSUME NEW doc \in Doc, NEW text \in SUBSET Marks
  PROVE  LET new == SetText(doc, text, "here")
         IN /\ new \in Doc /\ Within(doc, new)
            /\ text \subseteq MarksOf(new) /\ MarksOf(new) = MarksOf(doc) \cup text
            /\ \A m \in Marks : /\ H(m) \in new.ins <=> H(m) \in doc.ins \/ m \in text \ Text(doc)
                                /\ T(m) \in new.ins <=> T(m) \in doc.ins
            /\ \A i \in new.del : i \in doc.del \/ i[1] \in Text(doc) \ text
            /\ Text(new) \subseteq text
<1> DEFINE new == SetText(doc, text, "here")
           S == text \ Text(doc)
           D == {i \in doc.ins : i[1] \notin text}
<1>1. new = [ins |-> doc.ins \cup {<<m, "here">> : m \in S}, del |-> doc.del \cup D]
  BY DEF SetText
<1>0. new = Changed(doc, S, D)
  BY <1>1 DEF Changed
<1>2. S \in SUBSET Marks /\ D \in SUBSET doc.ins
  OBVIOUS
<1> HIDE DEF new, S, D
<1>3. /\ new \in Doc /\ Within(doc, new)
      /\ MarksOf(new) = MarksOf(doc) \cup S
      /\ \A m \in Marks : /\ H(m) \in new.ins <=> H(m) \in doc.ins \/ m \in S
                          /\ T(m) \in new.ins <=> T(m) \in doc.ins
  BY <1>0, <1>2, PutIn
<1>4. Text(doc) \subseteq MarksOf(doc) /\ \A i \in doc.ins : i \in doc.del \/ i[1] \in Text(doc)
  BY DocsAre
<1>5. text \subseteq MarksOf(new) /\ MarksOf(new) \subseteq MarksOf(doc) \cup text
  BY <1>3, <1>4 DEF S
<1>6. \A i \in new.del : i \in doc.del \/ i[1] \in Text(doc) \ text
  BY <1>1, <1>4 DEF D
<1>7. ASSUME NEW m \in Text(new) PROVE m \in text
  <2>1. PICK i \in new.ins \ new.del : m = i[1]
    BY DEF Text, Shown
  <2>2. CASE i \in doc.ins
    BY <1>1, <2>1, <2>2 DEF D
  <2>3. CASE i \notin doc.ins
    <3>1. PICK n \in S : i = <<n, "here">>
      BY <1>1, <2>1, <2>3
    <3> QED BY <2>1, <3>1 DEF S
  <2> QED BY <2>2, <2>3
<1>8. MarksOf(doc) \subseteq MarksOf(new)
  BY <1>3
<1>9. \A m \in Marks : /\ H(m) \in new.ins <=> H(m) \in doc.ins \/ m \in text \ Text(doc)
                       /\ T(m) \in new.ins <=> T(m) \in doc.ins
  BY <1>3 DEF S
<1>10. MarksOf(new) = MarksOf(doc) \cup text
  BY <1>5, <1>8
<1> QED BY <1>3, <1>5, <1>6, <1>7, <1>9, <1>10 DEF new

\* A file is set on the document that has the copy's text, if there is one to be had.
LEMMA TakenInKept ==
  ASSUME World, NEW s \in Engines, s.file # NoText, NEW w, Kept(s, w), ~ s.early,
         MayRead("note") => HasOld(s.doc.ins),
         NEW r \in Engines, r.doc = SetText(s.doc, s.file, "here"), r.file = s.file, r.proj = s.file,
         r.known, s.overruled \cup (Text(s.doc) \ s.file) \subseteq r.overruled
  PROVE  Kept(r, FALSE)
<1>1. /\ Read(s) = s.file /\ s.file \in SUBSET Marks /\ s.doc \in Doc /\ Base(s) \subseteq Marks
      /\ Read(r) = s.file /\ Base(r) = s.file
  BY TextsAre
<1>2. /\ r.doc \in Doc /\ Within(s.doc, r.doc)
      /\ s.file \subseteq MarksOf(r.doc) /\ MarksOf(r.doc) = MarksOf(s.doc) \cup s.file
      /\ \A m \in Marks : /\ H(m) \in r.doc.ins <=> H(m) \in s.doc.ins \/ m \in s.file \ Text(s.doc)
                          /\ T(m) \in r.doc.ins <=> T(m) \in s.doc.ins
      /\ \A i \in r.doc.del : i \in s.doc.del \/ i[1] \in Text(s.doc) \ s.file
  BY <1>1, SetTextIs
<1>3. Whole(s, w) /\ Once(s)
  BY DEF Kept
<1>11. Text(s.doc) \subseteq MarksOf(s.doc)
  BY <1>1, DocsAre
<1>4. Whole(r, FALSE)
  BY <1>1, <1>2, <1>3, <1>11 DEF Whole, Meant
<1>5. \A m \in Marks : T(m) \in s.doc.ins /\ m \notin Text(s.doc) => T(m) \in s.doc.del
  BY <1>1, DocsAre, MarksIn
<1>6. ASSUME NEW m \in Marks, H(m) \in r.doc.ins,
             T(m) \in r.doc.ins \/ (MayRead("note") /\ T(m) \in srv.doc.ins)
      PROVE  T(m) \in r.doc.del
  <2>1. CASE H(m) \in s.doc.ins
    BY <1>2, <1>3, <1>6, <2>1 DEF Once, Within
  <2>2. CASE H(m) \notin s.doc.ins
    <3>1. m \in s.file /\ m \notin Text(s.doc)
      BY <1>2, <1>6, <2>2
    <3>2. CASE T(m) \in s.doc.ins
      BY <1>2, <1>5, <3>1, <3>2 DEF Within
    <3>3. CASE T(m) \notin s.doc.ins
      <4>1. MayRead("note") /\ T(m) \in srv.doc.ins
        BY <1>2, <1>6, <3>3
      <4>2. m \in Old \/ T(m) \in s.doc.del
        BY <1>1, <1>3, <3>1, <3>3, <4>1 DEF Once
      <4>3. m \notin Old
        BY <3>3, <4>1 DEF HasOld
      <4> QED BY <1>2, <4>2, <4>3 DEF Within
    <3> QED BY <3>2, <3>3
  <2> QED BY <2>1, <2>2
<1>7. \A m \in Marks : /\ T(m) \in r.doc.ins => T(m) \in srv.doc.ins
                       /\ H(m) \in srv.doc.ins => H(m) \in r.doc.ins /\ MayRead("note")
  BY <1>2, <1>3 DEF Once
<1>8. MayRead("note") =>
       \A m \in s.file : m \in Old \/ T(m) \in r.doc.ins \cup r.doc.del \/ T(m) \notin srv.doc.ins
  BY <1>1, <1>2, <1>3 DEF Once, Within
<1>9. MayRead("note") => HasOld(r.doc.ins)
  BY <1>2 DEF HasOld, Within
<1>10. Once(r)
  BY <1>1, <1>6, <1>7, <1>8, <1>9 DEF Once
<1> QED BY <1>4, <1>10 DEF Kept

\* An edit of a file that has been taken in goes into the document.
LEMMA EditKept ==
  ASSUME World, NEW s \in Engines, s.known, s.file # NoText, NEW w, Kept(s, w),
         NEW r \in Engines, r.file = s.file, r.proj = s.file, r.known,
         r.doc = [ins |-> s.doc.ins \cup {<<m, "here">> : m \in s.file \ Base(s)},
                  del |-> s.doc.del \cup {i \in s.doc.ins : i[1] \in Base(s) \ s.file}],
         r.overruled = s.overruled,
         ~ r.early => ~ s.early /\ (MayRead("note") => s.doc # Empty \/ HasOld(s.doc.ins))
  PROVE  ~ w => Kept(r, FALSE)
<1> SUFFICES ASSUME ~ w, ~ r.early PROVE Whole(r, FALSE) /\ Once(r)
  BY DEF Kept
<1> DEFINE S == s.file \ Base(s)
           D == {i \in s.doc.ins : i[1] \in Base(s) \ s.file}
<1>1. /\ Read(s) = s.file /\ s.file \in SUBSET Marks /\ s.doc \in Doc /\ Base(s) \subseteq Marks
      /\ Read(r) = s.file /\ Base(r) = s.file
  BY TextsAre
<1>2. S \in SUBSET Marks /\ D \in SUBSET s.doc.ins
  BY <1>1
<1>3. r.doc = [ins |-> s.doc.ins \cup {<<m, "here">> : m \in S}, del |-> s.doc.del \cup D]
  OBVIOUS
<1>4. \A i \in r.doc.del : i \in s.doc.del \/ i[1] \in Base(s) \ s.file
  BY <1>3
<1>16. r.doc = Changed(s.doc, S, D)
  BY <1>3 DEF Changed
<1> HIDE DEF S, D
<1>5. /\ r.doc \in Doc /\ Within(s.doc, r.doc)
      /\ MarksOf(r.doc) = MarksOf(s.doc) \cup S
      /\ \A m \in Marks : /\ H(m) \in r.doc.ins <=> H(m) \in s.doc.ins \/ m \in S
                          /\ T(m) \in r.doc.ins <=> T(m) \in s.doc.ins
  <2>1. s.doc \in Doc
    BY <1>1
  <2> DEFINE new == Changed(s.doc, S, D)
  <2>2. /\ new \in Doc /\ Within(s.doc, new)
        /\ MarksOf(new) = MarksOf(s.doc) \cup S
        /\ \A m \in Marks : /\ H(m) \in new.ins <=> H(m) \in s.doc.ins \/ m \in S
                            /\ T(m) \in new.ins <=> T(m) \in s.doc.ins
    BY ONLY <1>2, <2>1, PutIn
  <2> HIDE DEF new
  <2>3. r.doc = new
    BY <1>16 DEF new
  <2> QED BY <2>2, <2>3
<1>6. Whole(s, w) /\ Once(s)
  BY DEF Kept
<1>7. s.file = S \cup (s.file \cap Base(s)) /\ S \cap Base(s) = {} /\ S \subseteq s.file
  BY DEF S
<1>8. Whole(r, FALSE)
  BY <1>1, <1>4, <1>5, <1>6, <1>7 DEF Whole, Meant
<1>9. \A m \in S : T(m) \notin srv.doc.ins /\ T(m) \notin s.doc.ins
  BY <1>1, <1>6, <1>7 DEF Once
<1>10. \A m \in Marks :
         H(m) \in r.doc.ins /\ (T(m) \in r.doc.ins \/ (MayRead("note") /\ T(m) \in srv.doc.ins))
           => T(m) \in r.doc.del
  BY <1>5, <1>6, <1>9 DEF Once, Within
<1>11. \A m \in Marks : /\ T(m) \in r.doc.ins => T(m) \in srv.doc.ins
                        /\ H(m) \in srv.doc.ins => H(m) \in r.doc.ins /\ MayRead("note")
  BY <1>5, <1>6 DEF Once
<1>12. MayRead("note") =>
        \A m \in s.file : m \in Old \/ T(m) \in r.doc.ins \cup r.doc.del \/ T(m) \notin srv.doc.ins
  BY <1>1, <1>5, <1>6, <1>7, <1>9 DEF Once, Within
<1>13. MayRead("note") => HasOld(s.doc.ins)
  BY <1>6 DEF Once
<1>14. MayRead("note") => HasOld(r.doc.ins)
  BY <1>5, <1>13 DEF HasOld, Within
<1>15. Once(r)
  BY <1>1, <1>10, <1>11, <1>12, <1>14 DEF Once
<1> QED BY <1>8, <1>15

-----------------------------------------------------------------------------
(* What each operation of the engine keeps.                                *)

\* Nothing but the time of it: flags, and what is remembered of a file.
LEMMA GoodSame ==
  ASSUME NEW s \in Engines, Good(s),
         NEW r \in Engines, r.file = s.file, r.proj = s.proj, r.doc = s.doc, r.vault = s.vault,
         r.known = s.known, r.awaiting = s.awaiting, r.removal = s.removal, r.out = s.out,
         r.up = s.up, r.hs = s.hs, r.overruled = s.overruled, s.early => r.early
  PROVE  Good(r)
<1>1. Sent(r)
  BY SentSame DEF Good
<1>2. Asks(r) /\ Born(r)
  BY DEF Good, Asks, Born, Unborn
<1>3. Kept(r, r.awaiting)
  BY KeptSame DEF Good
<1> QED BY <1>1, <1>2, <1>3 DEF Good

LEMMA KnownIsBorn ==
  ASSUME NEW s, Good(s), s.known \/ s.removal \/ s.file # NoText \/ s.vault # NoEntry
  PROVE  Old \subseteq made
BY DEF Good, Born, Unborn

LEMMA BornEither ==
  ASSUME NEW s, NEW r, Old \subseteq made
  PROVE  Born(r)
BY DEF Born

LEMMA FieldsAre ==
  ASSUME NEW s \in Engines
  PROVE  /\ s.file \in Reads /\ s.proj \in Reads /\ s.doc \in Doc /\ s.vault \in Entries
         /\ s.known \in BOOLEAN /\ s.awaiting \in BOOLEAN /\ s.dirty \in BOOLEAN
         /\ s.touched \in BOOLEAN /\ s.removal \in BOOLEAN /\ s.out \in BOOLEAN
         /\ s.up \in Seq(Sendable) /\ s.hs \in [Of -> Phases] /\ s.early \in BOOLEAN
         /\ s.overruled \in SUBSET Marks
BY DEF Engines

LEMMA TooEarlyGood ==
  ASSUME NEW s \in Engines, Good(s)
  PROVE  LET r == TooEarly(s)
         IN /\ r \in Engines /\ Good(r) /\ (r.awaiting => r.early)
            /\ r = [s EXCEPT !.early = r.early]
<1> DEFINE r == TooEarly(s)
<1>1. s.early \in BOOLEAN /\ s.awaiting \in BOOLEAN
  BY FieldsAre
<1>2. r = [s EXCEPT !.early = s.early \/ s.awaiting]
  BY DEF TooEarly
<1>3. (s.early \/ s.awaiting) \in BOOLEAN
  BY <1>1
<1>4. /\ r \in Engines /\ r.file = s.file /\ r.proj = s.proj /\ r.doc = s.doc /\ r.vault = s.vault
      /\ r.known = s.known /\ r.awaiting = s.awaiting /\ r.removal = s.removal /\ r.out = s.out
      /\ r.up = s.up /\ r.hs = s.hs /\ r.overruled = s.overruled /\ r.early = (s.early \/ s.awaiting)
  BY <1>2, <1>3 DEF Engines
<1> HIDE DEF r
<1>5. Good(r)
  BY <1>4, GoodSame
<1> QED BY <1>2, <1>4, <1>5 DEF r

LEMMA BegunGood ==
  ASSUME World, NEW s \in Engines, Good(s)
  PROVE  LET r == Begun(s)
         IN /\ r \in Engines /\ Good(r)
            /\ r = [s EXCEPT !.early = r.early]
            /\ ~ r.early => ~ s.early /\ (s.doc # Empty \/ HasOld(s.doc.ins))
<1> DEFINE r == Begun(s)
           lost == s.doc = Empty /\ (Old \X {"there"}) \cap srv.doc.ins # {}
<1>1. s.early \in BOOLEAN
  BY FieldsAre
<1>2. r = [s EXCEPT !.early = s.early \/ lost]
  BY DEF Begun
<1>3. (s.early \/ lost) \in BOOLEAN
  BY <1>1
<1>6. ~ lost => s.doc # Empty \/ HasOld(s.doc.ins)
  <2> SUFFICES ASSUME (Old \X {"there"}) \cap srv.doc.ins = {} PROVE HasOld(s.doc.ins)
    OBVIOUS
  <2>1. \A m \in Old : T(m) \in Old \X {"there"}
    BY DEF T
  <2> QED BY <2>1 DEF HasOld
<1> HIDE DEF lost
<1>4. /\ r \in Engines /\ r.file = s.file /\ r.proj = s.proj /\ r.doc = s.doc /\ r.vault = s.vault
      /\ r.known = s.known /\ r.awaiting = s.awaiting /\ r.removal = s.removal /\ r.out = s.out
      /\ r.up = s.up /\ r.hs = s.hs /\ r.overruled = s.overruled /\ r.early = (s.early \/ lost)
  BY <1>2, <1>3 DEF Engines
<1> HIDE DEF r
<1>5. Good(r)
  BY <1>4, GoodSame
<1> QED BY <1>2, <1>4, <1>5, <1>6 DEF r

LEMMA LocalEditGood ==
  ASSUME World, NEW s \in Engines, Good(s), s.known, s.file # NoText
  PROVE  LET r == LocalEdit(s)
         IN /\ r \in Engines /\ Good(r)
            /\ r = [s EXCEPT !.doc = r.doc, !.up = r.up, !.proj = r.proj, !.dirty = r.dirty,
                             !.early = r.early]
            /\ ~ r.early => ~ s.early
            /\ ~ s.awaiting /\ s.proj # NoText => r.proj = s.file
<1> DEFINE r == LocalEdit(s)
           b == Begun(s)
           doc == [ins |-> s.doc.ins \cup {<<m, "here">> : m \in s.file \ Base(s)},
                   del |-> s.doc.del \cup {i \in s.doc.ins : i[1] \in Base(s) \ s.file}]
           u == Edited(b, doc)
<1>1. /\ s.doc \in Doc /\ s.file \in SUBSET Marks /\ s.file \in Reads /\ Base(s) \subseteq Marks
      /\ s.dirty \in BOOLEAN /\ s.awaiting \in BOOLEAN
  BY FieldsAre, TextsAre
<1>2. CASE s.awaiting \/ s.file = Base(s)
  <2>1. r = s
    BY <1>2 DEF LocalEdit
  <2>2. s = [s EXCEPT !.doc = s.doc, !.up = s.up, !.proj = s.proj, !.dirty = s.dirty, !.early = s.early]
    BY DEF Engines
  <2>3. ~ s.awaiting /\ s.proj # NoText => s.proj = s.file
    BY <1>2, TextsAre
  <2> QED BY <2>1, <2>2, <2>3
<1>3. CASE ~ (s.awaiting \/ s.file = Base(s))
  <2>1. /\ b \in Engines /\ Good(b) /\ b = [s EXCEPT !.early = b.early]
        /\ ~ b.early => ~ s.early /\ (s.doc # Empty \/ HasOld(s.doc.ins))
    BY BegunGood
  <2>2. r = [u EXCEPT !.proj = s.file, !.dirty = @ \/ Text(doc) # s.file]
    BY <1>3 DEF LocalEdit
  <2>3. doc \in Doc /\ Within(s.doc, doc)
    <3> DEFINE S == s.file \ Base(s)
               D == {i \in s.doc.ins : i[1] \in Base(s) \ s.file}
    <3>1. S \in SUBSET Marks /\ D \in SUBSET s.doc.ins
      BY <1>1
    <3>2. doc = Changed(s.doc, S, D)
      BY DEF Changed
    <3> HIDE DEF S, D
    <3>3. Changed(s.doc, S, D) \in Doc /\ Within(s.doc, Changed(s.doc, S, D))
      BY ONLY <1>1, <3>1, PutIn
    <3> QED BY <3>2, <3>3
  <2> HIDE DEF b, doc
  <2>4. /\ b.doc = s.doc /\ b.file = s.file /\ b.known = s.known /\ b.removal = s.removal
        /\ b.awaiting = s.awaiting /\ b.hs = s.hs /\ b.out = s.out /\ b.overruled = s.overruled
        /\ b.dirty = s.dirty /\ b.up = s.up
    BY <2>1 DEF Engines
  <2>5. u \in Engines /\ Sent(u) /\ u = [b EXCEPT !.doc = doc, !.up = u.up]
    BY <2>1, <2>3, <2>4, EditedDoes DEF Good
  <2> HIDE DEF u
  <2>6. (u.dirty \/ Text(doc) # s.file) \in BOOLEAN
    BY <2>5, FieldsAre
  <2> DEFINE dirty == u.dirty \/ Text(doc) # s.file
  <2>7. r = [u EXCEPT !.proj = s.file, !.dirty = dirty]
    BY <2>2
  <2> HIDE DEF dirty, r
  <2>8. /\ r \in Engines /\ r.proj = s.file /\ r.dirty = dirty /\ r.up = u.up /\ r.doc = u.doc
        /\ r.vault = u.vault /\ r.out = u.out /\ r.hs = u.hs /\ r.file = u.file /\ r.known = u.known
        /\ r.awaiting = u.awaiting /\ r.overruled = u.overruled /\ r.early = u.early
    BY <1>1, <2>5, <2>6, <2>7 DEF Engines, dirty
  <2>9. /\ u.doc = doc /\ u.file = s.file /\ u.known = s.known /\ u.awaiting = s.awaiting
        /\ u.overruled = s.overruled /\ u.early = b.early /\ u.hs = s.hs /\ u.out = s.out
    BY <2>4, <2>5 DEF Engines
  <2>10. r = [s EXCEPT !.doc = r.doc, !.up = r.up, !.proj = r.proj, !.dirty = r.dirty, !.early = r.early]
    <3>1. u = [s EXCEPT !.doc = doc, !.up = u.up, !.early = b.early]
      BY ONLY <2>1, <2>5, s \in Engines DEF Engines
    <3>2. r = [s EXCEPT !.doc = doc, !.up = u.up, !.early = b.early, !.proj = s.file, !.dirty = dirty]
      BY ONLY <3>1, <2>7, s \in Engines DEF Engines
    <3> QED BY <2>8, <2>9, <3>2
  <2>11. Sent(r)
    BY <2>5, <2>8, SentSame
  <2>12. Asks(r)
    BY <2>8, <2>9 DEF Good, Asks
  <2>13. Born(r)
    BY KnownIsBorn, BornEither
  <2>14. Kept(r, r.awaiting)
    <3>1. Kept(s, FALSE) /\ ~ r.awaiting
      BY <1>1, <1>3, <2>8, <2>9 DEF Good
    <3>2. ~ r.early => ~ s.early /\ (MayRead("note") => s.doc # Empty \/ HasOld(s.doc.ins))
      BY <2>1, <2>8, <2>9
    <3>3. r.doc = [ins |-> s.doc.ins \cup {<<m, "here">> : m \in s.file \ Base(s)},
                  del |-> s.doc.del \cup {i \in s.doc.ins : i[1] \in Base(s) \ s.file}]
      BY <2>8, <2>9 DEF doc
    <3>4. r.file = s.file /\ r.proj = s.file /\ r.known /\ r.overruled = s.overruled /\ r \in Engines
      BY <2>8, <2>9
    <3>5. Kept(r, FALSE)
      BY <3>1, <3>2, <3>3, <3>4, EditKept
    <3>6. r.awaiting = FALSE
      BY <3>1, <2>8, FieldsAre
    <3> QED BY <3>5, <3>6
  <2>15. r \in Engines /\ Good(r)
    BY <2>8, <2>11, <2>12, <2>13, <2>14 DEF Good
  <2> QED BY <2>1, <2>8, <2>9, <2>10, <2>15 DEF r
<1> QED BY <1>2, <1>3

LEMMA IngestUnsavedGood ==
  ASSUME World, NEW s \in Engines, Good(s)
  PROVE  LET r == IngestUnsaved(s)
         IN /\ r \in Engines /\ Good(r)
            /\ r.file = s.file /\ r.known = s.known /\ r.awaiting = s.awaiting /\ r.out = s.out
            /\ ~ r.early => ~ s.early
            /\ ~ r.early /\ s.known /\ ~ s.awaiting /\ s.file # NoText => r.proj = s.file
            /\ s.proj = NoText => r.proj = NoText
            /\ s.proj # NoText => r.proj # NoText
<1> DEFINE r == IngestUnsaved(s)
           l == LocalEdit(s)
<1>1. ~ s.early /\ s.known /\ s.file # NoText => s.proj # NoText
  BY DEF Good, Kept, Whole
<1>2. CASE ~ (s.known /\ s.proj # NoText /\ s.file # NoText /\ s.file # s.proj)
  <2>1. r = s
    BY <1>2 DEF IngestUnsaved
  <2> QED BY <1>1, <1>2, <2>1
<1>3. CASE s.known /\ s.proj # NoText /\ s.file # NoText /\ s.file # s.proj
  <2>1. /\ l \in Engines /\ Good(l)
        /\ l = [s EXCEPT !.doc = l.doc, !.up = l.up, !.proj = l.proj, !.dirty = l.dirty,
                         !.early = l.early]
        /\ ~ l.early => ~ s.early
        /\ ~ s.awaiting /\ s.proj # NoText => l.proj = s.file
    BY <1>3, LocalEditGood
  <2>2. r = [l EXCEPT !.touched = FALSE]
    BY <1>3 DEF IngestUnsaved
  <2>9. s.awaiting => l = s
    BY DEF LocalEdit
  <2> HIDE DEF l, r
  <2>3. /\ r \in Engines /\ r.file = l.file /\ r.proj = l.proj /\ r.doc = l.doc /\ r.vault = l.vault
        /\ r.known = l.known /\ r.awaiting = l.awaiting /\ r.removal = l.removal /\ r.out = l.out
        /\ r.up = l.up /\ r.hs = l.hs /\ r.overruled = l.overruled /\ r.early = l.early
    BY <2>1, <2>2 DEF Engines
  <2>4. Good(r)
    BY <2>1, <2>3, GoodSame
  <2>5. l.file = s.file /\ l.known = s.known /\ l.awaiting = s.awaiting /\ l.out = s.out
    BY <2>1 DEF Engines
  <2>6. s.proj # NoText => r.proj # NoText
    <3>1. CASE s.awaiting
      BY <2>3, <2>9, <3>1
    <3>2. CASE ~ s.awaiting
      BY <1>3, <2>1, <2>3, <3>2
    <3> QED BY <3>1, <3>2
  <2> QED BY <1>3, <2>1, <2>3, <2>4, <2>5, <2>6 DEF r
<1> QED BY <1>2, <1>3

\* A note whose text is written is in its file as its document has it.
LEMMA WrittenKept ==
  ASSUME World, NEW s \in Engines, Kept(s, FALSE), s.known, s.file = NoText \/ s.proj = s.file \/ s.early,
         NEW r \in Engines, r.doc = s.doc, r.file = Text(s.doc), r.proj = Text(s.doc), r.known,
         r.overruled = s.overruled, r.early = s.early
  PROVE  Kept(r, FALSE)
<1> SUFFICES ASSUME ~ s.early PROVE Whole(r, FALSE) /\ Once(r)
  BY DEF Kept
<1>1. /\ s.doc \in Doc /\ Text(s.doc) \subseteq MarksOf(s.doc) /\ MarksOf(s.doc) \subseteq Marks
      /\ \A m \in Text(s.doc) : \/ H(m) \in s.doc.ins /\ H(m) \notin s.doc.del
                                \/ T(m) \in s.doc.ins /\ T(m) \notin s.doc.del
  BY TextsAre, DocsAre
<1>2. Text(s.doc) # NoText
  BY <1>1, LinkAssumption
<1>3. Read(r) = Text(s.doc) /\ Base(r) = Text(s.doc) /\ r.file # NoText /\ r.proj # NoText
  BY <1>2 DEF Read, Base
<1>4. Whole(s, FALSE) /\ Once(s)
  BY DEF Kept
<1>5. Read(s) \subseteq Base(s)
  BY DEF Read, Base
<1>6. Whole(r, FALSE)
  BY <1>1, <1>3, <1>4, <1>5 DEF Whole, Meant
<1>7. MayRead("note") =>
        \A m \in Text(s.doc) : m \in Old \/ T(m) \in s.doc.ins \cup s.doc.del \/ T(m) \notin srv.doc.ins
  BY <1>1, <1>4 DEF Once
<1>8. Once(r)
  BY <1>3, <1>4, <1>7 DEF Once
<1> QED BY <1>6, <1>8

LEMMA TextsRead ==
  ASSUME NEW doc \in Doc
  PROVE  Text(doc) \in Reads /\ Text(doc) # NoText
<1>1. Text(doc) \in SUBSET Marks
  BY DocsAre
<1> QED BY <1>1, LinkAssumption DEF Reads

LEMMA ProjectGood ==
  ASSUME World, NEW s \in Engines, Good(s)
  PROVE  LET r == Project(s) IN r \in Engines /\ Good(r) /\ r.out = s.out /\ (s.early => r.early)
<1> DEFINE r == Project(s)
           z == [s EXCEPT !.dirty = FALSE]
           t == IngestUnsaved(z)
<1>1. /\ z \in Engines /\ z.file = s.file /\ z.proj = s.proj /\ z.doc = s.doc /\ z.vault = s.vault
      /\ z.known = s.known /\ z.awaiting = s.awaiting /\ z.removal = s.removal /\ z.out = s.out
      /\ z.up = s.up /\ z.hs = s.hs /\ z.overruled = s.overruled /\ z.early = s.early
  BY DEF Engines
<1>2. r = IF s.awaiting THEN z
          ELSE IF ~ t.known \/ (t.proj = Text(t.doc) /\ t.file # NoText) THEN t
          ELSE [t EXCEPT !.proj = Text(t.doc), !.file = Text(t.doc)]
  BY DEF Project
<1> HIDE DEF z, r
<1>3. Good(z)
  BY <1>1, GoodSame
<1>4. /\ t \in Engines /\ Good(t)
      /\ t.file = z.file /\ t.known = z.known /\ t.awaiting = z.awaiting /\ t.out = z.out
      /\ ~ t.early /\ z.known /\ ~ z.awaiting /\ z.file # NoText => t.proj = z.file
      /\ ~ t.early => ~ z.early
  BY <1>1, <1>3, IngestUnsavedGood
<1> HIDE DEF t
<1>5. CASE s.awaiting
  BY <1>1, <1>2, <1>3, <1>5 DEF r
<1>6. CASE ~ s.awaiting /\ (~ t.known \/ (t.proj = Text(t.doc) /\ t.file # NoText))
  BY <1>1, <1>2, <1>4, <1>6 DEF r
<1>7. CASE ~ s.awaiting /\ ~ (~ t.known \/ (t.proj = Text(t.doc) /\ t.file # NoText))
  <2>1. r = [t EXCEPT !.proj = Text(t.doc), !.file = Text(t.doc)]
    BY <1>2, <1>7
  <2>2. Text(t.doc) \in Reads
    BY <1>4, FieldsAre, TextsRead
  <2>3. /\ r \in Engines /\ r.file = Text(t.doc) /\ r.proj = Text(t.doc) /\ r.doc = t.doc
        /\ r.vault = t.vault /\ r.known = t.known /\ r.awaiting = t.awaiting /\ r.removal = t.removal
        /\ r.out = t.out /\ r.up = t.up /\ r.hs = t.hs /\ r.overruled = t.overruled /\ r.early = t.early
    BY <1>4, <2>1, <2>2 DEF Engines
  <2>4. t.known /\ t.awaiting = FALSE /\ (t.file = NoText \/ t.proj = t.file \/ t.early)
    BY <1>1, <1>4, <1>7, FieldsAre
  <2>5. Sent(r)
    BY <1>4, <2>3, SentSame DEF Good
  <2>6. Asks(r)
    BY <1>4, <2>3 DEF Good, Asks
  <2>7. Born(r)
    BY <1>4, <2>4, KnownIsBorn, BornEither
  <2>8. Kept(t, FALSE)
    BY <1>4, <2>4 DEF Good
  <2>9. Kept(r, r.awaiting)
    BY <1>4, <2>3, <2>4, <2>8, WrittenKept
  <2> QED BY <1>1, <1>4, <2>3, <2>5, <2>6, <2>7, <2>9 DEF Good, r
<1> QED BY <1>5, <1>6, <1>7

LEMMA ForgetGood ==
  ASSUME NEW s \in Engines, NEW w, NEW x, Sent(s), Born(s), Kept(s, w)
  PROVE  LET r == Forget(s)
         IN /\ r \in Engines /\ Sent(r) /\ Asks(r) /\ Born(r) /\ Kept(r, x)
            /\ ~ r.known /\ r.proj = NoText /\ r.file = s.file /\ r.removal = s.removal /\ r.vault = s.vault
            /\ r.out = s.out /\ r.doc = s.doc /\ r.early = s.early
<1> DEFINE r == Forget(s)
           hs == [s.hs EXCEPT !["note"] = "none"]
<1>1. /\ s.hs \in [Of -> Phases] /\ "none" \in Phases /\ NoText \in Reads /\ {"vault", "note"} = Of
      /\ s.out \in BOOLEAN
  BY FieldsAre DEF Phases, Reads, Of
<1>2. hs \in [Of -> Phases] /\ hs["note"] = "none" /\ hs["vault"] = s.hs["vault"]
  BY <1>1 DEF Of
<1>3. r = [s EXCEPT !.known = FALSE, !.proj = NoText, !.dirty = FALSE, !.hs = hs]
  BY DEF Forget
<1> HIDE DEF hs
<1>4. /\ r \in Engines /\ r.known = FALSE /\ r.proj = NoText /\ r.file = s.file /\ r.removal = s.removal
      /\ r.vault = s.vault /\ r.doc = s.doc /\ r.up = s.up /\ r.out = s.out /\ r.hs = hs
      /\ r.overruled = s.overruled /\ r.early = s.early
  BY <1>1, <1>2, <1>3 DEF Engines
<1> HIDE DEF r
<1>5. Sent(r)
  <2>1. Handed(s) <=> Handed(r)
    BY <1>4 DEF Handed
  <2>2. Entrusted(s) <=> Entrusted(r)
    BY <1>4 DEF Entrusted
  <2>3. \A of \in Of : r.hs[of] = s.hs[of] \/ r.hs[of] = "none"
    BY <1>2, <1>4 DEF Of
  <2> QED BY <1>2, <1>4, <2>1, <2>2, <2>3 DEF Sent
<1>6. Asks(r)
  BY <1>4 DEF Asks
<1>7. Born(r)
  BY <1>4 DEF Born, Unborn
<1>8. Kept(r, x)
  <2> SUFFICES ASSUME ~ s.early PROVE Whole(r, x) /\ Once(r)
    BY <1>4 DEF Kept
  <2>1. Whole(s, w) /\ Once(s)
    BY DEF Kept
  <2>2. Base(r) = {} /\ Read(r) = Read(s)
    BY <1>4 DEF Base, Read
  <2>3. Whole(r, x)
    BY <1>4, <2>1, <2>2 DEF Whole, Meant
  <2>4. Once(r)
    BY <1>4, <2>1, <2>2 DEF Once
  <2> QED BY <2>3, <2>4
<1> QED BY <1>4, <1>5, <1>6, <1>7, <1>8 DEF r

LEMMA FinishAdoptionGood ==
  ASSUME World, NEW s \in Engines, Good(s),
         MayRead("note") /\ s.awaiting => HasOld(s.doc.ins) \/ s.early
  PROVE  LET r == FinishAdoption(s)
         IN /\ r \in Engines /\ Good(r) /\ ~ r.awaiting
            /\ r.known = s.known /\ r.file = s.file /\ r.out = s.out /\ r.early = s.early
            /\ r.vault = s.vault
<1> DEFINE r == FinishAdoption(s)
           doc == SetText(s.doc, s.file, "here")
           u == Edited(s, doc)
           over == u.overruled \cup (Text(s.doc) \ s.file)
<1>1. /\ s.awaiting \in BOOLEAN /\ s.known \in BOOLEAN /\ s.doc \in Doc /\ s.overruled \in SUBSET Marks
      /\ s.out \in BOOLEAN
  BY FieldsAre
<1>2. Kept(s, s.awaiting) /\ Sent(s) /\ Asks(s) /\ Born(s)
  BY DEF Good
<1>3. CASE ~ s.awaiting
  BY <1>3 DEF FinishAdoption
<1>4. CASE s.awaiting /\ ~ s.known
  <2>1. r = [s EXCEPT !.awaiting = FALSE]
    BY <1>4 DEF FinishAdoption
  <2>2. /\ r \in Engines /\ r.file = s.file /\ r.proj = s.proj /\ r.doc = s.doc /\ r.vault = s.vault
        /\ r.known = s.known /\ r.awaiting = FALSE /\ r.removal = s.removal /\ r.out = s.out
        /\ r.up = s.up /\ r.hs = s.hs /\ r.overruled = s.overruled /\ r.early = s.early
    BY <2>1 DEF Engines
  <2> HIDE DEF r
  <2>3. Sent(r)
    BY <1>2, <2>2, SentSame
  <2>4. Asks(r) /\ Born(r)
    BY <1>2, <2>2 DEF Asks, Born, Unborn
  <2>5. Kept(s, FALSE)
    BY <1>2, <1>4 DEF Kept, Whole, Base
  <2>6. Kept(r, FALSE)
    BY <2>2, <2>5, KeptSame
  <2> QED BY <2>2, <2>3, <2>4, <2>6 DEF Good, r
<1>5. CASE s.awaiting /\ s.known /\ s.file = NoText
  <2>1. r = [s EXCEPT !.awaiting = FALSE, !.dirty = TRUE]
    BY <1>5 DEF FinishAdoption
  <2>2. /\ r \in Engines /\ r.file = s.file /\ r.proj = s.proj /\ r.doc = s.doc /\ r.vault = s.vault
        /\ r.known = s.known /\ r.awaiting = FALSE /\ r.removal = s.removal /\ r.out = s.out
        /\ r.up = s.up /\ r.hs = s.hs /\ r.overruled = s.overruled /\ r.early = s.early
    BY <2>1 DEF Engines
  <2> HIDE DEF r
  <2>3. Sent(r)
    BY <1>2, <2>2, SentSame
  <2>4. Asks(r) /\ Born(r)
    BY <1>2, <2>2 DEF Asks, Born, Unborn
  <2>5. Kept(s, FALSE)
    BY <1>2, <1>5 DEF Kept, Whole
  <2>6. Kept(r, FALSE)
    BY <2>2, <2>5, KeptSame
  <2> QED BY <2>2, <2>3, <2>4, <2>6 DEF Good, r
<1>6. CASE s.awaiting /\ s.known /\ s.file # NoText
  <2>1. r = [u EXCEPT !.awaiting = FALSE, !.proj = s.file, !.overruled = over]
    BY <1>6 DEF FinishAdoption
  <2>2. s.file \in SUBSET Marks /\ s.file \in Reads
    BY <1>6, TextsAre, FieldsAre
  <2>3. doc \in Doc /\ Within(s.doc, doc)
    BY <1>1, <2>2, SetTextIs
  <2>4. Text(s.doc) \subseteq Marks
    BY <1>1, DocsAre
  <2> HIDE DEF r
  <2>5. u \in Engines /\ Sent(u) /\ u = [s EXCEPT !.doc = doc, !.up = u.up]
    BY <1>2, <2>3, EditedDoes
  <2> HIDE DEF u
  <2>6. /\ u.doc = doc /\ u.file = s.file /\ u.known = s.known /\ u.out = s.out /\ u.hs = s.hs
        /\ u.overruled = s.overruled /\ u.early = s.early /\ u.vault = s.vault
    BY <2>5 DEF Engines
  <2>7. over \in SUBSET Marks /\ over = s.overruled \cup (Text(s.doc) \ s.file)
    BY <1>1, <2>4, <2>6
  <2> HIDE DEF over, doc
  <2>8. /\ r \in Engines /\ r.proj = s.file /\ r.awaiting = FALSE /\ r.overruled = over /\ r.doc = u.doc
        /\ r.up = u.up /\ r.vault = u.vault /\ r.out = u.out /\ r.hs = u.hs /\ r.file = u.file
        /\ r.known = u.known /\ r.early = u.early
    BY <2>1, <2>2, <2>5, <2>7 DEF Engines
  <2>9. Sent(r)
    BY <2>5, <2>8, SentSame
  <2>10. Asks(r)
    BY <1>2, <2>6, <2>8 DEF Asks
  <2>11. Born(r)
    BY <1>6, KnownIsBorn, BornEither
  <2>12. Kept(r, FALSE)
    <3>1. CASE s.early
      BY <2>6, <2>8, <3>1 DEF Kept
    <3>2. CASE ~ s.early
      <4>1. MayRead("note") => HasOld(s.doc.ins)
        BY <1>6, <3>2
      <4>2. r.doc = SetText(s.doc, s.file, "here")
        BY <2>6, <2>8 DEF doc
      <4>3. r.file = s.file /\ r.known /\ s.overruled \cup (Text(s.doc) \ s.file) \subseteq r.overruled
        BY <1>6, <2>6, <2>7, <2>8
      <4> QED BY <1>2, <1>6, <2>8, <3>2, <4>1, <4>2, <4>3, TakenInKept
    <3> QED BY <3>1, <3>2
  <2> QED BY <2>6, <2>8, <2>9, <2>10, <2>11, <2>12 DEF Good, r
<1> QED BY <1>1, <1>3, <1>4, <1>5, <1>6

LEMMA LocalCreateGood ==
  ASSUME World, NEW s \in Engines, Good(s), ~ s.known, s.file # NoText
  PROVE  LET r == LocalCreate(s) IN r \in Engines /\ Good(r) /\ r.out = s.out /\ (s.early => r.early)
<1> DEFINE r == LocalCreate(s)
           waits == WaitsForServer(s)
           doc == IF waits THEN s.doc ELSE SetText(s.doc, s.file, "here")
           entry == IF s.vault.listed THEN s.vault ELSE SetEntry(s.vault, "here")
           z == [s EXCEPT !.known = TRUE, !.proj = s.file]
           y == Entered(z, entry)
           x == Handshake(y, "note")
           u == Edited(x, doc)
           over == u.overruled \cup (Text(s.doc) \ Text(doc))
           wait == u.awaiting \/ waits
<1>1. r = [u EXCEPT !.awaiting = wait, !.overruled = over]
  BY DEF LocalCreate
<1>2. /\ s.doc \in Doc /\ s.file \in SUBSET Marks /\ s.file \in Reads /\ s.vault \in Entries
      /\ s.overruled \in SUBSET Marks
  BY FieldsAre, TextsAre
<1>3. Kept(s, s.awaiting) /\ Sent(s) /\ Asks(s) /\ Born(s)
  BY DEF Good
<1>4. entry \in Entries
  BY <1>2, SetLeads, PlacesAre DEF World
<1>5. waits \in BOOLEAN /\ (waits <=> s.doc = Empty)
  BY DEF WaitsForServer
<1>6. SetText(s.doc, s.file, "here") \in Doc /\ Within(s.doc, SetText(s.doc, s.file, "here"))
      /\ Text(SetText(s.doc, s.file, "here")) \subseteq s.file
  BY <1>2, SetTextIs
<1>7. doc \in Doc /\ Within(s.doc, doc)
  BY <1>2, <1>6 DEF Within
<1>8. Text(s.doc) \subseteq Marks
  BY <1>2, DocsAre
<1> HIDE DEF r, doc, entry, waits
<1>9. /\ z \in Engines /\ z.file = s.file /\ z.proj = s.file /\ z.doc = s.doc /\ z.vault = s.vault
      /\ z.known = TRUE /\ z.out = s.out /\ z.up = s.up /\ z.hs = s.hs
      /\ z.overruled = s.overruled /\ z.early = s.early
  BY <1>2 DEF Engines
<1> HIDE DEF z
<1>10. Sent(z)
  BY <1>3, <1>9, SentSame
<1>11. y \in Engines /\ Sent(y) /\ y = [z EXCEPT !.vault = entry, !.up = y.up]
  BY <1>4, <1>9, <1>10, EnteredDoes
<1> HIDE DEF y
<1>12. /\ y.file = s.file /\ y.proj = s.file /\ y.doc = s.doc /\ y.known = TRUE /\ y.out = s.out
       /\ y.overruled = s.overruled /\ y.early = s.early
  BY <1>9, <1>11 DEF Engines
<1>13. /\ x \in Engines /\ Sent(x) /\ x = [y EXCEPT !.up = x.up, !.hs = x.hs]
       /\ y.out => x.hs["note"] = "sent"
  BY <1>11, HandshakeDoes DEF Of
<1> HIDE DEF x
<1>14. /\ x.file = s.file /\ x.proj = s.file /\ x.doc = s.doc /\ x.known = TRUE /\ x.out = s.out
       /\ x.overruled = s.overruled /\ x.early = s.early
  BY <1>12, <1>13 DEF Engines
<1>15. u \in Engines /\ Sent(u) /\ u = [x EXCEPT !.doc = doc, !.up = u.up]
  BY <1>7, <1>13, <1>14, EditedDoes
<1> HIDE DEF u
<1>16. /\ u.file = s.file /\ u.proj = s.file /\ u.doc = doc /\ u.known = TRUE /\ u.out = s.out
       /\ u.overruled = s.overruled /\ u.early = s.early /\ u.hs = x.hs
  BY <1>14, <1>15 DEF Engines
<1>17. over \in SUBSET Marks /\ over = s.overruled \cup (Text(s.doc) \ Text(doc))
  BY <1>2, <1>8, <1>16
<1>23. wait \in BOOLEAN /\ (waits => wait = TRUE)
  <2>1. u.awaiting \in BOOLEAN
    BY <1>15 DEF Engines
  <2> QED BY <1>5, <2>1
<1> HIDE DEF over, wait
<1>18. /\ r \in Engines /\ r.proj = u.proj /\ r.awaiting = wait /\ r.overruled = over /\ r.doc = u.doc
       /\ r.up = u.up /\ r.vault = u.vault /\ r.out = u.out /\ r.hs = u.hs /\ r.file = u.file
       /\ r.known = u.known /\ r.early = u.early
  BY <1>1, <1>15, <1>17, <1>23 DEF Engines
<1>19. Sent(r)
  BY <1>15, <1>18, SentSame
<1>20. Asks(r)
  BY <1>12, <1>13, <1>16, <1>18 DEF Asks
<1>21. Born(r)
  BY KnownIsBorn, BornEither
<1>22. Kept(r, wait)
  <2>1. CASE s.early
    BY <1>16, <1>18, <2>1 DEF Kept
  <2>2. CASE ~ s.early /\ waits
    <3>1. Whole(s, s.awaiting) /\ Once(s)
      BY <1>3, <2>2 DEF Kept
    <3>2. /\ r.file = s.file /\ r.proj = s.file /\ r.doc = s.doc /\ r.known
          /\ s.overruled \subseteq r.overruled
      BY <1>16, <1>17, <1>18, <2>2 DEF doc
    <3>3. Read(r) = Read(s) /\ Base(r) = Read(s)
      BY <3>2 DEF Read, Base
    <3>4. Whole(r, TRUE)
      BY <3>1, <3>2, <3>3 DEF Whole, Meant
    <3>5. Once(r)
      BY <3>1, <3>2, <3>3 DEF Once
    <3>6. wait = TRUE
      BY <1>23, <2>2
    <3> QED BY <3>4, <3>5, <3>6 DEF Kept
  <2>3. CASE ~ s.early /\ ~ waits
    <3>1. Whole(s, s.awaiting) /\ Once(s)
      BY <1>3, <2>3 DEF Kept
    <3>2. /\ r.file = s.file /\ r.proj = s.file /\ r.doc = SetText(s.doc, s.file, "here") /\ r.known
          /\ r.overruled = s.overruled \cup (Text(s.doc) \ Text(r.doc))
      BY <1>16, <1>17, <1>18, <2>3 DEF doc
    <3>3. s.overruled \cup (Text(s.doc) \ s.file) \subseteq r.overruled
      BY <1>6, <3>2
    <3>4. MayRead("note") => HasOld(s.doc.ins)
      BY <1>5, <2>3, <3>1 DEF Once
    <3>5. Kept(r, FALSE)
      BY <1>3, <1>18, <2>3, <3>2, <3>3, <3>4, TakenInKept
    <3> QED BY <3>5 DEF Kept, Whole
  <2> QED BY <1>5, <2>1, <2>2, <2>3
<1> QED BY <1>16, <1>18, <1>19, <1>20, <1>21, <1>22 DEF Good, r

LEMMA NewNoteGood ==
  ASSUME World, NEW s \in Engines, Good(s), ~ s.known, s.file = NoText, s.vault.listed
  PROVE  LET r == NewNote(s) IN r \in Engines /\ Good(r) /\ r.out = s.out /\ (s.early => r.early)
<1> DEFINE r == NewNote(s)
           z == [s EXCEPT !.known = TRUE, !.dirty = TRUE]
<1>1. /\ z \in Engines /\ z.file = s.file /\ z.proj = s.proj /\ z.doc = s.doc /\ z.vault = s.vault
      /\ z.known = TRUE /\ z.awaiting = s.awaiting /\ z.out = s.out /\ z.up = s.up /\ z.hs = s.hs
      /\ z.overruled = s.overruled /\ z.early = s.early
  BY DEF Engines
<1>2. r = Handshake(z, "note")
  BY DEF NewNote
<1> HIDE DEF z, r
<1>3. Sent(z)
  BY <1>1, SentSame DEF Good
<1>4. /\ r \in Engines /\ Sent(r) /\ r = [z EXCEPT !.up = r.up, !.hs = r.hs]
      /\ z.out => r.hs["note"] = "sent"
  BY <1>1, <1>2, <1>3, HandshakeDoes DEF Of
<1>5. /\ r.file = s.file /\ r.proj = s.proj /\ r.doc = s.doc /\ r.known = TRUE
      /\ r.awaiting = s.awaiting /\ r.out = s.out /\ r.overruled = s.overruled /\ r.early = s.early
  <2>1. /\ r.file = z.file /\ r.proj = z.proj /\ r.doc = z.doc /\ r.known = z.known
        /\ r.awaiting = z.awaiting /\ r.out = z.out /\ r.overruled = z.overruled
        /\ r.early = z.early
    BY ONLY <1>4, <1>1 DEF Engines
  <2> QED BY <1>1, <2>1
<1>6. Asks(r)
  BY <1>1, <1>4, <1>5 DEF Asks
<1>7. s.vault # NoEntry
  BY DEF NoEntry
<1>8. Born(r)
  BY <1>7, KnownIsBorn, BornEither
<1>9. Kept(r, s.awaiting)
  <2> SUFFICES ASSUME ~ s.early PROVE Whole(r, s.awaiting) /\ Once(r)
    BY <1>5 DEF Kept
  <2>1. Whole(s, s.awaiting) /\ Once(s)
    BY DEF Good, Kept
  <2>2. Read(r) = Read(s) /\ Base(r) = Base(s) /\ Read(r) = {}
    BY <1>5 DEF Read, Base
  <2>3. Whole(r, s.awaiting)
    BY <1>5, <2>1, <2>2 DEF Whole, Meant
  <2>4. Once(r)
    BY <1>5, <2>1, <2>2 DEF Once
  <2> QED BY <2>3, <2>4
<1> QED BY <1>4, <1>5, <1>6, <1>8, <1>9 DEF Good, r

LEMMA GoneGood ==
  ASSUME World, NEW s \in Engines, Good(s), s.known
  PROVE  LET r == Gone(s) IN r \in Engines /\ Good(r) /\ r.out = s.out /\ (s.early => r.early)
<1> DEFINE p == TooEarly(s)
           q == FinishAdoption(p)
           t == IngestUnsaved(q)
           z == [t EXCEPT !.file = IF t.proj # NoText THEN NoText ELSE @]
           r == Gone(s)
<1>1. r = Forget(z)
  BY DEF Gone
<1>2. /\ p \in Engines /\ Good(p) /\ (p.awaiting => p.early) /\ p = [s EXCEPT !.early = p.early]
  BY TooEarlyGood
<1> HIDE DEF p
<1>3. /\ q \in Engines /\ Good(q) /\ ~ q.awaiting /\ q.known = p.known /\ q.out = p.out
      /\ q.early = p.early
  BY <1>2, FinishAdoptionGood
<1> HIDE DEF q
<1>4. /\ t \in Engines /\ Good(t)
      /\ t.file = q.file /\ t.known = q.known /\ t.awaiting = q.awaiting /\ t.out = q.out
      /\ ~ t.early /\ q.known /\ ~ q.awaiting /\ q.file # NoText => t.proj = q.file
      /\ ~ t.early => ~ q.early
  BY <1>3, IngestUnsavedGood
<1> HIDE DEF t
<1>5. p.known = s.known /\ p.out = s.out /\ (s.early => p.early)
  <2>1. s.early => p.early
    BY DEF p, TooEarly, Engines
  <2> QED BY <1>2, <2>1 DEF Engines
<1>6. z = [t EXCEPT !.file = IF t.proj # NoText THEN NoText ELSE t.file]
  OBVIOUS
<1>7. (IF t.proj # NoText THEN NoText ELSE t.file) \in Reads
  BY <1>4, FieldsAre DEF Reads
<1> HIDE DEF z
<1>8. /\ z \in Engines /\ z.file = (IF t.proj # NoText THEN NoText ELSE t.file) /\ z.proj = t.proj
      /\ z.doc = t.doc /\ z.vault = t.vault /\ z.known = t.known /\ z.out = t.out /\ z.up = t.up
      /\ z.hs = t.hs /\ z.overruled = t.overruled /\ z.early = t.early
  BY <1>4, <1>6, <1>7 DEF Engines
<1> HIDE DEF r
<1>9. Sent(z)
  BY <1>4, <1>8, SentSame DEF Good
<1>10. Born(z)
  BY <1>3, <1>4, <1>5, KnownIsBorn, BornEither
<1>11. Kept(z, FALSE)
  <2> SUFFICES ASSUME ~ t.early PROVE Whole(z, FALSE) /\ Once(z)
    BY <1>8 DEF Kept
  <2>1. Whole(t, FALSE) /\ Once(t)
    <3>1. t.awaiting = FALSE
      BY <1>3, <1>4, FieldsAre
    <3> QED BY <1>4, <3>1 DEF Good, Kept
  <2>2. t.file = NoText \/ t.proj = t.file
    BY <1>3, <1>4, <1>5
  <2>3. Base(z) = Base(t) /\ Read(t) \subseteq Base(t)
    BY <1>8, <2>2 DEF Base, Read
  <2>4. z.file = NoText /\ Read(z) = {}
    BY <1>8, <2>2 DEF Read
  <2>5. Whole(z, FALSE)
    BY <1>8, <2>1, <2>3, <2>4 DEF Whole, Meant
  <2>6. Once(z)
    BY <1>8, <2>1, <2>3, <2>4 DEF Once
  <2> QED BY <2>5, <2>6
<1>12. r \in Engines /\ Sent(r) /\ Asks(r) /\ Born(r) /\ Kept(r, r.awaiting) /\ r.out = z.out
       /\ r.early = z.early
  BY <1>1, <1>8, <1>9, <1>10, <1>11, ForgetGood
<1> QED BY <1>3, <1>4, <1>5, <1>8, <1>12 DEF Good, r

LEMMA TouchedGood ==
  ASSUME NEW s \in Engines, Good(s), NEW b \in BOOLEAN
  PROVE  LET r == [s EXCEPT !.touched = b]
         IN /\ r \in Engines /\ Good(r) /\ r.out = s.out /\ r.known = s.known /\ r.file = s.file
            /\ r.removal = s.removal /\ (s.early => r.early)
<1> DEFINE r == [s EXCEPT !.touched = b]
<1>1. /\ r \in Engines /\ r.file = s.file /\ r.proj = s.proj /\ r.doc = s.doc /\ r.vault = s.vault
      /\ r.known = s.known /\ r.awaiting = s.awaiting /\ r.removal = s.removal /\ r.out = s.out
      /\ r.up = s.up /\ r.hs = s.hs /\ r.overruled = s.overruled /\ r.early = s.early
  BY DEF Engines
<1> HIDE DEF r
<1>2. Good(r)
  BY <1>1, GoodSame
<1> QED BY <1>1, <1>2 DEF r

LEMMA ReconcileVaultGood ==
  ASSUME World, NEW s \in Engines, Good(s)
  PROVE  LET r == ReconcileVault(s) IN r \in Engines /\ Good(r) /\ r.out = s.out /\ (s.early => r.early)
<1>1. CASE s.vault.listed /\ ~ s.known /\ s.file # NoText
  <2>1. ReconcileVault(s) = [LocalCreate(s) EXCEPT !.touched = FALSE]
    BY <1>1 DEF ReconcileVault
  <2>2. /\ LocalCreate(s) \in Engines /\ Good(LocalCreate(s)) /\ LocalCreate(s).out = s.out
        /\ s.early => LocalCreate(s).early
    BY <1>1, LocalCreateGood
  <2> QED BY <2>1, <2>2, TouchedGood
<1>2. CASE s.vault.listed /\ ~ s.known /\ s.file = NoText
  <2>1. ReconcileVault(s) = NewNote(s)
    BY <1>2 DEF ReconcileVault
  <2> QED BY <1>2, <2>1, NewNoteGood
<1>3. CASE s.known /\ ~ s.vault.listed
  <2>1. ReconcileVault(s) = Gone(s)
    BY <1>3 DEF ReconcileVault
  <2> QED BY <1>3, <2>1, GoneGood
<1>4. CASE ~ (s.vault.listed /\ ~ s.known) /\ ~ (s.known /\ ~ s.vault.listed)
  BY <1>4 DEF ReconcileVault
<1> QED BY <1>1, <1>2, <1>3, <1>4

LEMMA ProcessPathGood ==
  ASSUME World, NEW s \in Engines, Good(s)
  PROVE  LET r == ProcessPath(s) IN r \in Engines /\ Good(r) /\ r.out = s.out /\ (s.early => r.early)
<1>1. CASE s.file # NoText /\ s.known
  <2>1. ProcessPath(s) = LocalEdit(s)
    BY <1>1 DEF ProcessPath
  <2> DEFINE l == LocalEdit(s)
  <2>2. /\ l \in Engines /\ Good(l)
        /\ l = [s EXCEPT !.doc = l.doc, !.up = l.up, !.proj = l.proj, !.dirty = l.dirty,
                         !.early = l.early]
        /\ ~ l.early => ~ s.early
    BY <1>1, LocalEditGood
  <2> HIDE DEF l
  <2>3. l.out = s.out
    BY <2>2 DEF Engines
  <2> QED BY <2>1, <2>2, <2>3 DEF l
<1>2. CASE s.file # NoText /\ ~ s.known
  <2>1. ProcessPath(s) = LocalCreate(s)
    BY <1>2 DEF ProcessPath
  <2> QED BY <1>2, <2>1, LocalCreateGood
<1>3. CASE s.file = NoText
  <2> DEFINE r == ProcessPath(s)
  <2>1. r = [s EXCEPT !.removal = s.removal \/ s.known]
    BY <1>3 DEF ProcessPath
  <2>2. (s.removal \/ s.known) \in BOOLEAN
    BY FieldsAre
  <2>3. /\ r \in Engines /\ r.file = s.file /\ r.proj = s.proj /\ r.doc = s.doc /\ r.vault = s.vault
        /\ r.known = s.known /\ r.awaiting = s.awaiting /\ r.removal = (s.removal \/ s.known)
        /\ r.out = s.out /\ r.up = s.up /\ r.hs = s.hs /\ r.overruled = s.overruled
        /\ r.early = s.early
    BY <2>1, <2>2 DEF Engines
  <2> HIDE DEF r
  <2>4. Sent(r)
    BY <2>3, SentSame DEF Good
  <2>5. Asks(r) /\ Born(r)
    BY <2>3 DEF Good, Asks, Born, Unborn
  <2>6. Kept(r, r.awaiting)
    BY <2>3, KeptSame DEF Good
  <2> QED BY <2>3, <2>4, <2>5, <2>6 DEF Good, r
<1> QED BY <1>1, <1>2, <1>3

LEMMA FinalizeRemovalsGood ==
  ASSUME World, NEW s \in Engines, Good(s)
  PROVE  LET r == FinalizeRemovals(s) IN r \in Engines /\ Good(r) /\ r.out = s.out /\ (s.early => r.early)
<1> DEFINE t == [s EXCEPT !.removal = FALSE]
           r == FinalizeRemovals(s)
           entry == [t.vault EXCEPT !.listed = FALSE]
           y == Forget(t)
<1>1. /\ t \in Engines /\ t.file = s.file /\ t.proj = s.proj /\ t.doc = s.doc /\ t.vault = s.vault
      /\ t.known = s.known /\ t.awaiting = s.awaiting /\ t.removal = FALSE
      /\ t.out = s.out /\ t.up = s.up /\ t.hs = s.hs /\ t.overruled = s.overruled
      /\ t.early = s.early
  BY DEF Engines
<1>2. r = IF ~ s.removal THEN s ELSE IF s.file # NoText THEN t ELSE Entered(y, entry)
  BY DEF FinalizeRemovals
<1> HIDE DEF t, r
<1>3. Sent(t)
  BY <1>1, SentSame DEF Good
<1>4. Asks(t) /\ Born(t)
  BY <1>1 DEF Good, Asks, Born, Unborn
<1>5. Kept(t, t.awaiting)
  BY <1>1, KeptSame DEF Good
<1>6. Good(t)
  BY <1>3, <1>4, <1>5 DEF Good
<1>7. CASE ~ s.removal
  BY <1>2, <1>7 DEF r
<1>8. CASE s.removal /\ s.file # NoText
  BY <1>1, <1>2, <1>6, <1>8 DEF r
<1>9. CASE s.removal /\ s.file = NoText
  <2>1. /\ y \in Engines /\ Sent(y) /\ Asks(y) /\ Kept(y, y.awaiting) /\ y.out = t.out /\ ~ y.known
        /\ y.early = t.early
    BY <1>1, <1>3, <1>4, <1>5, ForgetGood
  <2>2. entry \in Entries
    BY <1>1, FieldsAre, SetLeads, PlacesAre DEF World
  <2> HIDE DEF y, entry
  <2>3. r = Entered(y, entry)
    BY <1>2, <1>9
  <2>4. r \in Engines /\ Sent(r) /\ r = [y EXCEPT !.vault = entry, !.up = r.up]
    BY <2>1, <2>2, <2>3, EnteredDoes
  <2>5. /\ r.file = y.file /\ r.proj = y.proj /\ r.doc = y.doc /\ r.known = y.known
        /\ r.awaiting = y.awaiting /\ r.out = y.out /\ r.overruled = y.overruled /\ r.early = y.early
    BY <2>1, <2>4 DEF Engines
  <2>6. Asks(r)
    BY <2>1, <2>5 DEF Asks
  <2>7. Born(r)
    BY <1>9, KnownIsBorn, BornEither
  <2>8. Kept(r, r.awaiting)
    BY <2>1, <2>5, KeptSame
  <2> QED BY <1>1, <2>1, <2>4, <2>5, <2>6, <2>7, <2>8 DEF Good, r
<1> QED BY <1>7, <1>8, <1>9

\* The engine is started on what it left, or was given.
LEMMA OpenedGood ==
  ASSUME World, NEW s \in Engines, Sent(s), Asks(s), Born(s), Kept(s, s.doc = Empty)
  PROVE  LET r == Opened(s) IN r \in Engines /\ Good(r) /\ r.out = s.out /\ (s.early => r.early)
<1> DEFINE r == Opened(s)
           waits == s.known /\ s.doc = Empty /\ s.proj \notin {NoText, {}}
           t == [s EXCEPT !.awaiting = waits]
           u == IF t.known /\ t.file = NoText
                  THEN IF t.proj # NoText THEN [t EXCEPT !.removal = TRUE] ELSE [t EXCEPT !.dirty = TRUE]
                  ELSE t
<1>1. r = FinalizeRemovals(IF u.file = NoText THEN u ELSE ProcessPath(u))
  BY DEF Opened
<1>2. waits \in BOOLEAN
  BY FieldsAre
<1>3. waits \/ ~ s.known \/ s.doc # Empty \/ s.proj = NoText \/ s.proj = {}
  OBVIOUS
<1> HIDE DEF waits
<1>4. /\ t \in Engines /\ t.file = s.file /\ t.proj = s.proj /\ t.doc = s.doc /\ t.vault = s.vault
      /\ t.known = s.known /\ t.awaiting = waits /\ t.removal = s.removal
      /\ t.out = s.out /\ t.up = s.up /\ t.hs = s.hs /\ t.overruled = s.overruled
      /\ t.early = s.early
  BY <1>2 DEF Engines
<1> HIDE DEF t, r
<1>5. /\ u \in Engines /\ u.file = t.file /\ u.proj = t.proj /\ u.doc = t.doc /\ u.vault = t.vault
      /\ u.known = t.known /\ u.awaiting = t.awaiting /\ (u.removal => t.removal \/ t.known)
      /\ u.out = t.out /\ u.up = t.up /\ u.hs = t.hs /\ u.overruled = t.overruled
      /\ u.early = t.early
  <2>1. CASE ~ (t.known /\ t.file = NoText)
    BY <1>4, <2>1
  <2>2. CASE t.known /\ t.file = NoText /\ t.proj # NoText
    BY <1>4, <2>2 DEF Engines
  <2>3. CASE t.known /\ t.file = NoText /\ t.proj = NoText
    BY <1>4, <2>3 DEF Engines
  <2> QED BY <2>1, <2>2, <2>3
<1> HIDE DEF u
<1>6. Sent(u)
  BY <1>4, <1>5, SentSame
<1>7. Asks(u) /\ Born(u)
  BY <1>4, <1>5 DEF Asks, Born, Unborn
<1>8. Kept(s, waits)
  <2> SUFFICES ASSUME ~ s.early PROVE Whole(s, waits) /\ Once(s)
    BY DEF Kept
  <2>1. Whole(s, s.doc = Empty) /\ Once(s)
    BY DEF Kept
  <2>2. ~ waits => s.doc # Empty \/ Base(s) = {}
    BY <1>3, <2>1 DEF Whole, Base
  <2> QED BY <2>1, <2>2 DEF Whole
<1>9. Kept(u, u.awaiting)
  BY <1>4, <1>5, <1>8, KeptSame
<1>10. Good(u)
  BY <1>6, <1>7, <1>9 DEF Good
<1> DEFINE v == IF u.file = NoText THEN u ELSE ProcessPath(u)
<1>11. v \in Engines /\ Good(v) /\ v.out = u.out /\ (u.early => v.early)
  BY <1>5, <1>10, ProcessPathGood
<1>12. r = FinalizeRemovals(v)
  BY <1>1
<1> HIDE DEF v
<1> QED BY <1>4, <1>5, <1>11, <1>12, FinalizeRemovalsGood DEF r

LEMMA AdvanceGood ==
  ASSUME NEW s \in Engines, Good(s), NEW of \in Of
  PROVE  LET r == Advance(s, of)
         IN /\ r \in Engines /\ Good(r) /\ r = [s EXCEPT !.hs = r.hs]
<1> DEFINE r == Advance(s, of)
           hs == [s.hs EXCEPT ![of] = "step2"]
<1>1. s.hs \in [Of -> Phases] /\ "step2" \in Phases /\ s.out \in BOOLEAN
  BY FieldsAre DEF Phases
<1>2. CASE s.hs[of] # "sent"
  BY <1>2 DEF Advance, Engines
<1>3. CASE s.hs[of] = "sent"
  <2>1. r = [s EXCEPT !.hs = hs]
    BY <1>3 DEF Advance
  <2>2. hs \in [Of -> Phases] /\ hs[of] = "step2" /\ \A o \in Of : o # of => hs[o] = s.hs[o]
    BY <1>1
  <2> HIDE DEF hs
  <2>3. /\ r \in Engines /\ r.file = s.file /\ r.proj = s.proj /\ r.doc = s.doc /\ r.vault = s.vault
        /\ r.known = s.known /\ r.awaiting = s.awaiting /\ r.removal = s.removal
        /\ r.out = s.out /\ r.up = s.up /\ r.hs = hs /\ r.overruled = s.overruled
        /\ r.early = s.early
    BY <2>1, <2>2 DEF Engines
  <2> HIDE DEF r
  <2>4. s.out
    BY <1>3 DEF Good, Sent
  <2>5. Handed(s) <=> Handed(r)
    BY <2>3 DEF Handed
  <2>6. Entrusted(s) <=> Entrusted(r)
    BY <2>3 DEF Entrusted
  <2>7. \A o \in Of : hs[o] = s.hs[o] \/ hs[o] = "step2"
    BY <2>2
  <2>8. Sent(r)
    BY <2>3, <2>4, <2>5, <2>6, <2>7 DEF Good, Sent, Of
  <2>9. Asks(r) /\ Born(r)
    BY <2>3, <2>7 DEF Good, Asks, Born, Unborn, Of
  <2>10. Kept(r, r.awaiting)
    BY <2>3, KeptSame DEF Good
  <2> QED BY <2>1, <2>3, <2>8, <2>9, <2>10 DEF Good, r
<1> QED BY <1>2, <1>3

\* An answer holds all this replica has.
LEMMA AnsweredGood ==
  ASSUME World, NEW s \in Engines, Good(s), s.out, NEW of \in Of
  PROVE  LET r == [Send(s, Answer(of, IF of = "vault" THEN s.vault ELSE s.doc)) EXCEPT !.hs[of] = "done"]
         IN r \in Engines /\ Good(r) /\ r.out = s.out /\ (s.early => r.early)
<1> DEFINE f == Answer(of, IF of = "vault" THEN s.vault ELSE s.doc)
           r == [Send(s, f) EXCEPT !.hs[of] = "done"]
           hs == [s.hs EXCEPT ![of] = "done"]
<1>1. /\ s.hs \in [Of -> Phases] /\ "done" \in Phases /\ "done" # "none" /\ s.doc \in Doc
      /\ s.vault \in Entries /\ s.up \in Seq(Sendable)
  BY FieldsAre DEF Phases
<1>2. f \in Sendable /\ (of = "vault" => f \in VaultData /\ f.data = s.vault)
      /\ (of = "note" => f \in NoteData /\ f.kind = "step2" /\ f.data = s.doc)
  <2>1. CASE of = "vault"
    BY <1>1, <2>1, VaultAnswerIs, FramesAre
  <2>2. CASE of = "note"
    BY <1>1, <2>2, NoteAnswerIs, FramesAre
  <2> QED BY <2>1, <2>2 DEF Of
<1> HIDE DEF f
<1>3. Send(s, f) = [s EXCEPT !.up = Append(s.up, f)]
  BY <1>2, SendIs
<1>4. Append(s.up, f) \in Seq(Sendable)
  BY <1>1, <1>2
<1>5. hs \in [Of -> Phases] /\ hs[of] = "done" /\ \A o \in Of : o # of => hs[o] = s.hs[o]
  BY <1>1
<1>6. r = [s EXCEPT !.up = Append(s.up, f), !.hs = hs]
  BY <1>3 DEF Engines
<1> HIDE DEF hs, r
<1>7. /\ r \in Engines /\ r.file = s.file /\ r.proj = s.proj /\ r.doc = s.doc /\ r.vault = s.vault
      /\ r.known = s.known /\ r.awaiting = s.awaiting /\ r.removal = s.removal
      /\ r.out = s.out /\ r.up = Append(s.up, f) /\ r.hs = hs /\ r.overruled = s.overruled
      /\ r.early = s.early
  BY <1>4, <1>5, <1>6 DEF Engines
<1>8. /\ Len(r.up) = Len(s.up) + 1 /\ Len(s.up) \in Nat /\ r.up[Len(s.up) + 1] = f
      /\ \A p \in 1 .. Len(s.up) : r.up[p] = s.up[p]
  BY <1>1, <1>2, <1>7, AppendIs
<1>9. \A i \in 1 .. Len(r.up) : r.up[i] \in NoteData => Within(r.up[i].data, r.doc)
  <2> SUFFICES ASSUME NEW i \in 1 .. Len(r.up), r.up[i] \in NoteData PROVE Within(r.up[i].data, s.doc)
    BY <1>7
  <2>1. CASE i = Len(s.up) + 1
    <3>1. of = "note"
      BY <1>2, <1>8, <2>1, FramesAre DEF Of
    <3> QED BY <1>2, <1>8, <2>1, <3>1 DEF Within
  <2>2. CASE i # Len(s.up) + 1
    <3>1. i \in 1 .. Len(s.up) /\ r.up[i] = s.up[i]
      BY <1>8, <2>2
    <3> QED BY <3>1 DEF Good, Sent
  <2> QED BY <2>1, <2>2
<1>10. role = "editor" /\ r.hs["note"] = "done" => Handed(r)
  <2>1. CASE of = "note"
    <3>1. Len(s.up) + 1 \in 1 .. Len(r.up) + 1 /\ Len(s.up) + 1 \in Len(s.up) + 1 .. Len(r.up)
      BY <1>8
    <3>2. \A i \in Len(s.up) + 1 .. Len(r.up) : i = Len(s.up) + 1
      BY <1>8
    <3>3. Lands(r.up, Len(s.up) + 1)
      BY <1>2, <1>8, <2>1, <3>2 DEF Lands
    <3>4. Gets(r.doc.ins, r.up, Len(s.up) + 1) /\ GetsOut(r.doc.del, r.up, Len(s.up) + 1)
      BY <1>2, <1>7, <1>8, <2>1, <3>1 DEF Gets, GetsOut
    <3> QED BY <3>1, <3>3, <3>4 DEF Handed
  <2>2. CASE of = "vault"
    <3>1. r.hs["note"] = s.hs["note"]
      BY <1>5, <1>7, <2>2 DEF Of
    <3>2. f \notin NoteData
      BY <1>2, <2>2, FramesAre
    <3> QED BY <1>2, <1>7, <3>1, <3>2, HandedMore DEF Good, Sent
  <2> QED BY <2>1, <2>2 DEF Of
<1>11. role = "editor" /\ r.hs["vault"] = "done" => Entrusted(r)
  <2>1. CASE of = "note"
    <3>1. r.hs["vault"] = s.hs["vault"]
      BY <1>5, <1>7, <2>1 DEF Of
    <3> QED BY <1>2, <1>7, <3>1, EntrustedMore DEF Good, Sent
  <2>2. CASE of = "vault"
    <3>1. Leads(f.data, r.vault)
      BY <1>1, <1>2, <1>7, <2>2, LeadsEither DEF World
    <3> QED BY <1>2, <1>8, <2>2, <3>1 DEF Entrusted
  <2> QED BY <2>1, <2>2 DEF Of
<1>12. \A o \in Of : r.hs[o] = s.hs[o] \/ r.hs[o] = "done"
  BY <1>5, <1>7
<1>13. Sent(r)
  BY <1>1, <1>7, <1>9, <1>10, <1>11, <1>12 DEF Good, Sent, Of
<1>14. Asks(r)
  BY <1>1, <1>7, <1>12 DEF Good, Asks, Of
<1>15. Born(r)
  <2> SUFFICES ASSUME Unborn(s) PROVE Unborn(r)
    BY DEF Good, Born
  <2>1. ASSUME NEW i \in 1 .. Len(r.up), r.up[i] \in VaultData PROVE r.up[i].data = NoEntry
    <3>1. CASE i = Len(s.up) + 1
      <4>1. of = "vault"
        BY <1>2, <1>8, <2>1, <3>1, FramesAre DEF Of
      <4> QED BY <1>2, <1>8, <3>1, <4>1 DEF Unborn
    <3>2. CASE i # Len(s.up) + 1
      <4>1. i \in 1 .. Len(s.up) /\ r.up[i] = s.up[i]
        BY <1>8, <3>2
      <4> QED BY <2>1, <4>1 DEF Unborn
    <3> QED BY <3>1, <3>2
  <2> QED BY <1>7, <2>1 DEF Unborn
<1>16. Kept(r, r.awaiting)
  BY <1>7, KeptSame DEF Good
<1> QED BY <1>7, <1>13, <1>14, <1>15, <1>16 DEF Good, r, f

\* The entry somebody else set.
LEMMA EntryComesGood ==
  ASSUME World, NEW s \in Engines, Good(s), NEW f \in VaultData, Leads(srv.vault, f.data),
         s.vault = NoEntry /\ Unborn(s) => f.data = NoEntry
  PROVE  LET r == [s EXCEPT !.vault = JoinEntry(s.vault, f.data)]
         IN r \in Engines /\ Good(r) /\ r.out = s.out /\ (s.early => r.early)
<1> DEFINE entry == JoinEntry(s.vault, f.data)
           r == [s EXCEPT !.vault = entry]
<1>1. /\ s.vault \in Entries /\ f.data \in Entries
  BY FieldsAre, FramesAre
<1>2. entry \in Entries /\ entry \in {s.vault, f.data}
  BY <1>1, JoinEntryIs
<1> HIDE DEF entry
<1>3. /\ r \in Engines /\ r.file = s.file /\ r.proj = s.proj /\ r.doc = s.doc /\ r.vault = entry
      /\ r.known = s.known /\ r.awaiting = s.awaiting /\ r.removal = s.removal
      /\ r.out = s.out /\ r.up = s.up /\ r.hs = s.hs /\ r.overruled = s.overruled
      /\ r.early = s.early
  BY <1>2 DEF Engines
<1> HIDE DEF r
<1>4. Handed(s) <=> Handed(r)
  BY <1>3 DEF Handed
<1>5. Entrusted(s) => Entrusted(r)
  <2>1. CASE entry = s.vault
    BY <1>3, <2>1 DEF Entrusted
  <2>2. CASE entry = f.data
    BY <1>3, <2>2 DEF Entrusted
  <2> QED BY <1>2, <2>1, <2>2
<1>6. Sent(r)
  BY <1>3, <1>4, <1>5 DEF Good, Sent
<1>7. Asks(r)
  BY <1>3 DEF Good, Asks
<1>8. Born(r)
  BY <1>2, <1>3 DEF Good, Born, Unborn
<1>9. Kept(r, r.awaiting)
  BY <1>3, KeptSame DEF Good
<1> QED BY <1>3, <1>6, <1>7, <1>8, <1>9 DEF Good, r, entry

\* Text somebody else wrote.
LEMMA TextComesGood ==
  ASSUME World, NEW s \in Engines, Good(s), s.known, NEW doc \in Doc, NEW dirty \in BOOLEAN,
         \/ doc = s.doc
         \/ \E d \in Doc : /\ doc = Join(s.doc, d) /\ Within(d, srv.doc)
                           /\ MayRead("note") /\ (s.early \/ HasOld(doc.ins))
  PROVE  LET r == [s EXCEPT !.doc = doc, !.dirty = dirty]
         IN /\ r \in Engines /\ Good(r) /\ r.out = s.out /\ r.known = s.known
            /\ r.awaiting = s.awaiting /\ r.doc = doc /\ r.early = s.early
<1> DEFINE r == [s EXCEPT !.doc = doc, !.dirty = dirty]
<1>1. /\ r \in Engines /\ r.file = s.file /\ r.proj = s.proj /\ r.doc = doc /\ r.vault = s.vault
      /\ r.known = s.known /\ r.awaiting = s.awaiting /\ r.removal = s.removal
      /\ r.out = s.out /\ r.up = s.up /\ r.hs = s.hs /\ r.overruled = s.overruled
      /\ r.early = s.early
  BY DEF Engines
<1> HIDE DEF r
<1>2. CASE doc = s.doc
  BY <1>1, <1>2, GoodSame DEF r
<1>3. ASSUME NEW d \in Doc, doc = Join(s.doc, d), Within(d, srv.doc), MayRead("note"), s.early \/ HasOld(doc.ins)
      PROVE  Good(r)
  <2>1. /\ doc.ins = s.doc.ins \cup d.ins /\ doc.del = s.doc.del \cup d.del
        /\ d.ins \subseteq srv.doc.ins /\ d.del \subseteq srv.doc.del
    BY <1>3 DEF Join, Within
  <2>2. s.doc \in Doc
    BY FieldsAre
  <2>3. Handed(s) => Handed(r)
    <3> SUFFICES ASSUME NEW k \in 1 .. Len(s.up) + 1,
                        Lands(s.up, k), Gets(s.doc.ins, s.up, k), GetsOut(s.doc.del, s.up, k)
                 PROVE  Gets(doc.ins, s.up, k) /\ GetsOut(doc.del, s.up, k)
      BY <1>1 DEF Handed
    <3>1. Gets(doc.ins, s.up, k)
      BY <2>1 DEF Gets
    <3>2. GetsOut(doc.del, s.up, k)
      BY <2>1 DEF GetsOut
    <3> QED BY <3>1, <3>2
  <2>4. Entrusted(s) => Entrusted(r)
    BY <1>1 DEF Entrusted
  <2>5. Sent(r)
    BY <1>1, <2>1, <2>3, <2>4 DEF Good, Sent, Within
  <2>6. Asks(r)
    BY <1>1 DEF Good, Asks
  <2>7. Born(r)
    BY KnownIsBorn, BornEither
  <2>8. Kept(r, s.awaiting)
    <3> SUFFICES ASSUME ~ s.early PROVE Whole(r, s.awaiting) /\ Once(r)
      BY <1>1 DEF Kept
    <3>1. Whole(s, s.awaiting) /\ Once(s)
      BY DEF Good, Kept
    <3>2. Read(r) = Read(s) /\ Base(r) = Base(s)
      BY <1>1 DEF Read, Base
    <3>3. MarksOf(s.doc) \subseteq MarksOf(doc) /\ MarksOf(doc) \subseteq MarksOf(s.doc) \cup MarksOf(srv.doc)
      BY <2>1 DEF MarksOf
    <3>4. Whole(r, s.awaiting)
      BY <1>1, <2>1, <3>1, <3>2, <3>3 DEF Whole, Meant
    <3>5. ASSUME NEW m \in Marks, H(m) \in doc.ins, T(m) \in doc.ins \cup srv.doc.ins
          PROVE  T(m) \in doc.del
      <4>1. H(m) \in s.doc.ins /\ T(m) \in srv.doc.ins
        BY <2>1, <3>1, <3>5 DEF Once
      <4> QED BY <1>3, <2>1, <3>1, <4>1 DEF Once
    <3>6. \A m \in Marks : /\ T(m) \in doc.ins => T(m) \in srv.doc.ins
                           /\ H(m) \in srv.doc.ins => H(m) \in doc.ins /\ MayRead("note")
      BY <2>1, <3>1 DEF Once
    <3>7. \A m \in Read(s) \cup Base(s) :
            m \in Old \/ T(m) \in doc.ins \cup doc.del \/ T(m) \notin srv.doc.ins
      BY <1>3, <2>1, <3>1 DEF Once
    <3>8. r.known => \A m \in Read(r) \ Base(r) : T(m) \notin srv.doc.ins
      BY <1>1, <3>1, <3>2 DEF Once
    <3>9. Once(r)
      BY <1>1, <1>3, <3>2, <3>5, <3>6, <3>7, <3>8 DEF Once
    <3> QED BY <3>4, <3>9
  <2> QED BY <1>1, <2>5, <2>6, <2>7, <2>8 DEF Good
<1> QED BY <1>1, <1>2, <1>3 DEF r

\* What the frame says of what this replica takes from it.
LEMMA JoinedIs ==
  ASSUME NEW doc \in Doc, NEW f \in NoteData, NEW early, Comes(f, early)
  PROVE  LET new == Joined(doc, f)
         IN /\ new \in Doc
            /\ \/ new = doc
               \/ \E d \in Doc : /\ new = Join(doc, d) /\ Within(d, srv.doc)
                                 /\ MayRead("note") /\ (early \/ HasOld(new.ins))
            /\ f.kind = "step2" => early \/ HasOld(new.ins)
<1> DEFINE new == Joined(doc, f)
<1>1. f.data \in Doc /\ f.kind \in {"step2", "update"} /\ "step2" # "update"
  BY DEF NoteData
<1>2. CASE f.kind = "update" /\ ~ (f.on \subseteq doc.ins)
  BY <1>1, <1>2 DEF Joined
<1>3. CASE ~ (f.kind = "update" /\ ~ (f.on \subseteq doc.ins))
  <2>1. new = Join(doc, f.data)
    BY <1>3 DEF Joined
  <2>2. new \in Doc /\ new.ins = doc.ins \cup f.data.ins
    BY <1>1, <2>1 DEF Join, Doc
  <2>3. early \/ HasOld(new.ins)
    BY <1>1, <1>3, <2>2 DEF Comes, HasOld
  <2> QED BY <1>1, <2>1, <2>2, <2>3 DEF Comes
<1> QED BY <1>2, <1>3

LEMMA HandleFrameGood ==
  ASSUME World, NEW s \in Engines, Good(s), s.out, NEW f \in LinkFrames, Comes(f, s.early),
         f \in VaultData => (Unborn(s) => f.data = NoEntry)
  PROVE  LET r == HandleFrame(s, f) IN r \in Engines /\ Good(r) /\ r.out /\ (s.early => r.early)
<1>1. f \in Questions \/ f \in NoteData \/ f \in VaultData \/ (f.kind = "auth" /\ f.of \in Of)
  BY FramesAre DEF LinkFrames
<1>2. CASE f.of = "note" /\ ~ s.known
  BY <1>2 DEF HandleFrame
<1>3. CASE ~ (f.of = "note" /\ ~ s.known) /\ f \in Questions
  <2> DEFINE t == [Send(s, Answer(f.of, IF f.of = "vault" THEN s.vault ELSE s.doc)) EXCEPT !.hs[f.of] = "done"]
  <2>1. f.kind = "step1" /\ f.of \in Of
    BY <1>3 DEF Questions
  <2>2. HandleFrame(s, f) = IF f.of = "vault" THEN ReconcileVault(t) ELSE t
    BY <1>3, <2>1 DEF HandleFrame
  <2>3. t \in Engines /\ Good(t) /\ t.out = s.out /\ (s.early => t.early)
    BY <2>1, AnsweredGood
  <2> HIDE DEF t
  <2> QED BY <2>2, <2>3, ReconcileVaultGood
<1>4. CASE f \in VaultData
  <2> DEFINE entry == JoinEntry(s.vault, f.data)
             z == [s EXCEPT !.vault = entry]
             t == IF entry = s.vault THEN s ELSE ReconcileVault(z)
  <2>1. f.kind \in {"step2", "update"} /\ f.of = "vault"
    BY <1>4 DEF VaultData
  <2>2. HandleFrame(s, f) = Advance(t, "vault")
    BY <2>1 DEF HandleFrame
  <2>3. z \in Engines /\ Good(z) /\ z.out = s.out /\ (s.early => z.early)
    BY <1>4, EntryComesGood DEF Comes
  <2> HIDE DEF z
  <2>4. t \in Engines /\ Good(t) /\ t.out /\ (s.early => t.early)
    BY <2>3, ReconcileVaultGood
  <2> HIDE DEF t
  <2>5. /\ Advance(t, "vault") \in Engines /\ Good(Advance(t, "vault"))
        /\ Advance(t, "vault") = [t EXCEPT !.hs = Advance(t, "vault").hs]
    BY <2>4, AdvanceGood DEF Of
  <2>6. Advance(t, "vault").out = t.out /\ Advance(t, "vault").early = t.early
    BY <2>4, <2>5 DEF Engines
  <2> QED BY <2>2, <2>4, <2>5, <2>6
<1>5. CASE ~ (f.of = "note" /\ ~ s.known) /\ f \in NoteData
  <2> DEFINE doc == Joined(s.doc, f)
             dirty == s.dirty \/ doc # s.doc
             z == [s EXCEPT !.doc = doc, !.dirty = dirty]
             t == Advance(z, "note")
  <2>1. f.kind \in {"step2", "update"} /\ f.of = "note"
    BY <1>5 DEF NoteData
  <2>2. HandleFrame(s, f) = IF f.kind = "step2" THEN FinishAdoption(t) ELSE t
    BY <1>5, <2>1 DEF HandleFrame
  <2>3. s.doc \in Doc /\ s.dirty \in BOOLEAN /\ s.known
    BY <1>5, <2>1, FieldsAre
  <2>4. /\ doc \in Doc
        /\ \/ doc = s.doc
           \/ \E d \in Doc : /\ doc = Join(s.doc, d) /\ Within(d, srv.doc)
                             /\ MayRead("note") /\ (s.early \/ HasOld(doc.ins))
        /\ f.kind = "step2" => s.early \/ HasOld(doc.ins)
    BY <1>5, <2>3, JoinedIs
  <2>5. dirty \in BOOLEAN
    BY <2>3
  <2> HIDE DEF doc, dirty
  <2>6. /\ z \in Engines /\ Good(z) /\ z.out = s.out /\ z.known = s.known
        /\ z.awaiting = s.awaiting /\ z.doc = doc /\ z.early = s.early
    BY <2>3, <2>4, <2>5, TextComesGood
  <2> HIDE DEF z
  <2>7. t \in Engines /\ Good(t) /\ t = [z EXCEPT !.hs = t.hs]
    BY <2>6, AdvanceGood DEF Of
  <2>8. t.out = z.out /\ t.doc = z.doc /\ t.early = z.early
    BY <2>6, <2>7 DEF Engines
  <2> HIDE DEF t
  <2>9. CASE f.kind = "step2"
    <3>1. HasOld(t.doc.ins) \/ t.early
      BY <2>4, <2>6, <2>8, <2>9
    <3> QED BY <2>2, <2>6, <2>7, <2>8, <2>9, <3>1, FinishAdoptionGood
  <2>10. CASE f.kind # "step2"
    BY <2>2, <2>6, <2>7, <2>8, <2>10
  <2> QED BY <2>9, <2>10
<1>6. CASE ~ (f.of = "note" /\ ~ s.known) /\ f.kind = "auth" /\ f.of \in Of
  <2> DEFINE z == IF MayRead("note") THEN TooEarly(s) ELSE s
  <2>1. HandleFrame(s, f) = IF f.of # "note" THEN s ELSE FinishAdoption(z)
    BY <1>6 DEF HandleFrame
  <2>2. CASE ~ MayRead("note")
    BY <2>1, <2>2, FinishAdoptionGood
  <2>3. CASE MayRead("note")
    <3> DEFINE t == TooEarly(s)
    <3>1. /\ t \in Engines /\ Good(t) /\ (t.awaiting => t.early) /\ t = [s EXCEPT !.early = t.early]
      BY TooEarlyGood
    <3> HIDE DEF t
    <3>2. t.out = s.out /\ (s.early => t.early)
      <4>1. s.early => t.early
        BY DEF t, TooEarly, Engines
      <4> QED BY <3>1, <4>1 DEF Engines
    <3>3. z = t
      BY <2>3 DEF t
    <3>4. /\ FinishAdoption(t) \in Engines /\ Good(FinishAdoption(t)) /\ FinishAdoption(t).out = t.out
          /\ FinishAdoption(t).early = t.early
      BY <3>1, FinishAdoptionGood
    <3> QED BY <2>1, <3>2, <3>3, <3>4
  <2> QED BY <2>2, <2>3
<1> QED BY <1>1, <1>2, <1>3, <1>4, <1>5, <1>6, FramesAre

LEMMA HsNone ==
  /\ [of \in {"vault", "note"} |-> "none"] \in [Of -> Phases]
  /\ \A o \in Of : [of \in {"vault", "note"} |-> "none"][o] = "none"
BY DEF Of, Phases

LEMMA ConnectedGood ==
  ASSUME World, NEW s \in Engines, Good(s), ~ s.out
  PROVE  LET r == Connected(s) IN r \in Engines /\ Good(r) /\ r.out /\ (s.early => r.early)
<1> DEFINE none == [of \in {"vault", "note"} |-> "none"]
           z == [s EXCEPT !.out = TRUE, !.hs = none]
           t == Handshake(z, "vault")
           r == Connected(s)
<1>1. r = IF s.known THEN Handshake(t, "note") ELSE t
  BY DEF Connected
<1>2. none \in [Of -> Phases] /\ \A o \in Of : none[o] = "none"
  BY HsNone
<1> HIDE DEF none
<1>3. /\ z \in Engines /\ z.file = s.file /\ z.proj = s.proj /\ z.doc = s.doc /\ z.vault = s.vault
      /\ z.known = s.known /\ z.awaiting = s.awaiting /\ z.removal = s.removal /\ z.out = TRUE
      /\ z.up = s.up /\ z.hs = none /\ z.overruled = s.overruled /\ z.early = s.early
  BY <1>2 DEF Engines
<1> DEFINE y == [z EXCEPT !.out = FALSE]
<1>4. y.up = s.up /\ y.doc = s.doc /\ y.vault = s.vault /\ y.out = FALSE /\ y.hs = none
  BY <1>3 DEF Engines
<1> HIDE DEF z, r
<1>5. Sent(y)
  BY <1>2, <1>4 DEF Good, Sent, Of
<1>6. /\ t \in Engines /\ Sent(t) /\ NoNew(t.up, z.up) /\ t = [z EXCEPT !.up = t.up, !.hs = t.hs]
  BY <1>3, <1>5, HandshakeDoes DEF Of
<1> HIDE DEF t
<1>7. /\ t.file = s.file /\ t.proj = s.proj /\ t.doc = s.doc /\ t.vault = s.vault
      /\ t.known = s.known /\ t.awaiting = s.awaiting /\ t.removal = s.removal /\ t.out = TRUE
      /\ t.overruled = s.overruled /\ t.early = s.early
  BY <1>3, <1>6 DEF Engines
<1>8. /\ r \in Engines /\ Sent(r) /\ (s.known => r.hs["note"] = "sent")
      /\ r.file = s.file /\ r.proj = s.proj /\ r.doc = s.doc /\ r.vault = s.vault
      /\ r.known = s.known /\ r.awaiting = s.awaiting /\ r.removal = s.removal /\ r.out = TRUE
      /\ r.overruled = s.overruled /\ r.early = s.early
  <2>1. CASE ~ s.known
    BY <1>1, <1>6, <1>7, <2>1
  <2>2. CASE s.known
    <3> DEFINE h == Handshake(t, "note")
    <3>1. h \in Engines /\ Sent(h) /\ h = [t EXCEPT !.up = h.up, !.hs = h.hs] /\ h.hs["note"] = "sent"
      BY <1>6, <1>7, HandshakeDoes DEF Of
    <3> HIDE DEF h
    <3>2. /\ h.file = s.file /\ h.proj = s.proj /\ h.doc = s.doc /\ h.vault = s.vault
          /\ h.known = s.known /\ h.awaiting = s.awaiting /\ h.removal = s.removal /\ h.out = TRUE
          /\ h.overruled = s.overruled /\ h.early = s.early
      BY <1>6, <1>7, <3>1 DEF Engines
    <3>3. r = h
      BY <1>1, <2>2 DEF h
    <3> QED BY <3>1, <3>2, <3>3
  <2> QED BY <2>1, <2>2
<1>9. Asks(r)
  BY <1>8 DEF Asks
<1>10. Born(r)
  <2>1. CASE s.known
    BY <2>1, KnownIsBorn, BornEither
  <2>2. CASE ~ s.known
    <3>1. r = t
      BY <1>1, <2>2
    <3> QED BY <1>3, <1>6, <1>7, <3>1 DEF Good, Born, Unborn, NoNew
  <2> QED BY <2>1, <2>2
<1>11. Kept(r, r.awaiting)
  BY <1>8, KeptSame DEF Good
<1> QED BY <1>8, <1>9, <1>10, <1>11 DEF Good, r

LEMMA DisconnectedDoes ==
  ASSUME NEW s \in Engines, Sent(s), Asks(s), Born(s)
  PROVE  LET r == Disconnected(s)
         IN /\ r \in Engines /\ Sent(r) /\ Asks(r) /\ Born(r) /\ ~ r.out
            /\ r.file = s.file /\ r.proj = s.proj /\ r.doc = s.doc /\ r.vault = s.vault
            /\ r.known = s.known /\ r.awaiting = s.awaiting /\ r.removal = s.removal
            /\ r.overruled = s.overruled /\ r.early = s.early /\ r.up = <<>>
            /\ r.hs = [of \in {"vault", "note"} |-> "none"]
<1> DEFINE none == [of \in {"vault", "note"} |-> "none"]
           r == Disconnected(s)
<1>1. none \in [Of -> Phases] /\ \A o \in Of : none[o] = "none"
  BY HsNone
<1>2. r = [s EXCEPT !.out = FALSE, !.up = <<>>, !.hs = none]
  BY DEF Disconnected
<1> HIDE DEF none
<1>3. <<>> \in Seq(Sendable) /\ Len(<<>>) = 0
  OBVIOUS
<1>4. /\ r \in Engines /\ r.file = s.file /\ r.proj = s.proj /\ r.doc = s.doc /\ r.vault = s.vault
      /\ r.known = s.known /\ r.awaiting = s.awaiting /\ r.removal = s.removal /\ r.out = FALSE
      /\ r.up = <<>> /\ r.hs = none /\ r.overruled = s.overruled /\ r.early = s.early
  BY <1>1, <1>2, <1>3 DEF Engines
<1> HIDE DEF r
<1>5. \A i \in 1 .. Len(r.up) : FALSE
  BY <1>3, <1>4
<1>6. Sent(r)
  BY <1>1, <1>4, <1>5 DEF Sent, Of
<1>7. Asks(r) /\ Born(r)
  BY <1>4, <1>5 DEF Asks, Born, Unborn
<1> QED BY <1>4, <1>6, <1>7 DEF r, none

-----------------------------------------------------------------------------
(* The steps.                                                              *)

\* What only says how things are: nothing of what another step does.
Plain ==
  /\ {running, once, link} \subseteq BOOLEAN /\ outcome \in {"open", "synced", "failed"}
  /\ subs \subseteq Of
  /\ role \in {"editor", "viewer", "outsider"} /\ first \in Places
  /\ made \subseteq Marks /\ cut \subseteq Marks
  /\ acts \in 0 .. MaxActs /\ breaks \in 0 .. MaxBreaks
Joint ==
  /\ running => e.out = link
  /\ outcome = "open" /\ ~ running => ~ link /\ ~ e.out
  /\ ~ e.out => down = <<>> /\ subs = {}
  /\ ~ MayRead("note") => "note" \notin subs
Replicas == e \in Engines /\ srv \in [doc : Doc, vault : Entries] /\ down \in Seq(LinkFrames)

LEMMA TypesAre == LinkTypes <=> Plain /\ Joint /\ Replicas
<1>1. LinkTypes => Plain /\ Joint /\ Replicas
  BY DEF LinkTypes, LinkType, Plain, Joint, Replicas, Of
<1>2. ASSUME Plain, Joint, Replicas PROVE LinkTypes
  <2>1. /\ e.file \in Reads /\ e.proj \in Reads /\ e.doc \in Doc /\ e.vault \in Entries
        /\ e.known \in BOOLEAN /\ e.awaiting \in BOOLEAN /\ e.dirty \in BOOLEAN
        /\ e.touched \in BOOLEAN /\ e.removal \in BOOLEAN /\ e.out \in BOOLEAN
        /\ e.early \in BOOLEAN /\ e.hs \in [Of -> Phases]
    BY <1>2, FieldsAre DEF Replicas
  <2>2. srv.doc \in Doc /\ srv.vault \in Entries
    BY <1>2 DEF Replicas
  <2>3. \A text \in {e.file, e.proj} : text = NoText \/ text \subseteq Marks
    BY <2>1 DEF Reads
  <2>4. {e.known, e.awaiting, e.dirty, e.touched, e.removal, e.out, e.early} \subseteq BOOLEAN
    BY <2>1
  <2>5. LinkType
    BY <1>2, <2>1, <2>2, <2>3, <2>4 DEF LinkType, Plain, Joint, Of
  <2> QED BY <1>2, <2>5 DEF LinkTypes, Joint, Replicas
<1> QED BY <1>1, <1>2

LEMMA WorldIs == LinkTypes => World
BY TypesAre DEF Plain, Replicas, World

\* A question is put of a state of the engine by itself: how the rest is stays what it was.
LEMMA SameWorld ==
  ASSUME srv' = srv, role' = role, first' = first, made' = made, cut' = cut,
         Good(e'), \A i \in 1 .. Len(down') : \E j \in 1 .. Len(down) : down'[i] = down[j]
  PROVE  Sent(e)' /\ Asks(e)' /\ Born(e)' /\ Kept(e, e.awaiting)'
<1>1. Sent(e)'
  <2>1. Handed(e') => Handed(e)'
    BY DEF Handed, Lands, Gets, GetsOut
  <2>2. Entrusted(e') => Entrusted(e)'
    BY DEF Entrusted, Leads, JoinEntry, Prefers
  <2> QED BY <2>1, <2>2 DEF Good, Sent
<1>2. Asks(e)'
  BY DEF Good, Asks
<1>3. Born(e)'
  BY DEF Good, Born, Unborn
<1>4. Kept(e, e.awaiting)'
  BY DEF Good, Kept, Whole, Once, Read, Base, Meant, HasOld, MayRead
<1> QED BY <1>1, <1>2, <1>3, <1>4

\* A handler of the engine, which then runs.
LEMMA Handles ==
  ASSUME LinkInv, e' \in Engines, Good(e'), e.early => e.early', running', link' \in BOOLEAN,
         e.out' = link', outcome # "synced",
         UNCHANGED <<outcome, server, fixed, meant, bounds>>,
         \/ down' = down /\ (e.out => e.out')
         \/ down # <<>> /\ down' = Tail(down) /\ e.out'
  PROVE  LinkInv'
<1>1. LinkTypes /\ OnWire(down) /\ Reported /\ Plain /\ Joint /\ Replicas
  BY TypesAre DEF LinkInv
<1>2. /\ srv' = srv /\ subs' = subs /\ once' = once /\ role' = role /\ first' = first /\ made' = made
      /\ cut' = cut /\ acts' = acts /\ breaks' = breaks /\ outcome' = outcome
  BY DEF server, fixed, meant, bounds
<1>3. down \in Seq(LinkFrames)
  BY <1>1 DEF Replicas
<1>4. /\ down' \in Seq(LinkFrames)
      /\ \A i \in 1 .. Len(down') : \E j \in 1 .. Len(down) : down'[i] = down[j]
      /\ down = <<>> => down' = <<>>
  <2>1. CASE down' = down
    BY <1>3, <2>1
  <2>2. CASE down # <<>> /\ down' = Tail(down)
    <3>1. /\ Tail(down) \in Seq(LinkFrames) /\ Len(Tail(down)) = Len(down) - 1 /\ Len(down) \in Nat
          /\ \A p \in 1 .. Len(down) - 1 : Tail(down)[p] = down[p + 1]
      BY <1>3, <2>2, TailIs
    <3>2. \A i \in 1 .. Len(Tail(down)) : i + 1 \in 1 .. Len(down) /\ Tail(down)[i] = down[i + 1]
      BY <3>1
    <3> QED BY <2>2, <3>1, <3>2
  <2> QED BY <2>1, <2>2
<1>5. Sent(e)' /\ Asks(e)' /\ Born(e)' /\ Kept(e, e.awaiting)'
  BY <1>2, <1>4, SameWorld
<1>6. Kept(e, Waits)'
  BY <1>5 DEF Waits
<1>7. OnWire(down)'
  <2> SUFFICES ASSUME NEW i \in 1 .. Len(down') PROVE Comes(down[i], e.early)'
    BY DEF OnWire
  <2>1. PICK j \in 1 .. Len(down) : down'[i] = down[j]
    BY <1>4
  <2>2. Comes(down[j], e.early)
    BY <1>1 DEF OnWire
  <2>3. Comes(down'[i], e.early)
    BY <2>1, <2>2
  <2> QED BY <1>2, <2>3 DEF Comes, HasOld, MayRead, Leads, JoinEntry, Prefers
<1>8. Reported'
  BY <1>2 DEF Reported
<1>9. Plain'
  BY <1>1, <1>2 DEF Plain
<1>10. Joint'
  BY <1>1, <1>2, <1>4 DEF Joint, MayRead
<1>11. Replicas'
  BY <1>1, <1>2, <1>4 DEF Replicas
<1>12. LinkTypes'
  BY <1>9, <1>10, <1>11, TypesAre, PTL
<1> QED BY <1>5, <1>6, <1>7, <1>8, <1>12 DEF LinkInv

LEMMA RunningIs ==
  ASSUME LinkInv
  PROVE  /\ World /\ e \in Engines
         /\ running => Good(e) /\ e.out = link /\ outcome # "synced" /\ link \in BOOLEAN
<1>1. LinkTypes /\ Plain /\ Joint /\ Replicas
  BY TypesAre DEF LinkInv
<1>2. running => Good(e) /\ e.out = link /\ outcome # "synced" /\ link \in BOOLEAN
  BY <1>1 DEF LinkInv, Good, Waits, Reported, Joint, Plain
<1> QED BY <1>1, <1>2, WorldIs DEF Replicas

LEMMA LaunchKeeps == ASSUME LinkInv, Launch PROVE LinkInv'
<1>1. World /\ e \in Engines
  BY RunningIs
<1>2. Sent(e) /\ Asks(e) /\ Born(e) /\ Kept(e, Waits) /\ Joint /\ Plain
  BY TypesAre DEF LinkInv
<1>3. ~ running /\ outcome = "open" /\ ~ link /\ ~ e.out
  BY <1>2 DEF Launch, Joint
<1>4. Kept(e, e.doc = Empty)
  BY <1>2, <1>3 DEF Waits
<1>5. Opened(e) \in Engines /\ Good(Opened(e)) /\ Opened(e).out = e.out /\ (e.early => Opened(e).early)
  BY <1>1, <1>2, <1>4, OpenedGood
<1>6. e' = Opened(e) /\ running' /\ link' = link /\ down' = down
      /\ UNCHANGED <<outcome, server, fixed, meant, bounds>>
  BY DEF Launch
<1>7. link \in BOOLEAN /\ e.out \in BOOLEAN
  BY <1>1, <1>2, FieldsAre DEF Plain
<1>8. e.out' = link'
  BY <1>3, <1>5, <1>6, <1>7
<1> QED BY <1>3, <1>5, <1>6, <1>7, <1>8, Handles

LEMMA ConnectKeeps == ASSUME LinkInv, Connect PROVE LinkInv'
<1>1. /\ World /\ e \in Engines
      /\ running => Good(e) /\ e.out = link /\ outcome # "synced" /\ link \in BOOLEAN
  BY RunningIs
<1>2. /\ running /\ ~ link /\ link' = TRUE /\ e' = Connected(e) /\ down' = down /\ running' = running
      /\ UNCHANGED <<outcome, server, fixed, meant, bounds>>
  BY DEF Connect
<1>3. /\ Connected(e) \in Engines /\ Good(Connected(e)) /\ Connected(e).out
      /\ e.early => Connected(e).early
  BY <1>1, <1>2, ConnectedGood
<1>4. Connected(e).out \in BOOLEAN
  BY <1>3, FieldsAre
<1> QED BY <1>1, <1>2, <1>3, <1>4, Handles

LEMMA EngineKeeps ==
  ASSUME LinkInv, running, NEW r, r \in Engines, Good(r), r.out = e.out, e.early => r.early,
         Engine, e' = r, UNCHANGED <<link, down, server, meant, bounds>>
  PROVE  LinkInv'
<1>1. e.out = link /\ outcome # "synced" /\ link \in BOOLEAN
  BY RunningIs
<1>2. running' /\ UNCHANGED <<outcome, server, fixed, meant, bounds>> /\ link' = link /\ down' = down
  BY DEF Engine, fixed
<1>3. e' \in Engines /\ Good(e') /\ (e.early => e.early') /\ e.out' = link' /\ (e.out => e.out')
  BY <1>1, <1>2
<1> QED BY <1>1, <1>2, <1>3, Handles

LEMMA HandleNextKeeps == ASSUME LinkInv, HandleNext PROVE LinkInv'
<1>1. /\ running /\ down # <<>> /\ down' = Tail(down) /\ e' = HandleFrame(e, Head(down)) /\ running'
      /\ link' = link /\ UNCHANGED <<outcome, server, fixed, meant, bounds>>
  BY DEF HandleNext, Engine, fixed
<1>2. World /\ e \in Engines /\ Good(e) /\ e.out = link /\ outcome # "synced" /\ link \in BOOLEAN
  BY <1>1, RunningIs
<1>3. Joint /\ Replicas /\ OnWire(down)
  BY TypesAre DEF LinkInv
<1>4. e.out /\ down \in Seq(LinkFrames)
  BY <1>1, <1>3 DEF Joint, Replicas
<1>5. Head(down) = down[1] /\ down[1] \in LinkFrames /\ 1 \in 1 .. Len(down)
  BY <1>1, <1>4, TailIs
<1>6. Comes(Head(down), e.early)
  BY <1>3, <1>5 DEF OnWire
<1>7. Head(down) \in VaultData => (Unborn(e) => Head(down).data = NoEntry)
  BY <1>5 DEF Unborn
<1> DEFINE r == HandleFrame(e, Head(down))
<1>8. r \in Engines /\ Good(r) /\ r.out /\ (e.early => r.early)
  BY <1>2, <1>4, <1>5, <1>6, <1>7, HandleFrameGood
<1> HIDE DEF r
<1>9. e' = r /\ r.out = TRUE /\ e.out = TRUE
  BY <1>1, <1>2, <1>4, <1>8, FieldsAre DEF r
<1>10. e' \in Engines /\ Good(e') /\ (e.early => e.early') /\ e.out' = link' /\ e.out'
  BY <1>1, <1>2, <1>8, <1>9
<1> QED BY <1>1, <1>2, <1>10, Handles

LEMMA TakeTouchedKeeps == ASSUME LinkInv, TakeTouched PROVE LinkInv'
<1> DEFINE t == [e EXCEPT !.touched = FALSE]
           r == ProcessPath(t)
<1>1. /\ running /\ Engine /\ e' = r /\ UNCHANGED <<link, down, server, meant, bounds>>
  BY DEF TakeTouched, Engine
<1>2. World /\ e \in Engines /\ Good(e)
  BY <1>1, RunningIs
<1>3. t \in Engines /\ Good(t) /\ t.out = e.out /\ (e.early => t.early)
  BY <1>2, TouchedGood
<1> HIDE DEF t
<1>4. r \in Engines /\ Good(r) /\ r.out = t.out /\ (t.early => r.early)
  BY <1>2, <1>3, ProcessPathGood
<1> HIDE DEF r
<1> QED BY <1>1, <1>3, <1>4, EngineKeeps

LEMMA RemovedKeeps == ASSUME LinkInv, Removed PROVE LinkInv'
<1> DEFINE r == FinalizeRemovals(e)
<1>1. /\ running /\ Engine /\ e' = r /\ UNCHANGED <<link, down, server, meant, bounds>>
  BY DEF Removed, Engine
<1>2. World /\ e \in Engines /\ Good(e)
  BY <1>1, RunningIs
<1>3. r \in Engines /\ Good(r) /\ r.out = e.out /\ (e.early => r.early)
  BY <1>2, FinalizeRemovalsGood
<1> HIDE DEF r
<1> QED BY <1>1, <1>3, EngineKeeps

LEMMA WriteKeeps == ASSUME LinkInv, Write PROVE LinkInv'
<1> DEFINE r == Project(e)
<1>1. /\ running /\ Engine /\ e' = r /\ UNCHANGED <<link, down, server, meant, bounds>>
  BY DEF Write, Engine
<1>2. World /\ e \in Engines /\ Good(e)
  BY <1>1, RunningIs
<1>3. r \in Engines /\ Good(r) /\ r.out = e.out /\ (e.early => r.early)
  BY <1>2, ProjectGood
<1> HIDE DEF r
<1> QED BY <1>1, <1>3, EngineKeeps

\* The connection is gone, and what was on its way.
LEMMA Offline ==
  ASSUME LinkInv, Plain', e' \in Engines, Good(e'), ~ e.out', link' = FALSE, down' = <<>>, subs' = {},
         srv' = srv, role' = role, first' = first, made' = made, cut' = cut, Reported',
         e.awaiting' => Waits'
  PROVE  LinkInv'
<1>1. Len(down') = 0 /\ \A i \in 1 .. Len(down') : FALSE
  OBVIOUS
<1>2. Sent(e)' /\ Asks(e)' /\ Born(e)' /\ Kept(e, e.awaiting)'
  BY <1>1, SameWorld
<1>3. Kept(e, Waits)'
  BY <1>2 DEF Kept, Whole
<1>4. OnWire(down)'
  BY <1>1 DEF OnWire
<1>5. Joint'
  <2>1. link' = FALSE /\ e.out' = FALSE /\ down' = <<>> /\ subs' = {}
    BY FieldsAre
  <2> QED BY <2>1 DEF Joint
<1>6. Replicas'
  <2>1. srv \in [doc : Doc, vault : Entries]
    BY TypesAre DEF LinkInv, Replicas
  <2>2. <<>> \in Seq(LinkFrames)
    OBVIOUS
  <2> QED BY <2>1, <2>2 DEF Replicas
<1>7. LinkTypes'
  BY <1>5, <1>6, TypesAre, PTL
<1> QED BY <1>2, <1>3, <1>4, <1>7 DEF LinkInv

LEMMA StopKeeps == ASSUME LinkInv, Stop PROVE LinkInv'
<1> DEFINE d == Disconnected(e)
           early == d.early \/ (e.awaiting /\ e.doc # Empty)
<1>1. /\ running /\ breaks < MaxBreaks /\ breaks' = breaks + 1 /\ running' = FALSE /\ link' = FALSE
      /\ down' = <<>> /\ subs' = {} /\ outcome' = outcome /\ srv' = srv
      /\ UNCHANGED <<fixed, meant, acts>>
      /\ e' = [d EXCEPT !.awaiting = FALSE, !.dirty = FALSE, !.touched = FALSE, !.removal = FALSE,
                        !.early = early]
  BY DEF Stop
<1>2. World /\ e \in Engines /\ Good(e) /\ outcome # "synced"
  BY <1>1, RunningIs
<1>3. /\ d \in Engines /\ Sent(d) /\ Asks(d) /\ Born(d) /\ ~ d.out
      /\ d.file = e.file /\ d.proj = e.proj /\ d.doc = e.doc /\ d.vault = e.vault
      /\ d.known = e.known /\ d.awaiting = e.awaiting /\ d.removal = e.removal
      /\ d.overruled = e.overruled /\ d.early = e.early
  BY <1>2, DisconnectedDoes DEF Good
<1>4. early \in BOOLEAN /\ d.out \in BOOLEAN /\ (~ early => ~ e.early /\ (~ e.awaiting \/ e.doc = Empty))
  BY <1>2, <1>3, FieldsAre
<1> HIDE DEF d, early
<1>5. /\ e' \in Engines /\ e.file' = d.file /\ e.proj' = d.proj /\ e.doc' = d.doc /\ e.vault' = d.vault
      /\ e.known' = d.known /\ e.awaiting' = FALSE /\ e.removal' = FALSE /\ e.out' = d.out
      /\ e.up' = d.up /\ e.hs' = d.hs /\ e.overruled' = d.overruled /\ e.early' = early
  BY <1>1, <1>3, <1>4 DEF Engines
<1>6. Sent(e') /\ Asks(e') /\ Born(e')
  BY <1>3, <1>5, SentSame DEF Asks, Born, Unborn
<1>7. Kept(e', e.doc = Empty)
  <2>1. Kept(e, e.awaiting)
    BY <1>2 DEF Good
  <2>2. early \/ (e.awaiting => e.doc = Empty)
    BY <1>4
  <2>3. CASE early
    BY <1>5, <2>3 DEF Kept
  <2>4. CASE ~ early
    <3>1. Kept(e, e.doc = Empty)
      BY <2>1, <2>2, <2>4 DEF Kept, Whole
    <3> QED BY <1>3, <1>4, <1>5, <2>4, <3>1, KeptSame
  <2> QED BY <2>3, <2>4
<1>8. Sent(e)' /\ Asks(e)' /\ Born(e)' /\ Kept(e, Waits)'
  <2>1. /\ role' = role /\ first' = first /\ made' = made /\ cut' = cut
        /\ \A i \in 1 .. Len(down') : FALSE
    BY <1>1 DEF fixed, meant
  <2>2. Sent(e)' /\ Asks(e)' /\ Born(e)'
    <3>1. ~ e.out' /\ e.up' = <<>>
      BY <1>3, <1>5, <1>6 DEF Sent
    <3>2. \A of \in Of : e.hs'[of] = "none"
      BY <1>6, <3>1 DEF Sent
    <3>3. \A i \in 1 .. Len(e.up') : FALSE
      BY <3>1
    <3>4. Sent(e)'
      BY <3>1, <3>2, <3>3 DEF Sent, Of
    <3>5. Asks(e)'
      BY <3>1 DEF Asks
    <3>6. Born(e)'
      BY <1>1, <1>6, <2>1, <3>3 DEF Born, Unborn
    <3> QED BY <3>4, <3>5, <3>6
  <2>3. Waits' = (e.doc = Empty \/ outcome # "open")
    BY <1>1, <1>3, <1>5 DEF Waits
  <2>4. Kept(e', e.doc = Empty \/ outcome # "open")
    BY <1>7 DEF Kept, Whole
  <2>5. Kept(e, Waits)'
    BY <1>1, <2>1, <2>3, <2>4 DEF Kept, Whole, Once, Read, Base, Meant, HasOld, MayRead
  <2> QED BY <2>2, <2>5
<1>9. Plain'
  <2>1. Plain
    BY TypesAre DEF LinkInv
  <2>2. breaks' \in 0 .. MaxBreaks
    BY <1>1, <2>1, LinkAssumption DEF Plain
  <2> QED BY <1>1, <2>1, <2>2 DEF Plain, fixed, meant
<1>10. Joint'
  BY <1>1, <1>3, <1>5 DEF Joint
<1>11. Replicas'
  <2>1. srv \in [doc : Doc, vault : Entries] /\ <<>> \in Seq(LinkFrames)
    BY TypesAre DEF LinkInv, Replicas
  <2> QED BY <1>1, <1>5, <2>1 DEF Replicas
<1>12. LinkTypes'
  BY <1>9, <1>10, <1>11, TypesAre, PTL
<1>13. OnWire(down)'
  <2>1. \A i \in 1 .. Len(down') : FALSE
    BY <1>1
  <2> QED BY <2>1 DEF OnWire
<1>14. Reported'
  BY <1>1, <1>2 DEF Reported
<1> QED BY <1>8, <1>12, <1>13, <1>14 DEF LinkInv

LEMMA DropKeeps == ASSUME LinkInv, Drop PROVE LinkInv'
<1> DEFINE d == Disconnected(e)
<1>1. /\ running /\ breaks < MaxBreaks /\ breaks' = breaks + 1 /\ running' = ~ once /\ link' = FALSE
      /\ down' = <<>> /\ subs' = {} /\ outcome' = (IF once THEN "failed" ELSE outcome) /\ srv' = srv
      /\ UNCHANGED <<fixed, meant, acts>> /\ e' = d
  BY DEF Drop
<1>2. World /\ e \in Engines /\ Good(e) /\ outcome # "synced"
  BY <1>1, RunningIs
<1>3. /\ d \in Engines /\ Sent(d) /\ Asks(d) /\ Born(d) /\ ~ d.out
      /\ d.file = e.file /\ d.proj = e.proj /\ d.doc = e.doc /\ d.vault = e.vault
      /\ d.known = e.known /\ d.awaiting = e.awaiting /\ d.removal = e.removal
      /\ d.overruled = e.overruled /\ d.early = e.early
  BY <1>2, DisconnectedDoes DEF Good
<1> HIDE DEF d
<1>4. Kept(d, d.awaiting)
  BY <1>2, <1>3, KeptSame DEF Good
<1>5. Good(e') /\ e' \in Engines /\ ~ e.out'
  BY <1>1, <1>3, <1>4 DEF Good
<1>6. Plain'
  <2>1. Plain
    BY TypesAre DEF LinkInv
  <2>2. breaks' \in 0 .. MaxBreaks
    BY <1>1, <2>1, LinkAssumption DEF Plain
  <2> QED BY <1>1, <2>1, <2>2 DEF Plain, fixed, meant
<1>7. once \in BOOLEAN
  BY TypesAre DEF LinkInv, Plain
<1>8. Reported'
  BY <1>1, <1>2 DEF Reported
<1>9. Waits' = IF once THEN TRUE ELSE e.awaiting'
  BY <1>1, <1>7 DEF Waits
<1>10. Joint'
  <2>1. /\ link' = FALSE /\ ~ e.out' /\ down' = <<>> /\ subs' = {}
        /\ outcome' = "open" => running'
    BY <1>1, <1>5, <1>7
  <2>2. e.out' = FALSE
    BY <1>5, FieldsAre
  <2> QED BY <2>1, <2>2 DEF Joint
<1> QED BY <1>1, <1>5, <1>6, <1>8, <1>9, <1>10, Offline DEF fixed, meant

LEMMA FinishKeeps == ASSUME LinkInv, Finish PROVE LinkInv'
<1>1. /\ running /\ IsIdle(e) /\ outcome' = "synced" /\ running' = FALSE
      /\ UNCHANGED <<e, link, down, server, fixed, meant, bounds>>
  BY DEF Finish
<1>2. World /\ e \in Engines /\ Good(e)
  BY <1>1, RunningIs
<1>3. /\ srv' = srv /\ subs' = subs /\ once' = once /\ role' = role /\ first' = first /\ made' = made
      /\ cut' = cut /\ acts' = acts /\ breaks' = breaks /\ e' = e /\ down' = down /\ link' = link
  BY <1>1 DEF server, fixed, meant, bounds
<1>4. Sent(e)' /\ Asks(e)' /\ Born(e)' /\ Kept(e, e.awaiting)'
  BY <1>2, <1>3, SameWorld
<1>5. Waits'
  BY <1>1 DEF Waits
<1>6. Kept(e, Waits)'
  BY <1>4, <1>5 DEF Kept, Whole
<1>7. OnWire(down)'
  <2> SUFFICES ASSUME NEW i \in 1 .. Len(down) PROVE Comes(down[i], e.early)'
    BY <1>3 DEF OnWire
  <2>1. Comes(down[i], e.early)
    BY DEF LinkInv, OnWire
  <2> QED BY <1>3, <2>1 DEF Comes, HasOld, MayRead, Leads, JoinEntry, Prefers
<1>8. e.out /\ \A of \in Of : e.hs[of] \in {"none", "done"}
  BY <1>1 DEF IsIdle, Of
<1>9. Reported'
  BY <1>1, <1>2, <1>3, <1>8 DEF Reported, Good, Sent, Asks, Of
<1>10. Plain'
  BY <1>1, <1>3, TypesAre DEF LinkInv, Plain
<1>11. Joint'
  BY <1>1, <1>3, TypesAre DEF LinkInv, Joint, MayRead
<1>12. Replicas'
  BY <1>3, TypesAre DEF LinkInv, Replicas
<1>13. LinkTypes'
  BY <1>10, <1>11, <1>12, TypesAre, PTL
<1> QED BY <1>4, <1>6, <1>7, <1>9, <1>13 DEF LinkInv

-----------------------------------------------------------------------------
(* The server's steps.                                                     *)

LEMMA LeadsSame ==
  ASSUME first' = first, NEW a, NEW b
  PROVE  Leads(a, b)' <=> Leads(a, b)
BY DEF Leads, JoinEntry, Prefers

\* What is handed over arrives, as the server takes one frame after the other.
LEMMA HandedOn ==
  ASSUME NEW u \in Seq(Sendable), u # <<>>, NEW k \in 1 .. Len(u) + 1, NEW S, NEW D,
         Lands(u, k), Gets(S, u, k), GetsOut(D, u, k), Within(srv.doc, srv.doc'),
         u[1] \in NoteData /\ (u[1].kind = "update" => u[1].on \subseteq srv.doc.ins)
           => Within(u[1].data, srv.doc')
  PROVE  \E l \in 1 .. Len(Tail(u)) + 1 :
           Lands(Tail(u), l)' /\ Gets(S, Tail(u), l)' /\ GetsOut(D, Tail(u), l)'
<1> DEFINE l == IF k = 1 THEN 1 ELSE k - 1
           v == Tail(u)
<1>1. /\ v \in Seq(Sendable) /\ Len(v) = Len(u) - 1 /\ Len(u) \in Nat /\ Len(u) >= 1
      /\ \A p \in 1 .. Len(u) - 1 : v[p] = u[p + 1]
  BY TailIs
<1> HIDE DEF v
<1>2. l \in 1 .. Len(v) + 1 /\ l + 1 >= k /\ l \in Nat /\ k \in Nat
  BY <1>1
<1>3. \A j \in k .. Len(u) : j # 1 => j - 1 \in l .. Len(v) /\ v[j - 1] = u[j]
  BY <1>1, <1>2
<1>4. k = 1 /\ u[1] \in NoteData => Within(u[1].data, srv.doc')
  <2> SUFFICES ASSUME k = 1, u[1] \in NoteData, u[1].kind = "update" PROVE u[1].on \subseteq srv.doc.ins
    OBVIOUS
  <2>1. 1 \in k .. Len(u) /\ u[1].of = "note" /\ \A j \in k .. 1 - 1 : FALSE
    BY <1>1, FramesAre
  <2> QED BY <2>1 DEF Lands
<1>5. srv.doc.ins \subseteq srv'.doc.ins /\ srv.doc.del \subseteq srv'.doc.del
  BY DEF Within
<1>6. ASSUME NEW j \in k .. Len(u), j = 1, u[j] \in NoteData
      PROVE  u[j].data.ins \subseteq srv'.doc.ins /\ u[j].data.del \subseteq srv'.doc.del
  BY <1>2, <1>4, <1>6 DEF Within
<1>7. Gets(S, v, l)'
  <2> SUFFICES ASSUME NEW x \in S, x \notin srv'.doc.ins
               PROVE  \E j \in l .. Len(v) : v[j] \in NoteData /\ x \in v[j].data.ins
    BY DEF Gets
  <2>1. PICK j \in k .. Len(u) : u[j] \in NoteData /\ x \in u[j].data.ins
    BY <1>5 DEF Gets
  <2>2. j # 1
    BY <1>6, <2>1
  <2> QED BY <1>3, <2>1, <2>2
<1>8. GetsOut(D, v, l)'
  <2> SUFFICES ASSUME NEW x \in D, x \notin srv'.doc.del
               PROVE  \E j \in l .. Len(v) : v[j] \in NoteData /\ x \in v[j].data.del
    BY DEF GetsOut
  <2>1. PICK j \in k .. Len(u) : u[j] \in NoteData /\ x \in u[j].data.del
    BY <1>5 DEF GetsOut
  <2>2. j # 1
    BY <1>6, <2>1
  <2> QED BY <1>3, <2>1, <2>2
<1>9. Lands(v, l)'
  <2> SUFFICES ASSUME NEW i \in l .. Len(v), v[i].of = "note", v[i].kind = "update", NEW x \in v[i].on,
                      x \notin srv'.doc.ins
               PROVE  \E j \in l .. i - 1 : v[j] \in NoteData /\ x \in v[j].data.ins
    BY DEF Lands
  <2>1. i + 1 \in k .. Len(u) /\ v[i] = u[i + 1]
    BY <1>1, <1>2
  <2>2. PICK j \in k .. i + 1 - 1 : u[j] \in NoteData /\ x \in u[j].data.ins
    BY <1>5, <2>1 DEF Lands
  <2>3. j \in k .. Len(u)
    BY <2>1, <2>2
  <2>4. j # 1
    BY <1>6, <2>2, <2>3
  <2>5. j - 1 \in l .. i - 1
    BY <1>2, <2>2, <2>3, <2>4
  <2> QED BY <1>3, <2>2, <2>3, <2>4, <2>5
<1> QED BY <1>2, <1>7, <1>8, <1>9 DEF v

LEMMA ServedSent ==
  ASSUME LinkInv, e.up # <<>>, e' = [e EXCEPT !.up = Tail(@)], role' = role, first' = first,
         srv.vault' \in Entries, Within(srv.doc, srv.doc'), Leads(srv.vault', srv.vault),
         role = "editor" /\ e.up[1] \in NoteData
           /\ (e.up[1].kind = "update" => e.up[1].on \subseteq srv.doc.ins)
           => Within(e.up[1].data, srv.doc'),
         role = "editor" /\ e.up[1] \in VaultData => Leads(srv.vault', e.up[1].data)
  PROVE  /\ e' \in Engines /\ Sent(e)' /\ Asks(e)'
         /\ \A i \in 1 .. Len(e.up') : \E j \in 1 .. Len(e.up) : e.up'[i] = e.up[j]
         /\ e.file' = e.file /\ e.proj' = e.proj /\ e.doc' = e.doc /\ e.vault' = e.vault
         /\ e.known' = e.known /\ e.awaiting' = e.awaiting /\ e.removal' = e.removal
         /\ e.out' = e.out /\ e.hs' = e.hs /\ e.overruled' = e.overruled /\ e.early' = e.early
         /\ e.out
<1>1. e \in Engines /\ Sent(e) /\ Asks(e) /\ World
  BY RunningIs DEF LinkInv
<1>2. e.up \in Seq(Sendable) /\ e.vault \in Entries /\ srv.vault \in Entries /\ first \in Places
  BY <1>1, FieldsAre DEF World
<1> DEFINE v == Tail(e.up)
<1>3. /\ v \in Seq(Sendable) /\ Len(v) = Len(e.up) - 1 /\ Len(e.up) \in Nat /\ Len(e.up) >= 1
      /\ \A p \in 1 .. Len(e.up) - 1 : v[p] = e.up[p + 1]
  BY <1>2, TailIs
<1> HIDE DEF v
<1>4. /\ e' \in Engines /\ e.file' = e.file /\ e.proj' = e.proj /\ e.doc' = e.doc /\ e.vault' = e.vault
      /\ e.known' = e.known /\ e.awaiting' = e.awaiting /\ e.removal' = e.removal
      /\ e.out' = e.out /\ e.hs' = e.hs /\ e.overruled' = e.overruled /\ e.early' = e.early
      /\ e.up' = v
  BY <1>1, <1>3 DEF Engines, v
<1>5. \A i \in 1 .. Len(v) : i + 1 \in 1 .. Len(e.up) /\ v[i] = e.up[i + 1]
  BY <1>3
<1>6. e.out
  BY <1>1 DEF Sent
<1>7. \A i \in 1 .. Len(v) : v[i] \in NoteData => Within(v[i].data, e.doc)
  BY <1>1, <1>5 DEF Sent
<1>8. role = "editor" /\ Handed(e) => Handed(e)'
  <2> SUFFICES ASSUME role = "editor", Handed(e) PROVE Handed(e)'
    OBVIOUS
  <2>1. PICK k \in 1 .. Len(e.up) + 1 :
           Lands(e.up, k) /\ Gets(e.doc.ins, e.up, k) /\ GetsOut(e.doc.del, e.up, k)
    BY DEF Handed
  <2>3. e.up' = Tail(e.up) /\ e.doc' = e.doc
    BY <1>4 DEF v
  <2>2. \E l \in 1 .. Len(e.up') + 1 :
           Lands(e.up, l)' /\ Gets(e.doc.ins, e.up, l)' /\ GetsOut(e.doc.del, e.up, l)'
    BY <1>2, <2>1, <2>3, HandedOn
  <2> QED BY <1>4, <2>2 DEF Handed
<1>9. role = "editor" /\ Entrusted(e) => Entrusted(e)'
  <2> SUFFICES ASSUME role = "editor", Entrusted(e) PROVE Entrusted(e)'
    OBVIOUS
  <2>1. CASE Leads(srv.vault, e.vault)
    <3>1. Leads(srv.vault', e.vault)
      BY <1>2, <2>1, LeadsOn
    <3> QED BY <1>4, <3>1, LeadsSame DEF Entrusted
  <2>2. CASE \E i \in 1 .. Len(e.up) : e.up[i] \in VaultData /\ Leads(e.up[i].data, e.vault)
    <3>1. PICK i \in 1 .. Len(e.up) : e.up[i] \in VaultData /\ Leads(e.up[i].data, e.vault)
      BY <2>2
    <3>2. CASE i = 1
      <4>1. e.up[1].data \in Entries
        BY <3>1, <3>2, FramesAre
      <4>2. Leads(srv.vault', e.vault)
        BY <1>2, <3>1, <3>2, <4>1, LeadsOn
      <4> QED BY <1>4, <4>2, LeadsSame DEF Entrusted
    <3>3. CASE i # 1
      <4>1. i - 1 \in 1 .. Len(v) /\ v[i - 1] = e.up[i]
        BY <1>3, <3>3
      <4>2. \E j \in 1 .. Len(v) : v[j] \in VaultData /\ Leads(v[j].data, e.vault)
        BY <3>1, <4>1
      <4> QED BY <1>4, <4>2, LeadsSame DEF Entrusted
    <3> QED BY <3>2, <3>3
  <2> QED BY <2>1, <2>2 DEF Entrusted
<1>10. Sent(e)'
  BY <1>1, <1>4, <1>6, <1>7, <1>8, <1>9 DEF Sent
<1>11. Asks(e)'
  BY <1>1, <1>4 DEF Asks
<1>12. \A i \in 1 .. Len(e.up') : \E j \in 1 .. Len(e.up) : e.up'[i] = e.up[j]
  BY <1>4, <1>5
<1> QED BY <1>4, <1>6, <1>10, <1>11, <1>12

LEMMA ServedRest ==
  ASSUME LinkInv, e' \in Engines, e.out, e.out' = e.out, e.known' = e.known, e.hs' = e.hs,
         UNCHANGED <<running, outcome, link, fixed, meant, bounds>>,
         down' \in Seq(LinkFrames), srv' \in [doc : Doc, vault : Entries], subs' \subseteq Of,
         ~ MayRead("note") => "note" \notin subs',
         Sent(e)', Asks(e)', Born(e)', Kept(e, Waits)', OnWire(down)'
  PROVE  LinkInv'
<1>1. Plain /\ Joint /\ Reported
  BY TypesAre DEF LinkInv
<1>2. Plain'
  BY <1>1 DEF Plain, fixed, meant, bounds
<1>3. Joint'
  BY <1>1 DEF Joint, MayRead, fixed
<1>4. Replicas'
  BY DEF Replicas
<1>5. LinkTypes'
  BY <1>2, <1>3, <1>4, TypesAre, PTL
<1>6. Reported'
  BY <1>1 DEF Reported
<1> QED BY <1>5, <1>6 DEF LinkInv

LEMMA ReadsOrNot ==
  ASSUME role \in {"editor", "viewer", "outsider"}
  PROVE  /\ MayWrite("note") => role = "editor" /\ MayRead("note")
         /\ role = "editor" => \A of \in Of : MayRead(of) /\ MayWrite(of)
BY DEF MayRead, MayWrite, Of

LEMMA ComesStill ==
  ASSUME srv' = srv, role' = role, first' = first, NEW f, NEW x, Comes(f, x)
  PROVE  Comes(f, x)'
<1>1. Leads(srv.vault, f.data)' <=> Leads(srv.vault, f.data)
  BY DEF Leads, JoinEntry, Prefers
<1>2. \A X : HasOld(X)' <=> HasOld(X)
  BY DEF HasOld
<1>3. MayRead("note")' <=> MayRead("note")
  BY DEF MayRead
<1> QED BY <1>1, <1>2, <1>3 DEF Comes

LEMMA AskedKeeps ==
  ASSUME LinkInv, ServeFrame, e.up[1].kind = "step1", MayRead(e.up[1].of)
  PROVE  LinkInv'
<1> DEFINE f == e.up[1]
           a == Answer(f.of, IF f.of = "vault" THEN srv.vault ELSE srv.doc)
<1>1. /\ World /\ e \in Engines /\ Plain /\ Joint /\ Replicas /\ Born(e) /\ Kept(e, Waits) /\ OnWire(down)
  BY RunningIs, TypesAre DEF LinkInv
<1>2. e.up \in Seq(Sendable) /\ e.up # <<>>
  BY <1>1, FieldsAre DEF ServeFrame
<1>3. Head(e.up) = f /\ f \in Sendable /\ 1 \in 1 .. Len(e.up)
  BY <1>2, TailIs
<1>4. f \in Questions /\ f.of \in Of
  BY <1>3, FramesAre
<1>5. /\ e' = [e EXCEPT !.up = Tail(@)] /\ subs' = subs \cup {f.of} /\ srv' = srv
      /\ down' = down \o <<a, Ask(f.of)>>
      /\ UNCHANGED <<running, outcome, link, fixed, meant, bounds>>
  BY <1>3 DEF ServeFrame
<1>6. /\ role' = role /\ first' = first /\ made' = made /\ cut' = cut /\ outcome' = outcome /\ running' = running
  BY <1>5 DEF fixed, meant
<1>7. /\ srv.doc \in Doc /\ srv.vault \in Entries /\ first \in Places
  BY <1>1 DEF World
<1>8. Within(srv.doc, srv.doc') /\ Leads(srv.vault', srv.vault) /\ srv.vault' \in Entries
  BY <1>5, <1>7, LeadsEither DEF Within
<1>9. f \notin NoteData /\ f \notin VaultData
  BY <1>4, FramesAre
<1>10. /\ e' \in Engines /\ Sent(e)' /\ Asks(e)'
       /\ \A i \in 1 .. Len(e.up') : \E j \in 1 .. Len(e.up) : e.up'[i] = e.up[j]
       /\ e.file' = e.file /\ e.proj' = e.proj /\ e.doc' = e.doc /\ e.vault' = e.vault
       /\ e.known' = e.known /\ e.awaiting' = e.awaiting /\ e.removal' = e.removal
       /\ e.out' = e.out /\ e.hs' = e.hs /\ e.overruled' = e.overruled /\ e.early' = e.early
       /\ e.out
  BY <1>2, <1>5, <1>6, <1>8, <1>9, ServedSent
<1>11. a \in Sendable /\ a \in LinkFrames /\ Ask(f.of) \in LinkFrames /\ Ask(f.of) \in Questions
       /\ (f.of = "vault" => a \in VaultData /\ a.data = srv.vault)
       /\ (f.of = "note" => a \in NoteData /\ a.kind = "step2" /\ a.data = srv.doc)
  <2>1. CASE f.of = "vault"
    BY <1>4, <1>7, <2>1, VaultAnswerIs, FramesAre, AskIs DEF LinkFrames
  <2>2. CASE f.of = "note"
    BY <1>4, <1>7, <2>2, NoteAnswerIs, FramesAre, AskIs DEF LinkFrames
  <2> QED BY <1>4, <2>1, <2>2 DEF Of
<1> HIDE DEF a, f
<1>12. down \in Seq(LinkFrames)
  BY <1>1 DEF Replicas
<1>13. /\ down' \in Seq(LinkFrames) /\ Len(down') = Len(down) + 2 /\ Len(down) \in Nat
       /\ \A p \in 1 .. Len(down) : down'[p] = down[p]
       /\ down'[Len(down) + 1] = a /\ down'[Len(down) + 2] = Ask(f.of)
  BY <1>5, <1>11, <1>12
<1>14. \A i \in 1 .. Len(down') :
         (i \in 1 .. Len(down) /\ down'[i] = down[i]) \/ down'[i] = a \/ down'[i] = Ask(f.of)
  BY <1>13
<1>15. OnWire(down)'
  <2> SUFFICES ASSUME NEW i \in 1 .. Len(down') PROVE Comes(down'[i], e.early)
    BY <1>5, <1>6, <1>10, ComesStill DEF OnWire
  <2>1. CASE i \in 1 .. Len(down) /\ down'[i] = down[i]
    BY <1>1, <2>1 DEF OnWire
  <2>2. CASE down'[i] = a
    <3>1. Comes(a, e.early)
      <4>1. CASE f.of = "vault"
        BY <1>7, <1>11, <4>1, LeadsEither, FramesAre DEF Comes
      <4>2. CASE f.of = "note"
        <5>1. MayRead("note")
          BY <4>2 DEF f
        <5> QED BY <1>7, <1>11, <4>2, <5>1, FramesAre DEF Comes, Within, HasOld
      <4> QED BY <1>4, <4>1, <4>2 DEF Of, f
    <3> QED BY <2>2, <3>1
  <2>3. CASE down'[i] = Ask(f.of)
    BY <1>11, <2>3, FramesAre DEF Comes
  <2> QED BY <1>14, <2>1, <2>2, <2>3
<1>16. Born(e)'
  <2>1. Unborn(e) => \A i \in 1 .. Len(down') : down'[i] \in VaultData => down'[i].data = NoEntry
    <3> SUFFICES ASSUME Unborn(e), NEW i \in 1 .. Len(down'), down'[i] \in VaultData
                 PROVE  down'[i].data = NoEntry
      OBVIOUS
    <3>1. CASE down'[i] = a
      <4>1. f.of = "vault"
        BY <1>4, <1>11, <3>1, FramesAre DEF Of, f
      <4> QED BY <1>11, <3>1, <4>1 DEF Unborn
    <3>2. CASE down'[i] # a
      <4>1. i \in 1 .. Len(down) /\ down'[i] = down[i]
        BY <1>11, <1>14, <3>2, FramesAre
      <4> QED BY <4>1 DEF Unborn
    <3> QED BY <3>1, <3>2
  <2>2. srv' = srv /\ made' = made
    BY <1>5, <1>6
  <2>3. Unborn(e) => Unborn(e)'
    BY <1>10, <2>1, <2>2 DEF Unborn
  <2> QED BY <1>1, <2>2, <2>3 DEF Born
<1>17. Waits' = Waits
  BY <1>6, <1>10 DEF Waits
<1>18. Kept(e, Waits)'
  BY <1>1, <1>5, <1>6, <1>10, <1>17 DEF Kept, Whole, Once, Read, Base, Meant, HasOld, MayRead
<1>19. subs' \subseteq Of /\ (~ MayRead("note") => "note" \notin subs')
  BY <1>1, <1>4, <1>5 DEF Plain, Joint, f
<1>20. srv' \in [doc : Doc, vault : Entries]
  BY <1>1, <1>5 DEF World
<1> QED BY <1>5, <1>10, <1>13, <1>15, <1>16, <1>18, <1>19, <1>20, ServedRest

LEMMA RefusedKeeps ==
  ASSUME LinkInv, ServeFrame, ~ (e.up[1].kind = "step1" /\ MayRead(e.up[1].of)),
         ~ (e.up[1].kind # "step1" /\ MayWrite(e.up[1].of))
  PROVE  LinkInv'
<1> DEFINE f == e.up[1]
           a == Refusal(f.of)
<1>1. /\ World /\ e \in Engines /\ Plain /\ Joint /\ Replicas /\ Born(e) /\ Kept(e, Waits) /\ OnWire(down)
  BY RunningIs, TypesAre DEF LinkInv
<1>2. e.up \in Seq(Sendable) /\ e.up # <<>>
  BY <1>1, FieldsAre DEF ServeFrame
<1>3. Head(e.up) = f /\ f \in Sendable /\ 1 \in 1 .. Len(e.up)
  BY <1>2, TailIs
<1>4. f.of \in Of
  BY <1>3, FramesAre
<1>5. /\ e' = [e EXCEPT !.up = Tail(@)] /\ subs' = subs /\ srv' = srv
      /\ down' = Append(down, a)
      /\ UNCHANGED <<running, outcome, link, fixed, meant, bounds>>
  BY <1>3 DEF ServeFrame, server
<1>6. /\ role' = role /\ first' = first /\ made' = made /\ cut' = cut /\ outcome' = outcome /\ running' = running
  BY <1>5 DEF fixed, meant
<1>7. /\ srv.doc \in Doc /\ srv.vault \in Entries /\ first \in Places
  BY <1>1 DEF World
<1>8. Within(srv.doc, srv.doc') /\ Leads(srv.vault', srv.vault) /\ srv.vault' \in Entries
  BY <1>5, <1>7, LeadsEither DEF Within
<1>9. role = "editor" => f \notin NoteData /\ f \notin VaultData
  BY <1>1, <1>4, ReadsOrNot, FramesAre DEF World
<1>10. /\ e' \in Engines /\ Sent(e)' /\ Asks(e)'
       /\ \A i \in 1 .. Len(e.up') : \E j \in 1 .. Len(e.up) : e.up'[i] = e.up[j]
       /\ e.file' = e.file /\ e.proj' = e.proj /\ e.doc' = e.doc /\ e.vault' = e.vault
       /\ e.known' = e.known /\ e.awaiting' = e.awaiting /\ e.removal' = e.removal
       /\ e.out' = e.out /\ e.hs' = e.hs /\ e.overruled' = e.overruled /\ e.early' = e.early
       /\ e.out
  BY <1>2, <1>5, <1>6, <1>8, <1>9, ServedSent
<1>11. a \in LinkFrames /\ a \notin VaultData /\ a \notin NoteData
  <2>1. a = [of |-> f.of, kind |-> "auth"]
    BY DEF Refusal
  <2>2. a.kind = "auth"
    BY <2>1
  <2>3. a \in LinkFrames
    BY <1>4, <2>1 DEF LinkFrames
  <2> QED BY <2>2, <2>3 DEF VaultData, NoteData
<1> HIDE DEF a, f
<1>12. down \in Seq(LinkFrames)
  BY <1>1 DEF Replicas
<1>13. /\ down' \in Seq(LinkFrames) /\ Len(down') = Len(down) + 1 /\ Len(down) \in Nat
       /\ \A p \in 1 .. Len(down) : down'[p] = down[p]
       /\ down'[Len(down) + 1] = a
  BY <1>5, <1>11, <1>12, AppendIs
<1>14. \A i \in 1 .. Len(down') : (i \in 1 .. Len(down) /\ down'[i] = down[i]) \/ down'[i] = a
  BY <1>13
<1>15. OnWire(down)'
  <2> SUFFICES ASSUME NEW i \in 1 .. Len(down') PROVE Comes(down'[i], e.early)
    BY <1>5, <1>6, <1>10, ComesStill DEF OnWire
  <2>1. CASE i \in 1 .. Len(down) /\ down'[i] = down[i]
    BY <1>1, <2>1 DEF OnWire
  <2>2. CASE down'[i] = a
    BY <1>11, <2>2 DEF Comes
  <2> QED BY <1>14, <2>1, <2>2
<1>16. Born(e)'
  <2>1. Unborn(e) => \A i \in 1 .. Len(down') : down'[i] \in VaultData => down'[i].data = NoEntry
    BY <1>11, <1>14 DEF Unborn
  <2> QED BY <1>1, <1>5, <1>6, <1>10, <2>1 DEF Born, Unborn
<1>17. Waits' = Waits
  BY <1>6, <1>10 DEF Waits
<1>18. Kept(e, Waits)'
  BY <1>1, <1>5, <1>6, <1>10, <1>17 DEF Kept, Whole, Once, Read, Base, Meant, HasOld, MayRead
<1>19. subs' \subseteq Of /\ (~ MayRead("note") => "note" \notin subs')
  BY <1>1, <1>5 DEF Plain, Joint
<1>20. srv' \in [doc : Doc, vault : Entries]
  BY <1>1, <1>5 DEF World
<1> QED BY <1>5, <1>10, <1>13, <1>15, <1>16, <1>18, <1>19, <1>20, ServedRest

LEMMA EntryTakenKeeps ==
  ASSUME LinkInv, ServeFrame, e.up[1].kind # "step1", MayWrite(e.up[1].of), e.up[1].of = "vault"
  PROVE  LinkInv'
<1> DEFINE f == e.up[1]
           entry == JoinEntry(srv.vault, f.data)
<1>1. /\ World /\ e \in Engines /\ Plain /\ Joint /\ Replicas /\ Born(e) /\ Kept(e, Waits) /\ OnWire(down)
  BY RunningIs, TypesAre DEF LinkInv
<1>2. e.up \in Seq(Sendable) /\ e.up # <<>>
  BY <1>1, FieldsAre DEF ServeFrame
<1>3. Head(e.up) = f /\ f \in Sendable /\ 1 \in 1 .. Len(e.up)
  BY <1>2, TailIs
<1>4. f \in VaultData /\ f \notin NoteData /\ f.data \in Entries
  BY <1>3, FramesAre
<1>5. /\ e' = [e EXCEPT !.up = Tail(@)] /\ subs' = subs \cup {"vault"} /\ down' = down
      /\ srv' = [srv EXCEPT !.vault = entry]
      /\ UNCHANGED <<running, outcome, link, fixed, meant, bounds>>
  BY <1>3 DEF ServeFrame
<1>6. /\ role' = role /\ first' = first /\ made' = made /\ cut' = cut /\ outcome' = outcome /\ running' = running
  BY <1>5 DEF fixed, meant
<1>7. /\ srv.doc \in Doc /\ srv.vault \in Entries /\ first \in Places
  BY <1>1 DEF World
<1>8. entry \in Entries /\ Leads(entry, srv.vault) /\ Leads(entry, f.data)
  BY <1>4, <1>7, JoinEntryIs, LeadsJoin
<1>9. Unborn(e) => entry = NoEntry
  <2> SUFFICES ASSUME Unborn(e) PROVE entry = NoEntry
    OBVIOUS
  <2>1. srv.vault = NoEntry /\ f.data = NoEntry
    BY <1>3, <1>4 DEF Unborn
  <2> QED BY <1>7, <2>1, JoinEntryIs
<1> HIDE DEF entry
<1>10. /\ srv' \in [doc : Doc, vault : Entries] /\ srv.vault' = entry /\ srv.doc' = srv.doc
  BY <1>1, <1>5, <1>8 DEF World
<1>11. Within(srv.doc, srv.doc')
  BY <1>10 DEF Within
<1>12. /\ e' \in Engines /\ Sent(e)' /\ Asks(e)'
       /\ \A i \in 1 .. Len(e.up') : \E j \in 1 .. Len(e.up) : e.up'[i] = e.up[j]
       /\ e.file' = e.file /\ e.proj' = e.proj /\ e.doc' = e.doc /\ e.vault' = e.vault
       /\ e.known' = e.known /\ e.awaiting' = e.awaiting /\ e.removal' = e.removal
       /\ e.out' = e.out /\ e.hs' = e.hs /\ e.overruled' = e.overruled /\ e.early' = e.early
       /\ e.out
  BY <1>2, <1>4, <1>5, <1>6, <1>8, <1>10, <1>11, ServedSent
<1>13. OnWire(down)'
  <2> SUFFICES ASSUME NEW i \in 1 .. Len(down) PROVE Comes(down[i], e.early)'
    BY <1>5 DEF OnWire
  <2>1. Comes(down[i], e.early)
    BY <1>1 DEF OnWire
  <2>2. down[i] \in VaultData => Leads(entry, down[i].data)
    <3> SUFFICES ASSUME down[i] \in VaultData PROVE Leads(entry, down[i].data)
      OBVIOUS
    <3>1. down[i].data \in Entries /\ Leads(srv.vault, down[i].data)
      BY <2>1, FramesAre DEF Comes
    <3> QED BY <1>7, <1>8, <3>1, LeadsOn
  <2>3. down[i] \in VaultData => Leads(srv.vault, down[i].data)'
    <3>1. Leads(entry, down[i].data) => Leads(srv.vault, down[i].data)'
      BY <1>5, <1>6, <1>10, LeadsSame
    <3> QED BY <2>2, <3>1
  <2>4. down[i] \in NoteData => Comes(down[i], e.early)'
    BY <1>5, <1>6, <1>10, <1>12, <2>1, FramesAre DEF Comes, HasOld, MayRead
  <2> QED BY <1>5, <2>3, <2>4 DEF Comes
<1>14. Born(e)'
  BY <1>1, <1>5, <1>6, <1>9, <1>10, <1>12 DEF Born, Unborn
<1>15. Waits' = Waits
  BY <1>6, <1>12 DEF Waits
<1>16. Kept(e, Waits)'
  BY <1>1, <1>6, <1>10, <1>12, <1>15 DEF Kept, Whole, Once, Read, Base, Meant, HasOld, MayRead
<1>17. subs' \subseteq Of /\ (~ MayRead("note") => "note" \notin subs')
  BY <1>1, <1>5 DEF Plain, Joint, Of
<1>18. down' \in Seq(LinkFrames)
  BY <1>1, <1>5 DEF Replicas
<1> QED BY <1>5, <1>10, <1>12, <1>13, <1>14, <1>16, <1>17, <1>18, ServedRest

\* What this replica had is at the server.
LEMMA GrownKept ==
  ASSUME NEW s \in Engines, NEW w, Kept(s, w), ~ s.early, srv.doc \in Doc,
         NEW d \in Doc, Within(d, s.doc), srv.doc' = Join(srv.doc, d), MayRead("note"),
         role' = role, made' = made, cut' = cut
  PROVE  /\ Whole(s, w)' /\ Once(s)' /\ MayRead("note")'
         /\ \A m \in Marks : T(m) \in srv.doc'.ins <=> T(m) \in srv.doc.ins
<1>1. Whole(s, w) /\ Once(s)
  BY DEF Kept
<1>2. /\ srv.doc'.ins = srv.doc.ins \cup d.ins /\ srv.doc'.del = srv.doc.del \cup d.del
      /\ d.ins \subseteq s.doc.ins /\ d.del \subseteq s.doc.del
  BY DEF Join, Within
<1>3. \A m \in Marks : T(m) \in srv.doc'.ins <=> T(m) \in srv.doc.ins
  BY <1>1, <1>2 DEF Once
<1>4. \A m \in Marks : H(m) \in srv.doc'.ins => H(m) \in s.doc.ins
  BY <1>1, <1>2 DEF Once
<1>5. /\ MarksOf(srv.doc) \subseteq MarksOf(srv.doc')
      /\ MarksOf(srv.doc') \subseteq MarksOf(srv.doc) \cup MarksOf(s.doc)
  BY <1>2 DEF MarksOf
<1>6. MarksOf(srv.doc)' = MarksOf(srv.doc')
  BY DEF MarksOf
<1>7. Whole(s, w)'
  BY <1>1, <1>2, <1>5, <1>6 DEF Whole, Meant, Read, Base
<1>8. MayRead("note")'
  BY DEF MayRead
<1>9. \A m \in Read(s) \cup Base(s) : m \in Marks
  BY TextsAre
<1>12. \A X : HasOld(X)' <=> HasOld(X)
  <2>1. Old \subseteq Marks
    BY LinkAssumption
  <2> QED BY <1>3, <2>1 DEF HasOld
<1>10. Once(s)'
  BY <1>1, <1>3, <1>4, <1>8, <1>9, <1>12 DEF Once, Read, Base
<1> QED BY <1>3, <1>7, <1>8, <1>10

LEMMA TextTakenKeeps ==
  ASSUME LinkInv, ServeFrame, e.up[1].kind # "step1", MayWrite(e.up[1].of), e.up[1].of = "note"
  PROVE  LinkInv'
<1> DEFINE f == e.up[1]
           doc == Joined(srv.doc, f)
<1>1. /\ World /\ e \in Engines /\ Plain /\ Joint /\ Replicas /\ Born(e) /\ Kept(e, Waits) /\ OnWire(down)
      /\ Sent(e)
  BY RunningIs, TypesAre DEF LinkInv
<1>2. e.up \in Seq(Sendable) /\ e.up # <<>> /\ e.doc \in Doc
  BY <1>1, FieldsAre DEF ServeFrame
<1>3. Head(e.up) = f /\ f \in Sendable /\ 1 \in 1 .. Len(e.up)
  BY <1>2, TailIs
<1>4. f \in NoteData /\ f \notin VaultData /\ f.data \in Doc
  BY <1>3, FramesAre
<1>5. /\ e' = [e EXCEPT !.up = Tail(@)] /\ subs' = subs \cup {"note"} /\ down' = down
      /\ srv' = [srv EXCEPT !.doc = doc]
      /\ UNCHANGED <<running, outcome, link, fixed, meant, bounds>>
  BY <1>3 DEF ServeFrame
<1>6. /\ role' = role /\ first' = first /\ made' = made /\ cut' = cut /\ outcome' = outcome /\ running' = running
  BY <1>5 DEF fixed, meant
<1>7. /\ srv.doc \in Doc /\ srv.vault \in Entries /\ first \in Places /\ role = "editor" /\ MayRead("note")
  BY <1>1, ReadsOrNot DEF World
<1>8. Within(f.data, e.doc)
  BY <1>1, <1>3, <1>4 DEF Sent
<1>9. /\ doc = srv.doc \/ doc = Join(srv.doc, f.data)
      /\ (f.kind = "update" => f.on \subseteq srv.doc.ins) => doc = Join(srv.doc, f.data)
  BY DEF Joined
<1>10. doc \in Doc /\ Within(srv.doc, doc)
  BY <1>4, <1>7, <1>9 DEF Join, Doc, Within
<1>11. (f.kind = "update" => f.on \subseteq srv.doc.ins) => Within(f.data, doc)
  BY <1>9 DEF Join, Within
<1> HIDE DEF doc
<1>12. /\ srv' \in [doc : Doc, vault : Entries] /\ srv.doc' = doc /\ srv.vault' = srv.vault
  BY <1>1, <1>5, <1>10 DEF World
<1>13. Leads(srv.vault', srv.vault) /\ srv.vault' \in Entries
  BY <1>7, <1>12, LeadsEither
<1>14. /\ e' \in Engines /\ Sent(e)' /\ Asks(e)'
       /\ \A i \in 1 .. Len(e.up') : \E j \in 1 .. Len(e.up) : e.up'[i] = e.up[j]
       /\ e.file' = e.file /\ e.proj' = e.proj /\ e.doc' = e.doc /\ e.vault' = e.vault
       /\ e.known' = e.known /\ e.awaiting' = e.awaiting /\ e.removal' = e.removal
       /\ e.out' = e.out /\ e.hs' = e.hs /\ e.overruled' = e.overruled /\ e.early' = e.early
       /\ e.out
  BY <1>2, <1>4, <1>5, <1>6, <1>10, <1>11, <1>12, <1>13, ServedSent
<1>18. Waits' = Waits
  BY <1>6, <1>14 DEF Waits
<1>15. ASSUME ~ e.early
       PROVE  /\ Whole(e, Waits)' /\ Once(e)'
              /\ \A m \in Marks : T(m) \in doc.ins <=> T(m) \in srv.doc.ins
  <2>1. Kept(e', Waits)
    BY <1>1, <1>14, KeptSame
  <2>2. CASE doc = srv.doc
    <3>1. Whole(e', Waits) /\ Once(e')
      BY <1>14, <1>15, <2>1 DEF Kept
    <3> QED BY <1>6, <1>12, <1>18, <2>2, <3>1 DEF Whole, Once, Read, Base, Meant, HasOld, MayRead
  <2>3. CASE doc = Join(srv.doc, f.data)
    <3> HIDE DEF f
    <3>1. Within(f.data, e'.doc) /\ ~ e'.early
      BY <1>8, <1>14, <1>15
    <3>2. srv.doc' = Join(srv.doc, f.data)
      BY <1>12, <2>3
    <3>3. \A w : Kept(e', w) => /\ Whole(e, w)' /\ Once(e)'
                               /\ \A m \in Marks : T(m) \in srv.doc'.ins <=> T(m) \in srv.doc.ins
      BY <1>4, <1>6, <1>7, <1>14, <3>1, <3>2, GrownKept
    <3>4. Whole(e, Waits)' /\ Once(e)'
      BY <1>18, <2>1, <3>3
    <3> QED BY <1>12, <2>1, <3>3, <3>4
  <2> QED BY <1>9, <2>2, <2>3
<1>16. OnWire(down)'
  <2> SUFFICES ASSUME NEW i \in 1 .. Len(down) PROVE Comes(down[i], e.early)'
    BY <1>5 DEF OnWire
  <2>1. Comes(down[i], e.early)
    BY <1>1 DEF OnWire
  <2>2. e.early \/ \A X : HasOld(X)' <=> HasOld(X)
    <3>1. Old \subseteq Marks
      BY LinkAssumption
    <3> QED BY <1>12, <1>15, <3>1 DEF HasOld
  <2>3. Within(down[i].data, srv.doc) => Within(down[i].data, srv.doc')
    BY <1>10, <1>12 DEF Within
  <2>4. Leads(srv.vault, down[i].data) => Leads(srv.vault, down[i].data)'
    BY <1>5, <1>6, <1>12, LeadsSame
  <2>5. MayRead("note")'
    BY <1>6, <1>7 DEF MayRead
  <2> QED BY <1>5, <1>12, <1>14, <2>1, <2>2, <2>3, <2>4, <2>5 DEF Comes
<1>17. Born(e)'
  BY <1>1, <1>5, <1>6, <1>12, <1>14 DEF Born, Unborn
<1>19. Kept(e, Waits)'
  BY <1>14, <1>15 DEF Kept
<1>20. subs' \subseteq Of /\ (~ MayRead("note") => "note" \notin subs')
  BY <1>1, <1>5, <1>7 DEF Plain, Joint, Of
<1>21. down' \in Seq(LinkFrames)
  BY <1>1, <1>5 DEF Replicas
<1> QED BY <1>5, <1>12, <1>14, <1>16, <1>17, <1>19, <1>20, <1>21, ServedRest

-----------------------------------------------------------------------------
(* What others do.                                                         *)

LEMMA UserRest ==
  ASSUME LinkInv, User, e' \in Engines, e.out' = e.out, down' \in Seq(LinkFrames),
         down' = down \/ e.out, srv' \in [doc : Doc, vault : Entries], subs' = subs,
         made' \subseteq Marks, cut' \subseteq Marks,
         Sent(e)', Asks(e)', Born(e)', Kept(e, Waits)', OnWire(down)'
  PROVE  LinkInv'
<1>1. Plain /\ Joint
  BY TypesAre DEF LinkInv
<1>2. /\ running' = running /\ outcome' = outcome /\ outcome = "open" /\ link' = link /\ role' = role
      /\ first' = first /\ once' = once /\ breaks' = breaks /\ acts' = acts + 1 /\ acts < MaxActs
  BY DEF User, fixed
<1>3. acts' \in 0 .. MaxActs
  BY <1>1, <1>2, LinkAssumption DEF Plain
<1>4. Plain'
  BY <1>1, <1>2, <1>3 DEF Plain
<1>5. Joint'
  BY <1>1, <1>2 DEF Joint, MayRead
<1>6. Replicas'
  BY DEF Replicas
<1>7. LinkTypes'
  BY <1>4, <1>5, <1>6, TypesAre, PTL
<1>8. Reported'
  BY <1>2 DEF Reported
<1> QED BY <1>7, <1>8 DEF LinkInv

\* Only the file is different, and what is known of it.
LEMMA FileSetKeeps ==
  ASSUME LinkInv, User, NEW file \in Reads, e' = [e EXCEPT !.file = file, !.touched = running],
         UNCHANGED <<down, server>>, made' \subseteq Marks, cut' \subseteq Marks, Old \subseteq made',
         ~ e.early => Whole(e, Waits)' /\ Once(e)'
  PROVE  LinkInv'
<1>1. /\ World /\ e \in Engines /\ Plain /\ Joint /\ Replicas /\ Sent(e) /\ Asks(e) /\ OnWire(down)
  BY RunningIs, TypesAre DEF LinkInv
<1>2. /\ role' = role /\ first' = first /\ srv' = srv /\ subs' = subs /\ down' = down /\ running \in BOOLEAN
  BY <1>1 DEF User, fixed, server, Plain
<1>3. /\ e' \in Engines /\ e.file' = file /\ e.proj' = e.proj /\ e.doc' = e.doc /\ e.vault' = e.vault
      /\ e.known' = e.known /\ e.awaiting' = e.awaiting /\ e.removal' = e.removal /\ e.out' = e.out
      /\ e.up' = e.up /\ e.hs' = e.hs /\ e.overruled' = e.overruled /\ e.early' = e.early
  BY <1>1, <1>2 DEF Engines
<1>4. Sent(e)'
  <2>1. Handed(e) => Handed(e)'
    BY <1>2, <1>3 DEF Handed, Lands, Gets, GetsOut
  <2>2. Entrusted(e) => Entrusted(e)'
    BY <1>2, <1>3, LeadsSame DEF Entrusted
  <2> QED BY <1>1, <1>2, <1>3, <2>1, <2>2 DEF Sent
<1>5. Asks(e)'
  BY <1>1, <1>3 DEF Asks
<1>6. Born(e)'
  BY DEF Born
<1>7. OnWire(down)'
  <2> SUFFICES ASSUME NEW i \in 1 .. Len(down) PROVE Comes(down[i], e.early)'
    BY <1>2 DEF OnWire
  <2>1. Comes(down[i], e.early)
    BY <1>1 DEF OnWire
  <2> QED BY <1>2, <1>3, <2>1, ComesStill
<1>8. Kept(e, Waits)'
  BY <1>3 DEF Kept
<1>9. srv' \in [doc : Doc, vault : Entries] /\ down' \in Seq(LinkFrames)
  BY <1>1, <1>2 DEF Replicas
<1> QED BY <1>2, <1>3, <1>4, <1>5, <1>6, <1>7, <1>8, <1>9, UserRest

LEMMA SaveKeeps == ASSUME LinkInv, Save PROVE LinkInv'
<1>1. /\ World /\ e \in Engines /\ Plain /\ Kept(e, Waits) /\ Born(e)
  BY RunningIs, TypesAre DEF LinkInv
<1>2. /\ User /\ e.file # NoText /\ UNCHANGED <<down, server>> /\ srv' = srv /\ role' = role
      /\ running' = running /\ outcome' = outcome
  BY DEF Save, User, server, fixed
<1>3. Read(e) = e.file /\ e.file \in SUBSET Marks /\ running \in BOOLEAN /\ Base(e) \subseteq Marks
      /\ Old \subseteq made /\ made \subseteq Marks /\ cut \subseteq Marks
  BY <1>1, <1>2, TextsAre DEF Born, Unborn, Plain
<1>4. ASSUME NEW m \in Marks \ made, e' = [e EXCEPT !.file = @ \cup {m}, !.touched = running],
             made' = made \cup {m}, cut' = cut
      PROVE  LinkInv'
  <2> DEFINE file == e.file \cup {m}
  <2>1. file \in Reads /\ file # NoText
    BY <1>3, LinkAssumption DEF Reads
  <2> HIDE DEF file
  <2>2. e' = [e EXCEPT !.file = file, !.touched = running]
    BY <1>4 DEF file
  <2>3. /\ e' \in Engines /\ e.file' = file /\ e.proj' = e.proj /\ e.doc' = e.doc /\ e.vault' = e.vault
        /\ e.known' = e.known /\ e.awaiting' = e.awaiting /\ e.removal' = e.removal /\ e.out' = e.out
        /\ e.up' = e.up /\ e.hs' = e.hs /\ e.overruled' = e.overruled /\ e.early' = e.early
    BY <1>1, <1>3, <2>1, <2>2 DEF Engines
  <2>4. Read(e)' = Read(e) \cup {m} /\ Base(e)' = Base(e) /\ Waits' = Waits /\ Meant(e)' = Meant(e)
    BY <1>2, <1>3, <1>4, <2>1, <2>3 DEF Read, Base, Waits, Meant, file
  <2>5. ASSUME ~ e.early PROVE Whole(e, Waits)' /\ Once(e)'
    <3>1. Whole(e, Waits) /\ Once(e)
      BY <1>1, <2>5 DEF Kept
    <3>2. Whole(e, Waits)'
      BY <1>2, <1>4, <2>1, <2>3, <2>4, <3>1 DEF Whole, MarksOf
    <3>3. m \notin MarksOf(srv.doc)
      BY <1>4, <3>1 DEF Whole
    <3>4. T(m) \notin srv.doc.ins
      <4>1. srv.doc \in Doc
        BY <1>1 DEF World
      <4> QED BY <3>3, <4>1, DocsAre
    <3>5. Once(e)'
      BY <1>2, <2>3, <2>4, <3>1, <3>4 DEF Once, MayRead, HasOld
    <3> QED BY <3>2, <3>5
  <2> QED BY <1>2, <1>3, <1>4, <2>1, <2>2, <2>5, FileSetKeeps
<1>5. ASSUME NEW m \in e.file, e' = [e EXCEPT !.file = @ \ {m}, !.touched = running],
             made' = made, cut' = cut \cup {m}
      PROVE  LinkInv'
  <2> DEFINE file == e.file \ {m}
  <2>1. file \in Reads /\ file # NoText /\ m \in Marks
    BY <1>3, LinkAssumption DEF Reads
  <2> HIDE DEF file
  <2>2. e' = [e EXCEPT !.file = file, !.touched = running]
    BY <1>5 DEF file
  <2>3. /\ e' \in Engines /\ e.file' = file /\ e.proj' = e.proj /\ e.doc' = e.doc /\ e.vault' = e.vault
        /\ e.known' = e.known /\ e.awaiting' = e.awaiting /\ e.removal' = e.removal /\ e.out' = e.out
        /\ e.up' = e.up /\ e.hs' = e.hs /\ e.overruled' = e.overruled /\ e.early' = e.early
    BY <1>1, <1>3, <2>1, <2>2 DEF Engines
  <2>4. /\ Read(e)' = Read(e) \ {m} /\ Base(e)' = Base(e) /\ Waits' = Waits
        /\ Meant(e)' = Meant(e) \cup {m}
    BY <1>2, <1>3, <1>5, <2>1, <2>3 DEF Read, Base, Waits, Meant, file
  <2>5. ASSUME ~ e.early PROVE Whole(e, Waits)' /\ Once(e)'
    <3>1. Whole(e, Waits) /\ Once(e)
      BY <1>1, <2>5 DEF Kept
    <3>2. Whole(e, Waits)'
      BY <1>2, <1>5, <2>1, <2>3, <2>4, <3>1 DEF Whole, MarksOf
    <3>6. e.known => \A n \in Read(e) \ Base(e) : T(n) \notin srv.doc.ins
      BY <3>1 DEF Once
    <3>7. \A n \in Read(e)' \ Base(e)' : n \in Read(e) \ Base(e)
      BY <2>4
    <3>5. Once(e)'
      BY <1>2, <2>3, <2>4, <3>1 DEF Once, MayRead, HasOld
    <3> QED BY <3>2, <3>5
  <2> QED BY <1>2, <1>3, <1>5, <2>1, <2>2, <2>5, FileSetKeeps
<1> QED BY <1>4, <1>5 DEF Save

LEMMA DeleteKeeps == ASSUME LinkInv, Delete PROVE LinkInv'
<1>1. /\ World /\ e \in Engines /\ Plain /\ Kept(e, Waits) /\ Born(e)
  BY RunningIs, TypesAre DEF LinkInv
<1>2. /\ User /\ e.file # NoText /\ UNCHANGED <<down, server>> /\ srv' = srv /\ role' = role
      /\ running' = running /\ outcome' = outcome /\ made' = made /\ cut' = cut \cup e.file
      /\ e' = [e EXCEPT !.file = NoText, !.touched = running]
  BY DEF Delete, User, server, fixed
<1>3. Read(e) = e.file /\ e.file \in SUBSET Marks /\ running \in BOOLEAN /\ Base(e) \subseteq Marks
      /\ Old \subseteq made /\ made \subseteq Marks /\ cut \subseteq Marks /\ NoText \in Reads
  BY <1>1, <1>2, TextsAre DEF Born, Unborn, Plain, Reads
<1>4. /\ e' \in Engines /\ e.file' = NoText /\ e.proj' = e.proj /\ e.doc' = e.doc /\ e.vault' = e.vault
      /\ e.known' = e.known /\ e.awaiting' = e.awaiting /\ e.removal' = e.removal /\ e.out' = e.out
      /\ e.up' = e.up /\ e.hs' = e.hs /\ e.overruled' = e.overruled /\ e.early' = e.early
  BY <1>1, <1>2, <1>3 DEF Engines
<1>5. /\ Read(e)' = {} /\ Base(e)' = Base(e) /\ Waits' = Waits
      /\ Meant(e)' = Meant(e) \cup Read(e)
  BY <1>2, <1>3, <1>4 DEF Read, Base, Waits, Meant
<1>6. ASSUME ~ e.early PROVE Whole(e, Waits)' /\ Once(e)'
  <2>1. Whole(e, Waits) /\ Once(e)
    BY <1>1, <1>6 DEF Kept
  <2>2. Base(e) \subseteq Meant(e)'
    <3>1. CASE e.known
      BY <1>2, <1>5, <2>1, <3>1 DEF Whole
    <3>2. CASE ~ e.known
      BY <2>1, <3>2 DEF Whole, Base
    <3> QED BY <3>1, <3>2
  <2>3. Whole(e, Waits)'
    BY <1>2, <1>4, <1>5, <2>1, <2>2 DEF Whole, MarksOf
  <2>4. Once(e)'
    BY <1>2, <1>4, <1>5, <2>1 DEF Once, MayRead, HasOld
  <2> QED BY <2>3, <2>4
<1> QED BY <1>2, <1>3, <1>6, FileSetKeeps

LEMMA BringKeeps == ASSUME LinkInv, Bring PROVE LinkInv'
<1>1. /\ World /\ e \in Engines /\ Plain /\ Kept(e, Waits)
  BY RunningIs, TypesAre DEF LinkInv
<1>2. /\ User /\ e.file = NoText /\ ~ e.known /\ UNCHANGED <<down, server>> /\ srv' = srv /\ role' = role
      /\ running' = running /\ outcome' = outcome /\ made' = made \cup Old /\ cut' = cut
      /\ e' = [e EXCEPT !.file = Old, !.touched = running]
  BY DEF Bring, User, server, fixed
<1>3. /\ Old \in Reads /\ Old # NoText /\ Old \subseteq Marks /\ made' \subseteq Marks /\ cut' \subseteq Marks
      /\ running \in BOOLEAN /\ Old \subseteq made'
  BY <1>1, <1>2, LinkAssumption DEF Reads, Plain
<1>4. /\ e' \in Engines /\ e.file' = Old /\ e.proj' = e.proj /\ e.doc' = e.doc /\ e.vault' = e.vault
      /\ e.known' = e.known /\ e.awaiting' = e.awaiting /\ e.removal' = e.removal /\ e.out' = e.out
      /\ e.up' = e.up /\ e.hs' = e.hs /\ e.overruled' = e.overruled /\ e.early' = e.early
  BY <1>1, <1>2, <1>3 DEF Engines
<1>5. /\ Read(e)' = Old /\ Base(e)' = Base(e) /\ Waits' = Waits /\ Meant(e)' = Meant(e) /\ Read(e) = {}
  BY <1>2, <1>3, <1>4 DEF Read, Base, Waits, Meant
<1>6. ASSUME ~ e.early PROVE Whole(e, Waits)' /\ Once(e)'
  <2>1. Whole(e, Waits) /\ Once(e)
    BY <1>1, <1>6 DEF Kept
  <2>2. Base(e) = {}
    BY <1>2, <2>1 DEF Whole, Base
  <2>3. Whole(e, Waits)'
    BY <1>2, <1>4, <1>5, <2>1, <2>2 DEF Whole, MarksOf
  <2>4. Once(e)'
    BY <1>2, <1>4, <1>5, <2>1, <2>2 DEF Once, MayRead, HasOld
  <2> QED BY <2>3, <2>4
<1> QED BY <1>2, <1>3, <1>6, FileSetKeeps

LEMMA SentStill ==
  ASSUME srv' = srv, role' = role, first' = first, Sent(e') PROVE Sent(e)'
<1>1. Handed(e') => Handed(e)'
  BY DEF Handed, Lands, Gets, GetsOut
<1>2. Entrusted(e') => Entrusted(e)'
  BY DEF Entrusted, Leads, JoinEntry, Prefers
<1> QED BY <1>1, <1>2 DEF Sent

LEMMA TypeKeeps == ASSUME LinkInv, Type PROVE LinkInv'
<1> DEFINE b == Begun(e)
<1>1. PICK m \in Marks \ made :
        /\ e' = [Edited(b, [e.doc EXCEPT !.ins = @ \cup {<<m, "here">>}]) EXCEPT !.dirty = TRUE]
        /\ made' = made \cup {m}
  BY DEF Type
<1>2. /\ User /\ running /\ e.known /\ UNCHANGED <<down, server, cut>> /\ srv' = srv /\ subs' = subs
      /\ down' = down /\ cut' = cut /\ role' = role /\ first' = first /\ running' = running
  BY DEF Type, User, server, fixed
<1>3. /\ World /\ e \in Engines /\ Plain /\ Replicas /\ Good(e) /\ OnWire(down)
  BY <1>2, RunningIs, TypesAre DEF LinkInv
<1>4. Sent(e) /\ Asks(e) /\ Born(e) /\ Kept(e, e.awaiting)
  BY <1>3 DEF Good
<1>5. /\ b \in Engines /\ Good(b) /\ b = [e EXCEPT !.early = b.early]
      /\ ~ b.early => ~ e.early /\ (e.doc # Empty \/ HasOld(e.doc.ins))
  BY <1>3, BegunGood
<1> HIDE DEF b
<1>6. b.early \in BOOLEAN /\ e.doc \in Doc /\ Sent(b)
  BY <1>3, <1>5, FieldsAre DEF Good
<1>7. /\ b.file = e.file /\ b.proj = e.proj /\ b.doc = e.doc /\ b.vault = e.vault /\ b.known = e.known
      /\ b.awaiting = e.awaiting /\ b.removal = e.removal /\ b.out = e.out /\ b.up = e.up
      /\ b.hs = e.hs /\ b.overruled = e.overruled
  BY <1>3, <1>5 DEF Engines
<1> DEFINE doc == Changed(e.doc, {m}, {})
           r == Edited(b, doc)
<1>8. /\ doc \in Doc /\ Within(e.doc, doc) /\ MarksOf(doc) = MarksOf(e.doc) \cup {m}
      /\ \A n \in Marks : /\ H(n) \in doc.ins <=> H(n) \in e.doc.ins \/ n = m
                          /\ T(n) \in doc.ins <=> T(n) \in e.doc.ins
  <2>1. {m} \in SUBSET Marks /\ {} \in SUBSET e.doc.ins
    OBVIOUS
  <2> QED BY <1>6, <2>1, PutIn
<1>9. doc = [e.doc EXCEPT !.ins = @ \cup {<<m, "here">>}] /\ doc.del = e.doc.del
  <2>1. {<<n, "here">> : n \in {m}} = {<<m, "here">>} /\ e.doc.del \cup {} = e.doc.del
    OBVIOUS
  <2>2. doc = [ins |-> e.doc.ins \cup {<<m, "here">>}, del |-> e.doc.del]
    BY <2>1 DEF Changed
  <2>3. e.doc = [ins |-> e.doc.ins, del |-> e.doc.del]
    BY <1>6 DEF Doc
  <2> QED BY <2>2, <2>3
<1> HIDE DEF doc
<1>10. /\ r \in Engines /\ Sent(r) /\ r = [b EXCEPT !.doc = doc, !.up = r.up]
  BY <1>5, <1>6, <1>7, <1>8, EditedDoes
<1>11. e' = [r EXCEPT !.dirty = TRUE]
  BY <1>1, <1>9
<1> HIDE DEF r
<1>12. /\ r.file = b.file /\ r.proj = b.proj /\ r.doc = doc /\ r.vault = b.vault /\ r.known = b.known
       /\ r.awaiting = b.awaiting /\ r.out = b.out /\ r.hs = b.hs
       /\ r.overruled = b.overruled /\ r.early = b.early
  BY <1>5, <1>10 DEF Engines
<1>13. /\ e' \in Engines /\ e'.file = r.file /\ e'.proj = r.proj /\ e'.doc = r.doc /\ e'.vault = r.vault
       /\ e'.known = r.known /\ e'.awaiting = r.awaiting /\ e'.out = r.out /\ e'.up = r.up
       /\ e'.hs = r.hs /\ e'.overruled = r.overruled /\ e'.early = r.early
  BY <1>10, <1>11 DEF Engines
<1>14. /\ e.file' = e.file /\ e.proj' = e.proj /\ e.doc' = doc /\ e.known' = e.known
       /\ e.awaiting' = e.awaiting /\ e.out' = e.out /\ e.hs' = e.hs /\ e.overruled' = e.overruled
       /\ e.early' = b.early
  BY <1>7, <1>12, <1>13
<1>15. Sent(e)'
  <2>1. Sent(e')
    BY <1>10, <1>13, SentSame
  <2> QED BY <1>2, <2>1, SentStill
<1>16. Asks(e)'
  BY <1>4, <1>14 DEF Asks
<1>17. Born(e)'
  <2>1. Old \subseteq made
    BY <1>2, <1>3, KnownIsBorn
  <2> QED BY <1>1, <2>1 DEF Born
<1>18. OnWire(down)'
  <2> SUFFICES ASSUME NEW i \in 1 .. Len(down) PROVE Comes(down[i], e.early)'
    BY <1>2 DEF OnWire
  <2>1. Comes(down[i], e.early)
    BY <1>3 DEF OnWire
  <2>2. Comes(down[i], b.early)
    BY <1>5, <2>1 DEF Comes
  <2> QED BY <1>2, <1>14, <2>2, ComesStill
<1>19. ASSUME ~ b.early PROVE Whole(e, Waits)' /\ Once(e)'
  <2>1. Whole(e, e.awaiting) /\ Once(e)
    BY <1>4, <1>5, <1>19 DEF Kept
  <2>2. Waits' = e.awaiting /\ Read(e)' = Read(e) /\ Base(e)' = Base(e) /\ Meant(e)' = Meant(e)
        /\ MarksOf(e.doc)' = MarksOf(doc) /\ MarksOf(srv.doc)' = MarksOf(srv.doc)
    BY <1>2, <1>14 DEF Waits, Read, Base, Meant, MarksOf
  <2>3. Whole(e, Waits)'
    <3>1. /\ e.doc'.del = e.doc.del /\ srv.doc'.del = srv.doc.del /\ srv'.doc.del = srv.doc.del
          /\ e'.doc.del = e.doc.del
      BY <1>2, <1>9, <1>14
    <3>2. /\ Read(e)' \cup Base(e)' \cup MarksOf(e.doc)' \cup MarksOf(srv.doc)' \subseteq made'
          /\ made' \subseteq Meant(e)' \cup Read(e)' \cup MarksOf(e.doc)' \cup MarksOf(srv.doc)'
      BY <1>1, <1>8, <2>1, <2>2 DEF Whole
    <3>3. \A i \in (e.doc.del)' \cup (srv.doc.del)' : i[1] \in made' /\ i[1] \in Meant(e)'
      BY <1>1, <2>1, <2>2, <3>1 DEF Whole
    <3>4. /\ ~ Waits' => Base(e)' \subseteq MarksOf(e.doc)' \cup Meant(e)'
          /\ e.file' = NoText => Base(e)' \subseteq MarksOf(e.doc)' \cup Meant(e)'
      BY <1>8, <1>14, <2>1, <2>2 DEF Whole
    <3>5. /\ e.known' /\ e.file' # NoText => e.proj' # NoText /\ Base(e)' \ Read(e)' \subseteq Meant(e)'
          /\ ~ e.known' => e.proj' = NoText
      BY <1>14, <2>1, <2>2 DEF Whole
    <3> QED BY <3>2, <3>3, <3>4, <3>5 DEF Whole
  <2>4. T(m) \notin srv.doc.ins
    <3>1. m \notin MarksOf(srv.doc) /\ srv.doc \in Doc
      BY <1>1, <1>3, <2>1 DEF Whole, World
    <3> QED BY <3>1, DocsAre
  <2>5. (MayRead("note")' <=> MayRead("note")) /\ \A X : HasOld(X)' <=> HasOld(X)
    BY <1>2 DEF MayRead, HasOld
  <2>6. MayRead("note") => HasOld(doc.ins)
    <3>1. MayRead("note") => HasOld(e.doc.ins)
      BY <1>5, <1>19, <2>1 DEF Once
    <3> QED BY <1>8, <3>1 DEF HasOld, Within
  <2>7. e.doc.ins \subseteq doc.ins
    BY <1>8 DEF Within
  <2>8. Once(e)'
    BY <1>2, <1>8, <1>9, <1>14, <2>1, <2>2, <2>4, <2>5, <2>6, <2>7 DEF Once
  <2> QED BY <2>3, <2>8
<1>20. Kept(e, Waits)'
  BY <1>14, <1>19 DEF Kept
<1>21. /\ srv' \in [doc : Doc, vault : Entries] /\ down' \in Seq(LinkFrames)
       /\ made' \subseteq Marks /\ cut' \subseteq Marks
  BY <1>1, <1>2, <1>3 DEF Replicas, Plain
<1> QED BY <1>2, <1>13, <1>14, <1>15, <1>16, <1>17, <1>18, <1>20, <1>21, UserRest

\* What another replica does goes to whoever is subscribed.
LEMMA Relayed ==
  ASSUME LinkInv, e' = e, NEW frame \in LinkFrames, ToSubscriber(frame),
         \A f \in LinkFrames : Comes(f, e.early) => Comes(f, e.early)',
         frame.of \in subs => Comes(frame, e.early)'
  PROVE  down' \in Seq(LinkFrames) /\ (down' = down \/ e.out) /\ OnWire(down)'
<1>1. Joint /\ Replicas /\ OnWire(down)
  BY TypesAre DEF LinkInv
<1>2. e.out \in BOOLEAN /\ down \in Seq(LinkFrames)
  BY <1>1, FieldsAre DEF Replicas
<1>3. CASE frame.of \in subs
  <2>1. e.out
    BY <1>1, <1>2, <1>3 DEF Joint
  <2>2. down' = Append(down, frame)
    BY <1>3 DEF ToSubscriber
  <2>3. /\ down' \in Seq(LinkFrames) /\ Len(down') = Len(down) + 1 /\ Len(down) \in Nat
        /\ \A p \in 1 .. Len(down) : down'[p] = down[p]
        /\ down'[Len(down) + 1] = frame
    BY <1>2, <2>2, AppendIs
  <2>4. ASSUME NEW i \in 1 .. Len(down') PROVE Comes(down[i], e.early)'
    <3>1. PICK f \in LinkFrames : f = down'[i]
      BY <2>3
    <3>2. Comes(f, e.early)'
      <4>1. CASE i \in 1 .. Len(down)
        BY <1>1, <2>3, <3>1, <4>1 DEF OnWire
      <4>2. CASE i \notin 1 .. Len(down)
        BY <1>3, <2>3, <3>1, <4>2
      <4> QED BY <4>1, <4>2
    <3> QED BY <3>1, <3>2 DEF Comes
  <2> QED BY <2>1, <2>3, <2>4 DEF OnWire
<1>4. CASE frame.of \notin subs
  <2>1. down' = down
    BY <1>4 DEF ToSubscriber
  <2> QED BY <1>1, <1>2, <2>1 DEF OnWire
<1> QED BY <1>3, <1>4

LEMMA RemoteEditKeeps == ASSUME LinkInv, RemoteEdit PROVE LinkInv'
<1>1. PICK doc \in {[srv.doc EXCEPT !.ins = @ \cup {<<m, "there">>}] : m \in Marks \ made}
                 \cup {[srv.doc EXCEPT !.del = @ \cup {i}] : i \in Shown(srv.doc)} :
        /\ srv' = [srv EXCEPT !.doc = doc]
        /\ made' = made \cup Text(doc)
        /\ cut' = cut \cup (Text(srv.doc) \ Text(doc))
        /\ ToSubscriber(Update(srv.doc, doc))
  BY DEF RemoteEdit
<1>2. /\ User /\ srv.vault.listed /\ e' = e /\ subs' = subs /\ role' = role /\ first' = first
      /\ running' = running /\ outcome' = outcome
  BY DEF RemoteEdit, User, fixed
<1>3. /\ World /\ e \in Engines /\ Plain /\ Joint /\ Born(e) /\ Kept(e, Waits) /\ Sent(e) /\ Asks(e)
  BY RunningIs, TypesAre DEF LinkInv
<1>4. srv \in [doc : Doc, vault : Entries] /\ srv.doc \in Doc /\ srv.vault \in Entries /\ first \in Places
      /\ made \subseteq Marks /\ cut \subseteq Marks
  BY <1>3 DEF World
<1>5. Old \subseteq made
  <2>1. srv.vault # NoEntry
    BY <1>2 DEF NoEntry
  <2> QED BY <1>3, <2>1 DEF Born, Unborn
\* What comes to be there of the text, and what goes.
<1>6. \/ \E m \in Marks \ made : doc = [ins |-> srv.doc.ins \cup {T(m)}, del |-> srv.doc.del]
      \/ \E i \in Shown(srv.doc) : doc = [ins |-> srv.doc.ins, del |-> srv.doc.del \cup {i}]
  <2>1. srv.doc = [ins |-> srv.doc.ins, del |-> srv.doc.del]
    BY <1>4, DocsAre
  <2>2. \A X : [srv.doc EXCEPT !.ins = @ \cup X] = [ins |-> srv.doc.ins \cup X, del |-> srv.doc.del]
    BY <2>1
  <2>3. \A X : [srv.doc EXCEPT !.del = @ \cup X] = [ins |-> srv.doc.ins, del |-> srv.doc.del \cup X]
    BY <2>1
  <2> QED BY <2>2, <2>3 DEF T
<1>7. /\ doc \in Doc /\ Within(srv.doc, doc)
      /\ \A m \in made : T(m) \in doc.ins <=> T(m) \in srv.doc.ins
      /\ \A m \in Marks : H(m) \in doc.ins <=> H(m) \in srv.doc.ins
  <2>1. CASE \E m \in Marks \ made : doc = [ins |-> srv.doc.ins \cup {T(m)}, del |-> srv.doc.del]
    <3>1. PICK m \in Marks \ made : doc = [ins |-> srv.doc.ins \cup {T(m)}, del |-> srv.doc.del]
      BY <2>1
    <3>2. doc \in Doc
      BY <1>4, <3>1, MarksIn DEF Doc
    <3>3. \A n \in made : T(n) # T(m)
      BY DEF T
    <3>4. \A n \in Marks : H(n) # T(m)
      BY DEF H, T
    <3> QED BY <3>1, <3>2, <3>3, <3>4 DEF Within
  <2>2. CASE \E i \in Shown(srv.doc) : doc = [ins |-> srv.doc.ins, del |-> srv.doc.del \cup {i}]
    <3>1. PICK i \in Shown(srv.doc) : doc = [ins |-> srv.doc.ins, del |-> srv.doc.del \cup {i}]
      BY <2>2
    <3>2. doc \in Doc
      BY <1>4, <3>1 DEF Doc, Shown
    <3> QED BY <3>1, <3>2 DEF Within
  <2> QED BY <1>6, <2>1, <2>2
<1>8. /\ srv' \in [doc : Doc, vault : Entries] /\ srv.doc' = doc /\ srv.vault' = srv.vault
      /\ srv'.doc = doc /\ srv'.vault = srv.vault
  BY <1>1, <1>4, <1>7
<1>9. Text(doc) \subseteq Marks /\ Text(srv.doc) \subseteq Marks
      /\ made' \subseteq Marks /\ cut' \subseteq Marks /\ Old \subseteq made'
      /\ Text(srv.doc) \subseteq MarksOf(srv.doc)
  BY <1>1, <1>4, <1>5, <1>7, DocsAre
<1>10. (\A X : HasOld(X)' <=> HasOld(X)) /\ (MayRead("note")' <=> MayRead("note"))
       /\ (\A a : Leads(srv.vault, a)' <=> Leads(srv.vault, a))
  <2>1. \A X : HasOld(X)' <=> HasOld(X)
    BY <1>5, <1>7, <1>8 DEF HasOld
  <2>2. MayRead("note")' <=> MayRead("note")
    BY <1>2 DEF MayRead
  <2>3. \A a : Leads(srv.vault, a)' <=> Leads(srv.vault, a)
    BY <1>2, <1>8 DEF Leads, JoinEntry, Prefers
  <2> QED BY <2>1, <2>2, <2>3
<1>11. Sent(e)'
  <2>1. Handed(e) => Handed(e)'
    <3>1. srv.doc.ins \subseteq doc.ins /\ srv.doc.del \subseteq doc.del
      BY <1>7 DEF Within
    <3>2. \A k : Lands(e.up, k) => Lands(e.up, k)'
      BY <1>2, <1>8, <3>1 DEF Lands
    <3>3. \A k : /\ Gets(e.doc.ins, e.up, k) => Gets(e.doc.ins, e.up, k)'
                 /\ GetsOut(e.doc.del, e.up, k) => GetsOut(e.doc.del, e.up, k)'
      BY <1>2, <1>8, <3>1 DEF Gets, GetsOut
    <3> QED BY <1>2, <3>2, <3>3 DEF Handed
  <2>2. Entrusted(e) => Entrusted(e)'
    BY <1>2, <1>8, LeadsSame DEF Entrusted
  <2> QED BY <1>2, <1>3, <2>1, <2>2 DEF Sent
<1>12. Asks(e)' /\ Born(e)'
  BY <1>2, <1>3, <1>9 DEF Asks, Born
<1>13. down' \in Seq(LinkFrames) /\ (down' = down \/ e.out) /\ OnWire(down)'
  <2>1. /\ Update(srv.doc, doc) \in NoteData /\ Update(srv.doc, doc).kind = "update"
        /\ Update(srv.doc, doc).on = srv.doc.ins
        /\ Update(srv.doc, doc).data = [ins |-> doc.ins \ srv.doc.ins, del |-> doc.del \ srv.doc.del]
    BY <1>4, <1>7, UpdateIs
  <2>2. PICK frame \in NoteData :
           /\ frame = Update(srv.doc, doc) /\ frame.kind = "update" /\ frame.on = srv.doc.ins
           /\ frame.data = [ins |-> doc.ins \ srv.doc.ins, del |-> doc.del \ srv.doc.del]
    BY <2>1
  <2>3. frame \in LinkFrames /\ frame.of = "note" /\ frame \notin VaultData
    BY FramesAre DEF LinkFrames
  <2>4. ASSUME NEW f \in LinkFrames, Comes(f, e.early) PROVE Comes(f, e.early)'
    <3>1. Within(f.data, srv.doc) => Within(f.data, doc)
      BY <1>7 DEF Within
    <3> QED BY <1>2, <1>8, <1>10, <2>4, <3>1 DEF Comes
  <2>5. frame.of \in subs => Comes(frame, e.early)'
    <3> SUFFICES ASSUME frame.of \in subs PROVE Comes(frame, e.early)'
      OBVIOUS
    <3>1. MayRead("note")
      BY <1>3, <2>3 DEF Joint
    <3>2. Within(frame.data, doc)
      BY <2>2 DEF Within
    <3>3. HasOld(srv.doc.ins)
      BY DEF HasOld
    <3>4. HasOld(frame.on)
      BY <2>2, <3>3
    <3> QED BY <1>8, <1>10, <2>2, <2>3, <3>1, <3>2, <3>4 DEF Comes
  <2>6. ToSubscriber(frame)
    BY <1>1, <2>2
  <2> QED BY <1>2, <2>3, <2>4, <2>5, <2>6, Relayed
<1>14. ASSUME ~ e.early PROVE Whole(e, Waits)' /\ Once(e)'
  <2>1. Whole(e, Waits) /\ Once(e)
    BY <1>3, <1>14 DEF Kept
  <2>2. /\ Waits' = Waits /\ Read(e)' = Read(e) /\ Base(e)' = Base(e) /\ MarksOf(e.doc)' = MarksOf(e.doc)
        /\ MarksOf(srv.doc)' = MarksOf(doc) /\ Meant(e)' = Meant(e) \cup (Text(srv.doc) \ Text(doc))
    BY <1>1, <1>2, <1>8 DEF Waits, Read, Base, MarksOf, Meant
  <2>3. Read(e) \cup Base(e) \cup MarksOf(e.doc) \cup MarksOf(srv.doc) \subseteq made
    BY <2>1 DEF Whole
  <2>4. /\ made' \subseteq made \cup MarksOf(doc) /\ MarksOf(srv.doc) \subseteq MarksOf(doc)
        /\ MarksOf(doc) \subseteq made' /\ made \subseteq made'
        /\ \A i \in doc.del : i[1] \in made /\ i[1] \in Meant(e) \cup (Text(srv.doc) \ Text(doc))
    <3>1. CASE \E m \in Marks \ made : doc = [ins |-> srv.doc.ins \cup {T(m)}, del |-> srv.doc.del]
      <4>1. PICK m \in Marks \ made : doc = [ins |-> srv.doc.ins \cup {T(m)}, del |-> srv.doc.del]
        BY <3>1
      <4>2. MarksOf(doc) = MarksOf(srv.doc) \cup {m}
        <5>1. doc.ins = srv.doc.ins \cup {T(m)} /\ T(m)[1] = m
          BY <4>1, MarksIn
        <5> QED BY <5>1 DEF MarksOf
      <4>3. m \in Text(doc)
        <5>1. T(m) \notin srv.doc.del
          BY <2>1 DEF Whole, T
        <5> QED BY <4>1, <5>1 DEF Text, Shown, T
      <4>4. Text(doc) \subseteq MarksOf(doc)
        BY <1>7, DocsAre
      <4> QED BY <1>1, <2>1, <2>3, <4>1, <4>2, <4>3, <4>4 DEF Whole
    <3>2. CASE \E i \in Shown(srv.doc) : doc = [ins |-> srv.doc.ins, del |-> srv.doc.del \cup {i}]
      <4>1. PICK i \in Shown(srv.doc) : doc = [ins |-> srv.doc.ins, del |-> srv.doc.del \cup {i}]
        BY <3>2
      <4>2. MarksOf(doc) = MarksOf(srv.doc) /\ Text(doc) \subseteq MarksOf(doc)
        BY <1>7, <4>1, DocsAre DEF MarksOf
      <4>3. i \in srv.doc.ins /\ i \in Items /\ i[1] \in Text(srv.doc) /\ i[1] \in MarksOf(srv.doc)
        BY <1>4, <4>1, DocsAre DEF Shown, Text, MarksOf
      <4>4. i[1] \in Meant(e) \cup (Text(srv.doc) \ Text(doc))
        <5> SUFFICES ASSUME i[1] \in Text(doc) PROVE i[1] \in Meant(e)
          BY <4>3
        <5>1. PICK j \in Shown(doc) : j[1] = i[1]
          BY DEF Text
        <5>2. j \in srv.doc.ins /\ j # i /\ j \in Items
          BY <1>4, <4>1, DocsAre DEF Shown
        <5>3. H(i[1]) \in srv.doc.ins /\ T(i[1]) \in srv.doc.ins /\ i[1] \in Marks
          BY <4>3, <5>1, <5>2, ItemsAre
        <5>4. T(i[1]) \in e.doc.del
          BY <2>1, <5>3 DEF Once
        <5>5. T(i[1])[1] \in Meant(e)
          BY <2>1, <5>4 DEF Whole
        <5> QED BY <5>3, <5>5, MarksIn
      <4> QED BY <1>1, <2>1, <2>3, <4>1, <4>2, <4>3, <4>4 DEF Whole
    <3> QED BY <1>6, <3>1, <3>2
  <2>5. Whole(e, Waits)'
    <3>1. /\ Read(e)' \cup Base(e)' \cup MarksOf(e.doc)' \cup MarksOf(srv.doc)' \subseteq made'
          /\ made' \subseteq Meant(e)' \cup Read(e)' \cup MarksOf(e.doc)' \cup MarksOf(srv.doc)'
      BY <2>1, <2>2, <2>3, <2>4 DEF Whole
    <3>2. \A i \in (e.doc.del)' \cup (srv.doc.del)' : i[1] \in made' /\ i[1] \in Meant(e)'
      BY <1>2, <1>8, <2>1, <2>2, <2>4 DEF Whole
    <3>3. /\ ~ Waits' => Base(e)' \subseteq MarksOf(e.doc)' \cup Meant(e)'
          /\ e.file' = NoText => Base(e)' \subseteq MarksOf(e.doc)' \cup Meant(e)'
          /\ e.known' /\ e.file' # NoText => e.proj' # NoText /\ Base(e)' \ Read(e)' \subseteq Meant(e)'
          /\ ~ e.known' => e.proj' = NoText
      BY <1>2, <2>1, <2>2 DEF Whole
    <3> QED BY <3>1, <3>2, <3>3 DEF Whole
  <2>6. Once(e)'
    <3>1. \A m \in Marks : H(m) \in e.doc.ins => m \in made
      BY <1>3, <2>3, DocsAre, FieldsAre
    <3>2. \A m \in Marks : T(m) \in srv.doc.ins => T(m) \in doc.ins
      BY <1>7 DEF Within
    <3> QED BY <1>2, <1>7, <1>8, <1>10, <2>1, <2>2, <2>3, <3>1, <3>2 DEF Once
  <2> QED BY <2>5, <2>6
<1>15. Kept(e, Waits)'
  BY <1>2, <1>14 DEF Kept
<1> QED BY <1>2, <1>3, <1>8, <1>9, <1>11, <1>12, <1>13, <1>15, UserRest

LEMMA RemoteEntryKeeps == ASSUME LinkInv, RemoteEntry PROVE LinkInv'
<1>1. PICK entry : /\ entry = IF srv.vault.listed THEN [srv.vault EXCEPT !.listed = FALSE]
                              ELSE SetEntry(srv.vault, "there")
                   /\ srv' = [srv EXCEPT !.vault = entry] /\ ToSubscriber(EntryUpdate(entry))
  BY DEF RemoteEntry
<1>2. /\ User /\ srv.vault.by # <<>> /\ e' = e /\ subs' = subs /\ role' = role /\ first' = first
      /\ running' = running /\ outcome' = outcome /\ made' = made /\ cut' = cut
  BY DEF RemoteEntry, User, fixed, meant
<1>3. /\ World /\ e \in Engines /\ Plain /\ Joint /\ Born(e) /\ Kept(e, Waits) /\ Sent(e) /\ Asks(e)
  BY RunningIs, TypesAre DEF LinkInv
<1>4. srv \in [doc : Doc, vault : Entries] /\ srv.doc \in Doc /\ srv.vault \in Entries /\ first \in Places
      /\ made \subseteq Marks /\ cut \subseteq Marks
  BY <1>3 DEF World
<1>5. Old \subseteq made
  <2>1. srv.vault # NoEntry
    BY <1>2 DEF NoEntry
  <2> QED BY <1>3, <2>1 DEF Born, Unborn
<1>6. entry \in Entries /\ Leads(entry, srv.vault)
  BY <1>1, <1>4, PlacesAre, SetLeads
<1>7. /\ srv' \in [doc : Doc, vault : Entries] /\ srv.doc' = srv.doc /\ srv.vault' = entry
      /\ srv'.doc = srv.doc /\ srv'.vault = entry
  BY <1>1, <1>4, <1>6
<1>8. \A a \in Entries : Leads(srv.vault, a) => Leads(srv.vault, a)'
  <2> SUFFICES ASSUME NEW a \in Entries, Leads(srv.vault, a) PROVE Leads(srv.vault, a)'
    OBVIOUS
  <2>1. Leads(entry, a)
    BY <1>4, <1>6, LeadsOn
  <2> QED BY <1>2, <1>7, <2>1, LeadsSame
<1>9. Sent(e)'
  <2>1. Handed(e) => Handed(e)'
    BY <1>2, <1>7 DEF Handed, Lands, Gets, GetsOut
  <2>2. Entrusted(e) => Entrusted(e)'
    <3>1. e.vault \in Entries
      BY <1>3, FieldsAre
    <3> QED BY <1>2, <1>8, <3>1, LeadsSame DEF Entrusted
  <2> QED BY <1>2, <1>3, <2>1, <2>2 DEF Sent
<1>10. Asks(e)' /\ Born(e)'
  BY <1>2, <1>3, <1>5 DEF Asks, Born
<1>11. down' \in Seq(LinkFrames) /\ (down' = down \/ e.out) /\ OnWire(down)'
  <2>1. EntryUpdate(entry) \in VaultData /\ EntryUpdate(entry).data = entry
    BY <1>6, VaultAnswerIs
  <2>2. PICK frame \in VaultData : frame = EntryUpdate(entry) /\ frame.data = entry
    BY <2>1
  <2>3. frame \in LinkFrames /\ frame \notin NoteData
    BY FramesAre DEF LinkFrames
  <2>4. ASSUME NEW f \in LinkFrames, Comes(f, e.early) PROVE Comes(f, e.early)'
    <3>1. f \in VaultData => Leads(srv.vault, f.data)'
      BY <1>8, <2>4, FramesAre DEF Comes
    <3>2. (\A X : HasOld(X)' <=> HasOld(X)) /\ (MayRead("note")' <=> MayRead("note"))
      BY <1>2, <1>7 DEF HasOld, MayRead
    <3> QED BY <1>2, <1>7, <2>4, <3>1, <3>2 DEF Comes
  <2>5. Comes(frame, e.early)'
    <3>1. Leads(entry, entry)
      BY <1>4, <1>6, LeadsEither
    <3>2. Leads(srv.vault, frame.data)'
      BY <1>2, <1>7, <2>2, <3>1, LeadsSame
    <3> QED BY <2>3, <3>2 DEF Comes
  <2>6. ToSubscriber(frame)
    BY <1>1, <2>2
  <2> QED BY <1>2, <2>3, <2>4, <2>5, <2>6, Relayed
<1>12. Kept(e, Waits)'
  BY <1>2, <1>3, <1>7 DEF Waits, Kept, Whole, Once, Read, Base, Meant, HasOld, MayRead
<1> QED BY <1>2, <1>3, <1>4, <1>7, <1>9, <1>10, <1>11, <1>12, UserRest

LEMMA ServeFrameKeeps == ASSUME LinkInv, ServeFrame PROVE LinkInv'
<1>1. e.up \in Seq(Sendable) /\ e.up # <<>>
  BY RunningIs, FieldsAre DEF ServeFrame
<1>2. e.up[1] \in Sendable
  BY <1>1, TailIs
<1>3. e.up[1].of \in Of
  BY <1>2, FramesAre
<1>4. CASE e.up[1].kind = "step1" /\ MayRead(e.up[1].of)
  BY <1>4, AskedKeeps
<1>5. CASE e.up[1].kind # "step1" /\ MayWrite(e.up[1].of)
  BY <1>3, <1>5, EntryTakenKeeps, TextTakenKeeps DEF Of
<1>6. CASE /\ ~ (e.up[1].kind = "step1" /\ MayRead(e.up[1].of))
           /\ ~ (e.up[1].kind # "step1" /\ MayWrite(e.up[1].of))
  BY <1>6, RefusedKeeps
<1> QED BY <1>4, <1>5, <1>6

LEMMA StaysAsItIs == ASSUME LinkInv, UNCHANGED linkVars PROVE LinkInv'
<1>1. /\ e' = e /\ running' = running /\ outcome' = outcome /\ link' = link /\ down' = down
      /\ srv' = srv /\ subs' = subs /\ once' = once /\ role' = role /\ first' = first
      /\ made' = made /\ cut' = cut /\ acts' = acts /\ breaks' = breaks
  BY DEF linkVars, server, fixed, meant, bounds
<1>2. /\ Plain /\ Joint /\ Replicas /\ Sent(e) /\ Asks(e) /\ Born(e) /\ Kept(e, Waits) /\ OnWire(down)
      /\ Reported
  BY TypesAre DEF LinkInv
<1>3. LinkTypes'
  <2>1. Plain' /\ Joint' /\ Replicas'
    BY <1>1, <1>2 DEF Plain, Joint, Replicas, MayRead
  <2> QED BY <2>1, TypesAre, PTL
<1>4. Sent(e)' /\ Asks(e)'
  BY <1>1, <1>2, SentStill DEF Asks
<1>5. Born(e)'
  BY <1>1, <1>2 DEF Born, Unborn
<1>6. Kept(e, Waits)'
  BY <1>1, <1>2 DEF Waits, Kept, Whole, Once, Read, Base, Meant, HasOld, MayRead
<1>7. OnWire(down)'
  <2> SUFFICES ASSUME NEW i \in 1 .. Len(down) PROVE Comes(down[i], e.early)'
    BY <1>1 DEF OnWire
  <2>1. Comes(down[i], e.early)
    BY <1>2 DEF OnWire
  <2> QED BY <1>1, <2>1, ComesStill
<1>8. Reported'
  BY <1>1, <1>2 DEF Reported
<1> QED BY <1>3, <1>4, <1>5, <1>6, <1>7, <1>8 DEF LinkInv

LEMMA NextKeeps == ASSUME LinkInv, [LinkNext]_linkVars PROVE LinkInv'
<1>1. CASE Runs
  BY <1>1, LaunchKeeps, ConnectKeeps, FinishKeeps, HandleNextKeeps, TakeTouchedKeeps, RemovedKeeps,
     WriteKeeps DEF Runs, Works
<1>2. CASE ServeFrame \/ Stop \/ Drop
  BY <1>2, ServeFrameKeeps, StopKeeps, DropKeeps
<1>3. CASE Others
  BY <1>3, SaveKeeps, DeleteKeeps, BringKeeps, TypeKeeps, RemoteEditKeeps, RemoteEntryKeeps DEF Others
<1>4. CASE UNCHANGED linkVars
  BY <1>4, StaysAsItIs
<1> QED BY <1>1, <1>2, <1>3, <1>4 DEF LinkNext

LEMMA InitLinked == ASSUME LinkInit PROVE LinkInv
<1> DEFINE there == srv.doc
<1>1. PICK lists \in BOOLEAN, sidecar \in BOOLEAN, file \in {Old, NoText} :
        /\ there \in {Empty, [ins |-> Old \X {"there"}, del |-> {}]}
        /\ lists => there # Empty
        /\ sidecar => there # Empty
        /\ srv = [doc |-> there,
                  vault |-> IF there = Empty THEN NoEntry ELSE [by |-> <<"there">>, listed |-> lists]]
        /\ e = [file |-> file,
                proj |-> IF sidecar THEN Old ELSE NoText,
                doc |-> IF sidecar THEN there ELSE Empty,
                vault |-> IF sidecar THEN [by |-> <<"there">>, listed |-> TRUE] ELSE NoEntry,
                known |-> sidecar, awaiting |-> FALSE, dirty |-> FALSE, touched |-> FALSE,
                removal |-> FALSE, out |-> FALSE, up |-> <<>>,
                hs |-> [of \in {"vault", "note"} |-> "none"],
                early |-> FALSE, overruled |-> {}]
        /\ made = (IF file = NoText THEN {} ELSE Old) \cup (IF there = Empty THEN {} ELSE Old)
  <2>1. PICK doc \in {Empty, [ins |-> Old \X {"there"}, del |-> {}]}, lists \in BOOLEAN,
             sidecar \in BOOLEAN, file \in {Old, NoText} :
          /\ lists => doc # Empty
          /\ sidecar => doc # Empty
          /\ srv = [doc |-> doc,
                    vault |-> IF doc = Empty THEN NoEntry ELSE [by |-> <<"there">>, listed |-> lists]]
          /\ e = [file |-> file,
                  proj |-> IF sidecar THEN Old ELSE NoText,
                  doc |-> IF sidecar THEN doc ELSE Empty,
                  vault |-> IF sidecar THEN [by |-> <<"there">>, listed |-> TRUE] ELSE NoEntry,
                  known |-> sidecar, awaiting |-> FALSE, dirty |-> FALSE, touched |-> FALSE,
                  removal |-> FALSE, out |-> FALSE, up |-> <<>>,
                  hs |-> [of \in {"vault", "note"} |-> "none"],
                  early |-> FALSE, overruled |-> {}]
          /\ made = (IF file = NoText THEN {} ELSE Old) \cup (IF doc = Empty THEN {} ELSE Old)
    BY DEF LinkInit
  <2>2. srv.doc = doc
    BY <2>1
  <2> QED BY <2>1, <2>2
<1> HIDE DEF there
<1>2. /\ e.file = file /\ e.proj = (IF sidecar THEN Old ELSE NoText)
      /\ e.doc = (IF sidecar THEN there ELSE Empty)
      /\ e.vault = (IF sidecar THEN [by |-> <<"there">>, listed |-> TRUE] ELSE NoEntry)
      /\ e.known = sidecar /\ ~ e.awaiting /\ ~ e.removal /\ ~ e.out /\ e.up = <<>>
      /\ e.hs = [of \in {"vault", "note"} |-> "none"] /\ ~ e.early /\ e.overruled = {}
  BY <1>1
<1>3. /\ srv.doc = there /\ srv.vault \in Entries
      /\ srv.vault = (IF there = Empty THEN NoEntry ELSE [by |-> <<"there">>, listed |-> lists])
  <2>1. <<"there">> \in Seq(Places) /\ <<>> \in Seq(Places)
    BY PlacesAre
  <2>2. NoEntry \in Entries /\ [by |-> <<"there">>, listed |-> lists] \in Entries
    BY <2>1 DEF NoEntry, Entries
  <2> QED BY <1>1, <2>2 DEF there
<1>4. /\ once \in BOOLEAN /\ role \in {"editor", "viewer", "outsider"} /\ first \in Places
      /\ running = FALSE /\ outcome = "open" /\ link = FALSE /\ down = <<>> /\ subs = {}
      /\ cut = {} /\ acts = 0 /\ breaks = 0
  BY DEF LinkInit
<1>5. /\ Old \subseteq Marks /\ Old # {} /\ Old # NoText /\ MaxActs \in Nat /\ MaxBreaks \in Nat
      /\ {} \subseteq Marks /\ {} # NoText
  BY LinkAssumption
<1>6. /\ Empty \in Doc /\ Empty.ins = {} /\ Empty.del = {} /\ there \in Doc /\ there.del = {}
      /\ there # Empty => there.ins = Old \X {"there"}
  <2>1. Old \X {"there"} \subseteq Items
    BY <1>5, PlacesAre DEF Items
  <2> QED BY <1>1, <2>1 DEF Empty, Doc
<1>7. Plain
  <2>1. 0 \in 0 .. MaxActs /\ 0 \in 0 .. MaxBreaks
    BY <1>5
  <2>2. made \subseteq Marks
    BY <1>1, <1>5
  <2> QED BY <1>4, <1>5, <2>1, <2>2 DEF Plain
<1>8. Joint
  BY <1>2, <1>4 DEF Joint
<1>9. e \in Engines
  <2>1. [of \in {"vault", "note"} |-> "none"] \in [Of -> Phases] /\ <<>> \in Seq(Sendable)
    BY HsNone
  <2>2. file \in Reads /\ (IF sidecar THEN Old ELSE NoText) \in Reads
    BY <1>5 DEF Reads
  <2>3. (IF sidecar THEN there ELSE Empty) \in Doc
    BY <1>6
  <2>4. (IF sidecar THEN [by |-> <<"there">>, listed |-> TRUE] ELSE NoEntry) \in Entries
    <3>1. <<"there">> \in Seq(Places) /\ <<>> \in Seq(Places)
      BY PlacesAre
    <3> QED BY <3>1 DEF NoEntry, Entries
  <2> QED BY <1>1, <2>1, <2>2, <2>3, <2>4 DEF Engines
<1>10. LinkTypes
  <2>1. srv \in [doc : Doc, vault : Entries] /\ down \in Seq(LinkFrames)
    BY <1>1, <1>3, <1>4, <1>6
  <2> QED BY <1>7, <1>8, <1>9, <2>1, TypesAre DEF Replicas
<1>11. Sent(e)
  BY <1>2, HsNone DEF Sent, Of
<1>12. Asks(e) /\ OnWire(down) /\ Reported
  BY <1>2, <1>4 DEF Asks, OnWire, Reported
<1>13. Born(e)
  BY <1>1, <1>2, <1>3, <1>4 DEF Born, Unborn
<1>14. MarksOf(there) = (IF there = Empty THEN {} ELSE Old) /\ MarksOf(Empty) = {}
  <2>1. MarksOf(Empty) = {}
    BY <1>6 DEF MarksOf
  <2>2. ASSUME there # Empty PROVE MarksOf(there) = Old
    <3>1. there.ins = Old \X {"there"}
      BY <1>6, <2>2
    <3>2. \A m \in Old : <<m, "there">> \in there.ins /\ <<m, "there">>[1] = m
      BY <3>1
    <3>3. \A i \in there.ins : i[1] \in Old
      BY <3>1
    <3> QED BY <3>2, <3>3 DEF MarksOf
  <2> QED BY <2>1, <2>2
<1>15. /\ Read(e) = (IF file = NoText THEN {} ELSE Old) /\ Base(e) = (IF sidecar THEN Old ELSE {})
       /\ MarksOf(e.doc) = (IF sidecar THEN Old ELSE {}) /\ e.doc.del = {}
  BY <1>1, <1>2, <1>5, <1>6, <1>14 DEF Read, Base
<1>16. Whole(e, Waits)
  <2>1. made = Read(e) \cup MarksOf(srv.doc)
    BY <1>1, <1>3, <1>14, <1>15
  <2>2. sidecar => there # Empty /\ MarksOf(srv.doc) = Old /\ MarksOf(e.doc) = Old
    BY <1>1, <1>3, <1>14, <1>15
  <2>3. Base(e) \subseteq MarksOf(e.doc) /\ MarksOf(e.doc) \subseteq MarksOf(srv.doc)
    BY <1>15, <2>2
  <2>4. e.doc.del \cup srv.doc.del = {}
    BY <1>3, <1>6, <1>15
  <2>5. e.known /\ e.file # NoText => e.proj # NoText /\ Base(e) \ Read(e) = {}
    BY <1>2, <1>5, <1>15
  <2>6. ~ e.known => e.proj = NoText
    BY <1>2
  <2> QED BY <2>1, <2>3, <2>4, <2>5, <2>6 DEF Whole
<1>17. /\ \A m \in Marks : H(m) \notin there.ins /\ H(m) \notin e.doc.ins
       /\ \A m \in Marks : T(m) \in e.doc.ins => T(m) \in there.ins
  BY <1>2, <1>6 DEF H, T
<1>18. Once(e)
  <2>1. sidecar => e.doc = there
    BY <1>2
  <2>2. e.doc # Empty => e.doc = there
    BY <1>2
  <2>3. e.doc # Empty => HasOld(e.doc.ins)
    BY <1>3, <2>2 DEF HasOld
  <2>4. \A m \in Read(e) \cup Base(e) : m \in Old
    BY <1>15
  <2>5. e.known => Read(e) \ Base(e) = {}
    BY <1>2, <1>15
  <2> QED BY <1>3, <1>17, <2>3, <2>4, <2>5 DEF Once
<1> QED BY <1>10, <1>11, <1>12, <1>13, <1>16, <1>18 DEF LinkInv, Kept

-----------------------------------------------------------------------------
(* What follows from it.                                                   *)

LEMMA TwiceIs ==
  ASSUME NEW doc \in Doc, NEW m \in Twice(doc)
  PROVE  /\ m \in Marks /\ H(m) \in doc.ins /\ T(m) \in doc.ins
         /\ H(m) \notin doc.del /\ T(m) \notin doc.del
<1>1. PICK i \in Shown(doc), j \in Shown(doc) : i # j /\ i[1] = m /\ j[1] = m
  BY DEF Twice
<1>2. i \in Items /\ j \in Items
  BY <1>1, DocsAre DEF Shown
<1> QED BY <1>1, <1>2, ItemsAre DEF Shown

LEMMA InvTaken == ASSUME LinkInv PROVE TakenInOnce
<1>1. /\ LinkType /\ e \in Engines /\ srv.doc \in Doc /\ e.doc \in Doc /\ Kept(e, Waits)
  BY RunningIs, FieldsAre DEF LinkInv, LinkTypes, World
<1> SUFFICES ASSUME ~ e.early
             PROVE  /\ Twice(e.doc) = {}
                    /\ MayRead("note") => Twice(Join(e.doc, srv.doc)) = {}
                    /\ made \ (cut \cup e.overruled) \subseteq InFile \cup Text(e.doc) \cup Text(srv.doc)
  BY <1>1 DEF TakenInOnce
<1>2. Whole(e, Waits) /\ Once(e)
  BY <1>1 DEF Kept
<1>3. Twice(e.doc) = {}
  <2> SUFFICES ASSUME NEW m \in Twice(e.doc) PROVE FALSE
    OBVIOUS
  <2> QED BY <1>1, <1>2, TwiceIs DEF Once
<1>4. ASSUME MayRead("note") PROVE Twice(Join(e.doc, srv.doc)) = {}
  <2> DEFINE both == Join(e.doc, srv.doc)
  <2>1. both \in Doc /\ both.ins = e.doc.ins \cup srv.doc.ins /\ both.del = e.doc.del \cup srv.doc.del
    BY <1>1 DEF Join, Doc
  <2> HIDE DEF both
  <2> SUFFICES ASSUME NEW m \in Twice(both) PROVE FALSE
    BY DEF both
  <2>2. /\ m \in Marks /\ H(m) \in both.ins /\ T(m) \in both.ins /\ T(m) \notin both.del
    BY <2>1, TwiceIs
  <2> QED BY <1>2, <1>4, <2>1, <2>2 DEF Once
<1>5. ASSUME NEW m \in made, m \notin cut \cup e.overruled
      PROVE  m \in InFile \cup Text(e.doc) \cup Text(srv.doc)
  <2>1. m \in Read(e) \cup MarksOf(e.doc) \cup MarksOf(srv.doc) /\ m \notin Meant(e)
    BY <1>2, <1>5 DEF Whole, Meant
  <2>2. m \in MarksOf(e.doc) => m \in Text(e.doc)
    BY <1>2, <2>1 DEF Whole, MarksOf, Text, Shown
  <2>3. m \in MarksOf(srv.doc) => m \in Text(srv.doc)
    BY <1>2, <2>1 DEF Whole, MarksOf, Text, Shown
  <2> QED BY <2>1, <2>2, <2>3 DEF Read, InFile
<1> QED BY <1>3, <1>4, <1>5

LEMMA InvSynced == ASSUME LinkInv PROVE OnceIsSynced
<1> SUFFICES ASSUME outcome = "synced", role = "editor"
             PROVE  /\ e.known =>
                         /\ e.doc.ins \subseteq srv.doc.ins \cup UNION {d.ins : d \in OnItsWay("note")}
                         /\ e.doc.del \subseteq srv.doc.del \cup UNION {d.del : d \in OnItsWay("note")}
                    /\ \E entry \in {srv.vault} \cup OnItsWay("vault") : JoinEntry(e.vault, entry) = entry
  BY DEF OnceIsSynced
<1>1. Reported /\ Sent(e) /\ e \in Engines
  BY RunningIs DEF LinkInv
<1>2. e.up \in Seq(Sendable)
  BY <1>1, FieldsAre
<1>3. \A i \in 1 .. Len(e.up) : /\ e.up[i] \in NoteData => e.up[i].data \in OnItsWay("note")
                                /\ e.up[i] \in VaultData => e.up[i].data \in OnItsWay("vault")
  <2>1. DOMAIN e.up = 1 .. Len(e.up)
    BY <1>2
  <2> QED BY <2>1, FramesAre DEF OnItsWay
<1>4. ASSUME e.known
      PROVE  /\ e.doc.ins \subseteq srv.doc.ins \cup UNION {d.ins : d \in OnItsWay("note")}
             /\ e.doc.del \subseteq srv.doc.del \cup UNION {d.del : d \in OnItsWay("note")}
  <2>1. PICK k \in 1 .. Len(e.up) + 1 : Gets(e.doc.ins, e.up, k) /\ GetsOut(e.doc.del, e.up, k)
    BY <1>1, <1>4 DEF Reported, Sent, Handed
  <2>2. \A j \in k .. Len(e.up) : j \in 1 .. Len(e.up)
    BY <1>2
  <2>3. e.doc.ins \subseteq srv.doc.ins \cup UNION {d.ins : d \in OnItsWay("note")}
    BY <1>3, <2>1, <2>2 DEF Gets
  <2>4. e.doc.del \subseteq srv.doc.del \cup UNION {d.del : d \in OnItsWay("note")}
    BY <1>3, <2>1, <2>2 DEF GetsOut
  <2> QED BY <2>3, <2>4
<1>5. \E entry \in {srv.vault} \cup OnItsWay("vault") : JoinEntry(e.vault, entry) = entry
  <2>1. Entrusted(e)
    BY <1>1 DEF Reported, Sent
  <2> QED BY <1>3, <2>1 DEF Entrusted, Leads
<1> QED BY <1>4, <1>5

-----------------------------------------------------------------------------
(* The theorems.                                                           *)

\* How an engine and its server stand to each other, always: see LinkInv.
THEOREM LinkHolds == LinkSpec => []LinkInv
<1>1. LinkInit => LinkInv
  BY InitLinked
<1>2. LinkInv /\ [LinkNext]_linkVars => LinkInv'
  BY NextKeeps
<1> QED BY <1>1, <1>2, PTL DEF LinkSpec

\* A file whose note this folder has no history of is taken in once, and nothing of it is lost.
THEOREM TakenInOnceHolds == LinkSpec => []TakenInOnce
BY LinkHolds, InvTaken, PTL

\* A run with --once that says it is done has handed the server everything it has.
THEOREM OnceIsSyncedHolds == LinkSpec => []OnceIsSynced
BY LinkHolds, InvSynced, PTL
=============================================================================
