--------------------------- MODULE LocalRelayProofs ---------------------------
(***************************************************************************)
(* Proofs about LocalRelay: a window past its announcement is heard of by  *)
(* every engine that runs, and what a window was told its engine has is in *)
(* the store of its vault.  The second follows the frames of one window    *)
(* about one document through every queue, as one line: no question in it  *)
(* is ahead of what it is about.                                           *)
(***************************************************************************)
EXTENDS LocalRelay, FiniteSetTheorems, WellFoundedInduction, TLAPS

Live == {"listed", "open", "holding"}
VaultFor(d) == IF d \in Vaults THEN d ELSE Home[d]
-----------------------------------------------------------------------------
(* Picked *)

\* A set of numbers has a least one, which is what inductions below are made of.
LEMMA Least ==
  ASSUME NEW T \in SUBSET Nat, T # {}
  PROVE  \E m \in T : \A k \in T : m <= k
<1> DEFINE R == {ss \in Nat \X Nat : ss[1] < ss[2]}
<1>1. IsWellFoundedOn(R, Nat)
  BY NatLessThanWellFounded DEF OpToRel
<1>2. \A j, k \in Nat : <<j, k>> \in R <=> j < k
  OBVIOUS
<1> HIDE DEF R
<1>3. PICK m \in T : \A k \in T : ~ (<<k, m>> \in R)
  BY <1>1, WFMin
<1>4. \A k \in T : ~ (k < m)
  BY <1>2, <1>3
<1> QED BY <1>4

\* How far `Picked` has come.
UpTo(s, ks, n, f) ==
  f = [i \in 0 .. n |-> IF i = 0 THEN <<>>
                        ELSE IF i \in ks THEN Append(f[i - 1], s[i]) ELSE f[i - 1]]

LEMMA UpToExists ==
  ASSUME NEW S, NEW s \in Seq(S), NEW ks
  PROVE  \A n \in 0 .. Len(s) : \E f : UpTo(s, ks, n, f)
<1> DEFINE T == {n \in 0 .. Len(s) : ~ \E f : UpTo(s, ks, n, f)}
<1>1. SUFFICES ASSUME T # {} PROVE FALSE
  OBVIOUS
<1>2. PICK m \in T : \A k \in T : m <= k
  <2>1. T \in SUBSET Nat
    OBVIOUS
  <2> HIDE DEF T
  <2> QED BY <1>1, <2>1, Least
<1>3. m # 0
  <2>1. UpTo(s, ks, 0, [i \in 0 .. 0 |-> <<>>])
    BY DEF UpTo
  <2> QED BY <2>1
<1>4. m - 1 \in 0 .. Len(s) /\ m - 1 \notin T
  BY <1>2, <1>3
<1>5. PICK f : UpTo(s, ks, m - 1, f)
  BY <1>4
<1> DEFINE g == [i \in 0 .. m |-> IF i < m THEN f[i]
                                  ELSE IF i \in ks THEN Append(f[i - 1], s[i]) ELSE f[i - 1]]
<1>6. UpTo(s, ks, m, g)
  <2>1. ASSUME NEW i \in 0 .. m
        PROVE  g[i] = IF i = 0 THEN <<>> ELSE IF i \in ks THEN Append(g[i - 1], s[i]) ELSE g[i - 1]
    <3>1. CASE i = 0
      BY <1>3, <1>5, <3>1 DEF UpTo
    <3>2. CASE i # 0 /\ i < m
      <4>1. i - 1 \in 0 .. m - 1 /\ i \in 0 .. m - 1 /\ g[i - 1] = f[i - 1] /\ g[i] = f[i]
        BY <3>2
      <4>2. f[i] = IF i \in ks THEN Append(f[i - 1], s[i]) ELSE f[i - 1]
        BY <1>5, <3>2, <4>1 DEF UpTo
      <4> QED BY <3>2, <4>1, <4>2
    <3>3. CASE i = m
      <4>1. g[i - 1] = f[i - 1] /\ i # 0 /\ ~ (i < m)
        BY <1>3, <3>3
      <4> QED BY <4>1
    <3> QED BY <3>1, <3>2, <3>3
  <2> QED BY <2>1 DEF UpTo
<1> QED BY <1>6

\* The places in `at` are those of `ks` up to `n`, in their order, and `q` is what is there.
Chosen(s, ks, n, q, at) ==
  /\ at \in [1 .. Len(q) -> ks \cap (1 .. n)]
  /\ \A k \in 1 .. Len(q) : q[k] = s[at[k]]
  /\ \A j, k \in 1 .. Len(q) : j < k => at[j] < at[k]
  /\ \A j \in ks \cap (1 .. n) : \E k \in 1 .. Len(q) : at[k] = j

LEMMA ChosenStep ==
  ASSUME NEW S, NEW s \in Seq(S), NEW ks, NEW n \in 1 .. Len(s), NEW q \in Seq(S), NEW at,
         Chosen(s, ks, n - 1, q, at)
  PROVE  \E a : Chosen(s, ks, n, IF n \in ks THEN Append(q, s[n]) ELSE q, a)
<1>1. CASE n \notin ks
  <2>1. ks \cap (1 .. n) = ks \cap (1 .. n - 1)
    BY <1>1
  <2>2. Chosen(s, ks, n, q, at)
    BY <2>1 DEF Chosen
  <2> QED BY <1>1, <2>2
<1>2. CASE n \in ks
  <2> DEFINE r == Append(q, s[n])
             a == [k \in 1 .. Len(r) |-> IF k <= Len(q) THEN at[k] ELSE n]
  <2>1. /\ s[n] \in S /\ r \in Seq(S) /\ Len(q) \in Nat /\ Len(r) = Len(q) + 1 /\ r[Len(r)] = s[n]
        /\ \A k \in 1 .. Len(q) : r[k] = q[k]
    OBVIOUS
  <2> HIDE DEF r
  <2>2. \A k \in 1 .. Len(q) : at[k] \in ks /\ at[k] \in 1 .. n - 1 /\ k \in 1 .. Len(r) /\ a[k] = at[k]
    BY <2>1 DEF Chosen
  <2>3. Len(r) \in 1 .. Len(r) /\ a[Len(r)] = n
    BY <2>1
  <2>4. \A k \in 1 .. Len(r) : k \in 1 .. Len(q) \/ k = Len(r)
    BY <2>1
  <2>0. a = [k \in 1 .. Len(r) |-> a[k]]
    OBVIOUS
  <2> HIDE DEF a
  <2>5. a \in [1 .. Len(r) -> ks \cap (1 .. n)]
    <3>1. ASSUME NEW k \in 1 .. Len(r) PROVE a[k] \in ks \cap (1 .. n)
      <4>1. CASE k \in 1 .. Len(q)
        BY <2>2, <4>1
      <4>2. CASE k = Len(r)
        BY <1>2, <2>3, <4>2
      <4> QED BY <2>4, <4>1, <4>2
    <3> QED BY <2>0, <3>1
  <2>6. \A k \in 1 .. Len(r) : r[k] = s[a[k]]
    BY <2>1, <2>2, <2>3, <2>4 DEF Chosen
  <2>7. \A j, k \in 1 .. Len(r) : j < k => a[j] < a[k]
    <3> TAKE j, k \in 1 .. Len(r)
    <3>1. ASSUME k \in 1 .. Len(q), j < k PROVE a[j] < a[k]
      <4>1. j \in 1 .. Len(q)
        BY <2>1, <3>1
      <4> QED BY <2>2, <3>1, <4>1 DEF Chosen
    <3>2. ASSUME k = Len(r), j < k PROVE a[j] < a[k]
      <4>1. j \in 1 .. Len(q)
        BY <2>1, <3>2
      <4> QED BY <2>2, <2>3, <3>2, <4>1
    <3> QED BY <2>4, <3>1, <3>2
  <2>8. \A j \in ks \cap (1 .. n) : \E k \in 1 .. Len(r) : a[k] = j
    <3> TAKE j \in ks \cap (1 .. n)
    <3>1. CASE j = n
      BY <2>3, <3>1
    <3>2. CASE j # n
      <4>1. j \in ks \cap (1 .. n - 1)
        BY <3>2
      <4> QED BY <2>2, <4>1 DEF Chosen
    <3> QED BY <3>1, <3>2
  <2>9. Chosen(s, ks, n, r, a)
    BY <2>5, <2>6, <2>7, <2>8 DEF Chosen
  <2> QED BY <1>2, <2>9 DEF r
<1> QED BY <1>1, <1>2

\* What is picked out of a sequence, and where it was.
LEMMA PickedOf ==
  ASSUME NEW S, NEW s \in Seq(S), NEW ks
  PROVE  Picked(s, ks) \in Seq(S) /\ \E at : Chosen(s, ks, Len(s), Picked(s, ks), at)
<1>1. PICK f : UpTo(s, ks, Len(s), f) /\ Picked(s, ks) = f[Len(s)]
  <2>1. \E f : UpTo(s, ks, Len(s), f)
    <3>1. Len(s) \in 0 .. Len(s)
      OBVIOUS
    <3> QED BY <3>1, UpToExists
  <2> QED BY <2>1 DEF Picked, UpTo
<1> DEFINE T == {n \in 0 .. Len(s) : ~ (f[n] \in Seq(S) /\ \E at : Chosen(s, ks, n, f[n], at))}
<1>2. SUFFICES ASSUME T # {} PROVE FALSE
  BY <1>1
<1>3. PICK m \in T : \A k \in T : m <= k
  <2>1. T \in SUBSET Nat
    OBVIOUS
  <2> HIDE DEF T
  <2> QED BY <1>2, <2>1, Least
<1>4. m # 0
  <2>1. f[0] = <<>>
    BY <1>1 DEF UpTo
  <2> DEFINE none == [k \in 1 .. 0 |-> 0]
  <2>2. Len(<<>>) = 0 /\ 1 .. 0 = {} /\ <<>> \in Seq(S)
    OBVIOUS
  <2>3. Chosen(s, ks, 0, <<>>, none)
    BY <2>2 DEF Chosen
  <2> HIDE DEF none
  <2> QED BY <2>1, <2>2, <2>3
<1>5. m - 1 \in 0 .. Len(s) /\ m - 1 \notin T /\ m \in 1 .. Len(s)
  <2>1. m \in 0 .. Len(s)
    OBVIOUS
  <2> HIDE DEF T
  <2> QED BY <1>3, <1>4, <2>1
<1>6. f[m] = IF m \in ks THEN Append(f[m - 1], s[m]) ELSE f[m - 1]
  <2> HIDE DEF T
  <2>1. m \in 0 .. Len(s) /\ m # 0
    BY <1>5
  <2> QED BY <1>1, <2>1 DEF UpTo
<1>7. PICK at : Chosen(s, ks, m - 1, f[m - 1], at)
  BY <1>5
<1>8. f[m - 1] \in Seq(S)
  BY <1>5
<1>9. \E a : Chosen(s, ks, m, f[m], a)
  BY <1>5, <1>6, <1>7, <1>8, ChosenStep
<1>10. f[m] \in Seq(S)
  BY <1>5, <1>6, <1>8
<1> QED BY <1>9, <1>10

LEMMA SetToSeqOf ==
  ASSUME NEW S, IsFiniteSet(S)
  PROVE  /\ Cardinality(S) \in Nat /\ SetToSeq(S) \in [1 .. Cardinality(S) -> S]
         /\ \A j, k \in 1 .. Cardinality(S) : SetToSeq(S)[j] = SetToSeq(S)[k] => j = k
         /\ \A x \in S : \E k \in 1 .. Cardinality(S) : SetToSeq(S)[k] = x
<1> DEFINE n == Cardinality(S)
           q == SetToSeq(S)
<1>1. n \in Nat /\ \E f \in [1 .. n -> S] : IsInjective(f)
  BY FS_CardinalityType DEF ExistsBijection, Bijection, Injection
<1>2. q \in [1 .. n -> S] /\ IsInjective(q)
  BY <1>1 DEF SetToSeq
<1>3. q \in Injection(1 .. n, S)
  BY <1>2 DEF Injection
<1>4. Cardinality(1 .. n) = n
  BY <1>1, FS_Interval
<1>5. q \in Surjection(1 .. n, S)
  BY <1>3, <1>4, FS_Injection
<1> QED BY <1>1, <1>2, <1>5 DEF IsInjective, Surjection
-----------------------------------------------------------------------------
(* Types *)

LEMMA FrameTypes ==
  /\ \A d \in Docs : Ask(d) \in Frame /\ Ask(d).doc = d /\ Ask(d).ask /\ Ask(d).items = {}
  /\ \A d \in Docs, is \in SUBSET Items :
       /\ Update(d, is) \in Frame /\ Update(d, is).doc = d /\ ~ Update(d, is).ask /\ Update(d, is).items = is
       /\ [doc |-> d, ask |-> TRUE, items |-> is] \in Frame
  /\ \A f \in Frame : f.doc \in Docs /\ f.ask \in BOOLEAN /\ f.items \in SUBSET Items
BY DEF Frame, Ask, Update

LEMMA EventTypes ==
  /\ \A p \in Peers, kind \in {"connected", "gone"} : [kind |-> kind, peer |-> p] \in Event
  /\ \A p \in Peers, f \in Frame, kind \in {"frame", "released"} : [kind |-> kind, peer |-> p, frame |-> f] \in Event
  /\ \A e \in Event :
       /\ e.peer \in Peers /\ e.kind \in {"connected", "gone", "frame", "released"}
       /\ e.kind \in {"frame", "released"} => e.frame \in Frame
BY DEF Event

LEMMA ItemTypes ==
  /\ \A n \in Notes : <<n, "text">> \in Items /\ <<n, "entry">> \in Items
  /\ \A i \in Items : i[1] \in Notes /\ i[2] \in {"text", "entry"} /\ DocOf(i) \in Docs /\ VaultOf(i) \in Vaults
  /\ \A d \in Docs : VaultFor(d) \in Vaults /\ (d \in Vaults => d \notin Notes) /\ (d \notin Vaults => d \in Notes)
  /\ \A is, d : Part(is, d) \subseteq is
  /\ \A i \in Items : VaultFor(DocOf(i)) = VaultOf(i)
BY RelayAssumption DEF Items, DocOf, VaultOf, VaultFor, Docs, Part

LEMMA SaidType ==
  ASSUME TypeOK, NEW w \in Windows, NEW fs \in Seq(Frame)
  PROVE  /\ Said(w, fs) \in [Peers -> Seq(Frame)]
         /\ \A p \in Peers : Said(w, fs)[p] = IF conn[w] = p THEN up[p] \o fs ELSE up[p]
<1>1. conn[w] \in Peers \cup {None} /\ None \notin Peers
  BY RelayAssumption DEF TypeOK, Peers
<1> QED BY <1>1 DEF TypeOK, Said

LEMMA PostedType ==
  ASSUME TypeOK, NEW vs, NEW e \in Event
  PROVE  /\ Posted(vs, e) \in [Vaults -> Seq(Event)]
         /\ \A v \in Vaults : Posted(vs, e)[v] = IF v \in vs /\ engine[v] \in {"new", "running", "renewed"}
                                                 THEN Append(chan[v], e) ELSE chan[v]
BY DEF TypeOK, Posted

LEMMA DeliverType ==
  ASSUME TypeOK, NEW ps \in SUBSET Peers, NEW f \in Frame, Deliver(ps, f)
  PROVE  /\ down' \in [Peers -> Seq(Frame)] /\ full \subseteq full' /\ full' \subseteq full \cup ps /\ full' \subseteq Peers
         /\ \A p \in Peers : p \in full' \ full => session[p].at \in Live
         /\ \A p \in Peers : \/ down'[p] = down[p]
                             \/ /\ down'[p] = Append(down[p], f) /\ p \in ps /\ p \notin full
                                /\ session[p].at \in Live
<1>1. /\ down' = [p \in Peers |-> IF p \in {q \in ps : session[q].at \in {"listed", "open", "holding"}} \ full
                                       /\ Len(down[p]) < PeerQueue
                                  THEN Append(down[p], f) ELSE down[p]]
      /\ full' = full \cup {p \in {q \in ps : session[q].at \in {"listed", "open", "holding"}} :
                              Len(down[p]) >= PeerQueue}
  BY DEF Deliver
<1> QED BY <1>1 DEF TypeOK, Live
-----------------------------------------------------------------------------
(* What holds in every run *)

\* A session, the connection of its window, and what is listed of it.
SessionInv(p) ==
  LET at == session[p].at IN
  /\ p \in listed <=> at \in Live
  /\ p \in full => p \in listed
  /\ conn[p[1]] = p <=> at \in Live \cup {"new"}
  /\ at = "holding" => session[p].frame \in Frame
  /\ at \notin Live => down[p] = <<>>
  /\ at = "new" => synced[p[1]] = {}

WindowInv(w) ==
  /\ conn[w] # None => conn[w][1] = w
  /\ conn[w] = None => synced[w] = {}
  /\ \A d \in Docs : probe[w][d] # {} => d \in synced[w]
  /\ mine[w] \subseteq has[w]
  /\ \A n \in open[w] \cap Notes : <<n, "text">> \in mine[w]
  /\ IsFiniteSet(open[w])

\* The frames that come back are at the head of a channel, and a window that took its leave has
\* no other to come.
EngineInv(v) ==
  /\ v \notin reg <=> engine[v] = "none"
  /\ engine[v] \in {"none", "stopped"} => chan[v] = <<>>
  /\ memory[v] \subseteq journal[v]
  /\ \A k \in DOMAIN chan[v] :
       /\ chan[v][k].kind = "gone" => session[chan[v][k].peer].at \in {"farewell", "free"}
       /\ chan[v][k].kind = "released" => \A j \in 1 .. k : chan[v][j].kind = "released"

RelayInv ==
  /\ TypeOK
  /\ IsFiniteSet(listed) /\ IsFiniteSet(reg) /\ reg # {}
  /\ \A p \in Peers : SessionInv(p)
  /\ \A w \in Windows : WindowInv(w)
  /\ \A v \in Vaults : EngineInv(v)
  /\ EveryWindowIsHeard
-----------------------------------------------------------------------------
(* What holds as long as nothing was missed *)

\* A frame carries items of its document only.
OfDoc(f) == \A i \in f.items : DocOf(i) = f.doc

FramesInv ==
  /\ \A p \in Peers :
       /\ \A k \in DOMAIN up[p] : OfDoc(up[p][k])
       /\ session[p].at = "holding" => OfDoc(session[p].frame)
       /\ \A k \in DOMAIN down[p] : down[p][k].ask => down[p][k].items \subseteq journal[VaultFor(down[p][k].doc)]
  /\ \A k \in DOMAIN held : OfDoc(held[k].frame)
  /\ \A v \in Vaults : \A k \in DOMAIN chan[v] :
       chan[v][k].kind \in {"frame", "released"} =>
         OfDoc(chan[v][k].frame) /\ VaultFor(chan[v][k].frame.doc) = v

\* A note is claimed by its vault, which is open; frames are held for a note nobody claimed.
ClaimsInv ==
  /\ \A n \in Notes : owner[n] # None => owner[n] = Home[n] /\ Home[n] \in reg
  /\ \A v \in Vaults : \A i \in journal[v] : i[2] = "entry" => Home[i[1]] = v
  /\ \A k \in DOMAIN held :
       held[k].frame.doc \in Notes => owner[held[k].frame.doc] = None /\ Cardinality(reg) # 1

\* A frame held for a vault whose engine is there is about to come back, before any other is
\* handled; a session that has not begun has none held.
AboutToClaim(v) ==
  /\ dirty[v]
  /\ \/ engine[v] = "running"
     \/ engine[v] = "new" /\ chan[v] # <<>> /\ Head(chan[v]).kind = "connected"
HeldFor(p, v) ==
  /\ session[p].at \in {"open", "holding", "unlisted", "farewell"}
  /\ v \in reg /\ session[p].at \in Live /\ p \notin full =>
       engine[v] \in {"stopped", "renewed"} \/ AboutToClaim(v)
HeldInv == \A k \in DOMAIN held : HeldFor(held[k].peer, held[k].frame.doc)

(* The line of the frames of a window about a document: the answers on their way down, then the *)
(* frames in the engine's channel, those held, the one about to be held and those on their way  *)
(* up.  Frames of a note are held after those sent to the only engine there was; frames of a    *)
(* vault before those sent to its engine.                                                       *)
Place == (0 .. 5) \X Nat
Before(x, y) == x[1] < y[1] \/ (x[1] = y[1] /\ x[2] < y[2])
HeldAt(d) == IF d \in Vaults THEN 2 ELSE 3
SentAt(d) == IF d \in Vaults THEN 3 ELSE 2

InChan(v, p, k, kind, f) ==
  k \in DOMAIN chan[v] /\ chan[v][k].kind = kind /\ chan[v][k].peer = p /\ chan[v][k].frame = f

Stands(p, d, x, f) ==
  /\ f.doc = d
  /\ \/ x[1] = 0 /\ x[2] \in DOMAIN down[p] /\ down[p][x[2]] = f
     \/ x[1] = 1 /\ InChan(VaultFor(d), p, x[2], "released", f)
     \/ x[1] = SentAt(d) /\ InChan(VaultFor(d), p, x[2], "frame", f)
     \/ x[1] = HeldAt(d) /\ x[2] \in DOMAIN held /\ held[x[2]] = [peer |-> p, frame |-> f]
     \/ x[1] = 4 /\ x[2] = 1 /\ session[p].at = "holding" /\ session[p].frame = f
     \/ x[1] = 5 /\ x[2] \in DOMAIN up[p] /\ up[p][x[2]] = f

Asks(p, d) == {x \in Place : \E f \in Frame : Stands(p, d, x, f) /\ f.ask}
Brings(p, d, i) == {x \in Place : x[1] > 0 /\ \E f \in Frame : Stands(p, d, x, f) /\ i \in f.items}

\* Nothing of the line was lost.
Whole(p, d) == p \notin full /\ engine[VaultFor(d)] \notin {"stopped", "renewed"}
Stored(i) == i \in journal[VaultOf(i)]

\* There is at most one question, and none when its answer has come.
AsksOnce(p, d) ==
  /\ \A x, y \in Asks(p, d) : x = y
  /\ d \notin open[p[1]] \/ (d \in synced[p[1]] /\ probe[p[1]][d] = {}) => Asks(p, d) = {}
  /\ d \in synced[p[1]] => d \in open[p[1]]

\* What a question is about is stored, or ahead of it.
AsksLate(p, d) ==
  \A x \in Asks(p, d), of \in probe[p[1]][d] : \A i \in of :
    x[1] = 0 \/ Whole(p, d) => i \in journal[VaultFor(d)] \/ \E y \in Brings(p, d, i) : Before(y, x)

\* What was made is stored, or in the line.
AllSent(p, d) ==
  d \in synced[p[1]] /\ Whole(p, d) =>
    \A i \in Part(mine[p[1]], d) : i \in journal[VaultFor(d)] \/ Brings(p, d, i) # {}

LineInv(p, d) == conn[p[1]] = p => AsksOnce(p, d) /\ AsksLate(p, d) /\ AllSent(p, d)

Ordered ==
  /\ FramesInv /\ ClaimsInv /\ HeldInv
  /\ \A p \in Peers, d \in Docs : LineInv(p, d)
  /\ AckedIsStored
OrderInv == missed \/ Ordered
-----------------------------------------------------------------------------
(* Types of the steps *)

LEMMA PlaceType ==
  ASSUME NEW S, NEW q \in Seq(S), NEW k \in 1 .. Len(q)
  PROVE  q[k] \in S
OBVIOUS

LEMMA QueueType ==
  ASSUME NEW S, NEW q \in Seq(S), q # <<>>
  PROVE  /\ Head(q) \in S /\ Tail(q) \in Seq(S) /\ Head(q) = q[1] /\ Len(q) \in Nat /\ Len(q) >= 1
         /\ Len(Tail(q)) = Len(q) - 1 /\ \A k \in 1 .. Len(q) - 1 : Tail(q)[k] = q[k + 1]
OBVIOUS

Sessions == [at : Where, frame : Frame \cup {None}]
LEMMA SessionTypes ==
  ASSUME session \in [Peers -> Sessions], NEW p \in Peers
  PROVE  /\ \A a \in Where : [session EXCEPT ![p].at = a] \in [Peers -> Sessions]
         /\ \A a \in Where, f \in Frame \cup {None} :
              [session EXCEPT ![p] = [at |-> a, frame |-> f]] \in [Peers -> Sessions]
<1>1. \A a \in Where : [session[p] EXCEPT !.at = a] \in Sessions
  BY DEF Sessions
<1>2. \A a \in Where, f \in Frame \cup {None} : [at |-> a, frame |-> f] \in Sessions
  BY DEF Sessions
<1>3. \A s \in Sessions : [session EXCEPT ![p] = s] \in [Peers -> Sessions]
  OBVIOUS
<1>4. \A a \in Where : [session EXCEPT ![p].at = a] = [session EXCEPT ![p] = [session[p] EXCEPT !.at = a]]
  OBVIOUS
<1> QED BY <1>1, <1>2, <1>3, <1>4

LEMMA ProbeTypes ==
  ASSUME probe \in [Windows -> [Docs -> SUBSET SUBSET Items]], NEW w \in Windows, NEW d \in Docs,
         NEW os \in SUBSET SUBSET Items
  PROVE  [probe EXCEPT ![w][d] = os] \in [Windows -> [Docs -> SUBSET SUBSET Items]]
<1>1. [probe[w] EXCEPT ![d] = os] \in [Docs -> SUBSET SUBSET Items]
  OBVIOUS
<1> QED BY <1>1

LEMMA ConnectType ==
  ASSUME TypeOK, NEW w \in Windows, Connect(w), IsFiniteSet(open[w])
  PROVE  TypeOK'
<1>1. PICK s \in Slots :
        /\ conn' = [conn EXCEPT ![w] = <<w, s>>]
        /\ session' = [session EXCEPT ![<<w, s>>].at = "new"]
        /\ up' = [up EXCEPT ![<<w, s>>] =
                    [k \in 1 .. Cardinality(open[w]) |-> Ask(SetToSeq(open[w])[k])]]
  BY DEF Connect
<1>2. <<w, s>> \in Peers
  BY DEF Peers
<1>3. [k \in 1 .. Cardinality(open[w]) |-> Ask(SetToSeq(open[w])[k])] \in Seq(Frame)
  <2>1. \A k \in 1 .. Cardinality(open[w]) : Ask(SetToSeq(open[w])[k]) \in Frame
    <3>1. open[w] \subseteq Docs
      BY DEF TypeOK
    <3>2. \A k \in 1 .. Cardinality(open[w]) : SetToSeq(open[w])[k] \in Docs
      BY <3>1, SetToSeqOf
    <3> QED BY <3>2, FrameTypes
  <2>2. Cardinality(open[w]) \in Nat
    BY SetToSeqOf
  <2> QED BY <2>1, <2>2
<1>4. up' \in [Peers -> Seq(Frame)]
  BY <1>1, <1>2, <1>3 DEF TypeOK
<1>5. session' \in [Peers -> [at : Where, frame : Frame \cup {None}]]
  <2>1. "new" \in Where
    BY DEF Where
  <2> QED BY <1>1, <1>2, <2>1, SessionTypes DEF TypeOK, Sessions
<1>6. conn' \in [Windows -> Peers \cup {None}]
  BY <1>1, <1>2 DEF TypeOK
<1> QED BY <1>4, <1>5, <1>6 DEF TypeOK, Connect, engines

LEMMA WindowType ==
  ASSUME TypeOK, NEW w \in Windows,
         \/ \E v \in Vaults : NewVault(w, v)
         \/ \E n \in Notes : CreateNote(w, n)
         \/ \E d \in Docs : Probe(w, d)
  PROVE  TypeOK'
<1>1. ASSUME NEW v \in Vaults, NewVault(w, v) PROVE TypeOK'
  <2>1. v \in Docs /\ <<Ask(v)>> \in Seq(Frame)
    BY FrameTypes DEF Docs
  <2>2. up' \in [Peers -> Seq(Frame)]
    BY <1>1, <2>1, SaidType DEF NewVault
  <2> QED BY <1>1, <2>1, <2>2 DEF TypeOK, NewVault, relay, engines
<1>2. ASSUME NEW n \in Notes, CreateNote(w, n) PROVE TypeOK'
  <2>1. n \in Docs /\ Home[n] \in Docs /\ <<n, "text">> \in Items /\ <<n, "entry">> \in Items
    BY ItemTypes, RelayAssumption DEF Docs
  <2>2. <<Ask(n), Update(n, {<<n, "text">>}), Update(Home[n], {<<n, "entry">>})>> \in Seq(Frame)
    <3>1. Ask(n) \in Frame /\ Update(n, {<<n, "text">>}) \in Frame /\ Update(Home[n], {<<n, "entry">>}) \in Frame
      BY <2>1, FrameTypes
    <3> QED BY <3>1
  <2>3. up' \in [Peers -> Seq(Frame)]
    BY <1>2, <2>2, SaidType DEF CreateNote
  <2> QED BY <1>2, <2>1, <2>3 DEF TypeOK, CreateNote, relay, engines
<1>3. ASSUME NEW d \in Docs, Probe(w, d) PROVE TypeOK'
  <2>1. <<Ask(d)>> \in Seq(Frame) /\ Part(mine[w], d) \in SUBSET Items
    BY FrameTypes, ItemTypes DEF TypeOK
  <2>2. up' \in [Peers -> Seq(Frame)]
    BY <1>3, <2>1, SaidType DEF Probe
  <2>3. probe' \in [Windows -> [Docs -> SUBSET SUBSET Items]]
    BY <1>3, <2>1 DEF TypeOK, Probe
  <2> QED BY <1>3, <2>2, <2>3 DEF TypeOK, Probe, relay, engines
<1> QED BY <1>1, <1>2, <1>3

LEMMA ReceiveType ==
  ASSUME TypeOK, NEW w \in Windows, Receive(w)
  PROVE  TypeOK'
<1> DEFINE p == conn[w]
           f == Head(down[p])
           own == Part(mine[w], f.doc)
           owed == Part(has[w], f.doc) \ f.items
           news == IF owed = {} THEN <<>> ELSE <<Update(f.doc, owed)>>
<1>1. p \in Peers /\ down[p] \in Seq(Frame) /\ down[p] # <<>>
  BY DEF TypeOK, Receive
<1>2. f \in Frame /\ Tail(down[p]) \in Seq(Frame)
  BY <1>1, QueueType
<1>3. f.doc \in Docs /\ f.items \in SUBSET Items /\ own \in SUBSET Items /\ owed \in SUBSET Items
  BY <1>2, FrameTypes, ItemTypes DEF TypeOK
<1>4. <<Ask(f.doc)>> \in Seq(Frame) /\ news \o <<Ask(f.doc)>> \in Seq(Frame)
  <2>1. Ask(f.doc) \in Frame /\ Update(f.doc, owed) \in Frame
    BY <1>3, FrameTypes
  <2> QED BY <2>1
<1>5. up' \in [Peers -> Seq(Frame)]
  <2>1. up' = up \/ up' = Said(w, <<Ask(f.doc)>>) \/ up' = Said(w, news \o <<Ask(f.doc)>>)
    BY DEF Receive
  <2> HIDE DEF f, news
  <2>2. up \in [Peers -> Seq(Frame)]
    BY DEF TypeOK
  <2>3. \A fs \in Seq(Frame) : Said(w, fs) \in [Peers -> Seq(Frame)]
    BY SaidType
  <2> QED BY <1>4, <2>1, <2>2, <2>3
<1>6. has' = [has EXCEPT ![w] = @ \cup f.items] /\ down' = [down EXCEPT ![p] = Tail(@)]
  BY DEF Receive
<1>7. /\ synced' = synced \/ synced' = [synced EXCEPT ![w] = @ \cup {f.doc}]
      /\ \/ probe' = probe \/ probe' = [probe EXCEPT ![w][f.doc] = {own}]
         \/ probe' = [probe EXCEPT ![w][f.doc] = {}]
      /\ acked' = acked \/ acked' = [acked EXCEPT ![w] = @ \cup own]
  BY DEF Receive
<1> HIDE DEF p, f, own, owed, news
<1>8. probe' \in [Windows -> [Docs -> SUBSET SUBSET Items]]
  <2>1. {own} \in SUBSET SUBSET Items /\ {} \in SUBSET SUBSET Items
    BY <1>3
  <2>2. probe \in [Windows -> [Docs -> SUBSET SUBSET Items]]
    BY DEF TypeOK
  <2>3. /\ [probe EXCEPT ![w][f.doc] = {own}] \in [Windows -> [Docs -> SUBSET SUBSET Items]]
        /\ [probe EXCEPT ![w][f.doc] = {}] \in [Windows -> [Docs -> SUBSET SUBSET Items]]
    BY <1>3, <2>1, <2>2, ProbeTypes
  <2> QED BY <1>7, <2>2, <2>3
<1>9. /\ synced' \in [Windows -> SUBSET Docs] /\ acked' \in [Windows -> SUBSET Items]
      /\ has' \in [Windows -> SUBSET Items] /\ down' \in [Peers -> Seq(Frame)]
  <2>1. synced' \in [Windows -> SUBSET Docs] /\ acked' \in [Windows -> SUBSET Items]
    <3>1. synced \in [Windows -> SUBSET Docs] /\ acked \in [Windows -> SUBSET Items]
      BY DEF TypeOK
    <3>2. /\ [synced EXCEPT ![w] = @ \cup {f.doc}] \in [Windows -> SUBSET Docs]
          /\ [acked EXCEPT ![w] = @ \cup own] \in [Windows -> SUBSET Items]
      BY <1>3, <3>1
    <3> QED BY <1>7, <3>1, <3>2
  <2>2. has' \in [Windows -> SUBSET Items] /\ down' \in [Peers -> Seq(Frame)]
    BY <1>1, <1>2, <1>3, <1>6 DEF TypeOK
  <2> QED BY <2>1, <2>2
<1> QED BY <1>5, <1>8, <1>9 DEF TypeOK, Receive, relay, engines

LEMMA SessionType ==
  ASSUME TypeOK, NEW p \in Peers, session[p].at = "holding" => session[p].frame \in Frame,
         List(p) \/ Announce(p) \/ Route(p) \/ Hold(p) \/ Unlist(p) \/ Farewell(p) \/ ForgetPeer(p)
  PROVE  TypeOK'
<1>1. CASE List(p)
  BY <1>1 DEF TypeOK, Where, List, engines, windows
<1>2. CASE Announce(p)
  <2>1. chan' \in [Vaults -> Seq(Event)]
    BY <1>2, PostedType, EventTypes DEF Announce
  <2> QED BY <1>2, <2>1 DEF TypeOK, Where, Announce, windows
<1>3. CASE Route(p)
  <2>1. up[p] \in Seq(Frame) /\ up[p] # <<>>
    BY <1>3 DEF TypeOK, Route
  <2>2. Head(up[p]) \in Frame /\ Tail(up[p]) \in Seq(Frame)
    BY <2>1, QueueType
  <2>3. chan' \in [Vaults -> Seq(Event)]
    <3>1. [kind |-> "frame", peer |-> p, frame |-> Head(up[p])] \in Event
      BY <2>2, EventTypes
    <3>2. \/ chan' = chan
          \/ chan' = Posted({Target(Head(up[p]).doc)} \cap reg, [kind |-> "frame", peer |-> p, frame |-> Head(up[p])])
      BY <1>3 DEF Route
    <3> QED BY <3>1, <3>2, PostedType DEF TypeOK
  <2>4. session' \in [Peers -> [at : Where, frame : Frame \cup {None}]]
    <3>1. session' = session \/ session' = [session EXCEPT ![p] = [at |-> "holding", frame |-> Head(up[p])]]
      BY <1>3 DEF Route
    <3>2. "holding" \in Where
      BY DEF Where
    <3>3. session \in [Peers -> Sessions]
      BY DEF TypeOK, Sessions
    <3>4. [session EXCEPT ![p] = [at |-> "holding", frame |-> Head(up[p])]] \in [Peers -> Sessions]
      BY <2>2, <3>2, <3>3, SessionTypes
    <3> QED BY <3>1, <3>3, <3>4 DEF Sessions
  <2>5. up' \in [Peers -> Seq(Frame)] /\ missed' \in BOOLEAN
    BY <1>3, <2>2 DEF TypeOK, Route
  <2> QED BY <1>3, <2>3, <2>4, <2>5 DEF TypeOK, Route, windows
<1>4. CASE Hold(p)
  <2>1. session' = [session EXCEPT ![p] = [at |-> "open", frame |-> None]]
        /\ held' = Append(held, [peer |-> p, frame |-> session[p].frame])
        /\ wanted' = wanted \cup ({session[p].frame.doc} \cap Vaults)
    BY <1>4 DEF Hold, Want
  <2>2. session' \in [Peers -> [at : Where, frame : Frame \cup {None}]] /\ wanted' \subseteq Vaults
    BY <2>1 DEF TypeOK, Where
  <2>3. held' \in Seq([peer : Peers, frame : Frame])
    <3>1. [peer |-> p, frame |-> session[p].frame] \in [peer : Peers, frame : Frame]
      BY <1>4 DEF Hold
    <3> QED BY <2>1, <3>1 DEF TypeOK
  <2> QED BY <1>4, <2>2, <2>3 DEF TypeOK, Hold, engines, windows
<1>5. CASE Unlist(p)
  <2>1. p[1] \in Windows
    BY DEF Peers
  <2>2. /\ probe' \in [Windows -> [Docs -> SUBSET SUBSET Items]] /\ conn' \in [Windows -> Peers \cup {None}]
        /\ synced' \in [Windows -> SUBSET Docs]
    BY <1>5, <2>1 DEF TypeOK, Unlist
  <2>3. /\ up' \in [Peers -> Seq(Frame)] /\ down' \in [Peers -> Seq(Frame)]
        /\ full' \subseteq Peers /\ listed' \subseteq Peers
    BY <1>5 DEF TypeOK, Unlist
  <2>4. session' \in [Peers -> [at : Where, frame : Frame \cup {None}]]
    <3>1. "unlisted" \in Where
      BY DEF Where
    <3> QED BY <1>5, <3>1, SessionTypes DEF TypeOK, Unlist, Sessions
  <2> QED BY <1>5, <2>2, <2>3, <2>4 DEF TypeOK, Unlist, engines
<1>6. CASE Farewell(p)
  <2>1. chan' \in [Vaults -> Seq(Event)]
    BY <1>6, PostedType, EventTypes DEF Farewell
  <2> QED BY <1>6, <2>1 DEF TypeOK, Where, Farewell, windows
<1>7. CASE ForgetPeer(p)
  <2>1. held' \in Seq([peer : Peers, frame : Frame])
    BY <1>7, PickedOf DEF TypeOK, ForgetPeer
  <2>2. session' \in [Peers -> [at : Where, frame : Frame \cup {None}]]
    BY <1>7 DEF TypeOK, Where, ForgetPeer, Idle
  <2> QED BY <1>7, <2>1, <2>2 DEF TypeOK, ForgetPeer, engines, windows
<1> QED BY <1>1, <1>2, <1>3, <1>4, <1>5, <1>6, <1>7

\* The parts of an engine's handling of a frame, named.
HandlesFrame(v, f, p, news, adopted, loaded) ==
  /\ chan[v] # <<>> /\ f = Head(chan[v]).frame /\ p = Head(chan[v]).peer
  /\ news = f.items \ memory[v] /\ adopted = {i[1] : i \in {j \in news : j[2] = "entry"}}
  /\ loaded \subseteq journal[v]
  /\ IF Head(chan[v]).kind = "released" THEN engine[v] = "running"
     ELSE Head(chan[v]).kind = "frame" /\ Listens(v)
  /\ Busy(v)
  /\ UNCHANGED <<reg, owner, held, wanted, listed, session, known, windows, up, stops>>
  /\ chan' = [chan EXCEPT ![v] = Tail(@)]
  /\ memory' = [memory EXCEPT ![v] = @ \cup news \cup loaded]
  /\ journal' = [journal EXCEPT ![v] = @ \cup news]
  /\ dirty' = [dirty EXCEPT ![v] = @ \/ adopted # {}]
  /\ \/ f.ask /\ Deliver({p} \cap known[v], [doc |-> f.doc, ask |-> TRUE, items |-> Part(memory[v], f.doc)])
     \/ ~ f.ask /\ \E ps \in SUBSET (known[v] \ {p}) : Deliver(ps, Update(f.doc, f.items))
     \/ ~ f.ask /\ UNCHANGED <<down, full>>
  /\ missed' = (missed \/ (p \in listed /\ p \notin known[v]))

LEMMA HandleFrameIs ==
  ASSUME TypeOK, NEW v \in Vaults, HandleFrame(v)
  PROVE  \E f \in Frame, p \in Peers, news \in SUBSET Items, adopted \in SUBSET Notes, loaded \in SUBSET Items :
           /\ HandlesFrame(v, f, p, news, adopted, loaded)
           /\ pending' \in [Vaults -> SUBSET Notes] /\ subs' \in [Vaults -> SUBSET (Peers \X Docs)]
<1> DEFINE ev == Head(chan[v])
           f == ev.frame
           d == f.doc
           p == ev.peer
           holding == IF d \in Notes /\ d \notin NotesIn(v) THEN pending[v] \cup {d} ELSE pending[v]
           subscribed == IF p \in known[v] THEN subs[v] \cup {<<p, d>>} ELSE subs[v]
           news == f.items \ memory[v]
           adopted == {i[1] : i \in {j \in news : j[2] = "entry"}}
           loaded == {i \in journal[v] : i[1] \in adopted \ holding /\ i[2] = "text"}
<1>1. chan[v] \in Seq(Event) /\ chan[v] # <<>> /\ ev.kind \in {"frame", "released"}
  BY DEF TypeOK, HandleFrame
<1>2. ev \in Event
  BY <1>1
<1>3. p \in Peers /\ f \in Frame
  BY <1>1, <1>2, EventTypes
<1>4. d \in Docs /\ f.items \in SUBSET Items /\ f.ask \in BOOLEAN
  BY <1>3, FrameTypes
<1>5. news \in SUBSET Items
  BY <1>4
<1>6. adopted \in SUBSET Notes
  BY <1>5, ItemTypes
<1>7. loaded \subseteq journal[v] /\ loaded \in SUBSET Items
  BY DEF TypeOK
<1>8. pending' \in [Vaults -> SUBSET Notes]
  <2>1. pending' = [pending EXCEPT ![v] = holding \ adopted]
    BY DEF HandleFrame
  <2>2. holding \in SUBSET Notes
    BY DEF TypeOK
  <2> HIDE DEF holding, adopted
  <2> QED BY <2>1, <2>2 DEF TypeOK
<1>9. subs' \in [Vaults -> SUBSET (Peers \X Docs)]
  <2>1. subs' = [subs EXCEPT ![v] = subscribed]
    BY DEF HandleFrame
  <2>2. subscribed \in SUBSET (Peers \X Docs)
    BY <1>3, <1>4 DEF TypeOK
  <2> HIDE DEF subscribed
  <2> QED BY <2>1, <2>2 DEF TypeOK
<1>10. \/ f.ask /\ Deliver({p} \cap known[v], [doc |-> d, ask |-> TRUE, items |-> Part(memory[v], d)])
       \/ ~ f.ask /\ \E ps \in SUBSET (known[v] \ {p}) : Deliver(ps, Update(d, f.items))
       \/ ~ f.ask /\ UNCHANGED <<down, full>>
  <2>1. CASE f.ask
    BY <2>1 DEF HandleFrame
  <2>2. CASE ~ f.ask /\ news # {}
    <3>1. Deliver({q \in known[v] \ {p} : <<q, d>> \in subscribed}, Update(d, f.items))
      BY <2>2 DEF HandleFrame
    <3>2. {q \in known[v] \ {p} : <<q, d>> \in subscribed} \in SUBSET (known[v] \ {p})
      OBVIOUS
    <3> QED BY <2>2, <3>1, <3>2
  <2>3. CASE ~ f.ask /\ news = {}
    BY <2>3 DEF HandleFrame
  <2> QED BY <2>1, <2>2, <2>3
<1>11. /\ chan[v] # <<>>
       /\ IF ev.kind = "released" THEN engine[v] = "running" ELSE ev.kind = "frame" /\ Listens(v)
       /\ Busy(v)
       /\ UNCHANGED <<reg, owner, held, wanted, listed, session, known, windows, up, stops>>
       /\ chan' = [chan EXCEPT ![v] = Tail(@)]
       /\ memory' = [memory EXCEPT ![v] = @ \cup news \cup loaded]
       /\ journal' = [journal EXCEPT ![v] = @ \cup news]
       /\ dirty' = [dirty EXCEPT ![v] = @ \/ adopted # {}]
       /\ missed' = (missed \/ (p \in listed /\ p \notin known[v]))
  BY DEF HandleFrame
<1>12. HandlesFrame(v, f, p, news, adopted, loaded)
  BY <1>7, <1>10, <1>11 DEF HandlesFrame
<1> HIDE DEF f, p, news, adopted, loaded
<1> QED BY <1>3, <1>5, <1>6, <1>7, <1>8, <1>9, <1>12

\* The parts of a claim, named.
Claims(v, taken, claimed, back) ==
  /\ taken = {v} \cup {n \in NotesIn(v) : owner[n] = None}
  /\ claimed = {k \in DOMAIN held : held[k].frame.doc \in taken}
  /\ back \in Seq(Event) /\ held' \in Seq([peer : Peers, frame : Frame])
  /\ \E at : /\ Chosen(held, claimed, Len(held), Picked(held, claimed), at)
             /\ Len(back) = Len(Picked(held, claimed))
             /\ \A k \in 1 .. Len(back) :
                  back[k] = [kind |-> "released", peer |-> held[at[k]].peer, frame |-> held[at[k]].frame]
  /\ \E at : Chosen(held, DOMAIN held \ claimed, Len(held), held', at)
  /\ chan' = [chan EXCEPT ![v] = back \o @]
  /\ owner' = [n \in Notes |-> IF n \in NotesIn(v) THEN v ELSE IF owner[n] = v THEN None ELSE owner[n]]
  /\ missed' = (missed \/ \E k \in claimed : Overtakes(v, held[k]))

LEMMA SyncRoutesIs ==
  ASSUME TypeOK, NEW v \in Vaults, SyncRoutes(v)
  PROVE  \E taken, claimed, back : Claims(v, taken, claimed, back)
<1> DEFINE taken == {v} \cup {n \in NotesIn(v) : owner[n] = None}
           claimed == {k \in DOMAIN held : held[k].frame.doc \in taken}
           q == Picked(held, claimed)
           back == [k \in 1 .. Len(q) |-> [kind |-> "released", peer |-> q[k].peer, frame |-> q[k].frame]]
<1>1. held \in Seq([peer : Peers, frame : Frame]) /\ DOMAIN held = 1 .. Len(held)
  BY DEF TypeOK
<1> HIDE DEF taken
<1>2. PICK at : q \in Seq([peer : Peers, frame : Frame]) /\ Chosen(held, claimed, Len(held), q, at)
  <2> HIDE DEF claimed
  <2> QED BY <1>1, PickedOf
<1>3. held' \in Seq([peer : Peers, frame : Frame]) /\ \E a : Chosen(held, DOMAIN held \ claimed, Len(held), held', a)
  <2>1. held' = Picked(held, DOMAIN held \ claimed)
    BY DEF SyncRoutes, taken
  <2> HIDE DEF claimed
  <2> QED BY <1>1, <2>1, PickedOf
<1> HIDE DEF q
<1>4. back \in Seq(Event) /\ Len(back) = Len(q)
  <2>1. \A k \in 1 .. Len(q) : [kind |-> "released", peer |-> q[k].peer, frame |-> q[k].frame] \in Event
    <3> TAKE k \in 1 .. Len(q)
    <3>1. q[k] \in [peer : Peers, frame : Frame]
      <4>1. q \in Seq([peer : Peers, frame : Frame])
        BY <1>2
      <4> HIDE DEF claimed
      <4> QED BY <4>1, PlaceType
    <3> QED BY <3>1, EventTypes
  <2>2. Len(q) \in Nat
    BY <1>2
  <2> QED BY <2>1, <2>2
<1>5. \A k \in 1 .. Len(back) :
        back[k] = [kind |-> "released", peer |-> held[at[k]].peer, frame |-> held[at[k]].frame]
  BY <1>2, <1>4 DEF Chosen
<1>6. /\ chan' = [chan EXCEPT ![v] = back \o @]
      /\ owner' = [n \in Notes |-> IF n \in NotesIn(v) THEN v ELSE IF owner[n] = v THEN None ELSE owner[n]]
      /\ missed' = (missed \/ \E k \in claimed : Overtakes(v, held[k]))
  BY DEF SyncRoutes, taken, q
<1>7. Claims(v, taken, claimed, back)
  <2>1. claimed = {k \in DOMAIN held : held[k].frame.doc \in taken}
    OBVIOUS
  <2> HIDE DEF claimed, back
  <2>2. /\ Chosen(held, claimed, Len(held), Picked(held, claimed), at)
        /\ Len(back) = Len(Picked(held, claimed))
    BY <1>2, <1>4 DEF q
  <2> QED BY <1>3, <1>4, <1>5, <1>6, <2>1, <2>2 DEF Claims, taken
<1> HIDE DEF claimed, back
<1> QED BY <1>7

LEMMA EngineType ==
  ASSUME TypeOK, NEW v \in Vaults,
         HearOfPeer(v) \/ HandleFrame(v) \/ SyncRoutes(v) \/ Stop(v) \/ Renew(v) \/ Restart(v)
  PROVE  TypeOK'
<1>1. CASE HearOfPeer(v)
  <2>1. chan[v] \in Seq(Event) /\ chan[v] # <<>>
    BY <1>1 DEF TypeOK, HearOfPeer
  <2>2. Head(chan[v]) \in Event /\ Tail(chan[v]) \in Seq(Event)
    BY <2>1, QueueType
  <2>3. Head(chan[v]).peer \in Peers
    BY <2>2, EventTypes
  <2>4. chan' \in [Vaults -> Seq(Event)] /\ known' \in [Vaults -> SUBSET Peers]
    BY <1>1, <2>2, <2>3 DEF TypeOK, HearOfPeer
  <2>5. subs' \in [Vaults -> SUBSET (Peers \X Docs)]
    BY <1>1 DEF TypeOK, HearOfPeer
  <2> QED BY <1>1, <2>4, <2>5 DEF TypeOK, HearOfPeer, Busy, relay, windows
<1>2. CASE HandleFrame(v)
  <2>1. PICK f \in Frame, p \in Peers, news \in SUBSET Items, adopted \in SUBSET Notes, loaded \in SUBSET Items :
          /\ HandlesFrame(v, f, p, news, adopted, loaded)
          /\ pending' \in [Vaults -> SUBSET Notes] /\ subs' \in [Vaults -> SUBSET (Peers \X Docs)]
    BY <1>2, HandleFrameIs
  <2>2. chan' \in [Vaults -> Seq(Event)]
    <3>1. chan[v] \in Seq(Event) /\ chan[v] # <<>>
      BY <2>1 DEF TypeOK, HandlesFrame
    <3>2. Tail(chan[v]) \in Seq(Event)
      BY <3>1, QueueType
    <3> QED BY <2>1, <3>2 DEF TypeOK, HandlesFrame
  <2>3. down' \in [Peers -> Seq(Frame)] /\ full' \subseteq Peers
    <3>1. CASE f.ask /\ Deliver({p} \cap known[v], [doc |-> f.doc, ask |-> TRUE, items |-> Part(memory[v], f.doc)])
      <4>1. {p} \cap known[v] \in SUBSET Peers /\ Part(memory[v], f.doc) \in SUBSET Items /\ f.doc \in Docs
        BY FrameTypes, ItemTypes DEF TypeOK
      <4>2. [doc |-> f.doc, ask |-> TRUE, items |-> Part(memory[v], f.doc)] \in Frame
        BY <4>1, FrameTypes
      <4> QED BY <3>1, <4>1, <4>2, DeliverType
    <3>2. ASSUME NEW ps \in SUBSET (known[v] \ {p}), Deliver(ps, Update(f.doc, f.items))
          PROVE  down' \in [Peers -> Seq(Frame)] /\ full' \subseteq Peers
      <4>1. ps \in SUBSET Peers /\ Update(f.doc, f.items) \in Frame
        BY FrameTypes DEF TypeOK
      <4> QED BY <3>2, <4>1, DeliverType
    <3>3. CASE UNCHANGED <<down, full>>
      BY <3>3 DEF TypeOK
    <3> QED BY <2>1, <3>1, <3>2, <3>3 DEF HandlesFrame
  <2>4. memory' \in [Vaults -> SUBSET Items] /\ journal' \in [Vaults -> SUBSET Items]
    BY <2>1 DEF TypeOK, HandlesFrame
  <2> QED BY <2>1, <2>2, <2>3, <2>4 DEF TypeOK, HandlesFrame, Busy, windows
<1>3. CASE SyncRoutes(v)
  <2>1. PICK taken, claimed, back : Claims(v, taken, claimed, back)
    BY <1>3, SyncRoutesIs
  <2>2. chan' \in [Vaults -> Seq(Event)] /\ held' \in Seq([peer : Peers, frame : Frame])
    <3>1. chan[v] \in Seq(Event) /\ back \in Seq(Event)
      BY <2>1 DEF TypeOK, Claims
    <3>2. back \o chan[v] \in Seq(Event)
      BY <3>1
    <3> QED BY <2>1, <3>2 DEF TypeOK, Claims
  <2>3. owner' \in [Notes -> Vaults \cup {None}]
    BY <2>1 DEF TypeOK, Claims
  <2>4. dirty' \in [Vaults -> BOOLEAN] /\ engine' \in [Vaults -> {"none", "new", "running", "stopped", "renewed"}]
    <3>1. \E b \in BOOLEAN : dirty' = [dirty EXCEPT ![v] = b]
      BY <1>3 DEF SyncRoutes
    <3>2. engine' = [engine EXCEPT ![v] = "running"]
      BY <1>3 DEF SyncRoutes, Busy
    <3> QED BY <3>1, <3>2 DEF TypeOK
  <2>5. missed' \in BOOLEAN
    BY <2>1 DEF Claims, TypeOK, Overtakes
  <2> QED BY <1>3, <2>2, <2>3, <2>4, <2>5 DEF TypeOK, SyncRoutes, windows
<1>4. CASE Stop(v)
  <2>1. stops' \in 0 .. MaxStops
    BY <1>4, RelayAssumption DEF TypeOK, Stop
  <2>2. /\ engine' \in [Vaults -> {"none", "new", "running", "stopped", "renewed"}]
        /\ chan' \in [Vaults -> Seq(Event)] /\ known' \in [Vaults -> SUBSET Peers]
        /\ subs' \in [Vaults -> SUBSET (Peers \X Docs)] /\ pending' \in [Vaults -> SUBSET Notes]
        /\ memory' \in [Vaults -> SUBSET Items] /\ dirty' \in [Vaults -> BOOLEAN]
    BY <1>4 DEF TypeOK, Stop
  <2> QED BY <1>4, <2>1, <2>2 DEF TypeOK, Stop, relay, windows
<1>5. CASE Renew(v)
  BY <1>5 DEF TypeOK, Renew, relay, windows
<1>6. CASE Restart(v)
  <2>1. Loaded(v) \subseteq journal[v]
    BY DEF Loaded
  <2> QED BY <1>6, <2>1 DEF TypeOK, Restart, windows
<1> QED BY <1>1, <1>2, <1>3, <1>4, <1>5, <1>6

\* What an engine that opens late hears of first.
LEMMA OpensVault ==
  ASSUME TypeOK, IsFiniteSet(listed), NEW v \in Vaults, OpenVault(v), v \notin reg
  PROVE  /\ chan' \in [Vaults -> Seq(Event)]
         /\ \A u \in Vaults \ {v} : chan'[u] = chan[u]
         /\ \A k \in DOMAIN chan'[v] : chan'[v][k].kind = "connected"
         /\ \A p \in listed : \E k \in DOMAIN chan'[v] : chan'[v][k].kind = "connected" /\ chan'[v][k].peer = p
         /\ reg' = reg \cup {v} /\ engine' = [engine EXCEPT ![v] = "new"] /\ dirty' = [dirty EXCEPT ![v] = TRUE]
<1> DEFINE peers == SetToSeq(listed)
           told == [k \in 1 .. Len(peers) |-> [kind |-> "connected", peer |-> peers[k]]]
<1>1. listed \subseteq Peers
  BY DEF TypeOK
<1>2. /\ peers \in Seq(listed) /\ Len(peers) = Cardinality(listed) /\ Len(peers) \in Nat
      /\ \A x \in listed : \E k \in 1 .. Len(peers) : peers[k] = x
  <2>1. Cardinality(listed) \in Nat /\ peers \in [1 .. Cardinality(listed) -> listed]
    BY SetToSeqOf
  <2>2. peers \in Seq(listed) /\ Len(peers) = Cardinality(listed)
    <3> HIDE DEF peers
    <3> QED BY <2>1
  <2> QED BY <2>1, <2>2, SetToSeqOf
<1>3. chan' = [chan EXCEPT ![v] = told] /\ reg' = reg \cup {v}
      /\ engine' = [engine EXCEPT ![v] = "new"] /\ dirty' = [dirty EXCEPT ![v] = TRUE]
  BY DEF OpenVault
<1> HIDE DEF peers
<1>4. told \in Seq(Event) /\ DOMAIN told = 1 .. Len(peers)
  <2>1. \A k \in 1 .. Len(peers) : [kind |-> "connected", peer |-> peers[k]] \in Event
    <3> TAKE k \in 1 .. Len(peers)
    <3>1. peers[k] \in Peers
      BY <1>1, <1>2
    <3> QED BY <3>1, EventTypes
  <2> QED BY <1>2, <2>1
<1>5. \A k \in 1 .. Len(peers) : told[k].kind = "connected" /\ told[k].peer = peers[k]
  OBVIOUS
<1> HIDE DEF told
<1>6. chan'[v] = told /\ \A u \in Vaults \ {v} : chan'[u] = chan[u]
  BY <1>3 DEF TypeOK
<1>7. chan' \in [Vaults -> Seq(Event)]
  BY <1>3, <1>4 DEF TypeOK
<1>8. \A k \in DOMAIN told : told[k].kind = "connected"
  BY <1>4, <1>5
<1>9. \A p \in listed : \E k \in DOMAIN told : told[k].kind = "connected" /\ told[k].peer = p
  BY <1>2, <1>4, <1>5
<1> QED BY <1>3, <1>6, <1>7, <1>8, <1>9

LEMMA OpenVaultType ==
  ASSUME TypeOK, IsFiniteSet(listed), NEW v \in Vaults, OpenVault(v)
  PROVE  TypeOK'
<1>1. CASE v \in reg
  BY <1>1 DEF TypeOK, OpenVault, windows
<1>2. CASE v \notin reg
  <2>1. /\ chan' \in [Vaults -> Seq(Event)] /\ reg' = reg \cup {v} /\ engine' = [engine EXCEPT ![v] = "new"]
        /\ dirty' = [dirty EXCEPT ![v] = TRUE]
    BY <1>2, OpensVault
  <2>2. wanted' = wanted \ {v} /\ UNCHANGED <<owner, held, listed, full, session, known, subs, pending, memory,
          journal, windows, up, down, stops, missed>>
    BY DEF OpenVault
  <2> QED BY <2>1, <2>2 DEF TypeOK, windows
<1> QED BY <1>1, <1>2

-----------------------------------------------------------------------------
(* What holds in every run, step by step *)

Hears(p, v) ==
  (session[p].at \in {"open", "holding"} /\ p \notin full /\ Works(v)) =>
    \/ p \in known[v]
    \/ \E k \in 1 .. Len(chan[v]) : chan[v][k].kind = "connected" /\ chan[v][k].peer = p

LEMMA RelayParts ==
  /\ RelayInv <=> /\ TypeOK /\ IsFiniteSet(listed) /\ IsFiniteSet(reg) /\ reg # {}
                  /\ \A p \in Peers : SessionInv(p)
                  /\ \A w \in Windows : WindowInv(w)
                  /\ \A v \in Vaults : EngineInv(v)
                  /\ \A p \in Peers, v \in reg : Hears(p, v)
  /\ RelayInv' <=> /\ TypeOK' /\ IsFiniteSet(listed') /\ IsFiniteSet(reg') /\ reg' # {}
                   /\ \A p \in Peers : SessionInv(p)'
                   /\ \A w \in Windows : WindowInv(w)'
                   /\ \A v \in Vaults : EngineInv(v)'
                   /\ \A p \in Peers, v \in reg' : Hears(p, v)'
BY DEF RelayInv, EveryWindowIsHeard, Hears

LEMMA PeerTypes ==
  /\ \A p \in Peers : p[1] \in Windows /\ p[2] \in Slots /\ p = <<p[1], p[2]>> /\ p # None
  /\ \A w \in Windows, s \in Slots : <<w, s>> \in Peers /\ <<w, s>>[1] = w
BY RelayAssumption DEF Peers

LEMMA RelayInit ==
  ASSUME Init
  PROVE  RelayInv
<1>1. TypeOK
  <2>1. Start \subseteq Vaults /\ Start \subseteq Docs
    BY RelayAssumption DEF Docs
  <2>2. session \in [Peers -> [at : Where, frame : Frame \cup {None}]]
    BY DEF Init, Idle, Where
  <2>3. /\ owner \in [Notes -> Vaults \cup {None}] /\ held \in Seq([peer : Peers, frame : Frame])
        /\ chan \in [Vaults -> Seq(Event)] /\ up \in [Peers -> Seq(Frame)] /\ down \in [Peers -> Seq(Frame)]
        /\ conn \in [Windows -> Peers \cup {None}]
    BY DEF Init
  <2>4. /\ engine \in [Vaults -> {"none", "new", "running", "stopped", "renewed"}]
        /\ dirty \in [Vaults -> BOOLEAN] /\ stops \in 0 .. MaxStops
    BY RelayAssumption DEF Init
  <2>5. /\ known \in [Vaults -> SUBSET Peers] /\ subs \in [Vaults -> SUBSET (Peers \X Docs)]
        /\ pending \in [Vaults -> SUBSET Notes]
        /\ memory \in [Vaults -> SUBSET Items] /\ journal \in [Vaults -> SUBSET Items]
        /\ open \in [Windows -> SUBSET Docs] /\ synced \in [Windows -> SUBSET Docs]
        /\ has \in [Windows -> SUBSET Items] /\ mine \in [Windows -> SUBSET Items]
        /\ probe \in [Windows -> [Docs -> SUBSET SUBSET Items]]
        /\ acked \in [Windows -> SUBSET Items]
    BY <2>1 DEF Init
  <2> QED BY <2>1, <2>2, <2>3, <2>4, <2>5 DEF TypeOK, Init
<1>2. IsFiniteSet(listed) /\ IsFiniteSet(reg) /\ reg # {}
  BY FS_EmptySet, RelayAssumption DEF Init
<1>3. \A p \in Peers : SessionInv(p)
  BY PeerTypes DEF Init, SessionInv, Idle, Live
<1>4. \A w \in Windows : WindowInv(w)
  <2>1. Start \cap Notes = {} /\ IsFiniteSet(Start)
    BY RelayAssumption
  <2> QED BY <2>1 DEF Init, WindowInv
<1>5. \A v \in Vaults : EngineInv(v)
  BY DEF Init, EngineInv
<1>6. \A p \in Peers, v \in reg : Hears(p, v)
  BY DEF Init, Hears, Idle
<1> QED BY <1>1, <1>2, <1>3, <1>4, <1>5, <1>6, RelayParts

LEMMA PostedRelay ==
  ASSUME RelayInv, NEW vs \in SUBSET reg, NEW e \in Event, chan' = Posted(vs, e), e.kind # "released",
         e.kind = "gone" => session'[e.peer].at \in {"farewell", "free"},
         \A p \in Peers : session[p].at \in {"farewell", "free"} => session'[p].at \in {"farewell", "free"},
         UNCHANGED <<reg, engine, memory, journal>>
  PROVE  /\ \A v \in Vaults : EngineInv(v)'
         /\ \A v \in Vaults : \A k \in 1 .. Len(chan[v]) : k \in 1 .. Len(chan'[v]) /\ chan'[v][k] = chan[v][k]
         /\ \A v \in vs : engine[v] \in {"new", "running", "renewed"} =>
              Len(chan[v]) + 1 \in 1 .. Len(chan'[v]) /\ chan'[v][Len(chan[v]) + 1] = e
<1>1. TypeOK /\ \A v \in Vaults : EngineInv(v)
  BY DEF RelayInv
<1>2. \A v \in Vaults : chan[v] \in Seq(Event) /\ chan'[v] = IF v \in vs /\ engine[v] \in {"new", "running", "renewed"}
                                                            THEN Append(chan[v], e) ELSE chan[v]
  BY <1>1, PostedType DEF TypeOK
<1>3. ASSUME NEW v \in Vaults
      PROVE  /\ EngineInv(v)'
             /\ \A k \in 1 .. Len(chan[v]) : k \in 1 .. Len(chan'[v]) /\ chan'[v][k] = chan[v][k]
             /\ v \in vs /\ engine[v] \in {"new", "running", "renewed"} =>
                  Len(chan[v]) + 1 \in 1 .. Len(chan'[v]) /\ chan'[v][Len(chan[v]) + 1] = e
  <2>1. \A k \in 1 .. Len(chan[v]) : chan[v][k] \in Event /\ chan[v][k].peer \in Peers
    BY <1>2, EventTypes
  <2>2. CASE v \in vs /\ engine[v] \in {"new", "running", "renewed"}
    <3>1. chan'[v] = Append(chan[v], e) /\ chan[v] \in Seq(Event)
      BY <1>2, <2>2
    <3>2. /\ Len(chan[v]) \in Nat /\ DOMAIN chan'[v] = 1 .. Len(chan[v]) + 1 /\ Len(chan'[v]) = Len(chan[v]) + 1
          /\ DOMAIN chan[v] = 1 .. Len(chan[v])
          /\ \A k \in 1 .. Len(chan[v]) : chan'[v][k] = chan[v][k]
          /\ chan'[v][Len(chan[v]) + 1] = e
      BY <3>1
    <3>3. \A k \in 1 .. Len(chan[v]) + 1 : k \in 1 .. Len(chan[v]) \/ k = Len(chan[v]) + 1
      BY <3>2
    <3>4. ASSUME NEW k \in DOMAIN chan'[v]
          PROVE  /\ chan'[v][k].kind = "gone" => session'[chan'[v][k].peer].at \in {"farewell", "free"}
                 /\ chan'[v][k].kind = "released" => \A j \in 1 .. k : chan'[v][j].kind = "released"
      <4>1. CASE k \in 1 .. Len(chan[v])
        <5>1. \A j \in 1 .. k : j \in 1 .. Len(chan[v])
          BY <3>2, <4>1
        <5>2. chan[v][k].kind = "gone" => session[chan[v][k].peer].at \in {"farewell", "free"}
          BY <1>1, <3>2, <4>1 DEF EngineInv
        <5>3. chan[v][k].kind = "released" => \A j \in 1 .. k : chan[v][j].kind = "released"
          BY <1>1, <3>2, <4>1 DEF EngineInv
        <5> QED BY <2>1, <3>2, <4>1, <5>1, <5>2, <5>3
      <4>2. CASE k = Len(chan[v]) + 1
        BY <3>2, <4>2
      <4> QED BY <3>2, <3>3, <4>1, <4>2
    <3>5. EngineInv(v)'
      BY <1>1, <2>2, <3>4 DEF EngineInv
    <3> QED BY <3>2, <3>5
  <2>3. CASE ~ (v \in vs /\ engine[v] \in {"new", "running", "renewed"})
    <3>1. chan'[v] = chan[v] /\ DOMAIN chan[v] = 1 .. Len(chan[v])
      BY <1>2, <2>3
    <3> QED BY <1>1, <2>1, <2>3, <3>1 DEF EngineInv
  <2> QED BY <2>2, <2>3
<1> QED BY <1>1, <1>3 DEF TypeOK

LEMMA ConnectRelay ==
  ASSUME RelayInv, NEW w \in Windows, Connect(w)
  PROVE  RelayInv'
<1>1. TypeOK /\ IsFiniteSet(open[w])
  BY DEF RelayInv, WindowInv
<1>2. TypeOK'
  BY <1>1, ConnectType
<1>3. PICK p \in Peers :
        /\ p[1] = w /\ Traceless(p)
        /\ conn' = [conn EXCEPT ![w] = p]
        /\ session' = [session EXCEPT ![p].at = "new"]
  BY PeerTypes DEF Connect
<1>4. /\ conn[w] = None
      /\ UNCHANGED <<reg, owner, held, wanted, listed, full, engines, open, has, mine, synced, probe,
                     acked, down, stops, missed>>
  BY DEF Connect
<1>5. session[p].at = "free" /\ session'[p].at = "new" /\ \A q \in Peers \ {p} : session'[q] = session[q]
  <2>1. session \in [Peers -> [at : Where, frame : Frame \cup {None}]]
    BY <1>1 DEF TypeOK
  <2>2. session[p].at = "free"
    BY <1>3 DEF Traceless, Idle
  <2>3. session'[p] = [session[p] EXCEPT !.at = "new"]
    BY <1>3, <2>1
  <2> QED BY <1>3, <2>1, <2>2, <2>3
<1>6. conn'[w] = p /\ \A x \in Windows \ {w} : conn'[x] = conn[x]
  BY <1>1, <1>3 DEF TypeOK
<1>7. ASSUME NEW q \in Peers PROVE SessionInv(q)'
  <2>1. SessionInv(q) /\ WindowInv(w) /\ q[1] \in Windows /\ q # None
    BY PeerTypes DEF RelayInv
  <2>2. CASE q = p
    BY <1>3, <1>4, <1>5, <1>6, <2>1, <2>2 DEF SessionInv, Live, WindowInv
  <2>3. CASE q # p /\ q[1] = w
    BY <1>3, <1>4, <1>5, <1>6, <2>1, <2>3 DEF SessionInv, Live
  <2>4. CASE q # p /\ q[1] # w
    BY <1>3, <1>4, <1>5, <1>6, <2>1, <2>4 DEF SessionInv, Live
  <2> QED BY <2>2, <2>3, <2>4
<1>8. ASSUME NEW x \in Windows PROVE WindowInv(x)'
  BY <1>3, <1>4, <1>6 DEF RelayInv, WindowInv
<1>9. ASSUME NEW v \in Vaults PROVE EngineInv(v)'
  <2>1. \A k \in 1 .. Len(chan[v]) : chan[v][k] \in Event /\ chan[v][k].peer \in Peers /\ chan[v][k].peer # p
    BY <1>1, <1>3, EventTypes DEF TypeOK, Traceless
  <2>2. DOMAIN chan[v] = 1 .. Len(chan[v])
    BY <1>1 DEF TypeOK
  <2> QED BY <1>4, <1>5, <2>1, <2>2 DEF RelayInv, EngineInv, engines
<1>10. \A q \in Peers, v \in reg' : Hears(q, v)'
  <2>1. \A q \in Peers, v \in reg : Hears(q, v)
    BY RelayParts
  <2> QED BY <1>4, <1>5, <2>1 DEF Hears, engines, Works
<1> QED BY <1>2, <1>4, <1>7, <1>8, <1>9, <1>10, RelayParts

\* Steps of a window that only its own state and its frames show.
LEMMA WindowRelay ==
  ASSUME RelayInv, TypeOK', NEW w \in Windows, UNCHANGED <<relay, engines, conn>>,
         \A x \in Windows : WindowInv(x)',
         \A p \in Peers : session[p].at = "new" => synced'[p[1]] = {},
         \A p \in Peers : down[p] = <<>> => down'[p] = <<>>
  PROVE  RelayInv'
<1>1. \A p \in Peers : SessionInv(p)'
  BY DEF RelayInv, SessionInv, Live, relay
<1>2. \A v \in Vaults : EngineInv(v)'
  BY DEF RelayInv, EngineInv, relay, engines
<1>3. \A q \in Peers, v \in reg' : Hears(q, v)'
  <2>1. \A q \in Peers, v \in reg : Hears(q, v)
    BY RelayParts
  <2> QED BY <2>1 DEF Hears, relay, engines, Works
<1> QED BY <1>1, <1>2, <1>3, RelayParts DEF relay

LEMMA MakeRelay ==
  ASSUME RelayInv, NEW w \in Windows,
         \/ \E v \in Vaults : NewVault(w, v)
         \/ \E n \in Notes : CreateNote(w, n)
         \/ \E d \in Docs : Probe(w, d)
  PROVE  RelayInv'
<1>1. TypeOK
  BY DEF RelayInv
<1>2. TypeOK'
  BY <1>1, WindowType
<1>3. UNCHANGED <<relay, engines, conn, synced, down>>
  BY DEF NewVault, CreateNote, Probe
<1>4. \A p \in Peers : session[p].at = "new" => synced[p[1]] = {}
  BY DEF RelayInv, SessionInv
<1>5. ASSUME NEW x \in Windows PROVE WindowInv(x)'
  <2>0. WindowInv(x)
    BY DEF RelayInv
  <2>1. ASSUME NEW v \in Vaults, NewVault(w, v) PROVE WindowInv(x)'
    <3>1. /\ open' = [open EXCEPT ![w] = @ \cup {v}] /\ v \notin Notes
          /\ UNCHANGED <<conn, has, mine, synced, probe>>
      BY <2>1, RelayAssumption DEF NewVault
    <3>2. open'[x] \cap Notes = open[x] \cap Notes /\ IsFiniteSet(open'[x])
      <4>1. open'[x] = open[x] \/ open'[x] = open[x] \cup {v}
        BY <1>1, <3>1 DEF TypeOK
      <4>2. IsFiniteSet(open[x] \cup {v})
        BY <2>0, FS_AddElement DEF WindowInv
      <4> QED BY <2>0, <3>1, <4>1, <4>2 DEF WindowInv
    <3> QED BY <2>0, <3>1, <3>2 DEF WindowInv
  <2>2. ASSUME NEW n \in Notes, CreateNote(w, n) PROVE WindowInv(x)'
    <3>1. /\ open' = [open EXCEPT ![w] = @ \cup {n}] /\ UNCHANGED <<conn, synced, probe>>
          /\ has' = [has EXCEPT ![w] = @ \cup {<<n, "text">>, <<n, "entry">>}]
          /\ mine' = [mine EXCEPT ![w] = @ \cup {<<n, "text">>, <<n, "entry">>}]
      BY <2>2 DEF CreateNote
    <3>2. \/ open'[x] = open[x] /\ has'[x] = has[x] /\ mine'[x] = mine[x]
          \/ /\ open'[x] = open[x] \cup {n}
             /\ has'[x] = has[x] \cup {<<n, "text">>, <<n, "entry">>}
             /\ mine'[x] = mine[x] \cup {<<n, "text">>, <<n, "entry">>}
      BY <1>1, <3>1 DEF TypeOK
    <3>3. IsFiniteSet(open[x] \cup {n})
      BY <2>0, FS_AddElement DEF WindowInv
    <3> QED BY <2>0, <3>1, <3>2, <3>3 DEF WindowInv
  <2>3. ASSUME NEW d \in Docs, Probe(w, d) PROVE WindowInv(x)'
    <3>1. /\ d \in synced[w] /\ UNCHANGED <<conn, open, has, mine, synced>>
          /\ probe' = [probe EXCEPT ![w][d] = {Part(mine[w], d)}]
      BY <2>3 DEF Probe
    <3>2. \A e \in Docs : probe'[x][e] = probe[x][e] \/ (x = w /\ e = d)
      BY <1>1, <3>1 DEF TypeOK
    <3> QED BY <2>0, <3>1, <3>2 DEF WindowInv
  <2> QED BY <2>1, <2>2, <2>3
<1> QED BY <1>2, <1>3, <1>4, <1>5, WindowRelay

LEMMA ReceiveRelay ==
  ASSUME RelayInv, NEW w \in Windows, Receive(w)
  PROVE  RelayInv'
<1> DEFINE p == conn[w]
           f == Head(down[p])
           own == Part(mine[w], f.doc)
<1>1. TypeOK
  BY DEF RelayInv
<1>2. TypeOK'
  BY <1>1, ReceiveType
<1>3. UNCHANGED <<relay, engines, conn, open, mine>> /\ down' = [down EXCEPT ![p] = Tail(@)]
      /\ has' = [has EXCEPT ![w] = @ \cup f.items] /\ p # None /\ down[p] # <<>> /\ p \in Peers
  BY <1>1 DEF TypeOK, Receive
<1>4. \/ synced' = synced /\ probe' = probe
      \/ /\ synced' = [synced EXCEPT ![w] = @ \cup {f.doc}] /\ probe' = [probe EXCEPT ![w][f.doc] = {own}]
      \/ /\ synced' = synced /\ f.doc \in synced[w]
         /\ \/ probe' = [probe EXCEPT ![w][f.doc] = {}]
            \/ probe' = [probe EXCEPT ![w][f.doc] = {own}]
  BY DEF Receive
<1>5. p[1] = w /\ session[p].at \in Live
  <2>1. WindowInv(w) /\ SessionInv(p)
    BY <1>3 DEF RelayInv
  <2> QED BY <1>3, <2>1 DEF WindowInv, SessionInv
<1>6. \A q \in Peers : session[q].at = "new" => synced'[q[1]] = {}
  <2> TAKE q \in Peers
  <2>1. ASSUME session[q].at = "new" PROVE q[1] # w
    <3>1. SessionInv(q) /\ SessionInv(p)
      BY <1>3 DEF RelayInv
    <3> QED BY <1>5, <2>1, <3>1 DEF SessionInv, Live
  <2>2. session[q].at = "new" => synced[q[1]] = {}
    BY DEF RelayInv, SessionInv
  <2> QED BY <1>1, <1>4, <2>1, <2>2, PeerTypes DEF TypeOK
<1>7. \A q \in Peers : down[q] = <<>> => down'[q] = <<>>
  BY <1>1, <1>3 DEF TypeOK
<1>8. ASSUME NEW x \in Windows PROVE WindowInv(x)'
  <2>1. WindowInv(x) /\ WindowInv(w)
    BY DEF RelayInv
  <2>2. f.doc \in Docs /\ has[x] \subseteq has'[x]
    <3>1. f \in Frame
      BY <1>1, <1>3, QueueType DEF TypeOK
    <3> QED BY <1>1, <1>3, <3>1, FrameTypes DEF TypeOK
  <2>3. /\ \A d \in Docs : probe'[x][d] # {} => d \in synced'[x]
        /\ x # w => synced'[x] = synced[x]
    <3> HIDE DEF p, f, own
    <3>1. /\ \A d \in Docs : probe'[x][d] = probe[x][d] \/ (x = w /\ d = f.doc /\ probe' # probe)
          /\ x # w => synced'[x] = synced[x]
          /\ synced[x] \subseteq synced'[x]
      BY <1>1, <1>4, <2>2 DEF TypeOK
    <3>2. probe' # probe => f.doc \in synced'[w]
      BY <1>1, <1>4, <2>2 DEF TypeOK
    <3> QED BY <2>1, <3>1, <3>2 DEF WindowInv
  <2>4. conn[x] = None => x # w
    BY <1>3
  <2> QED BY <1>3, <2>1, <2>2, <2>3, <2>4 DEF WindowInv
<1> QED BY <1>2, <1>3, <1>6, <1>7, <1>8, WindowRelay

\* Steps of a session, which only moves this one.
LEMMA SessionRelay ==
  ASSUME RelayInv, NEW p \in Peers,
         List(p) \/ Announce(p) \/ Route(p) \/ Hold(p) \/ Unlist(p) \/ Farewell(p) \/ ForgetPeer(p)
  PROVE  /\ TypeOK' /\ UNCHANGED <<reg, owner, engine, known, memory, journal, open, has, mine>>
         /\ \A q \in Peers \ {p} : session'[q] = session[q]
         /\ session'[p].at \in Where /\ session'[p].frame \in Frame \cup {None}
         /\ \A a \in Where : session' = [session EXCEPT ![p].at = a] => session'[p].at = a
         /\ \A a \in Where, f \in Frame \cup {None} : session' = [session EXCEPT ![p] = [at |-> a, frame |-> f]] =>
              session'[p].at = a /\ session'[p].frame = f
<1>1. TypeOK
  BY DEF RelayInv
<1>2. TypeOK'
  BY <1>1, SessionType DEF RelayInv, SessionInv
<1>3. session \in [Peers -> [at : Where, frame : Frame \cup {None}]]
  BY <1>1 DEF TypeOK
<1>4. \/ \E a \in Where : session' = [session EXCEPT ![p].at = a]
      \/ \E a \in Where, f \in Frame \cup {None} : session' = [session EXCEPT ![p] = [at |-> a, frame |-> f]]
      \/ session' = session
  <2>1. Route(p) => Head(up[p]) \in Frame
    BY <1>1, QueueType DEF Route, TypeOK
  <2> QED BY <2>1 DEF List, Announce, Route, Hold, Unlist, Farewell, ForgetPeer, Idle, Where
<1>5. \A q \in Peers \ {p} : session'[q] = session[q]
  BY <1>3, <1>4
<1>6. session'[p].at \in Where /\ session'[p].frame \in Frame \cup {None}
  BY <1>2 DEF TypeOK
<1>7. \A a \in Where : session' = [session EXCEPT ![p].at = a] => session'[p].at = a
  BY <1>3
<1>8. \A a \in Where, f \in Frame \cup {None} : session' = [session EXCEPT ![p] = [at |-> a, frame |-> f]] =>
        session'[p].at = a /\ session'[p].frame = f
  BY <1>3
<1>9. UNCHANGED <<reg, owner, engine, known, memory, journal, open, has, mine>>
  BY DEF List, Announce, Route, Hold, Unlist, Farewell, ForgetPeer, engines, windows
<1> QED BY <1>2, <1>5, <1>6, <1>7, <1>8, <1>9

\* What is left to show of such a step, for a session that stays listed and a queue that takes
\* nothing.
LEMMA SessionKeeps ==
  ASSUME RelayInv, NEW p \in Peers,
         List(p) \/ Announce(p) \/ Route(p) \/ Hold(p) \/ Farewell(p) \/ ForgetPeer(p)
  PROVE  /\ UNCHANGED <<full, conn, synced, probe, down>>
         /\ (SessionInv(p)' /\ IsFiniteSet(listed') /\ (\A v \in Vaults : EngineInv(v)')
             /\ \A q \in Peers, v \in reg' : Hears(q, v)') => RelayInv'
         /\ \A q \in Peers \ {p} : q \in listed' <=> q \in listed
<1>1. UNCHANGED <<full, conn, synced, probe, down>>
  BY DEF List, Announce, Route, Hold, Farewell, ForgetPeer, windows
<1>2. listed' = listed \/ listed' = listed \cup {p}
  BY DEF List, Announce, Route, Hold, Farewell, ForgetPeer
<1>3. /\ TypeOK' /\ UNCHANGED <<reg, open, has, mine>>
      /\ \A q \in Peers \ {p} : session'[q] = session[q]
  BY SessionRelay
<1>4. ASSUME NEW q \in Peers \ {p} PROVE SessionInv(q)'
  BY <1>1, <1>2, <1>3 DEF RelayInv, SessionInv, Live
<1>5. ASSUME NEW w \in Windows PROVE WindowInv(w)'
  BY <1>1, <1>3 DEF RelayInv, WindowInv
<1>6. IsFiniteSet(reg') /\ reg' # {}
  BY <1>3 DEF RelayInv
<1>7. ASSUME SessionInv(p)', IsFiniteSet(listed'), \A v \in Vaults : EngineInv(v)',
             \A q \in Peers, v \in reg' : Hears(q, v)'
      PROVE  RelayInv'
  <2>1. \A q \in Peers : SessionInv(q)'
    BY <1>4, <1>7
  <2> QED BY <1>3, <1>5, <1>6, <1>7, <2>1, RelayParts
<1> QED BY <1>1, <1>2, <1>7

LEMMA ListRelay ==
  ASSUME RelayInv, NEW p \in Peers, List(p)
  PROVE  RelayInv'
<1>1. /\ session[p].at = "new" /\ session' = [session EXCEPT ![p].at = "listed"] /\ listed' = listed \cup {p}
      /\ UNCHANGED <<chan, known, full, engine, reg, memory, journal>>
  BY DEF List, engines
<1>2. session'[p].at = "listed" /\ \A q \in Peers \ {p} : session'[q] = session[q]
  BY <1>1, SessionRelay DEF Where
<1>3. SessionInv(p)'
  BY <1>1, <1>2, SessionKeeps DEF RelayInv, SessionInv, Live
<1>4. IsFiniteSet(listed')
  BY <1>1, FS_AddElement DEF RelayInv
<1>5. ASSUME NEW v \in Vaults PROVE EngineInv(v)'
  <2>1. \A q \in Peers : session[q].at \in {"farewell", "free"} => session'[q].at \in {"farewell", "free"}
    BY <1>1, <1>2
  <2>2. \A k \in DOMAIN chan[v] : chan[v][k].peer \in Peers
    BY EventTypes DEF RelayInv, TypeOK
  <2> QED BY <1>1, <2>1, <2>2 DEF RelayInv, EngineInv
<1>6. \A q \in Peers, v \in reg' : Hears(q, v)'
  BY <1>1, <1>2, RelayParts DEF Hears, Works
<1> QED BY <1>3, <1>4, <1>5, <1>6, SessionKeeps

LEMMA AnnounceRelay ==
  ASSUME RelayInv, NEW p \in Peers, Announce(p)
  PROVE  RelayInv'
<1> DEFINE e == [kind |-> "connected", peer |-> p]
<1>1. /\ session[p].at = "listed" /\ session' = [session EXCEPT ![p].at = "open"]
      /\ chan' = Posted(reg, e)
      /\ UNCHANGED <<reg, listed, full, engine, known, memory, journal>>
  BY DEF Announce
<1>2. session'[p].at = "open" /\ \A q \in Peers \ {p} : session'[q] = session[q]
  BY <1>1, SessionRelay DEF Where
<1>3. SessionInv(p)'
  BY <1>1, <1>2, SessionKeeps DEF RelayInv, SessionInv, Live
<1>4. e \in Event /\ e.kind = "connected" /\ e.peer = p
  BY EventTypes
<1> HIDE DEF e
<1>5. /\ \A v \in Vaults : EngineInv(v)'
      /\ \A v \in Vaults : \A k \in 1 .. Len(chan[v]) : k \in 1 .. Len(chan'[v]) /\ chan'[v][k] = chan[v][k]
      /\ \A v \in reg : engine[v] \in {"new", "running", "renewed"} =>
           Len(chan[v]) + 1 \in 1 .. Len(chan'[v]) /\ chan'[v][Len(chan[v]) + 1] = e
  <2>1. \A q \in Peers : session[q].at \in {"farewell", "free"} => session'[q].at \in {"farewell", "free"}
    BY <1>1, <1>2
  <2>2. reg \in SUBSET reg /\ e.kind # "released" /\ e.kind # "gone"
    BY <1>4
  <2> QED BY <1>1, <1>4, <2>1, <2>2, PostedRelay
<1>6. ASSUME NEW q \in Peers, NEW v \in reg' PROVE Hears(q, v)'
  <2>1. Hears(q, v) /\ v \in reg /\ v \in Vaults
    BY <1>1, RelayParts DEF RelayInv, TypeOK
  <2>2. CASE q = p
    BY <1>1, <1>4, <1>5, <2>1, <2>2 DEF Hears, Works
  <2>3. CASE q # p
    BY <1>1, <1>2, <1>5, <2>1, <2>3 DEF Hears, Works
  <2> QED BY <2>2, <2>3
<1>7. IsFiniteSet(listed')
  BY <1>1 DEF RelayInv
<1> QED BY <1>3, <1>5, <1>6, <1>7, SessionKeeps

LEMMA FarewellRelay ==
  ASSUME RelayInv, NEW p \in Peers, Farewell(p)
  PROVE  RelayInv'
<1> DEFINE e == [kind |-> "gone", peer |-> p]
<1>1. /\ session[p].at = "unlisted" /\ session' = [session EXCEPT ![p].at = "farewell"]
      /\ chan' = Posted(reg, e)
      /\ UNCHANGED <<reg, listed, full, engine, known, memory, journal>>
  BY DEF Farewell
<1>2. session'[p].at = "farewell" /\ \A q \in Peers \ {p} : session'[q] = session[q]
  BY <1>1, SessionRelay DEF Where
<1>3. SessionInv(p)'
  BY <1>1, <1>2, SessionKeeps DEF RelayInv, SessionInv, Live
<1>4. e \in Event /\ e.kind = "gone" /\ e.peer = p
  BY EventTypes
<1> HIDE DEF e
<1>5. /\ \A v \in Vaults : EngineInv(v)'
      /\ \A v \in Vaults : \A k \in 1 .. Len(chan[v]) : k \in 1 .. Len(chan'[v]) /\ chan'[v][k] = chan[v][k]
  <2>1. \A q \in Peers : session[q].at \in {"farewell", "free"} => session'[q].at \in {"farewell", "free"}
    BY <1>1, <1>2
  <2> QED BY <1>1, <1>2, <1>4, <2>1, PostedRelay
<1>6. ASSUME NEW q \in Peers, NEW v \in reg' PROVE Hears(q, v)'
  <2>1. Hears(q, v) /\ v \in reg /\ v \in Vaults
    BY <1>1, RelayParts DEF RelayInv, TypeOK
  <2> QED BY <1>1, <1>2, <1>5, <2>1 DEF Hears, Works
<1>7. IsFiniteSet(listed')
  BY <1>1 DEF RelayInv
<1> QED BY <1>3, <1>5, <1>6, <1>7, SessionKeeps

LEMMA RouteRelay ==
  ASSUME RelayInv, NEW p \in Peers, Route(p)
  PROVE  RelayInv'
<1> DEFINE f == Head(up[p])
           e == [kind |-> "frame", peer |-> p, frame |-> f]
           vs == {Target(f.doc)} \cap reg
<1>1. /\ session[p].at = "open" /\ up[p] # <<>>
      /\ \/ session' = [session EXCEPT ![p] = [at |-> "holding", frame |-> f]] /\ chan' = chan
         \/ session' = session /\ chan' = Posted(vs, e)
      /\ UNCHANGED <<reg, listed, full, engine, known, memory, journal>>
  BY DEF Route
<1>2. f \in Frame
  BY <1>1, QueueType DEF RelayInv, TypeOK
<1>3. /\ session'[p].at \in {"open", "holding"} /\ (session'[p].at = "holding" => session'[p].frame = f)
      /\ \A q \in Peers \ {p} : session'[q] = session[q]
  BY <1>1, SessionRelay DEF Where
<1>4. SessionInv(p)'
  BY <1>1, <1>2, <1>3, SessionKeeps DEF RelayInv, SessionInv, Live
<1>5. e \in Event /\ e.kind = "frame" /\ vs \in SUBSET reg
  BY <1>2, EventTypes
<1> HIDE DEF e, vs, f
<1>6. /\ \A v \in Vaults : EngineInv(v)'
      /\ \A v \in Vaults : \A k \in 1 .. Len(chan[v]) : k \in 1 .. Len(chan'[v]) /\ chan'[v][k] = chan[v][k]
  <2>1. \A q \in Peers : session[q].at \in {"farewell", "free"} => session'[q].at \in {"farewell", "free"}
    BY <1>1, <1>3
  <2>2. CASE chan' = Posted(vs, e)
    BY <1>1, <1>3, <1>5, <2>1, <2>2, PostedRelay
  <2>3. CASE chan' = chan
    <3>1. ASSUME NEW v \in Vaults PROVE EngineInv(v)'
      <4>1. \A k \in DOMAIN chan[v] : chan[v][k].peer \in Peers
        BY EventTypes DEF RelayInv, TypeOK
      <4> QED BY <1>1, <2>1, <2>3, <4>1 DEF RelayInv, EngineInv
    <3> QED BY <2>3, <3>1
  <2> QED BY <1>1, <2>2, <2>3
<1>7. ASSUME NEW q \in Peers, NEW v \in reg' PROVE Hears(q, v)'
  <2>1. Hears(q, v) /\ v \in reg /\ v \in Vaults
    BY <1>1, RelayParts DEF RelayInv, TypeOK
  <2> QED BY <1>1, <1>3, <1>6, <2>1 DEF Hears, Works
<1>8. IsFiniteSet(listed')
  BY <1>1 DEF RelayInv
<1> QED BY <1>4, <1>6, <1>7, <1>8, SessionKeeps

LEMMA HoldRelay ==
  ASSUME RelayInv, NEW p \in Peers, Hold(p) \/ ForgetPeer(p)
  PROVE  RelayInv'
<1>1. /\ \/ session[p].at = "holding" /\ session' = [session EXCEPT ![p] = [at |-> "open", frame |-> None]]
         \/ session[p].at = "farewell" /\ session' = [session EXCEPT ![p] = [at |-> "free", frame |-> None]]
      /\ UNCHANGED <<reg, listed, full, engine, known, memory, journal, chan>>
  BY DEF Hold, ForgetPeer, engines, Idle
<1>2. /\ \/ session[p].at = "holding" /\ session'[p].at = "open"
         \/ session[p].at = "farewell" /\ session'[p].at = "free"
      /\ \A q \in Peers \ {p} : session'[q] = session[q]
  BY <1>1, SessionRelay DEF Where
<1>3. SessionInv(p)'
  BY <1>1, <1>2, SessionKeeps DEF RelayInv, SessionInv, Live
<1>4. ASSUME NEW v \in Vaults PROVE EngineInv(v)'
  <2>1. \A q \in Peers : session[q].at \in {"farewell", "free"} => session'[q].at \in {"farewell", "free"}
    BY <1>2
  <2>2. \A k \in DOMAIN chan[v] : chan[v][k].peer \in Peers
    BY EventTypes DEF RelayInv, TypeOK
  <2> QED BY <1>1, <2>1, <2>2 DEF RelayInv, EngineInv
<1>5. ASSUME NEW q \in Peers, NEW v \in reg' PROVE Hears(q, v)'
  <2>1. Hears(q, v) /\ v \in reg /\ v \in Vaults
    BY <1>1, RelayParts DEF RelayInv, TypeOK
  <2> QED BY <1>1, <1>2, <2>1 DEF Hears, Works
<1>6. IsFiniteSet(listed')
  BY <1>1 DEF RelayInv
<1> QED BY <1>3, <1>4, <1>5, <1>6, SessionKeeps

LEMMA UnlistRelay ==
  ASSUME RelayInv, NEW p \in Peers, Unlist(p)
  PROVE  RelayInv'
<1> DEFINE w == p[1]
<1>1. TypeOK /\ w \in Windows
  BY PeerTypes DEF RelayInv
<1>2. /\ session[p].at = "open" /\ session' = [session EXCEPT ![p].at = "unlisted"]
      /\ listed' = listed \ {p} /\ full' = full \ {p} /\ down' = [down EXCEPT ![p] = <<>>]
      /\ conn' = [conn EXCEPT ![w] = None] /\ synced' = [synced EXCEPT ![w] = {}]
      /\ probe' = [probe EXCEPT ![w] = [d \in Docs |-> {}]]
      /\ UNCHANGED <<reg, chan, engine, known, memory, journal, open, has, mine>>
  BY DEF Unlist, engines
<1>3. session'[p].at = "unlisted" /\ \A q \in Peers \ {p} : session'[q] = session[q]
  BY <1>2, SessionRelay DEF Where
<1>4. /\ conn'[w] = None /\ synced'[w] = {} /\ \A d \in Docs : probe'[w][d] = {}
      /\ \A x \in Windows \ {w} : conn'[x] = conn[x] /\ synced'[x] = synced[x] /\ probe'[x] = probe[x]
      /\ down'[p] = <<>> /\ \A q \in Peers \ {p} : down'[q] = down[q]
  BY <1>1, <1>2 DEF TypeOK
<1>5. conn[w] = p
  BY <1>2 DEF RelayInv, SessionInv, Live
<1>6. ASSUME NEW q \in Peers PROVE SessionInv(q)'
  <2>1. SessionInv(q) /\ SessionInv(p) /\ q[1] \in Windows /\ q # None /\ p # None
    BY PeerTypes DEF RelayInv
  <2>2. CASE q = p
    BY <1>2, <1>3, <1>4, <2>1, <2>2 DEF SessionInv, Live
  <2>3. CASE q # p /\ q[1] = w
    BY <1>2, <1>3, <1>4, <1>5, <2>1, <2>3 DEF SessionInv, Live
  <2>4. CASE q # p /\ q[1] # w
    BY <1>2, <1>3, <1>4, <2>1, <2>4 DEF SessionInv, Live
  <2> QED BY <2>2, <2>3, <2>4
<1>7. ASSUME NEW x \in Windows PROVE WindowInv(x)'
  BY <1>2, <1>4 DEF RelayInv, WindowInv
<1>8. ASSUME NEW v \in Vaults PROVE EngineInv(v)'
  <2>1. \A q \in Peers : session[q].at \in {"farewell", "free"} => session'[q].at \in {"farewell", "free"}
    BY <1>2, <1>3
  <2>2. \A k \in DOMAIN chan[v] : chan[v][k].peer \in Peers
    BY <1>1, EventTypes DEF TypeOK
  <2> QED BY <1>2, <2>1, <2>2 DEF RelayInv, EngineInv
<1>9. ASSUME NEW q \in Peers, NEW v \in reg' PROVE Hears(q, v)'
  <2>1. Hears(q, v) /\ v \in reg
    BY <1>2, RelayParts
  <2> QED BY <1>2, <1>3, <2>1 DEF Hears, Works
<1>10. IsFiniteSet(listed') /\ IsFiniteSet(reg') /\ reg' # {}
  BY <1>2, FS_RemoveElement DEF RelayInv
<1>11. TypeOK'
  BY SessionRelay
<1> QED BY <1>6, <1>7, <1>8, <1>9, <1>10, <1>11, RelayParts

\* An engine at work takes the next of its channel.
LEMMA TakesHead ==
  ASSUME RelayInv, TypeOK', NEW v \in Vaults, Works(v), chan[v] # <<>>, Busy(v),
         chan' = [chan EXCEPT ![v] = Tail(@)], UNCHANGED <<reg, session>>,
         memory'[v] \subseteq journal'[v],
         \A u \in Vaults \ {v} : memory'[u] = memory[u] /\ journal'[u] = journal[u]
  PROVE  /\ \A u \in Vaults : EngineInv(u)'
         /\ v \in reg /\ Works(v)' /\ \A u \in Vaults \ {v} : chan'[u] = chan[u] /\ engine'[u] = engine[u]
         /\ Head(chan[v]) = chan[v][1] /\ Len(chan[v]) \in Nat \ {0} /\ Len(chan'[v]) = Len(chan[v]) - 1
         /\ \A k \in 1 .. Len(chan'[v]) : k + 1 \in 1 .. Len(chan[v]) /\ chan'[v][k] = chan[v][k + 1]
         /\ \A k \in 1 .. Len(chan[v]) : k # 1 => k - 1 \in 1 .. Len(chan'[v]) /\ chan'[v][k - 1] = chan[v][k]
<1>1. TypeOK /\ \A u \in Vaults : EngineInv(u)
  BY DEF RelayInv
<1>2. chan[v] \in Seq(Event) /\ chan'[v] = Tail(chan[v])
  BY <1>1 DEF TypeOK
<1>3. /\ Head(chan[v]) = chan[v][1] /\ Len(chan[v]) \in Nat /\ Len(chan[v]) >= 1
      /\ Len(chan'[v]) = Len(chan[v]) - 1
      /\ \A k \in 1 .. Len(chan[v]) - 1 : chan'[v][k] = chan[v][k + 1]
  BY <1>2, QueueType
<1>4. v \in reg /\ engine'[v] = "running" /\ \A u \in Vaults \ {v} : chan'[u] = chan[u] /\ engine'[u] = engine[u]
  BY <1>1 DEF EngineInv, Works, Busy, TypeOK
<1>5. DOMAIN chan[v] = 1 .. Len(chan[v]) /\ DOMAIN chan'[v] = 1 .. Len(chan'[v])
  <2>1. chan'[v] \in Seq(Event)
    BY DEF TypeOK
  <2> QED BY <1>2, <2>1
<1>6. EngineInv(v)'
  <2>1. ASSUME NEW k \in DOMAIN chan'[v]
        PROVE  /\ chan'[v][k].kind = "gone" => session'[chan'[v][k].peer].at \in {"farewell", "free"}
               /\ chan'[v][k].kind = "released" => \A j \in 1 .. k : chan'[v][j].kind = "released"
    <3>1. k \in Nat /\ k + 1 \in DOMAIN chan[v] /\ chan'[v][k] = chan[v][k + 1]
      BY <1>3, <1>5
    <3>2. \A j \in 1 .. k : j + 1 \in 1 .. k + 1 /\ chan'[v][j] = chan[v][j + 1]
      BY <1>3, <1>5, <3>1
    <3>3. /\ chan[v][k + 1].kind = "gone" => session[chan[v][k + 1].peer].at \in {"farewell", "free"}
          /\ chan[v][k + 1].kind = "released" => \A j \in 1 .. k + 1 : chan[v][j].kind = "released"
      BY <1>1, <3>1 DEF EngineInv
    <3> QED BY <3>1, <3>2, <3>3
  <2> QED BY <1>1, <1>4, <2>1 DEF EngineInv
<1>7. ASSUME NEW u \in Vaults \ {v} PROVE EngineInv(u)'
  BY <1>1, <1>4 DEF EngineInv
<1>8. \A k \in 1 .. Len(chan'[v]) : k + 1 \in 1 .. Len(chan[v]) /\ chan'[v][k] = chan[v][k + 1]
  BY <1>3
<1>9. \A k \in 1 .. Len(chan[v]) : k # 1 => k - 1 \in 1 .. Len(chan'[v]) /\ chan'[v][k - 1] = chan[v][k]
  BY <1>3
<1> QED BY <1>3, <1>4, <1>6, <1>7, <1>8, <1>9 DEF Works

LEMMA HearRelay ==
  ASSUME RelayInv, NEW v \in Vaults, HearOfPeer(v)
  PROVE  RelayInv'
<1> DEFINE ev == Head(chan[v])
<1>1. TypeOK /\ TypeOK'
  BY EngineType DEF RelayInv
<1>2. /\ Works(v) /\ chan[v] # <<>> /\ ev.kind \in {"connected", "gone"} /\ Busy(v)
      /\ chan' = [chan EXCEPT ![v] = Tail(@)]
      /\ known' = [known EXCEPT ![v] = IF ev.kind = "gone" THEN @ \ {ev.peer} ELSE @ \cup {ev.peer}]
      /\ UNCHANGED <<relay, memory, journal, windows, down>>
  BY DEF HearOfPeer, Listens, Works
<1>3. UNCHANGED <<reg, session, listed, full, conn, open, has, mine, synced, probe>>
  BY <1>2 DEF relay, windows
<1>4. /\ \A u \in Vaults : EngineInv(u)'
      /\ v \in reg /\ \A u \in Vaults \ {v} : chan'[u] = chan[u] /\ engine'[u] = engine[u]
      /\ ev = chan[v][1] /\ Len(chan[v]) \in Nat \ {0}
      /\ \A k \in 1 .. Len(chan[v]) : k # 1 => k - 1 \in 1 .. Len(chan'[v]) /\ chan'[v][k - 1] = chan[v][k]
  <2>1. memory'[v] \subseteq journal'[v]
    BY <1>2 DEF RelayInv, EngineInv
  <2> QED BY <1>1, <1>2, <1>3, <2>1, TakesHead
<1>5. ASSUME NEW q \in Peers, NEW u \in reg' PROVE Hears(q, u)'
  <2>1. Hears(q, u) /\ u \in Vaults
    BY <1>1, <1>3, RelayParts DEF TypeOK
  <2>2. CASE u = v
    <3>1. /\ known'[v] = IF ev.kind = "gone" THEN known[v] \ {ev.peer} ELSE known[v] \cup {ev.peer}
          /\ ev.kind = "gone" => session[ev.peer].at \in {"farewell", "free"}
      <4>1. 1 \in DOMAIN chan[v]
        BY <1>1, <1>4 DEF TypeOK
      <4> QED BY <1>1, <1>2, <1>4, <4>1 DEF TypeOK, RelayInv, EngineInv
    <3>2. ASSUME session[q].at \in {"open", "holding"}, q \notin full
          PROVE  q \in known'[v] \/ \E k \in 1 .. Len(chan'[v]) : chan'[v][k].kind = "connected" /\ chan'[v][k].peer = q
      <4>1. \/ q \in known[v]
            \/ \E k \in 1 .. Len(chan[v]) : chan[v][k].kind = "connected" /\ chan[v][k].peer = q
        BY <1>2, <2>1, <2>2, <3>2 DEF Hears
      <4>2. CASE q \in known[v]
        BY <3>1, <3>2, <4>2
      <4>3. ASSUME NEW k \in 1 .. Len(chan[v]), chan[v][k].kind = "connected", chan[v][k].peer = q
            PROVE  q \in known'[v] \/ \E j \in 1 .. Len(chan'[v]) : chan'[v][j].kind = "connected" /\ chan'[v][j].peer = q
        <5>1. CASE k = 1
          <6>1. ev.kind = "connected" /\ ev.peer = q
            BY <1>4, <4>3, <5>1
          <6> HIDE DEF ev
          <6> QED BY <3>1, <6>1
        <5>2. CASE k # 1
          BY <1>4, <4>3, <5>2
        <5> QED BY <5>1, <5>2
      <4> QED BY <4>1, <4>2, <4>3
    <3> QED BY <1>3, <2>2, <3>2 DEF Hears
  <2>3. CASE u # v
    BY <1>1, <1>2, <1>3, <1>4, <2>1, <2>3 DEF Hears, Works, TypeOK
  <2> QED BY <2>2, <2>3
<1>6. \A p \in Peers : SessionInv(p)'
  BY <1>2, <1>3 DEF RelayInv, SessionInv, Live
<1>7. \A w \in Windows : WindowInv(w)'
  BY <1>3 DEF RelayInv, WindowInv
<1> QED BY <1>1, <1>3, <1>4, <1>5, <1>6, <1>7, RelayParts DEF RelayInv

LEMMA HandleRelay ==
  ASSUME RelayInv, NEW v \in Vaults, HandleFrame(v)
  PROVE  RelayInv'
<1>1. TypeOK /\ TypeOK'
  BY EngineType DEF RelayInv
<1>2. PICK f \in Frame, p \in Peers, news \in SUBSET Items, adopted \in SUBSET Notes, loaded \in SUBSET Items :
        HandlesFrame(v, f, p, news, adopted, loaded)
  BY <1>1, HandleFrameIs
<1>3. /\ Works(v) /\ chan[v] # <<>> /\ Busy(v) /\ Head(chan[v]).kind \in {"released", "frame"}
      /\ chan' = [chan EXCEPT ![v] = Tail(@)]
      /\ UNCHANGED <<reg, session, listed, known, windows>>
  BY <1>2 DEF HandlesFrame, Listens, Works
<1>4. /\ memory' = [memory EXCEPT ![v] = @ \cup news \cup loaded]
      /\ journal' = [journal EXCEPT ![v] = @ \cup news] /\ loaded \subseteq journal[v]
  BY <1>2 DEF HandlesFrame
<1>5. /\ memory'[v] = memory[v] \cup news \cup loaded /\ journal'[v] = journal[v] \cup news
      /\ \A u \in Vaults \ {v} : memory'[u] = memory[u] /\ journal'[u] = journal[u]
  BY <1>1, <1>4 DEF TypeOK
<1>6. /\ \A u \in Vaults : EngineInv(u)'
      /\ v \in reg /\ \A u \in Vaults \ {v} : chan'[u] = chan[u] /\ engine'[u] = engine[u]
      /\ Head(chan[v]) = chan[v][1] /\ Len(chan[v]) \in Nat \ {0}
      /\ \A k \in 1 .. Len(chan[v]) : k # 1 => k - 1 \in 1 .. Len(chan'[v]) /\ chan'[v][k - 1] = chan[v][k]
  <2>1. memory'[v] \subseteq journal'[v]
    BY <1>4, <1>5 DEF RelayInv, EngineInv
  <2> QED BY <1>1, <1>3, <1>5, <2>1, TakesHead
<1>7. /\ full \subseteq full' /\ \A q \in full' \ full : q \in Peers /\ session[q].at \in Live
      /\ \A q \in Peers : down'[q] = down[q] \/ session[q].at \in Live
  <2>1. CASE f.ask /\ Deliver({p} \cap known[v], [doc |-> f.doc, ask |-> TRUE, items |-> Part(memory[v], f.doc)])
    <3>1. {p} \cap known[v] \in SUBSET Peers /\ Part(memory[v], f.doc) \in SUBSET Items /\ f.doc \in Docs
      BY <1>1, FrameTypes, ItemTypes DEF TypeOK
    <3>2. [doc |-> f.doc, ask |-> TRUE, items |-> Part(memory[v], f.doc)] \in Frame
      BY <3>1, FrameTypes
    <3> QED BY <1>1, <2>1, <3>1, <3>2, DeliverType
  <2>2. ASSUME NEW ps \in SUBSET (known[v] \ {p}), Deliver(ps, Update(f.doc, f.items))
        PROVE  /\ full \subseteq full' /\ \A q \in full' \ full : q \in Peers /\ session[q].at \in Live
               /\ \A q \in Peers : down'[q] = down[q] \/ session[q].at \in Live
    <3>1. ps \in SUBSET Peers /\ Update(f.doc, f.items) \in Frame
      BY <1>1, FrameTypes DEF TypeOK
    <3> QED BY <1>1, <2>2, <3>1, DeliverType
  <2>3. CASE UNCHANGED <<down, full>>
    BY <2>3
  <2> QED BY <1>2, <2>1, <2>2, <2>3 DEF HandlesFrame
<1>8. ASSUME NEW q \in Peers PROVE SessionInv(q)'
  BY <1>3, <1>7 DEF RelayInv, SessionInv, windows, Live
<1>9. ASSUME NEW q \in Peers, NEW u \in reg' PROVE Hears(q, u)'
  <2>1. Hears(q, u) /\ u \in Vaults
    BY <1>1, <1>3, RelayParts DEF TypeOK
  <2>2. CASE u = v
    <3>1. ASSUME session[q].at \in {"open", "holding"}, q \notin full, q \notin known[v]
          PROVE  \E k \in 1 .. Len(chan'[v]) : chan'[v][k].kind = "connected" /\ chan'[v][k].peer = q
      <4>1. PICK k \in 1 .. Len(chan[v]) : chan[v][k].kind = "connected" /\ chan[v][k].peer = q
        BY <1>3, <2>1, <2>2, <3>1 DEF Hears
      <4> QED BY <1>3, <1>6, <4>1
    <3> QED BY <1>3, <1>7, <2>2, <3>1 DEF Hears
  <2>3. CASE u # v
    BY <1>1, <1>3, <1>6, <1>7, <2>1, <2>3 DEF Hears, Works
  <2> QED BY <2>2, <2>3
<1>10. \A w \in Windows : WindowInv(w)'
  BY <1>3 DEF RelayInv, WindowInv, windows
<1> QED BY <1>1, <1>3, <1>6, <1>8, <1>9, <1>10, RelayParts DEF RelayInv

LEMMA ClaimRelay ==
  ASSUME RelayInv, NEW v \in Vaults, SyncRoutes(v)
  PROVE  RelayInv'
<1>1. TypeOK /\ TypeOK'
  BY EngineType DEF RelayInv
<1>2. PICK taken, claimed, back : Claims(v, taken, claimed, back)
  BY <1>1, SyncRoutesIs
<1>3. /\ Works(v) /\ Busy(v) /\ (chan[v] # <<>> => Head(chan[v]).kind # "released")
      /\ UNCHANGED <<reg, listed, full, session, known, memory, journal, windows, down>>
  BY DEF SyncRoutes
<1>4. /\ chan' = [chan EXCEPT ![v] = back \o @] /\ back \in Seq(Event)
      /\ \A k \in 1 .. Len(back) : back[k].kind = "released"
  <2>1. PICK at : \A k \in 1 .. Len(back) :
          back[k] = [kind |-> "released", peer |-> held[at[k]].peer, frame |-> held[at[k]].frame]
    BY <1>2 DEF Claims
  <2>2. ASSUME NEW k \in 1 .. Len(back) PROVE back[k].kind = "released"
    <3>1. back[k] = [kind |-> "released", peer |-> held[at[k]].peer, frame |-> held[at[k]].frame]
      BY <2>1
    <3> QED BY <3>1
  <2> QED BY <1>2, <2>2 DEF Claims
<1>5. chan'[v] = back \o chan[v] /\ chan[v] \in Seq(Event) /\ \A u \in Vaults \ {v} : chan'[u] = chan[u]
  BY <1>1, <1>4 DEF TypeOK
<1>6. /\ Len(back) \in Nat /\ Len(chan[v]) \in Nat /\ Len(chan'[v]) = Len(back) + Len(chan[v])
      /\ \A k \in 1 .. Len(back) : chan'[v][k] = back[k]
      /\ \A k \in 1 .. Len(chan[v]) : chan'[v][Len(back) + k] = chan[v][k]
      /\ DOMAIN chan[v] = 1 .. Len(chan[v]) /\ DOMAIN chan'[v] = 1 .. Len(chan'[v])
  BY <1>4, <1>5
<1>7. \A k \in 1 .. Len(chan'[v]) : k \in 1 .. Len(back) \/ k - Len(back) \in 1 .. Len(chan[v])
  BY <1>6
<1>8. \A k \in 1 .. Len(chan[v]) : chan[v][k].kind # "released"
  <2> SUFFICES ASSUME NEW k \in 1 .. Len(chan[v]), chan[v][k].kind = "released" PROVE FALSE
    OBVIOUS
  <2>1. chan[v] # <<>> /\ Head(chan[v]) = chan[v][1]
    BY <1>5, <1>6
  <2>2. chan[v][1].kind = "released"
    BY <1>6 DEF RelayInv, EngineInv
  <2> QED BY <1>3, <2>1, <2>2
<1>9. engine'[v] = "running" /\ (\A u \in Vaults \ {v} : engine'[u] = engine[u]) /\ Works(v)'
  BY <1>1, <1>3 DEF TypeOK, Busy, Works
<1>10. ASSUME NEW u \in Vaults PROVE EngineInv(u)'
  <2>1. EngineInv(u) /\ EngineInv(v)
    BY DEF RelayInv
  <2>2. CASE u = v
    <3>1. ASSUME NEW k \in DOMAIN chan'[v]
          PROVE  /\ chan'[v][k].kind = "gone" => session[chan'[v][k].peer].at \in {"farewell", "free"}
                 /\ chan'[v][k].kind = "released" => \A j \in 1 .. k : chan'[v][j].kind = "released"
      <4>1. CASE k \in 1 .. Len(back)
        <5>1. \A j \in 1 .. k : j \in 1 .. Len(back)
          BY <1>6, <4>1
        <5> QED BY <1>4, <1>6, <4>1, <5>1
      <4>2. CASE k - Len(back) \in 1 .. Len(chan[v])
        <5>1. chan'[v][k] = chan[v][k - Len(back)]
          BY <1>6, <3>1, <4>2
        <5> QED BY <1>6, <1>8, <2>1, <4>2, <5>1 DEF EngineInv
      <4> QED BY <1>6, <1>7, <3>1, <4>1, <4>2
    <3> QED BY <1>3, <1>9, <2>1, <2>2, <3>1 DEF EngineInv, Works
  <2>3. CASE u # v
    BY <1>3, <1>5, <1>9, <2>1, <2>3 DEF EngineInv
  <2> QED BY <2>2, <2>3
<1>11. ASSUME NEW q \in Peers, NEW u \in reg' PROVE Hears(q, u)'
  <2>1. Hears(q, u) /\ u \in Vaults
    BY <1>1, <1>3, RelayParts DEF TypeOK
  <2>2. CASE u = v
    <3>1. ASSUME session[q].at \in {"open", "holding"}, q \notin full, q \notin known[v]
          PROVE  \E k \in 1 .. Len(chan'[v]) : chan'[v][k].kind = "connected" /\ chan'[v][k].peer = q
      <4>1. PICK k \in 1 .. Len(chan[v]) : chan[v][k].kind = "connected" /\ chan[v][k].peer = q
        BY <1>3, <2>1, <2>2, <3>1 DEF Hears
      <4>2. Len(back) + k \in 1 .. Len(chan'[v]) /\ chan'[v][Len(back) + k] = chan[v][k]
        BY <1>6
      <4> QED BY <4>1, <4>2
    <3> QED BY <1>3, <2>2, <3>1 DEF Hears
  <2>3. CASE u # v
    BY <1>1, <1>3, <1>5, <1>9, <2>1, <2>3 DEF Hears, Works
  <2> QED BY <2>2, <2>3
<1>12. \A p \in Peers : SessionInv(p)'
  BY <1>3 DEF RelayInv, SessionInv, Live, windows
<1>13. \A w \in Windows : WindowInv(w)'
  BY <1>3 DEF RelayInv, WindowInv, windows
<1> QED BY <1>1, <1>3, <1>10, <1>11, <1>12, <1>13, RelayParts DEF RelayInv

LEMMA StopRelay ==
  ASSUME RelayInv, NEW v \in Vaults, Stop(v) \/ Renew(v) \/ Restart(v)
  PROVE  RelayInv'
<1>1. TypeOK /\ TypeOK'
  BY EngineType DEF RelayInv
<1>2. /\ UNCHANGED <<reg, listed, session, windows, down, journal>>
      /\ \/ /\ Works(v) /\ engine' = [engine EXCEPT ![v] = "stopped"] /\ chan' = [chan EXCEPT ![v] = <<>>]
            /\ memory' = [memory EXCEPT ![v] = {}] /\ full' = full /\ known' = [known EXCEPT ![v] = {}]
         \/ /\ engine[v] = "stopped" /\ engine' = [engine EXCEPT ![v] = "renewed"]
            /\ UNCHANGED <<chan, memory, full, known>>
         \/ /\ engine[v] = "renewed" /\ engine' = [engine EXCEPT ![v] = "new"]
            /\ full' = full \cup listed /\ memory' = [memory EXCEPT ![v] = Loaded(v)]
            /\ UNCHANGED <<chan, known>>
  BY DEF Stop, Renew, Restart, relay
<1>3. ASSUME NEW u \in Vaults PROVE EngineInv(u)'
  <2>1. EngineInv(u)
    BY DEF RelayInv
  <2>2. CASE u = v
    <3>1. Loaded(v) \subseteq journal[v]
      BY DEF Loaded
    <3> QED BY <1>1, <1>2, <2>1, <2>2, <3>1 DEF EngineInv, TypeOK, Works
  <2>3. CASE u # v
    BY <1>1, <1>2, <2>1, <2>3 DEF EngineInv, TypeOK
  <2> QED BY <2>2, <2>3
<1>4. ASSUME NEW q \in Peers, NEW u \in reg' PROVE Hears(q, u)'
  <2>1. Hears(q, u) /\ u \in Vaults
    BY <1>1, <1>2, RelayParts DEF TypeOK
  <2>2. CASE u = v
    <3>1. session[q].at \in {"open", "holding"} => q \in listed
      BY DEF RelayInv, SessionInv, Live
    <3> QED BY <1>1, <1>2, <2>2, <3>1 DEF Hears, Works, TypeOK
  <2>3. CASE u # v
    <3>1. engine'[u] = engine[u] /\ chan'[u] = chan[u] /\ known'[u] = known[u] /\ full \subseteq full'
      BY <1>1, <1>2, <2>1, <2>3 DEF TypeOK
    <3> QED BY <1>2, <2>1, <3>1 DEF Hears, Works
  <2> QED BY <2>2, <2>3
<1>5. \A p \in Peers : SessionInv(p)'
  BY <1>2 DEF RelayInv, SessionInv, Live, windows
<1>6. \A w \in Windows : WindowInv(w)'
  BY <1>2 DEF RelayInv, WindowInv, windows
<1> QED BY <1>1, <1>2, <1>3, <1>4, <1>5, <1>6, RelayParts DEF RelayInv

LEMMA OpenRelay ==
  ASSUME RelayInv, NEW v \in Vaults, OpenVault(v)
  PROVE  RelayInv'
<1>1. TypeOK /\ TypeOK'
  BY OpenVaultType DEF RelayInv
<1>2. UNCHANGED <<listed, full, session, known, memory, journal, windows, down>>
  BY DEF OpenVault
<1>3. \A p \in Peers : SessionInv(p)'
  BY <1>2 DEF RelayInv, SessionInv, Live, windows
<1>4. \A w \in Windows : WindowInv(w)'
  BY <1>2 DEF RelayInv, WindowInv, windows
<1>5. CASE v \in reg
  <2>1. UNCHANGED <<reg, engine, chan>>
    BY <1>5 DEF OpenVault
  <2>2. \A u \in Vaults : EngineInv(u)'
    BY <1>2, <2>1 DEF RelayInv, EngineInv
  <2>3. \A q \in Peers, u \in reg' : Hears(q, u)'
    BY <1>2, <2>1, RelayParts DEF Hears, Works
  <2> QED BY <1>1, <1>2, <1>3, <1>4, <2>1, <2>2, <2>3, RelayParts DEF RelayInv
<1>6. CASE v \notin reg
  <2>1. /\ chan' \in [Vaults -> Seq(Event)]
        /\ \A u \in Vaults \ {v} : chan'[u] = chan[u]
        /\ \A k \in DOMAIN chan'[v] : chan'[v][k].kind = "connected"
        /\ \A p \in listed : \E k \in DOMAIN chan'[v] : chan'[v][k].kind = "connected" /\ chan'[v][k].peer = p
        /\ reg' = reg \cup {v} /\ engine' = [engine EXCEPT ![v] = "new"]
    BY <1>1, <1>6, OpensVault DEF RelayInv
  <2>2. engine'[v] = "new" /\ \A u \in Vaults \ {v} : engine'[u] = engine[u]
    BY <1>1, <2>1 DEF TypeOK
  <2>3. ASSUME NEW u \in Vaults PROVE EngineInv(u)'
    <3>1. EngineInv(u)
      BY DEF RelayInv
    <3>2. CASE u = v
      BY <1>2, <2>1, <2>2, <3>1, <3>2 DEF EngineInv
    <3>3. CASE u # v
      BY <1>2, <2>1, <2>2, <3>1, <3>3 DEF EngineInv
    <3> QED BY <3>2, <3>3
  <2>4. ASSUME NEW q \in Peers, NEW u \in reg' PROVE Hears(q, u)'
    <3>1. CASE u = v
      <4>1. session[q].at \in {"open", "holding"} => q \in listed
        BY DEF RelayInv, SessionInv, Live
      <4>2. DOMAIN chan'[v] = 1 .. Len(chan'[v])
        BY <2>1
      <4> QED BY <1>2, <2>1, <3>1, <4>1, <4>2 DEF Hears
    <3>2. CASE u # v
      <4>1. Hears(q, u) /\ u \in Vaults
        BY <1>1, <2>1, <3>2, RelayParts DEF TypeOK
      <4> QED BY <1>2, <2>1, <2>2, <3>2, <4>1 DEF Hears, Works
    <3> QED BY <3>1, <3>2
  <2>5. IsFiniteSet(reg') /\ reg' # {}
    BY <2>1, FS_AddElement DEF RelayInv
  <2> QED BY <1>1, <1>2, <1>3, <1>4, <2>3, <2>4, <2>5, RelayParts DEF RelayInv
<1> QED BY <1>5, <1>6

LEMMA RelayStep ==
  ASSUME RelayInv, [Next]_vars
  PROVE  RelayInv'
<1>1. CASE UNCHANGED vars
  <2>1. UNCHANGED <<relay, engines, windows, down>>
    BY <1>1 DEF vars
  <2>2. TypeOK'
    BY <1>1 DEF RelayInv, TypeOK, vars, relay, engines, windows
  <2>3. \A w \in Windows : WindowInv(w)'
    BY <2>1 DEF RelayInv, WindowInv, windows
  <2>4. /\ \A p \in Peers : SessionInv(p)'
        /\ \A v \in Vaults : EngineInv(v)'
    BY <2>1 DEF RelayInv, SessionInv, EngineInv, Live, windows, relay, engines
  <2>5. \A q \in Peers, u \in reg' : Hears(q, u)'
    BY <2>1, RelayParts DEF Hears, Works, relay, engines
  <2> QED BY <2>1, <2>2, <2>3, <2>4, <2>5, RelayParts DEF RelayInv, relay
<1>2. CASE Work
  BY <1>2, ConnectRelay, MakeRelay, ReceiveRelay, ListRelay, AnnounceRelay, RouteRelay, HoldRelay, UnlistRelay,
     FarewellRelay, HearRelay, HandleRelay, ClaimRelay, StopRelay, OpenRelay DEF Work
<1>3. CASE \E w \in Windows : (\E v \in Vaults : NewVault(w, v)) \/ (\E n \in Notes : CreateNote(w, n))
  BY <1>3, MakeRelay
<1>4. CASE \E v \in Vaults : Stop(v)
  BY <1>4, StopRelay
<1> QED BY <1>1, <1>2, <1>3, <1>4 DEF Next

LEMMA RelayAlways == Spec => []RelayInv
<1>1. Init => RelayInv
  BY RelayInit
<1>2. RelayInv /\ [Next]_vars => RelayInv'
  BY RelayStep
<1> QED BY <1>1, <1>2, PTL DEF Spec

(* A window past its announcement is a peer of every engine that runs, or is about to be, or its   *)
(* connection is about to be dropped: the announcement against a vault that is opened meanwhile    *)
(* and an engine that is started again (local.rs: Registrar::add, peer_session; client.rs: renew). *)
THEOREM WindowsHeardHolds == Spec => []EveryWindowIsHeard
<1>1. RelayInv => EveryWindowIsHeard
  BY DEF RelayInv
<1> QED BY <1>1, RelayAlways, PTL

-----------------------------------------------------------------------------
(* Queues that keep what is of interest, in its order *)

Keeps(s, t, R) ==
  \E at \in [DOMAIN t -> Nat] :
    /\ \A k \in DOMAIN t : t[k] \in R => at[k] \in DOMAIN s /\ s[at[k]] = t[k]
    /\ \A j, k \in DOMAIN t : t[j] \in R /\ t[k] \in R /\ j < k => at[j] < at[k]
    /\ \A j \in DOMAIN s : s[j] \in R => \E k \in DOMAIN t : at[k] = j /\ t[k] = s[j]

LEMMA KeepsSame ==
  ASSUME NEW S, NEW s \in Seq(S), NEW R
  PROVE  Keeps(s, s, R)
<1> DEFINE at == [k \in DOMAIN s |-> k]
<1>1. at \in [DOMAIN s -> Nat]
  OBVIOUS
<1>2. \A k \in DOMAIN s : at[k] = k
  OBVIOUS
<1> HIDE DEF at
<1> QED BY <1>1, <1>2 DEF Keeps

LEMMA KeepsTail ==
  ASSUME NEW S, NEW s \in Seq(S), NEW R, s # <<>>, Head(s) \notin R
  PROVE  Keeps(s, Tail(s), R)
<1> DEFINE t == Tail(s)
           at == [k \in DOMAIN t |-> k + 1]
<1>1. /\ t \in Seq(S) /\ Len(s) \in Nat /\ Len(s) >= 1 /\ DOMAIN s = 1 .. Len(s) /\ DOMAIN t = 1 .. Len(s) - 1
      /\ Head(s) = s[1]
      /\ \A k \in 1 .. Len(s) - 1 : t[k] = s[k + 1]
  OBVIOUS
<1> HIDE DEF t
<1>2. at \in [DOMAIN t -> Nat] /\ \A k \in DOMAIN t : at[k] = k + 1
  BY <1>1
<1> HIDE DEF at
<1>3. \A j \in DOMAIN s : s[j] \in R => \E k \in DOMAIN t : at[k] = j /\ t[k] = s[j]
  <2> SUFFICES ASSUME NEW j \in DOMAIN s, s[j] \in R PROVE \E k \in DOMAIN t : at[k] = j /\ t[k] = s[j]
    OBVIOUS
  <2>1. j # 1 /\ j - 1 \in DOMAIN t /\ j = (j - 1) + 1
    BY <1>1
  <2> QED BY <1>1, <1>2, <2>1
<1>4. /\ \A k \in DOMAIN t : t[k] \in R => at[k] \in DOMAIN s /\ s[at[k]] = t[k]
      /\ \A j, k \in DOMAIN t : t[j] \in R /\ t[k] \in R /\ j < k => at[j] < at[k]
  BY <1>1, <1>2
<1>5. Keeps(s, t, R)
  BY <1>2, <1>3, <1>4 DEF Keeps
<1> QED BY <1>5 DEF t

\* More at the end, or at the head.
LEMMA KeepsMore ==
  ASSUME NEW S, NEW s \in Seq(S), NEW q \in Seq(S), NEW R, \A k \in 1 .. Len(q) : q[k] \notin R
  PROVE  Keeps(s, s \o q, R) /\ Keeps(s, q \o s, R)
<1>1. Keeps(s, s \o q, R)
  <2> DEFINE t == s \o q
             at == [k \in DOMAIN t |-> k]
  <2>1. /\ Len(s) \in Nat /\ Len(q) \in Nat /\ DOMAIN s = 1 .. Len(s) /\ DOMAIN t = 1 .. Len(s) + Len(q)
        /\ \A k \in 1 .. Len(s) : t[k] = s[k]
        /\ \A k \in 1 .. Len(q) : t[Len(s) + k] = q[k]
    OBVIOUS
  <2> HIDE DEF t
  <2>2. at \in [DOMAIN t -> Nat] /\ \A k \in DOMAIN t : at[k] = k
    BY <2>1
  <2> HIDE DEF at
  <2>3. ASSUME NEW k \in DOMAIN t, t[k] \in R PROVE k \in DOMAIN s
    <3>1. CASE k > Len(s)
      <4>1. k - Len(s) \in 1 .. Len(q) /\ k = Len(s) + (k - Len(s))
        BY <2>1, <3>1
      <4> QED BY <2>1, <2>3, <4>1
    <3>2. CASE k <= Len(s)
      BY <2>1, <3>2
    <3> QED BY <2>1, <3>1, <3>2
  <2>4. \A k \in DOMAIN t : t[k] \in R => at[k] \in DOMAIN s /\ s[at[k]] = t[k]
    BY <2>1, <2>2, <2>3
  <2>5. \A j, k \in DOMAIN t : t[j] \in R /\ t[k] \in R /\ j < k => at[j] < at[k]
    BY <2>2
  <2>6. \A j \in DOMAIN s : s[j] \in R => \E k \in DOMAIN t : at[k] = j /\ t[k] = s[j]
    <3> TAKE j \in DOMAIN s
    <3>1. j \in DOMAIN t /\ at[j] = j /\ t[j] = s[j]
      BY <2>1, <2>2
    <3> QED BY <3>1
  <2>7. Keeps(s, t, R)
    BY <2>2, <2>4, <2>5, <2>6 DEF Keeps
  <2> QED BY <2>7 DEF t
<1>2. Keeps(s, q \o s, R)
  <2> DEFINE t == q \o s
             at == [k \in DOMAIN t |-> IF k > Len(q) THEN k - Len(q) ELSE 0]
  <2>1. /\ Len(s) \in Nat /\ Len(q) \in Nat /\ DOMAIN s = 1 .. Len(s) /\ DOMAIN t = 1 .. Len(q) + Len(s)
        /\ \A k \in 1 .. Len(q) : t[k] = q[k]
        /\ \A k \in 1 .. Len(s) : t[Len(q) + k] = s[k]
    OBVIOUS
  <2> HIDE DEF t
  <2>2. at \in [DOMAIN t -> Nat] /\ \A k \in DOMAIN t : k > Len(q) => at[k] = k - Len(q)
    BY <2>1
  <2> HIDE DEF at
  <2>3. ASSUME NEW k \in DOMAIN t, t[k] \in R PROVE k > Len(q) /\ k - Len(q) \in DOMAIN s /\ s[k - Len(q)] = t[k]
    <3>1. k > Len(q)
      BY <2>1, <2>3
    <3>2. k - Len(q) \in 1 .. Len(s) /\ k = Len(q) + (k - Len(q))
      BY <2>1, <3>1
    <3> QED BY <2>1, <3>1, <3>2
  <2>4. \A k \in DOMAIN t : t[k] \in R => at[k] \in DOMAIN s /\ s[at[k]] = t[k]
    BY <2>2, <2>3
  <2>5. \A j, k \in DOMAIN t : t[j] \in R /\ t[k] \in R /\ j < k => at[j] < at[k]
    BY <2>1, <2>2, <2>3
  <2>6. \A j \in DOMAIN s : s[j] \in R => \E k \in DOMAIN t : at[k] = j /\ t[k] = s[j]
    <3> TAKE j \in DOMAIN s
    <3>1. Len(q) + j \in DOMAIN t /\ at[Len(q) + j] = j /\ t[Len(q) + j] = s[j]
      BY <2>1, <2>2
    <3> QED BY <3>1
  <2>7. Keeps(s, t, R)
    BY <2>2, <2>4, <2>5, <2>6 DEF Keeps
  <2> QED BY <2>7 DEF t
<1> QED BY <1>1, <1>2

LEMMA KeepsOneMore ==
  ASSUME NEW S, NEW s \in Seq(S), NEW e \in S, NEW R, e \notin R
  PROVE  Keeps(s, Append(s, e), R)
<1>1. Append(s, e) = s \o <<e>> /\ <<e>> \in Seq(S) /\ \A k \in 1 .. Len(<<e>>) : <<e>>[k] \notin R
  OBVIOUS
<1> QED BY <1>1, KeepsMore

LEMMA KeepsChosen ==
  ASSUME NEW S, NEW s \in Seq(S), NEW t \in Seq(S), NEW R, NEW ks, \E at : Chosen(s, ks, Len(s), t, at),
         \A k \in 1 .. Len(s) : s[k] \in R => k \in ks
  PROVE  Keeps(s, t, R)
<1>1. PICK at : Chosen(s, ks, Len(s), t, at)
  OBVIOUS
<1>2. DOMAIN s = 1 .. Len(s) /\ DOMAIN t = 1 .. Len(t) /\ Len(t) \in Nat /\ Len(s) \in Nat
  OBVIOUS
<1>3. /\ at \in [1 .. Len(t) -> ks \cap (1 .. Len(s))]
      /\ \A k \in 1 .. Len(t) : t[k] = s[at[k]]
      /\ \A j, k \in 1 .. Len(t) : j < k => at[j] < at[k]
      /\ \A j \in ks \cap (1 .. Len(s)) : \E k \in 1 .. Len(t) : at[k] = j
  BY <1>1 DEF Chosen
<1>4. at \in [DOMAIN t -> Nat]
  BY <1>2, <1>3
<1>5. \A k \in DOMAIN t : t[k] \in R => at[k] \in DOMAIN s /\ s[at[k]] = t[k]
  BY <1>2, <1>3
<1>6. \A j, k \in DOMAIN t : t[j] \in R /\ t[k] \in R /\ j < k => at[j] < at[k]
  BY <1>2, <1>3
<1>7. \A j \in DOMAIN s : s[j] \in R => \E k \in DOMAIN t : at[k] = j /\ t[k] = s[j]
  BY <1>2, <1>3
<1> QED BY <1>4, <1>5, <1>6, <1>7 DEF Keeps

-----------------------------------------------------------------------------
(* The line of one window about one document *)

SameWindow(w, d) ==
  /\ d \in open'[w] <=> d \in open[w]
  /\ d \in synced'[w] <=> d \in synced[w]
  /\ probe'[w][d] = probe[w][d]
  /\ Part(mine'[w], d) = Part(mine[w], d)

LEMMA BeforeIsOrder ==
  /\ \A x, y, z \in Place : Before(x, y) /\ Before(y, z) => Before(x, z)
  /\ \A x, y \in Place : Before(x, y) => ~ Before(y, x) /\ x # y
  /\ \A x, y \in Place : Before(x, y) \/ Before(y, x) \/ x = y
  /\ \A x, y \in Place : x[1] = 0 /\ y[1] > 0 => Before(x, y)
<1>1. \A x \in Place : x[1] \in Nat /\ x[2] \in Nat /\ x = <<x[1], x[2]>>
  BY DEF Place
<1> QED BY <1>1 DEF Before

\* Where a question came from, and where what is ahead of it went.
LEMMA LineMoves ==
  ASSUME NEW p \in Peers, NEW d \in Docs, NEW m,
         RelayInv, LineInv(p, d), conn[p[1]] = p, SameWindow(p[1], d),
         journal[VaultFor(d)] \subseteq journal'[VaultFor(d)],
         \A x \in Asks(p, d)' :
           /\ m[x] \in Asks(p, d)
           /\ x[1] = 0 => \/ m[x][1] = 0
                          \/ Whole(p, d) /\ \A i : \A y \in Brings(p, d, i) : ~ Before(y, m[x]),
         \A x, y \in Asks(p, d)' : m[x] = m[y] => x = y,
         Whole(p, d)' /\ d \in synced[p[1]] =>
           /\ Whole(p, d)
           /\ \A i : \A y \in Brings(p, d, i) :
                \/ i \in journal'[VaultFor(d)]
                \/ \E z \in Brings(p, d, i)' : \A x \in Asks(p, d)' : Before(y, m[x]) => Before(z, x)
  PROVE  LineInv(p, d)'
<1> DEFINE w == p[1]
           V == VaultFor(d)
<1>1. AsksOnce(p, d) /\ AsksLate(p, d) /\ AllSent(p, d)
  BY DEF LineInv
<1>2. w \in Windows /\ WindowInv(w)
  BY PeerTypes DEF RelayInv
<1>3. AsksOnce(p, d)'
  <2>1. \A x, y \in Asks(p, d)' : x = y
    BY <1>1 DEF AsksOnce
  <2>2. Asks(p, d) = {} => Asks(p, d)' = {}
    OBVIOUS
  <2> QED BY <1>1, <2>1, <2>2 DEF AsksOnce, SameWindow
<1>4. AsksLate(p, d)'
  <2>1. ASSUME NEW x \in Asks(p, d)', NEW of \in probe'[w][d], NEW i \in of, x[1] = 0 \/ Whole(p, d)'
        PROVE  i \in journal'[V] \/ \E z \in Brings(p, d, i)' : Before(z, x)
    <3>1. of \in probe[w][d] /\ d \in synced[w]
      BY <1>2 DEF SameWindow, WindowInv
    <3>2. m[x] \in Asks(p, d) /\ (m[x][1] = 0 \/ Whole(p, d))
      BY <2>1, <3>1
    <3>3. i \in journal[V] \/ \E y \in Brings(p, d, i) : Before(y, m[x])
      BY <1>1, <3>1, <3>2 DEF AsksLate
    <3>4. CASE i \in journal[V]
      BY <3>4
    <3>5. ASSUME NEW y \in Brings(p, d, i), Before(y, m[x])
          PROVE  i \in journal'[V] \/ \E z \in Brings(p, d, i)' : Before(z, x)
      <4>1. y \in Place /\ y[1] > 0 /\ m[x] \in Place
        BY <3>2 DEF Brings, Asks
      <4>2. m[x][1] # 0
        BY <3>5, <4>1, BeforeIsOrder
      <4>3. CASE x[1] = 0
        BY <3>5, <4>2, <4>3
      <4>4. CASE Whole(p, d)'
        BY <3>1, <3>5, <4>4
      <4> QED BY <2>1, <4>3, <4>4
    <3> QED BY <3>3, <3>4, <3>5
  <2> QED BY <2>1 DEF AsksLate
<1>5. AllSent(p, d)'
  <2>1. ASSUME d \in synced'[w], Whole(p, d)', NEW i \in Part(mine'[w], d)
        PROVE  i \in journal'[V] \/ Brings(p, d, i)' # {}
    <3>1. d \in synced[w] /\ Whole(p, d) /\ i \in Part(mine[w], d)
      BY <2>1 DEF SameWindow
    <3>2. i \in journal[V] \/ Brings(p, d, i) # {}
      BY <1>1, <3>1 DEF AllSent
    <3> QED BY <2>1, <3>1, <3>2
  <2> QED BY <2>1 DEF AllSent
<1> QED BY <1>3, <1>4, <1>5 DEF LineInv

\* The frames that count: those on their way to the store, and the answers to questions.
Counts(x, f) == x[1] > 0 \/ f.ask

LEMMA LineShifts ==
  ASSUME NEW p \in Peers, NEW d \in Docs, NEW m,
         RelayInv, LineInv(p, d), conn[p[1]] = p, SameWindow(p[1], d),
         journal[VaultFor(d)] \subseteq journal'[VaultFor(d)],
         \A x \in Place, f \in Frame : Stands(p, d, x, f)' /\ f.ask =>
           m[x] \in Place /\ Stands(p, d, m[x], f) /\ (x[1] = 0 => m[x][1] = 0),
         \A x, y \in Place, f, g \in Frame :
           Stands(p, d, x, f)' /\ Stands(p, d, y, g)' /\ Counts(x, f) /\ Counts(y, g) /\ Before(x, y) =>
             Before(m[x], m[y]),
         Whole(p, d)' /\ d \in synced[p[1]] =>
           /\ Whole(p, d)
           /\ \A y \in Place, f \in Frame : Stands(p, d, y, f) /\ y[1] > 0 =>
                \E z \in Place : z[1] > 0 /\ Stands(p, d, z, f)' /\ m[z] = y
  PROVE  LineInv(p, d)'
<1>1. ASSUME NEW x \in Asks(p, d)'
      PROVE  /\ x \in Place /\ m[x] \in Place /\ m[x] \in Asks(p, d) /\ (x[1] = 0 => m[x][1] = 0)
             /\ \E f \in Frame : Stands(p, d, x, f)' /\ Counts(x, f)
  <2>1. PICK f \in Frame : Stands(p, d, x, f)' /\ f.ask
    BY DEF Asks
  <2>2. x \in Place
    BY DEF Asks
  <2> QED BY <2>1, <2>2 DEF Asks, Counts
<1>2. ASSUME NEW x \in Asks(p, d)', NEW y \in Asks(p, d)', m[x] = m[y] PROVE x = y
  <2>1. CASE Before(x, y)
    <3>1. Before(m[x], m[y])
      BY <1>1, <2>1
    <3> QED BY <1>1, <1>2, <3>1, BeforeIsOrder
  <2>2. CASE Before(y, x)
    <3>1. Before(m[y], m[x])
      BY <1>1, <2>2
    <3> QED BY <1>1, <1>2, <3>1, BeforeIsOrder
  <2> QED BY <1>1, <2>1, <2>2, BeforeIsOrder
<1>3. ASSUME Whole(p, d)' /\ d \in synced[p[1]]
      PROVE  /\ Whole(p, d)
             /\ \A i : \A y \in Brings(p, d, i) :
                  \E z \in Brings(p, d, i)' : \A x \in Asks(p, d)' : Before(y, m[x]) => Before(z, x)
  <2>1. ASSUME NEW i, NEW y \in Brings(p, d, i)
        PROVE  \E z \in Brings(p, d, i)' : \A x \in Asks(p, d)' : Before(y, m[x]) => Before(z, x)
    <3>1. PICK f \in Frame : Stands(p, d, y, f) /\ i \in f.items /\ y \in Place /\ y[1] > 0
      BY DEF Brings
    <3>2. PICK z \in Place : z[1] > 0 /\ Stands(p, d, z, f)' /\ m[z] = y
      BY <1>3, <3>1
    <3>3. z \in Brings(p, d, i)'
      BY <3>1, <3>2 DEF Brings
    <3>4. ASSUME NEW x \in Asks(p, d)', Before(y, m[x]) PROVE Before(z, x)
      <4>1. CASE x = z
        <5>1. Before(y, y) /\ y \in Place
          BY <3>1, <3>2, <3>4, <4>1
        <5> QED BY <5>1, BeforeIsOrder
      <4>2. CASE Before(x, z)
        <5>1. Before(m[x], m[z])
          <6>1. Counts(z, f)
            BY <3>2 DEF Counts
          <6> QED BY <1>1, <3>2, <4>2, <6>1
        <5> QED BY <1>1, <3>1, <3>2, <3>4, <5>1, BeforeIsOrder
      <4> QED BY <1>1, <3>2, <4>1, <4>2, BeforeIsOrder
    <3> QED BY <3>3, <3>4
  <2> QED BY <1>3, <2>1
<1>4. \A x \in Asks(p, d)' : m[x] \in Asks(p, d) /\ (x[1] = 0 => m[x][1] = 0)
  BY <1>1
<1>5. \A x, y \in Asks(p, d)' : m[x] = m[y] => x = y
  BY <1>2
<1>6. \A x \in Asks(p, d)' :
        /\ m[x] \in Asks(p, d)
        /\ x[1] = 0 => \/ m[x][1] = 0
                       \/ Whole(p, d) /\ \A i : \A y \in Brings(p, d, i) : ~ Before(y, m[x])
  BY <1>4
<1>7. Whole(p, d)' /\ d \in synced[p[1]] =>
        /\ Whole(p, d)
        /\ \A i : \A y \in Brings(p, d, i) :
             \/ i \in journal'[VaultFor(d)]
             \/ \E z \in Brings(p, d, i)' : \A x \in Asks(p, d)' : Before(y, m[x]) => Before(z, x)
  BY <1>3
<1> QED BY <1>5, <1>6, <1>7, LineMoves

\* A step that loses of the line what the loss of its engine or connection makes good.
LEMMA LineThins ==
  ASSUME NEW p \in Peers, NEW d \in Docs,
         RelayInv, LineInv(p, d), conn[p[1]] = p, SameWindow(p[1], d),
         journal[VaultFor(d)] \subseteq journal'[VaultFor(d)],
         \A x \in Place, f \in Frame : Stands(p, d, x, f)' => Stands(p, d, x, f),
         ~ (Whole(p, d)' /\ d \in synced[p[1]])
  PROVE  LineInv(p, d)'
<1> DEFINE m == [x \in Place |-> x]
<1>1. \A x \in Place : m[x] = x
  OBVIOUS
<1> HIDE DEF m
<1> QED BY <1>1, LineShifts

Carried(p, d) == {e \in Event : e.kind \in {"frame", "released"} /\ e.peer = p /\ e.frame.doc = d}
Waiting(p, d) == {h \in [peer : Peers, frame : Frame] : h.peer = p /\ h.frame.doc = d}
About(d) == {f \in Frame : f.doc = d}
Answers(d) == {f \in Frame : f.doc = d /\ f.ask}
SameHolding(p, d) ==
  \A f \in About(d) : session'[p].at = "holding" /\ session'[p].frame = f <=> session[p].at = "holding" /\ session[p].frame = f

\* Every queue keeps what is in the line.
LEMMA LineKeeps ==
  ASSUME NEW p \in Peers, NEW d \in Docs,
         RelayInv, TypeOK', LineInv(p, d), conn[p[1]] = p, SameWindow(p[1], d),
         journal[VaultFor(d)] \subseteq journal'[VaultFor(d)],
         Keeps(down[p], down'[p], Answers(d)),
         Keeps(chan[VaultFor(d)], chan'[VaultFor(d)], Carried(p, d)),
         Keeps(held, held', Waiting(p, d)),
         Keeps(up[p], up'[p], About(d)),
         SameHolding(p, d),
         Whole(p, d)' /\ d \in synced[p[1]] => Whole(p, d)
  PROVE  LineInv(p, d)'
<1> DEFINE V == VaultFor(d)
<1>0. TypeOK /\ V \in Vaults
  BY ItemTypes DEF RelayInv
<1>1. PICK a \in [DOMAIN down'[p] -> Nat] :
        /\ \A k \in DOMAIN down'[p] : down'[p][k] \in Answers(d) => a[k] \in DOMAIN down[p] /\ down[p][a[k]] = down'[p][k]
        /\ \A j, k \in DOMAIN down'[p] : down'[p][j] \in Answers(d) /\ down'[p][k] \in Answers(d) /\ j < k => a[j] < a[k]
  BY DEF Keeps
<1>2. PICK b \in [DOMAIN chan'[V] -> Nat] :
        /\ \A k \in DOMAIN chan'[V] : chan'[V][k] \in Carried(p, d) => b[k] \in DOMAIN chan[V] /\ chan[V][b[k]] = chan'[V][k]
        /\ \A j, k \in DOMAIN chan'[V] : chan'[V][j] \in Carried(p, d) /\ chan'[V][k] \in Carried(p, d) /\ j < k => b[j] < b[k]
        /\ \A j \in DOMAIN chan[V] : chan[V][j] \in Carried(p, d) => \E k \in DOMAIN chan'[V] : b[k] = j /\ chan'[V][k] = chan[V][j]
  BY DEF Keeps
<1>3. PICK c \in [DOMAIN held' -> Nat] :
        /\ \A k \in DOMAIN held' : held'[k] \in Waiting(p, d) => c[k] \in DOMAIN held /\ held[c[k]] = held'[k]
        /\ \A j, k \in DOMAIN held' : held'[j] \in Waiting(p, d) /\ held'[k] \in Waiting(p, d) /\ j < k => c[j] < c[k]
        /\ \A j \in DOMAIN held : held[j] \in Waiting(p, d) => \E k \in DOMAIN held' : c[k] = j /\ held'[k] = held[j]
  BY DEF Keeps
<1>4. PICK u \in [DOMAIN up'[p] -> Nat] :
        /\ \A k \in DOMAIN up'[p] : up'[p][k] \in About(d) => u[k] \in DOMAIN up[p] /\ up[p][u[k]] = up'[p][k]
        /\ \A j, k \in DOMAIN up'[p] : up'[p][j] \in About(d) /\ up'[p][k] \in About(d) /\ j < k => u[j] < u[k]
        /\ \A j \in DOMAIN up[p] : up[p][j] \in About(d) => \E k \in DOMAIN up'[p] : u[k] = j /\ up'[p][k] = up[p][j]
  BY DEF Keeps
<1> DEFINE m == [x \in Place |-> CASE x[1] = 0 -> <<0, a[x[2]]>>
                                   [] x[1] \in {1, SentAt(d)} -> <<x[1], b[x[2]]>>
                                   [] x[1] = HeldAt(d) -> <<x[1], c[x[2]]>>
                                   [] x[1] = 5 -> <<5, u[x[2]]>>
                                   [] OTHER -> x]
<1>5. /\ \A x \in Place : x[1] \in 0 .. 5 /\ x[2] \in Nat /\ x = <<x[1], x[2]>>
      /\ \A j \in 0 .. 5, k \in Nat : <<j, k>> \in Place
      /\ {SentAt(d), HeldAt(d)} = {2, 3}
  BY DEF Place, SentAt, HeldAt
<1>6. \A x \in Place : /\ x[1] = 0 => m[x] = <<0, a[x[2]]>>
                       /\ x[1] \in {1, SentAt(d)} => m[x] = <<x[1], b[x[2]]>>
                       /\ x[1] = HeldAt(d) => m[x] = <<x[1], c[x[2]]>>
                       /\ x[1] = 5 => m[x] = <<5, u[x[2]]>>
                       /\ x[1] = 4 => m[x] = x
  <2>1. SentAt(d) \in {2, 3} /\ HeldAt(d) \in {2, 3} /\ SentAt(d) # HeldAt(d)
    BY DEF SentAt, HeldAt
  <2> QED BY <2>1
<1> HIDE DEF m
\* What stands at a new place, and where it was.
<1>7. ASSUME NEW x \in Place, NEW f \in Frame, Stands(p, d, x, f)', Counts(x, f)
      PROVE  /\ m[x] \in Place /\ m[x][1] = x[1] /\ Stands(p, d, m[x], f)
             /\ x[1] = 0 => m[x] = <<0, a[x[2]]>> /\ x[2] \in DOMAIN down'[p] /\ down'[p][x[2]] \in Answers(d)
             /\ x[1] \in {1, SentAt(d)} => m[x] = <<x[1], b[x[2]]>> /\ x[2] \in DOMAIN chan'[V] /\ chan'[V][x[2]] \in Carried(p, d)
             /\ x[1] = HeldAt(d) => m[x] = <<x[1], c[x[2]]>> /\ x[2] \in DOMAIN held' /\ held'[x[2]] \in Waiting(p, d)
             /\ x[1] = 5 => m[x] = <<5, u[x[2]]>> /\ x[2] \in DOMAIN up'[p] /\ up'[p][x[2]] \in About(d)
             /\ x[1] = 4 => m[x] = x /\ x[2] = 1
  <2>0. /\ down \in [Peers -> Seq(Frame)] /\ up \in [Peers -> Seq(Frame)] /\ chan'[V] \in Seq(Event)
        /\ held' \in Seq([peer : Peers, frame : Frame])
    BY <1>0 DEF TypeOK
  <2>1. f.doc = d
    BY <1>7 DEF Stands
  <2>2. CASE x[1] = 0
    <3>1. x[2] \in DOMAIN down'[p] /\ down'[p][x[2]] = f
      BY <1>7, <2>2 DEF Stands, SentAt, HeldAt
    <3>2. f \in Answers(d)
      BY <1>7, <2>1, <2>2 DEF Answers, Counts
    <3>3. a[x[2]] \in DOMAIN down[p] /\ down[p][a[x[2]]] = f /\ a[x[2]] \in Nat
      BY <1>1, <3>1, <3>2
    <3>4. m[x] = <<0, a[x[2]]>>
      BY <1>6, <2>2
    <3>5. Stands(p, d, <<0, a[x[2]]>>, f)
      BY <2>1, <3>3 DEF Stands
    <3> QED BY <1>5, <2>2, <3>1, <3>2, <3>3, <3>4, <3>5 DEF SentAt, HeldAt
  <2>3. CASE x[1] \in {1, SentAt(d)}
    <3>1. PICK kind \in {"frame", "released"} :
            /\ InChan(V, p, x[2], kind, f)'
            /\ \A j : InChan(V, p, j, kind, f) => Stands(p, d, <<x[1], j>>, f)
      <4>1. CASE x[1] = 1
        <5>1. InChan(V, p, x[2], "released", f)'
          BY <1>7, <4>1 DEF Stands, SentAt, HeldAt
        <5>2. \A j : InChan(V, p, j, "released", f) => Stands(p, d, <<x[1], j>>, f)
          BY <2>1, <4>1 DEF Stands
        <5> QED BY <5>1, <5>2
      <4>2. CASE x[1] = SentAt(d)
        <5>1. InChan(V, p, x[2], "frame", f)'
          BY <1>7, <4>2 DEF Stands, SentAt, HeldAt
        <5>2. \A j : InChan(V, p, j, "frame", f) => Stands(p, d, <<x[1], j>>, f)
          BY <2>1, <4>2 DEF Stands
        <5> QED BY <5>1, <5>2
      <4> QED BY <2>3, <4>1, <4>2
    <3>2. /\ x[2] \in DOMAIN chan'[V] /\ chan'[V][x[2]].kind = kind /\ chan'[V][x[2]].peer = p
          /\ chan'[V][x[2]].frame = f
      BY <3>1 DEF InChan
    <3>3. chan'[V][x[2]] \in Carried(p, d)
      <4>1. chan'[V][x[2]] \in Event
        BY <2>0, <3>2
      <4> QED BY <2>1, <3>2, <4>1 DEF Carried
    <3>4. b[x[2]] \in DOMAIN chan[V] /\ chan[V][b[x[2]]] = chan'[V][x[2]] /\ b[x[2]] \in Nat
      BY <1>2, <3>2, <3>3
    <3>5. InChan(V, p, b[x[2]], kind, f)
      BY <3>2, <3>4 DEF InChan
    <3>6. m[x] = <<x[1], b[x[2]]>> /\ Stands(p, d, m[x], f)
      BY <1>6, <2>3, <3>1, <3>5
    <3> QED BY <1>5, <2>3, <3>2, <3>3, <3>4, <3>6 DEF SentAt, HeldAt
  <2>4. CASE x[1] = HeldAt(d)
    <3>1. x[2] \in DOMAIN held' /\ held'[x[2]] = [peer |-> p, frame |-> f]
      BY <1>7, <2>4 DEF Stands, SentAt, HeldAt
    <3>2. held'[x[2]] \in Waiting(p, d)
      BY <2>1, <3>1 DEF Waiting
    <3>3. c[x[2]] \in DOMAIN held /\ held[c[x[2]]] = held'[x[2]] /\ c[x[2]] \in Nat
      BY <1>3, <3>1, <3>2
    <3>4. m[x] = <<x[1], c[x[2]]>>
      BY <1>6, <2>4
    <3>5. Stands(p, d, <<x[1], c[x[2]]>>, f)
      BY <2>1, <2>4, <3>1, <3>3 DEF Stands
    <3> QED BY <1>5, <2>4, <3>1, <3>2, <3>3, <3>4, <3>5 DEF SentAt, HeldAt
  <2>5. CASE x[1] = 5
    <3>1. x[2] \in DOMAIN up'[p] /\ up'[p][x[2]] = f
      BY <1>7, <2>5 DEF Stands, SentAt, HeldAt
    <3>2. up'[p][x[2]] \in About(d)
      BY <2>1, <3>1 DEF About
    <3>3. u[x[2]] \in DOMAIN up[p] /\ up[p][u[x[2]]] = f /\ u[x[2]] \in Nat
      BY <1>4, <3>1, <3>2
    <3>4. m[x] = <<5, u[x[2]]>>
      BY <1>6, <2>5
    <3>5. Stands(p, d, <<5, u[x[2]]>>, f)
      BY <2>1, <3>3 DEF Stands
    <3> QED BY <1>5, <2>5, <3>1, <3>2, <3>3, <3>4, <3>5 DEF SentAt, HeldAt
  <2>6. CASE x[1] = 4
    <3>1. x[2] = 1 /\ session'[p].at = "holding" /\ session'[p].frame = f
      BY <1>7, <2>6 DEF Stands, SentAt, HeldAt
    <3>2. Stands(p, d, x, f)
      BY <2>1, <2>6, <3>1 DEF Stands, SameHolding, About
    <3> QED BY <1>6, <2>6, <3>1, <3>2 DEF SentAt, HeldAt
  <2> QED BY <1>5, <2>2, <2>3, <2>4, <2>5, <2>6
<1>8. ASSUME NEW x \in Place, NEW f \in Frame, Stands(p, d, x, f)', f.ask
      PROVE  m[x] \in Place /\ Stands(p, d, m[x], f) /\ (x[1] = 0 => m[x][1] = 0)
  <2>1. Counts(x, f)
    BY <1>8 DEF Counts
  <2>2. m[x] \in Place /\ m[x][1] = x[1] /\ Stands(p, d, m[x], f)
    BY <1>7, <1>8, <2>1
  <2> QED BY <2>2
<1>9. ASSUME NEW x \in Place, NEW y \in Place, NEW f \in Frame, NEW g \in Frame,
             Stands(p, d, x, f)', Stands(p, d, y, g)', Counts(x, f), Counts(y, g), Before(x, y)
      PROVE  Before(m[x], m[y])
  <2>1. m[x] \in Place /\ m[y] \in Place /\ m[x][1] = x[1] /\ m[y][1] = y[1]
    BY <1>7, <1>9
  <2>2. CASE x[1] < y[1]
    BY <2>1, <2>2 DEF Before
  <2>3. ASSUME x[1] = y[1], x[2] < y[2] PROVE m[x][2] < m[y][2]
    <3>1. CASE x[1] = 0
      <4>1. /\ m[x] = <<0, a[x[2]]>> /\ x[2] \in DOMAIN down'[p] /\ down'[p][x[2]] \in Answers(d)
            /\ m[y] = <<0, a[y[2]]>> /\ y[2] \in DOMAIN down'[p] /\ down'[p][y[2]] \in Answers(d)
        BY <1>7, <1>9, <2>3, <3>1
      <4>2. a[x[2]] < a[y[2]]
        BY <1>1, <2>3, <4>1
      <4> QED BY <4>1, <4>2
    <3>2. CASE x[1] \in {1, SentAt(d)}
      <4>1. /\ m[x] = <<x[1], b[x[2]]>> /\ x[2] \in DOMAIN chan'[V] /\ chan'[V][x[2]] \in Carried(p, d)
            /\ m[y] = <<y[1], b[y[2]]>> /\ y[2] \in DOMAIN chan'[V] /\ chan'[V][y[2]] \in Carried(p, d)
        BY <1>7, <1>9, <2>3, <3>2
      <4>2. b[x[2]] < b[y[2]]
        BY <1>2, <2>3, <4>1
      <4> QED BY <4>1, <4>2
    <3>3. CASE x[1] = HeldAt(d)
      <4>1. /\ m[x] = <<x[1], c[x[2]]>> /\ x[2] \in DOMAIN held' /\ held'[x[2]] \in Waiting(p, d)
            /\ m[y] = <<y[1], c[y[2]]>> /\ y[2] \in DOMAIN held' /\ held'[y[2]] \in Waiting(p, d)
        BY <1>7, <1>9, <2>3, <3>3
      <4>2. c[x[2]] < c[y[2]]
        BY <1>3, <2>3, <4>1
      <4> QED BY <4>1, <4>2
    <3>4. CASE x[1] = 5
      <4>1. /\ m[x] = <<5, u[x[2]]>> /\ x[2] \in DOMAIN up'[p] /\ up'[p][x[2]] \in About(d)
            /\ m[y] = <<5, u[y[2]]>> /\ y[2] \in DOMAIN up'[p] /\ up'[p][y[2]] \in About(d)
        BY <1>7, <1>9, <2>3, <3>4
      <4>2. u[x[2]] < u[y[2]]
        BY <1>4, <2>3, <4>1
      <4> QED BY <4>1, <4>2
    <3>5. CASE x[1] = 4
      <4>1. x[2] = 1 /\ y[2] = 1
        BY <1>7, <1>9, <2>3, <3>5
      <4> QED BY <2>3, <4>1
    <3> QED BY <1>5, <3>1, <3>2, <3>3, <3>4, <3>5
  <2> QED BY <1>9, <2>1, <2>2, <2>3 DEF Before
\* Nothing on its way to the store is lost.
<1>10. ASSUME NEW y \in Place, NEW f \in Frame, Stands(p, d, y, f), y[1] > 0
       PROVE  \E z \in Place : z[1] > 0 /\ Stands(p, d, z, f)' /\ m[z] = y
  <2>0. /\ chan[V] \in Seq(Event) /\ held \in Seq([peer : Peers, frame : Frame]) /\ DOMAIN chan'[V] \subseteq Nat
        /\ DOMAIN held' \subseteq Nat /\ DOMAIN up'[p] \subseteq Nat
    <3>1. chan[V] \in Seq(Event) /\ held \in Seq([peer : Peers, frame : Frame])
      BY <1>0 DEF TypeOK
    <3>2. chan'[V] \in Seq(Event) /\ held' \in Seq([peer : Peers, frame : Frame]) /\ up'[p] \in Seq(Frame)
      BY <1>0 DEF TypeOK
    <3>3. DOMAIN chan'[V] = 1 .. Len(chan'[V]) /\ DOMAIN held' = 1 .. Len(held') /\ DOMAIN up'[p] = 1 .. Len(up'[p])
      BY <3>2
    <3> QED BY <3>1, <3>3
  <2>1. f.doc = d
    BY <1>10 DEF Stands
  <2>2. CASE y[1] \in {1, SentAt(d)}
    <3>1. PICK kind \in {"frame", "released"} :
            /\ InChan(V, p, y[2], kind, f)
            /\ \A j : InChan(V, p, j, kind, f)' => Stands(p, d, <<y[1], j>>, f)'
      <4>1. CASE y[1] = 1
        <5>1. InChan(V, p, y[2], "released", f)
          BY <1>10, <4>1 DEF Stands, SentAt, HeldAt
        <5>2. \A j : InChan(V, p, j, "released", f)' => Stands(p, d, <<y[1], j>>, f)'
          BY <2>1, <4>1 DEF Stands
        <5> QED BY <5>1, <5>2
      <4>2. CASE y[1] = SentAt(d)
        <5>1. InChan(V, p, y[2], "frame", f)
          BY <1>10, <4>2 DEF Stands, SentAt, HeldAt
        <5>2. \A j : InChan(V, p, j, "frame", f)' => Stands(p, d, <<y[1], j>>, f)'
          BY <2>1, <4>2 DEF Stands
        <5> QED BY <5>1, <5>2
      <4> QED BY <2>2, <4>1, <4>2
    <3>2. y[2] \in DOMAIN chan[V] /\ chan[V][y[2]] \in Carried(p, d)
      <4>1. y[2] \in DOMAIN chan[V] /\ chan[V][y[2]].kind = kind /\ chan[V][y[2]].peer = p /\ chan[V][y[2]].frame = f
        BY <3>1 DEF InChan
      <4>2. chan[V][y[2]] \in Event
        BY <2>0, <4>1
      <4> QED BY <2>1, <4>1, <4>2 DEF Carried
    <3>3. PICK k \in DOMAIN chan'[V] : b[k] = y[2] /\ chan'[V][k] = chan[V][y[2]]
      BY <1>2, <3>2
    <3>4. Stands(p, d, <<y[1], k>>, f)'
      <4>1. InChan(V, p, k, kind, f)'
        BY <3>1, <3>3 DEF InChan
      <4> QED BY <3>1, <4>1
    <3>5. <<y[1], k>> \in Place /\ <<y[1], k>>[1] = y[1] /\ <<y[1], k>>[2] = k
      BY <1>5, <2>0
    <3>6. m[<<y[1], k>>] = y
      <4>1. m[<<y[1], k>>] = <<y[1], b[k]>>
        BY <1>6, <2>2, <3>5
      <4> QED BY <1>5, <3>3, <4>1
    <3> QED BY <1>10, <3>4, <3>5, <3>6
  <2>3. CASE y[1] = HeldAt(d)
    <3>1. y[2] \in DOMAIN held /\ held[y[2]] = [peer |-> p, frame |-> f]
      BY <1>10, <2>3 DEF Stands, SentAt, HeldAt
    <3>2. PICK k \in DOMAIN held' : c[k] = y[2] /\ held'[k] = held[y[2]]
      <4>1. held[y[2]] \in Waiting(p, d)
        BY <2>1, <3>1 DEF Waiting
      <4> QED BY <1>3, <3>1, <4>1
    <3>3. <<y[1], k>> \in Place /\ <<y[1], k>>[1] = y[1] /\ <<y[1], k>>[2] = k
      BY <1>5, <2>0
    <3>4. Stands(p, d, <<y[1], k>>, f)'
      BY <2>1, <2>3, <3>1, <3>2 DEF Stands
    <3>5. m[<<y[1], k>>] = y
      <4>1. m[<<y[1], k>>] = <<y[1], c[k]>>
        BY <1>6, <2>3, <3>3
      <4> QED BY <1>5, <3>2, <4>1
    <3> QED BY <1>10, <3>3, <3>4, <3>5
  <2>4. CASE y[1] = 5
    <3>1. y[2] \in DOMAIN up[p] /\ up[p][y[2]] = f
      BY <1>10, <2>4 DEF Stands, SentAt, HeldAt
    <3>2. PICK k \in DOMAIN up'[p] : u[k] = y[2] /\ up'[p][k] = up[p][y[2]]
      <4>1. up[p][y[2]] \in About(d)
        BY <2>1, <3>1 DEF About
      <4> QED BY <1>4, <3>1, <4>1
    <3>3. <<5, k>> \in Place /\ <<5, k>>[1] = 5 /\ <<5, k>>[2] = k
      BY <1>5, <2>0
    <3>4. Stands(p, d, <<5, k>>, f)'
      BY <2>1, <3>1, <3>2 DEF Stands
    <3>5. m[<<5, k>>] = y
      <4>1. m[<<5, k>>] = <<5, u[k]>>
        BY <1>6, <3>3
      <4> QED BY <1>5, <2>4, <3>2, <4>1
    <3> QED BY <3>3, <3>4, <3>5
  <2>5. CASE y[1] = 4
    <3>1. y[2] = 1 /\ session[p].at = "holding" /\ session[p].frame = f
      BY <1>10, <2>5 DEF Stands, SentAt, HeldAt
    <3>2. Stands(p, d, y, f)'
      BY <2>1, <2>5, <3>1 DEF Stands, SameHolding, About
    <3>3. m[y] = y
      BY <1>6, <2>5
    <3> QED BY <1>10, <3>2, <3>3
  <2> QED BY <1>5, <1>10, <2>2, <2>3, <2>4, <2>5
<1>11. \A x \in Place, f \in Frame : Stands(p, d, x, f)' /\ f.ask =>
         m[x] \in Place /\ Stands(p, d, m[x], f) /\ (x[1] = 0 => m[x][1] = 0)
  BY <1>8
<1>12. \A x, y \in Place, f, g \in Frame :
         Stands(p, d, x, f)' /\ Stands(p, d, y, g)' /\ Counts(x, f) /\ Counts(y, g) /\ Before(x, y) =>
           Before(m[x], m[y])
  BY <1>9
<1>13. Whole(p, d)' /\ d \in synced[p[1]] =>
         /\ Whole(p, d)
         /\ \A y \in Place, f \in Frame : Stands(p, d, y, f) /\ y[1] > 0 =>
              \E z \in Place : z[1] > 0 /\ Stands(p, d, z, f)' /\ m[z] = y
  BY <1>10
<1> QED BY <1>11, <1>12, <1>13, LineShifts

\* A line whose only question is new.
LEMMA LineAsks ==
  ASSUME NEW p \in Peers, NEW d \in Docs, NEW a, RelayInv', a[1] # 0,
         \A x \in Asks(p, d)' : x = a,
         d \in open'[p[1]], d \in synced'[p[1]] => probe'[p[1]][d] # {},
         probe'[p[1]][d] \subseteq {Part(mine'[p[1]], d)},
         Whole(p, d)' /\ d \in synced'[p[1]] =>
           \A i \in Part(mine'[p[1]], d) :
             i \in journal'[VaultFor(d)] \/ \E y \in Brings(p, d, i)' : Before(y, a)
  PROVE  LineInv(p, d)'
<1> DEFINE w == p[1]
<1>1. w \in Windows /\ WindowInv(w)'
  BY PeerTypes DEF RelayInv
<1>2. AsksOnce(p, d)'
  BY DEF AsksOnce
<1>3. AsksLate(p, d)'
  <2>1. ASSUME NEW x \in Asks(p, d)', NEW of \in probe'[w][d], NEW i \in of, x[1] = 0 \/ Whole(p, d)'
        PROVE  i \in journal'[VaultFor(d)] \/ \E y \in Brings(p, d, i)' : Before(y, x)
    <3>1. x = a /\ Whole(p, d)' /\ d \in synced'[w] /\ i \in Part(mine'[w], d)
      BY <1>1, <2>1 DEF WindowInv
    <3> QED BY <3>1
  <2> QED BY <2>1 DEF AsksLate
<1>4. AllSent(p, d)'
  BY DEF AllSent
<1> QED BY <1>2, <1>3, <1>4 DEF LineInv

\* A window says more: what was on its way still is, and so is what it says.
LEMMA LineGrows ==
  ASSUME NEW p \in Peers, NEW d \in Docs, TypeOK, NEW fs \in Seq(Frame), up'[p] = up[p] \o fs,
         UNCHANGED <<chan, held, session>>
  PROVE  \A x \in Place, f \in Frame : x[1] > 0 =>
           (Stands(p, d, x, f)' <=> \/ Stands(p, d, x, f)
                                    \/ /\ f.doc = d /\ x[1] = 5 /\ x[2] - Len(up[p]) \in 1 .. Len(fs)
                                       /\ fs[x[2] - Len(up[p])] = f)
<1>1. /\ up[p] \in Seq(Frame) /\ Len(up[p]) \in Nat /\ Len(fs) \in Nat
      /\ DOMAIN up[p] = 1 .. Len(up[p]) /\ DOMAIN up'[p] = 1 .. Len(up[p]) + Len(fs)
      /\ \A k \in 1 .. Len(up[p]) : up'[p][k] = up[p][k]
      /\ \A k \in 1 .. Len(up[p]) + Len(fs) : k \in 1 .. Len(up[p]) \/ (k - Len(up[p]) \in 1 .. Len(fs) /\ up'[p][k] = fs[k - Len(up[p])])
  <2>1. up[p] \in Seq(Frame)
    BY DEF TypeOK
  <2>2. \A k \in 1 .. Len(fs) : up'[p][Len(up[p]) + k] = fs[k]
    BY <2>1
  <2>3. ASSUME NEW k \in 1 .. Len(up[p]) + Len(fs), k \notin 1 .. Len(up[p])
        PROVE  k - Len(up[p]) \in 1 .. Len(fs) /\ up'[p][k] = fs[k - Len(up[p])]
    <3>1. k - Len(up[p]) \in 1 .. Len(fs) /\ Len(up[p]) + (k - Len(up[p])) = k
      BY <2>1, <2>3
    <3> QED BY <2>2, <3>1
  <2> QED BY <2>1, <2>3
<1> TAKE x \in Place, f \in Frame
<1> HAVE x[1] > 0
<1>2. x[1] \in 0 .. 5 /\ x[2] \in Nat
  BY DEF Place
<1>3. CASE x[1] = 5
  <2>1. Stands(p, d, x, f)' <=> f.doc = d /\ x[2] \in DOMAIN up'[p] /\ up'[p][x[2]] = f
    BY <1>3 DEF Stands, SentAt, HeldAt
  <2>2. Stands(p, d, x, f) <=> f.doc = d /\ x[2] \in DOMAIN up[p] /\ up[p][x[2]] = f
    BY <1>3 DEF Stands, SentAt, HeldAt
  <2>3. x[2] - Len(up[p]) \in 1 .. Len(fs) => x[2] \in 1 .. Len(up[p]) + Len(fs) /\ x[2] \notin 1 .. Len(up[p])
    BY <1>1, <1>2
  <2> QED BY <1>1, <1>2, <1>3, <2>1, <2>2, <2>3
<1>4. CASE x[1] # 5
  BY <1>4 DEF Stands, SentAt, HeldAt, InChan
<1> QED BY <1>3, <1>4

\* Steps of a window: what they say is of its document, and the lines of the others stay.
LEMMA WindowOrder ==
  ASSUME RelayInv, RelayInv', Ordered, NEW w \in Windows, UNCHANGED <<relay, engines, conn>>,
         \A q \in Peers : q # conn[w] => up'[q] = up[q] /\ down'[q] = down[q],
         \A q \in Peers : \E fs \in Seq(Frame) : up'[q] = up[q] \o fs /\ \A k \in 1 .. Len(fs) : OfDoc(fs[k]),
         \A q \in Peers : down'[q] = down[q] \/ (down[q] # <<>> /\ down'[q] = Tail(down[q])),
         \A x \in Windows \ {w} :
           open'[x] = open[x] /\ synced'[x] = synced[x] /\ probe'[x] = probe[x] /\ mine'[x] = mine[x]
  PROVE  /\ FramesInv' /\ ClaimsInv' /\ HeldInv'
         /\ \A q \in Peers, d \in Docs : q # conn[w] => LineInv(q, d)'
<1>0. TypeOK /\ TypeOK'
  BY DEF RelayInv
<1>1. UNCHANGED <<reg, owner, held, listed, full, session, chan, engine, dirty, memory, journal>>
  BY DEF relay, engines
<1>2. ClaimsInv'
  BY <1>1 DEF Ordered, ClaimsInv
<1>3. HeldInv'
  BY <1>1 DEF Ordered, HeldInv, HeldFor, AboutToClaim, Live
<1>4. FramesInv'
  <2>1. ASSUME NEW q \in Peers, NEW k \in DOMAIN up'[q] PROVE OfDoc(up'[q][k])
    <3>1. PICK fs \in Seq(Frame) : up'[q] = up[q] \o fs /\ \A j \in 1 .. Len(fs) : OfDoc(fs[j])
      OBVIOUS
    <3>2. up[q] \in Seq(Frame)
      BY <1>0 DEF TypeOK
    <3>3. \/ k \in DOMAIN up[q] /\ up'[q][k] = up[q][k]
          \/ k - Len(up[q]) \in 1 .. Len(fs) /\ up'[q][k] = fs[k - Len(up[q])]
      <4>1. /\ Len(up[q]) \in Nat /\ Len(fs) \in Nat /\ k \in 1 .. Len(up[q]) + Len(fs) /\ DOMAIN up[q] = 1 .. Len(up[q])
            /\ \A j \in 1 .. Len(up[q]) : up'[q][j] = up[q][j]
            /\ \A j \in 1 .. Len(fs) : up'[q][Len(up[q]) + j] = fs[j]
        BY <3>1, <3>2
      <4>2. k \notin 1 .. Len(up[q]) => k - Len(up[q]) \in 1 .. Len(fs) /\ k = Len(up[q]) + (k - Len(up[q]))
        BY <4>1
      <4> QED BY <4>1, <4>2
    <3> QED BY <3>1, <3>3 DEF Ordered, FramesInv
  <2>2. ASSUME NEW q \in Peers, NEW k \in DOMAIN down'[q], down'[q][k].ask
        PROVE  down'[q][k].items \subseteq journal[VaultFor(down'[q][k].doc)]
    <3>1. down[q] \in Seq(Frame)
      BY <1>0 DEF TypeOK
    <3>2. \E j \in DOMAIN down[q] : down'[q][k] = down[q][j]
      <4>1. CASE down'[q] = down[q]
        BY <4>1
      <4>2. CASE down[q] # <<>> /\ down'[q] = Tail(down[q])
        BY <3>1, <4>2, QueueType
      <4> QED BY <4>1, <4>2
    <3> QED BY <2>2, <3>2 DEF Ordered, FramesInv
  <2> QED BY <1>1, <2>1, <2>2 DEF Ordered, FramesInv
<1>5. ASSUME NEW q \in Peers, NEW d \in Docs, q # conn[w] PROVE LineInv(q, d)'
  <2>1. CASE conn[q[1]] # q
    BY <2>1 DEF LineInv
  <2>2. CASE conn[q[1]] = q
    <3>1. q[1] \in Windows \ {w}
      BY <1>5, <2>2, PeerTypes
    <3>2. SameWindow(q[1], d)
      BY <3>1 DEF SameWindow
    <3>3. /\ down[q] \in Seq(Frame) /\ up[q] \in Seq(Frame) /\ held \in Seq([peer : Peers, frame : Frame])
          /\ chan[VaultFor(d)] \in Seq(Event)
      BY <1>0, ItemTypes DEF TypeOK
    <3>4. /\ Keeps(down[q], down'[q], Answers(d)) /\ Keeps(up[q], up'[q], About(d))
          /\ Keeps(held, held', Waiting(q, d)) /\ Keeps(chan[VaultFor(d)], chan'[VaultFor(d)], Carried(q, d))
      BY <1>1, <1>5, <3>3, KeepsSame
    <3>5. SameHolding(q, d) /\ (Whole(q, d)' => Whole(q, d)) /\ LineInv(q, d)
      BY <1>1 DEF SameHolding, Whole, Ordered
    <3> QED BY <1>0, <1>1, <2>2, <3>2, <3>4, <3>5, LineKeeps
  <2> QED BY <2>1, <2>2
<1> QED BY <1>2, <1>3, <1>4, <1>5

\* The line of a window that says something else.
LEMMA OwnLine ==
  ASSUME RelayInv, RelayInv', Ordered, NEW p \in Peers, NEW d \in Docs, conn[p[1]] = p,
         UNCHANGED <<relay, engines, conn>>, NEW fs \in Seq(Frame), up'[p] = up[p] \o fs,
         \A k \in 1 .. Len(fs) : fs[k].doc # d,
         Keeps(down[p], down'[p], Answers(d)), SameWindow(p[1], d)
  PROVE  LineInv(p, d)'
<1>1. UNCHANGED <<held, full, session, chan, engine, journal>>
  BY DEF relay, engines
<1>2. up[p] \in Seq(Frame) /\ held \in Seq([peer : Peers, frame : Frame]) /\ chan[VaultFor(d)] \in Seq(Event) /\ TypeOK'
  BY ItemTypes DEF RelayInv, TypeOK
<1>3. Keeps(held, held', Waiting(p, d)) /\ Keeps(chan[VaultFor(d)], chan'[VaultFor(d)], Carried(p, d))
  BY <1>1, <1>2, KeepsSame
<1>4. Keeps(up[p], up'[p], About(d))
  <2>1. \A k \in 1 .. Len(fs) : fs[k] \notin About(d)
    BY DEF About
  <2> QED BY <1>2, <2>1, KeepsMore
<1>5. SameHolding(p, d) /\ (Whole(p, d)' => Whole(p, d)) /\ LineInv(p, d)
  BY <1>1 DEF SameHolding, Whole, Ordered
<1> QED BY <1>1, <1>2, <1>3, <1>4, <1>5, LineKeeps

LEMMA BringsGrow ==
  ASSUME NEW p \in Peers, NEW d \in Docs, TypeOK, NEW fs \in Seq(Frame), up'[p] = up[p] \o fs,
         UNCHANGED <<chan, held, session>>
  PROVE  /\ up[p] \in Seq(Frame) /\ Len(up[p]) \in Nat
         /\ \A i : \A y \in Brings(p, d, i) :
              y \in Brings(p, d, i)' /\ \A n \in Nat \ {0} : Before(y, <<5, Len(up[p]) + n>>)
         /\ \A k \in 1 .. Len(fs) : fs[k].doc = d =>
              \A i \in fs[k].items : <<5, Len(up[p]) + k>> \in Brings(p, d, i)'
         /\ \A x \in Asks(p, d)' : x[1] # 0 =>
              \/ x \in Asks(p, d)
              \/ \E k \in 1 .. Len(fs) : x = <<5, Len(up[p]) + k>> /\ fs[k].ask /\ fs[k].doc = d
<1> DEFINE l == Len(up[p])
<1>1. up[p] \in Seq(Frame) /\ l \in Nat /\ Len(fs) \in Nat /\ DOMAIN up[p] = 1 .. l
  <2>1. up[p] \in Seq(Frame)
    BY DEF TypeOK
  <2> QED BY <2>1
<1>2. \A x \in Place, f \in Frame : x[1] > 0 =>
         (Stands(p, d, x, f)' <=> \/ Stands(p, d, x, f)
                                  \/ /\ f.doc = d /\ x[1] = 5 /\ x[2] - l \in 1 .. Len(fs)
                                     /\ fs[x[2] - l] = f)
  BY LineGrows
<1> HIDE DEF l
<1>3. ASSUME NEW i, NEW y \in Brings(p, d, i), NEW n \in Nat \ {0}
      PROVE  y \in Brings(p, d, i)' /\ Before(y, <<5, l + n>>)
  <2>1. PICK f \in Frame : y \in Place /\ y[1] > 0 /\ Stands(p, d, y, f) /\ i \in f.items
    BY DEF Brings
  <2>2. y \in Brings(p, d, i)'
    <3>1. Stands(p, d, y, f)'
      BY <1>2, <2>1
    <3> QED BY <2>1, <3>1 DEF Brings
  <2>3. (y[1] = 5 => y[2] \in 1 .. l) /\ y[1] \in 0 .. 5
    BY <1>1, <2>1 DEF Stands, SentAt, HeldAt, Place
  <2> QED BY <1>1, <2>2, <2>3 DEF Before
<1>4. ASSUME NEW k \in 1 .. Len(fs), fs[k].doc = d, NEW i \in fs[k].items
      PROVE  <<5, l + k>> \in Brings(p, d, i)'
  <2>1. PICK f \in Frame : f = fs[k]
    OBVIOUS
  <2>2. PICK y : y = <<5, l + k>>
    OBVIOUS
  <2>3. y \in Place /\ y[1] = 5 /\ y[2] = l + k
    BY <1>1, <2>2 DEF Place
  <2>4. y[2] - l = k /\ y[1] > 0
    BY <1>1, <2>3
  <2>5. Stands(p, d, y, f)'
    <3>1. f.doc = d /\ y[2] - l \in 1 .. Len(fs) /\ fs[y[2] - l] = f
      BY <1>4, <2>1, <2>4
    <3> QED BY <1>2, <2>3, <2>4, <3>1
  <2>6. y \in Brings(p, d, i)'
    BY <2>1, <2>3, <2>4, <2>5 DEF Brings
  <2> QED BY <2>2, <2>6
<1>5. ASSUME NEW x \in Asks(p, d)', x[1] # 0, x \notin Asks(p, d)
      PROVE  \E k \in 1 .. Len(fs) : x = <<5, l + k>> /\ fs[k].ask /\ fs[k].doc = d
  <2>1. PICK f \in Frame : x \in Place /\ Stands(p, d, x, f)' /\ f.ask
    BY DEF Asks
  <2>2. x[1] > 0 /\ x[2] \in Nat /\ x = <<x[1], x[2]>>
    BY <1>5, <2>1 DEF Place
  <2>3. ~ Stands(p, d, x, f)
    BY <1>5, <2>1 DEF Asks
  <2>4. f.doc = d /\ x[1] = 5 /\ x[2] - l \in 1 .. Len(fs) /\ fs[x[2] - l] = f
    BY <1>2, <2>1, <2>2, <2>3
  <2>5. x = <<5, l + (x[2] - l)>>
    BY <1>1, <2>2, <2>4
  <2> QED BY <2>1, <2>4, <2>5
<1>6. \A i : \A y \in Brings(p, d, i) :
        y \in Brings(p, d, i)' /\ \A n \in Nat \ {0} : Before(y, <<5, l + n>>)
  <2>1. TAKE i
  <2>2. TAKE y \in Brings(p, d, i)
  <2>3. \A n \in Nat \ {0} : Before(y, <<5, l + n>>)
    BY <1>3
  <2>4. y \in Brings(p, d, i)'
    <3>1. 1 \in Nat \ {0}
      OBVIOUS
    <3> QED BY <1>3, <3>1
  <2> QED BY <2>3, <2>4
<1>7. \A k \in 1 .. Len(fs) : fs[k].doc = d => \A i \in fs[k].items : <<5, l + k>> \in Brings(p, d, i)'
  BY <1>4
<1>8. \A x \in Asks(p, d)' : x[1] # 0 =>
        \/ x \in Asks(p, d)
        \/ \E k \in 1 .. Len(fs) : x = <<5, l + k>> /\ fs[k].ask /\ fs[k].doc = d
  BY <1>5
<1> QED BY <1>1, <1>6, <1>7, <1>8 DEF l

\* The line of a window that asks.
AsksAnew(p, d, fs, n) ==
  /\ fs \in Seq(Frame) /\ up'[p] = up[p] \o fs
  /\ n \in 1 .. Len(fs) /\ \A k \in 1 .. Len(fs) : fs[k].ask /\ fs[k].doc = d => k = n
  /\ \A x \in Asks(p, d) : x[1] = 0
  /\ \A x \in Asks(p, d)' : x[1] # 0
  /\ d \in open'[p[1]]
  /\ d \in synced'[p[1]] => probe'[p[1]][d] # {}
  /\ probe'[p[1]][d] \subseteq {Part(mine'[p[1]], d)}
  /\ Whole(p, d) /\ d \in synced'[p[1]] =>
       \A i \in Part(mine'[p[1]], d) :
         \/ i \in journal[VaultFor(d)] \/ Brings(p, d, i) # {}
         \/ \E k \in 1 .. Len(fs) : k < n /\ fs[k].doc = d /\ i \in fs[k].items

LEMMA OwnAsk ==
  ASSUME RelayInv, RelayInv', NEW p \in Peers, NEW d \in Docs, UNCHANGED <<relay, engines, conn>>,
         NEW fs, NEW n, AsksAnew(p, d, fs, n)
  PROVE  LineInv(p, d)'
<1>a. /\ fs \in Seq(Frame) /\ up'[p] = up[p] \o fs
      /\ n \in 1 .. Len(fs) /\ \A k \in 1 .. Len(fs) : fs[k].ask /\ fs[k].doc = d => k = n
      /\ \A x \in Asks(p, d) : x[1] = 0
      /\ \A x \in Asks(p, d)' : x[1] # 0
  BY DEF AsksAnew
<1>b. /\ d \in open'[p[1]]
      /\ d \in synced'[p[1]] => probe'[p[1]][d] # {}
      /\ probe'[p[1]][d] \subseteq {Part(mine'[p[1]], d)}
  BY DEF AsksAnew
<1>c. Whole(p, d) /\ d \in synced'[p[1]] =>
       \A i \in Part(mine'[p[1]], d) :
         \/ i \in journal[VaultFor(d)] \/ Brings(p, d, i) # {}
         \/ \E k \in 1 .. Len(fs) : k < n /\ fs[k].doc = d /\ i \in fs[k].items
  BY DEF AsksAnew
<1> DEFINE l == Len(up[p])
           a == <<5, l + n>>
<1>0. UNCHANGED <<chan, held, session, full, engine, journal>> /\ TypeOK
  BY DEF relay, engines, RelayInv
<1>1. /\ l \in Nat
      /\ \A i : \A y \in Brings(p, d, i) : y \in Brings(p, d, i)' /\ \A k \in Nat \ {0} : Before(y, <<5, l + k>>)
      /\ \A k \in 1 .. Len(fs) : fs[k].doc = d => \A i \in fs[k].items : <<5, l + k>> \in Brings(p, d, i)'
      /\ \A x \in Asks(p, d)' : x[1] # 0 =>
           \/ x \in Asks(p, d)
           \/ \E k \in 1 .. Len(fs) : x = <<5, l + k>> /\ fs[k].ask /\ fs[k].doc = d
  <2>1. /\ up[p] \in Seq(Frame) /\ Len(up[p]) \in Nat
        /\ \A i : \A y \in Brings(p, d, i) :
             y \in Brings(p, d, i)' /\ \A k \in Nat \ {0} : Before(y, <<5, Len(up[p]) + k>>)
        /\ \A k \in 1 .. Len(fs) : fs[k].doc = d =>
             \A i \in fs[k].items : <<5, Len(up[p]) + k>> \in Brings(p, d, i)'
        /\ \A x \in Asks(p, d)' : x[1] # 0 =>
             \/ x \in Asks(p, d)
             \/ \E k \in 1 .. Len(fs) : x = <<5, Len(up[p]) + k>> /\ fs[k].ask /\ fs[k].doc = d
    <3>1. fs \in Seq(Frame) /\ up'[p] = up[p] \o fs
      BY <1>a
    <3> QED BY ONLY <1>0, <3>1, BringsGrow, p \in Peers, d \in Docs
  <2> QED BY <2>1
<1>2. n \in Nat \ {0}
  BY <1>a
<1> HIDE DEF l
<1>3. \A x \in Asks(p, d)' : x = a
  BY <1>1, <1>a
<1>4. ASSUME Whole(p, d)', d \in synced'[p[1]], NEW i \in Part(mine'[p[1]], d), i \notin journal'[VaultFor(d)]
      PROVE  \E y \in Brings(p, d, i)' : Before(y, a)
  <2>1. Whole(p, d) /\ i \notin journal[VaultFor(d)]
    BY <1>0, <1>4 DEF Whole
  <2>2. ASSUME NEW y \in Brings(p, d, i) PROVE y \in Brings(p, d, i)' /\ Before(y, a)
    BY <1>1, <1>2
  <2>3. ASSUME NEW k \in 1 .. Len(fs), k < n, fs[k].doc = d, i \in fs[k].items
        PROVE  <<5, l + k>> \in Brings(p, d, i)' /\ Before(<<5, l + k>>, a)
    <3>1. <<5, l + k>> \in Brings(p, d, i)'
      BY <1>1, <2>3
    <3>2. Before(<<5, l + k>>, a)
      <4>1. l + k < l + n
        BY <1>1, <1>2, <1>a, <2>3
      <4> QED BY <4>1 DEF Before
    <3> QED BY <3>1, <3>2
  <2> QED BY <1>4, <1>c, <2>1, <2>2, <2>3
<1>5. a[1] # 0
  OBVIOUS
<1> HIDE DEF a
<1>6. Whole(p, d)' /\ d \in synced'[p[1]] =>
        \A i \in Part(mine'[p[1]], d) :
          i \in journal'[VaultFor(d)] \/ \E y \in Brings(p, d, i)' : Before(y, a)
  BY <1>4
<1> QED BY <1>b, <1>3, <1>5, <1>6, LineAsks

\* What a window says is added to what is on its way up from it.
LEMMA SaidGrows ==
  ASSUME TypeOK, NEW w \in Windows, NEW fs \in Seq(Frame), \A k \in 1 .. Len(fs) : OfDoc(fs[k]),
         up' = Said(w, fs)
  PROVE  /\ \A q \in Peers : q # conn[w] => up'[q] = up[q]
         /\ conn[w] \in Peers => up'[conn[w]] = up[conn[w]] \o fs
         /\ \A q \in Peers : \E gs \in Seq(Frame) : up'[q] = up[q] \o gs /\ \A k \in 1 .. Len(gs) : OfDoc(gs[k])
<1>1. \A q \in Peers : q # conn[w] => up'[q] = up[q]
  BY SaidType
<1>2. \A q \in Peers : q = conn[w] => up'[q] = up[q] \o fs
  BY SaidType
<1>3. ASSUME NEW q \in Peers
      PROVE  \E gs \in Seq(Frame) : up'[q] = up[q] \o gs /\ \A k \in 1 .. Len(gs) : OfDoc(gs[k])
  <2>1. CASE q = conn[w]
    BY <1>2, <2>1
  <2>2. CASE q # conn[w]
    <3>1. up[q] \in Seq(Frame) /\ up'[q] = up[q]
      BY <1>1, <2>2 DEF TypeOK
    <3> DEFINE gs == <<>>
    <3>2. gs \in Seq(Frame) /\ up[q] = up[q] \o gs /\ 1 .. Len(gs) = {}
      BY <3>1
    <3> HIDE DEF gs
    <3> QED BY <3>1, <3>2
  <2> QED BY <2>1, <2>2
<1> QED BY <1>1, <1>2, <1>3

\* Answers on their way down are asked for no more than they were.
LEMMA AnswersStay ==
  ASSUME NEW p \in Peers, NEW d \in Docs, TypeOK,
         down'[p] = down[p] \/ (down[p] # <<>> /\ down'[p] = Tail(down[p])),
         NEW x \in Asks(p, d)', x[1] = 0
  PROVE  \E y \in Asks(p, d) : y[1] = 0
<1>1. PICK f \in Frame : x \in Place /\ Stands(p, d, x, f)' /\ f.ask
  BY DEF Asks
<1>2. f.doc = d /\ x[2] \in DOMAIN down'[p] /\ down'[p][x[2]] = f
  BY <1>1 DEF Stands, SentAt, HeldAt
<1>3. \E k \in DOMAIN down[p] : k \in Nat /\ down[p][k] = f
  <2>1. down[p] \in Seq(Frame)
    BY DEF TypeOK
  <2>2. CASE down'[p] = down[p]
    BY <1>2, <2>1, <2>2
  <2>3. CASE down[p] # <<>> /\ down'[p] = Tail(down[p])
    <3>1. x[2] \in 1 .. Len(down[p]) - 1 /\ down[p][x[2] + 1] = f
      BY <1>2, <2>1, <2>3, QueueType
    <3> QED BY <2>1, <3>1
  <2> QED BY <2>2, <2>3
<1>4. PICK k \in DOMAIN down[p] : k \in Nat /\ down[p][k] = f
  BY <1>3
<1>5. PICK y : y = <<0, k>>
  OBVIOUS
<1>6. y \in Place /\ y[1] = 0 /\ y[2] = k
  BY <1>4, <1>5 DEF Place
<1>7. Stands(p, d, y, f)
  BY <1>2, <1>4, <1>6 DEF Stands
<1> QED BY <1>1, <1>6, <1>7 DEF Asks

\* A step of a window: what is left to show is about its own line.
LEMMA WindowSays ==
  ASSUME RelayInv, RelayInv', Ordered, NEW w \in Windows, UNCHANGED <<relay, engines, conn>>,
         NEW fs \in Seq(Frame), \A k \in 1 .. Len(fs) : OfDoc(fs[k]), up' = Said(w, fs),
         \A q \in Peers : q # conn[w] => down'[q] = down[q],
         \A q \in Peers : down'[q] = down[q] \/ (down[q] # <<>> /\ down'[q] = Tail(down[q])),
         \A x \in Windows \ {w} :
           open'[x] = open[x] /\ synced'[x] = synced[x] /\ probe'[x] = probe[x] /\ mine'[x] = mine[x],
         AckedIsStored',
         \A p \in Peers, d \in Docs :
           p = conn[w] /\ p[1] = w /\ conn[p[1]] = p /\ up'[p] = up[p] \o fs => LineInv(p, d)'
  PROVE  Ordered'
<1>1. TypeOK /\ WindowInv(w)
  BY DEF RelayInv
<1>2. /\ \A q \in Peers : q # conn[w] => up'[q] = up[q]
      /\ conn[w] \in Peers => up'[conn[w]] = up[conn[w]] \o fs
      /\ \A q \in Peers : \E gs \in Seq(Frame) : up'[q] = up[q] \o gs /\ \A k \in 1 .. Len(gs) : OfDoc(gs[k])
  BY <1>1, SaidGrows
<1>3. /\ FramesInv' /\ ClaimsInv' /\ HeldInv'
      /\ \A q \in Peers, d \in Docs : q # conn[w] => LineInv(q, d)'
  BY <1>2, WindowOrder
<1>4. ASSUME NEW p \in Peers, NEW d \in Docs PROVE LineInv(p, d)'
  <2>1. CASE p = conn[w]
    <3>1. p[1] = w
      BY ONLY <1>1, <2>1, PeerTypes, p \in Peers DEF WindowInv
    <3>2. conn[p[1]] = p /\ up'[p] = up[p] \o fs
      BY <1>2, <2>1, <3>1
    <3> QED BY <2>1, <3>1, <3>2
  <2>2. CASE p # conn[w]
    BY <1>3, <2>2
  <2> QED BY <2>1, <2>2
<1> QED BY <1>3, <1>4 DEF Ordered

LEMMA NewVaultOrder ==
  ASSUME RelayInv, RelayInv', Ordered, NEW w \in Windows, NEW v \in Vaults, NewVault(w, v)
  PROVE  Ordered'
<1> DEFINE fs == <<Ask(v)>>
<1>0. TypeOK /\ v \in Docs /\ WindowInv(w)
  BY DEF RelayInv, Docs
<1>1. /\ v \notin open[w] /\ UNCHANGED <<relay, engines, conn, mine, synced, probe, acked, down>>
      /\ open' = [open EXCEPT ![w] = @ \cup {v}] /\ up' = Said(w, fs)
  BY DEF NewVault
<1>2. fs \in Seq(Frame) /\ Len(fs) = 1 /\ fs[1] = Ask(v) /\ Ask(v).doc = v /\ Ask(v).ask /\ OfDoc(Ask(v))
  BY <1>0, FrameTypes DEF OfDoc
<1> HIDE DEF fs
<1>3. /\ \A x \in Windows \ {w} : open'[x] = open[x]
      /\ open'[w] = open[w] \cup {v}
  BY <1>0, <1>1 DEF TypeOK
<1>4. AckedIsStored'
  BY <1>1 DEF Ordered, AckedIsStored, engines
<1>5. ASSUME NEW p \in Peers, NEW d \in Docs, p = conn[w], p[1] = w, conn[p[1]] = p, up'[p] = up[p] \o fs
      PROVE  LineInv(p, d)'
  <2>1. LineInv(p, d) /\ down[p] \in Seq(Frame)
    BY <1>0 DEF Ordered, TypeOK
  <2>2. CASE d # v
    <3>1. SameWindow(p[1], d)
      BY <1>1, <1>3, <1>5, <2>2 DEF SameWindow
    <3>2. Keeps(down[p], down'[p], Answers(d)) /\ \A k \in 1 .. Len(fs) : fs[k].doc # d
      BY <1>1, <1>2, <2>1, <2>2, KeepsSame
    <3> QED BY <1>1, <1>2, <1>5, <3>1, <3>2, OwnLine
  <2>3. CASE d = v
    <3>1. Asks(p, d) = {} /\ d \notin synced[w] /\ probe[w][d] = {}
      BY <1>0, <1>1, <1>5, <2>1, <2>3 DEF LineInv, AsksOnce, WindowInv
    <3>2. ASSUME NEW x \in Asks(p, d)' PROVE x[1] # 0
      BY <1>0, <1>1, <3>1, AnswersStay
    <3>3. \A x \in Asks(p, d) : x[1] = 0
      BY <3>1
    <3>4. 1 \in 1 .. Len(fs) /\ \A k \in 1 .. Len(fs) : fs[k].ask /\ fs[k].doc = d => k = 1
      BY <1>2
    <3>5. d \in open'[p[1]] /\ d \notin synced'[p[1]] /\ probe'[p[1]][d] = {}
      BY <1>1, <1>3, <1>5, <2>3, <3>1
    <3>6. /\ UNCHANGED <<relay, engines, conn>>
          /\ d \in synced'[p[1]] => probe'[p[1]][d] # {}
          /\ probe'[p[1]][d] \subseteq {Part(mine'[p[1]], d)}
          /\ ~ (Whole(p, d) /\ d \in synced'[p[1]])
      BY <1>1, <3>5
    <3>7. AsksAnew(p, d, fs, 1)
      BY <1>2, <1>5, <3>2, <3>3, <3>4, <3>5, <3>6 DEF AsksAnew
    <3> QED BY <3>6, <3>7, OwnAsk
  <2> QED BY <2>2, <2>3
<1>6. \A p \in Peers, d \in Docs :
        p = conn[w] /\ p[1] = w /\ conn[p[1]] = p /\ up'[p] = up[p] \o fs => LineInv(p, d)'
  BY <1>5
<1>7. \A k \in 1 .. Len(fs) : OfDoc(fs[k])
  BY <1>2
<1>8. /\ UNCHANGED <<relay, engines, conn>> /\ up' = Said(w, fs)
      /\ \A q \in Peers : q # conn[w] => down'[q] = down[q]
      /\ \A q \in Peers : down'[q] = down[q] \/ (down[q] # <<>> /\ down'[q] = Tail(down[q]))
      /\ \A x \in Windows \ {w} :
           open'[x] = open[x] /\ synced'[x] = synced[x] /\ probe'[x] = probe[x] /\ mine'[x] = mine[x]
  BY <1>1, <1>3
<1> QED BY ONLY RelayInv, RelayInv', Ordered, w \in Windows, <1>2, <1>4, <1>6, <1>7, <1>8, WindowSays

\* The line of a window that brings something.
LEMMA OwnMore ==
  ASSUME RelayInv, NEW p \in Peers, NEW d \in Docs, conn[p[1]] = p, UNCHANGED <<relay, engines, conn, down>>,
         LineInv(p, d), NEW fs \in Seq(Frame), up'[p] = up[p] \o fs,
         \A k \in 1 .. Len(fs) : fs[k].doc = d => ~ fs[k].ask,
         d \in open'[p[1]] <=> d \in open[p[1]], d \in synced'[p[1]] <=> d \in synced[p[1]],
         probe'[p[1]][d] = probe[p[1]][d],
         \A i \in Part(mine'[p[1]], d) :
           i \in Part(mine[p[1]], d) \/ \E k \in 1 .. Len(fs) : fs[k].doc = d /\ i \in fs[k].items
  PROVE  LineInv(p, d)'
<1> DEFINE w == p[1]
<1>0. UNCHANGED <<chan, held, session, full, engine, journal, down>> /\ TypeOK
  BY DEF relay, engines, RelayInv
<1>1. AsksOnce(p, d) /\ AsksLate(p, d) /\ AllSent(p, d)
  BY DEF LineInv
<1>2. /\ up[p] \in Seq(Frame) /\ Len(up[p]) \in Nat
      /\ \A i : \A y \in Brings(p, d, i) :
           y \in Brings(p, d, i)' /\ \A k \in Nat \ {0} : Before(y, <<5, Len(up[p]) + k>>)
      /\ \A k \in 1 .. Len(fs) : fs[k].doc = d =>
           \A i \in fs[k].items : <<5, Len(up[p]) + k>> \in Brings(p, d, i)'
      /\ \A x \in Asks(p, d)' : x[1] # 0 =>
           \/ x \in Asks(p, d)
           \/ \E k \in 1 .. Len(fs) : x = <<5, Len(up[p]) + k>> /\ fs[k].ask /\ fs[k].doc = d
  <2>1. fs \in Seq(Frame) /\ up'[p] = up[p] \o fs
    OBVIOUS
  <2> QED BY ONLY <1>0, <2>1, BringsGrow, p \in Peers, d \in Docs
<1>3. \A i : \A y \in Brings(p, d, i) : y \in Brings(p, d, i)'
  BY <1>2
<1>4. ASSUME NEW x \in Asks(p, d)' PROVE x \in Asks(p, d)
  <2>1. CASE x[1] # 0
    BY <1>2, <2>1
  <2>2. CASE x[1] = 0
    <3>1. PICK f \in Frame : x \in Place /\ Stands(p, d, x, f)' /\ f.ask
      BY DEF Asks
    <3>2. Stands(p, d, x, f)
      BY ONLY <1>0, <2>2, <3>1 DEF Stands, SentAt, HeldAt
    <3> QED BY <3>1, <3>2 DEF Asks
  <2> QED BY <2>1, <2>2
<1>5. Whole(p, d)' <=> Whole(p, d)
  BY <1>0 DEF Whole
<1>6. AsksOnce(p, d)'
  BY <1>1, <1>4 DEF AsksOnce
<1>7. AsksLate(p, d)'
  <2>1. ASSUME NEW x \in Asks(p, d)', NEW of \in probe'[w][d], NEW i \in of, x[1] = 0 \/ Whole(p, d)'
        PROVE  i \in journal'[VaultFor(d)] \/ \E y \in Brings(p, d, i)' : Before(y, x)
    <3>1. x \in Asks(p, d) /\ of \in probe[w][d] /\ (x[1] = 0 \/ Whole(p, d))
      BY <1>4, <1>5, <2>1
    <3>2. i \in journal[VaultFor(d)] \/ \E y \in Brings(p, d, i) : Before(y, x)
      BY <1>1, <3>1 DEF AsksLate
    <3> QED BY <1>0, <1>3, <3>2
  <2> QED BY <2>1 DEF AsksLate
<1>8. AllSent(p, d)'
  <2>1. ASSUME d \in synced'[w], Whole(p, d)', NEW i \in Part(mine'[w], d)
        PROVE  i \in journal'[VaultFor(d)] \/ Brings(p, d, i)' # {}
    <3>1. CASE i \in Part(mine[w], d)
      <4>1. i \in journal[VaultFor(d)] \/ Brings(p, d, i) # {}
        BY <1>1, <1>5, <2>1, <3>1 DEF AllSent
      <4> QED BY <1>0, <1>3, <4>1
    <3>2. CASE \E k \in 1 .. Len(fs) : fs[k].doc = d /\ i \in fs[k].items
      BY <1>2, <3>2
    <3> QED BY <2>1, <3>1, <3>2
  <2> QED BY <2>1 DEF AllSent
<1> QED BY <1>6, <1>7, <1>8 DEF LineInv

LEMMA CreateNoteOrder ==
  ASSUME RelayInv, RelayInv', Ordered, NEW w \in Windows, NEW n \in Notes, CreateNote(w, n)
  PROVE  Ordered'
<1> DEFINE text == <<n, "text">>
           entry == <<n, "entry">>
           v == Home[n]
           fs == <<Ask(n), Update(n, {text}), Update(v, {entry})>>
<1>0. TypeOK /\ n \in Docs /\ v \in Docs /\ v # n /\ WindowInv(w) /\ text \in Items /\ entry \in Items
  BY RelayAssumption DEF RelayInv, Docs, Items
<1>1. /\ text \notin mine[w] /\ UNCHANGED <<relay, engines, conn, synced, probe, acked, down>>
      /\ open' = [open EXCEPT ![w] = @ \cup {n}] /\ up' = Said(w, fs)
      /\ mine' = [mine EXCEPT ![w] = @ \cup {text, entry}]
  BY DEF CreateNote
<1>2. DocOf(text) = n /\ DocOf(entry) = v
  BY DEF DocOf
<1> HIDE DEF text, entry, v
<1>3. /\ fs \in Seq(Frame) /\ Len(fs) = 3 /\ fs[1] = Ask(n) /\ fs[2] = Update(n, {text}) /\ fs[3] = Update(v, {entry})
      /\ Ask(n).doc = n /\ Ask(n).ask /\ Update(n, {text}).doc = n /\ ~ Update(n, {text}).ask
      /\ Update(v, {entry}).doc = v /\ ~ Update(v, {entry}).ask /\ Update(v, {entry}).items = {entry}
      /\ OfDoc(Ask(n)) /\ OfDoc(Update(n, {text})) /\ OfDoc(Update(v, {entry}))
  <2>1. Ask(n) \in Frame /\ Update(n, {text}) \in Frame /\ Update(v, {entry}) \in Frame
    BY <1>0, FrameTypes
  <2>2. /\ Ask(n).doc = n /\ Ask(n).ask /\ Ask(n).items = {}
        /\ Update(n, {text}).doc = n /\ ~ Update(n, {text}).ask /\ Update(n, {text}).items = {text}
        /\ Update(v, {entry}).doc = v /\ ~ Update(v, {entry}).ask /\ Update(v, {entry}).items = {entry}
    BY DEF Ask, Update
  <2>3. fs \in Seq(Frame) /\ Len(fs) = 3 /\ fs[1] = Ask(n) /\ fs[2] = Update(n, {text}) /\ fs[3] = Update(v, {entry})
    BY <2>1
  <2>4. OfDoc(Ask(n)) /\ OfDoc(Update(n, {text})) /\ OfDoc(Update(v, {entry}))
    BY <1>2, <2>2 DEF OfDoc
  <2> QED BY <2>2, <2>3, <2>4
<1> HIDE DEF fs
<1>4. /\ \A x \in Windows \ {w} : open'[x] = open[x] /\ mine'[x] = mine[x]
      /\ open'[w] = open[w] \cup {n} /\ mine'[w] = mine[w] \cup {text, entry}
  BY <1>0, <1>1 DEF TypeOK
<1>5. AckedIsStored'
  BY <1>1 DEF Ordered, AckedIsStored, engines
<1>6. ASSUME NEW p \in Peers, NEW d \in Docs, p = conn[w], p[1] = w, conn[p[1]] = p, up'[p] = up[p] \o fs
      PROVE  LineInv(p, d)'
  <2>1. LineInv(p, d) /\ down[p] \in Seq(Frame)
    BY <1>0 DEF Ordered, TypeOK
  <2>2. \A k \in 1 .. Len(fs) : k = 1 \/ k = 2 \/ k = 3
    BY <1>3
  <2>3. CASE d \notin {n, v}
    <3>1. SameWindow(p[1], d)
      BY <1>1, <1>2, <1>4, <1>6, <2>3 DEF SameWindow, Part
    <3>2. Keeps(down[p], down'[p], Answers(d)) /\ \A k \in 1 .. Len(fs) : fs[k].doc # d
      BY <1>1, <1>3, <2>1, <2>2, <2>3, KeepsSame
    <3> QED BY <1>1, <1>3, <1>6, <3>1, <3>2, OwnLine
  <2>4. CASE d = v
    <3>1. \A k \in 1 .. Len(fs) : fs[k].doc = d => ~ fs[k].ask
      BY <1>0, <1>3, <2>2, <2>4
    <3>2. d \in open'[p[1]] <=> d \in open[p[1]]
      BY <1>0, <1>4, <1>6, <2>4
    <3>3. ASSUME NEW i \in Part(mine'[p[1]], d)
          PROVE  i \in Part(mine[p[1]], d) \/ \E k \in 1 .. Len(fs) : fs[k].doc = d /\ i \in fs[k].items
      <4>1. i \in mine[w] \/ i = text \/ i = entry
        BY <1>4, <1>6 DEF Part
      <4>2. i # text
        BY <1>0, <1>2, <2>4 DEF Part
      <4>3. i = entry => 3 \in 1 .. Len(fs) /\ fs[3].doc = d /\ i \in fs[3].items
        <5>1. 3 \in 1 .. Len(fs)
          BY <1>3
        <5>2. fs[3].doc = v /\ fs[3].items = {entry}
          BY <1>3
        <5> QED BY <2>4, <5>1, <5>2
      <4> QED BY <1>6, <4>1, <4>2, <4>3 DEF Part
    <3>4. UNCHANGED <<relay, engines, conn, down>> /\ fs \in Seq(Frame)
      BY <1>1, <1>3
    <3>5. (d \in synced'[p[1]] <=> d \in synced[p[1]]) /\ probe'[p[1]][d] = probe[p[1]][d]
      BY <1>1
    <3>6. \A i \in Part(mine'[p[1]], d) :
            i \in Part(mine[p[1]], d) \/ \E k \in 1 .. Len(fs) : fs[k].doc = d /\ i \in fs[k].items
      BY <3>3
    <3> QED BY ONLY RelayInv, p \in Peers, d \in Docs, <1>6, <2>1, <3>1, <3>2, <3>4, <3>5, <3>6, OwnMore
  <2>5. CASE d = n
    <3>1. d \notin open[w]
      BY <1>0, <1>1, <2>5 DEF WindowInv, text
    <3>2. Asks(p, d) = {} /\ d \notin synced[w] /\ probe[w][d] = {}
      BY <1>0, <1>6, <2>1, <3>1 DEF LineInv, AsksOnce, WindowInv
    <3>3. ASSUME NEW x \in Asks(p, d)' PROVE x[1] # 0
      BY <1>0, <1>1, <3>2, AnswersStay
    <3>4. 1 \in 1 .. Len(fs) /\ \A k \in 1 .. Len(fs) : fs[k].ask /\ fs[k].doc = d => k = 1
      BY <1>0, <1>3, <2>2, <2>5
    <3>5. d \in open'[p[1]] /\ d \notin synced'[p[1]] /\ probe'[p[1]][d] = {} /\ UNCHANGED <<relay, engines, conn>>
      BY <1>1, <1>4, <1>6, <2>5, <3>2
    <3>6. AsksAnew(p, d, fs, 1)
      BY <1>3, <1>6, <3>2, <3>3, <3>4, <3>5 DEF AsksAnew
    <3> QED BY <3>5, <3>6, OwnAsk
  <2> QED BY <2>3, <2>4, <2>5
<1>7. \A p \in Peers, d \in Docs :
        p = conn[w] /\ p[1] = w /\ conn[p[1]] = p /\ up'[p] = up[p] \o fs => LineInv(p, d)'
  BY <1>6
<1>8. \A k \in 1 .. Len(fs) : OfDoc(fs[k])
  BY <1>3
<1>9. /\ UNCHANGED <<relay, engines, conn>> /\ up' = Said(w, fs)
      /\ \A q \in Peers : q # conn[w] => down'[q] = down[q]
      /\ \A q \in Peers : down'[q] = down[q] \/ (down[q] # <<>> /\ down'[q] = Tail(down[q]))
      /\ \A x \in Windows \ {w} :
           open'[x] = open[x] /\ synced'[x] = synced[x] /\ probe'[x] = probe[x] /\ mine'[x] = mine[x]
  BY <1>1, <1>4
<1> QED BY ONLY RelayInv, RelayInv', Ordered, w \in Windows, <1>3, <1>5, <1>7, <1>8, <1>9, WindowSays

LEMMA ProbeOrder ==
  ASSUME RelayInv, RelayInv', Ordered, NEW w \in Windows, NEW c \in Docs, Probe(w, c)
  PROVE  Ordered'
<1> DEFINE fs == <<Ask(c)>>
<1>0. TypeOK /\ WindowInv(w)
  BY DEF RelayInv
<1>1. /\ c \in synced[w] /\ probe[w][c] = {}
      /\ UNCHANGED <<relay, engines, conn, open, mine, synced, acked, down>>
      /\ probe' = [probe EXCEPT ![w][c] = {Part(mine[w], c)}] /\ up' = Said(w, fs)
  BY DEF Probe
<1>2. fs \in Seq(Frame) /\ Len(fs) = 1 /\ fs[1] = Ask(c) /\ Ask(c).doc = c /\ Ask(c).ask /\ OfDoc(Ask(c))
  BY FrameTypes DEF OfDoc
<1> HIDE DEF fs
<1>3. /\ \A x \in Windows \ {w} : probe'[x] = probe[x]
      /\ \A d \in Docs : probe'[w][d] = IF d = c THEN {Part(mine[w], c)} ELSE probe[w][d]
  BY <1>0, <1>1, ProbeTypes DEF TypeOK
<1>4. AckedIsStored'
  BY <1>1 DEF Ordered, AckedIsStored, engines
<1>5. ASSUME NEW p \in Peers, NEW d \in Docs, p = conn[w], p[1] = w, conn[p[1]] = p, up'[p] = up[p] \o fs
      PROVE  LineInv(p, d)'
  <2>1. LineInv(p, d) /\ down[p] \in Seq(Frame)
    BY <1>0 DEF Ordered, TypeOK
  <2>2. CASE d # c
    <3>1. SameWindow(p[1], d)
      BY <1>1, <1>3, <1>5, <2>2 DEF SameWindow
    <3>2. Keeps(down[p], down'[p], Answers(d)) /\ \A k \in 1 .. Len(fs) : fs[k].doc # d
      BY <1>1, <1>2, <2>1, <2>2, KeepsSame
    <3> QED BY <1>1, <1>2, <1>5, <3>1, <3>2, OwnLine
  <2>3. CASE d = c
    <3>1. Asks(p, d) = {} /\ d \in open[w] /\ AllSent(p, d)
      BY <1>1, <1>5, <2>1, <2>3 DEF LineInv, AsksOnce
    <3>2. \A x \in Asks(p, d)' : x[1] # 0
      BY <1>0, <1>1, <3>1, AnswersStay
    <3>4. 1 \in 1 .. Len(fs) /\ \A k \in 1 .. Len(fs) : fs[k].ask /\ fs[k].doc = d => k = 1
      BY <1>2
    <3>5. /\ d \in open'[p[1]] /\ probe'[p[1]][d] = {Part(mine'[p[1]], d)}
          /\ UNCHANGED <<relay, engines, conn>>
      BY <1>1, <1>3, <1>5, <2>3, <3>1
    <3>6. Whole(p, d) =>
            \A i \in Part(mine'[p[1]], d) : i \in journal[VaultFor(d)] \/ Brings(p, d, i) # {}
      BY <1>1, <1>5, <2>3, <3>1 DEF AllSent
    <3>7. AsksAnew(p, d, fs, 1)
      BY <1>2, <1>5, <3>1, <3>2, <3>4, <3>5, <3>6 DEF AsksAnew
    <3> QED BY <3>5, <3>7, OwnAsk
  <2> QED BY <2>2, <2>3
<1>6. \A p \in Peers, d \in Docs :
        p = conn[w] /\ p[1] = w /\ conn[p[1]] = p /\ up'[p] = up[p] \o fs => LineInv(p, d)'
  BY <1>5
<1>7. \A k \in 1 .. Len(fs) : OfDoc(fs[k])
  BY <1>2
<1>8. /\ UNCHANGED <<relay, engines, conn>> /\ up' = Said(w, fs)
      /\ \A q \in Peers : q # conn[w] => down'[q] = down[q]
      /\ \A q \in Peers : down'[q] = down[q] \/ (down[q] # <<>> /\ down'[q] = Tail(down[q]))
      /\ \A x \in Windows \ {w} :
           open'[x] = open[x] /\ synced'[x] = synced[x] /\ probe'[x] = probe[x] /\ mine'[x] = mine[x]
  BY <1>1, <1>3
<1> QED BY ONLY RelayInv, RelayInv', Ordered, w \in Windows, <1>2, <1>4, <1>6, <1>7, <1>8, WindowSays

\* The answer a window receives is the only one there is to its question.
LEMMA AnswerTaken ==
  ASSUME TypeOK, NEW p \in Peers, NEW d \in Docs, AsksOnce(p, d),
         down[p] # <<>>, Head(down[p]).ask, Head(down[p]).doc = d, down'[p] = Tail(down[p])
  PROVE  /\ <<0, 1>> \in Asks(p, d) /\ \A x \in Asks(p, d) : x = <<0, 1>>
         /\ \A x \in Asks(p, d)' : x[1] # 0
<1>1. down[p] \in Seq(Frame) /\ Head(down[p]) \in Frame /\ Head(down[p]) = down[p][1] /\ 1 \in DOMAIN down[p]
  <2>1. down[p] \in Seq(Frame)
    BY DEF TypeOK
  <2> QED BY <2>1
<1>2. <<0, 1>> \in Asks(p, d)
  <2>1. PICK x : x = <<0, 1>>
    OBVIOUS
  <2>2. x \in Place /\ x[1] = 0 /\ x[2] = 1
    BY <2>1 DEF Place
  <2>3. Stands(p, d, x, Head(down[p]))
    BY <1>1, <2>2 DEF Stands
  <2>4. x \in Asks(p, d)
    BY <1>1, <2>2, <2>3 DEF Asks
  <2> QED BY <2>1, <2>4
<1>3. \A x \in Asks(p, d) : x = <<0, 1>>
  BY <1>2 DEF AsksOnce
<1>4. ASSUME NEW x \in Asks(p, d)', x[1] = 0 PROVE FALSE
  <2>1. PICK f \in Frame : x \in Place /\ Stands(p, d, x, f)' /\ f.ask
    BY DEF Asks
  <2>2. f.doc = d /\ x[2] \in DOMAIN down'[p] /\ down'[p][x[2]] = f
    BY <1>4, <2>1 DEF Stands, SentAt, HeldAt
  <2>3. x[2] \in 1 .. Len(down[p]) - 1 /\ down[p][x[2] + 1] = f
    BY <1>1, <2>2, QueueType
  <2>4. x[2] + 1 \in DOMAIN down[p] /\ x[2] + 1 \in Nat /\ x[2] + 1 > 1
    BY <1>1, <2>3
  <2>5. PICK y : y = <<0, x[2] + 1>>
    OBVIOUS
  <2>6. y \in Place /\ y[1] = 0 /\ y[2] = x[2] + 1
    BY <2>4, <2>5 DEF Place
  <2>7. Stands(p, d, y, f)
    BY <2>2, <2>3, <2>4, <2>6 DEF Stands
  <2>8. y \in Asks(p, d)
    BY <2>1, <2>6, <2>7 DEF Asks
  <2>9. y = <<0, 1>>
    BY <1>3, <2>8
  <2> QED BY <2>4, <2>6, <2>9
<1> QED BY <1>2, <1>3, <1>4

\* What a document of a vault holds goes to that vault's store.
LEMMA PartOf ==
  ASSUME NEW d \in Docs, NEW is \in SUBSET Items, NEW i \in Part(is, d)
  PROVE  VaultOf(i) = VaultFor(d) /\ VaultFor(d) \in Vaults
<1>1. i \in Items /\ DocOf(i) = d /\ i[1] \in Notes
  BY DEF Part, Items
<1>2. Home[i[1]] \in Vaults /\ i[1] \notin Vaults
  BY <1>1, RelayAssumption
<1> QED BY <1>1, <1>2 DEF DocOf, VaultFor, VaultOf

Received(w, p, f, own, owed) ==
  p = conn[w] /\ f = Head(down[p]) /\ own = Part(mine[w], f.doc) /\ owed = Part(has[w], f.doc) \ f.items

\* What `Receive` says back, and what it changes of its document.
Replies(w, p, f, own, owed, fs) ==
  LET d == f.doc IN
  /\ fs \in Seq(Frame) /\ up' = Said(w, fs)
  /\ \A k \in 1 .. Len(fs) : fs[k].doc = d /\ OfDoc(fs[k])
  /\ \/ ~ f.ask /\ fs = <<>> /\ UNCHANGED <<synced, probe, acked>>
     \/ /\ f.ask /\ d \notin synced[w]
        /\ Len(fs) >= 1 /\ \A k \in 1 .. Len(fs) : fs[k].ask => k = Len(fs)
        /\ \A i \in owed : \E k \in 1 .. Len(fs) : k < Len(fs) /\ i \in fs[k].items
        /\ synced' = [synced EXCEPT ![w] = @ \cup {d}]
        /\ probe' = [probe EXCEPT ![w][d] = {own}]
        /\ UNCHANGED acked
     \/ /\ f.ask /\ d \in synced[w] /\ probe[w][d] = {own} /\ fs = <<>>
        /\ acked' = [acked EXCEPT ![w] = @ \cup own]
        /\ probe' = [probe EXCEPT ![w][d] = {}]
        /\ UNCHANGED synced
     \/ /\ f.ask /\ d \in synced[w] /\ Len(fs) = 1
        /\ probe' = [probe EXCEPT ![w][d] = {own}]
        /\ UNCHANGED <<synced, acked>>

LEMMA Joined ==
  ASSUME NEW S, NEW a \in S, NEW b \in S
  PROVE  /\ <<>> \o <<a>> \in Seq(S) /\ Len(<<>> \o <<a>>) = 1 /\ (<<>> \o <<a>>)[1] = a
         /\ <<b>> \o <<a>> \in Seq(S) /\ Len(<<b>> \o <<a>>) = 2
         /\ (<<b>> \o <<a>>)[1] = b /\ (<<b>> \o <<a>>)[2] = a
<1>1. <<>> \in Seq(S) /\ <<a>> \in Seq(S) /\ <<b>> \in Seq(S) /\ Len(<<a>>) = 1 /\ Len(<<b>>) = 1 /\ Len(<<>>) = 0
  OBVIOUS
<1>2. <<a>>[1] = a /\ <<b>>[1] = b
  OBVIOUS
<1> QED BY <1>1, <1>2

LEMMA ReceiveIs ==
  ASSUME TypeOK, NEW w \in Windows, Receive(w), NEW p, NEW f, NEW own, NEW owed, Received(w, p, f, own, owed)
  PROVE  /\ p \in Peers /\ down[p] # <<>> /\ f \in Frame /\ own \in SUBSET Items
         /\ down' = [down EXCEPT ![p] = Tail(@)]
         /\ UNCHANGED <<relay, engines, conn, open, mine, missed>>
         /\ \E fs : Replies(w, p, f, own, owed, fs)
<1> DEFINE news == IF owed = {} THEN <<>> ELSE <<Update(f.doc, owed)>>
<1>0. p = conn[w] /\ f = Head(down[p]) /\ own = Part(mine[w], f.doc) /\ owed = Part(has[w], f.doc) \ f.items
  BY DEF Received
<1>1. p \in Peers /\ down[p] # <<>> /\ down[p] \in Seq(Frame)
  BY <1>0 DEF Receive, TypeOK
<1>2. f \in Frame
  BY <1>0, <1>1, QueueType
<1>3. f.doc \in Docs /\ f.items \in SUBSET Items /\ own \in SUBSET Items /\ owed \in SUBSET Items
  BY <1>0, <1>2, FrameTypes, ItemTypes DEF TypeOK
<1>4. /\ down' = [down EXCEPT ![p] = Tail(@)]
      /\ UNCHANGED <<relay, engines, conn, open, mine, missed>>
      /\ IF ~ f.ask
           THEN UNCHANGED <<synced, probe, acked, up>>
         ELSE IF f.doc \notin synced[w]
           THEN /\ synced' = [synced EXCEPT ![w] = @ \cup {f.doc}]
                /\ probe' = [probe EXCEPT ![w][f.doc] = {own}]
                /\ up' = Said(w, news \o <<Ask(f.doc)>>)
                /\ UNCHANGED acked
         ELSE IF Settled(w, f.doc)
           THEN /\ acked' = [acked EXCEPT ![w] = @ \cup own]
                /\ probe' = [probe EXCEPT ![w][f.doc] = {}]
                /\ UNCHANGED <<synced, up>>
           ELSE /\ probe' = [probe EXCEPT ![w][f.doc] = {own}]
                /\ up' = Said(w, <<Ask(f.doc)>>)
                /\ UNCHANGED <<synced, acked>>
  BY <1>0 DEF Receive
<1>5. <<>> \in Seq(Frame) /\ Len(<<>>) = 0 /\ Said(w, <<>>) = up
  <2>1. up \in [Peers -> Seq(Frame)] /\ (p \in Peers => up[p] \o <<>> = up[p])
    BY <1>1 DEF TypeOK
  <2> QED BY <1>0, <1>1, <2>1 DEF Said
<1>6. Ask(f.doc) \in Frame /\ Ask(f.doc).doc = f.doc /\ OfDoc(Ask(f.doc)) /\ Ask(f.doc).ask
  BY <1>3, FrameTypes DEF OfDoc
<1>7. /\ Update(f.doc, owed) \in Frame /\ Update(f.doc, owed).doc = f.doc /\ OfDoc(Update(f.doc, owed))
      /\ ~ Update(f.doc, owed).ask /\ Update(f.doc, owed).items = owed
  <2>1. \A i \in owed : DocOf(i) = f.doc
    BY <1>0 DEF Part
  <2>2. /\ Update(f.doc, owed) \in Frame /\ Update(f.doc, owed).doc = f.doc
        /\ ~ Update(f.doc, owed).ask /\ Update(f.doc, owed).items = owed
    BY <1>3 DEF Update, Frame
  <2> QED BY <2>1, <2>2 DEF OfDoc
<1>8. CASE ~ f.ask
  <2>1. Replies(w, p, f, own, owed, <<>>)
    BY <1>4, <1>5, <1>8 DEF Replies
  <2> QED BY <1>1, <1>2, <1>3, <1>4, <2>1
<1>9. CASE f.ask /\ f.doc \notin synced[w]
  <2>1. PICK q : q = Ask(f.doc)
    OBVIOUS
  <2>2. PICK u : u = Update(f.doc, owed)
    OBVIOUS
  <2>3. PICK fs : fs = IF owed = {} THEN <<>> \o <<q>> ELSE <<u>> \o <<q>>
    OBVIOUS
  <2>4. q \in Frame /\ q.doc = f.doc /\ OfDoc(q) /\ q.ask
    BY <1>6, <2>1
  <2>5. u \in Frame /\ u.doc = f.doc /\ OfDoc(u) /\ ~ u.ask /\ u.items = owed
    BY <1>7, <2>2
  <2>6. /\ fs \in Seq(Frame)
        /\ owed = {} => Len(fs) = 1 /\ fs[1] = q
        /\ owed # {} => Len(fs) = 2 /\ fs[1] = u /\ fs[2] = q
    BY <2>3, <2>4, <2>5, Joined
  <2>7. /\ up' = Said(w, fs) /\ UNCHANGED acked /\ synced' = [synced EXCEPT ![w] = @ \cup {f.doc}]
        /\ probe' = [probe EXCEPT ![w][f.doc] = {own}]
    <3>1. fs = news \o <<Ask(f.doc)>>
      BY <2>1, <2>2, <2>3
    <3> QED BY <1>4, <1>9, <3>1
  <2>8. CASE owed = {}
    <3>1. fs \in Seq(Frame) /\ Len(fs) = 1 /\ fs[1] = q /\ \A k \in 1 .. Len(fs) : k = 1
      <4>1. fs \in Seq(Frame) /\ Len(fs) = 1 /\ fs[1] = q
        BY ONLY <2>6, <2>8
      <4> QED BY ONLY <4>1
    <3>2. Replies(w, p, f, own, owed, fs)
      BY <1>9, <2>4, <2>7, <2>8, <3>1 DEF Replies
    <3> QED BY <1>1, <1>2, <1>3, <1>4, <3>2
  <2>9. CASE owed # {}
    <3>1. fs \in Seq(Frame) /\ Len(fs) = 2 /\ fs[1] = u /\ fs[2] = q /\ \A k \in 1 .. Len(fs) : k = 1 \/ k = 2
      <4>1. fs \in Seq(Frame) /\ Len(fs) = 2 /\ fs[1] = u /\ fs[2] = q
        BY ONLY <2>6, <2>9
      <4> QED BY ONLY <4>1
    <3>2. \A i \in owed : \E k \in 1 .. Len(fs) : k < Len(fs) /\ i \in fs[k].items
      <4>1. 1 \in 1 .. Len(fs) /\ 1 < Len(fs)
        BY <3>1
      <4>2. fs[1].items = owed
        BY <2>5, <3>1
      <4> QED BY <4>1, <4>2
    <3>3. \A k \in 1 .. Len(fs) : fs[k].doc = f.doc /\ OfDoc(fs[k]) /\ (fs[k].ask => k = Len(fs))
      BY <2>4, <2>5, <3>1
    <3>4. Replies(w, p, f, own, owed, fs)
      BY <1>9, <2>7, <3>1, <3>2, <3>3 DEF Replies
    <3> QED BY <1>1, <1>2, <1>3, <1>4, <3>4
  <2> QED BY <2>8, <2>9
<1>10. CASE f.ask /\ f.doc \in synced[w] /\ Settled(w, f.doc)
  <2>1. Replies(w, p, f, own, owed, <<>>)
    BY <1>0, <1>4, <1>5, <1>10 DEF Replies, Settled
  <2> QED BY <1>1, <1>2, <1>3, <1>4, <2>1
<1>11. CASE f.ask /\ f.doc \in synced[w] /\ ~ Settled(w, f.doc)
  <2> DEFINE fs == <<Ask(f.doc)>>
  <2>1. fs \in Seq(Frame) /\ Len(fs) = 1 /\ fs[1] = Ask(f.doc)
    BY <1>6
  <2>2. up' = Said(w, fs) /\ probe' = [probe EXCEPT ![w][f.doc] = {own}] /\ UNCHANGED <<synced, acked>>
    BY <1>4, <1>11
  <2> HIDE DEF fs
  <2>3. \A k \in 1 .. Len(fs) : k = 1
    BY <2>1
  <2>4. Replies(w, p, f, own, owed, fs)
    BY <1>6, <1>11, <2>1, <2>2, <2>3 DEF Replies
  <2> QED BY <1>1, <1>2, <1>3, <1>4, <2>4
<1> QED BY <1>8, <1>9, <1>10, <1>11

LEMMA ReceiveOrder ==
  ASSUME RelayInv, RelayInv', Ordered, NEW w \in Windows, Receive(w)
  PROVE  Ordered'
<1>0. TypeOK /\ WindowInv(w)
  BY DEF RelayInv
<1>1. PICK p : p = conn[w]
  OBVIOUS
<1>2. PICK f : f = Head(down[p])
  OBVIOUS
<1>3. PICK own : own = Part(mine[w], f.doc)
  OBVIOUS
<1>4. PICK owed : owed = Part(has[w], f.doc) \ f.items
  OBVIOUS
<1>5. PICK c : c = f.doc
  OBVIOUS
<1>6. /\ p \in Peers /\ down[p] # <<>> /\ f \in Frame /\ own \in SUBSET Items
      /\ down' = [down EXCEPT ![p] = Tail(@)]
      /\ UNCHANGED <<relay, engines, conn, open, mine, missed>>
      /\ \E fs : Replies(w, p, f, own, owed, fs)
  <2>1. Received(w, p, f, own, owed)
    BY <1>1, <1>2, <1>3, <1>4 DEF Received
  <2> QED BY ONLY <1>0, w \in Windows, Receive(w), <2>1, ReceiveIs
<1>7. PICK fs : Replies(w, p, f, own, owed, fs)
  BY <1>6
<1>8. /\ fs \in Seq(Frame) /\ up' = Said(w, fs)
      /\ \A k \in 1 .. Len(fs) : fs[k].doc = c /\ OfDoc(fs[k])
  BY <1>5, <1>7 DEF Replies
<1>9. c \in Docs /\ p[1] = w /\ conn[p[1]] = p /\ LineInv(p, c) /\ down[p] \in Seq(Frame) /\ UNCHANGED journal
  <2>1. p[1] = w
    BY <1>0, <1>1, <1>6, PeerTypes DEF WindowInv
  <2> QED BY <1>0, <1>1, <1>5, <1>6, <2>1, FrameTypes DEF Ordered, TypeOK, engines
<1>10. AsksOnce(p, c) /\ AsksLate(p, c) /\ AllSent(p, c)
  BY <1>9 DEF LineInv
<1>11. down'[p] = Tail(down[p]) /\ \A q \in Peers : q # p => down'[q] = down[q]
  BY <1>0, <1>6 DEF TypeOK
<1>12. f.ask =>
         /\ <<0, 1>> \in Asks(p, c) /\ \A x \in Asks(p, c) : x = <<0, 1>>
         /\ \A x \in Asks(p, c)' : x[1] # 0
  BY <1>0, <1>2, <1>5, <1>6, <1>9, <1>10, <1>11, AnswerTaken
<1>13. /\ \A x \in Windows \ {w} : synced'[x] = synced[x] /\ probe'[x] = probe[x]
       /\ \A d \in Docs \ {c} : (d \in synced'[w] <=> d \in synced[w]) /\ probe'[w][d] = probe[w][d]
  <2>1. synced' = synced \/ synced' = [synced EXCEPT ![w] = @ \cup {c}]
    BY <1>5, <1>7 DEF Replies
  <2>2. probe' = probe \/ \E os : probe' = [probe EXCEPT ![w][c] = os]
    BY <1>5, <1>7 DEF Replies
  <2>3. synced \in [Windows -> SUBSET Docs] /\ probe \in [Windows -> [Docs -> SUBSET SUBSET Items]]
    BY <1>0 DEF TypeOK
  <2> QED BY <1>9, <2>1, <2>2, <2>3
<1>14. ASSUME ~ f.ask, fs = <<>>, UNCHANGED <<synced, probe, acked>>
       PROVE  AckedIsStored' /\ (up'[p] = up[p] \o fs => LineInv(p, c)')
  <2>1. AckedIsStored'
    BY <1>9, <1>14 DEF Ordered, AckedIsStored
  <2>2. SameWindow(p[1], c)
    BY <1>6, <1>14 DEF SameWindow
  <2>3. Keeps(down[p], down'[p], Answers(c))
    BY <1>2, <1>6, <1>9, <1>11, <1>14, KeepsTail DEF Answers
  <2>4. ASSUME up'[p] = up[p] \o fs PROVE LineInv(p, c)'
    <3>1. \A k \in 1 .. Len(fs) : fs[k].doc # c
      BY <1>14
    <3> QED BY <1>6, <1>8, <1>9, <2>2, <2>3, <2>4, <3>1, OwnLine
  <2> QED BY <2>1, <2>4
<1>15. ASSUME f.ask, c \notin synced[w],
              Len(fs) >= 1, \A k \in 1 .. Len(fs) : fs[k].ask => k = Len(fs),
              \A i \in owed : \E k \in 1 .. Len(fs) : k < Len(fs) /\ i \in fs[k].items,
              synced' = [synced EXCEPT ![w] = @ \cup {c}], probe' = [probe EXCEPT ![w][c] = {own}], UNCHANGED acked
       PROVE  AckedIsStored' /\ (up'[p] = up[p] \o fs => LineInv(p, c)')
  <2>1. AckedIsStored'
    BY <1>9, <1>15 DEF Ordered, AckedIsStored
  <2>2. c \in open'[p[1]] /\ c \in synced'[p[1]] /\ probe'[p[1]][c] = {Part(mine'[p[1]], c)}
    <3>1. c \in open[w]
      BY <1>9, <1>10, <1>12, <1>15 DEF AsksOnce
    <3>2. c \in synced'[w] /\ probe'[w][c] = {own}
      BY <1>0, <1>9, <1>15 DEF TypeOK
    <3> QED BY <1>3, <1>5, <1>6, <1>9, <3>1, <3>2
  <2>3. ASSUME NEW i \in Part(mine'[p[1]], c)
        PROVE  i \in journal[VaultFor(c)] \/ \E k \in 1 .. Len(fs) : k < Len(fs) /\ fs[k].doc = c /\ i \in fs[k].items
    <3>1. i \in Part(has[w], c)
      BY <1>0, <1>6, <1>9 DEF Part, WindowInv
    <3>2. CASE i \in f.items
      <4>1. 1 \in DOMAIN down[p] /\ down[p][1] = f
        BY <1>2, <1>6, <1>9
      <4>2. f.items \subseteq journal[VaultFor(c)]
        BY <1>5, <1>6, <1>15, <4>1 DEF Ordered, FramesInv
      <4> QED BY <3>2, <4>2
    <3>3. CASE i \notin f.items
      <4>1. i \in owed
        BY <1>4, <1>5, <3>1, <3>3
      <4>2. PICK k \in 1 .. Len(fs) : k < Len(fs) /\ i \in fs[k].items
        BY <1>15, <4>1
      <4>3. fs[k].doc = c
        BY <1>8
      <4> QED BY <4>2, <4>3
    <3> QED BY <3>2, <3>3
  <2>4. ASSUME up'[p] = up[p] \o fs PROVE LineInv(p, c)'
    <3>1. Len(fs) \in 1 .. Len(fs)
      BY <1>8, <1>15
    <3>2. /\ \A k \in 1 .. Len(fs) : fs[k].ask /\ fs[k].doc = c => k = Len(fs)
          /\ \A x \in Asks(p, c) : x[1] = 0
          /\ \A x \in Asks(p, c)' : x[1] # 0
          /\ \A i \in Part(mine'[p[1]], c) :
               \/ i \in journal[VaultFor(c)] \/ Brings(p, c, i) # {}
               \/ \E k \in 1 .. Len(fs) : k < Len(fs) /\ fs[k].doc = c /\ i \in fs[k].items
      BY <1>12, <1>15, <2>3
    <3>3. AsksAnew(p, c, fs, Len(fs))
      BY ONLY <1>8, <2>2, <2>4, <3>1, <3>2 DEF AsksAnew
    <3> QED BY <1>6, <1>9, <3>3, OwnAsk
  <2> QED BY <2>1, <2>4
<1>16. ASSUME f.ask, c \in synced[w], probe[w][c] = {own}, fs = <<>>,
              acked' = [acked EXCEPT ![w] = @ \cup own], probe' = [probe EXCEPT ![w][c] = {}], UNCHANGED synced
       PROVE  AckedIsStored' /\ (up'[p] = up[p] \o fs => LineInv(p, c)')
  <2>1. ASSUME NEW i \in own PROVE i \in journal[VaultOf(i)]
    <3>1. i \in journal[VaultFor(c)] \/ \E y \in Brings(p, c, i) : Before(y, <<0, 1>>)
      <4>1. <<0, 1>> \in Asks(p, c) /\ own \in probe[p[1]][c] /\ <<0, 1>>[1] = 0
        BY <1>9, <1>12, <1>16
      <4> QED BY <1>10, <4>1 DEF AsksLate
    <3>2. ASSUME NEW y \in Brings(p, c, i), Before(y, <<0, 1>>) PROVE FALSE
      <4>1. y[1] > 0 /\ y \in Place
        BY DEF Brings
      <4> QED BY <3>2, <4>1 DEF Before, Place
    <3>3. VaultOf(i) = VaultFor(c)
      <4>1. mine[w] \in SUBSET Items /\ i \in Part(mine[w], c)
        BY <1>0, <1>3, <1>5 DEF TypeOK
      <4> QED BY <1>9, <4>1, PartOf
    <3> QED BY <3>1, <3>2, <3>3
  <2>2. AckedIsStored'
    <3>1. ASSUME NEW x \in Windows, NEW i \in acked'[x] PROVE i \in journal[VaultOf(i)]
      <4>1. i \in acked[x] \/ i \in own
        BY <1>0, <1>16 DEF TypeOK
      <4> QED BY <2>1, <4>1 DEF Ordered, AckedIsStored
    <3> QED BY <1>9, <3>1 DEF AckedIsStored
  <2>3. ASSUME up'[p] = up[p] \o fs PROVE LineInv(p, c)'
    <3>1. UNCHANGED <<chan, held, session, full, engine, journal>> /\ 1 .. Len(fs) = {}
      BY <1>6, <1>16 DEF relay, engines
    <3>2. /\ \A i : \A y \in Brings(p, c, i) : y \in Brings(p, c, i)'
          /\ \A x \in Asks(p, c)' : x[1] # 0 => x \in Asks(p, c)
      <4>1. /\ up[p] \in Seq(Frame) /\ Len(up[p]) \in Nat
            /\ \A i : \A y \in Brings(p, c, i) :
                 y \in Brings(p, c, i)' /\ \A k \in Nat \ {0} : Before(y, <<5, Len(up[p]) + k>>)
            /\ \A k \in 1 .. Len(fs) : fs[k].doc = c =>
                 \A i \in fs[k].items : <<5, Len(up[p]) + k>> \in Brings(p, c, i)'
            /\ \A x \in Asks(p, c)' : x[1] # 0 =>
                 \/ x \in Asks(p, c)
                 \/ \E k \in 1 .. Len(fs) : x = <<5, Len(up[p]) + k>> /\ fs[k].ask /\ fs[k].doc = c
        <5>1. fs \in Seq(Frame) /\ c \in Docs /\ p \in Peers
          BY <1>6, <1>8, <1>9
        <5> QED BY ONLY <1>0, <2>3, <3>1, <5>1, BringsGrow
      <4> QED BY <3>1, <4>1
    <3>3. Asks(p, c)' = {}
      <4>1. ASSUME NEW x \in Asks(p, c)' PROVE FALSE
        <5>1. x[1] # 0 /\ x = <<0, 1>>
          BY <1>12, <1>16, <3>2
        <5> QED BY <5>1
      <4> QED BY <4>1
    <3>4. AsksOnce(p, c)' /\ AsksLate(p, c)'
      <4>1. c \in synced'[p[1]] => c \in open'[p[1]]
        BY <1>6, <1>10, <1>16 DEF AsksOnce
      <4> QED BY <3>3, <4>1 DEF AsksOnce, AsksLate
    <3>5. AllSent(p, c)'
      <4>1. ASSUME c \in synced'[p[1]], Whole(p, c)', NEW i \in Part(mine'[p[1]], c)
            PROVE  i \in journal'[VaultFor(c)] \/ Brings(p, c, i)' # {}
        <5>1. c \in synced[p[1]] /\ Whole(p, c) /\ i \in Part(mine[p[1]], c)
          BY <1>6, <1>16, <3>1, <4>1 DEF Whole
        <5>2. i \in journal[VaultFor(c)] \/ Brings(p, c, i) # {}
          BY <1>10, <5>1 DEF AllSent
        <5> QED BY <3>1, <3>2, <5>2
      <4> QED BY <4>1 DEF AllSent
    <3> QED BY <3>4, <3>5 DEF LineInv
  <2> QED BY <2>2, <2>3
<1>17. ASSUME f.ask, c \in synced[w], Len(fs) = 1, probe' = [probe EXCEPT ![w][c] = {own}], UNCHANGED <<synced, acked>>
       PROVE  AckedIsStored' /\ (up'[p] = up[p] \o fs => LineInv(p, c)')
  <2>1. AckedIsStored'
    BY <1>9, <1>17 DEF Ordered, AckedIsStored
  <2>2. c \in open'[p[1]] /\ c \in synced'[p[1]] /\ probe'[p[1]][c] = {Part(mine'[p[1]], c)}
    <3>1. probe'[w][c] = {own}
      BY <1>0, <1>9, <1>17 DEF TypeOK
    <3> QED BY <1>3, <1>5, <1>6, <1>9, <1>10, <1>17, <3>1 DEF AsksOnce
  <2>3. Whole(p, c) =>
          \A i \in Part(mine'[p[1]], c) : i \in journal[VaultFor(c)] \/ Brings(p, c, i) # {}
    BY <1>6, <1>9, <1>10, <1>17 DEF AllSent
  <2>4. ASSUME up'[p] = up[p] \o fs PROVE LineInv(p, c)'
    <3>1. 1 \in 1 .. Len(fs) /\ \A k \in 1 .. Len(fs) : k = 1
      BY <1>17
    <3>2. /\ \A k \in 1 .. Len(fs) : fs[k].ask /\ fs[k].doc = c => k = 1
          /\ \A x \in Asks(p, c) : x[1] = 0
          /\ \A x \in Asks(p, c)' : x[1] # 0
      BY <1>12, <1>17, <3>1
    <3>3. AsksAnew(p, c, fs, 1)
      BY ONLY <1>8, <2>2, <2>3, <2>4, <3>1, <3>2 DEF AsksAnew
    <3> QED BY <1>6, <1>9, <3>3, OwnAsk
  <2> QED BY <2>1, <2>4
<1>18. AckedIsStored' /\ (up'[p] = up[p] \o fs => LineInv(p, c)')
  BY <1>5, <1>7, <1>14, <1>15, <1>16, <1>17 DEF Replies
<1>19. ASSUME NEW q \in Peers, NEW d \in Docs, q = conn[w], q[1] = w, conn[q[1]] = q, up'[q] = up[q] \o fs
       PROVE  LineInv(q, d)'
  <2>1. q = p
    BY <1>1, <1>19
  <2>2. CASE d = c
    BY <1>18, <1>19, <2>1, <2>2
  <2>3. CASE d # c
    <3>1. SameWindow(p[1], d)
      BY <1>6, <1>9, <1>13, <2>3 DEF SameWindow
    <3>2. Keeps(down[p], down'[p], Answers(d))
      BY <1>2, <1>5, <1>6, <1>9, <1>11, <2>3, KeepsTail DEF Answers
    <3>3. up'[p] = up[p] \o fs /\ (\A k \in 1 .. Len(fs) : fs[k].doc # d)
      BY <1>8, <1>19, <2>1, <2>3
    <3>4. LineInv(p, d)'
      BY <1>6, <1>8, <1>9, <3>1, <3>2, <3>3, OwnLine
    <3> QED BY <2>1, <3>4
  <2> QED BY <2>2, <2>3
<1>20. \A q \in Peers, d \in Docs :
         q = conn[w] /\ q[1] = w /\ conn[q[1]] = q /\ up'[q] = up[q] \o fs => LineInv(q, d)'
  BY <1>19
<1>21. \A k \in 1 .. Len(fs) : OfDoc(fs[k])
  BY <1>8
<1>22. /\ UNCHANGED <<relay, engines, conn>> /\ up' = Said(w, fs) /\ fs \in Seq(Frame)
       /\ \A q \in Peers : q # conn[w] => down'[q] = down[q]
       /\ \A q \in Peers : down'[q] = down[q] \/ (down[q] # <<>> /\ down'[q] = Tail(down[q]))
       /\ \A x \in Windows \ {w} :
            open'[x] = open[x] /\ synced'[x] = synced[x] /\ probe'[x] = probe[x] /\ mine'[x] = mine[x]
  BY <1>1, <1>6, <1>8, <1>11, <1>13
<1> QED BY ONLY RelayInv, RelayInv', Ordered, w \in Windows, <1>18, <1>20, <1>21, <1>22, WindowSays

-----------------------------------------------------------------------------
(* Steps of sessions *)

\* The parts of a line, before and after.
LEMMA LineTypes ==
  ASSUME TypeOK, NEW p \in Peers, NEW d \in Docs
  PROVE  /\ VaultFor(d) \in Vaults
         /\ down[p] \in Seq(Frame) /\ chan[VaultFor(d)] \in Seq(Event)
         /\ held \in Seq([peer : Peers, frame : Frame]) /\ up[p] \in Seq(Frame)
<1>1. VaultFor(d) \in Vaults
  BY RelayAssumption DEF VaultFor, Docs
<1> QED BY <1>1 DEF TypeOK

LEMMA Among ==
  ASSUME NEW S, NEW q \in Seq(S), NEW k \in DOMAIN q
  PROVE  k \in 1 .. Len(q) /\ q[k] \in S
OBVIOUS

LEMMA HeldTypes ==
  ASSUME TypeOK
  PROVE  \A k \in DOMAIN held :
           /\ k \in 1 .. Len(held) /\ held[k] \in [peer : Peers, frame : Frame]
           /\ held[k].peer \in Peers /\ held[k].frame \in Frame /\ held[k].frame.doc \in Docs
<1>1. held \in Seq([peer : Peers, frame : Frame])
  BY DEF TypeOK
<1>2. ASSUME NEW k \in DOMAIN held PROVE k \in 1 .. Len(held) /\ held[k] \in [peer : Peers, frame : Frame]
  BY ONLY <1>1, <1>2, Among
<1>3. \A h \in [peer : Peers, frame : Frame] : h.peer \in Peers /\ h.frame \in Frame /\ h.frame.doc \in Docs
  BY FrameTypes
<1> QED BY <1>2, <1>3

LEMMA HeldStays ==
  ASSUME TypeOK, TypeOK', HeldInv, \A k \in DOMAIN held' : \E j \in DOMAIN held : held'[k] = held[j],
         \A q \in Peers, d \in Docs : HeldFor(q, d) => HeldFor(q, d)'
  PROVE  HeldInv'
<1>1. ASSUME NEW k \in DOMAIN held', NEW q, NEW d, q = held'[k].peer, d = held'[k].frame.doc
      PROVE  HeldFor(q, d)'
  <2>1. PICK j \in DOMAIN held : held'[k] = held[j]
    OBVIOUS
  <2>2. q \in Peers /\ d \in Docs
    BY <1>1, <2>1, HeldTypes
  <2>3. HeldFor(q, d)
    BY <1>1, <2>1 DEF HeldInv
  <2> QED BY <2>2, <2>3
<1>2. HeldInv' <=> \A k \in DOMAIN held' : HeldFor(held[k].peer, held[k].frame.doc)'
  BY DEF HeldInv
<1> QED BY <1>1, <1>2

LEMMA LineSame ==
  ASSUME NEW p \in Peers, NEW d \in Docs,
         RelayInv, TypeOK', LineInv(p, d), conn[p[1]] = p, SameWindow(p[1], d),
         journal[VaultFor(d)] \subseteq journal'[VaultFor(d)],
         down'[p] = down[p], chan'[VaultFor(d)] = chan[VaultFor(d)], held' = held, up'[p] = up[p],
         SameHolding(p, d), Whole(p, d)' /\ d \in synced[p[1]] => Whole(p, d)
  PROVE  LineInv(p, d)'
<1>1. TypeOK
  BY DEF RelayInv
<1>2. /\ Keeps(down[p], down[p], Answers(d)) /\ Keeps(chan[VaultFor(d)], chan[VaultFor(d)], Carried(p, d))
      /\ Keeps(held, held, Waiting(p, d)) /\ Keeps(up[p], up[p], About(d))
  BY <1>1, LineTypes, KeepsSame
<1> QED BY <1>2, LineKeeps

LEMMA ConnectOrder ==
  ASSUME RelayInv, RelayInv', Ordered, NEW w \in Windows, Connect(w)
  PROVE  Ordered'
<1>1. TypeOK /\ TypeOK' /\ IsFiniteSet(open[w]) /\ WindowInv(w)
  BY DEF RelayInv, WindowInv
<1>2. PICK p \in Peers :
        /\ p[1] = w /\ Traceless(p)
        /\ conn' = [conn EXCEPT ![w] = p]
        /\ session' = [session EXCEPT ![p].at = "new"]
        /\ up' = [up EXCEPT ![p] = [k \in 1 .. Cardinality(open[w]) |-> Ask(SetToSeq(open[w])[k])]]
  BY PeerTypes DEF Connect
<1>3. /\ conn[w] = None
      /\ UNCHANGED <<reg, owner, held, wanted, listed, full, chan, engine, known, subs, dirty, pending, memory,
                     journal, open, has, mine, synced, probe, acked, down, stops, missed>>
  BY DEF Connect, engines
<1>4. session'[p].at = "new" /\ \A q \in Peers \ {p} : session'[q] = session[q]
  BY <1>1, <1>2 DEF TypeOK
<1>5. conn'[w] = p /\ \A x \in Windows \ {w} : conn'[x] = conn[x]
  BY <1>1, <1>2 DEF TypeOK
<1>6. PICK ds : ds = SetToSeq(open[w])
  OBVIOUS
<1>7. PICK n : n = Cardinality(open[w])
  OBVIOUS
<1>8. n \in Nat /\ ds \in [1 .. n -> open[w]] /\ \A j, k \in 1 .. n : ds[j] = ds[k] => j = k
  BY <1>1, <1>6, <1>7, SetToSeqOf
<1>9. \A q \in Peers : up'[q] = IF q = p THEN [k \in 1 .. n |-> Ask(ds[k])] ELSE up[q]
  BY <1>1, <1>2, <1>6, <1>7 DEF TypeOK
<1>10. FramesInv'
  <2>1. ASSUME NEW q \in Peers, NEW k \in DOMAIN up'[q] PROVE OfDoc(up'[q][k])
    <3>1. CASE q = p
      <4>1. up'[q][k].items = {}
        <5>1. k \in 1 .. n /\ up'[q][k] = Ask(ds[k])
          BY <1>9, <2>1, <3>1
        <5> QED BY <5>1 DEF Ask
      <4> QED BY <4>1 DEF OfDoc
    <3>2. CASE q # p
      BY <1>9, <2>1, <3>2 DEF Ordered, FramesInv
    <3> QED BY <3>1, <3>2
  <2>2. ASSUME NEW q \in Peers, session'[q].at = "holding" PROVE OfDoc(session'[q].frame)
    BY <1>4, <2>2 DEF Ordered, FramesInv
  <2> QED BY <1>3, <2>1, <2>2 DEF Ordered, FramesInv
<1>11. ClaimsInv'
  BY <1>3 DEF Ordered, ClaimsInv
<1>12. held \in Seq([peer : Peers, frame : Frame]) /\ \A k \in DOMAIN held : held[k].peer \in Peers /\ held[k].peer # p
  <2>1. held \in Seq([peer : Peers, frame : Frame])
    BY <1>1 DEF TypeOK
  <2>2. \A k \in 1 .. Len(held) : held[k].peer # p
    BY <1>2 DEF Traceless
  <2>3. ASSUME NEW k \in DOMAIN held PROVE held[k].peer \in Peers /\ held[k].peer # p
    <3>1. k \in 1 .. Len(held) /\ held[k] \in [peer : Peers, frame : Frame]
      BY ONLY <2>1, <2>3, Among
    <3> QED BY <2>2, <3>1
  <2> QED BY <2>1, <2>3
<1>13. HeldInv'
  BY <1>3, <1>4, <1>12 DEF Ordered, HeldInv, HeldFor, AboutToClaim
<1>14. ASSUME NEW q \in Peers, NEW d \in Docs, q # p PROVE LineInv(q, d)'
  <2>1. CASE conn'[q[1]] # q
    BY <2>1 DEF LineInv
  <2>2. CASE conn'[q[1]] = q
    <3>1. q[1] \in Windows \ {w} /\ conn[q[1]] = q
      BY <1>5, <1>14, <2>2, PeerTypes
    <3>2. SameWindow(q[1], d) /\ SameHolding(q, d) /\ (Whole(q, d)' => Whole(q, d)) /\ up'[q] = up[q] /\ LineInv(q, d)
      BY <1>3, <1>4, <1>9, <1>14 DEF SameWindow, SameHolding, Whole, Ordered
    <3> QED BY <1>1, <1>3, <3>1, <3>2, LineSame
  <2> QED BY <2>1, <2>2
<1>15. ASSUME NEW d \in Docs PROVE LineInv(p, d)'
  <2>1. d \notin synced[w] /\ probe[w][d] = {}
    BY <1>1, <1>3 DEF WindowInv
  <2>2. ASSUME NEW x \in Asks(p, d)' PROVE x \in Place /\ x[1] = 5 /\ x[2] \in 1 .. n /\ ds[x[2]] = d
    <3>1. PICK f \in Frame : x \in Place /\ Stands(p, d, x, f)' /\ f.ask
      BY DEF Asks
    <3>2. down'[p] = <<>>
      BY <1>4 DEF RelayInv, SessionInv, Live
    <3>3. \A v \in Vaults : \A k \in DOMAIN chan'[v] : chan'[v][k].peer # p
      <4>1. \A v \in Vaults : DOMAIN chan[v] = 1 .. Len(chan[v])
        BY <1>1 DEF TypeOK
      <4> QED BY <1>2, <1>3, <4>1 DEF Traceless
    <3>4. x[1] # 0
      BY <3>1, <3>2 DEF Stands, SentAt, HeldAt
    <3>5. \A k \in DOMAIN held' : held'[k].peer # p
      BY <1>3, <1>12
    <3>6. x[1] = 5 /\ x[2] \in DOMAIN up'[p] /\ up'[p][x[2]] = f
      BY <1>1, <1>4, <3>1, <3>3, <3>4, <3>5, LineTypes DEF Stands, SentAt, HeldAt, InChan
    <3>7. x[2] \in 1 .. n /\ up'[p][x[2]] = Ask(ds[x[2]])
      BY <1>9, <3>6
    <3>8. f.doc = d
      BY <3>1 DEF Stands
    <3> QED BY <3>1, <3>6, <3>7, <3>8 DEF Ask
  <2>3. d \notin open[w] => Asks(p, d)' = {}
    BY <1>8, <2>2
  <2>4. ASSUME NEW x \in Asks(p, d)', NEW y \in Asks(p, d)' PROVE x = y
    <3>1. x[2] = y[2]
      BY <1>8, <2>2
    <3> QED BY <2>2, <3>1 DEF Place
  <2>5. AsksOnce(p, d)'
    BY <1>2, <1>3, <2>1, <2>3, <2>4 DEF AsksOnce
  <2>6. AsksLate(p, d)' /\ AllSent(p, d)'
    BY <1>2, <1>3, <2>1 DEF AsksLate, AllSent
  <2> QED BY <2>5, <2>6 DEF LineInv
<1>16. AckedIsStored'
  BY <1>3 DEF Ordered, AckedIsStored
<1> QED BY <1>10, <1>11, <1>13, <1>14, <1>15, <1>16 DEF Ordered

\* An event at the end of channels.
LEMMA Posts ==
  ASSUME TypeOK, NEW vs, NEW e \in Event, chan' = Posted(vs, e), NEW v \in Vaults
  PROVE  /\ \A k \in DOMAIN chan'[v] :
              \/ k \in DOMAIN chan[v] /\ chan'[v][k] = chan[v][k]
              \/ v \in vs /\ chan'[v][k] = e
         /\ chan[v] # <<>> => chan'[v] # <<>> /\ Head(chan'[v]) = Head(chan[v])
         /\ \A R : e \notin R => Keeps(chan[v], chan'[v], R)
<1>1. chan[v] \in Seq(Event) /\ chan'[v] = IF v \in vs /\ engine[v] \in {"new", "running", "renewed"}
                                           THEN Append(chan[v], e) ELSE chan[v]
  BY PostedType DEF TypeOK
<1>2. CASE chan'[v] = chan[v]
  BY <1>1, <1>2, KeepsSame
<1>3. CASE v \in vs /\ chan'[v] = Append(chan[v], e)
  <2>1. \A R : e \notin R => Keeps(chan[v], chan'[v], R)
    BY <1>1, <1>3, KeepsOneMore
  <2>2. \A k \in DOMAIN chan'[v] : (k \in DOMAIN chan[v] /\ chan'[v][k] = chan[v][k]) \/ chan'[v][k] = e
    BY <1>1, <1>3
  <2>3. chan[v] # <<>> => chan'[v] # <<>> /\ Head(chan'[v]) = Head(chan[v])
    BY <1>1, <1>3
  <2> QED BY <1>3, <2>1, <2>2, <2>3
<1> QED BY <1>1, <1>2, <1>3

\* A line whose window a step leaves alone.
LEMMA Untouched ==
  ASSUME NEW w \in Windows, UNCHANGED <<open, mine>>, synced'[w] = synced[w], probe'[w] = probe[w]
  PROVE  \A d \in Docs : SameWindow(w, d)
BY DEF SameWindow

LEMMA ListOrder ==
  ASSUME RelayInv, RelayInv', Ordered, NEW p \in Peers, List(p)
  PROVE  Ordered'
<1>1. TypeOK /\ TypeOK'
  BY DEF RelayInv
<1>2. /\ session[p].at = "new"
      /\ UNCHANGED <<reg, owner, held, full, chan, engine, dirty, journal, conn, open, mine, synced, probe, acked, up, down>>
  BY DEF List, engines, windows
<1>3. session'[p].at = "listed" /\ \A q \in Peers \ {p} : session'[q] = session[q]
  BY <1>2, SessionRelay DEF Where, List
<1>4. FramesInv'
  BY <1>2, <1>3 DEF Ordered, FramesInv
<1>5. ClaimsInv'
  BY <1>2 DEF Ordered, ClaimsInv
<1>6. HeldInv'
  <2>1. \A k \in DOMAIN held : held[k].peer \in Peers /\ held[k].peer # p
    BY <1>1, <1>2, HeldTypes DEF Ordered, HeldInv, HeldFor
  <2> QED BY <1>2, <1>3, <2>1 DEF Ordered, HeldInv, HeldFor, AboutToClaim
<1>7. ASSUME NEW q \in Peers, NEW d \in Docs, conn'[q[1]] = q PROVE LineInv(q, d)'
  <2>1. SameWindow(q[1], d)
    BY <1>2, PeerTypes, Untouched
  <2>2. SameHolding(q, d)
    BY <1>2, <1>3 DEF SameHolding
  <2>3. (Whole(q, d)' => Whole(q, d)) /\ LineInv(q, d)
    BY <1>2 DEF Whole, Ordered
  <2> QED BY <1>1, <1>2, <1>7, <2>1, <2>2, <2>3, LineSame
<1>8. \A q \in Peers, d \in Docs : LineInv(q, d)'
  BY <1>7 DEF LineInv
<1>9. AckedIsStored'
  BY <1>2 DEF Ordered, AckedIsStored
<1> QED BY <1>4, <1>5, <1>6, <1>8, <1>9 DEF Ordered

\* A step that posts an event that is no frame, and moves a session that holds none.
LEMMA PostedOrder ==
  ASSUME RelayInv, RelayInv', Ordered, NEW p \in Peers, Announce(p) \/ Farewell(p)
  PROVE  Ordered'
<1>1. TypeOK /\ TypeOK'
  BY DEF RelayInv
<1>2. /\ UNCHANGED <<reg, owner, held, full, engine, dirty, journal, conn, open, mine, synced, probe, acked, up, down>>
      /\ \/ session[p].at = "listed" /\ session' = [session EXCEPT ![p].at = "open"]
         \/ session[p].at = "unlisted" /\ session' = [session EXCEPT ![p].at = "farewell"]
      /\ \E e \in Event : e.kind \in {"connected", "gone"} /\ chan' = Posted(reg, e)
  <2>1. /\ [kind |-> "connected", peer |-> p] \in Event /\ [kind |-> "gone", peer |-> p] \in Event
        /\ [kind |-> "connected", peer |-> p].kind = "connected" /\ [kind |-> "gone", peer |-> p].kind = "gone"
    BY EventTypes
  <2>2. CASE Announce(p)
    BY <2>1, <2>2 DEF Announce, windows
  <2>3. CASE Farewell(p)
    BY <2>1, <2>3 DEF Farewell, windows
  <2> QED BY <2>2, <2>3
<1>3. PICK e \in Event : e.kind \in {"connected", "gone"} /\ chan' = Posted(reg, e)
  BY <1>2
<1>4. /\ \/ session[p].at = "listed" /\ session'[p].at = "open"
         \/ session[p].at = "unlisted" /\ session'[p].at = "farewell"
      /\ \A q \in Peers \ {p} : session'[q] = session[q]
  <2>1. session \in [Peers -> [at : Where, frame : Frame \cup {None}]]
    BY <1>1 DEF TypeOK
  <2> QED BY <1>2, <2>1
<1>5. \A v \in Vaults :
        /\ \A k \in DOMAIN chan'[v] : (k \in DOMAIN chan[v] /\ chan'[v][k] = chan[v][k]) \/ chan'[v][k] = e
        /\ chan[v] # <<>> => chan'[v] # <<>> /\ Head(chan'[v]) = Head(chan[v])
        /\ \A R : e \notin R => Keeps(chan[v], chan'[v], R)
  BY <1>1, <1>3, Posts
<1>6. FramesInv'
  <2>1. \A v \in Vaults : \A k \in DOMAIN chan'[v] :
          chan'[v][k].kind \in {"frame", "released"} =>
            OfDoc(chan'[v][k].frame) /\ VaultFor(chan'[v][k].frame.doc) = v
    BY <1>3, <1>5 DEF Ordered, FramesInv
  <2>2. \A q \in Peers : session'[q].at = "holding" => OfDoc(session'[q].frame)
    BY <1>4 DEF Ordered, FramesInv
  <2> QED BY <1>2, <2>1, <2>2 DEF Ordered, FramesInv
<1>7. ClaimsInv'
  BY <1>2 DEF Ordered, ClaimsInv
<1>8. HeldInv'
  <2>1. ASSUME NEW q \in Peers, NEW d \in Docs, HeldFor(q, d) PROVE HeldFor(q, d)'
    <3>1. CASE q = p
      BY <1>2, <1>4, <2>1, <3>1 DEF HeldFor, Live
    <3>2. CASE q # p
      <4>1. d \in reg /\ AboutToClaim(d) => AboutToClaim(d)'
        BY <1>1, <1>2, <1>5 DEF AboutToClaim, TypeOK
      <4> QED BY <1>2, <1>4, <2>1, <3>2, <4>1 DEF HeldFor
    <3> QED BY <3>1, <3>2
  <2> QED BY <1>1, <1>2, <2>1, HeldStays DEF Ordered
<1>9. ASSUME NEW q \in Peers, NEW d \in Docs, conn'[q[1]] = q PROVE LineInv(q, d)'
  <2>1. SameWindow(q[1], d)
    BY <1>2, PeerTypes, Untouched
  <2>2. SameHolding(q, d)
    BY <1>4 DEF SameHolding
  <2>3. (Whole(q, d)' => Whole(q, d)) /\ LineInv(q, d)
    BY <1>2 DEF Whole, Ordered
  <2>4. Keeps(chan[VaultFor(d)], chan'[VaultFor(d)], Carried(q, d))
    <3>1. e \notin Carried(q, d)
      BY <1>3 DEF Carried
    <3> QED BY <1>1, <1>5, <3>1, LineTypes
  <2>5. Keeps(down[q], down'[q], Answers(d)) /\ Keeps(held, held', Waiting(q, d)) /\ Keeps(up[q], up'[q], About(d))
    BY <1>1, <1>2, LineTypes, KeepsSame
  <2> QED BY <1>1, <1>2, <1>9, <2>1, <2>2, <2>3, <2>4, <2>5, LineKeeps
<1>10. \A q \in Peers, d \in Docs : LineInv(q, d)'
  BY <1>9 DEF LineInv
<1>11. AckedIsStored'
  BY <1>2 DEF Ordered, AckedIsStored
<1> QED BY <1>6, <1>7, <1>8, <1>10, <1>11 DEF Ordered

\* What is left of the frames held.
LEMMA HeldPicked ==
  ASSUME TypeOK, NEW ks, held' = Picked(held, ks)
  PROVE  /\ \A k \in DOMAIN held' : \E j \in DOMAIN held : j \in ks /\ held'[k] = held[j]
         /\ \A R : (\A k \in DOMAIN held : held[k] \in R => k \in ks) => Keeps(held, held', R)
<1>1. held \in Seq([peer : Peers, frame : Frame])
  BY DEF TypeOK
<1>2. held' \in Seq([peer : Peers, frame : Frame]) /\ \E at : Chosen(held, ks, Len(held), held', at)
  BY <1>1, PickedOf
<1>3. PICK at : Chosen(held, ks, Len(held), held', at)
  BY <1>2
<1>4. DOMAIN held = 1 .. Len(held) /\ DOMAIN held' = 1 .. Len(held')
  BY <1>1, <1>2
<1>5. \A k \in DOMAIN held' : \E j \in DOMAIN held : j \in ks /\ held'[k] = held[j]
  BY <1>3, <1>4 DEF Chosen
<1>6. ASSUME NEW R, \A k \in DOMAIN held : held[k] \in R => k \in ks PROVE Keeps(held, held', R)
  BY <1>1, <1>2, <1>4, <1>6, KeepsChosen
<1> QED BY <1>5, <1>6

LEMMA ForgetOrder ==
  ASSUME RelayInv, RelayInv', Ordered, NEW p \in Peers, ForgetPeer(p)
  PROVE  Ordered'
<1>1. TypeOK /\ TypeOK'
  BY DEF RelayInv
<1>2. /\ session[p].at = "farewell" /\ session' = [session EXCEPT ![p] = Idle]
      /\ held' = Picked(held, {k \in DOMAIN held : held[k].peer # p})
      /\ UNCHANGED <<reg, owner, full, chan, engine, dirty, journal, conn, open, mine, synced, probe, acked, up, down>>
  BY DEF ForgetPeer, engines, windows
<1>3. session'[p].at = "free" /\ \A q \in Peers \ {p} : session'[q] = session[q]
  BY <1>1, <1>2 DEF TypeOK, Idle
<1>4. PICK ks : ks = {k \in DOMAIN held : held[k].peer # p}
  OBVIOUS
<1>5. /\ \A k \in DOMAIN held' : \E j \in DOMAIN held : held[j].peer # p /\ held'[k] = held[j]
      /\ \A R : (\A k \in DOMAIN held : held[k] \in R => held[k].peer # p) => Keeps(held, held', R)
  <2>1. held' = Picked(held, ks)
    BY <1>2, <1>4
  <2>2. /\ \A k \in DOMAIN held' : \E j \in DOMAIN held : j \in ks /\ held'[k] = held[j]
        /\ \A R : (\A k \in DOMAIN held : held[k] \in R => k \in ks) => Keeps(held, held', R)
    BY <1>1, <2>1, HeldPicked
  <2> QED BY <1>4, <2>2
<1>6. FramesInv'
  <2>1. \A k \in DOMAIN held' : OfDoc(held'[k].frame)
    BY <1>5 DEF Ordered, FramesInv
  <2>2. \A q \in Peers : session'[q].at = "holding" => OfDoc(session'[q].frame)
    BY <1>3 DEF Ordered, FramesInv
  <2> QED BY <1>2, <2>1, <2>2 DEF Ordered, FramesInv
<1>7. ClaimsInv'
  <2>1. \A k \in DOMAIN held' :
          held'[k].frame.doc \in Notes => owner[held'[k].frame.doc] = None /\ Cardinality(reg) # 1
    BY <1>5 DEF Ordered, ClaimsInv
  <2> QED BY <1>2, <2>1 DEF Ordered, ClaimsInv
<1>8. HeldInv'
  <2>1. ASSUME NEW k \in DOMAIN held', NEW q, NEW d, q = held'[k].peer, d = held'[k].frame.doc
        PROVE  HeldFor(q, d)'
    <3>1. PICK j \in DOMAIN held : held[j].peer # p /\ held'[k] = held[j]
      BY <1>5
    <3>2. q \in Peers \ {p} /\ HeldFor(q, d)
      BY <1>1, <2>1, <3>1, HeldTypes DEF Ordered, HeldInv
    <3> QED BY <1>2, <1>3, <3>2 DEF HeldFor, AboutToClaim
  <2>2. HeldInv' <=> \A k \in DOMAIN held' : HeldFor(held[k].peer, held[k].frame.doc)'
    BY DEF HeldInv
  <2> QED BY <2>1, <2>2
<1>9. ASSUME NEW q \in Peers, NEW d \in Docs, conn'[q[1]] = q PROVE LineInv(q, d)'
  <2>1. q # p
    BY <1>2, <1>9 DEF RelayInv, SessionInv, Live
  <2>2. SameWindow(q[1], d) /\ SameHolding(q, d)
    BY <1>2, <1>3, <2>1, PeerTypes, Untouched DEF SameHolding
  <2>3. (Whole(q, d)' => Whole(q, d)) /\ LineInv(q, d)
    BY <1>2 DEF Whole, Ordered
  <2>4. Keeps(held, held', Waiting(q, d))
    <3>1. \A k \in DOMAIN held : held[k] \in Waiting(q, d) => held[k].peer # p
      BY <2>1 DEF Waiting
    <3> QED BY <1>5, <3>1
  <2>5. /\ Keeps(down[q], down'[q], Answers(d)) /\ Keeps(up[q], up'[q], About(d))
        /\ Keeps(chan[VaultFor(d)], chan'[VaultFor(d)], Carried(q, d))
    BY <1>1, <1>2, LineTypes, KeepsSame
  <2> QED BY <1>1, <1>2, <1>9, <2>2, <2>3, <2>4, <2>5, LineKeeps
<1>10. \A q \in Peers, d \in Docs : LineInv(q, d)'
  BY <1>9 DEF LineInv
<1>11. AckedIsStored'
  BY <1>2 DEF Ordered, AckedIsStored
<1> QED BY <1>6, <1>7, <1>8, <1>10, <1>11 DEF Ordered

LEMMA UnlistOrder ==
  ASSUME RelayInv, RelayInv', Ordered, NEW p \in Peers, Unlist(p)
  PROVE  Ordered'
<1> DEFINE w == p[1]
<1>1. TypeOK /\ TypeOK' /\ w \in Windows
  BY PeerTypes DEF RelayInv
<1>2. /\ session[p].at = "open" /\ session' = [session EXCEPT ![p].at = "unlisted"]
      /\ full' = full \ {p} /\ up' = [up EXCEPT ![p] = <<>>] /\ down' = [down EXCEPT ![p] = <<>>]
      /\ conn' = [conn EXCEPT ![w] = None] /\ synced' = [synced EXCEPT ![w] = {}]
      /\ probe' = [probe EXCEPT ![w] = [d \in Docs |-> {}]]
      /\ UNCHANGED <<reg, owner, held, chan, engine, dirty, journal, open, mine, acked>>
  BY DEF Unlist, engines
<1>3. session'[p].at = "unlisted" /\ \A q \in Peers \ {p} : session'[q] = session[q]
  BY <1>1, <1>2 DEF TypeOK
<1>4. /\ conn'[w] = None
      /\ \A x \in Windows \ {w} : conn'[x] = conn[x] /\ synced'[x] = synced[x] /\ probe'[x] = probe[x]
      /\ up'[p] = <<>> /\ down'[p] = <<>> /\ \A q \in Peers \ {p} : down'[q] = down[q] /\ up'[q] = up[q]
  BY <1>1, <1>2 DEF TypeOK
<1>5. FramesInv'
  <2>1. \A q \in Peers :
          /\ \A k \in DOMAIN up'[q] : OfDoc(up'[q][k])
          /\ session'[q].at = "holding" => OfDoc(session'[q].frame)
          /\ \A k \in DOMAIN down'[q] : down'[q][k].ask => down'[q][k].items \subseteq journal[VaultFor(down'[q][k].doc)]
    BY <1>3, <1>4 DEF Ordered, FramesInv
  <2> QED BY <1>2, <2>1 DEF Ordered, FramesInv
<1>6. ClaimsInv'
  BY <1>2 DEF Ordered, ClaimsInv
<1>7. HeldInv'
  <2>1. ASSUME NEW q \in Peers, NEW d \in Docs, HeldFor(q, d) PROVE HeldFor(q, d)'
    <3>1. CASE q = p
      BY <1>3, <3>1 DEF HeldFor, Live
    <3>2. CASE q # p
      BY <1>2, <1>3, <2>1, <3>2 DEF HeldFor, AboutToClaim
    <3> QED BY <3>1, <3>2
  <2> QED BY <1>1, <1>2, <2>1, HeldStays DEF Ordered
<1>8. ASSUME NEW q \in Peers, NEW d \in Docs, conn'[q[1]] = q PROVE LineInv(q, d)'
  <2>1. q # p /\ q[1] \in Windows \ {w} /\ conn[q[1]] = q
    BY <1>4, <1>8, PeerTypes
  <2>2. SameWindow(q[1], d) /\ SameHolding(q, d)
    BY <1>2, <1>3, <1>4, <2>1, Untouched DEF SameHolding
  <2>3. (Whole(q, d)' => Whole(q, d)) /\ LineInv(q, d)
    BY <1>2, <2>1 DEF Whole, Ordered
  <2> QED BY <1>1, <1>2, <1>4, <2>1, <2>2, <2>3, LineSame
<1>9. \A q \in Peers, d \in Docs : LineInv(q, d)'
  BY <1>8 DEF LineInv
<1>10. AckedIsStored'
  BY <1>2 DEF Ordered, AckedIsStored
<1> QED BY <1>5, <1>6, <1>7, <1>9, <1>10 DEF Ordered

-----------------------------------------------------------------------------
(* Steps of engines *)

LEMMA StopOrder ==
  ASSUME RelayInv, RelayInv', Ordered, NEW v \in Vaults, Stop(v) \/ Renew(v)
  PROVE  Ordered'
<1>1. TypeOK /\ TypeOK' /\ reg \subseteq Vaults
  BY DEF RelayInv, TypeOK
<1>2. /\ UNCHANGED <<reg, owner, held, full, session, journal, conn, open, mine, synced, probe, acked, up, down>>
      /\ \/ engine' = [engine EXCEPT ![v] = "stopped"] /\ chan' = [chan EXCEPT ![v] = <<>>] /\ dirty' = [dirty EXCEPT ![v] = FALSE]
         \/ engine[v] = "stopped" /\ engine' = [engine EXCEPT ![v] = "renewed"] /\ UNCHANGED <<chan, dirty>>
  BY DEF Stop, Renew, relay, windows
<1>3. /\ engine'[v] \in {"stopped", "renewed"}
      /\ \A u \in Vaults \ {v} : engine'[u] = engine[u] /\ chan'[u] = chan[u] /\ dirty'[u] = dirty[u]
      /\ chan'[v] = <<>> \/ chan'[v] = chan[v]
  BY <1>1, <1>2 DEF TypeOK
<1>4. FramesInv'
  <2>1. ASSUME NEW u \in Vaults, NEW k \in DOMAIN chan'[u], chan'[u][k].kind \in {"frame", "released"}
        PROVE  OfDoc(chan'[u][k].frame) /\ VaultFor(chan'[u][k].frame.doc) = u
    <3>1. chan'[u] = chan[u]
      BY <1>3, <2>1
    <3> QED BY <2>1, <3>1 DEF Ordered, FramesInv
  <2> QED BY <1>2, <2>1 DEF Ordered, FramesInv
<1>5. ClaimsInv'
  BY <1>2 DEF Ordered, ClaimsInv
<1>6. HeldInv'
  <2>1. ASSUME NEW q \in Peers, NEW d \in Docs, HeldFor(q, d) PROVE HeldFor(q, d)'
    <3>1. CASE d = v
      BY <1>2, <1>3, <2>1, <3>1 DEF HeldFor
    <3>2. CASE d # v
      <4>1. d \in reg /\ AboutToClaim(d) => AboutToClaim(d)'
        BY <1>1, <1>3, <3>2 DEF AboutToClaim
      <4>2. d \in reg => engine'[d] = engine[d]
        BY <1>1, <1>3, <3>2
      <4> QED BY <1>2, <2>1, <4>1, <4>2 DEF HeldFor
    <3> QED BY <3>1, <3>2
  <2> QED BY <1>1, <1>2, <2>1, HeldStays DEF Ordered
<1>7. ASSUME NEW q \in Peers, NEW d \in Docs, conn'[q[1]] = q PROVE LineInv(q, d)'
  <2>1. SameWindow(q[1], d) /\ SameHolding(q, d) /\ LineInv(q, d) /\ conn[q[1]] = q
    BY <1>2, <1>7, PeerTypes, Untouched DEF SameHolding, Ordered
  <2>2. CASE VaultFor(d) = v
    <3>1. ~ Whole(q, d)'
      BY <1>3, <2>2 DEF Whole
    <3>2. \A x \in Place, f \in Frame : Stands(q, d, x, f)' => Stands(q, d, x, f)
      <4>1. \A k, kind, f : InChan(v, q, k, kind, f)' => InChan(v, q, k, kind, f)
        BY <1>3 DEF InChan
      <4> QED BY <1>2, <2>2, <4>1 DEF Stands
    <3> QED BY <1>2, <2>1, <3>1, <3>2, LineThins
  <2>3. CASE VaultFor(d) # v
    <3>1. VaultFor(d) \in Vaults \ {v}
      BY <1>1, <2>3, LineTypes
    <3>2. Whole(q, d)' => Whole(q, d)
      BY <1>2, <1>3, <3>1 DEF Whole
    <3> QED BY <1>1, <1>2, <1>3, <2>1, <3>1, <3>2, LineSame
  <2> QED BY <2>2, <2>3
<1>8. \A q \in Peers, d \in Docs : LineInv(q, d)'
  BY <1>7 DEF LineInv
<1>9. AckedIsStored'
  BY <1>2 DEF Ordered, AckedIsStored
<1> QED BY <1>4, <1>5, <1>6, <1>8, <1>9 DEF Ordered

LEMMA RestartOrder ==
  ASSUME RelayInv, RelayInv', Ordered, NEW v \in Vaults, Restart(v)
  PROVE  Ordered'
<1>1. TypeOK /\ TypeOK' /\ reg \subseteq Vaults
  BY DEF RelayInv, TypeOK
<1>2. /\ UNCHANGED <<reg, owner, held, listed, session, chan, journal, conn, open, mine, synced, probe, acked, up, down>>
      /\ full' = full \cup listed /\ engine' = [engine EXCEPT ![v] = "new"] /\ dirty' = [dirty EXCEPT ![v] = TRUE]
  BY DEF Restart, windows
<1>3. \A u \in Vaults \ {v} : engine'[u] = engine[u] /\ dirty'[u] = dirty[u]
  BY <1>1, <1>2 DEF TypeOK
<1>4. FramesInv'
  BY <1>2 DEF Ordered, FramesInv
<1>5. ClaimsInv'
  BY <1>2 DEF Ordered, ClaimsInv
<1>6. HeldInv'
  <2>1. ASSUME NEW q \in Peers, NEW d \in Docs, HeldFor(q, d) PROVE HeldFor(q, d)'
    <3>1. session[q].at \in Live => q \in full'
      BY <1>2 DEF RelayInv, SessionInv
    <3> QED BY <1>2, <2>1, <3>1 DEF HeldFor
  <2> QED BY <1>1, <1>2, <2>1, HeldStays DEF Ordered
<1>7. ASSUME NEW q \in Peers, NEW d \in Docs, conn'[q[1]] = q PROVE LineInv(q, d)'
  <2>1. SameWindow(q[1], d) /\ SameHolding(q, d) /\ LineInv(q, d) /\ conn[q[1]] = q
    BY <1>2, <1>7, PeerTypes, Untouched DEF SameHolding, Ordered
  <2>2. ~ (Whole(q, d)' /\ d \in synced[q[1]])
    <3>1. SessionInv(q)
      BY DEF RelayInv
    <3> QED BY <1>2, <2>1, <3>1 DEF SessionInv, Whole
  <2> QED BY <1>1, <1>2, <2>1, <2>2, LineSame
<1>8. \A q \in Peers, d \in Docs : LineInv(q, d)'
  BY <1>7 DEF LineInv
<1>9. AckedIsStored'
  BY <1>2 DEF Ordered, AckedIsStored
<1> QED BY <1>4, <1>5, <1>6, <1>8, <1>9 DEF Ordered

\* What is left in a channel was there before.
LEMMA TailFrames ==
  ASSUME TypeOK, TypeOK', NEW v \in Vaults, chan[v] # <<>>, chan' = [chan EXCEPT ![v] = Tail(@)]
  PROVE  /\ \A u \in Vaults \ {v} : chan'[u] = chan[u]
         /\ Head(chan[v]) \in Event /\ chan'[v] = Tail(chan[v]) /\ 1 \in DOMAIN chan[v] /\ Head(chan[v]) = chan[v][1]
         /\ \A u \in Vaults : \A k \in DOMAIN chan'[u] : \E j \in DOMAIN chan[u] : chan'[u][k] = chan[u][j]
         /\ \A R : Head(chan[v]) \notin R => Keeps(chan[v], chan'[v], R)
<1>1. chan[v] \in Seq(Event) /\ chan'[v] = Tail(chan[v]) /\ \A u \in Vaults \ {v} : chan'[u] = chan[u]
  BY DEF TypeOK
<1>2. Head(chan[v]) \in Event /\ 1 \in DOMAIN chan[v] /\ Head(chan[v]) = chan[v][1]
  BY <1>1, QueueType
<1>3. \A k \in DOMAIN chan'[v] : \E j \in DOMAIN chan[v] : chan'[v][k] = chan[v][j]
  BY <1>1, QueueType
<1>4. \A R : Head(chan[v]) \notin R => Keeps(chan[v], chan'[v], R)
  BY <1>1, KeepsTail
<1> QED BY <1>1, <1>2, <1>3, <1>4

LEMMA HearOrder ==
  ASSUME RelayInv, RelayInv', Ordered, NEW v \in Vaults, HearOfPeer(v)
  PROVE  Ordered'
<1>1. TypeOK /\ TypeOK' /\ reg \subseteq Vaults
  BY DEF RelayInv, TypeOK
<1>2. /\ UNCHANGED <<reg, owner, held, full, session, dirty, journal, conn, open, mine, synced, probe, acked, up, down>>
      /\ Listens(v) /\ chan[v] # <<>> /\ Head(chan[v]).kind \in {"connected", "gone"} /\ Busy(v)
      /\ chan' = [chan EXCEPT ![v] = Tail(@)]
  BY DEF HearOfPeer, relay, windows
<1>3. engine'[v] = "running" /\ \A u \in Vaults \ {v} : engine'[u] = engine[u]
  BY <1>1, <1>2 DEF TypeOK, Busy
<1>4. /\ \A u \in Vaults \ {v} : chan'[u] = chan[u]
      /\ \A u \in Vaults : \A k \in DOMAIN chan'[u] : \E j \in DOMAIN chan[u] : chan'[u][k] = chan[u][j]
      /\ \A R : Head(chan[v]) \notin R => Keeps(chan[v], chan'[v], R)
  BY <1>1, <1>2, TailFrames
<1>5. FramesInv'
  <2>1. \A u \in Vaults : \A k \in DOMAIN chan'[u] : chan'[u][k].kind \in {"frame", "released"} =>
          OfDoc(chan'[u][k].frame) /\ VaultFor(chan'[u][k].frame.doc) = u
    BY <1>4 DEF Ordered, FramesInv
  <2> QED BY <1>2, <2>1 DEF Ordered, FramesInv
<1>6. ClaimsInv'
  BY <1>2 DEF Ordered, ClaimsInv
<1>7. HeldInv'
  <2>1. ASSUME NEW q \in Peers, NEW d \in Docs, HeldFor(q, d) PROVE HeldFor(q, d)'
    <3>1. CASE d = v
      <4>1. AboutToClaim(v) => AboutToClaim(v)'
        BY <1>2, <1>3 DEF AboutToClaim
      <4>2. engine[v] \notin {"stopped", "renewed"}
        BY <1>2 DEF Listens
      <4> QED BY <1>2, <2>1, <3>1, <4>1, <4>2 DEF HeldFor
    <3>2. CASE d # v
      <4>1. d \in reg => d \in Vaults \ {v}
        BY <1>1, <3>2
      <4>2. d \in reg /\ AboutToClaim(d) => AboutToClaim(d)'
        BY <1>2, <1>3, <1>4, <4>1 DEF AboutToClaim
      <4>3. d \in reg => engine'[d] = engine[d]
        BY <1>3, <4>1
      <4> QED BY <1>2, <2>1, <4>2, <4>3 DEF HeldFor
    <3> QED BY <3>1, <3>2
  <2> QED BY <1>1, <1>2, <2>1, HeldStays DEF Ordered
<1>8. ASSUME NEW q \in Peers, NEW d \in Docs, conn'[q[1]] = q PROVE LineInv(q, d)'
  <2>1. SameWindow(q[1], d) /\ SameHolding(q, d) /\ LineInv(q, d) /\ conn[q[1]] = q
    BY <1>2, <1>8, PeerTypes, Untouched DEF SameHolding, Ordered
  <2>2. Whole(q, d)' => Whole(q, d)
    <3>1. VaultFor(d) \in Vaults
      BY <1>1, LineTypes
    <3> QED BY <1>2, <1>3, <3>1 DEF Whole, Listens
  <2>3. Keeps(chan[VaultFor(d)], chan'[VaultFor(d)], Carried(q, d))
    <3>1. CASE VaultFor(d) = v
      <4>1. Head(chan[v]) \notin Carried(q, d)
        BY <1>2 DEF Carried
      <4> QED BY <1>4, <3>1, <4>1
    <3>2. CASE VaultFor(d) # v
      BY <1>1, <1>4, <3>2, LineTypes, KeepsSame
    <3> QED BY <3>1, <3>2
  <2>4. Keeps(down[q], down'[q], Answers(d)) /\ Keeps(held, held', Waiting(q, d)) /\ Keeps(up[q], up'[q], About(d))
    BY <1>1, <1>2, LineTypes, KeepsSame
  <2> QED BY <1>1, <1>2, <2>1, <2>2, <2>3, <2>4, LineKeeps
<1>9. \A q \in Peers, d \in Docs : LineInv(q, d)'
  BY <1>8 DEF LineInv
<1>10. AckedIsStored'
  BY <1>2 DEF Ordered, AckedIsStored
<1> QED BY <1>5, <1>6, <1>7, <1>9, <1>10 DEF Ordered

LEMMA OpenOrder ==
  ASSUME RelayInv, RelayInv', Ordered, NEW v \in Vaults, OpenVault(v)
  PROVE  Ordered'
<1>1. TypeOK /\ TypeOK' /\ reg \subseteq Vaults
  BY DEF RelayInv, TypeOK
<1>2. UNCHANGED <<owner, held, listed, full, session, journal, conn, open, mine, synced, probe, acked, up, down>>
  BY DEF OpenVault, windows
<1>3. AckedIsStored'
  BY <1>2 DEF Ordered, AckedIsStored
<1>4. CASE v \in reg
  <2>1. UNCHANGED <<reg, engine, dirty, chan>>
    BY <1>4 DEF OpenVault
  <2>2. FramesInv' /\ ClaimsInv' /\ HeldInv'
    BY <1>2, <2>1 DEF Ordered, FramesInv, ClaimsInv, HeldInv, HeldFor, AboutToClaim
  <2>3. ASSUME NEW q \in Peers, NEW d \in Docs, conn'[q[1]] = q PROVE LineInv(q, d)'
    <3>1. SameWindow(q[1], d) /\ SameHolding(q, d) /\ LineInv(q, d) /\ conn[q[1]] = q
      BY <1>2, <2>3, PeerTypes, Untouched DEF SameHolding, Ordered
    <3>2. Whole(q, d)' => Whole(q, d)
      BY <1>2, <2>1 DEF Whole
    <3> QED BY <1>1, <1>2, <2>1, <3>1, <3>2, LineSame
  <2>4. \A q \in Peers, d \in Docs : LineInv(q, d)'
    BY <2>3 DEF LineInv
  <2> QED BY <1>3, <2>2, <2>4 DEF Ordered
<1>5. CASE v \notin reg
  <2>1. /\ \A u \in Vaults \ {v} : chan'[u] = chan[u]
        /\ \A k \in DOMAIN chan'[v] : chan'[v][k].kind = "connected"
        /\ \A p \in listed : \E k \in DOMAIN chan'[v] : chan'[v][k].kind = "connected" /\ chan'[v][k].peer = p
        /\ reg' = reg \cup {v} /\ engine' = [engine EXCEPT ![v] = "new"] /\ dirty' = [dirty EXCEPT ![v] = TRUE]
    BY <1>1, <1>5, OpensVault DEF RelayInv
  <2>2. /\ engine'[v] = "new" /\ dirty'[v]
        /\ \A u \in Vaults \ {v} : engine'[u] = engine[u] /\ dirty'[u] = dirty[u]
    BY <1>1, <2>1 DEF TypeOK
  <2>3. engine[v] = "none" /\ chan[v] = <<>>
    BY <1>5 DEF RelayInv, EngineInv
  <2>4. FramesInv'
    <3>1. ASSUME NEW u \in Vaults, NEW k \in DOMAIN chan'[u], chan'[u][k].kind \in {"frame", "released"}
          PROVE  OfDoc(chan'[u][k].frame) /\ VaultFor(chan'[u][k].frame.doc) = u
      <4>1. u # v
        BY <2>1, <3>1
      <4>2. chan'[u] = chan[u]
        BY <2>1, <4>1
      <4> QED BY <3>1, <4>2 DEF Ordered, FramesInv
    <3> QED BY <1>2, <3>1 DEF Ordered, FramesInv
  <2>5. ClaimsInv'
    <3>1. Cardinality(reg') # 1
      <4>1. IsFiniteSet(reg) /\ reg # {}
        BY DEF RelayInv
      <4>2. Cardinality(reg) \in Nat /\ Cardinality(reg) # 0 /\ Cardinality(reg') = Cardinality(reg) + 1
        BY <1>5, <2>1, <4>1, FS_AddElement, FS_EmptySet, FS_CardinalityType
      <4> QED BY <4>2
    <3> QED BY <1>2, <2>1, <3>1 DEF Ordered, ClaimsInv
  <2>6. HeldInv'
    <3>1. ASSUME NEW q \in Peers, NEW d \in Docs, HeldFor(q, d) PROVE HeldFor(q, d)'
      <4>1. CASE d = v
        <5>1. ASSUME q \in listed PROVE AboutToClaim(v)'
          <6>1. PICK k \in DOMAIN chan'[v] : chan'[v][k].kind = "connected" /\ chan'[v][k].peer = q
            BY <2>1, <5>1
          <6>2. chan'[v] \in Seq(Event)
            BY <1>1 DEF TypeOK
          <6>3. chan'[v] # <<>>
            BY <6>1, <6>2
          <6>4. Head(chan'[v]) = chan'[v][1] /\ 1 \in DOMAIN chan'[v]
            BY <6>2, <6>3, QueueType
          <6> QED BY <2>1, <2>2, <6>3, <6>4 DEF AboutToClaim
        <5>2. session[q].at \in Live => q \in listed
          BY DEF RelayInv, SessionInv
        <5> QED BY <1>2, <3>1, <4>1, <5>1, <5>2 DEF HeldFor
      <4>2. CASE d # v
        <5>1. d \in reg' => d \in reg /\ d \in Vaults \ {v}
          BY <1>1, <2>1, <4>2
        <5>2. d \in reg /\ AboutToClaim(d) => AboutToClaim(d)'
          BY <1>1, <2>1, <2>2, <4>2 DEF AboutToClaim
        <5>3. d \in reg => engine'[d] = engine[d]
          BY <1>1, <2>2, <4>2
        <5> QED BY <1>2, <3>1, <5>1, <5>2, <5>3 DEF HeldFor
      <4> QED BY <4>1, <4>2
    <3> QED BY <1>1, <1>2, <3>1, HeldStays DEF Ordered
  <2>7. ASSUME NEW q \in Peers, NEW d \in Docs, conn'[q[1]] = q PROVE LineInv(q, d)'
    <3>1. SameWindow(q[1], d) /\ SameHolding(q, d) /\ LineInv(q, d) /\ conn[q[1]] = q
      BY <1>2, <2>7, PeerTypes, Untouched DEF SameHolding, Ordered
    <3>2. Whole(q, d)' => Whole(q, d)
      <4>1. VaultFor(d) \in Vaults
        BY <1>1, LineTypes
      <4> QED BY <1>2, <2>2, <2>3, <4>1 DEF Whole
    <3>3. Keeps(chan[VaultFor(d)], chan'[VaultFor(d)], Carried(q, d))
      <4>1. CASE VaultFor(d) = v
        <5>1. chan'[v] \in Seq(Event)
          BY <1>1 DEF TypeOK
        <5>2. \A k \in 1 .. Len(chan'[v]) : chan'[v][k] \notin Carried(q, d)
          <6>1. DOMAIN chan'[v] = 1 .. Len(chan'[v])
            BY <5>1
          <6> QED BY <2>1, <6>1 DEF Carried
        <5>3. <<>> \in Seq(Event) /\ <<>> \o chan'[v] = chan'[v]
          BY <5>1
        <5>4. Keeps(<<>>, <<>> \o chan'[v], Carried(q, d))
          BY ONLY <5>1, <5>2, <5>3, KeepsMore
        <5> QED BY <2>3, <4>1, <5>3, <5>4
      <4>2. CASE VaultFor(d) # v
        BY <1>1, <2>1, <4>2, LineTypes, KeepsSame
      <4> QED BY <4>1, <4>2
    <3>4. Keeps(down[q], down'[q], Answers(d)) /\ Keeps(held, held', Waiting(q, d)) /\ Keeps(up[q], up'[q], About(d))
      BY <1>1, <1>2, LineTypes, KeepsSame
    <3> QED BY <1>1, <1>2, <3>1, <3>2, <3>3, <3>4, LineKeeps
  <2>8. \A q \in Peers, d \in Docs : LineInv(q, d)'
    BY <2>7 DEF LineInv
  <2> QED BY <1>3, <2>4, <2>5, <2>6, <2>8 DEF Ordered
<1> QED BY <1>4, <1>5

\* The first frame of a queue of a window goes to the place `to`.
Moved(x, n) == IF x[1] = 5 THEN <<5, x[2] + n>> ELSE x

LEMMA LineJumps ==
  ASSUME NEW p \in Peers, NEW d \in Docs, NEW n \in {0, 1}, NEW from \in Place, NEW to \in Place,
         RelayInv, LineInv(p, d), conn[p[1]] = p, SameWindow(p[1], d),
         journal[VaultFor(d)] \subseteq journal'[VaultFor(d)],
         to[1] \in 1 .. 4, Before(to, from),
         \A f \in Frame : Stands(p, d, to, f)' => Stands(p, d, from, f),
         \A x \in Place, f \in Frame : Stands(p, d, x, f)' /\ x # to =>
           Stands(p, d, Moved(x, n), f) /\ (Before(to, x) => Before(from, Moved(x, n))),
         Whole(p, d)' /\ d \in synced[p[1]] =>
           /\ Whole(p, d)
           /\ \A y \in Place, f \in Frame : Stands(p, d, y, f) /\ y[1] > 0 =>
                \/ y = from /\ Stands(p, d, to, f)'
                \/ \E z \in Place : z # to /\ z[1] > 0 /\ Stands(p, d, z, f)' /\ Moved(z, n) = y
  PROVE  LineInv(p, d)'
<1> DEFINE m == [x \in Place |-> IF x = to THEN from ELSE Moved(x, n)]
<1>1. m[to] = from /\ \A x \in Place : x # to => m[x] = Moved(x, n)
  OBVIOUS
<1> HIDE DEF m
<1>2. \A x \in Place : x[1] \in 0 .. 5 /\ x[2] \in Nat /\ x = <<x[1], x[2]>>
  BY DEF Place
<1>3. \A x \in Place : Moved(x, n) \in Place /\ Moved(x, n)[1] = x[1]
  BY <1>2 DEF Moved, Place
<1>4. ASSUME NEW x \in Place, NEW f \in Frame, Stands(p, d, x, f)', f.ask
      PROVE  m[x] \in Place /\ Stands(p, d, m[x], f) /\ (x[1] = 0 => m[x][1] = 0)
  <2>1. CASE x = to
    BY <1>1, <1>4, <2>1
  <2>2. CASE x # to
    BY <1>1, <1>3, <1>4, <2>2
  <2> QED BY <2>1, <2>2
<1>5. ASSUME NEW x \in Place, NEW y \in Place, NEW f \in Frame, NEW g \in Frame,
             Stands(p, d, x, f)', Stands(p, d, y, g)', Before(x, y)
      PROVE  Before(m[x], m[y])
  <2>1. CASE x = to
    <3>1. y # to
      BY <1>5, <2>1, BeforeIsOrder
    <3> QED BY <1>1, <1>5, <2>1, <3>1
  <2>2. CASE y = to
    <3>1. x # to /\ x[1] # 5
      BY <1>2, <1>5, <2>2 DEF Before
    <3>2. m[x] = x /\ m[y] = from
      BY <1>1, <2>2, <3>1 DEF Moved
    <3> QED BY <1>5, <2>2, <3>2, BeforeIsOrder
  <2>3. CASE x # to /\ y # to
    <3>1. m[x] = Moved(x, n) /\ m[y] = Moved(y, n)
      BY <1>1, <2>3
    <3>2. x[1] \in Nat /\ y[1] \in Nat /\ x[2] \in Nat /\ y[2] \in Nat /\ n \in Nat
      BY <1>2
    <3> QED BY <1>5, <3>1, <3>2 DEF Before, Moved
  <2> QED BY <2>1, <2>2, <2>3
<1>6. ASSUME Whole(p, d)' /\ d \in synced[p[1]], NEW y \in Place, NEW f \in Frame, Stands(p, d, y, f), y[1] > 0
      PROVE  \E z \in Place : z[1] > 0 /\ Stands(p, d, z, f)' /\ m[z] = y
  <2>1. CASE y = from /\ Stands(p, d, to, f)'
    BY <1>1, <1>2, <2>1
  <2>2. CASE \E z \in Place : z # to /\ z[1] > 0 /\ Stands(p, d, z, f)' /\ Moved(z, n) = y
    BY <1>1, <2>2
  <2> QED BY <1>6, <2>1, <2>2
<1>7. Whole(p, d)' /\ d \in synced[p[1]] =>
        /\ Whole(p, d)
        /\ \A y \in Place, f \in Frame : Stands(p, d, y, f) /\ y[1] > 0 =>
             \E z \in Place : z[1] > 0 /\ Stands(p, d, z, f)' /\ m[z] = y
  BY <1>6
<1> QED BY <1>4, <1>5, <1>7, LineShifts

\* The vault a frame goes to, as long as nothing was missed.
LEMMA TargetIs ==
  ASSUME RelayInv, ClaimsInv, NEW d \in Docs, Target(d) # None, d \in Notes => Target(d) = Home[d]
  PROVE  Target(d) = VaultFor(d) /\ VaultFor(d) \in reg /\ (d \in Notes => owner[d] # None \/ Cardinality(reg) = 1)
<1>1. reg # {}
  BY DEF RelayInv
<1>2. CASE d \in Vaults
  BY <1>2, RelayAssumption DEF Target, VaultFor
<1>3. CASE d \notin Vaults
  <2>1. d \in Notes
    BY <1>3 DEF Docs
  <2>2. owner[d] # None \/ Cardinality(reg) = 1
    BY <1>3 DEF Target
  <2>3. owner[d] # None => Home[d] \in reg
    BY <2>1 DEF ClaimsInv
  <2>4. owner[d] = None => Target(d) \in reg
    BY <1>1, <1>3, <2>2 DEF Target
  <2> QED BY <1>3, <2>1, <2>2, <2>3, <2>4 DEF VaultFor
<1> QED BY <1>2, <1>3

\* The frame a window sends, in its own line.
Sends(p, d, f) ==
  /\ f.doc = d /\ up[p] # <<>> /\ f = up[p][1] /\ up'[p] = Tail(up[p]) /\ session[p].at = "open"
  /\ conn[p[1]] = p /\ SameWindow(p[1], d)
  /\ UNCHANGED <<held, full, engine, journal, down>>
  /\ \/ session'[p].at = "holding" /\ session'[p].frame = f /\ chan'[VaultFor(d)] = chan[VaultFor(d)]
     \/ /\ session'[p].at = "open" /\ VaultFor(d) \in reg
        /\ \A k \in DOMAIN held : held[k].frame.doc = d => d \notin Notes
        /\ chan'[VaultFor(d)] = IF engine[VaultFor(d)] \in {"new", "running", "renewed"}
                                   THEN Append(chan[VaultFor(d)], [kind |-> "frame", peer |-> p, frame |-> f])
                                   ELSE chan[VaultFor(d)]

LEMMA RouteLine ==
  ASSUME RelayInv, TypeOK', Ordered, NEW p \in Peers, NEW d \in Docs, NEW f \in Frame, Sends(p, d, f)
  PROVE  LineInv(p, d)'
<1>0. /\ f.doc = d /\ up[p] # <<>> /\ f = up[p][1] /\ up'[p] = Tail(up[p]) /\ session[p].at = "open"
      /\ conn[p[1]] = p /\ SameWindow(p[1], d)
      /\ UNCHANGED <<held, full, engine, journal, down>>
  BY DEF Sends
<1>1. TypeOK /\ VaultFor(d) \in Vaults /\ chan[VaultFor(d)] \in Seq(Event) /\ up[p] \in Seq(Frame) /\ LineInv(p, d)
  BY LineTypes DEF RelayInv, Ordered
<1>2. PICK V : V = VaultFor(d)
  OBVIOUS
<1>3. PICK n : n = Len(chan[V]) + 1
  OBVIOUS
<1>4. n \in Nat \ {0} /\ DOMAIN chan[V] = 1 .. n - 1
  BY <1>1, <1>2, <1>3
<1>5. /\ \A x \in Place : x[1] \in 0 .. 5 /\ x[2] \in Nat /\ x = <<x[1], x[2]>>
      /\ \A j \in 0 .. 5, k \in Nat : <<j, k>> \in Place /\ <<j, k>>[1] = j /\ <<j, k>>[2] = k
  BY DEF Place
<1>6. /\ \A k \in Nat : k \in DOMAIN up'[p] <=> k # 0 /\ k + 1 \in DOMAIN up[p]
      /\ \A k \in DOMAIN up'[p] : up'[p][k] = up[p][k + 1]
      /\ DOMAIN up[p] \subseteq Nat \ {0} /\ 1 \in DOMAIN up[p]
  BY <1>0, <1>1
<1>7. \A x \in Place, g \in Frame : x[1] = 5 /\ Stands(p, d, x, g)' =>
        Stands(p, d, Moved(x, 1), g) /\ Before(<<5, 1>>, Moved(x, 1))
  <2> TAKE x \in Place, g \in Frame
  <2> HAVE x[1] = 5 /\ Stands(p, d, x, g)'
  <2>1. g.doc = d /\ x[2] \in DOMAIN up'[p] /\ up'[p][x[2]] = g
    BY DEF Stands, SentAt, HeldAt
  <2>2. Moved(x, 1) = <<5, x[2] + 1>> /\ x[2] \in Nat \ {0} /\ <<5, x[2] + 1>> \in Place
    BY <1>5, <1>6, <2>1 DEF Moved
  <2>3. Stands(p, d, <<5, x[2] + 1>>, g)
    BY <1>6, <2>1, <2>2 DEF Stands
  <2> QED BY <2>2, <2>3 DEF Before
<1>8. \A y \in Place, g \in Frame : y[1] = 5 /\ Stands(p, d, y, g) /\ y # <<5, 1>> =>
        \E z \in Place : z[1] = 5 /\ Stands(p, d, z, g)' /\ Moved(z, 1) = y
  <2> TAKE y \in Place, g \in Frame
  <2> HAVE y[1] = 5 /\ Stands(p, d, y, g) /\ y # <<5, 1>>
  <2>1. g.doc = d /\ y[2] \in DOMAIN up[p] /\ up[p][y[2]] = g
    BY DEF Stands, SentAt, HeldAt
  <2>2. y[2] \in Nat \ {0, 1} /\ <<5, y[2] - 1>> \in Place /\ y[2] - 1 \in DOMAIN up'[p] /\ (y[2] - 1) + 1 = y[2]
    BY <1>5, <1>6, <2>1
  <2>3. Stands(p, d, <<5, y[2] - 1>>, g)'
    BY <1>6, <2>1, <2>2 DEF Stands
  <2>4. Moved(<<5, y[2] - 1>>, 1) = y
    BY <1>5, <2>2 DEF Moved
  <2> QED BY <1>5, <2>2, <2>3, <2>4
<1>9. <<5, 1>> \in Place /\ Stands(p, d, <<5, 1>>, f) /\ \A g \in Frame : Stands(p, d, <<5, 1>>, g) => g = f
  BY <1>0, <1>5, <1>6 DEF Stands, SentAt, HeldAt
<1>10. ASSUME session'[p].at = "holding", session'[p].frame = f, chan'[V] = chan[V] PROVE LineInv(p, d)'
  <2>1. <<4, 1>> \in Place /\ <<4, 1>>[1] \in 1 .. 4 /\ Before(<<4, 1>>, <<5, 1>>)
    BY <1>5 DEF Before
  <2>2. \A g \in Frame : Stands(p, d, <<4, 1>>, g)' <=> g = f
    BY <1>0, <1>10 DEF Stands, SentAt, HeldAt
  <2>3. \A x \in Place, g \in Frame : x[1] \notin {4, 5} => (Stands(p, d, x, g)' <=> Stands(p, d, x, g))
    BY <1>0, <1>2, <1>10 DEF Stands, SentAt, HeldAt, InChan
  <2>4. ASSUME NEW x \in Place, NEW g \in Frame, Stands(p, d, x, g)', x # <<4, 1>>
        PROVE  Stands(p, d, Moved(x, 1), g) /\ (Before(<<4, 1>>, x) => Before(<<5, 1>>, Moved(x, 1)))
    <3>1. CASE x[1] = 5
      BY <1>7, <2>4, <3>1
    <3>2. x[1] # 4
      BY <1>5, <2>4 DEF Stands, SentAt, HeldAt
    <3>3. CASE x[1] \notin {4, 5}
      BY <1>5, <2>3, <2>4, <3>3 DEF Moved, Before
    <3> QED BY <3>1, <3>2, <3>3
  <2>5. ASSUME NEW y \in Place, NEW g \in Frame, Stands(p, d, y, g), y[1] > 0
        PROVE  \/ y = <<5, 1>> /\ Stands(p, d, <<4, 1>>, g)'
               \/ \E z \in Place : z # <<4, 1>> /\ z[1] > 0 /\ Stands(p, d, z, g)' /\ Moved(z, 1) = y
    <3>1. CASE y = <<5, 1>>
      BY <1>9, <2>2, <2>5, <3>1
    <3>2. CASE y[1] = 5 /\ y # <<5, 1>>
      <4>1. PICK z \in Place : z[1] = 5 /\ Stands(p, d, z, g)' /\ Moved(z, 1) = y
        BY <1>8, <2>5, <3>2
      <4>2. z # <<4, 1>>
        BY <4>1
      <4> QED BY <4>1, <4>2
    <3>3. y[1] # 4
      BY <1>0, <2>5 DEF Stands, SentAt, HeldAt
    <3>4. CASE y[1] \notin {4, 5}
      <4>1. y # <<4, 1>> /\ Stands(p, d, y, g)' /\ Moved(y, 1) = y
        BY <2>3, <2>5, <3>4 DEF Moved
      <4> QED BY <2>5, <4>1
    <3> QED BY <3>1, <3>2, <3>3, <3>4
  <2>6. Whole(p, d)' => Whole(p, d)
    BY <1>0 DEF Whole
  <2>7. 1 \in {0, 1} /\ journal[VaultFor(d)] \subseteq journal'[VaultFor(d)]
    BY <1>0
  <2> QED BY ONLY RelayInv, <1>0, p \in Peers, d \in Docs,
             <1>1, <1>9, <2>1, <2>2, <2>4, <2>5, <2>6, <2>7, LineJumps
<1>11. ASSUME session'[p].at = "open", V \in reg, \A k \in DOMAIN held : held[k].frame.doc = d => d \notin Notes,
              chan'[V] = IF engine[V] \in {"new", "running", "renewed"}
                           THEN Append(chan[V], [kind |-> "frame", peer |-> p, frame |-> f]) ELSE chan[V]
       PROVE  LineInv(p, d)'
  <2>1. PICK to : to = <<SentAt(d), n>>
    OBVIOUS
  <2>2. SentAt(d) \in {2, 3} /\ HeldAt(d) \in {2, 3} /\ SentAt(d) # HeldAt(d)
    BY DEF SentAt, HeldAt
  <2>3. to \in Place /\ to[1] = SentAt(d) /\ to[2] = n /\ to[1] \in 1 .. 4 /\ Before(to, <<5, 1>>)
    BY <1>4, <1>5, <2>1, <2>2 DEF Before
  <2>4. /\ \A k \in 1 .. n - 1 : k \in DOMAIN chan'[V] /\ chan'[V][k] = chan[V][k]
        /\ \A k \in DOMAIN chan'[V] : k \in 1 .. n - 1 \/ (k = n /\ chan'[V][k] = [kind |-> "frame", peer |-> p, frame |-> f])
        /\ engine[V] \in {"new", "running"} => n \in DOMAIN chan'[V]
    BY <1>1, <1>2, <1>3, <1>4, <1>11
  <2>5. ASSUME NEW k, NEW kind \in {"frame", "released"}, NEW g, InChan(V, p, k, kind, g)'
        PROVE  InChan(V, p, k, kind, g) \/ (k = n /\ kind = "frame" /\ g = f)
    <3>1. k \in DOMAIN chan'[V] /\ chan'[V][k].kind = kind /\ chan'[V][k].peer = p /\ chan'[V][k].frame = g
      BY <2>5 DEF InChan
    <3> QED BY <1>4, <2>4, <3>1 DEF InChan
  <2>6. ASSUME NEW k, NEW kind, NEW g, InChan(V, p, k, kind, g)
        PROVE  InChan(V, p, k, kind, g)' /\ k \in 1 .. n - 1
    <3>1. k \in DOMAIN chan[V] /\ chan[V][k].kind = kind /\ chan[V][k].peer = p /\ chan[V][k].frame = g
      BY <2>6 DEF InChan
    <3> QED BY <1>4, <2>4, <3>1 DEF InChan
  <2>7. ASSUME NEW g \in Frame, Stands(p, d, to, g)' PROVE g = f
    <3>1. InChan(V, p, n, "frame", g)'
      BY <1>2, <2>3, <2>7 DEF Stands, SentAt, HeldAt
    <3>2. ~ InChan(V, p, n, "frame", g)
      BY <1>4, <2>6
    <3> QED BY <2>5, <3>1, <3>2
  <2>8. ASSUME NEW x \in Place, NEW g \in Frame, Stands(p, d, x, g)', x # to
        PROVE  Stands(p, d, Moved(x, 1), g) /\ (Before(to, x) => Before(<<5, 1>>, Moved(x, 1)))
    <3>1. CASE x[1] = 5
      BY <1>7, <2>8, <3>1
    <3>2. CASE x[1] # 5
      <4>1. Moved(x, 1) = x
        BY <3>2 DEF Moved
      <4>2. x[1] # 4
        BY <1>11, <2>8 DEF Stands, SentAt, HeldAt
      <4>3. CASE x[1] = 0
        <5>1. Stands(p, d, x, g)
          BY <1>0, <2>8, <4>3 DEF Stands, SentAt, HeldAt
        <5> QED BY <2>2, <2>3, <4>1, <4>3, <5>1 DEF Before
      <4>4. CASE x[1] = 1
        <5>1. InChan(V, p, x[2], "released", g)' /\ g.doc = d
          BY <1>2, <2>8, <4>4 DEF Stands, SentAt, HeldAt
        <5>2. InChan(V, p, x[2], "released", g)
          BY <2>5, <5>1
        <5>3. Stands(p, d, x, g)
          BY <1>2, <4>4, <5>1, <5>2 DEF Stands, SentAt, HeldAt
        <5> QED BY <2>2, <2>3, <4>1, <4>4, <5>3 DEF Before
      <4>5. CASE x[1] = SentAt(d)
        <5>1. InChan(V, p, x[2], "frame", g)' /\ g.doc = d
          BY <1>2, <2>8, <4>5 DEF Stands, SentAt, HeldAt
        <5>2. x[2] # n
          BY <1>5, <2>1, <2>8, <4>5
        <5>3. InChan(V, p, x[2], "frame", g) /\ x[2] \in 1 .. n - 1
          BY <2>5, <2>6, <5>1, <5>2
        <5>4. Stands(p, d, x, g)
          BY <1>2, <4>5, <5>1, <5>3 DEF Stands, SentAt, HeldAt
        <5>5. ~ Before(to, x)
          BY <1>4, <2>2, <2>3, <4>5, <5>3 DEF Before
        <5> QED BY <4>1, <5>4, <5>5
      <4>6. CASE x[1] = HeldAt(d)
        <5>1. Stands(p, d, x, g) /\ x[2] \in DOMAIN held /\ held[x[2]] = [peer |-> p, frame |-> g] /\ g.doc = d
          BY <1>0, <2>8, <4>6 DEF Stands, SentAt, HeldAt
        <5>2. d \notin Notes
          BY <1>11, <5>1
        <5>3. ~ Before(to, x)
          BY <2>3, <4>6, <5>2 DEF Before, SentAt, HeldAt, Docs
        <5> QED BY <4>1, <5>1, <5>3
      <4> QED BY <1>5, <2>2, <3>2, <4>2, <4>3, <4>4, <4>5, <4>6
    <3> QED BY <3>1, <3>2
  <2>9. ASSUME Whole(p, d)', NEW y \in Place, NEW g \in Frame, Stands(p, d, y, g), y[1] > 0
        PROVE  \/ y = <<5, 1>> /\ Stands(p, d, to, g)'
               \/ \E z \in Place : z # to /\ z[1] > 0 /\ Stands(p, d, z, g)' /\ Moved(z, 1) = y
    <3>1. CASE y = <<5, 1>>
      <4>1. g = f
        BY <1>9, <2>9, <3>1
      <4>2. engine[V] \in {"new", "running"}
        <5>1. EngineInv(V)
          BY <1>1, <1>2 DEF RelayInv
        <5> QED BY <1>0, <1>1, <1>2, <1>11, <2>9, <5>1 DEF Whole, EngineInv, TypeOK
      <4>3. n \in DOMAIN chan'[V] /\ chan'[V][n] = [kind |-> "frame", peer |-> p, frame |-> f]
        BY <1>4, <2>4, <4>2
      <4>4. InChan(V, p, n, "frame", f)'
        BY <4>3 DEF InChan
      <4> QED BY <1>0, <1>2, <2>3, <3>1, <4>1, <4>4 DEF Stands, SentAt, HeldAt
    <3>2. CASE y[1] = 5 /\ y # <<5, 1>>
      <4>1. PICK z \in Place : z[1] = 5 /\ Stands(p, d, z, g)' /\ Moved(z, 1) = y
        BY <1>8, <2>9, <3>2
      <4>2. z # to
        BY <2>3, <4>1
      <4> QED BY <4>1, <4>2
    <3>3. CASE y[1] # 5
      <4>1. y[1] # 4
        BY <1>0, <2>9 DEF Stands, SentAt, HeldAt
      <4>2. Moved(y, 1) = y
        BY <3>3 DEF Moved
      <4>3. Stands(p, d, y, g)' /\ y # to
        <5>1. CASE y[1] = 1
          <6>1. InChan(V, p, y[2], "released", g) /\ g.doc = d
            BY <1>2, <2>9, <5>1 DEF Stands, SentAt, HeldAt
          <6>2. InChan(V, p, y[2], "released", g)'
            BY <2>6, <6>1
          <6> QED BY <1>2, <2>2, <2>3, <5>1, <6>1, <6>2 DEF Stands, SentAt, HeldAt
        <5>2. CASE y[1] = SentAt(d)
          <6>1. InChan(V, p, y[2], "frame", g) /\ g.doc = d
            BY <1>2, <2>9, <5>2 DEF Stands, SentAt, HeldAt
          <6>2. InChan(V, p, y[2], "frame", g)' /\ y[2] \in 1 .. n - 1
            BY <2>6, <6>1
          <6> QED BY <1>2, <1>4, <2>3, <5>2, <6>1, <6>2 DEF Stands, SentAt, HeldAt
        <5>3. CASE y[1] = HeldAt(d)
          BY <1>0, <2>2, <2>3, <2>9, <5>3 DEF Stands, SentAt, HeldAt
        <5> QED BY <1>5, <2>2, <2>9, <3>3, <4>1, <5>1, <5>2, <5>3
      <4> QED BY <2>9, <4>2, <4>3
    <3> QED BY <3>1, <3>2, <3>3
  <2>10. Whole(p, d)' => Whole(p, d)
    BY <1>0 DEF Whole
  <2>11. \A g \in Frame : Stands(p, d, to, g)' => Stands(p, d, <<5, 1>>, g)
    BY <1>9, <2>7
  <2>12. 1 \in {0, 1} /\ journal[VaultFor(d)] \subseteq journal'[VaultFor(d)]
    BY <1>0
  <2>13. Whole(p, d)' /\ d \in synced[p[1]] =>
           /\ Whole(p, d)
           /\ \A y \in Place, g \in Frame : Stands(p, d, y, g) /\ y[1] > 0 =>
                \/ y = <<5, 1>> /\ Stands(p, d, to, g)'
                \/ \E z \in Place : z # to /\ z[1] > 0 /\ Stands(p, d, z, g)' /\ Moved(z, 1) = y
    BY <2>9, <2>10
  <2>14. \A x \in Place, g \in Frame : Stands(p, d, x, g)' /\ x # to =>
           Stands(p, d, Moved(x, 1), g) /\ (Before(to, x) => Before(<<5, 1>>, Moved(x, 1)))
    BY <2>8
  <2> QED BY ONLY RelayInv, <1>0, p \in Peers, d \in Docs, <1>1, <1>9, <2>3, <2>11, <2>12, <2>13, <2>14, LineJumps
<1> QED BY <1>2, <1>10, <1>11 DEF Sends

LEMMA RouteOrder ==
  ASSUME RelayInv, RelayInv', Ordered, NEW p \in Peers, Route(p), ~ missed'
  PROVE  Ordered'
<1>1. TypeOK /\ TypeOK' /\ reg \subseteq Vaults
  BY DEF RelayInv, TypeOK
<1>2. PICK f : f = Head(up[p])
  OBVIOUS
<1>3. PICK d0 : d0 = f.doc
  OBVIOUS
<1>4. PICK e : e = [kind |-> "frame", peer |-> p, frame |-> f]
  OBVIOUS
<1>5. /\ session[p].at = "open" /\ up[p] # <<>> /\ up' = [up EXCEPT ![p] = Tail(@)]
      /\ UNCHANGED <<reg, owner, held, full, engine, dirty, journal, conn, open, mine, synced, probe, acked, down>>
      /\ \/ Target(d0) = None /\ session' = [session EXCEPT ![p] = [at |-> "holding", frame |-> f]] /\ chan' = chan
         \/ Target(d0) # None /\ session' = session /\ chan' = Posted({Target(d0)} \cap reg, e)
      /\ d0 \in Notes /\ Target(d0) # None => Target(d0) = Home[d0]
  BY <1>2, <1>3, <1>4 DEF Route, windows
<1>6. /\ up[p] \in Seq(Frame) /\ f \in Frame /\ d0 \in Docs /\ f = up[p][1] /\ 1 \in DOMAIN up[p] /\ OfDoc(f)
  <2>1. up[p] \in Seq(Frame)
    BY <1>1 DEF TypeOK
  <2>2. f \in Frame /\ f = up[p][1] /\ 1 \in DOMAIN up[p]
    BY <1>2, <1>5, <2>1, QueueType
  <2> QED BY <1>3, <2>1, <2>2, FrameTypes DEF Ordered, FramesInv
<1>7. e \in Event /\ e.kind = "frame" /\ e.peer = p /\ e.frame = f
  BY <1>4, <1>6, EventTypes
<1>8. up'[p] = Tail(up[p]) /\ \A q \in Peers \ {p} : up'[q] = up[q]
  BY <1>1, <1>5 DEF TypeOK
<1>9. /\ \A q \in Peers \ {p} : session'[q] = session[q]
      /\ \/ session'[p].at = "open"
         \/ session'[p].at = "holding" /\ session'[p].frame = f
  BY <1>1, <1>5 DEF TypeOK
<1>10. Target(d0) # None =>
         /\ Target(d0) = VaultFor(d0) /\ VaultFor(d0) \in reg
         /\ d0 \in Notes => owner[d0] # None \/ Cardinality(reg) = 1
  BY <1>5, <1>6, TargetIs DEF Ordered
<1>11. \A v \in Vaults :
         /\ \A k \in DOMAIN chan'[v] :
              \/ k \in DOMAIN chan[v] /\ chan'[v][k] = chan[v][k]
              \/ v = VaultFor(d0) /\ chan'[v][k] = e
         /\ chan[v] # <<>> => chan'[v] # <<>> /\ Head(chan'[v]) = Head(chan[v])
         /\ \A R : e \notin R => Keeps(chan[v], chan'[v], R)
  <2>1. CASE Target(d0) = None
    <3>1. \A v \in Vaults : chan'[v] = chan[v] /\ chan[v] \in Seq(Event)
      BY <1>1, <1>5, <2>1 DEF TypeOK
    <3> QED BY <3>1, KeepsSame
  <2>2. CASE Target(d0) # None
    <3>1. chan' = Posted({VaultFor(d0)} \cap reg, e)
      BY <1>5, <1>10, <2>2
    <3>2. PICK vs : vs = {VaultFor(d0)} \cap reg
      OBVIOUS
    <3>3. chan' = Posted(vs, e)
      BY <3>1, <3>2
    <3>4. \A v \in Vaults :
         /\ \A k \in DOMAIN chan'[v] :
              \/ k \in DOMAIN chan[v] /\ chan'[v][k] = chan[v][k]
              \/ v \in vs /\ chan'[v][k] = e
         /\ chan[v] # <<>> => chan'[v] # <<>> /\ Head(chan'[v]) = Head(chan[v])
         /\ \A R : e \notin R => Keeps(chan[v], chan'[v], R)
      BY ONLY <1>1, <1>7, <3>3, Posts
    <3> QED BY <3>2, <3>4
  <2> QED BY <2>1, <2>2
<1>12. FramesInv'
  <2>1. ASSUME NEW q \in Peers, NEW k \in DOMAIN up'[q] PROVE OfDoc(up'[q][k])
    <3>1. \E j \in DOMAIN up[q] : up'[q][k] = up[q][j]
      <4>1. CASE q = p
        BY <1>5, <1>6, <1>8, <2>1, <4>1, QueueType
      <4>2. CASE q # p
        BY <1>8, <2>1, <4>2
      <4> QED BY <4>1, <4>2
    <3> QED BY <3>1 DEF Ordered, FramesInv
  <2>2. \A q \in Peers : session'[q].at = "holding" => OfDoc(session'[q].frame)
    BY <1>6, <1>9 DEF Ordered, FramesInv
  <2>3. \A v \in Vaults : \A k \in DOMAIN chan'[v] :
          chan'[v][k].kind \in {"frame", "released"} =>
            OfDoc(chan'[v][k].frame) /\ VaultFor(chan'[v][k].frame.doc) = v
    BY <1>3, <1>6, <1>7, <1>11 DEF Ordered, FramesInv
  <2> QED BY <1>5, <2>1, <2>2, <2>3 DEF Ordered, FramesInv
<1>13. ClaimsInv'
  BY <1>5 DEF Ordered, ClaimsInv
<1>14. HeldInv'
  <2>1. ASSUME NEW q \in Peers, NEW d \in Docs, HeldFor(q, d) PROVE HeldFor(q, d)'
    <3>1. session'[q].at \in {"open", "holding", "unlisted", "farewell"} /\ (session'[q].at \in Live => session[q].at \in Live)
      BY <1>5, <1>9, <2>1 DEF HeldFor, Live
    <3>2. d \in reg /\ AboutToClaim(d) => AboutToClaim(d)'
      BY <1>1, <1>5, <1>11 DEF AboutToClaim
    <3> QED BY <1>5, <2>1, <3>1, <3>2 DEF HeldFor
  <2> QED BY <1>1, <1>5, <2>1, HeldStays DEF Ordered
<1>15. ASSUME NEW q \in Peers, NEW d \in Docs, conn'[q[1]] = q, q # p \/ d # d0 PROVE LineInv(q, d)'
  <2>1. SameWindow(q[1], d) /\ LineInv(q, d) /\ conn[q[1]] = q
    BY <1>5, <1>15, PeerTypes, Untouched DEF Ordered
  <2>2. SameHolding(q, d)
    <3>1. CASE q = p
      BY <1>3, <1>5, <1>9, <1>15, <3>1 DEF SameHolding, About
    <3>2. CASE q # p
      BY <1>9, <3>2 DEF SameHolding
    <3> QED BY <3>1, <3>2
  <2>3. Whole(q, d)' => Whole(q, d)
    BY <1>5 DEF Whole
  <2>4. Keeps(chan[VaultFor(d)], chan'[VaultFor(d)], Carried(q, d))
    <3>1. e \notin Carried(q, d)
      BY <1>3, <1>7, <1>15 DEF Carried
    <3> QED BY <1>1, <1>11, <3>1, LineTypes
  <2>5. Keeps(up[q], up'[q], About(d))
    <3>1. CASE q = p
      <4>1. Head(up[p]) \notin About(d)
        BY <1>2, <1>3, <1>15, <3>1 DEF About
      <4> QED BY <1>5, <1>6, <1>8, <3>1, <4>1, KeepsTail
    <3>2. CASE q # p
      BY <1>1, <1>8, <3>2, LineTypes, KeepsSame
    <3> QED BY <3>1, <3>2
  <2>6. Keeps(down[q], down'[q], Answers(d)) /\ Keeps(held, held', Waiting(q, d))
    BY <1>1, <1>5, LineTypes, KeepsSame
  <2> QED BY <1>1, <1>5, <2>1, <2>2, <2>3, <2>4, <2>5, <2>6, LineKeeps
<1>16. ASSUME conn'[p[1]] = p PROVE LineInv(p, d0)'
  <2>1. SameWindow(p[1], d0) /\ conn[p[1]] = p /\ f.doc = d0
    BY <1>3, <1>5, <1>6, <1>16, PeerTypes, Untouched
  <2>2. \/ session'[p].at = "holding" /\ session'[p].frame = f /\ chan'[VaultFor(d0)] = chan[VaultFor(d0)]
        \/ /\ session'[p].at = "open" /\ VaultFor(d0) \in reg
           /\ \A k \in DOMAIN held : held[k].frame.doc = d0 => d0 \notin Notes
           /\ chan'[VaultFor(d0)] = IF engine[VaultFor(d0)] \in {"new", "running", "renewed"}
                                      THEN Append(chan[VaultFor(d0)], [kind |-> "frame", peer |-> p, frame |-> f])
                                      ELSE chan[VaultFor(d0)]
    <3>1. CASE Target(d0) = None
      BY <1>1, <1>5, <3>1 DEF TypeOK
    <3>2. CASE Target(d0) # None
      <4>1. chan' = Posted({Target(d0)} \cap reg, e) /\ session' = session
        BY <1>5, <3>2
      <4>2. \A k \in DOMAIN held : held[k].frame.doc = d0 => d0 \notin Notes
        BY <1>10, <3>2 DEF Ordered, ClaimsInv
      <4> QED BY <1>1, <1>4, <1>5, <1>10, <3>2, <4>1, <4>2 DEF Posted
    <3> QED BY <3>1, <3>2
  <2>3. Sends(p, d0, f)
    BY <1>5, <1>6, <1>8, <2>1, <2>2 DEF Sends
  <2> QED BY <1>1, <1>6, <2>3, RouteLine
<1>17. \A q \in Peers, d \in Docs : LineInv(q, d)'
  <2>1. ASSUME NEW q \in Peers, NEW d \in Docs PROVE LineInv(q, d)'
    <3>1. CASE conn'[q[1]] # q
      BY <3>1 DEF LineInv
    <3>2. CASE conn'[q[1]] = q /\ (q # p \/ d # d0)
      BY <1>15, <3>2
    <3>3. CASE conn'[q[1]] = q /\ q = p /\ d = d0
      BY <1>16, <3>3
    <3> QED BY <3>1, <3>2, <3>3
  <2> QED BY <2>1
<1>18. AckedIsStored'
  BY <1>5 DEF Ordered, AckedIsStored
<1> QED BY <1>12, <1>13, <1>14, <1>17, <1>18 DEF Ordered

\* The frame a session was about to hold, in its line.
Holds(p, d, f) ==
  /\ f.doc = d /\ session[p].at = "holding" /\ session[p].frame = f /\ session'[p].at = "open"
  /\ conn[p[1]] = p /\ SameWindow(p[1], d)
  /\ held' = Append(held, [peer |-> p, frame |-> f])
  /\ d \in Vaults => chan[d] = <<>>
  /\ UNCHANGED <<full, engine, journal, chan, up, down>>

LEMMA HoldLine ==
  ASSUME RelayInv, TypeOK', Ordered, NEW p \in Peers, NEW d \in Docs, NEW f \in Frame, Holds(p, d, f)
  PROVE  LineInv(p, d)'
<1>0. /\ f.doc = d /\ session[p].at = "holding" /\ session[p].frame = f /\ session'[p].at = "open"
      /\ conn[p[1]] = p /\ SameWindow(p[1], d)
      /\ held' = Append(held, [peer |-> p, frame |-> f])
      /\ d \in Vaults => chan[d] = <<>>
      /\ UNCHANGED <<full, engine, journal, chan, up, down>>
  BY DEF Holds
<1>1. TypeOK /\ VaultFor(d) \in Vaults /\ held \in Seq([peer : Peers, frame : Frame]) /\ LineInv(p, d)
  BY LineTypes DEF RelayInv, Ordered
<1>2. PICK n : n = Len(held) + 1
  OBVIOUS
<1>3. /\ n \in Nat \ {0} /\ DOMAIN held = 1 .. n - 1 /\ DOMAIN held' = 1 .. n
      /\ held'[n] = [peer |-> p, frame |-> f] /\ \A k \in 1 .. n - 1 : held'[k] = held[k]
  BY <1>0, <1>1, <1>2
<1>4. PICK to : to = <<HeldAt(d), n>>
  OBVIOUS
<1>5. SentAt(d) \in {2, 3} /\ HeldAt(d) \in {2, 3} /\ SentAt(d) # HeldAt(d)
  BY DEF SentAt, HeldAt
<1>6. \A x \in Place : x[1] \in 0 .. 5 /\ x[2] \in Nat /\ x = <<x[1], x[2]>>
  BY DEF Place
<1>7. /\ to \in Place /\ to[1] = HeldAt(d) /\ to[2] = n /\ to[1] \in 1 .. 4 /\ Before(to, <<4, 1>>)
      /\ <<4, 1>> \in Place /\ <<4, 1>>[1] = 4
  BY <1>3, <1>4, <1>5 DEF Before, Place
<1>8. \A x \in Place : Moved(x, 0) = x
  BY <1>6 DEF Moved
<1>9. ASSUME NEW g \in Frame, Stands(p, d, to, g)' PROVE Stands(p, d, <<4, 1>>, g)
  <2>1. held'[n] = [peer |-> p, frame |-> g]
    BY <1>5, <1>7, <1>9 DEF Stands
  <2>2. g = f
    BY <1>3, <2>1
  <2> QED BY <1>0, <2>2 DEF Stands
<1>10. ASSUME NEW x \in Place, NEW g \in Frame, Stands(p, d, x, g)', x # to
       PROVE  Stands(p, d, x, g) /\ (Before(to, x) => Before(<<4, 1>>, x))
  <2>1. x[1] # 4
    BY <1>0, <1>10 DEF Stands, SentAt, HeldAt
  <2>2. CASE x[1] = HeldAt(d)
    <3>1. g.doc = d /\ x[2] \in 1 .. n /\ held'[x[2]] = [peer |-> p, frame |-> g]
      BY <1>3, <1>10, <2>2 DEF Stands, SentAt, HeldAt
    <3>2. x[2] # n
      BY <1>4, <1>6, <1>10, <2>2
    <3>3. x[2] \in 1 .. n - 1 /\ held[x[2]] = [peer |-> p, frame |-> g]
      BY <1>3, <3>1, <3>2
    <3> QED BY <1>3, <1>7, <2>2, <3>1, <3>3 DEF Stands, Before
  <2>3. CASE x[1] = SentAt(d)
    <3>1. InChan(VaultFor(d), p, x[2], "frame", g) /\ g.doc = d
      BY <1>0, <1>10, <2>3 DEF Stands, SentAt, HeldAt, InChan
    <3>2. d \notin Vaults
      BY <1>0, <3>1 DEF InChan, VaultFor
    <3> QED BY <1>7, <2>3, <3>1, <3>2 DEF Stands, Before, SentAt, HeldAt
  <2>4. CASE x[1] \in {0, 1, 5}
    <3>1. Stands(p, d, x, g)
      BY <1>0, <1>10, <2>4 DEF Stands, SentAt, HeldAt, InChan
    <3> QED BY <1>5, <1>7, <2>4, <3>1 DEF Before
  <2> QED BY <1>5, <1>6, <2>1, <2>2, <2>3, <2>4
<1>11. ASSUME NEW y \in Place, NEW g \in Frame, Stands(p, d, y, g), y[1] > 0
       PROVE  \/ y = <<4, 1>> /\ Stands(p, d, to, g)'
              \/ y # to /\ Stands(p, d, y, g)'
  <2>1. CASE y[1] = 4
    <3>1. y[2] = 1 /\ g = f
      BY <1>0, <1>11, <2>1 DEF Stands, SentAt, HeldAt
    <3> QED BY <1>0, <1>3, <1>6, <1>7, <2>1, <3>1 DEF Stands
  <2>2. CASE y[1] = HeldAt(d)
    <3>1. g.doc = d /\ y[2] \in 1 .. n - 1 /\ held[y[2]] = [peer |-> p, frame |-> g]
      BY <1>3, <1>11, <2>2 DEF Stands, SentAt, HeldAt
    <3> QED BY <1>3, <1>7, <2>2, <3>1 DEF Stands
  <2>3. CASE y[1] \notin {4, HeldAt(d)}
    BY <1>0, <1>7, <1>11, <2>3 DEF Stands, SentAt, HeldAt, InChan
  <2> QED BY <2>1, <2>2, <2>3
<1>12. Whole(p, d)' /\ d \in synced[p[1]] =>
         /\ Whole(p, d)
         /\ \A y \in Place, g \in Frame : Stands(p, d, y, g) /\ y[1] > 0 =>
              \/ y = <<4, 1>> /\ Stands(p, d, to, g)'
              \/ \E z \in Place : z # to /\ z[1] > 0 /\ Stands(p, d, z, g)' /\ Moved(z, 0) = y
  <2>1. Whole(p, d)' => Whole(p, d)
    BY <1>0 DEF Whole
  <2> QED BY <1>8, <1>11, <2>1
<1>13. \A x \in Place, g \in Frame : Stands(p, d, x, g)' /\ x # to =>
         Stands(p, d, Moved(x, 0), g) /\ (Before(to, x) => Before(<<4, 1>>, Moved(x, 0)))
  BY <1>8, <1>10
<1>14. \A g \in Frame : Stands(p, d, to, g)' => Stands(p, d, <<4, 1>>, g)
  BY <1>9
<1>15. 0 \in {0, 1} /\ journal[VaultFor(d)] \subseteq journal'[VaultFor(d)]
  BY <1>0
<1> QED BY ONLY RelayInv, p \in Peers, d \in Docs, <1>0, <1>1, <1>7, <1>12, <1>13, <1>14, <1>15, LineJumps

LEMMA HoldOrder ==
  ASSUME RelayInv, RelayInv', Ordered, NEW p \in Peers, Hold(p), ~ missed'
  PROVE  Ordered'
<1>1. TypeOK /\ TypeOK' /\ reg \subseteq Vaults
  BY DEF RelayInv, TypeOK
<1>2. PICK f : f = session[p].frame
  OBVIOUS
<1>3. PICK d0 : d0 = f.doc
  OBVIOUS
<1>4. /\ session[p].at = "holding" /\ session' = [session EXCEPT ![p] = [at |-> "open", frame |-> None]]
      /\ held' = Append(held, [peer |-> p, frame |-> f]) /\ Target(d0) = None
      /\ UNCHANGED <<reg, owner, full, chan, engine, dirty, journal, conn, open, mine, synced, probe, acked, up, down>>
  BY <1>2, <1>3 DEF Hold, engines, windows
<1>5. f \in Frame /\ d0 \in Docs /\ OfDoc(f)
  <2>1. f \in Frame
    BY <1>2, <1>4 DEF RelayInv, SessionInv
  <2> QED BY <1>2, <1>3, <1>4, <2>1, FrameTypes DEF Ordered, FramesInv
<1>6. session'[p].at = "open" /\ \A q \in Peers \ {p} : session'[q] = session[q]
  BY <1>1, <1>4 DEF TypeOK
<1>7. PICK h : h = [peer |-> p, frame |-> f]
  OBVIOUS
<1>8. /\ held \in Seq([peer : Peers, frame : Frame]) /\ h \in [peer : Peers, frame : Frame]
      /\ h.peer = p /\ h.frame = f /\ held' = Append(held, h)
  BY <1>1, <1>4, <1>5, <1>7 DEF TypeOK
<1>9. \A k \in DOMAIN held' : (k \in DOMAIN held /\ held'[k] = held[k]) \/ held'[k] = h
  BY <1>8
<1>10. /\ d0 \in Vaults => d0 \notin reg
       /\ d0 \in Notes => owner[d0] = None /\ Cardinality(reg) # 1
  <2>1. d0 \in Vaults => d0 \notin reg
    BY <1>4, RelayAssumption DEF Target
  <2>2. ASSUME d0 \in Notes PROVE owner[d0] = None /\ Cardinality(reg) # 1
    <3>1. d0 \notin Vaults
      BY <2>2, RelayAssumption
    <3>2. owner[d0] = None
      BY <1>4, <3>1 DEF Target
    <3>3. reg # {} /\ None \notin reg
      BY <1>1, RelayAssumption DEF RelayInv
    <3> QED BY <1>4, <3>1, <3>2, <3>3 DEF Target
  <2> QED BY <2>1, <2>2
<1>11. FramesInv'
  <2>1. \A q \in Peers : session'[q].at = "holding" => OfDoc(session'[q].frame)
    BY <1>6 DEF Ordered, FramesInv
  <2>2. \A k \in DOMAIN held' : OfDoc(held'[k].frame)
    BY <1>5, <1>8, <1>9 DEF Ordered, FramesInv
  <2> QED BY <1>4, <2>1, <2>2 DEF Ordered, FramesInv
<1>12. ClaimsInv'
  <2>1. \A k \in DOMAIN held' :
          held'[k].frame.doc \in Notes => owner[held'[k].frame.doc] = None /\ Cardinality(reg) # 1
    BY <1>3, <1>8, <1>9, <1>10 DEF Ordered, ClaimsInv
  <2> QED BY <1>4, <2>1 DEF Ordered, ClaimsInv
<1>13. HeldInv'
  <2>1. ASSUME NEW k \in DOMAIN held', NEW q, NEW d, q = held'[k].peer, d = held'[k].frame.doc
        PROVE  HeldFor(q, d)'
    <3>1. CASE k \in DOMAIN held /\ held'[k] = held[k]
      <4>1. q \in Peers /\ HeldFor(q, d)
        BY <1>1, <2>1, <3>1, HeldTypes DEF Ordered, HeldInv
      <4> QED BY <1>4, <1>6, <4>1 DEF HeldFor, AboutToClaim, Live
    <3>2. CASE held'[k] = h
      <4>1. q = p /\ d = d0 /\ d0 \notin reg
        BY <1>1, <1>3, <1>5, <1>8, <1>10, <2>1, <3>2, RelayAssumption DEF Docs
      <4> QED BY <1>4, <1>6, <4>1 DEF HeldFor
    <3> QED BY <1>9, <2>1, <3>1, <3>2
  <2>2. HeldInv' <=> \A k \in DOMAIN held' : HeldFor(held[k].peer, held[k].frame.doc)'
    BY DEF HeldInv
  <2> QED BY <2>1, <2>2
<1>14. ASSUME NEW q \in Peers, NEW d \in Docs, conn'[q[1]] = q PROVE LineInv(q, d)'
  <2>1. SameWindow(q[1], d) /\ LineInv(q, d) /\ conn[q[1]] = q
    BY <1>4, <1>14, PeerTypes, Untouched DEF Ordered
  <2>2. CASE q = p /\ d = d0
    <3>1. d0 \in Vaults => chan[d0] = <<>>
      BY <1>10 DEF RelayInv, EngineInv
    <3>2. Holds(p, d0, f)
      BY <1>2, <1>3, <1>4, <1>6, <2>1, <2>2, <3>1 DEF Holds
    <3> QED BY <1>1, <1>5, <2>2, <3>2, HoldLine
  <2>3. CASE ~ (q = p /\ d = d0)
    <3>1. SameHolding(q, d)
      <4>1. CASE q = p
        BY <1>2, <1>3, <1>6, <2>3, <4>1 DEF SameHolding, About
      <4>2. CASE q # p
        BY <1>6, <4>2 DEF SameHolding
      <4> QED BY <4>1, <4>2
    <3>2. Whole(q, d)' => Whole(q, d)
      BY <1>4 DEF Whole
    <3>3. Keeps(held, held', Waiting(q, d))
      <4>1. h \notin Waiting(q, d)
        BY <1>3, <1>8, <2>3 DEF Waiting
      <4> QED BY <1>8, <4>1, KeepsOneMore
    <3>4. /\ Keeps(down[q], down'[q], Answers(d)) /\ Keeps(up[q], up'[q], About(d))
          /\ Keeps(chan[VaultFor(d)], chan'[VaultFor(d)], Carried(q, d))
      BY <1>1, <1>4, LineTypes, KeepsSame
    <3> QED BY <1>1, <1>4, <2>1, <3>1, <3>2, <3>3, <3>4, LineKeeps
  <2> QED BY <2>2, <2>3
<1>15. \A q \in Peers, d \in Docs : LineInv(q, d)'
  BY <1>14 DEF LineInv
<1>16. AckedIsStored'
  BY <1>4 DEF Ordered, AckedIsStored
<1> QED BY <1>11, <1>12, <1>13, <1>15, <1>16 DEF Ordered

\* The frames held for a document come back to its engine, ahead of those sent to it.
TakesBack(v, p, d, back, at) ==
  /\ conn[p[1]] = p /\ SameWindow(p[1], d) /\ VaultFor(d) = v
  /\ UNCHANGED <<full, session, journal, up, down>>
  /\ engine[v] \in {"new", "running"}
  /\ chan'[v] = back \o chan[v] /\ back \in Seq(Event)
  /\ \A k \in DOMAIN chan[v] : chan[v][k].kind # "released"
  /\ \A k \in DOMAIN held' : held'[k].frame.doc # d
  /\ at \in [1 .. Len(back) -> DOMAIN held]
  /\ \A k \in 1 .. Len(back) :
       back[k] = [kind |-> "released", peer |-> held[at[k]].peer, frame |-> held[at[k]].frame]
  /\ \A j, k \in 1 .. Len(back) : j < k => at[j] < at[k]
  /\ \A j \in DOMAIN held : held[j].frame.doc = d => \E k \in 1 .. Len(back) : at[k] = j
  /\ d \in Notes => \A j \in DOMAIN held, k \in DOMAIN chan[v] :
       ~ (/\ held[j].peer = p /\ held[j].frame.doc = d
          /\ chan[v][k].kind = "frame" /\ chan[v][k].peer = p /\ chan[v][k].frame.doc = d)

LEMMA ClaimLine ==
  ASSUME RelayInv, Ordered, NEW v \in Vaults, NEW p \in Peers, NEW d \in Docs, NEW back, NEW at,
         TakesBack(v, p, d, back, at)
  PROVE  LineInv(p, d)'
<1>0. /\ conn[p[1]] = p /\ SameWindow(p[1], d) /\ VaultFor(d) = v
      /\ UNCHANGED <<full, session, journal, up, down>>
      /\ engine[v] \in {"new", "running"}
      /\ chan'[v] = back \o chan[v] /\ back \in Seq(Event)
      /\ \A k \in DOMAIN chan[v] : chan[v][k].kind # "released"
      /\ \A k \in DOMAIN held' : held'[k].frame.doc # d
  BY DEF TakesBack
<1>1. /\ at \in [1 .. Len(back) -> DOMAIN held]
      /\ \A k \in 1 .. Len(back) :
           back[k] = [kind |-> "released", peer |-> held[at[k]].peer, frame |-> held[at[k]].frame]
      /\ \A j, k \in 1 .. Len(back) : j < k => at[j] < at[k]
      /\ \A j \in DOMAIN held : held[j].frame.doc = d => \E k \in 1 .. Len(back) : at[k] = j
  BY DEF TakesBack
<1>2. TypeOK /\ chan[v] \in Seq(Event) /\ held \in Seq([peer : Peers, frame : Frame]) /\ LineInv(p, d)
  BY <1>0, LineTypes DEF RelayInv, Ordered
<1>3. PICK n : n = Len(back)
  OBVIOUS
<1>4. /\ n \in Nat /\ DOMAIN chan[v] \subseteq Nat \ {0} /\ DOMAIN chan'[v] \subseteq Nat \ {0} /\ DOMAIN held \subseteq Nat
      /\ \A k \in 1 .. n : k \in DOMAIN chan'[v] /\ chan'[v][k] = back[k]
      /\ \A k \in DOMAIN chan[v] : k + n \in DOMAIN chan'[v] /\ chan'[v][k + n] = chan[v][k]
      /\ \A k \in DOMAIN chan'[v] : k \in 1 .. n \/ (k - n \in DOMAIN chan[v] /\ chan'[v][k] = chan[v][k - n])
  <2>1. /\ n \in Nat /\ Len(chan[v]) \in Nat /\ DOMAIN chan[v] = 1 .. Len(chan[v]) /\ DOMAIN held = 1 .. Len(held)
        /\ DOMAIN chan'[v] = 1 .. n + Len(chan[v])
        /\ \A k \in 1 .. n : chan'[v][k] = back[k]
        /\ \A k \in 1 .. Len(chan[v]) : chan'[v][n + k] = chan[v][k]
    BY <1>0, <1>2, <1>3
  <2>2. \A k \in 1 .. Len(chan[v]) : k + n = n + k
    BY <2>1
  <2>3. \A k \in 1 .. n + Len(chan[v]) : k \notin 1 .. n => k - n \in 1 .. Len(chan[v]) /\ k = n + (k - n)
    BY <2>1
  <2> QED BY <2>1, <2>2, <2>3
<1>5. ASSUME NEW k, NEW g, InChan(v, p, k, "released", g)'
      PROVE  k \in 1 .. n /\ at[k] \in DOMAIN held /\ at[k] \in Nat /\ held[at[k]] = [peer |-> p, frame |-> g]
  <2>1. k \in DOMAIN chan'[v] /\ chan'[v][k].kind = "released" /\ chan'[v][k].peer = p /\ chan'[v][k].frame = g
    BY <1>5 DEF InChan
  <2>2. k \in 1 .. n
    BY <1>0, <1>4, <2>1
  <2>3. at[k] \in DOMAIN held /\ held[at[k]].peer = p /\ held[at[k]].frame = g
    <3>1. back[k] = [kind |-> "released", peer |-> held[at[k]].peer, frame |-> held[at[k]].frame]
      BY <1>1, <1>3, <2>2
    <3> QED BY <1>1, <1>3, <1>4, <2>1, <2>2, <3>1
  <2>4. held[at[k]] \in [peer : Peers, frame : Frame]
    BY <1>2, <2>3, HeldTypes
  <2> QED BY <1>4, <2>2, <2>3, <2>4
<1>6. ASSUME NEW j \in DOMAIN held, NEW g, held[j] = [peer |-> p, frame |-> g], g.doc = d
      PROVE  \E k \in 1 .. n : at[k] = j /\ InChan(v, p, k, "released", g)'
  <2>1. PICK k \in 1 .. n : at[k] = j
    BY <1>1, <1>3, <1>6
  <2>2. back[k] = [kind |-> "released", peer |-> p, frame |-> g]
    BY <1>1, <1>3, <1>6, <2>1
  <2> QED BY <1>4, <2>1, <2>2 DEF InChan
<1>7. ASSUME NEW k, NEW g, InChan(v, p, k, "frame", g)'
      PROVE  k - n \in Nat /\ InChan(v, p, k - n, "frame", g)
  <2>1. k \in DOMAIN chan'[v] /\ chan'[v][k].kind = "frame" /\ chan'[v][k].peer = p /\ chan'[v][k].frame = g
    BY <1>7 DEF InChan
  <2>2. k \notin 1 .. n
    <3>1. ASSUME NEW i \in 1 .. n PROVE back[i].kind = "released"
      <4>1. back[i] = [kind |-> "released", peer |-> held[at[i]].peer, frame |-> held[at[i]].frame]
        BY <1>1, <1>3, <3>1
      <4> QED BY <4>1
    <3> QED BY <1>4, <2>1, <3>1
  <2> QED BY <1>4, <2>1, <2>2 DEF InChan
<1>8. ASSUME NEW k, NEW g, InChan(v, p, k, "frame", g)
      PROVE  k \in Nat /\ InChan(v, p, k + n, "frame", g)' /\ k + n \in Nat
  BY <1>4, <1>8 DEF InChan
<1>9. ASSUME NEW j \in DOMAIN held, NEW k, NEW g, NEW h, held[j] = [peer |-> p, frame |-> g], g.doc = d,
             InChan(v, p, k, "frame", h), h.doc = d
      PROVE  HeldAt(d) < SentAt(d)
  <2>1. d \notin Notes
    BY <1>9 DEF TakesBack, InChan
  <2> QED BY <2>1 DEF HeldAt, SentAt, Docs
<1>10. SentAt(d) \in {2, 3} /\ HeldAt(d) \in {2, 3} /\ SentAt(d) # HeldAt(d)
  BY DEF SentAt, HeldAt
<1>11. /\ \A x \in Place : x[1] \in 0 .. 5 /\ x[2] \in Nat /\ x = <<x[1], x[2]>>
       /\ \A j \in 0 .. 5, k \in Nat : <<j, k>> \in Place /\ <<j, k>>[1] = j /\ <<j, k>>[2] = k
  BY DEF Place
<1> DEFINE m == [x \in Place |-> IF x[1] = 1 THEN <<HeldAt(d), at[x[2]]>>
                                 ELSE IF x[1] = SentAt(d) THEN <<SentAt(d), x[2] - n>> ELSE x]
<1>12. \A x \in Place : /\ x[1] = 1 => m[x] = <<HeldAt(d), at[x[2]]>>
                        /\ x[1] = SentAt(d) => m[x] = <<SentAt(d), x[2] - n>>
                        /\ x[1] \notin {1, SentAt(d)} => m[x] = x
  BY <1>10
<1> HIDE DEF m
\* What stands at a new place, and where it was.
<1>13. ASSUME NEW x \in Place, NEW g \in Frame, Stands(p, d, x, g)'
       PROVE  /\ g.doc = d /\ x[1] # HeldAt(d) /\ m[x] \in Place /\ Stands(p, d, m[x], g)
              /\ x[1] = 1 => /\ m[x] = <<HeldAt(d), at[x[2]]>> /\ x[2] \in 1 .. n /\ at[x[2]] \in DOMAIN held
                             /\ at[x[2]] \in Nat /\ held[at[x[2]]] = [peer |-> p, frame |-> g]
              /\ x[1] = SentAt(d) => m[x] = <<SentAt(d), x[2] - n>> /\ InChan(v, p, x[2] - n, "frame", g)
              /\ x[1] \notin {1, SentAt(d)} => m[x] = x
  <2>1. g.doc = d
    BY <1>13 DEF Stands
  <2>2. x[1] # HeldAt(d)
    <3> SUFFICES ASSUME x[1] = HeldAt(d) PROVE FALSE
      OBVIOUS
    <3>1. x[2] \in DOMAIN held' /\ held'[x[2]] = [peer |-> p, frame |-> g]
      BY <1>13 DEF Stands, SentAt, HeldAt
    <3> QED BY <1>0, <2>1, <3>1
  <2>3. CASE x[1] = 1
    <3>1. InChan(v, p, x[2], "released", g)'
      BY <1>0, <1>13, <2>3 DEF Stands, SentAt, HeldAt
    <3>2. /\ x[2] \in 1 .. n /\ at[x[2]] \in DOMAIN held
          /\ at[x[2]] \in Nat /\ held[at[x[2]]] = [peer |-> p, frame |-> g]
      BY <1>5, <3>1
    <3>3. m[x] = <<HeldAt(d), at[x[2]]>> /\ m[x] \in Place /\ m[x][1] = HeldAt(d) /\ m[x][2] = at[x[2]]
      BY <1>10, <1>11, <1>12, <2>3, <3>2
    <3>4. Stands(p, d, m[x], g)
      BY <2>1, <3>2, <3>3 DEF Stands
    <3> QED BY <1>10, <2>1, <2>2, <2>3, <3>2, <3>3, <3>4
  <2>4. CASE x[1] = SentAt(d)
    <3>1. InChan(v, p, x[2], "frame", g)'
      BY <1>0, <1>13, <2>4 DEF Stands, SentAt, HeldAt
    <3>2. x[2] - n \in Nat /\ InChan(v, p, x[2] - n, "frame", g)
      BY <1>7, <3>1
    <3>3. m[x] = <<SentAt(d), x[2] - n>> /\ m[x] \in Place /\ m[x][1] = SentAt(d) /\ m[x][2] = x[2] - n
      BY <1>10, <1>11, <1>12, <2>4, <3>2
    <3>4. Stands(p, d, m[x], g)
      BY <1>0, <2>1, <3>2, <3>3 DEF Stands
    <3> QED BY <1>10, <2>1, <2>2, <2>4, <3>2, <3>3, <3>4
  <2>5. CASE x[1] \in {0, 4, 5}
    <3>1. Stands(p, d, x, g)
      BY <1>0, <1>13, <2>5 DEF Stands, SentAt, HeldAt
    <3> QED BY <1>10, <1>12, <2>1, <2>2, <2>5, <3>1
  <2> QED BY <1>10, <1>11, <2>2, <2>3, <2>4, <2>5
<1>14. ASSUME NEW x \in Place, NEW y \in Place, NEW f \in Frame, NEW g \in Frame,
              Stands(p, d, x, f)', Stands(p, d, y, g)', Before(x, y)
       PROVE  Before(m[x], m[y])
  <2>1. /\ m[x] \in Place /\ m[y] \in Place /\ x[1] # HeldAt(d) /\ y[1] # HeldAt(d) /\ f.doc = d /\ g.doc = d
        /\ x[1] \notin {1, SentAt(d)} => m[x] = x
        /\ y[1] \notin {1, SentAt(d)} => m[y] = y
    BY <1>13, <1>14
  <2>2. x[1] = 1 => /\ m[x] = <<HeldAt(d), at[x[2]]>> /\ x[2] \in 1 .. n /\ at[x[2]] \in DOMAIN held
                    /\ at[x[2]] \in Nat /\ held[at[x[2]]] = [peer |-> p, frame |-> f]
    BY <1>13, <1>14
  <2>3. y[1] = 1 => m[y] = <<HeldAt(d), at[y[2]]>> /\ y[2] \in 1 .. n /\ at[y[2]] \in Nat
    BY <1>13, <1>14
  <2>4. x[1] = SentAt(d) => m[x] = <<SentAt(d), x[2] - n>>
    BY <1>13, <1>14
  <2>5. y[1] = SentAt(d) => m[y] = <<SentAt(d), y[2] - n>> /\ InChan(v, p, y[2] - n, "frame", g)
    BY <1>13, <1>14
  <2>6. x[1] \in 0 .. 5 /\ y[1] \in 0 .. 5 /\ x[2] \in Nat /\ y[2] \in Nat
    BY <1>11
  <2>7. CASE x[1] = 1 /\ y[1] = 1
    <3>1. at[x[2]] < at[y[2]]
      BY <1>1, <1>3, <1>14, <2>2, <2>3, <2>7 DEF Before
    <3> QED BY <2>2, <2>3, <2>7, <3>1 DEF Before
  <2>8. CASE x[1] = 1 /\ y[1] = SentAt(d)
    <3>1. HeldAt(d) < SentAt(d)
      BY <1>9, <2>1, <2>2, <2>5, <2>8
    <3> QED BY <2>2, <2>5, <2>8, <3>1 DEF Before
  <2>9. CASE x[1] = 1 /\ y[1] \notin {1, SentAt(d)}
    BY <1>10, <1>14, <2>1, <2>2, <2>6, <2>9 DEF Before
  <2>10. CASE x[1] = SentAt(d)
    BY <1>4, <1>10, <1>14, <2>1, <2>4, <2>5, <2>6, <2>10 DEF Before
  <2>11. CASE x[1] \notin {1, SentAt(d)}
    BY <1>10, <1>14, <2>1, <2>3, <2>5, <2>6, <2>11 DEF Before
  <2> QED BY <2>7, <2>8, <2>9, <2>10, <2>11
\* Nothing on its way to the store is lost.
<1>15. ASSUME NEW y \in Place, NEW g \in Frame, Stands(p, d, y, g), y[1] > 0
       PROVE  \E z \in Place : z[1] > 0 /\ Stands(p, d, z, g)' /\ m[z] = y
  <2>1. g.doc = d
    BY <1>15 DEF Stands
  <2>2. y[1] # 1
    <3> SUFFICES ASSUME y[1] = 1 PROVE FALSE
      OBVIOUS
    <3>1. InChan(v, p, y[2], "released", g)
      BY <1>0, <1>15 DEF Stands, SentAt, HeldAt
    <3> QED BY <1>0, <3>1 DEF InChan
  <2>3. CASE y[1] = SentAt(d)
    <3>1. InChan(v, p, y[2], "frame", g)
      BY <1>0, <1>15, <2>3 DEF Stands, SentAt, HeldAt
    <3>2. y[2] \in Nat /\ InChan(v, p, y[2] + n, "frame", g)' /\ y[2] + n \in Nat
      BY <1>8, <3>1
    <3>3. PICK z : z = <<SentAt(d), y[2] + n>>
      OBVIOUS
    <3>4. z \in Place /\ z[1] = SentAt(d) /\ z[2] = y[2] + n /\ z[1] > 0
      BY <1>10, <1>11, <3>2, <3>3
    <3>5. Stands(p, d, z, g)'
      BY <1>0, <2>1, <3>2, <3>4 DEF Stands
    <3>6. m[z] = y
      <4>1. m[z] = <<SentAt(d), z[2] - n>> /\ z[2] - n = y[2]
        BY <1>4, <1>12, <3>2, <3>4
      <4> QED BY <1>11, <2>3, <4>1
    <3> QED BY <3>4, <3>5, <3>6
  <2>4. CASE y[1] = HeldAt(d)
    <3>1. y[2] \in DOMAIN held /\ held[y[2]] = [peer |-> p, frame |-> g]
      BY <1>15, <2>4 DEF Stands, SentAt, HeldAt
    <3>2. PICK k \in 1 .. n : at[k] = y[2] /\ InChan(v, p, k, "released", g)'
      BY <1>6, <2>1, <3>1
    <3>3. PICK z : z = <<1, k>>
      OBVIOUS
    <3>4. z \in Place /\ z[1] = 1 /\ z[2] = k
      BY <1>4, <1>11, <3>3
    <3>5. Stands(p, d, z, g)'
      BY <1>0, <2>1, <3>2, <3>4 DEF Stands
    <3>6. m[z] = y
      BY <1>11, <1>12, <2>4, <3>2, <3>4
    <3> QED BY <3>4, <3>5, <3>6
  <2>5. CASE y[1] \in {4, 5}
    <3>1. Stands(p, d, y, g)' /\ m[y] = y
      BY <1>0, <1>10, <1>12, <1>15, <2>5 DEF Stands, SentAt, HeldAt
    <3> QED BY <1>15, <3>1
  <2> QED BY <1>10, <1>11, <1>15, <2>2, <2>3, <2>4, <2>5
<1>16. \A x \in Place, f \in Frame : Stands(p, d, x, f)' /\ f.ask =>
         m[x] \in Place /\ Stands(p, d, m[x], f) /\ (x[1] = 0 => m[x][1] = 0)
  <2> TAKE x \in Place, f \in Frame
  <2> HAVE Stands(p, d, x, f)' /\ f.ask
  <2>1. m[x] \in Place /\ Stands(p, d, m[x], f) /\ (x[1] \notin {1, SentAt(d)} => m[x] = x)
    BY <1>13
  <2> QED BY <1>10, <2>1
<1>17. \A x, y \in Place, f, g \in Frame :
         Stands(p, d, x, f)' /\ Stands(p, d, y, g)' /\ Counts(x, f) /\ Counts(y, g) /\ Before(x, y) =>
           Before(m[x], m[y])
  BY <1>14
<1>18. Whole(p, d)' /\ d \in synced[p[1]] =>
         /\ Whole(p, d)
         /\ \A y \in Place, f \in Frame : Stands(p, d, y, f) /\ y[1] > 0 =>
              \E z \in Place : z[1] > 0 /\ Stands(p, d, z, f)' /\ m[z] = y
  <2>1. Whole(p, d)' => Whole(p, d)
    BY <1>0 DEF Whole
  <2> QED BY <1>15, <2>1
<1>19. journal[VaultFor(d)] \subseteq journal'[VaultFor(d)]
  BY <1>0
<1> QED BY ONLY RelayInv, p \in Peers, d \in Docs, <1>0, <1>2, <1>16, <1>17, <1>18, <1>19, LineShifts

LEMMA ClaimOrder ==
  ASSUME RelayInv, RelayInv', Ordered, NEW v \in Vaults, SyncRoutes(v), ~ missed'
  PROVE  Ordered'
<1>1. TypeOK /\ TypeOK' /\ reg \subseteq Vaults /\ EngineInv(v)
  BY DEF RelayInv, TypeOK
<1>2. PICK taken, claimed, back : Claims(v, taken, claimed, back)
  BY <1>1, SyncRoutesIs
<1>3. /\ Works(v) /\ dirty[v] /\ Busy(v) /\ (chan[v] # <<>> => Head(chan[v]).kind # "released")
      /\ UNCHANGED <<reg, full, session, memory, journal, conn, open, mine, synced, probe, acked, up, down>>
      /\ held' = Picked(held, DOMAIN held \ {k \in DOMAIN held : held[k].frame.doc \in {v} \cup {n \in NotesIn(v) : owner[n] = None}})
      /\ dirty' \in [Vaults -> BOOLEAN] /\ \A u \in Vaults \ {v} : dirty'[u] = dirty[u]
  BY <1>1 DEF SyncRoutes, windows, TypeOK
<1>4. /\ taken = {v} \cup {n \in NotesIn(v) : owner[n] = None}
      /\ claimed = {k \in DOMAIN held : held[k].frame.doc \in taken}
      /\ back \in Seq(Event)
      /\ chan' = [chan EXCEPT ![v] = back \o @]
      /\ owner' = [n \in Notes |-> IF n \in NotesIn(v) THEN v ELSE IF owner[n] = v THEN None ELSE owner[n]]
      /\ \A k \in claimed : ~ Overtakes(v, held[k])
  BY <1>2 DEF Claims
<1>5. PICK at : /\ Chosen(held, claimed, Len(held), Picked(held, claimed), at)
                /\ Len(back) = Len(Picked(held, claimed))
                /\ \A k \in 1 .. Len(back) :
                     back[k] = [kind |-> "released", peer |-> held[at[k]].peer, frame |-> held[at[k]].frame]
  BY <1>2 DEF Claims
<1>6. /\ at \in [1 .. Len(back) -> claimed]
      /\ \A j, k \in 1 .. Len(back) : j < k => at[j] < at[k]
      /\ \A j \in claimed : \E k \in 1 .. Len(back) : at[k] = j
  <2>1. claimed \cap (1 .. Len(held)) = claimed
    BY <1>1, <1>4, HeldTypes
  <2> QED BY <1>5, <2>1 DEF Chosen
<1>7. v \in reg /\ engine[v] \in {"new", "running"} /\ engine'[v] = "running"
      /\ \A u \in Vaults \ {v} : engine'[u] = engine[u] /\ chan'[u] = chan[u]
  BY <1>1, <1>3, <1>4 DEF Works, Busy, EngineInv, TypeOK
<1>8. chan'[v] = back \o chan[v] /\ chan[v] \in Seq(Event)
  BY <1>1, <1>4 DEF TypeOK
<1>9. \A n \in NotesIn(v) : n \in Notes /\ Home[n] = v
  <2> TAKE n \in NotesIn(v)
  <2>1. n \in Notes /\ <<n, "entry">> \in journal[v]
    BY <1>1 DEF NotesIn, EngineInv
  <2> QED BY <2>1 DEF Ordered, ClaimsInv
<1>10. \A d \in taken : VaultFor(d) = v
  BY <1>4, <1>9, RelayAssumption DEF VaultFor
<1>11. ASSUME NEW k \in DOMAIN held' PROVE \E j \in DOMAIN held : held'[k] = held[j] /\ held[j].frame.doc \notin taken
  <2>1. \A i \in DOMAIN held' : \E j \in DOMAIN held : j \in DOMAIN held \ claimed /\ held'[i] = held[j]
    BY <1>1, <1>3, <1>4, HeldPicked
  <2> QED BY <1>4, <2>1
<1>12. \A k \in DOMAIN chan[v] : chan[v][k].kind # "released"
  <2> SUFFICES ASSUME NEW k \in DOMAIN chan[v], chan[v][k].kind = "released" PROVE FALSE
    OBVIOUS
  <2>1. k \in 1 .. Len(chan[v]) /\ chan[v] # <<>>
    BY <1>8
  <2>2. chan[v][1].kind = "released"
    BY <1>1, <2>1 DEF EngineInv
  <2> QED BY <1>3, <1>8, <2>1, <2>2, QueueType
<1>13. ASSUME NEW k \in 1 .. Len(back)
       PROVE  /\ back[k].kind = "released" /\ at[k] \in DOMAIN held /\ back[k].peer = held[at[k]].peer
              /\ back[k].frame = held[at[k]].frame /\ back[k].frame.doc \in taken
  <2>1. at[k] \in DOMAIN held /\ held[at[k]].frame.doc \in taken
    BY <1>4, <1>6
  <2>2. back[k] = [kind |-> "released", peer |-> held[at[k]].peer, frame |-> held[at[k]].frame]
    BY <1>5
  <2> QED BY <2>1, <2>2
<1>14. FramesInv'
  <2>1. \A k \in DOMAIN held' : OfDoc(held'[k].frame)
    BY <1>11 DEF Ordered, FramesInv
  <2>2. ASSUME NEW u \in Vaults, NEW k \in DOMAIN chan'[u], chan'[u][k].kind \in {"frame", "released"}
        PROVE  OfDoc(chan'[u][k].frame) /\ VaultFor(chan'[u][k].frame.doc) = u
    <3>1. CASE u # v
      <4>1. chan'[u] = chan[u]
        BY <1>7, <3>1
      <4> QED BY <2>2, <4>1 DEF Ordered, FramesInv
    <3>2. CASE u = v
      <4>1. \/ k \in 1 .. Len(back) /\ chan'[v][k] = back[k]
            \/ \E j \in DOMAIN chan[v] : chan'[v][k] = chan[v][j]
        <5>1. PICK n : n = Len(back)
          OBVIOUS
        <5>2. /\ n \in Nat /\ Len(chan[v]) \in Nat /\ DOMAIN chan[v] = 1 .. Len(chan[v])
              /\ DOMAIN chan'[v] = 1 .. n + Len(chan[v])
              /\ \A j \in 1 .. n : chan'[v][j] = back[j]
              /\ \A j \in 1 .. Len(chan[v]) : chan'[v][n + j] = chan[v][j]
          BY <1>4, <1>8, <5>1
        <5>3. k \notin 1 .. n => k - n \in 1 .. Len(chan[v]) /\ k = n + (k - n)
          BY <2>2, <3>2, <5>2
        <5> QED BY <2>2, <3>2, <5>1, <5>2, <5>3
      <4>2. CASE k \in 1 .. Len(back) /\ chan'[v][k] = back[k]
        <5>1. at[k] \in DOMAIN held /\ back[k].frame = held[at[k]].frame /\ back[k].frame.doc \in taken
          BY <1>13, <4>2
        <5> QED BY <1>10, <3>2, <4>2, <5>1 DEF Ordered, FramesInv
      <4>3. CASE \E j \in DOMAIN chan[v] : chan'[v][k] = chan[v][j]
        BY <2>2, <3>2, <4>3 DEF Ordered, FramesInv
      <4> QED BY <4>1, <4>2, <4>3
    <3> QED BY <3>1, <3>2
  <2> QED BY <1>3, <2>1, <2>2 DEF Ordered, FramesInv
<1>15. ClaimsInv'
  <2>1. ASSUME NEW n \in Notes, owner'[n] # None PROVE owner'[n] = Home[n] /\ Home[n] \in reg
    <3>1. CASE n \in NotesIn(v)
      BY <1>4, <1>7, <1>9, <2>1, <3>1
    <3>2. CASE n \notin NotesIn(v)
      <4>1. owner'[n] = owner[n]
        BY <1>4, <2>1, <3>2
      <4> QED BY <2>1, <4>1 DEF Ordered, ClaimsInv
    <3> QED BY <3>1, <3>2
  <2>2. ASSUME NEW k \in DOMAIN held', held'[k].frame.doc \in Notes
        PROVE  owner'[held'[k].frame.doc] = None /\ Cardinality(reg) # 1
    <3>1. PICK j \in DOMAIN held : held'[k] = held[j] /\ held[j].frame.doc \notin taken
      BY <1>11
    <3>2. owner[held[j].frame.doc] = None /\ Cardinality(reg) # 1
      BY <2>2, <3>1 DEF Ordered, ClaimsInv
    <3>3. held[j].frame.doc \notin NotesIn(v)
      BY <1>4, <3>1, <3>2
    <3> QED BY <1>4, <2>2, <3>1, <3>2, <3>3
  <2> QED BY <1>3, <2>1, <2>2 DEF Ordered, ClaimsInv
<1>16. HeldInv'
  <2>1. ASSUME NEW k \in DOMAIN held', NEW q, NEW d, q = held'[k].peer, d = held'[k].frame.doc
        PROVE  HeldFor(q, d)'
    <3>1. PICK j \in DOMAIN held : held'[k] = held[j] /\ held[j].frame.doc \notin taken
      BY <1>11
    <3>2. q \in Peers /\ HeldFor(q, d) /\ d # v
      BY <1>1, <1>4, <2>1, <3>1, HeldTypes DEF Ordered, HeldInv
    <3>3. d \in reg => d \in Vaults \ {v}
      BY <1>1, <3>2
    <3>4. d \in reg /\ AboutToClaim(d) => AboutToClaim(d)'
      BY <1>3, <1>7, <3>3 DEF AboutToClaim
    <3>5. d \in reg => engine'[d] = engine[d]
      BY <1>7, <3>3
    <3> QED BY <1>3, <3>2, <3>4, <3>5 DEF HeldFor
  <2>2. HeldInv' <=> \A k \in DOMAIN held' : HeldFor(held[k].peer, held[k].frame.doc)'
    BY DEF HeldInv
  <2> QED BY <2>1, <2>2
<1>17. ASSUME NEW q \in Peers, NEW d \in Docs, conn'[q[1]] = q PROVE LineInv(q, d)'
  <2>1. SameWindow(q[1], d) /\ LineInv(q, d) /\ conn[q[1]] = q /\ SameHolding(q, d)
    BY <1>3, <1>17, PeerTypes, Untouched DEF Ordered, SameHolding
  <2>2. CASE d \in taken
    <3>1. VaultFor(d) = v
      BY <1>10, <2>2
    <3>2. at \in [1 .. Len(back) -> DOMAIN held]
      BY <1>4, <1>6
    <3>3. \A k \in DOMAIN held' : held'[k].frame.doc # d
      BY <1>11, <2>2
    <3>4. \A j \in DOMAIN held : held[j].frame.doc = d => j \in claimed
      BY <1>4, <2>2
    <3>5. \A j \in DOMAIN held : held[j].frame.doc = d => \E k \in 1 .. Len(back) : at[k] = j
      BY <1>6, <3>4
    <3>6. d \in Notes => \A j \in DOMAIN held, k \in DOMAIN chan[v] :
            ~ (/\ held[j].peer = q /\ held[j].frame.doc = d
               /\ chan[v][k].kind = "frame" /\ chan[v][k].peer = q /\ chan[v][k].frame.doc = d)
      <4> SUFFICES ASSUME d \in Notes, NEW j \in DOMAIN held, NEW k \in DOMAIN chan[v],
                          held[j].peer = q, held[j].frame.doc = d,
                          chan[v][k].kind = "frame", chan[v][k].peer = q, chan[v][k].frame.doc = d
                   PROVE FALSE
        OBVIOUS
      <4>1. Overtakes(v, held[j])
        BY DEF Overtakes
      <4> QED BY <1>4, <3>4, <4>1
    <3>7. UNCHANGED <<full, session, journal, up, down>>
      BY <1>3
    <3>8. \A k \in 1 .. Len(back) :
            back[k] = [kind |-> "released", peer |-> held[at[k]].peer, frame |-> held[at[k]].frame]
      BY <1>5
    <3>9. (\A j, k \in 1 .. Len(back) : j < k => at[j] < at[k]) /\ back \in Seq(Event)
      BY <1>4, <1>6
    <3>10. TakesBack(v, q, d, back, at)
      BY ONLY <1>7, <1>8, <1>12, <2>1, <3>1, <3>2, <3>3, <3>5, <3>6, <3>7, <3>8, <3>9 DEF TakesBack
    <3> QED BY <3>10, ClaimLine
  <2>3. CASE d \notin taken
    <3>1. Whole(q, d)' => Whole(q, d)
      BY <1>3, <1>7, LineTypes, <1>1 DEF Whole
    <3>2. Keeps(held, held', Waiting(q, d))
      <4>1. \A k \in DOMAIN held : held[k] \in Waiting(q, d) => k \in DOMAIN held \ claimed
        BY <1>4, <2>3 DEF Waiting
      <4>2. \A R : (\A k \in DOMAIN held : held[k] \in R => k \in DOMAIN held \ claimed) => Keeps(held, held', R)
        BY <1>1, <1>3, <1>4, HeldPicked
      <4> QED BY <4>1, <4>2
    <3>3. Keeps(chan[VaultFor(d)], chan'[VaultFor(d)], Carried(q, d))
      <4>1. CASE VaultFor(d) = v
        <5>1. \A k \in 1 .. Len(back) : back[k] \notin Carried(q, d)
          BY <1>13, <2>3 DEF Carried
        <5>2. Keeps(chan[v], back \o chan[v], Carried(q, d))
          BY ONLY <1>4, <1>8, <5>1, KeepsMore
        <5> QED BY <1>8, <4>1, <5>2
      <4>2. CASE VaultFor(d) # v
        BY <1>1, <1>7, <4>2, LineTypes, KeepsSame
      <4> QED BY <4>1, <4>2
    <3>4. Keeps(down[q], down'[q], Answers(d)) /\ Keeps(up[q], up'[q], About(d))
      BY <1>1, <1>3, LineTypes, KeepsSame
    <3> QED BY <1>1, <1>3, <2>1, <3>1, <3>2, <3>3, <3>4, LineKeeps
  <2> QED BY <2>2, <2>3
<1>18. \A q \in Peers, d \in Docs : LineInv(q, d)'
  BY <1>17 DEF LineInv
<1>19. AckedIsStored'
  BY <1>3 DEF Ordered, AckedIsStored
<1> QED BY <1>14, <1>15, <1>16, <1>18, <1>19 DEF Ordered

\* What the handling of a frame is to the window it came from.
Handled(v, p, d, f, h) ==
  /\ VaultFor(d) = v /\ f.doc = d /\ chan[v] # <<>> /\ chan'[v] = Tail(chan[v])
  /\ chan[v][1].peer = p /\ chan[v][1].frame = f
  /\ (chan[v][1].kind = "released" /\ h = 1) \/ (chan[v][1].kind = "frame" /\ h = SentAt(d))
  /\ conn[p[1]] = p /\ SameWindow(p[1], d)
  /\ UNCHANGED <<held, session, up>>
  /\ f.items \subseteq journal'[v] /\ journal[v] \subseteq journal'[v]
  /\ engine[v] \in {"new", "running"} /\ full \subseteq full'
  /\ \/ down'[p] = down[p]
     \/ f.ask /\ p \notin full /\ session[p].at \in Live /\ \E g \in Frame : down'[p] = Append(down[p], g)
  /\ h # 1 /\ p \notin full /\ session[p].at \in Live =>
       \A k \in DOMAIN held : held[k].peer = p /\ held[k].frame.doc = d => d \notin Vaults

LEMMA HandledLine ==
  ASSUME RelayInv, TypeOK', Ordered, NEW v \in Vaults, NEW p \in Peers, NEW d \in Docs, NEW f \in Frame, NEW h,
         Handled(v, p, d, f, h)
  PROVE  LineInv(p, d)'
<1>0. /\ VaultFor(d) = v /\ f.doc = d /\ chan[v] # <<>> /\ chan'[v] = Tail(chan[v])
      /\ chan[v][1].peer = p /\ chan[v][1].frame = f
      /\ (chan[v][1].kind = "released" /\ h = 1) \/ (chan[v][1].kind = "frame" /\ h = SentAt(d))
      /\ conn[p[1]] = p /\ SameWindow(p[1], d)
      /\ UNCHANGED <<held, session, up>>
      /\ f.items \subseteq journal'[v] /\ journal[v] \subseteq journal'[v]
      /\ engine[v] \in {"new", "running"} /\ full \subseteq full'
  BY DEF Handled
<1>1. /\ TypeOK /\ EngineInv(v) /\ chan[v] \in Seq(Event) /\ down[p] \in Seq(Frame) /\ LineInv(p, d)
      /\ journal[VaultFor(d)] \subseteq journal'[VaultFor(d)]
  BY <1>0, LineTypes DEF RelayInv, Ordered
<1>2. PICK n : n = Len(down[p]) + 1
  OBVIOUS
<1>3. /\ n \in Nat \ {0} /\ DOMAIN down[p] = 1 .. n - 1 /\ n \notin DOMAIN down[p]
      /\ h \in {1, SentAt(d)} /\ SentAt(d) \in {2, 3} /\ HeldAt(d) \in {2, 3} /\ SentAt(d) # HeldAt(d)
  BY <1>0, <1>1, <1>2 DEF SentAt, HeldAt
<1>4. /\ \A x \in Place : x[1] \in 0 .. 5 /\ x[2] \in Nat /\ x = <<x[1], x[2]>>
      /\ \A j \in 0 .. 5, k \in Nat : <<j, k>> \in Place /\ <<j, k>>[1] = j /\ <<j, k>>[2] = k
  BY DEF Place
<1>5. PICK head, new : head = <<h, 1>> /\ new = <<0, n>>
  OBVIOUS
<1>6. head \in Place /\ head[1] = h /\ head[2] = 1 /\ new \in Place /\ new[1] = 0 /\ new[2] = n
  BY <1>3, <1>4, <1>5
<1>7. PICK m : m = [x \in Place |-> IF x = new THEN head
                                    ELSE IF x[1] \in {1, SentAt(d)} THEN <<x[1], x[2] + 1>> ELSE x]
  OBVIOUS
<1>8. /\ m[new] = head
      /\ \A x \in Place : x # new /\ x[1] \in {1, SentAt(d)} => m[x] = <<x[1], x[2] + 1>>
      /\ \A x \in Place : x # new /\ x[1] \notin {1, SentAt(d)} => m[x] = x
  BY <1>6, <1>7
<1>9. ASSUME NEW k \in DOMAIN down'[p]
      PROVE  \/ k \in DOMAIN down[p] /\ down'[p][k] = down[p][k]
             \/ k = n /\ f.ask /\ p \notin full /\ session[p].at \in Live
  <2>1. \/ down'[p] = down[p]
        \/ f.ask /\ p \notin full /\ session[p].at \in Live /\ \E g \in Frame : down'[p] = Append(down[p], g)
    BY DEF Handled
  <2> QED BY <1>1, <1>2, <1>9, <2>1
<1>10. /\ \A k \in DOMAIN chan'[v] : k \in Nat \ {0} /\ k + 1 \in DOMAIN chan[v] /\ chan'[v][k] = chan[v][k + 1]
       /\ \A k \in DOMAIN chan[v] : k \in Nat \ {0} /\ (k # 1 => k - 1 \in DOMAIN chan'[v] /\ k = (k - 1) + 1)
       /\ 1 \in DOMAIN chan[v]
  BY <1>0, <1>1
<1>11. ASSUME NEW k, NEW kind, NEW g, InChan(v, p, k, kind, g)'
       PROVE  k \in Nat \ {0} /\ InChan(v, p, k + 1, kind, g)
  <2>1. k \in DOMAIN chan'[v] /\ chan'[v][k].kind = kind /\ chan'[v][k].peer = p /\ chan'[v][k].frame = g
    BY <1>11 DEF InChan
  <2> QED BY <1>10, <2>1 DEF InChan
<1>12. ASSUME NEW k, NEW kind, NEW g, InChan(v, p, k, kind, g), k # 1
       PROVE  k \in Nat /\ k - 1 \in Nat /\ k = (k - 1) + 1 /\ InChan(v, p, k - 1, kind, g)'
  <2>1. k \in DOMAIN chan[v] /\ chan[v][k].kind = kind /\ chan[v][k].peer = p /\ chan[v][k].frame = g
    BY <1>12 DEF InChan
  <2>2. k \in Nat \ {0} /\ k - 1 \in DOMAIN chan'[v] /\ k = (k - 1) + 1
    BY <1>10, <1>12, <2>1
  <2>3. chan'[v][k - 1] = chan[v][k]
    BY <1>10, <2>2
  <2> QED BY <2>1, <2>2, <2>3 DEF InChan
\* What stands at a new place, and where it was.
<1>13. ASSUME NEW x \in Place, NEW g \in Frame, Stands(p, d, x, g)', x # new
       PROVE  m[x] \in Place /\ m[x][1] = x[1] /\ m[x] # head /\ Stands(p, d, m[x], g)
  <2>1. g.doc = d
    BY <1>13 DEF Stands
  <2>2. CASE x[1] = 1
    <3>1. x[2] \in Nat \ {0} /\ InChan(v, p, x[2] + 1, "released", g)
      BY <1>0, <1>3, <1>11, <1>13, <2>2 DEF Stands
    <3>2. m[x] = <<1, x[2] + 1>> /\ m[x] \in Place /\ m[x][1] = 1 /\ m[x][2] = x[2] + 1
      BY <1>4, <1>8, <1>13, <2>2, <3>1
    <3> QED BY <1>0, <1>6, <2>1, <2>2, <3>1, <3>2 DEF Stands
  <2>3. CASE x[1] = SentAt(d)
    <3>1. x[2] \in Nat \ {0} /\ InChan(v, p, x[2] + 1, "frame", g)
      BY <1>0, <1>3, <1>11, <1>13, <2>3 DEF Stands
    <3>2. m[x] = <<SentAt(d), x[2] + 1>> /\ m[x] \in Place /\ m[x][1] = SentAt(d) /\ m[x][2] = x[2] + 1
      BY <1>3, <1>4, <1>8, <1>13, <2>3, <3>1
    <3> QED BY <1>0, <1>6, <2>1, <2>3, <3>1, <3>2 DEF Stands
  <2>4. CASE x[1] \notin {1, SentAt(d)}
    <3>1. m[x] = x /\ x # head
      BY <1>3, <1>6, <1>8, <1>13, <2>4
    <3>2. CASE x[1] = 0
      <4>1. x[2] \in DOMAIN down'[p] /\ down'[p][x[2]] = g
        BY <1>3, <1>13, <3>2 DEF Stands
      <4>2. x[2] # n
        BY <1>4, <1>5, <1>13, <3>2
      <4> QED BY <1>9, <2>1, <3>1, <3>2, <4>1, <4>2 DEF Stands
    <3>3. CASE x[1] # 0
      BY <1>0, <1>13, <2>1, <2>4, <3>1, <3>3 DEF Stands
    <3> QED BY <3>2, <3>3
  <2> QED BY <2>2, <2>3, <2>4
\* Where what stood behind the head is.
<1>14. ASSUME NEW y \in Place, NEW g \in Frame, Stands(p, d, y, g), y[1] > 0, y # head
       PROVE  \E z \in Place : z[1] = y[1] /\ z # new /\ Stands(p, d, z, g)' /\ m[z] = y
  <2>1. g.doc = d
    BY <1>14 DEF Stands
  <2>2. ASSUME y[1] \in {1, SentAt(d)}, y[2] \in Nat, y[2] - 1 \in Nat, y[2] = (y[2] - 1) + 1,
               \/ y[1] = 1 /\ InChan(v, p, y[2] - 1, "released", g)'
               \/ y[1] = SentAt(d) /\ InChan(v, p, y[2] - 1, "frame", g)'
        PROVE  \E z \in Place : z[1] = y[1] /\ z # new /\ Stands(p, d, z, g)' /\ m[z] = y
    <3>1. PICK z : z = <<y[1], y[2] - 1>>
      OBVIOUS
    <3>2. z \in Place /\ z[1] = y[1] /\ z[2] = y[2] - 1 /\ z # new
      BY <1>3, <1>4, <1>6, <2>2, <3>1
    <3>3. m[z] = <<z[1], z[2] + 1>>
      BY <1>8, <2>2, <3>2
    <3>4. m[z] = y
      BY <1>4, <2>2, <3>2, <3>3
    <3>5. Stands(p, d, z, g)'
      BY <1>0, <2>1, <2>2, <3>2 DEF Stands, SentAt
    <3> QED BY <3>2, <3>4, <3>5
  <2>3. CASE y[1] = 1
    <3>1. InChan(v, p, y[2], "released", g)
      BY <1>0, <1>3, <1>14, <2>3 DEF Stands
    <3>2. y[2] # 1
      <4> SUFFICES ASSUME y[2] = 1 PROVE FALSE
        OBVIOUS
      <4>1. h = 1
        BY <1>0, <3>1 DEF InChan
      <4> QED BY <1>4, <1>5, <1>14, <2>3, <4>1
    <3> QED BY <1>12, <2>2, <2>3, <3>1, <3>2
  <2>4. CASE y[1] = SentAt(d)
    <3>1. InChan(v, p, y[2], "frame", g)
      BY <1>0, <1>3, <1>14, <2>4 DEF Stands
    <3>2. y[2] # 1
      <4> SUFFICES ASSUME y[2] = 1 PROVE FALSE
        OBVIOUS
      <4>1. h = SentAt(d)
        BY <1>0, <3>1 DEF InChan
      <4> QED BY <1>4, <1>5, <1>14, <2>4, <4>1
    <3> QED BY <1>12, <2>2, <2>4, <3>1, <3>2
  <2>5. CASE y[1] \notin {1, SentAt(d)}
    <3>1. m[y] = y /\ y # new
      BY <1>6, <1>8, <1>14, <2>5
    <3>2. Stands(p, d, y, g)'
      BY <1>0, <1>4, <1>14, <2>1, <2>5 DEF Stands, SentAt, HeldAt
    <3> QED BY <3>1, <3>2
  <2> QED BY <2>3, <2>4, <2>5
<1>15. /\ Stands(p, d, head, f)
       /\ \A g \in Frame : Stands(p, d, head, g) => g = f
  <2>1. \A g \in Frame : Stands(p, d, head, g) => InChan(v, p, 1, "released", g) \/ InChan(v, p, 1, "frame", g)
    BY <1>0, <1>3, <1>6 DEF Stands
  <2>2. InChan(v, p, 1, chan[v][1].kind, f)
    BY <1>0, <1>10 DEF InChan
  <2>3. \A g \in Frame : Stands(p, d, head, g) => g = f
    BY <1>0, <2>1 DEF InChan
  <2>4. Stands(p, d, head, f)
    BY <1>0, <1>6, <2>2 DEF Stands
  <2> QED BY <2>3, <2>4
<1>16. ASSUME NEW x \in Place, NEW g \in Frame, Stands(p, d, x, g)', x = new
       PROVE  /\ f.ask /\ Whole(p, d)
              /\ \A i : \A y \in Brings(p, d, i) : ~ Before(y, head)
  <2>1. n \in DOMAIN down'[p]
    BY <1>3, <1>6, <1>16 DEF Stands
  <2>2. f.ask /\ p \notin full /\ session[p].at \in Live
    BY <1>3, <1>9, <2>1
  <2>3. Whole(p, d)
    BY <1>0, <2>2 DEF Whole
  <2>4. ASSUME NEW i, NEW y \in Brings(p, d, i), Before(y, head) PROVE FALSE
    <3>1. PICK e \in Frame : Stands(p, d, y, e) /\ y \in Place /\ y[1] > 0
      BY <2>4 DEF Brings
    <3>2. y[1] \in Nat /\ y[2] \in Nat
      BY <1>4, <3>1
    <3>3. CASE y[1] = 1
      <4>1. InChan(v, p, y[2], "released", e)
        BY <1>0, <1>3, <3>1, <3>3 DEF Stands
      <4>2. y[2] \in Nat \ {0} /\ y[2] \in DOMAIN chan[v] /\ chan[v][y[2]].kind = "released"
        BY <1>10, <4>1 DEF InChan
      <4>3. chan[v][1].kind = "released"
        BY <1>1, <4>2 DEF EngineInv
      <4> QED BY <1>0, <1>6, <2>4, <3>2, <3>3, <4>2, <4>3 DEF Before
    <3>4. CASE y[1] = SentAt(d)
      <4>1. InChan(v, p, y[2], "frame", e)
        BY <1>0, <1>3, <3>1, <3>4 DEF Stands
      <4>2. y[2] \in Nat \ {0}
        BY <1>10, <4>1 DEF InChan
      <4> QED BY <1>3, <1>6, <2>4, <3>2, <3>4, <4>2 DEF Before
    <3>5. CASE y[1] = HeldAt(d)
      <4>1. y[2] \in DOMAIN held /\ held[y[2]] = [peer |-> p, frame |-> e] /\ e.doc = d
        BY <1>3, <3>1, <3>5 DEF Stands
      <4>2. h # 1 /\ SentAt(d) > HeldAt(d)
        BY <1>3, <1>6, <2>4, <3>2, <3>5 DEF Before
      <4>3. d \in Vaults
        BY <4>2 DEF SentAt, HeldAt
      <4>4. held[y[2]].peer = p /\ held[y[2]].frame.doc = d
        BY <4>1
      <4>5. d \notin Vaults
        BY <2>2, <4>1, <4>2, <4>4 DEF Handled
      <4> QED BY <4>3, <4>5
    <3>6. CASE y[1] \in {4, 5}
      BY <1>3, <1>6, <2>4, <3>6 DEF Before
    <3> QED BY <1>3, <1>4, <3>1, <3>3, <3>4, <3>5, <3>6
  <2> QED BY <2>2, <2>3, <2>4

<1>17. ASSUME NEW x \in Asks(p, d)'
       PROVE  /\ x \in Place /\ m[x] \in Place /\ m[x] \in Asks(p, d)
              /\ x # new => m[x][1] = x[1] /\ m[x] # head
              /\ x = new => Whole(p, d) /\ \A i : \A y \in Brings(p, d, i) : ~ Before(y, m[x])
  <2>1. PICK g \in Frame : Stands(p, d, x, g)' /\ g.ask /\ x \in Place
    BY DEF Asks
  <2>2. CASE x = new
    <3>1. f.ask /\ Whole(p, d) /\ m[x] = head /\ \A i : \A y \in Brings(p, d, i) : ~ Before(y, head)
      BY <1>8, <1>16, <2>1, <2>2
    <3> QED BY <1>6, <1>15, <2>1, <2>2, <3>1 DEF Asks
  <2>3. CASE x # new
    <3>1. m[x] \in Place /\ m[x][1] = x[1] /\ m[x] # head /\ Stands(p, d, m[x], g)
      BY <1>13, <2>1, <2>3
    <3> QED BY <2>1, <2>3, <3>1 DEF Asks
  <2> QED BY <2>2, <2>3
<1>18. ASSUME NEW x \in Place, NEW y \in Place, x # new, y # new
       PROVE  /\ m[x][1] = x[1] /\ m[y][1] = y[1]
              /\ m[x] = m[y] => x = y
              /\ Before(m[x], m[y]) => Before(x, y)
  <2>1. x[2] \in Nat /\ y[2] \in Nat /\ x[1] \in Nat /\ y[1] \in Nat /\ x = <<x[1], x[2]>> /\ y = <<y[1], y[2]>>
    BY <1>4
  <2>2. x[1] \in {1, SentAt(d)} \/ x[1] \notin {1, SentAt(d)}
    OBVIOUS
  <2>3. y[1] \in {1, SentAt(d)} \/ y[1] \notin {1, SentAt(d)}
    OBVIOUS
  <2>4. /\ x[1] \in {1, SentAt(d)} => m[x] = <<x[1], x[2] + 1>>
        /\ x[1] \notin {1, SentAt(d)} => m[x] = x
        /\ y[1] \in {1, SentAt(d)} => m[y] = <<y[1], y[2] + 1>>
        /\ y[1] \notin {1, SentAt(d)} => m[y] = y
    BY <1>8, <1>18
  <2>5. /\ m[x][1] = x[1] /\ m[x][2] = IF x[1] \in {1, SentAt(d)} THEN x[2] + 1 ELSE x[2]
        /\ m[y][1] = y[1] /\ m[y][2] = IF y[1] \in {1, SentAt(d)} THEN y[2] + 1 ELSE y[2]
    BY <2>4
  <2> QED BY <2>1, <2>5 DEF Before
<1>19. \A x \in Asks(p, d)' :
         /\ m[x] \in Asks(p, d)
         /\ x[1] = 0 => \/ m[x][1] = 0
                        \/ Whole(p, d) /\ \A i : \A y \in Brings(p, d, i) : ~ Before(y, m[x])
  BY <1>17
<1>20. \A x, y \in Asks(p, d)' : m[x] = m[y] => x = y
  <2> TAKE x, y \in Asks(p, d)'
  <2> HAVE m[x] = m[y]
  <2>1. x \in Place /\ y \in Place /\ (x # new => m[x] # head) /\ (y # new => m[y] # head)
    BY <1>17
  <2>2. x = new <=> y = new
    BY <1>8, <2>1
  <2> QED BY <1>18, <2>1, <2>2
<1>21. ASSUME Whole(p, d)', d \in synced[p[1]]
       PROVE  /\ Whole(p, d)
              /\ \A i : \A y \in Brings(p, d, i) :
                   \/ i \in journal'[VaultFor(d)]
                   \/ \E z \in Brings(p, d, i)' : \A x \in Asks(p, d)' : Before(y, m[x]) => Before(z, x)
  <2>1. Whole(p, d)
    BY <1>0, <1>21 DEF Whole
  <2>2. ASSUME NEW i, NEW y \in Brings(p, d, i)
        PROVE  \/ i \in journal'[VaultFor(d)]
               \/ \E z \in Brings(p, d, i)' : \A x \in Asks(p, d)' : Before(y, m[x]) => Before(z, x)
    <3>1. PICK g \in Frame : Stands(p, d, y, g) /\ i \in g.items /\ y \in Place /\ y[1] > 0
      BY <2>2 DEF Brings
    <3>2. CASE y = head
      BY <1>0, <1>15, <3>1, <3>2
    <3>3. CASE y # head
      <4>1. PICK z \in Place : z[1] = y[1] /\ z # new /\ Stands(p, d, z, g)' /\ m[z] = y
        BY <1>14, <3>1, <3>3
      <4>2. z \in Brings(p, d, i)'
        BY <3>1, <4>1 DEF Brings
      <4>3. ASSUME NEW x \in Asks(p, d)', Before(y, m[x]) PROVE Before(z, x)
        <5>1. x # new
          BY <1>17, <2>2, <4>3
        <5> QED BY <1>17, <1>18, <4>1, <4>3, <5>1
      <4> QED BY <4>2, <4>3
    <3> QED BY <3>2, <3>3
  <2> QED BY <2>1, <2>2
<1>22. Whole(p, d)' /\ d \in synced[p[1]] =>
         /\ Whole(p, d)
         /\ \A i : \A y \in Brings(p, d, i) :
              \/ i \in journal'[VaultFor(d)]
              \/ \E z \in Brings(p, d, i)' : \A x \in Asks(p, d)' : Before(y, m[x]) => Before(z, x)
  BY <1>21
<1>23. /\ LineInv(p, d) /\ conn[p[1]] = p /\ SameWindow(p[1], d)
       /\ journal[VaultFor(d)] \subseteq journal'[VaultFor(d)]
  BY <1>0, <1>1
<1> QED BY ONLY RelayInv, p \in Peers, d \in Docs, <1>19, <1>20, <1>22, <1>23, LineMoves

LEMMA HandleOrder ==
  ASSUME RelayInv, RelayInv', Ordered, NEW v \in Vaults, HandleFrame(v)
  PROVE  Ordered'
<1>1. TypeOK /\ TypeOK' /\ reg \subseteq Vaults /\ EngineInv(v)
  BY DEF RelayInv, TypeOK
<1>2. PICK f \in Frame, p \in Peers, news \in SUBSET Items, adopted \in SUBSET Notes, loaded \in SUBSET Items :
        HandlesFrame(v, f, p, news, adopted, loaded)
  BY <1>1, HandleFrameIs
<1>3. /\ chan[v] # <<>> /\ f = Head(chan[v]).frame /\ p = Head(chan[v]).peer /\ news = f.items \ memory[v]
      /\ IF Head(chan[v]).kind = "released" THEN engine[v] = "running"
         ELSE Head(chan[v]).kind = "frame" /\ Listens(v)
      /\ Busy(v)
      /\ UNCHANGED <<reg, owner, held, session, conn, open, mine, synced, probe, acked, up>>
      /\ chan' = [chan EXCEPT ![v] = Tail(@)]
      /\ journal' = [journal EXCEPT ![v] = @ \cup news]
      /\ dirty' = [dirty EXCEPT ![v] = @ \/ adopted # {}]
  BY <1>2 DEF HandlesFrame, windows
<1>4. /\ \A u \in Vaults \ {v} : chan'[u] = chan[u]
      /\ chan'[v] = Tail(chan[v]) /\ 1 \in DOMAIN chan[v] /\ Head(chan[v]) = chan[v][1]
      /\ \A u \in Vaults : \A k \in DOMAIN chan'[u] : \E j \in DOMAIN chan[u] : chan'[u][k] = chan[u][j]
      /\ \A R : Head(chan[v]) \notin R => Keeps(chan[v], chan'[v], R)
  BY <1>1, <1>3, TailFrames
<1>5. OfDoc(f) /\ f.doc \in Docs /\ VaultFor(f.doc) = v /\ chan[v][1].kind \in {"frame", "released"}
  BY <1>2, <1>3, <1>4, FrameTypes DEF Ordered, FramesInv
<1>6. /\ v \in reg /\ engine[v] \in {"new", "running"} /\ engine'[v] = "running"
      /\ \A u \in Vaults \ {v} : engine'[u] = engine[u]
  BY <1>1, <1>3 DEF Listens, Busy, EngineInv, TypeOK
<1>7. /\ journal'[v] = journal[v] \cup news /\ \A u \in Vaults \ {v} : journal'[u] = journal[u]
      /\ memory[v] \subseteq journal[v] /\ f.items \subseteq journal'[v]
      /\ \A u \in Vaults : journal[u] \subseteq journal'[u]
  BY <1>1, <1>3 DEF EngineInv, TypeOK
<1>8. /\ full \subseteq full'
      /\ \A q \in Peers :
           \/ down'[q] = down[q]
           \/ /\ q \notin full /\ session[q].at \in Live
              /\ \E g \in Frame :
                   /\ down'[q] = Append(down[q], g) /\ g.doc = f.doc /\ g.items \in SUBSET Items
                   /\ IF q = p THEN f.ask /\ g.items \subseteq memory[v] ELSE ~ g.ask
  <2>1. /\ \A ps, g : Deliver(ps, g) => full \subseteq full'
        /\ \A ps, g : Deliver(ps, g) => \A q \in Peers :
             down'[q] = down[q] \/ (q \in ps /\ q \notin full /\ session[q].at \in Live /\ down'[q] = Append(down[q], g))
    BY DEF Deliver, Live
  <2>2. PICK answer : answer = [doc |-> f.doc, ask |-> TRUE, items |-> Part(memory[v], f.doc)]
    OBVIOUS
  <2>3. answer \in Frame /\ answer.doc = f.doc /\ answer.items \subseteq memory[v] /\ answer.items \in SUBSET Items
    BY <1>1, <1>5, <2>2 DEF Frame, Part, TypeOK
  <2>4. PICK update : update = Update(f.doc, f.items)
    OBVIOUS
  <2>5. update \in Frame /\ update.doc = f.doc /\ ~ update.ask /\ update.items \in SUBSET Items
    BY <1>5, <2>4, FrameTypes DEF Update, Frame
  <2>6. \/ f.ask /\ Deliver({p} \cap known[v], answer)
        \/ ~ f.ask /\ \E ps \in SUBSET (known[v] \ {p}) : Deliver(ps, update)
        \/ ~ f.ask /\ UNCHANGED <<down, full>>
    BY <1>2, <2>2, <2>4 DEF HandlesFrame
  <2>7. CASE f.ask /\ Deliver({p} \cap known[v], answer)
    <3>1. \A q \in Peers : down'[q] = down[q] \/ (q = p /\ q \notin full /\ session[q].at \in Live /\ down'[q] = Append(down[q], answer))
      BY <2>1, <2>7
    <3> QED BY <2>1, <2>3, <2>7, <3>1
  <2>8. CASE ~ f.ask /\ \E ps \in SUBSET (known[v] \ {p}) : Deliver(ps, update)
    <3>1. \A q \in Peers : down'[q] = down[q] \/ (q # p /\ q \notin full /\ session[q].at \in Live /\ down'[q] = Append(down[q], update))
      BY <2>1, <2>8
    <3> QED BY <2>1, <2>5, <2>8, <3>1
  <2> QED BY <2>6, <2>7, <2>8
<1>9. FramesInv'
  <2>1. \A u \in Vaults : \A k \in DOMAIN chan'[u] : chan'[u][k].kind \in {"frame", "released"} =>
          OfDoc(chan'[u][k].frame) /\ VaultFor(chan'[u][k].frame.doc) = u
    BY <1>4 DEF Ordered, FramesInv
  <2>2. ASSUME NEW q \in Peers, NEW k \in DOMAIN down'[q], down'[q][k].ask
        PROVE  down'[q][k].items \subseteq journal'[VaultFor(down'[q][k].doc)]
    <3>1. down[q] \in Seq(Frame) /\ down'[q] \in Seq(Frame)
      BY <1>1 DEF TypeOK
    <3>2. CASE k \in DOMAIN down[q] /\ down'[q][k] = down[q][k]
      <4>1. down[q][k] \in Frame
        BY <3>1, <3>2, Among
      <4>2. VaultFor(down[q][k].doc) \in Vaults
        BY <1>1, <4>1, FrameTypes, LineTypes
      <4> QED BY <1>7, <2>2, <3>2, <4>2 DEF Ordered, FramesInv
    <3>3. CASE ~ (k \in DOMAIN down[q] /\ down'[q][k] = down[q][k])
      <4>1. PICK g \in Frame : /\ down'[q] = Append(down[q], g) /\ g.doc = f.doc
                               /\ IF q = p THEN f.ask /\ g.items \subseteq memory[v] ELSE ~ g.ask
        BY <1>8, <3>3
      <4>2. down'[q][k] = g
        BY <3>1, <3>3, <4>1
      <4> QED BY <1>5, <1>7, <2>2, <4>1, <4>2
    <3> QED BY <3>2, <3>3
  <2> QED BY <1>3, <2>1, <2>2 DEF Ordered, FramesInv
<1>10. ClaimsInv'
  <2>1. ASSUME NEW i \in news, i[2] = "entry" PROVE Home[i[1]] = v
    <3>1. i \in f.items /\ i \in Items
      BY <1>2, <1>3
    <3>2. DocOf(i) = f.doc /\ DocOf(i) = Home[i[1]] /\ Home[i[1]] \in Vaults
      BY <1>5, <2>1, <3>1, ItemTypes, RelayAssumption DEF OfDoc, DocOf
    <3> QED BY <1>5, <3>2 DEF VaultFor
  <2>2. \A u \in Vaults : \A i \in journal'[u] : i[2] = "entry" => Home[i[1]] = u
    BY <1>7, <2>1 DEF Ordered, ClaimsInv
  <2> QED BY <1>3, <2>2 DEF Ordered, ClaimsInv
\* A frame the window sent is handled when none it sent before is held.
<1>11. ASSUME NEW q \in Peers, HeldFor(q, v), q \notin full, session[q].at \in Live
       PROVE  dirty[v] /\ chan[v][1].kind = "released"
  <2>1. AboutToClaim(v)
    BY <1>6, <1>11 DEF HeldFor
  <2> QED BY <1>3, <1>4, <1>5, <2>1 DEF AboutToClaim, Listens
<1>12. HeldInv'
  <2>1. ASSUME NEW q \in Peers, NEW d \in Docs, HeldFor(q, d) PROVE HeldFor(q, d)'
    <3>1. CASE d = v
      <4>1. ASSUME q \notin full', session[q].at \in Live PROVE AboutToClaim(v)'
        <5>1. dirty[v]
          BY <1>8, <1>11, <2>1, <3>1, <4>1
        <5>2. dirty'[v]
          BY <1>1, <1>3, <5>1 DEF TypeOK
        <5> QED BY <1>6, <5>2 DEF AboutToClaim
      <4> QED BY <1>3, <2>1, <3>1, <4>1 DEF HeldFor
    <3>2. CASE d # v
      <4>1. d \in reg => d \in Vaults \ {v}
        BY <1>1, <3>2
      <4>2. d \in reg /\ AboutToClaim(d) => AboutToClaim(d)'
        BY <1>3, <1>4, <1>6, <4>1 DEF AboutToClaim
      <4>3. d \in reg => engine'[d] = engine[d]
        BY <1>6, <4>1
      <4> QED BY <1>3, <1>8, <2>1, <4>2, <4>3 DEF HeldFor
    <3> QED BY <3>1, <3>2
  <2> QED BY <1>1, <1>3, <2>1, HeldStays DEF Ordered
<1>13. ASSUME NEW q \in Peers, NEW d \in Docs, conn'[q[1]] = q PROVE LineInv(q, d)'
  <2>1. SameWindow(q[1], d) /\ SameHolding(q, d) /\ LineInv(q, d) /\ conn[q[1]] = q
    BY <1>3, <1>13, PeerTypes, Untouched DEF SameHolding, Ordered
  <2>2. CASE q = p /\ d = f.doc
    <3>1. PICK h : h = IF chan[v][1].kind = "released" THEN 1 ELSE SentAt(d)
      OBVIOUS
    <3>2. (chan[v][1].kind = "released" /\ h = 1) \/ (chan[v][1].kind = "frame" /\ h = SentAt(d))
      BY <1>5, <3>1
    <3>3. h # 1 /\ p \notin full /\ session[p].at \in Live =>
            \A k \in DOMAIN held : held[k].peer = p /\ held[k].frame.doc = d => d \notin Vaults
      <4> SUFFICES ASSUME h # 1, p \notin full, session[p].at \in Live,
                          NEW k \in DOMAIN held, held[k].peer = p, held[k].frame.doc = d, d \in Vaults
                   PROVE  FALSE
        OBVIOUS
      <4>1. d = v
        BY <1>5, <2>2 DEF VaultFor
      <4>2. HeldFor(p, v)
        BY <4>1 DEF Ordered, HeldInv
      <4> QED BY <1>11, <3>1, <4>2
    <3>4. \/ down'[p] = down[p]
          \/ f.ask /\ p \notin full /\ session[p].at \in Live /\ \E g \in Frame : down'[p] = Append(down[p], g)
      BY <1>8
    <3>5. Handled(v, p, d, f, h)
      BY <1>3, <1>4, <1>5, <1>6, <1>7, <1>8, <2>1, <2>2, <3>2, <3>3, <3>4 DEF Handled
    <3> QED BY <1>1, <2>2, <3>5, HandledLine
  <2>3. CASE ~ (q = p /\ d = f.doc)
    <3>1. Whole(q, d)' => Whole(q, d)
      <4>1. VaultFor(d) \in Vaults
        BY <1>1, LineTypes
      <4> QED BY <1>6, <1>8, <4>1 DEF Whole
    <3>2. Keeps(chan[VaultFor(d)], chan'[VaultFor(d)], Carried(q, d))
      <4>1. CASE VaultFor(d) = v
        <5>1. Head(chan[v]) \notin Carried(q, d)
          BY <1>3, <2>3 DEF Carried
        <5> QED BY <1>4, <4>1, <5>1
      <4>2. CASE VaultFor(d) # v
        BY <1>1, <1>4, <4>2, LineTypes, KeepsSame
      <4> QED BY <4>1, <4>2
    <3>3. Keeps(down[q], down'[q], Answers(d))
      <4>1. CASE down'[q] = down[q]
        BY <1>1, <4>1, LineTypes, KeepsSame
      <4>2. CASE down'[q] # down[q]
        <5>1. PICK g \in Frame : down'[q] = Append(down[q], g) /\ g.doc = f.doc /\ (q # p => ~ g.ask)
          BY <1>8, <4>2
        <5>2. g \notin Answers(d)
          BY <2>3, <5>1 DEF Answers
        <5>3. down[q] \in Seq(Frame)
          BY <1>1 DEF TypeOK
        <5> QED BY <5>1, <5>2, <5>3, KeepsOneMore
      <4> QED BY <4>1, <4>2
    <3>4. Keeps(held, held', Waiting(q, d)) /\ Keeps(up[q], up'[q], About(d))
      BY <1>1, <1>3, LineTypes, KeepsSame
    <3>5. journal[VaultFor(d)] \subseteq journal'[VaultFor(d)]
      BY <1>1, <1>7, LineTypes
    <3> QED BY <1>1, <2>1, <3>1, <3>2, <3>3, <3>4, <3>5, LineKeeps
  <2> QED BY <2>2, <2>3
<1>14. \A q \in Peers, d \in Docs : LineInv(q, d)'
  BY <1>13 DEF LineInv
<1>15. AckedIsStored'
  <2>1. ASSUME NEW w \in Windows, NEW i \in acked'[w] PROVE i \in journal'[VaultOf(i)]
    <3>1. i \in acked[w] /\ i \in Items
      BY <1>1, <1>3, <2>1 DEF TypeOK
    <3>2. VaultOf(i) \in Vaults /\ i \in journal[VaultOf(i)]
      BY <3>1, ItemTypes, RelayAssumption DEF Ordered, AckedIsStored, VaultOf
    <3> QED BY <1>7, <3>2
  <2> QED BY <2>1 DEF AckedIsStored
<1> QED BY <1>9, <1>10, <1>12, <1>14, <1>15 DEF Ordered

-----------------------------------------------------------------------------
(* What a window is told *)

LEMMA OrderInit ==
  ASSUME Init
  PROVE  Ordered
<1>1. /\ held = <<>> /\ \A v \in Vaults : chan[v] = <<>> /\ journal[v] = {}
      /\ \A p \in Peers : up[p] = <<>> /\ down[p] = <<>> /\ session[p].at = "free"
      /\ \A w \in Windows : conn[w] = None /\ acked[w] = {}
      /\ \A n \in Notes : owner[n] = None
  BY DEF Init, Idle
<1>2. FramesInv /\ ClaimsInv /\ HeldInv
  BY <1>1 DEF FramesInv, ClaimsInv, HeldInv
<1>3. ASSUME NEW p \in Peers, NEW d \in Docs PROVE LineInv(p, d)
  <2>1. p[1] \in Windows /\ p # None
    BY PeerTypes, RelayAssumption DEF Peers
  <2> QED BY <1>1, <2>1 DEF LineInv
<1>4. AckedIsStored
  BY <1>1 DEF AckedIsStored
<1> QED BY <1>2, <1>3, <1>4 DEF Ordered

LEMMA OrderSame ==
  ASSUME Ordered, UNCHANGED vars
  PROVE  Ordered'
<1>1. UNCHANGED <<reg, owner, held, full, session, chan, engine, dirty, journal, conn, open, mine, synced, probe,
                  acked, up, down>>
  BY DEF vars, relay, engines, windows
<1>2. FramesInv' /\ ClaimsInv'
  BY <1>1 DEF Ordered, FramesInv, ClaimsInv
<1>3. HeldInv'
  BY <1>1 DEF Ordered, HeldInv, HeldFor, AboutToClaim
<1>4. ASSUME NEW p \in Peers, NEW d \in Docs PROVE LineInv(p, d)'
  <2>1. LineInv(p, d)
    BY DEF Ordered
  <2>2. Asks(p, d)' = Asks(p, d) /\ \A i : Brings(p, d, i)' = Brings(p, d, i)
    BY <1>1 DEF Asks, Brings, Stands, InChan, SentAt, HeldAt
  <2>3. Whole(p, d)' = Whole(p, d)
    BY <1>1 DEF Whole
  <2> QED BY <1>1, <2>1, <2>2, <2>3 DEF LineInv, AsksOnce, AsksLate, AllSent
<1>5. AckedIsStored'
  BY <1>1 DEF Ordered, AckedIsStored
<1> QED BY <1>2, <1>3, <1>4, <1>5 DEF Ordered

\* What was missed stays missed.
LEMMA OrderStep ==
  ASSUME RelayInv, RelayInv', OrderInv, [Next]_vars
  PROVE  OrderInv'
<1> SUFFICES ASSUME ~ missed' PROVE Ordered'
  BY DEF OrderInv
<1>0. missed \in BOOLEAN /\ missed' = FALSE
  BY DEF RelayInv, TypeOK
<1>1. CASE UNCHANGED vars
  <2>1. Ordered
    BY <1>1 DEF OrderInv, vars
  <2> QED BY <1>1, <2>1, OrderSame
<1>2. CASE \E w \in Windows : \/ Connect(w) \/ Receive(w) \/ (\E d \in Docs : Probe(w, d))
                              \/ (\E v \in Vaults : NewVault(w, v)) \/ (\E n \in Notes : CreateNote(w, n))
  <2>1. PICK w \in Windows : \/ Connect(w) \/ Receive(w) \/ (\E d \in Docs : Probe(w, d))
                            \/ (\E v \in Vaults : NewVault(w, v)) \/ (\E n \in Notes : CreateNote(w, n))
    BY <1>2
  <2>2. /\ Connect(w) => missed' = missed
        /\ Receive(w) => missed' = missed
        /\ \A d : Probe(w, d) => missed' = missed
        /\ \A v : NewVault(w, v) => missed' = missed
        /\ \A n : CreateNote(w, n) => missed' = missed
    <3>1. Connect(w) => missed' = missed
      BY DEF Connect
    <3>2. Receive(w) => missed' = missed
      BY DEF Receive
    <3>3. \A d : Probe(w, d) => missed' = missed
      BY DEF Probe
    <3>4. \A v : NewVault(w, v) => missed' = missed
      BY DEF NewVault
    <3>5. \A n : CreateNote(w, n) => missed' = missed
      BY DEF CreateNote
    <3> QED BY <3>1, <3>2, <3>3, <3>4, <3>5
  <2>3. Ordered
    BY <2>1, <2>2 DEF OrderInv
  <2> QED BY <2>1, <2>3, ConnectOrder, ReceiveOrder, ProbeOrder, NewVaultOrder, CreateNoteOrder
<1>3. CASE \E p \in Peers : List(p) \/ Announce(p) \/ Route(p) \/ Hold(p) \/ Unlist(p) \/ Farewell(p) \/ ForgetPeer(p)
  <2>1. PICK p \in Peers :
          List(p) \/ Announce(p) \/ Route(p) \/ Hold(p) \/ Unlist(p) \/ Farewell(p) \/ ForgetPeer(p)
    BY <1>3
  <2>2. List(p) \/ Announce(p) \/ Unlist(p) \/ Farewell(p) \/ ForgetPeer(p) => missed' = missed
    BY DEF List, Announce, Unlist, Farewell, ForgetPeer
  <2>3. Route(p) => \E b \in BOOLEAN : missed' = (missed \/ b)
    BY DEF Route
  <2>4. Hold(p) => \E b \in BOOLEAN : missed' = (missed \/ b)
    BY DEF Hold
  <2>5. Ordered
    BY <1>0, <2>1, <2>2, <2>3, <2>4 DEF OrderInv
  <2> QED BY <2>1, <2>5, ListOrder, PostedOrder, RouteOrder, HoldOrder, UnlistOrder, ForgetOrder
<1>4. CASE \E v \in Vaults : HearOfPeer(v) \/ HandleFrame(v) \/ SyncRoutes(v)
  <2>1. PICK v \in Vaults : HearOfPeer(v) \/ HandleFrame(v) \/ SyncRoutes(v)
    BY <1>4
  <2>2. HearOfPeer(v) => missed' = missed
    BY DEF HearOfPeer
  <2>3. HandleFrame(v) => \E b \in BOOLEAN : missed' = (missed \/ b)
    BY DEF HandleFrame
  <2>4. SyncRoutes(v) => \E b \in BOOLEAN : missed' = (missed \/ b)
    BY DEF SyncRoutes
  <2>5. Ordered
    BY <1>0, <2>1, <2>2, <2>3, <2>4 DEF OrderInv
  <2> QED BY <2>1, <2>5, HearOrder, HandleOrder, ClaimOrder
<1>5. CASE \E v \in Vaults : Renew(v) \/ Restart(v) \/ OpenVault(v) \/ Stop(v)
  <2>1. Ordered
    BY <1>5 DEF OrderInv, Renew, Restart, OpenVault, Stop
  <2> QED BY <1>5, <2>1, StopOrder, RestartOrder, OpenOrder
<1> QED BY <1>1, <1>2, <1>3, <1>4, <1>5 DEF Next, Work

(* What a window has been told its engine has, the store of the note's vault has, as long as no    *)
(* frame of it was missed: through the queues, the frames held for a claim, engines that stop and  *)
(* connections that end, an answer is about what the store of the document has (sync.ts: answered; *)
(* local.rs: route_frame, Routes::claim; client.rs: try_handle_frame, sync_routes).                *)
THEOREM AckedInOrderHolds == Spec => []AckedInOrder
<1>1. Init => OrderInv
  BY OrderInit DEF OrderInv
<1>2. RelayInv /\ RelayInv' /\ OrderInv /\ [Next]_vars => OrderInv'
  BY OrderStep
<1>3. OrderInv => AckedInOrder
  BY DEF OrderInv, Ordered, AckedInOrder
<1> QED BY <1>1, <1>2, <1>3, RelayAlways, PTL DEF Spec
=============================================================================
