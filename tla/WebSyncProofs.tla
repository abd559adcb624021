---------------------------- MODULE WebSyncProofs ----------------------------
(***************************************************************************)
(* A tab forgets no edit: NothingForgotten of WebSync.tla, proved for any  *)
(* number of edits, lost connections, closed tabs and changes of role.     *)
(*                                                                         *)
(* The mark is cleared when the server's answer to a question arrives      *)
(* after which nothing was sent.  Answers carry no question: they are      *)
(* counted, so the invariant says where in the two streams of frames the   *)
(* answer to each outstanding question is, or will be, and that what was   *)
(* sent before it is on the server, before it in the streams, or refused.  *)
(***************************************************************************)
EXTENDS WebSync, TLAPS

\* IndexedDB answers first, and no note is opened again with an answer under way (see README).
Calm == SlowCache = FALSE /\ Reopens = FALSE

\* The n answers that are to come are, in this order, at the places `at` of both streams.
Coming(at, n, line) ==
  /\ at \in [1 .. n -> 1 .. Len(line)]
  /\ \A i, j \in 1 .. n : i < j => at[i] < at[j]
  /\ \A p \in 1 .. Len(line) : line[p].kind = "step1" <=> \E i \in 1 .. n : at[i] = p

\* Before place p: an update that is sent, or that was refused.
Passes(op, d, u, p) ==
  \E q \in 1 .. Len(d) + Len(u) :
    /\ q < p
    /\ \/ q \in 1 .. Len(d) /\ d[q].kind = "denied"
       \/ q > Len(d) /\ u[q - Len(d)].kind = "update" /\ op \in u[q - Len(d)].ops

\* What entry e owes is on the server or gets there before place p, unless something was refused.
Clear(e, d, u, s, m, p) ==
  \A op \in m \cap e.doc : op \in s \/ e.denied \/ Passes(op, d, u, p)

\* Every question has its answer ahead, and one after which nothing was sent covers everything.
Asked(e, d, u, s, m) ==
  \E at \in [1 .. Len(e.probes) -> 1 .. Len(d \o u)] :
    /\ Coming(at, Len(e.probes), d \o u)
    /\ e.synced => \A i \in 1 .. Len(e.probes) : e.probes[i] = e.sent => Clear(e, d, u, s, m, at[i])

Pipe(e, d, u, s, m) ==
  /\ Asked(e, d, u, s, m)
  /\ e.synced => Clear(e, d, u, s, m, Len(d) + Len(u) + 1)
  /\ ~ e.synced => Len(e.probes) = 1
  /\ \A i \in 1 .. Len(e.probes) : e.probes[i] <= e.sent

\* Frames: of the server, only refusals are not about what it has.
FramesTrue ==
  /\ \A i \in 1 .. Len(up) : up[i].kind # "denied" /\ up[i].ops \subseteq made
  /\ \A i \in 1 .. Len(down) : down[i].kind # "denied" => down[i].ops \subseteq server

\* A document whose copy has arrived is its copy.
CacheTrue ==
  entry # None => entry.doc \subseteq made /\ (entry.hydrated => entry.doc = cached)

\* The inductive invariant.
WebInv ==
  /\ NothingForgotten
  /\ ~ online => up = <<>> /\ down = <<>> /\ (entry # None => ~ entry.synced)
  /\ FramesTrue
  /\ CacheTrue
  /\ online /\ entry # None => Pipe(entry, down, up, server, mine)
-----------------------------------------------------------------------------
(* The two streams.                                                        *)

LEMMA JoinIs ==
  ASSUME NEW d \in Seq(Frames), NEW u \in Seq(Frames)
  PROVE  /\ d \o u \in Seq(Frames) /\ Len(d \o u) = Len(d) + Len(u)
         /\ Len(d) \in Nat /\ Len(u) \in Nat
         /\ \A p \in 1 .. Len(d) : (d \o u)[p] = d[p]
         /\ \A p \in 1 .. Len(d) + Len(u) : p > Len(d) => (d \o u)[p] = u[p - Len(d)]
OBVIOUS

LEMMA AppendIs ==
  ASSUME NEW u \in Seq(Frames), NEW f \in Frames
  PROVE  /\ Append(u, f) \in Seq(Frames) /\ Len(Append(u, f)) = Len(u) + 1
         /\ \A p \in 1 .. Len(u) : Append(u, f)[p] = u[p]
         /\ Append(u, f)[Len(u) + 1] = f
OBVIOUS

LEMMA TailIs ==
  ASSUME NEW u \in Seq(Frames), u # <<>>
  PROVE  /\ Tail(u) \in Seq(Frames) /\ Len(Tail(u)) = Len(u) - 1 /\ Len(u) >= 1
         /\ \A p \in 1 .. Len(u) - 1 : Tail(u)[p] = u[p + 1]
         /\ Head(u) = u[1] /\ Head(u) \in Frames
OBVIOUS

\* One more frame sent that asks nothing.
LEMMA AskedUpdate ==
  ASSUME NEW e \in Entries, NEW d \in Seq(Frames), NEW u \in Seq(Frames), NEW s, NEW m,
         NEW e2 \in Entries, NEW f \in Frames, NEW m2,
         Pipe(e, d, u, s, m), f.kind = "update",
         e2.probes = e.probes, e2.sent = e.sent + 1, e2.synced = e.synced, e2.denied = e.denied,
         m2 \cap e2.doc \subseteq (m \cap e.doc) \cup s \cup f.ops
  PROVE  Pipe(e2, d, Append(u, f), s, m2)
<1> DEFINE n == Len(e.probes)
<1>1. PICK at \in [1 .. n -> 1 .. Len(d \o u)] : Coming(at, n, d \o u)
  BY DEF Pipe, Asked
<1>2. n \in Nat /\ e.sent \in Nat /\ \A i \in 1 .. n : e.probes[i] \in Nat /\ e.probes[i] <= e.sent
  BY DEF Pipe, Entries
<1>3. Coming(at, n, d \o Append(u, f))
  <2>1. Append(u, f) \in Seq(Frames) /\ Len(d \o Append(u, f)) = Len(d \o u) + 1
    BY AppendIs, JoinIs
  <2>2. \A p \in 1 .. Len(d \o u) : (d \o Append(u, f))[p] = (d \o u)[p]
    BY <2>1, JoinIs, AppendIs
  <2>3. (d \o Append(u, f))[Len(d \o u) + 1] = f
    BY <2>1, JoinIs, AppendIs
  <2>4. Len(d \o u) \in Nat
    BY JoinIs
  <2> QED BY <1>1, <1>2, <2>1, <2>2, <2>3, <2>4 DEF Coming
<1>4. Asked(e2, d, Append(u, f), s, m2)
  <2>1. at \in [1 .. n -> 1 .. Len(d \o Append(u, f))]
    BY <1>3 DEF Coming
  <2>2. \A i \in 1 .. n : e2.probes[i] # e2.sent
    BY <1>2
  <2> QED BY <1>3, <2>1, <2>2 DEF Asked
<1>5. ASSUME e2.synced PROVE Clear(e2, d, Append(u, f), s, m2, Len(d) + Len(Append(u, f)) + 1)
  <2> SUFFICES ASSUME NEW op \in m2 \cap e2.doc, op \notin s, ~ e2.denied
               PROVE  Passes(op, d, Append(u, f), Len(d) + Len(Append(u, f)) + 1)
    BY DEF Clear
  <2>1. CASE op \in f.ops
    <3>1. Len(d) \in Nat /\ Len(u) \in Nat /\ Len(Append(u, f)) = Len(u) + 1
      BY AppendIs
    <3>2. Append(u, f)[Len(d) + Len(u) + 1 - Len(d)] = f
      BY <3>1, AppendIs
    <3> QED BY <2>1, <3>1, <3>2 DEF Passes
  <2>2. CASE op \in m \cap e.doc
    <3>1. Passes(op, d, u, Len(d) + Len(u) + 1)
      BY <1>5, <2>2 DEF Pipe, Clear
    <3> QED BY <3>1, AppendIs DEF Passes
  <2> QED BY <2>1, <2>2
<1> QED BY <1>2, <1>4, <1>5 DEF Pipe

\* One more question about what there is.
LEMMA AskedAgain ==
  ASSUME NEW e \in Entries, NEW d \in Seq(Frames), NEW u \in Seq(Frames), NEW s, NEW m,
         NEW e2 \in Entries, NEW f \in Frames,
         Pipe(e, d, u, s, m), f.kind = "step1", e.synced,
         e2.probes = Append(e.probes, e.sent), e2.sent = e.sent, e2.synced = e.synced,
         e2.denied = e.denied, e2.doc = e.doc
  PROVE  Pipe(e2, d, Append(u, f), s, m)
<1> DEFINE n == Len(e.probes)
           line == d \o u
           next == d \o Append(u, f)
<1>1. PICK at \in [1 .. n -> 1 .. Len(line)] :
        /\ Coming(at, n, line)
        /\ \A i \in 1 .. n : e.probes[i] = e.sent => Clear(e, d, u, s, m, at[i])
  BY DEF Pipe, Asked
<1> DEFINE at2 == [i \in 1 .. n + 1 |-> IF i <= n THEN at[i] ELSE Len(line) + 1]
<1>2. /\ n \in Nat /\ Len(e2.probes) = n + 1 /\ e2.probes[n + 1] = e.sent /\ e.sent \in Nat
      /\ \A i \in 1 .. n : e2.probes[i] = e.probes[i] /\ e.probes[i] <= e.sent
  BY DEF Pipe, Entries
<1>3. /\ Len(line) = Len(d) + Len(u) /\ Len(next) = Len(line) + 1 /\ next[Len(line) + 1] = f
      /\ Len(d) \in Nat /\ Len(u) \in Nat /\ Append(u, f) \in Seq(Frames)
      /\ Len(Append(u, f)) = Len(u) + 1
      /\ \A p \in 1 .. Len(line) : next[p] = line[p]
  <2>1. Append(u, f) \in Seq(Frames) /\ Len(next) = Len(line) + 1
    BY AppendIs, JoinIs
  <2> QED BY <2>1, JoinIs, AppendIs
<1> HIDE DEF line, next, n
<1>a. /\ Len(line) \in Nat /\ Len(line) + 1 \in 1 .. Len(next)
      /\ \A i \in 1 .. n : at2[i] = at[i] /\ at[i] \in 1 .. Len(line) /\ i \in 1 .. n + 1
      /\ at2[n + 1] = Len(line) + 1 /\ n + 1 \in 1 .. n + 1
      /\ \A i \in 1 .. n + 1 : i \in 1 .. n \/ i = n + 1
      /\ \A p \in 1 .. Len(next) : p \in 1 .. Len(line) \/ p = Len(line) + 1
  BY <1>1, <1>2, <1>3
<1> HIDE DEF at2
<1>4. Coming(at2, n + 1, next)
  <2>1. at2 \in [1 .. n + 1 -> 1 .. Len(next)]
    <3>1. \A i \in 1 .. n + 1 : at2[i] \in 1 .. Len(next)
      BY <1>a, <1>3
    <3> QED BY <3>1 DEF at2
  <2>2. ASSUME NEW i \in 1 .. n + 1, NEW j \in 1 .. n + 1, i < j PROVE at2[i] < at2[j]
    <3>1. i \in 1 .. n
      BY <2>2, <1>2
    <3>2. CASE j \in 1 .. n
      BY <1>1, <1>a, <2>2, <3>1, <3>2 DEF Coming
    <3>3. CASE j = n + 1
      BY <1>a, <3>1, <3>3
    <3> QED BY <1>a, <3>2, <3>3
  <2>3. ASSUME NEW p \in 1 .. Len(next)
        PROVE  next[p].kind = "step1" <=> \E i \in 1 .. n + 1 : at2[i] = p
    <3>1. CASE p = Len(line) + 1
      BY <1>a, <1>3, <3>1
    <3>2. CASE p \in 1 .. Len(line)
      <4>1. next[p].kind = "step1" <=> \E i \in 1 .. n : at[i] = p
        BY <1>1, <1>3, <3>2 DEF Coming
      <4>2. at2[n + 1] # p
        BY <1>a, <3>2
      <4> QED BY <4>1, <4>2, <1>a
    <3> QED BY <1>a, <3>1, <3>2
  <2> QED BY <2>1, <2>2, <2>3 DEF Coming
<1>5. \A p \in 1 .. Len(line) + 1 : Clear(e, d, u, s, m, p) => Clear(e2, d, Append(u, f), s, m, p)
  BY <1>3, AppendIs DEF Clear, Passes
<1>6. Clear(e, d, u, s, m, Len(line) + 1)
  BY <1>3 DEF Pipe
<1>7. \A i \in 1 .. n + 1 : e2.probes[i] = e2.sent => Clear(e2, d, Append(u, f), s, m, at2[i])
  <2> SUFFICES ASSUME NEW i \in 1 .. n + 1, e2.probes[i] = e2.sent
               PROVE  Clear(e2, d, Append(u, f), s, m, at2[i])
    OBVIOUS
  <2>1. CASE i = n + 1
    BY <1>a, <1>5, <1>6, <2>1
  <2>2. CASE i \in 1 .. n
    <3>1. Clear(e, d, u, s, m, at[i]) /\ at2[i] = at[i] /\ at[i] \in 1 .. Len(line) + 1
      BY <1>1, <1>2, <1>a, <2>2
    <3> QED BY <1>5, <3>1
  <2> QED BY <1>a, <2>1, <2>2
<1>8. Asked(e2, d, Append(u, f), s, m)
  <2>1. at2 \in [1 .. n + 1 -> 1 .. Len(next)]
    BY <1>4 DEF Coming
  <2> QED BY <1>2, <1>4, <1>7, <2>1 DEF Asked, next
<1>9. Clear(e2, d, Append(u, f), s, m, Len(d) + Len(Append(u, f)) + 1)
  <2>1. \A op : Passes(op, d, u, Len(line) + 1)
                => Passes(op, d, Append(u, f), Len(d) + Len(Append(u, f)) + 1)
    BY <1>3, AppendIs DEF Passes
  <2> QED BY <1>6, <2>1 DEF Clear
<1> QED BY <1>2, <1>8, <1>9 DEF Pipe

\* The only question there is.
LEMMA AskedFirst ==
  ASSUME NEW e \in Entries, NEW d \in Seq(Frames), NEW u \in Seq(Frames), NEW s, NEW m,
         NEW f \in Frames, f.kind = "step1", e.probes = <<e.sent>>,
         \A p \in 1 .. Len(d) : d[p].kind # "step1",
         \A p \in 1 .. Len(u) : u[p].kind # "step1",
         e.synced => Clear(e, d, u, s, m, Len(d) + Len(u) + 1)
  PROVE  Pipe(e, d, Append(u, f), s, m)
<1> DEFINE next == d \o Append(u, f)
           l == Len(d) + Len(u)
           at == [i \in 1 .. 1 |-> l + 1]
<1>1. /\ Len(next) = l + 1 /\ next[l + 1] = f /\ l \in Nat
      /\ Len(d) \in Nat /\ Len(u) \in Nat /\ Len(Append(u, f)) = Len(u) + 1
      /\ \A p \in 1 .. l : next[p].kind # "step1"
  <2>1. Append(u, f) \in Seq(Frames) /\ Len(next) = l + 1 /\ next[l + 1] = f /\ l \in Nat
    BY AppendIs, JoinIs
  <2>2. ASSUME NEW p \in 1 .. l PROVE next[p].kind # "step1"
    <3>1. CASE p <= Len(d)
      BY <2>1, <3>1, JoinIs
    <3>2. CASE p > Len(d)
      BY <2>1, <3>2, JoinIs, AppendIs
    <3> QED BY <3>1, <3>2, JoinIs
  <2> QED BY <2>1, <2>2, AppendIs, JoinIs
<1>2. Len(e.probes) = 1 /\ e.probes[1] = e.sent /\ e.sent \in Nat
  BY DEF Entries
<1>3. /\ at \in [1 .. 1 -> 1 .. Len(next)] /\ at[1] = l + 1
      /\ \A i \in 1 .. 1 : i = 1
      /\ \A p \in 1 .. Len(next) : p \in 1 .. l \/ p = l + 1
  BY <1>1
<1> HIDE DEF at, next
<1>4. Coming(at, 1, next)
  <2>1. ASSUME NEW p \in 1 .. Len(next) PROVE next[p].kind = "step1" <=> \E i \in 1 .. 1 : at[i] = p
    <3>1. CASE p = l + 1
      BY <1>1, <1>3, <3>1
    <3>2. CASE p \in 1 .. l
      BY <1>1, <1>3, <3>2
    <3> QED BY <1>3, <3>1, <3>2
  <2>2. \A i, j \in 1 .. 1 : ~ (i < j)
    BY <1>3
  <2> QED BY <1>3, <2>1, <2>2 DEF Coming
<1>5. e.synced => Clear(e, d, Append(u, f), s, m, l + 1) /\ Clear(e, d, Append(u, f), s, m, l + 2)
  <2>1. \A op : Passes(op, d, u, l + 1)
                => Passes(op, d, Append(u, f), l + 1) /\ Passes(op, d, Append(u, f), l + 2)
    BY <1>1, AppendIs DEF Passes
  <2> QED BY <2>1 DEF Clear
<1>6. Asked(e, d, Append(u, f), s, m)
  BY <1>2, <1>3, <1>4, <1>5 DEF Asked, next
<1> QED BY <1>1, <1>2, <1>5, <1>6 DEF Pipe

\* The first frame of both streams is taken.
LEMMA PopComing ==
  ASSUME NEW line \in Seq(Frames), NEW next \in Seq(Frames), NEW n \in Nat, NEW at,
         Len(next) = Len(line) - 1, Len(line) >= 1, \A p \in 1 .. Len(next) : next[p] = line[p + 1],
         Coming(at, n, line)
  PROVE  /\ line[1].kind # "step1" =>
              /\ Coming([i \in 1 .. n |-> at[i] - 1], n, next)
              /\ \A i \in 1 .. n : at[i] > 1
         /\ line[1].kind = "step1" =>
              n >= 1 /\ at[1] = 1 /\ Coming([i \in 1 .. n - 1 |-> at[i + 1] - 1], n - 1, next)
<1>1. /\ Len(line) \in Nat /\ 1 \in 1 .. Len(line)
      /\ \A i \in 1 .. n : at[i] \in 1 .. Len(line)
      /\ \A i, j \in 1 .. n : i < j => at[i] < at[j]
      /\ \A p \in 1 .. Len(line) : line[p].kind = "step1" <=> \E i \in 1 .. n : at[i] = p
  BY DEF Coming
<1>2. ASSUME line[1].kind # "step1"
      PROVE  Coming([i \in 1 .. n |-> at[i] - 1], n, next) /\ \A i \in 1 .. n : at[i] > 1
  <2>1. \A i \in 1 .. n : at[i] > 1
    BY <1>1, <1>2
  <2> DEFINE at2 == [i \in 1 .. n |-> at[i] - 1]
  <2>2. \A i \in 1 .. n : at2[i] = at[i] - 1 /\ at2[i] \in 1 .. Len(next)
    BY <1>1, <2>1
  <2>3. at2 \in [1 .. n -> 1 .. Len(next)]
    BY <2>2
  <2> HIDE DEF at2
  <2>4. ASSUME NEW i \in 1 .. n, NEW j \in 1 .. n, i < j PROVE at2[i] < at2[j]
    <3>1. at[i] < at[j] /\ at[i] \in 1 .. Len(line) /\ at[j] \in 1 .. Len(line)
      BY <1>1, <2>4
    <3> QED BY <1>1, <2>2, <3>1
  <2>5. ASSUME NEW p \in 1 .. Len(next)
        PROVE  next[p].kind = "step1" <=> \E i \in 1 .. n : at2[i] = p
    <3>1. p + 1 \in 1 .. Len(line) /\ next[p] = line[p + 1]
      BY <1>1
    <3>2. \A i \in 1 .. n : at2[i] = p <=> at[i] = p + 1
      BY <1>1, <2>2
    <3> QED BY <1>1, <3>1, <3>2, SMTT(20)
  <2>6. Coming(at2, n, next)
    BY <2>3, <2>4, <2>5 DEF Coming
  <2> QED BY <2>1, <2>6 DEF at2
<1>3. ASSUME line[1].kind = "step1"
      PROVE  n >= 1 /\ at[1] = 1 /\ Coming([i \in 1 .. n - 1 |-> at[i + 1] - 1], n - 1, next)
  <2>1. n >= 1 /\ at[1] = 1
    BY <1>1, <1>3
  <2> DEFINE at2 == [i \in 1 .. n - 1 |-> at[i + 1] - 1]
  <2>2. \A i \in 1 .. n - 1 :
          /\ i + 1 \in 1 .. n /\ at2[i] = at[i + 1] - 1
          /\ at[1] < at[i + 1] /\ at2[i] \in 1 .. Len(next)
    BY <1>1, <2>1
  <2>3. at2 \in [1 .. n - 1 -> 1 .. Len(next)]
    BY <2>2
  <2> HIDE DEF at2
  <2>4. ASSUME NEW i \in 1 .. n - 1, NEW j \in 1 .. n - 1, i < j PROVE at2[i] < at2[j]
    <3>1. at[i + 1] < at[j + 1] /\ at[i + 1] \in 1 .. Len(line) /\ at[j + 1] \in 1 .. Len(line)
      BY <1>1, <2>2, <2>4, SMTT(20)
    <3> QED BY <1>1, <2>2, <3>1
  <2>5. ASSUME NEW p \in 1 .. Len(next)
        PROVE  next[p].kind = "step1" <=> \E i \in 1 .. n - 1 : at2[i] = p
    <3>1. p + 1 \in 1 .. Len(line) /\ next[p] = line[p + 1]
      BY <1>1
    <3>2. \A i \in 1 .. n - 1 : at2[i] = p <=> at[i + 1] = p + 1
      BY <1>1, <2>2
    <3>3. \A i \in 1 .. n : at[i] = p + 1 => i - 1 \in 1 .. n - 1 /\ (i - 1) + 1 = i
      BY <1>1, <2>1
    <3>4. (\E i \in 1 .. n : at[i] = p + 1) <=> \E i \in 1 .. n - 1 : at[i + 1] = p + 1
      BY <2>2, <3>3
    <3>5. (\E i \in 1 .. n - 1 : at[i + 1] = p + 1) <=> \E i \in 1 .. n - 1 : at2[i] = p
      BY <3>2
    <3> QED BY <1>1, <3>1, <3>4, <3>5
  <2>6. Coming(at2, n - 1, next)
    BY <2>3, <2>4, <2>5 DEF Coming
  <2> QED BY <2>1, <2>6 DEF at2
<1> QED BY <1>2, <1>3

LEMMA PopPasses ==
  ASSUME NEW d \in Seq(Frames), NEW u \in Seq(Frames), d # <<>>
  PROVE  \A op : \A p \in Nat : Passes(op, d, u, p) => d[1].kind = "denied" \/ Passes(op, Tail(d), u, p - 1)
<1> SUFFICES ASSUME NEW op, NEW p \in Nat, Passes(op, d, u, p), d[1].kind # "denied"
             PROVE  Passes(op, Tail(d), u, p - 1)
  OBVIOUS
<1>1. PICK q \in 1 .. Len(d) + Len(u) :
        /\ q < p
        /\ \/ q \in 1 .. Len(d) /\ d[q].kind = "denied"
           \/ q > Len(d) /\ u[q - Len(d)].kind = "update" /\ op \in u[q - Len(d)].ops
  BY DEF Passes
<1>2. /\ Len(d) \in Nat /\ Len(u) \in Nat /\ Len(d) >= 1 /\ Len(Tail(d)) = Len(d) - 1
      /\ \A i \in 1 .. Len(d) - 1 : Tail(d)[i] = d[i + 1]
  BY TailIs, JoinIs
<1>3. q # 1
  BY <1>1, <1>2
<1>4. q - 1 \in 1 .. Len(Tail(d)) + Len(u) /\ q - 1 < p - 1
  BY <1>1, <1>2, <1>3
<1>5. CASE q \in 1 .. Len(d) /\ d[q].kind = "denied"
  <2>1. q - 1 \in 1 .. Len(Tail(d)) /\ Tail(d)[q - 1] = d[q]
    BY <1>2, <1>3, <1>5
  <2> QED BY <1>4, <1>5, <2>1 DEF Passes
<1>6. CASE q > Len(d) /\ u[q - Len(d)].kind = "update" /\ op \in u[q - Len(d)].ops
  <2>1. q - 1 > Len(Tail(d)) /\ (q - 1) - Len(Tail(d)) = q - Len(d)
    BY <1>2, <1>6
  <2> QED BY <1>4, <1>6, <2>1 DEF Passes
<1> QED BY <1>1, <1>5, <1>6

LEMMA PopLine ==
  ASSUME NEW d \in Seq(Frames), NEW u \in Seq(Frames), d # <<>>
  PROVE  /\ Tail(d) \in Seq(Frames) /\ d \o u \in Seq(Frames) /\ Tail(d) \o u \in Seq(Frames)
         /\ Len(Tail(d) \o u) = Len(d \o u) - 1 /\ Len(d \o u) >= 1 /\ (d \o u)[1] = Head(d)
         /\ \A p \in 1 .. Len(Tail(d) \o u) : (Tail(d) \o u)[p] = (d \o u)[p + 1]
         /\ Head(d) = d[1] /\ Head(d) \in Frames
         /\ Len(d) + Len(u) = Len(d \o u) /\ Len(Tail(d)) + Len(u) = Len(Tail(d) \o u)
         /\ Len(d \o u) \in Nat
<1>1. Tail(d) \in Seq(Frames) /\ Len(Tail(d)) = Len(d) - 1 /\ Len(d) >= 1 /\ Head(d) = d[1] /\ Head(d) \in Frames
  BY TailIs
<1>2. ASSUME NEW p \in 1 .. Len(Tail(d) \o u) PROVE (Tail(d) \o u)[p] = (d \o u)[p + 1]
  <2>1. CASE p <= Len(Tail(d))
    BY <1>1, <2>1, JoinIs, TailIs
  <2>2. CASE p > Len(Tail(d))
    BY <1>1, <2>2, JoinIs
  <2> QED BY <1>1, <2>1, <2>2, JoinIs
<1> QED BY <1>1, <1>2, JoinIs

LEMMA PopAhead ==
  ASSUME NEW d \in Seq(Frames), NEW u \in Seq(Frames), d # <<>>, NEW n \in Nat, NEW at,
         Coming(at, n, d \o u)
  PROVE  /\ Head(d).kind # "step1" =>
              /\ Coming([i \in 1 .. n |-> at[i] - 1], n, Tail(d) \o u)
              /\ \A i \in 1 .. n : at[i] > 1
         /\ Head(d).kind = "step1" =>
              /\ n >= 1 /\ at[1] = 1
              /\ Coming([i \in 1 .. n - 1 |-> at[i + 1] - 1], n - 1, Tail(d) \o u)
         /\ \A i \in 1 .. n : at[i] \in Nat
<1> DEFINE line == d \o u
           next == Tail(d) \o u
<1>1. /\ line \in Seq(Frames) /\ next \in Seq(Frames) /\ Len(next) = Len(line) - 1
      /\ Len(line) >= 1 /\ \A p \in 1 .. Len(next) : next[p] = line[p + 1]
      /\ line[1] = Head(d) /\ Len(line) \in Nat
  BY PopLine
<1>2. Coming(at, n, line)
  OBVIOUS
<1> HIDE DEF line, next
<1>3. \A i \in 1 .. n : at[i] \in Nat
  BY <1>1, <1>2 DEF Coming
<1>4. /\ line[1].kind # "step1" =>
          /\ Coming([i \in 1 .. n |-> at[i] - 1], n, next)
          /\ \A i \in 1 .. n : at[i] > 1
      /\ line[1].kind = "step1" =>
          n >= 1 /\ at[1] = 1 /\ Coming([i \in 1 .. n - 1 |-> at[i + 1] - 1], n - 1, next)
  BY <1>1, <1>2, PopComing
<1> QED BY <1>1, <1>3, <1>4 DEF next

\* A frame arrives that answers nothing.
LEMMA AskedNews ==
  ASSUME NEW e \in Entries, NEW d \in Seq(Frames), NEW u \in Seq(Frames), NEW s, NEW m,
         NEW e2 \in Entries,
         Pipe(e, d, u, s, m), d # <<>>, Head(d).kind # "step1",
         e2.probes = e.probes, e2.sent = e.sent, e2.synced = e.synced,
         e.denied \/ Head(d).kind = "denied" => e2.denied,
         m \cap e2.doc \subseteq (m \cap e.doc) \cup s
  PROVE  Pipe(e2, Tail(d), u, s, m)
<1> DEFINE n == Len(e.probes)
<1>1. PICK at \in [1 .. n -> 1 .. Len(d \o u)] :
        /\ Coming(at, n, d \o u)
        /\ e.synced => \A i \in 1 .. n : e.probes[i] = e.sent => Clear(e, d, u, s, m, at[i])
  BY DEF Pipe, Asked
<1> DEFINE at2 == [i \in 1 .. n |-> at[i] - 1]
<1>2. n \in Nat
  BY DEF Entries
<1>3. Coming(at2, n, Tail(d) \o u) /\ \A i \in 1 .. n : at[i] > 1
  BY <1>1, <1>2, PopAhead
<1>4. \A p \in Nat : Clear(e, d, u, s, m, p) => Clear(e2, Tail(d), u, s, m, p - 1)
  BY PopPasses, PopLine DEF Clear
<1>5. e.synced => \A i \in 1 .. n : e.probes[i] = e.sent => Clear(e2, Tail(d), u, s, m, at2[i])
  <2> SUFFICES ASSUME e.synced, NEW i \in 1 .. n, e.probes[i] = e.sent
               PROVE  Clear(e2, Tail(d), u, s, m, at2[i])
    OBVIOUS
  <2>1. at[i] \in Nat /\ Clear(e, d, u, s, m, at[i])
    BY <1>1, <1>2, PopAhead
  <2> QED BY <1>4, <2>1
<1>6. Asked(e2, Tail(d), u, s, m)
  <2>1. at2 \in [1 .. n -> 1 .. Len(Tail(d) \o u)]
    BY <1>3 DEF Coming
  <2> QED BY <1>3, <1>5, <2>1 DEF Asked
<1>7. e.synced => Clear(e2, Tail(d), u, s, m, Len(Tail(d)) + Len(u) + 1)
  <2>1. Len(d) + Len(u) + 1 \in Nat /\ (Len(d) + Len(u) + 1) - 1 = Len(Tail(d)) + Len(u) + 1
    BY PopLine, JoinIs, TailIs
  <2> QED BY <1>4, <2>1 DEF Pipe
<1> QED BY <1>6, <1>7 DEF Pipe

\* An answer arrives to a question asked after the handshake: it is to the oldest, and if nothing
\* was sent or refused since, the server has everything.
LEMMA AskedAnswer ==
  ASSUME NEW e \in Entries, NEW d \in Seq(Frames), NEW u \in Seq(Frames), NEW s, NEW m,
         NEW e2 \in Entries,
         Pipe(e, d, u, s, m), d # <<>>, Head(d).kind = "step1", e.synced,
         e2.probes = Tail(e.probes), e2.sent = e.sent, e2.synced = e.synced, e2.denied = e.denied,
         e2.doc = e.doc
  PROVE  /\ e.probes # <<>>
         /\ Pipe(e2, Tail(d), u, s, m)
         /\ Head(e.probes) = e.sent /\ ~ e.denied => m \cap e.doc \subseteq s
<1> DEFINE n == Len(e.probes)
<1>1. PICK at \in [1 .. n -> 1 .. Len(d \o u)] :
        /\ Coming(at, n, d \o u)
        /\ \A i \in 1 .. n : e.probes[i] = e.sent => Clear(e, d, u, s, m, at[i])
  BY DEF Pipe, Asked
<1> DEFINE at2 == [i \in 1 .. n - 1 |-> at[i + 1] - 1]
<1>2. n \in Nat /\ e.probes \in Seq(Nat)
  BY DEF Entries
<1>3. n >= 1 /\ at[1] = 1 /\ Coming(at2, n - 1, Tail(d) \o u)
  BY <1>1, <1>2, PopAhead
<1>4. \A p \in Nat : Clear(e, d, u, s, m, p) => Clear(e2, Tail(d), u, s, m, p - 1)
  BY PopPasses, PopLine DEF Clear
<1>5. e.probes # <<>> /\ Head(e.probes) = e.probes[1] /\ Len(e2.probes) = n - 1
  BY <1>2, <1>3
<1>6. \A i \in 1 .. n - 1 : e2.probes[i] = e.probes[i + 1] /\ i + 1 \in 1 .. n
  BY <1>2, <1>3, <1>5
<1>7. \A i \in 1 .. n - 1 : e2.probes[i] = e2.sent => Clear(e2, Tail(d), u, s, m, at2[i])
  <2> SUFFICES ASSUME NEW i \in 1 .. n - 1, e2.probes[i] = e2.sent
               PROVE  Clear(e2, Tail(d), u, s, m, at2[i])
    OBVIOUS
  <2>1. i + 1 \in 1 .. n /\ at[i + 1] \in Nat /\ Clear(e, d, u, s, m, at[i + 1])
    BY <1>1, <1>2, <1>6, PopAhead
  <2> QED BY <1>4, <2>1
<1>8. Asked(e2, Tail(d), u, s, m)
  <2>1. at2 \in [1 .. n - 1 -> 1 .. Len(Tail(d) \o u)]
    BY <1>3 DEF Coming
  <2> QED BY <1>3, <1>5, <1>7, <2>1 DEF Asked
<1>9. Clear(e2, Tail(d), u, s, m, Len(Tail(d)) + Len(u) + 1)
  <2>1. Len(d) + Len(u) + 1 \in Nat /\ (Len(d) + Len(u) + 1) - 1 = Len(Tail(d)) + Len(u) + 1
    BY PopLine, JoinIs, TailIs
  <2> QED BY <1>4, <2>1 DEF Pipe
<1>10. Head(e.probes) = e.sent /\ ~ e.denied => m \cap e.doc \subseteq s
  <2> SUFFICES ASSUME Head(e.probes) = e.sent, ~ e.denied PROVE m \cap e.doc \subseteq s
    OBVIOUS
  <2>1. Clear(e, d, u, s, m, 1)
    BY <1>1, <1>3, <1>5
  <2>2. \A op : ~ Passes(op, d, u, 1)
    BY JoinIs DEF Passes
  <2> QED BY <2>1, <2>2 DEF Clear
<1>11. \A i \in 1 .. n - 1 : e2.probes[i] <= e2.sent
  BY <1>6 DEF Pipe
<1> QED BY <1>5, <1>8, <1>9, <1>10, <1>11 DEF Pipe

\* The answer to the handshake: it is the only one to come.
LEMMA AskedHandshake ==
  ASSUME NEW e \in Entries, NEW d \in Seq(Frames), NEW u \in Seq(Frames), NEW s, NEW m,
         Pipe(e, d, u, s, m), d # <<>>, Head(d).kind = "step1", ~ e.synced
  PROVE  /\ Len(e.probes) = 1 /\ e.probes[1] <= e.sent
         /\ \A p \in 1 .. Len(Tail(d)) : Tail(d)[p].kind # "step1"
         /\ \A p \in 1 .. Len(u) : u[p].kind # "step1"
<1>1. Len(e.probes) = 1 /\ e.probes[1] <= e.sent
  BY DEF Pipe
<1>2. PICK at : Coming(at, 1, d \o u)
  BY <1>1 DEF Pipe, Asked
<1>3. 1 \in Nat /\ Coming([i \in 1 .. 1 - 1 |-> at[i + 1] - 1], 1 - 1, Tail(d) \o u)
  BY <1>2, PopAhead
<1>4. \A p \in 1 .. Len(Tail(d) \o u) : (Tail(d) \o u)[p].kind # "step1"
  BY <1>3 DEF Coming
<1>5. /\ Tail(d) \in Seq(Frames) /\ Len(Tail(d) \o u) = Len(Tail(d)) + Len(u)
      /\ \A p \in 1 .. Len(Tail(d)) : p \in 1 .. Len(Tail(d) \o u)
      /\ \A p \in 1 .. Len(u) : Len(Tail(d)) + p \in 1 .. Len(Tail(d) \o u)
  BY PopLine, JoinIs
<1>6. \A p \in 1 .. Len(u) : (Tail(d) \o u)[Len(Tail(d)) + p] = u[p]
  BY <1>5
<1>7. \A p \in 1 .. Len(Tail(d)) : (Tail(d) \o u)[p] = Tail(d)[p]
  BY <1>5, JoinIs
<1> QED BY <1>1, <1>4, <1>5, <1>6, <1>7

\* The server's side moves frames about; `sh` says where a place goes.
Moved(d, u, s, d2, u2, s2, sh) ==
  /\ \A n \in Nat : \A at : Coming(at, n, d \o u) => Coming([i \in 1 .. n |-> sh[at[i]]], n, d2 \o u2)
  /\ \A op : op \in s => op \in s2
  /\ \A op : \A p \in Nat : Passes(op, d, u, p) => op \in s2 \/ Passes(op, d2, u2, sh[p])
  /\ sh[Len(d) + Len(u) + 1] = Len(d2) + Len(u2) + 1

LEMMA AskedMoved ==
  ASSUME NEW e \in Entries, NEW d \in Seq(Frames), NEW u \in Seq(Frames), NEW s, NEW m,
         NEW d2, NEW u2, NEW s2, NEW sh,
         Pipe(e, d, u, s, m), Moved(d, u, s, d2, u2, s2, sh)
  PROVE  Pipe(e, d2, u2, s2, m)
<1> DEFINE n == Len(e.probes)
<1>1. PICK at \in [1 .. n -> 1 .. Len(d \o u)] :
        /\ Coming(at, n, d \o u)
        /\ e.synced => \A i \in 1 .. n : e.probes[i] = e.sent => Clear(e, d, u, s, m, at[i])
  BY DEF Pipe, Asked
<1> DEFINE at2 == [i \in 1 .. n |-> sh[at[i]]]
<1>2. n \in Nat
  BY DEF Entries
<1>3. Coming(at2, n, d2 \o u2)
  BY <1>1, <1>2 DEF Moved
<1>4. \A p \in Nat : Clear(e, d, u, s, m, p) => Clear(e, d2, u2, s2, m, sh[p])
  BY DEF Clear, Moved
<1>5. e.synced => \A i \in 1 .. n : e.probes[i] = e.sent => Clear(e, d2, u2, s2, m, at2[i])
  <2>1. \A i \in 1 .. n : at[i] \in Nat
    BY <1>1
  <2> QED BY <1>1, <1>4, <2>1
<1>6. Asked(e, d2, u2, s2, m)
  <2>1. at2 \in [1 .. n -> 1 .. Len(d2 \o u2)]
    BY <1>3 DEF Coming
  <2> HIDE DEF at2
  <2> QED BY <1>3, <1>5, <2>1 DEF Asked
<1>7. e.synced => Clear(e, d2, u2, s2, m, Len(d2) + Len(u2) + 1)
  <2>1. Len(d) + Len(u) + 1 \in Nat
    BY JoinIs
  <2> QED BY <1>4, <2>1 DEF Pipe, Moved
<1> QED BY <1>6, <1>7 DEF Pipe

\* A frame that is no answer comes in after place k.
Inserts(line, next, k, sh) ==
  /\ k \in Nat /\ Len(line) \in Nat /\ k <= Len(line) /\ Len(next) = Len(line) + 1
  /\ \A p \in 1 .. k : next[p].kind = "step1" <=> line[p].kind = "step1"
  /\ next[k + 1].kind # "step1"
  /\ \A p \in k + 1 .. Len(line) : next[p + 1].kind = "step1" <=> line[p].kind = "step1"
  /\ \A p \in 1 .. Len(line) + 1 : sh[p] = IF p > k THEN p + 1 ELSE p

LEMMA InsertComing ==
  ASSUME NEW line, NEW next, NEW n \in Nat, NEW at, NEW k, NEW sh, Inserts(line, next, k, sh),
         Coming(at, n, line)
  PROVE  Coming([i \in 1 .. n |-> sh[at[i]]], n, next)
<1> USE DEF Inserts
<1> DEFINE at2 == [i \in 1 .. n |-> sh[at[i]]]
<1>1. /\ \A i \in 1 .. n : at[i] \in 1 .. Len(line) /\ at2[i] = sh[at[i]]
      /\ \A i, j \in 1 .. n : i < j => at[i] < at[j]
      /\ \A p \in 1 .. Len(line) : line[p].kind = "step1" <=> \E i \in 1 .. n : at[i] = p
  BY DEF Coming
<1>2. \A i \in 1 .. n : at2[i] = (IF at[i] > k THEN at[i] + 1 ELSE at[i]) /\ at2[i] \in 1 .. Len(next)
  <2> TAKE i \in 1 .. n
  <2>1. at[i] \in 1 .. Len(line) /\ at[i] \in 1 .. Len(line) + 1 /\ at2[i] = sh[at[i]]
    BY <1>1
  <2>2. at2[i] = IF at[i] > k THEN at[i] + 1 ELSE at[i]
    BY <2>1
  <2> QED BY <2>1, <2>2
<1>3. at2 \in [1 .. n -> 1 .. Len(next)]
  BY <1>2
<1> HIDE DEF at2
<1>4. ASSUME NEW i \in 1 .. n, NEW j \in 1 .. n, i < j PROVE at2[i] < at2[j]
  <2>1. at[i] < at[j] /\ at[i] \in 1 .. Len(line) /\ at[j] \in 1 .. Len(line)
    BY <1>1, <1>4
  <2>2. /\ at2[i] = (IF at[i] > k THEN at[i] + 1 ELSE at[i])
        /\ at2[j] = (IF at[j] > k THEN at[j] + 1 ELSE at[j])
    BY <1>2
  <2> QED BY <2>1, <2>2
<1>5. ASSUME NEW p \in 1 .. Len(next)
      PROVE  next[p].kind = "step1" <=> \E i \in 1 .. n : at2[i] = p
  <2>1. CASE p <= k
    <3>1. \A i \in 1 .. n : at2[i] = p <=> at[i] = p
      BY <1>1, <1>2, <2>1
    <3> QED BY <1>1, <2>1, <3>1
  <2>2. CASE p = k + 1
    <3>1. \A i \in 1 .. n : at2[i] # p
      BY <1>1, <1>2, <2>2
    <3> QED BY <2>2, <3>1
  <2>3. CASE p > k + 1
    <3>1. p - 1 \in k + 1 .. Len(line) /\ p - 1 \in 1 .. Len(line) /\ (p - 1) + 1 = p
      BY <2>3
    <3>2. ASSUME NEW i \in 1 .. n PROVE at2[i] = p <=> at[i] = p - 1
      <4>1. at[i] \in 1 .. Len(line) /\ at2[i] = (IF at[i] > k THEN at[i] + 1 ELSE at[i])
        BY <1>1, <1>2
      <4> QED BY <2>3, <4>1
    <3>3. next[p].kind = "step1" <=> line[p - 1].kind = "step1"
      BY <3>1
    <3>4. line[p - 1].kind = "step1" <=> \E i \in 1 .. n : at[i] = p - 1
      BY <1>1, <3>1
    <3> QED BY <3>2, <3>3, <3>4
  <2> QED BY <2>1, <2>2, <2>3
<1>6. Coming(at2, n, next)
  BY <1>3, <1>4, <1>5 DEF Coming
<1> QED BY <1>6 DEF at2

\* The frame after place k, which is no answer, goes.
Removes(line, next, k, sh) ==
  /\ k \in Nat /\ Len(line) \in Nat /\ k < Len(line) /\ Len(next) = Len(line) - 1
  /\ \A p \in 1 .. k : next[p].kind = "step1" <=> line[p].kind = "step1"
  /\ line[k + 1].kind # "step1"
  /\ \A p \in k + 1 .. Len(next) : next[p].kind = "step1" <=> line[p + 1].kind = "step1"
  /\ \A p \in 1 .. Len(line) + 1 : sh[p] = IF p > k + 1 THEN p - 1 ELSE p

LEMMA RemoveComing ==
  ASSUME NEW line, NEW next, NEW n \in Nat, NEW at, NEW k, NEW sh, Removes(line, next, k, sh),
         Coming(at, n, line)
  PROVE  Coming([i \in 1 .. n |-> sh[at[i]]], n, next)
<1> USE DEF Removes
<1> DEFINE at2 == [i \in 1 .. n |-> sh[at[i]]]
<1>1. /\ \A i \in 1 .. n : at[i] \in 1 .. Len(line) /\ at2[i] = sh[at[i]]
      /\ \A i, j \in 1 .. n : i < j => at[i] < at[j]
      /\ \A p \in 1 .. Len(line) : line[p].kind = "step1" <=> \E i \in 1 .. n : at[i] = p
  BY DEF Coming
<1>2. k + 1 \in 1 .. Len(line) /\ \A i \in 1 .. n : at[i] # k + 1
  BY <1>1
<1>3. \A i \in 1 .. n : at2[i] = (IF at[i] > k THEN at[i] - 1 ELSE at[i]) /\ at2[i] \in 1 .. Len(next)
  <2> TAKE i \in 1 .. n
  <2>1. at[i] \in 1 .. Len(line) /\ at[i] \in 1 .. Len(line) + 1 /\ at2[i] = sh[at[i]] /\ at[i] # k + 1
    BY <1>1, <1>2
  <2>2. at2[i] = IF at[i] > k + 1 THEN at[i] - 1 ELSE at[i]
    BY <2>1
  <2> QED BY <2>1, <2>2
<1>4. at2 \in [1 .. n -> 1 .. Len(next)]
  BY <1>3
<1> HIDE DEF at2
<1>5. ASSUME NEW i \in 1 .. n, NEW j \in 1 .. n, i < j PROVE at2[i] < at2[j]
  <2>1. at[i] < at[j] /\ at[i] \in 1 .. Len(line) /\ at[j] \in 1 .. Len(line)
    BY <1>1, <1>5
  <2> QED BY <1>1, <1>2, <1>3, <2>1, SMTT(20)
<1>6. ASSUME NEW p \in 1 .. Len(next)
      PROVE  next[p].kind = "step1" <=> \E i \in 1 .. n : at2[i] = p
  <2>1. CASE p <= k
    <3>1. \A i \in 1 .. n : at2[i] = p <=> at[i] = p
      BY <1>1, <1>2, <1>3, <2>1
    <3> QED BY <1>1, <2>1, <3>1
  <2>2. CASE p > k
    <3>1. p \in k + 1 .. Len(next) /\ p + 1 \in 1 .. Len(line)
      BY <2>2
    <3>2. ASSUME NEW i \in 1 .. n PROVE at2[i] = p <=> at[i] = p + 1
      <4>1. at[i] \in 1 .. Len(line) /\ at[i] # k + 1
        BY <1>1, <1>2
      <4>2. at2[i] = (IF at[i] > k THEN at[i] - 1 ELSE at[i])
        BY <1>3
      <4>3. p \in Nat /\ at[i] \in Nat
        BY <4>1
      <4>4. CASE at[i] > k
        <5>1. at2[i] = at[i] - 1
          BY <4>2, <4>4
        <5> QED BY <4>3, <5>1, SMTT(20)
      <4>5. CASE ~ (at[i] > k)
        BY <2>2, <4>2, <4>3, <4>5
      <4> QED BY <4>4, <4>5
    <3>3. next[p].kind = "step1" <=> line[p + 1].kind = "step1"
      BY <3>1
    <3>4. line[p + 1].kind = "step1" <=> \E i \in 1 .. n : at[i] = p + 1
      BY <1>1, <3>1
    <3> QED BY <3>2, <3>3, <3>4
  <2> QED BY <2>1, <2>2
<1>7. Coming(at2, n, next)
  BY <1>4, <1>5, <1>6 DEF Coming
<1> QED BY <1>7 DEF at2

\* The server takes an update in.
LEMMA AskedApplied ==
  ASSUME NEW e \in Entries, NEW d \in Seq(Frames), NEW u \in Seq(Frames), NEW s, NEW m,
         Pipe(e, d, u, s, m), u # <<>>, Head(u).kind = "update"
  PROVE  Pipe(e, d, Tail(u), s \cup Head(u).ops, m)
<1> DEFINE k == Len(d)
           line == d \o u
           next == d \o Tail(u)
           sh == [p \in Nat |-> IF p > k + 1 THEN p - 1 ELSE p]
<1>1. /\ k \in Nat /\ Len(u) \in Nat /\ Len(u) >= 1 /\ Tail(u) \in Seq(Frames)
      /\ Len(Tail(u)) = Len(u) - 1 /\ Head(u) = u[1]
      /\ \A p \in 1 .. Len(u) - 1 : Tail(u)[p] = u[p + 1]
  BY TailIs, JoinIs
<1>2. /\ Len(line) = k + Len(u) /\ Len(next) = Len(line) - 1
      /\ \A p \in 1 .. k : next[p] = line[p]
      /\ line[k + 1] = Head(u)
      /\ \A p \in k + 1 .. Len(next) : next[p] = line[p + 1]
  <2>1. Len(line) = k + Len(u) /\ Len(next) = Len(line) - 1
    BY <1>1, JoinIs
  <2>2. \A p \in 1 .. k : next[p] = d[p] /\ line[p] = d[p]
    BY <1>1, JoinIs
  <2>3. line[k + 1] = Head(u)
    BY <1>1, JoinIs
  <2>4. ASSUME NEW p \in k + 1 .. Len(next) PROVE next[p] = line[p + 1]
    <3>1. next[p] = Tail(u)[p - k] /\ line[p + 1] = u[(p + 1) - k] /\ p - k \in 1 .. Len(u) - 1
      BY <1>1, <2>1, JoinIs
    <3> QED BY <1>1, <3>1
  <2> QED BY <2>1, <2>2, <2>3, <2>4
<1>3. \A p \in Nat : sh[p] = IF p > k + 1 THEN p - 1 ELSE p
  OBVIOUS
<1>4. ASSUME NEW n \in Nat, NEW at, Coming(at, n, d \o u)
      PROVE  Coming([i \in 1 .. n |-> sh[at[i]]], n, d \o Tail(u))
  <2> HIDE DEF line, next, sh
  <2>1. \A p \in 1 .. Len(line) + 1 : sh[p] = IF p > k + 1 THEN p - 1 ELSE p
    BY <1>1, <1>2, <1>3
  <2>2. Len(line) \in Nat /\ k < Len(line) /\ line[k + 1].kind # "step1" /\ Coming(at, n, line)
    BY <1>1, <1>2, <1>4 DEF line
  <2>3. /\ Len(next) = Len(line) - 1
        /\ \A p \in 1 .. k : next[p].kind = "step1" <=> line[p].kind = "step1"
        /\ \A p \in k + 1 .. Len(next) : next[p].kind = "step1" <=> line[p + 1].kind = "step1"
    BY <1>2
  <2>4. k \in Nat
    BY <1>1
  <2> HIDE DEF k
  <2>5. Removes(line, next, k, sh)
    BY <2>1, <2>2, <2>3, <2>4 DEF Removes
  <2>6. Coming([i \in 1 .. n |-> sh[at[i]]], n, next)
    BY <2>2, <2>5, RemoveComing
  <2> QED BY <2>6 DEF next
<1>5. ASSUME NEW op, NEW p \in Nat, Passes(op, d, u, p)
      PROVE  op \in s \cup Head(u).ops \/ Passes(op, d, Tail(u), sh[p])
  <2>1. PICK q \in 1 .. Len(d) + Len(u) :
          /\ q < p
          /\ \/ q \in 1 .. Len(d) /\ d[q].kind = "denied"
             \/ q > Len(d) /\ u[q - Len(d)].kind = "update" /\ op \in u[q - Len(d)].ops
    BY <1>5 DEF Passes
  <2>2. CASE q \in 1 .. Len(d) /\ d[q].kind = "denied"
    BY <1>1, <1>3, <2>1, <2>2 DEF Passes
  <2>3. CASE q > Len(d) /\ u[q - Len(d)].kind = "update" /\ op \in u[q - Len(d)].ops
    <3>1. CASE q = Len(d) + 1
      BY <1>1, <2>3, <3>1
    <3>2. CASE q > Len(d) + 1
      <4>1. /\ q - 1 \in 1 .. Len(d) + Len(Tail(u)) /\ q - 1 < sh[p] /\ q - 1 > Len(d)
            /\ Tail(u)[(q - 1) - Len(d)] = u[q - Len(d)]
        BY <1>1, <1>3, <2>1, <3>2
      <4> QED BY <2>3, <4>1 DEF Passes
    <3> QED BY <1>1, <2>3, <3>1, <3>2
  <2> QED BY <2>1, <2>2, <2>3
<1>6. sh[Len(d) + Len(u) + 1] = Len(d) + Len(Tail(u)) + 1
  BY <1>1, <1>3
<1> HIDE DEF sh
<1>7. \A n \in Nat : \A at : Coming(at, n, d \o u) => Coming([i \in 1 .. n |-> sh[at[i]]], n, d \o Tail(u))
  BY <1>4
<1>8. /\ \A op : op \in s => op \in s \cup Head(u).ops
      /\ \A op : \A p \in Nat :
           Passes(op, d, u, p) => op \in s \cup Head(u).ops \/ Passes(op, d, Tail(u), sh[p])
  BY <1>5
<1>9. Moved(d, u, s, d, Tail(u), s \cup Head(u).ops, sh)
  BY <1>6, <1>7, <1>8 DEF Moved
<1> QED BY <1>1, <1>9, AskedMoved

\* The server refuses one, and says so.
LEMMA AskedRefused ==
  ASSUME NEW e \in Entries, NEW d \in Seq(Frames), NEW u \in Seq(Frames), NEW s, NEW m,
         Pipe(e, d, u, s, m), u # <<>>, Head(u).kind = "update"
  PROVE  Pipe(e, Append(d, Denied), Tail(u), s, m)
<1> DEFINE k == Len(d)
           line == d \o u
           next == Append(d, Denied) \o Tail(u)
           sh == [p \in Nat |-> p]
<1>1. /\ k \in Nat /\ Len(u) \in Nat /\ Len(u) >= 1 /\ Tail(u) \in Seq(Frames)
      /\ Len(Tail(u)) = Len(u) - 1 /\ Head(u) = u[1]
      /\ \A p \in 1 .. Len(u) - 1 : Tail(u)[p] = u[p + 1]
      /\ Denied \in Frames /\ Append(d, Denied) \in Seq(Frames) /\ Len(Append(d, Denied)) = k + 1
      /\ \A p \in 1 .. k : Append(d, Denied)[p] = d[p]
      /\ Append(d, Denied)[k + 1] = Denied
  <2>1. Denied \in Frames
    BY DEF Denied, Frames
  <2> QED BY <2>1, TailIs, JoinIs, AppendIs
<1>2. /\ Len(line) = k + Len(u) /\ Len(next) = Len(line)
      /\ \A p \in 1 .. k : next[p] = line[p]
      /\ line[k + 1] = Head(u) /\ next[k + 1] = Denied
      /\ \A p \in k + 2 .. Len(next) : next[p] = line[p]
  <2>1. Len(line) = k + Len(u) /\ Len(next) = Len(line)
    BY <1>1, JoinIs
  <2>2. \A p \in 1 .. k : next[p] = d[p] /\ line[p] = d[p]
    BY <1>1, JoinIs
  <2>3. line[k + 1] = Head(u) /\ next[k + 1] = Denied
    BY <1>1, JoinIs
  <2>4. ASSUME NEW p \in k + 2 .. Len(next) PROVE next[p] = line[p]
    <3>1. next[p] = Tail(u)[p - (k + 1)] /\ line[p] = u[p - k] /\ p - (k + 1) \in 1 .. Len(u) - 1
      BY <1>1, <2>1, JoinIs
    <3> QED BY <1>1, <3>1
  <2> QED BY <2>1, <2>2, <2>3, <2>4
<1>3. \A p \in Nat : sh[p] = p
  OBVIOUS
<1>4. ASSUME NEW n \in Nat, NEW at, Coming(at, n, d \o u)
      PROVE  Coming([i \in 1 .. n |-> sh[at[i]]], n, next)
  <2> HIDE DEF line, next, sh
  <2>1. Coming(at, n, line)
    BY <1>4 DEF line
  <2>2. at \in [1 .. n -> 1 .. Len(line)] /\ \A i \in 1 .. n : sh[at[i]] = at[i]
    BY <1>3, <2>1 DEF Coming
  <2>3. [i \in 1 .. n |-> sh[at[i]]] = at
    BY <2>2
  <2>4. \A p \in 1 .. Len(line) : next[p].kind = "step1" <=> line[p].kind = "step1"
    <3> TAKE p \in 1 .. Len(line)
    <3>1. CASE p <= k
      BY <1>1, <1>2, <3>1
    <3>2. CASE p = k + 1
      BY <1>2, <3>2 DEF Denied
    <3>3. CASE p > k + 1
      BY <1>1, <1>2, <3>3
    <3> QED BY <1>1, <3>1, <3>2, <3>3
  <2>5. Coming(at, n, next)
    BY <1>2, <2>1, <2>4 DEF Coming
  <2> QED BY <2>3, <2>5
<1>5. ASSUME NEW op, NEW p \in Nat, Passes(op, d, u, p)
      PROVE  Passes(op, Append(d, Denied), Tail(u), sh[p])
  <2>1. PICK q \in 1 .. Len(d) + Len(u) :
          /\ q < p
          /\ \/ q \in 1 .. Len(d) /\ d[q].kind = "denied"
             \/ q > Len(d) /\ u[q - Len(d)].kind = "update" /\ op \in u[q - Len(d)].ops
    BY <1>5 DEF Passes
  <2>2. q \in 1 .. Len(Append(d, Denied)) + Len(Tail(u)) /\ q < sh[p]
    BY <1>1, <1>3, <2>1
  <2>3. CASE q \in 1 .. Len(d) + 1
    <3>1. q \in 1 .. Len(Append(d, Denied)) /\ Append(d, Denied)[q].kind = "denied"
      BY <1>1, <2>1, <2>3 DEF Denied
    <3> QED BY <2>2, <3>1 DEF Passes
  <2>4. CASE q > Len(d) + 1
    <3>1. /\ q > Len(Append(d, Denied)) /\ u[q - Len(d)].kind = "update" /\ op \in u[q - Len(d)].ops
          /\ Tail(u)[q - Len(Append(d, Denied))] = u[q - Len(d)]
      BY <1>1, <2>1, <2>4
    <3> QED BY <2>2, <3>1 DEF Passes
  <2> QED BY <1>1, <2>1, <2>3, <2>4
<1>6. sh[Len(d) + Len(u) + 1] = Len(Append(d, Denied)) + Len(Tail(u)) + 1
  BY <1>1, <1>3
<1> HIDE DEF sh
<1>7. \A n \in Nat : \A at :
        Coming(at, n, d \o u)
          => Coming([i \in 1 .. n |-> sh[at[i]]], n, Append(d, Denied) \o Tail(u))
  BY <1>4
<1>8. /\ \A op : op \in s => op \in s
      /\ \A op : \A p \in Nat :
           Passes(op, d, u, p) => op \in s \/ Passes(op, Append(d, Denied), Tail(u), sh[p])
  BY <1>5
<1>9. Moved(d, u, s, Append(d, Denied), Tail(u), s, sh)
  BY <1>6, <1>7, <1>8 DEF Moved
<1> QED BY <1>1, <1>9, AskedMoved

\* News of somebody else's edit is sent.
LEMMA AskedOther ==
  ASSUME NEW e \in Entries, NEW d \in Seq(Frames), NEW u \in Seq(Frames), NEW s, NEW m,
         NEW f \in Frames, NEW s2,
         Pipe(e, d, u, s, m), f.kind = "update", s \subseteq s2
  PROVE  Pipe(e, Append(d, f), u, s2, m)
<1> DEFINE k == Len(d)
           line == d \o u
           next == Append(d, f) \o u
           sh == [p \in Nat |-> IF p > k THEN p + 1 ELSE p]
<1>1. /\ k \in Nat /\ Len(u) \in Nat
      /\ Append(d, f) \in Seq(Frames) /\ Len(Append(d, f)) = k + 1
      /\ \A p \in 1 .. k : Append(d, f)[p] = d[p]
      /\ Append(d, f)[k + 1] = f
  BY JoinIs, AppendIs
<1>2. /\ Len(line) = k + Len(u) /\ Len(next) = Len(line) + 1
      /\ \A p \in 1 .. k : next[p] = line[p]
      /\ next[k + 1] = f
      /\ \A p \in k + 1 .. Len(line) : next[p + 1] = line[p]
  <2>1. Len(line) = k + Len(u) /\ Len(next) = Len(line) + 1
    BY <1>1, JoinIs
  <2>2. \A p \in 1 .. k : next[p] = d[p] /\ line[p] = d[p]
    BY <1>1, JoinIs
  <2>3. next[k + 1] = f
    BY <1>1, JoinIs
  <2>4. ASSUME NEW p \in k + 1 .. Len(line) PROVE next[p + 1] = line[p]
    <3>1. next[p + 1] = u[(p + 1) - (k + 1)] /\ line[p] = u[p - k] /\ (p + 1) - (k + 1) = p - k
      BY <1>1, <2>1, JoinIs
    <3> QED BY <3>1
  <2> QED BY <2>1, <2>2, <2>3, <2>4
<1>3. \A p \in Nat : sh[p] = IF p > k THEN p + 1 ELSE p
  OBVIOUS
<1>4. Inserts(line, next, k, sh)
  <2> HIDE DEF line, next, sh
  <2>1. \A p \in 1 .. Len(line) + 1 : sh[p] = IF p > k THEN p + 1 ELSE p
    BY <1>1, <1>2, <1>3
  <2>2. k \in Nat /\ Len(line) \in Nat /\ k <= Len(line)
    BY <1>1, <1>2
  <2> HIDE DEF k
  <2> QED BY <1>2, <2>1, <2>2 DEF Inserts
<1>5. ASSUME NEW op, NEW p \in Nat, Passes(op, d, u, p)
      PROVE  Passes(op, Append(d, f), u, sh[p])
  <2>1. PICK q \in 1 .. Len(d) + Len(u) :
          /\ q < p
          /\ \/ q \in 1 .. Len(d) /\ d[q].kind = "denied"
             \/ q > Len(d) /\ u[q - Len(d)].kind = "update" /\ op \in u[q - Len(d)].ops
    BY <1>5 DEF Passes
  <2>2. CASE q \in 1 .. Len(d) /\ d[q].kind = "denied"
    <3>1. q \in 1 .. Len(Append(d, f)) + Len(u) /\ q < sh[p] /\ q \in 1 .. Len(Append(d, f))
      BY <1>1, <1>3, <2>1, <2>2
    <3>2. Append(d, f)[q].kind = "denied"
      BY <1>1, <2>2
    <3> QED BY <3>1, <3>2 DEF Passes
  <2>3. CASE q > Len(d) /\ u[q - Len(d)].kind = "update" /\ op \in u[q - Len(d)].ops
    <3>1. /\ q + 1 \in 1 .. Len(Append(d, f)) + Len(u) /\ q + 1 < sh[p] /\ q + 1 > Len(Append(d, f))
          /\ (q + 1) - Len(Append(d, f)) = q - Len(d)
      BY <1>1, <1>3, <2>1, <2>3
    <3> QED BY <2>3, <3>1 DEF Passes
  <2> QED BY <2>1, <2>2, <2>3
<1>6. sh[Len(d) + Len(u) + 1] = Len(Append(d, f)) + Len(u) + 1
  BY <1>1, <1>3
<1> HIDE DEF sh
<1>7. \A n \in Nat : \A at :
        Coming(at, n, d \o u) => Coming([i \in 1 .. n |-> sh[at[i]]], n, Append(d, f) \o u)
  BY <1>4, InsertComing
<1>8. Moved(d, u, s, Append(d, f), u, s2, sh)
  BY <1>5, <1>6, <1>7 DEF Moved
<1> QED BY <1>8, AskedMoved

\* The server answers a question: with what there is to know, and with its own.
LEMMA AskedServed ==
  ASSUME NEW e \in Entries, NEW d \in Seq(Frames), NEW u \in Seq(Frames), NEW s, NEW m,
         NEW f \in Frames, NEW g \in Frames,
         Pipe(e, d, u, s, m), u # <<>>, Head(u).kind = "step1", f.kind = "update", g.kind = "step1"
  PROVE  Pipe(e, Append(Append(d, f), g), Tail(u), s, m)
<1> DEFINE k == Len(d)
           line == d \o u
           d2 == Append(Append(d, f), g)
           next == d2 \o Tail(u)
           sh == [p \in Nat |-> IF p > k THEN p + 1 ELSE p]
<1>1. /\ k \in Nat /\ Len(u) \in Nat /\ Len(u) >= 1 /\ Tail(u) \in Seq(Frames)
      /\ Len(Tail(u)) = Len(u) - 1 /\ Head(u) = u[1]
      /\ \A p \in 1 .. Len(u) - 1 : Tail(u)[p] = u[p + 1]
      /\ d2 \in Seq(Frames) /\ Len(d2) = k + 2
      /\ \A p \in 1 .. k : d2[p] = d[p]
      /\ d2[k + 1] = f /\ d2[k + 2] = g
  <2>1. /\ Append(d, f) \in Seq(Frames) /\ Len(Append(d, f)) = k + 1 /\ k \in Nat
        /\ \A p \in 1 .. k : Append(d, f)[p] = d[p]
        /\ Append(d, f)[k + 1] = f
    BY AppendIs, JoinIs
  <2>2. /\ d2 \in Seq(Frames) /\ Len(d2) = k + 2
        /\ \A p \in 1 .. k + 1 : d2[p] = Append(d, f)[p]
        /\ d2[k + 2] = g
    BY <2>1, AppendIs
  <2> QED BY <2>1, <2>2, TailIs, JoinIs
<1> HIDE DEF d2
<1>2. /\ Len(line) = k + Len(u) /\ Len(next) = Len(line) + 1
      /\ \A p \in 1 .. k : next[p] = line[p]
      /\ next[k + 1] = f /\ next[k + 2] = g /\ line[k + 1] = Head(u)
      /\ \A p \in k + 2 .. Len(line) : next[p + 1] = line[p]
  <2>a. Len(line) = k + Len(u) /\ Len(next) = Len(d2) + Len(Tail(u))
    BY <1>1, JoinIs
  <2>1. Len(line) = k + Len(u) /\ Len(next) = Len(line) + 1
    BY <1>1, <2>a
  <2>2. \A p \in 1 .. k : next[p] = d[p] /\ line[p] = d[p]
    BY <1>1, JoinIs
  <2>3. next[k + 1] = f /\ next[k + 2] = g /\ line[k + 1] = Head(u)
    BY <1>1, JoinIs
  <2>4. ASSUME NEW p \in k + 2 .. Len(line) PROVE next[p + 1] = line[p]
    <3>1. /\ next[p + 1] = Tail(u)[(p + 1) - (k + 2)] /\ line[p] = u[p - k]
          /\ (p + 1) - (k + 2) \in 1 .. Len(u) - 1
      BY <1>1, <2>1, JoinIs
    <3> QED BY <1>1, <3>1
  <2> QED BY <2>1, <2>2, <2>3, <2>4
<1>3. \A p \in Nat : sh[p] = IF p > k THEN p + 1 ELSE p
  OBVIOUS
<1>4. Inserts(line, next, k, sh)
  <2> HIDE DEF line, next, sh
  <2>1. \A p \in 1 .. Len(line) + 1 : sh[p] = IF p > k THEN p + 1 ELSE p
    BY <1>1, <1>2, <1>3
  <2>2. k \in Nat /\ Len(line) \in Nat /\ k <= Len(line)
    BY <1>1, <1>2
  <2>3. \A p \in k + 1 .. Len(line) : next[p + 1].kind = "step1" <=> line[p].kind = "step1"
    <3> TAKE p \in k + 1 .. Len(line)
    <3>1. CASE p = k + 1
      <4>1. p + 1 = k + 2
        BY <1>1, <3>1
      <4> QED BY <1>2, <3>1, <4>1
    <3>2. CASE p \in k + 2 .. Len(line)
      BY <1>2, <3>2
    <3> QED BY <2>2, <3>1, <3>2
  <2> HIDE DEF k
  <2> QED BY <1>2, <2>1, <2>2, <2>3 DEF Inserts
<1>5. ASSUME NEW op, NEW p \in Nat, Passes(op, d, u, p)
      PROVE  Passes(op, d2, Tail(u), sh[p])
  <2>1. PICK q \in 1 .. Len(d) + Len(u) :
          /\ q < p
          /\ \/ q \in 1 .. Len(d) /\ d[q].kind = "denied"
             \/ q > Len(d) /\ u[q - Len(d)].kind = "update" /\ op \in u[q - Len(d)].ops
    BY <1>5 DEF Passes
  <2>2. CASE q \in 1 .. Len(d) /\ d[q].kind = "denied"
    <3>1. q \in 1 .. Len(d2) + Len(Tail(u)) /\ q < sh[p] /\ q \in 1 .. Len(d2)
      BY <1>1, <1>3, <2>1, <2>2
    <3>2. d2[q].kind = "denied"
      BY <1>1, <2>2
    <3> QED BY <3>1, <3>2 DEF Passes
  <2>3. CASE q > Len(d) /\ u[q - Len(d)].kind = "update" /\ op \in u[q - Len(d)].ops
    <3>1. q - Len(d) # 1
      BY <1>1, <2>3
    <3>2. /\ q + 1 \in 1 .. Len(d2) + Len(Tail(u)) /\ q + 1 < sh[p] /\ q + 1 > Len(d2)
          /\ Tail(u)[(q + 1) - Len(d2)] = u[q - Len(d)]
      BY <1>1, <1>3, <2>1, <2>3, <3>1
    <3> QED BY <2>3, <3>2 DEF Passes
  <2> QED BY <2>1, <2>2, <2>3
<1>6. sh[Len(d) + Len(u) + 1] = Len(d2) + Len(Tail(u)) + 1
  BY <1>1, <1>3
<1> HIDE DEF sh
<1>7. \A n \in Nat : \A at :
        Coming(at, n, d \o u) => Coming([i \in 1 .. n |-> sh[at[i]]], n, d2 \o Tail(u))
  BY <1>4, InsertComing
<1>8. Moved(d, u, s, d2, Tail(u), s, sh)
  BY <1>5, <1>6, <1>7 DEF Moved
<1> QED BY <1>1, <1>8, AskedMoved DEF d2

\* What the pipe does not look at.
LEMMA AskedSame ==
  ASSUME NEW e \in Entries, NEW d, NEW u, NEW s, NEW m, NEW e2 \in Entries, NEW m2,
         Pipe(e, d, u, s, m),
         e2.probes = e.probes, e2.sent = e.sent, e2.synced = e.synced, e2.denied = e.denied,
         m2 \cap e2.doc \subseteq (m \cap e.doc) \cup s
  PROVE  Pipe(e2, d, u, s, m2)
<1>1. \A p : Clear(e, d, u, s, m, p) => Clear(e2, d, u, s, m2, p)
  BY DEF Clear
<1> QED BY <1>1 DEF Pipe, Asked

LEMMA JoinTwo ==
  ASSUME NEW d \in Seq(Frames), NEW f \in Frames, NEW g \in Frames
  PROVE  /\ d \o <<f, g>> = Append(Append(d, f), g) /\ d \o <<f>> = Append(d, f)
         /\ d \o (<<f>> \o <<g>>) = Append(Append(d, f), g)
OBVIOUS
-----------------------------------------------------------------------------
(* The steps.                                                              *)

LEMMA FrameTypes ==
  /\ \A ops \in SUBSET Ops : Step1(ops) \in Frames /\ Update(ops) \in Frames
  /\ \A ops : Step1(ops).kind = "step1" /\ Step1(ops).ops = ops
  /\ \A ops : Update(ops).kind = "update" /\ Update(ops).ops = ops
  /\ Denied \in Frames /\ Denied.kind = "denied" /\ Denied.ops = {}
BY DEF Step1, Update, Denied, Frames

LEMMA Types ==
  ASSUME WebInv
  PROVE  /\ up \in Seq(Frames) /\ down \in Seq(Frames)
         /\ made \subseteq Ops /\ server \subseteq made /\ cached \subseteq made /\ mine \subseteq made
         /\ entry = None \/ entry \in Entries
         /\ {tab, online, viewed, pending, editor} \subseteq BOOLEAN
BY DEF WebInv, NothingForgotten, TypeOK

LEMMA FieldTypes ==
  ASSUME NEW e \in Entries
  PROVE  /\ e.sent \in Nat /\ e.probes \in Seq(Nat) /\ e.doc \in SUBSET Ops
         /\ e.hydrated \in BOOLEAN /\ e.synced \in BOOLEAN /\ e.timer \in BOOLEAN /\ e.denied \in BOOLEAN
BY DEF Entries

\* What the socket client makes of an entry.
LEMMA ProbeIs ==
  ASSUME NEW e \in Entries
  PROVE  /\ Probe(e) \in Entries /\ Probe(e).doc = e.doc /\ Probe(e).hydrated = e.hydrated
         /\ Probe(e).synced = e.synced /\ Probe(e).sent = e.sent
         /\ Probe(e).probes = Append(e.probes, e.sent) /\ Probe(e).denied = e.denied
<1>1. Append(e.probes, e.sent) \in Seq(Nat)
  BY FieldTypes
<1> QED BY <1>1 DEF Probe, Entries

LEMMA HandshakeIs ==
  ASSUME NEW e \in Entries
  PROVE  /\ Handshake(e) \in Entries /\ Handshake(e).doc = e.doc
         /\ Handshake(e).hydrated = e.hydrated /\ Handshake(e).synced = e.synced
         /\ Handshake(e).sent = e.sent /\ Handshake(e).probes = <<e.sent>>
         /\ Handshake(e).denied = FALSE
<1> DEFINE e0 == [e EXCEPT !.probes = <<>>, !.denied = FALSE]
<1>1. /\ e0 \in Entries /\ e0.doc = e.doc /\ e0.hydrated = e.hydrated /\ e0.synced = e.synced
      /\ e0.sent = e.sent /\ e0.probes = <<>> /\ e0.denied = FALSE
  <2>1. <<>> \in Seq(Nat)
    OBVIOUS
  <2> QED BY <2>1 DEF Entries
<1>2. Handshake(e) = Probe(e0)
  BY DEF Handshake
<1> HIDE DEF e0
<1>3. e.sent \in Nat /\ Append(<<>>, e.sent) = <<e.sent>>
  BY FieldTypes
<1> QED BY <1>1, <1>2, <1>3, ProbeIs

LEMMA ChangedIs ==
  ASSUME NEW e \in Entries, NEW ops \in SUBSET Ops
  PROVE  /\ Changed(e, ops) \in Entries /\ Changed(e, ops).doc = e.doc \cup ops
         /\ Changed(e, ops).hydrated = e.hydrated /\ Changed(e, ops).synced = e.synced
         /\ Changed(e, ops).sent = e.sent + 1 /\ Changed(e, ops).probes = e.probes
         /\ Changed(e, ops).denied = e.denied
<1>1. e.sent + 1 \in Nat /\ e.doc \cup ops \in SUBSET Ops
  BY FieldTypes
<1> QED BY <1>1 DEF Changed, Entries

LEMMA OpenedType ==
  /\ Opened \in Entries /\ Opened.doc = {} /\ ~ Opened.hydrated /\ ~ Opened.synced
  /\ Opened # None
  /\ online => Opened.probes = <<Opened.sent>>
<1> DEFINE e == [doc |-> {}, hydrated |-> FALSE, synced |-> FALSE, sent |-> 0, probes |-> <<>>,
                 timer |-> FALSE, denied |-> FALSE]
<1>1. e \in Entries /\ e.doc = {} /\ e.hydrated = FALSE /\ e.synced = FALSE
  BY DEF Entries
<1>2. Opened = IF online THEN Handshake(e) ELSE e
  BY DEF Opened
<1> HIDE DEF e
<1>3. Handshake(e) \in Entries /\ Handshake(e).doc = {} /\ Handshake(e).hydrated = FALSE
      /\ Handshake(e).synced = FALSE /\ Handshake(e).probes = <<Handshake(e).sent>>
  BY <1>1, HandshakeIs
<1> QED BY <1>1, <1>2, <1>3, NoneAssumption

\* TypeOK without what lies under BOOLEAN and the bounds, which the provers take apart.
TypesOf ==
  /\ entry = None \/ entry \in Entries
  /\ cached \subseteq made /\ server \subseteq made /\ mine \subseteq made /\ made \subseteq Ops
  /\ up \in Seq(Frames) /\ down \in Seq(Frames)
  /\ tab \/ ~ (online \/ viewed \/ entry # None)
  /\ viewed \/ (pending /\ tab) => entry # None

Flags == tab \in BOOLEAN /\ online \in BOOLEAN /\ viewed \in BOOLEAN /\ pending \in BOOLEAN /\ editor \in BOOLEAN

Bounded == drops \in 0 .. MaxDrops /\ tabs \in 0 .. MaxTabs /\ roles \in 0 .. MaxRoles

LEMMA TypeParts == TypeOK <=> TypesOf /\ Flags /\ Bounded
BY DEF TypeOK, TypesOf, Flags, Bounded

LEMMA FlagsKept == TypeOK /\ [Next]_vars => Flags' /\ Bounded'
<1> SUFFICES ASSUME TypeOK, [Next]_vars PROVE Flags' /\ Bounded'
  OBVIOUS
<1>1. Flags /\ Bounded
  BY TypeParts
<1>2. Flags'
  BY <1>1 DEF Flags, Next, vars, socket, bounds, Connect, Drop, Hydrate, ProbeTimer, Receive, Answered,
       View, Subscribe, Release, CloseTab, OpenTab, Edit, OtherEdit, Serve, ChangeRole
<1>3. /\ drops' = drops \/ (drops < MaxDrops /\ drops' = drops + 1)
      /\ tabs' = tabs \/ (tabs < MaxTabs /\ tabs' = tabs + 1)
      /\ roles' = roles \/ (roles < MaxRoles /\ roles' = roles + 1)
  BY DEF Next, vars, socket, bounds, Connect, Drop, Hydrate, ProbeTimer, Receive,
         View, Release, CloseTab, OpenTab, Edit, OtherEdit, Serve, ChangeRole
<1>4. Bounded'
  BY <1>1, <1>3, BoundAssumption DEF Bounded
<1> QED BY <1>2, <1>4

\* Of the type invariant, what a step's proof has to show.
LEMMA TypesKept ==
  ASSUME WebInv, [Next]_vars, TypesOf' PROVE TypeOK'
<1>1. Flags' /\ Bounded'
  BY FlagsKept DEF WebInv, NothingForgotten
<1>2. (TypesOf /\ Flags /\ Bounded => TypeOK)'
  BY TypeParts, PTL
<1> QED BY <1>1, <1>2

LEMMA InitInv == Init => WebInv
<1> SUFFICES ASSUME Init PROVE WebInv
  OBVIOUS
<1>1. TypesOf /\ Flags /\ Bounded
  <2>1. TypesOf
    BY DEF Init, TypesOf
  <2>2. Flags
    BY DEF Init, Flags
  <2>3. Bounded
    BY BoundAssumption DEF Init, Bounded
  <2> QED BY <2>1, <2>2, <2>3
<1>2. TypeOK
  BY <1>1, TypeParts
<1> QED BY <1>2 DEF Init, WebInv, NothingForgotten, Owed, Doc, FramesTrue, CacheTrue

\* A question is sent, as the only frame.
LEMMA ConnectInv ==
  ASSUME WebInv, Calm, Connect PROVE WebInv'
<1>1. entry # None => entry \in Entries /\ entry.hydrated /\ entry' = Handshake(entry) /\ up' = <<Step1(entry.doc)>>
  BY Types DEF Connect, CacheFirst, Calm
<1>2. entry = None => entry' = None /\ up' = <<>>
  BY DEF Connect
<1>3. down' = <<>> /\ UNCHANGED <<tab, viewed, pending, cached, server, editor, made, mine, bounds>> /\ tab /\ online'
  BY DEF Connect
<1>4. /\ up' \in Seq(Frames) /\ down' \in Seq(Frames)
      /\ \A i \in 1 .. Len(up') : up'[i].kind # "denied" /\ up'[i].ops \subseteq made
      /\ Len(down') = 0
  <2>1. CASE entry = None
    BY <1>2, <1>3, <2>1
  <2>2. CASE entry # None
    <3>1. Step1(entry.doc) \in Frames /\ Step1(entry.doc).kind = "step1" /\ Step1(entry.doc).ops = entry.doc
      BY <1>1, <2>2, FieldTypes, FrameTypes
    <3>2. up' = <<Step1(entry.doc)>> /\ entry.doc \subseteq made
      BY <1>1, <2>2 DEF WebInv, CacheTrue
    <3> QED BY <1>3, <3>1, <3>2
  <2> QED BY <2>1, <2>2
<1>5. entry # None => /\ entry' \in Entries /\ entry' # None /\ entry'.doc = entry.doc
                      /\ entry'.hydrated = entry.hydrated /\ entry'.synced = entry.synced
  BY <1>1, HandshakeIs, NoneAssumption
<1>6. TypeOK'
  <2>1. TypesOf'
    BY <1>2, <1>3, <1>4, <1>5, TypeParts DEF WebInv, NothingForgotten, TypesOf
  <2> QED BY <2>1, TypesKept DEF Next
<1>7. NothingForgotten'
  BY <1>2, <1>3, <1>5, <1>6 DEF WebInv, NothingForgotten, Owed, Doc
<1>8. FramesTrue' /\ CacheTrue'
  BY <1>2, <1>3, <1>4, <1>5 DEF WebInv, FramesTrue, CacheTrue
<1>9. ASSUME entry' # None PROVE Pipe(entry', down', up', server', mine')
  <2>1. entry # None
    BY <1>2, <1>9
  <2>a. ~ entry.synced
    BY <2>1 DEF WebInv, Connect
  <2>2. /\ entry' \in Entries /\ ~ entry'.synced /\ entry'.probes = <<entry'.sent>>
        /\ Step1(entry.doc) \in Frames /\ Step1(entry.doc).kind = "step1"
    <3>1. entry \in Entries /\ entry' = Handshake(entry)
      BY <1>1, <2>1
    <3> QED BY <2>a, <3>1, FieldTypes, HandshakeIs, FrameTypes
  <2> DEFINE nil == <<>>
             f == Step1(entry.doc)
  <2>3. nil \in Seq(Frames) /\ Append(nil, f) = <<f>> /\ Len(nil) = 0
    BY <2>2
  <2> HIDE DEF nil, f
  <2>4. /\ \A p \in 1 .. Len(nil) : nil[p].kind # "step1"
        /\ f \in Frames /\ f.kind = "step1"
        /\ ~ entry'.synced /\ entry' \in Entries /\ entry'.probes = <<entry'.sent>>
    BY <2>2, <2>3 DEF f
  <2>5. Pipe(entry', nil, Append(nil, f), server', mine')
    BY <2>3, <2>4, AskedFirst
  <2>6. up' = Append(nil, f) /\ down' = nil
    BY <1>1, <1>3, <2>1, <2>3 DEF nil, f
  <2> QED BY <2>5, <2>6
<1> QED BY <1>3, <1>7, <1>8, <1>9 DEF WebInv

LEMMA DropInv ==
  ASSUME WebInv, Drop PROVE WebInv'
<1>1. entry # None => /\ entry' \in Entries /\ entry'.doc = entry.doc /\ entry'.hydrated = entry.hydrated
                      /\ ~ entry'.synced /\ entry' # None
  BY Types, NoneAssumption DEF Drop, Entries
<1>2. entry = None => entry' = None
  BY DEF Drop
<1>3. TypeOK'
  <2>1. TypesOf'
    BY <1>1, <1>2, TypeParts DEF WebInv, NothingForgotten, TypesOf, Drop
  <2> QED BY <2>1, TypesKept DEF Next
<1> QED BY <1>1, <1>2, <1>3 DEF WebInv, NothingForgotten, Owed, Doc, FramesTrue, CacheTrue, Drop

LEMMA CloseTabInv ==
  ASSUME WebInv, CloseTab PROVE WebInv'
<1>1. TypeOK'
  <2>1. TypesOf'
    BY TypeParts DEF WebInv, NothingForgotten, TypesOf, CloseTab
  <2> QED BY <2>1, TypesKept DEF Next
<1> QED BY <1>1 DEF WebInv, NothingForgotten, Owed, Doc, FramesTrue, CacheTrue, CloseTab

LEMMA OpenTabInv ==
  ASSUME WebInv, OpenTab PROVE WebInv'
<1>1. ~ online /\ (entry' = Opened \/ entry' = None) /\ (pending => entry' = Opened)
  BY DEF WebInv, NothingForgotten, TypeOK, OpenTab
<1>2. TypeOK'
  <2>1. TypesOf'
    BY <1>1, OpenedType, TypeParts DEF WebInv, NothingForgotten, TypesOf, OpenTab, socket
  <2> QED BY <2>1, TypesKept DEF Next
<1> QED BY <1>1, <1>2, OpenedType DEF WebInv, NothingForgotten, Owed, Doc, FramesTrue, CacheTrue, OpenTab, socket

LEMMA ChangeRoleInv ==
  ASSUME WebInv, ChangeRole PROVE WebInv'
<1>1. TypeOK'
  <2>1. TypesOf'
    BY TypeParts DEF WebInv, NothingForgotten, TypesOf, ChangeRole, socket
  <2> QED BY <2>1, TypesKept DEF Next
<1> QED BY <1>1 DEF WebInv, NothingForgotten, Owed, Doc, FramesTrue, CacheTrue, ChangeRole, socket

LEMMA ReleaseInv ==
  ASSUME WebInv, Release PROVE WebInv'
<1>1. entry' = entry \/ (entry' = None /\ ~ pending)
  BY DEF Release
<1>2. TypeOK'
  <2>1. TypesOf'
    BY <1>1, TypeParts DEF WebInv, NothingForgotten, TypesOf, Release, socket
  <2> QED BY <2>1, TypesKept DEF Next
<1> QED BY <1>1, <1>2 DEF WebInv, NothingForgotten, Owed, Doc, FramesTrue, CacheTrue, Release, socket

\* A view of a note that is not subscribed asks about a document of which nothing is known yet.
LEMMA ViewInv ==
  ASSUME WebInv, Calm, View PROVE WebInv'
<1>1. CASE entry = None /\ up = <<>> /\ down = <<>> /\ Subscribe
  <2>1. /\ entry' = Opened /\ Opened \in Entries /\ Opened.doc = {} /\ ~ Opened.hydrated
        /\ ~ Opened.synced /\ Opened # None
    BY <1>1, OpenedType DEF Subscribe
  <2>2. /\ Step1(Opened.doc) \in Frames /\ Step1(Opened.doc).kind = "step1"
        /\ Step1(Opened.doc).ops = {}
    BY <2>1, FrameTypes
  <2> DEFINE f == Step1(Opened.doc)
  <2>3. up' = (IF online THEN Append(up, f) ELSE up) /\ up' \in Seq(Frames)
    BY <1>1, <2>2 DEF Subscribe
  <2>4. \A i \in 1 .. Len(up') : up'[i].kind # "denied" /\ up'[i].ops = {}
    <3>1. up' = <<>> \/ up' = <<f>>
      BY <1>1, <2>3
    <3> QED BY <2>2, <3>1
  <2>5. TypeOK'
    <3>1. TypesOf'
      BY <2>1, <2>3, TypeParts DEF WebInv, NothingForgotten, TypesOf, View
    <3> QED BY <3>1, TypesKept DEF Next
  <2>6. ASSUME online PROVE Pipe(entry', down', up', server', mine')
    <3> DEFINE e == Opened
               nil == up
    <3>1. /\ nil \in Seq(Frames) /\ Len(nil) = 0 /\ f \in Frames /\ f.kind = "step1" /\ e \in Entries
          /\ ~ e.synced /\ e.probes = <<e.sent>>
      BY <1>1, <2>1, <2>2, <2>6, OpenedType
    <3> HIDE DEF e, nil, f
    <3>2. \A p \in 1 .. Len(nil) : nil[p].kind # "step1"
      BY <3>1
    <3>3. Pipe(e, nil, Append(nil, f), server, mine)
      BY <3>1, <3>2, AskedFirst
    <3>4. up' = Append(nil, f) /\ down' = nil /\ entry' = e /\ server' = server /\ mine' = mine
      BY <1>1, <2>1, <2>3, <2>6 DEF e, nil, f, View
    <3> QED BY <3>3, <3>4
  <2>7. NothingForgotten'
    BY <1>1, <2>1, <2>5 DEF WebInv, NothingForgotten, Owed, Doc, View
  <2>8. ~ online' => up' = <<>> /\ down' = <<>> /\ ~ entry'.synced
    BY <1>1, <2>1, <2>3 DEF View
  <2>9. FramesTrue' /\ CacheTrue'
    BY <1>1, <2>1, <2>4 DEF WebInv, FramesTrue, CacheTrue, View
  <2> QED BY <2>6, <2>7, <2>8, <2>9 DEF WebInv, View
<1>2. CASE entry # None /\ UNCHANGED <<entry, up>>
  <2>1. TypesOf'
    BY <1>2, TypeParts DEF WebInv, NothingForgotten, TypesOf, View
  <2>2. TypeOK'
    BY <2>1, TypesKept DEF Next
  <2> QED BY <1>2, <2>2 DEF WebInv, NothingForgotten, Owed, Doc, FramesTrue, CacheTrue, View
<1> QED BY <1>1, <1>2 DEF View, Calm

\* An edit is marked before it is sent.
LEMMA EditInv ==
  ASSUME WebInv, NEW op \in Ops, Edit(op) PROVE WebInv'
<1>1. /\ entry # None /\ entry \in Entries /\ {op} \in SUBSET Ops /\ made' = made \cup {op}
      /\ made \subseteq Ops
  BY TypeParts DEF WebInv, NothingForgotten, TypesOf, Edit
<1>2. /\ entry' \in Entries /\ entry'.doc = entry.doc \cup {op}
      /\ entry'.hydrated = entry.hydrated /\ entry'.synced = entry.synced
      /\ entry'.sent = entry.sent + 1 /\ entry'.probes = entry.probes
      /\ entry'.denied = entry.denied /\ entry' # None
  BY <1>1, ChangedIs, NoneAssumption DEF Edit
<1> DEFINE f == Update({op})
<1>3. f \in Frames /\ f.kind = "update" /\ f.ops = {op}
  BY <1>1, FrameTypes
<1> HIDE DEF f
<1>4. up' = (IF online THEN Append(up, f) ELSE up) /\ up \in Seq(Frames)
  <2>1. up' = IF online THEN up \o <<f>> ELSE up
    BY DEF Edit, Sent, f
  <2>2. up \in Seq(Frames)
    BY Types
  <2> QED BY <1>3, <2>1, <2>2, JoinTwo
<1>5. /\ up' \in Seq(Frames)
      /\ \A i \in 1 .. Len(up') : up'[i].kind # "denied" /\ up'[i].ops \subseteq made'
  <2>1. CASE ~ online
    BY <1>1, <1>4, <2>1 DEF WebInv, FramesTrue
  <2>2. CASE online
    <3>1. /\ up' \in Seq(Frames) /\ Len(up') = Len(up) + 1 /\ Len(up) \in Nat
          /\ \A i \in 1 .. Len(up) : up'[i] = up[i]
          /\ up'[Len(up) + 1] = f
      BY <1>3, <1>4, <2>2, AppendIs
    <3>2. \A i \in 1 .. Len(up') : i \in 1 .. Len(up) \/ i = Len(up) + 1
      BY <3>1
    <3> QED BY <1>1, <1>3, <3>1, <3>2 DEF WebInv, FramesTrue
  <2> QED BY <2>1, <2>2
<1>6. TypeOK'
  <2>1. TypesOf'
    BY <1>1, <1>2, <1>5, TypeParts DEF WebInv, NothingForgotten, TypesOf, Edit
  <2> QED BY <2>1, TypesKept DEF Next
<1>7. NothingForgotten'
  BY <1>6 DEF NothingForgotten, Edit
<1>8. FramesTrue'
  BY <1>5 DEF WebInv, FramesTrue, Edit
<1>9. CacheTrue'
  BY <1>1, <1>2 DEF WebInv, CacheTrue, Edit
<1>10. ASSUME online PROVE Pipe(entry', down', up', server', mine')
  <2>1. Pipe(entry, down, up, server, mine) /\ down \in Seq(Frames)
    BY <1>1, <1>10, Types DEF WebInv
  <2>2. mine' \cap entry'.doc \subseteq (mine \cap entry.doc) \cup server \cup f.ops
    BY <1>2, <1>3 DEF Edit
  <2>3. Pipe(entry', down, Append(up, f), server, mine')
    BY <1>1, <1>2, <1>3, <1>4, <2>1, <2>2, AskedUpdate
  <2> QED BY <1>4, <1>10, <2>3 DEF Edit
<1>11. ~ online' => up' = <<>> /\ down' = <<>> /\ ~ entry'.synced
  BY <1>1, <1>2, <1>4 DEF WebInv, Edit
<1> QED BY <1>7, <1>8, <1>9, <1>10, <1>11 DEF WebInv, Edit

LEMMA HydrateInv ==
  ASSUME WebInv, Hydrate PROVE WebInv'
<1>1. /\ entry # None /\ entry \in Entries /\ ~ entry.hydrated /\ cached \in SUBSET Ops
      /\ entry.doc \subseteq made /\ made \subseteq Ops /\ cached \subseteq made
  BY Types DEF WebInv, CacheTrue, Hydrate
<1> DEFINE e == [entry EXCEPT !.hydrated = TRUE]
<1>2. /\ e \in Entries /\ e.doc = entry.doc /\ e.hydrated /\ e.synced = entry.synced /\ e.sent = entry.sent
      /\ e.probes = entry.probes /\ e.denied = entry.denied
  BY <1>1 DEF Entries
<1>3. \/ cached \subseteq entry.doc /\ entry' = e /\ up' = up
      \/ entry' = Changed(e, cached) /\ Sent(<<Update(cached \ entry.doc)>>)
  BY DEF Hydrate
<1> HIDE DEF e
<1>4. /\ entry' \in Entries /\ entry'.doc = entry.doc \cup cached /\ entry'.hydrated
      /\ entry'.synced = entry.synced /\ entry'.probes = entry.probes
      /\ entry'.denied = entry.denied /\ entry' # None
  <2>1. CASE cached \subseteq entry.doc /\ entry' = e
    BY <1>2, <2>1, NoneAssumption
  <2>2. CASE entry' = Changed(e, cached)
    BY <1>1, <1>2, <2>2, ChangedIs, NoneAssumption
  <2> QED BY <1>3, <2>1, <2>2
<1> DEFINE f == Update(cached \ entry.doc)
<1>5. f \in Frames /\ f.kind = "update" /\ f.ops = cached \ entry.doc
  BY <1>1, FrameTypes
<1>6. \/ up' = up /\ (online => entry'.sent = entry.sent /\ cached \subseteq entry.doc)
      \/ up' = Append(up, f) /\ entry'.sent = entry.sent + 1 /\ online
  <2>1. CASE cached \subseteq entry.doc /\ entry' = e /\ up' = up
    BY <1>2, <2>1
  <2>2. CASE entry' = Changed(e, cached) /\ Sent(<<f>>)
    <3>1. entry'.sent = entry.sent + 1
      BY <1>1, <1>2, <2>2, ChangedIs
    <3>2. up' = IF online THEN Append(up, f) ELSE up
      BY <1>5, <2>2, Types, JoinTwo DEF Sent
    <3> QED BY <3>1, <3>2
  <2> QED BY <1>3, <2>1, <2>2
<1> HIDE DEF f
<1>7. /\ up' \in Seq(Frames)
      /\ \A i \in 1 .. Len(up') : up'[i].kind # "denied" /\ up'[i].ops \subseteq made
  <2>1. CASE up' = up
    BY <2>1, Types DEF WebInv, FramesTrue
  <2>2. CASE up' = Append(up, f)
    <3>1. /\ up' \in Seq(Frames) /\ Len(up') = Len(up) + 1 /\ Len(up) \in Nat
          /\ \A i \in 1 .. Len(up) : up'[i] = up[i]
          /\ up'[Len(up) + 1] = f
      BY <1>5, <2>2, Types, AppendIs
    <3>2. \A i \in 1 .. Len(up') : i \in 1 .. Len(up) \/ i = Len(up) + 1
      BY <3>1
    <3> QED BY <1>1, <1>5, <3>1, <3>2 DEF WebInv, FramesTrue
  <2> QED BY <1>6, <2>1, <2>2
<1>8. TypeOK'
  <2>1. TypesOf'
    BY <1>1, <1>4, <1>7, TypeParts DEF WebInv, NothingForgotten, TypesOf, Hydrate
  <2> QED BY <2>1, TypesKept DEF Next
<1>9. NothingForgotten'
  BY <1>1, <1>4, <1>8 DEF WebInv, NothingForgotten, Owed, Doc, Hydrate
<1>10. FramesTrue' /\ CacheTrue'
  BY <1>1, <1>4, <1>7 DEF WebInv, FramesTrue, CacheTrue, Hydrate
<1>11. ASSUME online PROVE Pipe(entry', down', up', server', mine')
  <2>1. Pipe(entry, down, up, server, mine) /\ down \in Seq(Frames) /\ up \in Seq(Frames)
    BY <1>1, <1>11, Types DEF WebInv
  <2>2. CASE up' = up /\ entry'.sent = entry.sent /\ cached \subseteq entry.doc
    <3>1. mine \cap entry'.doc \subseteq (mine \cap entry.doc) \cup server
      BY <1>4, <2>2
    <3>2. Pipe(entry', down, up, server, mine)
      BY <1>1, <1>4, <2>1, <2>2, <3>1, AskedSame
    <3> QED BY <2>2, <3>2 DEF Hydrate
  <2>3. CASE up' = Append(up, f) /\ entry'.sent = entry.sent + 1
    <3>1. mine \cap entry'.doc \subseteq (mine \cap entry.doc) \cup server \cup f.ops
      BY <1>4, <1>5
    <3>2. Pipe(entry', down, Append(up, f), server, mine)
      BY <1>1, <1>4, <1>5, <2>1, <2>3, <3>1, AskedUpdate
    <3> QED BY <2>3, <3>2 DEF Hydrate
  <2> QED BY <1>6, <1>11, <2>2, <2>3
<1>12. ~ online' => up' = <<>> /\ down' = <<>> /\ ~ entry'.synced
  BY <1>1, <1>4, <1>6 DEF WebInv, Hydrate
<1> QED BY <1>9, <1>10, <1>11, <1>12 DEF WebInv, Hydrate

\* What is sent: nothing that is a refusal, nothing that nobody made.
LEMMA UpAppend ==
  ASSUME WebInv, NEW f \in Frames, f.kind # "denied", f.ops \subseteq made, up' = Append(up, f),
         made \subseteq made'
  PROVE  /\ up' \in Seq(Frames)
         /\ \A i \in 1 .. Len(up') : up'[i].kind # "denied" /\ up'[i].ops \subseteq made'
<1>1. /\ up' \in Seq(Frames) /\ Len(up') = Len(up) + 1 /\ Len(up) \in Nat
      /\ \A i \in 1 .. Len(up) : up'[i] = up[i]
      /\ up'[Len(up) + 1] = f
  BY Types, AppendIs
<1>2. \A i \in 1 .. Len(up') : i \in 1 .. Len(up) \/ i = Len(up) + 1
  BY <1>1
<1> QED BY <1>1, <1>2 DEF WebInv, FramesTrue

LEMMA ProbeTimerInv ==
  ASSUME WebInv, ProbeTimer PROVE WebInv'
<1>1. entry # None /\ entry \in Entries /\ entry.doc \in SUBSET Ops /\ entry.doc \subseteq made
  BY Types, FieldTypes DEF WebInv, CacheTrue, ProbeTimer
<1> DEFINE e == [entry EXCEPT !.timer = FALSE]
           f == Step1(entry.doc)
<1>2. /\ e \in Entries /\ e.doc = entry.doc /\ e.hydrated = entry.hydrated /\ e.synced = entry.synced
      /\ e.sent = entry.sent /\ e.probes = entry.probes /\ e.denied = entry.denied
  BY <1>1 DEF Entries
<1>3. \/ entry.synced /\ online /\ entry' = Probe(e) /\ Sent(<<f>>)
      \/ ~ (entry.synced /\ online) /\ entry' = e /\ up' = up
  BY DEF ProbeTimer
<1> HIDE DEF e
<1>4. f \in Frames /\ f.kind = "step1" /\ f.ops = entry.doc
  BY <1>1, FrameTypes
<1>5. \/ entry.synced /\ online /\ up' = Append(up, f) /\ entry'.probes = Append(entry.probes, entry.sent)
      \/ up' = up /\ entry'.probes = entry.probes
  <2>1. CASE entry.synced /\ online /\ entry' = Probe(e) /\ Sent(<<f>>)
    <3>1. entry'.probes = Append(entry.probes, entry.sent)
      BY <1>2, <2>1, ProbeIs
    <3>2. up' = Append(up, f)
      BY <1>4, <2>1, Types, JoinTwo DEF Sent
    <3> QED BY <2>1, <3>1, <3>2
  <2>2. CASE entry' = e /\ up' = up
    BY <1>2, <2>2
  <2> QED BY <1>3, <2>1, <2>2
<1>6. /\ entry' \in Entries /\ entry'.doc = entry.doc /\ entry'.hydrated = entry.hydrated
      /\ entry'.synced = entry.synced /\ entry'.sent = entry.sent /\ entry'.denied = entry.denied
      /\ entry' # None
  <2>1. CASE entry' = Probe(e)
    BY <1>2, <2>1, ProbeIs, NoneAssumption
  <2>2. CASE entry' = e
    BY <1>2, <2>2, NoneAssumption
  <2> QED BY <1>3, <2>1, <2>2
<1> HIDE DEF f
<1>7. /\ up' \in Seq(Frames)
      /\ \A i \in 1 .. Len(up') : up'[i].kind # "denied" /\ up'[i].ops \subseteq made'
  <2>1. CASE up' = up
    BY <2>1, Types DEF WebInv, FramesTrue, ProbeTimer
  <2>2. CASE up' = Append(up, f)
    BY <1>1, <1>4, <2>2, UpAppend DEF ProbeTimer
  <2> QED BY <1>5, <2>1, <2>2
<1>8. TypeOK'
  <2>1. TypesOf'
    BY <1>1, <1>6, <1>7, TypeParts DEF WebInv, NothingForgotten, TypesOf, ProbeTimer
  <2> QED BY <2>1, TypesKept DEF Next
<1>9. NothingForgotten'
  BY <1>1, <1>6, <1>8 DEF WebInv, NothingForgotten, Owed, Doc, ProbeTimer
<1>10. FramesTrue' /\ CacheTrue'
  BY <1>1, <1>6, <1>7 DEF WebInv, FramesTrue, CacheTrue, ProbeTimer
<1>11. ASSUME online PROVE Pipe(entry', down', up', server', mine')
  <2>1. Pipe(entry, down, up, server, mine) /\ down \in Seq(Frames) /\ up \in Seq(Frames)
    BY <1>1, <1>11, Types DEF WebInv
  <2>2. CASE up' = up /\ entry'.probes = entry.probes
    <3>1. Pipe(entry', down, up, server, mine)
      BY <1>1, <1>6, <2>1, <2>2, AskedSame
    <3> QED BY <2>2, <3>1 DEF ProbeTimer
  <2>3. CASE entry.synced /\ up' = Append(up, f) /\ entry'.probes = Append(entry.probes, entry.sent)
    <3>1. Pipe(entry', down, Append(up, f), server, mine)
      BY <1>1, <1>4, <1>6, <2>1, <2>3, AskedAgain
    <3> QED BY <2>3, <3>1 DEF ProbeTimer
  <2> QED BY <1>5, <2>2, <2>3
<1>12. ~ online' => up' = <<>> /\ down' = <<>> /\ ~ entry'.synced
  BY <1>1, <1>5, <1>6 DEF WebInv, ProbeTimer
<1> QED BY <1>9, <1>10, <1>11, <1>12 DEF WebInv, ProbeTimer

\* What the server sends: refusals, and what it has.
LEMMA DownAppend ==
  ASSUME NEW d \in Seq(Frames), NEW f \in Frames, NEW s,
         \A i \in 1 .. Len(d) : d[i].kind # "denied" => d[i].ops \subseteq s,
         f.kind # "denied" => f.ops \subseteq s
  PROVE  \A i \in 1 .. Len(Append(d, f)) :
           Append(d, f)[i].kind # "denied" => Append(d, f)[i].ops \subseteq s
<1>1. /\ Len(Append(d, f)) = Len(d) + 1 /\ Len(d) \in Nat
      /\ \A i \in 1 .. Len(d) : Append(d, f)[i] = d[i]
      /\ Append(d, f)[Len(d) + 1] = f
  BY AppendIs, JoinIs
<1>2. \A i \in 1 .. Len(d) + 1 : i \in 1 .. Len(d) \/ i = Len(d) + 1
  BY <1>1
<1> QED BY <1>1, <1>2

LEMMA OtherEditInv ==
  ASSUME WebInv, NEW op \in Ops, OtherEdit(op) PROVE WebInv'
<1> DEFINE f == Update({op})
<1>1. f \in Frames /\ f.kind = "update" /\ f.ops = {op}
  BY FrameTypes
<1>2. /\ down' = (IF online THEN Append(down, f) ELSE down) /\ down \in Seq(Frames)
      /\ server' = server \cup {op} /\ made' = made \cup {op} /\ made \subseteq Ops
  BY Types DEF OtherEdit
<1> HIDE DEF f
<1>3. /\ down' \in Seq(Frames)
      /\ \A i \in 1 .. Len(down') : down'[i].kind # "denied" => down'[i].ops \subseteq server'
  <2>1. \A i \in 1 .. Len(down) : down[i].kind # "denied" => down[i].ops \subseteq server'
    BY <1>2 DEF WebInv, FramesTrue
  <2>2. f.ops \subseteq server'
    BY <1>1, <1>2
  <2>3. \A i \in 1 .. Len(Append(down, f)) :
          Append(down, f)[i].kind # "denied" => Append(down, f)[i].ops \subseteq server'
    BY <1>1, <1>2, <2>1, <2>2, DownAppend
  <2> QED BY <1>1, <1>2, <2>1, <2>3
<1>4. TypeOK'
  <2>1. TypesOf'
    BY <1>2, <1>3, TypeParts DEF WebInv, NothingForgotten, TypesOf, OtherEdit
  <2> QED BY <2>1, TypesKept DEF Next
<1>5. NothingForgotten'
  BY <1>2, <1>4 DEF WebInv, NothingForgotten, Owed, Doc, OtherEdit
<1>6. FramesTrue' /\ CacheTrue'
  BY <1>2, <1>3 DEF WebInv, FramesTrue, CacheTrue, OtherEdit
<1>7. ASSUME online, entry # None PROVE Pipe(entry', down', up', server', mine')
  <2>1. Pipe(entry, down, up, server, mine) /\ up \in Seq(Frames) /\ entry \in Entries
    BY <1>7, Types DEF WebInv
  <2>2. Pipe(entry, Append(down, f), up, server', mine)
    BY <1>1, <1>2, <2>1, AskedOther
  <2> QED BY <1>2, <1>7, <2>2 DEF OtherEdit
<1>8. ~ online' => up' = <<>> /\ down' = <<>> /\ (entry' # None => ~ entry'.synced)
  BY <1>2 DEF WebInv, OtherEdit
<1> QED BY <1>5, <1>6, <1>7, <1>8 DEF WebInv, OtherEdit

LEMMA ServeInv ==
  ASSUME WebInv, Serve PROVE WebInv'
<1> DEFINE f == Head(up)
           a == Update(server \ f.ops)
           b == Step1(server)
<1>1. /\ up \in Seq(Frames) /\ down \in Seq(Frames) /\ up # <<>> /\ up' = Tail(up) /\ f \in Frames /\ f = up[1]
      /\ Tail(up) \in Seq(Frames) /\ Len(Tail(up)) = Len(up) - 1 /\ Len(up) >= 1
      /\ \A p \in 1 .. Len(up) - 1 : Tail(up)[p] = up[p + 1]
  BY Types, TailIs DEF Serve
<1>2. f.ops \subseteq made /\ f.kind # "denied" /\ server \in SUBSET Ops /\ server \subseteq made /\ made \subseteq Ops
  BY <1>1, Types DEF WebInv, FramesTrue
<1>3. /\ a \in Frames /\ a.kind = "update" /\ a.ops \subseteq server
      /\ b \in Frames /\ b.kind = "step1" /\ b.ops = server
  BY <1>2, FrameTypes
<1>4. \/ f.kind = "step1" /\ down' = Append(Append(down, a), b) /\ server' = server
      \/ f.kind = "update" /\ server' = server \cup f.ops /\ down' = down
      \/ f.kind = "update" /\ server' = server /\ down' = Append(down, Denied)
  <2>1. down \o <<a, b>> = Append(Append(down, a), b)
    BY <1>1, <1>3, JoinTwo, ZenonT(60)
  <2> QED BY <2>1 DEF Serve
<1> HIDE DEF f, a, b
<1>5. \A i \in 1 .. Len(up') : up'[i].kind # "denied" /\ up'[i].ops \subseteq made
  BY <1>1 DEF WebInv, FramesTrue
<1>6. server \subseteq server' /\ server' \subseteq made
  BY <1>2, <1>4
<1>7. \A i \in 1 .. Len(down) : down[i].kind # "denied" => down[i].ops \subseteq server'
  BY <1>6 DEF WebInv, FramesTrue
<1>8. /\ down' \in Seq(Frames)
      /\ \A i \in 1 .. Len(down') : down'[i].kind # "denied" => down'[i].ops \subseteq server'
  <2>1. CASE down' = Append(Append(down, a), b)
    <3>1. /\ Append(down, a) \in Seq(Frames)
          /\ \A i \in 1 .. Len(Append(down, a)) :
               Append(down, a)[i].kind # "denied" => Append(down, a)[i].ops \subseteq server'
      BY <1>1, <1>3, <1>6, <1>7, DownAppend, AppendIs
    <3>2. b.ops \subseteq server'
      BY <1>3, <1>6
    <3> QED BY <1>3, <2>1, <3>1, <3>2, DownAppend, AppendIs
  <2>2. CASE down' = Append(down, Denied)
    BY <1>1, <1>7, <2>2, FrameTypes, DownAppend, AppendIs
  <2>3. CASE down' = down
    BY <1>1, <1>7, <2>3
  <2> QED BY <1>4, <2>1, <2>2, <2>3
<1>9. TypeOK'
  <2>1. TypesOf'
    BY <1>1, <1>6, <1>8, TypeParts DEF WebInv, NothingForgotten, TypesOf, Serve
  <2> QED BY <2>1, TypesKept DEF Next
<1>10. NothingForgotten'
  BY <1>6, <1>9 DEF WebInv, NothingForgotten, Owed, Doc, Serve
<1>11. FramesTrue' /\ CacheTrue'
  BY <1>5, <1>8 DEF WebInv, FramesTrue, CacheTrue, Serve
<1>12. ASSUME entry # None PROVE Pipe(entry', down', up', server', mine')
  <2>1. Pipe(entry, down, up, server, mine) /\ entry \in Entries
    BY <1>12, Types DEF WebInv, Serve
  <2>2. CASE f.kind = "step1" /\ down' = Append(Append(down, a), b) /\ server' = server
    <3>1. Pipe(entry, Append(Append(down, a), b), Tail(up), server, mine)
      BY <1>1, <1>3, <2>1, <2>2, AskedServed DEF f
    <3> QED BY <1>1, <2>2, <3>1 DEF Serve
  <2>3. CASE f.kind = "update" /\ server' = server \cup f.ops /\ down' = down
    <3>1. Pipe(entry, down, Tail(up), server \cup f.ops, mine)
      BY <1>1, <2>1, <2>3, AskedApplied DEF f
    <3> QED BY <1>1, <2>3, <3>1 DEF Serve
  <2>4. CASE f.kind = "update" /\ server' = server /\ down' = Append(down, Denied)
    <3>1. Pipe(entry, Append(down, Denied), Tail(up), server, mine)
      BY <1>1, <2>1, <2>4, AskedRefused DEF f
    <3> QED BY <1>1, <2>4, <3>1 DEF Serve
  <2> QED BY <1>4, <2>2, <2>3, <2>4
<1> QED BY <1>10, <1>11, <1>12 DEF WebInv, Serve

LEMMA DownTail ==
  ASSUME WebInv, Receive
  PROVE  /\ online /\ down \in Seq(Frames) /\ down # <<>> /\ down' = Tail(down) /\ down' \in Seq(Frames)
         /\ Head(down) \in Frames /\ Head(down).ops \in SUBSET Ops
         /\ Head(down).kind # "denied" => Head(down).ops \subseteq server
         /\ \A i \in 1 .. Len(down') : down'[i].kind # "denied" => down'[i].ops \subseteq server
         /\ UNCHANGED <<tab, viewed, online, server, editor, made, mine, bounds>>
<1>1. down \in Seq(Frames) /\ down # <<>> /\ down' = Tail(down) /\ online
  BY Types DEF Receive
<1>2. /\ Tail(down) \in Seq(Frames) /\ Len(Tail(down)) = Len(down) - 1 /\ Len(down) >= 1
      /\ \A p \in 1 .. Len(down) - 1 : Tail(down)[p] = down[p + 1]
      /\ Head(down) = down[1] /\ Head(down) \in Frames /\ Len(down) \in Nat
  BY <1>1, TailIs, JoinIs
<1>3. Head(down).ops \in SUBSET Ops
  BY <1>2 DEF Frames
<1> QED BY <1>1, <1>2, <1>3 DEF WebInv, FramesTrue, Receive

\* What remains to be shown of a frame that is received.
LEMMA ReceivedInv ==
  ASSUME WebInv, Receive,
         up' \in Seq(Frames), \A i \in 1 .. Len(up') : up'[i].kind # "denied" /\ up'[i].ops \subseteq made,
         entry' = None \/ entry' \in Entries,
         viewed \/ pending' => entry' # None,
         pending' \/ (mine \cap (Doc \cup cached))' \subseteq server,
         cached' \subseteq made, CacheTrue',
         entry' # None => Pipe(entry', down', up', server, mine)
  PROVE  WebInv'
<1>1. TypesOf'
  BY DownTail, TypeParts DEF WebInv, NothingForgotten, TypesOf
<1>2. TypeOK'
  BY <1>1, TypesKept DEF Next
<1>3. NothingForgotten'
  BY <1>2, DownTail DEF NothingForgotten, Owed
<1>4. FramesTrue'
  BY DownTail DEF FramesTrue
<1>5. online'
  BY DownTail
<1>6. entry' # None => Pipe(entry', down', up', server', mine')
  BY DownTail
<1> QED BY <1>3, <1>4, <1>5, <1>6 DEF WebInv

LEMMA NewsInv ==
  ASSUME WebInv, Calm, Receive, entry # None, Head(down).kind = "update",
         entry' = [entry EXCEPT !.doc = @ \cup Head(down).ops],
         cached' = IF entry.hydrated THEN cached \cup Head(down).ops ELSE cached,
         UNCHANGED <<pending, up>>
  PROVE  WebInv'
<1> DEFINE f == Head(down)
<1>1. /\ entry \in Entries /\ entry.hydrated /\ f.ops \subseteq server /\ f.ops \in SUBSET Ops /\ server \subseteq made
      /\ down \in Seq(Frames) /\ up \in Seq(Frames) /\ down # <<>> /\ online /\ down' = Tail(down)
  BY Types, DownTail DEF Receive, CacheFirst, Calm
<1>2. /\ entry' \in Entries /\ entry'.doc = entry.doc \cup f.ops /\ entry'.hydrated = entry.hydrated
      /\ entry'.synced = entry.synced /\ entry'.sent = entry.sent /\ entry'.probes = entry.probes
      /\ entry'.denied = entry.denied /\ entry' # None
  BY <1>1, NoneAssumption DEF Entries
<1>3. Pipe(entry, down, up, server, mine)
  BY <1>1 DEF WebInv
<1>4. mine \cap entry'.doc \subseteq (mine \cap entry.doc) \cup server
  BY <1>1, <1>2
<1>5. Pipe(entry', Tail(down), up, server, mine)
  BY <1>1, <1>2, <1>3, <1>4, AskedNews
<1>6. CacheTrue' /\ cached' = cached \cup f.ops
  BY <1>1, <1>2, DownTail DEF WebInv, CacheTrue
<1>7. \A i \in 1 .. Len(up) : up[i].kind # "denied" /\ up[i].ops \subseteq made
  BY DEF WebInv, FramesTrue
<1>8. pending' \/ (mine \cap (Doc \cup cached))' \subseteq server
  BY <1>1, <1>2, <1>6, DownTail DEF WebInv, NothingForgotten, Owed, Doc
<1>9. cached' \subseteq made
  BY <1>1, <1>6, Types
<1> QED BY <1>1, <1>2, <1>5, <1>6, <1>7, <1>8, <1>9, ReceivedInv

LEMMA DeniedInv ==
  ASSUME WebInv, Receive, entry # None, Head(down).kind = "denied",
         entry' = [entry EXCEPT !.denied = TRUE], UNCHANGED <<pending, cached, up>>
  PROVE  WebInv'
<1>1. /\ entry \in Entries
      /\ down \in Seq(Frames) /\ up \in Seq(Frames) /\ down # <<>> /\ online /\ down' = Tail(down)
  BY Types, DownTail
<1>2. /\ entry' \in Entries /\ entry'.doc = entry.doc /\ entry'.hydrated = entry.hydrated
      /\ entry'.synced = entry.synced /\ entry'.sent = entry.sent /\ entry'.probes = entry.probes
      /\ entry'.denied /\ entry' # None
  BY <1>1, NoneAssumption DEF Entries
<1>3. Pipe(entry, down, up, server, mine)
  BY <1>1 DEF WebInv
<1>4. Pipe(entry', Tail(down), up, server, mine)
  BY <1>1, <1>2, <1>3, AskedNews
<1>5. CacheTrue'
  BY <1>2, DownTail DEF WebInv, CacheTrue
<1>6. \A i \in 1 .. Len(up) : up[i].kind # "denied" /\ up[i].ops \subseteq made
  BY DEF WebInv, FramesTrue
<1>7. pending' \/ (mine \cap (Doc \cup cached))' \subseteq server
  BY <1>2, DownTail DEF WebInv, NothingForgotten, Owed, Doc
<1> QED BY <1>1, <1>2, <1>4, <1>5, <1>6, <1>7, Types, ReceivedInv

\* The parts of the invariant that an answer changes only through the entry's questions.
LEMMA AnswerKept ==
  ASSUME WebInv, Receive, entry # None, cached' = cached,
         up' \in Seq(Frames), \A i \in 1 .. Len(up') : up'[i].kind # "denied" /\ up'[i].ops \subseteq made,
         entry' \in Entries, entry'.doc = entry.doc, entry'.hydrated = entry.hydrated,
         pending' = pending \/ mine \cap (Doc \cup cached) \subseteq server,
         Pipe(entry', down', up', server, mine)
  PROVE  WebInv'
<1>1. entry' # None
  BY NoneAssumption
<1>2. CacheTrue'
  BY <1>1, DownTail DEF WebInv, CacheTrue
<1>3. pending' \/ (mine \cap (Doc \cup cached))' \subseteq server
  BY <1>1, DownTail DEF WebInv, NothingForgotten, Owed, Doc
<1> QED BY <1>1, <1>2, <1>3, Types, ReceivedInv

\* The next answer after the handshake's.
LEMMA AnsweredInv ==
  ASSUME WebInv, Calm, Receive, entry # None, Head(down).kind = "step1", entry.synced,
         Answered(entry, <<>>), cached' = cached
  PROVE  WebInv'
<1>1. /\ entry \in Entries /\ entry.hydrated /\ entry.doc \in SUBSET Ops /\ entry.doc \subseteq made
      /\ entry.probes \in Seq(Nat) /\ entry.doc = cached
      /\ down \in Seq(Frames) /\ up \in Seq(Frames) /\ down # <<>> /\ online /\ down' = Tail(down)
  BY Types, FieldTypes, DownTail DEF Receive, CacheFirst, Calm, WebInv, CacheTrue
<1> DEFINE r == [entry EXCEPT !.probes = Tail(entry.probes)]
           f == Step1(entry.doc)
<1>2. Pipe(entry, down, up, server, mine)
  BY <1>1 DEF WebInv
<1>3. entry.probes # <<>>
  <2>1. PICK at : Coming(at, Len(entry.probes), down \o up)
    BY <1>2 DEF Pipe, Asked
  <2>2. Len(entry.probes) \in Nat
    BY <1>1
  <2>3. Len(entry.probes) >= 1
    BY <1>1, <2>1, <2>2, PopAhead
  <2> QED BY <2>3
<1>4. Tail(entry.probes) \in Seq(Nat)
  BY <1>1, <1>3
<1>5. /\ r \in Entries /\ r.doc = entry.doc /\ r.hydrated = entry.hydrated /\ r.synced = entry.synced
      /\ r.sent = entry.sent /\ r.probes = Tail(entry.probes) /\ r.denied = entry.denied
  BY <1>1, <1>4 DEF Entries
<1> DEFINE r2 == [r EXCEPT !.timer = FALSE]
<1>6. /\ r2 \in Entries /\ r2.doc = entry.doc /\ r2.hydrated = entry.hydrated /\ r2.synced = entry.synced
      /\ r2.sent = entry.sent /\ r2.probes = Tail(entry.probes) /\ r2.denied = entry.denied
  BY <1>5 DEF Entries
<1>7. /\ Pipe(r, Tail(down), up, server, mine) /\ Pipe(r2, Tail(down), up, server, mine)
      /\ Head(entry.probes) = entry.sent /\ ~ entry.denied => mine \cap entry.doc \subseteq server
  <2> HIDE DEF r, r2
  <2>1. /\ Pipe(r, Tail(down), up, server, mine)
        /\ Head(entry.probes) = entry.sent /\ ~ entry.denied => mine \cap entry.doc \subseteq server
    BY <1>1, <1>2, <1>5, AskedAnswer
  <2>2. Pipe(r2, Tail(down), up, server, mine)
    BY <1>1, <1>2, <1>6, AskedAnswer
  <2> QED BY <2>1, <2>2
<1>8. f \in Frames /\ f.kind = "step1" /\ f.ops \subseteq made
  BY <1>1, FrameTypes
<1>9. r = [entry EXCEPT !.probes = IF @ = <<>> THEN @ ELSE Tail(@)]
  BY <1>3
<1> HIDE DEF r, r2
<1>10. \/ AllAnswered(entry) /\ ~ entry.denied /\ Sent(<<>>) /\ pending' = FALSE
          /\ entry' = IF pending /\ ~ viewed THEN None ELSE r
       \/ Sent(<<>> \o <<f>>) /\ entry' = Probe(r2) /\ pending' = pending
       \/ Sent(<<>>) /\ entry' = r /\ pending' = pending
  BY <1>9 DEF Answered, r2
<1> HIDE DEF f
<1>11. \A i \in 1 .. Len(up) : up[i].kind # "denied" /\ up[i].ops \subseteq made
  BY DEF WebInv, FramesTrue
<1>12. Sent(<<>>) => up' = up
  BY <1>1 DEF Sent
<1>13. CASE /\ AllAnswered(entry) /\ ~ entry.denied /\ Sent(<<>>) /\ pending' = FALSE
            /\ entry' = IF pending /\ ~ viewed THEN None ELSE r
  <2>1. mine \cap entry.doc \subseteq server
    BY <1>7, <1>13 DEF AllAnswered
  <2>2. mine \cap (Doc \cup cached) \subseteq server
    BY <1>1, <2>1 DEF Doc
  <2>3. CASE entry' = r
    BY <1>1, <1>5, <1>7, <1>11, <1>12, <1>13, <2>2, <2>3, AnswerKept
  <2>4. CASE entry' = None /\ ~ viewed
    <3>1. (mine \cap (Doc \cup cached))' \subseteq server
      BY <1>1, <2>1, <2>4, DownTail DEF Doc
    <3>2. CacheTrue'
      BY <2>4 DEF CacheTrue
    <3> QED BY <1>1, <1>11, <1>12, <1>13, <2>4, <3>1, <3>2, Types, ReceivedInv
  <2> QED BY <1>13, <2>3, <2>4
<1>14. CASE Sent(<<>> \o <<f>>) /\ entry' = Probe(r2) /\ pending' = pending
  <2>1. up' = Append(up, f)
    <3>1. <<>> \o <<f>> = <<f>>
      OBVIOUS
    <3> QED BY <1>1, <1>8, <1>14, <3>1, JoinTwo DEF Sent
  <2>2. /\ entry' \in Entries /\ entry'.doc = r2.doc /\ entry'.hydrated = r2.hydrated
        /\ entry'.synced = r2.synced /\ entry'.sent = r2.sent
        /\ entry'.probes = Append(r2.probes, r2.sent) /\ entry'.denied = r2.denied
    BY <1>6, <1>14, ProbeIs
  <2>3. Pipe(entry', Tail(down), Append(up, f), server, mine)
    <3>1. Tail(down) \in Seq(Frames)
      BY <1>1, DownTail
    <3> QED BY <1>1, <1>6, <1>7, <1>8, <2>2, <3>1, AskedAgain
  <2>4. up' \in Seq(Frames) /\ \A i \in 1 .. Len(up') : up'[i].kind # "denied" /\ up'[i].ops \subseteq made
    BY <1>8, <2>1, DownTail, UpAppend
  <2> QED BY <1>1, <1>6, <1>14, <2>1, <2>2, <2>3, <2>4, AnswerKept
<1>15. CASE Sent(<<>>) /\ entry' = r /\ pending' = pending
  BY <1>1, <1>5, <1>7, <1>11, <1>12, <1>15, AnswerKept
<1> QED BY <1>10, <1>13, <1>14, <1>15

\* The handshake's answer: everything the server lacks is sent, and asked about.
LEMMA HandshakenInv ==
  ASSUME WebInv, Receive, entry # None, Head(down).kind = "step1", ~ entry.synced,
         Answered([entry EXCEPT !.sent = @ + 1, !.synced = TRUE], <<Update(entry.doc \ Head(down).ops)>>),
         cached' = cached
  PROVE  WebInv'
<1> DEFINE e == [entry EXCEPT !.sent = @ + 1, !.synced = TRUE]
           g == Update(entry.doc \ Head(down).ops)
           f == Step1(entry.doc)
           r == [e EXCEPT !.probes = <<>>]
           r2 == [r EXCEPT !.timer = FALSE]
<1>1. /\ entry \in Entries /\ entry.doc \in SUBSET Ops /\ entry.doc \subseteq made
      /\ entry.probes \in Seq(Nat) /\ entry.sent \in Nat
      /\ down \in Seq(Frames) /\ up \in Seq(Frames) /\ down # <<>> /\ online /\ down' = Tail(down)
      /\ Tail(down) \in Seq(Frames) /\ Head(down).ops \subseteq server
  BY Types, FieldTypes, DownTail DEF WebInv, CacheTrue
<1>2. Pipe(entry, down, up, server, mine)
  BY <1>1 DEF WebInv
<1>3. /\ Len(entry.probes) = 1 /\ entry.probes[1] <= entry.sent
      /\ \A p \in 1 .. Len(Tail(down)) : Tail(down)[p].kind # "step1"
      /\ \A p \in 1 .. Len(up) : up[p].kind # "step1"
  BY <1>1, <1>2, AskedHandshake
<1>4. /\ entry.probes # <<>> /\ Tail(entry.probes) = <<>> /\ Head(entry.probes) = entry.probes[1]
      /\ entry.probes[1] \in Nat
  <2>1. entry.probes # <<>> /\ Head(entry.probes) = entry.probes[1] /\ entry.probes[1] \in Nat
    BY <1>1, <1>3
  <2>2. Tail(entry.probes) \in Seq(Nat) /\ Len(Tail(entry.probes)) = 0
    BY <1>1, <1>3, <2>1
  <2>3. \A q \in Seq(Nat) : Len(q) = 0 => q = <<>>
    OBVIOUS
  <2> QED BY <2>1, <2>2, <2>3
<1>5. /\ e \in Entries /\ e.doc = entry.doc /\ e.sent = entry.sent + 1 /\ e.synced
      /\ e.probes = entry.probes /\ e.hydrated = entry.hydrated
  <2>1. entry.sent + 1 \in Nat
    BY <1>1
  <2>2. e = [entry EXCEPT !.sent = entry.sent + 1, !.synced = TRUE]
    OBVIOUS
  <2> HIDE DEF e
  <2> QED BY <1>1, <2>1, <2>2 DEF Entries
<1>6. /\ r \in Entries /\ r.doc = entry.doc /\ r.sent = entry.sent + 1 /\ r.synced /\ r.probes = <<>>
      /\ r.hydrated = entry.hydrated
      /\ r2 \in Entries /\ r2.doc = entry.doc /\ r2.sent = entry.sent + 1 /\ r2.synced /\ r2.probes = <<>>
      /\ r2.hydrated = entry.hydrated
  <2>1. <<>> \in Seq(Nat)
    OBVIOUS
  <2> QED BY <1>5, <2>1 DEF Entries
<1>7. Head(e.probes) # e.sent /\ e.probes # <<>>
  BY <1>1, <1>3, <1>4, <1>5
<1>8. r = [e EXCEPT !.probes = IF @ = <<>> THEN @ ELSE Tail(@)]
  BY <1>4, <1>5
<1> HIDE DEF r, r2
<1>9. ~ (AllAnswered(e) /\ ~ e.denied)
  BY <1>7 DEF AllAnswered
<1>10. Sent(<<g>> \o <<f>>) /\ entry' = Probe(r2) /\ pending' = pending
  <2> DEFINE more == e.probes # <<>> /\ Head(e.probes) # e.sent /\ r.probes = <<>>
  <2>1. more
    BY <1>6, <1>7
  <2>2. Step1(e.doc) = f
    BY <1>5
  <2>3. Answered(e, <<g>>)
    OBVIOUS
  <2> HIDE DEF e, f, g
  <2> QED BY <1>8, <1>9, <2>1, <2>2, <2>3 DEF Answered, r2
<1>11. /\ g \in Frames /\ g.kind = "update" /\ g.ops = entry.doc \ Head(down).ops
       /\ f \in Frames /\ f.kind = "step1" /\ f.ops = entry.doc
  BY <1>1, FrameTypes
<1> HIDE DEF e, f, g
<1>12. up' = Append(Append(up, g), f)
  <2>1. up' = up \o (<<g>> \o <<f>>)
    BY <1>1, <1>10 DEF Sent
  <2> QED BY <1>1, <1>11, <2>1, JoinTwo
<1>13. /\ Append(up, g) \in Seq(Frames) /\ Len(Append(up, g)) = Len(up) + 1 /\ Len(up) \in Nat
       /\ Append(up, g)[Len(up) + 1] = g /\ \A p \in 1 .. Len(up) : Append(up, g)[p] = up[p]
       /\ \A p \in 1 .. Len(Append(up, g)) : p \in 1 .. Len(up) \/ p = Len(up) + 1
  <2>1. /\ Append(up, g) \in Seq(Frames) /\ Len(Append(up, g)) = Len(up) + 1 /\ Len(up) \in Nat
        /\ Append(up, g)[Len(up) + 1] = g /\ \A p \in 1 .. Len(up) : Append(up, g)[p] = up[p]
    BY <1>1, <1>11, AppendIs
  <2> QED BY <2>1
<1>14. /\ entry' \in Entries /\ entry'.doc = entry.doc /\ entry'.hydrated = entry.hydrated
       /\ entry'.synced /\ entry'.sent = entry.sent + 1 /\ entry'.probes = <<entry'.sent>>
  <2>1. Append(<<>>, r2.sent) = <<r2.sent>>
    BY <1>1, <1>6
  <2> QED BY <1>6, <1>10, <2>1, ProbeIs
<1>15. Clear(entry', Tail(down), Append(up, g), server, mine, Len(Tail(down)) + Len(Append(up, g)) + 1)
  <2> SUFFICES ASSUME NEW op \in mine \cap entry'.doc, op \notin server
               PROVE  Passes(op, Tail(down), Append(up, g), Len(Tail(down)) + Len(Append(up, g)) + 1)
    BY DEF Clear
  <2>1. op \in g.ops
    BY <1>1, <1>11, <1>14
  <2>2. Len(Tail(down)) \in Nat
    BY <1>1
  <2>3. Append(up, g)[(Len(Tail(down)) + Len(up) + 1) - Len(Tail(down))] = g
    BY <1>13, <2>2
  <2> DEFINE q == Len(Tail(down)) + Len(up) + 1
  <2>4. /\ q \in 1 .. Len(Tail(down)) + Len(Append(up, g)) /\ q > Len(Tail(down))
        /\ q < Len(Tail(down)) + Len(Append(up, g)) + 1
        /\ Append(up, g)[q - Len(Tail(down))] = g
    <3>1. \A a, b \in Nat :
            a + b + 1 \in 1 .. a + (b + 1) /\ a + b + 1 > a /\ a + b + 1 < a + (b + 1) + 1
      OBVIOUS
    <3> HIDE DEF q
    <3>2. /\ q \in 1 .. Len(Tail(down)) + (Len(up) + 1) /\ q > Len(Tail(down))
          /\ q < Len(Tail(down)) + (Len(up) + 1) + 1
      BY <1>13, <2>2, <3>1 DEF q
    <3>3. Append(up, g)[q - Len(Tail(down))] = g
      BY <2>3 DEF q
    <3> QED BY <1>13, <3>2, <3>3
  <2> QED BY <1>11, <2>1, <2>4 DEF Passes
<1>16. Pipe(entry', Tail(down), up', server, mine)
  <2>1. \A p \in 1 .. Len(Append(up, g)) : Append(up, g)[p].kind # "step1"
    BY <1>3, <1>11, <1>13
  <2> QED BY <1>1, <1>3, <1>11, <1>12, <1>13, <1>14, <1>15, <2>1, AskedFirst
<1>17. /\ up' \in Seq(Frames)
       /\ \A i \in 1 .. Len(up') : up'[i].kind # "denied" /\ up'[i].ops \subseteq made
  <2>1. /\ up' \in Seq(Frames) /\ Len(up') = Len(Append(up, g)) + 1
        /\ up'[Len(Append(up, g)) + 1] = f
        /\ \A p \in 1 .. Len(Append(up, g)) : up'[p] = Append(up, g)[p]
    BY <1>11, <1>12, <1>13, AppendIs
  <2>2. \A p \in 1 .. Len(Append(up, g)) : Append(up, g)[p].kind # "denied" /\ Append(up, g)[p].ops \subseteq made
    BY <1>1, <1>11, <1>13 DEF WebInv, FramesTrue
  <2>3. \A p \in 1 .. Len(up') : p \in 1 .. Len(Append(up, g)) \/ p = Len(Append(up, g)) + 1
    BY <1>13, <2>1
  <2> QED BY <1>1, <1>11, <2>1, <2>2, <2>3
<1> QED BY <1>1, <1>10, <1>14, <1>16, <1>17, AnswerKept

LEMMA ReceiveInv ==
  ASSUME WebInv, Calm, Receive PROVE WebInv'
<1>1. CASE entry = None /\ UNCHANGED <<entry, pending, cached, up>>
  <2>1. \A i \in 1 .. Len(up) : up[i].kind # "denied" /\ up[i].ops \subseteq made
    BY DEF WebInv, FramesTrue
  <2>2. entry' = None /\ CacheTrue'
    BY <1>1 DEF CacheTrue
  <2>3. pending' \/ (mine \cap (Doc \cup cached))' \subseteq server
    BY <1>1, DownTail DEF WebInv, NothingForgotten, Owed, Doc
  <2>4. viewed \/ pending' => entry' # None
    BY <1>1, TypeParts DEF WebInv, NothingForgotten, TypesOf, Receive
  <2> QED BY <1>1, <2>1, <2>2, <2>3, <2>4, Types, ReceivedInv
<1>2. CASE entry # None
  BY <1>2, NewsInv, DeniedInv, AnsweredInv, HandshakenInv DEF Receive
<1> QED BY <1>1, <1>2 DEF Receive
-----------------------------------------------------------------------------
LEMMA NextInv ==
  ASSUME WebInv, Calm, [Next]_vars PROVE WebInv'
<1>1. CASE UNCHANGED vars
  <2>1. TypeOK'
    BY <1>1 DEF vars, socket, bounds, WebInv, NothingForgotten, TypeOK
  <2> QED BY <1>1, <2>1 DEF vars, socket, bounds, WebInv, NothingForgotten, Owed, Doc, FramesTrue, CacheTrue
<1>2. CASE Connect \/ Drop \/ Hydrate \/ ProbeTimer \/ Receive
  BY <1>2, ConnectInv, DropInv, HydrateInv, ProbeTimerInv, ReceiveInv
<1>3. CASE View \/ Release \/ CloseTab \/ OpenTab
  BY <1>3, ViewInv, ReleaseInv, CloseTabInv, OpenTabInv
<1>4. CASE \E op \in Ops : Edit(op) \/ OtherEdit(op)
  BY <1>4, EditInv, OtherEditInv
<1>5. CASE Serve \/ ChangeRole
  BY <1>5, ServeInv, ChangeRoleInv
<1> QED BY <1>1, <1>2, <1>3, <1>4, <1>5 DEF Next

\* An edit is never forgotten, whatever is dropped, closed, refused or counted in between: as long
\* as a tab still has an edit the server lacks, the note is marked (`acknowledge` in vault.svelte.ts).
THEOREM NothingForgottenHolds ==
  ASSUME Calm PROVE Spec => []NothingForgotten
<1>1. Init => WebInv
  BY InitInv
<1>2. WebInv /\ [Next]_vars => WebInv'
  BY NextInv
<1>3. WebInv => NothingForgotten
  BY DEF WebInv
<1> QED BY <1>1, <1>2, <1>3, PTL DEF Spec
=============================================================================
