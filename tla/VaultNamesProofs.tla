-------------------------- MODULE VaultNamesProofs --------------------------
(***************************************************************************)
(* Proofs about VaultNames, for every number of notes, paths, changes and  *)
(* restarts: notes, index, rows and the vault document stay in step, and   *)
(* nothing a user saved is written over or deleted unread.                 *)
(***************************************************************************)
EXTENDS VaultNames, FiniteSetTheorems, FunctionTheorems, WellFoundedInduction, TLAPS

-----------------------------------------------------------------------------
(* A handler applied to each member of a finite set                        *)

\* The member of a set the fold applies the handler to last.
Pick(s) == CHOOSE n \in s : TRUE

LEMMA PickIs ==
  ASSUME NEW s, s # {}
  PROVE  Pick(s) \in s
BY DEF Pick

\* A non-empty set of naturals has a least element.
LEMMA NatMin ==
  ASSUME NEW T \in SUBSET Nat, T # {}
  PROVE  \E m \in T : \A k \in T : m <= k
<1>1. \E x \in T : \A y \in T : ~ (<<y, x>> \in OpToRel(<, Nat))
  BY NatLessThanWellFounded, WFMin
<1>2. \A x, y \in T : y < x => <<y, x>> \in OpToRel(<, Nat)
  BY DEF OpToRel
<1>3. \E x \in T : \A y \in T : ~ (y < x)
  BY <1>1, <1>2
<1> QED BY <1>3

\* A set of naturals that holds 0 and, with a number, the next one, holds them all.
LEMMA NatAll ==
  ASSUME NEW N, 0 \in N, \A k \in Nat : k \in N => k + 1 \in N
  PROVE  Nat \subseteq N
<1> SUFFICES ASSUME Nat \ N # {} PROVE FALSE
  OBVIOUS
<1>1. PICK m \in Nat \ N : \A k \in Nat \ N : m <= k
  <2> DEFINE T == Nat \ N
  <2> SUFFICES \E m \in T : \A k \in T : m <= k
    OBVIOUS
  <2>1. T \in SUBSET Nat /\ T # {}
    OBVIOUS
  <2> HIDE DEF T
  <2> QED BY <2>1, NatMin
<1>2. m # 0 /\ m - 1 \in Nat /\ ~ (m <= m - 1)
  BY <1>1
<1>3. m - 1 \in N
  BY <1>1, <1>2
<1>4. (m - 1) + 1 \in N
  BY <1>2, <1>3
<1> QED BY <1>1, <1>4

\* The subsets of a finite set are finite, and smaller without a member.
LEMMA Smaller ==
  ASSUME NEW S, IsFiniteSet(S), NEW s \in SUBSET S, s # {}
  PROVE  /\ Pick(s) \in s
         /\ s \ {Pick(s)} \in SUBSET S
         /\ Cardinality(s) \in Nat /\ Cardinality(s \ {Pick(s)}) \in Nat
         /\ Cardinality(s \ {Pick(s)}) = Cardinality(s) - 1
<1>1. IsFiniteSet(s)
  BY FS_Subset
<1>2. Pick(s) \in s
  BY PickIs
<1>3. IsFiniteSet(s \ {Pick(s)})
  BY <1>1, FS_RemoveElement
<1>4. Cardinality(s \ {Pick(s)}) = Cardinality(s) - 1
  BY <1>1, <1>2, FS_RemoveElement
<1> QED BY <1>1, <1>2, <1>3, <1>4, FS_CardinalityType

\* A property that holds of {} and, with a set without the picked member, of the set, holds of S.
LEMMA SetsAll ==
  ASSUME NEW S, IsFiniteSet(S), NEW Q,
         {} \in Q,
         \A s \in SUBSET S : s # {} /\ s \ {Pick(s)} \in Q => s \in Q
  PROVE  SUBSET S \subseteq Q
<1> DEFINE N == {k \in Nat : \A s \in SUBSET S : Cardinality(s) = k => s \in Q}
<1>1. \A s \in SUBSET S : IsFiniteSet(s) /\ Cardinality(s) \in Nat
  BY FS_Subset, FS_CardinalityType
<1>2. 0 \in N
  BY <1>1, FS_EmptySet
<1>3. ASSUME NEW k \in Nat, k \in N PROVE k + 1 \in N
  <2> SUFFICES ASSUME NEW s \in SUBSET S, Cardinality(s) = k + 1 PROVE s \in Q
    OBVIOUS
  <2>1. s # {}
    BY <1>3, FS_EmptySet
  <2>2. s \ {Pick(s)} \in SUBSET S /\ Cardinality(s \ {Pick(s)}) = k
    BY <2>1, <1>3, Smaller
  <2>3. s \ {Pick(s)} \in Q
    BY <1>3, <2>2
  <2> QED BY <2>1, <2>3
<1>4. Nat \subseteq N
  <2> HIDE DEF N
  <2> QED BY <1>2, <1>3, NatAll
<1> QED BY <1>1, <1>4

\* g is what a fold of f over the subsets of S computes.
Folds(g, f, x, S) ==
  /\ g[{}] = x
  /\ \A s \in SUBSET S : s # {} => g[s] = f[<<g[s \ {Pick(s)}], Pick(s)>>]

\* The function a fold over a finite set is defined by exists.
LEMMA FoldExists ==
  ASSUME NEW S, IsFiniteSet(S), NEW X, NEW x \in X, NEW f \in [X \X S -> X]
  PROVE  \E g \in [SUBSET S -> X] : Folds(g, f, x, S)
<1> DEFINE Upto(k) == {s \in SUBSET S : Cardinality(s) <= k}
           Good(g, k) == \A s \in Upto(k) :
             g[s] = IF s = {} THEN x ELSE f[<<g[s \ {Pick(s)}], Pick(s)>>]
           N == {k \in Nat : \E g \in [SUBSET S -> X] : Good(g, k)}
<1>1. \A s \in SUBSET S : IsFiniteSet(s) /\ Cardinality(s) \in Nat /\ Cardinality(s) <= Cardinality(S)
  BY FS_Subset, FS_CardinalityType
<1>2. 0 \in N
  <2>1. Good([s \in SUBSET S |-> x], 0)
    <3> SUFFICES ASSUME NEW s \in Upto(0) PROVE s = {}
      OBVIOUS
    <3>1. Cardinality(s) = 0
      BY <1>1
    <3> QED BY <1>1, <3>1, FS_EmptySet
  <2>2. [s \in SUBSET S |-> x] \in [SUBSET S -> X]
    OBVIOUS
  <2> HIDE DEF Good
  <2> QED BY <2>1, <2>2
<1>3. ASSUME NEW k \in Nat, k \in N PROVE k + 1 \in N
  <2>1. PICK g \in [SUBSET S -> X] : Good(g, k)
    BY <1>3
  <2> DEFINE h == [s \in SUBSET S |->
                     IF s = {} THEN x ELSE f[<<g[s \ {Pick(s)}], Pick(s)>>]]
  <2>2. h \in [SUBSET S -> X]
    BY PickIs
  <2>3. \A s \in Upto(k) : h[s] = g[s]
    BY <2>1
  <2>4. ASSUME NEW s \in Upto(k + 1), s # {} PROVE s \ {Pick(s)} \in Upto(k)
    BY <1>1, <2>4, Smaller
  <2>5. Good(h, k + 1)
    BY <2>3, <2>4
  <2> HIDE DEF Good, h
  <2> QED BY <2>2, <2>5
<1>4. Nat \subseteq N
  <2> HIDE DEF N
  <2> QED BY <1>2, <1>3, NatAll
<1>5. Cardinality(S) \in Nat /\ SUBSET S \subseteq Upto(Cardinality(S))
  BY <1>1, FS_CardinalityType
<1>6. PICK g \in [SUBSET S -> X] : Good(g, Cardinality(S))
  <2> HIDE DEF Good
  <2> QED BY <1>4, <1>5
<1> QED BY <1>5, <1>6 DEF Folds

\* What holds of the states a fold goes through, member by member, holds of the one it ends in.
LEMMA FoldSteps ==
  ASSUME NEW S, IsFiniteSet(S), NEW J, NEW f, NEW x \in J[{}],
         \A s \in SUBSET S : \A n \in S \ s : \A y \in J[s] : f[<<y, n>>] \in J[s \cup {n}]
  PROVE  \E g : /\ g = [s \in SUBSET S |-> g[s]]
                /\ Folds(g, f, x, S)
                /\ \A s \in SUBSET S : g[s] \in J[s]
<1> DEFINE X == UNION {J[s] : s \in SUBSET S}
           F == [z \in X \X S |-> IF f[z] \in X THEN f[z] ELSE x]
<1>1. x \in X /\ F \in [X \X S -> X]
  OBVIOUS
<1>2. PICK g \in [SUBSET S -> X] : Folds(g, F, x, S)
  <2> HIDE DEF X, F
  <2> QED BY <1>1, FoldExists
<1> DEFINE Q == {s \in SUBSET S : g[s] \in J[s]}
<1>3. ASSUME NEW s \in SUBSET S, s # {}, s \ {Pick(s)} \in Q
      PROVE  g[s] = f[<<g[s \ {Pick(s)}], Pick(s)>>] /\ s \in Q
  <2>1. Pick(s) \in s /\ s \ {Pick(s)} \in SUBSET S
    BY <1>3, PickIs
  <2>2. (s \ {Pick(s)}) \cup {Pick(s)} = s
    BY <2>1
  <2> DEFINE y == g[s \ {Pick(s)}]
  <2>3. y \in J[s \ {Pick(s)}]
    BY <1>3
  <2>4. f[<<y, Pick(s)>>] \in J[(s \ {Pick(s)}) \cup {Pick(s)}]
    BY <2>1, <2>3
  <2>5. f[<<y, Pick(s)>>] \in J[s]
    BY <2>2, <2>4
  <2>6. y \in X /\ f[<<y, Pick(s)>>] \in X /\ Pick(s) \in S
    BY <2>1, <2>3, <2>5
  <2>7. F[<<y, Pick(s)>>] = f[<<y, Pick(s)>>]
    BY <2>6
  <2>8. g[s] = F[<<y, Pick(s)>>]
    BY <1>2, <1>3 DEF Folds
  <2> QED BY <2>5, <2>7, <2>8
<1>4. SUBSET S \subseteq Q
  <2>1. {} \in Q
    BY <1>2 DEF Folds
  <2> HIDE DEF Q
  <2> QED BY <1>3, <2>1, SetsAll
<1>5. Folds(g, f, x, S)
  <2>1. \A s \in SUBSET S : s \ {Pick(s)} \in SUBSET S
    OBVIOUS
  <2> HIDE DEF Q, F, X
  <2> QED BY <1>2, <1>3, <1>4, <2>1 DEF Folds
<1>6. g = [s \in SUBSET S |-> g[s]] /\ \A s \in SUBSET S : g[s] \in J[s]
  BY <1>2, <1>4
<1> QED BY <1>5, <1>6

LEMMA FoldKeeps ==
  ASSUME NEW S, IsFiniteSet(S), NEW J, NEW h, h[{}] \in J[{}],
         \A s \in SUBSET S :
           s # {} /\ h[s \ {Pick(s)}] \in J[s \ {Pick(s)}] => h[s] \in J[s]
  PROVE  h[S] \in J[S]
<1> DEFINE Q == {s \in SUBSET S : h[s] \in J[s]}
<1>1. {} \in Q
  OBVIOUS
<1>2. \A s \in SUBSET S : s # {} /\ s \ {Pick(s)} \in Q => s \in Q
  OBVIOUS
<1>3. SUBSET S \subseteq Q
  <2> HIDE DEF Q
  <2> QED BY <1>1, <1>2, SetsAll
<1> QED BY <1>3

\* The same for each handler the engine applies to the members of a set.
LEMMA EachRelink ==
  ASSUME NEW S, IsFiniteSet(S), NEW J, NEW x \in J[{}],
         \A s \in SUBSET S : \A n \in S \ s : \A y \in J[s] : Relink(y, n) \in J[s \cup {n}]
  PROVE  Each(Relink, x, S) \in J[S]
<1> DEFINE X == UNION {J[s] : s \in SUBSET S}
           f == [z \in X \X S |-> Relink(z[1], z[2])]
           Follows(h) == h = [s \in SUBSET S |->
             IF s = {} THEN x ELSE Relink(h[s \ {Pick(s)}], Pick(s))]
           g == CHOOSE h : Follows(h)
<1>1. CASE S = {}
  BY <1>1 DEF Each
<1>2. CASE S # {}
  <2>1. Each(Relink, x, S) = g[S]
    BY <1>2, Zenon DEF Each, FoldSet, MapThenFoldSet, Pick
  <2>2. \A s \in SUBSET S : \A n \in S \ s : \A y \in J[s] : f[<<y, n>>] = Relink(y, n)
    OBVIOUS
  <2>3. \E h : Follows(h)
    <3> HIDE DEF f
    <3>1. \A s \in SUBSET S : \A n \in S \ s : \A y \in J[s] : f[<<y, n>>] \in J[s \cup {n}]
      BY <2>2
    <3>2. PICK h : /\ h = [s \in SUBSET S |-> h[s]]
                   /\ Folds(h, f, x, S)
                   /\ \A s \in SUBSET S : h[s] \in J[s]
      BY <3>1, FoldSteps
    <3>3. \A s \in SUBSET S : s # {} => /\ Pick(s) \in S \ (s \ {Pick(s)})
                                        /\ h[s \ {Pick(s)}] \in J[s \ {Pick(s)}]
      BY <3>2, PickIs
    <3>4. \A s \in SUBSET S : h[s] = IF s = {} THEN x ELSE Relink(h[s \ {Pick(s)}], Pick(s))
      BY <2>2, <3>2, <3>3 DEF Folds
    <3> QED BY <3>2, <3>4, Zenon
  <2>4. Follows(g)
    BY <2>3, Zenon
  <2> HIDE DEF g
  <2>5. g[{}] \in J[{}]
    BY <2>4
  <2>6. ASSUME NEW s \in SUBSET S, s # {}, g[s \ {Pick(s)}] \in J[s \ {Pick(s)}]
        PROVE  g[s] \in J[s]
    <3>1. Pick(s) \in s /\ (s \ {Pick(s)}) \cup {Pick(s)} = s
      BY <2>6, PickIs
    <3>2. g[s] = Relink(g[s \ {Pick(s)}], Pick(s))
      BY <2>4, <2>6
    <3>3. Relink(g[s \ {Pick(s)}], Pick(s)) \in J[(s \ {Pick(s)}) \cup {Pick(s)}]
      BY <2>6, <3>1
    <3> QED BY <3>1, <3>2, <3>3
  <2> QED BY <2>1, <2>5, <2>6, FoldKeeps
<1> QED BY <1>1, <1>2

LEMMA EachRewriteLinks ==
  ASSUME NEW S, IsFiniteSet(S), NEW J, NEW x \in J[{}],
         \A s \in SUBSET S : \A n \in S \ s : \A y \in J[s] : RewriteLinks(y, n) \in J[s \cup {n}]
  PROVE  Each(RewriteLinks, x, S) \in J[S]
<1> DEFINE X == UNION {J[s] : s \in SUBSET S}
           f == [z \in X \X S |-> RewriteLinks(z[1], z[2])]
           Follows(h) == h = [s \in SUBSET S |->
             IF s = {} THEN x ELSE RewriteLinks(h[s \ {Pick(s)}], Pick(s))]
           g == CHOOSE h : Follows(h)
<1>1. CASE S = {}
  BY <1>1 DEF Each
<1>2. CASE S # {}
  <2>1. Each(RewriteLinks, x, S) = g[S]
    BY <1>2, Zenon DEF Each, FoldSet, MapThenFoldSet, Pick
  <2>2. \A s \in SUBSET S : \A n \in S \ s : \A y \in J[s] : f[<<y, n>>] = RewriteLinks(y, n)
    OBVIOUS
  <2>3. \E h : Follows(h)
    <3> HIDE DEF f
    <3>1. \A s \in SUBSET S : \A n \in S \ s : \A y \in J[s] : f[<<y, n>>] \in J[s \cup {n}]
      BY <2>2
    <3>2. PICK h : /\ h = [s \in SUBSET S |-> h[s]]
                   /\ Folds(h, f, x, S)
                   /\ \A s \in SUBSET S : h[s] \in J[s]
      BY <3>1, FoldSteps
    <3>3. \A s \in SUBSET S : s # {} => /\ Pick(s) \in S \ (s \ {Pick(s)})
                                        /\ h[s \ {Pick(s)}] \in J[s \ {Pick(s)}]
      BY <3>2, PickIs
    <3>4. \A s \in SUBSET S : h[s] = IF s = {} THEN x ELSE RewriteLinks(h[s \ {Pick(s)}], Pick(s))
      BY <2>2, <3>2, <3>3 DEF Folds
    <3> QED BY <3>2, <3>4, Zenon
  <2>4. Follows(g)
    BY <2>3, Zenon
  <2> HIDE DEF g
  <2>5. g[{}] \in J[{}]
    BY <2>4
  <2>6. ASSUME NEW s \in SUBSET S, s # {}, g[s \ {Pick(s)}] \in J[s \ {Pick(s)}]
        PROVE  g[s] \in J[s]
    <3>1. Pick(s) \in s /\ (s \ {Pick(s)}) \cup {Pick(s)} = s
      BY <2>6, PickIs
    <3>2. g[s] = RewriteLinks(g[s \ {Pick(s)}], Pick(s))
      BY <2>4, <2>6
    <3>3. RewriteLinks(g[s \ {Pick(s)}], Pick(s)) \in J[(s \ {Pick(s)}) \cup {Pick(s)}]
      BY <2>6, <3>1
    <3> QED BY <3>1, <3>2, <3>3
  <2> QED BY <2>1, <2>5, <2>6, FoldKeeps
<1> QED BY <1>1, <1>2

LEMMA EachIngestUnsaved ==
  ASSUME NEW S, IsFiniteSet(S), NEW J, NEW x \in J[{}],
         \A s \in SUBSET S : \A n \in S \ s : \A y \in J[s] : IngestUnsaved(y, n) \in J[s \cup {n}]
  PROVE  Each(IngestUnsaved, x, S) \in J[S]
<1> DEFINE X == UNION {J[s] : s \in SUBSET S}
           f == [z \in X \X S |-> IngestUnsaved(z[1], z[2])]
           Follows(h) == h = [s \in SUBSET S |->
             IF s = {} THEN x ELSE IngestUnsaved(h[s \ {Pick(s)}], Pick(s))]
           g == CHOOSE h : Follows(h)
<1>1. CASE S = {}
  BY <1>1 DEF Each
<1>2. CASE S # {}
  <2>1. Each(IngestUnsaved, x, S) = g[S]
    BY <1>2, Zenon DEF Each, FoldSet, MapThenFoldSet, Pick
  <2>2. \A s \in SUBSET S : \A n \in S \ s : \A y \in J[s] : f[<<y, n>>] = IngestUnsaved(y, n)
    OBVIOUS
  <2>3. \E h : Follows(h)
    <3> HIDE DEF f
    <3>1. \A s \in SUBSET S : \A n \in S \ s : \A y \in J[s] : f[<<y, n>>] \in J[s \cup {n}]
      BY <2>2
    <3>2. PICK h : /\ h = [s \in SUBSET S |-> h[s]]
                   /\ Folds(h, f, x, S)
                   /\ \A s \in SUBSET S : h[s] \in J[s]
      BY <3>1, FoldSteps
    <3>3. \A s \in SUBSET S : s # {} => /\ Pick(s) \in S \ (s \ {Pick(s)})
                                        /\ h[s \ {Pick(s)}] \in J[s \ {Pick(s)}]
      BY <3>2, PickIs
    <3>4. \A s \in SUBSET S : h[s] = IF s = {} THEN x ELSE IngestUnsaved(h[s \ {Pick(s)}], Pick(s))
      BY <2>2, <3>2, <3>3 DEF Folds
    <3> QED BY <3>2, <3>4, Zenon
  <2>4. Follows(g)
    BY <2>3, Zenon
  <2> HIDE DEF g
  <2>5. g[{}] \in J[{}]
    BY <2>4
  <2>6. ASSUME NEW s \in SUBSET S, s # {}, g[s \ {Pick(s)}] \in J[s \ {Pick(s)}]
        PROVE  g[s] \in J[s]
    <3>1. Pick(s) \in s /\ (s \ {Pick(s)}) \cup {Pick(s)} = s
      BY <2>6, PickIs
    <3>2. g[s] = IngestUnsaved(g[s \ {Pick(s)}], Pick(s))
      BY <2>4, <2>6
    <3>3. IngestUnsaved(g[s \ {Pick(s)}], Pick(s)) \in J[(s \ {Pick(s)}) \cup {Pick(s)}]
      BY <2>6, <3>1
    <3> QED BY <3>1, <3>2, <3>3
  <2> QED BY <2>1, <2>5, <2>6, FoldKeeps
<1> QED BY <1>1, <1>2

LEMMA EachFinalize ==
  ASSUME NEW S, IsFiniteSet(S), NEW J, NEW x \in J[{}],
         \A s \in SUBSET S : \A n \in S \ s : \A y \in J[s] : Finalize(y, n) \in J[s \cup {n}]
  PROVE  Each(Finalize, x, S) \in J[S]
<1> DEFINE X == UNION {J[s] : s \in SUBSET S}
           f == [z \in X \X S |-> Finalize(z[1], z[2])]
           Follows(h) == h = [s \in SUBSET S |->
             IF s = {} THEN x ELSE Finalize(h[s \ {Pick(s)}], Pick(s))]
           g == CHOOSE h : Follows(h)
<1>1. CASE S = {}
  BY <1>1 DEF Each
<1>2. CASE S # {}
  <2>1. Each(Finalize, x, S) = g[S]
    BY <1>2, Zenon DEF Each, FoldSet, MapThenFoldSet, Pick
  <2>2. \A s \in SUBSET S : \A n \in S \ s : \A y \in J[s] : f[<<y, n>>] = Finalize(y, n)
    OBVIOUS
  <2>3. \E h : Follows(h)
    <3> HIDE DEF f
    <3>1. \A s \in SUBSET S : \A n \in S \ s : \A y \in J[s] : f[<<y, n>>] \in J[s \cup {n}]
      BY <2>2
    <3>2. PICK h : /\ h = [s \in SUBSET S |-> h[s]]
                   /\ Folds(h, f, x, S)
                   /\ \A s \in SUBSET S : h[s] \in J[s]
      BY <3>1, FoldSteps
    <3>3. \A s \in SUBSET S : s # {} => /\ Pick(s) \in S \ (s \ {Pick(s)})
                                        /\ h[s \ {Pick(s)}] \in J[s \ {Pick(s)}]
      BY <3>2, PickIs
    <3>4. \A s \in SUBSET S : h[s] = IF s = {} THEN x ELSE Finalize(h[s \ {Pick(s)}], Pick(s))
      BY <2>2, <3>2, <3>3 DEF Folds
    <3> QED BY <3>2, <3>4, Zenon
  <2>4. Follows(g)
    BY <2>3, Zenon
  <2> HIDE DEF g
  <2>5. g[{}] \in J[{}]
    BY <2>4
  <2>6. ASSUME NEW s \in SUBSET S, s # {}, g[s \ {Pick(s)}] \in J[s \ {Pick(s)}]
        PROVE  g[s] \in J[s]
    <3>1. Pick(s) \in s /\ (s \ {Pick(s)}) \cup {Pick(s)} = s
      BY <2>6, PickIs
    <3>2. g[s] = Finalize(g[s \ {Pick(s)}], Pick(s))
      BY <2>4, <2>6
    <3>3. Finalize(g[s \ {Pick(s)}], Pick(s)) \in J[(s \ {Pick(s)}) \cup {Pick(s)}]
      BY <2>6, <3>1
    <3> QED BY <3>1, <3>2, <3>3
  <2> QED BY <2>1, <2>5, <2>6, FoldKeeps
<1> QED BY <1>1, <1>2

LEMMA EachTakeInOccupant ==
  ASSUME NEW S, IsFiniteSet(S), NEW J, NEW x \in J[{}],
         \A s \in SUBSET S : \A n \in S \ s : \A y \in J[s] : TakeInOccupant(y, n) \in J[s \cup {n}]
  PROVE  Each(TakeInOccupant, x, S) \in J[S]
<1> DEFINE X == UNION {J[s] : s \in SUBSET S}
           f == [z \in X \X S |-> TakeInOccupant(z[1], z[2])]
           Follows(h) == h = [s \in SUBSET S |->
             IF s = {} THEN x ELSE TakeInOccupant(h[s \ {Pick(s)}], Pick(s))]
           g == CHOOSE h : Follows(h)
<1>1. CASE S = {}
  BY <1>1 DEF Each
<1>2. CASE S # {}
  <2>1. Each(TakeInOccupant, x, S) = g[S]
    BY <1>2, Zenon DEF Each, FoldSet, MapThenFoldSet, Pick
  <2>2. \A s \in SUBSET S : \A n \in S \ s : \A y \in J[s] : f[<<y, n>>] = TakeInOccupant(y, n)
    OBVIOUS
  <2>3. \E h : Follows(h)
    <3> HIDE DEF f
    <3>1. \A s \in SUBSET S : \A n \in S \ s : \A y \in J[s] : f[<<y, n>>] \in J[s \cup {n}]
      BY <2>2
    <3>2. PICK h : /\ h = [s \in SUBSET S |-> h[s]]
                   /\ Folds(h, f, x, S)
                   /\ \A s \in SUBSET S : h[s] \in J[s]
      BY <3>1, FoldSteps
    <3>3. \A s \in SUBSET S : s # {} => /\ Pick(s) \in S \ (s \ {Pick(s)})
                                        /\ h[s \ {Pick(s)}] \in J[s \ {Pick(s)}]
      BY <3>2, PickIs
    <3>4. \A s \in SUBSET S : h[s] = IF s = {} THEN x ELSE TakeInOccupant(h[s \ {Pick(s)}], Pick(s))
      BY <2>2, <3>2, <3>3 DEF Folds
    <3> QED BY <3>2, <3>4, Zenon
  <2>4. Follows(g)
    BY <2>3, Zenon
  <2> HIDE DEF g
  <2>5. g[{}] \in J[{}]
    BY <2>4
  <2>6. ASSUME NEW s \in SUBSET S, s # {}, g[s \ {Pick(s)}] \in J[s \ {Pick(s)}]
        PROVE  g[s] \in J[s]
    <3>1. Pick(s) \in s /\ (s \ {Pick(s)}) \cup {Pick(s)} = s
      BY <2>6, PickIs
    <3>2. g[s] = TakeInOccupant(g[s \ {Pick(s)}], Pick(s))
      BY <2>4, <2>6
    <3>3. TakeInOccupant(g[s \ {Pick(s)}], Pick(s)) \in J[(s \ {Pick(s)}) \cup {Pick(s)}]
      BY <2>6, <3>1
    <3> QED BY <3>1, <3>2, <3>3
  <2> QED BY <2>1, <2>5, <2>6, FoldKeeps
<1> QED BY <1>1, <1>2

LEMMA EachRemove ==
  ASSUME NEW S, IsFiniteSet(S), NEW J, NEW x \in J[{}],
         \A s \in SUBSET S : \A n \in S \ s : \A y \in J[s] : Remove(y, n) \in J[s \cup {n}]
  PROVE  Each(Remove, x, S) \in J[S]
<1> DEFINE X == UNION {J[s] : s \in SUBSET S}
           f == [z \in X \X S |-> Remove(z[1], z[2])]
           Follows(h) == h = [s \in SUBSET S |->
             IF s = {} THEN x ELSE Remove(h[s \ {Pick(s)}], Pick(s))]
           g == CHOOSE h : Follows(h)
<1>1. CASE S = {}
  BY <1>1 DEF Each
<1>2. CASE S # {}
  <2>1. Each(Remove, x, S) = g[S]
    BY <1>2, Zenon DEF Each, FoldSet, MapThenFoldSet, Pick
  <2>2. \A s \in SUBSET S : \A n \in S \ s : \A y \in J[s] : f[<<y, n>>] = Remove(y, n)
    OBVIOUS
  <2>3. \E h : Follows(h)
    <3> HIDE DEF f
    <3>1. \A s \in SUBSET S : \A n \in S \ s : \A y \in J[s] : f[<<y, n>>] \in J[s \cup {n}]
      BY <2>2
    <3>2. PICK h : /\ h = [s \in SUBSET S |-> h[s]]
                   /\ Folds(h, f, x, S)
                   /\ \A s \in SUBSET S : h[s] \in J[s]
      BY <3>1, FoldSteps
    <3>3. \A s \in SUBSET S : s # {} => /\ Pick(s) \in S \ (s \ {Pick(s)})
                                        /\ h[s \ {Pick(s)}] \in J[s \ {Pick(s)}]
      BY <3>2, PickIs
    <3>4. \A s \in SUBSET S : h[s] = IF s = {} THEN x ELSE Remove(h[s \ {Pick(s)}], Pick(s))
      BY <2>2, <3>2, <3>3 DEF Folds
    <3> QED BY <3>2, <3>4, Zenon
  <2>4. Follows(g)
    BY <2>3, Zenon
  <2> HIDE DEF g
  <2>5. g[{}] \in J[{}]
    BY <2>4
  <2>6. ASSUME NEW s \in SUBSET S, s # {}, g[s \ {Pick(s)}] \in J[s \ {Pick(s)}]
        PROVE  g[s] \in J[s]
    <3>1. Pick(s) \in s /\ (s \ {Pick(s)}) \cup {Pick(s)} = s
      BY <2>6, PickIs
    <3>2. g[s] = Remove(g[s \ {Pick(s)}], Pick(s))
      BY <2>4, <2>6
    <3>3. Remove(g[s \ {Pick(s)}], Pick(s)) \in J[(s \ {Pick(s)}) \cup {Pick(s)}]
      BY <2>6, <3>1
    <3> QED BY <3>1, <3>2, <3>3
  <2> QED BY <2>1, <2>5, <2>6, FoldKeeps
<1> QED BY <1>1, <1>2

LEMMA EachGiveUp ==
  ASSUME NEW S, IsFiniteSet(S), NEW J, NEW x \in J[{}],
         \A s \in SUBSET S : \A n \in S \ s : \A y \in J[s] : GiveUp(y, n) \in J[s \cup {n}]
  PROVE  Each(GiveUp, x, S) \in J[S]
<1> DEFINE X == UNION {J[s] : s \in SUBSET S}
           f == [z \in X \X S |-> GiveUp(z[1], z[2])]
           Follows(h) == h = [s \in SUBSET S |->
             IF s = {} THEN x ELSE GiveUp(h[s \ {Pick(s)}], Pick(s))]
           g == CHOOSE h : Follows(h)
<1>1. CASE S = {}
  BY <1>1 DEF Each
<1>2. CASE S # {}
  <2>1. Each(GiveUp, x, S) = g[S]
    BY <1>2, Zenon DEF Each, FoldSet, MapThenFoldSet, Pick
  <2>2. \A s \in SUBSET S : \A n \in S \ s : \A y \in J[s] : f[<<y, n>>] = GiveUp(y, n)
    OBVIOUS
  <2>3. \E h : Follows(h)
    <3> HIDE DEF f
    <3>1. \A s \in SUBSET S : \A n \in S \ s : \A y \in J[s] : f[<<y, n>>] \in J[s \cup {n}]
      BY <2>2
    <3>2. PICK h : /\ h = [s \in SUBSET S |-> h[s]]
                   /\ Folds(h, f, x, S)
                   /\ \A s \in SUBSET S : h[s] \in J[s]
      BY <3>1, FoldSteps
    <3>3. \A s \in SUBSET S : s # {} => /\ Pick(s) \in S \ (s \ {Pick(s)})
                                        /\ h[s \ {Pick(s)}] \in J[s \ {Pick(s)}]
      BY <3>2, PickIs
    <3>4. \A s \in SUBSET S : h[s] = IF s = {} THEN x ELSE GiveUp(h[s \ {Pick(s)}], Pick(s))
      BY <2>2, <3>2, <3>3 DEF Folds
    <3> QED BY <3>2, <3>4, Zenon
  <2>4. Follows(g)
    BY <2>3, Zenon
  <2> HIDE DEF g
  <2>5. g[{}] \in J[{}]
    BY <2>4
  <2>6. ASSUME NEW s \in SUBSET S, s # {}, g[s \ {Pick(s)}] \in J[s \ {Pick(s)}]
        PROVE  g[s] \in J[s]
    <3>1. Pick(s) \in s /\ (s \ {Pick(s)}) \cup {Pick(s)} = s
      BY <2>6, PickIs
    <3>2. g[s] = GiveUp(g[s \ {Pick(s)}], Pick(s))
      BY <2>4, <2>6
    <3>3. GiveUp(g[s \ {Pick(s)}], Pick(s)) \in J[(s \ {Pick(s)}) \cup {Pick(s)}]
      BY <2>6, <3>1
    <3> QED BY <3>1, <3>2, <3>3
  <2> QED BY <2>1, <2>5, <2>6, FoldKeeps
<1> QED BY <1>1, <1>2

LEMMA EachTake ==
  ASSUME NEW S, IsFiniteSet(S), NEW J, NEW x \in J[{}],
         \A s \in SUBSET S : \A n \in S \ s : \A y \in J[s] : Take(y, n) \in J[s \cup {n}]
  PROVE  Each(Take, x, S) \in J[S]
<1> DEFINE X == UNION {J[s] : s \in SUBSET S}
           f == [z \in X \X S |-> Take(z[1], z[2])]
           Follows(h) == h = [s \in SUBSET S |->
             IF s = {} THEN x ELSE Take(h[s \ {Pick(s)}], Pick(s))]
           g == CHOOSE h : Follows(h)
<1>1. CASE S = {}
  BY <1>1 DEF Each
<1>2. CASE S # {}
  <2>1. Each(Take, x, S) = g[S]
    BY <1>2, Zenon DEF Each, FoldSet, MapThenFoldSet, Pick
  <2>2. \A s \in SUBSET S : \A n \in S \ s : \A y \in J[s] : f[<<y, n>>] = Take(y, n)
    OBVIOUS
  <2>3. \E h : Follows(h)
    <3> HIDE DEF f
    <3>1. \A s \in SUBSET S : \A n \in S \ s : \A y \in J[s] : f[<<y, n>>] \in J[s \cup {n}]
      BY <2>2
    <3>2. PICK h : /\ h = [s \in SUBSET S |-> h[s]]
                   /\ Folds(h, f, x, S)
                   /\ \A s \in SUBSET S : h[s] \in J[s]
      BY <3>1, FoldSteps
    <3>3. \A s \in SUBSET S : s # {} => /\ Pick(s) \in S \ (s \ {Pick(s)})
                                        /\ h[s \ {Pick(s)}] \in J[s \ {Pick(s)}]
      BY <3>2, PickIs
    <3>4. \A s \in SUBSET S : h[s] = IF s = {} THEN x ELSE Take(h[s \ {Pick(s)}], Pick(s))
      BY <2>2, <3>2, <3>3 DEF Folds
    <3> QED BY <3>2, <3>4, Zenon
  <2>4. Follows(g)
    BY <2>3, Zenon
  <2> HIDE DEF g
  <2>5. g[{}] \in J[{}]
    BY <2>4
  <2>6. ASSUME NEW s \in SUBSET S, s # {}, g[s \ {Pick(s)}] \in J[s \ {Pick(s)}]
        PROVE  g[s] \in J[s]
    <3>1. Pick(s) \in s /\ (s \ {Pick(s)}) \cup {Pick(s)} = s
      BY <2>6, PickIs
    <3>2. g[s] = Take(g[s \ {Pick(s)}], Pick(s))
      BY <2>4, <2>6
    <3>3. Take(g[s \ {Pick(s)}], Pick(s)) \in J[(s \ {Pick(s)}) \cup {Pick(s)}]
      BY <2>6, <3>1
    <3> QED BY <3>1, <3>2, <3>3
  <2> QED BY <2>1, <2>5, <2>6, FoldKeeps
<1> QED BY <1>1, <1>2

LEMMA EachAdopt ==
  ASSUME NEW S, IsFiniteSet(S), NEW J, NEW x \in J[{}],
         \A s \in SUBSET S : \A n \in S \ s : \A y \in J[s] : Adopt(y, n) \in J[s \cup {n}]
  PROVE  Each(Adopt, x, S) \in J[S]
<1> DEFINE X == UNION {J[s] : s \in SUBSET S}
           f == [z \in X \X S |-> Adopt(z[1], z[2])]
           Follows(h) == h = [s \in SUBSET S |->
             IF s = {} THEN x ELSE Adopt(h[s \ {Pick(s)}], Pick(s))]
           g == CHOOSE h : Follows(h)
<1>1. CASE S = {}
  BY <1>1 DEF Each
<1>2. CASE S # {}
  <2>1. Each(Adopt, x, S) = g[S]
    BY <1>2, Zenon DEF Each, FoldSet, MapThenFoldSet, Pick
  <2>2. \A s \in SUBSET S : \A n \in S \ s : \A y \in J[s] : f[<<y, n>>] = Adopt(y, n)
    OBVIOUS
  <2>3. \E h : Follows(h)
    <3> HIDE DEF f
    <3>1. \A s \in SUBSET S : \A n \in S \ s : \A y \in J[s] : f[<<y, n>>] \in J[s \cup {n}]
      BY <2>2
    <3>2. PICK h : /\ h = [s \in SUBSET S |-> h[s]]
                   /\ Folds(h, f, x, S)
                   /\ \A s \in SUBSET S : h[s] \in J[s]
      BY <3>1, FoldSteps
    <3>3. \A s \in SUBSET S : s # {} => /\ Pick(s) \in S \ (s \ {Pick(s)})
                                        /\ h[s \ {Pick(s)}] \in J[s \ {Pick(s)}]
      BY <3>2, PickIs
    <3>4. \A s \in SUBSET S : h[s] = IF s = {} THEN x ELSE Adopt(h[s \ {Pick(s)}], Pick(s))
      BY <2>2, <3>2, <3>3 DEF Folds
    <3> QED BY <3>2, <3>4, Zenon
  <2>4. Follows(g)
    BY <2>3, Zenon
  <2> HIDE DEF g
  <2>5. g[{}] \in J[{}]
    BY <2>4
  <2>6. ASSUME NEW s \in SUBSET S, s # {}, g[s \ {Pick(s)}] \in J[s \ {Pick(s)}]
        PROVE  g[s] \in J[s]
    <3>1. Pick(s) \in s /\ (s \ {Pick(s)}) \cup {Pick(s)} = s
      BY <2>6, PickIs
    <3>2. g[s] = Adopt(g[s \ {Pick(s)}], Pick(s))
      BY <2>4, <2>6
    <3>3. Adopt(g[s \ {Pick(s)}], Pick(s)) \in J[(s \ {Pick(s)}) \cup {Pick(s)}]
      BY <2>6, <3>1
    <3> QED BY <3>1, <3>2, <3>3
  <2> QED BY <2>1, <2>5, <2>6, FoldKeeps
<1> QED BY <1>1, <1>2


-----------------------------------------------------------------------------
(* The inductive invariant                                                 *)

States ==
  [vault : [Notes -> Paths \cup {None}], at : [Notes -> Paths \cup {None}],
   byPath : [Paths -> Notes \cup {None}], row : [Notes -> Paths \cup {None}],
   proj : [Notes -> Paths \cup {None}], files : [Paths -> Files],
   dirty : SUBSET Notes, removals : SUBSET Removals, events : SUBSET Paths,
   used : SUBSET Notes, erased : BOOLEAN, panicked : BOOLEAN, short : BOOLEAN]

\* `notes` and `by_path` are inverse, and the rows say the same.
Indexed(x) ==
  /\ \A n \in Notes : x.at[n] # None => x.byPath[x.at[n]] = n
  /\ \A p \in Paths : x.byPath[p] # None => x.at[x.byPath[p]] = p
  /\ x.row = x.at
  /\ \A n \in Notes : x.at[n] # None => n \in x.used

\* A note is projected where it is; one not written yet has no file, but perhaps one not new at a
\* path of the collision rule.
Projections(x) ==
  \A n \in Notes :
    /\ x.proj[n] \in {None, x.at[n]}
    /\ x.at[n] # None /\ x.proj[n] = None => x.at[n] \in Numbered \/ ~ There(x, x.at[n])

\* What is new at a path of the collision rule is in the file of the note that was written there.
NumberedAre(x, P) ==
  \A p \in P \cap Numbered :
    x.files[p].new => x.byPath[p] # None /\ x.proj[x.byPath[p]] = p

\* A removal that waits is that of a note that is still there.
RemovalsAre(x) ==
  \A r \in x.removals : x.at[r.id] = r.path /\ (r.path \in Numbered => ~ x.files[r.path].new)

Kept(x) ==
  /\ x \in States /\ Indexed(x) /\ Projections(x) /\ RemovalsAre(x)
  /\ ~ x.erased /\ ~ x.panicked

\* What every handler leaves behind: everything in step with the vault document.
Steady(x) == Kept(x) /\ NumberedAre(x, Paths) /\ x.vault = x.at

NamesInv == Steady(e) /\ opening \in BOOLEAN

\* Which note is where, apart from the files and what is projected.
SameNames(x, y) ==
  /\ y.vault = x.vault /\ y.at = x.at /\ y.byPath = x.byPath /\ y.row = x.row
  /\ y.removals = x.removals /\ y.used = x.used
  /\ y.panicked = x.panicked /\ y.short = x.short

-----------------------------------------------------------------------------
(* What the statements do                                                  *)

LEMMA FilesAre ==
  ASSUME NEW n \in Notes, NEW new \in BOOLEAN
  PROVE  /\ File(n, new) \in Files /\ File(n, new).id = n /\ File(n, new).new = new
         /\ NoFile \in Files /\ NoFile.new = FALSE /\ NoFile.id = None
         /\ File(n, new) # NoFile
BY NamesAssumption DEF File, NoFile, Files

LEMMA NoFileIs == NoFile \in Files /\ NoFile.new = FALSE
BY NamesAssumption DEF File, NoFile, Files

\* From x to y, f was put at p.
Puts(x, p, f, y) ==
  /\ y \in States /\ SameNames(x, y) /\ y.proj = x.proj /\ y.dirty = x.dirty
  /\ y.files[p] = f
  /\ \A q \in Paths \ {p} : y.files[q] = x.files[q]
  /\ y.erased => x.erased \/ x.files[p].new

LEMMA PutIs ==
  ASSUME NEW x \in States, NEW p \in Paths, NEW f \in Files
  PROVE  Put(x, p, f) \in States /\ Puts(x, p, f, Put(x, p, f))
<1> DEFINE y == Put(x, p, f)
<1>1. y = [x EXCEPT !.files = [x.files EXCEPT ![p] = f],
                    !.erased = x.erased \/ x.files[p].new,
                    !.events = IF x.files[p] = f THEN x.events ELSE x.events \cup {p}]
  BY DEF Put, States
<1>2. /\ [x.files EXCEPT ![p] = f] \in [Paths -> Files]
      /\ (x.erased \/ x.files[p].new) \in BOOLEAN
      /\ (IF x.files[p] = f THEN x.events ELSE x.events \cup {p}) \in SUBSET Paths
  BY DEF States
<1> HIDE DEF y
<1>3. y \in States
  BY <1>1, <1>2 DEF States
<1>4. Puts(x, p, f, y)
  <2>1. SameNames(x, y) /\ y.proj = x.proj /\ y.dirty = x.dirty
    BY <1>1 DEF States, SameNames
  <2>2. y.files[p] = f /\ \A q \in Paths \ {p} : y.files[q] = x.files[q]
    BY <1>1 DEF States
  <2>3. y.erased => x.erased \/ x.files[p].new
    BY <1>1 DEF States
  <2> QED BY <1>3, <2>1, <2>2, <2>3 DEF Puts
<1> QED BY <1>3, <1>4 DEF y

\* From x to y, note n was written at p.
Wrote(x, n, p, y) ==
  /\ y \in States /\ SameNames(x, y) /\ y.dirty = x.dirty
  /\ y.files[p] = File(n, FALSE) /\ y.proj[n] = p
  /\ \A q \in Paths \ {p} : y.files[q] = x.files[q]
  /\ \A m \in Notes \ {n} : y.proj[m] = x.proj[m]
  /\ y.erased => x.erased \/ x.files[p].new

LEMMA WriteIs ==
  ASSUME NEW x \in States, NEW n \in Notes, NEW p \in Paths
  PROVE  Write(x, n, p) \in States /\ Wrote(x, n, p, Write(x, n, p))
<1> DEFINE z == Write(x, n, p)
<1>1. PICK y \in States : y = Put(x, p, File(n, FALSE)) /\ Puts(x, p, File(n, FALSE), y)
  BY FilesAre, PutIs
<1>2. z = [y EXCEPT !.proj = [y.proj EXCEPT ![n] = p]]
  BY <1>1 DEF Write
<1>3. [y.proj EXCEPT ![n] = p] \in [Notes -> Paths \cup {None}]
  BY DEF States
<1> HIDE DEF z
<1>4. z \in States
  BY <1>2, <1>3 DEF States
<1>5. z.files = y.files /\ (z.erased <=> y.erased) /\ z.dirty = y.dirty /\ SameNames(y, z)
  BY <1>2 DEF States, SameNames
<1>6. z.proj[n] = p /\ \A m \in Notes \ {n} : z.proj[m] = y.proj[m]
  BY <1>2 DEF States
<1>7. SameNames(x, z)
  BY <1>1, <1>5 DEF SameNames, Puts
<1>8. Wrote(x, n, p, z)
  <2>1. /\ y.dirty = x.dirty /\ y.proj = x.proj /\ y.files[p] = File(n, FALSE)
        /\ \A q \in Paths \ {p} : y.files[q] = x.files[q]
        /\ y.erased => x.erased \/ x.files[p].new
    BY <1>1 DEF Puts
  <2>2. /\ z.files[p] = File(n, FALSE) /\ \A q \in Paths \ {p} : z.files[q] = x.files[q]
        /\ \A m \in Notes \ {n} : z.proj[m] = x.proj[m]
        /\ z.dirty = x.dirty /\ (z.erased => x.erased \/ x.files[p].new)
    BY <1>5, <1>6, <2>1
  <2> QED BY <1>4, <1>6, <1>7, <2>2 DEF Wrote
<1> QED BY <1>4, <1>8 DEF z

-----------------------------------------------------------------------------
(* Handlers that write notes where they are                                *)

\* From x to y, notes were written where they are, and nothing unread was written over.
Writes(x, y) ==
  /\ y \in States /\ SameNames(x, y) /\ (y.erased => x.erased)
  /\ \A p \in Paths :
       \/ y.files[p] = x.files[p]
       \/ /\ x.byPath[p] # None
          /\ y.files[p] = File(x.byPath[p], FALSE)
          /\ y.proj[x.byPath[p]] = x.at[x.byPath[p]]
  /\ \A n \in Notes : y.proj[n] = x.proj[n] \/ (x.at[n] # None /\ y.proj[n] = x.at[n])

\* A note is found by the path it is at.
AtIndexed(x) == \A n \in Notes : x.at[n] # None => x.byPath[x.at[n]] = n

LEMMA WritesNothing ==
  ASSUME NEW x \in States
  PROVE  Writes(x, x)
BY DEF Writes, SameNames

LEMMA WritesOn ==
  ASSUME NEW x \in States, NEW y, NEW z, Writes(x, y), Writes(y, z)
  PROVE  Writes(x, z)
<1>1. /\ y \in States /\ z \in States
      /\ SameNames(x, y) /\ SameNames(y, z) /\ (y.erased => x.erased) /\ (z.erased => y.erased)
  BY DEF Writes
<1>2. SameNames(x, z) /\ (z.erased => x.erased) /\ y.at = x.at /\ y.byPath = x.byPath
  BY <1>1 DEF SameNames
<1>3. \A n \in Notes : z.proj[n] = x.proj[n] \/ (x.at[n] # None /\ z.proj[n] = x.at[n])
  BY <1>2 DEF Writes
<1>4. ASSUME NEW p \in Paths
      PROVE  \/ z.files[p] = x.files[p]
             \/ /\ x.byPath[p] # None
                /\ z.files[p] = File(x.byPath[p], FALSE)
                /\ z.proj[x.byPath[p]] = x.at[x.byPath[p]]
  <2>1. CASE z.files[p] = y.files[p]
    <3>1. CASE y.files[p] = x.files[p]
      BY <2>1, <3>1
    <3>2. CASE y.files[p] # x.files[p]
      <4>1. /\ x.byPath[p] # None /\ y.files[p] = File(x.byPath[p], FALSE)
            /\ y.proj[x.byPath[p]] = x.at[x.byPath[p]]
        BY <3>2 DEF Writes
      <4>2. x.byPath[p] \in Notes
        BY <4>1 DEF States
      <4>3. \/ z.proj[x.byPath[p]] = y.proj[x.byPath[p]]
            \/ z.proj[x.byPath[p]] = y.at[x.byPath[p]]
        BY <4>2 DEF Writes
      <4> QED BY <2>1, <4>1, <4>3, <1>2
    <3> QED BY <3>1, <3>2
  <2>2. CASE z.files[p] # y.files[p]
    <3>1. /\ y.byPath[p] # None /\ z.files[p] = File(y.byPath[p], FALSE)
          /\ z.proj[y.byPath[p]] = y.at[y.byPath[p]]
      BY <2>2 DEF Writes
    <3> QED BY <3>1, <1>2
  <2> QED BY <2>1, <2>2
<1> QED BY <1>1, <1>2, <1>3, <1>4 DEF Writes

\* What is there.
LEMMA NewIsThere ==
  ASSUME NEW x, NEW p, x.files[p].new
  PROVE  There(x, p)
BY FilesAre DEF There, NoFile, File

\* From x to y, the file at p was read.
Reads(x, p, y) ==
  /\ y \in States /\ SameNames(x, y) /\ (y.erased <=> x.erased) /\ y.proj = x.proj
  /\ \A q \in Paths \ {p} : y.files[q] = x.files[q]
  /\ y.files[p].new = FALSE /\ y.files[p].id = x.files[p].id

LEMMA SeenIs ==
  ASSUME NEW x \in States, NEW p \in Paths
  PROVE  Seen(x, p) \in States /\ Reads(x, p, Seen(x, p))
<1> DEFINE f == [x.files[p] EXCEPT !.new = FALSE]
           y == Seen(x, p)
<1>1. y = [x EXCEPT !.files = [x.files EXCEPT ![p] = f]]
  BY DEF Seen, States
<1>2. f \in Files /\ f.new = FALSE /\ f.id = x.files[p].id
  BY DEF States, Files
<1> HIDE DEF f, y
<1>3. y \in States
  BY <1>1, <1>2 DEF States
<1>4. Reads(x, p, y)
  BY <1>1, <1>2, <1>3 DEF States, SameNames, Reads
<1> QED BY <1>3, <1>4 DEF y

\* Note n is at p, in memory and in its row.
IsAt(x, n, p) == x.at[n] = p /\ x.byPath[p] = n /\ x.row[n] = p

\* From x to y, the file of note n at p was taken in.
TakesIn(x, n, p, y) == Writes(x, y) /\ y.files[p] = File(n, FALSE)

\* `local_edit` of a note's own file.
LEMMA LocalEditIs ==
  ASSUME NEW x \in States, NEW n \in Notes, NEW p \in Paths,
         IsAt(x, n, p)
  PROVE  /\ LocalEdit(x, n, p) \in States
         /\ TakesIn(x, n, p, LocalEdit(x, n, p))
<1>1. CASE ~ Differs(x, n, p)
  BY <1>1, WritesNothing DEF LocalEdit, Differs, TakesIn
<1>2. CASE Differs(x, n, p)
  <2>1. p # None
    BY NamesAssumption
  <2>2. PICK s \in States : s = Seen(x, p) /\ Reads(x, p, s)
    BY SeenIs
  <2>3. /\ SameNames(x, s) /\ (s.erased <=> x.erased) /\ s.proj = x.proj
        /\ \A q \in Paths \ {p} : s.files[q] = x.files[q]
        /\ s.files[p].new = FALSE
    BY <2>2 DEF Reads
  <2>4. PICK y \in States : y = Write(s, n, p) /\ Wrote(s, n, p, y)
    BY WriteIs
  <2>5. /\ SameNames(s, y)
        /\ y.files[p] = File(n, FALSE) /\ y.proj[n] = p
        /\ \A q \in Paths \ {p} : y.files[q] = s.files[q]
        /\ \A m \in Notes \ {n} : y.proj[m] = s.proj[m]
        /\ y.erased => s.erased \/ s.files[p].new
    BY <2>4 DEF Wrote
  <2> DEFINE z == Index(y, n, p)
  <2>0. LocalEdit(x, n, p) = y \/ LocalEdit(x, n, p) = z
    BY <1>2, <2>1, <2>2, <2>4 DEF LocalEdit, IsAt
  <2>6. SameNames(x, y)
    BY <2>3, <2>5 DEF SameNames
  <2>7. /\ y.files[p] = File(n, FALSE)
        /\ \A q \in Paths \ {p} : y.files[q] = x.files[q]
    BY <2>3, <2>5
  <2>8. y.proj[n] = p /\ \A m \in Notes \ {n} : y.proj[m] = x.proj[m]
    BY <2>3, <2>5
  <2>9. Writes(x, y)
    <3>1. \A q \in Paths : \/ y.files[q] = x.files[q]
                           \/ /\ x.byPath[q] # None /\ y.files[q] = File(x.byPath[q], FALSE)
                              /\ y.proj[x.byPath[q]] = x.at[x.byPath[q]]
      BY <2>7, <2>8, NamesAssumption DEF IsAt
    <3>2. \A m \in Notes : y.proj[m] = x.proj[m] \/ (x.at[m] # None /\ y.proj[m] = x.at[m])
      BY <2>1, <2>8 DEF IsAt
    <3> QED BY <2>3, <2>5, <2>6, <3>1, <3>2 DEF Writes
  <2>10. z = y
    <3>1. [y.row EXCEPT ![n] = p] = y.row
      BY <2>4, <2>6 DEF States, SameNames, IsAt
    <3>2. z = [y EXCEPT !.row = [y.row EXCEPT ![n] = p]]
      BY DEF Index
    <3> QED BY <2>4, <3>1, <3>2 DEF States
  <2>11. y \in States /\ TakesIn(x, n, p, y)
    BY <2>7, <2>9 DEF TakesIn
  <2> QED BY <2>0, <2>10, <2>11
<1> QED BY <1>1, <1>2

\* Wherever a note is, its row and the index agree.
AllAt(x) == \A n \in Notes : x.at[n] # None => IsAt(x, n, x.at[n])

LEMMA IndexedIsAt ==
  ASSUME NEW x \in States, Indexed(x)
  PROVE  AllAt(x)
BY DEF Indexed, AllAt, IsAt, States

LEMMA AllAtWrites ==
  ASSUME NEW x \in States, NEW y \in States, AllAt(x), Writes(x, y)
  PROVE  AllAt(y)
BY DEF Writes, SameNames, AllAt, IsAt

\* `ingest_unsaved`
LEMMA IngestIs ==
  ASSUME NEW x \in States, NEW n \in Notes, AllAt(x)
  PROVE  /\ IngestUnsaved(x, n) \in States
         /\ Writes(x, IngestUnsaved(x, n))
         /\ x.at[n] # None /\ x.proj[n] = x.at[n] /\ There(x, x.at[n])
              => TakesIn(x, n, x.at[n], IngestUnsaved(x, n))
<1> DEFINE p == x.at[n]
           calls == p # None /\ x.proj[n] = p /\ There(x, p) /\ Differs(x, n, p)
<1>1. CASE ~ calls
  <2>1. IngestUnsaved(x, n) = x
    BY <1>1 DEF IngestUnsaved
  <2>2. p # None /\ x.proj[n] = p => Differs(x, n, p) \/ x.files[p] = File(n, FALSE)
    BY DEF Differs
  <2> QED BY <1>1, <2>1, <2>2, WritesNothing DEF TakesIn
<1>2. CASE calls
  <2> HIDE DEF p
  <2>1. p \in Paths /\ IsAt(x, n, p)
    BY <1>2 DEF States, AllAt, p
  <2>2. PICK y \in States : y = [x EXCEPT !.events = @ \ {p}]
    BY DEF States
  <2>3. SameNames(x, y) /\ y.files = x.files /\ y.proj = x.proj /\ (y.erased <=> x.erased)
    BY <2>2 DEF States, SameNames
  <2>4. IsAt(y, n, p)
    BY <2>1, <2>3 DEF SameNames, IsAt
  <2>5. PICK z \in States : z = LocalEdit(y, n, p) /\ TakesIn(y, n, p, z)
    BY <2>1, <2>4, LocalEditIs
  <2>6. Writes(x, y)
    BY <2>3 DEF Writes
  <2>7. TakesIn(x, n, p, z)
    BY <2>5, <2>6, WritesOn DEF TakesIn
  <2>8. IngestUnsaved(x, n) = z
    BY <1>2, <2>2, <2>5 DEF IngestUnsaved, p
  <2> QED BY <2>7, <2>8 DEF TakesIn, p
<1> QED BY <1>1, <1>2

\* `rewrite_links`, note by note.
LEMMA RelinkIs ==
  ASSUME NEW x \in States, NEW n \in Notes, AllAt(x), x.at[n] # None
  PROVE  Relink(x, n) \in States /\ Writes(x, Relink(x, n))
<1>1. PICK p \in Paths : p = x.at[n] /\ IsAt(x, n, p)
  BY DEF States, AllAt
<1>2. PICK y \in States : y = Write(x, n, p) /\ Wrote(x, n, p, y)
  BY WriteIs
<1>3. PICK z \in States : z = [y EXCEPT !.erased = x.erased]
  BY DEF States
<1>4. SameNames(y, z) /\ z.files = y.files /\ z.proj = y.proj /\ (z.erased <=> x.erased)
  BY <1>3 DEF States, SameNames
<1>5. SameNames(x, z)
  BY <1>2, <1>4 DEF Wrote, SameNames
<1>6. /\ z.files[p] = File(n, FALSE) /\ z.proj[n] = p
      /\ \A q \in Paths \ {p} : z.files[q] = x.files[q]
      /\ \A m \in Notes \ {n} : z.proj[m] = x.proj[m]
  BY <1>2, <1>4 DEF Wrote
<1>7. Writes(x, z)
  <2>1. \A q \in Paths : \/ z.files[q] = x.files[q]
                         \/ /\ x.byPath[q] # None /\ z.files[q] = File(x.byPath[q], FALSE)
                            /\ z.proj[x.byPath[q]] = x.at[x.byPath[q]]
    BY <1>1, <1>6, NamesAssumption DEF IsAt
  <2>2. \A m \in Notes : z.proj[m] = x.proj[m] \/ (x.at[m] # None /\ z.proj[m] = x.at[m])
    BY <1>1, <1>6
  <2> QED BY <1>4, <1>5, <2>1, <2>2 DEF Writes
<1> QED BY <1>1, <1>2, <1>3, <1>7 DEF Relink

LEMMA RewriteLinksIs ==
  ASSUME NEW x \in States, NEW m, AllAt(x)
  PROVE  RewriteLinks(x, m) \in States /\ Writes(x, RewriteLinks(x, m))
<1> DEFINE S == {n \in Notes : <<n, m>> \in Links /\ x.at[n] # None}
           J == [s \in SUBSET S |-> {y \in States : Writes(x, y)}]
<1>1. IsFiniteSet(S)
  BY NamesAssumption, FS_Subset
<1>2. x \in J[{}]
  BY WritesNothing
<1>3. ASSUME NEW s \in SUBSET S, NEW n \in S \ s, NEW y \in J[s]
      PROVE  Relink(y, n) \in J[s \cup {n}]
  <2>1. y \in States /\ Writes(x, y) /\ n \in Notes /\ x.at[n] # None
    OBVIOUS
  <2>2. AllAt(y) /\ y.at[n] # None
    BY <2>1, AllAtWrites DEF Writes, SameNames
  <2>3. Relink(y, n) \in States /\ Writes(y, Relink(y, n))
    BY <2>1, <2>2, RelinkIs
  <2>4. Writes(x, Relink(y, n))
    BY <2>1, <2>3, WritesOn
  <2>5. s \cup {n} \in SUBSET S
    OBVIOUS
  <2> QED BY <2>3, <2>4, <2>5
<1>4. S \in SUBSET S
  OBVIOUS
<1>5. RewriteLinks(x, m) = Each(Relink, x, S)
  BY DEF RewriteLinks
<1>6. Each(Relink, x, S) \in J[S]
  <2> HIDE DEF S, J
  <2> QED BY <1>1, <1>2, <1>3, EachRelink
<1> QED BY <1>4, <1>5, <1>6

-----------------------------------------------------------------------------
(* Handlers that move, make and remove notes                               *)

LEMMA KeptTypes ==
  ASSUME NEW x, Kept(x)
  PROVE  x \in States /\ AllAt(x)
BY IndexedIsAt DEF Kept

\* Notes may be written where they are.
LEMMA KeptWrites ==
  ASSUME NEW x \in States, NEW y \in States, Kept(x), Writes(x, y)
  PROVE  /\ Kept(y)
         /\ \A P \in SUBSET Paths : NumberedAre(x, P) => NumberedAre(y, P)
<1>1. SameNames(x, y)
  BY DEF Writes
<1>2. Indexed(y)
  BY <1>1 DEF Kept, Indexed, SameNames
<1>3. Projections(y)
  <2> SUFFICES ASSUME NEW n \in Notes
               PROVE  /\ y.proj[n] \in {None, y.at[n]}
                      /\ y.at[n] # None /\ y.proj[n] = None
                           => y.at[n] \in Numbered \/ ~ There(y, y.at[n])
    BY DEF Projections
  <2>1. y.at = x.at /\ y.byPath = x.byPath
    BY <1>1 DEF SameNames
  <2>2. x.proj[n] \in {None, x.at[n]}
    BY DEF Kept, Projections
  <2>3. y.proj[n] = x.proj[n] \/ (x.at[n] # None /\ y.proj[n] = x.at[n])
    BY DEF Writes
  <2>4. ASSUME y.at[n] # None, y.proj[n] = None
        PROVE  y.at[n] \in Numbered \/ ~ There(y, y.at[n])
    <3>1. x.at[n] # None /\ x.at[n] \in Paths /\ x.proj[n] = None
      BY <2>1, <2>3, <2>4 DEF States
    <3>2. x.byPath[x.at[n]] = n
      BY <3>1 DEF Kept, Indexed
    <3>3. y.files[x.at[n]] = x.files[x.at[n]]
      BY <2>1, <2>4, <3>1, <3>2 DEF Writes
    <3>4. x.at[n] \in Numbered \/ ~ There(x, x.at[n])
      BY <3>1 DEF Kept, Projections
    <3> QED BY <2>1, <3>3, <3>4 DEF There
  <2> QED BY <2>1, <2>2, <2>3, <2>4
<1>4. \A p \in Paths : y.files[p].new => x.files[p].new /\ y.files[p] = x.files[p]
  <2> TAKE p \in Paths
  <2> HAVE y.files[p].new
  <2>1. CASE y.files[p] = x.files[p]
    BY <2>1
  <2>2. CASE y.files[p] # x.files[p]
    <3>1. y.files[p] = File(x.byPath[p], FALSE)
      BY <2>2 DEF Writes
    <3>2. y.files[p].new = FALSE
      BY <3>1 DEF File
    <3> QED BY <3>2
  <2> QED BY <2>1, <2>2
<1>5. RemovalsAre(y)
  <2> SUFFICES ASSUME NEW r \in x.removals
               PROVE  x.at[r.id] = r.path /\ (r.path \in Numbered => ~ y.files[r.path].new)
    BY <1>1 DEF RemovalsAre, SameNames
  <2>1. r.path \in Paths
    BY DEF States, Removals
  <2> QED BY <1>4, <2>1 DEF Kept, RemovalsAre
<1>6. ASSUME NEW P \in SUBSET Paths, NumberedAre(x, P) PROVE NumberedAre(y, P)
  <2> SUFFICES ASSUME NEW p \in P \cap Numbered, y.files[p].new
               PROVE  y.byPath[p] # None /\ y.proj[y.byPath[p]] = p
    BY DEF NumberedAre
  <2>1. x.byPath[p] # None /\ x.proj[x.byPath[p]] = p
    BY <1>4, <1>6 DEF NumberedAre
  <2>2. x.byPath[p] \in Notes /\ x.at[x.byPath[p]] = p
    BY <2>1 DEF States, Kept, Indexed
  <2> QED BY <1>1, <2>1, <2>2 DEF Writes, SameNames
<1> QED BY <1>1, <1>2, <1>3, <1>5, <1>6 DEF Kept, Writes, SameNames

\* What is new in a note's file was written over what was projected there.
LEMMA NewIsWritten ==
  ASSUME NEW x \in States, Kept(x), NumberedAre(x, Paths), NEW n \in Notes,
         x.at[n] # None, x.files[x.at[n]].new
  PROVE  x.proj[n] = x.at[n] /\ There(x, x.at[n])
<1>1. x.at[n] \in Paths /\ x.byPath[x.at[n]] = n
  BY DEF States, Kept, Indexed
<1>2. There(x, x.at[n])
  BY NewIsThere
<1>3. x.proj[n] # None
  <2> SUFFICES ASSUME x.proj[n] = None PROVE FALSE
    OBVIOUS
  <2>1. x.at[n] \in Numbered
    BY <1>2 DEF Kept, Projections
  <2>2. x.proj[n] = x.at[n]
    BY <1>1, <2>1 DEF NumberedAre
  <2> QED BY <2>2
<1> QED BY <1>2, <1>3 DEF Kept, Projections

\* After `ingest_unsaved`, nothing is left unread in the note's file.
LEMMA IngestReads ==
  ASSUME NEW x \in States, Kept(x), NumberedAre(x, Paths), NEW n \in Notes, x.at[n] # None
  PROVE  ~ IngestUnsaved(x, n).files[x.at[n]].new
<1>1. AllAt(x)
  BY KeptTypes
<1>2. PICK y \in States : y = IngestUnsaved(x, n) /\ Writes(x, y)
        /\ (x.at[n] # None /\ x.proj[n] = x.at[n] /\ There(x, x.at[n]) => TakesIn(x, n, x.at[n], y))
  BY <1>1, IngestIs
<1>3. x.at[n] \in Paths
  BY DEF States
<1>4. ~ y.files[x.at[n]].new
  <2> SUFFICES ASSUME y.files[x.at[n]].new PROVE FALSE
    OBVIOUS
  <2>1. CASE x.files[x.at[n]].new
    BY <1>2, <2>1, NewIsWritten, FilesAre DEF TakesIn
  <2>2. CASE ~ x.files[x.at[n]].new
    <3>1. y.files[x.at[n]] = File(x.byPath[x.at[n]], FALSE)
      BY <1>2, <1>3, <2>2 DEF Writes
    <3>2. y.files[x.at[n]].new = FALSE
      BY <3>1 DEF File
    <3> QED BY <3>2
  <2> QED BY <2>1, <2>2
<1> QED BY <1>2, <1>4

\* From x to y, note n, which had a path, came to p, where none was.
Renamed(x, n, p, y) ==
  /\ Kept(y) /\ NumberedAre(y, Paths)
  /\ y.removals = x.removals /\ y.short = x.short
  /\ y.vault[n] = p /\ y.at[n] = p /\ y.byPath[p] = n
  /\ \A m \in Notes \ {n} : y.vault[m] = x.vault[m] /\ y.at[m] = x.at[m]
  /\ y.byPath[x.at[n]] = None /\ y.files[x.at[n]] = x.files[x.at[n]]
  /\ \A q \in Paths \ {p, x.at[n]} : y.byPath[q] = x.byPath[q]
  /\ \A q \in Paths \ {p} : y.byPath[q] = None => y.files[q] = x.files[q]

\* `apply_local_rename`
LEMMA RenameIs ==
  ASSUME NEW x \in States, NEW n \in Notes, NEW p \in Paths,
         Kept(x), NumberedAre(x, Paths \ {p}),
         x.at[n] # None, x.byPath[p] = None,
         x.at[n] \in Numbered => ~ x.files[x.at[n]].new,
         \A r \in x.removals : r.id # n
  PROVE  ApplyLocalRename(x, n, p) \in States /\ Renamed(x, n, p, ApplyLocalRename(x, n, p))
<1>1. PICK old \in Paths : old = x.at[n]
  BY DEF States
<1>2. x.byPath[old] = n /\ old # p /\ p # None
  BY <1>1, NamesAssumption DEF Kept, Indexed
<1>3. RowFree(x, n, p)
  BY <1>2, NamesAssumption DEF RowFree, Kept, Indexed
<1>4. PICK y \in States :
        y = [x EXCEPT !.byPath = [[x.byPath EXCEPT ![old] = None] EXCEPT ![p] = n],
                      !.at = [x.at EXCEPT ![n] = p],
                      !.proj = [x.proj EXCEPT ![n] = p],
                      !.row = [x.row EXCEPT ![n] = p],
                      !.vault = [x.vault EXCEPT ![n] = p]]
  <2>1. /\ [[x.byPath EXCEPT ![old] = None] EXCEPT ![p] = n] \in [Paths -> Notes \cup {None}]
        /\ [x.at EXCEPT ![n] = p] \in [Notes -> Paths \cup {None}]
        /\ [x.proj EXCEPT ![n] = p] \in [Notes -> Paths \cup {None}]
        /\ [x.row EXCEPT ![n] = p] \in [Notes -> Paths \cup {None}]
        /\ [x.vault EXCEPT ![n] = p] \in [Notes -> Paths \cup {None}]
    BY DEF States
  <2> QED BY <2>1 DEF States
<1>5. ApplyLocalRename(x, n, p) = RewriteLinks(LocalEdit(y, n, p), n)
  <2>1. ApplyLocalRename(x, n, p) =
          RewriteLinks(LocalEdit(
            [Index([x EXCEPT !.byPath = [@ EXCEPT ![x.at[n]] = None, ![p] = n],
                             !.at[n] = p, !.proj[n] = p], n, p) EXCEPT !.vault[n] = p], n, p), n)
    BY <1>1, <1>3, NamesAssumption DEF ApplyLocalRename
  <2>2. [Index([x EXCEPT !.byPath = [@ EXCEPT ![x.at[n]] = None, ![p] = n],
                         !.at[n] = p, !.proj[n] = p], n, p) EXCEPT !.vault[n] = p] = y
    BY <1>1, <1>4 DEF Index, States
  <2> QED BY <2>1, <2>2
<1>6. /\ y.byPath[p] = n /\ y.byPath[old] = None
      /\ \A q \in Paths \ {p, old} : y.byPath[q] = x.byPath[q]
      /\ y.at[n] = p /\ y.proj[n] = p /\ y.row[n] = p /\ y.vault[n] = p
      /\ \A m \in Notes \ {n} : /\ y.at[m] = x.at[m] /\ y.proj[m] = x.proj[m]
                                /\ y.row[m] = x.row[m] /\ y.vault[m] = x.vault[m]
      /\ y.files = x.files /\ y.removals = x.removals /\ y.used = x.used
      /\ y.short = x.short /\ (y.erased <=> x.erased) /\ (y.panicked <=> x.panicked)
  BY <1>2, <1>4 DEF States
<1>7. Indexed(y)
  <2>1. \A m \in Notes : y.at[m] # None => y.byPath[y.at[m]] = m
    <3> SUFFICES ASSUME NEW m \in Notes \ {n}, y.at[m] # None PROVE y.byPath[y.at[m]] = m
      BY <1>6
    <3>1. x.at[m] # None /\ x.at[m] \in Paths /\ x.byPath[x.at[m]] = m
      BY <1>6 DEF Kept, Indexed, States
    <3>2. x.at[m] # p /\ x.at[m] # old
      BY <1>2, <3>1, NamesAssumption
    <3> QED BY <1>6, <3>1, <3>2
  <2>2. \A q \in Paths : y.byPath[q] # None => y.at[y.byPath[q]] = q
    BY <1>1, <1>2, <1>6 DEF Kept, Indexed, States
  <2>3. y.row = y.at
    <3>1. \A m \in Notes : y.row[m] = y.at[m]
      BY <1>6 DEF Kept, Indexed
    <3> QED BY <3>1 DEF States
  <2>4. \A m \in Notes : y.at[m] # None => m \in y.used
    BY <1>1, <1>2, <1>6 DEF Kept, Indexed
  <2> QED BY <2>1, <2>2, <2>3, <2>4 DEF Indexed
<1>8. Projections(y)
  BY <1>2, <1>6 DEF Kept, Projections, There
<1>9. RemovalsAre(y)
  BY <1>6 DEF Kept, RemovalsAre, States, Removals
<1>10. NumberedAre(y, Paths)
  <2> SUFFICES ASSUME NEW q \in Paths \cap Numbered, y.files[q].new
               PROVE  y.byPath[q] # None /\ y.proj[y.byPath[q]] = q
    BY DEF NumberedAre
  <2>1. CASE q = p
    BY <1>6, <2>1, NamesAssumption
  <2>2. CASE q # p
    <3>1. q # old
      BY <1>1, <1>6
    <3>2. x.byPath[q] # None /\ x.proj[x.byPath[q]] = q
      BY <1>6, <2>2 DEF NumberedAre
    <3>3. x.byPath[q] \in Notes /\ x.at[x.byPath[q]] = q
      BY <3>2 DEF States, Kept, Indexed
    <3> QED BY <1>1, <1>6, <2>2, <3>1, <3>2, <3>3
  <2> QED BY <2>1, <2>2
<1>11. Kept(y)
  BY <1>6, <1>7, <1>8, <1>9 DEF Kept
<1>12. IsAt(y, n, p)
  BY <1>6 DEF IsAt
<1>13. PICK z \in States : z = LocalEdit(y, n, p) /\ TakesIn(y, n, p, z)
  BY <1>12, LocalEditIs
<1>14. Writes(y, z)
  BY <1>13 DEF TakesIn
<1>15. AllAt(z)
  BY <1>11, <1>14, KeptTypes, AllAtWrites
<1>16. PICK w \in States : w = RewriteLinks(z, n) /\ Writes(z, w)
  BY <1>15, RewriteLinksIs
<1>17. Writes(y, w)
  BY <1>14, <1>16, WritesOn
<1>18. Kept(w) /\ NumberedAre(w, Paths)
  BY <1>10, <1>11, <1>17, KeptWrites
<1>19. SameNames(y, w) /\ \A q \in Paths : y.byPath[q] = None => w.files[q] = y.files[q]
  BY <1>17 DEF Writes
<1>20. Renamed(x, n, p, w)
  BY <1>1, <1>2, <1>6, <1>18, <1>19 DEF Renamed, SameNames
<1> QED BY <1>5, <1>13, <1>16, <1>20

\* From x to y, note n, which had no path, came to p, where none was.
Created(x, n, p, y) ==
  /\ Kept(y) /\ NumberedAre(y, Paths)
  /\ y.removals = x.removals /\ y.short = x.short
  /\ y.vault[n] = p /\ y.at[n] = p /\ y.byPath[p] = n
  /\ \A m \in Notes \ {n} : y.vault[m] = x.vault[m] /\ y.at[m] = x.at[m]
  /\ \A q \in Paths \ {p} : y.byPath[q] = x.byPath[q] /\ y.files[q] = x.files[q]

\* The last part of `local_create`.
LEMMA CreateIs ==
  ASSUME NEW x \in States, NEW n \in Notes, NEW p \in Paths,
         Kept(x), NumberedAre(x, Paths \ {p}),
         x.at[n] = None, x.byPath[p] = None, ~ x.files[p].new
  PROVE  Create(x, n, p) \in States /\ Created(x, n, p, Create(x, n, p))
<1>1. p # None
  BY NamesAssumption
<1>2. RowFree(x, n, p)
  BY <1>1, NamesAssumption DEF RowFree, Kept, Indexed
<1>3. PICK w \in States : w = Write(x, n, p) /\ Wrote(x, n, p, w)
  BY WriteIs
<1>4. PICK y \in States :
        y = [w EXCEPT !.byPath = [w.byPath EXCEPT ![p] = n],
                      !.at = [w.at EXCEPT ![n] = p], !.used = w.used \cup {n},
                      !.row = [w.row EXCEPT ![n] = p],
                      !.vault = [w.vault EXCEPT ![n] = p]]
  <2>1. /\ [w.byPath EXCEPT ![p] = n] \in [Paths -> Notes \cup {None}]
        /\ [w.at EXCEPT ![n] = p] \in [Notes -> Paths \cup {None}]
        /\ w.used \cup {n} \in SUBSET Notes
        /\ [w.row EXCEPT ![n] = p] \in [Notes -> Paths \cup {None}]
        /\ [w.vault EXCEPT ![n] = p] \in [Notes -> Paths \cup {None}]
    BY DEF States
  <2> QED BY <2>1 DEF States
<1>5. Create(x, n, p) = y
  <2>1. Create(x, n, p) =
          [Index([w EXCEPT !.byPath[p] = n, !.at[n] = p, !.used = @ \cup {n}], n, p)
             EXCEPT !.vault[n] = p]
    BY <1>2, <1>3 DEF Create
  <2> QED BY <1>4, <2>1 DEF Index, States
<1>6. /\ y.byPath[p] = n /\ \A q \in Paths \ {p} : y.byPath[q] = w.byPath[q]
      /\ y.at[n] = p /\ y.row[n] = p /\ y.vault[n] = p
      /\ \A m \in Notes \ {n} : /\ y.at[m] = w.at[m]
                                /\ y.row[m] = w.row[m] /\ y.vault[m] = w.vault[m]
      /\ y.files = w.files /\ y.removals = w.removals /\ y.used = w.used \cup {n}
      /\ y.short = w.short /\ (y.erased <=> w.erased) /\ (y.panicked <=> w.panicked)
      /\ y.proj = w.proj
  BY <1>4 DEF States
<1>7. /\ y.byPath[p] = n /\ \A q \in Paths \ {p} : y.byPath[q] = x.byPath[q]
      /\ y.at[n] = p /\ y.row[n] = p /\ y.vault[n] = p /\ y.proj[n] = p
      /\ \A m \in Notes \ {n} : /\ y.at[m] = x.at[m] /\ y.proj[m] = x.proj[m]
                                /\ y.row[m] = x.row[m] /\ y.vault[m] = x.vault[m]
      /\ \A q \in Paths \ {p} : y.files[q] = x.files[q]
      /\ y.files[p].new = FALSE
      /\ y.removals = x.removals /\ y.used = x.used \cup {n} /\ y.short = x.short
      /\ ~ y.erased /\ ~ y.panicked
  <2>1. w.files[p].new = FALSE
    BY <1>3 DEF Wrote, File
  <2>2. /\ w.byPath = x.byPath /\ w.at = x.at /\ w.row = x.row /\ w.vault = x.vault
        /\ w.removals = x.removals /\ w.used = x.used /\ w.short = x.short
        /\ (w.panicked <=> x.panicked)
    BY <1>3 DEF Wrote, SameNames
  <2>3. /\ w.proj[n] = p
        /\ \A m \in Notes \ {n} : w.proj[m] = x.proj[m]
        /\ \A q \in Paths \ {p} : w.files[q] = x.files[q]
        /\ ~ w.erased
    BY <1>3 DEF Wrote, Kept
  <2>4. ~ x.panicked
    BY DEF Kept
  <2>5. ~ y.erased /\ ~ y.panicked
    BY <1>6, <2>2, <2>3, <2>4
  <2> QED BY <1>6, <2>1, <2>2, <2>3, <2>5
<1>8. Indexed(y)
  <2>1. \A m \in Notes : y.at[m] # None => y.byPath[y.at[m]] = m
    <3> SUFFICES ASSUME NEW m \in Notes \ {n}, y.at[m] # None PROVE y.byPath[y.at[m]] = m
      BY <1>7
    <3>1. x.at[m] # None /\ x.at[m] \in Paths /\ x.byPath[x.at[m]] = m
      BY <1>7 DEF Kept, Indexed, States
    <3>2. x.at[m] # p
      BY <3>1, NamesAssumption
    <3> QED BY <1>7, <3>1, <3>2
  <2>2. \A q \in Paths : y.byPath[q] # None => y.at[y.byPath[q]] = q
    <3> SUFFICES ASSUME NEW q \in Paths \ {p}, y.byPath[q] # None PROVE y.at[y.byPath[q]] = q
      BY <1>7
    <3>1. x.byPath[q] # None /\ x.byPath[q] \in Notes /\ x.at[x.byPath[q]] = q
      BY <1>7 DEF Kept, Indexed, States
    <3>2. x.byPath[q] # n
      BY <3>1, NamesAssumption
    <3> QED BY <1>7, <3>1, <3>2
  <2>3. y.row = y.at
    <3>1. \A m \in Notes : y.row[m] = y.at[m]
      BY <1>7 DEF Kept, Indexed
    <3> QED BY <3>1 DEF States
  <2>4. \A m \in Notes : y.at[m] # None => m \in y.used
    BY <1>7 DEF Kept, Indexed
  <2> QED BY <2>1, <2>2, <2>3, <2>4 DEF Indexed
<1>9. Projections(y)
  <2> SUFFICES ASSUME NEW m \in Notes
               PROVE  /\ y.proj[m] \in {None, y.at[m]}
                      /\ y.at[m] # None /\ y.proj[m] = None
                           => y.at[m] \in Numbered \/ ~ There(y, y.at[m])
    BY DEF Projections
  <2>1. CASE m = n
    BY <1>1, <1>7, <2>1
  <2>2. CASE m # n
    <3>1. x.proj[m] \in {None, x.at[m]}
      BY DEF Kept, Projections
    <3>2. ASSUME x.at[m] # None, x.proj[m] = None
          PROVE  x.at[m] \in Numbered \/ ~ There(y, x.at[m])
      <4>1. x.at[m] \in Paths /\ x.at[m] # p
        BY <3>2, NamesAssumption DEF Kept, Indexed, States
      <4>2. x.at[m] \in Numbered \/ ~ There(x, x.at[m])
        BY <3>2 DEF Kept, Projections
      <4> QED BY <1>7, <4>1, <4>2 DEF There
    <3> QED BY <1>7, <2>2, <3>1, <3>2
  <2> QED BY <2>1, <2>2
<1>10. RemovalsAre(y)
  <2> SUFFICES ASSUME NEW r \in x.removals
               PROVE  y.at[r.id] = r.path /\ (r.path \in Numbered => ~ y.files[r.path].new)
    BY <1>7 DEF RemovalsAre
  <2>1. /\ r.path \in Paths /\ r.id \in Notes /\ x.at[r.id] = r.path
        /\ r.path \in Numbered => ~ x.files[r.path].new
    BY DEF Kept, RemovalsAre, States, Removals
  <2>2. r.id # n
    BY <2>1, NamesAssumption
  <2> QED BY <1>7, <2>1, <2>2
<1>11. NumberedAre(y, Paths)
  <2> SUFFICES ASSUME NEW q \in Paths \cap Numbered, y.files[q].new
               PROVE  y.byPath[q] # None /\ y.proj[y.byPath[q]] = q
    BY DEF NumberedAre
  <2>1. q # p
    BY <1>7
  <2>2. x.byPath[q] # None /\ x.proj[x.byPath[q]] = q
    BY <1>7, <2>1 DEF NumberedAre
  <2>3. x.byPath[q] \in Notes /\ x.at[x.byPath[q]] = q
    BY <2>2 DEF States, Kept, Indexed
  <2>4. x.byPath[q] # n
    BY <2>3, NamesAssumption
  <2> QED BY <1>7, <2>1, <2>2, <2>3, <2>4
<1>12. Kept(y)
  BY <1>7, <1>8, <1>9, <1>10 DEF Kept
<1>13. Created(x, n, p, y)
  BY <1>7, <1>11, <1>12 DEF Created
<1> QED BY <1>5, <1>13

\* From x to y, only removals were dropped, and notes marked, unmarked, or the run's end.
Drops(x, y) ==
  /\ y \in States
  /\ y.vault = x.vault /\ y.at = x.at /\ y.byPath = x.byPath /\ y.row = x.row
  /\ y.proj = x.proj /\ y.files = x.files /\ y.used = x.used
  /\ y.removals \subseteq x.removals
  /\ (y.erased <=> x.erased) /\ (y.panicked <=> x.panicked)

LEMMA KeptDrops ==
  ASSUME NEW x \in States, NEW y \in States, Kept(x), Drops(x, y)
  PROVE  /\ Kept(y)
         /\ \A P \in SUBSET Paths : NumberedAre(x, P) => NumberedAre(y, P)
<1>1. Indexed(y)
  BY DEF Drops, Kept, Indexed
<1>2. Projections(y)
  BY DEF Drops, Kept, Projections, There
<1>3. RemovalsAre(y)
  BY DEF Drops, Kept, RemovalsAre
<1>4. ~ y.erased /\ ~ y.panicked
  BY DEF Drops, Kept
<1> QED BY <1>1, <1>2, <1>3, <1>4 DEF Kept, Drops, NumberedAre

\* A file where no note is may be read.
LEMMA KeptReads ==
  ASSUME NEW x \in States, NEW y \in States, NEW p \in Paths,
         Kept(x), NumberedAre(x, Paths), Reads(x, p, y), x.byPath[p] = None
  PROVE  Kept(y) /\ NumberedAre(y, Paths)
<1>1. /\ y.at = x.at /\ y.byPath = x.byPath /\ y.row = x.row /\ y.proj = x.proj
      /\ y.used = x.used /\ y.removals = x.removals
      /\ \A q \in Paths \ {p} : y.files[q] = x.files[q]
      /\ y.files[p].new = FALSE
  BY DEF Reads, SameNames
<1>2. ~ y.erased /\ ~ y.panicked
  BY DEF Reads, SameNames, Kept
<1>3. Indexed(y)
  BY <1>1 DEF Kept, Indexed
<1>4. Projections(y)
  <2> SUFFICES ASSUME NEW n \in Notes, x.at[n] # None, x.proj[n] = None
               PROVE  x.at[n] \in Numbered \/ ~ There(y, x.at[n])
    BY <1>1 DEF Projections, Kept
  <2>1. x.at[n] \in Paths /\ x.at[n] # p
    BY NamesAssumption DEF Kept, Indexed, States
  <2>2. x.at[n] \in Numbered \/ ~ There(x, x.at[n])
    BY DEF Kept, Projections
  <2> QED BY <1>1, <2>1, <2>2 DEF There
<1>5. RemovalsAre(y)
  BY <1>1 DEF Kept, RemovalsAre, States, Removals
<1>6. NumberedAre(y, Paths)
  BY <1>1 DEF NumberedAre
<1> QED BY <1>2, <1>3, <1>4, <1>5, <1>6 DEF Kept

\* An id for a note that has none is a note's that is nowhere.
LEMMA FreshIs ==
  ASSUME NEW x \in States, Kept(x), ~ (Notes \subseteq x.used)
  PROVE  Fresh(x) \in Notes /\ x.at[Fresh(x)] = None
<1> DEFINE T == Notes \ x.used
<1>1. T \in SUBSET Nat /\ T # {}
  BY NamesAssumption
<1>2. \E m \in T : \A k \in T : m <= k
  <2> HIDE DEF T
  <2> QED BY <1>1, NatMin
<1>3. Min(T) \in T
  <2> HIDE DEF T
  <2> QED BY <1>2 DEF Min
<1>4. Fresh(x) \in T
  BY <1>3 DEF Fresh
<1> QED BY <1>4 DEF Kept, Indexed

\* From x to y, the file at p, where no note was, was taken in.
Comes(x, p, y) ==
  /\ Kept(y) /\ NumberedAre(y, Paths)
  /\ y.removals \subseteq x.removals
  /\ x.short => y.short
  /\ y.short \/ y.byPath[p] # None
  /\ \A n \in Notes : (y.vault[n] = x.vault[n] /\ y.at[n] = x.at[n]) \/ y.vault[n] = y.at[n]
  /\ \A q \in Paths \ {p} : x.byPath[q] = None => y.byPath[q] = None /\ y.files[q] = x.files[q]
  /\ x.removals = {} =>
       \A q \in Paths : x.byPath[q] # None => y.byPath[q] # None \/ ~ There(y, q)

LEMMA ComesRenamed ==
  ASSUME NEW x \in States, NEW y \in States, NEW z \in States, NEW w \in States,
         NEW p \in Paths, NEW n \in Notes,
         Kept(x), x.byPath[p] = None, x.at[n] # None,
         Reads(x, p, y), Drops(y, z), z.short = y.short, Renamed(z, n, p, w),
         x.removals = {} => ~ There(x, x.at[n])
  PROVE  Comes(x, p, w)
<1>1. /\ z.vault = x.vault /\ z.at = x.at /\ z.byPath = x.byPath
      /\ z.removals \subseteq x.removals /\ z.short = x.short
      /\ \A q \in Paths \ {p} : z.files[q] = x.files[q]
  BY DEF Reads, Drops, SameNames
<1>2. PICK old \in Paths : old = x.at[n]
  BY DEF States
<1>3. x.byPath[old] = n /\ old # p
  BY <1>2, NamesAssumption DEF Kept, Indexed
<1>4. /\ Kept(w) /\ NumberedAre(w, Paths)
      /\ w.removals = z.removals /\ w.short = z.short
      /\ w.vault[n] = w.at[n] /\ w.byPath[p] = n
      /\ \A m \in Notes \ {n} : w.vault[m] = z.vault[m] /\ w.at[m] = z.at[m]
      /\ w.byPath[old] = None /\ w.files[old] = z.files[old]
      /\ \A q \in Paths \ {p, old} : w.byPath[q] = z.byPath[q]
      /\ \A q \in Paths \ {p} : w.byPath[q] = None => w.files[q] = z.files[q]
  BY <1>1, <1>2 DEF Renamed
<1>5. n # None
  BY NamesAssumption
<1>6. \A q \in Paths \ {p} : x.byPath[q] = None => w.byPath[q] = None /\ w.files[q] = x.files[q]
  BY <1>1, <1>3, <1>4, <1>5
<1>7. x.removals = {} =>
        \A q \in Paths : x.byPath[q] # None => w.byPath[q] # None \/ ~ There(w, q)
  BY <1>1, <1>2, <1>3, <1>4 DEF There
<1>8. \A m \in Notes : (w.vault[m] = x.vault[m] /\ w.at[m] = x.at[m]) \/ w.vault[m] = w.at[m]
  BY <1>1, <1>4
<1> QED BY <1>1, <1>4, <1>5, <1>6, <1>7, <1>8 DEF Comes

LEMMA ComesCreated ==
  ASSUME NEW x \in States, NEW y \in States, NEW w \in States,
         NEW p \in Paths, NEW n \in Notes,
         Reads(x, p, y), Created(y, n, p, w)
  PROVE  Comes(x, p, w)
<1>1. /\ y.vault = x.vault /\ y.at = x.at /\ y.byPath = x.byPath
      /\ y.removals = x.removals /\ y.short = x.short
      /\ \A q \in Paths \ {p} : y.files[q] = x.files[q]
  BY DEF Reads, SameNames
<1>2. n # None
  BY NamesAssumption
<1>3. /\ w.removals = x.removals /\ w.short = x.short
      /\ w.vault[n] = w.at[n] /\ w.byPath[p] = n
      /\ \A m \in Notes \ {n} : w.vault[m] = x.vault[m] /\ w.at[m] = x.at[m]
      /\ \A q \in Paths \ {p} : w.byPath[q] = x.byPath[q] /\ w.files[q] = x.files[q]
  BY <1>1 DEF Created
<1>4. Kept(w) /\ NumberedAre(w, Paths)
  BY DEF Created
<1> QED BY <1>2, <1>3, <1>4 DEF Comes

\* `local_create`
LEMMA LocalCreateIs ==
  ASSUME NEW x \in States, NEW p \in Paths,
         Kept(x), NumberedAre(x, Paths), There(x, p), x.byPath[p] = None
  PROVE  LocalCreate(x, p) \in States /\ Comes(x, p, LocalCreate(x, p))
<1> DEFINE f == x.files[p]
           same == {r \in x.removals : ~ f.new /\ r.id = f.id}
<1>1. f \in Files /\ f # NoFile /\ (f.id # None => f.id \in Notes)
  BY DEF States, Files, There
<1>2. PICK y \in States : y = Seen(x, p) /\ Reads(x, p, y)
  BY SeenIs
<1>3. Kept(y) /\ NumberedAre(y, Paths)
  BY <1>2, KeptReads
<1>4. /\ y.vault = x.vault /\ y.at = x.at /\ y.byPath = x.byPath
      /\ y.removals = x.removals /\ y.short = x.short
      /\ \A q \in Paths \ {p} : y.files[q] = x.files[q]
      /\ y.files[p].new = FALSE
  BY <1>2 DEF Reads, SameNames
<1>5. NumberedAre(y, Paths \ {p})
  BY <1>3 DEF NumberedAre
<1> HIDE DEF f
<1>6. CASE f.id # None /\ x.at[f.id] # None /\ ~ There(x, x.at[f.id])
  <2>1. PICK n \in Notes : n = f.id
    BY <1>1, <1>6
  <2>2. PICK z \in States : z = [y EXCEPT !.removals = {r \in @ : r.id # n}]
    BY DEF States
  <2>3. Drops(y, z) /\ z.short = y.short /\ z.removals = {r \in y.removals : r.id # n}
    BY <2>2 DEF States, Drops
  <2>4. Kept(z) /\ NumberedAre(z, Paths \ {p})
    BY <1>3, <1>5, <2>3, KeptDrops
  <2>5. PICK old \in Paths : old = x.at[n]
    BY <1>6, <2>1 DEF States
  <2>6. old # p
    BY <1>6, <2>1, <2>5
  <2>7. z.at[n] # None /\ z.byPath[p] = None
    BY <1>4, <1>6, <2>1, <2>3 DEF Drops
  <2>8. ~ z.files[z.at[n]].new
    <3>1. z.files[z.at[n]] = x.files[old]
      BY <1>4, <2>3, <2>5, <2>6 DEF Drops
    <3>2. x.files[old] = NoFile
      BY <1>6, <2>1, <2>5 DEF There
    <3> QED BY <3>1, <3>2 DEF NoFile, File
  <2>9. \A r \in z.removals : r.id # n
    BY <2>3
  <2>10. PICK w \in States : w = ApplyLocalRename(z, n, p) /\ Renamed(z, n, p, w)
    BY <2>4, <2>7, <2>8, <2>9, RenameIs
  <2>11. LocalCreate(x, p) = w
    BY <1>2, <1>6, <2>1, <2>2, <2>10 DEF LocalCreate, f
  <2>12. Comes(x, p, w)
    BY <1>2, <1>6, <2>1, <2>3, <2>10, ComesRenamed
  <2> QED BY <2>11, <2>12
<1>7. CASE ~ (f.id # None /\ x.at[f.id] # None /\ ~ There(x, x.at[f.id])) /\ same # {}
  <2>1. PICK r0 \in x.removals : ~ f.new /\ r0.id = f.id
    BY <1>7
  <2>2. PICK n \in Notes : n = f.id /\ n = r0.id
    BY <2>1 DEF States, Removals
  <2>3. PICK old \in Paths : old = r0.path /\ old = x.at[n]
    BY <2>1, <2>2 DEF States, Removals, Kept, RemovalsAre
  <2>4. x.byPath[old] = n /\ old # p /\ x.at[n] # None
    BY <2>3, NamesAssumption DEF Kept, Indexed
  <2>5. PICK z \in States : z = [y EXCEPT !.removals = @ \ same]
    BY DEF States
  <2>6. Drops(y, z) /\ z.short = y.short /\ z.removals = y.removals \ same
    BY <2>5 DEF States, Drops
  <2>7. Kept(z) /\ NumberedAre(z, Paths \ {p})
    BY <1>3, <1>5, <2>6, KeptDrops
  <2>8. z.at[n] # None /\ z.byPath[p] = None
    BY <1>4, <2>4, <2>6 DEF Drops
  <2>9. z.at[n] \in Numbered => ~ z.files[z.at[n]].new
    <3>1. z.at[n] = old /\ z.files[old] = x.files[old]
      BY <1>4, <2>3, <2>4, <2>6 DEF Drops
    <3>2. old \in Numbered => ~ x.files[old].new
      BY <2>1, <2>3 DEF Kept, RemovalsAre
    <3> QED BY <3>1, <3>2
  <2>10. \A r \in z.removals : r.id # n
    BY <1>4, <2>1, <2>2, <2>6
  <2>11. PICK w \in States : w = ApplyLocalRename(z, n, p) /\ Renamed(z, n, p, w)
    BY <2>7, <2>8, <2>9, <2>10, RenameIs
  <2>12. LocalCreate(x, p) = w
    BY <1>2, <1>7, <2>2, <2>5, <2>11 DEF LocalCreate, f
  <2>13. Comes(x, p, w)
    BY <1>2, <2>1, <2>4, <2>6, <2>11, ComesRenamed
  <2> QED BY <2>12, <2>13
<1>8. CASE ~ (f.id # None /\ x.at[f.id] # None /\ ~ There(x, x.at[f.id])) /\ same = {}
  <2>1. CASE f.id # None /\ x.at[f.id] = None
    <3>1. PICK n \in Notes : n = f.id
      BY <1>1, <2>1
    <3>2. PICK w \in States : w = Create(y, n, p) /\ Created(y, n, p, w)
      BY <1>3, <1>4, <1>5, <2>1, <3>1, CreateIs
    <3>3. LocalCreate(x, p) = w
      BY <1>2, <1>8, <2>1, <3>1, <3>2 DEF LocalCreate, f
    <3> QED BY <1>2, <3>2, <3>3, ComesCreated
  <2>2. CASE ~ (f.id # None /\ x.at[f.id] = None) /\ Notes \subseteq x.used
    <3>1. PICK w \in States : w = [x EXCEPT !.short = TRUE]
      BY DEF States
    <3>2. Drops(x, w) /\ w.short
      BY <3>1 DEF States, Drops
    <3>3. LocalCreate(x, p) = w
      BY <1>8, <2>2, <3>1 DEF LocalCreate, f
    <3>4. Kept(w) /\ NumberedAre(w, Paths)
      BY <3>2, KeptDrops
    <3>5. Comes(x, p, w)
      BY <3>2, <3>4 DEF Comes, Drops
    <3> QED BY <3>3, <3>5
  <2>3. CASE ~ (f.id # None /\ x.at[f.id] = None) /\ ~ (Notes \subseteq x.used)
    <3>1. y.used = x.used
      BY <1>2 DEF Reads, SameNames
    <3>2. PICK n \in Notes : n = Fresh(x) /\ x.at[n] = None
      BY <2>3, FreshIs
    <3>3. PICK w \in States : w = Create(y, n, p) /\ Created(y, n, p, w)
      BY <1>3, <1>4, <1>5, <3>2, CreateIs
    <3>4. LocalCreate(x, p) = w
      BY <1>2, <1>8, <2>3, <3>2, <3>3 DEF LocalCreate, f
    <3> QED BY <1>2, <3>3, <3>4, ComesCreated
  <2> QED BY <2>1, <2>2, <2>3
<1> QED BY <1>6, <1>7, <1>8

-----------------------------------------------------------------------------
(* What a handler leaves behind                                            *)

LEMMA SteadyWrites ==
  ASSUME NEW x \in States, NEW y \in States, Steady(x), Writes(x, y)
  PROVE  Steady(y)
BY KeptWrites DEF Steady, Writes, SameNames

LEMMA SteadyDrops ==
  ASSUME NEW x \in States, NEW y \in States, Steady(x), Drops(x, y)
  PROVE  Steady(y)
BY KeptDrops DEF Steady, Drops

LEMMA SteadyComes ==
  ASSUME NEW x \in States, NEW y \in States, NEW p, Steady(x), Comes(x, p, y)
  PROVE  Steady(y)
<1>1. \A n \in Notes : y.vault[n] = y.at[n]
  BY DEF Comes, Steady
<1>2. y.vault = y.at
  BY <1>1 DEF States
<1> QED BY <1>2 DEF Comes, Steady

\* `local_remove`
LEMMA LocalRemoveSteady ==
  ASSUME NEW x \in States, NEW p \in Paths, Steady(x), ~ There(x, p)
  PROVE  LocalRemove(x, p) \in States /\ Steady(LocalRemove(x, p))
<1>1. CASE x.byPath[p] = None
  BY <1>1 DEF LocalRemove
<1>2. CASE x.byPath[p] # None
  <2>1. PICK n \in Notes : n = x.byPath[p] /\ x.at[n] = p
    BY <1>2 DEF States, Steady, Kept, Indexed
  <2>2. PICK y \in States : y = [x EXCEPT !.removals = @ \cup {[path |-> p, id |-> n]}]
    <3>1. x.removals \cup {[path |-> p, id |-> n]} \in SUBSET Removals
      BY DEF States, Removals
    <3> QED BY <3>1 DEF States
  <2>3. /\ y.vault = x.vault /\ y.at = x.at /\ y.byPath = x.byPath /\ y.row = x.row
        /\ y.proj = x.proj /\ y.files = x.files /\ y.used = x.used
        /\ y.removals = x.removals \cup {[path |-> p, id |-> n]}
        /\ (y.erased <=> x.erased) /\ (y.panicked <=> x.panicked)
    BY <2>2 DEF States
  <2>4. ~ x.files[p].new
    BY NewIsThere
  <2>5. RemovalsAre(y)
    BY <2>1, <2>3, <2>4 DEF Steady, Kept, RemovalsAre
  <2>6. Indexed(y) /\ Projections(y) /\ NumberedAre(y, Paths)
    BY <2>3 DEF Steady, Kept, Indexed, Projections, NumberedAre, There
  <2>7. ~ y.erased /\ ~ y.panicked
    BY <2>3 DEF Steady, Kept
  <2>8. Steady(y)
    BY <2>3, <2>5, <2>6, <2>7 DEF Steady, Kept
  <2>9. LocalRemove(x, p) = y
    BY <1>2, <2>1, <2>2 DEF LocalRemove
  <2> QED BY <2>8, <2>9
<1> QED BY <1>1, <1>2

\* `process_path`
LEMMA ProcessPathSteady ==
  ASSUME NEW x \in States, NEW p \in Paths, Steady(x)
  PROVE  ProcessPath(x, p) \in States /\ Steady(ProcessPath(x, p))
<1>1. CASE There(x, p) /\ x.byPath[p] # None
  <2>1. PICK n \in Notes : n = x.byPath[p] /\ x.at[n] = p
    BY <1>1 DEF States, Steady, Kept, Indexed
  <2>2. IsAt(x, n, p)
    BY <2>1 DEF IsAt, Steady, Kept, Indexed
  <2>3. PICK y \in States : y = LocalEdit(x, n, p) /\ TakesIn(x, n, p, y)
    BY <2>2, LocalEditIs
  <2>4. Steady(y)
    BY <2>3, SteadyWrites DEF TakesIn
  <2>5. ProcessPath(x, p) = y
    BY <1>1, <2>1, <2>3 DEF ProcessPath
  <2> QED BY <2>4, <2>5
<1>2. CASE There(x, p) /\ x.byPath[p] = None
  <2>1. PICK y \in States : y = LocalCreate(x, p) /\ Comes(x, p, y)
    BY <1>2, LocalCreateIs DEF Steady
  <2>2. ProcessPath(x, p) = y
    BY <1>2, <2>1 DEF ProcessPath
  <2> QED BY <2>1, <2>2, SteadyComes
<1>3. CASE ~ There(x, p)
  BY <1>3, LocalRemoveSteady DEF ProcessPath
<1> QED BY <1>1, <1>2, <1>3

\* `finalize_removals`, of one that waits.
LEMMA FinalizeSteady ==
  ASSUME NEW x \in States, NEW r \in x.removals, Steady(x)
  PROVE  /\ Finalize(x, r) \in States /\ Steady(Finalize(x, r))
         /\ Finalize(x, r).removals = x.removals \ {r}
<1>1. PICK n \in Notes, p \in Paths : r = [path |-> p, id |-> n] /\ r.id = n /\ r.path = p
  BY DEF States, Removals
<1>2. x.at[n] = p /\ x.byPath[p] = n /\ p # None
  BY <1>1, NamesAssumption DEF Steady, Kept, RemovalsAre, Indexed
<1>3. PICK y \in States : y = [x EXCEPT !.removals = @ \ {r}]
  BY DEF States
<1>4. Drops(x, y) /\ y.removals = x.removals \ {r}
  BY <1>3 DEF States, Drops
<1>5. Steady(y)
  BY <1>4, SteadyDrops
<1>6. CASE There(x, p)
  BY <1>1, <1>3, <1>4, <1>5, <1>6 DEF Finalize
<1>7. CASE ~ There(x, p)
  <2>1. PICK z \in States :
          z = [y EXCEPT !.row = [y.row EXCEPT ![n] = None], !.proj = [y.proj EXCEPT ![n] = None],
                        !.byPath = [y.byPath EXCEPT ![p] = None],
                        !.at = [y.at EXCEPT ![n] = None], !.dirty = y.dirty \ {n},
                        !.vault = [y.vault EXCEPT ![n] = None]]
    <3>1. /\ [y.row EXCEPT ![n] = None] \in [Notes -> Paths \cup {None}]
          /\ [y.proj EXCEPT ![n] = None] \in [Notes -> Paths \cup {None}]
          /\ [y.byPath EXCEPT ![p] = None] \in [Paths -> Notes \cup {None}]
          /\ [y.at EXCEPT ![n] = None] \in [Notes -> Paths \cup {None}]
          /\ [y.vault EXCEPT ![n] = None] \in [Notes -> Paths \cup {None}]
          /\ y.dirty \ {n} \in SUBSET Notes
      BY DEF States
    <3> QED BY <3>1 DEF States
  <2>2. Finalize(x, r) = z
    <3>1. Finalize(x, r) = [Forget(y, n, p) EXCEPT !.vault[n] = None]
      BY <1>1, <1>3, <1>7 DEF Finalize
    <3> QED BY <2>1, <3>1 DEF Forget, States
  <2>3. /\ z.row[n] = None /\ z.proj[n] = None /\ z.byPath[p] = None /\ z.at[n] = None
        /\ z.vault[n] = None
        /\ \A m \in Notes \ {n} : /\ z.row[m] = x.row[m] /\ z.proj[m] = x.proj[m]
                                  /\ z.at[m] = x.at[m] /\ z.vault[m] = x.vault[m]
        /\ \A q \in Paths \ {p} : z.byPath[q] = x.byPath[q]
        /\ z.files = x.files /\ z.used = x.used /\ z.removals = x.removals \ {r}
        /\ (z.erased <=> x.erased) /\ (z.panicked <=> x.panicked)
    BY <1>4, <2>1 DEF States, Drops
  <2>4. Indexed(z)
    <3>1. \A m \in Notes : z.at[m] # None => z.byPath[z.at[m]] = m
      <4> SUFFICES ASSUME NEW m \in Notes \ {n}, z.at[m] # None PROVE z.byPath[z.at[m]] = m
        BY <2>3
      <4>1. x.at[m] # None /\ x.at[m] \in Paths /\ x.byPath[x.at[m]] = m
        BY <2>3 DEF Steady, Kept, Indexed, States
      <4> QED BY <1>2, <2>3, <4>1
    <3>2. \A q \in Paths : z.byPath[q] # None => z.at[z.byPath[q]] = q
      <4> SUFFICES ASSUME NEW q \in Paths \ {p}, z.byPath[q] # None PROVE z.at[z.byPath[q]] = q
        BY <2>3
      <4>1. x.byPath[q] # None /\ x.byPath[q] \in Notes /\ x.at[x.byPath[q]] = q
        BY <2>3 DEF Steady, Kept, Indexed, States
      <4> QED BY <1>2, <2>3, <4>1
    <3>3. z.row = z.at
      <4>1. \A m \in Notes : z.row[m] = z.at[m]
        BY <2>3 DEF Steady, Kept, Indexed
      <4> QED BY <4>1 DEF States
    <3>4. \A m \in Notes : z.at[m] # None => m \in z.used
      BY <2>3 DEF Steady, Kept, Indexed
    <3> QED BY <3>1, <3>2, <3>3, <3>4 DEF Indexed
  <2>5. Projections(z)
    BY <2>3 DEF Steady, Kept, Projections, There
  <2>6. RemovalsAre(z)
    <3> SUFFICES ASSUME NEW s \in x.removals, s # r
                 PROVE  z.at[s.id] = s.path /\ (s.path \in Numbered => ~ z.files[s.path].new)
      BY <2>3 DEF RemovalsAre
    <3>1. s.id \in Notes /\ s.path \in Paths /\ s = [path |-> s.path, id |-> s.id]
      BY DEF States, Removals
    <3>2. x.at[s.id] = s.path /\ (s.path \in Numbered => ~ x.files[s.path].new)
      BY DEF Steady, Kept, RemovalsAre
    <3>3. s.id # n
      BY <1>1, <1>2, <3>1, <3>2
    <3> QED BY <2>3, <3>1, <3>2, <3>3
  <2>7. NumberedAre(z, Paths)
    <3> SUFFICES ASSUME NEW q \in Paths \cap Numbered, z.files[q].new
                 PROVE  z.byPath[q] # None /\ z.proj[z.byPath[q]] = q
      BY DEF NumberedAre
    <3>1. x.files[q].new /\ q # p
      BY <1>7, <2>3, NewIsThere
    <3>2. x.byPath[q] # None /\ x.proj[x.byPath[q]] = q
      BY <3>1 DEF Steady, NumberedAre
    <3>3. x.byPath[q] \in Notes /\ x.byPath[q] # n
      BY <1>2, <3>1, <3>2 DEF States, Steady, Kept, Indexed
    <3> QED BY <2>3, <3>1, <3>2, <3>3
  <2>8. z.vault = z.at
    <3>1. \A m \in Notes : z.vault[m] = z.at[m]
      BY <2>3 DEF Steady
    <3> QED BY <3>1 DEF States
  <2>9. ~ z.erased /\ ~ z.panicked
    BY <2>3 DEF Steady, Kept
  <2>10. Steady(z)
    BY <2>4, <2>5, <2>6, <2>7, <2>8, <2>9 DEF Steady, Kept
  <2> QED BY <2>2, <2>3, <2>10
<1> QED BY <1>6, <1>7

LEMMA FinalizeAllSteady ==
  ASSUME NEW x \in States, Steady(x)
  PROVE  FinalizeAll(x) \in States /\ Steady(FinalizeAll(x))
<1> DEFINE S == x.removals
           J == [s \in SUBSET S |-> {y \in States : Steady(y) /\ S \ s \subseteq y.removals}]
<1>1. IsFiniteSet(S)
  <2> DEFINE f == [r \in S |-> r.id]
  <2>1. \A r \in S : /\ r.id \in Notes /\ r.path = x.at[r.id]
                      /\ r = [path |-> r.path, id |-> r.id]
    BY DEF States, Removals, Steady, Kept, RemovalsAre
  <2>2. f \in [S -> Notes]
    BY <2>1
  <2>3. \A r, t \in S : f[r] = f[t] => r = t
    BY <2>1
  <2>4. f \in Injection(S, Notes)
    BY <2>2, <2>3 DEF Injection, IsInjective
  <2>5. IsFiniteSet(Notes)
    BY NamesAssumption
  <2> HIDE DEF f
  <2> QED BY <2>4, <2>5, FS_Injection
<1>2. x \in J[{}]
  OBVIOUS
<1>3. ASSUME NEW s \in SUBSET S, NEW r \in S \ s, NEW y \in J[s]
      PROVE  Finalize(y, r) \in J[s \cup {r}]
  <2>1. y \in States /\ Steady(y) /\ r \in y.removals /\ S \ s \subseteq y.removals
    OBVIOUS
  <2>2. PICK z \in States : z = Finalize(y, r) /\ Steady(z) /\ z.removals = y.removals \ {r}
    BY <2>1, FinalizeSteady
  <2>3. s \cup {r} \in SUBSET S /\ S \ (s \cup {r}) \subseteq z.removals
    BY <2>1, <2>2
  <2> QED BY <2>2, <2>3
<1>4. S \in SUBSET S
  OBVIOUS
<1>5. Each(Finalize, x, S) \in J[S]
  <2> HIDE DEF S, J
  <2> QED BY <1>1, <1>2, <1>3, EachFinalize
<1>6. FinalizeAll(x) = Each(Finalize, x, S)
  BY DEF FinalizeAll
<1> QED BY <1>4, <1>5, <1>6

\* `project`
LEMMA ProjectSteady ==
  ASSUME NEW x \in States, NEW n \in Notes, Steady(x)
  PROVE  Project(x, n) \in States /\ Steady(Project(x, n))
<1>1. PICK x1 \in States : x1 = [x EXCEPT !.dirty = @ \ {n}]
  BY DEF States
<1>2. Drops(x, x1)
  BY <1>1 DEF States, Drops
<1>3. Steady(x1)
  BY <1>2, SteadyDrops
<1>4. AllAt(x1)
  BY <1>3, KeptTypes DEF Steady
<1>5. PICK y \in States : y = IngestUnsaved(x1, n) /\ Writes(x1, y)
  BY <1>4, IngestIs
<1>6. Steady(y)
  BY <1>3, <1>5, SteadyWrites
<1>7. CASE y.at[n] = None
  BY <1>1, <1>5, <1>6, <1>7 DEF Project
<1>8. CASE y.at[n] # None
  <2>1. PICK p \in Paths : p = y.at[n] /\ x1.at[n] = p /\ p # None
    BY <1>5, <1>8, NamesAssumption DEF States, Writes, SameNames
  <2>2. ~ y.files[p].new
    BY <1>3, <1>5, <2>1, IngestReads DEF Steady
  <2>3. IsAt(y, n, p) /\ y.row[n] = p /\ y.byPath[p] = n
    BY <1>6, <1>8, <2>1 DEF IsAt, Steady, Kept, Indexed
  <2>4. PICK z \in States : z = Write(y, n, p) /\ Wrote(y, n, p, z)
    BY WriteIs
  <2>5. Writes(y, z)
    <3>1. \A q \in Paths : \/ z.files[q] = y.files[q]
                           \/ /\ y.byPath[q] # None /\ z.files[q] = File(y.byPath[q], FALSE)
                              /\ z.proj[y.byPath[q]] = y.at[y.byPath[q]]
      <4>1. y.byPath[p] # None /\ y.at[y.byPath[p]] = p
        BY <2>1, <2>3, NamesAssumption
      <4>2. z.files[p] = File(y.byPath[p], FALSE) /\ z.proj[y.byPath[p]] = p
        BY <2>3, <2>4 DEF Wrote
      <4>3. \A q \in Paths \ {p} : z.files[q] = y.files[q]
        BY <2>4 DEF Wrote
      <4> QED BY <4>1, <4>2, <4>3
    <3>2. \A m \in Notes : z.proj[m] = y.proj[m] \/ (y.at[m] # None /\ z.proj[m] = y.at[m])
      BY <2>1, <2>4 DEF Wrote
    <3>3. SameNames(y, z) /\ (z.erased => y.erased)
      BY <2>2, <2>4 DEF Wrote
    <3> QED BY <3>1, <3>2, <3>3 DEF Writes
  <2>6. Steady(z)
    BY <1>6, <2>5, SteadyWrites
  <2>7. Index(z, n, p) = z
    <3>1. z.row[n] = p
      BY <2>3, <2>5 DEF Writes, SameNames
    <3>2. [z.row EXCEPT ![n] = p] = z.row
      BY <3>1 DEF States
    <3> QED BY <3>2 DEF Index, States
  <2>8. Project(x, n) = z
    BY <1>1, <1>5, <1>8, <2>1, <2>4, <2>7 DEF Project
  <2> QED BY <2>6, <2>8
<1> QED BY <1>7, <1>8

-----------------------------------------------------------------------------
(* `reconcile_vault`                                                        *)

\* Where the vault document puts a note that is elsewhere there is no file but a note's, one at a
\* path of the collision rule, or one still to be taken in.
Unoccupied(x, rest) ==
  \A n \in Notes :
    x.vault[n] # None /\ x.at[n] # x.vault[n] /\ There(x, x.vault[n])
      => x.byPath[x.vault[n]] # None \/ x.vault[n] \in Numbered \cup rest

\* The files of rest are still to be taken in.
Occupied(x, rest) ==
  /\ Kept(x) /\ NumberedAre(x, Paths) /\ x.removals = {}
  /\ \A p \in rest : x.byPath[p] = None /\ There(x, p)
  /\ x.short \/ Unoccupied(x, rest)

LEMMA OccupiedComes ==
  ASSUME NEW x \in States, NEW y \in States, NEW rest \in SUBSET Paths, NEW p \in rest,
         Occupied(x, rest), Comes(x, p, y)
  PROVE  Occupied(y, rest \ {p})
<1>1. /\ Kept(y) /\ NumberedAre(y, Paths) /\ y.removals = {}
      /\ y.short \/ y.byPath[p] # None
      /\ x.short => y.short
  BY DEF Comes, Occupied
<1>2. \A q \in Paths \ {p} : x.byPath[q] = None => y.byPath[q] = None /\ y.files[q] = x.files[q]
  BY DEF Comes
<1>3. \A q \in rest \ {p} : y.byPath[q] = None /\ There(y, q)
  BY <1>2 DEF Occupied, There
<1>4. ASSUME ~ y.short PROVE Unoccupied(y, rest \ {p})
  <2> SUFFICES ASSUME NEW n \in Notes, y.vault[n] # None, y.at[n] # y.vault[n],
                      There(y, y.vault[n]), y.byPath[y.vault[n]] = None
               PROVE  y.vault[n] \in Numbered \cup (rest \ {p})
    BY DEF Unoccupied
  <2>1. x.vault[n] = y.vault[n] /\ x.at[n] = y.at[n]
    BY DEF Comes
  <2>2. PICK q \in Paths : q = y.vault[n]
    BY DEF States
  <2>3. q # p
    BY <1>1, <1>4, <2>2
  <2>4. x.byPath[q] = None
    BY <2>2 DEF Comes, Occupied
  <2>5. There(x, q)
    BY <1>2, <2>2, <2>3, <2>4 DEF There
  <2>6. Unoccupied(x, rest)
    BY <1>1, <1>4 DEF Occupied
  <2>7. q \in Numbered \cup rest
    BY <2>1, <2>2, <2>4, <2>5, <2>6 DEF Unoccupied
  <2> QED BY <2>2, <2>3, <2>7
<1> QED BY <1>1, <1>3, <1>4 DEF Occupied

\* `take_in_occupants`
LEMMA TakeInOccupantsIs ==
  ASSUME NEW x \in States, Kept(x), NumberedAre(x, Paths), x.removals = {}
  PROVE  TakeInOccupants(x) \in States /\ Occupied(TakeInOccupants(x), {})
<1> DEFINE S == Occupants(x)
           J == [s \in SUBSET S |-> {y \in States : Occupied(y, S \ s)}]
<1>1. S \in SUBSET Paths /\ IsFiniteSet(S)
  BY NamesAssumption, FS_Subset DEF Occupants
<1>2. x \in J[{}]
  <2>1. \A p \in S : x.byPath[p] = None /\ There(x, p)
    BY DEF Occupants
  <2>2. Unoccupied(x, S)
    BY DEF Unoccupied, Occupants, States
  <2>3. Occupied(x, S)
    BY <2>1, <2>2 DEF Occupied
  <2> QED BY <2>3
<1>3. ASSUME NEW s \in SUBSET S, NEW p \in S \ s, NEW y \in J[s]
      PROVE  TakeInOccupant(y, p) \in J[s \cup {p}]
  <2>1. y \in States /\ Occupied(y, S \ s) /\ p \in S \ s /\ p \in Paths
    BY <1>1
  <2>2. Kept(y) /\ NumberedAre(y, Paths) /\ y.byPath[p] = None /\ There(y, p)
    BY <2>1 DEF Occupied
  <2>3. PICK z \in States : z = [y EXCEPT !.events = @ \ {p}]
    BY <2>1 DEF States
  <2>4. Drops(y, z) /\ z.short = y.short /\ z.removals = y.removals
    BY <2>1, <2>3 DEF States, Drops
  <2>5. Kept(z) /\ NumberedAre(z, Paths)
    BY <2>1, <2>2, <2>4, KeptDrops
  <2>6. Occupied(z, S \ s)
    BY <2>1, <2>4, <2>5 DEF Occupied, Drops, Unoccupied, There
  <2>7. z.byPath[p] = None /\ There(z, p)
    BY <2>2, <2>4 DEF Drops, There
  <2>8. PICK w \in States : w = LocalCreate(z, p) /\ Comes(z, p, w)
    BY <2>1, <2>5, <2>7, LocalCreateIs
  <2>9. Occupied(w, (S \ s) \ {p})
    BY <1>1, <2>1, <2>6, <2>8, OccupiedComes
  <2>10. TakeInOccupant(y, p) = w
    BY <2>3, <2>8 DEF TakeInOccupant
  <2>11. s \cup {p} \in SUBSET S /\ S \ (s \cup {p}) = (S \ s) \ {p}
    BY <2>1
  <2> QED BY <2>9, <2>10, <2>11
<1>4. S \in SUBSET S /\ S \ S = {}
  OBVIOUS
<1>5. Each(TakeInOccupant, x, S) \in J[S]
  <2> HIDE DEF S, J
  <2> QED BY <1>1, <1>2, <1>3, EachTakeInOccupant
<1>6. TakeInOccupants(x) = Each(TakeInOccupant, x, S)
  BY DEF TakeInOccupants
<1> QED BY <1>4, <1>5, <1>6

\* From x to y, only the vault document changed, and perhaps the run's end.
Resolves(x, y) ==
  /\ y \in States /\ y.at = x.at /\ y.byPath = x.byPath /\ y.row = x.row
  /\ y.proj = x.proj /\ y.files = x.files /\ y.used = x.used /\ y.removals = x.removals
  /\ (y.erased <=> x.erased) /\ (y.panicked <=> x.panicked)

LEMMA KeptResolves ==
  ASSUME NEW x \in States, NEW y \in States, Kept(x), Resolves(x, y)
  PROVE  /\ Kept(y)
         /\ \A P \in SUBSET Paths : NumberedAre(x, P) => NumberedAre(y, P)
<1>1. Indexed(y) /\ Projections(y) /\ RemovalsAre(y)
  BY DEF Resolves, Kept, Indexed, Projections, RemovalsAre, There
<1>2. ~ y.erased /\ ~ y.panicked
  BY DEF Resolves, Kept
<1> QED BY <1>1, <1>2 DEF Kept, Resolves, NumberedAre

\* No two notes at one path of the vault document.
Distinct(x) == \A n, m \in Notes : x.vault[n] # None /\ x.vault[n] = x.vault[m] => n = m

\* What `resolve_collisions` hands on.
Ready(x) ==
  /\ Kept(x) /\ NumberedAre(x, Paths) /\ x.removals = {}
  /\ Distinct(x) /\ Unoccupied(x, {})

\* There is a way to give each of a set's members one of a set that is no smaller.
LEMMA OneToOne ==
  ASSUME NEW S, NEW T, IsFiniteSet(S), IsFiniteSet(T), Cardinality(S) <= Cardinality(T)
  PROVE  \E f \in [S -> T] : \A n, m \in S : f[n] = f[m] => n = m
<1>1. Cardinality(S) \in Nat /\ Cardinality(T) \in Nat
  BY FS_CardinalityType
<1>2. ExistsBijection(S, 1 .. Cardinality(S)) /\ ExistsBijection(1 .. Cardinality(T), T)
  BY FS_CardinalityType, Fun_ExistsBijSymmetric
<1>3. PICK g \in [S -> 1 .. Cardinality(S)] : \A n, m \in S : g[n] = g[m] => n = m
  BY <1>2 DEF ExistsBijection, Bijection, Injection, IsInjective
<1>4. PICK h \in [1 .. Cardinality(T) -> T] :
        \A i, j \in 1 .. Cardinality(T) : h[i] = h[j] => i = j
  BY <1>2 DEF ExistsBijection, Bijection, Injection, IsInjective
<1>5. \A n \in S : g[n] \in 1 .. Cardinality(T)
  BY <1>1, <1>3
<1> DEFINE f == [n \in S |-> h[g[n]]]
<1>6. f \in [S -> T] /\ \A n, m \in S : f[n] = f[m] => n = m
  BY <1>3, <1>4, <1>5
<1> HIDE DEF f
<1> QED BY <1>6

\* The notes `resolve_collisions` leaves where they are do not collide.
LEMMA LosersAre ==
  ASSUME NEW x \in States, NEW n \in Notes \ Losers(x), NEW m \in Notes \ Losers(x),
         x.vault[n] # None, x.vault[n] = x.vault[m]
  PROVE  n = m
<1>1. n \in Nat /\ m \in Nat
  BY NamesAssumption
<1>2. ~ (n < m) /\ ~ (m < n)
  BY DEF Losers
<1> QED BY <1>1, <1>2

\* `resolve_collisions`
LEMMA ResolveIs ==
  ASSUME NEW x \in States, Occupied(x, {})
  PROVE  /\ ResolveCollisions(x) \in States
         /\ ResolveCollisions(x).short \/ Ready(ResolveCollisions(x))
<1> DEFINE lost == Losers(x)
           free == FreePaths(x)
<1>1. CASE lost = {}
  <2>1. ResolveCollisions(x) = x
    BY <1>1 DEF ResolveCollisions
  <2>2. Distinct(x)
    BY <1>1, LosersAre DEF Distinct
  <2> QED BY <2>1, <2>2 DEF Occupied, Ready
<1>2. CASE lost # {} /\ Cardinality(lost) > Cardinality(free)
  <2>1. PICK y \in States : y = [x EXCEPT !.short = TRUE]
    BY DEF States
  <2>2. ResolveCollisions(x) = y
    BY <1>2, <2>1 DEF ResolveCollisions
  <2>3. y.short
    BY <2>1 DEF States
  <2> QED BY <2>2, <2>3
<1>3. CASE lost # {} /\ ~ (Cardinality(lost) > Cardinality(free))
  <2> DEFINE name == CHOOSE f \in [lost -> free] : \A n, m \in lost : f[n] = f[m] => n = m
  <2>1. lost \in SUBSET Notes /\ free \in SUBSET Paths /\ free \in SUBSET Numbered
    BY NamesAssumption DEF Losers, FreePaths
  <2>2. IsFiniteSet(lost) /\ IsFiniteSet(free)
    BY <2>1, NamesAssumption, FS_Subset
  <2>3. Cardinality(lost) <= Cardinality(free)
    BY <1>3, <2>2, FS_CardinalityType
  <2>4. \E f \in [lost -> free] : \A n, m \in lost : f[n] = f[m] => n = m
    <3> HIDE DEF lost, free
    <3> QED BY <2>2, <2>3, OneToOne
  <2>5. name \in [lost -> free] /\ \A n, m \in lost : name[n] = name[m] => n = m
    <3> HIDE DEF lost, free
    <3> QED BY <2>4
  <2> DEFINE to == [n \in Notes |-> IF n \in lost THEN name[n] ELSE x.vault[n]]
  <2>6. ResolveCollisions(x) = [x EXCEPT !.vault = to]
    BY <1>3 DEF ResolveCollisions
  <2> HIDE DEF name, lost, free
  <2>7. to \in [Notes -> Paths \cup {None}]
    BY <2>1, <2>5 DEF States
  <2>8. /\ \A n \in lost : to[n] = name[n] /\ to[n] \in free
        /\ \A n \in Notes \ lost : to[n] = x.vault[n]
    BY <2>1, <2>5
  <2> HIDE DEF to
  <2>9. PICK y \in States : y = [x EXCEPT !.vault = to]
    BY <2>7 DEF States
  <2>10. Resolves(x, y) /\ y.short = x.short /\ y.vault = to
    BY <2>9 DEF States, Resolves
  <2>11. Kept(y) /\ NumberedAre(y, Paths) /\ y.removals = {}
    BY <2>10, KeptResolves DEF Occupied, Resolves
  <2>12. Distinct(y)
    <3> SUFFICES ASSUME NEW n \in Notes, NEW m \in Notes, to[n] # None, to[n] = to[m]
                 PROVE  n = m
      BY <2>10 DEF Distinct
    <3>1. \A i \in Notes \ lost : \A j \in lost : to[i] # to[j]
      BY <2>8 DEF free, FreePaths
    <3>2. CASE n \in lost
      BY <2>5, <2>8, <3>1, <3>2
    <3>3. CASE n \notin lost
      BY <2>8, <3>1, <3>3, LosersAre DEF lost
    <3> QED BY <3>2, <3>3
  <2>13. ASSUME ~ x.short PROVE Unoccupied(y, {})
    <3>1. Unoccupied(x, {})
      BY <2>13 DEF Occupied
    <3> SUFFICES ASSUME NEW n \in Notes, y.vault[n] # None, y.at[n] # y.vault[n],
                        There(y, y.vault[n])
                 PROVE  y.byPath[y.vault[n]] # None \/ y.vault[n] \in Numbered
      BY DEF Unoccupied
    <3>2. CASE n \in lost
      BY <2>1, <2>8, <2>10, <3>2
    <3>3. CASE n \notin lost
      BY <2>8, <2>10, <3>1, <3>3 DEF Unoccupied, Resolves, There
    <3> QED BY <3>2, <3>3
  <2> QED BY <2>6, <2>9, <2>10, <2>11, <2>12, <2>13 DEF Ready
<1> QED BY <1>1, <1>2, <1>3

\* No two notes claim a path, so none is blocked by one that stays.
LEMMA NoneBlocked ==
  ASSUME NEW x \in States, Ready(x), NEW n \in Moving(x) \cup Coming(x)
  PROVE  ~ Blocked(x, n)
<1>1. n \in Notes /\ x.vault[n] # None /\ x.at[n] # x.vault[n]
  BY DEF Moving, Coming
<1> SUFFICES ASSUME NEW m \in Notes, x.byPath[x.vault[n]] = m, m # n
             PROVE  \E i \in Gone(x) \cup Moving(x) : x.at[i] = x.vault[n]
  BY <1>1 DEF Blocked, States
<1>2. x.at[m] = x.vault[n]
  BY <1>1, NamesAssumption DEF Ready, Kept, Indexed, States
<1>3. x.vault[m] # x.vault[n]
  BY <1>1 DEF Ready, Distinct
<1>4. m \in Gone(x) \cup Moving(x)
  BY <1>1, <1>2, <1>3 DEF Gone, Moving
<1> QED BY <1>2, <1>4

\* The files of the notes that go or move hold nothing unread.
Cleared(x) ==
  Ready(x) /\ \A n \in Gone(x) \cup Moving(x) : ~ x.files[x.at[n]].new

LEMMA ReadyWrites ==
  ASSUME NEW x \in States, NEW y \in States, Ready(x), Writes(x, y)
  PROVE  /\ Ready(y)
         /\ Gone(y) = Gone(x) /\ Moving(y) = Moving(x) /\ Coming(y) = Coming(x)
<1>1. y.vault = x.vault /\ y.at = x.at /\ y.byPath = x.byPath /\ y.removals = x.removals
  BY DEF Writes, SameNames
<1>2. Kept(y) /\ NumberedAre(y, Paths)
  BY KeptWrites DEF Ready
<1>3. Distinct(y)
  BY <1>1 DEF Ready, Distinct
<1>4. Unoccupied(y, {})
  <2> SUFFICES ASSUME NEW n \in Notes, x.vault[n] # None, x.at[n] # x.vault[n],
                      There(y, x.vault[n]), x.byPath[x.vault[n]] = None
               PROVE  x.vault[n] \in Numbered
    BY <1>1 DEF Unoccupied
  <2>1. PICK q \in Paths : q = x.vault[n]
    BY DEF States
  <2>2. y.files[q] = x.files[q]
    BY <2>1 DEF Writes
  <2> QED BY <2>1, <2>2 DEF Ready, Unoccupied, There
<1> QED BY <1>1, <1>2, <1>3, <1>4 DEF Ready, Gone, Moving, Coming

LEMMA ClearedIs ==
  ASSUME NEW x \in States, Ready(x)
  PROVE  LET y == Each(IngestUnsaved, x, Gone(x) \cup Moving(x)) IN
         /\ y \in States /\ Cleared(y)
         /\ Gone(y) = Gone(x) /\ Moving(y) = Moving(x) /\ Coming(y) = Coming(x)
<1> DEFINE S == Gone(x) \cup Moving(x)
           J == [s \in SUBSET S |->
                  {y \in States : Writes(x, y) /\ \A n \in s : ~ y.files[x.at[n]].new}]
<1>1. S \in SUBSET Notes /\ IsFiniteSet(S) /\ \A n \in S : x.at[n] # None
  BY NamesAssumption, FS_Subset DEF Gone, Moving
<1>2. x \in J[{}]
  BY WritesNothing
<1>3. ASSUME NEW s \in SUBSET S, NEW n \in S \ s, NEW y \in J[s]
      PROVE  IngestUnsaved(y, n) \in J[s \cup {n}]
  <2>1. y \in States /\ Writes(x, y) /\ (\A m \in s : ~ y.files[x.at[m]].new) /\ n \in Notes
    BY <1>1
  <2>2. Ready(y) /\ y.at = x.at
    BY <2>1, ReadyWrites DEF Writes, SameNames
  <2>3. AllAt(y)
    BY <2>2, KeptTypes DEF Ready
  <2>4. PICK z \in States : z = IngestUnsaved(y, n) /\ Writes(y, z)
    BY <2>1, <2>3, IngestIs
  <2>5. ~ z.files[x.at[n]].new
    BY <1>1, <2>1, <2>2, <2>4, IngestReads DEF Ready
  <2>6. \A m \in s : ~ z.files[x.at[m]].new
    <3> SUFFICES ASSUME NEW m \in s, z.files[x.at[m]].new PROVE FALSE
      OBVIOUS
    <3>1. x.at[m] \in Paths
      BY <1>1 DEF States
    <3>2. ~ y.files[x.at[m]].new
      BY <2>1
    <3>3. z.files[x.at[m]] = File(y.byPath[x.at[m]], FALSE)
      BY <2>4, <3>1, <3>2 DEF Writes
    <3>4. z.files[x.at[m]].new = FALSE
      BY <3>3 DEF File
    <3> QED BY <3>4
  <2>7. Writes(x, z)
    BY <2>1, <2>4, WritesOn
  <2>8. s \cup {n} \in SUBSET S /\ \A m \in s \cup {n} : ~ z.files[x.at[m]].new
    BY <2>5, <2>6
  <2>9. z \in J[s \cup {n}]
    BY <2>7, <2>8
  <2> QED BY <2>4, <2>9
<1>4. S \in SUBSET S
  OBVIOUS
<1>5. Each(IngestUnsaved, x, S) \in J[S]
  <2> HIDE DEF S, J
  <2> QED BY <1>1, <1>2, <1>3, EachIngestUnsaved
<1>6. PICK y \in States : y = Each(IngestUnsaved, x, S) /\ y \in J[S]
  BY <1>4, <1>5
<1>7. Writes(x, y) /\ \A n \in S : ~ y.files[x.at[n]].new
  BY <1>4, <1>6
<1>8. /\ Ready(y) /\ y.at = x.at
      /\ Gone(y) = Gone(x) /\ Moving(y) = Moving(x) /\ Coming(y) = Coming(x)
  BY <1>7, ReadyWrites DEF Writes, SameNames
<1>9. Cleared(y)
  BY <1>7, <1>8 DEF Cleared
<1> QED BY <1>6, <1>8, <1>9

\* At p there is no note, and no file but perhaps one not new at a path of the collision rule.
Vacant(x, p) ==
  x.byPath[p] = None /\ ~ x.files[p].new /\ (There(x, p) => p \in Numbered)

\* The old path of note n is free, from y to z.
Unfiled(y, p, z) ==
  /\ z \in States /\ SameNames(y, z) /\ z.proj = y.proj
  /\ \A q \in Paths \ {p} : z.files[q] = y.files[q]
  /\ ~ z.files[p].new /\ (There(z, p) => p \in Numbered)
  /\ z.erased => y.erased

\* Only a file this replica wrote or read is deleted.
LEMMA UnfiledIs ==
  ASSUME NEW y \in States, NEW n \in Notes, NEW p \in Paths, ~ y.files[p].new,
         y.proj[n] = p \/ (There(y, p) => p \in Numbered)
  PROVE  LET z == IF y.proj[n] = p THEN Put(y, p, NoFile) ELSE y IN
         z \in States /\ Unfiled(y, p, z)
<1>1. CASE y.proj[n] = p
  <2>1. PICK z \in States : z = Put(y, p, NoFile) /\ Puts(y, p, NoFile, z)
    BY FilesAre, PutIs
  <2>2. z.files[p] = NoFile /\ ~ z.files[p].new /\ ~ There(z, p)
    BY <2>1, FilesAre DEF Puts, There
  <2>3. Unfiled(y, p, z)
    BY <2>1, <2>2 DEF Puts, Unfiled
  <2> QED BY <1>1, <2>1, <2>3
<1>2. CASE y.proj[n] # p
  BY <1>2 DEF Unfiled, SameNames
<1> QED BY <1>1, <1>2

\* From x to y, the notes in g were forgotten, and those in m gave up their paths.
Vacated(x, g, m, y) ==
  /\ y \in States
  /\ y.vault = x.vault /\ y.removals = x.removals /\ y.used = x.used /\ y.short = x.short
  /\ ~ y.erased /\ ~ y.panicked
  /\ \A n \in g : y.at[n] = None /\ y.proj[n] = None
  /\ \A n \in Notes \ g : y.at[n] = x.at[n] /\ y.proj[n] = x.proj[n]
  /\ \A n \in g \cup m : y.row[n] = None
  /\ \A n \in Notes \ (g \cup m) : y.row[n] = x.row[n]
  /\ \A p \in Paths : x.byPath[p] \in g \cup m => Vacant(y, p)
  /\ \A p \in Paths :
       x.byPath[p] \notin g \cup m => y.byPath[p] = x.byPath[p] /\ y.files[p] = x.files[p]

LEMMA VacatedNothing ==
  ASSUME NEW x \in States, Cleared(x)
  PROVE  Vacated(x, {}, {}, x)
BY DEF Cleared, Ready, Kept, Vacated

\* A note that goes or moves leaves its path, whose file is deleted if this replica wrote it.
LEMMA VacatesOne ==
  ASSUME NEW x \in States, NEW y \in States, NEW g \in SUBSET Notes, NEW m \in SUBSET Notes,
         NEW n \in (Gone(x) \cup Moving(x)) \ (g \cup m),
         Cleared(x), Vacated(x, g, m, y)
  PROVE  \E p \in Paths : \E z \in States :
           /\ p = x.at[n] /\ p = y.at[n] /\ x.byPath[p] = n /\ y.byPath[p] = n
           /\ z = (IF y.proj[n] = p THEN Put(y, p, NoFile) ELSE y)
           /\ Unfiled(y, p, z)
<1>1. n \in Notes /\ x.at[n] # None
  BY DEF Gone, Moving
<1>2. PICK p \in Paths : p = x.at[n]
  BY <1>1 DEF States
<1>3. x.byPath[p] = n /\ ~ x.files[p].new
  BY <1>1, <1>2 DEF Cleared, Ready, Kept, Indexed
<1>4. y.at[n] = p /\ y.proj[n] = x.proj[n]
  BY <1>1, <1>2 DEF Vacated
<1>5. y.byPath[p] = n /\ y.files[p] = x.files[p]
  BY <1>3 DEF Vacated
<1>6. x.proj[n] = p \/ (There(x, p) => p \in Numbered)
  BY <1>1, <1>2 DEF Cleared, Ready, Kept, Projections
<1>7. y.proj[n] = p \/ (There(y, p) => p \in Numbered)
  BY <1>4, <1>5, <1>6 DEF There
<1>8. ~ y.files[p].new
  BY <1>3, <1>5
<1>9. PICK z \in States : z = (IF y.proj[n] = p THEN Put(y, p, NoFile) ELSE y) /\ Unfiled(y, p, z)
  BY <1>1, <1>7, <1>8, UnfiledIs
<1> QED BY <1>2, <1>3, <1>4, <1>5, <1>9

\* Of a note that is gone.
LEMMA RemoveIs ==
  ASSUME NEW x \in States, NEW y \in States, NEW g \in SUBSET Gone(x), NEW n \in Gone(x) \ g,
         Cleared(x), Vacated(x, g, {}, y)
  PROVE  Remove(y, n) \in States /\ Vacated(x, g \cup {n}, {}, Remove(y, n))
<1>1. n \in Notes /\ g \in SUBSET Notes
  BY DEF Gone
<1>0. PICK m \in SUBSET Notes : m = {}
  OBVIOUS
<1>2. PICK p \in Paths, z \in States :
        /\ p = x.at[n] /\ p = y.at[n] /\ x.byPath[p] = n /\ y.byPath[p] = n
        /\ z = (IF y.proj[n] = p THEN Put(y, p, NoFile) ELSE y)
        /\ Unfiled(y, p, z)
  <2>1. Vacated(x, g, m, y) /\ n \in (Gone(x) \cup Moving(x)) \ (g \cup m)
    BY <1>0
  <2> QED BY <1>1, <2>1, VacatesOne
<1>3. PICK w \in States :
        w = [z EXCEPT !.row = [z.row EXCEPT ![n] = None], !.proj = [z.proj EXCEPT ![n] = None],
                      !.byPath = [z.byPath EXCEPT ![p] = None],
                      !.at = [z.at EXCEPT ![n] = None], !.dirty = z.dirty \ {n}]
  <2>1. /\ [z.row EXCEPT ![n] = None] \in [Notes -> Paths \cup {None}]
        /\ [z.proj EXCEPT ![n] = None] \in [Notes -> Paths \cup {None}]
        /\ [z.byPath EXCEPT ![p] = None] \in [Paths -> Notes \cup {None}]
        /\ [z.at EXCEPT ![n] = None] \in [Notes -> Paths \cup {None}]
        /\ z.dirty \ {n} \in SUBSET Notes
    BY DEF States
  <2> QED BY <2>1 DEF States
<1>4. Remove(y, n) = w
  <2>1. Remove(y, n) = Forget(z, n, p)
    BY <1>2 DEF Remove
  <2> QED BY <1>3, <2>1 DEF Forget, States
<1>5. /\ w.row[n] = None /\ w.proj[n] = None /\ w.byPath[p] = None /\ w.at[n] = None
      /\ \A k \in Notes \ {n} : w.row[k] = z.row[k] /\ w.proj[k] = z.proj[k] /\ w.at[k] = z.at[k]
      /\ \A q \in Paths \ {p} : w.byPath[q] = z.byPath[q]
      /\ w.vault = z.vault /\ w.files = z.files /\ w.used = z.used /\ w.removals = z.removals
      /\ w.short = z.short /\ (w.erased <=> z.erased) /\ (w.panicked <=> z.panicked)
  BY <1>1, <1>3 DEF States
<1>6. /\ \A k \in Notes \ {n} : w.row[k] = y.row[k] /\ w.proj[k] = y.proj[k] /\ w.at[k] = y.at[k]
      /\ \A q \in Paths \ {p} : w.byPath[q] = y.byPath[q] /\ w.files[q] = y.files[q]
      /\ ~ w.files[p].new /\ (There(w, p) => p \in Numbered)
      /\ w.vault = y.vault /\ w.used = y.used /\ w.removals = y.removals /\ w.short = y.short
      /\ (w.erased => y.erased) /\ (w.panicked <=> y.panicked)
  <2>1. /\ z.row = y.row /\ z.at = y.at /\ z.byPath = y.byPath /\ z.proj = y.proj
        /\ z.vault = y.vault /\ z.used = y.used /\ z.removals = y.removals /\ z.short = y.short
        /\ (z.erased => y.erased) /\ z.panicked = y.panicked
    BY <1>2 DEF Unfiled, SameNames
  <2>2. /\ \A q \in Paths \ {p} : z.files[q] = y.files[q]
        /\ ~ z.files[p].new /\ (There(z, p) => p \in Numbered)
    BY <1>2 DEF Unfiled
  <2>3. ~ w.files[p].new /\ (There(w, p) => p \in Numbered)
    BY <1>5, <2>2 DEF There
  <2>4. \A q \in Paths \ {p} : w.byPath[q] = y.byPath[q] /\ w.files[q] = y.files[q]
    BY <1>5, <2>1, <2>2
  <2> QED BY <1>5, <2>1, <2>3, <2>4
<1>7. \A q \in Paths : x.byPath[q] \in g \cup {n} => Vacant(w, q)
  <2> SUFFICES ASSUME NEW q \in Paths, x.byPath[q] \in g \cup {n} PROVE Vacant(w, q)
    OBVIOUS
  <2>1. CASE q = p
    BY <1>5, <1>6, <2>1 DEF Vacant
  <2>2. CASE q # p
    <3>1. x.byPath[q] # n
      BY <1>1, <1>2, <2>2, NamesAssumption DEF Cleared, Ready, Kept, Indexed
    <3>2. Vacant(y, q)
      BY <3>1 DEF Vacated
    <3> QED BY <1>6, <2>2, <3>2 DEF Vacant, There
  <2> QED BY <2>1, <2>2
<1>8. \A q \in Paths :
        x.byPath[q] \notin g \cup {n} => w.byPath[q] = x.byPath[q] /\ w.files[q] = x.files[q]
  BY <1>2, <1>6 DEF Vacated
<1>9. /\ \A k \in g \cup {n} : w.at[k] = None /\ w.proj[k] = None /\ w.row[k] = None
      /\ \A k \in Notes \ (g \cup {n}) :
           w.at[k] = x.at[k] /\ w.proj[k] = x.proj[k] /\ w.row[k] = x.row[k]
  BY <1>1, <1>5, <1>6 DEF Vacated
<1>10. Vacated(x, g \cup {n}, {}, w)
  BY <1>6, <1>7, <1>8, <1>9 DEF Vacated
<1> QED BY <1>4, <1>10

\* Of a note that moves.
LEMMA GiveUpIs ==
  ASSUME NEW x \in States, NEW y \in States, NEW m \in SUBSET Moving(x), NEW n \in Moving(x) \ m,
         Cleared(x), Vacated(x, Gone(x), m, y)
  PROVE  GiveUp(y, n) \in States /\ Vacated(x, Gone(x), m \cup {n}, GiveUp(y, n))
<1> DEFINE g == Gone(x)
<1>1. n \in Notes /\ m \in SUBSET Notes /\ g \in SUBSET Notes /\ n \notin g
  BY DEF Gone, Moving
<1>2. PICK p \in Paths, z \in States :
        /\ p = x.at[n] /\ p = y.at[n] /\ x.byPath[p] = n /\ y.byPath[p] = n
        /\ z = (IF y.proj[n] = p THEN Put(y, p, NoFile) ELSE y)
        /\ Unfiled(y, p, z)
  BY <1>1, VacatesOne
<1> HIDE DEF g
<1>3. PICK w \in States :
        w = [z EXCEPT !.row = [z.row EXCEPT ![n] = None],
                      !.byPath = [z.byPath EXCEPT ![p] = None]]
  <2>1. /\ [z.row EXCEPT ![n] = None] \in [Notes -> Paths \cup {None}]
        /\ [z.byPath EXCEPT ![p] = None] \in [Paths -> Notes \cup {None}]
    BY DEF States
  <2> QED BY <2>1 DEF States
<1>4. GiveUp(y, n) = w
  <2>1. z.byPath[p] = n
    BY <1>2 DEF Unfiled, SameNames
  <2>2. GiveUp(y, n) = [z EXCEPT !.row[n] = None, !.byPath[p] = IF @ = n THEN None ELSE @]
    BY <1>2 DEF GiveUp
  <2> QED BY <1>3, <2>1, <2>2 DEF States
<1>5. /\ w.row[n] = None /\ w.byPath[p] = None
      /\ \A k \in Notes \ {n} : w.row[k] = z.row[k]
      /\ \A q \in Paths \ {p} : w.byPath[q] = z.byPath[q]
      /\ w.at = z.at /\ w.proj = z.proj
      /\ w.vault = z.vault /\ w.files = z.files /\ w.used = z.used /\ w.removals = z.removals
      /\ w.short = z.short /\ (w.erased <=> z.erased) /\ (w.panicked <=> z.panicked)
  BY <1>1, <1>3 DEF States
<1>6. /\ \A k \in Notes \ {n} : w.row[k] = y.row[k]
      /\ w.at = y.at /\ w.proj = y.proj
      /\ \A q \in Paths \ {p} : w.byPath[q] = y.byPath[q] /\ w.files[q] = y.files[q]
      /\ ~ w.files[p].new /\ (There(w, p) => p \in Numbered)
      /\ w.vault = y.vault /\ w.used = y.used /\ w.removals = y.removals /\ w.short = y.short
      /\ (w.erased => y.erased) /\ (w.panicked <=> y.panicked)
  <2>1. /\ z.row = y.row /\ z.at = y.at /\ z.byPath = y.byPath /\ z.proj = y.proj
        /\ z.vault = y.vault /\ z.used = y.used /\ z.removals = y.removals /\ z.short = y.short
        /\ (z.erased => y.erased) /\ z.panicked = y.panicked
    BY <1>2 DEF Unfiled, SameNames
  <2>2. /\ \A q \in Paths \ {p} : z.files[q] = y.files[q]
        /\ ~ z.files[p].new /\ (There(z, p) => p \in Numbered)
    BY <1>2 DEF Unfiled
  <2>3. ~ w.files[p].new /\ (There(w, p) => p \in Numbered)
    BY <1>5, <2>2 DEF There
  <2>4. \A q \in Paths \ {p} : w.byPath[q] = y.byPath[q] /\ w.files[q] = y.files[q]
    BY <1>5, <2>1, <2>2
  <2> QED BY <1>5, <2>1, <2>3, <2>4
<1>7. \A q \in Paths : x.byPath[q] \in g \cup (m \cup {n}) => Vacant(w, q)
  <2> SUFFICES ASSUME NEW q \in Paths, x.byPath[q] \in g \cup (m \cup {n}) PROVE Vacant(w, q)
    OBVIOUS
  <2>1. CASE q = p
    BY <1>5, <1>6, <2>1 DEF Vacant
  <2>2. CASE q # p
    <3>1. x.byPath[q] # n
      BY <1>1, <1>2, <2>2, NamesAssumption DEF Cleared, Ready, Kept, Indexed
    <3>2. Vacant(y, q)
      BY <3>1 DEF Vacated, g
    <3> QED BY <1>6, <2>2, <3>2 DEF Vacant, There
  <2> QED BY <2>1, <2>2
<1>8. \A q \in Paths :
        x.byPath[q] \notin g \cup (m \cup {n}) => w.byPath[q] = x.byPath[q] /\ w.files[q] = x.files[q]
  BY <1>2, <1>6 DEF Vacated, g
<1>9. /\ \A k \in g : w.at[k] = None /\ w.proj[k] = None
      /\ \A k \in Notes \ g : w.at[k] = x.at[k] /\ w.proj[k] = x.proj[k]
      /\ \A k \in g \cup (m \cup {n}) : w.row[k] = None
      /\ \A k \in Notes \ (g \cup (m \cup {n})) : w.row[k] = x.row[k]
  BY <1>1, <1>5, <1>6 DEF Vacated, g
<1>10. Vacated(x, g, m \cup {n}, w)
  BY <1>6, <1>7, <1>8, <1>9 DEF Vacated
<1> QED BY <1>4, <1>10 DEF g

\* The notes that are gone are forgotten, those that move give up their paths.
LEMMA VacatedIs ==
  ASSUME NEW x \in States, Cleared(x)
  PROVE  LET y == Each(GiveUp, Each(Remove, x, Gone(x)), Moving(x)) IN
         y \in States /\ Vacated(x, Gone(x), Moving(x), y)
<1> DEFINE S == Gone(x)
           J == [s \in SUBSET S |-> {y \in States : Vacated(x, s, {}, y)}]
           T == Moving(x)
           K == [s \in SUBSET T |-> {y \in States : Vacated(x, S, s, y)}]
<1>1. IsFiniteSet(S) /\ IsFiniteSet(T)
  BY NamesAssumption, FS_Subset DEF Gone, Moving
<1>2. x \in J[{}]
  BY VacatedNothing
<1>3. ASSUME NEW s \in SUBSET S, NEW n \in S \ s, NEW y \in J[s]
      PROVE  Remove(y, n) \in J[s \cup {n}]
  <2>1. y \in States /\ Vacated(x, s, {}, y)
    OBVIOUS
  <2>2. Remove(y, n) \in States /\ Vacated(x, s \cup {n}, {}, Remove(y, n))
    BY <2>1, RemoveIs
  <2>3. s \cup {n} \in SUBSET S
    OBVIOUS
  <2> QED BY <2>2, <2>3
<1>4. S \in SUBSET S /\ T \in SUBSET T
  OBVIOUS
<1>5. Each(Remove, x, S) \in J[S]
  <2> HIDE DEF S, J
  <2> QED BY <1>1, <1>2, <1>3, EachRemove
<1>6. PICK y \in States : y = Each(Remove, x, S) /\ Vacated(x, S, {}, y)
  BY <1>4, <1>5
<1>7. y \in K[{}]
  BY <1>6
<1>8. ASSUME NEW s \in SUBSET T, NEW n \in T \ s, NEW z \in K[s]
      PROVE  GiveUp(z, n) \in K[s \cup {n}]
  <2>1. z \in States /\ Vacated(x, S, s, z)
    OBVIOUS
  <2>2. GiveUp(z, n) \in States /\ Vacated(x, S, s \cup {n}, GiveUp(z, n))
    BY <2>1, GiveUpIs
  <2>3. s \cup {n} \in SUBSET T
    OBVIOUS
  <2> QED BY <2>2, <2>3
<1>9. Each(GiveUp, y, T) \in K[T]
  <2> HIDE DEF S, T, K
  <2> QED BY <1>1, <1>7, <1>8, EachGiveUp
<1> QED BY <1>4, <1>6, <1>9

\* From x to y, a path no note came to: it was given up, or it is as it was.
Left(x, y, p) ==
  /\ x.byPath[p] \in Gone(x) \cup Moving(x) => Vacant(y, p)
  /\ x.byPath[p] \notin Gone(x) \cup Moving(x)
       => y.byPath[p] = x.byPath[p] /\ y.files[p] = x.files[p]

\* From x to y, all those that move gave up their paths, and the notes in s took their new ones.
Taken(x, s, y) ==
  /\ y \in States
  /\ y.vault = x.vault /\ y.removals = x.removals /\ y.used = x.used /\ y.short = x.short
  /\ ~ y.erased /\ ~ y.panicked
  /\ \A n \in Gone(x) : y.at[n] = None /\ y.proj[n] = None /\ y.row[n] = None
  /\ \A n \in s : /\ y.at[n] = x.vault[n] /\ y.proj[n] = x.vault[n] /\ y.row[n] = x.vault[n]
                  /\ y.byPath[x.vault[n]] = n /\ y.files[x.vault[n]] = File(n, FALSE)
  /\ \A n \in Moving(x) \ s : y.row[n] = None
  /\ \A n \in Notes \ (Gone(x) \cup Moving(x)) :
       y.at[n] = x.at[n] /\ y.proj[n] = x.proj[n] /\ y.row[n] = x.row[n]
  /\ \A p \in Paths : (\A n \in s : x.vault[n] # p) => Left(x, y, p)

LEMMA TakenNone ==
  ASSUME NEW x \in States, NEW y \in States, Vacated(x, Gone(x), Moving(x), y)
  PROVE  Taken(x, {}, y)
BY DEF Vacated, Taken, Left, Gone, Moving

\* Where a note moves to, nothing unread is left, and no row.
LEMMA TargetFree ==
  ASSUME NEW x \in States, NEW y \in States, NEW s \in SUBSET Moving(x), NEW n \in Moving(x) \ s,
         Cleared(x), Taken(x, s, y)
  PROVE  /\ x.vault[n] \in Paths /\ x.vault[n] # None
         /\ \A m \in Notes \ {n} : x.vault[m] # x.vault[n]
         /\ ~ y.files[x.vault[n]].new
         /\ RowFree(y, n, x.vault[n])
<1>1. /\ n \in Notes /\ s \in SUBSET Notes
      /\ x.vault[n] \in Paths /\ x.vault[n] # None /\ x.at[n] # x.vault[n]
  BY DEF Moving, States
<1>2. PICK p \in Paths : p = x.vault[n]
  BY <1>1
<1>3. \A m \in Notes \ {n} : x.vault[m] # p
  BY <1>1, <1>2 DEF Cleared, Ready, Distinct
<1>4. ~ y.files[p].new
  <2> SUFFICES ASSUME y.files[p].new PROVE FALSE
    OBVIOUS
  <2>1. Left(x, y, p)
    BY <1>1, <1>3 DEF Taken
  <2>2. x.byPath[p] \notin Gone(x) \cup Moving(x) /\ y.files[p] = x.files[p]
    BY <2>1 DEF Left, Vacant
  <2>3. x.byPath[p] # None => x.byPath[p] \in Notes /\ x.at[x.byPath[p]] = p
    BY DEF Cleared, Ready, Kept, Indexed, States
  <2>4. x.byPath[p] = None
    <3> SUFFICES ASSUME NEW m \in Notes, m = x.byPath[p], x.at[m] = p PROVE FALSE
      BY <2>3
    <3>1. m # n /\ x.vault[m] = x.at[m]
      BY <1>1, <1>2, <2>2 DEF Gone, Moving
    <3> QED BY <1>3, <3>1
  <2>5. There(x, p)
    BY <2>2, NewIsThere
  <2>6. p \in Numbered
    BY <1>1, <1>2, <2>4, <2>5 DEF Cleared, Ready, Unoccupied
  <2>7. x.byPath[p] # None
    BY <2>2, <2>6 DEF Cleared, Ready, NumberedAre
  <2> QED BY <2>4, <2>7
<1>5. RowFree(y, n, p)
  <2> SUFFICES ASSUME NEW m \in Notes \ {n}, y.row[m] = p PROVE FALSE
    BY DEF RowFree
  <2>1. m \notin Gone(x) /\ m \notin Moving(x) \ s
    BY NamesAssumption DEF Taken
  <2>2. m \notin s
    BY <1>3 DEF Taken
  <2>3. x.row[m] = p
    BY <2>1, <2>2 DEF Taken
  <2>4. x.at[m] = p /\ p # None
    BY <2>3, NamesAssumption DEF Cleared, Ready, Kept, Indexed
  <2>5. x.vault[m] = p
    BY <2>1, <2>2, <2>4 DEF Gone, Moving
  <2> QED BY <1>3, <2>5
<1> QED BY <1>1, <1>2, <1>3, <1>4, <1>5

LEMMA TakeIs ==
  ASSUME NEW x \in States, NEW y \in States, NEW s \in SUBSET Moving(x), NEW n \in Moving(x) \ s,
         Cleared(x), Taken(x, s, y)
  PROVE  Take(y, n) \in States /\ Taken(x, s \cup {n}, Take(y, n))
<1>1. PICK p \in Paths :
        /\ p = x.vault[n] /\ p # None /\ p = y.vault[n]
        /\ \A m \in Notes \ {n} : x.vault[m] # p
        /\ ~ y.files[p].new /\ RowFree(y, n, p)
  <2>1. y.vault[n] = x.vault[n]
    BY DEF Taken
  <2> QED BY <2>1, TargetFree
<1>2. n \in Notes /\ s \in SUBSET Notes /\ n \notin Gone(x)
  BY DEF Gone, Moving
<1>3. PICK z \in States :
        z = [y EXCEPT !.byPath = [y.byPath EXCEPT ![p] = n], !.at = [y.at EXCEPT ![n] = p],
                      !.dirty = y.dirty \ {n}, !.row = [y.row EXCEPT ![n] = p]]
  <2>1. /\ [y.byPath EXCEPT ![p] = n] \in [Paths -> Notes \cup {None}]
        /\ [y.at EXCEPT ![n] = p] \in [Notes -> Paths \cup {None}]
        /\ [y.row EXCEPT ![n] = p] \in [Notes -> Paths \cup {None}]
        /\ y.dirty \ {n} \in SUBSET Notes
    BY <1>2 DEF States
  <2> QED BY <2>1 DEF States
<1>4. PICK w \in States : w = Write(z, n, p) /\ Wrote(z, n, p, w)
  BY <1>2, WriteIs
<1>5. Take(y, n) = w
  <2>2. PICK v \in States : v = [y EXCEPT !.byPath = [y.byPath EXCEPT ![p] = n],
                                          !.at = [y.at EXCEPT ![n] = p],
                                          !.dirty = y.dirty \ {n}]
    <3>1. /\ [y.byPath EXCEPT ![p] = n] \in [Paths -> Notes \cup {None}]
          /\ [y.at EXCEPT ![n] = p] \in [Notes -> Paths \cup {None}]
          /\ y.dirty \ {n} \in SUBSET Notes
      BY <1>2 DEF States
    <3> QED BY <3>1 DEF States
  <2>3. v = [y EXCEPT !.byPath[p] = n, !.at[n] = p, !.dirty = @ \ {n}]
    BY <2>2 DEF States
  <2>4. Take(y, n) = Write(Index(v, n, p), n, p)
    BY <1>1, <2>3 DEF Take
  <2>5. Index(v, n, p) = z
    BY <1>3, <2>2 DEF Index, States
  <2> QED BY <1>4, <2>4, <2>5
<1>6. /\ z.byPath[p] = n /\ z.at[n] = p /\ z.row[n] = p
      /\ \A q \in Paths \ {p} : z.byPath[q] = y.byPath[q]
      /\ \A m \in Notes \ {n} : z.at[m] = y.at[m] /\ z.row[m] = y.row[m]
      /\ z.proj = y.proj /\ z.files = y.files
      /\ z.vault = y.vault /\ z.used = y.used /\ z.removals = y.removals /\ z.short = y.short
      /\ (z.erased <=> y.erased) /\ (z.panicked <=> y.panicked)
  BY <1>2, <1>3 DEF States
<1>7. /\ w.byPath[p] = n /\ w.at[n] = p /\ w.row[n] = p /\ w.proj[n] = p
      /\ w.files[p] = File(n, FALSE)
      /\ \A q \in Paths \ {p} : w.byPath[q] = y.byPath[q] /\ w.files[q] = y.files[q]
      /\ \A m \in Notes \ {n} : w.at[m] = y.at[m] /\ w.row[m] = y.row[m] /\ w.proj[m] = y.proj[m]
      /\ w.vault = y.vault /\ w.used = y.used /\ w.removals = y.removals /\ w.short = y.short
      /\ (w.erased => y.erased) /\ (w.panicked <=> y.panicked)
  <2>1. /\ w.byPath = z.byPath /\ w.at = z.at /\ w.row = z.row /\ w.vault = z.vault
        /\ w.used = z.used /\ w.removals = z.removals /\ w.short = z.short
        /\ w.panicked = z.panicked
    BY <1>4 DEF Wrote, SameNames
  <2>2. /\ w.proj[n] = p /\ w.files[p] = File(n, FALSE)
        /\ \A q \in Paths \ {p} : w.files[q] = z.files[q]
        /\ \A m \in Notes \ {n} : w.proj[m] = z.proj[m]
        /\ w.erased => z.erased \/ z.files[p].new
    BY <1>4 DEF Wrote
  <2>3. ~ z.files[p].new
    BY <1>1, <1>6
  <2>4. \A q \in Paths \ {p} : w.byPath[q] = y.byPath[q] /\ w.files[q] = y.files[q]
    BY <1>6, <2>1, <2>2
  <2>5. \A m \in Notes \ {n} :
          w.at[m] = y.at[m] /\ w.row[m] = y.row[m] /\ w.proj[m] = y.proj[m]
    BY <1>6, <2>1, <2>2
  <2> QED BY <1>6, <2>1, <2>2, <2>3, <2>4, <2>5
<1>8. \A m \in s : x.vault[m] \in Paths \ {p}
  BY <1>1, <1>2 DEF Moving, States
<1>9. ASSUME NEW m \in s \cup {n}
      PROVE  /\ w.at[m] = x.vault[m] /\ w.proj[m] = x.vault[m] /\ w.row[m] = x.vault[m]
             /\ w.byPath[x.vault[m]] = m
             /\ w.files[x.vault[m]] = File(m, FALSE)
  <2>1. CASE m = n
    BY <1>1, <1>7, <2>1
  <2>2. CASE m # n
    <3>1. m \in s /\ m \in Notes \ {n} /\ x.vault[m] \in Paths \ {p}
      BY <1>2, <1>8, <2>2
    <3>2. /\ y.at[m] = x.vault[m] /\ y.proj[m] = x.vault[m] /\ y.row[m] = x.vault[m]
          /\ y.byPath[x.vault[m]] = m /\ y.files[x.vault[m]] = File(m, FALSE)
      BY <3>1 DEF Taken
    <3> QED BY <1>7, <3>1, <3>2
  <2> QED BY <2>1, <2>2
<1>10. \A q \in Paths : (\A m \in s \cup {n} : x.vault[m] # q) => Left(x, w, q)
  <2> SUFFICES ASSUME NEW q \in Paths, \A m \in s \cup {n} : x.vault[m] # q PROVE Left(x, w, q)
    OBVIOUS
  <2>1. q # p
    BY <1>1
  <2>2. Left(x, y, q)
    BY DEF Taken
  <2> QED BY <1>7, <2>1, <2>2 DEF Left, Vacant, There
<1>11. /\ \A m \in Gone(x) : w.at[m] = None /\ w.proj[m] = None /\ w.row[m] = None
       /\ \A m \in Moving(x) \ (s \cup {n}) : w.row[m] = None
       /\ \A m \in Notes \ (Gone(x) \cup Moving(x)) :
            w.at[m] = x.at[m] /\ w.proj[m] = x.proj[m] /\ w.row[m] = x.row[m]
  <2>1. \A m \in Gone(x) \cup Moving(x) : m \in Notes
    BY DEF Gone, Moving
  <2> QED BY <1>2, <1>7, <2>1 DEF Taken
<1>12. Taken(x, s \cup {n}, w)
  BY <1>7, <1>9, <1>10, <1>11 DEF Taken
<1> QED BY <1>5, <1>12

LEMMA TakenIs ==
  ASSUME NEW x \in States, NEW y \in States, Cleared(x), Vacated(x, Gone(x), Moving(x), y)
  PROVE  LET z == Each(Take, y, Moving(x)) IN z \in States /\ Taken(x, Moving(x), z)
<1> DEFINE S == Moving(x)
           J == [s \in SUBSET S |-> {z \in States : Taken(x, s, z)}]
<1>1. IsFiniteSet(S)
  BY NamesAssumption, FS_Subset DEF Moving
<1>2. y \in J[{}]
  BY TakenNone
<1>3. ASSUME NEW s \in SUBSET S, NEW n \in S \ s, NEW z \in J[s]
      PROVE  Take(z, n) \in J[s \cup {n}]
  <2>1. z \in States /\ Taken(x, s, z)
    OBVIOUS
  <2>2. Take(z, n) \in States /\ Taken(x, s \cup {n}, Take(z, n))
    BY <2>1, TakeIs
  <2>3. s \cup {n} \in SUBSET S
    OBVIOUS
  <2> QED BY <2>2, <2>3
<1>4. S \in SUBSET S
  OBVIOUS
<1>5. Each(Take, y, S) \in J[S]
  <2> HIDE DEF S, J
  <2> QED BY <1>1, <1>2, <1>3, EachTake
<1> QED BY <1>4, <1>5

\* All notes but those in rest are where the vault document puts them, and these can come.
Adopting(x, rest) ==
  /\ Kept(x) /\ NumberedAre(x, Paths) /\ x.removals = {} /\ Distinct(x)
  /\ \A n \in Notes \ rest : x.at[n] = x.vault[n]
  /\ \A n \in rest : /\ x.at[n] = None /\ x.vault[n] # None /\ x.byPath[x.vault[n]] = None
                     /\ There(x, x.vault[n]) => x.vault[n] \in Numbered

LEMMA TakenAdopting ==
  ASSUME NEW x \in States, NEW y \in States, Cleared(x), Taken(x, Moving(x), y)
  PROVE  Adopting(y, Coming(x))
<1> DEFINE g == Gone(x)
           m == Moving(x)
<1>1. /\ y.vault = x.vault /\ y.removals = x.removals /\ y.used = x.used
      /\ ~ y.erased /\ ~ y.panicked
  BY DEF Taken
<1>2. /\ \A n \in g : n \in Notes /\ x.at[n] # None /\ x.vault[n] = None
      /\ \A n \in m : n \in Notes /\ x.at[n] # None /\ x.vault[n] # None /\ x.vault[n] # x.at[n]
      /\ \A n \in Notes \ (g \cup m) : x.at[n] = None \/ x.vault[n] = x.at[n]
  BY DEF Gone, Moving
<1>3. \A n \in g : y.at[n] = None /\ y.proj[n] = None /\ y.row[n] = None
  BY DEF Taken
<1>4. \A n \in m : /\ y.at[n] = x.vault[n] /\ y.proj[n] = x.vault[n] /\ y.row[n] = x.vault[n]
                   /\ y.byPath[x.vault[n]] = n /\ y.files[x.vault[n]] = File(n, FALSE)
  BY DEF Taken
<1>5. \A n \in Notes \ (g \cup m) :
        y.at[n] = x.at[n] /\ y.proj[n] = x.proj[n] /\ y.row[n] = x.row[n]
  BY DEF Taken
<1>6. \A p \in Paths : (\A n \in m : x.vault[n] # p) => Left(x, y, p)
  BY DEF Taken
<1>7. /\ Indexed(x) /\ Projections(x) /\ NumberedAre(x, Paths) /\ x.removals = {} /\ Distinct(x)
      /\ Unoccupied(x, {})
  BY DEF Cleared, Ready, Kept
<1> HIDE DEF g, m
\* A note that stays is the only one at its path.
<1>8. ASSUME NEW n \in Notes \ (g \cup m), x.at[n] # None
      PROVE  /\ x.at[n] \in Paths /\ x.byPath[x.at[n]] = n
             /\ Left(x, y, x.at[n])
             /\ y.byPath[x.at[n]] = n /\ y.files[x.at[n]] = x.files[x.at[n]]
  <2>1. PICK p \in Paths : p = x.at[n] /\ p = x.vault[n] /\ x.byPath[p] = n
    BY <1>2, <1>7, <1>8 DEF Indexed, States
  <2>2. \A k \in m : x.vault[k] # p
    BY <1>2, <1>7, <1>8, <2>1 DEF Distinct
  <2>3. Left(x, y, p)
    BY <1>6, <2>2
  <2>4. y.byPath[p] = n /\ y.files[p] = x.files[p]
    BY <2>1, <2>3 DEF Left, g, m
  <2> QED BY <2>1, <2>3, <2>4
<1>9. Indexed(y)
  <2>1. ASSUME NEW n \in Notes, y.at[n] # None PROVE y.byPath[y.at[n]] = n
    <3>1. CASE n \in m
      BY <1>4, <3>1
    <3>2. CASE n \notin m
      BY <1>3, <1>5, <1>8, <2>1, <3>2
    <3> QED BY <3>1, <3>2
  <2>2. ASSUME NEW p \in Paths, y.byPath[p] # None PROVE y.at[y.byPath[p]] = p
    <3>1. CASE \E n \in m : x.vault[n] = p
      BY <1>4, <3>1
    <3>2. CASE \A n \in m : x.vault[n] # p
      <4>1. Left(x, y, p)
        BY <1>6, <3>2
      <4>2. x.byPath[p] \notin g \cup m /\ y.byPath[p] = x.byPath[p]
        BY <2>2, <4>1 DEF Left, Vacant, g, m
      <4>3. x.byPath[p] \in Notes /\ x.at[x.byPath[p]] = p
        BY <1>7, <2>2, <4>2 DEF States, Indexed
      <4> QED BY <1>5, <4>2, <4>3
    <3> QED BY <3>1, <3>2
  <2>3. y.row = y.at
    <3>1. \A n \in Notes : y.row[n] = y.at[n]
      <4> TAKE n \in Notes
      <4>1. x.row[n] = x.at[n]
        BY <1>7 DEF Indexed
      <4>2. CASE n \in g
        BY <1>3, <4>2
      <4>3. CASE n \in m
        BY <1>4, <4>3
      <4>4. CASE n \notin g \cup m
        BY <1>5, <4>1, <4>4
      <4> QED BY <4>2, <4>3, <4>4
    <3> QED BY <3>1 DEF States
  <2>4. ASSUME NEW n \in Notes, y.at[n] # None PROVE n \in y.used
    <3>1. x.at[n] # None
      BY <1>2, <1>3, <1>5, <2>4
    <3> QED BY <1>1, <1>7, <3>1 DEF Indexed
  <2> QED BY <2>1, <2>2, <2>3, <2>4 DEF Indexed
<1>10. Projections(y)
  <2> SUFFICES ASSUME NEW n \in Notes
               PROVE  /\ y.proj[n] \in {None, y.at[n]}
                      /\ y.at[n] # None /\ y.proj[n] = None
                           => y.at[n] \in Numbered \/ ~ There(y, y.at[n])
    BY DEF Projections
  <2>1. CASE n \in g
    BY <1>3, <2>1
  <2>2. CASE n \in m
    BY <1>4, <2>2
  <2>3. CASE n \notin g \cup m
    <3>1. y.at[n] = x.at[n] /\ y.proj[n] = x.proj[n]
      BY <1>5, <2>3
    <3>2. x.at[n] # None => y.files[x.at[n]] = x.files[x.at[n]]
      BY <1>8, <2>3
    <3> QED BY <1>7, <3>1, <3>2 DEF Projections, There
  <2> QED BY <2>1, <2>2, <2>3
<1>11. NumberedAre(y, Paths)
  <2> SUFFICES ASSUME NEW p \in Paths \cap Numbered, y.files[p].new
               PROVE  y.byPath[p] # None /\ y.proj[y.byPath[p]] = p
    BY DEF NumberedAre
  <2>1. \A n \in m : x.vault[n] # p
    <3> SUFFICES ASSUME NEW n \in m, x.vault[n] = p PROVE FALSE
      OBVIOUS
    <3>1. y.files[p] = File(n, FALSE)
      BY <1>4
    <3> QED BY <3>1 DEF File
  <2>2. Left(x, y, p)
    BY <1>6, <2>1
  <2>3. /\ x.byPath[p] \notin g \cup m
        /\ y.byPath[p] = x.byPath[p] /\ y.files[p] = x.files[p]
    BY <2>2 DEF Left, Vacant, g, m
  <2>4. x.byPath[p] # None /\ x.proj[x.byPath[p]] = p
    BY <1>7, <2>3 DEF NumberedAre
  <2>5. x.byPath[p] \in Notes
    BY <2>4 DEF States
  <2> QED BY <1>5, <2>3, <2>4, <2>5
<1>12. Kept(y) /\ y.removals = {}
  BY <1>1, <1>7, <1>9, <1>10 DEF Kept, RemovalsAre
<1>13. Distinct(y)
  BY <1>1, <1>7 DEF Distinct
<1>14. \A n \in Notes \ Coming(x) : y.at[n] = y.vault[n]
  <2> SUFFICES ASSUME NEW n \in Notes \ Coming(x) PROVE y.at[n] = x.vault[n]
    BY <1>1
  <2>1. x.at[n] # None \/ x.vault[n] = None
    BY DEF Coming
  <2> QED BY <1>2, <1>3, <1>4, <1>5, <2>1
<1>15. ASSUME NEW n \in Coming(x)
       PROVE  /\ y.at[n] = None /\ y.vault[n] # None /\ y.byPath[y.vault[n]] = None
              /\ There(y, y.vault[n]) => y.vault[n] \in Numbered
  <2>1. n \in Notes /\ x.at[n] = None /\ x.vault[n] # None
    BY DEF Coming
  <2>2. PICK p \in Paths : p = x.vault[n]
    BY <2>1 DEF States
  <2>3. n \notin g \cup m
    BY <1>2, <2>1
  <2>4. Left(x, y, p)
    BY <1>2, <1>6, <1>7, <2>1, <2>2, <2>3 DEF Distinct
  <2>5. CASE x.byPath[p] \in g \cup m
    <3>1. Vacant(y, p)
      BY <2>4, <2>5 DEF Left, g, m
    <3> QED BY <1>1, <1>5, <2>1, <2>2, <2>3, <3>1 DEF Vacant
  <2>6. CASE x.byPath[p] \notin g \cup m
    <3>1. y.byPath[p] = x.byPath[p] /\ y.files[p] = x.files[p]
      BY <2>4, <2>6 DEF Left, g, m
    <3>2. x.byPath[p] = None
      <4> SUFFICES ASSUME NEW k \in Notes, k = x.byPath[p] PROVE FALSE
        BY DEF States
      <4>1. x.at[k] = p
        BY <1>7, NamesAssumption DEF Indexed
      <4>2. x.vault[k] = p
        BY <1>2, <2>1, <2>2, <2>6, <4>1
      <4>3. k = n
        BY <1>7, <2>1, <2>2, <4>2 DEF Distinct
      <4> QED BY <2>1, <2>2, <4>1, <4>3
    <3>3. There(x, p) => p \in Numbered
      BY <1>7, <2>1, <2>2, <3>2 DEF Unoccupied
    <3>4. There(y, p) => p \in Numbered
      BY <3>1, <3>3 DEF There
    <3> QED BY <1>1, <1>5, <2>1, <2>2, <2>3, <3>1, <3>2, <3>4
  <2> QED BY <2>5, <2>6
<1> QED BY <1>11, <1>12, <1>13, <1>14, <1>15 DEF Adopting

LEMMA AdoptingWrites ==
  ASSUME NEW x \in States, NEW y \in States, NEW rest \in SUBSET Notes,
         Adopting(x, rest), Writes(x, y)
  PROVE  Adopting(y, rest)
<1>1. y.vault = x.vault /\ y.at = x.at /\ y.byPath = x.byPath /\ y.removals = x.removals
  BY DEF Writes, SameNames
<1>2. Kept(y) /\ NumberedAre(y, Paths)
  BY KeptWrites DEF Adopting
<1>3. Distinct(y)
  BY <1>1 DEF Adopting, Distinct
<1>4. ASSUME NEW n \in rest, There(y, y.vault[n]) PROVE y.vault[n] \in Numbered
  <2>1. PICK p \in Paths : p = x.vault[n] /\ x.byPath[p] = None
    BY DEF Adopting, States
  <2>2. y.files[p] = x.files[p]
    BY <2>1 DEF Writes
  <2> QED BY <1>1, <1>4, <2>1, <2>2 DEF Adopting, There
<1> QED BY <1>1, <1>2, <1>3, <1>4 DEF Adopting

\* From x to y, note n came to p, to be written there.
Placed(x, n, p, y) ==
  /\ y \in States
  /\ y.row[n] = p /\ y.byPath[p] = n /\ y.at[n] = p
  /\ \A m \in Notes \ {n} : y.at[m] = x.at[m] /\ y.row[m] = x.row[m]
  /\ \A q \in Paths \ {p} : y.byPath[q] = x.byPath[q]
  /\ y.proj = x.proj /\ y.files = x.files
  /\ y.used = x.used \cup {n} /\ y.removals = x.removals
  /\ (y.erased <=> x.erased) /\ (y.panicked <=> x.panicked)

LEMMA PlacedKept ==
  ASSUME NEW x \in States, NEW y \in States, NEW n \in Notes, NEW p \in Paths,
         Kept(x), NumberedAre(x, Paths), x.at[n] = None, x.byPath[p] = None,
         There(x, p) => p \in Numbered, Placed(x, n, p, y)
  PROVE  Kept(y) /\ NumberedAre(y, Paths)
<1>1. /\ y.row[n] = p /\ y.byPath[p] = n /\ y.at[n] = p
      /\ \A m \in Notes \ {n} : y.at[m] = x.at[m] /\ y.row[m] = x.row[m]
      /\ \A q \in Paths \ {p} : y.byPath[q] = x.byPath[q]
      /\ y.proj = x.proj /\ y.files = x.files
      /\ y.used = x.used \cup {n} /\ y.removals = x.removals
  BY DEF Placed
<1>2. Indexed(x) /\ Projections(x) /\ RemovalsAre(x)
  BY DEF Kept
<1>3. Indexed(y)
  <2>1. ASSUME NEW m \in Notes \ {n}, y.at[m] # None PROVE y.byPath[y.at[m]] = m
    <3>1. x.at[m] # None /\ x.at[m] \in Paths /\ x.byPath[x.at[m]] = m
      BY <1>1, <1>2, <2>1 DEF Indexed, States
    <3>2. x.at[m] # p
      BY <3>1, NamesAssumption
    <3> QED BY <1>1, <3>1, <3>2
  <2>2. ASSUME NEW q \in Paths \ {p}, y.byPath[q] # None PROVE y.at[y.byPath[q]] = q
    <3>1. x.byPath[q] # None /\ x.byPath[q] \in Notes /\ x.at[x.byPath[q]] = q
      BY <1>1, <1>2, <2>2 DEF Indexed, States
    <3>2. x.byPath[q] # n
      BY <3>1, NamesAssumption
    <3> QED BY <1>1, <3>1, <3>2
  <2>3. y.row = y.at
    <3>1. \A m \in Notes : y.row[m] = y.at[m]
      BY <1>1, <1>2 DEF Indexed
    <3> QED BY <3>1 DEF States
  <2>4. \A m \in Notes : y.at[m] # None => m \in y.used
    BY <1>1, <1>2 DEF Indexed
  <2> QED BY <1>1, <2>1, <2>2, <2>3, <2>4 DEF Indexed
<1>4. Projections(y)
  <2> SUFFICES ASSUME NEW m \in Notes
               PROVE  /\ y.proj[m] \in {None, y.at[m]}
                      /\ y.at[m] # None /\ y.proj[m] = None
                           => y.at[m] \in Numbered \/ ~ There(y, y.at[m])
    BY DEF Projections
  <2>1. CASE m = n
    <3>1. x.proj[n] = None
      BY <1>2 DEF Projections
    <3> QED BY <1>1, <2>1, <3>1 DEF There
  <2>2. CASE m # n
    BY <1>1, <1>2, <2>2 DEF Projections, There
  <2> QED BY <2>1, <2>2
<1>5. RemovalsAre(y)
  <2> SUFFICES ASSUME NEW r \in x.removals
               PROVE  y.at[r.id] = r.path /\ (r.path \in Numbered => ~ y.files[r.path].new)
    BY <1>1 DEF RemovalsAre
  <2>1. /\ r.path \in Paths /\ r.id \in Notes /\ x.at[r.id] = r.path
        /\ r.path \in Numbered => ~ x.files[r.path].new
    BY <1>2 DEF RemovalsAre, States, Removals
  <2>2. r.id # n
    BY <2>1, NamesAssumption
  <2> QED BY <1>1, <2>1, <2>2
<1>6. NumberedAre(y, Paths)
  <2> SUFFICES ASSUME NEW q \in Paths \cap Numbered, x.files[q].new
               PROVE  y.byPath[q] # None /\ x.proj[y.byPath[q]] = q
    BY <1>1 DEF NumberedAre
  <2>1. x.byPath[q] # None /\ x.proj[x.byPath[q]] = q
    BY DEF NumberedAre
  <2>2. q # p
    BY <2>1
  <2> QED BY <1>1, <2>1, <2>2
<1>7. ~ y.erased /\ ~ y.panicked
  BY DEF Placed, Kept
<1> QED BY <1>3, <1>4, <1>5, <1>6, <1>7 DEF Kept

\* A note new to this replica comes.
LEMMA AdoptIs ==
  ASSUME NEW x \in States, NEW rest \in SUBSET Notes, NEW n \in rest, Adopting(x, rest)
  PROVE  Adopt(x, n) \in States /\ Adopting(Adopt(x, n), rest \ {n})
<1>1. PICK p \in Paths :
        /\ p = x.vault[n] /\ p # None /\ x.byPath[p] = None
        /\ There(x, p) => p \in Numbered
  BY DEF Adopting, States
<1>2. n \in Notes /\ x.at[n] = None /\ Kept(x) /\ NumberedAre(x, Paths) /\ Distinct(x)
  BY DEF Adopting
<1>3. RowFree(x, n, p)
  BY <1>1, <1>2, NamesAssumption DEF RowFree, Kept, Indexed
<1>4. PICK y \in States :
        y = [x EXCEPT !.row = [x.row EXCEPT ![n] = p], !.byPath = [x.byPath EXCEPT ![p] = n],
                      !.at = [x.at EXCEPT ![n] = p], !.dirty = x.dirty \cup {n},
                      !.used = x.used \cup {n}]
  <2>1. /\ [x.byPath EXCEPT ![p] = n] \in [Paths -> Notes \cup {None}]
        /\ [x.at EXCEPT ![n] = p] \in [Notes -> Paths \cup {None}]
        /\ [x.row EXCEPT ![n] = p] \in [Notes -> Paths \cup {None}]
        /\ x.dirty \cup {n} \in SUBSET Notes /\ x.used \cup {n} \in SUBSET Notes
    BY <1>2 DEF States
  <2> QED BY <2>1 DEF States
<1>5. Adopt(x, n) = y
  <2>1. Adopt(x, n) =
          [Index(x, n, p) EXCEPT !.byPath[p] = n, !.at[n] = p, !.dirty = @ \cup {n},
                                 !.used = @ \cup {n}]
    BY <1>1, <1>3 DEF Adopt
  <2> QED BY <1>4, <2>1 DEF Index, States
<1>6. Placed(x, n, p, y) /\ y.vault = x.vault
  BY <1>2, <1>4 DEF States, Placed
<1>7. Kept(y) /\ NumberedAre(y, Paths)
  BY <1>1, <1>2, <1>6, PlacedKept
<1>8. /\ y.at[n] = p /\ y.files = x.files /\ y.removals = {}
      /\ \A m \in Notes \ {n} : y.at[m] = x.at[m]
      /\ \A q \in Paths \ {p} : y.byPath[q] = x.byPath[q]
  BY <1>6 DEF Placed, Adopting
<1>9. Distinct(y)
  BY <1>2, <1>6 DEF Distinct
<1>10. \A m \in Notes \ (rest \ {n}) : y.at[m] = y.vault[m]
  BY <1>1, <1>6, <1>8 DEF Adopting
<1>11. ASSUME NEW m \in rest \ {n}
       PROVE  /\ y.at[m] = None /\ y.vault[m] # None /\ y.byPath[y.vault[m]] = None
              /\ There(y, y.vault[m]) => y.vault[m] \in Numbered
  <2>1. PICK q \in Paths : /\ q = x.vault[m] /\ q # None /\ x.byPath[q] = None /\ x.at[m] = None
                           /\ There(x, q) => q \in Numbered
    BY DEF Adopting, States
  <2>2. q # p
    BY <1>1, <1>2, <2>1 DEF Distinct
  <2> QED BY <1>6, <1>8, <2>1, <2>2 DEF There
<1>12. Adopting(y, rest \ {n})
  BY <1>7, <1>8, <1>9, <1>10, <1>11 DEF Adopting
<1> QED BY <1>5, <1>12

\* The links to the notes that moved are rewritten, and the new notes come.
LEMMA AdoptedSteady ==
  ASSUME NEW x \in States, NEW S \in SUBSET Notes, NEW T \in SUBSET Notes, Adopting(x, T)
  PROVE  LET y == Each(Adopt, Each(RewriteLinks, x, S), T) IN y \in States /\ Steady(y)
<1> DEFINE J == [s \in SUBSET S |-> {y \in States : Writes(x, y)}]
           K == [s \in SUBSET T |-> {y \in States : Adopting(y, T \ s)}]
<1>1. IsFiniteSet(S) /\ IsFiniteSet(T)
  BY NamesAssumption, FS_Subset
<1>2. x \in J[{}]
  BY WritesNothing
<1>3. ASSUME NEW s \in SUBSET S, NEW n \in S \ s, NEW y \in J[s]
      PROVE  RewriteLinks(y, n) \in J[s \cup {n}]
  <2>1. y \in States /\ Writes(x, y) /\ s \cup {n} \in SUBSET S
    OBVIOUS
  <2>2. AllAt(y)
    BY <2>1, KeptTypes, AllAtWrites DEF Adopting
  <2>3. RewriteLinks(y, n) \in States /\ Writes(y, RewriteLinks(y, n))
    BY <2>1, <2>2, RewriteLinksIs
  <2>4. Writes(x, RewriteLinks(y, n))
    BY <2>1, <2>3, WritesOn
  <2> QED BY <2>1, <2>3, <2>4
<1>4. S \in SUBSET S /\ T \in SUBSET T /\ T \ T = {} /\ T \ {} = T
  OBVIOUS
<1>5. Each(RewriteLinks, x, S) \in J[S]
  <2> HIDE DEF J
  <2> QED BY <1>1, <1>2, <1>3, EachRewriteLinks
<1>6. PICK y \in States : y = Each(RewriteLinks, x, S) /\ Writes(x, y)
  BY <1>4, <1>5
<1>7. y \in K[{}]
  BY <1>4, <1>6, AdoptingWrites
<1>8. ASSUME NEW s \in SUBSET T, NEW n \in T \ s, NEW z \in K[s]
      PROVE  Adopt(z, n) \in K[s \cup {n}]
  <2>1. z \in States /\ Adopting(z, T \ s) /\ n \in T \ s /\ T \ s \in SUBSET Notes
    OBVIOUS
  <2>2. Adopt(z, n) \in States /\ Adopting(Adopt(z, n), (T \ s) \ {n})
    BY <2>1, AdoptIs
  <2>3. s \cup {n} \in SUBSET T /\ T \ (s \cup {n}) = (T \ s) \ {n}
    OBVIOUS
  <2> QED BY <2>2, <2>3
<1>9. Each(Adopt, y, T) \in K[T]
  <2> HIDE DEF K
  <2> QED BY <1>1, <1>7, <1>8, EachAdopt
<1>10. PICK z \in States : z = Each(Adopt, y, T) /\ Adopting(z, {})
  BY <1>4, <1>9
<1>11. Steady(z)
  <2>1. \A n \in Notes : z.at[n] = z.vault[n]
    BY <1>10 DEF Adopting
  <2>2. z.vault = z.at
    BY <2>1 DEF States
  <2> QED BY <1>10, <2>2 DEF Steady, Adopting
<1> QED BY <1>6, <1>10, <1>11

\* `reconcile_vault`
LEMMA ReconcileIs ==
  ASSUME NEW x \in States, Kept(x), NumberedAre(x, Paths), x.removals = {}
  PROVE  /\ ReconcileVault(x) \in States
         /\ ReconcileVault(x).short \/ Steady(ReconcileVault(x))
<1>1. PICK t \in States : t = TakeInOccupants(x) /\ Occupied(t, {})
  BY TakeInOccupantsIs
<1>2. PICK a \in States : a = ResolveCollisions(t) /\ (a.short \/ Ready(a))
  BY <1>1, ResolveIs
<1> DEFINE moving == {n \in Moving(a) : ~ Blocked(a, n)}
           coming == {n \in Coming(a) : ~ Blocked(a, n)}
           b == Each(IngestUnsaved, a, Gone(a) \cup moving)
           c == Each(Remove, b, Gone(a))
           d == Each(Take, Each(GiveUp, c, moving), moving)
<1>3. ReconcileVault(x) =
        IF a.short THEN a ELSE Each(Adopt, Each(RewriteLinks, d, moving), coming)
  BY <1>1, <1>2, Zenon DEF ReconcileVault
<1> HIDE DEF moving, coming, b, c, d
<1>4. CASE a.short
  BY <1>3, <1>4
<1>5. CASE ~ a.short
  <2>1. Ready(a)
    BY <1>2, <1>5
  <2>2. moving = Moving(a) /\ coming = Coming(a)
    BY <2>1, NoneBlocked DEF moving, coming
  <2>3. /\ b \in States /\ Cleared(b)
        /\ Gone(b) = Gone(a) /\ Moving(b) = Moving(a) /\ Coming(b) = Coming(a)
    BY <2>1, <2>2, ClearedIs DEF b
  <2>4. PICK v \in States : v = Each(GiveUp, c, moving) /\ Vacated(b, Gone(b), Moving(b), v)
    BY <2>2, <2>3, VacatedIs DEF c
  <2>5. d \in States /\ Taken(b, Moving(b), d)
    BY <2>2, <2>3, <2>4, TakenIs DEF d
  <2>6. Adopting(d, coming)
    BY <2>2, <2>3, <2>5, TakenAdopting
  <2>7. moving \in SUBSET Notes /\ coming \in SUBSET Notes
    BY DEF moving, coming, Moving, Coming
  <2>8. PICK z \in States :
          z = Each(Adopt, Each(RewriteLinks, d, moving), coming) /\ Steady(z)
    BY <2>5, <2>6, <2>7, AdoptedSteady
  <2> QED BY <1>3, <1>5, <2>8
<1> QED BY <1>4, <1>5

-----------------------------------------------------------------------------
(* What happens                                                            *)

\* From x to y, only the file at p changed.
Filed(x, p, y) ==
  /\ y \in States /\ SameNames(x, y) /\ y.proj = x.proj /\ (y.erased <=> x.erased)
  /\ \A q \in Paths \ {p} : y.files[q] = x.files[q]

\* A file goes: nothing is unread where there is none.
LEMMA FileGoes ==
  ASSUME NEW x \in States, NEW y \in States, NEW p \in Paths,
         Kept(x), Filed(x, p, y), y.files[p] = NoFile
  PROVE  /\ Kept(y)
         /\ \A P \in SUBSET Paths : NumberedAre(x, P) => NumberedAre(y, P)
<1>1. /\ y.at = x.at /\ y.byPath = x.byPath /\ y.row = x.row /\ y.used = x.used
      /\ y.removals = x.removals /\ y.proj = x.proj
      /\ \A q \in Paths \ {p} : y.files[q] = x.files[q]
      /\ ~ y.erased /\ ~ y.panicked
  BY DEF Filed, SameNames, Kept
<1>2. ~ y.files[p].new /\ ~ There(y, p)
  BY NoFileIs DEF There
<1>3. Indexed(y)
  BY <1>1 DEF Kept, Indexed
<1>4. Projections(y)
  BY <1>1, <1>2 DEF Kept, Projections, There, States
<1>5. RemovalsAre(y)
  BY <1>1, <1>2 DEF Kept, RemovalsAre, States, Removals
<1> QED BY <1>1, <1>2, <1>3, <1>4, <1>5 DEF Kept, NumberedAre

\* A file comes or changes where the user may write it.
LEMMA FileComes ==
  ASSUME NEW y \in States, NEW p \in Paths,
         e \in States, Steady(e), Settled(p), Filed(e, p, y)
  PROVE  Steady(y)
<1>1. /\ y.at = e.at /\ y.byPath = e.byPath /\ y.row = e.row /\ y.used = e.used
      /\ y.removals = e.removals /\ y.proj = e.proj /\ y.vault = e.vault
      /\ \A q \in Paths \ {p} : y.files[q] = e.files[q]
      /\ ~ y.erased /\ ~ y.panicked
  BY DEF Filed, SameNames, Steady, Kept
<1>2. Indexed(e) /\ Projections(e) /\ RemovalsAre(e) /\ NumberedAre(e, Paths) /\ e.vault = e.at
  BY DEF Steady, Kept
<1>3. Indexed(y)
  BY <1>1, <1>2 DEF Indexed
<1>4. Projections(y)
  <2> SUFFICES ASSUME NEW n \in Notes, e.at[n] # None, e.proj[n] = None, There(y, e.at[n])
               PROVE  e.at[n] \in Numbered
    BY <1>1, <1>2 DEF Projections
  <2>1. e.at[n] \in Numbered \/ ~ There(e, e.at[n])
    BY <1>2 DEF Projections
  <2>2. CASE e.at[n] = p
    <3>1. e.byPath[p] = n /\ p # None
      BY <1>2, <2>2, NamesAssumption DEF Indexed
    <3>2. There(e, p)
      BY <3>1, NamesAssumption DEF Settled
    <3> QED BY <2>1, <2>2, <3>2
  <2>3. CASE e.at[n] # p
    BY <1>1, <2>1, <2>3 DEF There, States
  <2> QED BY <2>2, <2>3
<1>5. RemovalsAre(y)
  <2> SUFFICES ASSUME NEW r \in e.removals
               PROVE  e.at[r.id] = r.path /\ (r.path \in Numbered => ~ y.files[r.path].new)
    BY <1>1 DEF RemovalsAre
  <2>1. r.path \in Paths /\ e.at[r.id] = r.path /\ (r.path \in Numbered => ~ e.files[r.path].new)
    BY <1>2 DEF RemovalsAre, States, Removals
  <2>2. r.path \in Numbered => r.path # p
    BY DEF Settled
  <2> QED BY <1>1, <2>1, <2>2
<1>6. NumberedAre(y, Paths)
  <2>1. p \in Numbered => e.byPath[p] # None /\ e.proj[e.byPath[p]] = p
    BY DEF Settled
  <2> QED BY <1>1, <1>2, <2>1 DEF NumberedAre
<1> QED BY <1>1, <1>2, <1>3, <1>4, <1>5, <1>6 DEF Steady, Kept

\* A file is put at p, and the watcher reports the paths in E.
SetFile(x, p, f, E) ==
  [x EXCEPT !.files = [x.files EXCEPT ![p] = f], !.events = x.events \cup E]

LEMMA SetFileIs ==
  ASSUME NEW x \in States, NEW p \in Paths, NEW f \in Files, NEW E \in SUBSET Paths
  PROVE  /\ SetFile(x, p, f, E) \in States
         /\ Filed(x, p, SetFile(x, p, f, E))
         /\ SetFile(x, p, f, E).files[p] = f
<1>1. PICK y \in States : y = SetFile(x, p, f, E)
  <2>1. [x.files EXCEPT ![p] = f] \in [Paths -> Files] /\ x.events \cup E \in SUBSET Paths
    BY DEF States
  <2> QED BY <2>1 DEF States, SetFile
<1>2. Filed(x, p, y) /\ y.files[p] = f
  BY <1>1 DEF States, Filed, SameNames, SetFile
<1> QED BY <1>1, <1>2

\* The state a handler leaves is installed, or the run ends.
LEMMA InstallIs ==
  ASSUME NEW x \in States, e \in States, Steady(e), x.short \/ Steady(x), Install(x)
  PROVE  e' \in States /\ Steady(e')
<1>1. PICK y \in States : y = [e EXCEPT !.short = TRUE]
  BY DEF States
<1>2. Drops(e, y)
  BY <1>1 DEF States, Drops
<1>3. Steady(y)
  BY <1>2, SteadyDrops
<1> QED BY <1>1, <1>3 DEF Install

LEMMA UserSaveSteady ==
  ASSUME e \in States, Steady(e), ~ Hasty, UserSave
  PROVE  e' \in States /\ Steady(e')
<1>1. PICK p \in Paths :
        Settled(p) /\ e' = [e EXCEPT !.files[p].new = TRUE, !.events = @ \cup {p}]
  BY DEF UserSave
<1> DEFINE f == [e.files[p] EXCEPT !.new = TRUE]
<1>2. f \in Files
  <2>1. PICK old \in Files : old = e.files[p]
    BY DEF States
  <2> QED BY <2>1 DEF Files
<1>3. e' = SetFile(e, p, f, {p})
  BY <1>1 DEF SetFile, States
<1> HIDE DEF f
<1>4. PICK y \in States : y = e' /\ Filed(e, p, y)
  BY <1>2, <1>3, SetFileIs
<1> QED BY <1>1, <1>4, FileComes

LEMMA UserCopySteady ==
  ASSUME e \in States, Steady(e), ~ Hasty, UserCopy
  PROVE  e' \in States /\ Steady(e')
<1>1. PICK p \in Paths, q \in Paths :
        Settled(q) /\ e' = [e EXCEPT !.files[q] = File(e.files[p].id, TRUE), !.events = @ \cup {q}]
  BY DEF UserCopy
<1>2. File(e.files[p].id, TRUE) \in Files
  BY DEF States, Files, File
<1>3. e' = SetFile(e, q, File(e.files[p].id, TRUE), {q})
  BY <1>1 DEF SetFile, States
<1>4. PICK y \in States : y = e' /\ Filed(e, q, y)
  BY <1>2, <1>3, SetFileIs
<1> QED BY <1>1, <1>4, FileComes

LEMMA UserRenameSteady ==
  ASSUME e \in States, Steady(e), ~ Hasty, UserRename
  PROVE  e' \in States /\ Steady(e')
<1>1. PICK p \in Paths, q \in Paths :
        /\ There(e, p) /\ ~ There(e, q) /\ Settled(q)
        /\ e' = [e EXCEPT !.files = [@ EXCEPT ![q] = e.files[p], ![p] = NoFile],
                          !.events = @ \cup {p, q}]
  BY DEF UserRename
<1>2. e.files[p] \in Files /\ p # q /\ NoFile \in Files
  BY <1>1, NoFileIs DEF States
<1>3. PICK y \in States : y = SetFile(e, q, e.files[p], {p, q}) /\ Filed(e, q, y)
  BY <1>2, SetFileIs
<1>4. Steady(y)
  BY <1>1, <1>3, FileComes
<1>5. PICK z \in States :
        z = SetFile(y, p, NoFile, {}) /\ Filed(y, p, z) /\ z.files[p] = NoFile
  BY <1>2, SetFileIs
<1>6. Steady(z)
  BY <1>4, <1>5, FileGoes DEF Steady, Filed, SameNames
<1>7. e' = z
  <2>1. /\ y.files = [e.files EXCEPT ![q] = e.files[p]] /\ y.events = e.events \cup {p, q}
        /\ y = [e EXCEPT !.files = y.files, !.events = y.events]
    BY <1>3 DEF States, SetFile
  <2>2. z = [y EXCEPT !.files = [y.files EXCEPT ![p] = NoFile], !.events = y.events \cup {}]
    BY <1>5 DEF SetFile
  <2>3. y.events \cup {} = y.events
    OBVIOUS
  <2>4. z = [e EXCEPT !.files = [y.files EXCEPT ![p] = NoFile], !.events = y.events]
    BY <2>1, <2>2, <2>3 DEF States
  <2> QED BY <1>1, <2>1, <2>4 DEF States
<1> QED BY <1>6, <1>7

LEMMA UserRemoveSteady ==
  ASSUME e \in States, Steady(e), UserRemove
  PROVE  e' \in States /\ Steady(e')
<1>1. PICK p \in Paths : e' = [e EXCEPT !.files[p] = NoFile, !.events = @ \cup {p}]
  BY DEF UserRemove
<1>2. e' = SetFile(e, p, NoFile, {p})
  BY <1>1 DEF SetFile, States
<1>3. PICK y \in States : y = e' /\ Filed(e, p, y) /\ y.files[p] = NoFile
  BY <1>2, NoFileIs, SetFileIs
<1> QED BY <1>3, FileGoes DEF Steady, Filed, SameNames

LEMMA RemoteVaultSteady ==
  ASSUME e \in States, Steady(e), ~ Races, RemoteVault
  PROVE  e' \in States /\ Steady(e')
<1>0. PICK S \in SUBSET Notes : \E to \in [S -> Paths \cup {None}] :
        Install(ReconcileVault([e EXCEPT
                 !.vault = [n \in Notes |-> IF n \in S THEN to[n] ELSE @[n]],
                 !.used = @ \cup {n \in S : to[n] # None}]))
  BY DEF RemoteVault
<1>1. PICK to \in [S -> Paths \cup {None}] :
        Install(ReconcileVault([e EXCEPT
                 !.vault = [n \in Notes |-> IF n \in S THEN to[n] ELSE @[n]],
                 !.used = @ \cup {n \in S : to[n] # None}]))
  BY <1>0
<1>2. e.removals = {}
  BY DEF RemoteVault
<1> DEFINE v == [n \in Notes |-> IF n \in S THEN to[n] ELSE e.vault[n]]
           u == e.used \cup {n \in S : to[n] # None}
<1>3. v \in [Notes -> Paths \cup {None}] /\ u \in SUBSET Notes /\ e.used \subseteq u
  BY DEF States
<1>4. Install(ReconcileVault([e EXCEPT !.vault = v, !.used = u]))
  BY <1>1
<1> HIDE DEF v, u
<1>5. PICK x \in States : x = [e EXCEPT !.vault = v, !.used = u]
  BY <1>3 DEF States
<1>6. /\ x.at = e.at /\ x.byPath = e.byPath /\ x.row = e.row /\ x.proj = e.proj
      /\ x.files = e.files /\ x.removals = {} /\ x.used = u
      /\ (x.erased <=> e.erased) /\ (x.panicked <=> e.panicked)
  BY <1>2, <1>5 DEF States
<1>7. Indexed(x) /\ Projections(x) /\ NumberedAre(x, Paths) /\ RemovalsAre(x)
  BY <1>3, <1>6 DEF Steady, Kept, Indexed, Projections, NumberedAre, RemovalsAre, There
<1>8. Kept(x)
  BY <1>6, <1>7 DEF Steady, Kept
<1>9. PICK z \in States : z = ReconcileVault(x) /\ (z.short \/ Steady(z))
  BY <1>6, <1>7, <1>8, ReconcileIs
<1> QED BY <1>4, <1>5, <1>9, InstallIs

LEMMA ProcessedSteady ==
  ASSUME e \in States, Steady(e), Processed
  PROVE  e' \in States /\ Steady(e')
<1>1. PICK p \in Paths : Install(ProcessPath([e EXCEPT !.events = @ \ {p}], p))
  BY DEF Processed, States
<1>2. PICK x \in States : x = [e EXCEPT !.events = @ \ {p}]
  BY DEF States
<1>3. Drops(e, x)
  BY <1>2 DEF States, Drops
<1>4. Steady(x)
  BY <1>3, SteadyDrops
<1>5. PICK y \in States : y = ProcessPath(x, p) /\ Steady(y)
  BY <1>4, ProcessPathSteady
<1> QED BY <1>1, <1>2, <1>5, InstallIs

LEMMA RemovalDueSteady ==
  ASSUME e \in States, Steady(e), RemovalDue
  PROVE  e' \in States /\ Steady(e')
<1>1. PICK r \in e.removals : Install(Finalize(e, r))
  BY DEF RemovalDue
<1>2. PICK y \in States : y = Finalize(e, r) /\ Steady(y)
  BY FinalizeSteady
<1> QED BY <1>1, <1>2, InstallIs

LEMMA ProjectedSteady ==
  ASSUME e \in States, Steady(e), Projected
  PROVE  e' \in States /\ Steady(e')
<1>1. PICK n \in Notes : Install(Project(e, n))
  BY DEF Projected, States
<1>2. PICK y \in States : y = Project(e, n) /\ Steady(y)
  BY ProjectSteady
<1> QED BY <1>1, <1>2, InstallIs

LEMMA ApiRenameSteady ==
  ASSUME e \in States, Steady(e), ~ Races, ApiRename
  PROVE  e' \in States /\ Steady(e')
<1>1. PICK n \in Notes, p \in Paths :
        /\ \A r \in e.removals : r.id # n
        /\ e.at[n] # None /\ There(e, e.at[n]) /\ e.byPath[p] = None /\ ~ There(e, p)
        /\ Install(ApplyLocalRename(
             [e EXCEPT !.files = [@ EXCEPT ![p] = e.files[e.at[n]], ![e.at[n]] = NoFile],
                       !.events = @ \cup {p, e.at[n]}], n, p))
  BY DEF ApiRename
<1>2. PICK old \in Paths : old = e.at[n]
  BY <1>1 DEF States
<1>3. e.byPath[old] = n /\ old # p /\ n # None
  BY <1>1, <1>2, NamesAssumption DEF Steady, Kept, Indexed
<1>4. PICK x \in States :
        x = [e EXCEPT !.files = [[e.files EXCEPT ![p] = e.files[old]] EXCEPT ![old] = NoFile],
                      !.events = e.events \cup {p, old}]
  <2>1. /\ [[e.files EXCEPT ![p] = e.files[old]] EXCEPT ![old] = NoFile] \in [Paths -> Files]
        /\ e.events \cup {p, old} \in SUBSET Paths
    BY NoFileIs DEF States
  <2> QED BY <2>1 DEF States
<1>5. /\ x.at = e.at /\ x.byPath = e.byPath /\ x.row = e.row /\ x.used = e.used
      /\ x.removals = e.removals /\ x.proj = e.proj /\ x.vault = e.vault /\ x.short = e.short
      /\ x.files[old] = NoFile
      /\ \A q \in Paths \ {p, old} : x.files[q] = e.files[q]
      /\ (x.erased <=> e.erased) /\ (x.panicked <=> e.panicked)
  BY <1>3, <1>4 DEF States
<1>6. /\ Indexed(e) /\ Projections(e) /\ RemovalsAre(e) /\ NumberedAre(e, Paths)
      /\ e.vault = e.at /\ ~ e.erased /\ ~ e.panicked
  BY DEF Steady, Kept
<1>7. ~ x.files[old].new /\ ~ There(x, old)
  BY <1>5, NoFileIs DEF There
<1>8. Indexed(x)
  BY <1>5, <1>6 DEF Indexed
\* No note is at p.
<1>9. \A m \in Notes : e.at[m] # p
  BY <1>1, <1>6, NamesAssumption DEF Indexed
<1>10. Projections(x)
  <2> SUFFICES ASSUME NEW m \in Notes, e.at[m] # None, e.proj[m] = None, There(x, e.at[m])
               PROVE  e.at[m] \in Numbered
    BY <1>5, <1>6 DEF Projections
  <2>1. e.at[m] \in Paths \ {p, old}
    BY <1>7, <1>9 DEF States
  <2> QED BY <1>5, <1>6, <2>1 DEF Projections, There
<1>11. RemovalsAre(x)
  <2> SUFFICES ASSUME NEW r \in e.removals
               PROVE  e.at[r.id] = r.path /\ (r.path \in Numbered => ~ x.files[r.path].new)
    BY <1>5 DEF RemovalsAre
  <2>1. /\ r.path \in Paths /\ r.id \in Notes /\ e.at[r.id] = r.path
        /\ r.path \in Numbered => ~ e.files[r.path].new
    BY <1>6 DEF RemovalsAre, States, Removals
  <2>2. r.path # p
    BY <1>9, <2>1
  <2> QED BY <1>5, <1>7, <2>1, <2>2
<1>12. NumberedAre(x, Paths \ {p})
  BY <1>5, <1>6, <1>7 DEF NumberedAre
<1>13. Kept(x)
  BY <1>5, <1>6, <1>8, <1>10, <1>11 DEF Kept
<1>14. PICK y \in States : y = ApplyLocalRename(x, n, p) /\ Renamed(x, n, p, y)
  BY <1>1, <1>2, <1>5, <1>7, <1>12, <1>13, RenameIs
<1>15. Steady(y)
  <2>1. /\ Kept(y) /\ NumberedAre(y, Paths)
        /\ y.vault[n] = p /\ y.at[n] = p
        /\ \A m \in Notes \ {n} : y.vault[m] = x.vault[m] /\ y.at[m] = x.at[m]
    BY <1>14 DEF Renamed
  <2>2. \A m \in Notes : y.vault[m] = y.at[m]
    BY <1>5, <1>6, <2>1
  <2>3. y.vault = y.at
    BY <2>2 DEF States
  <2> QED BY <2>1, <2>3 DEF Steady
<1>16. Install(y)
  <2>1. x = [e EXCEPT !.files = [@ EXCEPT ![p] = e.files[e.at[n]], ![e.at[n]] = NoFile],
                      !.events = @ \cup {p, e.at[n]}]
    BY <1>2, <1>4 DEF States
  <2> QED BY <1>1, <1>14, <2>1
<1> QED BY <1>15, <1>16, InstallIs

LEMMA ApiDeleteSteady ==
  ASSUME e \in States, Steady(e), ApiDelete
  PROVE  e' \in States /\ Steady(e')
<1>1. PICK n \in Notes :
        /\ e.at[n] # None
        /\ Install(FinalizeAll(LocalRemove(
             [e EXCEPT !.files[e.at[n]] = NoFile, !.events = @ \cup {e.at[n]}], e.at[n])))
  BY DEF ApiDelete
<1>2. PICK p \in Paths : p = e.at[n]
  BY <1>1 DEF States
<1>3. PICK x \in States : x = SetFile(e, p, NoFile, {p}) /\ Filed(e, p, x) /\ x.files[p] = NoFile
  BY NoFileIs, SetFileIs
<1>4. Steady(x) /\ ~ There(x, p)
  <2>1. Kept(x) /\ NumberedAre(x, Paths)
    BY <1>3, FileGoes DEF Steady
  <2> QED BY <1>3, <2>1 DEF Steady, Filed, SameNames, There
<1>5. PICK y \in States : y = LocalRemove(x, p) /\ Steady(y)
  BY <1>4, LocalRemoveSteady
<1>6. PICK z \in States : z = FinalizeAll(y) /\ Steady(z)
  BY <1>5, FinalizeAllSteady
<1>7. x = [e EXCEPT !.files[p] = NoFile, !.events = @ \cup {p}]
  BY <1>3 DEF SetFile, States
<1>8. Install(z)
  BY <1>1, <1>2, <1>5, <1>6, <1>7
<1> QED BY <1>6, <1>8, InstallIs

LEMMA RestoreSteady ==
  ASSUME e \in States, Steady(e), ~ Hasty, Restore
  PROVE  e' \in States /\ Steady(e')
<1>1. PICK n \in e.used, p \in Paths :
        /\ e.row[n] = None /\ RowFree(e, n, p) /\ (There(e, p) => Hasty)
        /\ e' = [Index(e, n, p) EXCEPT !.byPath[p] = n, !.at[n] = p, !.vault[n] = p,
                                       !.dirty = @ \cup {n}]
  BY DEF Restore
<1>2. n \in Notes /\ e.at[n] = None /\ ~ There(e, p) /\ Kept(e) /\ NumberedAre(e, Paths)
  BY <1>1 DEF Steady, Kept, Indexed, States
<1>3. e.byPath[p] = None
  <2> SUFFICES ASSUME NEW m \in Notes, e.byPath[p] = m, e.at[m] = p PROVE FALSE
    BY <1>2, NamesAssumption DEF Kept, Indexed, States
  <2>1. e.row[m] = p /\ p # None
    BY <1>2, NamesAssumption DEF Kept, Indexed
  <2>2. m # n
    BY <1>2, <2>1
  <2> QED BY <1>1, <2>1, <2>2 DEF RowFree
<1>4. PICK y \in States :
        y = [e EXCEPT !.row = [e.row EXCEPT ![n] = p], !.byPath = [e.byPath EXCEPT ![p] = n],
                      !.at = [e.at EXCEPT ![n] = p], !.vault = [e.vault EXCEPT ![n] = p],
                      !.dirty = e.dirty \cup {n}]
  <2>1. /\ [e.byPath EXCEPT ![p] = n] \in [Paths -> Notes \cup {None}]
        /\ [e.at EXCEPT ![n] = p] \in [Notes -> Paths \cup {None}]
        /\ [e.row EXCEPT ![n] = p] \in [Notes -> Paths \cup {None}]
        /\ [e.vault EXCEPT ![n] = p] \in [Notes -> Paths \cup {None}]
        /\ e.dirty \cup {n} \in SUBSET Notes
    BY <1>2 DEF States
  <2> QED BY <2>1 DEF States
<1>5. e' = y
  BY <1>1, <1>4 DEF Index, States
<1>6. Placed(e, n, p, y)
  <2>1. e.used = e.used \cup {n}
    BY <1>1
  <2>2. y.used = e.used \cup {n}
    BY <1>4, <2>1 DEF States
  <2> QED BY <1>2, <1>4, <2>2 DEF States, Placed
<1>7. Kept(y) /\ NumberedAre(y, Paths)
  BY <1>2, <1>3, <1>6, PlacedKept
<1>8. y.vault = y.at
  <2>1. y.vault = [e.vault EXCEPT ![n] = p] /\ y.at = [e.at EXCEPT ![n] = p]
    BY <1>4 DEF States
  <2> QED BY <2>1 DEF Steady
<1> QED BY <1>5, <1>7, <1>8 DEF Steady

LEMMA StartSteady ==
  ASSUME e \in States, Steady(e), Start
  PROVE  e' \in States /\ Steady(e')
<1> DEFINE absent == {n \in Notes : e.row[n] # None /\ ~ There(e, e.row[n])}
           gone == {[path |-> e.row[n], id |-> n] : n \in {m \in absent : e.proj[m] # None}}
           index == [p \in Paths |-> IF \E n \in Notes : e.row[n] = p
                                       THEN CHOOSE n \in Notes : e.row[n] = p ELSE None]
<1>1. e' = [e EXCEPT !.at = e.row, !.byPath = index, !.events = {p \in Paths : There(e, p)},
                     !.removals = gone, !.dirty = {n \in absent : e.proj[n] = None},
                     !.panicked = FALSE]
  BY DEF Start
<1>2. Indexed(e) /\ Projections(e) /\ NumberedAre(e, Paths) /\ ~ e.erased /\ e.vault = e.at
  BY DEF Steady, Kept
<1>3. index = e.byPath
  <2>1. \A p \in Paths : index[p] = e.byPath[p]
    <3> TAKE p \in Paths
    <3>1. CASE e.byPath[p] = None
      BY <1>2, <3>1, NamesAssumption DEF Indexed
    <3>2. CASE e.byPath[p] # None
      <4>1. e.byPath[p] \in Notes /\ e.row[e.byPath[p]] = p
        BY <1>2, <3>2 DEF Indexed, States
      <4>2. \A n \in Notes : e.row[n] = p => n = e.byPath[p]
        BY <1>2, NamesAssumption DEF Indexed
      <4> QED BY <4>1, <4>2
    <3> QED BY <3>1, <3>2
  <2>2. index = [p \in Paths |-> index[p]]
    OBVIOUS
  <2> HIDE DEF index
  <2> QED BY <2>1, <2>2 DEF States
<1> HIDE DEF index
<1>4. \A r \in gone : r \in Removals /\ e.row[r.id] = r.path /\ ~ There(e, r.path)
  BY DEF States, Removals
<1> HIDE DEF gone
<1>5. e' \in States
  <2>1. gone \in SUBSET Removals /\ absent \in SUBSET Notes
    BY <1>4
  <2> HIDE DEF absent
  <2> QED BY <1>1, <1>3, <2>1 DEF States
<1>6. PICK y \in States :
        /\ y = e'
        /\ y.vault = e.vault /\ y.at = e.at /\ y.byPath = e.byPath /\ y.row = e.row
        /\ y.proj = e.proj /\ y.files = e.files /\ y.used = e.used /\ y.removals = gone
        /\ (y.erased <=> e.erased) /\ ~ y.panicked
  <2> HIDE DEF absent
  <2> QED BY <1>1, <1>2, <1>3, <1>5 DEF States, Indexed
<1>7. RemovalsAre(y)
  <2> SUFFICES ASSUME NEW r \in gone
               PROVE  e.at[r.id] = r.path /\ (r.path \in Numbered => ~ e.files[r.path].new)
    BY <1>6 DEF RemovalsAre
  <2> QED BY <1>2, <1>4, NewIsThere DEF Indexed
<1>8. Indexed(y) /\ Projections(y) /\ NumberedAre(y, Paths)
  BY <1>2, <1>6 DEF Indexed, Projections, NumberedAre, There
<1>9. Steady(y)
  BY <1>2, <1>6, <1>7, <1>8 DEF Steady, Kept
<1> QED BY <1>6, <1>9

LEMMA OpenedSteady ==
  ASSUME e \in States, Steady(e), Opened
  PROVE  e' \in States /\ Steady(e')
BY FinalizeAllSteady DEF Opened

-----------------------------------------------------------------------------
(* The theorems                                                            *)

LEMMA InitNames == Init => NamesInv
<1> SUFFICES ASSUME Init PROVE NamesInv
  OBVIOUS
<1>1. e = [vault |-> [n \in Notes |-> None], at |-> [n \in Notes |-> None],
           byPath |-> [p \in Paths |-> None], row |-> [n \in Notes |-> None],
           proj |-> [n \in Notes |-> None], files |-> [p \in Paths |-> NoFile],
           dirty |-> {}, removals |-> {}, events |-> {}, used |-> {},
           erased |-> FALSE, panicked |-> FALSE, short |-> FALSE]
  BY DEF Init
<1>2. e \in States
  BY <1>1, NoFileIs DEF States
<1>3. Kept(e) /\ NumberedAre(e, Paths) /\ e.vault = e.at
  BY <1>1, <1>2, NoFileIs DEF Kept, Indexed, Projections, RemovalsAre, NumberedAre
<1> QED BY <1>3 DEF NamesInv, Steady, Init

LEMMA NextNames ==
  ASSUME ~ Races, ~ Hasty, NamesInv, [Next]_vars
  PROVE  NamesInv'
<1>1. e \in States /\ Steady(e) /\ opening \in BOOLEAN
  BY DEF NamesInv, Steady, Kept
<1>2. opening' \in BOOLEAN
  BY <1>1 DEF Next, vars, UserSave, UserCopy, UserRename, UserRemove, RemoteVault, Processed,
       RemovalDue, Projected, ApiRename, ApiDelete, Restore, Start, Opened
<1>3. Steady(e')
  <2>1. CASE UserSave    BY <1>1, <2>1, UserSaveSteady
  <2>2. CASE UserCopy    BY <1>1, <2>2, UserCopySteady
  <2>3. CASE UserRename  BY <1>1, <2>3, UserRenameSteady
  <2>4. CASE UserRemove  BY <1>1, <2>4, UserRemoveSteady
  <2>5. CASE RemoteVault BY <1>1, <2>5, RemoteVaultSteady
  <2>6. CASE Processed   BY <1>1, <2>6, ProcessedSteady
  <2>7. CASE RemovalDue  BY <1>1, <2>7, RemovalDueSteady
  <2>8. CASE Projected   BY <1>1, <2>8, ProjectedSteady
  <2>9. CASE ApiRename   BY <1>1, <2>9, ApiRenameSteady
  <2>10. CASE ApiDelete  BY <1>1, <2>10, ApiDeleteSteady
  <2>11. CASE Restore    BY <1>1, <2>11, RestoreSteady
  <2>12. CASE Start      BY <1>1, <2>12, StartSteady
  <2>13. CASE Opened     BY <1>1, <2>13, OpenedSteady
  <2>14. CASE UNCHANGED vars
    BY <1>1, <2>14 DEF vars
  <2> QED BY <2>1, <2>2, <2>3, <2>4, <2>5, <2>6, <2>7, <2>8, <2>9, <2>10, <2>11, <2>12, <2>13,
             <2>14 DEF Next
<1> QED BY <1>2, <1>3 DEF NamesInv, Steady, Kept, Indexed, Projections, RemovalsAre, NumberedAre,
           There

\* Where no note is moved or removed while its removed file waits, and no file comes where a note is
\* about to be written, the inductive invariant holds throughout.
THEOREM NamesHolds ==
  ASSUME ~ Races, ~ Hasty
  PROVE  Spec => []NamesInv
<1>1. Init => NamesInv
  BY InitNames
<1>2. NamesInv /\ [Next]_vars => NamesInv'
  BY NextNames
<1> QED BY <1>1, <1>2, PTL DEF Spec

\* There, `notes` and `by_path` are each other's inverse, no note is looked up that is not there,
\* and between handlers memory, the rows and the vault document say the same.
THEOREM InStepHolds ==
  ASSUME ~ Races, ~ Hasty
  PROVE  Spec => []InStep
<1>1. NamesInv => InStep
  <2> SUFFICES ASSUME NamesInv PROVE InStep
    OBVIOUS
  <2>1. Kept(e) /\ e \in States /\ e.vault = e.at /\ opening \in BOOLEAN
    BY DEF NamesInv, Steady, Kept
  <2>2. TypeOK
    BY <2>1 DEF TypeOK, States
  <2>3. NamesAgree
    BY <2>1, <2>2 DEF NamesAgree, Kept, Indexed
  <2> QED BY <2>1, <2>3 DEF InStep, Kept, Indexed
<1> QED BY <1>1, NamesHolds, PTL

\* There, nothing a user saved is written over or deleted before it was taken in, but where links
\* to a moved note are rewritten.
THEOREM NothingErasedHolds ==
  ASSUME ~ Races, ~ Hasty
  PROVE  Spec => []NothingErased
<1>1. NamesInv => NothingErased
  BY DEF NamesInv, Steady, Kept, NothingErased
<1> QED BY <1>1, NamesHolds, PTL
=============================================================================
