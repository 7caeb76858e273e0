---------------------------- MODULE SBOMDiffProofs ----------------------------
(***************************************************************************)
(* What SBOMDiff computes, for documents of any length: the difference     *)
(* report accounts for every component (ActionsAccount), calls nothing     *)
(* removed that came back under its name (NothingLeftOver), and names only *)
(* a report without changes of components after the metadata               *)
(* (MetadataLabel).  The comparison of versions the policy rests on is an  *)
(* order (VersionsOrdered, OlderIsBanned).                                 *)
(*                                                                         *)
(* The report follows from what a pass does.  Ranks number the components  *)
(* of one class 1, 2, ..., n (RankInjective, RankOnto).  So a pass pairs   *)
(* each component once at most (MatesOneToOne) and leaves no class over    *)
(* on both sides (MatesMaximal).  The account is a count: what a report    *)
(* takes away stands for the places of the original that the first pass    *)
(* leaves over, one for one, what it adds for those of the presented       *)
(* document, and the places it does not mention are paired.                *)
(***************************************************************************)
EXTENDS SBOMDiff, FiniteSetTheorems, SequenceTheorems, TLAPS

(***************************************************************************)
(* Versions.                                                               *)
(***************************************************************************)

LEMMA LeastPlace ==
  ASSUME NEW S \in SUBSET Nat, S # {}
  PROVE  \E x \in S : \A y \in S : x <= y
<1> DEFINE Less == {p \in Nat \X Nat : p[1] < p[2]}
<1>1. IsWellFoundedOn(Less, Nat)
  BY NatLessThanWellFounded DEF OpToRel
<1>2. PICK x \in S : \A y \in S : <<y, x>> \notin Less
  BY <1>1, WFMin
<1>3. \A y \in S : ~(y < x)
  BY <1>2
<1> QED
  BY <1>3

LEMMA PartType ==
  ASSUME NEW v \in Seq(Nat)
  PROVE  /\ DOMAIN v \subseteq Nat \ {0}
         /\ \A i : Part(v, i) \in Nat /\ (i \notin DOMAIN v => Part(v, i) = 0)
BY DEF Part

\* compareVersions (policy.js:21-34) orders versions: none is below itself, the order is
\* transitive, and of two versions one is below the other unless they differ in trailing
\* zeros only.
THEOREM VersionsOrdered ==
  ASSUME NEW u \in Seq(Nat), NEW v \in Seq(Nat), NEW w \in Seq(Nat)
  PROVE  /\ ~Below(v, v)
         /\ Below(u, v) /\ Below(v, w) => Below(u, w)
         /\ Below(v, w) \/ Below(w, v) \/ \A i \in Nat \ {0} : Part(v, i) = Part(w, i)
<1>1. ~Below(v, v)
  BY PartType DEF Below
<1>2. ASSUME Below(u, v), Below(v, w)
      PROVE  Below(u, w)
  <2>1. PICK i \in DOMAIN u \cup DOMAIN v :
          Part(u, i) < Part(v, i) /\ \A k \in 1..(i - 1) : Part(u, k) = Part(v, k)
    BY <1>2 DEF Below
  <2>2. PICK j \in DOMAIN v \cup DOMAIN w :
          Part(v, j) < Part(w, j) /\ \A k \in 1..(j - 1) : Part(v, k) = Part(w, k)
    BY <1>2 DEF Below
  <2>3. i \in Nat \ {0} /\ j \in Nat \ {0}
    BY PartType
  <2>4. PICK n \in {i, j} : n <= i /\ n <= j
    BY <2>3
  <2>5. Part(u, n) < Part(w, n) /\ \A k \in 1..(n - 1) : Part(u, k) = Part(w, k)
    <3>1. CASE n < i
      BY <3>1, <2>1, <2>2, <2>3, <2>4, PartType
    <3>2. CASE n < j
      BY <3>2, <2>1, <2>2, <2>3, <2>4, PartType
    <3>3. CASE n = i /\ n = j
      BY <3>3, <2>1, <2>2, <2>3, PartType
    <3> QED
      BY <2>3, <2>4, <3>1, <3>2, <3>3
  <2>6. n \in DOMAIN u \cup DOMAIN w
    BY <2>5, PartType
  <2> QED
    BY <2>5, <2>6 DEF Below
<1>3. ASSUME NEW i \in Nat \ {0}, Part(v, i) # Part(w, i)
      PROVE  Below(v, w) \/ Below(w, v)
  <2> DEFINE D == {k \in Nat \ {0} : Part(v, k) # Part(w, k)}
  <2>1. PICK n \in D : \A k \in D : n <= k
    <3>1. D \in SUBSET Nat /\ D # {}
      BY <1>3
    <3> HIDE DEF D
    <3> QED
      BY <3>1, LeastPlace
  <2>2. \A k \in 1..(n - 1) : Part(v, k) = Part(w, k)
    BY <2>1
  <2>3. Part(v, n) < Part(w, n) \/ Part(w, n) < Part(v, n)
    BY <2>1, PartType
  <2>4. n \in DOMAIN v \cup DOMAIN w
    BY <2>3, PartType
  <2> QED
    BY <2>2, <2>3, <2>4 DEF Below
<1> QED
  BY <1>1, <1>2, <1>3

\* The policy has no gap below a minimum safe version: a version whose numbers are older than
\* those of one that is too old is banned as well (policy.js:107-134).
THEOREM OlderIsBanned ==
  ASSUME NEW c, NEW d, c.name = d.name, c.name \in DOMAIN Banned, d.version # None,
         Parts[c.version] \in Seq(Nat), Parts[d.version] \in Seq(Nat), Parts[Banned[c.name].minimum] \in Seq(Nat),
         Below(Parts[d.version], Parts[c.version]), Below(Parts[c.version], Parts[Banned[c.name].minimum])
  PROVE  IsBanned(d)
<1>1. Below(Parts[d.version], Parts[Banned[c.name].minimum])
  BY VersionsOrdered
<1> QED
  BY <1>1 DEF IsBanned
-----------------------------------------------------------------------------
(***************************************************************************)
(* Ranks.                                                                  *)
(***************************************************************************)

\* j is met no later than i.
Met(all, l, j, i) ==
  \/ Turn(all, l[j]) < Turn(all, l[i])
  \/ Turn(all, l[j]) = Turn(all, l[i]) /\ j <= i

\* Those of i's class that are met no later.
Earlier(all, l, places, by, i) ==
  {j \in places : Class(by, l[j]) = Class(by, l[i]) /\ Met(all, l, j, i)}

OfClass(l, places, by, k) == {j \in places : Class(by, l[j]) = k}

LEMMA RankIs ==
  ASSUME NEW all, NEW l, NEW places, NEW by, NEW i
  PROVE  Rank(all, l, places, by, i) = Cardinality(Earlier(all, l, places, by, i))
BY DEF Rank, Earlier, Met

\* The turn of a component is a number.
LEMMA TurnType ==
  ASSUME NEW S, NEW all \in Seq(S), NEW c
  PROVE  Turn(all, c) \in Nat
<1> DEFINE T == {i \in DOMAIN all : \A j \in 1..i : Key(all[j]) # Key(c)}
<1>1. DOMAIN all = 1..Len(all) /\ Len(all) \in Nat
  OBVIOUS
<1>2. IsFiniteSet(DOMAIN all)
  BY <1>1, FS_Interval
<1>3. T \subseteq DOMAIN all
  OBVIOUS
<1> HIDE DEF T
<1>4. Cardinality(T) \in Nat
  BY <1>2, <1>3, FS_Subset, FS_CardinalityType
<1> QED
  BY <1>4 DEF Turn, T

\* Of two places one is met first.
LEMMA MetOrders ==
  ASSUME NEW S, NEW all \in Seq(S), NEW l, NEW i \in Nat, NEW j \in Nat
  PROVE  /\ Met(all, l, i, i)
         /\ i # j => (Met(all, l, j, i) <=> ~Met(all, l, i, j))
         /\ \A k \in Nat : Met(all, l, k, j) /\ Met(all, l, j, i) => Met(all, l, k, i)
<1>1. \A k : Turn(all, l[k]) \in Nat
  BY TurnType
<1> QED
  BY <1>1 DEF Met

\* The rank of a component in its class, of which there are n, is one of 1, ..., n.
LEMMA RankType ==
  ASSUME NEW S, NEW all \in Seq(S), NEW l, NEW places \in SUBSET Nat, IsFiniteSet(places),
         NEW by, NEW i \in places
  PROVE  LET all_k == OfClass(l, places, by, Class(by, l[i]))
         IN /\ IsFiniteSet(all_k)
            /\ IsFiniteSet(Earlier(all, l, places, by, i))
            /\ Rank(all, l, places, by, i) \in 1..Cardinality(all_k)
<1> DEFINE K == OfClass(l, places, by, Class(by, l[i]))
           E == Earlier(all, l, places, by, i)
<1>1. K \subseteq places /\ E \subseteq K /\ i \in E
  BY MetOrders DEF OfClass, Earlier
<1> HIDE DEF K, E
<1>2. IsFiniteSet(K) /\ IsFiniteSet(E) /\ Cardinality(E) <= Cardinality(K)
      /\ Cardinality(E) \in Nat /\ Cardinality(K) \in Nat
  BY <1>1, FS_Subset, FS_CardinalityType
<1>3. Cardinality(E) # 0
  BY <1>1, <1>2, FS_EmptySet
<1>4. Cardinality(E) \in 1..Cardinality(K)
  BY <1>2, <1>3
<1> QED
  BY <1>2, <1>4, RankIs DEF K, E

\* Two components of one class have different ranks.
LEMMA RankInjective ==
  ASSUME NEW S, NEW all \in Seq(S), NEW l, NEW places \in SUBSET Nat, IsFiniteSet(places),
         NEW by, NEW i \in places, NEW j \in places,
         Class(by, l[i]) = Class(by, l[j]), Rank(all, l, places, by, i) = Rank(all, l, places, by, j)
  PROVE  i = j
<1>1. ASSUME NEW x \in places, NEW y \in places, Class(by, l[x]) = Class(by, l[y]), x # y, Met(all, l, x, y)
      PROVE  Rank(all, l, places, by, x) < Rank(all, l, places, by, y)
  <2> DEFINE X == Earlier(all, l, places, by, x)
             Y == Earlier(all, l, places, by, y)
  <2>1. ~Met(all, l, y, x) /\ y \in Y
    BY <1>1, MetOrders DEF Earlier
  <2>2. X \subseteq Y
    BY <1>1, MetOrders DEF Earlier
  <2>3. y \notin X
    BY <2>1 DEF Earlier
  <2>4. IsFiniteSet(Y) /\ IsFiniteSet(X)
    BY RankType
  <2> HIDE DEF X, Y
  <2>5. Cardinality(X) <= Cardinality(Y) /\ Cardinality(X) # Cardinality(Y)
    BY <2>1, <2>2, <2>3, <2>4, FS_Subset
  <2>6. Cardinality(X) \in Nat /\ Cardinality(Y) \in Nat
    BY <2>4, FS_CardinalityType
  <2>7. Cardinality(X) < Cardinality(Y)
    BY <2>5, <2>6
  <2> QED
    BY <2>7, RankIs DEF X, Y
<1>2. Rank(all, l, places, by, i) \in Nat
  BY RankIs, RankType, FS_CardinalityType
<1>3. i # j => Met(all, l, i, j) \/ Met(all, l, j, i)
  BY MetOrders
<1> QED
  BY <1>1, <1>2, <1>3

\* Every number up to the size of a class is the rank of one of its components.
LEMMA RankOnto ==
  ASSUME NEW S, NEW all \in Seq(S), NEW l, NEW places \in SUBSET Nat, IsFiniteSet(places),
         NEW by, NEW k, NEW n \in 1..Cardinality(OfClass(l, places, by, k))
  PROVE  \E i \in OfClass(l, places, by, k) : Rank(all, l, places, by, i) = n
<1> DEFINE K == OfClass(l, places, by, k)
           R == [i \in K |-> Rank(all, l, places, by, i)]
<1>1. K \subseteq places /\ \A i \in K : Class(by, l[i]) = k
  BY DEF OfClass
<1>2. IsFiniteSet(K) /\ Cardinality(K) \in Nat
  <2> HIDE DEF K
  <2> QED
    BY <1>1, FS_Subset, FS_CardinalityType
<1>3. \A i \in K : Rank(all, l, places, by, i) \in 1..Cardinality(K)
  BY <1>1, RankType
<1>4. ASSUME NEW i \in K, NEW j \in K, R[i] = R[j]
      PROVE  i = j
  <2>1. Rank(all, l, places, by, i) = Rank(all, l, places, by, j)
    BY <1>4
  <2>2. i \in places /\ j \in places /\ Class(by, l[i]) = Class(by, l[j])
    BY <1>1, <1>4
  <2> HIDE DEF K
  <2> QED
    BY <2>1, <2>2, RankInjective
<1> HIDE DEF K
<1>5. R \in Injection(K, 1..Cardinality(K))
  BY <1>3, <1>4 DEF Injection, IsInjective
<1>6. IsFiniteSet(1..Cardinality(K)) /\ Cardinality(1..Cardinality(K)) = Cardinality(K)
  BY <1>2, FS_Interval
<1>7. R \in Surjection(K, 1..Cardinality(K))
  <2> DEFINE T == 1..Cardinality(K)
  <2>1. R \in Injection(K, T) /\ IsFiniteSet(T) /\ Cardinality(K) = Cardinality(T)
    BY <1>5, <1>6
  <2> HIDE DEF T, R
  <2>2. R \in Surjection(K, T)
    BY <1>2, <2>1, FS_Injection
  <2> QED
    BY <2>2 DEF T
<1>8. \E i \in K : R[i] = n
  BY <1>7 DEF Surjection, K
<1> QED
  BY <1>8 DEF K
-----------------------------------------------------------------------------
(***************************************************************************)
(* A pass.                                                                 *)
(***************************************************************************)

\* Places of a list are finitely many numbers.
LEMMA Places ==
  ASSUME NEW S, NEW l \in Seq(S), NEW I \in SUBSET (DOMAIN l)
  PROVE  I \in SUBSET Nat /\ IsFiniteSet(I) /\ Cardinality(I) \in Nat
<1>1. DOMAIN l = 1..Len(l) /\ Len(l) \in Nat
  OBVIOUS
<1>2. IsFiniteSet(DOMAIN l)
  BY <1>1, FS_Interval
<1>3. I \in SUBSET Nat
  BY <1>1
<1> QED
  BY <1>2, <1>3, FS_Subset, FS_CardinalityType

\* A pass pairs components of one class, each of them once at most.
LEMMA MatesOneToOne ==
  ASSUME NEW S, NEW o \in Seq(S), NEW s \in Seq(S),
         NEW I \in SUBSET (DOMAIN o), NEW J \in SUBSET (DOMAIN s), NEW by
  PROVE  LET pairs == Mates(o, I, s, J, by)
         IN /\ pairs \subseteq I \X J
            /\ \A p \in pairs : Class(by, o[p[1]]) = Class(by, s[p[2]])
            /\ \A p, q \in pairs : p[1] = q[1] <=> p[2] = q[2]
<1> DEFINE pairs == Mates(o, I, s, J, by)
<1>1. o \o s \in Seq(S)
  OBVIOUS
<1>2. I \in SUBSET Nat /\ J \in SUBSET Nat /\ IsFiniteSet(I) /\ IsFiniteSet(J)
  BY Places
<1>3. pairs \subseteq I \X J
  BY DEF Mates
<1>4. \A p \in pairs : /\ Class(by, o[p[1]]) = Class(by, s[p[2]])
                       /\ Rank(o \o s, o, I, by, p[1]) = Rank(o \o s, s, J, by, p[2])
  BY DEF Mates
<1> HIDE DEF pairs
<1>5. ASSUME NEW p \in pairs, NEW q \in pairs, p[1] = q[1]
      PROVE  p[2] = q[2]
  <2> DEFINE x == p[2]
             y == q[2]
             all == o \o s
  <2>1. x \in J /\ y \in J
    BY <1>3
  <2>2. Class(by, s[x]) = Class(by, s[y]) /\ Rank(all, s, J, by, x) = Rank(all, s, J, by, y)
    BY <1>4, <1>5
  <2>3. all \in Seq(S)
    BY <1>1
  <2> HIDE DEF x, y, all
  <2>4. x = y
    BY <1>2, <2>1, <2>2, <2>3, RankInjective
  <2> QED
    BY <2>4 DEF x, y
<1>6. ASSUME NEW p \in pairs, NEW q \in pairs, p[2] = q[2]
      PROVE  p[1] = q[1]
  <2> DEFINE x == p[1]
             y == q[1]
             all == o \o s
  <2>1. x \in I /\ y \in I
    BY <1>3
  <2>2. Class(by, o[x]) = Class(by, o[y]) /\ Rank(all, o, I, by, x) = Rank(all, o, I, by, y)
    BY <1>4, <1>6
  <2>3. all \in Seq(S)
    BY <1>1
  <2> HIDE DEF x, y, all
  <2>4. x = y
    BY <1>2, <2>1, <2>2, <2>3, RankInjective
  <2> QED
    BY <2>4 DEF x, y
<1> QED
  BY <1>3, <1>4, <1>5, <1>6 DEF pairs

\* After a pass no class is left over on both sides.
LEMMA MatesMaximal ==
  ASSUME NEW S, NEW o \in Seq(S), NEW s \in Seq(S),
         NEW I \in SUBSET (DOMAIN o), NEW J \in SUBSET (DOMAIN s), NEW by,
         NEW i \in Free(I, Mates(o, I, s, J, by), 1), NEW j \in Free(J, Mates(o, I, s, J, by), 2)
  PROVE  Class(by, o[i]) # Class(by, s[j])
<1> DEFINE pairs == Mates(o, I, s, J, by)
           all == o \o s
           k == Class(by, o[i])
           A == OfClass(o, I, by, k)
           B == OfClass(s, J, by, k)
           here(x) == Rank(all, o, I, by, x)
           there(y) == Rank(all, s, J, by, y)
<1> SUFFICES ASSUME Class(by, s[j]) = k PROVE FALSE
  OBVIOUS
<1>1. all \in Seq(S)
  OBVIOUS
<1>2. I \in SUBSET Nat /\ J \in SUBSET Nat /\ IsFiniteSet(I) /\ IsFiniteSet(J)
  BY Places
<1>3. i \in A /\ j \in B /\ A \subseteq I /\ B \subseteq J
  BY DEF Free, OfClass
<1>4. IsFiniteSet(A) /\ here(i) \in 1..Cardinality(A)
  BY <1>1, <1>2, <1>3, RankType
<1>5. IsFiniteSet(B) /\ there(j) \in 1..Cardinality(B)
  BY <1>1, <1>2, <1>3, RankType
<1>6. Cardinality(A) \in Nat /\ Cardinality(B) \in Nat
  BY <1>4, <1>5, FS_CardinalityType
<1>7. ~ \E y \in B : there(y) = here(i)
  <2> SUFFICES ASSUME NEW y \in B, there(y) = here(i) PROVE FALSE
    OBVIOUS
  <2>1. <<i, y>> \in pairs
    BY <1>3 DEF Mates, OfClass
  <2>2. <<i, y>>[1] = i
    OBVIOUS
  <2> QED
    BY <2>1, <2>2 DEF Free
<1>8. ~ \E x \in A : here(x) = there(j)
  <2> SUFFICES ASSUME NEW x \in A, here(x) = there(j) PROVE FALSE
    OBVIOUS
  <2>1. <<x, j>> \in pairs
    BY <1>3 DEF Mates, OfClass
  <2>2. <<x, j>>[2] = j
    OBVIOUS
  <2> QED
    BY <2>1, <2>2 DEF Free
<1>9. CASE Cardinality(A) <= Cardinality(B)
  <2> DEFINE n == here(i)
  <2>1. n \in 1..Cardinality(B)
    BY <1>4, <1>6, <1>9
  <2> HIDE DEF n
  <2>2. \E y \in B : there(y) = n
    <3> HIDE DEF k, all
    <3> QED
      BY <1>1, <1>2, <2>1, RankOnto
  <2> QED
    BY <1>7, <2>2 DEF n
<1>10. CASE Cardinality(B) <= Cardinality(A)
  <2> DEFINE n == there(j)
  <2>1. n \in 1..Cardinality(A)
    BY <1>5, <1>6, <1>10
  <2> HIDE DEF n
  <2>2. \E x \in A : here(x) = n
    <3> HIDE DEF k, all
    <3> QED
      BY <1>1, <1>2, <2>1, RankOnto
  <2> QED
    BY <1>8, <2>2 DEF n
<1> QED
  BY <1>6, <1>9, <1>10
-----------------------------------------------------------------------------
(***************************************************************************)
(* The account.                                                            *)
(***************************************************************************)

\* The members of two sets are in pairs, each member in exactly one.
InPairs(A, B, pairs) ==
  /\ pairs \subseteq A \X B
  /\ \A p, q \in pairs : p[1] = q[1] <=> p[2] = q[2]
  /\ \A x \in A : \E p \in pairs : p[1] = x
  /\ \A y \in B : \E p \in pairs : p[2] = y

LEMMA PairsCount ==
  ASSUME NEW A, NEW B, NEW pairs, IsFiniteSet(A), InPairs(A, B, pairs)
  PROVE  Cardinality(A) = Cardinality(B)
<1> USE DEF InPairs
<1> DEFINE pair(x) == CHOOSE p \in pairs : p[1] = x
           F == [x \in A |-> pair(x)[2]]
<1>1. \A x \in A : pair(x) \in pairs /\ pair(x)[1] = x
  OBVIOUS
<1> HIDE DEF pair
<1>2. F \in [A -> B]
  <2> SUFFICES ASSUME NEW x \in A PROVE pair(x)[2] \in B
    OBVIOUS
  <2> QED
    BY <1>1
<1>3. ASSUME NEW x \in A, NEW y \in A, F[x] = F[y]
      PROVE  x = y
  <2>1. pair(x)[2] = pair(y)[2]
    BY <1>3
  <2> QED
    BY <1>1, <2>1
<1>4. ASSUME NEW y \in B
      PROVE  \E x \in A : F[x] = y
  <2>1. PICK p \in pairs : p[2] = y
    OBVIOUS
  <2>2. p[1] \in A
    OBVIOUS
  <2>3. pair(p[1])[2] = p[2]
    BY <1>1, <2>2
  <2> QED
    BY <2>1, <2>2, <2>3
<1> HIDE DEF F
<1>5. F \in Bijection(A, B)
  BY <1>2, <1>3, <1>4 DEF Bijection, Injection, IsInjective, Surjection
<1> QED
  BY <1>5, FS_Bijection DEF ExistsBijection

\* The passes of a report: what they pair and what they leave over.
Same(o, s)      == Mates(o, DOMAIN o, s, DOMAIN s, "version")
LeftOver(o, s)  == Free(DOMAIN o, Same(o, s), 1)
Unknown(o, s)   == Free(DOMAIN s, Same(o, s), 2)
Updated(o, s)   == Mates(o, LeftOver(o, s), s, Unknown(o, s), "key")
RemovedAt(o, s) == Free(LeftOver(o, s), Updated(o, s), 1)
AddedAt(o, s)   == Free(Unknown(o, s), Updated(o, s), 2)
Moved(o, s)     == Mates(o, RemovedAt(o, s), s, AddedAt(o, s), "name")

LEMMA ActionsAre ==
  ASSUME NEW o, NEW s
  PROVE  Actions(o, s) =
           {Modified(p, o[p[1]], s[p[2]]) : p \in Updated(o, s) \cup Moved(o, s)}
             \cup {Removed(i, o[i]) : i \in Free(RemovedAt(o, s), Moved(o, s), 1)}
             \cup {Added(j, s[j]) : j \in Free(AddedAt(o, s), Moved(o, s), 2)}
BY DEF Actions, Same, LeftOver, Unknown, Updated, RemovedAt, AddedAt, Moved

LEMMA PassPlaces ==
  ASSUME NEW o, NEW s
  PROVE  /\ LeftOver(o, s) \in SUBSET (DOMAIN o) /\ Unknown(o, s) \in SUBSET (DOMAIN s)
         /\ RemovedAt(o, s) \in SUBSET (DOMAIN o) /\ AddedAt(o, s) \in SUBSET (DOMAIN s)
BY DEF LeftOver, Unknown, RemovedAt, AddedAt, Free

LEMMA Passes ==
  ASSUME NEW S, NEW o \in Seq(S), NEW s \in Seq(S)
  PROVE  /\ Same(o, s) \subseteq (DOMAIN o) \X (DOMAIN s)
         /\ \A p \in Same(o, s) : Key(o[p[1]]) = Key(s[p[2]]) /\ o[p[1]].version = s[p[2]].version
         /\ \A p, q \in Same(o, s) : p[1] = q[1] <=> p[2] = q[2]
         /\ Updated(o, s) \subseteq LeftOver(o, s) \X Unknown(o, s)
         /\ \A p \in Updated(o, s) : Key(o[p[1]]) = Key(s[p[2]])
         /\ \A p, q \in Updated(o, s) : p[1] = q[1] <=> p[2] = q[2]
         /\ Moved(o, s) \subseteq RemovedAt(o, s) \X AddedAt(o, s)
         /\ \A p \in Moved(o, s) : o[p[1]].name = s[p[2]].name
         /\ \A p, q \in Moved(o, s) : p[1] = q[1] <=> p[2] = q[2]
<1>1. /\ Same(o, s) \subseteq (DOMAIN o) \X (DOMAIN s)
      /\ \A p \in Same(o, s) : Class("version", o[p[1]]) = Class("version", s[p[2]])
      /\ \A p, q \in Same(o, s) : p[1] = q[1] <=> p[2] = q[2]
  <2> DEFINE I == DOMAIN o
             J == DOMAIN s
  <2>1. I \in SUBSET (DOMAIN o) /\ J \in SUBSET (DOMAIN s)
    OBVIOUS
  <2>2. Same(o, s) = Mates(o, I, s, J, "version")
    BY DEF Same
  <2> HIDE DEF I, J
  <2>3. /\ \A p \in Same(o, s) : Class("version", o[p[1]]) = Class("version", s[p[2]])
        /\ \A p, q \in Same(o, s) : p[1] = q[1] <=> p[2] = q[2]
    BY <2>1, <2>2, MatesOneToOne
  <2>4. Same(o, s) \subseteq (DOMAIN o) \X (DOMAIN s)
    BY DEF Same, Mates
  <2> QED
    BY <2>3, <2>4
<1>2. /\ Updated(o, s) \subseteq LeftOver(o, s) \X Unknown(o, s)
      /\ \A p \in Updated(o, s) : Class("key", o[p[1]]) = Class("key", s[p[2]])
      /\ \A p, q \in Updated(o, s) : p[1] = q[1] <=> p[2] = q[2]
  BY MatesOneToOne, PassPlaces DEF Updated
<1>3. /\ Moved(o, s) \subseteq RemovedAt(o, s) \X AddedAt(o, s)
      /\ \A p \in Moved(o, s) : Class("name", o[p[1]]) = Class("name", s[p[2]])
      /\ \A p, q \in Moved(o, s) : p[1] = q[1] <=> p[2] = q[2]
  BY MatesOneToOne, PassPlaces DEF Moved
<1>4. ASSUME NEW p \in Same(o, s)
      PROVE  Key(o[p[1]]) = Key(s[p[2]]) /\ o[p[1]].version = s[p[2]].version
  <2>1. Class("version", o[p[1]]) = Class("version", s[p[2]])
    BY <1>1
  <2> QED
    BY <2>1 DEF Class
<1>5. ASSUME NEW p \in Updated(o, s)
      PROVE  Key(o[p[1]]) = Key(s[p[2]])
  <2>1. Class("key", o[p[1]]) = Class("key", s[p[2]])
    BY <1>2
  <2> QED
    BY <2>1 DEF Class
<1>6. ASSUME NEW p \in Moved(o, s)
      PROVE  o[p[1]].name = s[p[2]].name
  <2>1. Class("name", o[p[1]]) = Class("name", s[p[2]])
    BY <1>3
  <2> QED
    BY <2>1 DEF Class
<1> QED
  BY <1>1, <1>2, <1>3, <1>4, <1>5, <1>6

\* The components with a name and a version, and what takes one away and adds one.
Of(l, places, n, v)  == {i \in places : l[i].name = n /\ l[i].version = v}
Losses(actions, n, v) == {a \in actions : a.name = n /\ a.from = v /\ a.status # "Added"}
Gains(actions, n, v)  == {a \in actions : a.name = n /\ a.to = v /\ a.status # "Removed"}

\* What a report says of one place of the original it says once.
LEMMA FirstPlace ==
  ASSUME NEW S, NEW o \in Seq(S), NEW s \in Seq(S),
         NEW a \in Actions(o, s), a.status # "Added"
  PROVE  /\ a.at[1] \in LeftOver(o, s)
         /\ a.name = o[a.at[1]].name /\ a.from = o[a.at[1]].version
         /\ \/ a.at \in Updated(o, s) /\ a = Modified(a.at, o[a.at[1]], s[a.at[2]])
            \/ a.at \in Moved(o, s) /\ a = Modified(a.at, o[a.at[1]], s[a.at[2]])
            \/ a.at[1] \in Free(RemovedAt(o, s), Moved(o, s), 1) /\ a = Removed(a.at[1], o[a.at[1]])
<1>1. CASE \E p \in Updated(o, s) \cup Moved(o, s) : a = Modified(p, o[p[1]], s[p[2]])
  <2>1. PICK p \in Updated(o, s) \cup Moved(o, s) : a = Modified(p, o[p[1]], s[p[2]])
    BY <1>1
  <2>2. a.at = p /\ a.name = o[p[1]].name /\ a.from = o[p[1]].version
    BY <2>1 DEF Modified
  <2>3. p[1] \in LeftOver(o, s)
    BY Passes DEF RemovedAt, Free
  <2> QED
    BY <2>1, <2>2, <2>3
<1>2. CASE \E i \in Free(RemovedAt(o, s), Moved(o, s), 1) : a = Removed(i, o[i])
  <2>1. PICK i \in Free(RemovedAt(o, s), Moved(o, s), 1) : a = Removed(i, o[i])
    BY <1>2
  <2>2. a.at[1] = i /\ a.name = o[i].name /\ a.from = o[i].version
    BY <2>1 DEF Removed
  <2>3. i \in LeftOver(o, s)
    BY DEF RemovedAt, Free
  <2> QED
    BY <2>1, <2>2, <2>3
<1>3. ~ \E j \in Free(AddedAt(o, s), Moved(o, s), 2) : a = Added(j, s[j])
  BY DEF Added
<1> QED
  BY <1>1, <1>2, <1>3, ActionsAre

\* And of one place of the presented document.
LEMMA SecondPlace ==
  ASSUME NEW S, NEW o \in Seq(S), NEW s \in Seq(S),
         \A i \in DOMAIN o, j \in DOMAIN s : Key(o[i]) = Key(s[j]) => o[i].name = s[j].name,
         NEW a \in Actions(o, s), a.status # "Removed"
  PROVE  /\ a.at[2] \in Unknown(o, s)
         /\ a.name = s[a.at[2]].name /\ a.to = s[a.at[2]].version
         /\ \/ a.at \in Updated(o, s) /\ a = Modified(a.at, o[a.at[1]], s[a.at[2]])
            \/ a.at \in Moved(o, s) /\ a = Modified(a.at, o[a.at[1]], s[a.at[2]])
            \/ a.at[2] \in Free(AddedAt(o, s), Moved(o, s), 2) /\ a = Added(a.at[2], s[a.at[2]])
<1>1. CASE \E p \in Updated(o, s) \cup Moved(o, s) : a = Modified(p, o[p[1]], s[p[2]])
  <2>1. PICK p \in Updated(o, s) \cup Moved(o, s) : a = Modified(p, o[p[1]], s[p[2]])
    BY <1>1
  <2>2. a.at = p /\ a.name = o[p[1]].name /\ a.to = s[p[2]].version
    BY <2>1 DEF Modified
  <2>3. p[2] \in Unknown(o, s)
    BY Passes DEF AddedAt, Free
  <2>4. p[1] \in DOMAIN o /\ p[2] \in DOMAIN s
    BY <2>3, Passes, PassPlaces
  <2>5. o[p[1]].name = s[p[2]].name
    BY <2>4, Passes
  <2> QED
    BY <2>1, <2>2, <2>3, <2>5
<1>2. CASE \E j \in Free(AddedAt(o, s), Moved(o, s), 2) : a = Added(j, s[j])
  <2>1. PICK j \in Free(AddedAt(o, s), Moved(o, s), 2) : a = Added(j, s[j])
    BY <1>2
  <2>2. a.at[2] = j /\ a.name = s[j].name /\ a.to = s[j].version
    BY <2>1 DEF Added
  <2>3. j \in Unknown(o, s)
    BY DEF AddedAt, Free
  <2> QED
    BY <2>1, <2>2, <2>3
<1>3. ~ \E i \in Free(RemovedAt(o, s), Moved(o, s), 1) : a = Removed(i, o[i])
  BY DEF Removed
<1> QED
  BY <1>1, <1>2, <1>3, ActionsAre

\* What a report takes away of a name and version is what the first pass leaves over of it.
LEMMA LostCount ==
  ASSUME NEW S, NEW o \in Seq(S), NEW s \in Seq(S), NEW n, NEW v
  PROVE  Cardinality(Of(o, LeftOver(o, s), n, v))
           = Cardinality(Losses(Actions(o, s), n, v))
<1> DEFINE L == Of(o, LeftOver(o, s), n, v)
           A == Losses(Actions(o, s), n, v)
           pairs == {p \in L \X A : p[1] = p[2].at[1]}
<1> USE DEF Of, Losses, Gains
<1>1. IsFiniteSet(L)
  <2>1. L \in SUBSET (DOMAIN o)
    BY PassPlaces
  <2> HIDE DEF L
  <2> QED
    BY <2>1, Places
<1>2. \A a \in A : a.at[1] \in L
  BY FirstPlace
<1>3. ASSUME NEW a \in A, NEW b \in A, a.at[1] = b.at[1]
      PROVE  a = b
  <2>1. /\ \/ a.at \in Updated(o, s) /\ a = Modified(a.at, o[a.at[1]], s[a.at[2]])
           \/ a.at \in Moved(o, s) /\ a = Modified(a.at, o[a.at[1]], s[a.at[2]])
           \/ a.at[1] \in Free(RemovedAt(o, s), Moved(o, s), 1) /\ a = Removed(a.at[1], o[a.at[1]])
        /\ \/ b.at \in Updated(o, s) /\ b = Modified(b.at, o[b.at[1]], s[b.at[2]])
           \/ b.at \in Moved(o, s) /\ b = Modified(b.at, o[b.at[1]], s[b.at[2]])
           \/ b.at[1] \in Free(RemovedAt(o, s), Moved(o, s), 1) /\ b = Removed(b.at[1], o[b.at[1]])
    BY FirstPlace
  <2>2. \A p \in Updated(o, s), q \in Moved(o, s) : p[1] # q[1] /\ p[1] \notin RemovedAt(o, s)
    BY Passes DEF RemovedAt, Free
  <2>3. \A q \in Moved(o, s) : q[1] \notin Free(RemovedAt(o, s), Moved(o, s), 1)
    BY DEF Free
  <2>4. \A p \in Updated(o, s) : p[1] \notin Free(RemovedAt(o, s), Moved(o, s), 1)
    BY DEF RemovedAt, Free
  <2>5. \A p, q \in Updated(o, s) : p[1] = q[1] => p = q
    BY Passes
  <2>6. \A p, q \in Moved(o, s) : p[1] = q[1] => p = q
    BY Passes
  <2> QED
    BY <1>3, <2>1, <2>2, <2>3, <2>4, <2>5, <2>6
<1>4. ASSUME NEW i \in L
      PROVE  \E a \in A : a.at[1] = i
  <2>1. CASE \E p \in Updated(o, s) \cup Moved(o, s) : p[1] = i
    <3>1. PICK p \in Updated(o, s) \cup Moved(o, s) : p[1] = i
      BY <2>1
    <3> DEFINE a == Modified(p, o[p[1]], s[p[2]])
    <3>2. a \in Actions(o, s)
      BY ActionsAre
    <3>3. a.at[1] = i /\ a.name = n /\ a.from = v /\ a.status # "Added"
      BY <3>1 DEF Modified
    <3> HIDE DEF a
    <3> QED
      BY <3>2, <3>3
  <2>2. CASE ~ \E p \in Updated(o, s) \cup Moved(o, s) : p[1] = i
    <3>1. i \in Free(RemovedAt(o, s), Moved(o, s), 1)
      BY <2>2 DEF RemovedAt, Free
    <3> DEFINE a == Removed(i, o[i])
    <3>2. a \in Actions(o, s)
      BY <3>1, ActionsAre
    <3>3. a.at[1] = i /\ a.name = n /\ a.from = v /\ a.status # "Added"
      BY DEF Removed
    <3> HIDE DEF a
    <3> QED
      BY <3>2, <3>3
  <2> QED
    BY <2>1, <2>2
<1> HIDE DEF L, A
<1>5. \A p, q \in pairs : p[1] = q[1] <=> p[2] = q[2]
  BY <1>3
<1>6. \A i \in L : \E p \in pairs : p[1] = i
  <2> SUFFICES ASSUME NEW i \in L PROVE \E p \in pairs : p[1] = i
    OBVIOUS
  <2>1. PICK a \in A : a.at[1] = i
    BY <1>4
  <2>2. <<i, a>> \in pairs /\ <<i, a>>[1] = i
    BY <2>1
  <2> QED
    BY <2>2
<1>7. \A a \in A : \E p \in pairs : p[2] = a
  <2> SUFFICES ASSUME NEW a \in A PROVE \E p \in pairs : p[2] = a
    OBVIOUS
  <2>1. <<a.at[1], a>> \in pairs /\ <<a.at[1], a>>[2] = a
    BY <1>2
  <2> QED
    BY <2>1
<1>8. pairs \in SUBSET (L \X A)
  OBVIOUS
<1>9. InPairs(L, A, pairs)
  BY <1>5, <1>6, <1>7, <1>8 DEF InPairs
<1> HIDE DEF pairs
<1>10. Cardinality(L) = Cardinality(A)
  BY <1>1, <1>9, PairsCount
<1> QED
  BY <1>10 DEF L, A

\* What it adds is what no pass before knew of the presented document.
LEMMA GainedCount ==
  ASSUME NEW S, NEW o \in Seq(S), NEW s \in Seq(S), NEW n, NEW v,
         \A i \in DOMAIN o, j \in DOMAIN s : Key(o[i]) = Key(s[j]) => o[i].name = s[j].name
  PROVE  Cardinality(Of(s, Unknown(o, s), n, v))
           = Cardinality(Gains(Actions(o, s), n, v))
<1> DEFINE U == Of(s, Unknown(o, s), n, v)
           A == Gains(Actions(o, s), n, v)
           pairs == {p \in U \X A : p[1] = p[2].at[2]}
<1> USE DEF Of, Losses, Gains
<1>1. IsFiniteSet(U)
  <2>1. U \in SUBSET (DOMAIN s)
    BY PassPlaces
  <2> HIDE DEF U
  <2> QED
    BY <2>1, Places
<1>2. \A a \in A : a.at[2] \in U
  BY SecondPlace
<1>3. ASSUME NEW a \in A, NEW b \in A, a.at[2] = b.at[2]
      PROVE  a = b
  <2>1. /\ \/ a.at \in Updated(o, s) /\ a = Modified(a.at, o[a.at[1]], s[a.at[2]])
           \/ a.at \in Moved(o, s) /\ a = Modified(a.at, o[a.at[1]], s[a.at[2]])
           \/ a.at[2] \in Free(AddedAt(o, s), Moved(o, s), 2) /\ a = Added(a.at[2], s[a.at[2]])
        /\ \/ b.at \in Updated(o, s) /\ b = Modified(b.at, o[b.at[1]], s[b.at[2]])
           \/ b.at \in Moved(o, s) /\ b = Modified(b.at, o[b.at[1]], s[b.at[2]])
           \/ b.at[2] \in Free(AddedAt(o, s), Moved(o, s), 2) /\ b = Added(b.at[2], s[b.at[2]])
    BY SecondPlace
  <2>2. \A p \in Updated(o, s), q \in Moved(o, s) : p[2] # q[2] /\ p[2] \notin AddedAt(o, s)
    BY Passes DEF AddedAt, Free
  <2>3. \A q \in Moved(o, s) : q[2] \notin Free(AddedAt(o, s), Moved(o, s), 2)
    BY DEF Free
  <2>4. \A p \in Updated(o, s) : p[2] \notin Free(AddedAt(o, s), Moved(o, s), 2)
    BY DEF AddedAt, Free
  <2>5. \A p, q \in Updated(o, s) : p[2] = q[2] => p = q
    BY Passes
  <2>6. \A p, q \in Moved(o, s) : p[2] = q[2] => p = q
    BY Passes
  <2> QED
    BY <1>3, <2>1, <2>2, <2>3, <2>4, <2>5, <2>6
<1>4. ASSUME NEW j \in U
      PROVE  \E a \in A : a.at[2] = j
  <2>1. CASE \E p \in Updated(o, s) \cup Moved(o, s) : p[2] = j
    <3>1. PICK p \in Updated(o, s) \cup Moved(o, s) : p[2] = j
      BY <2>1
    <3> DEFINE a == Modified(p, o[p[1]], s[p[2]])
    <3>2. a \in Actions(o, s)
      BY ActionsAre
    <3>3. a.at[2] = j /\ a.status # "Removed"
      BY <3>1 DEF Modified
    <3> HIDE DEF a
    <3>4. a.name = n /\ a.to = v
      BY <3>2, <3>3, SecondPlace
    <3> QED
      BY <3>2, <3>3, <3>4
  <2>2. CASE ~ \E p \in Updated(o, s) \cup Moved(o, s) : p[2] = j
    <3>1. j \in Free(AddedAt(o, s), Moved(o, s), 2)
      BY <2>2 DEF AddedAt, Free
    <3> DEFINE a == Added(j, s[j])
    <3>2. a \in Actions(o, s)
      BY <3>1, ActionsAre
    <3>3. a.at[2] = j /\ a.name = n /\ a.to = v /\ a.status # "Removed"
      BY DEF Added
    <3> HIDE DEF a
    <3> QED
      BY <3>2, <3>3
  <2> QED
    BY <2>1, <2>2
<1> HIDE DEF U, A
<1>5. \A p, q \in pairs : p[1] = q[1] <=> p[2] = q[2]
  BY <1>3
<1>6. \A j \in U : \E p \in pairs : p[1] = j
  <2> SUFFICES ASSUME NEW j \in U PROVE \E p \in pairs : p[1] = j
    OBVIOUS
  <2>1. PICK a \in A : a.at[2] = j
    BY <1>4
  <2>2. <<j, a>> \in pairs /\ <<j, a>>[1] = j
    BY <2>1
  <2> QED
    BY <2>2
<1>7. \A a \in A : \E p \in pairs : p[2] = a
  <2> SUFFICES ASSUME NEW a \in A PROVE \E p \in pairs : p[2] = a
    OBVIOUS
  <2>1. <<a.at[2], a>> \in pairs /\ <<a.at[2], a>>[2] = a
    BY <1>2
  <2> QED
    BY <2>1
<1>8. pairs \in SUBSET (U \X A)
  OBVIOUS
<1>9. InPairs(U, A, pairs)
  BY <1>5, <1>6, <1>7, <1>8 DEF InPairs
<1> HIDE DEF pairs
<1>10. Cardinality(U) = Cardinality(A)
  BY <1>1, <1>9, PairsCount
<1> QED
  BY <1>10 DEF U, A

\* Of a name and version the first pass pairs as many here as there.
LEMMA SameCount ==
  ASSUME NEW S, NEW o \in Seq(S), NEW s \in Seq(S), NEW n, NEW v,
         \A i \in DOMAIN o, j \in DOMAIN s : Key(o[i]) = Key(s[j]) => o[i].name = s[j].name
  PROVE  Cardinality(Of(o, (DOMAIN o) \ LeftOver(o, s), n, v))
           = Cardinality(Of(s, (DOMAIN s) \ Unknown(o, s), n, v))
<1> DEFINE A == Of(o, (DOMAIN o) \ LeftOver(o, s), n, v)
           B == Of(s, (DOMAIN s) \ Unknown(o, s), n, v)
           pairs == {p \in Same(o, s) : p[1] \in A}
<1> USE DEF Of, Losses, Gains
<1>1. IsFiniteSet(A)
  <2>1. A \in SUBSET (DOMAIN o)
    OBVIOUS
  <2> HIDE DEF A
  <2> QED
    BY <2>1, Places
<1>2. \A p \in Same(o, s) : /\ p[1] \in DOMAIN o /\ p[2] \in DOMAIN s
                            /\ p[1] \notin LeftOver(o, s) /\ p[2] \notin Unknown(o, s)
  BY Passes DEF LeftOver, Unknown, Free
<1>3. \A p \in Same(o, s) : o[p[1]].name = s[p[2]].name /\ o[p[1]].version = s[p[2]].version
  BY <1>2, Passes
<1>4. \A p \in Same(o, s) : p[1] \in A <=> p[2] \in B
  BY <1>2, <1>3
<1>5. \A i \in A : \E p \in Same(o, s) : p[1] = i
  BY DEF LeftOver, Free
<1>6. \A j \in B : \E p \in Same(o, s) : p[2] = j
  BY DEF Unknown, Free
<1>7. \A p, q \in Same(o, s) : p[1] = q[1] <=> p[2] = q[2]
  BY Passes
<1>8. pairs \in SUBSET (A \X B)
  <2> SUFFICES ASSUME NEW p \in pairs PROVE p \in A \X B
    OBVIOUS
  <2>1. p[1] \in A /\ p[2] \in B
    BY <1>4
  <2>2. p \in (DOMAIN o) \X (DOMAIN s)
    BY Passes
  <2> HIDE DEF A, B
  <2> QED
    BY <2>1, <2>2
<1> HIDE DEF A, B
<1>9. \A i \in A : \E p \in pairs : p[1] = i
  BY <1>5
<1>10. \A j \in B : \E p \in pairs : p[2] = j
  BY <1>4, <1>6
<1>11. \A p, q \in pairs : p[1] = q[1] <=> p[2] = q[2]
  BY <1>7
<1>12. InPairs(A, B, pairs)
  BY <1>8, <1>9, <1>10, <1>11 DEF InPairs
<1> HIDE DEF pairs
<1>13. Cardinality(A) = Cardinality(B)
  BY <1>1, <1>12, PairsCount
<1> QED
  BY <1>13 DEF A, B

\* A list is what the first pass leaves over and what it pairs.
LEMMA CountSplit ==
  ASSUME NEW B, NEW C, IsFiniteSet(B \cup C), B \cap C = {}
  PROVE  /\ Cardinality(B \cup C) = Cardinality(B) + Cardinality(C)
         /\ Cardinality(B) \in Nat /\ Cardinality(C) \in Nat
<1>1. IsFiniteSet(B) /\ IsFiniteSet(C)
  BY FS_Subset
<1>2. Cardinality(B) \in Nat /\ Cardinality(C) \in Nat
  BY <1>1, FS_CardinalityType
<1>3. Cardinality(B \cap C) = 0
  BY FS_EmptySet
<1>4. Cardinality(B \cup C) = Cardinality(B) + Cardinality(C) - Cardinality(B \cap C)
  BY <1>1, FS_Union
<1> QED
  BY <1>2, <1>3, <1>4

\* The report accounts for every component (analyzeTampering, sbomDiffEngine.js:121-268):
\* if components that share a key share their name, each name in each version is listed by
\* the presented document as often as by the original, less the times it was removed or
\* changed from it, plus the times it was added or changed to it.
THEOREM ActionsAccount ==
  ASSUME NEW S, NEW o \in Seq(S), NEW s \in Seq(S), NEW n, NEW v,
         \A i \in DOMAIN o, j \in DOMAIN s : Key(o[i]) = Key(s[j]) => o[i].name = s[j].name
  PROVE  Cardinality(Of(s, DOMAIN s, n, v))
           = Cardinality(Of(o, DOMAIN o, n, v))
               - Cardinality(Losses(Actions(o, s), n, v))
               + Cardinality(Gains(Actions(o, s), n, v))
<1> DEFINE O == Of(o, DOMAIN o, n, v)
           P == Of(s, DOMAIN s, n, v)
           OL == Of(o, LeftOver(o, s), n, v)
           OS == Of(o, (DOMAIN o) \ LeftOver(o, s), n, v)
           PU == Of(s, Unknown(o, s), n, v)
           PS == Of(s, (DOMAIN s) \ Unknown(o, s), n, v)
           lost == Cardinality(Losses(Actions(o, s), n, v))
           gained == Cardinality(Gains(Actions(o, s), n, v))
<1>1. Cardinality(OL) = lost
  BY LostCount
<1>2. Cardinality(PU) = gained
  BY GainedCount
<1>3. Cardinality(OS) = Cardinality(PS)
  BY SameCount
<1>4. O \in SUBSET (DOMAIN o) /\ P \in SUBSET (DOMAIN s)
  BY DEF Of
<1>5. O = OL \cup OS /\ OL \cap OS = {} /\ P = PU \cup PS /\ PU \cap PS = {}
  BY PassPlaces DEF Of
<1> HIDE DEF O, P, OL, OS, PU, PS, lost, gained
<1>6. IsFiniteSet(O) /\ IsFiniteSet(P)
  BY <1>4, Places
<1>7. Cardinality(O) = Cardinality(OL) + Cardinality(OS) /\ Cardinality(OL) \in Nat /\ Cardinality(OS) \in Nat
  BY <1>5, <1>6, CountSplit
<1>8. Cardinality(P) = Cardinality(PU) + Cardinality(PS) /\ Cardinality(PU) \in Nat /\ Cardinality(PS) \in Nat
  BY <1>5, <1>6, CountSplit
<1>9. Cardinality(P) = Cardinality(O) - lost + gained
  BY <1>1, <1>2, <1>3, <1>7, <1>8
<1> QED
  BY <1>9 DEF O, P, lost, gained

\* The report never calls a component removed that came back under its name: a removal and
\* an injection of one name are a modification (sbomDiffEngine.js:196-244).
THEOREM NothingLeftOver ==
  ASSUME NEW S, NEW o \in Seq(S), NEW s \in Seq(S),
         NEW a \in Actions(o, s), a.status = "Removed",
         NEW b \in Actions(o, s), b.status = "Added"
  PROVE  a.name # b.name
<1>1. \A p, c, d : Modified(p, c, d).status = "Modified"
  BY DEF Modified
<1>2. PICK i \in Free(RemovedAt(o, s), Moved(o, s), 1) : a = Removed(i, o[i])
  BY <1>1, ActionsAre DEF Added
<1>3. PICK j \in Free(AddedAt(o, s), Moved(o, s), 2) : b = Added(j, s[j])
  BY <1>1, ActionsAre DEF Removed
<1>4. a.name = o[i].name /\ b.name = s[j].name
  BY <1>2, <1>3 DEF Removed, Added
<1> DEFINE I == RemovedAt(o, s)
           J == AddedAt(o, s)
<1>5. I \in SUBSET (DOMAIN o) /\ J \in SUBSET (DOMAIN s)
  BY PassPlaces
<1>6. i \in Free(I, Mates(o, I, s, J, "name"), 1) /\ j \in Free(J, Mates(o, I, s, J, "name"), 2)
  BY DEF Moved
<1> HIDE DEF I, J
<1>7. Class("name", o[i]) # Class("name", s[j])
  BY <1>5, <1>6, MatesMaximal
<1> QED
  BY <1>4, <1>7 DEF Class

\* The label of a report says the truth: one that blames the metadata, or nothing it knows,
\* means that both documents list the same components, if components that share a key share
\* their name (sbomDiffEngine.js:279-290).
THEOREM MetadataLabel ==
  ASSUME NEW S, NEW o, NEW s, o.components \in Seq(S), s.components \in Seq(S),
         \A i \in DOMAIN o.components, j \in DOMAIN s.components :
           Key(o.components[i]) = Key(s.components[j]) => o.components[i].name = s.components[j].name,
         TamperType(o, s) \in {"FIELD_LEVEL_METADATA_MODIFICATION", "OTHER_MODIFICATION"},
         NEW n, NEW v
  PROVE  Cardinality(Of(s.components, DOMAIN s.components, n, v))
           = Cardinality(Of(o.components, DOMAIN o.components, n, v))
<1> DEFINE O == o.components
           P == s.components
<1>1. \A a \in Actions(O, P) : a.status \notin {"Added", "Removed", "Modified"}
  BY DEF TamperType, ComponentActions
<1>2. \A a \in Actions(O, P) : a.status \in {"Added", "Removed", "Modified"}
  BY ActionsAre DEF Added, Removed, Modified
<1>3. Losses(Actions(O, P), n, v) = {} /\ Gains(Actions(O, P), n, v) = {}
  BY <1>1, <1>2 DEF Losses, Gains
<1>4. O \in Seq(S) /\ P \in Seq(S) /\ \A i \in DOMAIN O, j \in DOMAIN P : Key(O[i]) = Key(P[j]) => O[i].name = P[j].name
  OBVIOUS
<1> HIDE DEF O, P
<1>5. Cardinality(Of(P, DOMAIN P, n, v)) = Cardinality(Of(O, DOMAIN O, n, v)) - 0 + 0
  <2>1. Cardinality({}) = 0
    BY FS_EmptySet
  <2>2. Cardinality(Of(P, DOMAIN P, n, v))
          = Cardinality(Of(O, DOMAIN O, n, v))
              - Cardinality(Losses(Actions(O, P), n, v)) + Cardinality(Gains(Actions(O, P), n, v))
    BY <1>4, ActionsAccount
  <2> QED
    BY <1>3, <2>1, <2>2
<1>6. Cardinality(Of(O, DOMAIN O, n, v)) \in Nat
  <2>1. Of(O, DOMAIN O, n, v) \in SUBSET (DOMAIN O)
    BY DEF Of
  <2> QED
    BY <1>4, <2>1, Places
<1> QED
  BY <1>5, <1>6 DEF O, P
=============================================================================
