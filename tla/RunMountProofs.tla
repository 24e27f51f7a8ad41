---------------------------- MODULE RunMountProofs ----------------------------
(***************************************************************************)
(* Proofs about RunMount, for any number of elements, frames, Contexts,      *)
(* relations, people and situations: the worklist that compiles an           *)
(* instruction ends with its whole meaning; what an agent is handed as an    *)
(* instruction was approved as it is; and a guest's words stay out.          *)
(***************************************************************************)
EXTENDS RunMount, FiniteSetTheorems, WellFoundedInduction, TLAPS

-----------------------------------------------------------------------------
(* Growing a set.  The library's induction rules take a predicate, which no  *)
(* prover here can instantiate; that every set of numbers has a least         *)
(* element does as well.                                                      *)

\* A set of naturals that is not empty has a least element.
LEMMA LeastNat ==
    ASSUME NEW T \in SUBSET Nat, T # {}
    PROVE  \E n \in T : \A m \in T : n <= m
<1>. DEFINE R == OpToRel(<, Nat)
<1>1. IsWellFoundedOn(R, Nat)
  BY NatLessThanWellFounded
<1>2. \A x, y \in Nat : x < y => <<x, y>> \in R
  BY DEF OpToRel
<1>. HIDE DEF R
<1>3. PICK n \in T : \A m \in T : ~(<<m, n>> \in R)
  BY <1>1, WFMin
<1>4. ASSUME NEW m \in T PROVE n <= m
  <2>1. n \in Nat /\ m \in Nat /\ ~(<<m, n>> \in R)
    BY <1>3
  <2>2. ~(m < n)
    BY <1>2, <2>1
  <2>. QED
    BY <2>1, <2>2
<1>. QED
  BY <1>4

\* What holds at first and from each number to the next holds of every number.
LEMMA Climb ==
    ASSUME NEW N \in Nat, NEW G \in SUBSET (0 .. N), 0 \in G,
           \A k \in 0 .. N : k # N /\ k \in G => k + 1 \in G
    PROVE  \A k \in 0 .. N : k \in G
<1>. DEFINE T == (0 .. N) \ G
<1>1. ASSUME T # {} PROVE FALSE
  <2>1. T \in SUBSET Nat
    OBVIOUS
  <2>2. PICK n \in T : \A m \in T : n <= m
    BY <1>1, <2>1, LeastNat
  <2>3. n # 0 /\ n \in 1 .. N
    BY <2>2
  <2>4. n - 1 \in 0 .. N /\ n - 1 # N /\ ~(n <= n - 1) /\ (n - 1) + 1 = n
    BY <2>3
  <2>5. n - 1 \in G
    BY <2>2, <2>4
  <2>6. n \in G
    BY <2>4, <2>5
  <2>. QED
    BY <2>2, <2>6
<1>. QED
  BY <1>1

\* The steps f of a function F from s.
Steps(f, F, s, N) == f = [k \in 0 .. N |-> IF k = 0 THEN s ELSE F[f[k - 1]]]

\* An operation can be applied any number of times.
LEMMA StepsThere ==
    ASSUME NEW N \in Nat, NEW D, NEW F \in [D -> D], NEW s \in D
    PROVE  \E f \in [0 .. N -> D] : Steps(f, F, s, N)
<1>. DEFINE Good(n) == \E f \in [0 .. n -> D] : Steps(f, F, s, n)
            G == {n \in 0 .. N : Good(n)}
<1>1. Good(0)
  <2>. DEFINE f == [k \in 0 .. 0 |-> s]
  <2>1. \A k \in 0 .. 0 : k = 0
    OBVIOUS
  <2>2. f \in [0 .. 0 -> D] /\ Steps(f, F, s, 0)
    BY <2>1 DEF Steps
  <2>. QED
    BY <2>2
<1>2. ASSUME NEW n \in 0 .. N, n # N, Good(n) PROVE Good(n + 1)
  <2>1. PICK f \in [0 .. n -> D] : Steps(f, F, s, n)
    BY <1>2
  <2>. DEFINE g == [k \in 0 .. n + 1 |-> IF k = n + 1 THEN F[f[n]] ELSE f[k]]
  <2>2. n \in 0 .. n /\ f[n] \in D /\ F[f[n]] \in D
    BY <2>1
  <2>3. g \in [0 .. n + 1 -> D]
    BY <2>1, <2>2
  <2>4. ASSUME NEW k \in 0 .. n + 1
        PROVE  g[k] = IF k = 0 THEN s ELSE F[g[k - 1]]
    BY <2>1, <2>4 DEF Steps
  <2>5. Steps(g, F, s, n + 1)
    BY <2>4 DEF Steps
  <2>. QED
    BY <2>3, <2>5
<1>. HIDE DEF Good
<1>3. 0 \in G /\ G \in SUBSET (0 .. N)
  BY <1>1
<1>4. ASSUME NEW k \in 0 .. N, k # N, k \in G PROVE k + 1 \in G
  <2>1. Good(k + 1)
    BY <1>2, <1>4
  <2>2. k + 1 \in 0 .. N
    BY <1>4
  <2>. QED
    BY <2>1, <2>2
<1>. HIDE DEF G
<1>5. \A n \in 0 .. N : n \in G
  BY <1>3, <1>4, Climb
<1>. QED
  BY <1>5 DEF G, Good

\* V holds s, stands still under F and is the least such subset of S.
Least(V, F, s, S) ==
    /\ V \in SUBSET S /\ s \subseteq V /\ F[V] = V
    /\ \A T \in SUBSET S : s \subseteq T /\ (\A x \in SUBSET T : F[x] \subseteq T) => V \subseteq T

\* Sets that grow within a finite set stand still after as many steps as it has
\* elements; what contains the first and each next contains the last.
LEMMA StandsStill ==
    ASSUME NEW S, IsFiniteSet(S), NEW N, N = Cardinality(S),
           NEW F \in [SUBSET S -> SUBSET S], \A x \in SUBSET S : x \subseteq F[x],
           NEW s \in SUBSET S, NEW f \in [0 .. N -> SUBSET S], Steps(f, F, s, N)
    PROVE  Least(f[N], F, s, S)
<1>1. N \in Nat
  BY FS_CardinalityType
<1>2. /\ f[0] = s
      /\ \A k \in 0 .. N : k # N => f[k + 1] = F[f[k]]
  <2>1. f[0] = s
    BY <1>1 DEF Steps
  <2>2. ASSUME NEW k \in 0 .. N, k # N PROVE f[k + 1] = F[f[k]]
    <3>1. k + 1 \in 0 .. N /\ k + 1 # 0 /\ (k + 1) - 1 = k
      BY <1>1, <2>2
    <3>. QED
      BY <3>1 DEF Steps
  <2>. QED
    BY <2>1, <2>2
<1>3. \A k \in 0 .. N : f[k] \in SUBSET S /\ IsFiniteSet(f[k]) /\ Cardinality(f[k]) \in Nat
  <2>1. ASSUME NEW k \in 0 .. N
        PROVE  f[k] \in SUBSET S /\ IsFiniteSet(f[k]) /\ Cardinality(f[k]) \in Nat
    <3>1. f[k] \in SUBSET S
      OBVIOUS
    <3>. QED
      BY <3>1, FS_Subset, FS_CardinalityType
  <2>. QED
    BY <2>1
<1>4. \A k \in 0 .. N : Cardinality(f[k]) >= k \/ F[f[k]] = f[k]
  <2>. DEFINE G == {k \in 0 .. N : Cardinality(f[k]) >= k \/ F[f[k]] = f[k]}
  <2>1. 0 \in G
    BY <1>1, <1>3
  <2>2. ASSUME NEW k \in 0 .. N, k # N, k \in G PROVE k + 1 \in G
    <3>1. k + 1 \in 0 .. N /\ k \in Nat /\ f[k + 1] = F[f[k]]
      BY <1>1, <1>2, <2>2
    <3>2. CASE F[f[k]] = f[k]
      BY <3>1, <3>2
    <3>3. CASE F[f[k]] # f[k] /\ Cardinality(f[k]) >= k
      <4>1. f[k] \in SUBSET f[k + 1] /\ f[k] # f[k + 1]
        BY <1>3, <3>1, <3>3
      <4>2. Cardinality(f[k]) <= Cardinality(f[k + 1]) /\ Cardinality(f[k + 1]) # Cardinality(f[k])
        BY <1>3, <3>1, <4>1, FS_Subset
      <4>3. Cardinality(f[k + 1]) >= k + 1
        BY <1>3, <3>1, <3>3, <4>2
      <4>. QED
        BY <3>1, <4>3
    <3>. QED
      BY <2>2, <3>2, <3>3
  <2>3. \A k \in 0 .. N : k \in G
    BY <1>1, <2>1, <2>2, Climb
  <2>. QED
    BY <2>3
<1>5. F[f[N]] = f[N]
  <2>1. N \in 0 .. N
    BY <1>1
  <2>2. CASE Cardinality(f[N]) >= N
    <3>1. Cardinality(f[N]) <= N
      BY <1>3, <2>1, FS_Subset
    <3>2. Cardinality(S) = Cardinality(f[N])
      BY <1>1, <1>3, <2>1, <2>2, <3>1
    <3>3. f[N] = S
      BY <1>3, <2>1, <3>2, FS_Subset
    <3>4. f[N] \in SUBSET S /\ f[N] \subseteq F[f[N]] /\ F[f[N]] \in SUBSET S
      BY <1>3, <2>1
    <3>. QED
      BY <3>3, <3>4
  <2>. QED
    BY <1>4, <2>1, <2>2
<1>6. \A k \in 0 .. N : s \subseteq f[k]
  <2>. DEFINE G == {k \in 0 .. N : s \subseteq f[k]}
  <2>1. 0 \in G
    BY <1>1, <1>2
  <2>2. ASSUME NEW k \in 0 .. N, k # N, k \in G PROVE k + 1 \in G
    <3>1. k + 1 \in 0 .. N /\ f[k + 1] = F[f[k]]
      BY <1>1, <1>2, <2>2
    <3>2. f[k] \subseteq F[f[k]]
      BY <1>3
    <3>. QED
      BY <2>2, <3>1, <3>2
  <2>3. \A k \in 0 .. N : k \in G
    BY <1>1, <2>1, <2>2, Climb
  <2>. QED
    BY <2>3
<1>7. ASSUME NEW T \in SUBSET S, s \subseteq T, \A x \in SUBSET T : F[x] \subseteq T
      PROVE  f[N] \subseteq T
  <2>. DEFINE G == {k \in 0 .. N : f[k] \subseteq T}
  <2>1. 0 \in G
    BY <1>1, <1>2, <1>7
  <2>2. ASSUME NEW k \in 0 .. N, k # N, k \in G PROVE k + 1 \in G
    <3>1. k + 1 \in 0 .. N /\ f[k + 1] = F[f[k]]
      BY <1>1, <1>2, <2>2
    <3>. QED
      BY <1>7, <2>2, <3>1
  <2>3. \A k \in 0 .. N : k \in G
    BY <1>1, <2>1, <2>2, Climb
  <2>. QED
    BY <1>1, <2>3
<1>. QED
  BY <1>1, <1>3, <1>5, <1>6, <1>7 DEF Least

-----------------------------------------------------------------------------
(* The worklist.                                                           *)

\* What the relations rels lead to from the elements x.
Ahead(rels, x) == x \union {r.to : r \in From(rels, x)}

\* visit ends with a set that its relations do not leave, and the least one.
LEMMA Visited ==
    ASSUME NEW rels \in SUBSET Relation, NEW start \in SUBSET Ids
    PROVE  /\ Visit(rels, start) \in SUBSET Ids /\ start \subseteq Visit(rels, start)
           /\ \A r \in From(rels, Visit(rels, start)) : r.to \in Visit(rels, start)
           /\ \A T \in SUBSET Ids :
                 start \subseteq T /\ (\A r \in From(rels, T) : r.to \in T)
                    => Visit(rels, start) \subseteq T
<1>1. IsFiniteSet(Ids)
  BY MountAssumption
<1>2. PICK N : N = Cardinality(Ids)
  OBVIOUS
<1>3. N \in Nat
  BY <1>1, <1>2, FS_CardinalityType
<1>. DEFINE Good(f) == f = [k \in 0 .. N |-> IF k = 0 THEN start ELSE Ahead(rels, f[k - 1])]
            F == [x \in SUBSET Ids |-> Ahead(rels, x)]
<1>4. F \in [SUBSET Ids -> SUBSET Ids] /\ \A x \in SUBSET Ids : x \subseteq F[x]
  BY DEF Ahead, From, Relation
<1>5. ASSUME NEW f, Good(f)
      PROVE  f \in [0 .. N -> SUBSET Ids] /\ Steps(f, F, start, N)
  <2>1. f[0] = start /\ \A k \in 0 .. N : k # 0 => f[k] = Ahead(rels, f[k - 1])
    BY <1>3, <1>5
  <2>. DEFINE G == {k \in 0 .. N : f[k] \in SUBSET Ids}
  <2>2. 0 \in G
    BY <1>3, <2>1
  <2>3. ASSUME NEW k \in 0 .. N, k # N, k \in G PROVE k + 1 \in G
    <3>1. k + 1 \in 0 .. N /\ k + 1 # 0 /\ (k + 1) - 1 = k
      BY <1>3, <2>3
    <3>2. f[k + 1] = Ahead(rels, f[k])
      BY <2>1, <3>1
    <3>. QED
      BY <1>4, <2>3, <3>1, <3>2
  <2>4. \A k \in 0 .. N : f[k] \in SUBSET Ids
    <3>1. G \in SUBSET (0 .. N)
      OBVIOUS
    <3>. HIDE DEF G
    <3>2. \A k \in 0 .. N : k \in G
      BY <1>3, <2>2, <2>3, <3>1, Climb
    <3>. QED
      BY <3>2 DEF G
  <2>5. ASSUME NEW k \in 0 .. N, k # 0 PROVE Ahead(rels, f[k - 1]) = F[f[k - 1]]
    BY <1>3, <2>4, <2>5
  <2>6. f = [k \in 0 .. N |-> f[k]]
    BY <1>5
  <2>. HIDE DEF F
  <2>7. f \in [0 .. N -> SUBSET Ids]
    BY <2>4, <2>6
  <2>8. f = [k \in 0 .. N |-> IF k = 0 THEN start ELSE F[f[k - 1]]]
    BY <2>1, <2>5, <2>6
  <2>. QED
    BY <2>7, <2>8 DEF Steps
<1>6. \E f : Good(f)
  <2>1. PICK f \in [0 .. N -> SUBSET Ids] : Steps(f, F, start, N)
    BY <1>3, <1>4, StepsThere
  <2>2. ASSUME NEW k \in 0 .. N, k # 0 PROVE Ahead(rels, f[k - 1]) = F[f[k - 1]]
    BY <1>3, <2>1, <2>2
  <2>. HIDE DEF F
  <2>3. Good(f)
    BY <2>1, <2>2 DEF Steps
  <2>. QED
    BY <2>3
<1>. DEFINE seen == CHOOSE f : Good(f)
<1>7. Good(seen)
  <2>. HIDE DEF Good
  <2>. QED
    BY <1>6, Zenon
<1>8. Visit(rels, start) = seen[N]
  BY <1>2 DEF Visit, Ahead
<1>. HIDE DEF seen, Good
<1>9. seen \in [0 .. N -> SUBSET Ids] /\ Steps(seen, F, start, N)
  BY <1>5, <1>7
<1>. HIDE DEF F
<1>10. Least(seen[N], F, start, Ids)
  BY <1>1, <1>2, <1>4, <1>9, StandsStill
<1>11. PICK V : V = Visit(rels, start)
  OBVIOUS
<1>12. V \in SUBSET Ids /\ start \subseteq V /\ Ahead(rels, V) = V
  BY <1>8, <1>10, <1>11 DEF F, Least
<1>13. ASSUME NEW T \in SUBSET Ids, start \subseteq T, \A r \in From(rels, T) : r.to \in T
       PROVE  V \subseteq T
  <2>1. ASSUME NEW x \in SUBSET T PROVE F[x] \subseteq T
    <3>1. F[x] = Ahead(rels, x)
      BY <1>13 DEF F
    <3>. QED
      BY <1>13, <3>1 DEF Ahead, From
  <2>. QED
    BY <1>8, <1>10, <1>11, <1>13, <2>1 DEF Least
<1>14. \A r \in From(rels, V) : r.to \in V
  BY <1>12 DEF Ahead
<1>. QED
  BY <1>11, <1>12, <1>13, <1>14

\* A visit of the relations stays within every closed set that holds its start.
LEMMA VisitedLeast ==
    ASSUME NEW rels \in SUBSET Relation, NEW start \in SUBSET Ids, NEW T \in SUBSET Ids,
           start \subseteq T, \A r \in From(rels, T) : r.to \in T
    PROVE  Visit(rels, start) \subseteq T
<1>1. PICK V : V = Visit(rels, start)
  OBVIOUS
<1>2. \A U \in SUBSET Ids :
         start \subseteq U /\ (\A r \in From(rels, U) : r.to \in U) => V \subseteq U
  BY <1>1, Visited
<1>. QED
  BY <1>1, <1>2

\* One round of the outer worklist: the members of whole frames, and what they lead to.
Round(rev, c, x) == Visit(Of(rev, c), x \union Members(rev, c, x))

\* One round of the worklist grows within every closed set, and closes the relations.
LEMMA RoundParts ==
    ASSUME NEW rev, rev.relations \in SUBSET Relation, NEW c, NEW x \in SUBSET Ids
    PROVE  /\ Round(rev, c, x) \in SUBSET Ids /\ x \subseteq Round(rev, c, x)
           /\ Members(rev, c, x) \subseteq Round(rev, c, x)
           /\ \A r \in From(Of(rev, c), Round(rev, c, x)) : r.to \in Round(rev, c, x)
           /\ \A T \in SUBSET Ids : x \subseteq T /\ Closed(rev, c, T) => Round(rev, c, x) \subseteq T
<1>1. Of(rev, c) \in SUBSET Relation
  BY DEF Of
<1>2. PICK rels : rels = Of(rev, c)
  OBVIOUS
<1>3. PICK start : start = x \union Members(rev, c, x)
  OBVIOUS
<1>4. start \in SUBSET Ids
  BY <1>3 DEF Members, Inside, Present
<1>5. Round(rev, c, x) = Visit(rels, start)
  BY <1>2, <1>3 DEF Round
<1>6. /\ Visit(rels, start) \in SUBSET Ids /\ start \subseteq Visit(rels, start)
      /\ \A r \in From(rels, Visit(rels, start)) : r.to \in Visit(rels, start)
  BY <1>1, <1>2, <1>4, Visited
<1>7. ASSUME NEW T \in SUBSET Ids, x \subseteq T, Closed(rev, c, T)
      PROVE  Round(rev, c, x) \subseteq T
  <2>1. \A r \in From(rels, T) : r.to \in T
    BY <1>2, <1>7 DEF Closed
  <2>2. Members(rev, c, x) \subseteq T
    <3>1. ASSUME NEW e \in Members(rev, c, x) PROVE e \in T
      <4>1. PICK r \in From(Of(rev, c), x) :
                r.whole /\ e \in Inside(rev.scene, r.to) /\ HomeOf(rev, e) = c
        BY <3>1 DEF Members
      <4>2. r \in From(Of(rev, c), T)
        BY <1>7, <4>1 DEF From
      <4>. QED
        BY <1>7, <4>1, <4>2 DEF Closed
    <3>. QED
      BY <3>1
  <2>3. start \subseteq T
    BY <1>3, <1>7, <2>2
  <2>. QED
    BY <1>1, <1>2, <1>4, <1>5, <2>1, <2>3, VisitedLeast
<1>. QED
  BY <1>2, <1>3, <1>5, <1>6, <1>7

\* The growing worklist ends with what an instruction means.
LEMMA Reached ==
    ASSUME NEW rev, rev.relations \in SUBSET Relation, NEW c, NEW i \in Ids
    PROVE  /\ Reachable(rev, c, i) \in SUBSET Ids /\ i \in Reachable(rev, c, i)
           /\ Closed(rev, c, Reachable(rev, c, i))
           /\ \A T \in SUBSET Ids : i \in T /\ Closed(rev, c, T) => Reachable(rev, c, i) \subseteq T
<1>1. IsFiniteSet(Ids)
  BY MountAssumption
<1>2. PICK N : N = Cardinality(Ids)
  OBVIOUS
<1>3. N \in Nat
  BY <1>1, <1>2, FS_CardinalityType
<1>4. PICK start : start = Visit(Of(rev, c), {i})
  OBVIOUS
<1>5. /\ start \in SUBSET Ids /\ i \in start
      /\ \A T \in SUBSET Ids : i \in T /\ Closed(rev, c, T) => start \subseteq T
  <2>1. Of(rev, c) \in SUBSET Relation /\ {i} \in SUBSET Ids
    BY DEF Of
  <2>2. PICK rels, one : rels = Of(rev, c) /\ one = {i}
    OBVIOUS
  <2>3. ASSUME NEW T \in SUBSET Ids, i \in T, Closed(rev, c, T) PROVE start \subseteq T
    <3>1. one \subseteq T /\ \A r \in From(rels, T) : r.to \in T
      BY <2>2, <2>3 DEF Closed
    <3>. QED
      BY <1>4, <2>1, <2>2, <3>1, VisitedLeast
  <2>4. start \in SUBSET Ids /\ one \subseteq start
    <3>1. rels \in SUBSET Relation /\ one \in SUBSET Ids /\ start = Visit(rels, one)
      BY <1>4, <2>1, <2>2
    <3>2. Visit(rels, one) \in SUBSET Ids /\ one \subseteq Visit(rels, one)
      BY <3>1, Visited
    <3>. QED
      BY <3>1, <3>2
  <2>. QED
    BY <2>2, <2>3, <2>4
<1>. DEFINE Good(f) == f = [k \in 0 .. N |-> IF k = 0 THEN start ELSE Round(rev, c, f[k - 1])]
            F == [x \in SUBSET Ids |-> Round(rev, c, x)]
<1>6. F \in [SUBSET Ids -> SUBSET Ids] /\ \A x \in SUBSET Ids : x \subseteq F[x]
  BY RoundParts
<1>7. ASSUME NEW f, Good(f)
      PROVE  f \in [0 .. N -> SUBSET Ids] /\ Steps(f, F, start, N)
  <2>1. f[0] = start /\ \A k \in 0 .. N : k # 0 => f[k] = Round(rev, c, f[k - 1])
    BY <1>3, <1>7
  <2>. DEFINE G == {k \in 0 .. N : f[k] \in SUBSET Ids}
  <2>2. 0 \in G
    BY <1>3, <1>5, <2>1
  <2>3. ASSUME NEW k \in 0 .. N, k # N, k \in G PROVE k + 1 \in G
    <3>1. k + 1 \in 0 .. N /\ k + 1 # 0 /\ (k + 1) - 1 = k
      BY <1>3, <2>3
    <3>2. f[k + 1] = Round(rev, c, f[k])
      BY <2>1, <3>1
    <3>. QED
      BY <1>6, <2>3, <3>1, <3>2
  <2>4. \A k \in 0 .. N : f[k] \in SUBSET Ids
    <3>1. G \in SUBSET (0 .. N)
      OBVIOUS
    <3>. HIDE DEF G
    <3>2. \A k \in 0 .. N : k \in G
      BY <1>3, <2>2, <2>3, <3>1, Climb
    <3>. QED
      BY <3>2 DEF G
  <2>5. ASSUME NEW k \in 0 .. N, k # 0 PROVE Round(rev, c, f[k - 1]) = F[f[k - 1]]
    BY <1>3, <2>4, <2>5
  <2>6. f = [k \in 0 .. N |-> f[k]]
    BY <1>7
  <2>. HIDE DEF F
  <2>7. f \in [0 .. N -> SUBSET Ids]
    BY <2>4, <2>6
  <2>8. f = [k \in 0 .. N |-> IF k = 0 THEN start ELSE F[f[k - 1]]]
    BY <2>1, <2>5, <2>6
  <2>. QED
    BY <2>7, <2>8 DEF Steps
<1>8. \E f : Good(f)
  <2>1. PICK f \in [0 .. N -> SUBSET Ids] : Steps(f, F, start, N)
    BY <1>3, <1>5, <1>6, StepsThere
  <2>2. ASSUME NEW k \in 0 .. N, k # 0 PROVE Round(rev, c, f[k - 1]) = F[f[k - 1]]
    BY <1>3, <2>1, <2>2
  <2>. HIDE DEF F
  <2>3. Good(f)
    BY <2>1, <2>2 DEF Steps
  <2>. QED
    BY <2>3
<1>. DEFINE grown == CHOOSE f : Good(f)
<1>9. Good(grown)
  <2>. HIDE DEF Good
  <2>. QED
    BY <1>8, Zenon
<1>10. Reachable(rev, c, i) = grown[N]
  BY <1>2, <1>4 DEF Reachable, Round
<1>. HIDE DEF grown, Good
<1>11. grown \in [0 .. N -> SUBSET Ids] /\ Steps(grown, F, start, N)
  BY <1>7, <1>9
<1>. HIDE DEF F
<1>12. Least(grown[N], F, start, Ids)
  BY <1>1, <1>2, <1>5, <1>6, <1>11, StandsStill
<1>13. PICK V : V = Reachable(rev, c, i)
  OBVIOUS
<1>14. V \in SUBSET Ids /\ i \in V /\ Round(rev, c, V) = V
  BY <1>5, <1>10, <1>12, <1>13 DEF F, Least
<1>15. Closed(rev, c, V)
  <2>1. Members(rev, c, V) \subseteq V /\ \A r \in From(Of(rev, c), V) : r.to \in V
    BY <1>14, RoundParts
  <2>2. ASSUME NEW r \in From(Of(rev, c), V), r.whole,
               NEW e \in Inside(rev.scene, r.to), HomeOf(rev, e) = c
        PROVE  e \in V
    BY <2>1, <2>2 DEF Members
  <2>. QED
    BY <2>1, <2>2 DEF Closed
<1>16. ASSUME NEW T \in SUBSET Ids, i \in T, Closed(rev, c, T) PROVE V \subseteq T
  <2>1. ASSUME NEW x \in SUBSET T PROVE F[x] \subseteq T
    <3>1. x \in SUBSET Ids /\ F[x] = Round(rev, c, x)
      BY <1>16 DEF F
    <3>. QED
      BY <1>16, <3>1, RoundParts
  <2>. QED
    BY <1>5, <1>10, <1>12, <1>13, <1>16, <2>1 DEF Least
<1>. QED
  BY <1>13, <1>14, <1>15, <1>16

\* The worklist ends with the least closed set that holds the instruction.
LEMMA MeaningReached ==
    ASSUME NEW rev, rev.relations \in SUBSET Relation, NEW c, NEW i \in Ids
    PROVE  Meaning(rev, c, i) = Reachable(rev, c, i)
<1>1. PICK V : V = Reachable(rev, c, i)
  OBVIOUS
<1>2. /\ V \in SUBSET Ids /\ i \in V /\ Closed(rev, c, V)
      /\ \A T \in SUBSET Ids : i \in T /\ Closed(rev, c, T) => V \subseteq T
  BY <1>1, Reached
<1>. QED
  BY <1>1, <1>2 DEF Meaning

\* What is compiled is the whole meaning of the instruction, well typed and within
\* its Context; nothing is compiled when a relation it depends on does not stand.
LEMMA Compiled ==
    ASSUME NEW rev \in Revision, NEW c \in Contexts, NEW i \in Instructions
    PROVE  /\ Compile(rev, c, i) # None =>
                 /\ Compile(rev, c, i) \in Closure
                 /\ Compile(rev, c, i).context = c /\ Compile(rev, c, i).root = i
                 /\ {n[1] : n \in Compile(rev, c, i).nodes} = Meaning(rev, c, i)
                 /\ \A e \in Meaning(rev, c, i) : HomeOf(rev, e) = c
                 /\ \A r \in From(Of(rev, c), Meaning(rev, c, i)) : Stands(rev, c, r)
           /\ Compile(rev, c, i) = None =>
                 \/ ~(c \in rev.contexts /\ i \in Present(rev.scene) /\ HomeOf(rev, i) = c)
                 \/ \E r \in From(Of(rev, c), Meaning(rev, c, i)) : ~Stands(rev, c, r)
<1>1. rev.relations \in SUBSET Relation /\ rev.scene \in Scene /\ i \in Ids
  BY MountAssumption DEF Revision
<1>2. PICK V : V = Reachable(rev, c, i)
  OBVIOUS
<1>3. /\ V \in SUBSET Ids /\ i \in V /\ Closed(rev, c, V)
      /\ \A T \in SUBSET Ids : i \in T /\ Closed(rev, c, T) => V \subseteq T
  BY <1>1, <1>2, Reached
<1>4. Meaning(rev, c, i) = V
  BY <1>1, <1>2, MeaningReached
<1>. DEFINE fit  == /\ c \in rev.contexts
                    /\ i \in Present(rev.scene) /\ HomeOf(rev, i) = c
                    /\ \A r \in From(Of(rev, c), V) : Stands(rev, c, r)
            what == [context |-> c, root |-> i,
                     nodes |-> {<<e, rev.scene[e].says>> : e \in V},
                     edges |-> From(Of(rev, c), V)]
<1>5. Compile(rev, c, i) = IF fit THEN what ELSE None
  BY <1>2 DEF Compile
<1>6. ASSUME fit
      PROVE  what \in Closure /\ what # None /\ {n[1] : n \in what.nodes} = V
             /\ \A e \in V : HomeOf(rev, e) = c
  <2>. DEFINE T == {e \in V : e \in Present(rev.scene) /\ HomeOf(rev, e) = c}
  <2>1. T \in SUBSET Ids /\ i \in T
    BY <1>3, <1>6
  <2>2. Closed(rev, c, T)
    <3>1. ASSUME NEW r \in From(Of(rev, c), T)
          PROVE  /\ r.to \in T
                 /\ r.whole => \A e \in Inside(rev.scene, r.to) : HomeOf(rev, e) = c => e \in T
      <4>1. r \in From(Of(rev, c), V)
        BY <3>1 DEF From
      <4>2. Stands(rev, c, r)
        BY <1>6, <4>1
      <4>3. r.to \in V /\ r.to \in Present(rev.scene) /\ HomeOf(rev, r.to) = c
        BY <1>3, <4>1, <4>2 DEF Closed, Stands
      <4>4. ASSUME r.whole, NEW e \in Inside(rev.scene, r.to), HomeOf(rev, e) = c PROVE e \in T
        BY <1>3, <4>1, <4>4 DEF Closed, Inside
      <4>. QED
        BY <4>3, <4>4
    <3>. HIDE DEF T
    <3>. QED
      BY <3>1 DEF Closed
  <2>3. V \subseteq T
    BY <1>3, <2>1, <2>2
  <2>4. \A e \in V : rev.scene[e] \in Element /\ HomeOf(rev, e) = c
    BY <1>1, <1>3, <2>3 DEF Scene, Present
  <2>5. what.nodes \in SUBSET (Ids \X (Words \union {None}))
    BY <1>3, <2>4 DEF Element
  <2>6. what.edges \in SUBSET Relation
    BY <1>1 DEF From, Of
  <2>7. what \in Closure
    BY <2>5, <2>6 DEF Closure
  <2>8. what # None
    BY <2>7, MountAssumption
  <2>9. {n[1] : n \in what.nodes} = V
    <3>1. \A n \in what.nodes : n[1] \in V
      OBVIOUS
    <3>2. ASSUME NEW e \in V PROVE \E n \in what.nodes : n[1] = e
      <4>1. <<e, rev.scene[e].says>> \in what.nodes /\ <<e, rev.scene[e].says>>[1] = e
        OBVIOUS
      <4>. QED
        BY <4>1
    <3>. HIDE DEF what
    <3>. QED
      BY <3>1, <3>2
  <2>. QED
    BY <2>4, <2>7, <2>8, <2>9
<1>. HIDE DEF what
<1>7. fit => what.context = c /\ what.root = i
  BY DEF what
<1>8. CASE fit
  BY <1>4, <1>5, <1>6, <1>7, <1>8
<1>9. CASE ~fit
  BY <1>4, <1>5, <1>9
<1>. QED
  BY <1>8, <1>9

\* The worklist is right on every well-formed board.
LEMMA ClosuresSound ==
    ASSUME scene \in Scene, registered \subseteq Contexts, relations \subseteq Relation
    PROVE  ClosureSound
<1>1. Now \in Revision /\ Now.scene = scene /\ Now.contexts = registered
  BY DEF Now, Revision
<1>2. PICK rev \in Revision : rev = Now
  BY <1>1
<1>3. ASSUME NEW c \in registered, NEW i \in Instructions,
             i \in Present(scene), HomeOf(rev, i) = c
      PROVE  /\ Compile(rev, c, i) = None <=>
                   \E r \in From(Of(rev, c), Meaning(rev, c, i)) : ~Stands(rev, c, r)
             /\ Compile(rev, c, i) # None =>
                   /\ {n[1] : n \in Compile(rev, c, i).nodes} = Meaning(rev, c, i)
                   /\ \A e \in Meaning(rev, c, i) : HomeOf(rev, e) = c
  BY <1>1, <1>2, <1>3, Compiled
<1>. QED
  BY <1>2, <1>3 DEF ClosureSound

-----------------------------------------------------------------------------
(* The inductive invariant.                                                *)

\* The board and what people are going to do with it.
BoardTyped ==
    /\ scene \in Scene /\ registered \subseteq Contexts /\ relations \subseteq Relation
    /\ prov \in [Ids -> {"unknown", "touched", "clean"}] /\ policy \in BOOLEAN
    /\ relating \in Relation \union {None}
    /\ due \in [saves : SUBSET Stroke, relations : SUBSET Relation]
    /\ beside \in 0 .. MaxBeside

\* What is approved, or is about to be, somebody asked to approve.
Reviewed ==
    /\ approval \in [Contexts -> [Instructions -> Closure \union {None}]]
    /\ \A c \in Contexts, i \in Instructions : approval[c][i] \in confirmed \union {None}
    /\ review \in [People -> [pc : {"idle", "shown", "matched"}, closure : Closure \union {None}]]
    /\ \A h \in People : review[h].pc # "idle" => review[h].closure \in Closure
    /\ \A h \in People : review[h].pc = "matched" => review[h].closure \in confirmed

\* The run reads what it has pinned; call.marked is what it is handed as instructions.
RunTyped ==
    /\ mount # None => mount \in [pin : Revision, allowed : SUBSET Contexts, guestly : SUBSET Ids]
                       /\ mount.allowed \subseteq mount.pin.contexts
    /\ call.pc \in {"idle", "policy", "provenance", "answered"}
    /\ call \in [pc : {"idle", "policy", "provenance", "answered"}, policy : BOOLEAN,
                 clean : SUBSET Ids, given : SUBSET Ids, marked : SUBSET Closure]
    /\ call.pc # "idle" => mount # None
    /\ call.marked \subseteq confirmed

\* A guest's element stays marked until it is confirmed, so that what passes for
\* clean among a guest's pinned elements was confirmed since.
Tracked ==
    /\ guestly \subseteq Ids /\ \A e \in guestly : prov[e] = "touched"
    /\ mount # None => \A e \in mount.guestly : prov[e] = "touched" \/ e \in cleared
    /\ call.pc = "provenance" => call.clean \intersect mount.guestly \subseteq cleared
    /\ GuestWordsStayOut

RunInv == BoardTyped /\ Reviewed /\ RunTyped /\ Tracked

\* The provenance of an element that a guest touched only becomes clean by a
\* confirmation, whoever draws.
LEMMA Drawn ==
    ASSUME RunInv, NEW p, Save(p)
    PROVE  RunInv'
<1>1. p \in Stroke /\ p.guest \in BOOLEAN /\ p.id \in Ids /\ p.to \in Element \union {None}
  BY DEF Save, RunInv, BoardTyped, Stroke
<1>2. PICK guest \in BOOLEAN : guest = p.guest
  BY <1>1
<1>3. PICK e \in Ids : e = p.id
  BY <1>1
<1>4. scene' = [scene EXCEPT ![e] = p.to] /\ due' = [due EXCEPT !.saves = @ \ {p}]
  BY <1>3 DEF Save
<1>5. prov' = [prov EXCEPT ![e] = IF guest THEN "touched"
                                  ELSE IF scene[e] = None /\ @ = "unknown" THEN "clean" ELSE @]
  BY <1>2, <1>3 DEF Save, Recorded
<1>6. guestly' = IF guest THEN guestly \union {e} ELSE guestly
  BY <1>2, <1>3 DEF Save
<1>7. UNCHANGED <<registered, relations, approval, policy, review, relating, mount, call,
                  beside, confirmed, cleared>>
  BY DEF Save, Agent
<1>8. BoardTyped'
  <2>1. scene' \in Scene
    BY <1>1, <1>4 DEF RunInv, BoardTyped, Scene
  <2>2. prov' \in [Ids -> {"unknown", "touched", "clean"}]
    BY <1>5 DEF RunInv, BoardTyped
  <2>. QED
    BY <1>4, <1>7, <2>1, <2>2 DEF RunInv, BoardTyped
<1>9. Reviewed' /\ RunTyped'
  BY <1>7 DEF RunInv, Reviewed, RunTyped
<1>10. \A d \in Ids : prov[d] = "touched" => prov'[d] = "touched"
  BY <1>5 DEF RunInv, BoardTyped
<1>11. guest => prov'[e] = "touched"
  BY <1>5 DEF RunInv, BoardTyped
<1>12. Tracked'
  <2>1. guestly' \subseteq Ids /\ \A d \in guestly' : prov'[d] = "touched"
    BY <1>6, <1>10, <1>11 DEF RunInv, Tracked
  <2>2. mount' # None => \A d \in mount'.guestly : prov'[d] = "touched" \/ d \in cleared'
    BY <1>7, <1>10 DEF RunInv, Tracked, RunTyped
  <2>3. GuestWordsStayOut'
    BY <1>7 DEF RunInv, Tracked, GuestWordsStayOut
  <2>. QED
    BY <1>7, <2>1, <2>2, <2>3 DEF RunInv, Tracked
<1>. QED
  BY <1>8, <1>9, <1>12 DEF RunInv

\* A Context is registered.
LEMMA Registered ==
    ASSUME RunInv, NEW c, Register(c)
    PROVE  RunInv'
<1>1. /\ c \in Contexts /\ beside < MaxBeside /\ beside' = beside + 1
      /\ registered' = registered \union {c}
      /\ UNCHANGED <<scene, relations, approval, policy, review, relating, mount, call,
                     due, confirmed, guestly, cleared>>
  BY DEF Register, Beside, Agent
<1>2. /\ prov' \in [Ids -> {"unknown", "touched", "clean"}]
      /\ \A d \in Ids : prov[d] = "touched" => prov'[d] = "touched"
  BY DEF Register, RunInv, BoardTyped
<1>3. BoardTyped'
  BY <1>1, <1>2, MountAssumption DEF RunInv, BoardTyped
<1>4. Reviewed' /\ RunTyped'
  BY <1>1 DEF RunInv, Reviewed, RunTyped
<1>5. Tracked'
  <2>1. guestly' \subseteq Ids /\ \A d \in guestly' : prov'[d] = "touched"
    BY <1>1, <1>2 DEF RunInv, Tracked
  <2>2. mount' # None => \A d \in mount'.guestly : prov'[d] = "touched" \/ d \in cleared'
    BY <1>1, <1>2 DEF RunInv, Tracked, RunTyped
  <2>3. GuestWordsStayOut'
    BY <1>1 DEF RunInv, Tracked, GuestWordsStayOut
  <2>. QED
    BY <1>1, <2>1, <2>2, <2>3 DEF RunInv, Tracked
<1>. QED
  BY <1>3, <1>4, <1>5 DEF RunInv

\* A member confirms a guest's element.
LEMMA Confirmed ==
    ASSUME RunInv, NEW e \in Ids, ConfirmClean(e)
    PROVE  RunInv'
<1>1. /\ beside < MaxBeside /\ beside' = beside + 1
      /\ prov' = [prov EXCEPT ![e] = "clean"]
      /\ guestly' = guestly \ {e}
      /\ cleared' = IF mount = None THEN cleared ELSE cleared \union {e}
      /\ UNCHANGED <<scene, registered, relations, approval, policy, review, relating,
                     mount, call, due, confirmed>>
  BY DEF ConfirmClean, Beside, Agent
<1>2. BoardTyped'
  BY <1>1, MountAssumption DEF RunInv, BoardTyped
<1>3. Reviewed' /\ RunTyped'
  BY <1>1 DEF RunInv, Reviewed, RunTyped
<1>4. cleared \subseteq cleared'
  BY <1>1
<1>5. Tracked'
  <2>1. guestly' \subseteq Ids /\ \A d \in guestly' : prov'[d] = "touched"
    BY <1>1 DEF RunInv, Tracked, BoardTyped
  <2>2. ASSUME mount' # None, NEW d \in mount'.guestly
        PROVE  prov'[d] = "touched" \/ d \in cleared'
    <3>1. mount # None /\ d \in mount.guestly /\ d \in Ids
      BY <1>1, <2>2 DEF RunInv, RunTyped
    <3>2. CASE d = e
      BY <1>1, <3>1, <3>2
    <3>3. CASE d # e
      BY <1>1, <1>4, <3>1, <3>3 DEF RunInv, Tracked, BoardTyped
    <3>. QED
      BY <3>2, <3>3
  <2>3. call'.pc = "provenance" => call'.clean \intersect mount'.guestly \subseteq cleared'
    BY <1>1, <1>4 DEF RunInv, Tracked
  <2>4. GuestWordsStayOut'
    BY <1>1, <1>4 DEF RunInv, Tracked, GuestWordsStayOut
  <2>. QED
    BY <2>1, <2>2, <2>3, <2>4 DEF Tracked
<1>. QED
  BY <1>2, <1>3, <1>5 DEF RunInv

\* The policy on guests' words changes.
LEMMA PolicySet ==
    ASSUME RunInv, SetPolicy
    PROVE  RunInv'
<1>1. beside < MaxBeside /\ beside' = beside + 1 /\ policy' = ~policy
      /\ UNCHANGED <<scene, registered, relations, approval, prov, review, relating,
                     mount, call, due, confirmed, guestly, cleared>>
  BY DEF SetPolicy, Beside, Agent
<1>2. policy' \in BOOLEAN
  BY <1>1
<1>. QED
  BY <1>1, <1>2, MountAssumption
  DEF RunInv, BoardTyped, Reviewed, RunTyped, Tracked, GuestWordsStayOut

\* A relation is checked, or written.
LEMMA Related ==
    ASSUME RunInv, RelateWrite \/ \E r \in due.relations : RelateCheck(r)
    PROVE  RunInv'
<1>1. UNCHANGED <<scene, registered, prov, policy, approval, review, mount, call, beside,
                  confirmed, guestly, cleared>>
  BY DEF RelateWrite, RelateCheck, Agent, Board
<1>2. relations' \subseteq Relation /\ relating' \in Relation \union {None}
      /\ due' \in [saves : SUBSET Stroke, relations : SUBSET Relation]
  <2>1. CASE RelateWrite
    BY <2>1 DEF RelateWrite, RunInv, BoardTyped
  <2>2. CASE \E r \in due.relations : RelateCheck(r)
    BY <2>2 DEF RelateCheck, Board, RunInv, BoardTyped
  <2>. QED
    BY <2>1, <2>2
<1>. QED
  BY <1>1, <1>2 DEF RunInv, BoardTyped, Reviewed, RunTyped, Tracked, GuestWordsStayOut

-----------------------------------------------------------------------------
(* Approvals and the run.                                                  *)

\* The board as it is now is a revision.
LEMMA NowTyped == RunInv => Now \in Revision
BY DEF RunInv, BoardTyped, Now, Revision

\* A person is shown what an instruction means.
LEMMA Shown ==
    ASSUME RunInv, NEW h \in People, NEW c \in Contexts, NEW i \in Instructions, Preview(h, c, i)
    PROVE  RunInv'
<1>1. PICK closure : closure = Compile(Now, c, i)
  OBVIOUS
<1>2. /\ closure # None
      /\ review' = [review EXCEPT ![h] = [pc |-> "shown", closure |-> closure]]
      /\ UNCHANGED <<scene, registered, relations, prov, policy, approval, relating, mount,
                     call, due, beside, confirmed, guestly, cleared>>
  BY <1>1 DEF Preview, Board, Agent
<1>3. closure \in Closure
  <2>1. PICK rev \in Revision : rev = Now
    BY NowTyped
  <2>. QED
    BY <1>1, <1>2, <2>1, Compiled
<1>4. Reviewed'
  BY <1>2, <1>3 DEF RunInv, Reviewed
<1>. QED
  BY <1>2, <1>4 DEF RunInv, BoardTyped, RunTyped, Tracked, GuestWordsStayOut

\* What matches what a person was shown is what the person asked to approve.
LEMMA Checked ==
    ASSUME RunInv, NEW h \in People, ApproveCheck(h)
    PROVE  RunInv'
<1>1. PICK shown : shown = review[h].closure
  OBVIOUS
<1>2. PICK closure : closure = Compile(Now, shown.context, shown.root)
  OBVIOUS
<1>3. /\ review[h].pc = "shown" /\ confirmed' = confirmed \union {shown}
      /\ review' = [review EXCEPT ![h] =
               IF shown = closure THEN [pc |-> "matched", closure |-> closure] ELSE Idle]
      /\ UNCHANGED <<scene, registered, relations, prov, policy, approval, relating, mount,
                     call, due, beside, guestly, cleared>>
  BY <1>1, <1>2 DEF ApproveCheck, SameAsShown, Board, Agent
<1>4. shown \in Closure
  BY <1>1, <1>3 DEF RunInv, Reviewed
<1>5. Reviewed'
  BY <1>3, <1>4 DEF RunInv, Reviewed, Idle
<1>6. RunTyped'
  BY <1>3 DEF RunInv, RunTyped
<1>. QED
  BY <1>3, <1>5, <1>6 DEF RunInv, BoardTyped, Tracked, GuestWordsStayOut

\* An approval is written.
LEMMA Approved ==
    ASSUME RunInv, NEW h \in People, ApproveWrite(h)
    PROVE  RunInv'
<1>1. PICK closure : closure = review[h].closure
  OBVIOUS
<1>2. /\ review[h].pc = "matched"
      /\ approval' = [approval EXCEPT ![closure.context][closure.root] = closure]
      /\ review' = [review EXCEPT ![h] = Idle]
      /\ UNCHANGED <<scene, registered, relations, prov, policy, relating, mount,
                     call, due, beside, confirmed, guestly, cleared>>
  BY <1>1 DEF ApproveWrite, Board, Agent
<1>3. closure \in Closure /\ closure \in confirmed
  BY <1>1, <1>2 DEF RunInv, Reviewed
<1>4. PICK c \in Contexts, i \in Instructions : c = closure.context /\ i = closure.root
  BY <1>3 DEF Closure
<1>5. approval' = [approval EXCEPT ![c][i] = closure]
  BY <1>2, <1>4
<1>6. /\ approval' \in [Contexts -> [Instructions -> Closure \union {None}]]
      /\ \A d \in Contexts, j \in Instructions : approval'[d][j] \in confirmed \union {None}
  BY <1>3, <1>5 DEF RunInv, Reviewed
<1>7. Reviewed'
  BY <1>2, <1>6 DEF RunInv, Reviewed, Idle
<1>. QED
  BY <1>2, <1>7 DEF RunInv, BoardTyped, RunTyped, Tracked, GuestWordsStayOut

\* The run mounts the board.
LEMMA Mounted ==
    ASSUME RunInv, Mount
    PROVE  RunInv'
<1>1. PICK allowed \in SUBSET registered :
          mount' = [pin |-> Now, allowed |-> allowed, guestly |-> guestly]
  BY DEF Mount
<1>2. mount = None /\ cleared' = {}
      /\ UNCHANGED <<scene, registered, relations, prov, policy, approval, review, relating,
                     call, due, beside, confirmed, guestly>>
  BY DEF Mount, Board
<1>3. call.pc = "idle"
  BY <1>2 DEF RunInv, RunTyped
<1>4. Now \in Revision /\ Now.contexts = registered /\ registered \subseteq Contexts
      /\ guestly \subseteq Ids
  BY NowTyped DEF Now, RunInv, BoardTyped, Tracked
<1>5. /\ mount' \in [pin : Revision, allowed : SUBSET Contexts, guestly : SUBSET Ids]
      /\ mount'.allowed \subseteq mount'.pin.contexts /\ mount'.guestly = guestly
  BY <1>1, <1>4
<1>6. RunTyped'
  BY <1>2, <1>3, <1>5 DEF RunInv, RunTyped
<1>7. Tracked'
  BY <1>2, <1>3, <1>5 DEF RunInv, Tracked, GuestWordsStayOut
<1>. QED
  BY <1>2, <1>6, <1>7 DEF RunInv, BoardTyped, Reviewed

\* A tool call reads the policy.
LEMMA PolicyRead ==
    ASSUME RunInv, ReadPolicy
    PROVE  RunInv'
<1>1. /\ mount # None /\ call' = [NoCall EXCEPT !.pc = "policy", !.policy = policy]
      /\ UNCHANGED <<scene, registered, relations, prov, policy, approval, review, relating,
                     mount, due, beside, confirmed, guestly, cleared>>
  BY DEF ReadPolicy, Board
<1>2. policy \in BOOLEAN
  BY DEF RunInv, BoardTyped
<1>3. call'.pc = "policy" /\ call'.marked = {}
      /\ call' \in [pc : {"idle", "policy", "provenance", "answered"}, policy : BOOLEAN,
                    clean : SUBSET Ids, given : SUBSET Ids, marked : SUBSET Closure]
  BY <1>1, <1>2 DEF NoCall
<1>4. RunTyped'
  BY <1>1, <1>3 DEF RunInv, RunTyped
<1>. QED
  BY <1>1, <1>3, <1>4 DEF RunInv, BoardTyped, Reviewed, Tracked, GuestWordsStayOut

\* A tool call reads the provenance.
LEMMA ProvenanceRead ==
    ASSUME RunInv, ReadProvenance
    PROVE  RunInv'
<1>1. /\ call.pc = "policy"
      /\ call' = [call EXCEPT !.pc = "provenance", !.clean = {e \in Ids : prov[e] = "clean"}]
      /\ UNCHANGED <<scene, registered, relations, prov, policy, approval, review, relating,
                     mount, due, beside, confirmed, guestly, cleared>>
  BY DEF ReadProvenance, Board
<1>2. /\ call'.pc = "provenance" /\ call'.marked = call.marked
      /\ call'.clean = {e \in Ids : prov[e] = "clean"}
      /\ call' \in [pc : {"idle", "policy", "provenance", "answered"}, policy : BOOLEAN,
                    clean : SUBSET Ids, given : SUBSET Ids, marked : SUBSET Closure]
  BY <1>1 DEF RunInv, RunTyped
<1>3. RunTyped'
  BY <1>1, <1>2 DEF RunInv, RunTyped
<1>4. Tracked'
  <2>1. call'.clean \intersect mount.guestly \subseteq cleared
    BY <1>1, <1>2 DEF RunInv, RunTyped, Tracked
  <2>. QED
    BY <1>1, <1>2, <2>1 DEF RunInv, Tracked, GuestWordsStayOut
<1>. QED
  BY <1>1, <1>3, <1>4 DEF RunInv, BoardTyped, Reviewed

\* Only a row that is the pinned closure marks an instruction, and rows are approved.
LEMMA Answered ==
    ASSUME RunInv, Answer
    PROVE  RunInv'
<1>. DEFINE pinned(e) == Compile(mount.pin, HomeOf(mount.pin, e), e)
            marked == {e \in Readable \intersect Instructions :
                          Current(approval[HomeOf(mount.pin, e)][e], pinned(e))}
<1>1. /\ call.pc = "provenance"
      /\ call' = [call EXCEPT !.pc = "answered", !.given = Readable,
                              !.marked = {pinned(e) : e \in marked}]
      /\ UNCHANGED <<scene, registered, relations, prov, policy, approval, review, relating,
                     mount, due, beside, confirmed, guestly, cleared>>
  BY DEF Answer, Board
<1>2. mount # None /\ mount.pin \in Revision /\ mount.allowed \subseteq mount.pin.contexts
      /\ mount.allowed \subseteq Contexts
  BY <1>1 DEF RunInv, RunTyped
<1>3. Readable \in SUBSET Ids
  BY DEF Readable, Present
<1>4. ASSUME NEW e \in marked PROVE pinned(e) \in confirmed /\ pinned(e) \in Closure
  <2>1. PICK c : c = HomeOf(mount.pin, e)
    OBVIOUS
  <2>2. e \in Instructions /\ c \in Contexts
    BY <1>2, <2>1 DEF Readable
  <2>3. approval[c][e] # None /\ approval[c][e] = pinned(e)
    BY <2>1 DEF Current
  <2>. HIDE DEF pinned
  <2>4. approval[c][e] \in confirmed \union {None} /\ approval[c][e] \in Closure \union {None}
    BY <2>2 DEF RunInv, Reviewed
  <2>. QED
    BY <2>3, <2>4
<1>5. PICK m : m = {pinned(e) : e \in marked}
  OBVIOUS
<1>6. m \subseteq confirmed /\ m \subseteq Closure
  BY <1>4, <1>5
<1>. HIDE DEF pinned, marked
<1>7. /\ call'.pc = "answered" /\ call'.marked = m /\ call'.given = Readable
      /\ call'.policy = call.policy /\ call'.clean = call.clean
      /\ call' \in [pc : {"idle", "policy", "provenance", "answered"}, policy : BOOLEAN,
                    clean : SUBSET Ids, given : SUBSET Ids, marked : SUBSET Closure]
  BY <1>1, <1>3, <1>5, <1>6 DEF RunInv, RunTyped
<1>8. RunTyped'
  BY <1>1, <1>2, <1>6, <1>7 DEF RunInv, RunTyped
<1>9. ASSUME ~call.policy
      PROVE  Readable \intersect mount.guestly \subseteq mount.pin.contexts \union cleared
  BY <1>1, <1>9 DEF RunInv, Tracked, Readable, Eligible
<1>10. Tracked'
  BY <1>1, <1>7, <1>9 DEF RunInv, Tracked, GuestWordsStayOut
<1>. QED
  BY <1>1, <1>8, <1>10 DEF RunInv, BoardTyped, Reviewed

-----------------------------------------------------------------------------
(* The run.                                                                *)

\* The board before anybody has done anything.
LEMMA RunBegins == Init => RunInv
<1>. SUFFICES ASSUME Init PROVE RunInv
  OBVIOUS
<1>1. PICK s \in Situations :
          /\ scene = s.board /\ registered = s.registered /\ relations = s.relations
          /\ prov = [e \in Ids |-> IF e \in Present(s.board) THEN s.known ELSE "unknown"]
          /\ due = [saves |-> s.saves, relations |-> s.declared]
  BY DEF Init
<1>2. /\ policy = FALSE
      /\ approval = [c \in Contexts |-> [i \in Instructions |-> None]]
      /\ review = [h \in People |-> Idle]
      /\ relating = None /\ mount = None /\ call = NoCall /\ beside = 0
      /\ confirmed = {} /\ guestly = {} /\ cleared = {}
  BY DEF Init
<1>3. BoardTyped
  <2>1. /\ s.board \in Scene /\ s.registered \subseteq Contexts
        /\ s.relations \subseteq Relation /\ s.known \in {"unknown", "clean"}
        /\ s.saves \subseteq Stroke /\ s.declared \subseteq Relation
    BY MountAssumption
  <2>2. prov \in [Ids -> {"unknown", "touched", "clean"}]
    BY <1>1, <2>1
  <2>3. due \in [saves : SUBSET Stroke, relations : SUBSET Relation]
    BY <1>1, <2>1
  <2>4. beside \in 0 .. MaxBeside
    BY <1>2, MountAssumption
  <2>. QED
    BY <1>1, <1>2, <2>1, <2>2, <2>3, <2>4 DEF BoardTyped
<1>4. Reviewed
  BY <1>2 DEF Reviewed, Idle
<1>5. RunTyped /\ Tracked
  BY <1>2 DEF RunTyped, Tracked, NoCall, GuestWordsStayOut
<1>. QED
  BY <1>3, <1>4, <1>5 DEF RunInv

\* Every step keeps the invariant.
LEMMA RunSteps ==
    ASSUME RunInv, [Next]_vars
    PROVE  RunInv'
<1>1. CASE UNCHANGED vars
  BY <1>1 DEF vars, RunInv, BoardTyped, Reviewed, RunTyped, Tracked, GuestWordsStayOut
<1>2. CASE Work
  <2>1. ASSUME NEW h \in People,
               \/ \E c \in Contexts, i \in Instructions : Preview(h, c, i)
               \/ ApproveCheck(h) \/ ApproveWrite(h)
        PROVE  RunInv'
    BY <2>1, Shown, Checked, Approved
  <2>2. ASSUME \E e \in Ids : ConfirmClean(e) PROVE RunInv'
    BY <2>2, Confirmed
  <2>3. ASSUME (\E p \in due.saves : Save(p)) \/ (\E c \in Contexts : Register(c)) PROVE RunInv'
    BY <2>3, Drawn, Registered
  <2>4. ASSUME Mount \/ ReadPolicy \/ ReadProvenance \/ Answer PROVE RunInv'
    BY <2>4, Mounted, PolicyRead, ProvenanceRead, Answered
  <2>. QED
    BY <1>2, <2>1, <2>2, <2>3, <2>4, PolicySet, Related DEF Work
<1>. QED
  BY <1>1, <1>2 DEF Next

\* The invariant holds in every reachable state.
LEMMA RunStays == Spec => []RunInv
BY RunBegins, RunSteps, PTL DEF Spec

\* Whatever an agent is handed as an instruction, a person has approved after
\* seeing exactly this (instructionApprovals.ts:151-156, 300-303,
\* boardMount.ts:567-594).
THEOREM MarkedReviewed == Spec => []MarkedWasReviewed
<1>1. RunInv => MarkedWasReviewed
  BY DEF RunInv, RunTyped, MarkedWasReviewed
<1>. QED
  BY <1>1, RunStays, PTL

\* The words of a guest reach the agent only where the policy lets guests
\* contribute or a member has confirmed the element (elementGuestProvenance.ts:61-105,
\* boardMount.ts:481-520).
THEOREM GuestsOut == Spec => []GuestWordsStayOut
<1>1. RunInv => GuestWordsStayOut
  BY DEF RunInv, Tracked
<1>. QED
  BY <1>1, RunStays, PTL

\* Everything has its shape, and what an instruction means is compiled in full on
\* every board (instructionClosure.ts:178-232).
THEOREM MountsSound == Spec => []MountSound
<1>1. RunInv => TypeOK
  BY DEF RunInv, BoardTyped, Reviewed, RunTyped, TypeOK
<1>2. RunInv => ClosureSound
  BY ClosuresSound DEF RunInv, BoardTyped
<1>3. RunInv => MountSound
  BY <1>1, <1>2 DEF MountSound
<1>. QED
  BY <1>3, RunStays, PTL

=============================================================================
