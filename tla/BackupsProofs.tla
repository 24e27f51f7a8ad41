---------------------------- MODULE BackupsProofs ----------------------------
(***************************************************************************)
(* Proofs about Backups: archives are whole, a backup that had the directory *)
(* to itself leaves it within the limits, and whatever two processes remove  *)
(* a newer good archive stays, for any number of sites, originals, archives  *)
(* and sizes.                                                                *)
(***************************************************************************)
EXTENDS Backups, SequenceTheorems, FiniteSetTheorems, WellFoundedInduction, TLAPS

\* What a database copy has READY still is, and once the keys are listed they have it all.
RowsReady ==
    \A p \in Procs : /\ run[p].rows \subseteq Listed
                     /\ ~At(p, "list") => run[p].rows \subseteq run[p].keys

\* Archives lie in the order of their age and have names of their own.
Ordered ==
    \A i, j \in DOMAIN archives : i < j => /\ archives[j].age <= archives[i].age
                                           /\ archives[i].name # archives[j].name

\* An archive over the budget shades all that lie beside it, and a shade falls on all
\* that are older.
Shades ==
    \A i, j \in DOMAIN archives : /\ Big(archives[i]) => archives[j].shaded
                                  /\ i < j /\ archives[j].shaded => archives[i].shaded

\* The steps of a backup before its archive is complete.
Early == {"dump", "list", "space", "trim", "copy", "stat", "open", "write"}

\* A backup has a name of its own, which no archive has before it is written.
NamesOwn ==
    \A p \in Procs :
        /\ run[p].pc \in Early =>
              ~Stands(run[p].name) /\ \A q \in Procs : run[p].name \notin ToSet(run[q].excess)
        /\ run[p].pc \in {"trim", "trim2"} => run[p].excess # <<>>
        /\ \A q \in Procs \ {p} : ~At(p, "idle") /\ ~At(q, "idle") => run[p].name # run[q].name
        /\ ~At(p, "idle") => run[p].name \in Names

\* The newest archive is on nobody's list of archives to remove.
NewestSpared ==
    archives # <<>> /\ ~archives[Len(archives)].shaded
        => \A p \in Procs : archives[Len(archives)].name \notin ToSet(run[p].excess)

\* The archive of p lies last, fresh and not over the budget.
OwnLast(p) ==
    LET a == archives[Len(archives)]
    IN  archives # <<>> /\ a.name = run[p].name /\ a.age = 0 /\ ~Big(a)

\* The archives that p still has to remove are the first ones, and then all fits.
Cutting(p) ==
    LET m == Len(run[p].excess)
    IN  /\ m < Len(archives) /\ \A i \in 1 .. m : run[p].excess[i] = archives[i].name
        /\ Len(archives) - m <= site.maxCount /\ Bytes(Newest(m)) <= site.maxBytes

\* What a backup that has had the directory to itself may rely on.
Alone ==
    \A p \in Procs : run[p].alone /\ ~At(p, "idle") =>
        /\ \A q \in Procs \ {p} : At(q, "idle")
        /\ At(p, "size") => archives # <<>> /\ archives[Len(archives)].name = run[p].name
                                /\ archives[Len(archives)].age = 0
        /\ run[p].pc \in {"limit", "trim2"} => OwnLast(p)
        /\ At(p, "trim2") => Cutting(p)

\* No backup answers with success before it ends.
GoodLast == \A p \in Procs : run[p].good => At(p, "end")

\* Everything that the steps need.
BackupsInv ==
    /\ TypeOK /\ RowsReady /\ ArchivesWhole /\ Ordered /\ Shades
    /\ NamesOwn /\ NewestSpared /\ Alone /\ GoodLast /\ LimitsKept

-----------------------------------------------------------------------------
(* Numbers, sequences and sums *)

\* Every set of natural numbers has a least one.
LEMMA LeastNat ==
    ASSUME NEW T \in SUBSET Nat, T # {}
    PROVE  \E n \in T : \A m \in T : n <= m
<1>. DEFINE R == OpToRel(<, Nat)
<1>1. IsWellFoundedOn(R, Nat)
  BY NatLessThanWellFounded
<1>2. \A x, y \in Nat : x < y => <<x, y>> \in R
  BY DEF OpToRel
<1>. HIDE DEF R
<1>3. PICK n \in T : \A m \in T : ~(<<m, n>> \in R)
  BY <1>1, WFMin
<1>4. ASSUME NEW m \in T PROVE n <= m
  <2>1. n \in Nat /\ m \in Nat /\ ~(<<m, n>> \in R)
    BY <1>3
  <2>2. ~(m < n)
    BY <1>2, <2>1
  <2>. QED
    BY <2>1, <2>2
<1>. QED
  BY <1>4

\* A sequence with one place taken out.
LEMMA Removed ==
    ASSUME NEW T, NEW q \in Seq(T), NEW i \in 1..Len(q)
    PROVE  /\ RemoveAt(q, i) \in Seq(T)
           /\ Len(RemoveAt(q, i)) = Len(q) - 1
           /\ \A k \in 1..Len(RemoveAt(q, i)) :
                RemoveAt(q, i)[k] = IF k < i THEN q[k] ELSE q[k + 1]
<1>1. Len(q) \in Nat
  OBVIOUS
<1>2. RemoveAt(q, i) = SubSeq(q, 1, i - 1) \o SubSeq(q, i + 1, Len(q))
  BY DEF RemoveAt
<1>. DEFINE a == SubSeq(q, 1, i - 1)
            b == SubSeq(q, i + 1, Len(q))
<1>3. /\ a \in Seq(T) /\ Len(a) = i - 1
      /\ \A k \in 1..(i - 1) : a[k] = q[k]
  BY <1>1, SubSeqProperties
<1>4. /\ b \in Seq(T) /\ Len(b) = Len(q) - i
      /\ \A k \in 1..(Len(q) - i) : b[k] = q[i + k]
  BY <1>1, SubSeqProperties
<1>. HIDE DEF a, b
<1>5. /\ a \o b \in Seq(T) /\ Len(a \o b) = Len(a) + Len(b)
      /\ \A k \in 1..(Len(a) + Len(b)) : (a \o b)[k] = IF k <= Len(a) THEN a[k] ELSE b[k - Len(a)]
  BY <1>3, <1>4, ConcatProperties
<1>6. ASSUME NEW k \in 1..(Len(q) - 1) PROVE (a \o b)[k] = IF k < i THEN q[k] ELSE q[k + 1]
  <2>1. CASE k < i
    BY <1>1, <1>3, <1>4, <1>5, <2>1
  <2>2. CASE ~(k < i)
    <3>1. k - (i - 1) \in 1..(Len(q) - i) /\ i + (k - (i - 1)) = k + 1
      BY <1>1, <2>2
    <3>2. Len(a) = i - 1 /\ Len(b) = Len(q) - i /\ ~(k <= i - 1) /\ k \in 1..(Len(a) + Len(b))
      BY <1>1, <1>3, <1>4, <2>2
    <3>3. (a \o b)[k] = b[k - (i - 1)]
      BY <1>5, <3>2
    <3>4. b[k - (i - 1)] = q[k + 1]
      BY <1>4, <3>1
    <3>. QED
      BY <2>2, <3>3, <3>4
  <2>. QED
    BY <2>1, <2>2
<1>7. Len(a \o b) = Len(q) - 1
  BY <1>1, <1>3, <1>4, <1>5
<1>. QED
  BY <1>2, <1>5, <1>6, <1>7 DEF a, b

\* One archive is as large as it is.
LEMMA BytesOfOne == ASSUME NEW a, a.bytes \in Nat PROVE Bytes(<<a>>) = a.bytes
<1>. DEFINE F(g) == g = [s \in SUBSET {1} |-> IF s = {} THEN 0 ELSE LET x == CHOOSE y \in s : TRUE IN <<a>>[x].bytes + g[s \ {x}]]
<1>1. Bytes(<<a>>) = (CHOOSE g : F(g))[{1}]
  BY DEF Bytes, MapThenSumSet, MapThenFoldSet
<1>. DEFINE w == [s \in SUBSET {1} |-> IF s = {} THEN 0 ELSE a.bytes]
<1>2. F(w)
  <2>1. ASSUME NEW s \in SUBSET {1}
        PROVE w[s] = IF s = {} THEN 0 ELSE LET x == CHOOSE y \in s : TRUE IN <<a>>[x].bytes + w[s \ {x}]
    <3>1. CASE s = {}
      BY <3>1
    <3>2. CASE s = {1}
      <4>1. (CHOOSE y \in s : TRUE) = 1
        BY <3>2
      <4>2. s \ {1} = {} /\ w[{}] = 0 /\ w[s] = a.bytes
        BY <3>2
      <4>3. <<a>>[1].bytes + w[s \ {1}] = a.bytes
        BY <4>2
      <4>. QED
       BY <3>2, <4>1, <4>2, <4>3
    <3>. QED
      BY <3>1, <3>2
  <2>. QED
    BY <2>1
<1>3. F(CHOOSE g : F(g))
  BY <1>2
<1>4. PICK g : g = (CHOOSE h : F(h)) /\ F(g)
  BY <1>3
<1>5. g[{}] = 0
  BY <1>4
<1>6. g[{1}] = a.bytes
  <2>1. (CHOOSE y \in {1} : TRUE) = 1
    OBVIOUS
  <2>2. {1} \ {1} = {} /\ {1} # {} /\ {1} \in SUBSET {1}
    OBVIOUS
  <2>3. g[{1}] = <<a>>[1].bytes + g[{1} \ {1}]
    BY <1>4, <2>1, <2>2
  <2>. QED
    BY <1>5, <2>2, <2>3
<1>. QED
  BY <1>1, <1>4, <1>6

\* The ages, and one more day.
LEMMA Ages ==
    /\ Oldest \in Nat /\ Retention < Oldest /\ PartialAge < Oldest /\ Retention \in Nat \ {0}
    /\ \A n \in 0 .. Oldest : /\ Min({n + 1, Oldest}) \in 0 .. Oldest
                               /\ Min({n + 1, Oldest}) = IF n < Oldest THEN n + 1 ELSE Oldest
<1>1. Retention \in Nat \ {0} /\ PartialAge = 1
  BY BackupsAssumption DEF PartialAge
<1>2. Max({Retention, PartialAge}) \in Nat /\ Max({Retention, PartialAge}) >= Retention
      /\ Max({Retention, PartialAge}) >= PartialAge
  BY <1>1 DEF Max
<1>3. Oldest \in Nat /\ Retention < Oldest /\ PartialAge < Oldest
  <2>1. PICK m \in Nat : m = Max({Retention, PartialAge}) /\ m >= Retention /\ m >= 1
    BY <1>1, <1>2
  <2>. QED
    BY <1>1, <2>1 DEF Oldest
<1>4. ASSUME NEW n \in 0 .. Oldest
      PROVE  Min({n + 1, Oldest}) = IF n < Oldest THEN n + 1 ELSE Oldest
  <2>1. PICK o \in Nat : o = Oldest
    BY <1>3
  <2>2. CASE n < o
    <3>1. n + 1 <= o /\ n + 1 \in {n + 1, o}
      BY <2>1, <2>2
    <3>2. \A x \in {n + 1, o} : (\A y \in {n + 1, o} : x =< y) <=> x = n + 1
      BY <2>1, <2>2
    <3>. QED
      BY <2>1, <2>2, <3>1, <3>2 DEF Min
  <2>3. CASE ~(n < o)
    <3>1. \A x \in {n + 1, o} : (\A y \in {n + 1, o} : x =< y) <=> x = o
      BY <2>1, <2>3
    <3>. QED
      BY <2>1, <2>3, <3>1 DEF Min
  <2>. QED
    BY <2>1, <2>2, <2>3
<1>5. ASSUME NEW n \in 0 .. Oldest
      PROVE  (IF n < Oldest THEN n + 1 ELSE Oldest) \in 0 .. Oldest
  BY <1>3
<1>. QED
  BY <1>1, <1>3, <1>4, <1>5

\* A name that is not in use.
LEMMA NewName == Unused # {} => Min(Unused) \in Unused
<1>1. Unused \in SUBSET Nat
  BY DEF Unused, Names
<1>2. SUFFICES ASSUME Unused # {} PROVE Min(Unused) \in Unused
  OBVIOUS
<1>3. \E n \in Unused : \A m \in Unused : n <= m
  BY <1>1, <1>2, LeastNat
<1>. QED
  BY <1>3 DEF Min

-----------------------------------------------------------------------------
(* The directory *)

\* What is left without the n oldest.
LEMMA NewestAre ==
    ASSUME archives \in Seq(Archive), NEW n \in 0 .. Len(archives)
    PROVE  /\ Newest(n) \in Seq(Archive) /\ Len(Newest(n)) = Len(archives) - n
           /\ \A k \in 1 .. Len(archives) - n : Newest(n)[k] = archives[n + k]
<1>1. Len(archives) \in Nat
  OBVIOUS
<1>. QED
  BY <1>1, SubSeqProperties DEF Newest

\* enforceBackupLimits removes the first n, the fewest with which the rest fits.
LEMMA ExcessIs ==
    ASSUME archives \in Seq(Archive), NEW most, NEW room, NEW least \in Nat
    PROVE  \E n \in 0 .. Len(archives) :
              /\ Excess(most, room, least) = [i \in 1 .. n |-> archives[i].name]
              /\ \/ Len(archives) - n <= least
                 \/ Len(archives) - n <= most /\ Bytes(Newest(n)) <= room
              /\ \A m \in 0 .. n - 1 : ~ \/ Len(archives) - m <= least
                                         \/ Len(archives) - m <= most /\ Bytes(Newest(m)) <= room
<1>. DEFINE Fits(n) == \/ Len(archives) - n <= least
                       \/ Len(archives) - n <= most /\ Bytes(Newest(n)) <= room
            T == {n \in 0 .. Len(archives) : Fits(n)}
            Q(k) == Fits(k) /\ \A m \in 0 .. k - 1 : ~Fits(m)
            n == CHOOSE k \in 0 .. Len(archives) : Q(k)
<1>1. Len(archives) \in Nat
  OBVIOUS
<1>2. Len(archives) \in T
  BY <1>1
<1>3. T \in SUBSET Nat /\ T # {}
  BY <1>1, <1>2
<1>4. PICK k \in T : \A m \in T : k <= m
  <2>. HIDE DEF T
  <2>. QED
    BY <1>3, LeastNat
<1>5. k \in 0 .. Len(archives) /\ Q(k)
  <2>1. ASSUME NEW m \in 0 .. k - 1, Fits(m) PROVE FALSE
    <3>1. m \in T
      BY <1>1, <2>1
    <3>. QED
      BY <1>1, <1>4, <3>1
  <2>. QED
    BY <2>1
<1>6. n \in 0 .. Len(archives) /\ Q(n)
  <2>. HIDE DEF Q
  <2>. QED
    BY <1>5
<1>7. Excess(most, room, least) = [i \in 1 .. n |-> archives[i].name]
  BY DEF Excess
<1>. HIDE DEF n
<1>. QED
  BY <1>6, <1>7

\* The expired archives are the oldest.
LEMMA GoneIs ==
    ASSUME archives \in Seq(Archive), Ordered
    PROVE  /\ Gone \in 0 .. Len(archives)
           /\ \A i \in 1 .. Len(archives) : Expired(archives[i]) <=> i <= Gone
<1>1. Len(archives) \in Nat /\ DOMAIN archives = 1 .. Len(archives)
  OBVIOUS
<1>. DEFINE T == {n \in 0 .. Len(archives) : \A i \in 1 .. Len(archives) : n < i => ~Expired(archives[i])}
            Q(n) == \A i \in DOMAIN archives : Expired(archives[i]) <=> i <= n
<1>2. Len(archives) \in T
  BY <1>1
<1>3. T \in SUBSET Nat /\ T # {}
  BY <1>1, <1>2
<1>4. PICK n \in T : \A m \in T : n <= m
  <2>. HIDE DEF T
  <2>. QED
    BY <1>3, LeastNat
<1>5. ASSUME NEW i \in 1 .. Len(archives), i <= n, ~Expired(archives[i]) PROVE FALSE
  <2>1. i - 1 \in 0 .. Len(archives) /\ i - 1 < n /\ n \in Nat
    BY <1>1, <1>4, <1>5
  <2>2. i - 1 \notin T
    BY <1>4, <2>1, SMTT(60)
  <2>3. PICK k \in 1 .. Len(archives) : i - 1 < k /\ Expired(archives[k])
    BY <2>1, <2>2
  <2>4. i < k
    BY <1>5, <2>3
  <2>5. archives[i] \in Archive /\ archives[k] \in Archive
    BY <1>1
  <2>6. archives[k].age <= archives[i].age
    BY <1>1, <2>4 DEF Ordered
  <2>7. archives[i].age \in 0 .. Oldest /\ archives[k].age \in 0 .. Oldest
    BY <2>5 DEF Archive
  <2>. QED
    BY <1>5, <2>3, <2>6, <2>7, Ages DEF Expired
<1>6. n \in 0 .. Len(archives) /\ Q(n)
  BY <1>1, <1>4, <1>5
<1>7. Gone = CHOOSE m \in 0 .. Len(archives) : Q(m)
  BY DEF Gone
<1>8. Gone \in 0 .. Len(archives) /\ Q(Gone)
  <2>. HIDE DEF Q
  <2>. QED
    BY <1>6, <1>7
<1>. QED
  BY <1>1, <1>8

\* Some archives are gone and the others have moved up.
Thinned(h) ==
    /\ archives' \in Seq(Archive)
    /\ h \in [1 .. Len(archives') -> 1 .. Len(archives)]
    /\ \A k \in 1 .. Len(archives') : archives'[k] = archives[h[k]]
    /\ \A j, k \in 1 .. Len(archives') : j < k => h[j] < h[k]

\* Nothing but that.
Fewer == site' = site /\ \E h : Thinned(h)

\* What else is true of the directory.
Directory == archives \in Seq(Archive) /\ ArchivesWhole /\ Ordered /\ Shades

\* Archives that go take nothing from the others.
LEMMA FewerKeeps ==
    ASSUME Directory, Fewer
    PROVE  Directory' /\ \A n : Stands(n)' => Stands(n)
<1>1. PICK h : Thinned(h)
  BY DEF Fewer
<1>2. /\ archives' \in Seq(Archive) /\ site' = site
      /\ DOMAIN archives' = 1 .. Len(archives') /\ DOMAIN archives = 1 .. Len(archives)
      /\ \A k \in 1 .. Len(archives') : archives'[k] = archives[h[k]] /\ h[k] \in 1 .. Len(archives)
  BY <1>1 DEF Thinned, Directory, Fewer
<1>3. ArchivesWhole'
  BY <1>2 DEF Directory, ArchivesWhole, Kept, ToSet
<1>4. Ordered'
  <2>1. ASSUME NEW i \in 1 .. Len(archives'), NEW j \in 1 .. Len(archives'), i < j
        PROVE  archives'[j].age <= archives'[i].age /\ archives'[i].name # archives'[j].name
    <3>1. h[i] < h[j]
      BY <1>1, <2>1 DEF Thinned
    <3>. QED
      BY <1>2, <3>1 DEF Directory, Ordered
  <2>. QED
    BY <1>2, <2>1 DEF Ordered
<1>5. Shades'
  <2>1. ASSUME NEW i \in 1 .. Len(archives'), NEW j \in 1 .. Len(archives')
        PROVE  /\ archives'[i].bytes > site'.maxBytes => archives'[j].shaded
               /\ i < j /\ archives'[j].shaded => archives'[i].shaded
    <3>1. i < j => h[i] < h[j]
      BY <1>1, <2>1 DEF Thinned
    <3>2. archives'[i].bytes > site'.maxBytes <=> Big(archives[h[i]])
      BY <1>2 DEF Big
    <3>. QED
      BY <1>2, <3>1, <3>2 DEF Directory, Shades
  <2>. QED
    BY <1>2, <2>1 DEF Shades, Big
<1>6. ASSUME NEW n, Stands(n)' PROVE Stands(n)
  BY <1>2, <1>6 DEF Stands
<1>. QED
  BY <1>2, <1>3, <1>4, <1>5, <1>6 DEF Directory

\* Pruning takes the expired archives, which are the oldest.
LEMMA PruneTakes ==
    ASSUME Directory, Prune, site' = site
    PROVE  /\ Fewer
           /\ \E n \in 0 .. Len(archives) :
                 /\ archives' = Newest(n)
                 /\ \A i \in 1 .. Len(archives) : Expired(archives[i]) <=> i <= n
<1>1. /\ Gone \in 0 .. Len(archives) /\ archives' = Newest(Gone)
      /\ \A i \in 1 .. Len(archives) : Expired(archives[i]) <=> i <= Gone
  BY GoneIs DEF Directory, Prune
<1>2. PICK n \in 0 .. Len(archives) : n = Gone
  BY <1>1
<1>3. /\ archives' \in Seq(Archive) /\ Len(archives') = Len(archives) - n /\ Len(archives) \in Nat
      /\ \A k \in 1 .. Len(archives) - n : archives'[k] = archives[n + k]
  <2>1. archives' = Newest(n) /\ archives \in Seq(Archive) /\ Len(archives) \in Nat
    BY <1>1, <1>2 DEF Directory
  <2>. QED
    BY <2>1, NewestAre
<1>. DEFINE h == [k \in 1 .. Len(archives') |-> n + k]
<1>4. Thinned(h)
  BY <1>2, <1>3 DEF Thinned
<1>. QED
  BY <1>1, <1>2, <1>4 DEF Fewer

\* One archive removed.
LEMMA WithoutTakes ==
    ASSUME Directory, site' = site, NEW n, Stands(n), archives' = Without(n)
    PROVE  /\ Fewer /\ ~Stands(n)'
           /\ \E i \in 1 .. Len(archives) :
                 /\ archives[i].name = n /\ Len(archives') = Len(archives) - 1
                 /\ \A k \in 1 .. Len(archives') :
                       archives'[k] = IF k < i THEN archives[k] ELSE archives[k + 1]
<1>1. Len(archives) \in Nat /\ DOMAIN archives = 1 .. Len(archives)
  BY DEF Directory
<1>2. PICK i \in 1 .. Len(archives) : i = Place(n) /\ archives[i].name = n
  BY <1>1 DEF Stands, Place
<1>3. archives' = RemoveAt(archives, i)
  BY <1>2 DEF Without
<1>4. /\ archives' \in Seq(Archive) /\ Len(archives') = Len(archives) - 1
      /\ \A k \in 1 .. Len(archives') :
            archives'[k] = IF k < i THEN archives[k] ELSE archives[k + 1]
  BY <1>3, Removed DEF Directory
<1>. DEFINE h == [k \in 1 .. Len(archives') |-> IF k < i THEN k ELSE k + 1]
<1>5. Thinned(h)
  BY <1>1, <1>4 DEF Thinned
<1>6. ~Stands(n)'
  <2>1. ASSUME NEW k \in 1 .. Len(archives'), archives'[k].name = n PROVE FALSE
    <3>1. h[k] \in 1 .. Len(archives) /\ h[k] # i /\ archives[h[k]].name = n
      BY <1>1, <1>4, <2>1
    <3>2. h[k] < i \/ i < h[k]
      BY <1>1, <3>1
    <3>. HIDE DEF h
    <3>. QED
      BY <1>1, <1>2, <3>1, <3>2 DEF Directory, Ordered
  <2>2. DOMAIN archives' = 1 .. Len(archives')
    BY <1>4
  <2>. QED
    BY <2>1, <2>2 DEF Stands
<1>. QED
  BY <1>2, <1>4, <1>5, <1>6 DEF Fewer

\* A finished archive is the last.  Beside one over the budget all are shaded.
LEMMA WriteAdds ==
    ASSUME BackupsInv, NEW p \in Procs, Write(p)
    PROVE  /\ Directory' /\ site' = site
           /\ Len(archives') = Len(archives) + 1
           /\ \A i \in 1 .. Len(archives) : /\ archives'[i].name = archives[i].name
                                            /\ archives[i].shaded => archives'[i].shaded
           /\ archives'[Len(archives')].name = run[p].name /\ archives'[Len(archives')].age = 0
<1>1. /\ archives \in Seq(Archive) /\ Len(archives) \in Nat /\ DOMAIN archives = 1 .. Len(archives)
      /\ Kept = {archives[i] : i \in 1 .. Len(archives)}
  BY DEF BackupsInv, TypeOK, Kept, ToSet
<1>2. PICK s \in site.sizes, flooded \in BOOLEAN :
         /\ flooded <=> s > site.maxBytes \/ \E a \in Kept : Big(a)
         /\ archives' = Append(Shade(flooded),
                  [name |-> run[p].name, age |-> 0, bytes |-> s,
                   whole |-> run[p].rows \subseteq run[p].keys, shaded |-> flooded])
  BY DEF Write
<1>3. PICK new :
         /\ flooded <=> s > site.maxBytes \/ \E a \in Kept : Big(a)
         /\ new = [name |-> run[p].name, age |-> 0, bytes |-> s,
                   whole |-> run[p].rows \subseteq run[p].keys, shaded |-> flooded]
         /\ archives' = Append(Shade(flooded), new)
  BY <1>2
<1>4. site' = site /\ run[p].name \in Names /\ At(p, "write") /\ s \in Nat /\ run[p].pc \in Early
  BY BackupsAssumption DEF Write, world, At, BackupsInv, NamesOwn, TypeOK, Early
<1>5. new \in Archive /\ new.whole
  <2>1. new.whole
    BY <1>3, <1>4 DEF BackupsInv, RowsReady, At
  <2>2. (run[p].rows \subseteq run[p].keys) \in BOOLEAN
    OBVIOUS
  <2>3. 0 \in 0 .. Oldest
    BY Ages
  <2>. QED
    BY <1>3, <1>4, <2>1, <2>2, <2>3 DEF Archive
<1>6. /\ Shade(flooded) \in Seq(Archive) /\ Len(Shade(flooded)) = Len(archives)
      /\ \A i \in 1 .. Len(archives) :
            /\ Shade(flooded)[i].name = archives[i].name
            /\ Shade(flooded)[i].age = archives[i].age
            /\ Shade(flooded)[i].bytes = archives[i].bytes
            /\ Shade(flooded)[i].whole = archives[i].whole
            /\ Shade(flooded)[i].shaded <=> archives[i].shaded \/ flooded
  <2>1. ASSUME NEW i \in 1 .. Len(archives)
        PROVE  [archives[i] EXCEPT !.shaded = @ \/ flooded] \in Archive
    <3>1. archives[i] \in Archive
      BY <1>1
    <3>2. (archives[i].shaded \/ flooded) \in BOOLEAN
      OBVIOUS
    <3>. QED
      BY <3>1, <3>2 DEF Archive
  <2>2. Shade(flooded) = [i \in 1 .. Len(archives) |-> [archives[i] EXCEPT !.shaded = @ \/ flooded]]
    BY <1>1 DEF Shade
  <2>3. Shade(flooded) \in Seq(Archive) /\ Len(Shade(flooded)) = Len(archives)
    BY <1>1, <2>1, <2>2
  <2>4. ASSUME NEW i \in 1 .. Len(archives)
        PROVE  /\ Shade(flooded)[i].name = archives[i].name
               /\ Shade(flooded)[i].age = archives[i].age
               /\ Shade(flooded)[i].bytes = archives[i].bytes
               /\ Shade(flooded)[i].whole = archives[i].whole
               /\ Shade(flooded)[i].shaded <=> archives[i].shaded \/ flooded
    <3>1. archives[i] \in Archive
      BY <1>1
    <3>2. Shade(flooded)[i] = [archives[i] EXCEPT !.shaded = @ \/ flooded]
      BY <2>2
    <3>. QED
      BY <3>1, <3>2 DEF Archive
  <2>. QED
    BY <2>3, <2>4
<1>7. /\ archives' \in Seq(Archive) /\ Len(archives') = Len(archives) + 1
      /\ \A i \in 1 .. Len(archives) : archives'[i] = Shade(flooded)[i]
      /\ archives'[Len(archives) + 1] = new
      /\ DOMAIN archives' = 1 .. Len(archives) + 1
  BY <1>1, <1>3, <1>5, <1>6, AppendProperties
<1>8. /\ \A i \in 1 .. Len(archives) : archives[i].name # new.name /\ new.age <= archives[i].age
      /\ \A i \in 1 .. Len(archives) : archives[i] \in Archive
  <2>1. ASSUME NEW i \in 1 .. Len(archives)
        PROVE  archives[i].name # new.name /\ new.age <= archives[i].age
    <3>1. ~Stands(run[p].name)
      BY <1>4 DEF BackupsInv, NamesOwn
    <3>2. archives[i].name # new.name
      BY <1>1, <1>3, <3>1 DEF Stands
    <3>3. archives[i] \in Archive
      BY <1>1
    <3>4. archives[i].age \in 0 .. Oldest
      BY <3>3 DEF Archive
    <3>. QED
      BY <1>3, <3>2, <3>4, Ages
  <2>. QED
    BY <1>1, <2>1
<1>9. ArchivesWhole'
  <2>1. ASSUME NEW i \in 1 .. Len(archives) + 1 PROVE archives'[i].whole
    <3>1. CASE i = Len(archives) + 1
      BY <1>5, <1>7, <3>1
    <3>2. CASE i \in 1 .. Len(archives)
      BY <1>1, <1>6, <1>7, <3>2 DEF BackupsInv, ArchivesWhole
    <3>. QED
      BY <1>1, <3>1, <3>2
  <2>. QED
    BY <1>7, <2>1 DEF ArchivesWhole, Kept, ToSet
<1>10. Ordered'
  <2>1. ASSUME NEW i \in 1 .. Len(archives) + 1, NEW j \in 1 .. Len(archives) + 1, i < j
        PROVE  archives'[j].age <= archives'[i].age /\ archives'[i].name # archives'[j].name
    <3>1. i \in 1 .. Len(archives)
      BY <1>1, <2>1
    <3>2. CASE j = Len(archives) + 1
      BY <1>6, <1>7, <1>8, <3>1, <3>2
    <3>3. CASE j \in 1 .. Len(archives)
      BY <1>1, <1>6, <1>7, <2>1, <3>1, <3>3 DEF BackupsInv, Ordered
    <3>. QED
      BY <1>1, <3>2, <3>3
  <2>. QED
    BY <1>7, <2>1 DEF Ordered
<1>11. Shades'
  <2>1. ASSUME NEW i \in 1 .. Len(archives) + 1, NEW j \in 1 .. Len(archives) + 1
        PROVE  /\ archives'[i].bytes > site'.maxBytes => archives'[j].shaded
               /\ i < j /\ archives'[j].shaded => archives'[i].shaded
    <3>1. ASSUME flooded, NEW x \in 1 .. Len(archives) + 1 PROVE archives'[x].shaded
      <4>1. CASE x = Len(archives) + 1
        <5>1. new.shaded
          BY <1>3, <3>1
        <5>. QED
          BY <1>7, <4>1, <5>1
      <4>2. CASE x \in 1 .. Len(archives)
        BY <1>6, <1>7, <3>1, <4>2
      <4>. QED
        BY <1>1, <4>1, <4>2
    <3>2. archives'[i].bytes > site'.maxBytes => flooded
      <4>1. CASE i = Len(archives) + 1
        BY <1>3, <1>4, <1>7, <4>1
      <4>2. CASE i \in 1 .. Len(archives)
        BY <1>1, <1>3, <1>4, <1>6, <1>7, <4>2 DEF Big
      <4>. QED
        BY <1>1, <4>1, <4>2
    <3>3. CASE ~flooded /\ i < j /\ archives'[j].shaded
      <4>1. j \in 1 .. Len(archives) /\ i \in 1 .. Len(archives)
        BY <1>1, <1>3, <1>7, <3>3
      <4>. QED
        BY <1>1, <1>6, <1>7, <3>3, <4>1 DEF BackupsInv, Shades
    <3>. QED
      BY <3>1, <3>2, <3>3
  <2>. QED
    BY <1>7, <2>1 DEF Shades, Big
<1>12. \A i \in 1 .. Len(archives) : /\ archives'[i].name = archives[i].name
                                     /\ archives[i].shaded => archives'[i].shaded
  BY <1>6, <1>7
<1>13. archives'[Len(archives')].name = run[p].name /\ archives'[Len(archives')].age = 0
  BY <1>3, <1>7
<1>. QED
  BY <1>4, <1>7, <1>9, <1>10, <1>11, <1>12, <1>13 DEF Directory

\* A day makes every archive older and nothing else.
LEMMA DayAges ==
    ASSUME Directory, Day
    PROVE  /\ Directory' /\ site' = site /\ Len(archives') = Len(archives)
           /\ \A i \in 1 .. Len(archives) : /\ archives'[i].name = archives[i].name
                                            /\ archives'[i].shaded = archives[i].shaded
<1>1. /\ archives \in Seq(Archive) /\ Len(archives) \in Nat /\ DOMAIN archives = 1 .. Len(archives)
      /\ archives' = [i \in 1 .. Len(archives) |-> Older(archives[i])] /\ site' = site
  BY DEF Directory, Day, world
<1>2. ASSUME NEW i \in 1 .. Len(archives)
      PROVE  LET a == Older(archives[i])
             IN  /\ a \in Archive /\ a.name = archives[i].name /\ a.bytes = archives[i].bytes
                 /\ a.whole = archives[i].whole /\ a.shaded = archives[i].shaded
                 /\ a.age = IF archives[i].age < Oldest THEN archives[i].age + 1 ELSE Oldest
  <2>1. archives[i] \in Archive
    BY <1>1
  <2>2. /\ archives[i].age \in 0 .. Oldest /\ Min({archives[i].age + 1, Oldest}) \in 0 .. Oldest
        /\ Min({archives[i].age + 1, Oldest})
              = IF archives[i].age < Oldest THEN archives[i].age + 1 ELSE Oldest
    BY <2>1, Ages DEF Archive
  <2>. QED
    BY <2>1, <2>2 DEF Older, Archive
<1>3. /\ archives' \in Seq(Archive) /\ Len(archives') = Len(archives)
      /\ DOMAIN archives' = 1 .. Len(archives)
      /\ \A i \in 1 .. Len(archives) : archives'[i] = Older(archives[i])
  BY <1>1, <1>2
<1>4. ArchivesWhole'
  BY <1>1, <1>2, <1>3 DEF Directory, ArchivesWhole, Kept, ToSet
<1>5. Ordered'
  <2>1. ASSUME NEW i \in 1 .. Len(archives), NEW j \in 1 .. Len(archives), i < j
        PROVE  archives'[j].age <= archives'[i].age /\ archives'[i].name # archives'[j].name
    <3>1. archives[j].age <= archives[i].age /\ archives[i].name # archives[j].name
      BY <1>1, <2>1 DEF Directory, Ordered
    <3>2. archives[i] \in Archive /\ archives[j] \in Archive
      BY <1>1
    <3>3. archives[i].age \in 0 .. Oldest /\ archives[j].age \in 0 .. Oldest
      BY <3>2 DEF Archive
    <3>. QED
      BY <1>2, <1>3, <3>1, <3>3, Ages
  <2>. QED
    BY <1>3, <2>1 DEF Ordered
<1>6. Shades'
  <2>1. ASSUME NEW i \in 1 .. Len(archives), NEW j \in 1 .. Len(archives)
        PROVE  /\ archives'[i].bytes > site'.maxBytes => archives'[j].shaded
               /\ i < j /\ archives'[j].shaded => archives'[i].shaded
    BY <1>1, <1>2, <1>3 DEF Directory, Shades, Big
  <2>. QED
    BY <1>3, <2>1 DEF Shades, Big
<1>. QED
  BY <1>1, <1>2, <1>3, <1>4, <1>5, <1>6 DEF Directory

-----------------------------------------------------------------------------
(* Types and rows *)

\* The files and the runs have their types after a step.
Typed == run' \in [Procs -> Run] /\ parts' \subseteq Part

\* The files of a backup, when it is through.
LEMMA PartsTyped ==
    ASSUME TypeOK, NEW p \in Procs
    PROVE  /\ \A left \in SUBSET Part : Deserted(p, left) \subseteq Part /\ LeftBehind(p, left) \subseteq Part
           /\ run[p].name \in Names \cup {0} /\ DbFile(p) \in Part /\ ZipFile(p) \in Part
           /\ {f \in parts : ~(Prunable(f) /\ f.age > PartialAge)} \subseteq Part
<1>1. run[p] \in Run /\ parts \subseteq Part
  BY DEF TypeOK
<1>2. run[p].name \in Names \cup {0} /\ 0 \in 0 .. Oldest
  BY <1>1, Ages DEF Run
<1>3. DbFile(p) \in Part /\ ZipFile(p) \in Part
  BY <1>2 DEF DbFile, ZipFile, Part
<1>4. ASSUME NEW left \in SUBSET Part, NEW f \in left
      PROVE  (IF f.name = run[p].name THEN [f EXCEPT !.name = 0] ELSE f) \in Part
  <2>1. f \in Part
    OBVIOUS
  <2>. QED
    BY <2>1 DEF Part
<1>5. \A left \in SUBSET Part : Deserted(p, left) \subseteq Part /\ LeftBehind(p, left) \subseteq Part
  BY <1>4 DEF Deserted, LeftBehind
<1>. QED
  BY <1>1, <1>2, <1>3, <1>5

\* What is left of a backup that fails or ends.
LEMMA ThrownTyped ==
    ASSUME TypeOK, NEW p \in Procs
    PROVE  /\ NoRun \in Run
           /\ Thrown(p) \in [Procs -> Run] /\ [run EXCEPT ![p] = NoRun] \in [Procs -> Run]
           /\ \A q \in Procs \ {p} : Thrown(p)[q] = run[q]
           /\ IF run[p].pc \in Guarded
              THEN Thrown(p)[p] = [run[p] EXCEPT !.pc = "end", !.excess = <<>>]
              ELSE Thrown(p)[p] = NoRun
<1>1. run \in [Procs -> Run]
  BY DEF TypeOK
<1>2. <<>> \in Seq(Names)
  OBVIOUS
<1>3. NoRun \in Run
  BY <1>2 DEF NoRun, Run
<1>4. run[p] \in Run
  BY <1>1
<1>5. [run[p] EXCEPT !.pc = "end", !.excess = <<>>] \in Run
  BY <1>2, <1>4 DEF Run
<1>. QED
  BY <1>1, <1>3, <1>5 DEF Thrown

\* What enforceBackupLimits is going to remove are names of archives.
LEMMA ExcessTyped ==
    ASSUME TypeOK, NEW most, NEW room, NEW least \in Nat
    PROVE  Excess(most, room, least) \in Seq(Names)
<1>1. PICK n \in 0 .. Len(archives) : Excess(most, room, least) = [i \in 1 .. n |-> archives[i].name]
  BY ExcessIs DEF TypeOK
<1>2. Len(archives) \in Nat /\ \A i \in 1 .. Len(archives) : archives[i] \in Archive
  BY DEF TypeOK
<1>3. \A i \in 1 .. n : archives[i].name \in Names
  BY <1>2 DEF Archive
<1>. QED
  BY <1>1, <1>2, <1>3

\* What comes after a trim.
LEMMA AfterIs ==
    ASSUME NEW p \in Procs
    PROVE  /\ At(p, "trim2") => After(p) = "end"
           /\ ~At(p, "trim2") => After(p) \in {"copy", "stat"}
  BY DEF After

\* The next step of a backup, with another list of archives to remove.
LEMMA RunMoves ==
    ASSUME run \in [Procs -> Run], NEW p \in Procs, NEW excess \in Seq(Names), NEW g \in BOOLEAN,
           NEW x \in {"copy", "stat", "trim", "size", "limit", "trim2", "end"}
    PROVE  /\ [run EXCEPT ![p].pc = x, ![p].excess = excess, ![p].good = g] \in [Procs -> Run]
           /\ [run EXCEPT ![p].pc = x] \in [Procs -> Run]
<1>1. run[p] \in Run
  OBVIOUS
<1>2. [run[p] EXCEPT !.pc = x, !.excess = excess, !.good = g] \in Run
  BY <1>1 DEF Run
<1>3. [run[p] EXCEPT !.pc = x] \in Run
  BY <1>1 DEF Run
<1>4. [run EXCEPT ![p].pc = x, ![p].excess = excess, ![p].good = g]
        = [run EXCEPT ![p] = [run[p] EXCEPT !.pc = x, !.excess = excess, !.good = g]]
  BY <1>1 DEF Run
<1>5. [run EXCEPT ![p].pc = x] = [run EXCEPT ![p] = [run[p] EXCEPT !.pc = x]]
  OBVIOUS
<1>. QED
  BY <1>2, <1>3, <1>4, <1>5

\* A step of a backup keeps the types.
LEMMA BeginTyped ==
    ASSUME TypeOK, NEW p \in Procs, Begin(p)
    PROVE  Typed
<1>1. run \in [Procs -> Run] /\ Min(Unused) \in Names /\ NoRun \in Run
  BY NewName, ThrownTyped DEF TypeOK, Begin, Unused
<1>2. PICK alone \in BOOLEAN : run' = [q \in Procs |->
         IF q = p THEN [NoRun EXCEPT !.pc = IF Sqlite THEN "space" ELSE "dump",
                                     !.name = Min(Unused), !.alone = alone]
         ELSE [run[q] EXCEPT !.alone = @ /\ At(q, "idle")]]
  BY DEF Begin
<1>3. [NoRun EXCEPT !.pc = IF Sqlite THEN "space" ELSE "dump",
                    !.name = Min(Unused), !.alone = alone] \in Run
  <2>1. (IF Sqlite THEN "space" ELSE "dump") \in {"space", "dump"}
    OBVIOUS
  <2>2. PICK x \in {"space", "dump"} : x = IF Sqlite THEN "space" ELSE "dump"
    BY <2>1
  <2>3. [NoRun EXCEPT !.pc = x, !.name = Min(Unused), !.alone = alone] \in Run
    BY <1>1 DEF Run
  <2>. QED
    BY <2>2, <2>3
<1>4. ASSUME NEW q \in Procs PROVE [run[q] EXCEPT !.alone = @ /\ At(q, "idle")] \in Run
  <2>1. run[q] \in Run /\ (run[q].alone /\ At(q, "idle")) \in BOOLEAN
    BY <1>1
  <2>. QED
    BY <2>1 DEF Run
<1>5. parts' = {f \in parts : ~(Prunable(f) /\ f.age > PartialAge)}
  BY DEF Begin, Prune
<1>6. run' \in [Procs -> Run]
  BY <1>2, <1>3, <1>4
<1>. QED
  BY <1>5, <1>6, PartsTyped DEF Typed

\* So does any other step of a backup, a call that fails and a kill.
LEMMA StepTyped ==
    ASSUME TypeOK, NamesOwn, NEW p \in Procs, Step(p) \/ Fails(p) \/ Killed(p)
    PROVE  Typed
<1>0. /\ run \in [Procs -> Run] /\ parts \subseteq Part /\ run[p] \in Run /\ Listed \subseteq Blobs
      /\ <<>> \in Seq(Names)
  BY DEF TypeOK, Listed
<1>1. CASE Dump(p)
  BY <1>0, <1>1, PartsTyped DEF Dump, Typed, Run
<1>2. CASE List(p)
  BY <1>0, <1>2 DEF List, Typed, Run, files
<1>3. CASE MakeSpace(p)
  <2>1. PICK expected \in site.sizes :
           LET excess == Excess(Max({1, site.maxCount - 1}), Max({0, site.maxBytes - expected}), 1)
           IN  run' = [run EXCEPT ![p].pc = IF excess = <<>> THEN After(p) ELSE "trim",
                                    ![p].excess = excess]
    BY <1>3 DEF MakeSpace
  <2>2. PICK excess \in Seq(Names) :
           run' = [run EXCEPT ![p].pc = IF excess = <<>> THEN After(p) ELSE "trim",
                                    ![p].excess = excess]
    BY <2>1, ExcessTyped
  <2>3. PICK x \in {"trim", "copy", "stat"} : x = IF excess = <<>> THEN After(p) ELSE "trim"
    BY <1>3, AfterIs DEF MakeSpace, At
  <2>4. run' = [run EXCEPT ![p].pc = x, ![p].excess = excess]
    BY <2>2, <2>3
  <2>5. [run EXCEPT ![p].pc = x, ![p].excess = excess] \in [Procs -> Run]
    <3>1. [run[p] EXCEPT !.pc = x, !.excess = excess] \in Run
      BY <1>0 DEF Run
    <3>. QED
      BY <1>0, <3>1
  <2>6. parts' = parts
    BY <1>3 DEF MakeSpace, files
  <2>. QED
    BY <1>0, <2>4, <2>5, <2>6 DEF Typed
<1>4. CASE Trim(p)
  <2>1. run[p].excess \in Seq(Names) /\ run[p].excess # <<>>
    BY <1>0, <1>4 DEF NamesOwn, Trim, Run
  <2>2. PICK rest \in Seq(Names) : rest = Tail(run[p].excess)
    BY <2>1, HeadTailProperties
  <2>3. CASE Stands(Head(run[p].excess))
    <3>1. run' = [run EXCEPT ![p].pc = IF rest = <<>> THEN After(p) ELSE @,
                             ![p].excess = rest,
                             ![p].good = rest = <<>> /\ At(p, "trim2")] /\ parts' = parts
      BY <1>4, <2>2, <2>3 DEF Trim
    <3>2. PICK g \in BOOLEAN : g = (rest = <<>> /\ At(p, "trim2"))
      OBVIOUS
    <3>3. PICK x \in {"end", "copy", "stat", "trim", "trim2"} :
              x = IF rest = <<>> THEN After(p) ELSE run[p].pc
      BY <1>4, AfterIs DEF Trim
    <3>4. run' = [run EXCEPT ![p].pc = x, ![p].excess = rest, ![p].good = g]
      BY <1>0, <3>1, <3>2, <3>3
    <3>5. x \in {"copy", "stat", "trim", "size", "limit", "trim2", "end"}
      OBVIOUS
    <3>6. [run EXCEPT ![p].pc = x, ![p].excess = rest, ![p].good = g] \in [Procs -> Run]
      BY <1>0, <3>5, RunMoves, ZenonT(60)
    <3>7. parts' \subseteq Part
      BY <1>0, <3>1
    <3>. QED
      BY <3>4, <3>6, <3>7 DEF Typed
  <2>4. CASE ~Stands(Head(run[p].excess))
    <3>1. run' = Thrown(p) /\ parts' = LeftBehind(p, parts)
      BY <1>4, <2>4 DEF Trim
    <3>. QED
      BY <1>0, <3>1, ThrownTyped, PartsTyped DEF Typed
  <2>. QED
    BY <2>3, <2>4
<1>5. CASE Copy(p)
  BY <1>0, <1>5, PartsTyped DEF Copy, Typed, Run
<1>6. CASE Stat(p)
  <2>1. [run EXCEPT ![p].pc = "open"] \in [Procs -> Run]
    BY <1>0 DEF Run
  <2>. QED
    BY <1>0, <1>6, <2>1, ThrownTyped DEF Stat, Typed, files
<1>7. CASE Open(p)
  <2>1. parts \cup {ZipFile(p)} \subseteq Part
    BY <1>0, PartsTyped
  <2>2. {b \in run[p].keys : OnDisk(b)} \subseteq Blobs
    BY <1>0 DEF Run
  <2>3. [run EXCEPT ![p].pc = "write", ![p].keys = {b \in @ : OnDisk(b)}] \in [Procs -> Run]
    BY <1>0, <2>2 DEF Run
  <2>. QED
    BY <1>7, <2>1, <2>3, ThrownTyped, PartsTyped DEF Open, Typed, Dies
<1>8. CASE Write(p)
  BY <1>0, <1>8 DEF Write, Typed, Run
<1>9. CASE CheckSize(p)
  <2>1. /\ run' = [run EXCEPT ![p].pc = "limit"] \/ run' = Thrown(p)
        /\ parts' = parts
    BY <1>9 DEF CheckSize, Goes
  <2>2. [run EXCEPT ![p].pc = "limit"] \in [Procs -> Run]
    BY <1>0, RunMoves
  <2>. QED
    BY <1>0, <2>1, <2>2, ThrownTyped DEF Typed
<1>10. CASE PruneAgain(p)
  BY <1>0, <1>10, PartsTyped DEF PruneAgain, Prune, Typed
<1>11. CASE Limit(p)
  <2>1. PICK excess \in Seq(Names) :
           run' = [run EXCEPT ![p].pc = IF excess = <<>> THEN "end" ELSE "trim2",
                              ![p].excess = excess, ![p].good = excess = <<>>]
    BY <1>11, ExcessTyped DEF Limit
  <2>2. PICK x \in {"end", "trim2"}, g \in BOOLEAN :
           x = (IF excess = <<>> THEN "end" ELSE "trim2") /\ g = (excess = <<>>)
    OBVIOUS
  <2>3. run' = [run EXCEPT ![p].pc = x, ![p].excess = excess, ![p].good = g]
    BY <2>1, <2>2
  <2>4. parts' = parts
    BY <1>11 DEF Limit, files
  <2>. QED
    BY <1>0, <2>3, <2>4, RunMoves DEF Typed
<1>12. CASE End(p)
  BY <1>0, <1>12, ThrownTyped DEF End, Typed
<1>13. CASE Fails(p)
  BY <1>0, <1>13, ThrownTyped, PartsTyped, ZenonT(60) DEF Fails, Typed
<1>14. CASE Killed(p)
  BY <1>0, <1>14, ThrownTyped, PartsTyped DEF Killed, Dies, Typed
<1>. QED
  BY <1>1, <1>2, <1>3, <1>4, <1>5, <1>6, <1>7, <1>8, <1>9, <1>10, <1>11, <1>12, <1>13, <1>14 DEF Step

\* Only these steps touch the archives.
LEMMA ArchivesMove ==
    ASSUME Next
    PROVE  \/ UNCHANGED <<site, archives>>
           \/ Day
           \/ \E p \in Procs :
                 \/ Write(p)
                 \/ site' = site /\ Prune /\ (Begin(p) \/ PruneAgain(p))
                 \/ /\ Trim(p) /\ site' = site /\ Stands(Head(run[p].excess))
                    /\ archives' = Without(Head(run[p].excess))
                 \/ /\ CheckSize(p) /\ site' = site /\ archives' = Without(run[p].name)
                    /\ ~\E a \in Kept : a.name = run[p].name /\ ~Big(a)
<1>1. ASSUME NEW p \in Procs,
             Dump(p) \/ List(p) \/ MakeSpace(p) \/ Copy(p) \/ Stat(p) \/ Open(p) \/ Limit(p)
               \/ End(p) \/ Fails(p) \/ Killed(p)
      PROVE  UNCHANGED <<site, archives>>
  BY <1>1 DEF Dump, List, MakeSpace, Copy, Stat, Open, Limit, End, Fails, Killed, files, world
<1>2. ASSUME NEW p \in Procs, Begin(p), site' = site PROVE site' = site /\ Prune /\ Begin(p)
  BY <1>2 DEF Begin
<1>3. CASE Tick \/ RunOnce
  BY <1>2, <1>3 DEF Tick, RunOnce, world, Procs
<1>4. CASE Restart \/ \E b \in Blobs : Live(b) \/ Collect(b) \/ RemoveRow(b)
  BY <1>4 DEF Restart, Live, Collect, RemoveRow, files
<1>5. ASSUME NEW p \in Procs, PruneAgain(p) PROVE site' = site /\ Prune /\ PruneAgain(p)
  BY <1>5 DEF PruneAgain, world
<1>6. ASSUME NEW p \in Procs, Trim(p)
      PROVE  \/ UNCHANGED <<site, archives>>
             \/ /\ Trim(p) /\ site' = site /\ Stands(Head(run[p].excess))
                /\ archives' = Without(Head(run[p].excess))
  BY <1>6 DEF Trim, world
<1>7. ASSUME NEW p \in Procs, CheckSize(p)
      PROVE  \/ UNCHANGED <<site, archives>>
             \/ /\ CheckSize(p) /\ site' = site /\ archives' = Without(run[p].name)
                /\ ~\E a \in Kept : a.name = run[p].name /\ ~Big(a)
  BY <1>7 DEF CheckSize, world
<1>. QED
  BY <1>1, <1>3, <1>4, <1>5, <1>6, <1>7 DEF Next, Step

\* The archives stay whole and in order, whatever step is taken.
LEMMA DirectoryKept ==
    ASSUME BackupsInv, Next
    PROVE  Directory'
<1>1. Directory
  BY DEF BackupsInv, Directory, TypeOK
<1>2. CASE UNCHANGED <<site, archives>>
  BY <1>1, <1>2 DEF Directory, ArchivesWhole, Ordered, Shades, Big, Kept
<1>3. CASE Day
  BY <1>1, <1>3, DayAges
<1>4. ASSUME NEW p \in Procs, Write(p) PROVE Directory'
  BY <1>4, WriteAdds
<1>5. CASE site' = site /\ Prune
  BY <1>1, <1>5, PruneTakes, FewerKeeps
<1>6. ASSUME NEW n, Stands(n), site' = site, archives' = Without(n) PROVE Directory'
  BY <1>1, <1>6, WithoutTakes, FewerKeeps
<1>7. ASSUME NEW n, ~Stands(n), site' = site, archives' = Without(n)
      PROVE  UNCHANGED <<site, archives>>
  BY <1>7 DEF Without
<1>8. ASSUME NEW n, site' = site, archives' = Without(n) PROVE Directory'
  BY <1>2, <1>6, <1>7, <1>8
<1>. QED
  BY <1>2, <1>3, <1>4, <1>5, <1>8, ArchivesMove

\* Originals that come and go.
LEMMA LiveTyped ==
    ASSUME TypeOK, NEW b \in Blobs, Live(b) \/ Collect(b) \/ RemoveRow(b)
    PROVE  /\ Typed /\ blobs' \in [Blobs -> BlobState]
           /\ \A p \in Procs : /\ run'[p].pc = run[p].pc /\ run'[p].name = run[p].name
                               /\ run'[p].keys = run[p].keys /\ run'[p].excess = run[p].excess
                               /\ run'[p].alone = run[p].alone /\ run'[p].good = run[p].good
                               /\ run'[p].rows \subseteq run[p].rows
           /\ \A p \in Procs : run'[p].rows \subseteq run[p].rows \ {b}
                                 \/ (b \in Listed => b \in Listed')
<1>1. run \in [Procs -> Run] /\ blobs \in [Blobs -> BlobState] /\ parts \subseteq Part
  BY DEF TypeOK
<1>2. ASSUME NEW p \in Procs PROVE [run[p] EXCEPT !.rows = @ \ {b}] \in Run
  <2>1. run[p] \in Run
    BY <1>1
  <2>. QED
    BY <2>1 DEF Run
<1>3. ASSUME Leaves(b)
      PROVE  /\ run' \in [Procs -> Run]
             /\ \A p \in Procs : run'[p] = [run[p] EXCEPT !.rows = @ \ {b}]
  BY <1>2, <1>3 DEF Leaves
<1>4. ASSUME Leaves(b), NEW p \in Procs
      PROVE  /\ run'[p].pc = run[p].pc /\ run'[p].name = run[p].name
             /\ run'[p].keys = run[p].keys /\ run'[p].excess = run[p].excess
             /\ run'[p].alone = run[p].alone /\ run'[p].good = run[p].good
             /\ run'[p].rows = run[p].rows \ {b}
  <2>1. run[p] \in Run
    BY <1>1
  <2>. QED
    BY <1>3, <1>4, <2>1 DEF Run
<1>5. /\ parts' = parts
      /\ \E to \in BlobState : blobs' = [blobs EXCEPT ![b] = to]
  BY DEF Live, Collect, RemoveRow, Turn, files, BlobState
<1>6. Leaves(b) \/ (run' = run /\ (b \in Listed => b \in Listed'))
  BY <1>1 DEF Live, Collect, RemoveRow, Turn, Listed
<1>7. CASE Leaves(b)
  BY <1>1, <1>3, <1>4, <1>5, <1>7 DEF Typed
<1>8. CASE run' = run /\ (b \in Listed => b \in Listed')
  BY <1>1, <1>5, <1>8 DEF Typed
<1>. QED
  BY <1>6, <1>7, <1>8

\* Every step keeps the types.
LEMMA TypeKept ==
    ASSUME BackupsInv, Next
    PROVE  TypeOK'
<1>0. TypeOK /\ NamesOwn
  BY DEF BackupsInv
<1>1. archives' \in Seq(Archive)
  BY DirectoryKept DEF Directory
<1>2. /\ site' = site /\ up' \in BOOLEAN
      /\ faults' \in Nat /\ removals' \in Nat /\ oneOffs' \in Nat
  <2>1. ASSUME NEW p \in Procs, Step(p) \/ Fails(p) \/ Killed(p)
        PROVE  site' = site /\ up' \in BOOLEAN /\ faults' \in Nat /\ removals' \in Nat /\ oneOffs' \in Nat
    <3>1. CASE Write(p)
      BY <1>0, <3>1 DEF Write, TypeOK, world
    <3>2. CASE Step(p) /\ ~Write(p)
      BY <1>0, <3>2 DEF Step, TypeOK, Dump, List, MakeSpace, Trim, Copy, Stat, Open, CheckSize,
           PruneAgain, Limit, End, world, counters, Dies
    <3>3. CASE Fails(p)
      BY <1>0, <3>3 DEF TypeOK, Fails, world
    <3>4. CASE Killed(p)
      <4>1. up' \in BOOLEAN
        BY <3>4 DEF Killed, Dies
      <4>2. site' = site /\ faults' \in Nat /\ removals' \in Nat /\ oneOffs' \in Nat
        BY <1>0, <3>4 DEF TypeOK, Killed
      <4>. QED
        BY <4>1, <4>2
    <3>. QED
      BY <2>1, <3>1, <3>2, <3>3, <3>4
  <2>2. CASE Tick \/ RunOnce \/ Restart \/ Day
    <3>1. CASE Tick \/ Day
      BY <1>0, <3>1 DEF TypeOK, Tick, Day, world, counters
    <3>2. CASE RunOnce
      BY <1>0, <3>2 DEF TypeOK, RunOnce, world
    <3>3. CASE Restart
      BY <1>0, <3>3 DEF TypeOK, Restart, counters
    <3>. QED
      BY <2>2, <3>1, <3>2, <3>3
  <2>3. CASE \E b \in Blobs : Live(b) \/ Collect(b) \/ RemoveRow(b)
    BY <1>0, <2>3 DEF TypeOK, Live, Collect, RemoveRow, counters
  <2>. QED
    BY <2>1, <2>2, <2>3 DEF Next
<1>3. Typed /\ blobs' \in [Blobs -> BlobState]
  <2>1. ASSUME NEW p \in Procs, Step(p) \/ Fails(p) \/ Killed(p)
        PROVE  Typed /\ blobs' = blobs
    BY <1>0, <2>1, StepTyped DEF Step, Dump, List, MakeSpace, Trim, Copy, Stat, Open, Write,
         CheckSize, PruneAgain, Limit, End, Fails, Killed, Dies, world
  <2>2. CASE Tick \/ RunOnce
    BY <1>0, <2>2, BeginTyped DEF Tick, RunOnce, world, TypeOK, Procs
  <2>3. CASE Restart
    BY <1>0, <2>3 DEF Restart, TypeOK, Typed, files
  <2>4. CASE Day
    <3>1. ASSUME NEW f \in parts PROVE Older(f) \in Part
      <4>1. f \in Part
        BY <1>0 DEF TypeOK
      <4>2. Min({f.age + 1, Oldest}) \in 0 .. Oldest
        BY <4>1, Ages DEF Part
      <4>. QED
        BY <4>1, <4>2 DEF Older, Part
    <3>. QED
      BY <1>0, <2>4, <3>1 DEF Day, Typed, TypeOK, world
  <2>5. CASE \E b \in Blobs : Live(b) \/ Collect(b) \/ RemoveRow(b)
    BY <1>0, <2>5, LiveTyped
  <2>. QED
    BY <1>0, <2>1, <2>2, <2>3, <2>4, <2>5 DEF Next, TypeOK
<1>. QED
  BY <1>0, <1>1, <1>2, <1>3 DEF TypeOK, Typed

\* What a backup keeps of itself while it goes on.
Kin(p) == /\ run'[p].name = run[p].name /\ run'[p].alone = run[p].alone
          /\ run'[p].rows = run[p].rows /\ run'[p].keys = run[p].keys

\* A backup moves nobody else.
OnlyMoves(p) == \A q \in Procs \ {p} : run'[q] = run[q]

\* A backup goes to its next step.
LEMMA NextMoves ==
    ASSUME TypeOK, NEW p \in Procs, NEW x, run' = [run EXCEPT ![p].pc = x]
    PROVE  /\ OnlyMoves(p) /\ Kin(p) /\ run'[p].pc = x
           /\ run'[p].excess = run[p].excess /\ run'[p].good = run[p].good
<1>1. run \in [Procs -> Run] /\ run[p] \in Run
  BY DEF TypeOK
<1>2. run' = [run EXCEPT ![p] = [run[p] EXCEPT !.pc = x]]
  BY <1>1
<1>. QED
  BY <1>1, <1>2 DEF OnlyMoves, Kin, Run

\* ... with a new list of archives to remove,
LEMMA ListMoves ==
    ASSUME TypeOK, NEW p \in Procs, NEW x, NEW e,
           run' = [run EXCEPT ![p].pc = x, ![p].excess = e]
    PROVE  /\ OnlyMoves(p) /\ Kin(p) /\ run'[p].pc = x
           /\ run'[p].excess = e /\ run'[p].good = run[p].good
<1>1. run \in [Procs -> Run] /\ run[p] \in Run
  BY DEF TypeOK
<1>2. run' = [run EXCEPT ![p] = [run[p] EXCEPT !.pc = x, !.excess = e]]
  BY <1>1 DEF Run
<1>. QED
  BY <1>1, <1>2 DEF OnlyMoves, Kin, Run

\* ... or with a success to report.
LEMMA GoodMoves ==
    ASSUME TypeOK, NEW p \in Procs, NEW x, NEW e, NEW g,
           run' = [run EXCEPT ![p].pc = x, ![p].excess = e, ![p].good = g]
    PROVE  /\ OnlyMoves(p) /\ Kin(p) /\ run'[p].pc = x
           /\ run'[p].excess = e /\ run'[p].good = g
<1>1. run \in [Procs -> Run] /\ run[p] \in Run
  BY DEF TypeOK
<1>2. run' = [run EXCEPT ![p] = [run[p] EXCEPT !.pc = x, !.excess = e, !.good = g]]
  BY <1>1 DEF Run
<1>. QED
  BY <1>1, <1>2 DEF OnlyMoves, Kin, Run

\* A call that throws ends the backup or drops it.
Ended(p) == /\ Kin(p) /\ run'[p].pc = "end" /\ run'[p].excess = <<>>
            /\ run'[p].good = run[p].good /\ run[p].pc \in Guarded

\* What a call that throws does to the runs.
LEMMA ThrownMoves ==
    ASSUME TypeOK, NEW p \in Procs, run' = Thrown(p)
    PROVE  OnlyMoves(p) /\ (Ended(p) \/ (run'[p] = NoRun /\ run[p].pc \notin Guarded))
<1>1. run \in [Procs -> Run] /\ run[p] \in Run
  BY DEF TypeOK
<1>2. OnlyMoves(p)
  BY <1>1, ThrownTyped DEF OnlyMoves
<1>3. CASE run[p].pc \in Guarded
  <2>1. run'[p] = [run[p] EXCEPT !.pc = "end", !.excess = <<>>]
    BY <1>3, ThrownTyped
  <2>. QED
    BY <1>1, <1>2, <1>3, <2>1 DEF Ended, Kin, Run
<1>4. CASE run[p].pc \notin Guarded
  BY <1>2, <1>4, ThrownTyped
<1>. QED
  BY <1>3, <1>4

\* A backup that is through.
LEMMA DropMoves ==
    ASSUME TypeOK, NEW p \in Procs, run' = [run EXCEPT ![p] = NoRun]
    PROVE  OnlyMoves(p) /\ run'[p] = NoRun
  BY DEF TypeOK, OnlyMoves

\* prepareBackupSpace has the last archive stay.
LEMMA MakeSpaceIs ==
    ASSUME TypeOK, NEW p \in Procs, MakeSpace(p)
    PROVE  /\ OnlyMoves(p) /\ Kin(p) /\ run'[p].good = run[p].good
           /\ run'[p].pc = IF run'[p].excess = <<>> THEN After(p) ELSE "trim"
           /\ \E n \in 0 .. Len(archives) :
                 /\ run'[p].excess = [i \in 1 .. n |-> archives[i].name]
                 /\ n # 0 => n < Len(archives)
<1>1. PICK expected \in site.sizes :
         LET excess == Excess(Max({1, site.maxCount - 1}), Max({0, site.maxBytes - expected}), 1)
         IN  run' = [run EXCEPT ![p].pc = IF excess = <<>> THEN After(p) ELSE "trim",
                                ![p].excess = excess]
  BY DEF MakeSpace
<1>2. PICK most, room : most = Max({1, site.maxCount - 1}) /\ room = Max({0, site.maxBytes - expected})
  OBVIOUS
<1>3. PICK e : e = Excess(most, room, 1)
  OBVIOUS
<1>4. PICK x : x = IF e = <<>> THEN After(p) ELSE "trim"
  OBVIOUS
<1>5. run' = [run EXCEPT ![p].pc = x, ![p].excess = e]
  BY <1>1, <1>2, <1>3, <1>4
<1>6. archives \in Seq(Archive) /\ Len(archives) \in Nat
  BY DEF TypeOK
<1>7. PICK n \in 0 .. Len(archives) :
         /\ Excess(most, room, 1) = [i \in 1 .. n |-> archives[i].name]
         /\ \A m \in 0 .. n - 1 : ~ \/ Len(archives) - m <= 1
                                    \/ Len(archives) - m <= most /\ Bytes(Newest(m)) <= room
  BY <1>6, ExcessIs
<1>8. n # 0 => n < Len(archives)
  <2>1. ASSUME n = Len(archives), n # 0 PROVE FALSE
    <3>1. n - 1 \in 0 .. n - 1 /\ Len(archives) - (n - 1) <= 1
      BY <1>6, <2>1
    <3>. QED
      BY <1>7, <3>1
  <2>. QED
    BY <1>6, <2>1
<1>9. OnlyMoves(p) /\ Kin(p) /\ run'[p].pc = x /\ run'[p].excess = e /\ run'[p].good = run[p].good
  <2>1. OnlyMoves(p) /\ Kin(p) /\ run'[p].pc = x /\ run'[p].excess = e
    BY <1>5, ListMoves, ZenonT(60)
  <2>2. run'[p].good = run[p].good
    BY <1>5, ListMoves
  <2>. QED
    BY <2>1, <2>2
<1>10. \E m \in 0 .. Len(archives) :
          run'[p].excess = [i \in 1 .. m |-> archives[i].name] /\ (m # 0 => m < Len(archives))
  BY <1>3, <1>7, <1>8, <1>9
<1>11. run'[p].pc = IF run'[p].excess = <<>> THEN After(p) ELSE "trim"
  BY <1>4, <1>9
<1>. QED
  BY <1>9, <1>10, <1>11

\* The last archive stays if it fits the budget by itself; in the end everything fits.
LEMMA LimitIs ==
    ASSUME TypeOK, NEW p \in Procs, Limit(p)
    PROVE  /\ OnlyMoves(p) /\ Kin(p) /\ (run'[p].good <=> run'[p].excess = <<>>)
           /\ run'[p].pc = IF run'[p].excess = <<>> THEN "end" ELSE "trim2"
           /\ \E n \in 0 .. Len(archives) :
                 /\ run'[p].excess = [i \in 1 .. n |-> archives[i].name]
                 /\ n # 0 /\ ~Big(archives[Len(archives)]) => n < Len(archives)
                 /\ \/ Len(archives) - n <= 0
                    \/ Len(archives) - n <= site.maxCount /\ Bytes(Newest(n)) <= site.maxBytes
<1>1. LET excess == Excess(site.maxCount, site.maxBytes, 0)
      IN  run' = [run EXCEPT ![p].pc = IF excess = <<>> THEN "end" ELSE "trim2",
                             ![p].excess = excess, ![p].good = excess = <<>>]
  BY DEF Limit
<1>2. PICK e : e = Excess(site.maxCount, site.maxBytes, 0)
  OBVIOUS
<1>3. PICK x, g : x = (IF e = <<>> THEN "end" ELSE "trim2") /\ g = (e = <<>>)
  OBVIOUS
<1>4. run' = [run EXCEPT ![p].pc = x, ![p].excess = e, ![p].good = g]
  BY <1>1, <1>2, <1>3
<1>5. archives \in Seq(Archive) /\ Len(archives) \in Nat
  BY DEF TypeOK
<1>6. PICK n \in 0 .. Len(archives) :
         /\ Excess(site.maxCount, site.maxBytes, 0) = [i \in 1 .. n |-> archives[i].name]
         /\ \/ Len(archives) - n <= 0
            \/ Len(archives) - n <= site.maxCount /\ Bytes(Newest(n)) <= site.maxBytes
         /\ \A m \in 0 .. n - 1 : ~ \/ Len(archives) - m <= 0
                                    \/ /\ Len(archives) - m <= site.maxCount
                                       /\ Bytes(Newest(m)) <= site.maxBytes
  <2>1. PICK most, room : most = site.maxCount /\ room = site.maxBytes
    OBVIOUS
  <2>2. PICK n \in 0 .. Len(archives) :
           /\ Excess(most, room, 0) = [i \in 1 .. n |-> archives[i].name]
           /\ \/ Len(archives) - n <= 0
              \/ Len(archives) - n <= most /\ Bytes(Newest(n)) <= room
           /\ \A m \in 0 .. n - 1 : ~ \/ Len(archives) - m <= 0
                                      \/ Len(archives) - m <= most /\ Bytes(Newest(m)) <= room
    BY <1>5, ExcessIs
  <2>. QED
    BY <2>1, <2>2
<1>7. ASSUME n # 0, ~Big(archives[Len(archives)]), n = Len(archives) PROVE FALSE
  <2>1. n - 1 \in 0 .. n - 1 /\ n - 1 \in 0 .. Len(archives) /\ Len(archives) - (n - 1) = 1
    BY <1>5, <1>7
  <2>2. site.maxCount \in Nat \ {0} /\ site.maxBytes \in Nat
    BY BackupsAssumption DEF TypeOK
  <2>3. PICK a : a = archives[Len(archives)]
    OBVIOUS
  <2>4. a \in Archive /\ a.bytes \in Nat
    <3>1. a \in Archive
      BY <1>5, <1>7, <2>3
    <3>. QED
      BY <3>1 DEF Archive
  <2>5. /\ Newest(n - 1) \in Seq(Archive) /\ Len(Newest(n - 1)) = 1
        /\ \A k \in 1 .. 1 : Newest(n - 1)[k] = archives[(n - 1) + k]
    BY <1>5, <2>1, NewestAre
  <2>6. Newest(n - 1) = <<a>>
    BY <1>5, <1>7, <2>3, <2>4, <2>5
  <2>7. Bytes(Newest(n - 1)) <= site.maxBytes
    BY <1>7, <2>2, <2>3, <2>4, <2>6, BytesOfOne DEF Big
  <2>. QED
    BY <1>6, <2>1, <2>2, <2>7
<1>8. n # 0 /\ ~Big(archives[Len(archives)]) => n < Len(archives)
  BY <1>5, <1>7
<1>9. /\ OnlyMoves(p) /\ Kin(p) /\ run'[p].good = g /\ run'[p].pc = x /\ run'[p].excess = e
  BY <1>4, GoodMoves, ZenonT(60)
<1>10. run'[p].good <=> run'[p].excess = <<>>
  BY <1>3, <1>9
<1>. QED
  BY <1>2, <1>3, <1>6, <1>8, <1>9, <1>10

\* One unlink of enforceBackupLimits.
LEMMA TrimIs ==
    ASSUME TypeOK, NamesOwn, NEW p \in Procs, Trim(p), Stands(Head(run[p].excess))
    PROVE  /\ OnlyMoves(p) /\ Kin(p)
           /\ run[p].excess \in Seq(Names) /\ run[p].excess # <<>>
           /\ run'[p].excess = Tail(run[p].excess)
           /\ run'[p].pc = IF Tail(run[p].excess) = <<>> THEN After(p) ELSE run[p].pc
           /\ run'[p].good <=> Tail(run[p].excess) = <<>> /\ At(p, "trim2")
<1>1. run[p].excess \in Seq(Names) /\ run[p].excess # <<>>
  <2>1. run[p] \in Run
    BY DEF TypeOK
  <2>. QED
    BY <2>1 DEF Run, NamesOwn, Trim
<1>2. PICK rest : rest = Tail(run[p].excess)
  OBVIOUS
<1>3. PICK x, g : /\ x = (IF rest = <<>> THEN After(p) ELSE run[p].pc)
                  /\ g = (rest = <<>> /\ At(p, "trim2"))
  OBVIOUS
<1>4. run' = [run EXCEPT ![p].pc = x, ![p].excess = rest, ![p].good = g]
  <2>1. run \in [Procs -> Run] /\ run[p] \in Run
    BY DEF TypeOK
  <2>. QED
    BY <1>2, <1>3, <2>1 DEF Trim
<1>5. OnlyMoves(p) /\ Kin(p) /\ run'[p].pc = x /\ run'[p].excess = rest /\ run'[p].good = g
  BY <1>4, GoodMoves, ZenonT(60)
<1>6. run'[p].good <=> Tail(run[p].excess) = <<>> /\ At(p, "trim2")
  BY <1>2, <1>3, <1>5
<1>. QED
  BY <1>1, <1>2, <1>3, <1>5, <1>6

\* The steps of a backup that has no list of archives to remove.
Calm == {"dump", "list", "space", "copy", "stat", "open", "write"}

\* A step that leaves the archives and the lists of archives to remove alone.
Quiet(p) ==
    /\ OnlyMoves(p) /\ UNCHANGED <<site, archives>>
    /\ \/ run'[p] = NoRun
       \/ Ended(p)
       \/ /\ run[p].pc \in Calm /\ run'[p].pc \in Calm
          /\ run'[p].name = run[p].name /\ run'[p].alone = run[p].alone
          /\ run'[p].excess = run[p].excess /\ run'[p].good = run[p].good

\* The steps that are.
LEMMA QuietSteps ==
    ASSUME TypeOK, NEW p \in Procs,
           \/ Dump(p) \/ List(p) \/ Copy(p) \/ Stat(p) \/ Open(p) \/ End(p) \/ Fails(p) \/ Killed(p)
           \/ Trim(p) /\ ~Stands(Head(run[p].excess))
    PROVE  Quiet(p)
<1>0. run \in [Procs -> Run] /\ run[p] \in Run
  BY DEF TypeOK
<1>1. UNCHANGED <<site, archives>>
  BY DEF Dump, List, Copy, Stat, Open, End, Fails, Killed, Trim, files, world
<1>2. CASE run' = Thrown(p)
  BY <1>1, <1>2, ThrownMoves DEF Quiet
<1>3. CASE run' = [run EXCEPT ![p] = NoRun]
  BY <1>1, <1>3, DropMoves DEF Quiet
<1>4. CASE Dump(p)
  BY <1>0, <1>1, <1>4 DEF Dump, Quiet, OnlyMoves, Calm, At, Run
<1>5. CASE List(p)
  BY <1>0, <1>1, <1>5 DEF List, Quiet, OnlyMoves, Calm, At, Run
<1>6. CASE Copy(p)
  BY <1>0, <1>1, <1>6 DEF Copy, Quiet, OnlyMoves, Calm, At, Run
<1>7. CASE Stat(p) /\ run' = [run EXCEPT ![p].pc = "open"]
  BY <1>0, <1>1, <1>7 DEF Stat, Quiet, OnlyMoves, Calm, At, Run
<1>8. CASE Open(p) /\ run' = [run EXCEPT ![p].pc = "write", ![p].keys = {b \in @ : OnDisk(b)}]
  BY <1>0, <1>1, <1>8 DEF Open, Quiet, OnlyMoves, Calm, At, Run
<1>. QED
  BY <1>2, <1>3, <1>4, <1>5, <1>6, <1>7, <1>8 DEF Stat, Open, End, Fails, Killed, Trim, Dies

\* Who moves when an archive is finished.
LEMMA WriteMoves ==
    ASSUME TypeOK, NEW p \in Procs, Write(p)
    PROVE  /\ OnlyMoves(p) /\ At(p, "write") /\ run'[p].pc = "size"
           /\ run'[p].name = run[p].name /\ run'[p].alone = run[p].alone
           /\ run'[p].excess = run[p].excess /\ run'[p].good = run[p].good
<1>1. run \in [Procs -> Run] /\ run[p] \in Run
  BY DEF TypeOK
<1>. QED
  BY <1>1 DEF Write, OnlyMoves, Run

\* A backup moves nobody else.
LEMMA OthersStay ==
    ASSUME TypeOK, NamesOwn, NEW p \in Procs, Step(p) \/ Fails(p) \/ Killed(p)
    PROVE  blobs' = blobs /\ site' = site /\ OnlyMoves(p)
<1>1. blobs' = blobs /\ site' = site
  BY DEF Step, Dump, List, MakeSpace, Trim, Copy, Stat, Open, Write, CheckSize, PruneAgain, Limit,
         End, Fails, Killed, Dies, world
<1>2. CASE PruneAgain(p)
  BY <1>1, <1>2 DEF PruneAgain, OnlyMoves
<1>3. CASE CheckSize(p)
  BY <1>1, <1>3, NextMoves, ThrownMoves DEF CheckSize, Goes
<1>. QED
  BY <1>1, <1>2, <1>3, QuietSteps, WriteMoves, MakeSpaceIs, LimitIs, TrimIs DEF Step, Quiet

\* What the copy of the database has READY is in the list of keys.
LEMMA RowsKept ==
    ASSUME BackupsInv, Next
    PROVE  RowsReady'
<1>0. /\ TypeOK /\ RowsReady /\ NamesOwn /\ TypeOK' /\ run \in [Procs -> Run]
      /\ \A p \in Procs : run[p] \in Run
  BY TypeKept DEF BackupsInv, TypeOK
<1>1. ASSUME NEW p \in Procs, Step(p) \/ Fails(p) \/ Killed(p)
      PROVE  RowsReady'
  <2>1. Listed' = Listed /\ \A q \in Procs \ {p} : run'[q] = run[q]
    BY <1>0, <1>1, OthersStay DEF Listed, OnlyMoves
  <2>2. /\ run[p].rows \subseteq Listed
        /\ ~At(p, "list") => run[p].rows \subseteq run[p].keys
    BY <1>0 DEF RowsReady
  <2>3. ASSUME run'[p] = NoRun
        PROVE  run'[p].rows \subseteq Listed /\ (run'[p].pc # "list" => run'[p].rows \subseteq run'[p].keys)
    BY <2>3 DEF NoRun
  <2>4. ASSUME run' = Thrown(p)
        PROVE  run'[p].rows \subseteq Listed /\ (run'[p].pc # "list" => run'[p].rows \subseteq run'[p].keys)
    <3>1. CASE Ended(p)
      BY <2>2, <3>1 DEF Ended, Kin, Guarded, At
    <3>. QED
      BY <1>0, <2>3, <2>4, <3>1, ThrownMoves
  <2>5. ASSUME run'[p].rows = run[p].rows, run'[p].keys = run[p].keys, ~At(p, "list")
        PROVE  run'[p].rows \subseteq Listed /\ (run'[p].pc # "list" => run'[p].rows \subseteq run'[p].keys)
    BY <2>2, <2>5
  <2>6. run'[p].rows \subseteq Listed /\ (run'[p].pc # "list" => run'[p].rows \subseteq run'[p].keys)
    <3>1. CASE Dump(p) \/ List(p) \/ Copy(p)
      BY <1>0, <2>2, <3>1 DEF Dump, List, Copy, Run
    <3>2. CASE MakeSpace(p) \/ Limit(p)
      <4>1. run'[p].rows = run[p].rows /\ run'[p].keys = run[p].keys
        BY <1>0, <3>2, MakeSpaceIs, LimitIs DEF Kin
      <4>. QED
        BY <2>5, <3>2, <4>1 DEF MakeSpace, Limit, At
    <3>3. CASE Trim(p)
      <4>1. \/ run'[p].rows = run[p].rows /\ run'[p].keys = run[p].keys
            \/ run' = Thrown(p)
        BY <1>0, <3>3, TrimIs DEF Trim, Kin
      <4>. QED
        BY <2>4, <2>5, <3>3, <4>1 DEF Trim, At
    <3>4. CASE Stat(p) \/ CheckSize(p) \/ Fails(p) \/ PruneAgain(p)
      <4>1. \/ run'[p].rows = run[p].rows /\ run'[p].keys = run[p].keys /\ ~At(p, "list")
            \/ run' = Thrown(p)
        BY <1>0, <3>4 DEF Stat, CheckSize, Fails, PruneAgain, Goes, Run, At
      <4>. QED
        BY <2>4, <2>5, <4>1
    <3>5. CASE Open(p)
      <4>1. CASE Present(p) /\ run' = [run EXCEPT ![p].pc = "write", ![p].keys = {b \in @ : OnDisk(b)}]
        <5>1. {b \in run[p].keys : OnDisk(b)} = run[p].keys
          BY <4>1 DEF Present
        <5>2. run'[p].rows = run[p].rows /\ run'[p].keys = run[p].keys
          BY <1>0, <4>1, <5>1 DEF Run
        <5>. QED
          BY <2>5, <3>5, <5>2 DEF Open, At
      <4>2. CASE run' = Thrown(p)
        BY <2>4, <4>2
      <4>3. CASE run' = [run EXCEPT ![p] = NoRun]
        BY <1>0, <2>3, <4>3
      <4>. QED
        BY <3>5, <4>1, <4>2, <4>3 DEF Open, Dies
    <3>6. CASE Write(p)
      BY <1>0, <3>6 DEF Write, Run
    <3>7. CASE End(p) \/ Killed(p)
      BY <1>0, <2>3, <3>7 DEF End, Killed, Dies
    <3>. QED
      BY <1>1, <3>1, <3>2, <3>3, <3>4, <3>5, <3>6, <3>7 DEF Step
  <2>. QED
    BY <1>0, <2>1, <2>6 DEF RowsReady, At
<1>2. ASSUME NEW p \in Procs, Begin(p), blobs' = blobs PROVE RowsReady'
  <2>1. ASSUME NEW q \in Procs, q # p
        PROVE  run'[q].pc = run[q].pc /\ run'[q].rows = run[q].rows /\ run'[q].keys = run[q].keys
    BY <1>0, <1>2, <2>1 DEF Begin, Run
  <2>2. run'[p].rows = {}
    BY <1>2 DEF Begin, NoRun
  <2>. QED
    BY <1>0, <1>2, <2>1, <2>2 DEF RowsReady, At, Listed
<1>3. CASE Tick \/ RunOnce
  BY <1>2, <1>3 DEF Tick, RunOnce, world, Procs
<1>4. CASE Restart \/ Day
  BY <1>0, <1>4 DEF Restart, Day, world, RowsReady, At, Listed
<1>5. ASSUME NEW b \in Blobs, Live(b) \/ Collect(b) \/ RemoveRow(b) PROVE RowsReady'
  <2>1. \A c \in Listed : c # b => c \in Listed'
    BY <1>0, <1>5 DEF Live, Collect, RemoveRow, Turn, Listed, TypeOK
  <2>2. ASSUME NEW p \in Procs
        PROVE  /\ run'[p].rows \subseteq Listed'
               /\ run'[p].pc # "list" => run'[p].rows \subseteq run'[p].keys
    <3>1. /\ run'[p].pc = run[p].pc /\ run'[p].keys = run[p].keys /\ run'[p].rows \subseteq run[p].rows
          /\ run'[p].rows \subseteq run[p].rows \ {b} \/ (b \in Listed => b \in Listed')
      BY <1>0, <1>5, LiveTyped
    <3>2. run[p].rows \subseteq Listed /\ (run[p].pc # "list" => run[p].rows \subseteq run[p].keys)
      BY <1>0 DEF RowsReady, At
    <3>. QED
      BY <2>1, <3>1, <3>2
  <2>. QED
    BY <2>2 DEF RowsReady, At
<1>. QED
  BY <1>1, <1>3, <1>4, <1>5 DEF Next

-----------------------------------------------------------------------------
(* Names, lists and limits *)

\* What two processes rely on when they remove archives.
Lists == NamesOwn /\ NewestSpared /\ Alone /\ GoodLast /\ LimitsKept

\* The archives, place by place.
LEMMA Places ==
    ASSUME TypeOK
    PROVE  /\ Len(archives) \in Nat /\ DOMAIN archives = 1 .. Len(archives)
           /\ archives # <<>> <=> Len(archives) >= 1
           /\ \A i \in 1 .. Len(archives) : archives[i] \in Archive
           /\ Kept = {archives[i] : i \in 1 .. Len(archives)}
           /\ \A n : Stands(n) <=> \E i \in 1 .. Len(archives) : archives[i].name = n
           /\ \A p \in Procs : run[p] \in Run /\ run[p].excess \in Seq(Names)
<1>1. archives \in Seq(Archive) /\ run \in [Procs -> Run]
  BY DEF TypeOK
<1>2. \A p \in Procs : run[p].excess \in Seq(Names)
  BY <1>1 DEF Run
<1>. QED
  BY <1>1, <1>2 DEF Kept, ToSet, Stands

\* What a step of p may do to the names.
LEMMA NamesStay ==
    ASSUME NamesOwn, NEW p \in Procs, OnlyMoves(p),
           \A n : Stands(n)' => Stands(n) \/ (n = run[p].name /\ At(p, "write") /\ run'[p].pc = "size"),
           run'[p].pc # "idle" => ~At(p, "idle") /\ run'[p].name = run[p].name,
           run'[p].pc \in Early => run[p].pc \in Early,
           \A n \in ToSet(run'[p].excess) : n \in ToSet(run[p].excess) \/ Stands(n),
           run'[p].pc \in {"trim", "trim2"} => run'[p].excess # <<>>
    PROVE  NamesOwn'
<1>1. ASSUME NEW r \in Procs, run'[r].pc \in Early
      PROVE  /\ ~\E i \in DOMAIN archives' : archives'[i].name = run'[r].name
             /\ \A q \in Procs : run'[r].name \notin ToSet(run'[q].excess)
  <2>1. run[r].pc \in Early /\ run'[r].name = run[r].name /\ ~At(r, "idle")
    BY <1>1 DEF OnlyMoves, Early, At
  <2>2. ~Stands(run[r].name) /\ \A q \in Procs : run[r].name \notin ToSet(run[q].excess)
    BY <2>1 DEF NamesOwn
  <2>3. PICK n : n = run[r].name /\ n = run'[r].name
    BY <2>1
  <2>4. ~Stands(n)'
    <3>1. SUFFICES ASSUME Stands(n)' PROVE FALSE
      OBVIOUS
    <3>2. n = run[p].name /\ At(p, "write") /\ run'[p].pc = "size"
      BY <2>2, <2>3, <3>1
    <3>3. CASE r = p
      BY <1>1, <3>2, <3>3 DEF Early
    <3>4. CASE r # p
      <4>1. ~At(p, "idle")
        BY <3>2 DEF At
      <4>2. run[r].name # run[p].name
        BY <2>1, <3>4, <4>1 DEF NamesOwn
      <4>. QED
        BY <2>3, <3>2, <4>2
    <3>. QED
      BY <3>3, <3>4
  <2>5. ASSUME NEW q \in Procs PROVE n \notin ToSet(run'[q].excess)
    BY <2>2, <2>3 DEF OnlyMoves
  <2>. QED
    BY <2>3, <2>4, <2>5 DEF Stands
<1>2. ASSUME NEW r \in Procs
      PROVE  /\ run'[r].pc \in {"trim", "trim2"} => run'[r].excess # <<>>
             /\ run'[r].pc # "idle" => run'[r].name \in Names
             /\ \A q \in Procs \ {r} :
                   run'[r].pc # "idle" /\ run'[q].pc # "idle" => run'[r].name # run'[q].name
  <2>1. \A q \in Procs : run'[q].pc # "idle" => ~At(q, "idle") /\ run'[q].name = run[q].name
    BY DEF OnlyMoves, At
  <2>. QED
    BY <2>1 DEF NamesOwn, OnlyMoves
<1>. QED
  BY <1>1, <1>2 DEF NamesOwn, At, Stands

\* The newest stays spared where it stays the newest.
LEMMA SparedStay ==
    ASSUME NewestSpared, \A q \in Procs : ToSet(run'[q].excess) \subseteq ToSet(run[q].excess),
           archives' # <<>> /\ ~archives'[Len(archives')].shaded
              => /\ archives # <<>> /\ ~archives[Len(archives)].shaded
                 /\ archives'[Len(archives')].name = archives[Len(archives)].name
    PROVE  NewestSpared'
  BY DEF NewestSpared

\* A backup that goes on, beside one that had the directory to itself.
LEMMA NobodyElse ==
    ASSUME Alone, NEW p \in Procs, ~At(p, "idle"), NEW r \in Procs \ {p}, ~At(r, "idle")
    PROVE  ~run[r].alone
  BY DEF Alone

\* What only p's own step can change for p, and no step of p for the others.
LEMMA Lonely ==
    ASSUME BackupsInv, NEW p \in Procs, OnlyMoves(p), ~At(p, "idle"),
           run'[p].alone = run[p].alone \/ run'[p].pc = "idle",
           run'[p].pc = "size" /\ run[p].alone => archives' # <<>> /\ archives'[Len(archives')].name = run'[p].name
                                     /\ archives'[Len(archives')].age = 0,
           run'[p].pc \in {"limit", "trim2"} /\ run[p].alone => OwnLast(p)',
           run'[p].pc = "trim2" /\ run[p].alone => Cutting(p)',
           run'[p].good => run'[p].pc = "end",
           run'[p].pc = "end" /\ run'[p].good /\ run[p].alone
              => /\ Len(archives') <= site'.maxCount /\ Bytes(archives') <= site'.maxBytes
                 /\ Stands(run[p].name)' /\ run'[p].name = run[p].name
    PROVE  Alone' /\ GoodLast' /\ LimitsKept'
<1>0. Alone /\ GoodLast /\ LimitsKept
  BY DEF BackupsInv
<1>1. ASSUME NEW r \in Procs \ {p}, ~At(r, "idle") PROVE ~run'[r].alone /\ ~run[r].alone
  <2>1. ~run[r].alone
    BY <1>0, <1>1, NobodyElse
  <2>. QED
    BY <2>1 DEF OnlyMoves
<1>2. \A r \in Procs \ {p} : run'[r] = run[r]
  BY DEF OnlyMoves
<1>3. run[p].alone => \A q \in Procs \ {p} : At(q, "idle")
  BY <1>0 DEF Alone
<1>4. Alone'
  <2>1. ASSUME NEW r \in Procs, run'[r].alone, run'[r].pc # "idle"
        PROVE  r = p /\ run[p].alone
    BY <1>1, <1>2, <2>1 DEF At
  <2>2. run[p].alone => \A q \in Procs \ {p} : run'[q].pc = "idle"
    BY <1>2, <1>3 DEF At
  <2>. QED
    BY <2>1, <2>2 DEF Alone, At
<1>5. GoodLast'
  BY <1>0, <1>2 DEF GoodLast, At
<1>6. LimitsKept'
  <2>1. ASSUME NEW r \in Procs, run'[r].alone, run'[r].pc = "end", run'[r].good
        PROVE  /\ Len(archives') <= site'.maxCount /\ Bytes(archives') <= site'.maxBytes
               /\ \E i \in DOMAIN archives' : archives'[i].name = run'[r].name
    <3>1. r = p /\ run[p].alone
      BY <1>1, <1>2, <2>1 DEF At
    <3>2. PICK n : n = run[p].name /\ n = run'[p].name
      BY <2>1, <3>1
    <3>3. Stands(n)'
      BY <2>1, <3>1, <3>2
    <3>. QED
      BY <2>1, <3>1, <3>2, <3>3 DEF Stands
  <2>. QED
    BY <2>1 DEF LimitsKept, At, Stands
<1>. QED
  BY <1>4, <1>5, <1>6

\* A quiet step.
LEMMA QuietKeeps ==
    ASSUME BackupsInv, NEW p \in Procs, Quiet(p)
    PROVE  Lists'
<1>0. /\ NamesOwn /\ NewestSpared /\ Alone /\ GoodLast /\ LimitsKept
      /\ archives' = archives /\ site' = site /\ OnlyMoves(p)
  BY DEF BackupsInv, Quiet
<1>1. CASE run'[p] = NoRun
  <2>1. run'[p].pc = "idle" /\ run'[p].excess = <<>> /\ ~run'[p].good
    BY <1>1 DEF NoRun
  <2>2. ToSet(run'[p].excess) = {}
    BY <2>1 DEF ToSet
  <2>3. NamesOwn'
    BY <1>0, <2>1, <2>2, NamesStay DEF Early, Stands
  <2>4. NewestSpared'
    BY <1>0, <2>2, SparedStay DEF OnlyMoves
  <2>5. CASE At(p, "idle")
    <3>1. \A r \in Procs : /\ run'[r].pc = run[r].pc
                           /\ run'[r].pc # "idle" => r # p /\ run'[r] = run[r]
      BY <1>0, <2>1, <2>5 DEF OnlyMoves, At
    <3>2. Alone'
      <4>1. ASSUME NEW r \in Procs, run'[r].alone, run'[r].pc # "idle"
            PROVE  /\ \A q \in Procs \ {r} : run'[q].pc = "idle"
                   /\ run'[r].pc = "size" => /\ archives' # <<>>
                                             /\ archives'[Len(archives')].name = run'[r].name
                                             /\ archives'[Len(archives')].age = 0
                   /\ run'[r].pc \in {"limit", "trim2"} => OwnLast(r)'
                   /\ run'[r].pc = "trim2" => Cutting(r)'
        <5>1. r # p /\ run'[r] = run[r] /\ ~At(r, "idle") /\ run[r].alone
          BY <3>1, <4>1 DEF At
        <5>2. \A q \in Procs \ {r} : run'[q].pc = "idle"
          BY <1>0, <3>1, <5>1 DEF Alone, At
        <5>3. run'[r].pc = "size" => /\ archives' # <<>>
                                     /\ archives'[Len(archives')].name = run'[r].name
                                     /\ archives'[Len(archives')].age = 0
          BY <1>0, <5>1 DEF Alone, At
        <5>4. run'[r].pc \in {"limit", "trim2"} => OwnLast(r)'
          BY <1>0, <5>1 DEF Alone, At, OwnLast, Big
        <5>5. run'[r].pc = "trim2" => Cutting(r)'
          <6>1. Cutting(r) => Cutting(r)'
            BY <1>0, <5>1 DEF Cutting, Newest
          <6>. QED
            BY <1>0, <5>1, <6>1 DEF Alone, At
        <5>. QED
          BY <5>2, <5>3, <5>4, <5>5
      <4>. QED
        BY <4>1 DEF Alone, At
    <3>3. GoodLast'
      BY <1>0, <2>1, <3>1 DEF GoodLast, At, OnlyMoves
    <3>4. LimitsKept'
      BY <1>0, <3>1 DEF LimitsKept, At, Stands
    <3>. QED
      BY <2>3, <2>4, <3>2, <3>3, <3>4 DEF Lists
  <2>6. CASE ~At(p, "idle")
    <3>1. Alone' /\ GoodLast' /\ LimitsKept'
      BY <1>0, <2>1, <2>6, Lonely
    <3>. QED
      BY <2>3, <2>4, <3>1 DEF Lists
  <2>. QED
    BY <2>5, <2>6
<1>2. CASE Ended(p)
  <2>1. /\ run'[p].pc = "end" /\ run'[p].excess = <<>> /\ run'[p].name = run[p].name
        /\ run'[p].alone = run[p].alone /\ run'[p].good = run[p].good /\ run[p].pc \in Guarded
    BY <1>2 DEF Ended, Kin
  <2>2. ToSet(run'[p].excess) = {} /\ ~At(p, "idle") /\ ~At(p, "end")
    BY <2>1 DEF ToSet, Guarded, At
  <2>3. NamesOwn'
    BY <1>0, <2>1, <2>2, NamesStay DEF Early, Stands
  <2>4. NewestSpared'
    BY <1>0, <2>2, SparedStay DEF OnlyMoves
  <2>5. ~run'[p].good
    BY <1>0, <2>1, <2>2 DEF GoodLast
  <2>6. Alone' /\ GoodLast' /\ LimitsKept'
    BY <1>0, <2>1, <2>2, <2>5, Lonely
  <2>. QED
    BY <2>3, <2>4, <2>6 DEF Lists
<1>3. CASE /\ run[p].pc \in Calm /\ run'[p].pc \in Calm
           /\ run'[p].name = run[p].name /\ run'[p].alone = run[p].alone
           /\ run'[p].excess = run[p].excess /\ run'[p].good = run[p].good
  <2>1. /\ ~At(p, "idle") /\ ~At(p, "end") /\ run[p].pc \in Early
        /\ run'[p].pc \notin {"idle", "size", "limit", "trim", "trim2", "end"}
    BY <1>3 DEF Calm, Early, At
  <2>2. NamesOwn'
    BY <1>0, <1>3, <2>1, NamesStay DEF Stands
  <2>3. NewestSpared'
    BY <1>0, <1>3, SparedStay DEF OnlyMoves
  <2>4. ~run'[p].good
    BY <1>0, <1>3, <2>1 DEF GoodLast
  <2>5. Alone' /\ GoodLast' /\ LimitsKept'
    BY <1>0, <1>3, <2>1, <2>4, Lonely
  <2>. QED
    BY <2>2, <2>3, <2>5 DEF Lists
<1>. QED
  BY <1>1, <1>2, <1>3 DEF Quiet

\* A finished archive.
LEMMA WriteKeeps ==
    ASSUME BackupsInv, NEW p \in Procs, Write(p)
    PROVE  Lists'
<1>0. TypeOK /\ NamesOwn /\ NewestSpared /\ Alone /\ GoodLast /\ LimitsKept
  BY DEF BackupsInv
<1>1. /\ archives' \in Seq(Archive) /\ Len(archives') = Len(archives) + 1
      /\ \A i \in 1 .. Len(archives) : archives'[i].name = archives[i].name
      /\ archives'[Len(archives')].name = run[p].name /\ archives'[Len(archives')].age = 0
  BY WriteAdds DEF Directory
<1>2. /\ OnlyMoves(p) /\ At(p, "write") /\ run'[p].pc = "size"
      /\ run'[p].name = run[p].name /\ run'[p].alone = run[p].alone
      /\ run'[p].excess = run[p].excess /\ run'[p].good = run[p].good
  BY <1>0, WriteMoves
<1>3. ~At(p, "idle") /\ ~At(p, "end") /\ run[p].pc \in Early
  BY <1>2 DEF At, Early
<1>4. Len(archives) \in Nat /\ archives' # <<>> /\ DOMAIN archives' = 1 .. Len(archives) + 1
  BY <1>0, <1>1, Places
<1>5. ASSUME NEW n, Stands(n)' PROVE Stands(n) \/ n = run[p].name
  <2>1. PICK i \in 1 .. Len(archives) + 1 : archives'[i].name = n
    BY <1>4, <1>5 DEF Stands
  <2>2. CASE i \in 1 .. Len(archives)
    BY <1>0, <1>1, <2>1, <2>2, Places
  <2>3. CASE i = Len(archives) + 1
    BY <1>1, <2>1, <2>3
  <2>. QED
    BY <1>4, <2>2, <2>3
<1>6. NamesOwn'
  BY <1>0, <1>2, <1>3, <1>5, NamesStay
<1>7. NewestSpared'
  <2>1. \A q \in Procs : run[p].name \notin ToSet(run[q].excess)
    BY <1>0, <1>3 DEF NamesOwn
  <2>2. \A q \in Procs : run'[q].excess = run[q].excess
    BY <1>2 DEF OnlyMoves
  <2>. QED
    BY <1>1, <2>1, <2>2 DEF NewestSpared
<1>8. ~run'[p].good
  BY <1>0, <1>2, <1>3 DEF GoodLast
<1>9. Alone' /\ GoodLast' /\ LimitsKept'
  BY <1>0, <1>1, <1>2, <1>3, <1>4, <1>8, Lonely
<1>. QED
  BY <1>6, <1>7, <1>9 DEF Lists

\* The size of a finished archive.
LEMMA CheckSizeKeeps ==
    ASSUME BackupsInv, NEW p \in Procs, CheckSize(p)
    PROVE  Lists'
<1>0. /\ TypeOK /\ NamesOwn /\ NewestSpared /\ Alone /\ GoodLast /\ LimitsKept
      /\ Ordered /\ Shades /\ Directory /\ site' = site
      /\ At(p, "size") /\ ~At(p, "idle") /\ ~At(p, "end") /\ ~run[p].good
  BY DEF BackupsInv, Directory, TypeOK, CheckSize, world, At, GoodLast
<1>1. CASE \E a \in Kept : a.name = run[p].name /\ ~Big(a)
  <2>1. archives' = archives /\ run' = [run EXCEPT ![p].pc = "limit"]
    BY <1>1 DEF CheckSize, Goes
  <2>2. /\ OnlyMoves(p) /\ Kin(p) /\ run'[p].pc = "limit"
        /\ run'[p].excess = run[p].excess /\ run'[p].good = run[p].good
    BY <1>0, <2>1, NextMoves
  <2>3. NamesOwn'
    BY <1>0, <2>1, <2>2, NamesStay DEF Early, Stands, Kin
  <2>4. NewestSpared'
    BY <1>0, <2>1, <2>2, SparedStay DEF OnlyMoves
  <2>5. ASSUME run[p].alone PROVE OwnLast(p)'
    <3>1. /\ archives # <<>> /\ archives[Len(archives)].name = run[p].name
          /\ archives[Len(archives)].age = 0
      BY <1>0, <2>5 DEF Alone
    <3>2. PICK i \in 1 .. Len(archives) : archives[i].name = run[p].name /\ ~Big(archives[i])
      BY <1>0, <1>1, Places
    <3>3. i = Len(archives)
      <4>1. ~(i < Len(archives))
        BY <1>0, <3>1, <3>2, Places DEF Ordered
      <4>2. PICK l \in Nat : l = Len(archives)
        BY <1>0, Places
      <4>3. i \in 1 .. l /\ ~(i < l)
        BY <3>2, <4>1, <4>2
      <4>. QED
        BY <4>2, <4>3
    <3>. QED
      BY <1>0, <2>1, <2>2, <3>1, <3>2, <3>3 DEF OwnLast, Kin, Big
  <2>6. Alone' /\ GoodLast' /\ LimitsKept'
    BY <1>0, <2>2, <2>5, Lonely DEF Kin
  <2>. QED
    BY <2>3, <2>4, <2>6 DEF Lists
<1>2. CASE ~\E a \in Kept : a.name = run[p].name /\ ~Big(a)
  <2>1. run' = Thrown(p) /\ archives' = Without(run[p].name)
    BY <1>2 DEF CheckSize
  <2>2. OnlyMoves(p) /\ Ended(p)
    BY <1>0, <2>1, ThrownMoves DEF Guarded, At
  <2>3. CASE ~Stands(run[p].name)
    <3>1. Quiet(p)
      BY <1>0, <2>1, <2>2, <2>3 DEF Quiet, Without
    <3>. QED
      BY <3>1, QuietKeeps
  <2>4. CASE Stands(run[p].name)
    <3>1. /\ Fewer
          /\ \E i \in 1 .. Len(archives) :
                /\ archives[i].name = run[p].name /\ Len(archives') = Len(archives) - 1
                /\ \A k \in 1 .. Len(archives') :
                      archives'[k] = IF k < i THEN archives[k] ELSE archives[k + 1]
      BY <1>0, <2>1, <2>4, WithoutTakes
    <3>2. PICK i \in 1 .. Len(archives) :
                /\ archives[i].name = run[p].name /\ Len(archives') = Len(archives) - 1
                /\ \A k \in 1 .. Len(archives') :
                      archives'[k] = IF k < i THEN archives[k] ELSE archives[k + 1]
      BY <3>1
    <3>3. Big(archives[i])
      BY <1>0, <1>2, <3>2, Places
    <3>4. \A k \in 1 .. Len(archives) : archives[k].shaded
      BY <1>0, <3>3, Places DEF Shades
    <3>5. /\ run'[p].pc = "end" /\ run'[p].excess = <<>> /\ run'[p].name = run[p].name
          /\ run'[p].alone = run[p].alone /\ run'[p].good = run[p].good
      BY <2>2 DEF Ended, Kin
    <3>6. ToSet(run'[p].excess) = {}
      BY <3>5 DEF ToSet
    <3>7. \A n : Stands(n)' => Stands(n)
      BY <1>0, <3>1, FewerKeeps
    <3>8. NamesOwn'
      BY <1>0, <2>2, <3>5, <3>6, <3>7, NamesStay DEF Early
    <3>9. archives' # <<>> => archives'[Len(archives')].shaded
      <4>1. Len(archives) \in Nat /\ archives' \in Seq(Archive)
        BY <1>0, <3>1, FewerKeeps DEF Directory
      <4>2. ASSUME archives' # <<>> PROVE archives'[Len(archives')].shaded
        <5>1. Len(archives') \in 1 .. Len(archives') /\ Len(archives') + 1 \in 1 .. Len(archives)
              /\ Len(archives') \in 1 .. Len(archives)
          BY <3>2, <4>1, <4>2
        <5>. QED
          BY <3>2, <3>4, <5>1
      <4>. QED
        BY <4>2
    <3>10. NewestSpared'
      BY <3>9 DEF NewestSpared
    <3>11. Alone' /\ GoodLast' /\ LimitsKept'
      BY <1>0, <2>2, <3>5, Lonely
    <3>. QED
      BY <3>8, <3>10, <3>11 DEF Lists
  <2>. QED
    BY <2>3, <2>4
<1>. QED
  BY <1>1, <1>2

\* Pruning leaves the newest, or nothing.
LEMMA PruneSpares ==
    ASSUME Directory, Prune, site' = site
    PROVE  /\ \A n : Stands(n)' => Stands(n)
           /\ archives' # <<>> => archives # <<>> /\ archives'[Len(archives')] = archives[Len(archives)]
           /\ archives # <<>> /\ ~Expired(archives[Len(archives)]) => archives' # <<>>
<1>1. PICK n \in 0 .. Len(archives) :
         /\ archives' = Newest(n)
         /\ \A i \in 1 .. Len(archives) : Expired(archives[i]) <=> i <= n
  BY PruneTakes
<1>2. /\ archives' \in Seq(Archive) /\ Len(archives') = Len(archives) - n /\ Len(archives) \in Nat
      /\ \A k \in 1 .. Len(archives) - n : archives'[k] = archives[n + k]
  <2>1. archives' = Newest(n) /\ archives \in Seq(Archive) /\ Len(archives) \in Nat
    BY <1>1 DEF Directory
  <2>. QED
    BY <2>1, NewestAre
<1>3. ASSUME archives' # <<>>
      PROVE  archives # <<>> /\ archives'[Len(archives')] = archives[Len(archives)]
  <2>1. Len(archives') \in 1 .. Len(archives) - n /\ n + Len(archives') = Len(archives)
        /\ Len(archives) # 0
    BY <1>2, <1>3
  <2>2. archives # <<>>
    BY <2>1
  <2>3. archives'[Len(archives')] = archives[n + Len(archives')]
    BY <1>2, <2>1
  <2>. QED
    BY <2>1, <2>2, <2>3
<1>4. ASSUME archives # <<>>, ~Expired(archives[Len(archives)]) PROVE archives' # <<>>
  <2>1. Len(archives) \in 1 .. Len(archives)
    BY <1>2, <1>4 DEF Directory
  <2>2. ~(Len(archives) <= n)
    BY <1>1, <1>4, <2>1
  <2>3. Len(archives') # 0
    BY <1>2, <2>2
  <2>. QED
    BY <2>3
<1>. QED
  BY <1>3, <1>4, PruneTakes, FewerKeeps

\* Pruning once more.
LEMMA PruneAgainKeeps ==
    ASSUME BackupsInv, NEW p \in Procs, PruneAgain(p)
    PROVE  Lists'
<1>0. /\ TypeOK /\ NamesOwn /\ NewestSpared /\ Alone /\ GoodLast /\ LimitsKept
      /\ Directory /\ site' = site /\ run' = run /\ Prune
      /\ At(p, "limit") /\ ~At(p, "idle") /\ ~At(p, "end") /\ ~run[p].good
  BY DEF BackupsInv, Directory, TypeOK, PruneAgain, world, At, GoodLast
<1>1. OnlyMoves(p) /\ run'[p].pc = "limit"
  BY <1>0 DEF OnlyMoves, At
<1>2. NamesOwn'
  BY <1>0, <1>1, NamesStay, PruneSpares DEF Early, At
<1>3. NewestSpared'
  BY <1>0, SparedStay, PruneSpares
<1>4. ASSUME run[p].alone PROVE OwnLast(p)'
  <2>1. OwnLast(p)
    BY <1>0, <1>4 DEF Alone, At
  <2>2. ~Expired(archives[Len(archives)])
    BY <2>1, Ages DEF OwnLast, Expired
  <2>3. archives' # <<>> /\ archives'[Len(archives')] = archives[Len(archives)]
    BY <1>0, <2>1, <2>2, PruneSpares DEF OwnLast
  <2>. QED
    BY <1>0, <2>1, <2>3 DEF OwnLast, Big
<1>5. Alone' /\ GoodLast' /\ LimitsKept'
  BY <1>0, <1>1, <1>4, Lonely
<1>. QED
  BY <1>2, <1>3, <1>5 DEF Lists

\* The names of the n oldest archives.
LEMMA FirstNames ==
    ASSUME TypeOK, Ordered, NEW n \in 0 .. Len(archives), NEW e,
           e = [i \in 1 .. n |-> archives[i].name]
    PROVE  /\ Len(e) = n /\ (e = <<>> <=> n = 0) /\ ToSet(e) = {archives[i].name : i \in 1 .. n}
           /\ \A m \in ToSet(e) : Stands(m)
           /\ n < Len(archives) => archives[Len(archives)].name \notin ToSet(e)
<1>1. PICK l \in Nat : l = Len(archives)
  BY Places
<1>2. n \in Nat /\ n <= l /\ DOMAIN e = 1 .. n /\ \A i \in 1 .. n : e[i] = archives[i].name
  BY <1>1
<1>3. Len(e) = n /\ (e = <<>> <=> n = 0)
  BY <1>2
<1>4. ToSet(e) = {archives[i].name : i \in 1 .. n}
  BY <1>2 DEF ToSet
<1>5. \A m \in ToSet(e) : Stands(m)
  BY <1>1, <1>2, <1>4, Places
<1>6. ASSUME n < l, archives[l].name \in ToSet(e) PROVE FALSE
  <2>1. PICK i \in 1 .. n : archives[l].name = archives[i].name
    BY <1>4, <1>6
  <2>2. i \in 1 .. l /\ l \in 1 .. l /\ i < l /\ DOMAIN archives = 1 .. l
    BY <1>1, <1>2, <1>6, Places
  <2>. QED
    BY <2>1, <2>2 DEF Ordered
<1>. QED
  BY <1>1, <1>3, <1>4, <1>5, <1>6

\* Room for an archive is made without the last one.
LEMMA MakeSpaceKeeps ==
    ASSUME BackupsInv, NEW p \in Procs, MakeSpace(p)
    PROVE  Lists'
<1>0. /\ TypeOK /\ NamesOwn /\ NewestSpared /\ GoodLast /\ Ordered
      /\ archives' = archives /\ site' = site
      /\ At(p, "space") /\ ~At(p, "idle") /\ ~At(p, "trim2") /\ run[p].pc \in Early /\ ~run[p].good
  BY DEF BackupsInv, MakeSpace, files, world, At, GoodLast, Early
<1>1. /\ OnlyMoves(p) /\ Kin(p) /\ run'[p].good = run[p].good
      /\ run'[p].pc = IF run'[p].excess = <<>> THEN After(p) ELSE "trim"
      /\ \E n \in 0 .. Len(archives) :
            /\ run'[p].excess = [i \in 1 .. n |-> archives[i].name]
            /\ n # 0 => n < Len(archives)
  BY <1>0, MakeSpaceIs
<1>2. PICK n \in 0 .. Len(archives), e \in {run'[p].excess} :
         /\ e = run'[p].excess /\ e = [i \in 1 .. n |-> archives[i].name]
         /\ n # 0 => n < Len(archives)
  BY <1>1
<1>3. /\ Len(e) = n /\ (e = <<>> <=> n = 0)
      /\ \A m \in ToSet(e) : Stands(m)
      /\ n < Len(archives) => archives[Len(archives)].name \notin ToSet(e)
  BY <1>0, <1>2, FirstNames
<1>4. run'[p].pc \in {"copy", "stat", "trim"} /\ (run'[p].pc = "trim" => run'[p].excess # <<>>)
  BY <1>0, <1>1, AfterIs
<1>5. NamesOwn'
  BY <1>0, <1>1, <1>2, <1>3, <1>4, NamesStay DEF Kin, Stands, Early
<1>6. NewestSpared'
  <2>1. ASSUME archives # <<>> PROVE archives[Len(archives)].name \notin ToSet(e)
    <3>1. CASE n = 0
      BY <1>3, <3>1 DEF ToSet
    <3>. QED
      BY <1>2, <1>3, <3>1
  <2>. QED
    BY <1>0, <1>1, <1>2, <2>1 DEF NewestSpared, OnlyMoves
<1>7. Alone' /\ GoodLast' /\ LimitsKept'
  BY <1>0, <1>1, <1>4, Lonely DEF Kin
<1>. QED
  BY <1>5, <1>6, <1>7 DEF Lists

\* The archives are going to be brought within the limits.
LEMMA LimitKeeps ==
    ASSUME BackupsInv, NEW p \in Procs, Limit(p)
    PROVE  Lists'
<1>0. /\ TypeOK /\ NamesOwn /\ NewestSpared /\ GoodLast /\ Ordered /\ Shades /\ Alone
      /\ archives' = archives /\ site' = site
      /\ At(p, "limit") /\ ~At(p, "idle") /\ ~At(p, "write") /\ ~run[p].good
  BY DEF BackupsInv, Limit, files, world, At, GoodLast
<1>1. /\ OnlyMoves(p) /\ Kin(p) /\ (run'[p].good <=> run'[p].excess = <<>>)
      /\ run'[p].pc = IF run'[p].excess = <<>> THEN "end" ELSE "trim2"
      /\ \E n \in 0 .. Len(archives) :
            /\ run'[p].excess = [i \in 1 .. n |-> archives[i].name]
            /\ n # 0 /\ ~Big(archives[Len(archives)]) => n < Len(archives)
            /\ \/ Len(archives) - n <= 0
               \/ Len(archives) - n <= site.maxCount /\ Bytes(Newest(n)) <= site.maxBytes
  BY <1>0, LimitIs
<1>2. PICK n \in 0 .. Len(archives), e \in {run'[p].excess} :
         /\ e = run'[p].excess /\ e = [i \in 1 .. n |-> archives[i].name]
         /\ n # 0 /\ ~Big(archives[Len(archives)]) => n < Len(archives)
         /\ \/ Len(archives) - n <= 0
            \/ Len(archives) - n <= site.maxCount /\ Bytes(Newest(n)) <= site.maxBytes
  BY <1>1
<1>3. /\ Len(e) = n /\ (e = <<>> <=> n = 0)
      /\ \A m \in ToSet(e) : Stands(m)
      /\ n < Len(archives) => archives[Len(archives)].name \notin ToSet(e)
  BY <1>0, <1>2, FirstNames
<1>4. run'[p].pc \in {"end", "trim2"} /\ (run'[p].pc = "trim2" => run'[p].excess # <<>>)
  BY <1>1
<1>5. NamesOwn'
  BY <1>0, <1>1, <1>2, <1>3, <1>4, NamesStay DEF Kin, Stands, Early
<1>6. NewestSpared'
  <2>1. ASSUME archives # <<>>, ~archives[Len(archives)].shaded
        PROVE  archives[Len(archives)].name \notin ToSet(e)
    <3>1. CASE n = 0
      BY <1>3, <3>1 DEF ToSet
    <3>2. CASE n # 0
      <4>1. Len(archives) \in DOMAIN archives
        BY <1>0, <2>1, Places
      <4>2. ~Big(archives[Len(archives)])
        BY <1>0, <2>1, <4>1 DEF Shades
      <4>. QED
        BY <1>2, <1>3, <3>2, <4>2
    <3>. QED
      BY <3>1, <3>2
  <2>. QED
    BY <1>0, <1>1, <1>2, <2>1 DEF NewestSpared, OnlyMoves
<1>7. ASSUME run[p].alone
      PROVE  /\ OwnLast(p) /\ OwnLast(p)' /\ n < Len(archives)
             /\ Len(archives) - n <= site.maxCount /\ Bytes(Newest(n)) <= site.maxBytes
  <2>1. OwnLast(p)
    BY <1>0, <1>7 DEF Alone, At
  <2>2. PICK l \in Nat : l = Len(archives) /\ l >= 1
    BY <1>0, <2>1, Places DEF OwnLast
  <2>3. n < Len(archives)
    BY <1>2, <2>1, <2>2 DEF OwnLast
  <2>4. ~(Len(archives) - n <= 0)
    BY <2>2, <2>3
  <2>5. OwnLast(p)'
    BY <1>0, <1>1, <2>1 DEF OwnLast, Big, Kin
  <2>. QED
    BY <1>2, <2>1, <2>3, <2>4, <2>5
<1>8. ASSUME run'[p].pc = "trim2", run[p].alone PROVE Cutting(p)'
  <2>1. \A i \in 1 .. n : e[i] = archives[i].name
    BY <1>2
  <2>. QED
    BY <1>0, <1>2, <1>3, <1>7, <1>8, <2>1 DEF Cutting, Newest
<1>9. ASSUME run'[p].pc = "end", run'[p].good, run[p].alone
      PROVE  /\ Len(archives') <= site'.maxCount /\ Bytes(archives') <= site'.maxBytes
             /\ Stands(run[p].name)' /\ run'[p].name = run[p].name
  <2>1. n = 0
    BY <1>1, <1>2, <1>3, <1>9
  <2>2. Newest(0) = archives
    <3>1. archives \in Seq(Archive)
      BY <1>0 DEF TypeOK
    <3>. QED
      BY <3>1 DEF Newest
  <2>3. Len(archives) <= site.maxCount /\ Bytes(archives) <= site.maxBytes
    BY <1>0, <1>7, <1>9, <2>1, <2>2, Places
  <2>4. Stands(run[p].name)
    BY <1>0, <1>7, <1>9, Places DEF OwnLast
  <2>. QED
    BY <1>0, <1>1, <2>3, <2>4 DEF Stands, Kin
<1>10. Alone' /\ GoodLast' /\ LimitsKept'
  <2>1. run'[p].alone = run[p].alone /\ run'[p].pc # "size"
    BY <1>1, <1>4 DEF Kin
  <2>2. run'[p].good => run'[p].pc = "end"
    BY <1>1
  <2>3. OnlyMoves(p) /\ ~At(p, "idle")
    BY <1>0, <1>1
  <2>. QED
    BY <1>7, <1>8, <1>9, <2>1, <2>2, <2>3, Lonely
<1>. QED
  BY <1>5, <1>6, <1>10 DEF Lists

\* The oldest archive removed, and the one name fewer on the list.
LEMMA CutsFirst ==
    ASSUME TypeOK, Ordered, site' = site, NEW p \in Procs, Cutting(p), OwnLast(p),
           run[p].excess # <<>>, run'[p].excess = Tail(run[p].excess), run'[p].name = run[p].name,
           NEW i \in 1 .. Len(archives), archives[i].name = Head(run[p].excess),
           archives' \in Seq(Archive), Len(archives') = Len(archives) - 1,
           \A k \in 1 .. Len(archives') : archives'[k] = IF k < i THEN archives[k] ELSE archives[k + 1]
    PROVE  /\ OwnLast(p)' /\ Cutting(p)'
           /\ Tail(run[p].excess) = <<>>
                 => /\ Len(archives') <= site'.maxCount /\ Bytes(archives') <= site'.maxBytes
                    /\ Stands(run[p].name)'
<1>1. PICK l \in Nat : l = Len(archives)
  BY Places
<1>2. PICK e \in Seq(Names) : e = run[p].excess
  BY Places
<1>3. PICK m \in Nat : m = Len(e) /\ m >= 1
  BY <1>2
<1>4. /\ m < l /\ \A j \in 1 .. m : e[j] = archives[j].name
      /\ l - m <= site.maxCount /\ Bytes(Newest(m)) <= site.maxBytes
  BY <1>1, <1>2, <1>3 DEF Cutting
<1>5. i = 1
  <2>1. archives[i].name = archives[1].name
    BY <1>2, <1>3, <1>4
  <2>2. 1 \in DOMAIN archives /\ i \in DOMAIN archives /\ i \in Nat /\ i >= 1
    BY <1>1, <1>3, <1>4, Places
  <2>3. ~(1 < i)
    BY <2>1, <2>2 DEF Ordered
  <2>. QED
    BY <2>2, <2>3
<1>6. Len(archives') = l - 1 /\ \A k \in 1 .. l - 1 : archives'[k] = archives[k + 1]
  BY <1>1, <1>5
<1>7. PICK t : t = Tail(e)
  OBVIOUS
<1>8. t \in Seq(Names) /\ Len(t) = m - 1 /\ \A j \in 1 .. m - 1 : t[j] = e[j + 1]
  BY <1>2, <1>3, <1>7, HeadTailProperties
<1>9. PICK b : b = Newest(m)
  OBVIOUS
<1>10. /\ b \in Seq(Archive) /\ Len(b) = l - m
       /\ \A k \in 1 .. l - m : b[k] = archives[m + k]
  <2>1. archives \in Seq(Archive) /\ m \in 0 .. Len(archives)
    BY <1>1, <1>4 DEF TypeOK
  <2>. QED
    BY <1>1, <1>9, <2>1, NewestAre
<1>11. PICK c : c = SubSeq(archives', (m - 1) + 1, Len(archives'))
  OBVIOUS
<1>12. /\ c \in Seq(Archive) /\ Len(c) = l - m
       /\ \A k \in 1 .. l - m : c[k] = archives'[(m - 1) + k]
  <2>1. /\ m \in 1 .. Len(archives') + 1 /\ Len(archives') \in 0 .. Len(archives')
        /\ c = SubSeq(archives', m, Len(archives'))
    BY <1>1, <1>3, <1>4, <1>6, <1>11
  <2>. QED
    BY <1>1, <1>3, <1>4, <1>6, <2>1, SubSeqProperties
<1>13. c = b
  <2>1. ASSUME NEW k \in 1 .. l - m PROVE c[k] = b[k]
    <3>1. (m - 1) + k \in 1 .. l - 1 /\ (m - 1) + k + 1 = m + k
      BY <1>3, <1>4
    <3>. QED
      BY <1>6, <1>10, <1>12, <3>1
  <2>. QED
    BY <1>1, <1>3, <1>4, <1>10, <1>12, <2>1, SMTT(60)
<1>14. Cutting(p)'
  <2>1. Len(run'[p].excess) = m - 1 /\ run'[p].excess = t
    BY <1>2, <1>7, <1>8
  <2>2. m - 1 < Len(archives') /\ Len(archives') - (m - 1) <= site'.maxCount
    BY <1>1, <1>3, <1>4, <1>6
  <2>3. Bytes(SubSeq(archives', (m - 1) + 1, Len(archives'))) <= site'.maxBytes
    BY <1>4, <1>9, <1>11, <1>13
  <2>4. \A j \in 1 .. m - 1 : t[j] = archives'[j].name
    <3>1. ASSUME NEW j \in 1 .. m - 1 PROVE t[j] = archives'[j].name
      <4>1. j \in 1 .. l - 1 /\ j + 1 \in 1 .. m
        BY <1>3, <1>4
      <4>. QED
        BY <1>4, <1>6, <1>8, <4>1
    <3>. QED
      BY <3>1
  <2>. QED
    BY <2>1, <2>2, <2>3, <2>4 DEF Cutting, Newest
<1>15. OwnLast(p)'
  <2>1. l - 1 \in 1 .. l - 1 /\ l - 1 + 1 = l
    BY <1>3, <1>4
  <2>2. archives'[Len(archives')] = archives[Len(archives)] /\ archives' # <<>>
    BY <1>1, <1>6, <2>1
  <2>. QED
    BY <2>2 DEF OwnLast, Big
<1>16. ASSUME t = <<>>
       PROVE  /\ Len(archives') <= site'.maxCount /\ Bytes(archives') <= site'.maxBytes
              /\ Stands(run[p].name)'
  <2>1. m = 1
    <3>1. Len(t) = 0
      BY <1>16
    <3>2. m - 1 = 0
      BY <1>8, <3>1
    <3>3. \A k \in Nat : k - 1 = 0 => k = 1
      OBVIOUS
    <3>. QED
      BY <3>2, <3>3
  <2>2. c = archives'
    BY <1>1, <1>6, <1>12, <2>1
  <2>3. Len(archives') \in DOMAIN archives'
    BY <1>1, <1>4, <1>6, <2>1
  <2>4. Stands(run[p].name)'
    BY <1>15, <2>3 DEF OwnLast, Stands
  <2>. QED
    BY <1>4, <1>6, <1>9, <1>13, <2>1, <2>2, <2>4
<1>. QED
  BY <1>2, <1>7, <1>14, <1>15, <1>16

\* One unlink.
LEMMA TrimKeeps ==
    ASSUME BackupsInv, NEW p \in Procs, Trim(p), Stands(Head(run[p].excess))
    PROVE  Lists'
<1>0. /\ TypeOK /\ NamesOwn /\ NewestSpared /\ GoodLast /\ Ordered /\ Shades /\ Alone /\ Directory
      /\ site' = site /\ run[p].pc \in {"trim", "trim2"}
      /\ ~At(p, "idle") /\ ~At(p, "write") /\ ~At(p, "end") /\ ~run[p].good
  BY DEF BackupsInv, Directory, TypeOK, Trim, world, At, GoodLast
<1>1. /\ OnlyMoves(p) /\ Kin(p)
      /\ run[p].excess \in Seq(Names) /\ run[p].excess # <<>>
      /\ run'[p].excess = Tail(run[p].excess)
      /\ run'[p].pc = IF Tail(run[p].excess) = <<>> THEN After(p) ELSE run[p].pc
      /\ run'[p].good <=> Tail(run[p].excess) = <<>> /\ At(p, "trim2")
  BY <1>0, TrimIs
<1>2. PICK h, t : h = Head(run[p].excess) /\ t = Tail(run[p].excess)
  OBVIOUS
<1>3. h \in ToSet(run[p].excess) /\ \A n \in ToSet(t) : n \in ToSet(run[p].excess)
  <2>1. PICK e \in Seq(Names) : e = run[p].excess /\ e # <<>>
    BY <1>1
  <2>2. h = e[1] /\ Len(e) \in Nat /\ Len(e) >= 1
    BY <1>2, <2>1
  <2>3. Len(t) = Len(e) - 1 /\ t \in Seq(Names) /\ \A j \in 1 .. Len(t) : t[j] = e[j + 1]
    BY <1>2, <2>1, HeadTailProperties
  <2>. QED
    BY <2>1, <2>2, <2>3, SMTT(60) DEF ToSet
<1>4. archives' = Without(h) /\ Stands(h)
  BY <1>2 DEF Trim
<1>5. PICK i \in 1 .. Len(archives) :
        /\ archives[i].name = h /\ Len(archives') = Len(archives) - 1
        /\ \A k \in 1 .. Len(archives') :
              archives'[k] = IF k < i THEN archives[k] ELSE archives[k + 1]
  BY <1>0, <1>4, WithoutTakes
<1>6. archives' \in Seq(Archive) /\ \A n : Stands(n)' => Stands(n)
  BY <1>0, <1>4, WithoutTakes, FewerKeeps DEF Directory
<1>7. /\ t = <<>> => run'[p].pc \in {"copy", "stat", "end"}
      /\ t = <<>> /\ At(p, "trim2") => run'[p].pc = "end"
      /\ t # <<>> => run'[p].pc = run[p].pc
      /\ run[p].pc = "trim" => run'[p].pc \in {"copy", "stat", "trim"}
      /\ run[p].pc = "trim2" => run'[p].pc \in {"end", "trim2"}
  BY <1>0, <1>1, <1>2, AfterIs DEF At
<1>8. NamesOwn'
  <2>1. run'[p].pc \in Early => run[p].pc \in Early
    BY <1>0, <1>7 DEF Early
  <2>2. run'[p].pc \in {"trim", "trim2"} => run'[p].excess # <<>>
    BY <1>1, <1>2, <1>7
  <2>3. \A n \in ToSet(run'[p].excess) : n \in ToSet(run[p].excess)
    BY <1>1, <1>2, <1>3
  <2>. QED
    BY <1>0, <1>1, <1>6, <2>1, <2>2, <2>3, NamesStay DEF Kin
<1>9. NewestSpared'
  <2>1. PICK l \in Nat : l = Len(archives)
    BY <1>0, Places
  <2>2. ASSUME archives' # <<>>, ~archives'[Len(archives')].shaded
        PROVE  /\ archives # <<>> /\ ~archives[Len(archives)].shaded
               /\ archives'[Len(archives')].name = archives[Len(archives)].name
    <3>1. /\ l - 1 \in 1 .. Len(archives') /\ Len(archives') = l - 1
          /\ l - 1 \in 1 .. l /\ l \in 1 .. l /\ l - 1 < l /\ archives # <<>>
      BY <1>5, <1>6, <2>1, <2>2
    <3>2. CASE i = l
      <4>1. archives'[l - 1] = archives[l - 1]
        BY <1>5, <3>1, <3>2
      <4>2. archives[Len(archives)].name \in ToSet(run[p].excess)
        BY <1>3, <1>5, <2>1, <3>2
      <4>3. archives[l].shaded
        BY <1>0, <2>1, <3>1, <4>2 DEF NewestSpared
      <4>4. archives[l - 1].shaded
        BY <1>0, <2>1, <3>1, <4>3, Places DEF Shades
      <4>. QED
        BY <2>2, <3>1, <4>1, <4>4
    <3>3. CASE i # l
      <4>1. ~(l - 1 < i) /\ l - 1 + 1 = l
        BY <1>5, <2>1, <3>3
      <4>2. archives'[l - 1] = archives[l]
        BY <1>5, <3>1, <4>1
      <4>. QED
        BY <2>1, <2>2, <3>1, <4>2
    <3>. QED
      BY <3>2, <3>3
  <2>3. \A q \in Procs : ToSet(run'[q].excess) \subseteq ToSet(run[q].excess)
    BY <1>1, <1>2, <1>3 DEF OnlyMoves
  <2>. QED
    BY <1>0, <2>2, <2>3, SparedStay
<1>10. ASSUME At(p, "trim2"), run[p].alone
       PROVE  /\ OwnLast(p)' /\ Cutting(p)'
              /\ t = <<>> => /\ Len(archives') <= site'.maxCount /\ Bytes(archives') <= site'.maxBytes
                             /\ Stands(run[p].name)'
  <2>1. OwnLast(p) /\ Cutting(p)
    BY <1>0, <1>10 DEF Alone, At
  <2>2. run'[p].name = run[p].name
    BY <1>1 DEF Kin
  <2>3. archives[i].name = Head(run[p].excess)
    BY <1>2, <1>5
  <2>. QED
    BY <1>0, <1>1, <1>2, <1>5, <1>6, <2>1, <2>2, <2>3, CutsFirst
<1>11. Alone' /\ GoodLast' /\ LimitsKept'
  <2>1. run'[p].alone = run[p].alone /\ run'[p].name = run[p].name /\ run'[p].pc # "size"
    BY <1>0, <1>1, <1>7 DEF Kin
  <2>2. run'[p].pc \in {"limit", "trim2"} => At(p, "trim2") /\ run'[p].pc = "trim2"
    BY <1>0, <1>7 DEF At
  <2>3. run'[p].good => t = <<>> /\ At(p, "trim2") /\ run'[p].pc = "end"
    BY <1>1, <1>2, <1>7
  <2>. QED
    BY <1>0, <1>1, <1>10, <2>1, <2>2, <2>3, Lonely
<1>. QED
  BY <1>8, <1>9, <1>11 DEF Lists

\* A backup that begins.
LEMMA BeginMoves ==
    ASSUME TypeOK, NEW p \in Procs, Begin(p)
    PROVE  /\ At(p, "idle") /\ Min(Unused) \in Names /\ Min(Unused) \notin Taken
           /\ run'[p].pc \in {"space", "dump"} /\ run'[p].name = Min(Unused)
           /\ run'[p].excess = <<>> /\ ~run'[p].good
           /\ run'[p].alone => \A q \in Procs : At(q, "idle")
           /\ \A q \in Procs \ {p} :
                 /\ run'[q].pc = run[q].pc /\ run'[q].name = run[q].name
                 /\ run'[q].excess = run[q].excess /\ run'[q].good = run[q].good
                 /\ run'[q].alone => At(q, "idle")
<1>1. run \in [Procs -> Run] /\ \A q \in Procs : run[q] \in Run
  BY DEF TypeOK
<1>2. PICK alone, n :
         /\ alone = (\A q \in Procs : At(q, "idle")) /\ n = Min(Unused)
         /\ run' = [q \in Procs |->
                      IF q = p THEN [NoRun EXCEPT !.pc = IF Sqlite THEN "space" ELSE "dump",
                                                  !.name = n, !.alone = alone]
                      ELSE [run[q] EXCEPT !.alone = @ /\ At(q, "idle")]]
  BY DEF Begin
<1>3. At(p, "idle") /\ Min(Unused) \in Names /\ Min(Unused) \notin Taken
  BY NewName DEF Begin, Unused
<1>4. PICK x : x = IF Sqlite THEN "space" ELSE "dump"
  OBVIOUS
<1>5. run'[p] = [NoRun EXCEPT !.pc = x, !.name = n, !.alone = alone]
  BY <1>2, <1>4
<1>6. /\ run'[p].pc = x /\ run'[p].name = n /\ run'[p].excess = <<>> /\ ~run'[p].good
      /\ run'[p].alone = alone
  BY <1>5 DEF NoRun
<1>7. ASSUME NEW q \in Procs \ {p}
      PROVE  /\ run'[q].pc = run[q].pc /\ run'[q].name = run[q].name
             /\ run'[q].excess = run[q].excess /\ run'[q].good = run[q].good
             /\ run'[q].alone => At(q, "idle")
  <2>1. run'[q] = [run[q] EXCEPT !.alone = @ /\ At(q, "idle")] /\ run[q] \in Run
    BY <1>1, <1>2
  <2>. QED
    BY <2>1 DEF Run
<1>. QED
  BY <1>2, <1>3, <1>4, <1>6, <1>7

\* Its name is new and nobody has been alone beside it.
LEMMA BeginKeeps ==
    ASSUME BackupsInv, NEW p \in Procs, Begin(p), site' = site
    PROVE  Lists'
<1>0. /\ TypeOK /\ NamesOwn /\ NewestSpared /\ Alone /\ GoodLast /\ LimitsKept /\ Directory /\ Prune
  BY DEF BackupsInv, Directory, TypeOK, Begin
<1>1. PICK n : /\ n = Min(Unused) /\ n \in Names /\ n \notin Taken
               /\ At(p, "idle") /\ run'[p].pc \in {"space", "dump"} /\ run'[p].name = n
               /\ run'[p].excess = <<>> /\ ~run'[p].good
               /\ run'[p].alone => \A q \in Procs : At(q, "idle")
  BY <1>0, BeginMoves
<1>2. \A q \in Procs \ {p} :
         /\ run'[q].pc = run[q].pc /\ run'[q].name = run[q].name
         /\ run'[q].excess = run[q].excess /\ run'[q].good = run[q].good
         /\ run'[q].alone => At(q, "idle")
  BY <1>0, BeginMoves
<1>3. /\ ~Stands(n)
      /\ \A q \in Procs : run[q].name # n /\ n \notin ToSet(run[q].excess)
  BY <1>0, <1>1, Places DEF Taken
<1>4. \A m : Stands(m)' => Stands(m)
  BY <1>0, PruneSpares
<1>5. \A q \in Procs : ToSet(run'[q].excess) \subseteq ToSet(run[q].excess)
  BY <1>1, <1>2 DEF ToSet
<1>6. NamesOwn'
  <2>1. ASSUME NEW r \in Procs, run'[r].pc \in Early
        PROVE  /\ ~\E i \in DOMAIN archives' : archives'[i].name = run'[r].name
               /\ \A q \in Procs : run'[r].name \notin ToSet(run'[q].excess)
    <3>1. PICK m : m = run'[r].name
      OBVIOUS
    <3>2. ~Stands(m) /\ \A q \in Procs : m \notin ToSet(run[q].excess)
      BY <1>0, <1>1, <1>2, <1>3, <2>1, <3>1 DEF NamesOwn
    <3>3. ~Stands(m)'
      BY <1>4, <3>2
    <3>. QED
      BY <1>5, <3>1, <3>2, <3>3 DEF Stands
  <2>2. ASSUME NEW r \in Procs
        PROVE  /\ run'[r].pc \in {"trim", "trim2"} => run'[r].excess # <<>>
               /\ run'[r].pc # "idle" => run'[r].name \in Names
               /\ \A q \in Procs \ {r} :
                     run'[r].pc # "idle" /\ run'[q].pc # "idle" => run'[r].name # run'[q].name
    <3>1. CASE r = p
      <4>1. \A q \in Procs \ {r} : run'[q].name # n
        BY <1>2, <1>3, <3>1
      <4>. QED
        BY <1>1, <3>1, <4>1
    <3>2. CASE r # p
      <4>1. /\ run'[r].pc \in {"trim", "trim2"} => run'[r].excess # <<>>
            /\ run'[r].pc # "idle" => run'[r].name \in Names
        BY <1>0, <1>2, <3>2 DEF NamesOwn, At
      <4>2. ASSUME NEW q \in Procs \ {r}, run'[r].pc # "idle", run'[q].pc # "idle"
            PROVE  run'[r].name # run'[q].name
        BY <1>0, <1>1, <1>2, <1>3, <3>2, <4>2 DEF NamesOwn, At
      <4>. QED
        BY <4>1, <4>2
    <3>. QED
      BY <3>1, <3>2
  <2>. QED
    BY <2>1, <2>2 DEF NamesOwn, At, Stands
<1>7. NewestSpared'
  BY <1>0, <1>5, SparedStay, PruneSpares
<1>8. Alone'
  <2>1. ASSUME NEW r \in Procs, run'[r].alone, run'[r].pc # "idle"
        PROVE  r = p /\ \A q \in Procs \ {p} : run'[q].pc = "idle"
    <3>1. r = p
      BY <1>2, <2>1 DEF At
    <3>. QED
      BY <1>1, <1>2, <2>1, <3>1 DEF At
  <2>. QED
    BY <1>1, <2>1 DEF Alone, At
<1>9. GoodLast'
  BY <1>0, <1>1, <1>2 DEF GoodLast, At
<1>10. LimitsKept'
  BY <1>0, <1>1, <1>2, <1>9 DEF LimitsKept, GoodLast, At
<1>. QED
  BY <1>6, <1>7, <1>8, <1>9, <1>10 DEF Lists

\* Steps that no backup takes part in.
LEMMA StillKeeps ==
    ASSUME BackupsInv, UNCHANGED <<site, archives>>,
           \A p \in Procs : /\ run'[p].pc = run[p].pc /\ run'[p].name = run[p].name
                            /\ run'[p].excess = run[p].excess /\ run'[p].alone = run[p].alone
                            /\ run'[p].good = run[p].good
    PROVE  Lists'
<1>0. /\ NamesOwn /\ NewestSpared /\ Alone /\ GoodLast /\ LimitsKept
      /\ archives' = archives /\ site' = site
  BY DEF BackupsInv
<1>1. NamesOwn' /\ NewestSpared' /\ GoodLast'
  <2>1. NamesOwn'
    BY <1>0 DEF NamesOwn, Stands, At
  <2>2. NewestSpared'
    BY <1>0 DEF NewestSpared
  <2>3. GoodLast'
    BY <1>0 DEF GoodLast, At
  <2>. QED
    BY <2>1, <2>2, <2>3
<1>2. LimitsKept'
  BY <1>0 DEF LimitsKept, Stands, At
<1>3. Alone'
  <2>1. ASSUME NEW r \in Procs, run'[r].alone, run'[r].pc # "idle"
        PROVE  /\ \A q \in Procs \ {r} : run'[q].pc = "idle"
               /\ run'[r].pc = "size" => /\ archives' # <<>>
                                         /\ archives'[Len(archives')].name = run'[r].name
                                         /\ archives'[Len(archives')].age = 0
               /\ run'[r].pc \in {"limit", "trim2"} => OwnLast(r)'
               /\ run'[r].pc = "trim2" => Cutting(r)'
    <3>1. OwnLast(r) => OwnLast(r)'
      BY <1>0 DEF OwnLast, Big
    <3>2. Cutting(r) => Cutting(r)'
      BY <1>0 DEF Cutting, Newest
    <3>. QED
      BY <1>0, <2>1, <3>1, <3>2 DEF Alone, At
  <2>. QED
    BY <2>1 DEF Alone, At
<1>. QED
  BY <1>1, <1>2, <1>3 DEF Lists

\* A day.
LEMMA DayKeeps ==
    ASSUME BackupsInv, Day
    PROVE  Lists'
<1>0. /\ TypeOK /\ NamesOwn /\ NewestSpared /\ Alone /\ GoodLast /\ Directory
      /\ run' = run /\ \A p \in Procs : run[p].pc \in {"idle", "write"}
  BY DEF BackupsInv, Directory, TypeOK, Day
<1>1. /\ archives' \in Seq(Archive) /\ Len(archives') = Len(archives) /\ Len(archives) \in Nat
      /\ \A i \in 1 .. Len(archives) : /\ archives'[i].name = archives[i].name
                                       /\ archives'[i].shaded = archives[i].shaded
  BY <1>0, DayAges, Places DEF Directory
<1>2. \A n : Stands(n)' <=> Stands(n)
  BY <1>0, <1>1, Places DEF Stands
<1>3. NamesOwn'
  <2>1. ASSUME NEW p \in Procs, run[p].pc \in Early
        PROVE  ~\E i \in DOMAIN archives' : archives'[i].name = run[p].name
    <3>1. PICK n : n = run[p].name
      OBVIOUS
    <3>2. ~Stands(n)'
      BY <1>0, <1>2, <2>1, <3>1 DEF NamesOwn
    <3>. QED
      BY <3>1, <3>2 DEF Stands
  <2>. QED
    BY <1>0, <2>1 DEF NamesOwn, At, Stands
<1>4. NewestSpared'
  <2>1. archives' # <<>> => archives # <<>> /\ Len(archives) \in 1 .. Len(archives)
    BY <1>1
  <2>. QED
    BY <1>0, <1>1, <2>1, SparedStay
<1>5. Alone'
  BY <1>0 DEF Alone, At
<1>6. GoodLast' /\ LimitsKept'
  BY <1>0 DEF GoodLast, LimitsKept, At
<1>. QED
  BY <1>3, <1>4, <1>5, <1>6 DEF Lists

-----------------------------------------------------------------------------
(* Every step *)

\* Whatever step is taken, what the processes rely on stays.
LEMMA ListsKept ==
    ASSUME BackupsInv, Next
    PROVE  Lists'
<1>0. TypeOK /\ NamesOwn /\ run \in [Procs -> Run]
  BY DEF BackupsInv, TypeOK
<1>1. ASSUME NEW p \in Procs, Step(p) \/ Fails(p) \/ Killed(p) PROVE Lists'
  <2>1. CASE \/ Dump(p) \/ List(p) \/ Copy(p) \/ Stat(p) \/ Open(p) \/ End(p) \/ Fails(p) \/ Killed(p)
             \/ Trim(p) /\ ~Stands(Head(run[p].excess))
    BY <1>0, <2>1, QuietSteps, QuietKeeps
  <2>2. CASE Trim(p) /\ Stands(Head(run[p].excess))
    BY <2>2, TrimKeeps
  <2>. QED
    BY <1>1, <2>1, <2>2, MakeSpaceKeeps, WriteKeeps, CheckSizeKeeps, PruneAgainKeeps, LimitKeeps
       DEF Step
<1>2. CASE Tick \/ RunOnce
  BY <1>2, BeginKeeps DEF Tick, RunOnce, world, Procs
<1>3. CASE Restart
  BY <1>3, StillKeeps DEF Restart, files
<1>4. ASSUME NEW b \in Blobs, Live(b) \/ Collect(b) \/ RemoveRow(b) PROVE Lists'
  <2>1. UNCHANGED <<site, archives>>
    BY <1>4 DEF Live, Collect, RemoveRow, files
  <2>2. \A p \in Procs : /\ run'[p].pc = run[p].pc /\ run'[p].name = run[p].name
                         /\ run'[p].excess = run[p].excess /\ run'[p].alone = run[p].alone
                         /\ run'[p].good = run[p].good
    BY <1>0, <1>4, LiveTyped
  <2>. QED
    BY <2>1, <2>2, StillKeeps
<1>5. CASE Day
  BY <1>5, DayKeeps
<1>. QED
  BY <1>1, <1>2, <1>3, <1>4, <1>5 DEF Next

\* At first there is nothing.
LEMMA InitSound == Init => BackupsInv
<1>. SUFFICES ASSUME Init PROVE BackupsInv
  OBVIOUS
<1>1. /\ run = [p \in Procs |-> NoRun] /\ archives = <<>> /\ parts = {} /\ NoRun \in Run
      /\ \A p \in Procs : run[p] = NoRun
  <2>1. <<>> \in Seq(Names)
    OBVIOUS
  <2>2. NoRun \in Run
    BY <2>1 DEF NoRun, Run
  <2>. QED
    BY <2>2 DEF Init
<1>2. TypeOK
  BY <1>1 DEF Init, TypeOK, BlobState
<1>3. RowsReady /\ GoodLast /\ Alone /\ LimitsKept
  BY <1>1 DEF RowsReady, GoodLast, Alone, LimitsKept, NoRun, At
<1>4. ArchivesWhole /\ Ordered /\ Shades /\ NewestSpared
  BY <1>1 DEF ArchivesWhole, Ordered, Shades, NewestSpared, Kept, ToSet
<1>5. NamesOwn
  BY <1>1 DEF NamesOwn, NoRun, Early, At
<1>. QED
  BY <1>2, <1>3, <1>4, <1>5 DEF BackupsInv

\* Every step keeps the invariant.
LEMMA StepSound == BackupsInv /\ [Next]_vars => BackupsInv'
<1>. SUFFICES ASSUME BackupsInv, [Next]_vars PROVE BackupsInv'
  OBVIOUS
<1>1. CASE Next
  BY <1>1, TypeKept, RowsKept, DirectoryKept, ListsKept DEF BackupsInv, Directory, Lists
<1>2. CASE UNCHANGED vars
  <2>1. UNCHANGED <<site, archives, parts, run, blobs, up, faults, removals, oneOffs>>
    BY <1>2 DEF vars, counters
  <2>2. Lists'
    BY <2>1, StillKeeps
  <2>3. TypeOK' /\ RowsReady'
    BY <2>1 DEF BackupsInv, TypeOK, RowsReady, Listed, At
  <2>4. ArchivesWhole' /\ Ordered' /\ Shades'
    BY <2>1 DEF BackupsInv, ArchivesWhole, Ordered, Shades, Kept, Big
  <2>. QED
    BY <2>2, <2>3, <2>4 DEF BackupsInv, Lists
<1>. QED
  BY <1>1, <1>2

\* It holds of every state.
LEMMA AlwaysSound == Spec => []BackupsInv
  BY InitSound, StepSound, PTL DEF Spec

-----------------------------------------------------------------------------
(* Theorems *)

\* Every archive has the originals that its own copy of the database refers to: with
\* SQLite all of them, with PostgreSQL all but those claimed or removed between the dump
\* and the listing (scheduler.ts:272-276, 431-445).  A backup that had the directory to
\* itself leaves it within both limits, with its own archive (backupLimits.ts:54),
\* whichever call fails or process dies.
THEOREM DirectoriesSound == Spec => []DirectorySound
<1>1. BackupsInv => DirectorySound
  BY DEF BackupsInv, DirectorySound
<1>. QED
  BY <1>1, AlwaysSound, PTL

\* A step that removes an archive leaves a newer one, whichever of the two processes
\* takes it and whatever list of names it took from the directory as it was before;
\* expired archives and those that lay beside one over the budget are the exception
\* (backupLimits.ts:54, scheduler.ts:486-496).
THEOREM NewestStays == Spec => NewestSurvives
<1>. DEFINE StaysOn(i) == \E a \in Kept' : a.name = archives[i].name
            Survives == \A i \in DOMAIN archives :
                           archives[i].age > Retention \/ archives[i].shaded \/ StaysOn(i)
                              \/ \E j \in i + 1 .. Len(archives) : StaysOn(j)
<1>1. ASSUME BackupsInv, Next PROVE Survives
  <2>0. /\ TypeOK /\ Directory /\ Ordered /\ Shades /\ NewestSpared /\ Directory'
    BY <1>1, DirectoryKept DEF BackupsInv, Directory, TypeOK
  <2>1. PICK l \in Nat : l = Len(archives) /\ DOMAIN archives = 1 .. l
    BY <2>0, Places
  <2>2. /\ DOMAIN archives' = 1 .. Len(archives') /\ Len(archives') \in Nat
        /\ Kept' = {archives'[i] : i \in 1 .. Len(archives')}
    BY <2>0 DEF Directory, Kept, ToSet
  <2>3. SUFFICES ASSUME NEW i \in 1 .. l, ~(archives[i].age > Retention), ~archives[i].shaded
                 PROVE  StaysOn(i) \/ \E j \in i + 1 .. l : StaysOn(j)
    BY <2>1
  <2>4. ASSUME Len(archives') >= l, \A k \in 1 .. l : archives'[k].name = archives[k].name
        PROVE  StaysOn(i)
    BY <2>1, <2>2, <2>4
  <2>5. CASE UNCHANGED <<site, archives>>
    BY <2>1, <2>2, <2>4, <2>5
  <2>6. CASE Day
    BY <2>0, <2>1, <2>4, <2>6, DayAges
  <2>7. ASSUME NEW p \in Procs, Write(p) PROVE StaysOn(i)
    <3>1. Len(archives') = l + 1 /\ \A k \in 1 .. l : archives'[k].name = archives[k].name
      BY <1>1, <2>1, <2>7, WriteAdds
    <3>. QED
      BY <2>4, <3>1
  <2>8. CASE site' = site /\ Prune
    <3>1. PICK n \in 0 .. l :
             /\ archives' = Newest(n)
             /\ \A k \in 1 .. l : Expired(archives[k]) <=> k <= n
      BY <2>0, <2>1, <2>8, PruneTakes
    <3>2. Len(archives') = l - n /\ \A k \in 1 .. l - n : archives'[k] = archives[n + k]
      BY <2>0, <2>1, <3>1, NewestAre DEF TypeOK
    <3>3. i - n \in 1 .. l - n /\ n + (i - n) = i
      BY <2>3, <3>1 DEF Expired
    <3>4. archives'[i - n] = archives[i]
      BY <3>2, <3>3
    <3>. QED
      BY <2>2, <3>2, <3>3, <3>4
  <2>9. ASSUME NEW n, Stands(n), site' = site, archives' = Without(n),
               n = archives[l].name => archives[l].shaded
        PROVE  StaysOn(i) \/ \E j \in i + 1 .. l : StaysOn(j)
    <3>1. PICK k \in 1 .. l :
            /\ archives[k].name = n /\ Len(archives') = l - 1
            /\ \A j \in 1 .. l - 1 : archives'[j] = IF j < k THEN archives[j] ELSE archives[j + 1]
      BY <2>0, <2>1, <2>9, WithoutTakes
    <3>2. k # l
      <4>1. CASE i = l
        BY <2>3, <2>9, <3>1, <4>1
      <4>2. CASE i < l
        BY <2>0, <2>1, <2>3, <2>9, <3>1, <4>2 DEF Shades
      <4>. QED
        BY <2>1, <4>1, <4>2
    <3>3. l - 1 \in 1 .. l - 1 /\ ~(l - 1 < k) /\ l - 1 + 1 = l
      BY <2>1, <3>1, <3>2
    <3>4. archives'[l - 1] = archives[l]
      BY <3>1, <3>3
    <3>5. StaysOn(l)
      BY <2>2, <3>1, <3>3, <3>4
    <3>. QED
      BY <2>1, <3>5
  <2>10. ASSUME NEW p \in Procs, Trim(p), site' = site, Stands(Head(run[p].excess)),
                archives' = Without(Head(run[p].excess))
         PROVE  StaysOn(i) \/ \E j \in i + 1 .. l : StaysOn(j)
    <3>1. PICK n : n = Head(run[p].excess)
      OBVIOUS
    <3>2. n \in ToSet(run[p].excess)
      <4>1. PICK e \in Seq(Names) : e = run[p].excess /\ e # <<>>
        BY <1>1, <2>0, <2>10, TrimIs DEF BackupsInv
      <4>2. n = e[1] /\ 1 \in DOMAIN e
        BY <3>1, <4>1
      <4>. QED
        BY <4>1, <4>2 DEF ToSet
    <3>3. n = archives[l].name => archives[l].shaded
      <4>1. archives # <<>>
        BY <2>1
      <4>. QED
        BY <2>0, <2>1, <3>2, <4>1 DEF NewestSpared
    <3>. QED
      BY <2>9, <2>10, <3>1, <3>3
  <2>11. ASSUME NEW p \in Procs, site' = site, archives' = Without(run[p].name),
                ~\E a \in Kept : a.name = run[p].name /\ ~Big(a)
         PROVE  StaysOn(i) \/ \E j \in i + 1 .. l : StaysOn(j)
    <3>1. PICK n : n = run[p].name
      OBVIOUS
    <3>2. CASE Stands(n)
      <4>1. ASSUME n = archives[l].name PROVE archives[l].shaded
        <5>1. l \in 1 .. l
          BY <2>1
        <5>2. Big(archives[l])
          BY <2>0, <2>1, <2>11, <3>1, <4>1, <5>1, Places
        <5>. QED
          BY <2>0, <2>1, <5>1, <5>2 DEF Shades
      <4>. QED
        BY <2>9, <2>11, <3>1, <3>2, <4>1
    <3>3. CASE ~Stands(n)
      BY <2>5, <2>11, <3>1, <3>3 DEF Without
    <3>. QED
      BY <3>2, <3>3
  <2>. HIDE DEF StaysOn
  <2>. QED
    BY <1>1, <2>5, <2>6, <2>7, <2>8, <2>10, <2>11, ArchivesMove
<1>2. BackupsInv /\ [Next]_vars => [Survives]_vars
  BY <1>1
<1>. QED
  BY <1>2, AlwaysSound, PTL DEF Spec, NewestSurvives

=============================================================================
