------------------------------ MODULE RulerProofs ------------------------------
(***************************************************************************)
(* What the jobs of the ruler controller carry, and what the pods are      *)
(* told, for any rulers and any sources.                                   *)
(*                                                                         *)
(*  - What the reconciler makes of the files it read: the size of a       *)
(*    bucket is the sum of its files, every file is in one bucket, no      *)
(*    bucket is larger than allowed, and the ConfigMaps derived from the   *)
(*    buckets hold the files a ruler should load, each once.               *)
(*  - RulesInv: the types, and that no rule file is told twice.            *)
(*  - PruneInv: with one ruler in the namespace pruning never deletes a    *)
(*    ConfigMap that its pods are told to load.  Between the write of the  *)
(*    StatefulSet and the pruning the reconcile carries the files it told  *)
(*    the pods to load; nobody else writes the StatefulSet.                *)
(*  - RestInv: a ruler that is not queued is settled, or has a job that is *)
(*    about to settle it or has failed and will queue it: whoever changes  *)
(*    what a job or a settled ruler relies on wakes the ruler, or changes  *)
(*    what no watch lets through.                                          *)
(***************************************************************************)
EXTENDS RulerRules, FiniteSetTheorems, TLAPS

(***************************************************************************)
(* The size of a bucket.                                                   *)
(***************************************************************************)

\* Among sizes of sets, as among numbers, one is the least.
LEMMA LeastNumber ==
    ASSUME NEW K \in SUBSET Nat, K # {}
    PROVE  \E k \in K : \A j \in K : k <= j
<1> DEFINE before == {ss \in Nat \X Nat : ss[1] < ss[2]}
<1>1. IsWellFoundedOn(before, Nat)
  BY NatLessThanWellFounded DEF OpToRel
<1>2. PICK k \in K : \A j \in K : ~ (<<j, k>> \in before)
  BY <1>1, WFMin
<1>3. \A j \in K : ~ (j < k)
  BY <1>2
<1> QED
  BY <1>3

Sized(files) == IsFiniteSet(files) /\ \A f \in files : f.size \in Nat

\* The sums that bucketSize runs through.
Picked(files) == CHOOSE f \in files : TRUE
IsTotal(total, files) ==
    total = [s \in SUBSET files |->
               IF s = {} THEN 0 ELSE Picked(s).size + total[s \ {Picked(s)}]]

\* The size of a bucket is the last of the sums.
LEMMA SizeIsTotal ==
    ASSUME NEW files
    PROVE  R!bucketSize(files) = (CHOOSE total : IsTotal(total, files))[files]
BY DEF R!bucketSize, R!MapThenSumSet, R!MapThenFoldSet, IsTotal, Picked

\* A set without one of its files is smaller.
LEMMA SmallerSet ==
    ASSUME NEW S, IsFiniteSet(S), NEW s \in SUBSET S, NEW a \in s
    PROVE  /\ IsFiniteSet(s) /\ Cardinality(s) \in Nat
           /\ s \ {a} \in SUBSET S /\ Cardinality(s \ {a}) \in Nat
           /\ Cardinality(s) >= 1 /\ Cardinality(s \ {a}) = Cardinality(s) - 1
<1>1. IsFiniteSet(s)
  BY FS_Subset
<1>2. Cardinality(s) \in Nat
  BY <1>1, FS_CardinalityType
<1>3. IsFiniteSet(s \ {a}) /\ Cardinality(s \ {a}) = Cardinality(s) - 1
  BY <1>1, FS_RemoveElement
<1>4. Cardinality(s \ {a}) \in Nat
  BY <1>3, FS_CardinalityType
<1> QED BY <1>1, <1>2, <1>3, <1>4

\* The sums exist: each set takes the sum of a smaller one.
LEMMA TotalExists ==
    ASSUME NEW S, Sized(S)
    PROVE  \E total \in [SUBSET S -> Nat] : IsTotal(total, S)
<1> DEFINE Value1(h, s) == IF s = {} THEN 0 ELSE Picked(s).size + h[s \ {Picked(s)}]
           UpTo(h, k) == \A s \in SUBSET S : Cardinality(s) <= k => h[s] = Value1(h, s)
           K == {k \in Nat : ~ \E h \in [SUBSET S -> Nat] : UpTo(h, k)}
           n == Cardinality(S)
<1>1. IsFiniteSet(S) /\ n \in Nat
  BY FS_CardinalityType DEF Sized
<1>2. ASSUME NEW s \in SUBSET S, s # {}
      PROVE  /\ Picked(s) \in s /\ Picked(s).size \in Nat /\ s \ {Picked(s)} \in SUBSET S
             /\ Cardinality(s) \in Nat /\ Cardinality(s) >= 1
             /\ Cardinality(s \ {Picked(s)}) = Cardinality(s) - 1
  <2>1. Picked(s) \in s
    BY <1>2 DEF Picked
  <2> QED BY <1>1, <2>1, SmallerSet DEF Sized
<1>3. \A s \in SUBSET S : Cardinality(s) \in Nat /\ Cardinality(s) <= n /\ (Cardinality(s) = 0 => s = {})
  BY <1>1, FS_Subset, FS_CardinalityType, FS_EmptySet
<1>4. K = {}
  <2> SUFFICES ASSUME K # {} PROVE FALSE
    OBVIOUS
  <2>1. PICK k \in K : \A j \in K : k <= j
    BY LeastNumber
  <2>2. k \in Nat /\ ~ \E h \in [SUBSET S -> Nat] : UpTo(h, k)
    BY <2>1
  <2>3. CASE k = 0
    <3> DEFINE h == [s \in SUBSET S |-> 0]
    <3>1. h \in [SUBSET S -> Nat]
      OBVIOUS
    <3>2. UpTo(h, 0)
      BY <1>3
    <3> QED BY <2>2, <2>3, <3>1, <3>2
  <2>4. CASE k # 0
    <3>1. k - 1 \in Nat /\ k - 1 \notin K
      <4> HIDE DEF K
      <4> QED BY <2>1, <2>2, <2>4
    <3>2. PICK g \in [SUBSET S -> Nat] : UpTo(g, k - 1)
      BY <3>1
    <3> DEFINE h == [s \in SUBSET S |-> Value1(g, s)]
    <3>3. h \in [SUBSET S -> Nat]
      <4>1. ASSUME NEW s \in SUBSET S PROVE Value1(g, s) \in Nat
        <5>1. CASE s = {}
          BY <5>1
        <5>2. CASE s # {}
          <6>1. g[s \ {Picked(s)}] \in Nat /\ Picked(s).size \in Nat
            BY <1>2, <5>2
          <6> QED BY <5>2, <6>1
        <5> QED BY <5>1, <5>2
      <4> HIDE DEF Value1
      <4> QED BY <4>1
    <3>4. \A s \in SUBSET S : Cardinality(s) <= k - 1 => h[s] = g[s]
      BY <3>2
    <3>5. ASSUME NEW s \in SUBSET S, Cardinality(s) <= k
          PROVE  h[s] = Value1(h, s)
      <4>1. h[s] = Value1(g, s)
        OBVIOUS
      <4>2. CASE s = {}
        BY <4>1, <4>2
      <4>3. CASE s # {}
        <5>1. s \ {Picked(s)} \in SUBSET S /\ Cardinality(s \ {Picked(s)}) <= k - 1
          BY <1>2, <2>2, <3>5, <4>3
        <5>2. h[s \ {Picked(s)}] = g[s \ {Picked(s)}]
          BY <3>4, <5>1
        <5> HIDE DEF h
        <5> QED BY <4>1, <4>3, <5>2
      <4> QED BY <4>2, <4>3
    <3> HIDE DEF h
    <3>6. UpTo(h, k)
      BY <3>5
    <3> QED BY <2>2, <3>3, <3>6
  <2> QED BY <2>3, <2>4
<1>5. PICK h \in [SUBSET S -> Nat] : UpTo(h, n)
  <2> HIDE DEF UpTo
  <2> QED BY <1>1, <1>4
<1>6. \A s \in SUBSET S : h[s] = Value1(h, s)
  BY <1>3, <1>5
<1>7. h = [s \in SUBSET S |-> Value1(h, s)]
  <2> HIDE DEF Value1
  <2> QED BY <1>6
<1> QED BY <1>7 DEF IsTotal

\* They are the same whatever set of files they are taken over.
LEMMA TotalUnique ==
    ASSUME NEW S, IsFiniteSet(S), NEW T \in SUBSET S,
           NEW h, IsTotal(h, S), NEW g, IsTotal(g, T)
    PROVE  h[T] = g[T]
<1> DEFINE bad == {s \in SUBSET T : h[s] # g[s]}
           K   == {Cardinality(s) : s \in bad}
<1>1. /\ \A s \in SUBSET S : h[s] = IF s = {} THEN 0 ELSE Picked(s).size + h[s \ {Picked(s)}]
      /\ \A s \in SUBSET T : g[s] = IF s = {} THEN 0 ELSE Picked(s).size + g[s \ {Picked(s)}]
  BY DEF IsTotal
<1>2. ASSUME bad # {} PROVE FALSE
  <2>1. K \in SUBSET Nat /\ K # {}
    BY <1>2, FS_Subset, FS_CardinalityType
  <2> HIDE DEF K
  <2>2. PICK k \in K : \A j \in K : k <= j
    BY <2>1, LeastNumber
  <2>3. PICK s \in bad : Cardinality(s) = k
    BY <2>2 DEF K
  <2>4. s \in SUBSET T /\ s \in SUBSET S /\ h[s] # g[s]
    BY <2>3
  <2>5. s # {}
    BY <1>1, <2>4
  <2>6. Picked(s) \in s
    BY <2>5 DEF Picked
  <2> DEFINE rest == s \ {Picked(s)}
  <2>7. /\ rest \in SUBSET T /\ Cardinality(rest) \in Nat
        /\ Cardinality(s) \in Nat /\ Cardinality(rest) = Cardinality(s) - 1
    BY <2>4, <2>6, SmallerSet
  <2>8. rest \notin bad
    <3> SUFFICES ASSUME rest \in bad PROVE FALSE
      OBVIOUS
    <3>1. Cardinality(rest) \in K
      BY DEF K
    <3>2. k <= Cardinality(rest)
      BY <2>2, <3>1
    <3> HIDE DEF rest
    <3> QED BY <2>3, <2>7, <3>2
  <2>9. h[rest] = g[rest]
    BY <2>7, <2>8
  <2> QED BY <1>1, <2>4, <2>5, <2>9
<1> QED BY <1>2

\* One function gives the sizes of all the buckets that files may be put in
\* (builder.go:642-662).
LEMMA SizeOfSubsets ==
    ASSUME NEW S, Sized(S)
    PROVE  \E h \in [SUBSET S -> Nat] :
              IsTotal(h, S) /\ \A T \in SUBSET S : R!bucketSize(T) = h[T]
<1>1. PICK h \in [SUBSET S -> Nat] : IsTotal(h, S)
  BY TotalExists
<1>2. ASSUME NEW T \in SUBSET S PROVE R!bucketSize(T) = h[T]
  <2>1. Sized(T)
    BY FS_Subset DEF Sized
  <2>2. \E g : IsTotal(g, T)
    BY <2>1, TotalExists
  <2> DEFINE g == CHOOSE total : IsTotal(total, T)
  <2>3. IsTotal(g, T)
    BY <2>2
  <2>4. R!bucketSize(T) = g[T]
    BY SizeIsTotal
  <2> HIDE DEF g
  <2> QED BY <1>1, <2>3, <2>4, TotalUnique DEF Sized
<1> QED BY <1>1, <1>2

\* bucketSize is the sum of the sizes, in whatever order a Go map is ranged
\* over: a file more is its size more (builder.go:676-683).
LEMMA SizeAdds ==
    ASSUME NEW S, Sized(S), NEW a \in S
    PROVE  /\ R!bucketSize(S) \in Nat /\ R!bucketSize(S \ {a}) \in Nat
           /\ R!bucketSize(S) = a.size + R!bucketSize(S \ {a})
<1>1. PICK h \in [SUBSET S -> Nat] :
             IsTotal(h, S) /\ \A T \in SUBSET S : R!bucketSize(T) = h[T]
  BY SizeOfSubsets
<1>2. IsFiniteSet(S) /\ \A f \in S : f.size \in Nat
  BY DEF Sized
<1>3. \A s \in SUBSET S : h[s] = IF s = {} THEN 0 ELSE Picked(s).size + h[s \ {Picked(s)}]
  BY <1>1 DEF IsTotal
<1> DEFINE bad == {s \in SUBSET S : \E b \in s : h[s] # b.size + h[s \ {b}]}
           K   == {Cardinality(s) : s \in bad}
<1>4. ASSUME bad # {} PROVE FALSE
  <2>1. K \in SUBSET Nat /\ K # {}
    <3>1. \A s \in bad : s \subseteq S
      OBVIOUS
    <3> HIDE DEF bad
    <3>2. ASSUME NEW s \in bad PROVE Cardinality(s) \in Nat
      <4>1. IsFiniteSet(s)
        BY <1>2, <3>1, FS_Subset
      <4> QED BY <4>1, FS_CardinalityType
    <3> QED BY <1>4, <3>2
  <2> HIDE DEF K
  <2>2. PICK k \in K : \A j \in K : k <= j
    BY <2>1, LeastNumber
  <2>3. PICK s \in bad : Cardinality(s) = k
    BY <2>2 DEF K
  <2>4. PICK b \in s : h[s] # b.size + h[s \ {b}]
    BY <2>3
  <2>5. s \in SUBSET S /\ s # {}
    BY <2>3, <2>4
  <2> DEFINE c == Picked(s)
  <2>6. c \in s
    BY <2>5 DEF Picked
  <2>7. h[s] = c.size + h[s \ {c}]
    BY <1>3, <2>5
  <2>8. b # c
    BY <2>4, <2>7
  <2> HIDE DEF c
  <2>9. ASSUME NEW d \in s PROVE s \ {d} \in SUBSET S /\ s \ {d} \notin bad
    <3>1. /\ s \ {d} \in SUBSET S /\ Cardinality(s \ {d}) \in Nat
          /\ Cardinality(s) \in Nat /\ Cardinality(s \ {d}) = Cardinality(s) - 1
      BY <1>2, <2>5, SmallerSet
    <3>2. ASSUME s \ {d} \in bad PROVE FALSE
      <4>1. Cardinality(s \ {d}) \in K
        BY <3>2 DEF K
      <4>2. k <= Cardinality(s \ {d})
        BY <2>2, <4>1
      <4> QED BY <2>3, <3>1, <4>2
    <3> QED BY <3>1, <3>2
  <2>10. h[s \ {c}] = b.size + h[(s \ {c}) \ {b}]
    <3>1. b \in s \ {c}
      BY <2>8
    <3> QED BY <2>6, <2>9, <3>1
  <2>11. h[s \ {b}] = c.size + h[(s \ {b}) \ {c}]
    <3>1. c \in s \ {b}
      BY <2>6, <2>8
    <3> QED BY <2>9, <3>1
  <2>12. (s \ {b}) \ {c} = (s \ {c}) \ {b}
    OBVIOUS
  <2>13. b.size \in Nat /\ c.size \in Nat /\ h[(s \ {c}) \ {b}] \in Nat
    BY <1>2, <2>4, <2>5, <2>6
  <2>14. h[s \ {b}] = c.size + h[(s \ {c}) \ {b}]
    BY <2>11, <2>12
  <2>15. h[s] = c.size + (b.size + h[(s \ {c}) \ {b}])
    BY <2>7, <2>10
  <2>16. h[s] = b.size + (c.size + h[(s \ {c}) \ {b}])
    BY <2>13, <2>15
  <2> QED BY <2>4, <2>14, <2>16
<1>5. h[S] = a.size + h[S \ {a}]
  <2>1. bad = {}
    <3> HIDE DEF bad
    <3> QED BY <1>4
  <2>2. S \in SUBSET S /\ S \notin bad
    <3> HIDE DEF bad
    <3> QED BY <2>1
  <2> QED BY <2>2
<1> QED BY <1>1, <1>5

\* A bucket without files has no size.
LEMMA SizeOfNothing == R!bucketSize({}) = 0
BY DEF R!bucketSize, R!MapThenSumSet, R!MapThenFoldSet

-----------------------------------------------------------------------------
\* The instance RulerManifests has an operator of its own for cardinalities.
LEMMA SameCardinality == \A S : R!Cardinality(S) = Cardinality(S)
BY DEF R!Cardinality, Cardinality

\* Files with a place each in the order of the names.
Placed(files) ==
    /\ Sized(files)
    /\ \A f \in files : f.place \in Nat
    /\ \A f, g \in files : f.place = g.place => f = g

\* Files are added in the order of their names: one is the last (builder.go:649-653).
LEMMA LastFile ==
    ASSUME NEW files, Placed(files), NEW B \in SUBSET files, B # {}
    PROVE  \E f \in B : \A g \in B : g # f => g.place < f.place
<1> DEFINE after(f) == {g \in B : g.place > f.place}
           K == {Cardinality(after(f)) : f \in B}
<1>1. IsFiniteSet(B)
  BY FS_Subset DEF Placed, Sized
<1>2. \A f \in B : IsFiniteSet(after(f)) /\ Cardinality(after(f)) \in Nat
  BY <1>1, FS_Subset, FS_CardinalityType
<1>3. K \in SUBSET Nat /\ K # {}
  BY <1>2
<1>4. PICK k \in K : \A j \in K : k <= j
  <2> HIDE DEF K
  <2> QED BY <1>3, LeastNumber
<1>5. PICK f \in B : k = Cardinality(after(f))
  BY <1>4
<1>6. ASSUME NEW g \in B, g # f PROVE g.place < f.place
  <2> SUFFICES ASSUME ~ (g.place < f.place) PROVE FALSE
    OBVIOUS
  <2>1. g.place > f.place
    BY <1>6 DEF Placed
  <2>2. after(g) \in SUBSET after(f) /\ g \in after(f) /\ g \notin after(g)
    BY <2>1 DEF Placed
  <2>3. Cardinality(after(g)) <= Cardinality(after(f)) /\ Cardinality(after(g)) # Cardinality(after(f))
    <3> HIDE DEF after
    <3> QED BY <1>2, <2>2, FS_Subset
  <2>4. k <= Cardinality(after(g))
    BY <1>4
  <2>5. Cardinality(after(g)) \in Nat /\ Cardinality(after(f)) \in Nat
    BY <1>2
  <2> HIDE DEF after
  <2> QED BY <1>5, <2>3, <2>4, <2>5
<1> QED BY <1>6

\* The files that begin a bucket up to some file.
Begun(starts, f) == {s \in starts : s.place <= f.place}

\* The index of a bucket counts the files that begin one (builder.go:655-660).
LEMMA IndexCounts ==
    ASSUME NEW files, Placed(files), NEW starts \in SUBSET files, NEW f
    PROVE  /\ R!currBucketIndex(starts, f) = Cardinality(Begun(starts, f))
           /\ IsFiniteSet(Begun(starts, f))
           /\ R!currBucketIndex(starts, f) \in 0 .. Cardinality(starts)
           /\ Cardinality(starts) \in Nat /\ Cardinality(starts) <= Cardinality(files)
<1>1. IsFiniteSet(files) /\ IsFiniteSet(starts) /\ Cardinality(starts) <= Cardinality(files)
  BY FS_Subset DEF Placed, Sized
<1>2. Begun(starts, f) \in SUBSET starts
  BY DEF Begun
<1>3. IsFiniteSet(Begun(starts, f)) /\ Cardinality(Begun(starts, f)) <= Cardinality(starts)
  BY <1>1, <1>2, FS_Subset
<1>4. R!currBucketIndex(starts, f) = Cardinality(Begun(starts, f))
  BY SameCardinality DEF R!currBucketIndex, Begun
<1> QED BY <1>1, <1>3, <1>4, FS_CardinalityType

\* The buckets, told by the files that begin one; a file too large is an error
\* (builder.go:633-662).
LEMMA BucketsMade ==
    ASSUME NEW files, Placed(files), NEW limit, NEW b \in R!MakeRulesConfigMaps(files, limit)
    PROVE  /\ \A f \in files : ~ (f.size > limit)
           /\ \E starts \in SUBSET files :
                /\ starts = {f \in files :
                      R!bucketSize(R!currBucket(files, starts, f)) + f.size > limit}
                /\ b = [i \in 1 .. Cardinality(starts) + 1 |->
                          {f \in files : R!currBucketIndex(starts, f) = i - 1}]
<1>1. \A f \in files : ~ (f.size > limit)
  BY DEF R!MakeRulesConfigMaps
<1>2. PICK starts \in R!NewBuckets(files, limit) :
             b = [i \in 1 .. R!Cardinality(starts) + 1 |->
                          {f \in files : R!currBucketIndex(starts, f) = i - 1}]
  BY <1>1 DEF R!MakeRulesConfigMaps
<1> QED BY <1>1, <1>2, SameCardinality DEF R!NewBuckets

\* Every rule file goes into one of the ConfigMaps, and into one only
\* (builder.go:655-662).
LEMMA BucketsDivide ==
    ASSUME NEW files, Placed(files), NEW limit, NEW b \in R!MakeRulesConfigMaps(files, limit)
    PROVE  /\ \E n \in Nat : n <= Cardinality(files) + 1 /\ b \in [1 .. n -> SUBSET files]
           /\ \A f \in files : \E i \in DOMAIN b : f \in b[i]
           /\ \A i, j \in DOMAIN b : \A f : f \in b[i] /\ f \in b[j] => i = j
<1>1. PICK starts \in SUBSET files :
             b = [i \in 1 .. Cardinality(starts) + 1 |->
                     {f \in files : R!currBucketIndex(starts, f) = i - 1}]
  BY BucketsMade
<1>2. /\ Cardinality(starts) \in Nat /\ Cardinality(starts) <= Cardinality(files)
      /\ \A f : R!currBucketIndex(starts, f) \in 0 .. Cardinality(starts)
  BY IndexCounts
<1>3. IsFiniteSet(files) /\ Cardinality(files) \in Nat
  BY FS_CardinalityType DEF Placed, Sized
<1>4. \A f \in files : f \in b[R!currBucketIndex(starts, f) + 1]
                       /\ R!currBucketIndex(starts, f) + 1 \in DOMAIN b
  BY <1>1, <1>2
<1>5. \A i \in DOMAIN b : \A f \in b[i] : R!currBucketIndex(starts, f) = i - 1 /\ i \in Int
  BY <1>1, <1>2
<1>6. b \in [1 .. Cardinality(starts) + 1 -> SUBSET files]
  BY <1>1
<1> QED BY <1>2, <1>3, <1>4, <1>5, <1>6

\* No derived ConfigMap is larger than allowed: a file that does not fit the
\* bucket begins another, and none is too large for a bucket (builder.go:633-662).
LEMMA BucketFits ==
    ASSUME NEW files, Placed(files), NEW limit \in Nat,
           NEW b \in R!MakeRulesConfigMaps(files, limit), NEW i \in DOMAIN b
    PROVE  R!bucketSize(b[i]) <= limit
<1>1. PICK starts \in SUBSET files :
        /\ starts = {f \in files :
              R!bucketSize(R!currBucket(files, starts, f)) + f.size > limit}
        /\ b = [j \in 1 .. Cardinality(starts) + 1 |->
                  {f \in files : R!currBucketIndex(starts, f) = j - 1}]
  BY BucketsMade
<1> DEFINE B == b[i]
<1>2. B = {f \in files : R!currBucketIndex(starts, f) = i - 1}
  BY <1>1
<1> HIDE DEF B
<1>3. B \in SUBSET files /\ Sized(B)
  BY <1>2, FS_Subset DEF Placed, Sized
<1>4. CASE B = {}
  BY <1>4, SizeOfNothing DEF B
<1>5. CASE B # {}
  <2>1. PICK f \in B : \A g \in B : g # f => g.place < f.place
    BY <1>3, <1>5, LastFile
  <2>2. f \in files /\ f.size \in Nat /\ f.place \in Nat /\ f.size <= limit
    BY <1>3, <2>1, BucketsMade DEF Placed, Sized
  <2>3. ASSUME NEW g \in files, g.place < f.place, NEW s \in starts
        PROVE  g.place \in Nat /\ s.place \in Nat /\ s \in files
    BY <2>3 DEF Placed
  <2>4. ASSUME NEW g \in B, g # f
        PROVE  Begun(starts, g) = Begun(starts, f)
    <3>1. g \in files /\ g.place < f.place
      BY <1>3, <2>1, <2>4
    <3>2. Begun(starts, g) \in SUBSET Begun(starts, f)
      BY <2>2, <2>3, <3>1 DEF Begun
    <3>3. Cardinality(Begun(starts, g)) = Cardinality(Begun(starts, f))
      BY <1>2, <2>1, <2>4, IndexCounts
    <3> QED BY <3>2, <3>3, IndexCounts, FS_Subset
  <2>5. CASE f \in starts
    <3>1. B = {f}
      <4> SUFFICES ASSUME NEW g \in B, g # f PROVE FALSE
        BY <2>1
      <4>1. f \in Begun(starts, f) /\ g.place < f.place
        BY <2>1, <2>2, <2>5 DEF Begun
      <4>2. f \in Begun(starts, g)
        BY <2>4, <4>1
      <4> QED BY <1>3, <2>2, <2>3, <4>1, <4>2 DEF Begun
    <3>2. R!bucketSize(B) = f.size + R!bucketSize(B \ {f})
      BY <1>3, <2>1, SizeAdds
    <3>3. B \ {f} = {}
      BY <3>1
    <3> QED BY <2>2, <3>2, <3>3, SizeOfNothing DEF B
  <2>6. CASE f \notin starts
    <3> DEFINE cur == R!currBucket(files, starts, f)
    <3>1. cur = {g \in files : /\ g.place < f.place
                               /\ \A s \in starts : s.place <= g.place \/ s.place >= f.place}
      BY DEF R!currBucket
    <3> HIDE DEF cur
    <3>2. ASSUME NEW g \in B, g # f PROVE g \in cur
      <4>1. g \in files /\ g.place < f.place
        BY <1>3, <2>1, <3>2
      <4>2. ASSUME NEW s \in starts PROVE s.place <= g.place \/ s.place >= f.place
        <5>1. Begun(starts, g) = Begun(starts, f)
          BY <2>4, <3>2
        <5> QED BY <2>2, <2>3, <4>1, <5>1 DEF Begun
      <4> QED BY <3>1, <4>1, <4>2
    <3>3. ASSUME NEW g \in cur PROVE g \in B /\ g # f
      <4>1. /\ g \in files /\ g.place < f.place
            /\ \A s \in starts : s.place <= g.place \/ s.place >= f.place
        BY <3>1
      <4>2. ASSUME NEW s \in starts PROVE s.place <= g.place <=> s.place <= f.place
        <5>1. s \in files /\ s # f /\ s.place # f.place
          BY <2>2, <2>6 DEF Placed
        <5>2. g.place \in Nat /\ s.place \in Nat
          BY <4>1, <5>1 DEF Placed
        <5>3. s.place <= g.place \/ s.place >= f.place
          BY <4>1
        <5> QED BY <2>2, <4>1, <5>1, <5>2, <5>3
      <4>3. Begun(starts, g) = Begun(starts, f)
        BY <4>2 DEF Begun
      <4>4. R!currBucketIndex(starts, g) = R!currBucketIndex(starts, f)
        BY <4>3, IndexCounts
      <4>5. g # f
        BY <2>2, <4>1
      <4>6. R!currBucketIndex(starts, f) = i - 1
        BY <1>2, <2>1
      <4> QED BY <1>2, <4>1, <4>4, <4>5, <4>6
    <3>4. B \ {f} = cur
      BY <3>2, <3>3
    <3>5. /\ R!bucketSize(B) = f.size + R!bucketSize(cur)
          /\ R!bucketSize(cur) \in Nat
      BY <1>3, <2>1, <3>4, SizeAdds
    <3>6. ~ (R!bucketSize(cur) + f.size > limit)
      BY <1>1, <2>2, <2>6 DEF cur
    <3> QED BY <2>2, <3>5, <3>6 DEF B
  <2> QED BY <2>5, <2>6
<1> QED BY <1>4, <1>5

-----------------------------------------------------------------------------
(***************************************************************************)
(* The derived ConfigMaps.                                                 *)
(***************************************************************************)

\* What is there: the sources of users, and ConfigMaps derived for a ruler.
IsDerivedMap(c) ==
    /\ \E r \in DOMAIN Rulers, p \in RulePrefixes, i \in RuleNumbers :
          c = [kind |-> "ConfigMap", name |-> DerivedName(r, p, i), labels |-> c.labels,
               body |-> [data |-> c.body.data], owner |-> r]
    /\ IsDerived(c)
    /\ R!bucketSize(c.body.data) <= maxConfigMapDataSize

Known(os) ==
    /\ os = [k \in DOMAIN os |-> os[k]]
    /\ \A k \in DOMAIN os : Key(os[k]) = k /\ (os[k] \in Sources \/ IsDerivedMap(os[k]))
ObjectsKnown == Known(objs)

FilesOf(maps)   == UNION {{<<c.name, d.key>> : d \in c.body.data} : c \in maps}
TenantsOf(maps) == UNION {UNION {d.label : d \in c.body.data} : c \in maps}
DataOf(maps)    == UNION {c.body.data : c \in maps}
Entry(d)        == [key |-> d.key, rules |-> d.rules, tenant |-> d.label]

\* The names of files from sources of a kind.
NamesOf(kind) ==
    UNION {{FileName(o, d) : d \in o.body.data} : o \in {s \in Sources : s.kind = kind}}

\* A derived ConfigMap has an owner, and no source has its name.
LEMMA DerivedParts ==
    ASSUME NEW c, IsDerivedMap(c)
    PROVE  /\ c.kind = "ConfigMap" /\ Key(c) = <<"ConfigMap", c.name>>
           /\ Key(c) \notin SourceKeys
           /\ c.owner \in DOMAIN Rulers /\ c.owner # NoOwner
BY NamesAssumption, RulersAssumption DEF IsDerivedMap, Key

\* A source has no owner, and its files a place and a size.
LEMMA SourceParts ==
    ASSUME NEW o \in Sources
    PROVE  /\ o.owner = NoOwner /\ o.kind \in {"ConfigMap", "PrometheusRule"}
           /\ Key(o) = <<o.kind, o.name>> /\ Key(o) \in SourceKeys
           /\ \A f \in o.body.data : f.place \in Nat /\ f.size \in Nat
<1>1. o = Object(o.kind, o.name, o.labels, [data |-> o.body.data])
  BY SourcesAssumption
<1> QED BY <1>1, SourcesAssumption DEF Object, Key, SourceKeys

\* A source that is read is one file.
LEMMA OneFile ==
    ASSUME NEW o \in Sources, Usable(o)
    PROVE  \E f : /\ o.body.data = {f} /\ TheOne(o.body.data) = f
                  /\ f = [key |-> f.key, place |-> f.place, size |-> f.size, rules |-> f.rules,
                          label |-> {}, matcher |-> {}]
                  /\ f.place \in Nat /\ f.size \in Nat
<1>1. /\ o.kind \in {"ConfigMap", "PrometheusRule"} /\ IsFiniteSet(o.body.data)
      /\ o.kind = "PrometheusRule" => \E f \in o.body.data : o.body.data = {f}
  BY SourcesAssumption
<1>2. \E f : o.body.data = {f}
  BY <1>1, FS_Singleton DEF Usable
<1>3. PICK f : o.body.data = {f}
  BY <1>2
<1>4. f \in o.body.data
  BY <1>3
<1>5. /\ f = [key |-> f.key, place |-> f.place, size |-> f.size, rules |-> f.rules,
              label |-> {}, matcher |-> {}]
      /\ f.place \in Nat /\ f.size \in Nat
  BY <1>4, SourcesAssumption
<1>6. TheOne({f}) = f
  BY DEF TheOne
<1> QED BY <1>3, <1>5, <1>6

\* Its file carries the name, and the tenant of the source.
LEMMA FileOf ==
    ASSUME NEW o \in Sources, Usable(o), NEW spec
    PROVE  \E f : /\ o.body.data = {f}
                  /\ RuleFile(o, spec).key = FileName(o, f)
                  /\ RuleFile(o, spec).place = f.place /\ RuleFile(o, spec).size = f.size
                  /\ RuleFile(o, spec).rules = f.rules
                  /\ RuleFile(o, spec).label = Tenant(o, spec)
                  /\ f.place \in Nat /\ f.size \in Nat
<1>1. PICK f : /\ o.body.data = {f} /\ TheOne(o.body.data) = f
               /\ f = [key |-> f.key, place |-> f.place, size |-> f.size, rules |-> f.rules,
                       label |-> {}, matcher |-> {}]
               /\ f.place \in Nat /\ f.size \in Nat
  BY OneFile
<1> DEFINE g == [f EXCEPT !.key = FileName(o, f)]
<1>2. /\ g.key = FileName(o, f) /\ g.place = f.place /\ g.size = f.size /\ g.rules = f.rules
      /\ DOMAIN g = {"key", "place", "size", "rules", "label", "matcher"}
  BY <1>1
<1>3. RuleFile(o, spec) = processRuleGroupsWithTenancy(g, Tenant(o, spec))
  BY <1>1 DEF RuleFile
<1> HIDE DEF g
<1> QED BY <1>1, <1>2, <1>3 DEF processRuleGroupsWithTenancy

\* Only sources are listed: what was derived is left out by its label
\* (thanosruler_controller.go:409-431).
LEMMA SourcesRead ==
    ASSUME ObjectsKnown, NEW kind, NEW spec, NEW s \in RuleSources(kind, spec)
    PROVE  /\ s \in Sources /\ s.kind = kind /\ ~ IsDerived(s)
           /\ \E k \in DOMAIN objs : s = objs[k] /\ Key(s) = k
<1>1. PICK k \in DOMAIN objs : k[1] = kind /\ ~ IsDerived(objs[k]) /\ s = objs[k]
  BY DEF RuleSources
<1>2. Key(s) = k /\ s \in Sources
  BY <1>1 DEF ObjectsKnown, Known, IsDerivedMap
<1> QED BY <1>1, <1>2, SourceParts

\* The files that are collected are those the ruler should load, bound to
\* their tenants; no two have one name (thanosruler_controller.go:453-515, 573-618).
LEMMA Collected ==
    ASSUME ObjectsKnown, NEW kind, NEW spec, NEW files \in CollectRules(kind, spec)
    PROVE  /\ Placed(files) /\ Cardinality(files) <= Cardinality(Sources)
           /\ \A f, g \in files : f.key = g.key => f = g
           /\ \A f \in files : f.key \in NamesOf(kind)
           /\ {Entry(f) : f \in files} = Wanted(kind, spec)
<1> DEFINE U == {s \in RuleSources(kind, spec) : Usable(s)}
           file == [s \in U |-> RuleFile(s, spec)]
<1>1. files = {RuleFile(s, spec) : s \in U}
  BY DEF CollectRules
<1>2. \A s \in U : s \in Sources /\ s.kind = kind /\ Usable(s)
  BY SourcesRead
<1>3. U \in SUBSET Sources
  BY <1>2
<1>4. \A s, t \in U : Key(s) = Key(t) => s = t
  BY SourcesRead
<1>5. ASSUME NEW s \in U
      PROVE  /\ RuleFile(s, spec).place \in Nat /\ RuleFile(s, spec).size \in Nat
             /\ RuleFile(s, spec).key \in NamesOf(kind)
             /\ \E f : /\ s.body.data = {f} /\ RuleFile(s, spec).key = FileName(s, f)
                       /\ RuleFile(s, spec).place = f.place
             /\ {Entry(RuleFile(s, spec))} =
                  {[key |-> FileName(s, d), rules |-> d.rules, tenant |-> Tenant(s, spec)] :
                      d \in s.body.data}
  <2>1. s \in Sources /\ Usable(s) /\ s.kind = kind
    BY <1>2
  <2>2. PICK f : /\ s.body.data = {f}
                 /\ RuleFile(s, spec).key = FileName(s, f)
                 /\ RuleFile(s, spec).place = f.place /\ RuleFile(s, spec).size = f.size
                 /\ RuleFile(s, spec).rules = f.rules
                 /\ RuleFile(s, spec).label = Tenant(s, spec)
                 /\ f.place \in Nat /\ f.size \in Nat
    BY <2>1, FileOf
  <2>3. FileName(s, f) \in NamesOf(kind)
    BY <2>1, <2>2 DEF NamesOf
  <2>4. Entry(RuleFile(s, spec)) =
          [key |-> FileName(s, f), rules |-> f.rules, tenant |-> Tenant(s, spec)]
    BY <2>2 DEF Entry
  <2> QED BY <2>2, <2>3, <2>4
<1>6. ASSUME NEW s \in U, NEW t \in U,
             RuleFile(s, spec).key = RuleFile(t, spec).key
               \/ RuleFile(s, spec).place = RuleFile(t, spec).place
      PROVE  s = t
  <2>1. PICK f : /\ s.body.data = {f} /\ RuleFile(s, spec).key = FileName(s, f)
                 /\ RuleFile(s, spec).place = f.place
    BY <1>5
  <2>2. PICK g : /\ t.body.data = {g} /\ RuleFile(t, spec).key = FileName(t, g)
                 /\ RuleFile(t, spec).place = g.place
    BY <1>5
  <2>3. f \in s.body.data /\ g \in t.body.data /\ s \in Sources /\ t \in Sources
    BY <1>2, <2>1, <2>2
  <2>4. Key(s) = Key(t)
    BY <1>6, <2>1, <2>2, <2>3, FilesAssumption
  <2> QED BY <1>4, <2>4
<1>7. IsFiniteSet(files) /\ Cardinality(files) <= Cardinality(Sources)
  <2>1. IsFiniteSet(U) /\ Cardinality(U) <= Cardinality(Sources)
    BY <1>3, SourcesAssumption, FS_Subset
  <2>2. file \in Surjection(U, files)
    BY <1>1 DEF Surjection
  <2>3. IsFiniteSet(files) /\ Cardinality(files) <= Cardinality(U)
    BY <2>1, <2>2, FS_Surjection
  <2> QED BY <2>1, <2>3, SourcesAssumption, FS_CardinalityType
<1>8. Placed(files)
  BY <1>1, <1>5, <1>6, <1>7 DEF Placed, Sized
<1>9. Wanted(kind, spec) =
        UNION {{[key |-> FileName(s, d), rules |-> d.rules, tenant |-> Tenant(s, spec)] :
                  d \in s.body.data} : s \in U}
  BY DEF Wanted
<1> HIDE DEF U
<1>10. {Entry(f) : f \in files} = UNION {{Entry(RuleFile(s, spec))} : s \in U}
  BY <1>1
<1>11. UNION {{Entry(RuleFile(s, spec))} : s \in U} =
         UNION {{[key |-> FileName(s, d), rules |-> d.rules, tenant |-> Tenant(s, spec)] :
                  d \in s.body.data} : s \in U}
  BY <1>5
<1> QED BY <1>1, <1>5, <1>6, <1>7, <1>8, <1>9, <1>10, <1>11

-----------------------------------------------------------------------------
\* A label that is merged in is there.
LEMMA LabelMerged ==
    ASSUME NEW base, NEW label
    PROVE  HasRequiredLabels(MergeMaps(base, label), label)
BY DEF HasRequiredLabels, MergeMaps

\* No two derived ConfigMaps have one name.
LEMMA NamesApart ==
    ASSUME NEW r \in DOMAIN Rulers, NEW s \in DOMAIN Rulers, NEW p \in RulePrefixes,
           NEW q \in RulePrefixes, NEW i \in RuleNumbers, NEW j \in RuleNumbers,
           DerivedName(r, p, i) = DerivedName(s, q, j)
    PROVE  r = s /\ p = q /\ i = j
BY NamesAssumption

DerivedLabel(prefix) == IF prefix = "promrule" THEN PromRuleDerived ELSE UserSource

\* ConfigMaps that were derived for a ruler in one go, and of which none holds
\* a file of another.
OwnMaps(list, r) ==
    /\ \E S : list \in Seq(S)
    /\ \A c \in ToSet(list) : IsDerivedMap(c) /\ c.owner = r
    /\ \A i, j \in DOMAIN list : list[i].name = list[j].name => i = j
Disjoint(maps) == \A c, e \in maps : \A d \in c.body.data \cap e.body.data : c = e

\* The ConfigMaps made of a set of files: they are derived, have names of their
\* own, and hold each file once (thanosruler_controller.go:923-985).
LEMMA MapsMade ==
    ASSUME ObjectsKnown, NEW kind, NEW r \in DOMAIN Rulers, NEW spec,
           NEW files \in CollectRules(kind, spec), NEW prefix \in RulePrefixes,
           NEW list \in createBucketedRuleConfigMaps(r, spec, files, prefix, DerivedLabel(prefix))
    PROVE  OwnMaps(list, r) /\ Disjoint(ToSet(list)) /\ DataOf(ToSet(list)) = files
<1>1. /\ Placed(files) /\ Cardinality(files) <= Cardinality(Sources)
      /\ IsFiniteSet(files) /\ Cardinality(files) \in Nat /\ Cardinality(Sources) \in Nat
  BY Collected, FS_CardinalityType, SourcesAssumption DEF Placed, Sized
<1>2. CASE files = {}
  <2>1. list = <<>>
    BY <1>2 DEF createBucketedRuleConfigMaps
  <2>2. ToSet(list) = {} /\ DOMAIN list = {} /\ list \in Seq({})
    BY <2>1 DEF ToSet
  <2> QED BY <1>2, <2>2 DEF DataOf, OwnMaps, Disjoint
<1>3. CASE files # {}
  <2> DEFINE labels == MergeMaps(MergeMaps(spec.ruleConfigSelector.match, DefaultRuleLabels),
                                 DerivedLabel(prefix))
             derived(i, bucket) ==
               [kind |-> "ConfigMap", name |-> DerivedName(r, prefix, i), labels |-> labels,
                body |-> [data |-> bucket], owner |-> r]
  <2>1. PICK b \in R!MakeRulesConfigMaps(files, maxConfigMapDataSize) :
               list = [i \in DOMAIN b |-> derived(i, b[i])]
    <3>1. PICK b \in R!MakeRulesConfigMaps(files, maxConfigMapDataSize) :
               list = [i \in DOMAIN b |->
                 [Object("ConfigMap", DerivedName(r, prefix, i), labels, [data |-> b[i]])
                    EXCEPT !.owner = r]]
      BY <1>3 DEF createBucketedRuleConfigMaps
    <3>2. \A i, bucket : [Object("ConfigMap", DerivedName(r, prefix, i), labels, [data |-> bucket])
                            EXCEPT !.owner = r] = derived(i, bucket)
      BY DEF Object
    <3> HIDE DEF derived, labels
    <3> QED BY <3>1, <3>2
  <2>2. PICK n \in Nat : n <= Cardinality(files) + 1 /\ b \in [1 .. n -> SUBSET files]
    BY <1>1, BucketsDivide
  <2>3. DOMAIN b = 1 .. n /\ DOMAIN list = 1 .. n /\ \A i \in 1 .. n : i \in RuleNumbers
    BY <1>1, <2>1, <2>2 DEF RuleNumbers
  <2>4. ASSUME NEW i \in 1 .. n
        PROVE  /\ list[i] = derived(i, b[i])
               /\ list[i].name = DerivedName(r, prefix, i) /\ list[i].body.data = b[i]
               /\ list[i].owner = r /\ list[i].labels = labels
    <3>1. list[i] = derived(i, b[i])
      <4> HIDE DEF derived
      <4> QED BY <2>1, <2>3
    <3> HIDE DEF labels
    <3> QED BY <3>1
  <2>5. HasRequiredLabels(labels, DerivedLabel(prefix))
    BY LabelMerged
  <2>6. ASSUME NEW i \in 1 .. n PROVE IsDerivedMap(list[i])
    <3>1. R!bucketSize(b[i]) <= maxConfigMapDataSize
      BY <1>1, <2>3, BucketFits, BoundsAssumption
    <3>2. IsDerived(list[i])
      <4> HIDE DEF labels
      <4>1. list[i].labels = labels
        BY <2>4
      <4>2. DerivedLabel(prefix) = PromRuleDerived \/ DerivedLabel(prefix) = UserSource
        BY DEF DerivedLabel
      <4> QED BY <2>5, <4>1, <4>2 DEF IsDerived
    <3>3. list[i] = [kind |-> "ConfigMap", name |-> DerivedName(r, prefix, i),
                     labels |-> list[i].labels, body |-> [data |-> list[i].body.data], owner |-> r]
      <4> HIDE DEF labels
      <4> QED BY <2>4
    <3> HIDE DEF derived, labels
    <3> QED BY <2>3, <2>4, <3>1, <3>2, <3>3 DEF IsDerivedMap
  <2> HIDE DEF derived, labels
  <2>7. list \in Seq(ToSet(list)) /\ ToSet(list) = {list[i] : i \in 1 .. n}
    <3>1. list \in [1 .. n -> ToSet(list)]
      <4>1. list = [i \in 1 .. n |-> list[i]]
        BY <2>1, <2>3
      <4> QED BY <2>3, <4>1 DEF ToSet
    <3> QED BY <2>3, <3>1 DEF ToSet
  <2>8. \A i, j \in DOMAIN list : list[i].name = list[j].name => i = j
    <3>1. ASSUME NEW i \in 1 .. n, NEW j \in 1 .. n, list[i].name = list[j].name PROVE i = j
      <4>1. DerivedName(r, prefix, i) = DerivedName(r, prefix, j)
        BY <2>4, <3>1
      <4>2. i \in RuleNumbers /\ j \in RuleNumbers
        BY <2>3
      <4> QED BY <4>1, <4>2, NamesApart
    <3> QED BY <2>3, <3>1
  <2>9. DataOf(ToSet(list)) = UNION {b[i] : i \in 1 .. n}
    BY <2>4, <2>7 DEF DataOf
  <2>10. UNION {b[i] : i \in 1 .. n} = files
    BY <1>1, <2>2, <2>3, BucketsDivide
  <2>11. ASSUME NEW c \in ToSet(list), NEW e \in ToSet(list), NEW d \in c.body.data \cap e.body.data
         PROVE  c = e
    <3>1. PICK i \in 1 .. n, j \in 1 .. n : c = list[i] /\ e = list[j]
      BY <2>7
    <3>2. d \in b[i] /\ d \in b[j]
      BY <2>4, <3>1
    <3>3. i = j
      BY <1>1, <2>3, <3>2, BucketsDivide
    <3> QED BY <3>1, <3>3
  <2>12. \A c \in ToSet(list) : IsDerivedMap(c) /\ c.owner = r
    BY <2>3, <2>4, <2>6, <2>7
  <2>13. OwnMaps(list, r)
    BY <2>7, <2>8, <2>12 DEF OwnMaps
  <2>14. Disjoint(ToSet(list))
    BY <2>11 DEF Disjoint
  <2> QED BY <2>9, <2>10, <2>13, <2>14
<1> QED BY <1>2, <1>3

-----------------------------------------------------------------------------
\* The prefix of the ConfigMaps derived from objects of a kind.
PrefixOf(kind) == IF kind = "ConfigMap" THEN "usercfgmap" ELSE "promrule"

Kinds == {"ConfigMap", "PrometheusRule"}
MapsFrom(kind, r, spec) ==
    IF kind = "ConfigMap" THEN getRuleConfigMaps(r, spec) ELSE getPrometheusRuleConfigMaps(r, spec)

\* The files of a reconcile, each with the ConfigMap it is in, are told apart
\* by their names alone.
OnceEach(files) == \A f, g \in files : f[2] = g[2] => f = g

\* What a list of ConfigMaps has.
LEMMA ToSetIs == ASSUME NEW s PROVE ToSet(s) = {s[i] : i \in DOMAIN s}
BY DEF ToSet

\* The names of the rule files and the tenants do not depend on the order of
\* the ConfigMaps.
LEMMA ListIsSet ==
    ASSUME NEW list
    PROVE  RuleFiles(list) = FilesOf(ToSet(list)) /\ Tenants(list) = TenantsOf(ToSet(list))
BY ToSetIs DEF RuleFiles, Tenants, FilesOf, TenantsOf

\* The ConfigMaps derived from what a ruler selects of one kind hold exactly that,
\* each file once (thanosruler_controller.go:396-635).
LEMMA ReadMaps ==
    ASSUME ObjectsKnown, NEW kind \in Kinds, NEW r \in DOMAIN Rulers, NEW spec,
           NEW list \in MapsFrom(kind, r, spec)
    PROVE  /\ OwnMaps(list, r)
           /\ {Entry(d) : d \in DataOf(ToSet(list))} = Wanted(kind, spec)
           /\ \A f \in FilesOf(ToSet(list)) : f[2] \in NamesOf(kind)
           /\ OnceEach(FilesOf(ToSet(list)))
<1> DEFINE prefix == PrefixOf(kind)
<1>1. PICK files \in CollectRules(kind, spec) :
             list \in createBucketedRuleConfigMaps(r, spec, files, prefix, DerivedLabel(prefix))
  <2>1. CASE kind = "ConfigMap"
    BY <2>1 DEF MapsFrom, getRuleConfigMaps, PrefixOf, DerivedLabel
  <2>2. CASE kind = "PrometheusRule"
    BY <2>2 DEF MapsFrom, getPrometheusRuleConfigMaps, PrefixOf, DerivedLabel
  <2> QED BY <2>1, <2>2 DEF Kinds
<1>2. prefix \in RulePrefixes
  BY DEF PrefixOf, RulePrefixes
<1>3. OwnMaps(list, r) /\ Disjoint(ToSet(list)) /\ DataOf(ToSet(list)) = files
  <2> HIDE DEF prefix
  <2> QED BY <1>1, <1>2, MapsMade
<1>4. /\ \A f, g \in files : f.key = g.key => f = g
      /\ \A f \in files : f.key \in NamesOf(kind)
      /\ {Entry(f) : f \in files} = Wanted(kind, spec)
  BY Collected
<1> DEFINE maps == ToSet(list)
<1> HIDE DEF maps
<1>5. ASSUME NEW f \in FilesOf(maps)
      PROVE  \E c \in maps : \E d \in c.body.data : f = <<c.name, d.key>> /\ d \in files
  BY <1>3, <1>5 DEF FilesOf, DataOf, maps
<1>6. ASSUME NEW f \in FilesOf(maps) PROVE f[2] \in NamesOf(kind)
  <2>1. PICK c \in maps : \E d \in c.body.data : f = <<c.name, d.key>> /\ d \in files
    BY <1>5
  <2>2. PICK d \in c.body.data : f = <<c.name, d.key>> /\ d \in files
    BY <2>1
  <2> QED BY <1>4, <2>2
<1>7. ASSUME NEW f \in FilesOf(maps), NEW g \in FilesOf(maps), f[2] = g[2] PROVE f = g
  <2>1. PICK c \in maps : \E d \in c.body.data : f = <<c.name, d.key>> /\ d \in files
    BY <1>5
  <2>2. PICK d \in c.body.data : f = <<c.name, d.key>> /\ d \in files
    BY <2>1
  <2>3. PICK e \in maps : \E x \in e.body.data : g = <<e.name, x.key>> /\ x \in files
    BY <1>5
  <2>4. PICK x \in e.body.data : g = <<e.name, x.key>> /\ x \in files
    BY <2>3
  <2>5. d = x
    BY <1>4, <1>7, <2>2, <2>4
  <2>6. c = e
    BY <1>3, <2>2, <2>4, <2>5 DEF maps, Disjoint
  <2> QED BY <2>2, <2>4, <2>5, <2>6
<1> QED BY <1>3, <1>4, <1>6, <1>7 DEF OnceEach, maps

\* Files from user ConfigMaps and from PrometheusRules never have one name.
LEMMA KindsApart ==
    ASSUME NEW n, n \in NamesOf("ConfigMap"), n \in NamesOf("PrometheusRule") PROVE FALSE
<1>1. PICK o \in Sources : o.kind = "ConfigMap" /\ \E d \in o.body.data : n = FileName(o, d)
  BY DEF NamesOf
<1>2. PICK p \in Sources : p.kind = "PrometheusRule" /\ \E d \in p.body.data : n = FileName(p, d)
  BY DEF NamesOf
<1>3. Key(o) # Key(p)
  BY <1>1, <1>2 DEF Key
<1> QED BY <1>1, <1>2, <1>3, FilesAssumption


-----------------------------------------------------------------------------
(* The invariant of jobs, objects and what the pods are told.               *)

Stages == {"user", "list", "promrule", "sts", "secret", "prune", "report"}

\* A job, with ConfigMaps to write while it writes ConfigMaps.
Job(job) ==
    /\ job = [ruler |-> job.ruler, spec |-> job.spec, stage |-> job.stage, todo |-> job.todo,
              failed |-> job.failed, files |-> job.files, tenants |-> job.tenants]
    /\ job.ruler \in DOMAIN Rulers /\ job.stage \in Stages /\ job.failed \in BOOLEAN
    /\ OwnMaps(job.todo, job.ruler)
    /\ job.todo # <<>> <=> job.stage \in {"user", "promrule"}

\* Every rule file of the job is there once; those of PrometheusRules come last.
Read(job) ==
    /\ OnceEach(job.files)
    /\ job.stage \in {"user", "list"} => \A f \in job.files : f[2] \in NamesOf("ConfigMap")

ToldOnce == \A r \in DOMAIN Rulers : OnceEach(sts[r])

MissedKnown ==
    /\ missed = [r \in DOMAIN Rulers |-> missed[r]]
    /\ \A r \in DOMAIN Rulers : missed[r] \subseteq SourceKeys

Typed ==
    /\ ObjectsKnown
    /\ gate \in RuleGates /\ queue \subseteq DOMAIN Rulers /\ MissedKnown
    /\ left \in 0 .. MaxDisturbances
    /\ specs = [r \in DOMAIN Rulers |-> specs[r]]
    /\ \A r \in DOMAIN Rulers : specs[r] \in Rulers[r]
    /\ sts = [r \in DOMAIN Rulers |-> sts[r]]
    /\ secret = [r \in DOMAIN Rulers |-> secret[r]]

RulesInv == Typed /\ ToldOnce /\ (work # Idle => Job(work) /\ Read(work))

-----------------------------------------------------------------------------
\* What the ConfigMaps of a job are, one by one.
LEMMA FirstMap ==
    ASSUME NEW list, NEW r, OwnMaps(list, r), list # <<>>
    PROVE  /\ Head(list) \in ToSet(list) /\ OwnMaps(Tail(list), r)
           /\ Len(list) \in Nat /\ Len(list) >= 1 /\ Len(Tail(list)) = Len(list) - 1
           /\ ToSet(list) = {Head(list)} \cup ToSet(Tail(list))
           /\ \A c \in ToSet(Tail(list)) : c.name # Head(list).name
<1>1. PICK S : list \in Seq(S)
  BY DEF OwnMaps
<1>2. /\ Len(list) \in Nat /\ Len(list) >= 1 /\ DOMAIN list = 1 .. Len(list)
      /\ Head(list) = list[1] /\ Tail(list) \in Seq(S)
      /\ Len(Tail(list)) = Len(list) - 1 /\ DOMAIN Tail(list) = 1 .. Len(list) - 1
      /\ \A i \in 1 .. Len(list) - 1 : Tail(list)[i] = list[i + 1]
  BY <1>1
<1>3. /\ \A i \in DOMAIN list : list[i] \in ToSet(list)
      /\ ToSet(list) = {list[i] : i \in DOMAIN list}
      /\ ToSet(Tail(list)) = {Tail(list)[i] : i \in DOMAIN Tail(list)}
  BY ToSetIs
<1> DEFINE t == Tail(list)  n == Len(list)
<1>4. /\ t \in Seq(S) /\ n \in Nat /\ n >= 1 /\ DOMAIN t = 1 .. n - 1 /\ DOMAIN list = 1 .. n
      /\ \A i \in 1 .. n - 1 : t[i] = list[i + 1]
      /\ ToSet(t) = {t[i] : i \in DOMAIN t}
  BY <1>2, <1>3
<1> HIDE DEF t, n
<1>5. ToSet(list) = {list[1]} \cup ToSet(t)
  <2>1. ASSUME NEW c \in ToSet(list) PROVE c = list[1] \/ c \in ToSet(t)
    <3>0. PICK k \in DOMAIN list : c = list[k]
      BY <1>3
    <3>1. PICK i \in 1 .. n : c = list[i]
      BY <1>4, <3>0
    <3>2. CASE i # 1
      <4>1. i - 1 \in 1 .. n - 1 /\ (i - 1) + 1 = i
        BY <1>4, <3>2
      <4>2. t[i - 1] = list[i]
        BY <1>4, <4>1
      <4> QED BY <1>4, <3>1, <4>1, <4>2
    <3> QED BY <3>1, <3>2
  <2>2. ASSUME NEW c \in ToSet(t) PROVE c \in ToSet(list)
    <3>1. PICK i \in 1 .. n - 1 : c = t[i]
      BY <1>4
    <3>2. i + 1 \in 1 .. n /\ c = list[i + 1]
      BY <1>4, <3>1
    <3> QED BY <1>3, <1>4, <3>2
  <2>3. list[1] \in ToSet(list)
    <3>1. 1 \in DOMAIN list
      BY <1>4
    <3> QED BY <1>3, <3>1
  <2> QED BY <2>1, <2>2, <2>3
<1>6. \A c \in ToSet(t) : c.name # list[1].name
  <2> SUFFICES ASSUME NEW c \in ToSet(t), c.name = list[1].name PROVE FALSE
    OBVIOUS
  <2>1. PICK i \in 1 .. n - 1 : c = t[i]
    BY <1>4
  <2>2. i + 1 \in 1 .. n /\ 1 \in 1 .. n /\ c = list[i + 1] /\ i + 1 # 1
    BY <1>4, <2>1
  <2>3. list[i + 1].name = list[1].name
    BY <2>2
  <2> QED BY <1>4, <2>2, <2>3 DEF OwnMaps
<1>7. OwnMaps(t, r)
  <2>1. \A c \in ToSet(t) : IsDerivedMap(c) /\ c.owner = r
    BY <1>5 DEF OwnMaps
  <2>2. ASSUME NEW i \in 1 .. n - 1, NEW j \in 1 .. n - 1, t[i].name = t[j].name PROVE i = j
    <3>1. i + 1 \in 1 .. n /\ j + 1 \in 1 .. n /\ t[i] = list[i + 1] /\ t[j] = list[j + 1]
      BY <1>4
    <3>2. list[i + 1].name = list[j + 1].name
      BY <2>2, <3>1
    <3>3. i + 1 = j + 1
      BY <1>4, <3>1, <3>2 DEF OwnMaps
    <3> QED BY <3>3
  <2> QED BY <1>4, <2>1, <2>2 DEF OwnMaps
<1> QED BY <1>2, <1>3, <1>4, <1>5, <1>6, <1>7 DEF t, n

\* No ConfigMaps are the ConfigMaps of anybody.
LEMMA NoMaps == ASSUME NEW r PROVE OwnMaps(<<>>, r) /\ ToSet(<<>>) = {}
<1>1. ToSet(<<>>) = {} /\ <<>> \in Seq({}) /\ DOMAIN <<>> = {}
  BY ToSetIs
<1> QED BY <1>1 DEF OwnMaps

\* A failure ends the job (thanosruler_controller.go:189-202).
LEMMA FailedJob ==
    ASSUME Job(work), Read(work)
    PROVE  /\ Job(Failed) /\ Read(Failed) /\ Failed # Idle
           /\ Failed.stage = "report" /\ Failed.failed /\ Failed.ruler = work.ruler
<1> DEFINE new == Failed
<1>1. new = [ruler |-> work.ruler, spec |-> work.spec, stage |-> "report", todo |-> <<>>,
             failed |-> TRUE, files |-> work.files, tenants |-> work.tenants]
  <2>1. work = [ruler |-> work.ruler, spec |-> work.spec, stage |-> work.stage, todo |-> work.todo,
                failed |-> work.failed, files |-> work.files, tenants |-> work.tenants]
    BY DEF Job
  <2>2. new = [work EXCEPT !.stage = "report", !.failed = TRUE, !.todo = <<>>]
    BY DEF Failed
  <2> HIDE DEF new
  <2> QED BY <2>1, <2>2
<1> HIDE DEF new
<1>2. /\ Job(new) /\ Read(new) /\ new # Idle
      /\ new.stage = "report" /\ new.failed /\ new.ruler = work.ruler
  BY <1>1, NoMaps DEF Job, Read, Stages, Idle
<1> QED BY <1>2 DEF new

\* A job is not the absence of one.
LEMMA JobIsWork == ASSUME NEW job, Job(job) PROVE job # Idle
BY DEF Job, Stages, Idle

\* What a job becomes that goes on to the writes of ConfigMaps.
LEMMA WritingIs ==
    ASSUME NEW job, Job(job), NEW list, NEW stage, NEW next
    PROVE  Writing(job, list, stage, next) =
             [ruler |-> job.ruler, spec |-> job.spec, stage |-> IF list = <<>> THEN next ELSE stage,
              todo |-> list, failed |-> job.failed, files |-> job.files \cup FilesOf(ToSet(list)),
              tenants |-> job.tenants \cup TenantsOf(ToSet(list))]
<1> DEFINE new == Writing(job, list, stage, next)
<1>1. job = [ruler |-> job.ruler, spec |-> job.spec, stage |-> job.stage, todo |-> job.todo,
             failed |-> job.failed, files |-> job.files, tenants |-> job.tenants]
  BY DEF Job
<1>2. new = [job EXCEPT !.stage = IF list = <<>> THEN next ELSE stage, !.todo = list,
                        !.files = job.files \cup FilesOf(ToSet(list)),
                        !.tenants = job.tenants \cup TenantsOf(ToSet(list))]
  BY ListIsSet DEF Writing
<1> HIDE DEF new
<1>3. new = [ruler |-> job.ruler, spec |-> job.spec, stage |-> IF list = <<>> THEN next ELSE stage,
             todo |-> list, failed |-> job.failed, files |-> job.files \cup FilesOf(ToSet(list)),
             tenants |-> job.tenants \cup TenantsOf(ToSet(list))]
  BY <1>1, <1>2
<1> QED BY <1>3 DEF new

\* On to what follows a listing: the files are recorded with those there are,
\* and the ConfigMaps, if any, are to be written (thanosruler_controller.go:212-251).
LEMMA WritingJob ==
    ASSUME ObjectsKnown, NEW kind \in Kinds, NEW job, Job(job), Read(job),
           NEW list \in MapsFrom(kind, job.ruler, job.spec), NEW stage, NEW next,
           \/ kind = "ConfigMap" /\ stage = "user" /\ next = "list" /\ job.files = {}
           \/ kind = "PrometheusRule" /\ stage = "promrule" /\ next = "sts" /\ job.stage = "list"
    PROVE  /\ Job(Writing(job, list, stage, next)) /\ Read(Writing(job, list, stage, next))
<1> DEFINE new == Writing(job, list, stage, next)
<1>1. new = [ruler |-> job.ruler, spec |-> job.spec, stage |-> IF list = <<>> THEN next ELSE stage,
             todo |-> list, failed |-> job.failed, files |-> job.files \cup FilesOf(ToSet(list)),
             tenants |-> job.tenants \cup TenantsOf(ToSet(list))]
  BY WritingIs
<1>2. /\ OwnMaps(list, job.ruler) /\ OnceEach(FilesOf(ToSet(list)))
      /\ \A f \in FilesOf(ToSet(list)) : f[2] \in NamesOf(kind)
  BY ReadMaps DEF Job
<1>3. new.stage = (IF list = <<>> THEN next ELSE stage)
  BY <1>1
<1>4. Job(new)
  BY <1>1, <1>2 DEF Job, Stages
<1>5. new.files = job.files \cup FilesOf(ToSet(list))
  BY <1>1
<1> HIDE DEF new
<1>6. Read(new)
  <2>1. CASE kind = "ConfigMap" /\ job.files = {}
    <3>1. new.files = FilesOf(ToSet(list))
      BY <1>5, <2>1
    <3> QED BY <1>2, <2>1, <3>1 DEF Read
  <2>2. CASE kind = "PrometheusRule" /\ stage = "promrule" /\ next = "sts" /\ job.stage = "list"
    <3>1. new.stage \notin {"user", "list"}
      BY <1>3, <2>2
    <3>2. \A f \in job.files : f[2] \in NamesOf("ConfigMap")
      BY <2>2 DEF Read
    <3>3. \A f \in job.files, g \in FilesOf(ToSet(list)) : f[2] # g[2]
      BY <1>2, <2>2, <3>2, KindsApart
    <3>4. ASSUME NEW f \in new.files, NEW g \in new.files, f[2] = g[2] PROVE f = g
      <4>1. CASE f \in job.files /\ g \in job.files
        BY <3>4, <4>1 DEF Read, OnceEach
      <4>2. CASE f \in FilesOf(ToSet(list)) /\ g \in FilesOf(ToSet(list))
        BY <1>2, <3>4, <4>2 DEF OnceEach
      <4> QED BY <1>5, <3>3, <3>4, <4>1, <4>2
    <3> QED BY <3>1, <3>4 DEF Read, OnceEach
  <2> QED BY <2>1, <2>2
<1> QED BY <1>4, <1>6 DEF new

\* Objects stay known when a ConfigMap is written or an object edited,
LEMMA WithKnown ==
    ASSUME ObjectsKnown, NEW obj, obj \in Sources \/ IsDerivedMap(obj)
    PROVE  Known(With(obj))
BY DEF ObjectsKnown, Known, With

\* removed,
LEMMA WithoutKnown == ASSUME ObjectsKnown, NEW keys PROVE Known(Without(keys))
BY DEF ObjectsKnown, Known, Without

\* or emptied by hand.
LEMMA EmptiedKnown ==
    ASSUME ObjectsKnown, NEW k \in DOMAIN objs, objs[k].owner # NoOwner
    PROVE  Known([objs EXCEPT ![k].body.data = {}])
<1> DEFINE c == objs[k]
           new == [objs EXCEPT ![k].body.data = {}]
           e == [c EXCEPT !.body.data = {}]
<1>1. IsDerivedMap(c) /\ Key(c) = k
  <2>1. c \notin Sources
    BY SourceParts
  <2> QED BY <2>1 DEF ObjectsKnown, Known
<1>2. PICK r \in DOMAIN Rulers, p \in RulePrefixes, i \in RuleNumbers :
         c = [kind |-> "ConfigMap", name |-> DerivedName(r, p, i), labels |-> c.labels,
              body |-> [data |-> c.body.data], owner |-> r]
  BY <1>1 DEF IsDerivedMap
<1>3. c.body = [data |-> c.body.data] /\ IsDerived(c)
  BY <1>1, <1>2 DEF IsDerivedMap
<1> HIDE DEF c
<1>4. e = [c EXCEPT !.body = [data |-> {}]]
  <2>1. [c.body EXCEPT !.data = {}] = [data |-> {}]
    <3> DEFINE b == c.body
    <3>1. b = [data |-> b.data]
      BY <1>3
    <3> HIDE DEF b
    <3>2. [b EXCEPT !.data = {}] = [data |-> {}]
      BY <3>1
    <3> QED BY <3>2 DEF b
  <2> QED BY <2>1
<1> HIDE DEF e
<1>5. e = [kind |-> "ConfigMap", name |-> DerivedName(r, p, i), labels |-> c.labels,
           body |-> [data |-> {}], owner |-> r]
  BY <1>2, <1>4
<1>6. IsDerived(e)
  <2>1. e.labels = c.labels
    BY <1>5
  <2> QED BY <1>3, <2>1 DEF IsDerived
<1>7. R!bucketSize(e.body.data) <= maxConfigMapDataSize
  <2>1. e.body.data = {}
    BY <1>5
  <2> QED BY <2>1, SizeOfNothing, BoundsAssumption
<1>8. IsDerivedMap(e)
  <2>1. e = [kind |-> "ConfigMap", name |-> DerivedName(r, p, i), labels |-> e.labels,
             body |-> [data |-> e.body.data], owner |-> r]
    BY <1>5
  <2> QED BY <1>6, <1>7, <2>1 DEF IsDerivedMap
<1>9. Key(e) = k
  <2>1. e.kind = c.kind /\ e.name = c.name
    BY <1>2, <1>5
  <2> QED BY <1>1, <2>1 DEF Key
<1>10. new = [objs EXCEPT ![k] = e]
  BY DEF e, c
<1>11. objs = [x \in DOMAIN objs |-> objs[x]]
       /\ \A x \in DOMAIN objs : Key(objs[x]) = x /\ (objs[x] \in Sources \/ IsDerivedMap(objs[x]))
  BY DEF ObjectsKnown, Known
<1>12. new = [x \in DOMAIN objs |-> IF x = k THEN e ELSE objs[x]]
  BY <1>10, <1>11
<1> HIDE DEF new
<1>13. Known(new)
  BY <1>8, <1>9, <1>11, <1>12 DEF Known
<1> QED BY <1>13 DEF new

\* Only rulers are woken: owners are rulers, and so is whoever selects
\* (thanosruler_controller.go:760-842).
LEMMA WokenAreRulers ==
    ASSUME Typed, NEW new, Known(new)
    PROVE  WokenBy(new) \subseteq DOMAIN Rulers
<1>1. DOMAIN specs = DOMAIN Rulers
  BY DEF Typed
<1>2. ASSUME NEW os, Known(os), NEW k \in DOMAIN os
      PROVE  os[k].owner \in DOMAIN Rulers \cup {NoOwner}
  BY <1>2, SourceParts, DerivedParts DEF Known
<1>3. \A old, n : enqueueForConfigMap(old, n) \subseteq DOMAIN Rulers
                  /\ enqueueForPrometheusRule(old, n) \subseteq DOMAIN Rulers
  BY <1>1 DEF enqueueForConfigMap, enqueueForPrometheusRule
<1>4. ASSUME NEW k
      PROVE  enqueueForOwner(At(k), IF k \in DOMAIN new THEN {new[k]} ELSE {}) \subseteq DOMAIN Rulers
  BY <1>2 DEF enqueueForOwner, At, Typed, ObjectsKnown
<1>5. \A k : Woken(At(k), IF k \in DOMAIN new THEN {new[k]} ELSE {}) \subseteq DOMAIN Rulers
  BY <1>3, <1>4 DEF Woken
<1> QED BY <1>5 DEF WokenBy

\* A change of objects keeps the types of everything else.
LEMMA ChangeTyped ==
    ASSUME Typed, NEW new, Known(new), Change(new), UNCHANGED <<gate, specs, sts, secret>>,
           MissedKnown', left' \in 0 .. MaxDisturbances
    PROVE  Typed'
<1>1. objs' = new /\ queue' = queue \cup WokenBy(new)
  BY DEF Change
<1>2. queue' \subseteq DOMAIN Rulers
  BY <1>1, WokenAreRulers DEF Typed
<1>3. ObjectsKnown'
  BY <1>1 DEF ObjectsKnown, Known, IsDerivedMap
<1> QED BY <1>2, <1>3 DEF Typed

\* Every disturbance is counted.
LEMMA LeftCounts ==
    ASSUME Typed
    PROVE  /\ \A what : Happens(what) => left' \in 0 .. MaxDisturbances
           /\ \A fails : MayFail(fails) => left' \in 0 .. MaxDisturbances
BY BoundsAssumption DEF Typed, Happens, MayFail

-----------------------------------------------------------------------------
(* The reconciler keeps it.                                                 *)

\* Before the operator starts there are the sources of users alone.
LEMMA RulesInit == Init => RulesInv
<1> SUFFICES ASSUME Init PROVE RulesInv
  OBVIOUS
<1>1. Known(objs)
  <2>1. objs = [k \in SourceKeys |-> CHOOSE o \in Sources : Key(o) = k]
    BY DEF Init
  <2>2. \A k \in SourceKeys : \E o \in Sources : Key(o) = k
    BY DEF SourceKeys
  <2>3. \A k \in SourceKeys : Key(objs[k]) = k /\ objs[k] \in Sources
    BY <2>1, <2>2
  <2> QED BY <2>1, <2>3 DEF Known
<1>2. Typed
  <2>1. /\ specs \in [DOMAIN Rulers -> UNION {Rulers[r] : r \in DOMAIN Rulers}]
        /\ \A r \in DOMAIN Rulers : specs[r] \in Rulers[r]
    BY DEF Init
  <2> QED BY <1>1, <2>1, BoundsAssumption DEF Init, Typed, ObjectsKnown, MissedKnown
<1>3. ToldOnce /\ work = Idle
  BY DEF Init, ToldOnce, OnceEach
<1> QED BY <1>2, <1>3 DEF RulesInv

\* A reconcile begins with a job for a queued ruler, which reads the ConfigMaps
\* that users wrote (thanosruler_controller.go:182-215).
LEMMA ReconcileKeeps == ASSUME RulesInv, NEW r \in DOMAIN Rulers, Reconcile(r) PROVE RulesInv'
<1> DEFINE job   == [ruler |-> r, spec |-> specs[r], stage |-> "user", todo |-> <<>>,
                     failed |-> FALSE, files |-> {}, tenants |-> {}]
           found == getRuleConfigMaps(r, specs[r])
<1>1. /\ work' = IF found = {} THEN [job EXCEPT !.stage = "report", !.failed = TRUE]
                 ELSE Writing(job, TheOne(found), "user", "list")
      /\ queue' = queue \ {r} /\ missed' = [missed EXCEPT ![r] = {k \in @ : k[1] # "ConfigMap"}]
      /\ UNCHANGED <<gate, specs, objs, sts, secret, left>>
  BY DEF Reconcile
<1>2. Typed' /\ ToldOnce'
  <2>1. MissedKnown'
    BY <1>1 DEF RulesInv, Typed, MissedKnown
  <2> QED BY <1>1, <2>1 DEF RulesInv, Typed, ToldOnce, ObjectsKnown, Known
<1>3. CASE found = {}
  <2> DEFINE new == [job EXCEPT !.stage = "report", !.failed = TRUE]
  <2>1. new = [ruler |-> r, spec |-> specs[r], stage |-> "report", todo |-> <<>>,
               failed |-> TRUE, files |-> {}, tenants |-> {}]
    <3>1. /\ new = [job EXCEPT !.stage = "report", !.failed = TRUE]
          /\ job = [ruler |-> r, spec |-> specs[r], stage |-> "user", todo |-> <<>>,
                    failed |-> FALSE, files |-> {}, tenants |-> {}]
      OBVIOUS
    <3> HIDE DEF new, job
    <3> QED BY <3>1
  <2> HIDE DEF new
  <2>2. Job(new) /\ Read(new)
    BY <2>1, NoMaps DEF Job, Read, Stages, OnceEach
  <2>3. work' = new
    BY <1>1, <1>3 DEF new
  <2> QED BY <1>2, <2>2, <2>3 DEF RulesInv, Job, Read
<1>4. CASE found # {}
  <2> DEFINE list == TheOne(found)
             read == [job EXCEPT !.stage = "list"]
             new == Writing(job, list, "user", "list")
             same == Writing(read, list, "user", "list")
  <2>1. list \in found
    BY <1>4 DEF TheOne
  <2>2. read = [ruler |-> r, spec |-> specs[r], stage |-> "list", todo |-> <<>>,
                failed |-> FALSE, files |-> {}, tenants |-> {}]
    <3>1. /\ read = [job EXCEPT !.stage = "list"]
          /\ job = [ruler |-> r, spec |-> specs[r], stage |-> "user", todo |-> <<>>,
                    failed |-> FALSE, files |-> {}, tenants |-> {}]
      OBVIOUS
    <3> HIDE DEF read, job
    <3> QED BY <3>1
  <2>3. same = new
    BY DEF Writing
  <2>7. work' = same
    BY <1>1, <1>4, <2>3
  <2> HIDE DEF read, list, found, job
  <2>4. Job(read) /\ Read(read)
    BY <2>2, NoMaps DEF Job, Read, Stages, OnceEach
  <2>5. list \in MapsFrom("ConfigMap", read.ruler, read.spec)
    BY <2>1, <2>2 DEF MapsFrom, found
  <2>6. Job(same) /\ Read(same)
    <3>1. read.files = {} /\ "ConfigMap" \in Kinds /\ ObjectsKnown
      BY <2>2 DEF Kinds, RulesInv, Typed
    <3> HIDE DEF same
    <3> QED BY <2>4, <2>5, <3>1, WritingJob DEF same
  <2> HIDE DEF same
  <2> QED BY <1>2, <2>6, <2>7 DEF RulesInv, Job, Read
<1> QED BY <1>3, <1>4

\* A ConfigMap is written, or could not be; then the next, or on
\* (thanosruler_controller.go:978-985, handlers.go:53-83).
LEMMA WriteConfigMapKeeps == ASSUME RulesInv, WriteConfigMap PROVE RulesInv'
<1>1. /\ Job(work) /\ Read(work) /\ work # Idle /\ work.stage \in {"user", "promrule"}
      /\ OwnMaps(work.todo, work.ruler) /\ work.todo # <<>>
      /\ UNCHANGED <<gate, specs, sts, secret, missed>>
  BY DEF RulesInv, WriteConfigMap, In, Job
<1>2. PICK fails \in BOOLEAN :
        /\ MayFail(fails)
        /\ IF fails THEN UNCHANGED <<objs, queue>> ELSE Change(With(Head(work.todo)))
        /\ LET failed == work.failed \/ fails
               next   == IF work.stage = "user" THEN "list" ELSE "sts"
           IN work' = IF Len(work.todo) > 1
                      THEN [work EXCEPT !.todo = Tail(@), !.failed = failed]
                      ELSE IF failed THEN Failed ELSE [work EXCEPT !.todo = <<>>, !.stage = next]
  BY DEF WriteConfigMap
<1>3. Typed'
  <2>1. left' \in 0 .. MaxDisturbances /\ Typed
    BY <1>2, LeftCounts DEF RulesInv
  <2>2. CASE fails
    BY <1>1, <1>2, <2>1, <2>2 DEF Typed, ObjectsKnown, Known, MissedKnown
  <2>3. CASE ~ fails
    <3>1. IsDerivedMap(Head(work.todo))
      BY <1>1, FirstMap DEF OwnMaps
    <3>2. Known(With(Head(work.todo)))
      BY <2>1, <3>1, WithKnown DEF Typed
    <3>3. Change(With(Head(work.todo))) /\ MissedKnown'
      BY <1>1, <1>2, <2>1, <2>3 DEF Typed, MissedKnown
    <3> QED BY <1>1, <2>1, <3>2, <3>3, ChangeTyped
  <2> QED BY <2>2, <2>3
<1>4. ToldOnce'
  BY <1>1 DEF RulesInv, ToldOnce
<1>5. work = [ruler |-> work.ruler, spec |-> work.spec, stage |-> work.stage, todo |-> work.todo,
              failed |-> work.failed, files |-> work.files, tenants |-> work.tenants]
  BY <1>1 DEF Job
<1>6. Job(work') /\ Read(work')
  <2> DEFINE failed == work.failed \/ fails
             next   == IF work.stage = "user" THEN "list" ELSE "sts"
             more   == [work EXCEPT !.todo = Tail(work.todo), !.failed = failed]
             done   == [work EXCEPT !.todo = <<>>, !.stage = next]
  <2>1. work' = IF Len(work.todo) > 1 THEN more ELSE IF failed THEN Failed ELSE done
    BY <1>2
  <2>2. /\ failed \in BOOLEAN /\ next \in {"list", "sts"}
        /\ next = "list" => work.stage = "user"
    BY <1>1
  <2> HIDE DEF failed, next
  <2>3. /\ more = [ruler |-> work.ruler, spec |-> work.spec, stage |-> work.stage,
                   todo |-> Tail(work.todo), failed |-> failed, files |-> work.files,
                   tenants |-> work.tenants]
    <3>1. more = [work EXCEPT !.todo = Tail(work.todo), !.failed = failed]
      OBVIOUS
    <3> HIDE DEF more
    <3> QED BY <1>5, <3>1
  <2>4. done = [ruler |-> work.ruler, spec |-> work.spec, stage |-> next, todo |-> <<>>,
                failed |-> work.failed, files |-> work.files, tenants |-> work.tenants]
    <3>1. done = [work EXCEPT !.todo = <<>>, !.stage = next]
      OBVIOUS
    <3> HIDE DEF done
    <3> QED BY <1>5, <3>1
  <2> HIDE DEF more, done
  <2>5. CASE work' = more /\ Len(work.todo) > 1
    <3>1. OwnMaps(Tail(work.todo), work.ruler) /\ Tail(work.todo) # <<>>
      <4>1. OwnMaps(Tail(work.todo), work.ruler) /\ Len(Tail(work.todo)) = Len(work.todo) - 1
            /\ Len(work.todo) \in Nat
        BY <1>1, FirstMap
      <4>2. Len(Tail(work.todo)) # 0
        <5>1. \A n \in Nat : n > 1 => n - 1 # 0
          OBVIOUS
        <5>2. Len(work.todo) - 1 # 0
          BY <2>5, <4>1, <5>1
        <5> QED BY <4>1, <5>2
      <4>3. Len(<<>>) = 0
        OBVIOUS
      <4>4. Tail(work.todo) # <<>>
        BY <4>2, <4>3, Zenon
      <4> QED BY <4>1, <4>4
    <3>2. Job(more) /\ Read(more)
      BY <1>1, <2>2, <2>3, <3>1 DEF Job, Read
    <3> QED BY <2>5, <3>2 DEF Job, Read
  <2>6. CASE work' = Failed
    BY <1>1, <2>6, FailedJob DEF Job, Read
  <2>7. CASE work' = done
    <3>1. Job(done) /\ Read(done)
      BY <1>1, <2>2, <2>4, NoMaps DEF Job, Read, Stages
    <3> QED BY <2>7, <3>1 DEF Job, Read
  <2> QED BY <2>1, <2>5, <2>6, <2>7
<1> QED BY <1>3, <1>4, <1>6 DEF RulesInv

\* The fields of a job.
LEMMA JobFields ==
    ASSUME NEW ruler, NEW spec, NEW stage, NEW todo, NEW failed, NEW files, NEW tenants, NEW job,
           job = [ruler |-> ruler, spec |-> spec, stage |-> stage, todo |-> todo,
                  failed |-> failed, files |-> files, tenants |-> tenants]
    PROVE  /\ job.ruler = ruler /\ job.spec = spec /\ job.stage = stage /\ job.todo = todo
           /\ job.failed = failed /\ job.files = files /\ job.tenants = tenants
OBVIOUS

\* With the gate open PrometheusRules are read, and with it shut there are no
\* more files (thanosruler_controller.go:217-232).
LEMMA ListKeeps == ASSUME RulesInv, ListPrometheusRules PROVE RulesInv'
<1> DEFINE found == IF gate THEN getPrometheusRuleConfigMaps(work.ruler, work.spec) ELSE {<<>>}
           list  == TheOne(found)
           new   == Writing(work, list, "promrule", "sts")
<1>1. /\ Job(work) /\ Read(work) /\ work # Idle /\ work.stage = "list" /\ work.todo = <<>>
  BY DEF RulesInv, ListPrometheusRules, In, Job
<1>2. /\ work' = IF found = {} THEN Failed ELSE new
      /\ UNCHANGED <<gate, specs, objs, sts, secret, queue, left>>
  BY DEF ListPrometheusRules
<1>3. Typed' /\ ToldOnce'
  <2>1. missed' = IF gate THEN [missed EXCEPT ![work.ruler] = {k \in @ : k[1] # "PrometheusRule"}]
                  ELSE missed
    BY DEF ListPrometheusRules
  <2>2. MissedKnown'
    BY <1>1, <2>1 DEF RulesInv, Typed, MissedKnown, Job
  <2> QED BY <1>2, <2>2 DEF RulesInv, Typed, ToldOnce, ObjectsKnown, Known
<1>4. Job(work') /\ Read(work')
  <2>1. CASE found = {}
    BY <1>1, <1>2, <2>1, FailedJob DEF Job, Read
  <2>2. CASE found # {} /\ gate
    <3>1. list \in MapsFrom("PrometheusRule", work.ruler, work.spec)
      BY <2>2 DEF MapsFrom, TheOne
    <3>2. work' = new /\ ObjectsKnown /\ "PrometheusRule" \in Kinds
      BY <1>2, <2>2 DEF RulesInv, Typed, Kinds
    <3> HIDE DEF list, found
    <3>3. Job(new) /\ Read(new)
      BY <1>1, <3>1, <3>2, WritingJob
    <3> HIDE DEF new
    <3> QED BY <3>2, <3>3 DEF Job, Read
  <2>3. CASE found # {} /\ ~ gate
    <3>1. list = <<>>
      BY <2>3 DEF TheOne
    <3>2. work' = new
      BY <1>2, <2>3
    <3>3. new = [work EXCEPT !.stage = "sts", !.todo = <<>>, !.files = work.files \cup {},
                             !.tenants = work.tenants \cup {}]
      <4>1. FilesOf(ToSet(<<>>)) = {} /\ TenantsOf(ToSet(<<>>)) = {}
        BY NoMaps DEF FilesOf, TenantsOf
      <4> HIDE DEF list, found
      <4> QED BY <3>1, <4>1, ListIsSet DEF Writing
    <3>4. work = [ruler |-> work.ruler, spec |-> work.spec, stage |-> work.stage, todo |-> work.todo,
                  failed |-> work.failed, files |-> work.files, tenants |-> work.tenants]
      BY <1>1 DEF Job
    <3> HIDE DEF new, found, list
    <3>5. new = [ruler |-> work.ruler, spec |-> work.spec, stage |-> "sts", todo |-> <<>>,
                 failed |-> work.failed, files |-> work.files, tenants |-> work.tenants]
      BY <3>3, <3>4
    <3>6. Job(new) /\ Read(new)
      BY <1>1, <3>5, NoMaps DEF Job, Read, Stages
    <3> QED BY <3>2, <3>6 DEF Job, Read
  <2> QED BY <2>1, <2>2, <2>3
<1> QED BY <1>3, <1>4 DEF RulesInv

\* What a job becomes that only moves on.
LEMMA MovedJob ==
    ASSUME Job(work), Read(work), work.todo = <<>>, NEW stage \in {"secret", "prune", "report"},
           NEW failed \in BOOLEAN, NEW new, new = [work EXCEPT !.stage = stage, !.failed = failed]
    PROVE  Job(new) /\ Read(new)
<1>1. work = [ruler |-> work.ruler, spec |-> work.spec, stage |-> work.stage, todo |-> work.todo,
              failed |-> work.failed, files |-> work.files, tenants |-> work.tenants]
  BY DEF Job
<1>2. new = [ruler |-> work.ruler, spec |-> work.spec, stage |-> stage, todo |-> <<>>,
             failed |-> failed, files |-> work.files, tenants |-> work.tenants]
  BY <1>1
<1> QED BY <1>2, NoMaps DEF Job, Read, Stages

\* The same for one that has not failed.
LEMMA MovedOn ==
    ASSUME Job(work), Read(work), work.todo = <<>>, NEW stage \in {"secret", "prune", "report"},
           NEW new, new = [work EXCEPT !.stage = stage]
    PROVE  Job(new) /\ Read(new)
<1>1. work = [ruler |-> work.ruler, spec |-> work.spec, stage |-> work.stage, todo |-> work.todo,
              failed |-> work.failed, files |-> work.files, tenants |-> work.tenants]
  BY DEF Job
<1>2. new = [ruler |-> work.ruler, spec |-> work.spec, stage |-> stage, todo |-> <<>>,
             failed |-> work.failed, files |-> work.files, tenants |-> work.tenants]
  BY <1>1
<1> QED BY <1>2, NoMaps DEF Job, Read, Stages

\* The StatefulSet is told the files of the job, each once
\* (thanosruler_controller.go:234-262).
LEMMA WriteStatefulSetKeeps == ASSUME RulesInv, WriteStatefulSet PROVE RulesInv'
<1>1. /\ Job(work) /\ Read(work) /\ work.stage = "sts" /\ work.todo = <<>> /\ Typed /\ ToldOnce
      /\ UNCHANGED <<gate, specs, objs, secret, queue, missed>>
  BY DEF RulesInv, WriteStatefulSet, In, Job
<1>2. PICK fails \in BOOLEAN :
        /\ MayFail(fails)
        /\ sts' = IF fails THEN sts ELSE [sts EXCEPT ![work.ruler] = work.files]
        /\ work' = [work EXCEPT !.stage = "secret", !.failed = fails]
  BY DEF WriteStatefulSet
<1>3. left' \in 0 .. MaxDisturbances
  BY <1>1, <1>2, LeftCounts
<1>4. sts' = [r \in DOMAIN Rulers |-> sts'[r]]
      /\ \A r \in DOMAIN Rulers : sts'[r] = sts[r] \/ sts'[r] = work.files
  BY <1>1, <1>2 DEF Typed
<1>5. Typed'
  BY <1>1, <1>3, <1>4 DEF Typed, ObjectsKnown, Known, MissedKnown
<1>6. ToldOnce'
  <2>1. OnceEach(work.files) /\ \A r \in DOMAIN Rulers : OnceEach(sts[r])
    BY <1>1 DEF Read, ToldOnce
  <2>2. \A r \in DOMAIN Rulers : OnceEach(sts'[r])
    BY <1>4, <2>1
  <2> QED BY <2>2 DEF ToldOnce
<1>7. Job(work') /\ Read(work')
  <2>1. PICK new : new = [work EXCEPT !.stage = "secret", !.failed = fails]
    OBVIOUS
  <2>2. Job(new) /\ Read(new)
    BY <1>1, <2>1, MovedJob
  <2>3. work' = new
    BY <1>2, <2>1
  <2> QED BY <2>2, <2>3 DEF Job, Read
<1> QED BY <1>5, <1>6, <1>7 DEF RulesInv

\* The Secret of the remote writes comes next (thanosruler_controller.go:264-279).
LEMMA WriteSecretKeeps == ASSUME RulesInv, WriteSecret PROVE RulesInv'
<1>1. /\ Job(work) /\ Read(work) /\ work.stage = "secret" /\ work.todo = <<>> /\ Typed /\ ToldOnce
      /\ UNCHANGED <<gate, specs, objs, sts, queue, missed>>
  BY DEF RulesInv, WriteSecret, In, Job
<1>2. PICK fails \in BOOLEAN :
        /\ MayFail(fails)
        /\ secret' = IF fails THEN secret ELSE [secret EXCEPT ![work.ruler] = work.tenants]
        /\ work' = IF work.failed \/ fails THEN Failed ELSE [work EXCEPT !.stage = "prune"]
  BY DEF WriteSecret
<1>3. left' \in 0 .. MaxDisturbances
  BY <1>1, <1>2, LeftCounts
<1>4. secret' = [r \in DOMAIN Rulers |-> secret'[r]]
  BY <1>1, <1>2 DEF Typed
<1>5. Typed' /\ ToldOnce'
  BY <1>1, <1>3, <1>4 DEF Typed, ObjectsKnown, Known, ToldOnce, MissedKnown
<1>6. Job(work') /\ Read(work')
  <2>1. PICK new : new = [work EXCEPT !.stage = "prune"]
    OBVIOUS
  <2>2. Job(new) /\ Read(new)
    BY <1>1, <2>1, MovedOn
  <2>3. work' = new \/ work' = Failed
    BY <1>2, <2>1
  <2> QED BY <1>1, <2>2, <2>3, FailedJob DEF Job, Read
<1> QED BY <1>5, <1>6 DEF RulesInv

\* Pruning only takes away (thanosruler_controller.go:1012-1033).
LEMMA CleanupKeeps == ASSUME RulesInv, Cleanup PROVE RulesInv'
<1>1. /\ Job(work) /\ Read(work) /\ work.stage = "prune" /\ work.todo = <<>> /\ Typed /\ ToldOnce
      /\ UNCHANGED <<gate, specs, sts, secret, missed>>
  BY DEF RulesInv, Cleanup, In, Job
<1> DEFINE orphans == pruneOrphanedDerivedConfigMaps(getNames(work.files))
<1>2. PICK stay \in {{}} \cup {{k} : k \in orphans} :
        /\ MayFail(stay # {})
        /\ Change(Without(orphans \ stay))
        /\ work' = IF stay = {} THEN [work EXCEPT !.stage = "report"] ELSE Failed
  BY DEF Cleanup
<1> HIDE DEF orphans
<1>3. Known(Without(orphans \ stay))
  BY <1>1, WithoutKnown DEF Typed
<1>4. left' \in 0 .. MaxDisturbances /\ MissedKnown'
  BY <1>1, <1>2, LeftCounts DEF Typed, MissedKnown
<1>5. Typed'
  BY <1>1, <1>2, <1>3, <1>4, ChangeTyped
<1>6. Job(work') /\ Read(work')
  <2>1. PICK new : new = [work EXCEPT !.stage = "report"]
    OBVIOUS
  <2>2. Job(new) /\ Read(new)
    BY <1>1, <2>1, MovedOn
  <2>3. work' = new \/ work' = Failed
    BY <1>2, <2>1
  <2> QED BY <1>1, <2>2, <2>3, FailedJob DEF Job, Read
<1> QED BY <1>1, <1>5, <1>6 DEF RulesInv, ToldOnce

-----------------------------------------------------------------------------
(* So does everybody else.                                                  *)

\* What everybody else does leaves the job alone, or ends it, and tells the
\* pods nothing.
LEMMA OthersKeep ==
    ASSUME RulesInv, Typed', sts' = sts, work' \in {work, Idle}
    PROVE  RulesInv'
BY DEF RulesInv, ToldOnce, Job, Read

\* An edit of a source or its removal.
LEMMA EditKeeps ==
    ASSUME RulesInv, NEW k \in SourceKeys, NEW new, Known(new), NEW form, Happens("edit"), Edited(k, new, form)
    PROVE  RulesInv'
<1>1. /\ Change(new) /\ UNCHANGED <<gate, specs, sts, secret, work>>
      /\ missed' = IF Ignored(At(k), form) THEN [r \in DOMAIN Rulers |-> missed[r] \cup {k}] ELSE missed
  BY DEF Edited
<1>2. Typed /\ left' \in 0 .. MaxDisturbances /\ MissedKnown'
  BY <1>1, LeftCounts DEF RulesInv, Typed, MissedKnown
<1>3. Typed'
  BY <1>1, <1>2, ChangeTyped
<1> QED BY <1>1, <1>3, OthersKeep

\* A derived ConfigMap that is lost.
LEMMA LossKeeps == ASSUME RulesInv, NEW k \in DOMAIN objs, LoseConfigMap(k) PROVE RulesInv'
<1>1. /\ objs[k].owner # NoOwner /\ Happens("loss")
      /\ UNCHANGED <<gate, specs, sts, secret, work, missed>>
      /\ \/ Change(Without({k}))
         \/ Change([objs EXCEPT ![k].body.data = {}])
  BY DEF LoseConfigMap
<1>2. Typed /\ left' \in 0 .. MaxDisturbances /\ MissedKnown'
  BY <1>1, LeftCounts DEF RulesInv, Typed, MissedKnown
<1>3. Known(Without({k})) /\ Known([objs EXCEPT ![k].body.data = {}])
  BY <1>1, <1>2, WithoutKnown, EmptiedKnown DEF Typed
<1>4. Typed'
  BY <1>1, <1>2, <1>3, ChangeTyped
<1> QED BY <1>1, <1>4, OthersKeep

-----------------------------------------------------------------------------
\* Every step of the worker and of everybody else.
LEMMA RulesStep == RulesInv /\ [Next]_vars => RulesInv'
<1> SUFFICES ASSUME RulesInv, [Next]_vars PROVE RulesInv'
  OBVIOUS
<1>1. CASE Worker
  <2>1. CASE Report
    <3>1. /\ UNCHANGED <<gate, specs, objs, sts, secret, missed, left>> /\ work' = Idle
          /\ queue' = queue \cup (IF work.failed THEN {work.ruler} ELSE {}) /\ work.ruler \in DOMAIN Rulers
      BY <2>1 DEF Report, In, RulesInv, Job
    <3>2. Typed'
      BY <3>1 DEF RulesInv, Typed, ObjectsKnown, Known, MissedKnown
    <3> QED BY <3>1, <3>2, OthersKeep
  <2> QED BY <1>1, <2>1, ReconcileKeeps, WriteConfigMapKeeps, ListKeeps, WriteStatefulSetKeeps,
             WriteSecretKeeps, CleanupKeeps DEF Worker
<1>2. ASSUME NEW o \in Sources, EditSource(o) PROVE RulesInv'
  <2>1. Known(With(o)) /\ Key(o) \in SourceKeys
    BY WithKnown, SourceParts DEF RulesInv, Typed
  <2> QED BY <1>2, <2>1, EditKeeps DEF EditSource
<1>3. ASSUME NEW k \in SourceKeys, RemoveSource(k) PROVE RulesInv'
  <2>1. Known(Without({k}))
    BY WithoutKnown DEF RulesInv, Typed
  <2> QED BY <1>3, <2>1, EditKeeps DEF RemoveSource
<1>4. ASSUME NEW r \in DOMAIN Rulers, EditRuler(r) PROVE RulesInv'
  <2>1. PICK spec \in Rulers[r] : specs' = [specs EXCEPT ![r] = spec]
    BY <1>4 DEF EditRuler
  <2>2. /\ queue' = queue \cup {r} /\ left' \in 0 .. MaxDisturbances
        /\ UNCHANGED <<gate, objs, sts, secret, work, missed>>
    BY <1>4, LeftCounts DEF EditRuler, RulesInv
  <2>3. Typed'
    BY <2>1, <2>2 DEF RulesInv, Typed, ObjectsKnown, Known, MissedKnown
  <2> QED BY <2>2, <2>3, OthersKeep
<1>5. ASSUME NEW k \in DOMAIN objs, LoseConfigMap(k) PROVE RulesInv'
  BY <1>5, LossKeeps
<1>6. CASE Restart
  <2>1. /\ gate' \in RuleGates /\ queue' = DOMAIN Rulers /\ work' = Idle
        /\ UNCHANGED <<specs, objs, sts, secret, missed>> /\ left' \in 0 .. MaxDisturbances
    BY <1>6, LeftCounts DEF Restart, RulesInv
  <2>2. Typed'
    BY <2>1 DEF RulesInv, Typed, ObjectsKnown, Known, MissedKnown
  <2> QED BY <2>1, <2>2, OthersKeep
<1>7. CASE UNCHANGED vars
  <2>1. Typed' /\ sts' = sts /\ work' = work
    BY <1>7 DEF vars, RulesInv, Typed, ObjectsKnown, Known, MissedKnown
  <2> QED BY <2>1, OthersKeep
<1> QED BY <1>1, <1>2, <1>3, <1>4, <1>5, <1>6, <1>7 DEF Next

\* The invariant of the types and of the files, which are told once.
LEMMA AlwaysRules == Spec => []RulesInv
BY RulesInit, RulesStep, PTL DEF Spec

\* Whatever the rulers, their sources and the limit on the size of a ConfigMap,
\* every object is a source or a derived ConfigMap that has an owner and is not
\* too large (builder.go:632-674).
THEOREM RulesTypeCorrect == Spec => []RulesTypeOK
<1>1. RulesInv => RulesTypeOK
  <2> SUFFICES ASSUME RulesInv PROVE RulesTypeOK
    OBVIOUS
  <2>1. ASSUME NEW k \in DOMAIN objs
        PROVE  /\ Key(objs[k]) = k
               /\ k \notin SourceKeys => /\ objs[k].owner \in DOMAIN Rulers
                                        /\ R!bucketSize(objs[k].body.data) <= maxConfigMapDataSize
    <3>1. Key(objs[k]) = k /\ (objs[k] \in Sources \/ IsDerivedMap(objs[k]))
      BY DEF RulesInv, Typed, ObjectsKnown, Known, MissedKnown
    <3>2. objs[k] \in Sources => k \in SourceKeys
      BY <3>1, SourceParts
    <3>3. IsDerivedMap(objs[k]) => /\ objs[k].owner \in DOMAIN Rulers
                                   /\ R!bucketSize(objs[k].body.data) <= maxConfigMapDataSize
      BY DerivedParts DEF IsDerivedMap
    <3> QED BY <3>1, <3>2, <3>3
  <2>2. work # Idle => work.stage \in {"user", "list", "promrule", "sts", "secret", "prune", "report"}
    BY DEF RulesInv, Job, Stages
  <2> QED BY <2>1, <2>2 DEF RulesTypeOK, RulesInv, Typed, MissedKnown
<1> QED BY <1>1, AlwaysRules, PTL

\* At no time do the pods of a ruler load one rule file from two ConfigMaps:
\* the StatefulSet is never told a file twice, because each bucketing divides the
\* files and the two kinds of sources have no file in common (builder.go:632-674,
\* thanosruler_controller.go:212-262).
THEOREM EachFileOnce == Spec => []LoadsOnce
<1>1. RulesInv => LoadsOnce
  <2> SUFFICES ASSUME RulesInv, NEW r \in DOMAIN Rulers, NEW f \in Present(r), NEW g \in Present(r),
                      f[2] = g[2], f # g
               PROVE  FALSE
    BY DEF LoadsOnce
  <2>1. f \in sts[r] /\ g \in sts[r]
    BY DEF Present
  <2> QED BY <2>1 DEF RulesInv, ToldOnce, OnceEach
<1> QED BY <1>1, AlwaysRules, PTL

-----------------------------------------------------------------------------
(* One ruler: what is pruned.                                               *)

Fields == {"ruler", "spec", "stage", "todo", "failed", "files", "tenants"}
IsJob(job) == Fields \subseteq DOMAIN job /\ job.ruler \in DOMAIN Rulers

\* Past its write, the StatefulSet is as the job says.
Ordered(job) ==
    /\ job.stage = "secret" /\ ~job.failed => sts[job.ruler] = job.files
    /\ job.stage = "prune" => sts[job.ruler] = job.files

\* What the pods were told and what the worker has read, as far as pruning
\* depends on it.
PruneInv ==
    /\ sts = [r \in DOMAIN Rulers |-> sts[r]]
    /\ work # Idle => IsJob(work) /\ Ordered(work)

-----------------------------------------------------------------------------
\* What is left to write is recorded in the job and leads to another stage of
\* the same job (thanosruler_controller.go:212-251).
LEMMA WritingIsJob ==
    ASSUME NEW job, IsJob(job), NEW configMaps, NEW stage, NEW next,
           stage \in {"user", "promrule"}, next \in {"list", "sts"}
    PROVE  /\ IsJob(Writing(job, configMaps, stage, next))
           /\ Writing(job, configMaps, stage, next).stage \in {"user", "promrule", "list", "sts"}
BY DEF Writing, IsJob, Fields

\* So does a failure, which ends it.
LEMMA FailedIsJob == ASSUME IsJob(work) PROVE IsJob(Failed) /\ Failed.stage = "report"
BY DEF Failed, IsJob, Fields

-----------------------------------------------------------------------------
\* The pods are told nothing and the worker is idle.
LEMMA PruneInit == Init => PruneInv
BY DEF Init, PruneInv

\* A job before its write of the StatefulSet, or at its end, is in order
\* whatever the StatefulSet.
LEMMA EarlyIsOrdered ==
    ASSUME NEW job, job.stage \in {"user", "promrule", "list", "sts", "report"}
    PROVE  Ordered(job)
BY DEF Ordered

\* A reconcile begins with a job for a queued ruler (thanosruler_controller.go:182).
LEMMA ReconcileStep == ASSUME PruneInv, NEW r \in DOMAIN Rulers, Reconcile(r) PROVE PruneInv'
<1> DEFINE job   == [ruler |-> r, spec |-> specs[r], stage |-> "user", todo |-> <<>>,
                     failed |-> FALSE, files |-> {}, tenants |-> {}]
           found == getRuleConfigMaps(r, specs[r])
<1>1. IsJob(job)
  BY DEF IsJob, Fields
<1>2. /\ sts' = sts
      /\ work' = IF found = {} THEN [job EXCEPT !.stage = "report", !.failed = TRUE]
                 ELSE Writing(job, TheOne(found), "user", "list")
  BY DEF Reconcile
<1> HIDE DEF job, found
<1>3. IsJob(work') /\ work'.stage \in {"user", "promrule", "list", "sts", "report"}
  <2>1. CASE found = {}
    BY <1>1, <1>2, <2>1 DEF IsJob, Fields
  <2>2. CASE found # {}
    BY <1>1, <1>2, <2>2, WritingIsJob
  <2> QED BY <2>1, <2>2
<1> QED BY <1>2, <1>3 DEF PruneInv, Ordered, IsJob

\* Writes of ConfigMaps go on to the next, or to the next stage, or end
\* (thanosruler_controller.go:924-985).
LEMMA WriteConfigMapStep == ASSUME PruneInv, WriteConfigMap PROVE PruneInv'
<1>1. IsJob(work) /\ sts' = sts /\ work.stage \in {"user", "promrule"}
  BY DEF PruneInv, WriteConfigMap, In
<1>2. IsJob(work') /\ work'.stage \in {"user", "promrule", "list", "sts", "report"}
  <2>1. PICK failed \in BOOLEAN, next \in {"list", "sts"} :
          \/ work' = [work EXCEPT !.todo = Tail(@), !.failed = failed]
          \/ work' = Failed
          \/ work' = [work EXCEPT !.todo = <<>>, !.stage = next]
    <3>1. PICK fails \in BOOLEAN :
            work' = LET failed == work.failed \/ fails
                        next   == IF work.stage = "user" THEN "list" ELSE "sts"
                    IN IF Len(work.todo) > 1
                       THEN [work EXCEPT !.todo = Tail(@), !.failed = failed]
                       ELSE IF failed THEN Failed ELSE [work EXCEPT !.todo = <<>>, !.stage = next]
      BY DEF WriteConfigMap
    <3> DEFINE failed == work.failed \/ fails
               next   == IF work.stage = "user" THEN "list" ELSE "sts"
    <3>2. failed \in BOOLEAN /\ next \in {"list", "sts"}
      OBVIOUS
    <3> QED BY <3>1, <3>2
  <2> QED BY <1>1, <2>1, FailedIsJob DEF IsJob, Fields
<1> QED BY <1>1, <1>2 DEF PruneInv, Ordered, IsJob

\* With the gate open, PrometheusRules are listed (thanosruler_controller.go:220).
LEMMA ListStep == ASSUME PruneInv, ListPrometheusRules PROVE PruneInv'
<1> DEFINE found == IF gate THEN getPrometheusRuleConfigMaps(work.ruler, work.spec) ELSE {<<>>}
<1>1. /\ IsJob(work) /\ sts' = sts
      /\ work' = IF found = {} THEN Failed ELSE Writing(work, TheOne(found), "promrule", "sts")
  BY DEF PruneInv, ListPrometheusRules, In
<1> HIDE DEF found
<1>2. IsJob(work') /\ work'.stage \in {"user", "promrule", "list", "sts", "report"}
  BY <1>1, FailedIsJob, WritingIsJob
<1> QED BY <1>1, <1>2 DEF PruneInv, Ordered, IsJob

\* The StatefulSet is told the files of the job, or the job has failed.
LEMMA WriteStatefulSetStep == ASSUME PruneInv, WriteStatefulSet PROVE PruneInv'
<1>1. IsJob(work) /\ sts = [r \in DOMAIN Rulers |-> sts[r]]
  BY DEF PruneInv, WriteStatefulSet, In
<1>2. PICK fails \in BOOLEAN :
        /\ sts' = IF fails THEN sts ELSE [sts EXCEPT ![work.ruler] = work.files]
        /\ work' = [work EXCEPT !.stage = "secret", !.failed = fails]
  BY DEF WriteStatefulSet
<1>3. /\ IsJob(work') /\ work'.stage = "secret" /\ work'.failed = fails
      /\ work'.ruler = work.ruler /\ work'.files = work.files
  BY <1>1, <1>2 DEF IsJob, Fields
<1>4. /\ sts' = [r \in DOMAIN Rulers |-> sts'[r]]
      /\ ~fails => sts'[work.ruler] = work.files
  BY <1>1, <1>2 DEF IsJob
<1> QED BY <1>3, <1>4 DEF PruneInv, Ordered, IsJob

\* Only a job that has not failed goes on to prune (thanosruler_controller.go:189-202).
LEMMA WriteSecretStep == ASSUME PruneInv, WriteSecret PROVE PruneInv'
<1>1. IsJob(work) /\ Ordered(work) /\ sts' = sts /\ work.stage = "secret"
  BY DEF PruneInv, WriteSecret, In
<1>2. work' = Failed \/ (~work.failed /\ work' = [work EXCEPT !.stage = "prune"])
  BY DEF WriteSecret
<1>3. CASE work' = Failed
  BY <1>1, <1>3, FailedIsJob DEF PruneInv, Ordered, IsJob
<1>4. CASE ~work.failed /\ work' = [work EXCEPT !.stage = "prune"]
  <2>1. /\ IsJob(work') /\ work'.stage = "prune"
        /\ work'.ruler = work.ruler /\ work'.files = work.files
    BY <1>1, <1>4 DEF IsJob, Fields
  <2>2. sts[work.ruler] = work.files
    BY <1>1, <1>4 DEF Ordered
  <2> QED BY <1>1, <2>1, <2>2 DEF PruneInv, Ordered, IsJob
<1> QED BY <1>2, <1>3, <1>4

\* Pruning ends the job.
LEMMA CleanupStep == ASSUME PruneInv, Cleanup PROVE PruneInv'
<1>1. IsJob(work) /\ sts' = sts
  BY DEF PruneInv, Cleanup, In
<1>2. work' = Failed \/ work' = [work EXCEPT !.stage = "report"]
  BY DEF Cleanup
<1>3. IsJob(work') /\ work'.stage = "report"
  BY <1>1, <1>2, FailedIsJob DEF IsJob, Fields
<1> QED BY <1>1, <1>3 DEF PruneInv, Ordered, IsJob

\* Whatever else happens writes no StatefulSet, and ends the job or leaves it.
LEMMA OtherStep ==
    ASSUME PruneInv, sts' = sts, work' \in {work, Idle}
    PROVE  PruneInv'
BY DEF PruneInv, Ordered, IsJob

\* Every step keeps what the pods were told and what the job says in order.
LEMMA PruneStep == PruneInv /\ [Next]_vars => PruneInv'
<1> SUFFICES ASSUME PruneInv, [Next]_vars PROVE PruneInv'
  OBVIOUS
<1>1. CASE Worker
  <2>1. CASE Report
    BY <2>1, OtherStep DEF Report
  <2> QED BY <1>1, <2>1, ReconcileStep, WriteConfigMapStep, ListStep, WriteStatefulSetStep,
             WriteSecretStep, CleanupStep DEF Worker
<1>2. ASSUME NEW o \in Sources, EditSource(o) PROVE PruneInv'
  BY <1>2, OtherStep DEF EditSource, Edited
<1>3. ASSUME NEW k \in SourceKeys, RemoveSource(k) PROVE PruneInv'
  BY <1>3, OtherStep DEF RemoveSource, Edited
<1>4. ASSUME NEW r \in DOMAIN Rulers, EditRuler(r) PROVE PruneInv'
  BY <1>4, OtherStep DEF EditRuler
<1>5. ASSUME NEW k \in DOMAIN objs, LoseConfigMap(k) PROVE PruneInv'
  BY <1>5, OtherStep DEF LoseConfigMap
<1>6. CASE Restart
  BY <1>6, OtherStep DEF Restart
<1>7. CASE UNCHANGED vars
  BY <1>7, OtherStep DEF vars
<1> QED BY <1>1, <1>2, <1>3, <1>4, <1>5, <1>6, <1>7 DEF Next

-----------------------------------------------------------------------------
OneRuler == \E r : DOMAIN Rulers = {r}

\* The property as an action.
PrunesNoneInUse ==
    In("prune") => \A k \in DOMAIN objs \ DOMAIN objs' :
                      work' # work => \A r \in DOMAIN Rulers : k[2] \notin getNames(sts[r])

\* A step that moves a job on from pruning and deletes a ConfigMap is the
\* pruning itself: an edit leaves the job alone, a restart the ConfigMaps.
LEMMA PruningIsCleanup ==
    ASSUME In("prune"), [Next]_vars, work' # work, NEW k \in DOMAIN objs \ DOMAIN objs'
    PROVE  Cleanup
BY DEF Next, vars, Worker, In, Reconcile, WriteConfigMap, ListPrometheusRules, WriteStatefulSet,
       WriteSecret, Report, EditSource, RemoveSource, Edited, EditRuler, LoseConfigMap, Restart

\* Pruning deletes what the job does not expect (thanosruler_controller.go:1013-1033).
LEMMA CleanupDeletes ==
    ASSUME Cleanup, NEW k \in DOMAIN objs \ DOMAIN objs'
    PROVE  k[2] \notin getNames(work.files)
<1> DEFINE orphans == pruneOrphanedDerivedConfigMaps(getNames(work.files))
<1>1. PICK stay : objs' = Without(orphans \ stay)
  BY DEF Cleanup, Change
<1>2. k \in orphans
  <2> HIDE DEF orphans
  <2> QED BY <1>1 DEF Without
<1> QED BY <1>2 DEF pruneOrphanedDerivedConfigMaps

\* With one ruler, what a job expects is what the pods are told.
LEMMA PruneAction ==
    ASSUME OneRuler, PruneInv, [Next]_vars
    PROVE  PrunesNoneInUse
<1> SUFFICES ASSUME In("prune"), work' # work, NEW k \in DOMAIN objs \ DOMAIN objs',
                    NEW r \in DOMAIN Rulers
             PROVE  k[2] \notin getNames(sts[r])
  BY DEF PrunesNoneInUse
<1>1. k[2] \notin getNames(work.files)
  BY PruningIsCleanup, CleanupDeletes
<1>2. sts[work.ruler] = work.files /\ work.ruler = r
  BY DEF OneRuler, PruneInv, IsJob, Ordered, In
<1> QED BY <1>1, <1>2

\* In a namespace with one ruler, whatever its sources, the limit on the size
\* of a ConfigMap and the failures, the pruning deletes no ConfigMap that the
\* pods are told to load rules from (thanosruler_controller.go:1012-1033).
THEOREM OneRulerPrunesOnlyOrphans == ASSUME OneRuler PROVE Spec => PrunesOnlyOrphans
<1>1. PruneInv /\ [Next]_vars => PrunesNoneInUse
  BY PruneAction
<1>2. PruneInv /\ [Next]_vars => PruneInv'
  BY PruneStep
<1> QED BY <1>1, <1>2, PruneInit, PTL DEF Spec, PrunesOnlyOrphans, PrunesNoneInUse

-----------------------------------------------------------------------------
(* Settled rulers and jobs that settle them.                                *)

\* A ruler's selector does not give the label of rule files another value.
SelectorsAgree ==
    \A r \in DOMAIN Rulers : \A spec \in Rulers[r] :
        spec.ruleConfigSelector.kind = "labels" =>
            LET match == spec.ruleConfigSelector.match
            IN  "prometheus-rule" \in DOMAIN match => match["prometheus-rule"] = Value("true")

\* Whether a spec selects an object.
Wants(obj, spec) == \E s \in Selectors(spec, DefaultRuleLabels) : HasRequiredLabels(obj.labels, s)

\* What it selects of some objects, as files that are bound to tenants.
SourcesIn(os, kind, spec) ==
    {os[k] : k \in {x \in DOMAIN os : x[1] = kind /\ ~ IsDerived(os[x]) /\ Wants(os[x], spec)}}
Files(source, spec) ==
    {[key |-> FileName(source, d), rules |-> d.rules, tenant |-> Tenant(source, spec)] :
        d \in source.body.data}
WantedIn(os, kind, spec) ==
    UNION {Files(s, spec) : s \in {x \in SourcesIn(os, kind, spec) : Usable(x)}}
Chosen(os, open, spec, all) ==
    WantedIn(os, "ConfigMap", spec)
    \cup (IF open /\ all THEN WantedIn(os, "PrometheusRule", spec) ELSE {})

\* All but the files of sources whose last change no watch let through.
NamesMissed(keys) ==
    UNION {{FileName(o, d) : d \in o.body.data} : o \in {s \in Sources : Key(s) \in keys}}
Noticed(entries, keys) == {e \in entries : e.key \notin NamesMissed(keys)}
Entries(maps) == {Entry(d) : d \in DataOf(maps)}

\* ConfigMaps that are there, and were made for a ruler.
Owned(os, r)    == {k \in DOMAIN os : os[k].owner = r}
There(os, maps) == \A c \in maps : Key(c) \in DOMAIN os /\ os[Key(c)] = c
Made(r, maps)   == \A c \in maps : IsDerivedMap(c) /\ c.owner = r
MapKeys(files)  == {<<"ConfigMap", n>> : n \in getNames(files)}

\* The pods of a ruler load what it selects.
SettledIn(r, os, open, spec, keys, told, written) ==
    \E maps :
        /\ Made(r, maps) /\ There(os, maps)
        /\ told = FilesOf(maps) /\ written = TenantsOf(maps)
        /\ Owned(os, r) = MapKeys(told)
        /\ Noticed(Entries(maps), keys) = Noticed(Chosen(os, open, spec, TRUE), keys)

\* A job is about to make them do so.
PendingIn(job, os, open, spec, keys, told, written) ==
    /\ job.spec = spec
    /\ \E maps :
        /\ Made(job.ruler, maps) /\ ToSet(job.todo) \subseteq maps
        /\ There(os, maps \ ToSet(job.todo))
        /\ job.files = FilesOf(maps) /\ job.tenants = TenantsOf(maps)
        /\ Noticed(Entries(maps), keys) =
             Noticed(Chosen(os, open, spec, job.stage \notin {"user", "list"}), keys)
    /\ job.stage \in {"secret", "prune", "report"} => told = job.files
    /\ job.stage \in {"prune", "report"} => written = job.tenants
    /\ job.stage = "report" => Owned(os, job.ruler) = MapKeys(told)

Settled(r) == SettledIn(r, objs, gate, specs[r], missed[r], sts[r], secret[r])
Pending(r) == PendingIn(work, objs, gate, specs[r], missed[r], sts[r], secret[r])

\* A ruler that nobody woke has pods that load what it selects, or a job that
\* is about to make them do so, or will be woken as the job has failed.
RestInv ==
    /\ \A r \in DOMAIN Rulers \ queue :
          /\ work = Idle \/ work.ruler # r => Settled(r)
          /\ work # Idle /\ work.ruler = r /\ ~ work.failed => Pending(r)
    /\ work # Idle /\ work.stage \in {"list", "sts", "prune"} => ~ work.failed

-----------------------------------------------------------------------------
\* What RulerRules says of the objects there are, for any objects.
LEMMA WantedNow ==
    ASSUME NEW kind, NEW spec PROVE Wanted(kind, spec) = WantedIn(objs, kind, spec)
BY DEF Wanted, WantedIn, RuleSources, SourcesIn, Wants, Files

\* What is derived is no source.
LEMMA SameWanted ==
    ASSUME NEW os, NEW new,
           \A k \in DOMAIN os : ~ IsDerived(os[k]) => k \in DOMAIN new /\ new[k] = os[k],
           \A k \in DOMAIN new : ~ IsDerived(new[k]) => k \in DOMAIN os /\ new[k] = os[k]
    PROVE  /\ \A kind, spec : WantedIn(new, kind, spec) = WantedIn(os, kind, spec)
           /\ \A open, spec, all : Chosen(new, open, spec, all) = Chosen(os, open, spec, all)
<1>1. ASSUME NEW kind, NEW spec PROVE SourcesIn(new, kind, spec) = SourcesIn(os, kind, spec)
  BY DEF SourcesIn
<1>2. \A kind, spec : WantedIn(new, kind, spec) = WantedIn(os, kind, spec)
  BY <1>1 DEF WantedIn
<1> QED BY <1>2 DEF Chosen

\* Whoever changes an object of a ruler wakes the ruler, which owns it
\* (thanosruler_controller.go:664-697).
LEMMA OwnedQuiet ==
    ASSUME NEW new, Change(new), NEW r, r # NoOwner, r \notin queue'
    PROVE  /\ r \notin queue
           /\ \A k \in DOMAIN objs : objs[k].owner = r => k \in DOMAIN new /\ new[k] = objs[k]
           /\ \A k \in DOMAIN new : new[k].owner = r => k \in DOMAIN objs /\ new[k] = objs[k]
<1> DEFINE next(k) == IF k \in DOMAIN new THEN {new[k]} ELSE {}
<1>1. r \notin queue /\ r \notin WokenBy(new)
  BY DEF Change
<1>2. ASSUME NEW k \in DOMAIN objs \cup DOMAIN new, At(k) # next(k)
      PROVE  \A o \in At(k) \cup next(k) : o.owner # r
  <2>1. r \notin Woken(At(k), next(k))
    BY <1>1, <1>2 DEF WokenBy
  <2> HIDE DEF next
  <2> QED BY <2>1 DEF Woken, enqueueForOwner
<1>3. ASSUME NEW k \in DOMAIN objs, objs[k].owner = r PROVE k \in DOMAIN new /\ new[k] = objs[k]
  <2>1. At(k) = {objs[k]}
    BY DEF At
  <2>2. next(k) = {objs[k]}
    <3> HIDE DEF next
    <3> QED BY <1>2, <1>3, <2>1
  <2> QED BY <2>2
<1>4. ASSUME NEW k \in DOMAIN new, new[k].owner = r PROVE k \in DOMAIN objs /\ new[k] = objs[k]
  <2>1. next(k) = {new[k]}
    OBVIOUS
  <2>2. At(k) = {new[k]}
    <3> HIDE DEF next
    <3> QED BY <1>2, <1>4, <2>1
  <2> QED BY <2>2 DEF At
<1> QED BY <1>1, <1>3, <1>4

\* So what was made for it stays.
LEMMA OwnedStays ==
    ASSUME NEW new, Change(new), NEW r \in DOMAIN Rulers, r \notin queue'
    PROVE  /\ r \notin queue /\ Owned(new, r) = Owned(objs, r)
           /\ \A maps : Made(r, maps) /\ There(objs, maps) => There(new, maps)
<1>1. r # NoOwner
  BY RulersAssumption
<1>2. /\ r \notin queue
      /\ \A k \in DOMAIN objs : objs[k].owner = r => k \in DOMAIN new /\ new[k] = objs[k]
      /\ \A k \in DOMAIN new : new[k].owner = r => k \in DOMAIN objs /\ new[k] = objs[k]
  BY <1>1, OwnedQuiet
<1>3. Owned(new, r) = Owned(objs, r)
  BY <1>2 DEF Owned
<1>4. ASSUME NEW maps, Made(r, maps), There(objs, maps) PROVE There(new, maps)
  <2>1. ASSUME NEW c \in maps PROVE Key(c) \in DOMAIN new /\ new[Key(c)] = c
    <3>1. Key(c) \in DOMAIN objs /\ objs[Key(c)] = c /\ c.owner = r
      BY <1>4 DEF Made, There
    <3> QED BY <1>2, <3>1
  <2> QED BY <2>1 DEF There
<1> QED BY <1>2, <1>3, <1>4

\* What is noticed less is noticed as much on both sides.
LEMMA NoticedLess ==
    ASSUME NEW E, NEW F, NEW keys, NEW more, keys \subseteq more, Noticed(E, keys) = Noticed(F, keys)
    PROVE  Noticed(E, more) = Noticed(F, more)
<1>1. NamesMissed(keys) \subseteq NamesMissed(more)
  BY DEF NamesMissed
<1>2. \A e : e.key \notin NamesMissed(more) => (e \in E <=> e \in F)
  BY <1>1 DEF Noticed
<1> QED BY <1>2 DEF Noticed

\* A ruler that was settled and is not woken stays so, if what it selects is
\* the same or goes unnoticed.
LEMMA StaysSettled ==
    ASSUME NEW new, Change(new), NEW r \in DOMAIN Rulers, r \notin queue', Settled(r),
           NEW spec, spec = specs[r], NEW more, missed[r] \subseteq more,
           Noticed(Chosen(new, gate, spec, TRUE), more) = Noticed(Chosen(objs, gate, spec, TRUE), more)
    PROVE  SettledIn(r, new, gate, spec, more, sts[r], secret[r])
<1>1. PICK maps :
        /\ Made(r, maps) /\ There(objs, maps)
        /\ sts[r] = FilesOf(maps) /\ secret[r] = TenantsOf(maps)
        /\ Owned(objs, r) = MapKeys(sts[r])
        /\ Noticed(Entries(maps), missed[r]) = Noticed(Chosen(objs, gate, specs[r], TRUE), missed[r])
  BY DEF Settled, SettledIn
<1>2. Owned(new, r) = Owned(objs, r) /\ There(new, maps)
  BY <1>1, OwnedStays
<1>3. Noticed(Entries(maps), more) = Noticed(Chosen(new, gate, spec, TRUE), more)
  <2>1. PICK now, then : now = Chosen(new, gate, spec, TRUE) /\ then = Chosen(objs, gate, spec, TRUE)
    OBVIOUS
  <2>2. /\ Noticed(Entries(maps), missed[r]) = Noticed(then, missed[r])
        /\ Noticed(now, more) = Noticed(then, more)
    BY <1>1, <2>1
  <2>3. Noticed(Entries(maps), more) = Noticed(then, more)
    BY <2>2, NoticedLess
  <2> QED BY <2>1, <2>2, <2>3
<1> QED BY <1>1, <1>2, <1>3 DEF SettledIn

\* And so does a job.
LEMMA StaysPending ==
    ASSUME RulesInv, NEW new, Change(new), NEW r \in DOMAIN Rulers, r \notin queue',
           work.ruler = r, Pending(r),
           NEW spec, spec = specs[r], NEW more, missed[r] \subseteq more,
           \A all \in BOOLEAN :
              Noticed(Chosen(new, gate, spec, all), more) = Noticed(Chosen(objs, gate, spec, all), more)
    PROVE  PendingIn(work, new, gate, spec, more, sts[r], secret[r])
<1> DEFINE all == work.stage \notin {"user", "list"}
<1>1. PICK maps :
        /\ Made(r, maps) /\ ToSet(work.todo) \subseteq maps
        /\ There(objs, maps \ ToSet(work.todo))
        /\ work.files = FilesOf(maps) /\ work.tenants = TenantsOf(maps)
        /\ Noticed(Entries(maps), missed[r]) = Noticed(Chosen(objs, gate, specs[r], all), missed[r])
  BY DEF Pending, PendingIn
<1>2. /\ work.spec = specs[r]
      /\ work.stage \in {"secret", "prune", "report"} => sts[r] = work.files
      /\ work.stage \in {"prune", "report"} => secret[r] = work.tenants
      /\ work.stage = "report" => Owned(objs, r) = MapKeys(sts[r])
  BY DEF Pending, PendingIn
<1>3. Owned(new, r) = Owned(objs, r) /\ There(new, maps \ ToSet(work.todo))
  <2>1. Made(r, maps \ ToSet(work.todo))
    BY <1>1 DEF Made
  <2> QED BY <1>1, <2>1, OwnedStays
<1>4. Noticed(Entries(maps), more) = Noticed(Chosen(new, gate, spec, all), more)
  <2>1. all \in BOOLEAN
    OBVIOUS
  <2> HIDE DEF all
  <2>2. Noticed(Entries(maps), more) = Noticed(Chosen(objs, gate, spec, all), more)
    BY <1>1, NoticedLess
  <2> QED BY <2>1, <2>2
<1> QED BY <1>1, <1>2, <1>3, <1>4 DEF PendingIn

-----------------------------------------------------------------------------
\* A selector selects only what has the label of rule files, and the watch of
\* PrometheusRules, which does not ask for that label, selects no less if
\* SelectorsAgree (labels.go:80-89, thanosruler_controller.go:811-842).
LEMMA SelectorsOf ==
    ASSUME NEW spec, NEW o,
           spec.ruleConfigSelector.kind \in {"labels", "expressions"},
           spec.ruleConfigSelector.kind = "labels" =>
            LET match == spec.ruleConfigSelector.match
            IN  "prometheus-rule" \in DOMAIN match => match["prometheus-rule"] = Value("true"),
           Wants(o, spec)
    PROVE  /\ HasRequiredLabels(o.labels, DefaultRuleLabels)
           /\ \E s \in Selectors(spec, DefaultRuleLabels) : HasRequiredLabels(o.labels, s)
           /\ \E s \in Selectors(spec, NoLabels) : HasRequiredLabels(o.labels, s)
<1> DEFINE match == spec.ruleConfigSelector.match
<1>1. /\ spec.ruleConfigSelector.kind = "labels"
      /\ HasRequiredLabels(o.labels, MergeMaps(match, DefaultRuleLabels))
  <2>1. DOMAIN DefaultRuleLabels # {}
    BY DEF DefaultRuleLabels, Label
  <2>2. spec.ruleConfigSelector.kind = "expressions" => Selectors(spec, DefaultRuleLabels) = {}
    BY <2>1 DEF Selectors, BuildLabelSelectorFrom
  <2>3. spec.ruleConfigSelector.kind = "labels" =>
           Selectors(spec, DefaultRuleLabels) = {MergeMaps(match, DefaultRuleLabels)}
    BY DEF Selectors, BuildLabelSelectorFrom
  <2> QED BY <2>2, <2>3 DEF Wants
<1>2. "prometheus-rule" \in DOMAIN match => match["prometheus-rule"] = Value("true")
  BY <1>1
<1>3. Selectors(spec, NoLabels) = {MergeMaps(match, NoLabels)}
  BY <1>1 DEF Selectors, BuildLabelSelectorFrom
<1> HIDE DEF match
<1>4. HasRequiredLabels(o.labels, DefaultRuleLabels)
  BY <1>1 DEF HasRequiredLabels, MergeMaps, DefaultRuleLabels, Label
<1>5. ASSUME NEW k \in DOMAIN match PROVE k \in DOMAIN o.labels /\ o.labels[k] = match[k]
  <2>1. CASE k = "prometheus-rule"
    BY <1>2, <1>4, <2>1 DEF HasRequiredLabels, DefaultRuleLabels, Label
  <2>2. CASE k # "prometheus-rule"
    <3>1. k \notin DOMAIN DefaultRuleLabels
      BY <2>2 DEF DefaultRuleLabels, Label
    <3> QED BY <1>1, <3>1 DEF HasRequiredLabels, MergeMaps
  <2> QED BY <2>1, <2>2
<1>6. HasRequiredLabels(o.labels, MergeMaps(match, NoLabels))
  BY <1>5 DEF HasRequiredLabels, MergeMaps, NoLabels
<1> QED BY <1>3, <1>4, <1>6 DEF Wants

\* A change of a source that a ruler selects, before or after, wakes it or is
\* one of those that no watch lets through (thanosruler_controller.go:664-842).
LEMMA UnwokenIsIgnored ==
    ASSUME Typed, SelectorsAgree, NEW r \in DOMAIN Rulers, NEW old, NEW form,
           old = {} \/ \E o \in Sources : old = {o},
           form = {} \/ \E o \in Sources : form = {o},
           \A o \in old, n \in form : o.kind = n.kind,
           old # form, r \notin Woken(old, form),
           NEW o \in old \cup form, Wants(o, specs[r]), o.kind = "PrometheusRule" => gate
    PROVE  Ignored(old, form)
<1> DEFINE spec == specs[r]
<1>1. /\ HasRequiredLabels(o.labels, DefaultRuleLabels)
      /\ \E s \in Selectors(spec, DefaultRuleLabels) : HasRequiredLabels(o.labels, s)
      /\ \E s \in Selectors(spec, NoLabels) : HasRequiredLabels(o.labels, s)
  <2>1. spec \in Rulers[r]
    BY DEF Typed
  <2>2. spec.ruleConfigSelector.kind \in {"labels", "expressions"}
    BY <2>1, RulersAssumption
  <2>3. spec.ruleConfigSelector.kind = "labels" =>
            LET match == spec.ruleConfigSelector.match
            IN  "prometheus-rule" \in DOMAIN match => match["prometheus-rule"] = Value("true")
    BY <2>1 DEF SelectorsAgree
  <2> HIDE DEF spec
  <2>4. Wants(o, spec)
    BY DEF spec
  <2> QED BY <2>2, <2>3, <2>4, SelectorsOf
<1>2. r \in DOMAIN specs
  BY DEF Typed
<1>3. r \notin enqueueForConfigMap(old, form) /\ r \notin enqueueForPrometheusRule(old, form)
  BY DEF Woken
<1>4. o \in Sources /\ o.kind \in {"ConfigMap", "PrometheusRule"}
  BY SourceParts
<1>5. CASE o.kind = "ConfigMap"
  <2> DEFINE judged == IF form = {} THEN old ELSE form
  <2>1. ~ \E j \in judged : j.kind = "ConfigMap" /\ HasRequiredLabels(j.labels, DefaultRuleLabels)
    BY <1>1, <1>2, <1>3 DEF enqueueForConfigMap
  <2>2. o \notin judged
    BY <1>1, <1>5, <2>1
  <2>3. form # {} /\ o \in old
    BY <2>2
  <2>4. ASSUME NEW n \in form PROVE ~ HasRequiredLabels(n.labels, DefaultRuleLabels)
    <3>1. n.kind = "ConfigMap"
      BY <1>5, <2>3
    <3> QED BY <2>1, <2>3, <3>1
  <2>5. \A p \in old : p = o
    BY <2>3
  <2> QED BY <1>5, <2>3, <2>4, <2>5 DEF Ignored
<1>6. CASE o.kind = "PrometheusRule"
  <2>1. ~ (old # {} /\ form # {} => TheOne(old).body # TheOne(form).body)
    BY <1>1, <1>2, <1>3, <1>6 DEF enqueueForPrometheusRule
  <2>2. PICK p \in Sources, n \in Sources : old = {p} /\ form = {n}
    BY <2>1
  <2>3. TheOne({p}) = p /\ TheOne({n}) = n
    BY DEF TheOne
  <2>4. p.body = n.body /\ p.kind = "PrometheusRule"
    BY <1>6, <2>1, <2>2, <2>3
  <2> QED BY <2>2, <2>4 DEF Ignored
<1> QED BY <1>4, <1>5, <1>6

\* What is at the key of a source is a source.
LEMMA AtSourceKey ==
    ASSUME NEW os, Known(os), NEW k \in SourceKeys, k \in DOMAIN os
    PROVE  os[k] \in Sources /\ Key(os[k]) = k /\ k[1] = os[k].kind
<1>1. Key(os[k]) = k /\ (os[k] \in Sources \/ IsDerivedMap(os[k]))
  BY DEF Known
<1>2. os[k] \in Sources
  BY <1>1, DerivedParts
<1> QED BY <1>1, <1>2, SourceParts

\* The files of a source whose change went unnoticed are among those excepted.
LEMMA FilesMissed ==
    ASSUME NEW s \in Sources, NEW keys, Key(s) \in keys, NEW spec, NEW e \in Files(s, spec)
    PROVE  e.key \in NamesMissed(keys)
BY DEF Files, NamesMissed

\* An edit that wakes nobody changes what a ruler selects only where no watch
\* lets it through.
LEMMA QuietSources ==
    ASSUME Typed, SelectorsAgree, NEW r \in DOMAIN Rulers, NEW k \in SourceKeys, NEW new, Known(new),
           NEW form, form = (IF k \in DOMAIN new THEN {new[k]} ELSE {}),
           \A x : x # k => (x \in DOMAIN new <=> x \in DOMAIN objs),
           \A x \in DOMAIN objs : x # k => new[x] = objs[x],
           At(k) # form, r \notin WokenBy(new),
           NEW more, Ignored(At(k), form) => k \in more
    PROVE  \A all \in BOOLEAN :
             Noticed(Chosen(new, gate, specs[r], all), more) = Noticed(Chosen(objs, gate, specs[r], all), more)
<1>1. r \notin Woken(At(k), form)
  <2>1. k \in DOMAIN objs \cup DOMAIN new
    BY DEF At
  <2> QED BY <2>1 DEF WokenBy
<1>2. Known(objs)
  BY DEF Typed, ObjectsKnown
<1>3. /\ At(k) = {} \/ \E o \in Sources : At(k) = {o}
      /\ form = {} \/ \E o \in Sources : form = {o}
      /\ \A o \in At(k) \cup form : o \in Sources /\ Key(o) = k /\ o.kind = k[1]
  BY <1>2, AtSourceKey DEF At
<1>4. ASSUME NEW o \in At(k) \cup form, Wants(o, specs[r]), o.kind = "PrometheusRule" => gate
      PROVE  k \in more
  <2>1. \A p \in At(k), n \in form : p.kind = n.kind
    BY <1>3
  <2>2. Ignored(At(k), form)
    BY <1>1, <1>3, <1>4, <2>1, UnwokenIsIgnored
  <2> QED BY <2>2
<1>5. ASSUME NEW kind \in Kinds, kind = "PrometheusRule" => gate,
             NEW e, e.key \notin NamesMissed(more)
      PROVE  e \in WantedIn(new, kind, specs[r]) <=> e \in WantedIn(objs, kind, specs[r])
  <2>1. ASSUME NEW s \in At(k) \cup form, s.kind = kind, Wants(s, specs[r])
        PROVE  e \notin Files(s, specs[r])
    <3>1. k \in more
      BY <1>4, <1>5, <2>1
    <3> QED BY <1>3, <1>5, <3>1, FilesMissed
  <2>2. ASSUME e \in WantedIn(new, kind, specs[r]) PROVE e \in WantedIn(objs, kind, specs[r])
    <3>1. PICK s \in SourcesIn(new, kind, specs[r]) : Usable(s) /\ e \in Files(s, specs[r])
      BY <2>2 DEF WantedIn
    <3>2. PICK x \in DOMAIN new : /\ x[1] = kind /\ ~ IsDerived(new[x])
                                  /\ Wants(new[x], specs[r]) /\ s = new[x]
      BY DEF SourcesIn
    <3>3. x # k
      <4> SUFFICES ASSUME x = k PROVE FALSE
        OBVIOUS
      <4>1. s \in form /\ s.kind = kind
        BY <1>3, <3>2
      <4> QED BY <2>1, <3>1, <3>2, <4>1
    <3>4. s \in SourcesIn(objs, kind, specs[r])
      BY <3>2, <3>3 DEF SourcesIn
    <3> QED BY <3>1, <3>4 DEF WantedIn
  <2>3. ASSUME e \in WantedIn(objs, kind, specs[r]) PROVE e \in WantedIn(new, kind, specs[r])
    <3>1. PICK s \in SourcesIn(objs, kind, specs[r]) : Usable(s) /\ e \in Files(s, specs[r])
      BY <2>3 DEF WantedIn
    <3>2. PICK x \in DOMAIN objs : /\ x[1] = kind /\ ~ IsDerived(objs[x])
                                   /\ Wants(objs[x], specs[r]) /\ s = objs[x]
      BY DEF SourcesIn
    <3>3. x # k
      <4> SUFFICES ASSUME x = k PROVE FALSE
        OBVIOUS
      <4>1. s \in At(k) /\ s.kind = kind
        BY <1>3, <3>2 DEF At
      <4> QED BY <2>1, <3>1, <3>2, <4>1
    <3>4. s \in SourcesIn(new, kind, specs[r])
      BY <3>2, <3>3 DEF SourcesIn
    <3> QED BY <3>1, <3>4 DEF WantedIn
  <2> QED BY <2>2, <2>3
<1>6. ASSUME NEW all \in BOOLEAN, NEW e, e.key \notin NamesMissed(more)
      PROVE  e \in Chosen(new, gate, specs[r], all) <=> e \in Chosen(objs, gate, specs[r], all)
  <2>1. e \in WantedIn(new, "ConfigMap", specs[r]) <=> e \in WantedIn(objs, "ConfigMap", specs[r])
    BY <1>5, <1>6 DEF Kinds
  <2>2. gate => (e \in WantedIn(new, "PrometheusRule", specs[r])
                   <=> e \in WantedIn(objs, "PrometheusRule", specs[r]))
    BY <1>5, <1>6 DEF Kinds
  <2> QED BY <2>1, <2>2 DEF Chosen
<1>7. ASSUME NEW all \in BOOLEAN
      PROVE  Noticed(Chosen(new, gate, specs[r], all), more) = Noticed(Chosen(objs, gate, specs[r], all), more)
  BY <1>6 DEF Noticed
<1> QED BY <1>7

-----------------------------------------------------------------------------
(* Changes of objects.                                                      *)

\* Nothing but derived objects is different.
SameRest(os, new) ==
    /\ \A k \in DOMAIN os : ~ IsDerived(os[k]) => k \in DOMAIN new /\ new[k] = os[k]
    /\ \A k \in DOMAIN new : ~ IsDerived(new[k]) => k \in DOMAIN os /\ new[k] = os[k]

\* An object that has an owner is derived.
LEMMA OwnedIsDerived ==
    ASSUME NEW os, Known(os), NEW k \in DOMAIN os, os[k].owner # NoOwner
    PROVE  IsDerived(os[k]) /\ IsDerivedMap(os[k]) /\ Key(os[k]) = k /\ k[1] = "ConfigMap"
<1>1. Key(os[k]) = k /\ IsDerivedMap(os[k])
  BY SourceParts DEF Known
<1>2. os[k].kind = "ConfigMap" /\ IsDerived(os[k])
  BY <1>1, DerivedParts DEF IsDerivedMap
<1> QED BY <1>1, <1>2 DEF Key

\* A derived ConfigMap that is written replaces no source,
LEMMA WithDerived ==
    ASSUME ObjectsKnown, NEW c, IsDerivedMap(c) PROVE SameRest(objs, With(c))
<1>1. IsDerived(c) /\ Key(c) \notin SourceKeys
  BY DerivedParts DEF IsDerivedMap
<1>2. ASSUME Key(c) \in DOMAIN objs PROVE IsDerived(objs[Key(c)])
  <2>1. Key(objs[Key(c)]) = Key(c) /\ (objs[Key(c)] \in Sources \/ IsDerivedMap(objs[Key(c)]))
    BY <1>2 DEF ObjectsKnown, Known
  <2> QED BY <1>1, <2>1, SourceParts DEF IsDerivedMap
<1>3. /\ DOMAIN With(c) = DOMAIN objs \cup {Key(c)} /\ With(c)[Key(c)] = c
      /\ \A k \in DOMAIN objs : k # Key(c) => With(c)[k] = objs[k]
  BY DEF With
<1> QED BY <1>1, <1>2, <1>3 DEF SameRest

\* nor do sources go when derived ConfigMaps do
LEMMA WithoutDerived ==
    ASSUME NEW keys, \A k \in keys \cap DOMAIN objs : IsDerived(objs[k])
    PROVE  SameRest(objs, Without(keys))
BY DEF SameRest, Without

\* or are emptied by hand.
LEMMA EmptiedDerived ==
    ASSUME ObjectsKnown, NEW k \in DOMAIN objs, objs[k].owner # NoOwner
    PROVE  SameRest(objs, [objs EXCEPT ![k].body.data = {}])
<1> DEFINE new == [objs EXCEPT ![k].body.data = {}]
<1>1. IsDerived(objs[k])
  BY OwnedIsDerived DEF ObjectsKnown
<1>2. objs = [x \in DOMAIN objs |-> objs[x]]
  BY DEF ObjectsKnown, Known
<1>3. /\ DOMAIN new = DOMAIN objs
      /\ \A x \in DOMAIN objs : x # k => new[x] = objs[x]
  BY <1>2
<1>4. Known(new) /\ new[k].owner = objs[k].owner
  <2>1. Known(new)
    BY EmptiedKnown
  <2>2. new[k] = [objs[k] EXCEPT !.body.data = {}]
    BY <1>2
  <2>3. DOMAIN objs[k] = {"kind", "name", "labels", "body", "owner"}
    <3>1. IsDerivedMap(objs[k])
      BY OwnedIsDerived DEF ObjectsKnown
    <3> QED BY <3>1 DEF IsDerivedMap
  <2>4. new[k].owner = objs[k].owner
    <3> HIDE DEF new
    <3> QED BY <2>2, <2>3
  <2> QED BY <2>1, <2>4
<1> HIDE DEF new
<1>5. IsDerived(new[k])
  BY <1>3, <1>4, OwnedIsDerived
<1>6. SameRest(objs, new)
  BY <1>1, <1>3, <1>5 DEF SameRest
<1> QED BY <1>6 DEF new

\* A change of derived ConfigMaps changes nothing for a ruler that is not woken.
LEMMA DerivedChange ==
    ASSUME RulesInv, NEW new, SameRest(objs, new), Change(new),
           UNCHANGED <<gate, specs, sts, secret, missed>>,
           NEW r \in DOMAIN Rulers, r \notin queue'
    PROVE  /\ r \notin queue
           /\ Settled(r) => Settled(r)'
           /\ Pending(r) /\ work.ruler = r /\ work' = work => Pending(r)'
<1>1. r \notin queue
  BY OwnedStays
<1>2. \A open, spec, all : Chosen(new, open, spec, all) = Chosen(objs, open, spec, all)
  BY SameWanted DEF SameRest
<1>3. objs' = new
  BY DEF Change
<1>4. PICK spec, more : spec = specs[r] /\ more = missed[r]
  OBVIOUS
<1>5. ASSUME Settled(r) PROVE Settled(r)'
  <2>1. SettledIn(r, new, gate, spec, more, sts[r], secret[r])
    BY <1>2, <1>4, <1>5, StaysSettled
  <2> QED BY <1>3, <1>4, <2>1 DEF Settled
<1>6. ASSUME Pending(r), work.ruler = r, work' = work PROVE Pending(r)'
  <2>1. PendingIn(work, new, gate, spec, more, sts[r], secret[r])
    BY <1>2, <1>4, <1>6, StaysPending
  <2> QED BY <1>3, <1>4, <1>6, <2>1 DEF Pending
<1> QED BY <1>1, <1>5, <1>6

\* The loss of a derived ConfigMap wakes its owner (thanosruler_controller.go:665-672).
LEMMA LossRests == ASSUME RulesInv, RestInv, NEW k \in DOMAIN objs, LoseConfigMap(k) PROVE RestInv'
<1>1. PICK new : Change(new) /\ SameRest(objs, new)
  <2>1. objs[k].owner # NoOwner /\ (Change(Without({k})) \/ Change([objs EXCEPT ![k].body.data = {}]))
    BY DEF LoseConfigMap
  <2>2. SameRest(objs, Without({k}))
    BY <2>1, OwnedIsDerived, WithoutDerived DEF RulesInv, Typed, ObjectsKnown
  <2>3. SameRest(objs, [objs EXCEPT ![k].body.data = {}])
    BY <2>1, EmptiedDerived DEF RulesInv, Typed
  <2> QED BY <2>1, <2>2, <2>3
<1>2. UNCHANGED <<gate, specs, sts, secret, work, missed>>
  BY DEF LoseConfigMap
<1>3. ASSUME NEW r \in DOMAIN Rulers \ queue'
      PROVE  /\ r \notin queue /\ (Settled(r) => Settled(r)')
             /\ Pending(r) /\ work.ruler = r => Pending(r)'
  BY <1>1, <1>2, DerivedChange
<1> QED BY <1>2, <1>3 DEF RestInv

\* An edit of a source or its removal (thanosruler_controller.go:664-842).
LEMMA EditRests ==
    ASSUME RulesInv, RestInv, SelectorsAgree, NEW k \in SourceKeys, NEW new, Known(new),
           NEW form, form = (IF k \in DOMAIN new THEN {new[k]} ELSE {}),
           \A x : x # k => (x \in DOMAIN new <=> x \in DOMAIN objs),
           \A x \in DOMAIN objs : x # k => new[x] = objs[x],
           At(k) # form, Edited(k, new, form)
    PROVE  RestInv'
<1>1. /\ Change(new) /\ UNCHANGED <<gate, specs, sts, secret, work>> /\ objs' = new
      /\ missed' = IF Ignored(At(k), form) THEN [r \in DOMAIN Rulers |-> missed[r] \cup {k}] ELSE missed
  BY DEF Edited, Change
<1>2. ASSUME NEW r \in DOMAIN Rulers, r \notin queue'
      PROVE  /\ r \notin queue
             /\ Settled(r) => Settled(r)'
             /\ Pending(r) /\ work.ruler = r => Pending(r)'
  <2>1. r \notin queue /\ r \notin WokenBy(new)
    BY <1>1, <1>2 DEF Change
  <2>2. PICK spec, more : spec = specs[r] /\ more = missed'[r]
    OBVIOUS
  <2>3. missed[r] \subseteq more /\ (Ignored(At(k), form) => k \in more)
    BY <1>1, <1>2, <2>2
  <2>4. \A all \in BOOLEAN :
          Noticed(Chosen(new, gate, specs[r], all), more) = Noticed(Chosen(objs, gate, specs[r], all), more)
    BY <1>2, <2>1, <2>3, QuietSources DEF RulesInv
  <2>5. ASSUME Settled(r) PROVE Settled(r)'
    <3>1. SettledIn(r, new, gate, spec, more, sts[r], secret[r])
      BY <1>1, <1>2, <2>2, <2>3, <2>4, <2>5, StaysSettled
    <3> QED BY <1>1, <2>2, <3>1 DEF Settled
  <2>6. ASSUME Pending(r), work.ruler = r PROVE Pending(r)'
    <3>1. PendingIn(work, new, gate, spec, more, sts[r], secret[r])
      BY <1>1, <1>2, <2>2, <2>3, <2>4, <2>6, StaysPending
    <3> QED BY <1>1, <2>2, <3>1 DEF Pending
  <2> QED BY <2>1, <2>5, <2>6
<1> QED BY <1>1, <1>2 DEF RestInv

\* A source takes another form,
LEMMA EditSourceRests ==
    ASSUME RulesInv, RestInv, SelectorsAgree, NEW o \in Sources, EditSource(o) PROVE RestInv'
<1> DEFINE k == Key(o)  new == With(o)
<1>1. Edited(k, new, {o}) /\ At(k) # {o}
  BY DEF EditSource
<1>2. Known(new) /\ k \in SourceKeys
  BY WithKnown, SourceParts DEF RulesInv, Typed
<1>3. /\ DOMAIN new = DOMAIN objs \cup {k} /\ new[k] = o
      /\ \A x \in DOMAIN objs : x # k => new[x] = objs[x]
  BY DEF With
<1> HIDE DEF k, new
<1>4. /\ {o} = (IF k \in DOMAIN new THEN {new[k]} ELSE {})
      /\ \A x : x # k => (x \in DOMAIN new <=> x \in DOMAIN objs)
  BY <1>3
<1> QED BY <1>1, <1>2, <1>3, <1>4, EditRests

\* or goes.
LEMMA RemoveSourceRests ==
    ASSUME RulesInv, RestInv, SelectorsAgree, NEW k \in SourceKeys, RemoveSource(k) PROVE RestInv'
<1> DEFINE new == Without({k})
<1>1. Edited(k, new, {}) /\ k \in DOMAIN objs
  BY DEF RemoveSource
<1>2. Known(new)
  BY WithoutKnown DEF RulesInv, Typed
<1>3. /\ DOMAIN new = DOMAIN objs \ {k}
      /\ \A x \in DOMAIN objs : x # k => new[x] = objs[x]
  BY DEF Without
<1> HIDE DEF new
<1>4. /\ {} = (IF k \in DOMAIN new THEN {new[k]} ELSE {}) /\ At(k) # {}
      /\ \A x : x # k => (x \in DOMAIN new <=> x \in DOMAIN objs)
  BY <1>1, <1>3 DEF At
<1> QED BY <1>1, <1>2, <1>3, <1>4, EditRests

-----------------------------------------------------------------------------
\* What a reconcile has to write after its first listing.
LEMMA ReconcileIs ==
    ASSUME NEW r \in DOMAIN Rulers, Reconcile(r)
    PROVE  /\ work'.ruler = r /\ work'.stage \in {"report", "user", "list"}
           /\ (work'.failed <=> work'.stage = "report")
           /\ ~ work'.failed =>
                \E list \in MapsFrom("ConfigMap", r, specs[r]) :
                   /\ work'.spec = specs[r] /\ work'.todo = list
                   /\ work'.files = FilesOf(ToSet(list)) /\ work'.tenants = TenantsOf(ToSet(list))
<1> DEFINE job   == [ruler |-> r, spec |-> specs[r], stage |-> "user", todo |-> <<>>,
                     failed |-> FALSE, files |-> {}, tenants |-> {}]
           found == getRuleConfigMaps(r, specs[r])
<1>1. work' = IF found = {} THEN [job EXCEPT !.stage = "report", !.failed = TRUE]
              ELSE Writing(job, TheOne(found), "user", "list")
  BY DEF Reconcile
<1>2. CASE found = {}
  <2>1. work' = [job EXCEPT !.stage = "report", !.failed = TRUE]
    BY <1>1, <1>2
  <2>2. DOMAIN job = {"ruler", "spec", "stage", "todo", "failed", "files", "tenants"} /\ job.ruler = r
    OBVIOUS
  <2> HIDE DEF job
  <2>3. work'.failed /\ work'.stage = "report" /\ work'.ruler = r
    BY <2>1, <2>2
  <2> QED BY <2>3
<1>3. CASE found # {}
  <2> DEFINE list == TheOne(found)
  <2>1. list \in MapsFrom("ConfigMap", r, specs[r])
    BY <1>3 DEF TheOne, MapsFrom
  <2>2. work' = [job EXCEPT !.stage = IF list = <<>> THEN "list" ELSE "user", !.todo = list,
                            !.files = {} \cup RuleFiles(list), !.tenants = {} \cup Tenants(list)]
    BY <1>1, <1>3 DEF Writing
  <2>3. /\ DOMAIN job = {"ruler", "spec", "stage", "todo", "failed", "files", "tenants"}
        /\ job.ruler = r /\ job.spec = specs[r] /\ ~ job.failed
    OBVIOUS
  <2> HIDE DEF job, list, found
  <2>4. /\ work'.ruler = r /\ work'.spec = specs[r] /\ work'.todo = list
        /\ work'.stage \in {"user", "list"} /\ work'.failed = job.failed
        /\ work'.files = RuleFiles(list) /\ work'.tenants = Tenants(list)
    BY <2>2, <2>3
  <2> QED BY <2>1, <2>3, <2>4, ListIsSet
<1> QED BY <1>2, <1>3

\* A reconcile begins with what is there now.
LEMMA ReconcileRests ==
    ASSUME RulesInv, RestInv, NEW r \in DOMAIN Rulers, Reconcile(r) PROVE RestInv'
<1>1. /\ work = Idle /\ queue' = queue \ {r}
      /\ missed' = [missed EXCEPT ![r] = {k \in @ : k[1] # "ConfigMap"}]
      /\ UNCHANGED <<gate, specs, objs, sts, secret, left>>
  BY DEF Reconcile
<1>2. ASSUME NEW q \in DOMAIN Rulers \ queue', q # r PROVE Settled(q)'
  <2>1. Settled(q) /\ missed'[q] = missed[q]
    BY <1>1, <1>2 DEF RestInv, RulesInv, Typed, MissedKnown
  <2> QED BY <1>1, <2>1 DEF Settled
<1>3. work'.ruler = r /\ (work'.stage = "report" => work'.failed)
      /\ work'.stage \in {"report", "user", "list"}
      /\ (work'.failed => work'.stage = "report")
  BY ReconcileIs
<1>4. ASSUME ~ work'.failed PROVE Pending(r)'
  <2>1. PICK list \in MapsFrom("ConfigMap", r, specs[r]) :
               /\ work'.spec = specs[r] /\ work'.todo = list
               /\ work'.files = FilesOf(ToSet(list)) /\ work'.tenants = TenantsOf(ToSet(list))
    BY <1>4, ReconcileIs
  <2>2. OwnMaps(list, r) /\ Entries(ToSet(list)) = Wanted("ConfigMap", specs[r])
    <3>1. "ConfigMap" \in Kinds /\ ObjectsKnown
      BY DEF Kinds, RulesInv, Typed
    <3> QED BY <3>1, ReadMaps DEF Entries
  <2>3. Chosen(objs, gate, specs[r], FALSE) = Wanted("ConfigMap", specs[r])
    BY WantedNow DEF Chosen
  <2>4. work'.stage \in {"user", "list"}
    BY <1>3, <1>4
  <2>5. PICK new : new = work'
    OBVIOUS
  <2>6. PendingIn(new, objs, gate, specs[r], missed'[r], sts[r], secret[r])
    <3> DEFINE maps == ToSet(list)
    <3>1. /\ new.ruler = r /\ new.spec = specs[r] /\ new.todo = list /\ new.stage \in {"user", "list"}
          /\ new.files = FilesOf(maps) /\ new.tenants = TenantsOf(maps)
      BY <1>3, <2>1, <2>4, <2>5
    <3>2. Made(r, maps) /\ There(objs, maps \ maps)
      BY <2>2 DEF Made, There, OwnMaps
    <3>3. (new.stage \notin {"user", "list"}) = FALSE
      BY <3>1
    <3>4. Noticed(Entries(maps), missed'[r]) =
            Noticed(Chosen(objs, gate, specs[r], new.stage \notin {"user", "list"}), missed'[r])
      BY <2>2, <2>3, <3>3
    <3> HIDE DEF maps
    <3>5. ToSet(new.todo) = maps
      BY <3>1 DEF maps
    <3> QED BY <3>1, <3>2, <3>4, <3>5 DEF PendingIn
  <2> QED BY <1>1, <2>5, <2>6 DEF Pending
<1>5. ASSUME NEW q \in DOMAIN Rulers \ queue'
      PROVE  /\ work' = Idle \/ work'.ruler # q => Settled(q)'
             /\ work' # Idle /\ work'.ruler = q /\ ~ work'.failed => Pending(q)'
  <2>1. CASE q = r
    <3>1. work' # Idle
      BY <1>3 DEF Idle
    <3> QED BY <1>3, <1>4, <2>1, <3>1
  <2>2. CASE q # r
    BY <1>2, <1>3, <1>5, <2>2
  <2> QED BY <2>1, <2>2
<1>6. work' # Idle /\ work'.stage \in {"list", "sts", "prune"} => ~ work'.failed
  BY <1>3
<1> QED BY <1>5, <1>6 DEF RestInv

\* What is not done changes nothing and wakes nobody.
LEMMA NoChange == ASSUME UNCHANGED <<objs, queue>> PROVE Change(objs) /\ SameRest(objs, objs)
<1>1. WokenBy(objs) = {}
  BY DEF WokenBy, At
<1> QED BY <1>1 DEF Change, SameRest

\* What a job becomes that has written a ConfigMap.
LEMMA WrittenJob ==
    ASSUME Job(work), WriteConfigMap
    PROVE  \E fails \in BOOLEAN :
             /\ IF fails THEN UNCHANGED <<objs, queue>> ELSE Change(With(Head(work.todo)))
             /\ work'.ruler = work.ruler /\ work' # Idle
             /\ work'.stage \in {"list", "sts", "prune"} => ~ work'.failed
             /\ ~ work'.failed =>
                  /\ ~ fails /\ ~ work.failed
                  /\ work'.spec = work.spec /\ work'.files = work.files /\ work'.tenants = work.tenants
                  /\ ToSet(work'.todo) = ToSet(Tail(work.todo))
                  /\ work'.stage \in {"user", "list", "promrule", "sts"}
                  /\ (work'.stage \in {"user", "list"} <=> work.stage \in {"user", "list"})
<1>0. PICK fails \in BOOLEAN :
        /\ IF fails THEN UNCHANGED <<objs, queue>> ELSE Change(With(Head(work.todo)))
        /\ LET failed == work.failed \/ fails
               next   == IF work.stage = "user" THEN "list" ELSE "sts"
           IN work' = IF Len(work.todo) > 1
                      THEN [work EXCEPT !.todo = Tail(@), !.failed = failed]
                      ELSE IF failed THEN Failed ELSE [work EXCEPT !.todo = <<>>, !.stage = next]
  BY DEF WriteConfigMap
<1> DEFINE failed == work.failed \/ fails
           next   == IF work.stage = "user" THEN "list" ELSE "sts"
           more   == [work EXCEPT !.todo = Tail(work.todo), !.failed = failed]
           done   == [work EXCEPT !.todo = <<>>, !.stage = next]
<1>n. PICK new : new = work'
  OBVIOUS
<1> SUFFICES
      /\ new.ruler = work.ruler /\ new # Idle
      /\ new.stage \in {"list", "sts", "prune"} => ~ new.failed
      /\ ~ new.failed =>
           /\ ~ fails /\ ~ work.failed
           /\ new.spec = work.spec /\ new.files = work.files /\ new.tenants = work.tenants
           /\ ToSet(new.todo) = ToSet(Tail(work.todo))
           /\ new.stage \in {"user", "list", "promrule", "sts"}
           /\ (new.stage \in {"user", "list"} <=> work.stage \in {"user", "list"})
  BY <1>0, <1>n
<1>1. new = IF Len(work.todo) > 1 THEN more ELSE IF failed THEN Failed ELSE done
  BY <1>0, <1>n
<1>s. work.stage \in {"user", "promrule"}
  BY DEF WriteConfigMap, In
<1>2. /\ failed \in BOOLEAN /\ next = (IF work.stage = "user" THEN "list" ELSE "sts")
      /\ (~ failed => ~ fails /\ ~ work.failed)
  BY DEF Job
<1>3. work = [ruler |-> work.ruler, spec |-> work.spec, stage |-> work.stage, todo |-> work.todo,
              failed |-> work.failed, files |-> work.files, tenants |-> work.tenants]
      /\ work.failed \in BOOLEAN
  BY DEF Job
<1> HIDE DEF failed, next
<1>4. more = [ruler |-> work.ruler, spec |-> work.spec, stage |-> work.stage,
              todo |-> Tail(work.todo), failed |-> failed, files |-> work.files,
              tenants |-> work.tenants]
  <2>1. more = [work EXCEPT !.todo = Tail(work.todo), !.failed = failed]
    OBVIOUS
  <2> HIDE DEF more
  <2> QED BY <1>3, <2>1
<1>5. done = [ruler |-> work.ruler, spec |-> work.spec, stage |-> next, todo |-> <<>>,
              failed |-> work.failed, files |-> work.files, tenants |-> work.tenants]
  <2>1. done = [work EXCEPT !.todo = <<>>, !.stage = next]
    OBVIOUS
  <2> HIDE DEF done
  <2> QED BY <1>3, <2>1
<1> HIDE DEF more, done
<1>6. CASE new = more
  <2>1. /\ new.ruler = work.ruler /\ new.spec = work.spec /\ new.files = work.files
        /\ new.tenants = work.tenants /\ new.todo = Tail(work.todo) /\ new.failed = failed
        /\ new.stage = work.stage
    BY <1>4, <1>6, JobFields
  <2> QED BY <1>2, <1>s, <2>1 DEF Idle
<1>7. CASE new = Failed /\ failed
  <2>1. new.failed /\ new.stage = "report" /\ new.ruler = work.ruler
    <3>1. work.ruler = work.ruler /\ DOMAIN work = {"ruler", "spec", "stage", "todo", "failed", "files", "tenants"}
      BY <1>3
    <3> QED BY <1>7, <3>1 DEF Failed
  <2> QED BY <2>1 DEF Idle
<1>8. CASE new = done /\ ~ failed /\ ~ (Len(work.todo) > 1)
  <2>1. /\ new.ruler = work.ruler /\ new.spec = work.spec /\ new.files = work.files
        /\ new.tenants = work.tenants /\ new.todo = <<>> /\ new.failed = work.failed
        /\ new.stage = next
    BY <1>5, <1>8, JobFields
  <2>2. ToSet(Tail(work.todo)) = {}
    <3>1. work.todo # <<>> /\ OwnMaps(work.todo, work.ruler)
      BY <1>s DEF Job
    <3>2. /\ OwnMaps(Tail(work.todo), work.ruler) /\ Len(Tail(work.todo)) = Len(work.todo) - 1
          /\ Len(work.todo) \in Nat /\ Len(work.todo) >= 1
      BY <3>1, FirstMap
    <3>3. Len(Tail(work.todo)) = 0
      <4>1. \A n \in Nat : n >= 1 /\ ~ (n > 1) => n - 1 = 0
        OBVIOUS
      <4>2. ~ (Len(work.todo) > 1)
        BY <1>8, Zenon
      <4> QED BY <3>2, <4>1, <4>2, Zenon
    <3>4. PICK S : Tail(work.todo) \in Seq(S)
      BY <3>2 DEF OwnMaps
    <3>5. PICK t : t = Tail(work.todo)
      OBVIOUS
    <3>6. t \in Seq(S) /\ Len(t) = 0
      BY <3>3, <3>4, <3>5
    <3>7. DOMAIN t = {}
      BY <3>6
    <3>8. ToSet(t) = {}
      BY <3>7, ToSetIs
    <3> QED BY <3>5, <3>8
  <2>3. new.failed = FALSE
    BY <1>2, <1>3, <1>8, <2>1
  <2> QED BY <1>2, <1>s, <1>8, <2>1, <2>2, <2>3, NoMaps DEF Idle
<1> QED BY <1>1, <1>6, <1>7, <1>8

\* A ConfigMap that was written is there; if it was not there before, its owner
\* is woken (thanosruler_controller.go:978-985, handlers.go:53-83).
LEMMA WriteConfigMapRests == ASSUME RulesInv, RestInv, WriteConfigMap PROVE RestInv'
<1>1. /\ Job(work) /\ work # Idle /\ work.stage \in {"user", "promrule"}
      /\ OwnMaps(work.todo, work.ruler) /\ work.todo # <<>> /\ ObjectsKnown
      /\ UNCHANGED <<gate, specs, sts, secret, missed>>
  BY DEF RulesInv, Typed, WriteConfigMap, In, Job
<1>2. PICK fails \in BOOLEAN :
        /\ IF fails THEN UNCHANGED <<objs, queue>> ELSE Change(With(Head(work.todo)))
        /\ work'.ruler = work.ruler /\ work' # Idle
        /\ work'.stage \in {"list", "sts", "prune"} => ~ work'.failed
        /\ ~ work'.failed =>
             /\ ~ fails /\ ~ work.failed
             /\ work'.spec = work.spec /\ work'.files = work.files /\ work'.tenants = work.tenants
             /\ ToSet(work'.todo) = ToSet(Tail(work.todo))
             /\ work'.stage \in {"user", "list", "promrule", "sts"}
             /\ (work'.stage \in {"user", "list"} <=> work.stage \in {"user", "list"})
  BY <1>1, WrittenJob
<1>3. PICK r, head, job : r = work.ruler /\ head = Head(work.todo) /\ job = work'
  OBVIOUS
<1>4. /\ job.ruler = r /\ job # Idle
      /\ job.stage \in {"list", "sts", "prune"} => ~ job.failed
      /\ ~ job.failed =>
           /\ ~ fails /\ ~ work.failed
           /\ job.spec = work.spec /\ job.files = work.files /\ job.tenants = work.tenants
           /\ ToSet(job.todo) = ToSet(Tail(work.todo))
           /\ job.stage \in {"user", "list", "promrule", "sts"}
           /\ (job.stage \in {"user", "list"} <=> work.stage \in {"user", "list"})
  BY <1>2, <1>3
<1>5. /\ head \in ToSet(work.todo) /\ IsDerivedMap(head) /\ head.owner = r /\ r \in DOMAIN Rulers
      /\ ToSet(work.todo) = {head} \cup ToSet(Tail(work.todo))
  BY <1>1, <1>3, FirstMap DEF OwnMaps, Job
<1>6. PICK new : /\ Change(new) /\ SameRest(objs, new) /\ objs' = new
                 /\ (fails \/ new = With(head))
  <2>1. CASE fails
    BY <1>2, <2>1, NoChange
  <2>2. CASE ~ fails
    BY <1>1, <1>2, <1>3, <1>5, <2>2, WithDerived DEF Change
  <2> QED BY <2>1, <2>2
<1>7. ASSUME NEW q \in DOMAIN Rulers \ queue'
      PROVE  q \notin queue /\ (Settled(q) => Settled(q)')
  BY <1>1, <1>6, <1>7, DerivedChange
<1>8. ASSUME r \notin queue', ~ job.failed PROVE Pending(r)'
  <2>1. r \notin queue /\ Pending(r)
    BY <1>1, <1>3, <1>4, <1>5, <1>7, <1>8 DEF RestInv
  <2>2. PICK maps :
          /\ Made(r, maps) /\ ToSet(work.todo) \subseteq maps
          /\ There(objs, maps \ ToSet(work.todo))
          /\ work.files = FilesOf(maps) /\ work.tenants = TenantsOf(maps)
          /\ Noticed(Entries(maps), missed[r]) =
               Noticed(Chosen(objs, gate, specs[r], work.stage \notin {"user", "list"}), missed[r])
    BY <1>3, <2>1 DEF Pending, PendingIn
  <2>3. new = With(head) /\ new[Key(head)] = head /\ Key(head) \in DOMAIN new
    BY <1>4, <1>6, <1>8 DEF With
  <2>4. \A c \in ToSet(Tail(work.todo)) : c \in maps
    BY <1>5, <2>2
  <2>5. There(new, maps \ ToSet(Tail(work.todo)))
    <3>1. Made(r, maps \ ToSet(work.todo))
      BY <2>2 DEF Made
    <3>2. There(new, maps \ ToSet(work.todo))
      BY <1>5, <1>6, <1>8, <2>2, <3>1, OwnedStays
    <3> QED BY <1>5, <2>3, <3>2 DEF There
  <2>6. work.spec = specs[r]
    BY <2>1 DEF Pending, PendingIn
  <2>7. PICK spec, keys : spec = specs[r] /\ keys = missed[r]
    OBVIOUS
  <2>8. Chosen(new, gate, spec, job.stage \notin {"user", "list"}) =
        Chosen(objs, gate, spec, work.stage \notin {"user", "list"})
    <3>1. (job.stage \notin {"user", "list"}) = (work.stage \notin {"user", "list"})
      BY <1>4, <1>8
    <3>2. \A open, all : Chosen(new, open, spec, all) = Chosen(objs, open, spec, all)
      BY <1>6, SameWanted DEF SameRest
    <3> QED BY <3>1, <3>2
  <2>9. PendingIn(job, new, gate, spec, keys, sts[r], secret[r])
    <3>1. /\ job.ruler = r /\ job.spec = spec /\ ToSet(job.todo) = ToSet(Tail(work.todo))
          /\ job.stage \notin {"secret", "prune", "report"}
          /\ job.files = FilesOf(maps) /\ job.tenants = TenantsOf(maps)
          /\ Noticed(Entries(maps), keys) =
               Noticed(Chosen(new, gate, spec, job.stage \notin {"user", "list"}), keys)
      BY <1>4, <1>8, <2>2, <2>6, <2>7, <2>8
    <3>2. ToSet(job.todo) \subseteq maps /\ There(new, maps \ ToSet(job.todo))
      BY <2>4, <2>5, <3>1
    <3> QED BY <2>2, <3>1, <3>2 DEF PendingIn
  <2> QED BY <1>1, <1>3, <1>6, <2>7, <2>9 DEF Pending
<1>9. ASSUME NEW q \in DOMAIN Rulers \ queue'
      PROVE  /\ work' = Idle \/ work'.ruler # q => Settled(q)'
             /\ work' # Idle /\ work'.ruler = q /\ ~ work'.failed => Pending(q)'
  <2>1. CASE q = r
    BY <1>3, <1>4, <1>8, <1>9, <2>1
  <2>2. CASE q # r
    <3>1. q \notin queue /\ Settled(q)
      BY <1>1, <1>3, <1>7, <1>9, <2>2 DEF RestInv
    <3> QED BY <1>3, <1>4, <1>7, <1>9, <2>2, <3>1
  <2> QED BY <2>1, <2>2
<1> QED BY <1>3, <1>4, <1>9 DEF RestInv

\* The files of user ConfigMaps are noticed as much when PrometheusRules are
\* read again.
LEMMA OtherKindNoticed ==
    ASSUME NEW E, NEW F, NEW keys, keys \subseteq SourceKeys,
           NEW fewer, fewer = {k \in keys : k[1] # "PrometheusRule"},
           \A e \in E : e.key \in NamesOf("ConfigMap"),
           \A e \in F : e.key \in NamesOf("ConfigMap"),
           Noticed(E, keys) = Noticed(F, keys)
    PROVE  Noticed(E, fewer) = Noticed(F, fewer)
<1>1. ASSUME NEW n \in NamesOf("ConfigMap"), n \in NamesMissed(keys) PROVE n \in NamesMissed(fewer)
  <2>1. PICK o \in Sources : Key(o) \in keys /\ \E d \in o.body.data : n = FileName(o, d)
    BY <1>1 DEF NamesMissed
  <2>2. CASE o.kind = "PrometheusRule"
    <3>1. n \in NamesOf("PrometheusRule")
      BY <2>1, <2>2 DEF NamesOf
    <3> QED BY <1>1, <3>1, KindsApart
  <2>3. CASE o.kind # "PrometheusRule"
    <3>1. Key(o)[1] = o.kind
      BY DEF Key
    <3>2. Key(o) \in fewer
      BY <2>1, <2>3, <3>1
    <3> QED BY <2>1, <3>2 DEF NamesMissed
  <2> QED BY <2>2, <2>3
<1>2. \A e \in E \cup F : e.key \notin NamesMissed(fewer) => e.key \notin NamesMissed(keys)
  BY <1>1
<1>3. \A e : e.key \notin NamesMissed(fewer) => (e \in E <=> e \in F)
  BY <1>2 DEF Noticed
<1> QED BY <1>3 DEF Noticed

\* The names of what a ruler selects.
LEMMA WantedNames ==
    ASSUME ObjectsKnown, NEW kind, NEW spec, NEW e \in WantedIn(objs, kind, spec)
    PROVE  e.key \in NamesOf(kind)
<1>1. e \in Wanted(kind, spec)
  BY WantedNow
<1>2. PICK s \in RuleSources(kind, spec) : \E d \in s.body.data : e.key = FileName(s, d)
  BY <1>1 DEF Wanted
<1>3. s \in Sources /\ s.kind = kind
  BY SourcesRead
<1> QED BY <1>2, <1>3 DEF NamesOf

\* What two sets of ConfigMaps hold.
LEMMA Together ==
    ASSUME NEW maps, NEW more
    PROVE  /\ FilesOf(maps \cup more) = FilesOf(maps) \cup FilesOf(more)
           /\ TenantsOf(maps \cup more) = TenantsOf(maps) \cup TenantsOf(more)
           /\ Entries(maps \cup more) = Entries(maps) \cup Entries(more)
<1>1. FilesOf(maps \cup more) = FilesOf(maps) \cup FilesOf(more)
  BY DEF FilesOf
<1>2. TenantsOf(maps \cup more) = TenantsOf(maps) \cup TenantsOf(more)
  BY DEF TenantsOf
<1>3. DataOf(maps \cup more) = DataOf(maps) \cup DataOf(more)
  BY DEF DataOf
<1>4. Entries(maps \cup more) = Entries(maps) \cup Entries(more)
  BY <1>3 DEF Entries
<1> QED BY <1>1, <1>2, <1>4

\* What a job has to write after its second listing.
LEMMA ListedIs ==
    ASSUME RulesInv, ListPrometheusRules
    PROVE  \/ work' = Failed
           \/ \E list :
                /\ work'.ruler = work.ruler /\ work'.spec = work.spec /\ work' # Idle
                /\ work'.stage \in {"promrule", "sts"} /\ work'.todo = list
                /\ work'.failed = work.failed
                /\ work'.files = work.files \cup FilesOf(ToSet(list))
                /\ work'.tenants = work.tenants \cup TenantsOf(ToSet(list))
                /\ OwnMaps(list, work.ruler)
                /\ Entries(ToSet(list)) = IF gate THEN Wanted("PrometheusRule", work.spec) ELSE {}
<1> DEFINE found == IF gate THEN getPrometheusRuleConfigMaps(work.ruler, work.spec) ELSE {<<>>}
           list  == TheOne(found)
<1>1. Job(work) /\ ObjectsKnown /\ work.ruler \in DOMAIN Rulers
  BY DEF RulesInv, ListPrometheusRules, In, Job, Typed
<1>2. found # {} => work' = Writing(work, list, "promrule", "sts")
  BY DEF ListPrometheusRules
<1>3. CASE found = {}
  BY <1>3 DEF ListPrometheusRules
<1>4. CASE found # {}
  <2>1. PICK new : new = work'
    OBVIOUS
  <2>2. OwnMaps(list, work.ruler)
        /\ Entries(ToSet(list)) = IF gate THEN Wanted("PrometheusRule", work.spec) ELSE {}
    <3>1. CASE gate
      <4>1. list \in MapsFrom("PrometheusRule", work.ruler, work.spec) /\ "PrometheusRule" \in Kinds
        BY <1>4, <3>1 DEF MapsFrom, TheOne, Kinds
      <4> HIDE DEF list
      <4> QED BY <1>1, <3>1, <4>1, ReadMaps DEF Entries
    <3>2. CASE ~ gate
      <4>1. list = <<>>
        BY <3>2 DEF TheOne
      <4>2. Entries({}) = {}
        BY DEF Entries, DataOf
      <4> HIDE DEF list
      <4> QED BY <3>2, <4>1, <4>2, NoMaps
    <3> QED BY <3>1, <3>2
  <2> HIDE DEF list, found
  <2>3. new = [ruler |-> work.ruler, spec |-> work.spec,
               stage |-> IF list = <<>> THEN "sts" ELSE "promrule", todo |-> list,
               failed |-> work.failed, files |-> work.files \cup FilesOf(ToSet(list)),
               tenants |-> work.tenants \cup TenantsOf(ToSet(list))]
    BY <1>1, <1>2, <1>4, <2>1, WritingIs
  <2>4. /\ new.ruler = work.ruler /\ new.spec = work.spec /\ new.todo = list
        /\ new.stage = (IF list = <<>> THEN "sts" ELSE "promrule")
        /\ new.failed = work.failed /\ new.files = work.files \cup FilesOf(ToSet(list))
        /\ new.tenants = work.tenants \cup TenantsOf(ToSet(list))
    BY <2>3, JobFields
  <2>5. new.stage \in {"promrule", "sts"} /\ new # Idle
    BY <2>4 DEF Idle
  <2> QED BY <2>1, <2>2, <2>4, <2>5
<1> QED BY <1>3, <1>4

\* A ruler that nobody touches stays settled.
LEMMA LeftSettled ==
    ASSUME NEW r, UNCHANGED <<gate, objs>>, specs'[r] = specs[r], missed'[r] = missed[r],
           sts'[r] = sts[r], secret'[r] = secret[r], Settled(r)
    PROVE  Settled(r)'
BY DEF Settled

\* The step of a job leaves every other ruler settled and its own about to be.
LEMMA JobRests ==
    ASSUME RulesInv, RestInv, work # Idle, work' # Idle, work'.ruler = work.ruler,
           queue \subseteq queue',
           \A r \in DOMAIN Rulers \ queue' : r # work.ruler /\ Settled(r) => Settled(r)',
           NEW own, own = work.ruler,
           own \notin queue' /\ ~ work'.failed => Pending(own)',
           work'.stage \in {"list", "sts", "prune"} => ~ work'.failed
    PROVE  RestInv'
<1>1. \A r \in DOMAIN Rulers \ queue' : r # own => Settled(r)'
  BY DEF RestInv
<1> QED BY <1>1 DEF RestInv

\* The second listing adds the files of PrometheusRules to those of user
\* ConfigMaps (thanosruler_controller.go:217-232).
LEMMA ListRests == ASSUME RulesInv, RestInv, ListPrometheusRules PROVE RestInv'
<1>1. /\ Job(work) /\ Read(work) /\ work # Idle /\ work.stage = "list" /\ work.todo = <<>>
      /\ ~ work.failed /\ ObjectsKnown /\ MissedKnown
      /\ UNCHANGED <<gate, specs, objs, sts, secret, queue>>
      /\ missed' = IF gate THEN [missed EXCEPT ![work.ruler] = {k \in @ : k[1] # "PrometheusRule"}]
                   ELSE missed
  BY DEF RulesInv, Typed, ListPrometheusRules, In, Job, RestInv
<1>2. PICK r, job : r = work.ruler /\ job = work' /\ r \in DOMAIN Rulers
  BY <1>1 DEF Job
<1>3. ASSUME NEW q \in DOMAIN Rulers \ queue', q # r, Settled(q) PROVE Settled(q)'
  <2>1. missed'[q] = missed[q]
    BY <1>1, <1>2, <1>3 DEF MissedKnown
  <2> QED BY <1>1, <1>3, <2>1, LeftSettled
<1>4. CASE work' = Failed
  <2>1. /\ work' # Idle /\ work'.stage = "report" /\ work'.failed /\ work'.ruler = r
    BY <1>1, <1>2, <1>4, FailedJob
  <2> QED BY <1>1, <1>2, <1>3, <2>1, JobRests
<1>5. CASE work' # Failed
  <2>1. PICK list :
          /\ job.ruler = r /\ job.spec = work.spec /\ job # Idle
          /\ job.stage \in {"promrule", "sts"} /\ job.todo = list
          /\ job.failed = work.failed
          /\ job.files = work.files \cup FilesOf(ToSet(list))
          /\ job.tenants = work.tenants \cup TenantsOf(ToSet(list))
          /\ OwnMaps(list, r)
          /\ Entries(ToSet(list)) = IF gate THEN Wanted("PrometheusRule", work.spec) ELSE {}
    BY <1>2, <1>5, ListedIs
  <2>2. ASSUME r \notin queue' PROVE Pending(r)'
    <3>1. Pending(r)
      BY <1>1, <1>2, <2>2 DEF RestInv
    <3>2. PICK spec, keys, fewer : spec = specs[r] /\ keys = missed[r] /\ fewer = missed'[r]
      OBVIOUS
    <3>3. PICK maps :
            /\ Made(r, maps) /\ There(objs, maps \ ToSet(work.todo))
            /\ work.files = FilesOf(maps) /\ work.tenants = TenantsOf(maps)
            /\ Noticed(Entries(maps), keys) =
                 Noticed(Chosen(objs, gate, spec, work.stage \notin {"user", "list"}), keys)
      BY <1>2, <3>1, <3>2 DEF Pending, PendingIn
    <3>4. work.spec = spec
      BY <3>1, <3>2 DEF Pending, PendingIn
    <3>5. There(objs, maps)
      BY <1>1, <3>3, NoMaps DEF There
    <3>6. Noticed(Entries(maps), keys) = Noticed(WantedIn(objs, "ConfigMap", spec), keys)
      <4>1. (work.stage \notin {"user", "list"}) = FALSE
        BY <1>1
      <4>2. Chosen(objs, gate, spec, FALSE) = WantedIn(objs, "ConfigMap", spec)
        BY DEF Chosen
      <4> QED BY <3>3, <4>1, <4>2
    <3>7. Noticed(Entries(maps), fewer) = Noticed(WantedIn(objs, "ConfigMap", spec), fewer)
      <4>1. CASE ~ gate
        <5>1. fewer = keys
          BY <1>1, <3>2, <4>1
        <5> QED BY <3>6, <5>1
      <4>2. CASE gate
        <5>1. keys \subseteq SourceKeys /\ fewer = {k \in keys : k[1] # "PrometheusRule"}
          BY <1>1, <1>2, <3>2, <4>2 DEF MissedKnown
        <5>2. ASSUME NEW e \in Entries(maps) PROVE e.key \in NamesOf("ConfigMap")
          <6>1. PICK d \in DataOf(maps) : e = Entry(d)
            BY DEF Entries
          <6>2. PICK c \in maps : d \in c.body.data
            BY DEF DataOf
          <6>3. <<c.name, d.key>> \in work.files
            BY <3>3, <6>2 DEF FilesOf
          <6>4. <<c.name, d.key>>[2] \in NamesOf("ConfigMap")
            BY <1>1, <6>3 DEF Read
          <6> QED BY <6>1, <6>4 DEF Entry
        <5>3. \A e \in WantedIn(objs, "ConfigMap", spec) : e.key \in NamesOf("ConfigMap")
          BY <1>1, WantedNames
        <5> QED BY <3>6, <5>1, <5>2, <5>3, OtherKindNoticed
      <4> QED BY <4>1, <4>2
    <3>8. PICK more : more = ToSet(list)
      OBVIOUS
    <3>9. Chosen(objs, gate, spec, TRUE) = WantedIn(objs, "ConfigMap", spec) \cup Entries(more)
      BY <2>1, <3>4, <3>8, WantedNow DEF Chosen
    <3>10. Noticed(Entries(maps \cup more), fewer) = Noticed(Chosen(objs, gate, spec, TRUE), fewer)
      <4>1. Entries(maps \cup more) = Entries(maps) \cup Entries(more)
        BY Together
      <4> QED BY <3>7, <3>9, <4>1 DEF Noticed
    <3>11. PendingIn(job, objs, gate, spec, fewer, sts[r], secret[r])
      <4>1. PICK all : all = maps \cup more
        OBVIOUS
      <4>2. Made(r, all) /\ more \subseteq all /\ There(objs, all \ more)
        BY <2>1, <3>3, <3>5, <3>8, <4>1 DEF Made, There, OwnMaps
      <4>3. job.files = FilesOf(all) /\ job.tenants = TenantsOf(all)
        <5>1. FilesOf(all) = FilesOf(maps) \cup FilesOf(more)
              /\ TenantsOf(all) = TenantsOf(maps) \cup TenantsOf(more)
          BY <4>1, Together
        <5>2. job.files = work.files \cup FilesOf(more) /\ job.tenants = work.tenants \cup TenantsOf(more)
          BY <2>1, <3>8
        <5> QED BY <3>3, <5>1, <5>2
      <4>4. (job.stage \notin {"user", "list"}) = TRUE /\ job.stage \notin {"secret", "prune", "report"}
        BY <2>1
      <4>5. Noticed(Entries(all), fewer) = Noticed(Chosen(objs, gate, spec, job.stage \notin {"user", "list"}), fewer)
        BY <3>10, <4>1, <4>4
      <4>6. job.ruler = r /\ job.spec = spec /\ ToSet(job.todo) = more
        BY <2>1, <3>4, <3>8
      <4> QED BY <4>2, <4>3, <4>4, <4>5, <4>6 DEF PendingIn
    <3> QED BY <1>1, <1>2, <3>2, <3>11 DEF Pending
  <2> QED BY <1>1, <1>2, <1>3, <2>1, <2>2, JobRests
<1> QED BY <1>4, <1>5

\* A StatefulSet that is written tells the pods the files of the job
\* (thanosruler_controller.go:234-262).
LEMMA WriteStatefulSetRests == ASSUME RulesInv, RestInv, WriteStatefulSet PROVE RestInv'
<1>1. /\ Job(work) /\ work # Idle /\ work.stage = "sts" /\ ~ work.failed /\ Typed
      /\ UNCHANGED <<gate, specs, objs, secret, queue, missed>>
  BY DEF RulesInv, WriteStatefulSet, In, RestInv
<1>2. PICK fails \in BOOLEAN :
        /\ sts' = IF fails THEN sts ELSE [sts EXCEPT ![work.ruler] = work.files]
        /\ work' = [work EXCEPT !.stage = "secret", !.failed = fails]
  BY DEF WriteStatefulSet
<1>3. PICK r, job : r = work.ruler /\ job = work' /\ r \in DOMAIN Rulers
  BY <1>1 DEF Job
<1>4. /\ job.ruler = r /\ job.spec = work.spec /\ job.stage = "secret" /\ job.todo = work.todo
      /\ job.failed = fails /\ job.files = work.files /\ job.tenants = work.tenants /\ job # Idle
  <2>1. work = [ruler |-> work.ruler, spec |-> work.spec, stage |-> work.stage, todo |-> work.todo,
                failed |-> work.failed, files |-> work.files, tenants |-> work.tenants]
    BY <1>1 DEF Job
  <2>2. job = [ruler |-> work.ruler, spec |-> work.spec, stage |-> "secret", todo |-> work.todo,
               failed |-> fails, files |-> work.files, tenants |-> work.tenants]
    BY <1>2, <1>3, <2>1
  <2>3. /\ job.ruler = work.ruler /\ job.spec = work.spec /\ job.stage = "secret"
        /\ job.todo = work.todo /\ job.failed = fails /\ job.files = work.files
        /\ job.tenants = work.tenants
    BY <2>2, JobFields
  <2> QED BY <1>3, <2>3 DEF Idle
<1>5. ASSUME NEW q \in DOMAIN Rulers \ queue', q # r, Settled(q) PROVE Settled(q)'
  <2>1. sts'[q] = sts[q]
    BY <1>1, <1>2, <1>3, <1>5 DEF Typed
  <2> QED BY <1>1, <1>5, <2>1, LeftSettled
<1>6. ASSUME r \notin queue', ~ job.failed PROVE Pending(r)'
  <2>1. Pending(r)
    BY <1>1, <1>3, <1>6 DEF RestInv
  <2>2. sts'[r] = work.files
    BY <1>1, <1>2, <1>3, <1>4, <1>6 DEF Typed
  <2>3. PICK spec, keys, told : spec = specs[r] /\ keys = missed[r] /\ told = sts'[r]
    OBVIOUS
  <2>4. PendingIn(work, objs, gate, spec, keys, sts[r], secret[r])
    BY <2>1, <2>3 DEF Pending
  <2>5. PendingIn(job, objs, gate, spec, keys, told, secret[r])
    <3>1. (job.stage \notin {"user", "list"}) = (work.stage \notin {"user", "list"})
      BY <1>1, <1>4
    <3> QED BY <1>3, <1>4, <2>2, <2>3, <2>4, <3>1 DEF PendingIn
  <2> QED BY <1>1, <1>3, <2>3, <2>5 DEF Pending
<1> QED BY <1>1, <1>3, <1>4, <1>5, <1>6, JobRests

\* The Secret is written next; a job that could not write the StatefulSet ends
\* here (thanosruler_controller.go:264-279).
LEMMA WriteSecretRests == ASSUME RulesInv, RestInv, WriteSecret PROVE RestInv'
<1>1. /\ Job(work) /\ Read(work) /\ work # Idle /\ work.stage = "secret" /\ Typed
      /\ UNCHANGED <<gate, specs, objs, sts, queue, missed>>
  BY DEF RulesInv, WriteSecret, In
<1>2. PICK fails \in BOOLEAN :
        /\ secret' = IF fails THEN secret ELSE [secret EXCEPT ![work.ruler] = work.tenants]
        /\ work' = IF work.failed \/ fails THEN Failed ELSE [work EXCEPT !.stage = "prune"]
  BY DEF WriteSecret
<1>3. PICK r, job : r = work.ruler /\ job = work' /\ r \in DOMAIN Rulers
  BY <1>1 DEF Job
<1>4. ASSUME NEW q \in DOMAIN Rulers \ queue', q # r, Settled(q) PROVE Settled(q)'
  <2>1. secret'[q] = secret[q]
    BY <1>1, <1>2, <1>3, <1>4 DEF Typed
  <2> QED BY <1>1, <1>4, <2>1, LeftSettled
<1>5. CASE work.failed \/ fails
  <2>1. work' = Failed
    BY <1>2, <1>5
  <2>2. /\ work' # Idle /\ work'.stage = "report" /\ work'.failed /\ work'.ruler = r
    BY <1>1, <1>3, <2>1, FailedJob
  <2> QED BY <1>1, <1>3, <1>4, <2>2, JobRests
<1>6. CASE ~ work.failed /\ ~ fails
  <2>1. /\ job.ruler = r /\ job.spec = work.spec /\ job.stage = "prune" /\ job.todo = work.todo
        /\ job.failed = work.failed /\ job.files = work.files /\ job.tenants = work.tenants /\ job # Idle
    <3>1. work = [ruler |-> work.ruler, spec |-> work.spec, stage |-> work.stage, todo |-> work.todo,
                  failed |-> work.failed, files |-> work.files, tenants |-> work.tenants]
      BY <1>1 DEF Job
    <3>2. job = [ruler |-> work.ruler, spec |-> work.spec, stage |-> "prune", todo |-> work.todo,
                 failed |-> work.failed, files |-> work.files, tenants |-> work.tenants]
      BY <1>2, <1>3, <1>6, <3>1
    <3>3. /\ job.ruler = work.ruler /\ job.spec = work.spec /\ job.stage = "prune"
          /\ job.todo = work.todo /\ job.failed = work.failed /\ job.files = work.files
          /\ job.tenants = work.tenants
      BY <3>2, JobFields
    <3> QED BY <1>3, <3>3 DEF Idle
  <2>2. ASSUME r \notin queue' PROVE Pending(r)'
    <3>1. Pending(r)
      BY <1>1, <1>3, <1>6, <2>2 DEF RestInv
    <3>2. secret'[r] = work.tenants
      BY <1>1, <1>2, <1>3, <1>6 DEF Typed
    <3>3. PICK spec, keys, written : spec = specs[r] /\ keys = missed[r] /\ written = secret'[r]
      OBVIOUS
    <3>4. PendingIn(work, objs, gate, spec, keys, sts[r], secret[r])
      BY <3>1, <3>3 DEF Pending
    <3>5. PendingIn(job, objs, gate, spec, keys, sts[r], written)
      <4>1. (job.stage \notin {"user", "list"}) = (work.stage \notin {"user", "list"})
        BY <1>1, <2>1
      <4> QED BY <1>1, <1>3, <2>1, <3>2, <3>3, <3>4, <4>1 DEF PendingIn
    <3> QED BY <1>1, <1>3, <3>3, <3>5 DEF Pending
  <2> QED BY <1>1, <1>3, <1>4, <1>6, <2>1, <2>2, JobRests
<1> QED BY <1>5, <1>6

\* Derived ConfigMaps without an expected name are pruned: a ruler of which one
\* goes is woken, and the ConfigMaps of a ruler that is not are those that its
\* job wrote (thanosruler_controller.go:1012-1033).
LEMMA CleanupRests == ASSUME RulesInv, RestInv, Cleanup PROVE RestInv'
<1>1. /\ Job(work) /\ Read(work) /\ work # Idle /\ work.stage = "prune" /\ work.todo = <<>>
      /\ ~ work.failed /\ ObjectsKnown /\ UNCHANGED <<gate, specs, sts, secret, missed>>
  BY DEF RulesInv, Cleanup, In, RestInv, Job, Typed
<1>2. PICK orphans : orphans = pruneOrphanedDerivedConfigMaps(getNames(work.files))
  OBVIOUS
<1>3. PICK stay :
        /\ Change(Without(orphans \ stay))
        /\ work' = IF stay = {} THEN [work EXCEPT !.stage = "report"] ELSE Failed
  BY <1>2 DEF Cleanup
<1>4. PICK new : new = Without(orphans \ stay) /\ Change(new) /\ objs' = new
  BY <1>3 DEF Change
<1>5. SameRest(objs, new)
  BY <1>2, <1>4, WithoutDerived DEF pruneOrphanedDerivedConfigMaps
<1>6. PICK r, job : r = work.ruler /\ job = work' /\ r \in DOMAIN Rulers
  BY <1>1 DEF Job
<1>7. ASSUME NEW q \in DOMAIN Rulers \ queue'
      PROVE  q \notin queue /\ (Settled(q) => Settled(q)')
  BY <1>1, <1>4, <1>5, <1>7, DerivedChange
<1>8. queue \subseteq queue'
  BY <1>4 DEF Change
<1>9. CASE stay # {}
  <2>1. work' = Failed
    BY <1>3, <1>9
  <2>2. /\ work' # Idle /\ work'.stage = "report" /\ work'.failed /\ work'.ruler = r
    BY <1>1, <1>6, <2>1, FailedJob
  <2> QED BY <1>1, <1>6, <1>7, <1>8, <2>2, JobRests
<1>10. CASE stay = {}
  <2>1. /\ job.ruler = r /\ job.spec = work.spec /\ job.stage = "report" /\ job.todo = work.todo
        /\ job.failed = work.failed /\ job.files = work.files /\ job.tenants = work.tenants /\ job # Idle
    <3>1. work = [ruler |-> work.ruler, spec |-> work.spec, stage |-> work.stage, todo |-> work.todo,
                  failed |-> work.failed, files |-> work.files, tenants |-> work.tenants]
      BY <1>1 DEF Job
    <3>2. job = [ruler |-> work.ruler, spec |-> work.spec, stage |-> "report", todo |-> work.todo,
                 failed |-> work.failed, files |-> work.files, tenants |-> work.tenants]
      BY <1>3, <1>6, <1>10, <3>1
    <3>3. /\ job.ruler = work.ruler /\ job.spec = work.spec /\ job.stage = "report"
          /\ job.todo = work.todo /\ job.failed = work.failed /\ job.files = work.files
          /\ job.tenants = work.tenants
      BY <3>2, JobFields
    <3> QED BY <1>6, <3>3 DEF Idle
  <2>2. ASSUME r \notin queue' PROVE Pending(r)'
    <3>1. Pending(r) /\ r # NoOwner
      BY <1>1, <1>6, <1>7, <2>2, RulersAssumption DEF RestInv
    <3>2. PICK spec, keys : spec = specs[r] /\ keys = missed[r]
      OBVIOUS
    <3>3. PICK maps :
            /\ Made(r, maps) /\ There(objs, maps \ ToSet(work.todo))
            /\ work.files = FilesOf(maps) /\ work.tenants = TenantsOf(maps)
            /\ Noticed(Entries(maps), keys) =
                 Noticed(Chosen(objs, gate, spec, work.stage \notin {"user", "list"}), keys)
      BY <1>6, <3>1, <3>2 DEF Pending, PendingIn
    <3>4. work.spec = spec /\ sts[r] = work.files /\ secret[r] = work.tenants
      BY <1>1, <3>1, <3>2 DEF Pending, PendingIn
    <3>5. There(new, maps) /\ Owned(new, r) = Owned(objs, r)
      <4>1. There(objs, maps)
        BY <1>1, <3>3, NoMaps DEF There
      <4> QED BY <1>4, <1>6, <2>2, <3>3, <4>1, OwnedStays
    <3>6. Noticed(Entries(maps), keys) =
            Noticed(Chosen(new, gate, spec, job.stage \notin {"user", "list"}), keys)
      <4>1. (work.stage \notin {"user", "list"}) = (job.stage \notin {"user", "list"})
        BY <1>1, <2>1
      <4>2. \A open, all : Chosen(new, open, spec, all) = Chosen(objs, open, spec, all)
        BY <1>5, SameWanted DEF SameRest
      <4> QED BY <3>3, <4>1, <4>2
    <3>7. Owned(new, r) = MapKeys(sts[r])
      <4>1. Known(new)
        BY <1>1, <1>4, WithoutKnown
      <4>2. ASSUME NEW k \in Owned(new, r) PROVE k \in MapKeys(sts[r])
        <5>1. k \in DOMAIN new /\ new[k].owner # NoOwner
          BY <3>1 DEF Owned
        <5>2. Key(new[k]) = k /\ k[1] = "ConfigMap" /\ IsDerived(new[k])
          BY <4>1, <5>1, OwnedIsDerived
        <5>3. k \in DOMAIN objs /\ k \notin orphans /\ new[k] = objs[k]
          BY <1>4, <1>10, <5>1 DEF Without
        <5>4. k[2] \in getNames(work.files)
          BY <1>2, <5>2, <5>3 DEF pruneOrphanedDerivedConfigMaps
        <5>5. k = <<k[1], k[2]>>
          BY <5>2 DEF Key
        <5> QED BY <3>4, <5>2, <5>4, <5>5 DEF MapKeys
      <4>3. ASSUME NEW k \in MapKeys(sts[r]) PROVE k \in Owned(new, r)
        <5>1. PICK n \in getNames(work.files) : k = <<"ConfigMap", n>>
          BY <3>4 DEF MapKeys
        <5>2. PICK f \in FilesOf(maps) : n = f[1]
          BY <3>3 DEF getNames
        <5>3. PICK c \in maps : \E d \in c.body.data : f = <<c.name, d.key>>
          BY DEF FilesOf
        <5>4. n = c.name
          BY <5>2, <5>3
        <5>5. IsDerivedMap(c) /\ c.owner = r /\ Key(c) \in DOMAIN new /\ new[Key(c)] = c
          BY <3>3, <3>5 DEF Made, There
        <5>6. Key(c) = k
          BY <5>1, <5>4, <5>5, DerivedParts
        <5> QED BY <5>5, <5>6 DEF Owned
      <4> QED BY <4>2, <4>3
    <3>8. PendingIn(job, new, gate, spec, keys, sts[r], secret[r])
      <4>1. ToSet(job.todo) \subseteq maps /\ There(new, maps \ ToSet(job.todo))
        BY <1>1, <2>1, <3>5, NoMaps DEF There
      <4>2. job.spec = spec /\ job.ruler = r /\ job.files = FilesOf(maps) /\ job.tenants = TenantsOf(maps)
            /\ sts[r] = job.files /\ secret[r] = job.tenants
        BY <2>1, <3>3, <3>4
      <4> QED BY <3>3, <3>6, <3>7, <4>1, <4>2 DEF PendingIn
    <3> QED BY <1>1, <1>4, <1>6, <3>2, <3>8 DEF Pending
  <2> QED BY <1>1, <1>6, <1>7, <1>8, <2>1, <2>2, JobRests
<1> QED BY <1>9, <1>10

\* A job that did not fail has settled its ruler; one that did returns an error,
\* which queues the ruler again (thanosruler_controller.go:131-203).
LEMMA ReportRests == ASSUME RulesInv, RestInv, Report PROVE RestInv'
<1>1. /\ Job(work) /\ work # Idle /\ work.stage = "report" /\ work.todo = <<>> /\ work' = Idle
      /\ queue' = queue \cup (IF work.failed THEN {work.ruler} ELSE {})
      /\ UNCHANGED <<gate, specs, objs, sts, secret, missed>>
  BY DEF RulesInv, Report, In, Job
<1>2. ASSUME NEW q \in DOMAIN Rulers \ queue' PROVE Settled(q)
  <2>1. q \notin queue
    BY <1>1, <1>2
  <2>2. CASE work.ruler # q
    BY <2>1, <2>2 DEF RestInv
  <2>3. CASE work.ruler = q
    <3>1. Pending(q)
      BY <1>1, <1>2, <2>1, <2>3 DEF RestInv
    <3>2. PICK spec, keys : spec = specs[q] /\ keys = missed[q]
      OBVIOUS
    <3>3. PICK maps :
            /\ Made(q, maps) /\ There(objs, maps \ ToSet(work.todo))
            /\ work.files = FilesOf(maps) /\ work.tenants = TenantsOf(maps)
            /\ Noticed(Entries(maps), keys) =
                 Noticed(Chosen(objs, gate, spec, work.stage \notin {"user", "list"}), keys)
      BY <2>3, <3>1, <3>2 DEF Pending, PendingIn
    <3>4. /\ sts[q] = work.files /\ secret[q] = work.tenants /\ Owned(objs, q) = MapKeys(sts[q])
      BY <1>1, <2>3, <3>1 DEF Pending, PendingIn
    <3>5. There(objs, maps)
      BY <1>1, <3>3, NoMaps DEF There
    <3>6. Noticed(Entries(maps), keys) = Noticed(Chosen(objs, gate, spec, TRUE), keys)
      <4>1. (work.stage \notin {"user", "list"}) = TRUE
        BY <1>1
      <4> QED BY <3>3, <4>1
    <3>7. SettledIn(q, objs, gate, spec, keys, sts[q], secret[q])
      BY <3>3, <3>4, <3>5, <3>6 DEF SettledIn
    <3> QED BY <3>2, <3>7 DEF Settled
  <2> QED BY <2>2, <2>3
<1>3. \A q \in DOMAIN Rulers \ queue' : Settled(q)'
  BY <1>1, <1>2, LeftSettled
<1> QED BY <1>1, <1>3 DEF RestInv

\* An edit of a ruler queues it (thanosruler_controller.go:666).
LEMMA EditRulerRests == ASSUME RulesInv, RestInv, NEW r \in DOMAIN Rulers, EditRuler(r) PROVE RestInv'
<1>1. /\ queue' = queue \cup {r} /\ UNCHANGED <<gate, objs, sts, secret, work, missed>>
      /\ \A q \in DOMAIN Rulers : q # r => specs'[q] = specs[q]
  BY DEF EditRuler, RulesInv, Typed
<1>2. ASSUME NEW q \in DOMAIN Rulers \ queue'
      PROVE  q \notin queue /\ (Settled(q) => Settled(q)') /\ (Pending(q) => Pending(q)')
  BY <1>1, <1>2 DEF Settled, Pending
<1> QED BY <1>1, <1>2 DEF RestInv

-----------------------------------------------------------------------------
\* Every step keeps a ruler that nobody woke settled, or about to be.
LEMMA RestStep == ASSUME SelectorsAgree, RulesInv, RestInv, [Next]_vars PROVE RestInv'
<1>1. CASE Worker
  BY <1>1, ReconcileRests, WriteConfigMapRests, ListRests, WriteStatefulSetRests,
     WriteSecretRests, CleanupRests, ReportRests DEF Worker
<1>2. CASE Restart
  BY <1>2 DEF Restart, RestInv
<1>3. CASE UNCHANGED vars
  BY <1>3 DEF vars, RestInv, Settled, Pending
<1> QED BY <1>1, <1>2, <1>3, EditSourceRests, RemoveSourceRests, EditRulerRests, LossRests DEF Next

\* At rest a settled ruler's pods load what it selects, and nothing is left over.
LEMMA RestIsLoaded == ASSUME RulesInv, RestInv PROVE RestsOnlyWhenLoaded
<1> SUFFICES ASSUME AtRest, NEW r \in DOMAIN Rulers
             PROVE  /\ {d \in Loads(r) : d.key \notin MissedNames(r)} =
                         {d \in Selected(r) : d.key \notin MissedNames(r)}
                    /\ Present(r) = sts[r]
                    /\ {k \in DOMAIN objs : objs[k].owner = r} =
                         {<<"ConfigMap", name>> : name \in getNames(sts[r])}
                    /\ UNION {d.label : d \in Loaded(r)} = secret[r]
  BY DEF RestsOnlyWhenLoaded
<1>1. Settled(r)
  BY DEF RestInv, AtRest
<1>2. PICK maps :
        /\ Made(r, maps) /\ There(objs, maps)
        /\ sts[r] = FilesOf(maps) /\ secret[r] = TenantsOf(maps)
        /\ Owned(objs, r) = MapKeys(sts[r])
        /\ Noticed(Entries(maps), missed[r]) = Noticed(Chosen(objs, gate, specs[r], TRUE), missed[r])
  BY <1>1 DEF Settled, SettledIn
<1>3. ASSUME NEW c \in maps
      PROVE  <<"ConfigMap", c.name>> \in DOMAIN objs /\ objs[<<"ConfigMap", c.name>>] = c
  <2>1. Key(c) = <<"ConfigMap", c.name>> /\ Key(c) \in DOMAIN objs /\ objs[Key(c)] = c
    BY <1>2, DerivedParts DEF Made, There
  <2> QED BY <2>1
<1>4. ASSUME NEW f \in sts[r]
      PROVE  \E c \in maps : \E d \in c.body.data : f = <<c.name, d.key>>
  BY <1>2 DEF FilesOf
<1>5. Present(r) = sts[r]
  <2>1. ASSUME NEW f \in sts[r] PROVE f \in Present(r)
    <3>1. PICK c \in maps : \E d \in c.body.data : f = <<c.name, d.key>>
      BY <1>4
    <3>2. PICK d \in c.body.data : f = <<c.name, d.key>>
      BY <3>1
    <3>3. f[1] = c.name /\ f[2] = d.key
      BY <3>2
    <3> QED BY <1>3, <3>3 DEF Present
  <2> QED BY <2>1 DEF Present
<1>6. Loaded(r) = DataOf(maps)
  <2>1. ASSUME NEW d \in Loaded(r) PROVE d \in DataOf(maps)
    <3>1. PICK f \in sts[r] : d \in Contents(f)
      BY <1>5 DEF Loaded
    <3>2. PICK c \in maps : \E x \in c.body.data : f = <<c.name, x.key>>
      BY <1>4
    <3>3. f[1] = c.name
      BY <3>2
    <3>4. d \in c.body.data
      BY <1>3, <3>1, <3>3 DEF Contents
    <3> QED BY <3>4 DEF DataOf
  <2>2. ASSUME NEW d \in DataOf(maps) PROVE d \in Loaded(r)
    <3>1. PICK c \in maps : d \in c.body.data
      BY DEF DataOf
    <3>2. PICK f : f = <<c.name, d.key>>
      OBVIOUS
    <3>3. f \in sts[r] /\ f[1] = c.name /\ f[2] = d.key
      BY <1>2, <3>1, <3>2 DEF FilesOf
    <3>4. d \in Contents(f)
      BY <1>3, <3>1, <3>3 DEF Contents
    <3> QED BY <1>5, <3>3, <3>4 DEF Loaded
  <2> QED BY <2>1, <2>2
<1>7. Loads(r) = Entries(maps) /\ MissedNames(r) = NamesMissed(missed[r])
  BY <1>6 DEF Loads, Entries, Entry, MissedNames, NamesMissed
<1>8. Selected(r) = Chosen(objs, gate, specs[r], TRUE)
  BY WantedNow DEF Selected, Chosen
<1>9. {d \in Loads(r) : d.key \notin MissedNames(r)} = {d \in Selected(r) : d.key \notin MissedNames(r)}
  BY <1>2, <1>7, <1>8 DEF Noticed
<1>10. {k \in DOMAIN objs : objs[k].owner = r} = {<<"ConfigMap", name>> : name \in getNames(sts[r])}
  BY <1>2 DEF Owned, MapKeys
<1>11. UNION {d.label : d \in Loaded(r)} = secret[r]
  <2>1. UNION {d.label : d \in DataOf(maps)} = TenantsOf(maps)
    BY DEF DataOf, TenantsOf
  <2> QED BY <1>2, <1>6, <2>1
<1> QED BY <1>5, <1>9, <1>10, <1>11

\* Whatever the rulers, their sources and what happens, with nothing queued and
\* the worker idle the pods of each ruler load exactly what it selects, nothing
\* derived is left over and every tenant is written for, provided that no ruler
\* selects another value of the label of rule files (thanosruler_controller.go:
\* 396-635, 811-842, 923-1033).
THEOREM RulesRestLoaded == ASSUME SelectorsAgree PROVE Spec => []RestsOnlyWhenLoaded
<1>1. Init => RestInv
  BY DEF Init, RestInv
<1>2. RulesInv /\ RestInv /\ [Next]_vars => RestInv'
  BY RestStep
<1>3. RulesInv /\ RestInv => RestsOnlyWhenLoaded
  BY RestIsLoaded
<1> QED BY <1>1, <1>2, <1>3, AlwaysRules, PTL DEF Spec
=============================================================================
