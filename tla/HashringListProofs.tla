------------------------- MODULE HashringListProofs -------------------------
(***************************************************************************)
(* hashrings.json, a list of entries, is read and written as the table that*)
(* Hashrings merges; for every set of rings, bound and replication factor. *)
(***************************************************************************)
EXTENDS HashringList, FiniteSetTheorems, SequenceTheorems, TLAPS

MergeFacts == INSTANCE HashringsProofs

(***************************************************************************)
(* Lists made of the members of a set: what ranging over a Go map, and     *)
(* sort.Slice after it, may return.                                        *)
(***************************************************************************)

\* The names by which HashringsProofs and the instance of Hashrings know the
\* operators of FiniteSets.
LEMMA SameCardinality ==
    \A S : Tables!Cardinality(S) = Cardinality(S) /\ MergeFacts!Cardinality(S) = Cardinality(S)
  BY DEF Tables!Cardinality, MergeFacts!Cardinality, Cardinality

\* A range over a map meets every key exactly once.
LEMMA EachOnce ==
    ASSUME NEW S, IsFiniteSet(S), NEW order \in SetToSeqs(S)
    PROVE  /\ Cardinality(S) \in Nat
           /\ order \in [1 .. Cardinality(S) -> S]
           /\ \A i, j \in 1 .. Cardinality(S) : order[i] = order[j] => i = j
           /\ \A x \in S : \E i \in 1 .. Cardinality(S) : order[i] = x
<1> DEFINE n == Cardinality(S)
<1>1. n \in Nat
  BY FS_CardinalityType
<1>2. /\ order \in [1 .. n -> S]
      /\ \A i, j \in 1 .. n : order[i] = order[j] => i = j
  BY DEF SetToSeqs
<1>3. order \in Injection(1 .. n, S)
  BY <1>2 DEF Injection, IsInjective
<1>4. Cardinality(1 .. n) = n
  BY <1>1, FS_Interval
<1>5. order \in Surjection(1 .. n, S)
  BY <1>3, <1>4, FS_Injection
<1> QED
  BY <1>1, <1>2, <1>5 DEF Surjection

\* A map can be ranged over.
LEMMA SomeOrder ==
    ASSUME NEW S, IsFiniteSet(S)
    PROVE  SetToSeqs(S) # {}
<1>1. Cardinality(S) \in Nat /\ ExistsBijection(1 .. Cardinality(S), S)
  BY FS_CardinalityType
<1>2. PICK order \in Bijection(1 .. Cardinality(S), S) : TRUE
  BY <1>1 DEF ExistsBijection
<1>3. order \in SetToSeqs(S)
  BY <1>2 DEF Bijection, Injection, IsInjective, SetToSeqs
<1> QED
  BY <1>3

\* The list of one entry for each member of a set, no two of one name.
LEMMA ListOfEntries ==
    ASSUME NEW S, IsFiniteSet(S), NEW order \in SetToSeqs(S), NEW f \in [S -> Entries],
           \A p, q \in S : f[p].name = f[q].name => p = q,
           NEW list, list = [i \in DOMAIN order |-> f[order[i]]]
    PROVE  /\ list \in Seq(Entries)
           /\ DOMAIN list = DOMAIN order
           /\ \A i, j \in DOMAIN list : list[i].name = list[j].name => i = j
           /\ ToSet(list) = {f[p] : p \in S}
<1> DEFINE n == Cardinality(S)
<1>1. /\ n \in Nat
      /\ order \in [1 .. n -> S]
      /\ \A i, j \in 1 .. n : order[i] = order[j] => i = j
      /\ \A x \in S : \E i \in 1 .. n : order[i] = x
  BY EachOnce
<1> HIDE DEF n
<1>2. list = [i \in 1 .. n |-> f[order[i]]]
  BY <1>1
<1>3. list \in [1 .. n -> Entries]
  BY <1>1, <1>2
<1>4. list \in Seq(Entries)
  BY <1>1, <1>3
<1>5. \A i, j \in DOMAIN list : list[i].name = list[j].name => i = j
  BY <1>1, <1>2
<1>6. ToSet(list) = {f[p] : p \in S}
  BY <1>1, <1>2 DEF ToSet
<1> QED
  BY <1>1, <1>2, <1>4, <1>5, <1>6

(***************************************************************************)
(* Sorting by name.                                                        *)
(***************************************************************************)

\* Among names, as among numbers, one is the first.
LEMMA FirstName ==
    ASSUME NEW K \in SUBSET Nat, K # {}
    PROVE  \E k \in K : \A j \in K : k <= j
<1> DEFINE before == {ss \in Nat \X Nat : ss[1] < ss[2]}
<1>1. IsWellFoundedOn(before, Nat)
  BY NatLessThanWellFounded DEF OpToRel
<1>2. PICK k \in K : \A j \in K : ~ (<<j, k>> \in before)
  BY <1>1, WFMin
<1>3. \A j \in K : ~ (j < k)
  BY <1>2
<1> QED
  BY <1>3

\* sort.Slice can sort: what is listed under distinct names has an order.
LEMMA SomeSorting ==
    ASSUME NEW S, IsFiniteSet(S), \A p \in S : p[1] \in Nat,
           \A p, q \in S : p[1] = q[1] => p = q
    PROVE  sortings(S) # {}
<1> DEFINE sizes == {n \in Nat : \E T \in SUBSET S : Cardinality(T) = n /\ sortings(T) = {}}
<1> SUFFICES ASSUME sortings(S) = {} PROVE FALSE
  OBVIOUS
<1>1. Cardinality(S) \in sizes
  BY FS_CardinalityType
<1>2. PICK n \in sizes : \A m \in sizes : n <= m
  BY <1>1, FirstName
<1>3. PICK T \in SUBSET S : Cardinality(T) = n /\ sortings(T) = {}
  BY <1>2
<1>4. n \in Nat /\ IsFiniteSet(T)
  BY <1>2, FS_Subset
<1>5. CASE T = {}
  <2>1. PICK order \in SetToSeqs(T) : TRUE
    BY <1>4, SomeOrder
  <2>2. n = 0 /\ order \in [1 .. n -> T]
    BY <1>3, <1>4, <1>5, <2>1, EachOnce, FS_EmptySet
  <2>3. DOMAIN order = {}
    BY <2>2
  <2>4. order \in sortings(T)
    BY <2>1, <2>3 DEF sortings
  <2> QED
    BY <1>3, <2>4
<1>6. CASE T # {}
  <2> DEFINE K == {p[1] : p \in T}
  <2>1. K \in SUBSET Nat /\ K # {}
    BY <1>6
  <2>2. PICK k \in K : \A j \in K : k <= j
    BY <2>1, FirstName
  <2>3. PICK first \in T : \A p \in T : first[1] <= p[1]
    BY <2>2
  <2> DEFINE rest == T \ {first}
  <2>4. IsFiniteSet(rest) /\ Cardinality(rest) = n - 1 /\ rest \in SUBSET S
    BY <1>3, <1>4, <2>3, FS_RemoveElement
  <2>5. n - 1 \in Nat
    BY <2>4, FS_CardinalityType
  <2>6. sortings(rest) # {}
    <3>1. n - 1 \notin sizes
      BY <1>2, <2>5
    <3> QED
      BY <2>4, <2>5, <3>1
  <2>7. PICK tail \in sortings(rest) : TRUE
    BY <2>6
  <2>8. /\ tail \in SetToSeqs(rest)
        /\ \A i, j \in DOMAIN tail : i < j => tail[i][1] <= tail[j][1]
    BY <2>7 DEF sortings
  <2>9. /\ tail \in [1 .. n - 1 -> rest]
        /\ \A i, j \in 1 .. n - 1 : tail[i] = tail[j] => i = j
    BY <2>4, <2>8, EachOnce
  <2> DEFINE order == [i \in 1 .. n |-> IF i = 1 THEN first ELSE tail[i - 1]]
  <2>10. \A i \in 2 .. n : order[i] = tail[i - 1] /\ order[i] \in rest /\ i - 1 \in 1 .. n - 1
    BY <1>4, <2>5, <2>9
  <2>11. 1 \in 1 .. n /\ order[1] = first
    BY <1>4, <2>5
  <2>12. \A i \in 1 .. n : i = 1 \/ i \in 2 .. n
    BY <1>4
  <2>13. order \in [1 .. n -> T]
    BY <2>3, <2>10, <2>11, <2>12
  <2>14. \A i, j \in 1 .. n : i # j => order[i] # order[j]
    BY <2>9, <2>10, <2>11, <2>12
  <2>15. order \in SetToSeqs(T)
    BY <1>3, <2>13, <2>14 DEF SetToSeqs
  <2>16. DOMAIN order = 1 .. n /\ DOMAIN tail = 1 .. n - 1
    BY <2>9
  <2> HIDE DEF order
  <2>17. \A i, j \in DOMAIN order : i < j => order[i][1] <= order[j][1]
    <3> SUFFICES ASSUME NEW i \in 1 .. n, NEW j \in 1 .. n, i < j
                 PROVE  order[i][1] <= order[j][1]
      BY <2>16
    <3>1. j \in 2 .. n
      OBVIOUS
    <3>2. CASE i = 1
      BY <2>3, <2>10, <2>11, <3>1, <3>2
    <3>3. CASE i \in 2 .. n
      <4>1. /\ order[i] = tail[i - 1] /\ i - 1 \in 1 .. n - 1
            /\ order[j] = tail[j - 1] /\ j - 1 \in 1 .. n - 1
        BY <2>10, <3>1, <3>3
      <4>2. i - 1 < j - 1
        OBVIOUS
      <4> QED
        BY <2>8, <2>16, <4>1, <4>2
    <3> QED
      BY <2>12, <3>2, <3>3
  <2>18. order \in sortings(T)
    BY <2>15, <2>17 DEF sortings
  <2> QED
    BY <1>3, <2>18
<1> QED
  BY <1>5, <1>6

\* Entries are compared by names, which are ordered.
LEMMA NamesOrdered ==
    ASSUME NEW e \in Entries
    PROVE  e.name \in Nat
<1>1. e.name \in Rings \cup {0}
  BY DEF Entries
<1>2. \A x \in Rings \cup {0} : x \in Nat
  BY RingsAssumption
<1> QED
  BY <1>1, <1>2

\* Two sorted lists of the same entries agree on the next one as well.
LEMMA SameNext ==
    ASSUME NEW a \in Seq(Entries), NEW b \in Seq(Entries), InOrder(a), InOrder(b),
           ToSet(a) = ToSet(b), NEW i \in DOMAIN a,
           \A j \in DOMAIN a \cup DOMAIN b :
               j < i => j \in DOMAIN a /\ j \in DOMAIN b /\ a[j] = b[j]
    PROVE  i \in DOMAIN b /\ a[i] = b[i]
<1>1. /\ Len(a) \in Nat /\ DOMAIN a = 1 .. Len(a)
      /\ Len(b) \in Nat /\ DOMAIN b = 1 .. Len(b)
  OBVIOUS
<1>2. /\ \A k \in DOMAIN a : a[k] \in Entries /\ \E j \in DOMAIN b : b[j] = a[k]
      /\ \A k \in DOMAIN b : b[k] \in Entries /\ \E j \in DOMAIN a : a[j] = b[k]
  <2>1. /\ \A k \in DOMAIN a : a[k] \in Entries /\ a[k] \in ToSet(a)
        /\ \A k \in DOMAIN b : b[k] \in Entries /\ b[k] \in ToSet(b)
    BY <1>1 DEF ToSet
  <2>2. /\ \A e \in ToSet(a) : \E j \in DOMAIN a : a[j] = e
        /\ \A e \in ToSet(b) : \E j \in DOMAIN b : b[j] = e
    BY DEF ToSet
  <2> QED
    BY <2>1, <2>2
<1>3. /\ \A k \in DOMAIN a : a[k].name \in Nat
      /\ \A k \in DOMAIN b : b[k].name \in Nat
  BY <1>2, NamesOrdered
<1>4. /\ \A j, k \in DOMAIN a : j < k => a[j].name < a[k].name
      /\ \A j, k \in DOMAIN b : j < k => b[j].name < b[k].name
  BY DEF InOrder
<1>5. PICK j \in DOMAIN b : b[j] = a[i]
  BY <1>2
<1>6. ~ (j < i)
  <2> SUFFICES ASSUME j < i PROVE FALSE
    OBVIOUS
  <2>1. j \in DOMAIN a /\ a[j] = a[i]
    BY <1>5
  <2>2. a[j].name < a[i].name
    BY <1>4, <2>1
  <2> QED
    BY <1>3, <2>1, <2>2
<1>7. SUFFICES ASSUME j # i PROVE FALSE
  BY <1>5
<1>8. i < j /\ i \in DOMAIN b
  BY <1>1, <1>5, <1>6, <1>7
<1>9. b[i].name < a[i].name
  BY <1>4, <1>5, <1>8
<1>10. PICK k \in DOMAIN a : a[k] = b[i]
  BY <1>2, <1>8
<1>11. ~ (i < k)
  <2> SUFFICES ASSUME i < k PROVE FALSE
    OBVIOUS
  <2>1. a[i].name < a[k].name
    BY <1>4, <1>10
  <2>2. a[k].name = b[i].name /\ a[i].name \in Nat /\ b[i].name \in Nat
    BY <1>3, <1>8, <1>10
  <2> QED
    BY <1>9, <2>1, <2>2
<1>12. k # i
  BY <1>3, <1>8, <1>9, <1>10
<1>13. k < i
  BY <1>1, <1>10, <1>11, <1>12
<1>14. k \in DOMAIN b /\ b[k] = b[i]
  BY <1>10, <1>13
<1>15. b[k].name < b[i].name
  BY <1>4, <1>8, <1>13, <1>14
<1> QED
  BY <1>3, <1>8, <1>14, <1>15

\* There is only one way to sort entries of distinct names.
LEMMA OneSorting ==
    ASSUME NEW a \in Seq(Entries), NEW b \in Seq(Entries), InOrder(a), InOrder(b),
           ToSet(a) = ToSet(b)
    PROVE  a = b
<1>1. /\ Len(a) \in Nat /\ DOMAIN a = 1 .. Len(a)
      /\ Len(b) \in Nat /\ DOMAIN b = 1 .. Len(b)
  OBVIOUS
<1> DEFINE same(i) == i \in DOMAIN a /\ i \in DOMAIN b /\ a[i] = b[i]
           differ == {i \in DOMAIN a \cup DOMAIN b : ~ same(i)}
<1>2. differ = {}
  <2> SUFFICES ASSUME differ # {} PROVE FALSE
    OBVIOUS
  <2>1. differ \in SUBSET Nat
    BY <1>1
  <2>2. PICK i \in differ : \A j \in differ : i <= j
    BY <2>1, FirstName
  <2>3. \A j \in DOMAIN a \cup DOMAIN b : j < i => same(j)
    BY <1>1, <2>1, <2>2
  <2>4. ~ same(i) /\ (i \in DOMAIN a \/ i \in DOMAIN b)
    BY <2>2
  <2>5. CASE i \in DOMAIN a
    BY <2>3, <2>4, <2>5, SameNext
  <2>6. CASE i \in DOMAIN b
    <3>1. \A j \in DOMAIN b \cup DOMAIN a :
              j < i => j \in DOMAIN b /\ j \in DOMAIN a /\ b[j] = a[j]
      BY <2>3
    <3>2. ToSet(b) = ToSet(a)
      OBVIOUS
    <3>3. i \in DOMAIN a /\ b[i] = a[i]
      BY <2>6, <3>1, <3>2, SameNext
    <3> QED
      BY <2>4, <2>6, <3>3
  <2> QED
    BY <2>4, <2>5, <2>6
<1>3. DOMAIN a = DOMAIN b /\ \A i \in DOMAIN a : a[i] = b[i]
  BY <1>2
<1>4. Len(a) = Len(b)
  <2> DEFINE n == Len(a)
             m == Len(b)
  <2>1. n \in Nat /\ m \in Nat /\ 1 .. n = 1 .. m
    BY <1>1, <1>3
  <2> HIDE DEF n, m
  <2>2. n = m
    <3>1. n >= 1 => n \in 1 .. m
      BY <2>1
    <3>2. m >= 1 => m \in 1 .. n
      BY <2>1
    <3> QED
      BY <2>1, <3>1, <3>2
  <2> QED
    BY <2>2 DEF n, m
<1> QED
  BY <1>1, <1>3, <1>4

(***************************************************************************)
(* The entries a merge lists.                                              *)
(***************************************************************************)

\* What users ask for and what the EndpointSlices may show.
Sensible == spec \in Specs /\ ready \in Tables!Table

\* No ring is listed twice.
Once(list) == \A i, j \in DOMAIN list : list[i].name = list[j].name => i = j

\* Every entry is one of a ring with members.
Inhabited(list) == \A i \in DOMAIN list : list[i].name # 0 /\ list[i].members # {}

\* The rings with every member ready, and their entries in a first publication.
whole == {h \in named : Cardinality(ready[h]) >= spec.replicas[h]}
published(h) == metaToHashring(h, ready[h])

\* The entry of a ring that is built anew.
anew(h) == metaToHashring(h, Tables!Chosen(spec.policy, spec.replicas[h], ready[h]))

\* The entries a merge lists, whatever their order.
Outcome(previous) ==
    IF isEmptyHashring(previous)
      THEN {published(h) : h \in whole}
      ELSE {anew(h) : h \in rebuilt} \cup {e \in ToSet(previous) : e.name \in named \ rebuilt}

\* A ring of the spec asks for rf members at least and has finitely many ready.
LEMMA RingOfSpec ==
    ASSUME Sensible, NEW h \in named
    PROVE  /\ h \in Rings /\ h \in Nat /\ h # 0
           /\ rf \in Nat /\ rf >= 1
           /\ spec.replicas[h] \in Nat /\ spec.replicas[h] >= rf
           /\ spec.tenants[h] \in TenantLists
           /\ ready[h] \in Tables!View
           /\ Cardinality(ready[h]) \in Nat
           /\ Cardinality(ready[h]) >= 1 => ready[h] # {}
<1>1. h \in Rings /\ spec.replicas[h] > 0
  BY DEF named
<1>2. h \in Nat /\ h # 0
  BY <1>1, RingsAssumption
<1>3. rf \in Nat /\ rf >= 1 /\ MaxReplicas \in Nat
  BY BoundAssumption, FactorAssumption
<1>4. /\ spec.replicas \in [Rings -> {0} \cup rf .. MaxReplicas]
      /\ spec.tenants \in [Rings -> TenantLists]
  BY DEF Sensible, Specs
<1>5. spec.replicas[h] \in {0} \cup rf .. MaxReplicas /\ spec.tenants[h] \in TenantLists
  BY <1>1, <1>4
<1>6. spec.replicas[h] \in Nat /\ spec.replicas[h] >= rf
  BY <1>1, <1>3, <1>5
<1>7. ready[h] \in Tables!View
  BY <1>1 DEF Sensible, Tables!Table
<1>8. IsFiniteSet(Tables!Ordinals)
  BY <1>3, FS_Interval DEF Tables!Ordinals
<1>9. IsFiniteSet(ready[h]) /\ Cardinality(ready[h]) \in Nat
  BY <1>7, <1>8, FS_Subset, FS_CardinalityType DEF Tables!View
<1>10. Cardinality(ready[h]) >= 1 => ready[h] # {}
  BY <1>9, FS_EmptySet
<1> QED
  BY <1>1, <1>2, <1>3, <1>5, <1>6, <1>7, <1>9, <1>10

\* An entry carries what metaToHashring is given.
LEMMA EntryOf ==
    ASSUME Sensible, NEW h \in named, NEW members \in Tables!View
    PROVE  /\ metaToHashring(h, members) \in Entries
           /\ metaToHashring(h, members).name = h
           /\ metaToHashring(h, members).members = members
<1>1. h \in Rings \cup {0} /\ spec.tenants[h] \in TenantLists \cup {"none"}
  BY RingOfSpec
<1> QED
  BY <1>1 DEF metaToHashring, Entries

\* Whatever a first publication lists has members, and would be built anew.
LEMMA WholeRings ==
    ASSUME Sensible, NEW h \in whole
    PROVE  /\ h \in named /\ h \in rebuilt
           /\ published(h) \in Entries
           /\ published(h).name = h
           /\ published(h).members = ready[h]
           /\ ready[h] # {}
<1>1. h \in named /\ Cardinality(ready[h]) >= spec.replicas[h]
  BY DEF whole
<1>2. /\ Cardinality(ready[h]) \in Nat /\ spec.replicas[h] \in Nat /\ rf \in Nat
      /\ spec.replicas[h] >= rf /\ rf >= 1
      /\ Cardinality(ready[h]) >= 1 => ready[h] # {}
      /\ ready[h] \in Tables!View
  BY <1>1, RingOfSpec
<1>3. Tables!Acceptable(spec.policy, spec.replicas[h], ready[h], rf)
  BY <1>1, <1>2, SameCardinality DEF Tables!Acceptable
<1>4. ready[h] # {}
  BY <1>1, <1>2
<1>5. h \in rebuilt
  BY <1>1, <1>3 DEF rebuilt
<1> QED
  BY <1>1, <1>2, <1>4, <1>5, EntryOf DEF published

\* Trimming never empties a ring (HashringsProofs).
LEMMA TrimNonEmpty ==
    ASSUME NEW view \in Tables!View, view # {}, NEW n \in Nat, n >= 1
    PROVE  Tables!trimTo(view, n) \in Tables!View /\ Tables!trimTo(view, n) # {}
<1>1. view \in MergeFacts!View
  BY DEF MergeFacts!View, Tables!View, Tables!Ordinals, MergeFacts!Ordinals
<1>2. MergeFacts!trimTo(view, n) \in MergeFacts!View /\ MergeFacts!trimTo(view, n) # {}
  BY <1>1, MergeFacts!TrimNonEmpty, BoundAssumption
<1> QED
  BY <1>2, SameCardinality
     DEF MergeFacts!View, Tables!View, Tables!Ordinals, MergeFacts!Ordinals, Tables!trimTo,
         MergeFacts!trimTo, Tables!AddressRank, MergeFacts!AddressRank

\* A ring that is built anew has members.
LEMMA RebuiltRings ==
    ASSUME Sensible, NEW h \in rebuilt
    PROVE  /\ h \in named
           /\ anew(h) \in Entries
           /\ anew(h).name = h
           /\ anew(h).members = Tables!Chosen(spec.policy, spec.replicas[h], ready[h])
           /\ anew(h).members # {}
<1>1. h \in named /\ Tables!Acceptable(spec.policy, spec.replicas[h], ready[h], rf)
  BY DEF rebuilt
<1>2. /\ Cardinality(ready[h]) \in Nat /\ spec.replicas[h] \in Nat /\ rf \in Nat
      /\ spec.replicas[h] >= rf /\ rf >= 1
      /\ Cardinality(ready[h]) >= 1 => ready[h] # {}
      /\ ready[h] \in Tables!View
  BY <1>1, RingOfSpec
<1>3. Cardinality(ready[h]) >= rf
  BY <1>1, SameCardinality DEF Tables!Acceptable
<1>4. ready[h] # {} /\ spec.replicas[h] >= 1
  BY <1>2, <1>3
<1> DEFINE chosen == Tables!Chosen(spec.policy, spec.replicas[h], ready[h])
<1>5. chosen \in Tables!View /\ chosen # {}
  BY <1>2, <1>4, TrimNonEmpty DEF Tables!Chosen
<1> HIDE DEF chosen
<1>6. /\ metaToHashring(h, chosen) \in Entries
      /\ metaToHashring(h, chosen).name = h
      /\ metaToHashring(h, chosen).members = chosen
  BY <1>1, <1>5, EntryOf
<1> QED
  BY <1>1, <1>5, <1>6 DEF anew, chosen

\* The keys of the maps are finitely many.
LEMMA NamedFinite ==
    /\ IsFiniteSet(named) /\ IsFiniteSet(whole) /\ IsFiniteSet(rebuilt)
<1>1. IsFiniteSet(Rings) /\ named \in SUBSET Rings
  BY RingsAssumption DEF named
<1>2. IsFiniteSet(named)
  BY <1>1, FS_Subset
<1>3. whole \in SUBSET named /\ rebuilt \in SUBSET named
  BY DEF whole, rebuilt
<1> QED
  BY <1>2, <1>3, FS_Subset

\* A first publication lists every ring that is whole, once.
LEMMA FirstPublication ==
    ASSUME Sensible
    PROVE  /\ handleUnseenHashrings # {}
           /\ \A out \in handleUnseenHashrings :
                /\ out \in Seq(Entries) /\ Once(out)
                /\ ToSet(out) = {published(h) : h \in whole}
<1> DEFINE f == [h \in whole |-> published(h)]
<1>1. handleUnseenHashrings =
        {[i \in DOMAIN order |-> metaToHashring(order[i], ready[order[i]])] :
           order \in SetToSeqs(whole)}
  BY DEF handleUnseenHashrings, whole
<1>2. IsFiniteSet(whole) /\ SetToSeqs(whole) # {}
  BY NamedFinite, SomeOrder
<1>3. f \in [whole -> Entries] /\ \A h \in whole : f[h] = published(h) /\ f[h].name = h
  BY WholeRings
<1>4. \A p, q \in whole : f[p].name = f[q].name => p = q
  BY <1>3
<1>5. {f[p] : p \in whole} = {published(h) : h \in whole}
  BY <1>3
<1> HIDE DEF f
<1>6. ASSUME NEW order \in SetToSeqs(whole),
             NEW out, out = [i \in DOMAIN order |-> metaToHashring(order[i], ready[order[i]])]
      PROVE  /\ out \in Seq(Entries) /\ Once(out)
             /\ ToSet(out) = {published(h) : h \in whole}
  <2>1. \A i \in DOMAIN order : order[i] \in whole
    <3>1. order \in [1 .. Cardinality(whole) -> whole]
      BY <1>2, <1>6, EachOnce
    <3> QED
      BY <3>1
  <2>2. out = [i \in DOMAIN order |-> f[order[i]]]
    BY <1>3, <1>6, <2>1 DEF published
  <2>3. /\ out \in Seq(Entries)
        /\ \A i, j \in DOMAIN out : out[i].name = out[j].name => i = j
        /\ ToSet(out) = {f[p] : p \in whole}
    BY <1>2, <1>3, <1>4, <2>2, ListOfEntries
  <2> QED
    BY <1>5, <2>3 DEF Once
<1>7. handleUnseenHashrings # {}
  BY <1>1, <1>2
<1>8. \A out \in handleUnseenHashrings :
        /\ out \in Seq(Entries) /\ Once(out)
        /\ ToSet(out) = {published(h) : h \in whole}
  <2> TAKE out \in handleUnseenHashrings
  <2>1. PICK order \in SetToSeqs(whole) :
           out = [i \in DOMAIN order |-> metaToHashring(order[i], ready[order[i]])]
    BY <1>1
  <2> QED
    BY <1>6, <2>1
<1> QED
  BY <1>7, <1>8

\* What a later merge lists, by name and place.
LEMMA ListedItems ==
    ASSUME Sensible, NEW previous \in Seq(Entries), Once(previous)
    PROVE  /\ IsFiniteSet(listed(previous))
           /\ \A p \in listed(previous) :
                /\ p[1] \in named /\ p[1] \in Nat
                /\ mergedEntry(previous, p) \in Entries
                /\ mergedEntry(previous, p).name = p[1]
           /\ \A p, q \in listed(previous) : p[1] = q[1] => p = q
           /\ {mergedEntry(previous, p) : p \in listed(previous)} =
                {anew(h) : h \in rebuilt} \cup {e \in ToSet(previous) : e.name \in named \ rebuilt}
<1> DEFINE places == {i \in DOMAIN previous : previous[i].name \in named \ rebuilt}
<1>1. Len(previous) \in Nat /\ DOMAIN previous = 1 .. Len(previous)
  OBVIOUS
<1>2. \A i \in DOMAIN previous : previous[i] \in Entries
  OBVIOUS
<1>3. listed(previous) = {<<h, 0>> : h \in rebuilt} \cup {<<previous[i].name, i>> : i \in places}
  BY DEF listed
<1>4. \A h \in rebuilt : mergedEntry(previous, <<h, 0>>) = anew(h)
  BY DEF mergedEntry, anew
<1>5. \A i \in places : i # 0 /\ mergedEntry(previous, <<previous[i].name, i>>) = previous[i]
  BY <1>1 DEF mergedEntry
<1>6. IsFiniteSet(listed(previous))
  <2>1. 0 \in Int /\ Len(previous) \in Int
    BY <1>1
  <2>2. IsFiniteSet(0 .. Len(previous)) /\ IsFiniteSet(named)
    BY <2>1, FS_Interval, NamedFinite
  <2>3. IsFiniteSet(named \X (0 .. Len(previous)))
    BY <2>2, FS_Product
  <2>4. /\ \A h \in rebuilt : h \in named /\ 0 \in 0 .. Len(previous)
        /\ \A i \in places : previous[i].name \in named /\ i \in 0 .. Len(previous)
    BY <1>1, RebuiltRings
  <2>5. listed(previous) \in SUBSET (named \X (0 .. Len(previous)))
    BY <1>3, <2>4
  <2> QED
    BY <2>3, <2>5, FS_Subset
<1>7. ASSUME NEW p \in listed(previous)
      PROVE  /\ p[1] \in named /\ p[1] \in Nat
             /\ mergedEntry(previous, p) \in Entries
             /\ mergedEntry(previous, p).name = p[1]
  <2>1. CASE \E h \in rebuilt : p = <<h, 0>>
    <3>1. PICK h \in rebuilt : p = <<h, 0>>
      BY <2>1
    <3>2. h \in named /\ h \in Nat /\ anew(h) \in Entries /\ anew(h).name = h
      BY RebuiltRings, RingOfSpec
    <3> QED
      BY <1>4, <3>1, <3>2
  <2>2. CASE \E i \in places : p = <<previous[i].name, i>>
    <3>1. PICK i \in places : p = <<previous[i].name, i>>
      BY <2>2
    <3>2. previous[i].name \in named /\ previous[i].name \in Nat
      BY RingOfSpec
    <3> QED
      BY <1>2, <1>5, <3>1, <3>2
  <2> QED
    BY <1>3, <2>1, <2>2
<1>8. \A p, q \in listed(previous) : p[1] = q[1] => p = q
  <2>1. \A i \in places : previous[i].name \notin rebuilt
    OBVIOUS
  <2>2. \A i, j \in places : previous[i].name = previous[j].name => i = j
    BY DEF Once
  <2> QED
    BY <1>3, <2>1, <2>2
<1>9. {mergedEntry(previous, p) : p \in listed(previous)} =
        {anew(h) : h \in rebuilt} \cup {e \in ToSet(previous) : e.name \in named \ rebuilt}
  <2>1. {mergedEntry(previous, p) : p \in listed(previous)} =
          {anew(h) : h \in rebuilt} \cup {previous[i] : i \in places}
    <3> DEFINE all == {mergedEntry(previous, p) : p \in listed(previous)}
               kept == {previous[i] : i \in places}
               new == {anew(h) : h \in rebuilt}
    <3>1. ASSUME NEW e \in all PROVE e \in new \cup kept
      <4>1. PICK p \in listed(previous) : e = mergedEntry(previous, p)
        OBVIOUS
      <4>2. CASE \E h \in rebuilt : p = <<h, 0>>
        BY <1>4, <4>1, <4>2
      <4>3. CASE \E i \in places : p = <<previous[i].name, i>>
        BY <1>5, <4>1, <4>3
      <4> QED
        BY <1>3, <4>2, <4>3
    <3>2. ASSUME NEW e \in new PROVE e \in all
      <4>1. PICK h \in rebuilt : e = anew(h)
        OBVIOUS
      <4>2. <<h, 0>> \in listed(previous) /\ e = mergedEntry(previous, <<h, 0>>)
        BY <1>3, <1>4, <4>1
      <4> QED
        BY <4>2
    <3>3. ASSUME NEW e \in kept PROVE e \in all
      <4>1. PICK i \in places : e = previous[i]
        OBVIOUS
      <4> DEFINE item == <<previous[i].name, i>>
      <4>2. item \in listed(previous) /\ e = mergedEntry(previous, item)
        BY <1>3, <1>5, <4>1
      <4> HIDE DEF item
      <4> QED
        BY <4>2
    <3> HIDE DEF all, kept, new
    <3>4. all = new \cup kept
      BY <3>1, <3>2, <3>3
    <3> QED
      BY <3>4 DEF all, kept, new
  <2>2. {previous[i] : i \in places} = {e \in ToSet(previous) : e.name \in named \ rebuilt}
    BY DEF ToSet
  <2> QED
    BY <2>1, <2>2
<1> QED
  BY <1>6, <1>7, <1>8, <1>9

\* A later merge lists rings in the order of their names, each of them once.
LEMMA LaterMerge ==
    ASSUME Sensible, NEW previous \in Seq(Entries), Once(previous),
           ~ isEmptyHashring(previous)
    PROVE  /\ Merges(previous) # {}
           /\ \A out \in Merges(previous) :
                /\ out \in Seq(Entries) /\ Once(out) /\ InOrder(out)
                /\ ToSet(out) = Outcome(previous)
<1> DEFINE S == listed(previous)
           f == [p \in S |-> mergedEntry(previous, p)]
<1>1. /\ IsFiniteSet(S)
      /\ \A p \in S : /\ p[1] \in Nat
                      /\ mergedEntry(previous, p) \in Entries
                      /\ mergedEntry(previous, p).name = p[1]
      /\ \A p, q \in S : p[1] = q[1] => p = q
      /\ {mergedEntry(previous, p) : p \in S} = Outcome(previous)
  BY ListedItems DEF Outcome
<1>2. Merges(previous) =
        {[i \in DOMAIN order |-> mergedEntry(previous, order[i])] : order \in sortings(S)}
  BY DEF Merges
<1> HIDE DEF S
<1>3. sortings(S) # {}
  BY <1>1, SomeSorting
<1>4. /\ f \in [S -> Entries]
      /\ \A p \in S : f[p] = mergedEntry(previous, p)
      /\ \A p, q \in S : f[p].name = f[q].name => p = q
      /\ {f[p] : p \in S} = Outcome(previous)
  <2>1. f \in [S -> Entries] /\ \A p \in S : f[p] = mergedEntry(previous, p)
    BY <1>1
  <2> HIDE DEF f
  <2>2. \A p, q \in S : f[p].name = f[q].name => p = q
    BY <1>1, <2>1
  <2>3. {f[p] : p \in S} = Outcome(previous)
    BY <1>1, <2>1
  <2> QED
    BY <2>1, <2>2, <2>3
<1> HIDE DEF f
<1>5. ASSUME NEW order \in sortings(S),
             NEW out, out = [i \in DOMAIN order |-> mergedEntry(previous, order[i])]
      PROVE  /\ out \in Seq(Entries) /\ Once(out) /\ InOrder(out)
             /\ ToSet(out) = Outcome(previous)
  <2>1. /\ order \in SetToSeqs(S)
        /\ \A i, j \in DOMAIN order : i < j => order[i][1] <= order[j][1]
    BY DEF sortings
  <2>2. \A i \in DOMAIN order : order[i] \in S
    BY <1>1, <2>1, EachOnce
  <2>3. out = [i \in DOMAIN order |-> f[order[i]]]
    BY <1>4, <1>5, <2>2
  <2>4. /\ out \in Seq(Entries) /\ DOMAIN out = DOMAIN order
        /\ \A i, j \in DOMAIN out : out[i].name = out[j].name => i = j
        /\ ToSet(out) = {f[p] : p \in S}
    BY <1>1, <1>4, <2>1, <2>3, ListOfEntries
  <2>5. InOrder(out)
    <3> SUFFICES ASSUME NEW i \in DOMAIN out, NEW j \in DOMAIN out, i < j
                 PROVE  out[i].name < out[j].name
      BY DEF InOrder
    <3>1. out[i].name = order[i][1] /\ out[j].name = order[j][1]
      BY <1>1, <1>5, <2>2, <2>4
    <3>2. order[i][1] \in Nat /\ order[j][1] \in Nat /\ order[i][1] <= order[j][1]
      BY <1>1, <2>1, <2>2, <2>4
    <3>3. i # j
      BY <2>4
    <3>4. out[i].name # out[j].name
      BY <2>4, <3>3
    <3> QED
      BY <3>1, <3>2, <3>4
  <2> QED
    BY <1>4, <2>4, <2>5 DEF Once
<1> QED
  BY <1>2, <1>3, <1>5

(***************************************************************************)
(* From one stored list to the next.                                       *)
(***************************************************************************)

\* What hashrings.json may be: one entry for each ring there is.
Stored(list) ==
    /\ list \in Seq(Entries)
    /\ Once(list)
    /\ list = EmptyHashringConfig \/ Inhabited(list)

\* "[{}]" is a list of one entry of no ring.
LEMMA EmptyList ==
    /\ EmptyHashringConfig \in Seq(Entries) /\ DOMAIN EmptyHashringConfig = {1}
    /\ Len(EmptyHashringConfig) = 1
    /\ EmptyHashringConfig[1].name = 0 /\ EmptyHashringConfig[1].members = {}
    /\ Stored(EmptyHashringConfig)
<1> DEFINE e == [name |-> 0, tenants |-> "none", members |-> {}, capnproto |-> FALSE]
<1>1. {} \in Tables!View
  BY DEF Tables!View
<1>2. e \in Entries /\ e.name = 0 /\ e.members = {}
  BY <1>1 DEF Entries
<1>3. EmptyHashringConfig = <<e>>
  BY DEF EmptyHashringConfig
<1> HIDE DEF e
<1>4. /\ EmptyHashringConfig \in Seq(Entries) /\ DOMAIN EmptyHashringConfig = {1}
      /\ Len(EmptyHashringConfig) = 1 /\ EmptyHashringConfig[1] = e
  BY <1>2, <1>3
<1>5. Once(EmptyHashringConfig)
  BY <1>4 DEF Once
<1> QED
  BY <1>2, <1>4, <1>5 DEF Stored

\* Reading a list back keeps all but the Cap'n Proto addresses, and only the
\* list of nothing reads as empty.
LEMMA ReadBack ==
    ASSUME NEW list, Stored(list)
    PROVE  LET read == UnmarshalJSON(list)
           IN  /\ read \in Seq(Entries) /\ Once(read)
               /\ DOMAIN read = DOMAIN list
               /\ \A i \in DOMAIN list : /\ read[i] = [list[i] EXCEPT !.capnproto = FALSE]
                                         /\ read[i].name = list[i].name
                                         /\ read[i].members = list[i].members
               /\ isEmptyHashring(read) <=> list = <<>> \/ list = EmptyHashringConfig
<1> DEFINE read == UnmarshalJSON(list)
<1>1. list \in Seq(Entries) /\ Len(list) \in Nat /\ DOMAIN list = 1 .. Len(list)
  BY DEF Stored
<1>2. DOMAIN read = DOMAIN list
  BY DEF UnmarshalJSON
<1>3. ASSUME NEW i \in DOMAIN list
      PROVE  /\ read[i] = [list[i] EXCEPT !.capnproto = FALSE]
             /\ read[i].name = list[i].name
             /\ read[i].members = list[i].members
             /\ read[i] \in Entries
  <2>1. list[i] \in Entries
    BY <1>1
  <2>2. read[i] = [list[i] EXCEPT !.capnproto = FALSE]
    BY DEF UnmarshalJSON
  <2> HIDE DEF read
  <2> QED
    BY <2>1, <2>2 DEF Entries
<1>4. read \in Seq(Entries) /\ Len(read) = Len(list)
  <2>1. read = [i \in 1 .. Len(list) |-> read[i]]
    BY <1>1, <1>2 DEF UnmarshalJSON
  <2> HIDE DEF read
  <2>2. \A i \in 1 .. Len(list) : read[i] \in Entries
    BY <1>1, <1>3
  <2>3. read \in [1 .. Len(list) -> Entries]
    BY <2>1, <2>2
  <2> QED
    BY <1>1, <2>3
<1> HIDE DEF read
<1>5. Once(read)
  BY <1>2, <1>3 DEF Once, Stored
<1>6. isEmptyHashring(read) <=> list = <<>> \/ list = EmptyHashringConfig
  <2>1. ASSUME list = <<>> PROVE isEmptyHashring(read)
    BY <1>4, <2>1 DEF isEmptyHashring
  <2>2. ASSUME list = EmptyHashringConfig PROVE isEmptyHashring(read)
    <3>1. Len(list) = 1 /\ 1 \in DOMAIN list /\ list[1].members = {}
      BY <2>2, EmptyList
    <3>2. read[1].members = {} /\ Len(read) = 1
      BY <1>3, <1>4, <3>1
    <3> QED
      BY <3>2 DEF isEmptyHashring
  <2>3. ASSUME Inhabited(list), list # <<>> PROVE ~ isEmptyHashring(read)
    <3>1. read # <<>> /\ 1 \in DOMAIN list
      BY <1>1, <1>2, <2>3
    <3>2. read[1].members # {}
      BY <1>3, <2>3, <3>1 DEF Inhabited
    <3> QED
      BY <3>1, <3>2 DEF isEmptyHashring
  <2> QED
    BY <2>1, <2>2, <2>3 DEF Stored
<1> QED
  BY <1>2, <1>3, <1>4, <1>5, <1>6 DEF read

\* A merge lists the rings of its outcome, each once and with members.
LEMMA MergeLists ==
    ASSUME Sensible, NEW list, Stored(list), NEW read, read = UnmarshalJSON(list)
    PROVE  /\ Merges(read) # {}
           /\ \A out \in Merges(read) :
                /\ out \in Seq(Entries) /\ Once(out) /\ Inhabited(out)
                /\ ToSet(out) = Outcome(read)
                /\ ~ isEmptyHashring(read) => InOrder(out)
<1>1. /\ read \in Seq(Entries) /\ Once(read) /\ DOMAIN read = DOMAIN list
      /\ \A i \in DOMAIN list : /\ read[i].name = list[i].name
                                /\ read[i].members = list[i].members
      /\ isEmptyHashring(read) <=> list = <<>> \/ list = EmptyHashringConfig
  BY ReadBack
<1>2. \A e \in Outcome(read) : e.name # 0 /\ e.members # {}
  <2> TAKE e \in Outcome(read)
  <2>1. CASE isEmptyHashring(read)
    <3>1. PICK h \in whole : e = published(h)
      BY <2>1 DEF Outcome
    <3>2. h \in named
      BY <3>1, WholeRings
    <3> QED
      BY <3>1, <3>2, WholeRings, RingOfSpec
  <2>2. CASE ~ isEmptyHashring(read) /\ \E h \in rebuilt : e = anew(h)
    <3>1. PICK h \in rebuilt : e = anew(h)
      BY <2>2
    <3>2. h \in named
      BY <3>1, RebuiltRings
    <3> QED
      BY <3>1, <3>2, RebuiltRings, RingOfSpec
  <2>3. CASE ~ isEmptyHashring(read) /\ e \in ToSet(read)
    <3>1. PICK i \in DOMAIN read : e = read[i]
      BY <2>3 DEF ToSet
    <3>2. Inhabited(list)
      BY <1>1, <2>3 DEF Stored
    <3> QED
      BY <1>1, <3>1, <3>2 DEF Inhabited
  <2> QED
    BY <2>1, <2>2, <2>3 DEF Outcome
<1>3. /\ Merges(read) # {}
      /\ \A out \in Merges(read) :
           /\ out \in Seq(Entries) /\ Once(out) /\ ToSet(out) = Outcome(read)
           /\ ~ isEmptyHashring(read) => InOrder(out)
  <2>1. CASE isEmptyHashring(read)
    <3>1. Merges(read) = handleUnseenHashrings
      BY <2>1 DEF Merges
    <3> QED
      BY <2>1, <3>1, FirstPublication DEF Outcome
  <2>2. CASE ~ isEmptyHashring(read)
    BY <1>1, <2>2, LaterMerge
  <2> QED
    BY <2>1, <2>2
<1>4. ASSUME NEW out \in Merges(read) PROVE Inhabited(out)
  <2>1. \A i \in DOMAIN out : out[i] \in Outcome(read)
    BY <1>3 DEF ToSet
  <2> QED
    BY <1>2, <2>1 DEF Inhabited
<1> QED
  BY <1>3, <1>4

\* A reconcile stores a list again.
LEMMA ReconcileStores ==
    ASSUME Sensible, NEW list, Stored(list)
    PROVE  /\ Reconciled(list) # {}
           /\ \A new \in Reconciled(list) :
                /\ Stored(new)
                /\ new = EmptyHashringConfig => Outcome(UnmarshalJSON(list)) = {}
                /\ new # EmptyHashringConfig =>
                      /\ Inhabited(new)
                      /\ ToSet(new) = Outcome(UnmarshalJSON(list))
                      /\ ~ isEmptyHashring(UnmarshalJSON(list)) => InOrder(new)
                /\ new # <<>>
<1> DEFINE read == UnmarshalJSON(list)
<1>1. /\ Merges(read) # {}
      /\ \A out \in Merges(read) :
           /\ out \in Seq(Entries) /\ Once(out) /\ Inhabited(out)
           /\ ToSet(out) = Outcome(read)
           /\ ~ isEmptyHashring(read) => InOrder(out)
  BY MergeLists
<1>2. Reconciled(list) = {IF out = <<>> THEN EmptyHashringConfig ELSE out : out \in Merges(read)}
  BY DEF Reconciled
<1> HIDE DEF read
<1>3. Reconciled(list) # {}
  BY <1>1, <1>2
<1>4. ASSUME NEW new \in Reconciled(list)
      PROVE  /\ Stored(new)
             /\ new = EmptyHashringConfig => Outcome(read) = {}
             /\ new # EmptyHashringConfig =>
                   /\ Inhabited(new)
                   /\ ToSet(new) = Outcome(read)
                   /\ ~ isEmptyHashring(read) => InOrder(new)
             /\ new # <<>>
  <2>1. PICK out \in Merges(read) : new = IF out = <<>> THEN EmptyHashringConfig ELSE out
    BY <1>2
  <2>2. CASE out = <<>>
    <3>1. ToSet(out) = {}
      BY <2>2 DEF ToSet
    <3> QED
      BY <1>1, <2>1, <2>2, <3>1, EmptyList
  <2>3. CASE out # <<>>
    <3>1. new = out /\ 1 \in DOMAIN out
      BY <1>1, <2>1, <2>3
    <3>2. new # EmptyHashringConfig
      BY <1>1, <3>1, EmptyList DEF Inhabited
    <3> QED
      BY <1>1, <2>3, <3>1, <3>2 DEF Stored
  <2> QED
    BY <2>2, <2>3
<1> QED
  BY <1>3, <1>4 DEF read

(***************************************************************************)
(* The theorems.                                                           *)
(***************************************************************************)

\* The table of a list without duplicates has the members of each entry.
LEMMA TableOfList ==
    ASSUME NEW list, Once(list), NEW h \in Rings
    PROVE  /\ \A e \in ToSet(list) : e.name = h => Tabled(list)[h] = e.members
           /\ (\A e \in ToSet(list) : e.name # h) => Tabled(list)[h] = {}
<1> DEFINE entries == {e \in ToSet(list) : e.name = h}
<1>1. Tabled(list)[h] = UNION {e.members : e \in entries}
  BY DEF Tabled
<1>2. \A e, d \in entries : e = d
  BY DEF ToSet, Once
<1>3. ASSUME NEW e \in entries PROVE Tabled(list)[h] = e.members
  <2>1. entries = {e}
    BY <1>2, <1>3
  <2>2. {d.members : d \in entries} = {e.members}
    BY <2>1
  <2> QED
    BY <1>1, <2>2
<1>4. ASSUME entries = {} PROVE Tabled(list)[h] = {}
  BY <1>1, <1>4
<1> QED
  BY <1>3, <1>4

\* "[{}]" and "[]" stand for the table without rings, and no other list does.
LEMMA EmptyTable ==
    ASSUME NEW list, Stored(list)
    PROVE  Tables!isEmptyHashring(Tabled(list))
             <=> list = <<>> \/ list = EmptyHashringConfig
<1>1. ASSUME list = <<>> \/ list = EmptyHashringConfig, NEW h \in Rings
      PROVE  Tabled(list)[h] = {}
  <2>1. h # 0
    BY RingsAssumption
  <2>2. \A e \in ToSet(list) : e.name = 0
    BY <1>1, EmptyList DEF ToSet
  <2>3. \A e \in ToSet(list) : e.name # h
    BY <2>1, <2>2
  <2> QED
    BY <2>3, TableOfList DEF Stored
<1>2. ASSUME Inhabited(list), list # <<>>
      PROVE  \E h \in Rings : Tabled(list)[h] # {}
  <2>1. list \in Seq(Entries) /\ 1 \in DOMAIN list
    BY <1>2 DEF Stored
  <2>2. list[1] \in Entries /\ list[1].name # 0 /\ list[1].members # {}
    BY <1>2, <2>1 DEF Inhabited
  <2>3. list[1].name \in Rings
    BY <2>2 DEF Entries
  <2>4. list[1] \in ToSet(list)
    BY <2>1 DEF ToSet
  <2> QED
    BY <2>2, <2>3, <2>4, TableOfList DEF Stored
<1> QED
  BY <1>1, <1>2 DEF Stored, Tables!isEmptyHashring

\* The instance of Hashrings under either policy.
LEMMA MergeOfTable ==
    ASSUME Sensible, NEW table, NEW h \in Rings
    PROVE  Tables!Merge(spec.policy, table, spec.replicas, ready, rf)[h] =
             IF Tables!isEmptyHashring(table)
               THEN IF h \in whole THEN ready[h] ELSE {}
               ELSE IF h \in rebuilt
                      THEN Tables!Chosen(spec.policy, spec.replicas[h], ready[h])
                      ELSE IF h \in named THEN table[h] ELSE {}
<1>1. spec.replicas[h] \in Nat
  <2>1. spec.replicas \in [Rings -> {0} \cup rf .. MaxReplicas]
    BY DEF Sensible, Specs
  <2>2. rf \in Nat /\ MaxReplicas \in Nat
    BY BoundAssumption, FactorAssumption
  <2> QED
    BY <2>1, <2>2
<1>2. /\ h \in named <=> spec.replicas[h] > 0
      /\ h \in whole <=> spec.replicas[h] > 0 /\ Cardinality(ready[h]) >= spec.replicas[h]
      /\ h \in rebuilt <=> /\ spec.replicas[h] > 0
                           /\ Tables!Acceptable(spec.policy, spec.replicas[h], ready[h], rf)
  BY DEF named, whole, rebuilt
<1>3. /\ h \notin named <=> spec.replicas[h] = 0
      /\ spec.replicas[h] = 0 => h \notin rebuilt
  BY <1>1, <1>2
<1>4. CASE Tables!isEmptyHashring(table)
  BY <1>2, <1>4, SameCardinality
     DEF Tables!Merge, Tables!StaticMerge, Tables!DynamicMerge, Tables!handleUnseenHashrings
<1>5. CASE ~ Tables!isEmptyHashring(table)
  <2> DEFINE policy == IF spec.policy = "static" THEN "static" ELSE "dynamic"
  <2>1. Tables!Merge(spec.policy, table, spec.replicas, ready, rf) =
          Tables!Merged(policy, table, spec.replicas, ready, rf)
    BY <1>5 DEF Tables!Merge, Tables!StaticMerge, Tables!DynamicMerge
  <2>2. \A w, view : /\ Tables!Acceptable(policy, w, view, rf)
                           <=> Tables!Acceptable(spec.policy, w, view, rf)
                     /\ Tables!Chosen(policy, w, view) = Tables!Chosen(spec.policy, w, view)
    BY DEF Tables!Acceptable, Tables!Chosen
  <2> HIDE DEF policy
  <2>3. Tables!Merged(policy, table, spec.replicas, ready, rf)[h] =
          IF spec.replicas[h] = 0 THEN {}
          ELSE IF Tables!Acceptable(spec.policy, spec.replicas[h], ready[h], rf)
                 THEN Tables!Chosen(spec.policy, spec.replicas[h], ready[h])
                 ELSE table[h]
    BY <2>2 DEF Tables!Merged
  <2> QED
    BY <1>2, <1>3, <1>5, <2>1, <2>3
<1> QED
  BY <1>4, <1>5

\* Merging a stored list is merging its table.
LEMMA ReconcileMerges ==
    ASSUME Sensible, NEW list, Stored(list), NEW new \in Reconciled(list)
    PROVE  Tabled(new) = Tables!Merge(spec.policy, Tabled(list), spec.replicas, ready, rf)
<1> DEFINE read == UnmarshalJSON(list)
           merged == Tables!Merge(spec.policy, Tabled(list), spec.replicas, ready, rf)
<1>1. /\ Stored(new)
      /\ new = EmptyHashringConfig => Outcome(read) = {}
      /\ new # EmptyHashringConfig => ToSet(new) = Outcome(read)
  BY ReconcileStores
<1>2. /\ DOMAIN read = DOMAIN list
      /\ \A i \in DOMAIN list : read[i].name = list[i].name /\ read[i].members = list[i].members
      /\ isEmptyHashring(read) <=> Tables!isEmptyHashring(Tabled(list))
  BY ReadBack, EmptyTable
<1> HIDE DEF read
<1>3. ASSUME NEW h \in Rings
      PROVE  /\ \A e \in Outcome(read) : e.name = h => Tabled(new)[h] = e.members
             /\ (\A e \in Outcome(read) : e.name # h) => Tabled(new)[h] = {}
  <2>1. CASE new = EmptyHashringConfig
    <3>1. Tables!isEmptyHashring(Tabled(new))
      BY <1>1, <2>1, EmptyTable
    <3>2. Tabled(new)[h] = {}
      BY <3>1 DEF Tables!isEmptyHashring
    <3> QED
      BY <1>1, <2>1, <3>2
  <2>2. CASE new # EmptyHashringConfig
    BY <1>1, <2>2, TableOfList DEF Stored
  <2> QED
    BY <2>1, <2>2
<1>4. ASSUME NEW h \in Rings PROVE Tabled(new)[h] = merged[h]
  <2>1. merged[h] =
          IF Tables!isEmptyHashring(Tabled(list))
            THEN IF h \in whole THEN ready[h] ELSE {}
            ELSE IF h \in rebuilt
                   THEN Tables!Chosen(spec.policy, spec.replicas[h], ready[h])
                   ELSE IF h \in named THEN Tabled(list)[h] ELSE {}
    BY MergeOfTable
  <2> HIDE DEF merged
  <2>2. CASE isEmptyHashring(read)
    <3>1. Outcome(read) = {published(g) : g \in whole}
      BY <2>2 DEF Outcome
    <3>2. \A g \in whole : published(g).name = g /\ published(g).members = ready[g]
      BY WholeRings
    <3>3. CASE h \in whole
      BY <1>2, <1>3, <2>1, <2>2, <3>1, <3>2, <3>3
    <3>4. CASE h \notin whole
      BY <1>2, <1>3, <2>1, <2>2, <3>1, <3>2, <3>4
    <3> QED
      BY <3>3, <3>4
  <2>3. CASE ~ isEmptyHashring(read)
    <3>1. Outcome(read) =
            {anew(g) : g \in rebuilt} \cup {e \in ToSet(read) : e.name \in named \ rebuilt}
      BY <2>3 DEF Outcome
    <3>2. \A g \in rebuilt :
             /\ anew(g).name = g
             /\ anew(g).members = Tables!Chosen(spec.policy, spec.replicas[g], ready[g])
      BY RebuiltRings
    <3>3. CASE h \in rebuilt
      <4>1. anew(h) \in Outcome(read)
        BY <3>1, <3>3
      <4> QED
        BY <1>2, <1>3, <2>1, <2>3, <3>2, <3>3, <4>1
    <3>4. CASE h \in named \ rebuilt /\ \E e \in ToSet(read) : e.name = h
      <4>1. PICK i \in DOMAIN read : read[i].name = h
        BY <3>4 DEF ToSet
      <4>2. read[i] \in Outcome(read)
        BY <3>1, <3>4, <4>1 DEF ToSet
      <4>3. Tabled(new)[h] = list[i].members
        BY <1>2, <1>3, <4>1, <4>2
      <4>4. list[i] \in ToSet(list) /\ list[i].name = h
        BY <1>2, <4>1 DEF ToSet
      <4>5. Tabled(list)[h] = list[i].members
        BY <4>4, TableOfList DEF Stored
      <4> QED
        BY <1>2, <2>1, <2>3, <3>4, <4>3, <4>5
    <3>5. CASE h \in named \ rebuilt /\ \A e \in ToSet(read) : e.name # h
      <4>1. \A e \in Outcome(read) : e.name # h
        BY <3>1, <3>2, <3>5
      <4>2. \A e \in ToSet(list) : e.name # h
        <5> TAKE e \in ToSet(list)
        <5>1. PICK i \in DOMAIN list : e = list[i]
          BY DEF ToSet
        <5>2. read[i] \in ToSet(read) /\ read[i].name = e.name
          BY <1>2, <5>1 DEF ToSet
        <5> QED
          BY <3>5, <5>2
      <4>3. Tabled(list)[h] = {}
        BY <4>2, TableOfList DEF Stored
      <4> QED
        BY <1>2, <1>3, <2>1, <2>3, <3>5, <4>1, <4>3
    <3>6. CASE h \notin named
      <4>1. h \notin rebuilt
        BY <3>6, RebuiltRings
      <4>2. \A e \in Outcome(read) : e.name # h
        BY <3>1, <3>2, <3>6, <4>1
      <4> QED
        BY <1>2, <1>3, <2>1, <2>3, <3>6, <4>1, <4>2
    <3> QED
      BY <3>3, <3>4, <3>5, <3>6
  <2> QED
    BY <2>2, <2>3
<1>5. merged = [h \in Rings |-> merged[h]]
  BY DEF Tables!Merge, Tables!StaticMerge, Tables!DynamicMerge, Tables!handleUnseenHashrings,
         Tables!Merged
<1> HIDE DEF merged
<1>6. Tabled(new) = [h \in Rings |-> Tabled(new)[h]]
  BY DEF Tabled
<1>7. Tabled(new) = merged
  BY <1>4, <1>5, <1>6
<1> QED
  BY <1>7 DEF merged

\* With nothing to publish "[{}]" stays.
LEMMA NothingStays ==
    ASSUME Sensible, NEW list, Stored(list), Outcome(UnmarshalJSON(list)) = {}
    PROVE  Reconciled(EmptyHashringConfig) = {EmptyHashringConfig}
<1> DEFINE read == UnmarshalJSON(EmptyHashringConfig)
<1>1. whole = {}
  <2>1. CASE isEmptyHashring(UnmarshalJSON(list))
    <3>1. {published(h) : h \in whole} = {}
      BY <2>1 DEF Outcome
    <3> QED
      BY <3>1
  <2>2. CASE ~ isEmptyHashring(UnmarshalJSON(list))
    <3>1. {anew(h) : h \in rebuilt} = {}
      BY <2>2 DEF Outcome
    <3>2. rebuilt = {}
      BY <3>1
    <3> QED
      BY <3>2, WholeRings
  <2> QED
    BY <2>1, <2>2
<1>2. isEmptyHashring(read) /\ Stored(EmptyHashringConfig)
  BY EmptyList, ReadBack
<1> HIDE DEF read
<1>3. Outcome(read) = {}
  BY <1>1, <1>2 DEF Outcome
<1>4. ASSUME NEW new \in Reconciled(EmptyHashringConfig) PROVE new = EmptyHashringConfig
  <2> SUFFICES ASSUME new # EmptyHashringConfig PROVE FALSE
    OBVIOUS
  <2>1. ToSet(new) = {} /\ new # <<>> /\ Stored(new)
    BY <1>2, <1>3, ReconcileStores DEF read
  <2>2. new \in Seq(Entries) /\ 1 \in DOMAIN new
    BY <2>1 DEF Stored
  <2>3. new[1] \in ToSet(new)
    BY <2>2 DEF ToSet
  <2> QED
    BY <2>1, <2>3
<1> QED
  BY <1>2, <1>4, ReconcileStores

\* A list that a merge has sorted is what another merge makes of it.
LEMMA SortedStays ==
    ASSUME Sensible, NEW list, Stored(list), ~ isEmptyHashring(UnmarshalJSON(list)),
           NEW new \in Reconciled(list), new # EmptyHashringConfig
    PROVE  Reconciled(new) = {new}
<1> DEFINE read == UnmarshalJSON(list)
           again == UnmarshalJSON(new)
<1>1. /\ Stored(new) /\ Inhabited(new) /\ InOrder(new) /\ new # <<>>
      /\ ToSet(new) = Outcome(read)
  BY ReconcileStores
<1>2. /\ DOMAIN again = DOMAIN new
      /\ \A i \in DOMAIN new : again[i] = [new[i] EXCEPT !.capnproto = FALSE]
                               /\ again[i].name = new[i].name
      /\ ~ isEmptyHashring(again)
  BY <1>1, ReadBack
<1>3. /\ DOMAIN read = DOMAIN list
      /\ \A i \in DOMAIN list : read[i] = [list[i] EXCEPT !.capnproto = FALSE]
      /\ \A i \in DOMAIN list : list[i] \in Entries
  BY ReadBack DEF Stored
<1>4. \A e \in ToSet(read) : [e EXCEPT !.capnproto = FALSE] = e
  <2> TAKE e \in ToSet(read)
  <2>1. PICK i \in DOMAIN list : e = [list[i] EXCEPT !.capnproto = FALSE] /\ list[i] \in Entries
    BY <1>3 DEF ToSet
  <2> QED
    BY <2>1 DEF Entries
<1>5. ~ isEmptyHashring(read)
  OBVIOUS
<1> HIDE DEF read, again
<1>6. Outcome(read) =
        {anew(g) : g \in rebuilt} \cup {e \in ToSet(read) : e.name \in named \ rebuilt}
  BY <1>5 DEF Outcome
<1>7. Outcome(again) =
        {anew(g) : g \in rebuilt} \cup {e \in ToSet(again) : e.name \in named \ rebuilt}
  BY <1>2 DEF Outcome
<1>8. ASSUME NEW e \in ToSet(read), e.name \in named \ rebuilt PROVE e \in ToSet(again)
  <2>1. e \in ToSet(new)
    BY <1>1, <1>6, <1>8
  <2>2. PICK i \in DOMAIN new : e = new[i]
    BY <2>1 DEF ToSet
  <2>3. again[i] = e
    BY <1>2, <1>4, <1>8, <2>2
  <2> QED
    BY <1>2, <2>3 DEF ToSet
<1>9. ASSUME NEW e \in ToSet(again), e.name \in named \ rebuilt PROVE e \in ToSet(read)
  <2>1. PICK i \in DOMAIN new : e = again[i]
    BY <1>2 DEF ToSet
  <2>2. e = [new[i] EXCEPT !.capnproto = FALSE] /\ new[i].name = e.name
    BY <1>2, <2>1
  <2>3. new[i] \in Outcome(read)
    BY <1>1 DEF ToSet
  <2>4. \A g \in rebuilt : anew(g).name = g
    BY RebuiltRings
  <2>5. new[i] \in ToSet(read)
    BY <1>6, <1>9, <2>2, <2>3, <2>4
  <2>6. e = new[i]
    BY <1>4, <2>2, <2>5
  <2> QED
    BY <2>5, <2>6
<1>10. Outcome(again) = Outcome(read)
  BY <1>6, <1>7, <1>8, <1>9
<1>11. ASSUME NEW third \in Reconciled(new) PROVE third = new
  <2>1. /\ Stored(third)
        /\ third = EmptyHashringConfig => Outcome(again) = {}
        /\ third # EmptyHashringConfig => ToSet(third) = Outcome(again)
        /\ third # EmptyHashringConfig => InOrder(third)
    BY <1>1, <1>2, ReconcileStores DEF again
  <2>2. Outcome(again) # {}
    <3>1. new \in Seq(Entries) /\ 1 \in DOMAIN new
      BY <1>1 DEF Stored
    <3>2. new[1] \in ToSet(new)
      BY <3>1 DEF ToSet
    <3> QED
      BY <1>1, <1>10, <3>2
  <2>3. third # EmptyHashringConfig
    BY <2>1, <2>2
  <2>4. ToSet(third) = ToSet(new) /\ InOrder(third)
    BY <1>1, <1>10, <2>1, <2>3
  <2>5. third \in Seq(Entries) /\ new \in Seq(Entries)
    BY <1>1, <2>1 DEF Stored
  <2> QED
    BY <1>1, <2>4, <2>5, OneSorting
<1> QED
  BY <1>1, <1>11, ReconcileStores

\* Of an unchanged cluster, two reconciles leave a list that a third one keeps.
LEMMA SecondIsLast ==
    ASSUME Sensible, NEW list, Stored(list),
           NEW once \in Reconciled(list), NEW twice \in Reconciled(once)
    PROVE  InOrder(twice) /\ Reconciled(twice) = {twice}
<1> DEFINE read == UnmarshalJSON(once)
<1>1. /\ Stored(once) /\ once # <<>>
      /\ once = EmptyHashringConfig => Outcome(UnmarshalJSON(list)) = {}
  BY ReconcileStores
<1>2. /\ twice = EmptyHashringConfig => Outcome(read) = {}
      /\ twice # EmptyHashringConfig /\ ~ isEmptyHashring(read) => InOrder(twice)
  BY <1>1, ReconcileStores
<1>3. InOrder(EmptyHashringConfig)
  BY EmptyList DEF InOrder
<1>4. CASE once = EmptyHashringConfig
  <2>1. Reconciled(EmptyHashringConfig) = {EmptyHashringConfig}
    BY <1>1, <1>4, NothingStays
  <2> QED
    BY <1>3, <1>4, <2>1
<1>5. CASE once # EmptyHashringConfig
  <2>1. ~ isEmptyHashring(read)
    BY <1>1, <1>5, ReadBack
  <2>2. CASE twice = EmptyHashringConfig
    BY <1>1, <1>2, <1>3, <2>2, NothingStays
  <2>3. CASE twice # EmptyHashringConfig
    BY <1>1, <1>2, <2>1, <2>3, SortedStays
  <2> QED
    BY <2>2, <2>3
<1> QED
  BY <1>4, <1>5

\* The inductive invariant: sensible specs and endpoints, and a list without
\* duplicates in the ConfigMap.
ListInv == Sensible /\ Stored(content)

\* Whatever reconciles, edits and lists of endpoints come, the invariant holds.
LEMMA ListInvAlways == Spec => []ListInv
<1>1. Init => ListInv
  <2> SUFFICES ASSUME Init PROVE ListInv
    OBVIOUS
  <2>1. ready \in Tables!Table
    BY DEF Init, Tables!Table, Tables!View
  <2>2. content = <<>> /\ spec \in Specs
    BY DEF Init
  <2>3. Stored(content)
    BY <2>2 DEF Stored, Once, Inhabited
  <2> QED
    BY <2>1, <2>2, <2>3 DEF ListInv, Sensible
<1>2. ListInv /\ [Next]_vars => ListInv'
  <2> SUFFICES ASSUME ListInv, [Next]_vars PROVE ListInv'
    OBVIOUS
  <2>1. CASE EditSpec
    BY <2>1 DEF ListInv, EditSpec, Sensible, Stored, Once, Inhabited
  <2>2. CASE PodChanges
    <3>1. PICK h \in Rings, o \in Tables!Ordinals :
             ready' = [ready EXCEPT ![h] = IF o \in @ THEN @ \ {o} ELSE @ \cup {o}]
      BY <2>2 DEF PodChanges
    <3>2. ready[h] \in SUBSET Tables!Ordinals
      BY DEF ListInv, Sensible, Tables!Table, Tables!View
    <3>3. (IF o \in ready[h] THEN ready[h] \ {o} ELSE ready[h] \cup {o}) \in Tables!View
      BY <3>2 DEF Tables!View
    <3>4. ready' \in Tables!Table
      BY <3>1, <3>3 DEF ListInv, Sensible, Tables!Table
    <3> QED
      BY <2>2, <3>4 DEF ListInv, PodChanges, Sensible, Stored, Once, Inhabited
  <2>3. CASE Reconcile
    <3>1. content' \in Reconciled(content) /\ UNCHANGED <<spec, ready>>
      BY <2>3 DEF Reconcile
    <3>2. Stored(content')
      BY <3>1, ReconcileStores DEF ListInv
    <3> QED
      BY <3>1, <3>2 DEF ListInv, Sensible
  <2>4. CASE UNCHANGED vars
    BY <2>4 DEF vars, ListInv, Sensible, Stored, Once, Inhabited
  <2> QED
    BY <2>1, <2>2, <2>3, <2>4 DEF Next
<1> QED
  BY <1>1, <1>2, PTL DEF Spec

\* Every value has its type: in particular no reconcile stores an entry of a
\* ring without members, but for the "[{}]" of newHashringConfigMap.
THEOREM ListTypeCorrect == Spec => []TypeOK
<1>1. ListInv => TypeOK
  <2> SUFFICES ASSUME ListInv PROVE TypeOK
    OBVIOUS
  <2>1. content \in Seq(Entries)
    BY DEF ListInv, Stored
  <2>2. \A i \in DOMAIN content : content[i] \in Entries
    BY <2>1
  <2>3. content = EmptyHashringConfig \/ Inhabited(content)
    BY DEF ListInv, Stored
  <2> QED
    BY <2>2, <2>3 DEF ListInv, Sensible, TypeOK, Inhabited
<1> QED
  BY <1>1, ListInvAlways, PTL

\* What Hashrings says of the merge of tables holds of hashrings.json: a
\* reconcile that reads it, merges and stores the result merges the table it
\* stands for, and lists no ring twice.
THEOREM ListMergesTables == Spec => []MergesTables
<1>1. ListInv => MergesTables
  <2> SUFFICES ASSUME ListInv, NEW new \in Reconciled(content)
               PROVE  /\ Tabled(new) =
                           Tables!Merge(spec.policy, Tabled(content), spec.replicas, ready, rf)
                      /\ \A i, j \in DOMAIN new : new[i].name = new[j].name => i = j
    BY DEF MergesTables
  <2>1. Sensible /\ Stored(content)
    BY DEF ListInv
  <2>2. Stored(new)
    BY <2>1, ReconcileStores
  <2> QED
    BY <2>1, <2>2, ReconcileMerges DEF Stored, Once
<1> QED
  BY <1>1, ListInvAlways, PTL

\* The configuration stops changing after two reconciles of an unchanged
\* cluster, whatever order Go ranges over its map in and however sort.Slice
\* treats equals: there are no endless reloads of the routers.
THEOREM ListSettles == Spec => []TwoReconcilesSettle
<1>1. ListInv => TwoReconcilesSettle
  BY SecondIsLast DEF ListInv, TwoReconcilesSettle
<1> QED
  BY <1>1, ListInvAlways, PTL
=============================================================================
