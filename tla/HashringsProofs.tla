--------------------------- MODULE HashringsProofs ---------------------------
(***************************************************************************)
(* What the merge operators of Hashrings return, for every set of rings,   *)
(* every bound on replicas and every replication factor.                   *)
(***************************************************************************)
EXTENDS Hashrings, FiniteSetTheorems, WellFoundedInduction, TLAPS

\* The endpoints of a ring are finitely many: a StatefulSet has MaxReplicas pods at most.
LEMMA ViewFinite ==
    ASSUME NEW view \in View
    PROVE  IsFiniteSet(view) /\ Cardinality(view) \in Nat
<1>1. MaxReplicas - 1 \in Int
  BY MaxReplicasAssumption
<1>2. IsFiniteSet(Ordinals)
  BY <1>1, FS_Interval DEF Ordinals
<1>3. view \in SUBSET Ordinals
  BY DEF View
<1> QED
  BY <1>2, <1>3, FS_Subset, FS_CardinalityType

\* Addresses are ordered like natural numbers.
LEMMA AddressRankNat ==
    ASSUME NEW o \in Ordinals
    PROVE  AddressRank(o) \in Nat
  BY MaxReplicasAssumption DEF AddressRank, Ordinals

\* A list that is not empty has a first address.
LEMMA FirstAddress ==
    ASSUME NEW view \in View, view # {}
    PROVE  \E o \in view : \A p \in view : ~ (AddressRank(p) < AddressRank(o))
<1> DEFINE ranks == {AddressRank(o) : o \in view}
<1>1. ranks \subseteq Nat /\ ranks # {}
  BY AddressRankNat DEF View
<1> DEFINE before == {ss \in Nat \X Nat : ss[1] < ss[2]}
<1>2. IsWellFoundedOn(before, Nat)
  BY NatLessThanWellFounded DEF OpToRel
<1>3. PICK r \in ranks : \A q \in ranks : ~ (<<q, r>> \in before)
  <2> HIDE DEF ranks, before
  <2> QED BY <1>1, <1>2, WFMin
<1>4. \A q \in ranks : ~ (q < r)
  BY <1>1, <1>3
<1> QED
  BY <1>4

\* trimTo never invents an endpoint and never empties a ring.
LEMMA TrimNonEmpty ==
    ASSUME NEW view \in View, view # {}, NEW n \in Nat, n >= 1
    PROVE  trimTo(view, n) \in View /\ trimTo(view, n) # {}
<1>1. PICK o \in view : \A p \in view : ~ (AddressRank(p) < AddressRank(o))
  BY FirstAddress
<1>2. {p \in view : AddressRank(p) < AddressRank(o)} = {}
  BY <1>1
<1>3. Cardinality({p \in view : AddressRank(p) < AddressRank(o)}) < n
  BY <1>2, FS_EmptySet
<1>4. o \in trimTo(view, n)
  BY <1>3 DEF trimTo
<1> QED
  BY <1>4 DEF trimTo, View

\* No two pods have the same address.
LEMMA AddressRankInjective ==
    ASSUME NEW o \in Ordinals, NEW p \in Ordinals, AddressRank(o) = AddressRank(p)
    PROVE  o = p
<1>1. o \in 0 .. 99 /\ p \in 0 .. 99
  BY MaxReplicasAssumption DEF Ordinals
<1> QED
  BY <1>1 DEF AddressRank

Before(view, o) == {p \in view : AddressRank(p) < AddressRank(o)}

\* The addresses before one of a ring are finitely many, and a ring's themselves.
LEMMA BeforeFinite ==
    ASSUME NEW view \in View, NEW o \in Ordinals
    PROVE  /\ Before(view, o) \in View
           /\ IsFiniteSet(Before(view, o))
           /\ Cardinality(Before(view, o)) \in Nat
<1>1. Before(view, o) \in View
  BY DEF Before, View
<1> QED
  BY <1>1, ViewFinite

\* One step of trimTo: the next address of the list is all it adds.
LEMMA TrimStep ==
    ASSUME NEW view \in View, NEW k \in Nat, k < Cardinality(view),
           Cardinality(trimTo(view, k)) = k
    PROVE  Cardinality(trimTo(view, k + 1)) = k + 1
<1> DEFINE kept == trimTo(view, k)
           rest == view \ kept
<1>1. kept \in View /\ rest \in View /\ kept \subseteq view /\ IsFiniteSet(kept)
  <2>1. kept \in View /\ rest \in View /\ kept \subseteq view
    BY DEF trimTo, View
  <2> QED BY <2>1, ViewFinite
<1>2. rest # {}
  BY <1>1
<1>3. PICK m \in rest : \A p \in rest : ~ (AddressRank(p) < AddressRank(m))
  BY <1>1, <1>2, FirstAddress
<1>4. \A o \in view : o \in Ordinals /\ AddressRank(o) \in Nat
  BY AddressRankNat DEF View
<1>5. \A o \in view : o \in kept <=> Cardinality(Before(view, o)) < k
  BY DEF trimTo, Before
<1>6. \A o \in view : o \in trimTo(view, k + 1) <=> Cardinality(Before(view, o)) < k + 1
  BY DEF trimTo, Before
<1>7. Before(view, m) = kept
  <2>1. ASSUME NEW p \in Before(view, m) PROVE p \in kept
    BY <2>1, <1>3 DEF Before
  <2>2. ASSUME NEW p \in kept PROVE p \in Before(view, m)
    <3> SUFFICES ASSUME ~ (AddressRank(p) < AddressRank(m)) PROVE FALSE
      BY <1>1 DEF Before
    <3>1. p \in view /\ m \in view
      BY <1>1
    <3>2. Before(view, m) \in SUBSET Before(view, p)
      BY <1>4, <3>1 DEF Before
    <3>3. Cardinality(Before(view, m)) <= Cardinality(Before(view, p))
      BY <3>1, <3>2, <1>4, BeforeFinite, FS_Subset
    <3>4. Cardinality(Before(view, p)) < k /\ ~ (Cardinality(Before(view, m)) < k)
      BY <1>5, <3>1, <1>3
    <3> QED
      BY <3>1, <3>3, <3>4, <1>4, BeforeFinite
  <2> QED
    BY <2>1, <2>2 DEF Before
<1>8. m \in trimTo(view, k + 1)
  BY <1>6, <1>7, <1>1
<1>9. kept \subseteq trimTo(view, k + 1)
  BY <1>1, <1>4, <1>5, <1>6, BeforeFinite
<1>10. ASSUME NEW e \in trimTo(view, k + 1), e \notin kept, e # m PROVE FALSE
  <2>1. e \in view /\ e \in rest /\ m \in view
    BY <1>1, <1>10 DEF trimTo
  <2>2. AddressRank(m) < AddressRank(e)
    BY <1>3, <1>4, <1>10, <2>1, AddressRankInjective
  <2>3. kept \cup {m} \in SUBSET Before(view, e)
    BY <1>4, <1>7, <2>1, <2>2 DEF Before
  <2>4. Cardinality(kept \cup {m}) = k + 1
    BY <1>1, FS_AddElement
  <2>5. k + 1 <= Cardinality(Before(view, e))
    BY <2>1, <2>3, <2>4, <1>4, BeforeFinite, FS_Subset
  <2>6. Cardinality(Before(view, e)) < k + 1
    BY <1>6, <1>10, <2>1
  <2> QED
    BY <2>1, <2>5, <2>6, <1>4, BeforeFinite
<1>11. trimTo(view, k + 1) = kept \cup {m}
  BY <1>8, <1>9, <1>10
<1> QED
  BY <1>1, <1>11, FS_AddElement

\* trimTo returns exactly as many endpoints as it was asked for when the list
\* has them, the first ones by address.
THEOREM TrimSize ==
    ASSUME NEW view \in View, NEW n \in Nat, n <= Cardinality(view)
    PROVE  Cardinality(trimTo(view, n)) = n
<1> DEFINE wrong == {k \in 0 .. n : Cardinality(trimTo(view, k)) # k}
           before == {ss \in Nat \X Nat : ss[1] < ss[2]}
<1> SUFFICES ASSUME wrong # {} PROVE FALSE
  OBVIOUS
<1>1. IsWellFoundedOn(before, Nat)
  BY NatLessThanWellFounded DEF OpToRel
<1>2. wrong \subseteq Nat
  OBVIOUS
<1>3. PICK k \in wrong : \A j \in wrong : ~ (<<j, k>> \in before)
  <2> HIDE DEF wrong, before
  <2> QED BY <1>1, <1>2, WFMin
<1>4. Cardinality(view) \in Nat
  BY ViewFinite
<1>5. k # 0
  <2>1. trimTo(view, 0) = {}
    <3>1. \A o \in view : Cardinality(Before(view, o)) \in Nat
      BY BeforeFinite DEF View
    <3> QED BY <3>1 DEF trimTo, Before
  <2> QED BY <2>1, FS_EmptySet
<1>6. k - 1 \in Nat /\ k - 1 < k /\ k - 1 < Cardinality(view) /\ k - 1 \in 0 .. n
  BY <1>4, <1>5
<1>7. k - 1 \notin wrong
  <2>1. <<k - 1, k>> \in before
    BY <1>2, <1>6
  <2> QED
    BY <2>1, <1>3
<1>8. Cardinality(trimTo(view, k - 1)) = k - 1
  BY <1>6, <1>7
<1>9. Cardinality(trimTo(view, (k - 1) + 1)) = (k - 1) + 1
  BY <1>6, <1>8, TrimStep
<1> QED
  BY <1>6, <1>9

-----------------------------------------------------------------------------
\* The two policies share their cases: nothing published yet, or the rings of
\* the spec one by one.
LEMMA MergeCases ==
    ASSUME NEW policy, NEW previous, NEW wanted, NEW seen, NEW rf,
           policy \in {"static", "dynamic"}
    PROVE  Merge(policy, previous, wanted, seen, rf) =
             IF isEmptyHashring(previous)
               THEN handleUnseenHashrings(wanted, seen)
               ELSE Merged(policy, previous, wanted, seen, rf)
<1>1. CASE policy = "static"
  BY <1>1 DEF Merge, StaticMerge
<1>2. CASE policy = "dynamic"
  BY <1>2 DEF Merge, DynamicMerge
<1> QED
  BY <1>1, <1>2

\* A merge publishes lists of endpoints the cluster has.
LEMMA MergeType ==
    ASSUME NEW policy \in {"static", "dynamic"}, NEW previous \in Table,
           NEW wanted \in Wanted, NEW seen \in Table, NEW rf
    PROVE  Merge(policy, previous, wanted, seen, rf) \in Table
<1>1. handleUnseenHashrings(wanted, seen) \in Table
  BY DEF handleUnseenHashrings, Table, View
<1>2. Merged(policy, previous, wanted, seen, rf) \in Table
  <2>1. \A h \in Rings : Chosen(policy, wanted[h], seen[h]) \in View
    BY DEF Chosen, trimTo, Table, View
  <2> QED
    BY <2>1 DEF Merged, Table, View
<1> QED
  BY <1>1, <1>2, MergeCases

\* A ring the spec does not name is not published.
LEMMA MergeDropsRemoved ==
    ASSUME NEW policy \in {"static", "dynamic"}, NEW previous, NEW wanted,
           NEW seen, NEW rf, NEW h \in Rings, wanted[h] = 0
    PROVE  Merge(policy, previous, wanted, seen, rf)[h] = {}
  BY MergeCases DEF handleUnseenHashrings, Merged

\* A ring that does not reach its quorum of ready members stays as it was
\* (hashrings.go:192-199), also when nothing is published yet.
THEOREM MergeKeepsTroubled ==
    ASSUME NEW policy \in {"static", "dynamic"}, NEW previous \in Table,
           NEW wanted \in Wanted, NEW seen \in Table, NEW rf \in Nat,
           NEW h \in Rings, wanted[h] > 0, wanted[h] >= rf,
           ~ Acceptable(policy, wanted[h], seen[h], rf)
    PROVE  Merge(policy, previous, wanted, seen, rf)[h] = previous[h]
<1>1. Cardinality(seen[h]) \in Nat
  BY ViewFinite DEF Table
<1>2. wanted[h] \in Nat
  BY MaxReplicasAssumption DEF Wanted
<1>3. ~ (Cardinality(seen[h]) >= wanted[h])
  BY <1>1, <1>2 DEF Acceptable
<1>4. CASE isEmptyHashring(previous)
  <2>1. previous[h] = {}
    BY <1>4 DEF isEmptyHashring
  <2>2. Merge(policy, previous, wanted, seen, rf) = handleUnseenHashrings(wanted, seen)
    BY <1>4, MergeCases
  <2>3. handleUnseenHashrings(wanted, seen)[h] = {}
    BY <1>3 DEF handleUnseenHashrings
  <2> QED
    BY <2>1, <2>2, <2>3
<1>5. CASE ~ isEmptyHashring(previous)
  BY <1>2, <1>5, MergeCases DEF Merged
<1> QED
  BY <1>4, <1>5

\* What a ring is published with when it changes: at least as many members as
\* the replication factor and as its policy asks for; all of them when nothing
\* was published before.
THEOREM MergeQuorum ==
    ASSUME NEW policy \in {"static", "dynamic"}, NEW previous \in Table,
           NEW wanted \in Wanted, NEW seen \in Table, NEW rf \in Nat,
           NEW h \in Rings, wanted[h] > 0, wanted[h] >= rf,
           Merge(policy, previous, wanted, seen, rf)[h] # previous[h]
    PROVE  LET members == Merge(policy, previous, wanted, seen, rf)[h]
           IN  /\ Cardinality(members) \in Nat
               /\ Cardinality(members) >= rf
               /\ Cardinality(members) >= wanted[h] - 1
               /\ policy = "static" \/ isEmptyHashring(previous)
                    => Cardinality(members) >= wanted[h]
<1> DEFINE members == Merge(policy, previous, wanted, seen, rf)[h]
<1>1. Cardinality(seen[h]) \in Nat /\ seen[h] \in View
  BY ViewFinite DEF Table
<1>2. wanted[h] \in Nat
  BY MaxReplicasAssumption DEF Wanted
<1>3. CASE isEmptyHashring(previous)
  <2>1. members = seen[h] /\ Cardinality(seen[h]) >= wanted[h]
    <3>1. previous[h] = {}
      BY <1>3 DEF isEmptyHashring
    <3>2. members = handleUnseenHashrings(wanted, seen)[h]
      BY <1>3, MergeCases
    <3> QED
      BY <3>1, <3>2 DEF handleUnseenHashrings
  <2> QED
    BY <2>1, <1>1, <1>2
<1>4. CASE ~ isEmptyHashring(previous)
  <2>1. /\ Acceptable(policy, wanted[h], seen[h], rf)
        /\ members = Chosen(policy, wanted[h], seen[h])
    BY <1>2, <1>4, MergeCases DEF Merged
  <2>2. CASE policy = "static"
    <3>1. members = trimTo(seen[h], wanted[h]) /\ wanted[h] <= Cardinality(seen[h])
      BY <1>1, <1>2, <2>1, <2>2 DEF Chosen, Acceptable
    <3>2. Cardinality(members) = wanted[h]
      BY <1>1, <1>2, <3>1, TrimSize
    <3> QED
      BY <1>2, <3>2
  <2>3. CASE policy = "dynamic"
    BY <1>1, <1>2, <1>4, <2>1, <2>3 DEF Chosen, Acceptable
  <2> QED
    BY <2>2, <2>3
<1> QED
  BY <1>3, <1>4

\* A merge withdraws no ring that the spec names: published once, it stays.
THEOREM MergeNeverEmpties ==
    ASSUME NEW policy \in {"static", "dynamic"}, NEW previous \in Table,
           NEW wanted \in Wanted, NEW seen \in Table, NEW rf \in Nat, rf >= 1,
           NEW h \in Rings, wanted[h] > 0, wanted[h] >= rf, previous[h] # {}
    PROVE  Merge(policy, previous, wanted, seen, rf)[h] # {}
<1>1. CASE Merge(policy, previous, wanted, seen, rf)[h] = previous[h]
  BY <1>1
<1>2. CASE Merge(policy, previous, wanted, seen, rf)[h] # previous[h]
  <2>1. Cardinality(Merge(policy, previous, wanted, seen, rf)[h]) >= rf
    BY <1>2, MergeQuorum
  <2>2. Cardinality({}) = 0
    BY FS_EmptySet
  <2> QED
    BY <2>1, <2>2
<1> QED
  BY <1>1, <1>2
\* The endpoints of a ring the spec does not name make no difference.
LEMMA MergeReadsOnlyTheSpec ==
    ASSUME NEW policy \in {"static", "dynamic"}, NEW previous, NEW wanted \in Wanted,
           NEW seen, NEW other, NEW rf,
           \A h \in Rings : wanted[h] > 0 => seen[h] = other[h]
    PROVE  Merge(policy, previous, wanted, seen, rf) = Merge(policy, previous, wanted, other, rf)
<1>1. handleUnseenHashrings(wanted, seen) = handleUnseenHashrings(wanted, other)
  BY DEF handleUnseenHashrings
<1>2. \A h \in Rings : wanted[h] = 0 \/ wanted[h] > 0
  BY MaxReplicasAssumption DEF Wanted
<1>3. Merged(policy, previous, wanted, seen, rf) = Merged(policy, previous, wanted, other, rf)
  BY <1>2 DEF Merged
<1> QED
  BY <1>1, <1>3, MergeCases
=============================================================================
