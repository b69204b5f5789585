------------------------------ MODULE Hashrings ------------------------------
(***************************************************************************)
(* How the receive controller turns the endpoints it sees into the hashring*)
(* configuration it publishes (internal/pkg/receive/hashrings.go).         *)
(*                                                                         *)
(* A hashring's endpoint list comes out of EndpointSliceListToEndpoints    *)
(* sorted by address and without duplicates, so it is determined by the    *)
(* set of pods in it; a pod is the ordinal the StatefulSet gave it.  A     *)
(* list of hashrings is a table: ring name -> set of ordinals.  A ring that*)
(* is not in the list has the empty set, which no listed ring has, because *)
(* every ring asks for at least one replica.  The order of the list, which *)
(* a table forgets, is the subject of HashringList.                        *)
(***************************************************************************)
EXTENDS Integers, FiniteSets

CONSTANTS
    Rings,       \* the names a user may give to a hashring
    MaxReplicas  \* bound: the largest IngesterHashringSpec.Replicas asked for

ASSUME MaxReplicasAssumption == MaxReplicas \in 1..100

Ordinals == 0 .. MaxReplicas - 1
View     == SUBSET Ordinals             \* the endpoints of one hashring
Table    == [Rings -> View]             \* Hashrings, as a function of the name
Wanted   == [Rings -> 0 .. MaxReplicas] \* DesiredReplicas; 0: not in the spec

NoRings  == [h \in Rings |-> 0]
NoViews  == [h \in Rings |-> {}]

-----------------------------------------------------------------------------
(***************************************************************************)
(* The place of a pod in the address order.  Addresses are compared as     *)
(* strings ("name-2.svc..." and "name-10.svc..."), so 10 comes after 1 and *)
(* before 2.  Exact for the ordinals below 100.                            *)
(***************************************************************************)
AddressRank(o) == IF o < 10 THEN 11 * o ELSE 11 * (o \div 10) + (o % 10) + 1

\* The first n endpoints of the sorted list; the whole list when it is shorter.
trimTo(view, n) ==
    {o \in view : Cardinality({p \in view : AddressRank(p) < AddressRank(o)}) < n}

isEmptyHashring(table) == \A h \in Rings : table[h] = {}

\* Mutant: a first publication that tolerates a missing member.
handleUnseenHashrings_OneMissing(wanted, seen) ==
    [h \in Rings |-> IF wanted[h] > 0 /\ Cardinality(seen[h]) >= wanted[h] - 1
                       THEN seen[h] ELSE {}]

(***************************************************************************)
(* Before anything was published: only rings with every member ready.      *)
(***************************************************************************)
handleUnseenHashrings(wanted, seen) ==
    [h \in Rings |-> IF wanted[h] > 0 /\ Cardinality(seen[h]) >= wanted[h]
                       THEN seen[h] ELSE {}]

\* Mutant: without the check against the replication factor.
Acceptable_AnyFactor(policy, wanted, view, rf) ==
    Cardinality(view) >= IF policy = "static" THEN wanted ELSE wanted - 1

\* Enough ready members to replace the published ring: all of them under the
\* static policy, all but one under the dynamic one, never fewer than rf.
Acceptable(policy, wanted, view, rf) ==
    /\ Cardinality(view) >= rf
    /\ Cardinality(view) >= IF policy = "static" THEN wanted ELSE wanted - 1

\* Mutant: surplus members are not trimmed.
Chosen_Untrimmed(policy, wanted, view) == view

\* The members a ring gets when it is rebuilt from the ready endpoints.
Chosen(policy, wanted, view) ==
    IF policy = "static" THEN trimTo(view, wanted) ELSE view

\* Mutant: a ring without enough ready members is left out.
Merged_DropsTroubled(policy, previous, wanted, seen, rf) ==
    [h \in Rings |->
        IF wanted[h] > 0 /\ Acceptable(policy, wanted[h], seen[h], rf)
          THEN Chosen(policy, wanted[h], seen[h]) ELSE {}]

\* The rings of the spec, each from the ready endpoints or else as it was.
Merged(policy, previous, wanted, seen, rf) ==
    [h \in Rings |->
        IF wanted[h] = 0 THEN {}
        ELSE IF Acceptable(policy, wanted[h], seen[h], rf)
               THEN Chosen(policy, wanted[h], seen[h])
               ELSE previous[h]]

DynamicMerge(previous, wanted, seen, rf) ==
    IF isEmptyHashring(previous)
      THEN handleUnseenHashrings(wanted, seen)
      ELSE Merged("dynamic", previous, wanted, seen, rf)

StaticMerge(previous, wanted, seen, rf) ==
    IF isEmptyHashring(previous)
      THEN handleUnseenHashrings(wanted, seen)
      ELSE Merged("static", previous, wanted, seen, rf)

\* The choice buildHashringConfig makes between the two.
Merge(policy, previous, wanted, seen, rf) ==
    IF policy = "static" THEN StaticMerge(previous, wanted, seen, rf)
                         ELSE DynamicMerge(previous, wanted, seen, rf)
=============================================================================
