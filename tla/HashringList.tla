----------------------------- MODULE HashringList -----------------------------
(***************************************************************************)
(* The hashring configuration as the list it is stored as: the entries of  *)
(* hashrings.json, their order, and what an entry carries besides its      *)
(* members.  Hashrings and ReceiveController treat it as a table; this     *)
(* module shows that a reconcile on the list is a merge of the table, and  *)
(* what the table leaves out.  A whole buildHashringConfig with the write  *)
(* of its result is one step here; ReceiveController takes it apart.       *)
(***************************************************************************)
EXTENDS Integers, SequencesExt

CONSTANTS
    Rings,        \* names of rings, as numbers in their alphabetical order
    MaxReplicas,  \* bound: the largest number of replicas asked for
    TenantLists,  \* what a user may write as the tenants of a ring
    Policies,     \* the hashring policies the user picks from
    Protocols,    \* "grpc" or "capnproto"
    rf            \* the replication factor

ASSUME RingsAssumption  == Rings \subseteq Nat \ {0} /\ IsFiniteSet(Rings)
ASSUME BoundAssumption  == MaxReplicas \in 1 .. 100
ASSUME FactorAssumption == rf \in 1 .. MaxReplicas

VARIABLES
    spec,    \* what the user asks for
    ready,   \* the ready members of each ring
    content  \* hashrings.json in the router's ConfigMap

vars == <<spec, ready, content>>

Tables == INSTANCE Hashrings

Specs == {s \in [replicas : [Rings -> {0} \cup rf .. MaxReplicas],
                 tenants  : [Rings -> TenantLists],
                 policy   : Policies,
                 protocol : Protocols] :
             \A h \in Rings : s.replicas[h] = 0 => s.tenants[h] = CHOOSE t \in TenantLists : TRUE}

Entries == [name : Rings \cup {0}, tenants : TenantLists \cup {"none"},
            members : Tables!View, capnproto : BOOLEAN]

\* "[{}]", what an empty result is stored as.
EmptyHashringConfig ==
    <<[name |-> 0, tenants |-> "none", members |-> {}, capnproto |-> FALSE]>>

-----------------------------------------------------------------------------
\* Reading an endpoint back keeps its address and drops capnproto_address.
UnmarshalJSON(list) == [i \in DOMAIN list |-> [list[i] EXCEPT !.capnproto = FALSE]]

isEmptyHashring(list) == list = <<>> \/ (Len(list) = 1 /\ list[1].members = {})

\* The entry of ring h with the given members; the capnproto converter writes
\* both addresses of an endpoint.
metaToHashring(h, members) ==
    [name |-> h, tenants |-> spec.tenants[h], members |-> members,
     capnproto |-> spec.protocol = "capnproto"]

named == {h \in Rings : spec.replicas[h] > 0}

\* Mutant: rings are published before their members are ready.
handleUnseenHashrings_Unready ==
    {[i \in DOMAIN order |-> metaToHashring(order[i], ready[order[i]])] :
       order \in SetToSeqs(named)}

\* Rings with all members ready, in any order: the iteration of a Go map.
handleUnseenHashrings ==
    LET complete == {h \in named : Cardinality(ready[h]) >= spec.replicas[h]}
    IN {[i \in DOMAIN order |-> metaToHashring(order[i], ready[order[i]])] :
          order \in SetToSeqs(complete)}

\* The rings with enough ready members to be built anew.
rebuilt ==
    {h \in named : Tables!Acceptable(spec.policy, spec.replicas[h], ready[h], rf)}

\* Mutant: the previous entry is added even when there is a new one.
listed_NoContinue(previous) ==
    (rebuilt \X {0})
      \cup {<<previous[i].name, i>> : i \in {j \in DOMAIN previous : previous[j].name \in named}}

\* What the merge lists, with the name it is sorted by: a ring built anew as
\* place 0, and for every other ring of the spec all previous entries of its
\* name, each as its place in the previous list.
listed(previous) ==
    (rebuilt \X {0})
      \cup {<<previous[i].name, i>> :
               i \in {j \in DOMAIN previous : previous[j].name \in named \ rebuilt}}

mergedEntry(previous, item) ==
    IF item[2] = 0
      THEN metaToHashring(item[1],
             Tables!Chosen(spec.policy, spec.replicas[item[1]], ready[item[1]]))
      ELSE previous[item[2]]

\* sort.Slice by name, which may put entries of one name in any order.
sortings(items) ==
    {order \in SetToSeqs(items) : \A i, j \in DOMAIN order : i < j => order[i][1] <= order[j][1]}

\* Mutant: the result is in the order of the map.
Merges_Unsorted(previous) ==
    IF isEmptyHashring(previous)
      THEN handleUnseenHashrings
      ELSE {[i \in DOMAIN order |-> mergedEntry(previous, order[i])] :
              order \in SetToSeqs(listed(previous))}

\* DynamicMerge and StaticMerge: sorted by name, unless nothing was published.
Merges(previous) ==
    IF isEmptyHashring(previous)
      THEN handleUnseenHashrings
      ELSE {[i \in DOMAIN order |-> mergedEntry(previous, order[i])] :
              order \in sortings(listed(previous))}

\* What hashrings.json may be after a reconcile that finds it as old.
Reconciled(old) ==
    {IF out = <<>> THEN EmptyHashringConfig ELSE out : out \in Merges(UnmarshalJSON(old))}

-----------------------------------------------------------------------------
Init ==
    /\ spec \in Specs
    /\ ready = [h \in Rings |-> {}]
    /\ content = <<>>

EditSpec ==
    /\ spec' \in Specs
    /\ UNCHANGED <<ready, content>>

\* One more or one less member of a ring is ready.
PodChanges ==
    /\ \E h \in Rings, o \in Tables!Ordinals :
         ready' = [ready EXCEPT ![h] = IF o \in @ THEN @ \ {o} ELSE @ \cup {o}]
    /\ UNCHANGED <<spec, content>>

Reconcile ==
    /\ content' \in Reconciled(content)
    /\ UNCHANGED <<spec, ready>>

Next == EditSpec \/ PodChanges \/ Reconcile

Spec == Init /\ [][Next]_vars

-----------------------------------------------------------------------------
\* Every value has its type.
TypeOK ==
    /\ spec \in Specs
    /\ ready \in Tables!Table
    /\ \A i \in DOMAIN content : content[i] \in Entries
    /\ \/ content = EmptyHashringConfig
       \/ \A i \in DOMAIN content : content[i].name # 0 /\ content[i].members # {}

\* The table a list stands for.
Tabled(list) == [h \in Rings |-> UNION {e.members : e \in {x \in ToSet(list) : x.name = h}}]

\* Merging lists is merging tables, also through the storage of the empty list
\* as "[{}]" and back: what Hashrings says of the merge holds of hashrings.json;
\* and no ring is listed twice, neither next to the entry it replaces nor
\* through the loop over the previous state
\* (thanosreceive_controller.go:267-347, hashrings.go:195-199).
MergesTables ==
    \A new \in Reconciled(content) :
        /\ Tabled(new) = Tables!Merge(spec.policy, Tabled(content), spec.replicas, ready, rf)
        /\ \A i, j \in DOMAIN new : new[i].name = new[j].name => i = j

InOrder(list) == \A i, j \in DOMAIN list : i < j => list[i].name < list[j].name

\* Reconciles of an unchanged cluster stop rewriting the configuration after
\* two: the first may list the rings in any order and may drop addresses, the
\* second sorts them, and no further one changes a byte (each change makes all
\* routers reload).
TwoReconcilesSettle ==
    \A once \in Reconciled(content) : \A twice \in Reconciled(once) :
        InOrder(twice) /\ Reconciled(twice) = {twice}

\* "if the hashring is having issues, we don't interfere with it"
\* (hashrings.go:192-193): its entry stays.
TroubledEntryKept ==
    [][\A e \in ToSet(content) :
          /\ UNCHANGED <<spec, ready>>
          /\ e.name \in named
          /\ ~ Tables!Acceptable(spec.policy, spec.replicas[e.name], ready[e.name], rf)
          => e \in ToSet(content')]_vars
=============================================================================
