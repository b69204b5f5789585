------------------------------ MODULE Controllers ------------------------------
(***************************************************************************)
(* What the reconcilers of the five kinds of resource decide: what they    *)
(* discover among the Services, which objects a resource asks for, which   *)
(* are left over and pruned, and which events wake them.  objs is what the *)
(* namespace holds, a function from keys to objects.                       *)
(***************************************************************************)
EXTENDS Transform

Labelled(objs, kinds, labels) ==
    {k \in DOMAIN objs : k[1] \in kinds /\ HasRequiredLabels(objs[k].labels, labels)}

PartOf == Label("part-of", Value("thanos"))
requiredStoreServiceLabels == S!GetRequiredStoreServiceLabel
RequiredQueryServiceLabels == MergeMaps(QueryAPI, PartOf)
DefaultRemoteWriteLabels   == MergeMaps(RemoteWriteAPI, PartOf)

-----------------------------------------------------------------------------
(* Discovery.  Each gives the set of results it may have: none when it     *)
(* fails, several when the order of the Services decides.                  *)

getServiceTypeFromLabel(labels) ==
    LET order == <<StrictLabel, GroupStrictLabel, GroupLabel>>
        found == {i \in DOMAIN order : order[i] \in DOMAIN labels}
    IN  IF found = {} THEN RegularLabel ELSE order[Min(found)]

Listed(objs, userSelector, required) ==
    {Labelled(objs, {"Service"}, s) : s \in BuildLabelSelectorFrom(userSelector, required)}

storeEndpoint(svc, port) ==
    [service |-> svc.name, port |-> port, type |-> getServiceTypeFromLabel(svc.labels)]

Ported(keys, objs, required) == \A k \in keys : IsGrpcServiceWithLabels(objs[k], required) # {}

\* Sorted by name.  A Service without a gRPC port leaves an endpoint of no type,
\* on which the builder panics: the reconcile fails.
getStoreAPIServiceEndpoints(cr, objs) ==
    LET required    == requiredStoreServiceLabels
        Endpoint(k) == storeEndpoint(objs[k], Some(IsGrpcServiceWithLabels(objs[k], required)))
    IN  {SetToSeq({Endpoint(k) : k \in keys}) :
            keys \in {s \in Listed(objs, cr.spec.storeLabelSelector, required) : Ported(s, objs, required)}}

\* Not sorted.  A Service without a gRPC port leaves an empty endpoint.
getQueryAPIServiceEndpoints(cr, objs) ==
    LET Endpoint(k) ==
            LET ports == IsGrpcServiceWithLabels(objs[k], RequiredQueryServiceLabels)
            IN  IF ports = {} THEN [service |-> <<>>, port |-> 0]
                              ELSE [service |-> k[2], port |-> Some(ports)]
    IN  UNION {{[i \in DOMAIN s |-> Endpoint(s[i])] : s \in SetToSeqs(keys)} :
                  keys \in Listed(objs, cr.spec.queryLabelSelector, RequiredQueryServiceLabels)}

getReceiveServiceEndpoints(cr, objs) ==
    LET Endpoints(k) == {[service |-> k[2], port |-> p] :
                            p \in IsRemoteWriteServiceWithLabels(objs[k], DefaultRemoteWriteLabels)}
    IN  UNION {SetToSeqs(UNION {Endpoints(k) : k \in keys}) :
                  keys \in Listed(objs, cr.spec.receiveLabelSelector, DefaultRemoteWriteLabels)}

-----------------------------------------------------------------------------
(* The objects of a resource. *)

buildQuery(cr, gate, endpoints) ==
    WithFields(queryV1Alpha1ToOptions(cr, gate), [endpoints |-> endpoints])
buildQueryFrontend(cr, gate) ==
    {queryV1Alpha1ToQueryFrontEndOptions(cr, f, gate) : f \in cr.spec.frontend}

\* A builder ranges over the map of external labels of its options as it comes:
\* the options, with the labels in any order.
Ranged(o) == {WithFields(o, [externalLabels |-> s]) : s \in SetToSeqs(o.externalLabels)}
Rangings(options) ==
    {ranged \in [DOMAIN options -> UNION {Ranged(options[i]) : i \in DOMAIN options}] :
        \A i \in DOMAIN options : ranged[i] \in Ranged(options[i])}

rulerOptions(cr, gate, queries, receives) ==
    WithFields(rulerV1Alpha1ToOptions(cr, gate),
               [endpoints |-> queries, ruleFiles |-> <<>>,
                discovery |-> [endpoints |-> receives, tenants |-> <<>>, identifier |-> "tenant_id"]])

\* A ruler needs a querier, and one without an object store a receiver: no
\* options otherwise, and the call on them fails.
buildRuler(cr, gate, objs) ==
    LET queries  == getQueryAPIServiceEndpoints(cr, objs) \ {<<>>}
        receives == IF cr.spec.stateful # {} THEN {<<>>}
                    ELSE getReceiveServiceEndpoints(cr, objs) \ {<<>>}
    IN  UNION {Ranged(rulerOptions(cr, gate, q, w)) : q \in queries, w \in receives}

specToStoreOptions(cr, gate) ==
    LET o == storeV1Alpha1ToOptions(cr, gate)
        n == cr.spec.shards
        Shard(i) == WithFields(o, [shard   |-> {Number(i)},
                                   relabel |-> <<[action |-> "hashmod", arg |-> Number(n)],
                                                 [action |-> "keep", arg |-> Number(i)]>>])
    IN  IF n < 2 THEN <<WithFields(o, [shard |-> {}, relabel |-> <<>>])>>
        ELSE [i \in 1 .. n |-> Shard(i - 1)]

specToCompactOptions(cr, gate) ==
    LET o == compactV1Alpha1ToOptions(cr, gate)
        Shard(s) == WithFields(o, [shard   |-> {s.name},
                                   relabel |-> [i \in DOMAIN s.blocks |->
                                                   [action |-> "keep", arg |-> s.blocks[i]]]])
        sharding == cr.spec.sharding
    IN  IF sharding = <<>> THEN <<WithFields(o, [shard |-> {}, relabel |-> <<>>])>>
        ELSE [i \in DOMAIN sharding |-> Shard(sharding[i])]

specToIngestOptions(cr, gate) ==
    [i \in DOMAIN cr.spec.ingester.rings |->
        receiverV1Alpha1ToIngesterOptions(cr, cr.spec.ingester.rings[i], gate)]

\* The hashring configuration is that of ReceiveController; here it is left empty.
specToRouterOptions(cr, gate) ==
    WithFields(receiverV1Alpha1ToRouterOptions(cr, gate), [hashringConfig |-> ""])

\* The lists of objects a reconcile that reads objs may set out to write: none
\* when it fails before it writes.
Desired(cr, gate, objs) ==
    LET All(options, Build(_)) == FlattenSeq([i \in DOMAIN options |-> Build(options[i])])
    IN  CASE cr.kind = "ThanosQuery" ->
               {Q!Build(buildQuery(cr, gate, eps)) \o 
                   (IF cr.spec.frontend = {} THEN <<>> ELSE F!Build(Some(buildQueryFrontend(cr, gate)))) :
                   eps \in getStoreAPIServiceEndpoints(cr, objs)}
          [] cr.kind = "ThanosRuler"   -> {R!Build(o) : o \in buildRuler(cr, gate, objs)}
          [] cr.kind = "ThanosStore"   -> {All(specToStoreOptions(cr, gate), S!Build)}
          [] cr.kind = "ThanosCompact" -> {All(specToCompactOptions(cr, gate), C!Build)}
          [] cr.kind = "ThanosReceive" ->
               {All(ingesters, I!BuildIngester) \o I!BuildRouter(router) :
                   ingesters \in Rangings(specToIngestOptions(cr, gate)),
                   router \in Ranged(specToRouterOptions(cr, gate))}

-----------------------------------------------------------------------------
(* Pruning. *)

Prune(objs, kinds, labels, keep) == {k \in Labelled(objs, kinds, labels) : k[2] \notin keep}
PruneByOwner(objs, kinds, id)    == {k \in DOMAIN objs : k[1] \in kinds /\ objs[k].owner = id}

Id(cr) == <<cr.kind, cr.name>>
Instances(options, Name(_)) == {Name(options[i]) : i \in DOMAIN options}

\* The labels an owner's objects are listed by, and the names that are kept.
OwnerLabels(cr) ==
    LET o == [owner |-> cr.name, shard |-> {}, hashring |-> <<>>]
    IN  GetLabelSelectorForOwner(
            CASE cr.kind = "ThanosQuery"   -> Q!GetSelectorLabels(o)
              [] cr.kind = "ThanosRuler"   -> R!GetSelectorLabels(o)
              [] cr.kind = "ThanosStore"   -> S!GetSelectorLabels(o)
              [] cr.kind = "ThanosCompact" -> C!GetSelectorLabels(o)
              [] cr.kind = "ThanosReceive" -> I!IngesterSelector(o))

Kept(cr, gate) ==
    CASE cr.kind = "ThanosQuery" ->
            {QueryNameFromParent(cr.name)}
            \cup (IF cr.spec.frontend = {} THEN {} ELSE {QueryFrontendNameFromParent(cr.name)})
      [] cr.kind = "ThanosRuler"   -> {RulerNameFromParent(cr.name)}
      [] cr.kind = "ThanosStore"   ->
            Instances(specToStoreOptions(cr, gate), S!GetGeneratedResourceName)
      [] cr.kind = "ThanosCompact" ->
            Instances(specToCompactOptions(cr, gate), C!GetGeneratedResourceName)
      [] cr.kind = "ThanosReceive" -> Instances(specToIngestOptions(cr, gate), I!IngesterName)

\* Mutant: Services are not among what is pruned.
pruneOrphanedResources_KeepsServices(cr, gate, objs) ==
    Prune(objs,
          {"ServiceAccount", "ServiceMonitor"}
          \cup {IF cr.kind = "ThanosQuery" THEN "Deployment" ELSE "StatefulSet"}
          \cup (IF cr.kind = "ThanosCompact" THEN {} ELSE {"PodDisruptionBudget"}),
          OwnerLabels(cr), Kept(cr, gate))

pruneOrphanedResources(cr, gate, objs) ==
    Prune(objs,
          {"ServiceAccount", "Service", "ServiceMonitor"}
          \cup {IF cr.kind = "ThanosQuery" THEN "Deployment" ELSE "StatefulSet"}
          \cup (IF cr.kind = "ThanosCompact" THEN {} ELSE {"PodDisruptionBudget"}),
          OwnerLabels(cr), Kept(cr, gate))

\* The budgets of workloads that have fewer than two replicas.
singleBudgets(cr, objs) ==
    LET Budgets(labels) == Prune(objs, {"PodDisruptionBudget"}, labels, {})
        owner == [owner |-> cr.name]
    IN  CASE cr.kind = "ThanosCompact" -> {}
          [] cr.kind = "ThanosReceive" ->
               (IF cr.spec.router.replicas < 2
                THEN Budgets(GetLabelSelectorForOwner(I!RouterSelector(owner))) ELSE {})
               \cup {<<"PodDisruptionBudget", ReceiveIngesterNameFromParent(cr.name, r.name)>> :
                        r \in {x \in ToSet(cr.spec.ingester.rings) : x.replicas < 2}}
          [] OTHER ->
               (IF cr.spec.replicas < 2 THEN Budgets(OwnerLabels(cr)) ELSE {})
               \cup (IF cr.kind = "ThanosQuery" /\ \E f \in cr.spec.frontend : f.replicas < 2
                     THEN Budgets(GetLabelSelectorForOwner(F!GetSelectorLabels(owner))) ELSE {})

\* The ServiceMonitors of a closed gate, and that of the sidecar of a router.
gatedMonitors(cr, gate, objs) ==
    IF gate.sm = {} THEN PruneByOwner(objs, {"ServiceMonitor"}, Id(cr))
    ELSE IF cr.kind = "ThanosReceive" /\ ~gate.krs
    THEN {<<"ServiceMonitor", ReceiveRouterNameFromParent(cr.name) \o <<"-", I!SyncContainer>>>>}
    ELSE {}

\* Mutant: the Secret is pruned whether or not the ruler is stateful.
pruneGeneratedRemoteWriteSecret_Always(cr, objs) ==
    IF cr.kind = "ThanosRuler"
    THEN Prune(objs, {"Secret"}, MergeMaps(OwnerLabels(cr), R!GeneratedSecret), {}) ELSE {}

pruneGeneratedRemoteWriteSecret(cr, objs) ==
    IF cr.kind = "ThanosRuler" /\ cr.spec.stateful # {}
    THEN Prune(objs, {"Secret"}, MergeMaps(OwnerLabels(cr), R!GeneratedSecret), {}) ELSE {}

\* A compactor prunes before it writes and, but for the gate, nothing after.
PrunedBefore(cr, gate, objs) ==
    IF cr.kind = "ThanosCompact" THEN pruneOrphanedResources(cr, gate, objs) ELSE {}

cleanup(cr, gate, objs) ==
    DOMAIN objs \cap
        ((IF cr.kind = "ThanosCompact" THEN {} ELSE pruneOrphanedResources(cr, gate, objs))
         \cup gatedMonitors(cr, gate, objs) \cup singleBudgets(cr, objs)
         \cup pruneGeneratedRemoteWriteSecret(cr, objs))

-----------------------------------------------------------------------------
(* Events.  old and new are what an object was and is, each a set of at    *)
(* most one object.                                                        *)

Owns(kind) ==
    {"ServiceAccount", "Service", "ServiceMonitor"}
    \cup (IF kind = "ThanosCompact" THEN {} ELSE {"ConfigMap", "PodDisruptionBudget"})
    \cup (IF kind = "ThanosQuery" THEN {} ELSE {"StatefulSet"})
    \cup (IF kind \in {"ThanosQuery", "ThanosReceive"} THEN {"Deployment"} ELSE {})

enqueueForOwner(old, new) ==
    {o.owner : o \in {x \in old \cup new : x.owner # NoOwner /\ x.kind \in Owns(x.owner[1])}}

\* The object an event is judged by has the labels; an update must change labels.
Passes(old, new, required) ==
    \E o \in (IF new = {} THEN old ELSE new) :
        /\ o.kind = "Service" /\ HasRequiredLabels(o.labels, required)
        /\ old # {} /\ new # {} => Some(old).labels # o.labels

\* Mutant: a Service wakes the querier when it changes or goes, not when it appears.
enqueueForStoreService_OnlyOld(crs, old, new) ==
    {Id(cr) : cr \in {c \in crs : c.kind = "ThanosQuery" /\ old # {}
        /\ Passes(old, new, requiredStoreServiceLabels)
        /\ \E o \in old \cup new, s \in BuildLabelSelectorFrom(c.spec.storeLabelSelector,
                                                               requiredStoreServiceLabels) :
               /\ IsGrpcServiceWithLabels(o, requiredStoreServiceLabels) # {}
               /\ HasRequiredLabels(o.labels, s)}}

enqueueForStoreService(crs, old, new) ==
    {Id(cr) : cr \in {c \in crs : c.kind = "ThanosQuery"
        /\ Passes(old, new, requiredStoreServiceLabels)
        /\ \E o \in old \cup new, s \in BuildLabelSelectorFrom(c.spec.storeLabelSelector,
                                                               requiredStoreServiceLabels) :
               /\ IsGrpcServiceWithLabels(o, requiredStoreServiceLabels) # {}
               /\ HasRequiredLabels(o.labels, s)}}

\* A ruler is woken by queriers and, when it has no object store, by receivers.
enqueueForRulerService(crs, old, new) ==
    LET Selected(o, userSelector, required) ==
            \E s \in BuildLabelSelectorFrom(userSelector, required) : HasRequiredLabels(o.labels, s)
        Queueable(o) == \/ IsGrpcServiceWithLabels(o, RequiredQueryServiceLabels) # {}
                        \/ IsRemoteWriteServiceWithLabels(o, DefaultRemoteWriteLabels) # {}
    IN  {Id(cr) : cr \in {c \in crs : c.kind = "ThanosRuler"
            /\ \/ Passes(old, new, RequiredQueryServiceLabels)
               \/ Passes(old, new, DefaultRemoteWriteLabels)
            /\ \E o \in old \cup new :
                  /\ Queueable(o)
                  /\ \/ Selected(o, c.spec.queryLabelSelector, RequiredQueryServiceLabels)
                     \/ /\ c.spec.stateful = {}
                        /\ Selected(o, c.spec.receiveLabelSelector, DefaultRemoteWriteLabels)}}

\* Everything a change of one object puts in the queues.
Woken(crs, old, new) ==
    (enqueueForOwner(old, new) \cap {Id(c) : c \in crs})
    \cup enqueueForStoreService(crs, old, new) \cup enqueueForRulerService(crs, old, new)
=============================================================================
