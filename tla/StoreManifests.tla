---------------------------- MODULE StoreManifests ----------------------------
(***************************************************************************)
(* The objects of one store gateway: a StatefulSet with a volume for its   *)
(* cache, for the whole resource or, when o.shard has an index, one shard. *)
(***************************************************************************)
EXTENDS Manifests

HTTPPort  == 10902
DataClaim == <<"data">>

GetRequiredStoreServiceLabel == MergeMaps(Label("part-of", Value("thanos")), StoreAPI)
GetRequiredLabels ==
    MergeMaps(ComponentLabels("thanos-store", "object-storage-gateway"),
              GetRequiredStoreServiceLabel)

GetGeneratedResourceName(o) ==
    LET name == <<"thanos", "-", "store", "-">> \o o.owner
    IN  ValidateAndSanitizeResourceName(
            IF o.shard = {} THEN name
            ELSE name \o <<"-", "shard", "-">> \o (CHOOSE i \in o.shard : TRUE))

GetSelectorLabels(o) ==
    LET labels == InstanceLabels(GetRequiredLabels, GetGeneratedResourceName(o), o.owner)
    IN  IF o.shard = {} THEN labels
        ELSE MergeMaps(labels, Label("shard", CHOOSE i \in o.shard : TRUE))

\* Replicas of a store serve the same blocks: they form a group of endpoints.
GetLabels(o) ==
    LET labels == MergeMaps(o.labels, GetSelectorLabels(o))
    IN  SanitizeStoreAPIEndpointLabels(
            IF o.replicas > 1 THEN MergeMaps(labels, Label(GroupLabel, Value("true")))
                              ELSE labels)

blockArgs(b) ==
    OptionalArg("block-discovery-strategy", b.discovery)
    \o OptionalArg("block-meta-fetch-concurrency", b.metaFetch)

limitFlags(limits) ==
    OptionalArg("store.limits.request-samples", limits.samples)
    \o OptionalArg("store.limits.request-series", limits.series)

storeArgsFrom(o) == PruneEmptyArgs(
    ToFlags(o.log)
    \o << Arg("grpc-address", Address(GRPCPort)), Arg("http-address", Address(HTTPPort)),
          Arg("objstore.config", FromEnv("OBJSTORE_CONFIG")),
          Arg("data-dir", Value("/var/thanos/store")),
          Arg("ignore-deletion-marks-delay", o.ignoreMarks),
          Arg("min-time", o.min), Arg("max-time", o.max) >>
    \o limitFlags(o.limits) \o blockArgs(o.block)
    \o (IF o.indexHeader = {} THEN <<>>
        ELSE LET h == CHOOSE x \in o.indexHeader : TRUE
             IN  FlagIf(h.lazy, "store.enable-index-header-lazy-reader")
                 \o << Arg("store.index-header-lazy-reader-idle-timeout", h.idle),
                       Arg("store.index-header-lazy-download-strategy", h.strategy) >>)
    \o CacheArg("index-cache.config", "INDEX_CACHE_CONFIG", o.indexCache)
    \o CacheArg("store.caching-bucket.config", "CACHING_BUCKET_CONFIG", o.bucketCache)
    \o RelabelFlag(o.relabel))

Environment(o) == SecretEnv("OBJSTORE_CONFIG", {o.objstore})
                  \o SecretEnv("INDEX_CACHE_CONFIG", o.indexCache.secret)
                  \o SecretEnv("CACHING_BUCKET_CONFIG", o.bucketCache.secret)

storePod(o) ==
    Pod(GetLabels(o), GetGeneratedResourceName(o), <<>>, {DataClaim}, <<>>,
        << Container("thanos-store", storeArgsFrom(o),
                     <<Port(GRPC, GRPCPort), Port(HTTP, HTTPPort)>>,
                     <<Mount(DataClaim)>>, Environment(o), {HTTPPort}) >>)

newStoreShardStatefulSet(o) ==
    LET name == GetGeneratedResourceName(o)
    IN  AugmentWithOptions(
            StatefulSet(name, GetLabels(o), o.replicas, GetSelectorLabels(o), name, storePod(o)), o)

newStoreService(o) ==
    Service(GetGeneratedResourceName(o), GetLabels(o), GetSelectorLabels(o),
            <<ServicePort(GRPC, GRPCPort), ServicePort(HTTP, HTTPPort)>> \o o.extra.servicePorts)

Build(o) ==
    LET name == GetGeneratedResourceName(o)
    IN  << BuildServiceAccount(name, GetSelectorLabels(o)),
           newStoreService(o), newStoreShardStatefulSet(o) >>
        \o WhenSome(o.pdb, LAMBDA p :
               NewPodDisruptionBudget(name, GetSelectorLabels(o), GetLabels(o), p))
        \o WhenSome(o.gate.sm, LAMBDA c :
               BuildServiceMonitor(name, GetLabels(o), GetSelectorLabels(o), c, HTTP))
=============================================================================
