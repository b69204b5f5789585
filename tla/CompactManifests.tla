--------------------------- MODULE CompactManifests ---------------------------
(***************************************************************************)
(* The objects of one compactor: a StatefulSet of a single replica, for    *)
(* the whole resource or, when o.shard has a name, one shard.  There is    *)
(* never a PodDisruptionBudget.                                            *)
(***************************************************************************)
EXTENDS Manifests

HTTPPort  == 10902
DataClaim == <<"data">>

GetRequiredLabels == ComponentLabels("thanos-compact", "thanos-compactor")
GetGeneratedResourceName(o) ==
    LET name == <<"thanos", "-", "compact", "-">> \o o.owner
    IN  ValidateAndSanitizeResourceName(
            IF o.shard = {} THEN name ELSE name \o <<"-">> \o (CHOOSE s \in o.shard : TRUE))
GetSelectorLabels(o) ==
    LET labels == InstanceLabels(GetRequiredLabels, GetGeneratedResourceName(o), o.owner)
    IN  IF o.shard = {} THEN labels
        ELSE MergeMaps(labels, Label("shard", ValidateAndSanitizeNameToValidLabelValue(
                                                  CHOOSE s \in o.shard : TRUE)))
GetLabels(o) == MergeMaps(o.labels, GetSelectorLabels(o))

retentionArgs(r) ==
    OptionalArg("retention.resolution-raw", r.raw)
    \o OptionalArg("retention.resolution-5m", r.fiveMinutes)
    \o OptionalArg("retention.resolution-1h", r.oneHour)

blockArgs(b) ==
    OptionalArg("block-discovery-strategy", b.discovery)
    \o OptionalArg("block-files-concurrency", b.files)
    \o OptionalArg("block-meta-fetch-concurrency", b.metaFetch)
    \o OptionalArg("block-viewer.global.sync-block-interval", b.syncInterval)
    \o OptionalArg("block-viewer.global.sync-block-timeout", b.syncTimeout)

compactionArgs(c) ==
    OptionalArg("compact.concurrency", c.concurrency)
    \o OptionalArg("compact.blocks-fetch-concurrency", c.fetch)
    \o OptionalArg("compact.cleanup-interval", c.cleanup)
    \o OptionalArg("consistency-delay", c.delay)
    \o FlagIf(c.replicaLabels # <<>>, "compact.enable-vertical-compaction")
    \o Repeated("deduplication.replica-label", c.replicaLabels)
    \o OptionalArg("deduplication.func", c.dedup)

downsamplingArgs(d) ==
    FlagIf(d.disable, "downsampling.disable") \o OptionalArg("downsample.concurrency", d.concurrency)

debugArgs(d) ==
    FlagIf(d.acceptMalformed, "debug.accept-malformed-index")
    \o OptionalArg("debug.max-compaction-level", d.maxLevel)
    \o <<Arg(IF d.halt THEN "debug.halt-on-error" ELSE "no-debug.halt-on-error", Switch)>>

compactorArgsFrom(o) == PruneEmptyArgs(
    ToFlags(o.log)
    \o << Arg("wait", Switch), Arg("http-address", Address(HTTPPort)),
          Arg("objstore.config", FromEnv("OBJSTORE_CONFIG")),
          Arg("data-dir", Value("/var/thanos/compact")) >>
    \o RelabelFlag(o.relabel) \o OptionalArg("min-time", o.min) \o OptionalArg("max-time", o.max)
    \o retentionArgs(o.retention) \o blockArgs(o.block) \o compactionArgs(o.compaction)
    \o downsamplingArgs(o.downsampling) \o debugArgs(o.debug))

newShardStatefulSet(o) ==
    LET name == GetGeneratedResourceName(o)
        main == Container("thanos-compact", compactorArgsFrom(o), <<Port(HTTP, HTTPPort)>>,
                          <<Mount(DataClaim)>>, SecretEnv("OBJSTORE_CONFIG", {o.objstore}),
                          {HTTPPort})
    IN  AugmentWithOptions(
            StatefulSet(name, GetLabels(o), 1, GetSelectorLabels(o), name,
                        Pod(GetLabels(o), name, <<>>, {DataClaim}, <<>>, <<main>>)), o)

NewService(o) ==
    Service(GetGeneratedResourceName(o), GetLabels(o), GetSelectorLabels(o),
            <<ServicePort(HTTP, HTTPPort)>> \o o.extra.servicePorts)

Build(o) ==
    LET name == GetGeneratedResourceName(o)
    IN  << BuildServiceAccount(name, GetSelectorLabels(o)), newShardStatefulSet(o), NewService(o) >>
        \o WhenSome(o.gate.sm, LAMBDA c :
               BuildServiceMonitor(name, GetLabels(o), GetSelectorLabels(o), c, HTTP))
=============================================================================
