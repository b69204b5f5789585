------------------------------- MODULE Transform -------------------------------
(***************************************************************************)
(* From a custom resource to what the builders are given.  cr is the       *)
(* resource: its name, its labels and its spec; gate is the configuration  *)
(* of the feature gates, the same for every resource.  What the API fills  *)
(* in by default is in the spec already.                                   *)
(***************************************************************************)
EXTENDS Manifests

Q  == INSTANCE QueryManifests
F  == INSTANCE FrontendManifests
R  == INSTANCE RulerManifests
I  == INSTANCE ReceiveManifests
S  == INSTANCE StoreManifests
C  == INSTANCE CompactManifests

\* Options with more fields.  Those of external labels hold a set until a builder
\* puts the labels into a command line, in an order of its own.
WithFields(o, more) == MergeMaps(o, more)

Some(opt)            == CHOOSE x \in opt : TRUE
OptionalToString(opt) == IF opt = {} THEN EmptyValue ELSE Some(opt)
IsTrue(opt)          == opt = {TRUE}

\* A budget needs two replicas, and may be refused.
podDisruptionBudgetConfigToOpts(replicas, pdb) ==
    IF replicas < 2 \/ pdb = {} \/ pdb = {[enable |-> {FALSE}]} THEN {}
    ELSE {[min |-> {}, max |-> {1}]}

\* An external cache wins over one in memory, which needs a size.
toManifestCacheConfig(config) ==
    [secret |-> config.external,
     memory |-> IF config.external # {} THEN {} ELSE config.sizes]

\* What a StatefulSet is rolled out by; the grace period is that of the pods.
statefulSetToOpts(in) == [policy |-> in.policy, retention |-> in.retention,
                          grace |-> in.grace, minReady |-> in.minReady]

commonToOpts(cr, replicas, common, additional, rollout, gate) ==
    [owner    |-> cr.name,
     replicas |-> replicas,
     labels   |-> MergeMaps(cr.labels, common.labels),
     log      |-> common.log,
     extra    |-> additional,
     pdb      |-> podDisruptionBudgetConfigToOpts(replicas, common.pdb),
     rollout  |-> rollout,
     gate     |-> gate]

NoRollout == [policy |-> {}, retention |-> {}, grace |-> {}, minReady |-> {}]

-----------------------------------------------------------------------------
NoWebConfig == [routePrefix |-> EmptyValue, externalPrefix |-> EmptyValue,
                prefixHeader |-> EmptyValue, disableCORS |-> FALSE]
NoQuantiles == [duration |-> <<>>, samples |-> <<>>, series |-> <<>>]

webConfig(w) == [routePrefix    |-> OptionalToString(w.routePrefix),
                 externalPrefix |-> OptionalToString(w.externalPrefix),
                 prefixHeader   |-> OptionalToString(w.prefixHeader),
                 disableCORS    |-> IsTrue(w.disableCORS)]

queryV1Alpha1ToOptions(cr, gate) ==
    LET spec == cr.spec
    IN  WithFields(commonToOpts(cr, spec.replicas, spec.common, spec.additional, NoRollout, gate),
                   [replicaLabels |-> spec.replicaLabels,
                    timeout       |-> Value("15m"),
                    lookback      |-> Value("5m"),
                    maxConcurrent |-> 20,
                    web           |-> IF spec.web = {} THEN NoWebConfig ELSE webConfig(Some(spec.web)),
                    quantiles     |-> IF spec.quantiles = {} THEN NoQuantiles ELSE Some(spec.quantiles),
                    proxyStrategy |-> spec.proxyStrategy])

QueryNameFromParent(name) == Q!GetGeneratedResourceName([owner |-> name])

queryV1Alpha1ToQueryFrontEndOptions(cr, frontend, gate) ==
    WithFields(commonToOpts(cr, frontend.replicas, frontend.common, frontend.additional, NoRollout, gate),
               [queryService    |-> QueryNameFromParent(cr.name),
                queryPort       |-> Q!HTTPPort,
                logLongerThan   |-> OptionalToString(frontend.logLongerThan),
                compress        |-> frontend.compress,
                cache           |-> toManifestCacheConfig(frontend.cache),
                rangeSplit      |-> OptionalToString(frontend.rangeSplit),
                labelsSplit     |-> OptionalToString(frontend.labelsSplit),
                rangeRetries    |-> frontend.rangeRetries,
                labelsRetries   |-> frontend.labelsRetries,
                labelsTimeRange |-> OptionalToString(frontend.labelsTimeRange)])

QueryFrontendNameFromParent(name) == F!GetGeneratedResourceName([owner |-> name])

-----------------------------------------------------------------------------
rulerV1Alpha1ToOptions(cr, gate) ==
    LET spec     == cr.spec
        stateful == spec.stateful
    IN  WithFields(commonToOpts(cr, spec.replicas, spec.common, spec.additional,
                                statefulSetToOpts(spec.rollout), gate),
                   [alertmanager   |-> spec.alertmanager,
                    alertLabelDrop |-> spec.alertLabelDrop,
                    evalInterval   |-> spec.evalInterval,
                    objstore       |-> {s.objstore : s \in stateful},
                    retention      |-> IF stateful = {} THEN EmptyValue ELSE Some(stateful).retention,
                    externalLabels |-> IF stateful = {} THEN {} ELSE Some(stateful).externalLabels])

RulerNameFromParent(name) == R!GetGeneratedResourceName([owner |-> name])

-----------------------------------------------------------------------------
NoTenancy == [header |-> EmptyValue, certificateField |-> EmptyValue, defaultTenant |-> EmptyValue,
              splitLabel |-> EmptyValue, tenantLabel |-> EmptyValue]
tenancyConfig(t) == [t EXCEPT !.certificateField = OptionalToString(@),
                              !.splitLabel = OptionalToString(@)]

\* Ingesters get long to flush what they hold, unless the user says otherwise.
DefaultIngestGrace == 900
ingesterRollout(rollout) ==
    [statefulSetToOpts(rollout) EXCEPT !.grace = IF @ = {} THEN {DefaultIngestGrace} ELSE @]

receiverV1Alpha1ToIngesterOptions(cr, ring, gate) ==
    WithFields(commonToOpts(cr, ring.replicas, ring.common, cr.spec.ingester.additional,
                            ingesterRollout(cr.spec.rollout), gate),
               [hashring       |-> ring.name,
                objstore       |-> IF ring.objstore = {} THEN cr.spec.ingester.objstore
                                                         ELSE Some(ring.objstore),
                retention      |-> ring.retention,
                asyncWorkers   |-> OptionalToString(ring.asyncWorkers),
                tooFarInFuture |-> OptionalToString(ring.tooFarInFuture),
                externalLabels |-> ring.externalLabels,
                protocol       |-> OptionalToString(cr.spec.router.protocol),
                compression    |-> OptionalToString(ring.compression),
                tenancy        |-> IF ring.tenancy = {} THEN NoTenancy ELSE tenancyConfig(Some(ring.tenancy)),
                limits         |-> ring.limits])

receiverV1Alpha1ToRouterOptions(cr, gate) ==
    LET router == cr.spec.router
    IN  WithFields(commonToOpts(cr, router.replicas, router.common, router.additional,
                                statefulSetToOpts(cr.spec.rollout), gate),
                   [replicationFactor |-> router.replicationFactor,
                    externalLabels    |-> router.externalLabels,
                    protocol          |-> OptionalToString(router.protocol)])

ReceiveIngesterNameFromParent(name, ring) == I!IngesterName([owner |-> name, hashring |-> ring])
ReceiveRouterNameFromParent(name)         == I!RouterName([owner |-> name])

-----------------------------------------------------------------------------
storeV1Alpha1ToOptions(cr, gate) ==
    LET spec == cr.spec
        indexHeader(h) == [lazy     |-> IsTrue(h.lazy),
                           idle     |-> OptionalToString(h.idle),
                           strategy |-> OptionalToString(h.strategy)]
    IN  WithFields(commonToOpts(cr, spec.replicas, spec.common, spec.additional,
                                statefulSetToOpts(spec.rollout), gate),
                   [objstore    |-> spec.objstore,
                    indexCache  |-> toManifestCacheConfig(spec.indexCache),
                    bucketCache |-> toManifestCacheConfig(spec.bucketCache),
                    ignoreMarks |-> spec.ignoreMarks,
                    indexHeader |-> {indexHeader(h) : h \in spec.indexHeader},
                    block       |-> spec.block,
                    limits      |-> spec.limits,
                    min         |-> OptionalToString(spec.timeRange.min),
                    max         |-> OptionalToString(spec.timeRange.max)])

StoreNameFromParent(name, shard) == S!GetGeneratedResourceName([owner |-> name, shard |-> shard])

-----------------------------------------------------------------------------
\* A compactor runs as a single pod: never a budget.
compactV1Alpha1ToOptions(cr, gate) ==
    LET spec   == cr.spec
        common == commonToOpts(cr, 1, spec.common, spec.additional,
                               statefulSetToOpts(spec.rollout), gate)
    IN  WithFields([common EXCEPT !.pdb = {}],
                   [objstore     |-> spec.objstore,
                    retention    |-> [raw |-> {spec.retention.raw},
                                      fiveMinutes |-> {spec.retention.fiveMinutes},
                                      oneHour |-> {spec.retention.oneHour}],
                    block        |-> spec.block,
                    compaction   |-> spec.compaction,
                    downsampling |-> [disable     |-> IsTrue(spec.downsampling.disable),
                                      concurrency |-> spec.downsampling.concurrency],
                    debug        |-> [acceptMalformed |-> IsTrue(spec.debug.acceptMalformed),
                                      maxLevel        |-> spec.debug.maxLevel \ {Value("0")},
                                      halt            |-> IsTrue(spec.debug.halt)],
                    min          |-> spec.timeRange.min,
                    max          |-> spec.timeRange.max])

CompactNameFromParent(name) == C!GetGeneratedResourceName([owner |-> name, shard |-> {}])
=============================================================================
