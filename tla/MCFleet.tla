-------------------------------- MODULE MCFleet --------------------------------
(***************************************************************************)
(* Small namespaces for OwnedObjects and ObjectStatus.                     *)
(***************************************************************************)
EXTENDS ObjectStatus, TLC

NoExtra == [args |-> <<>>, containers |-> <<>>, volumes |-> <<>>, mounts |-> <<>>,
            ports |-> <<>>, env |-> <<>>, servicePorts |-> <<>>,
            configMaps |-> <<>>, secrets |-> <<>>]
NoCommon == [labels |-> NoLabels, log |-> [level |-> {}, format |-> {}], pdb |-> {}]
Budget   == [NoCommon EXCEPT !.pdb = {[enable |-> {}]}]
NoSelector == [kind |-> "nil"]
NoCache  == [external |-> {}, sizes |-> {}]
NoLimits == [samples |-> {}, series |-> {}]
Objstore == <<"objstore">>

\* Arguments of the user's that replace a flag of the operator's and add one.
UserArgs == [NoExtra EXCEPT !.args = <<Arg("log.level", Value("debug")), Arg("label", Value("x")),
                                       Arg("web.prefix-header", EmptyValue)>>,
                            !.secrets = <<Objstore>>]

Resource(kind, name, labels, spec) ==
    [kind |-> kind, name |-> name, labels |-> labels, spec |-> spec]

-----------------------------------------------------------------------------
QuerySpec == [paused |-> FALSE, replicas |-> 1, common |-> NoCommon, additional |-> NoExtra,
              replicaLabels |-> <<Value("replica")>>, web |-> {}, quantiles |-> {},
              proxyStrategy |-> Value("eager"), storeLabelSelector |-> NoSelector, frontend |-> {}]
FrontendSpec == [replicas |-> 2, common |-> Budget, additional |-> NoExtra,
                 logLongerThan |-> {}, compress |-> TRUE, cache |-> NoCache, rangeSplit |-> {},
                 labelsSplit |-> {}, rangeRetries |-> 5, labelsRetries |-> 5, labelsTimeRange |-> {}]
StoreSpec == [paused |-> FALSE, replicas |-> 1, common |-> NoCommon, additional |-> NoExtra,
              rollout |-> NoRollout, objstore |-> Objstore, indexCache |-> NoCache,
              bucketCache |-> NoCache, ignoreMarks |-> Value("24h"), indexHeader |-> {},
              block |-> [discovery |-> {}, metaFetch |-> {}], limits |-> NoLimits,
              timeRange |-> [min |-> {}, max |-> {}], shards |-> 1]
CompactSpec == [paused |-> FALSE, common |-> NoCommon, additional |-> NoExtra,
                rollout |-> NoRollout, objstore |-> Objstore,
                retention |-> [raw |-> Value("30d"), fiveMinutes |-> Value("30d"), oneHour |-> Value("30d")],
                block |-> [discovery |-> {}, files |-> {}, metaFetch |-> {}, syncInterval |-> {}, syncTimeout |-> {}],
                compaction |-> [concurrency |-> {}, fetch |-> {}, cleanup |-> {}, delay |-> {},
                                replicaLabels |-> <<Value("a"), Value("b")>>, dedup |-> {}],
                downsampling |-> [disable |-> {}, concurrency |-> {}],
                debug |-> [acceptMalformed |-> {}, maxLevel |-> {}, halt |-> {}],
                timeRange |-> [min |-> {}, max |-> {}], sharding |-> <<>>]
RulerSpec == [paused |-> FALSE, replicas |-> 2, common |-> Budget, additional |-> NoExtra,
              rollout |-> NoRollout, alertmanager |-> Value("http"), alertLabelDrop |-> <<>>,
              evalInterval |-> EmptyValue, stateful |-> {}, queryLabelSelector |-> NoSelector,
              receiveLabelSelector |-> NoSelector]
Stateful == {[objstore |-> Objstore, retention |-> Value("2h"), externalLabels |-> {Value("a")}]}
Ring(name, replicas) ==
    [name |-> name, replicas |-> replicas, common |-> Budget, objstore |-> {},
     retention |-> Value("2h"), asyncWorkers |-> {}, tooFarInFuture |-> {},
     externalLabels |-> {Value("a")}, compression |-> {}, tenancy |-> {}, limits |-> NoLimits]
ReceiveSpec(rings) ==
    [paused |-> FALSE, rollout |-> NoRollout,
     router |-> [replicas |-> 1, common |-> NoCommon, additional |-> NoExtra,
                 replicationFactor |-> 1, externalLabels |-> {}, protocol |-> {}],
     ingester |-> [additional |-> NoExtra, objstore |-> Objstore, rings |-> rings]]

-----------------------------------------------------------------------------
Query(spec)         == Resource("ThanosQuery", <<"q">>, NoLabels, spec)
Store(name, spec)   == Resource("ThanosStore", name, NoLabels, spec)
Compact(spec)       == Resource("ThanosCompact", <<"c">>, Label("team", Value("x")), spec)
Ruler(spec)         == Resource("ThanosRuler", <<"r">>, NoLabels, spec)
Receive(rings)      == Resource("ThanosReceive", <<"w">>, NoLabels, ReceiveSpec(rings))

Off == [sm |-> {}, otel |-> FALSE, krs |-> FALSE, rules |-> FALSE]
On  == [sm |-> {[labels |-> Label("release", Value("p"))]}, otel |-> TRUE, krs |-> TRUE, rules |-> TRUE]
MonitorsOnly == [On EXCEPT !.otel = FALSE, !.krs = FALSE]

Outside(labels) == Service(<<"sidecar">>, labels, NoLabels, <<ServicePort(GRPC, GRPCPort)>>)
Sidecars == {Outside(requiredStoreServiceLabels),
             Outside(requiredStoreServiceLabels @@ Label(StrictLabel, Value("true"))),
             Outside(PartOf),
             [Outside(requiredStoreServiceLabels) EXCEPT !.body.ports = <<>>]}

ById(resources) == [id \in {Id(r) : r \in resources} |-> {r \in resources : Id(r) = id}]
Scenario(resources, gates, foreign, happens, disturbances) ==
    [crs |-> ById(resources), gates |-> gates, foreign |-> foreign, happens |-> happens,
     disturbances |-> disturbances]

NamespaceTable ==
    [discovery |-> Scenario({Query(QuerySpec), Query([QuerySpec EXCEPT !.frontend = {FrontendSpec}]),
                             Store(<<"s">>, StoreSpec),
                             Store(<<"s">>, [StoreSpec EXCEPT !.shards = 2, !.replicas = 2, !.common = Budget])},
                            {Off}, Sidecars, {"edit", "foreign"}, 1),
     rules |-> Scenario({Ruler(RulerSpec), Ruler([RulerSpec EXCEPT !.stateful = Stateful, !.common = NoCommon]),
                         Query(QuerySpec), Receive(<<>>)}, {Off}, {}, {"edit"}, 1),
     gates |-> Scenario({Receive(<<Ring(<<"h">>, 1)>>), Receive(<<Ring(<<"h">>, 2), Ring(<<"h", "-", "i">>, 1)>>)},
                        {Off, On, MonitorsOnly}, {}, {"edit", "restart"}, 2),
     compact |-> Scenario({Compact(CompactSpec), Compact([CompactSpec EXCEPT !.additional = UserArgs,
                             !.sharding = <<[name |-> <<"x">>, blocks |-> <<Value("1")>>],
                                            [name |-> <<"y">>, blocks |-> <<Value("2")>>]>>])},
                          {Off, On}, {}, {"edit", "restart", "failure", "loss"}, 2),
     neighbours |-> Scenario({Store(<<"s">>, StoreSpec), Store(<<"s", "-", "t">>, StoreSpec),
                              Store(<<"s">>, [StoreSpec EXCEPT !.shards = 2])}, {Off, MonitorsOnly}, {}, {"edit", "deletion", "failure", "restart"}, 1),
     status |-> Scenario({Store(<<"s">>, StoreSpec), Store(<<"s">>, [StoreSpec EXCEPT !.shards = 2])},
                         {Off}, {}, {"edit", "pods", "failure"}, 1)]
Namespaces == [name \in DOMAIN NamespaceTable |-> NamespaceTable[name]]

\* A receiver with two external labels, in FleetLabels.cfg alone.
LabelledRing == [Ring(<<"h">>, 1) EXCEPT !.externalLabels = {Value("a"), Value("b")}]
LabelledNamespaces == [labels |-> Scenario({Receive(<<LabelledRing>>)}, {Off}, {}, {}, 0)]
=============================================================================
