---------------------------- MODULE RulerManifests ----------------------------
(***************************************************************************)
(* The objects of a ruler.  A ruler with an object store (o.objstore) is   *)
(* stateful and a StoreAPI; one without is stateless and remote-writes to  *)
(* the endpoints in a generated Secret.  Rule files are pairs of the name  *)
(* of a ConfigMap and a key in it.                                         *)
(***************************************************************************)
EXTENDS Manifests

HTTPPort     == 9090
ReloaderPort == 8080
DataClaim    == <<"data">>
RemoteWrite  == <<"remote", "-", "write">>

IsStateful(o) == o.objstore # {}

GetRequiredLabels == ComponentLabels("thanos-ruler", "rule-evaluation-engine")
GetGeneratedResourceName(o) ==
    ValidateAndSanitizeResourceName(<<"thanos", "-", "ruler", "-">> \o o.owner)
GetSelectorLabels(o) == InstanceLabels(GetRequiredLabels, GetGeneratedResourceName(o), o.owner)

GetLabels(o) ==
    LET labels == MergeMaps(o.labels, GetSelectorLabels(o))
    IN  IF IsStateful(o)
        THEN SanitizeStoreAPIEndpointLabels(
                 MergeMaps(labels, MergeMaps(Label("part-of", Value("thanos")), StoreAPI)))
        ELSE labels

-----------------------------------------------------------------------------
(* The StatefulSet. *)

\* The ConfigMaps of the rule files, each once, in the order of the files.
RuleConfigMaps(o) ==
    FoldLeft(LAMBDA seen, f : IF Contains(seen, f.name) THEN seen ELSE Append(seen, f.name),
             <<>>, o.ruleFiles)
RuleMounts(o)  == [i \in DOMAIN RuleConfigMaps(o) |-> Mount(RuleConfigMaps(o)[i])]
RuleVolumes(o) == [i \in DOMAIN RuleConfigMaps(o) |->
                      Volume(RuleConfigMaps(o)[i], Source("ConfigMap", RuleConfigMaps(o)[i]))]

\* Not pruned here: an empty value goes only when arguments are merged.  The
\* external labels come in the order their map was ranged over.
rulerArgs(o) ==
    ToFlags(o.log)
    \o << Arg("http-address", Address(HTTPPort)), Arg("grpc-address", Address(GRPCPort)),
          Arg("data-dir", Value("/var/thanos/rule")), Arg("alertmanagers.url", o.alertmanager) >>
    \o (IF IsStateful(o)
        THEN << Arg("objstore.config", FromEnv("OBJSTORE_CONFIG")),
                Arg("tsdb.retention", o.retention) >>
        ELSE << Arg("remote-write.config-file", Value("remote-write.yaml")) >>)
    \o (IF o.evalInterval = EmptyValue THEN <<>> ELSE <<Arg("eval-interval", o.evalInterval)>>)
    \o Repeated("label", o.externalLabels)
    \o [i \in DOMAIN o.ruleFiles |->
           Arg("rule-file", o.ruleFiles[i].name \o <<"/", ToString(o.ruleFiles[i].key)>>)]
    \o [i \in DOMAIN o.endpoints |-> Arg("query", <<"dnssrv+_http._tcp.">> \o o.endpoints[i].service)]
    \o Repeated("alert.label-drop", o.alertLabelDrop)

buildConfigReloaderContainer(o) ==
    Container("config-reloader",
              << Arg("listen-address", Number(ReloaderPort)), Arg("reload-url", Number(HTTPPort)) >>
              \o Repeated("watched-dir", RuleConfigMaps(o)),
              <<Port("reloader-web", ReloaderPort)>>, RuleMounts(o), <<>>, {})

rulerContainer(o) ==
    Container("thanos-ruler", rulerArgs(o), <<Port(GRPC, GRPCPort), Port(HTTP, HTTPPort)>>,
              <<Mount(DataClaim)>> \o RuleMounts(o)
                  \o (IF IsStateful(o) THEN <<>> ELSE <<Mount(RemoteWrite)>>),
              <<Env("NAME", Scratch)>> \o SecretEnv("OBJSTORE_CONFIG", o.objstore), {HTTPPort})

newRulerStatefulSet(o) ==
    LET name == GetGeneratedResourceName(o)
        volumes == RuleVolumes(o)
                   \o (IF IsStateful(o) THEN <<>> ELSE <<Volume(RemoteWrite, Source("Secret", name))>>)
        containers == <<rulerContainer(o)>>
                      \o (IF o.ruleFiles = <<>> THEN <<>> ELSE <<buildConfigReloaderContainer(o)>>)
    IN  AugmentWithOptions(
            StatefulSet(name, GetLabels(o), o.replicas, GetSelectorLabels(o), name,
                        Pod(GetLabels(o), name, volumes, {DataClaim}, <<>>, containers)), o)

newRulerService(o) ==
    Service(GetGeneratedResourceName(o), GetLabels(o), GetSelectorLabels(o),
            <<ServicePort(GRPC, GRPCPort), ServicePort(HTTP, HTTPPort)>> \o o.extra.servicePorts)

-----------------------------------------------------------------------------
(* The Secret of a stateless ruler. *)

GeneratedSecret == Label("generated-remote-write-secret", Value("true"))

toURL(ep) == <<"http://">> \o ep.service \o <<":", ToString(ep.port)>>

\* One remote write per endpoint, or per endpoint and tenant, whose series
\* alone are kept.
toRemoteWrite(d) ==
    FlattenSeq([i \in DOMAIN d.endpoints |->
        IF d.tenants = <<>> THEN <<[url |-> toURL(d.endpoints[i]), tenant |-> {}]>>
        ELSE [t \in DOMAIN d.tenants |->
                 [url |-> toURL(d.endpoints[i]), tenant |-> {<<d.identifier, d.tenants[t]>>}]]])

newRulerSecret(o) ==
    Object("Secret", GetGeneratedResourceName(o), MergeMaps(GetLabels(o), GeneratedSecret),
           [data |-> toRemoteWrite(o.discovery)])

Build(o) ==
    LET name == GetGeneratedResourceName(o)
    IN  << BuildServiceAccount(name, GetSelectorLabels(o)),
           newRulerStatefulSet(o), newRulerService(o) >>
        \o (IF IsStateful(o) THEN <<>> ELSE <<newRulerSecret(o)>>)
        \o WhenSome(o.pdb, LAMBDA p :
               NewPodDisruptionBudget(name, GetSelectorLabels(o), GetLabels(o), p))
        \o WhenSome(o.gate.sm, LAMBDA c :
               BuildServiceMonitor(name, GetLabels(o), GetSelectorLabels(o), c, HTTP))

-----------------------------------------------------------------------------
(* Rule files, each with the place of its name among all names and a size. *)

bucketSize(bucket) == MapThenSumSet(LAMBDA f : f.size, bucket)

\* The bucket that is being filled when f is next in the order of the names, if
\* the files in starts each begin a new one.
currBucket(ruleFiles, starts, f) ==
    {g \in ruleFiles : /\ g.place < f.place
                       /\ \A s \in starts : s.place <= g.place \/ s.place >= f.place}

\* Mutant: the size of the bucket is compared before the file is added.
NewBuckets_Overfull(ruleFiles, limit) ==
    {starts \in SUBSET ruleFiles :
       starts = {f \in ruleFiles : bucketSize(currBucket(ruleFiles, starts, f)) > limit}}

\* Which files begin a new bucket: those that do not fit the one being filled.
\* It is a set of one element, as each file is judged by the files before it.
NewBuckets(ruleFiles, limit) ==
    {starts \in SUBSET ruleFiles :
       starts = {f \in ruleFiles : bucketSize(currBucket(ruleFiles, starts, f)) + f.size > limit}}

\* How many buckets were begun when f is added.
currBucketIndex(starts, f) == Cardinality({s \in starts : s.place <= f.place})

\* Mutant: the file that does not fit starts a new bucket and stays in the old one.
MakeRulesConfigMaps_Overlap(ruleFiles, limit) ==
    IF \E f \in ruleFiles : f.size > limit THEN {}
    ELSE {[i \in 1 .. Cardinality(starts) + 1 |->
              {f \in ruleFiles : \/ currBucketIndex(starts, f) = i - 1
                                 \/ f \in starts /\ currBucketIndex(starts, f) = i}] :
             starts \in NewBuckets(ruleFiles, limit)}

\* The buckets, each left for good when a file no longer fits; none when a file
\* is too large for any.
MakeRulesConfigMaps(ruleFiles, limit) ==
    IF \E f \in ruleFiles : f.size > limit THEN {}
    ELSE {[i \in 1 .. Cardinality(starts) + 1 |->
              {f \in ruleFiles : currBucketIndex(starts, f) = i - 1}] :
             starts \in NewBuckets(ruleFiles, limit)}
=============================================================================
