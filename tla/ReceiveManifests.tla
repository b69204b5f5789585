--------------------------- MODULE ReceiveManifests ---------------------------
(***************************************************************************)
(* The objects of a receiver: for each hashring a StatefulSet of           *)
(* ingesters, and one Deployment of routers that read the hashring         *)
(* configuration, from the ConfigMap they mount or, when the gate          *)
(* kubeResourceSync is on, from a directory a sidecar keeps in step.       *)
(***************************************************************************)
EXTENDS Manifests

HTTPPort        == 10902
CapnProtoPort   == 19391
RemoteWritePort == 19291
SyncPort        == 8080
DataClaim       == <<"data">>
HashringVolume  == <<"hashring", "-", "config">>
SyncContainer   == "kube-resource-sync"
EmptyHashringConfig == "[{}]"

ContainerPorts == <<Port(GRPC, GRPCPort), Port("capnproto", CapnProtoPort),
                    Port(HTTP, HTTPPort), Port("remote-write", RemoteWritePort)>>
ServicePorts == [i \in DOMAIN ContainerPorts |->
                    ServicePort(ContainerPorts[i].name, ContainerPorts[i].port)]

-----------------------------------------------------------------------------
(* Labels and names. *)

GetRequiredLabels(component) == ComponentLabels("thanos-receive", component)

GetRequiredIngesterLabels ==
    MergeMaps(GetRequiredLabels("thanos-receive-ingester"),
              MergeMaps(Label("part-of", Value("thanos")), StoreAPI))
GetRequiredRouterLabels == GetRequiredLabels("thanos-receive-router")

IngesterName(o) == ValidateAndSanitizeResourceName(
    <<"thanos", "-", "receive", "-", "ingester", "-">> \o o.owner \o <<"-">> \o o.hashring)
RouterName(o) == ValidateAndSanitizeResourceName(
    <<"thanos", "-", "receive", "-", "router", "-">> \o o.owner)

\* Mutant: the hashring is not part of the selector, nor is the instance.
IngesterSelector_OwnerOnly(o) ==
    MergeMaps(GetRequiredIngesterLabels,
              Label("owner", ValidateAndSanitizeNameToValidLabelValue(o.owner)))

IngesterSelector(o) ==
    MergeMaps(InstanceLabels(GetRequiredIngesterLabels, IngesterName(o), o.owner),
              IF o.hashring = <<>> THEN NoLabels
              ELSE Label("hashring", ValidateAndSanitizeNameToValidLabelValue(o.hashring)))
GetIngesterLabels(o) == SanitizeStoreAPIEndpointLabels(MergeMaps(o.labels, IngesterSelector(o)))

RouterSelector(o)  == InstanceLabels(GetRequiredRouterLabels, RouterName(o), o.owner)
GetRouterLabels(o) == MergeMaps(o.labels, MergeMaps(RouterSelector(o), RemoteWriteAPI))

-----------------------------------------------------------------------------
(* Ingesters. *)

limitFlags(limits) ==
    OptionalArg("store.limits.request-samples", limits.samples)
    \o OptionalArg("store.limits.request-series", limits.series)

\* The external labels come in the order their map was ranged over.
ingestorArgsFrom(o) == PruneEmptyArgs(
    ToFlags(o.log)
    \o << Arg("grpc-address", Address(GRPCPort)), Arg("http-address", Address(HTTPPort)),
          Arg("remote-write.address", Address(RemoteWritePort)),
          Arg("tsdb.path", Value("/var/thanos/receive")), Arg("tsdb.retention", o.retention),
          Arg("objstore.config", FromEnv("OBJSTORE_CONFIG")),
          Arg("receive.local-endpoint", FromEnv("POD_NAME") \o <<".">> \o IngesterName(o)
                                        \o <<".">> \o FromEnv("POD_NAMESPACE")
                                        \o <<":", ToString(GRPCPort)>>),
          Arg("receive.forward.async-workers", o.asyncWorkers),
          Arg("tsdb.too-far-in-future.time-window", o.tooFarInFuture),
          Arg("receive.tenant-header", o.tenancy.header),
          Arg("receive.tenant-certificate-field", o.tenancy.certificateField),
          Arg("receive.default-tenant-id", o.tenancy.defaultTenant),
          Arg("receive.split-tenant-label-name", o.tenancy.splitLabel),
          Arg("receive.tenant-label-name", o.tenancy.tenantLabel) >>
    \o limitFlags(o.limits) \o Repeated("label", o.externalLabels)
    \o (IF o.protocol = "capnproto"
        THEN <<Arg("receive.capnproto-address", Address(CapnProtoPort))>> ELSE <<>>)
    \o (IF o.compression = "none"
        THEN <<Arg("receive.grpc-compression", Value("none"))>> ELSE <<>>))

newIngestorStatefulSet(o) ==
    LET name == IngesterName(o)
        main == Container("thanos-receive-ingester", ingestorArgsFrom(o), ContainerPorts,
                          <<Mount(DataClaim)>>,
                          << Env("POD_NAME", Scratch), Env("POD_NAMESPACE", Scratch),
                             Env("OBJSTORE_CONFIG", Source("Secret", o.objstore)) >>, {HTTPPort})
    IN  AugmentWithOptions(
            StatefulSet(name, GetIngesterLabels(o), o.replicas, IngesterSelector(o), name,
                        Pod(GetIngesterLabels(o), name, <<>>, {DataClaim}, <<>>, <<main>>)), o)

newIngestorService(o) ==
    Service(IngesterName(o), GetIngesterLabels(o), IngesterSelector(o),
            ServicePorts \o o.extra.servicePorts)

BuildIngester(o) ==
    LET name == IngesterName(o)
    IN  << BuildServiceAccount(name, IngesterSelector(o)),
           newIngestorService(o), newIngestorStatefulSet(o) >>
        \o WhenSome(o.pdb, LAMBDA p :
               NewPodDisruptionBudget(name, IngesterSelector(o), GetIngesterLabels(o), p))
        \o WhenSome(o.gate.sm, LAMBDA c :
               BuildServiceMonitor(name, GetIngesterLabels(o), IngesterSelector(o), c, HTTP))

-----------------------------------------------------------------------------
(* Routers. *)

routerArgsFrom(o) == PruneEmptyArgs(
    ToFlags(o.log)
    \o << Arg("grpc-address", Address(GRPCPort)), Arg("http-address", Address(HTTPPort)),
          Arg("remote-write.address", Address(RemoteWritePort)),
          Arg("receive.replication-factor", Number(o.replicationFactor)),
          Arg("receive.hashrings-file", Value("hashrings.json")),
          Arg("receive.grpc-service-config", Value("no-endless-retry")) >>
    \o Repeated("label", o.externalLabels)
    \o (IF o.protocol = "capnproto"
        THEN <<Arg("receive.replication-protocol", Value("capnproto"))>> ELSE <<>>))

buildRouterVolumes(o) ==
    <<Volume(HashringVolume, IF o.gate.krs THEN Scratch ELSE Source("ConfigMap", RouterName(o)))>>

buildThanosRouterContainer(o) ==
    Container("thanos-receive-router", routerArgsFrom(o), ContainerPorts, <<Mount(HashringVolume)>>,
              <<Env("POD_NAME", Scratch), Env("POD_NAMESPACE", Scratch)>>, {HTTPPort})

buildKubeResourceSyncContainer(o, name, more) ==
    Container(name,
              << Arg("resource-type", Value("configmap")), Arg("resource-name", RouterName(o)),
                 Arg("write-path", Value("hashrings.json")),
                 Arg("resource-key", Value("hashrings.json")) >> \o more,
              <<>>, <<Mount(HashringVolume)>>, <<>>, {})
buildKubeResourceSyncInitContainer(o) ==
    buildKubeResourceSyncContainer(o, SyncContainer \o "-init", <<Arg("init-mode", Switch)>>)

buildRouterContainers(o) ==
    <<buildThanosRouterContainer(o)>>
    \o (IF o.gate.krs THEN <<buildKubeResourceSyncContainer(o, SyncContainer, <<>>)>> ELSE <<>>)
buildRouterInitContainers(o) ==
    IF o.gate.krs THEN <<buildKubeResourceSyncInitContainer(o)>> ELSE <<>>

newRouterDeployment(o) ==
    LET name == RouterName(o)
    IN  AugmentWithOptions(
            Deployment(name, GetRouterLabels(o), o.replicas, RouterSelector(o),
                       Pod(GetRouterLabels(o), name, buildRouterVolumes(o), {},
                           buildRouterInitContainers(o), buildRouterContainers(o))), o)

newRouterService(o) ==
    Service(RouterName(o), GetRouterLabels(o), RouterSelector(o),
            ServicePorts \o (IF o.gate.krs THEN <<ServicePort(SyncContainer, SyncPort)>> ELSE <<>>)
                         \o o.extra.servicePorts)

newHashringConfigMap(o) ==
    Object("ConfigMap", RouterName(o), GetRouterLabels(o),
           [data |-> IF o.hashringConfig = "" THEN EmptyHashringConfig ELSE o.hashringConfig])

newRouterRole(o) ==
    Object("Role", RouterName(o), GetRouterLabels(o), [reads |-> {"ConfigMap"}])
newRouterRoleBinding(o) ==
    Object("RoleBinding", RouterName(o), GetRouterLabels(o),
           [account |-> RouterName(o), role |-> RouterName(o)])

BuildRouter(o) ==
    LET name == RouterName(o)
        Monitor(n, c, port) == BuildServiceMonitor(n, GetRouterLabels(o), RouterSelector(o), c, port)
    IN  << BuildServiceAccount(name, RouterSelector(o)), newRouterService(o),
           newRouterDeployment(o), newHashringConfigMap(o) >>
        \o (IF o.gate.krs THEN <<newRouterRole(o), newRouterRoleBinding(o)>> ELSE <<>>)
        \o WhenSome(o.pdb, LAMBDA p :
               NewPodDisruptionBudget(name, RouterSelector(o), GetRouterLabels(o), p))
        \o WhenSome(o.gate.sm, LAMBDA c : Monitor(name, c, HTTP))
        \o (IF o.gate.krs
            THEN WhenSome(o.gate.sm, LAMBDA c : Monitor(name \o <<"-", SyncContainer>>, c, SyncContainer))
            ELSE <<>>)
=============================================================================
