---------------------------- MODULE QueryManifests ----------------------------
(***************************************************************************)
(* The objects of a querier.  o holds what the resource asks for:          *)
(* o.owner, o.replicas, o.labels, o.pdb, o.gate, o.extra, o.log, the       *)
(* endpoints found among the Services, and the flags of the query command. *)
(***************************************************************************)
EXTENDS Manifests

HTTPPort == 9090

GetRequiredLabels == MergeMaps(ComponentLabels("thanos-query", "query-layer"), QueryAPI)
GetGeneratedResourceName(o) ==
    ValidateAndSanitizeResourceName(<<"thanos", "-", "query", "-">> \o o.owner)
GetSelectorLabels(o) == InstanceLabels(GetRequiredLabels, GetGeneratedResourceName(o), o.owner)

GetLabels(o) == MergeMaps(o.labels, GetSelectorLabels(o))

\* Regular and group endpoints are resolved through DNS, strict ones must not be.
SRV(name)  == <<"dnssrv+_grpc._tcp.">> \o name
Static(ep) == ep.service \o <<":", ToString(ep.port)>>

EndpointArg(ep) ==
    CASE ep.type = RegularLabel     -> Arg("endpoint", SRV(ep.service))
      [] ep.type = StrictLabel      -> Arg("endpoint-strict", Static(ep))
      [] ep.type = GroupLabel       -> Arg("endpoint-group", SRV(ep.service))
      [] ep.type = GroupStrictLabel -> Arg("endpoint-group-strict", Static(ep))

queryArgs(o) == PruneEmptyArgs(
    ToFlags(o.log)
    \o << Arg("grpc-address", Address(GRPCPort)), Arg("http-address", Address(HTTPPort)),
          Arg("query.timeout", o.timeout), Arg("query.lookback-delta", o.lookback),
          Arg("query.auto-downsampling", Switch), Arg("query.promql-engine", Value("thanos")),
          Arg("query.max-concurrent", Number(o.maxConcurrent)),
          Arg("web.route-prefix", o.web.routePrefix),
          Arg("web.external-prefix", o.web.externalPrefix),
          Arg("web.prefix-header", o.web.prefixHeader),
          Arg("grpc.proxy-strategy", o.proxyStrategy) >>
    \o Repeated("query.telemetry.request-duration-seconds-quantiles", o.quantiles.duration)
    \o Repeated("query.telemetry.request-samples-quantiles", o.quantiles.samples)
    \o Repeated("query.telemetry.request-series-seconds-quantiles", o.quantiles.series)
    \o FlagIf(o.web.disableCORS, "web.disable-cors")
    \o Repeated("query.replica-label", o.replicaLabels)
    \o [i \in DOMAIN o.endpoints |-> EndpointArg(o.endpoints[i])])

newQueryDeployment(o) ==
    LET name == GetGeneratedResourceName(o)
        main == Container("thanos-query", queryArgs(o),
                          <<Port(GRPC, GRPCPort), Port(HTTP, HTTPPort)>>, <<>>, <<>>, {HTTPPort})
    IN  AugmentWithOptions(
            Deployment(name, GetLabels(o), o.replicas, GetSelectorLabels(o),
                       Pod(GetLabels(o), name, <<>>, {}, <<>>, <<main>>)), o)

\* Mutant: the gRPC port of the Service is missing.
newQueryService_NoGRPC(o) ==
    Service(GetGeneratedResourceName(o), GetLabels(o), GetSelectorLabels(o),
            <<ServicePort(HTTP, HTTPPort)>> \o o.extra.servicePorts)

newQueryService(o) ==
    Service(GetGeneratedResourceName(o), GetLabels(o), GetSelectorLabels(o),
            <<ServicePort(GRPC, GRPCPort), ServicePort(HTTP, HTTPPort)>> \o o.extra.servicePorts)

Build(o) ==
    LET name == GetGeneratedResourceName(o)
    IN  << BuildServiceAccount(name, GetSelectorLabels(o)),
           newQueryDeployment(o), newQueryService(o) >>
        \o WhenSome(o.pdb, LAMBDA p :
               NewPodDisruptionBudget(name, GetSelectorLabels(o), GetLabels(o), p))
        \o WhenSome(o.gate.sm, LAMBDA c :
               BuildServiceMonitor(name, GetLabels(o), GetSelectorLabels(o), c, HTTP))
=============================================================================
