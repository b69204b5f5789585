-------------------------- MODULE FrontendManifests --------------------------
(***************************************************************************)
(* The objects of a query frontend: a Deployment that serves HTTP only and *)
(* sends its queries to the Service of the querier it belongs to.          *)
(***************************************************************************)
EXTENDS Manifests

HTTPPort == 9090
CacheEnv == "CACHE_CONFIG"

GetRequiredLabels == ComponentLabels("thanos-query-frontend", "query-frontend")
GetGeneratedResourceName(o) ==
    ValidateAndSanitizeResourceName(<<"thanos", "-", "query", "-", "frontend", "-">> \o o.owner)
GetSelectorLabels(o) == InstanceLabels(GetRequiredLabels, GetGeneratedResourceName(o), o.owner)
GetLabels(o) == MergeMaps(o.labels, GetSelectorLabels(o))

queryFrontendArgs(o) == PruneEmptyArgs(
    << Arg("http-address", Address(HTTPPort)),
       Arg("query-frontend.downstream-url", o.queryService \o <<":", ToString(o.queryPort)>>),
       Arg("query-frontend.log-queries-longer-than", o.logLongerThan),
       Arg("query-range.split-interval", o.rangeSplit),
       Arg("labels.split-interval", o.labelsSplit),
       Arg("query-range.max-retries-per-request", Number(o.rangeRetries)),
       Arg("labels.max-retries-per-request", Number(o.labelsRetries)),
       Arg("labels.default-time-range", o.labelsTimeRange),
       Arg("cache-compression-type", Value("snappy")) >>
    \o CacheArg("query-range.response-cache-config", CacheEnv, o.cache)
    \o CacheArg("labels.response-cache-config", CacheEnv, o.cache)
    \o FlagIf(o.compress, "query-frontend.compress-responses"))

newQueryFrontendDeployment(o) ==
    LET name == GetGeneratedResourceName(o)
        main == Container("thanos-query-frontend", queryFrontendArgs(o), <<Port(HTTP, HTTPPort)>>,
                          <<>>, SecretEnv(CacheEnv, o.cache.secret), {HTTPPort})
    IN  AugmentWithOptions(
            Deployment(name, GetLabels(o), o.replicas, GetSelectorLabels(o),
                       Pod(GetLabels(o), name, <<>>, {}, <<>>, <<main>>)), o)

newQueryFrontendService(o) ==
    Service(GetGeneratedResourceName(o), GetLabels(o), GetSelectorLabels(o),
            <<ServicePort(HTTP, HTTPPort)>> \o o.extra.servicePorts)

Build(o) ==
    LET name == GetGeneratedResourceName(o)
    IN  << BuildServiceAccount(name, GetSelectorLabels(o)),
           newQueryFrontendDeployment(o), newQueryFrontendService(o) >>
        \o WhenSome(o.gate.sm, LAMBDA c :
               BuildServiceMonitor(name, GetLabels(o), GetSelectorLabels(o), c, HTTP))
        \o WhenSome(o.pdb, LAMBDA p :
               NewPodDisruptionBudget(name, GetSelectorLabels(o), GetLabels(o), p))
=============================================================================
