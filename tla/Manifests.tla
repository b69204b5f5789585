------------------------------ MODULE Manifests ------------------------------
(***************************************************************************)
(* What every manifest builder of the operator shares: names and labels,   *)
(* command lines, the pieces of a pod, the objects that come with a        *)
(* workload, and how a desired object is laid over an existing one.        *)
(*                                                                         *)
(* A name, a label value or the value of a flag is a sequence of symbols,  *)
(* the separators "-", "." and "_" among them, so that joining two names   *)
(* may give the same name as joining two others.  An argument is a pair of *)
(* a flag and a value.  An optional field is a set of at most one element. *)
(* Images, resources, annotations, security contexts and placement are     *)
(* left out: no builder decides anything by them.                          *)
(***************************************************************************)
EXTENDS Integers, SequencesExt

CONSTANT NameLimit \* the length, in symbols, beyond which a name is shortened

ASSUME NameLimitAssumption == NameLimit \in Nat /\ NameLimit > 2

-----------------------------------------------------------------------------
(* Names. *)

Separators == {"-", ".", "_", "/", ":", " "}
Dashed(s)  == [i \in DOMAIN s |-> IF s[i] \in Separators THEN "-" ELSE s[i]]

\* A symbol that stands for the hash of s; no two sequences share one.
hashString(s) == "#" \o ToString(s)
Shortened(s)  == IF Len(s) <= NameLimit THEN s
                 ELSE SubSeq(s, 1, NameLimit - 2) \o <<"-", hashString(s)>>

SanitizeName(name) == Shortened([i \in DOMAIN name |->
                          IF name[i] \in {".", "_"} THEN "-" ELSE name[i]])

ensureAlphaNumericTrailingChars(s) ==
    LET letters == {i \in DOMAIN s : s[i] \notin Separators}
    IN  IF letters = {} THEN <<>> ELSE SubSeq(s, Min(letters), Max(letters))

sanitizeToLength(s) == Shortened(Dashed(s))

IsValidLabelValue(s) ==
    Len(s) <= NameLimit /\ s = ensureAlphaNumericTrailingChars(s)
                        /\ \A i \in DOMAIN s : s[i] \notin {"/", ":", " "}

ValidateAndSanitizeNameToValidLabelValue(s) ==
    IF IsValidLabelValue(s) THEN s
    ELSE sanitizeToLength(ensureAlphaNumericTrailingChars(s))

\* A subdomain may be longer than a label and may hold dots.
ValidateAndSanitizeResourceName(s) ==
    IF s = ensureAlphaNumericTrailingChars(s) /\ Len(s) <= 4 * NameLimit
       /\ \A i \in DOMAIN s : s[i] \notin Separators \ {"-", "."}
    THEN s ELSE sanitizeToLength(ensureAlphaNumericTrailingChars(s))

-----------------------------------------------------------------------------
(* Labels: functions from keys to values. *)

Value(s)  == <<s>>
NoLabels  == [k \in {} |-> <<>>]
Label(k, v) == [l \in {k} |-> v]

MergeMaps(base, mergeWithPriority) ==
    [k \in DOMAIN base \cup DOMAIN mergeWithPriority |->
        IF k \in DOMAIN mergeWithPriority THEN mergeWithPriority[k] ELSE base[k]]

HasRequiredLabels(labels, required) ==
    \A k \in DOMAIN required : k \in DOMAIN labels /\ labels[k] = required[k]

\* The selector a user gives: none, labels, or expressions without labels, given
\* as the set of label maps any of which satisfies them.  The copy of required
\* labels into the nil map of the last panics: no selector is returned; with
\* nothing to copy it matches as it is.
BuildLabelSelectorFrom(selector, required) ==
    CASE selector.kind = "nil"         -> {required}
      [] selector.kind = "expressions" -> IF DOMAIN required = {} THEN selector.match ELSE {}
      [] selector.kind = "labels"      -> {MergeMaps(selector.match, required)}

RegularLabel     == "endpoint"
StrictLabel      == "endpoint-strict"
GroupLabel       == "endpoint-group"
GroupStrictLabel == "endpoint-group-strict"
EndpointTypes    == <<GroupStrictLabel, GroupLabel, StrictLabel, RegularLabel>>

SanitizeStoreAPIEndpointLabels(labels) ==
    LET found == {i \in DOMAIN EndpointTypes : EndpointTypes[i] \in DOMAIN labels}
    IN  [k \in {l \in DOMAIN labels : l \in ToSet(EndpointTypes)
                                         => l = EndpointTypes[Min(found)]} |-> labels[k]]

\* Mutant: the owner is stripped with the instance.
GetLabelSelectorForOwner_Anyone(selectorLabels) ==
    [k \in DOMAIN selectorLabels \ {"instance", "owner"} |-> selectorLabels[k]]

GetLabelSelectorForOwner(selectorLabels) ==
    [k \in DOMAIN selectorLabels \ {"instance"} |-> selectorLabels[k]]

-----------------------------------------------------------------------------
(* Command lines. *)

Arg(flag, value) == <<flag, value>>
Switch == <<"">>  \* the value of a flag that takes none
EmptyValue == <<>>  \* "--flag=": nothing is left of the argument

PruneEmptyArgs(args) == SelectSeq(args, LAMBDA a : a[2] # EmptyValue)

RepeatableFlags == {
    "query.replica-label", "query.partition-label", "selector-label",
    "query.telemetry.request-duration-seconds-quantiles",
    "query.telemetry.request-samples-quantiles",
    "query.telemetry.request-series-seconds-quantiles", "store.sd-files",
    "endpoint", "endpoint-group", "endpoint-strict", "endpoint-group-strict",
    "inject-test-addresses", "label", "rule-file", "grpc-query-endpoint", "query",
    "query.sd-files", "receive.otlp-promote-resource-attributes",
    "query-frontend.forward-header"}

FlagsOf(args) == FoldLeft(LAMBDA fs, a : IF Contains(fs, a[1]) THEN fs ELSE Append(fs, a[1]),
                          <<>>, args)
ValuesFor(f, args) == SelectSeq(args, LAMBDA a : a[1] = f)

\* Mutant: additional arguments are appended, never replaced.
MergeArgs_Appends(existing, additional) ==
    PruneEmptyArgs(existing) \o PruneEmptyArgs(additional)

\* Additional arguments replace those with the same flag, and join them when
\* the flag may be repeated.  What is not a flag is dropped.
MergeArgs(existing, additional) ==
    LET more == PruneEmptyArgs(additional)
        all  == SelectSeq(PruneEmptyArgs(existing) \o more, LAMBDA a : a[1] # "")
        Kept(f) == IF f \in RepeatableFlags THEN ValuesFor(f, all)
                   ELSE <<Last(ValuesFor(f, all))>>
    IN  IF more = <<>> THEN PruneEmptyArgs(existing)
        ELSE FlattenSeq([i \in DOMAIN FlagsOf(all) |-> Kept(FlagsOf(all)[i])])

ToFlags(log) ==
    << Arg("log.level",  IF log.level = {} THEN Value("info") ELSE CHOOSE l \in log.level : TRUE),
       Arg("log.format", IF log.format = {} THEN Value("logfmt") ELSE CHOOSE f \in log.format : TRUE) >>

OptionalArg(flag, opt) == IF opt = {} THEN <<>> ELSE <<Arg(flag, CHOOSE v \in opt : TRUE)>>

RelabelFlag(configs) == IF configs = <<>> THEN <<>> ELSE <<Arg("selector.relabel-config", configs)>>

-----------------------------------------------------------------------------
(* Pods.  A volume has a source: an object that must exist, or none. *)

Source(kind, ref) == {<<kind, ref>>}
Scratch           == {}
Volume(name, source) == [name |-> name, source |-> source]
Mount(name)          == name
Env(name, source)    == [name |-> name, source |-> source]
Port(name, number)   == [name |-> name, port |-> number]
ServicePort(name, number) == [name |-> name, port |-> number, target |-> number]

Container(name, args, ports, mounts, env, probed) ==
    [name |-> name, args |-> args, ports |-> ports, mounts |-> mounts,
     env |-> env, probed |-> probed]
Pod(labels, account, volumes, claims, inits, containers) ==
    [labels |-> labels, account |-> account, volumes |-> volumes,
     claims |-> claims, inits |-> inits, containers |-> containers]

secretVolumeName(s)    == <<"secret", "-">> \o SanitizeName(s)
configMapVolumeName(s) == <<"configmap", "-">> \o SanitizeName(s)

Mounted(pod, volumes) ==
    [pod EXCEPT !.volumes = @ \o volumes,
                !.containers[1].mounts = @ \o [i \in DOMAIN volumes |-> Mount(volumes[i].name)]]

mountSecrets(pod, secrets) == Mounted(pod,
    [i \in DOMAIN secrets |-> Volume(secretVolumeName(secrets[i]), Source("Secret", secrets[i]))])
mountConfigMap(pod, configMaps) == Mounted(pod,
    [i \in DOMAIN configMaps |->
        Volume(configMapVolumeName(configMaps[i]), Source("ConfigMap", configMaps[i]))])

MountResource(pod, extra) == mountSecrets(mountConfigMap(pod, extra.configMaps), extra.secrets)

augmentPodTemplate(pod, extra) ==
    LET main == [pod.containers[1] EXCEPT
                    !.mounts = @ \o extra.mounts,
                    !.ports  = @ \o extra.ports,
                    !.env    = @ \o extra.env,
                    !.args   = IF extra.args = <<>> THEN @ ELSE MergeArgs(@, extra.args)]
    IN  [pod EXCEPT !.volumes    = @ \o extra.volumes,
                    !.containers = [@ EXCEPT ![1] = main] \o extra.containers]

augmentOtel(pod) ==
    [pod EXCEPT !.containers[1].args = MergeArgs(@, <<Arg("tracing.config", Value("otlp"))>>)]

Augmented(pod, o) ==
    LET p == augmentPodTemplate(pod, o.extra)
    IN  MountResource(IF o.gate.otel THEN augmentOtel(p) ELSE p, o.extra)

-----------------------------------------------------------------------------
(* Objects.  The owner is filled in when the object is written. *)

NoOwner == <<>>
Object(kind, name, labels, body) ==
    [kind |-> kind, name |-> name, labels |-> labels, body |-> body, owner |-> NoOwner]
Key(obj) == <<obj.kind, obj.name>>

AugmentWithOptions(obj, o) ==
    IF obj.kind = "Deployment" THEN [obj EXCEPT !.body.pod = Augmented(@, o)]
    ELSE [obj EXCEPT !.body.pod = Augmented(@, o), !.body.rollout = o.rollout]

BuildServiceAccount(name, labels) ==
    Object("ServiceAccount", name, labels, [automount |-> TRUE])

Service(name, labels, selector, ports) ==
    Object("Service", name, labels, [selector |-> selector, ports |-> ports])

Deployment(name, labels, replicas, selector, pod) ==
    Object("Deployment", name, labels,
           [replicas |-> replicas, selector |-> selector, pod |-> pod])

StatefulSet(name, labels, replicas, selector, service, pod) ==
    Object("StatefulSet", name, labels,
           [replicas |-> replicas, selector |-> selector, service |-> service,
            pod |-> pod, rollout |-> {}])

NewPodDisruptionBudget(name, selectorLabels, labels, opts) ==
    Object("PodDisruptionBudget", name, labels,
           [selector |-> selectorLabels, min |-> opts.min,
            max |-> IF opts.max = {} THEN {1} ELSE opts.max])

BuildServiceMonitor(name, labels, selectorLabels, cfg, port) ==
    Object("ServiceMonitor", name, MergeMaps(cfg.labels, labels),
           [selector |-> selectorLabels, port |-> port])

WhenSome(opt, Build(_)) == IF opt = {} THEN <<>> ELSE <<Build(CHOOSE x \in opt : TRUE)>>

\* What is left of an object when the desired one is laid over it.  Labels of
\* workloads are only added; selectors, claims and governing services are
\* those the object was created with.
MutateFuncFor(existing, desired) ==
    LET merged == [desired EXCEPT !.labels = MergeMaps(existing.labels, @),
                                  !.body.selector = existing.body.selector]
    IN  CASE desired.kind = "Deployment"  -> merged
          [] desired.kind = "StatefulSet" ->
                [merged EXCEPT !.body.service = existing.body.service,
                               !.body.pod.claims = existing.body.pod.claims]
          [] OTHER -> desired

-----------------------------------------------------------------------------
(* What the builders of the components have in common. *)

ComponentLabels(name, component) ==
    [k \in {"name", "component", "part-of", "managed-by"} |->
        CASE k = "name" -> Value(name)           [] k = "component" -> Value(component)
          [] k = "part-of" -> Value("thanos")    [] k = "managed-by" -> Value("thanos-operator")]
InstanceLabels(required, resource, owner) ==
    MergeMaps(MergeMaps(required,
                        Label("instance", ValidateAndSanitizeNameToValidLabelValue(resource))),
              Label("owner", ValidateAndSanitizeNameToValidLabelValue(owner)))

StoreAPI       == Label("store-api", Value("true"))
QueryAPI       == Label("query-api", Value("true"))
RemoteWriteAPI == Label("remote-write-api", Value("true"))

GRPC == "grpc"  GRPCPort == 10901
HTTP == "http"

Number(n)     == Value(ToString(n))
Address(port) == <<"0.0.0.0:", ToString(port)>>
FromEnv(name) == <<"$", name>>
FlagIf(cond, flag) == IF cond THEN <<Arg(flag, Switch)>> ELSE <<>>
Repeated(flag, values) == [i \in DOMAIN values |-> Arg(flag, values[i])]
SecretEnv(name, opt) == IF opt = {} THEN <<>>
                        ELSE <<Env(name, Source("Secret", CHOOSE s \in opt : TRUE))>>

\* A cache is configured by a secret, read from the environment, or in line.
CacheArg(flag, env, cache) ==
    IF cache.secret # {} THEN <<Arg(flag, FromEnv(env))>> ELSE OptionalArg(flag, cache.memory)

-----------------------------------------------------------------------------
(* Services as endpoints. *)

CheckServicePort(obj, required, portName) ==
    IF obj.kind = "Service" /\ HasRequiredLabels(obj.labels, required)
    THEN {obj.body.ports[i].port : i \in {j \in DOMAIN obj.body.ports :
                                            obj.body.ports[j].name = portName}}
    ELSE {}
IsGrpcServiceWithLabels(obj, required)        == CheckServicePort(obj, required, "grpc")
IsRemoteWriteServiceWithLabels(obj, required) == CheckServicePort(obj, required, "remote-write")
=============================================================================
