----------------------------- MODULE OwnedObjects -----------------------------
(***************************************************************************)
(* The reconcilers of the five kinds of resource at work in one namespace: *)
(* each reads a resource and what it needs to know of the others, writes   *)
(* the objects of the resource one by one, prunes what is left over, and   *)
(* reports a condition, while users edit and delete, calls fail, and the   *)
(* operator restarts with other feature gates.  One worker per kind.       *)
(* Caches are current here; lagging ones are in ReceiveController and      *)
(* ShardedWorkloads.                                                       *)
(***************************************************************************)
EXTENDS Controllers, FiniteSets

CONSTANTS
    Scenarios, \* name -> [crs: id -> resources it may be, gates, foreign: Services,
               \*          happens: what may disturb the operator, disturbances: how often]
    Gone,      \* a resource that was deleted
    Idle       \* a worker without a resource

\* The names a resource gives its objects.
RouterNames(cr) ==
    LET router == ReceiveRouterNameFromParent(cr.name)
    IN  {router, router \o <<"-", I!SyncContainer>>}
AskedNames(cr, gate) ==
    Kept(cr, gate) \cup (IF cr.kind = "ThanosReceive" THEN RouterNames(cr) ELSE {})

IsList(s) == Len(s) \in Nat /\ s = [i \in 1 .. Len(s) |-> s[i]]

\* Resources are known by their kind and name, and are of the five kinds; a
\* foreign Service has no owner and does not say that it has one.
ScenariosAssumption == \A scn \in DOMAIN Scenarios :
    /\ Scenarios[scn].disturbances \in Nat
    /\ \A id \in DOMAIN Scenarios[scn].crs : \A cr \in Scenarios[scn].crs[id] :
          /\ id = Id(cr)
          /\ \/ cr.kind \in {"ThanosQuery", "ThanosRuler"}
             \/ cr.kind = "ThanosStore" /\ cr.spec.shards \in Nat
             \/ cr.kind = "ThanosCompact" /\ IsList(cr.spec.sharding)
             \/ cr.kind = "ThanosReceive" /\ IsList(cr.spec.ingester.rings)
    /\ \A svc \in Scenarios[scn].foreign :
          svc.kind = "Service" /\ svc.owner = NoOwner /\ "owner" \notin DOMAIN svc.labels
ASSUME ScenariosAssumption

\* Names of resources are told apart by what the operator makes of them: two of
\* one kind have different owner labels, and no other resource calls an object
\* as a receiver calls one of its own.
NeighboursAssumption == \A scn \in DOMAIN Scenarios :
    LET crs == Scenarios[scn].crs  gates == Scenarios[scn].gates
    IN  \A id, other \in DOMAIN crs : id # other =>
          /\ id[1] = other[1] => ValidateAndSanitizeNameToValidLabelValue(id[2])
                                 # ValidateAndSanitizeNameToValidLabelValue(other[2])
          /\ id[1] = "ThanosReceive" =>
                \A cr \in crs[id], neighbour \in crs[other], g, h \in gates :
                   AskedNames(cr, g) \cap AskedNames(neighbour, h) = {}
ASSUME NeighboursAssumption

\* The names of two resources never meet, and those of a querier or a receiver
\* tell its components apart.
NamesAssumption == \A scn \in DOMAIN Scenarios :
    LET crs == Scenarios[scn].crs  gates == Scenarios[scn].gates
    IN  \A id, other \in DOMAIN crs : \A cr \in crs[id], neighbour \in crs[other], g, h \in gates :
          /\ id # other => AskedNames(cr, g) \cap AskedNames(neighbour, h) = {}
          /\ cr.kind = "ThanosQuery" =>
                QueryNameFromParent(cr.name) # QueryFrontendNameFromParent(cr.name)
          /\ cr.kind = "ThanosReceive" => RouterNames(cr) \cap Kept(cr, g) = {}
ASSUME NamesAssumption

\* The names a resource gives its instances, now or after an edit, are different
\* label values too: they are when no name is too long for one.
LabelsAssumption == \A scn \in DOMAIN Scenarios :
    LET crs == Scenarios[scn].crs  gates == Scenarios[scn].gates
    IN  \A id \in DOMAIN crs : \A cr, edited \in crs[id], g, h \in gates :
          \A n \in AskedNames(cr, g), m \in AskedNames(edited, h) :
             ValidateAndSanitizeNameToValidLabelValue(n) = ValidateAndSanitizeNameToValidLabelValue(m)
                => n = m
ASSUME LabelsAssumption

-----------------------------------------------------------------------------
(* What the users of a resource name themselves. *)

\* What the user adds to the pods of each component.
Additional(cr) ==
    CASE cr.kind = "ThanosQuery"   -> {cr.spec.additional} \cup {f.additional : f \in cr.spec.frontend}
      [] cr.kind = "ThanosReceive" -> {cr.spec.router.additional, cr.spec.ingester.additional}
      [] OTHER                     -> {cr.spec.additional}

\* The Secrets that hold the configuration of an object store or a cache.
ConfigSecrets(cr) ==
    CASE cr.kind = "ThanosQuery"   -> UNION {f.cache.external : f \in cr.spec.frontend}
      [] cr.kind = "ThanosRuler"   -> {s.objstore : s \in cr.spec.stateful}
      [] cr.kind = "ThanosStore"   -> {cr.spec.objstore} \cup cr.spec.indexCache.external
                                                         \cup cr.spec.bucketCache.external
      [] cr.kind = "ThanosCompact" -> {cr.spec.objstore}
      [] cr.kind = "ThanosReceive" ->
            {cr.spec.ingester.objstore} \cup UNION {r.objstore : r \in ToSet(cr.spec.ingester.rings)}

Sources(list) == UNION {list[i].source : i \in DOMAIN list}
ExtraSources(extra) ==
    Sources(extra.volumes) \cup Sources(extra.env)
    \cup (UNION {Sources(extra.containers[i].env) : i \in DOMAIN extra.containers})
    \cup {<<"Secret", s>> : s \in ToSet(extra.secrets)}
UserSources(cr) == (UNION {ExtraSources(extra) : extra \in Additional(cr)})
                   \cup {<<"Secret", s>> : s \in ConfigSecrets(cr)}

IsExtra(extra) ==
    /\ \A list \in {extra.volumes, extra.env, extra.containers, extra.configMaps, extra.secrets} : IsList(list)
    /\ \A i \in DOMAIN extra.containers :
          "env" \in DOMAIN extra.containers[i] /\ IsList(extra.containers[i].env)

\* Users name Secrets and ConfigMaps, none of them the Secret that a ruler
\* generates for itself.
UsersAssumption == \A scn \in DOMAIN Scenarios :
    LET crs == Scenarios[scn].crs
    IN  \A id, other \in DOMAIN crs : \A cr \in crs[id] :
          /\ \A extra \in Additional(cr) : IsExtra(extra)
          /\ \A ref \in UserSources(cr) :
                /\ ref[1] \in {"Secret", "ConfigMap"}
                /\ other[1] = "ThanosRuler" => ref # <<"Secret", RulerNameFromParent(other[2])>>
ASSUME UsersAssumption

VARIABLES
    scenario, \* the scenario of this behavior; never changes
    gate,     \* the feature gates the operator runs with
    crs,      \* the resources
    cond,     \* their conditions: Ready, and whether Paused was ever set
    objs,     \* the objects in the namespace
    queue,    \* the resources in the work queues
    work,     \* what the worker of each kind is doing
    left      \* bound: edits, deletions, failed calls and restarts still to come

vars == <<scenario, gate, crs, cond, objs, queue, work, left>>

Ids     == DOMAIN Scenarios[scenario].crs
Kinds   == {id[1] : id \in Ids}
Present == {crs[id] : id \in {i \in Ids : crs[i] # Gone}}
Foreign == Scenarios[scenario].foreign
NoObjects == [k \in {} |-> {}]
Readiness == {"Unknown", "True", "False"}

TypeOK ==
    /\ gate \in Scenarios[scenario].gates
    /\ \A id \in Ids : crs[id] \in Scenarios[scenario].crs[id] \cup {Gone}
    /\ cond \in [Ids -> [ready : Readiness, paused : BOOLEAN]]
    /\ \A k \in DOMAIN objs : Key(objs[k]) = k /\ objs[k].owner \in Ids \cup {NoOwner}
    /\ queue \subseteq Ids
    /\ DOMAIN work = Kinds
    /\ \A kind \in Kinds : work[kind] # Idle =>
          /\ Id(work[kind].cr) \in Ids /\ work[kind].cr.kind = kind
          /\ work[kind].stage \in {"prune", "write", "cleanup", "report", "paused"}
          /\ work[kind].stage # "write" => work[kind].todo = <<>> \/ work[kind].stage = "prune"
    /\ left \in 0 .. Scenarios[scenario].disturbances

Init ==
    /\ scenario \in DOMAIN Scenarios
    /\ gate \in Scenarios[scenario].gates
    /\ crs \in {f \in [Ids -> UNION {Scenarios[scenario].crs[id] : id \in Ids}] :
                   \A id \in Ids : f[id] \in Scenarios[scenario].crs[id]}
    /\ cond = [id \in Ids |-> [ready |-> "Unknown", paused |-> FALSE]]
    /\ objs = NoObjects
    /\ queue = Ids
    /\ work = [kind \in Kinds |-> Idle]
    /\ left = Scenarios[scenario].disturbances

-----------------------------------------------------------------------------
At(k) == IF k \in DOMAIN objs THEN {objs[k]} ELSE {}

\* The objects become new, and the events of what differs fill the queues.
Change(new, more) ==
    LET changed == {k \in DOMAIN objs \cup DOMAIN new :
                       At(k) # (IF k \in DOMAIN new THEN {new[k]} ELSE {})}
    IN  /\ objs' = new
        /\ queue' = queue \cup more \cup UNION
               {Woken(Present, At(k), IF k \in DOMAIN new THEN {new[k]} ELSE {}) : k \in changed}

With(obj)     == [k \in DOMAIN objs \cup {Key(obj)} |-> IF k = Key(obj) THEN obj ELSE objs[k]]
Without(keys) == [k \in DOMAIN objs \ keys |-> objs[k]]

\* One disturbance less.
Happens(what) == left > 0 /\ left' = left - 1 /\ what \in Scenarios[scenario].happens

-----------------------------------------------------------------------------
(* The reconcilers. *)

\* What Reconcile does with the resource it has read: nothing to write when it
\* is paused or fails before the first write.
Job(cr, stage, todo, failed) ==
    [cr |-> cr, stage |-> stage, todo |-> todo, failed |-> failed, current |-> TRUE]
Jobs(cr) ==
    IF cr.spec.paused THEN {Job(cr, "paused", <<>>, FALSE)}
    ELSE LET found == Desired(cr, gate, objs)
             first == IF cr.kind = "ThanosCompact" THEN "prune" ELSE "write"
         IN  IF found = {} THEN {Job(cr, "report", <<>>, TRUE)}
             ELSE {Job(cr, first, [i \in DOMAIN d |-> [d[i] EXCEPT !.owner = Id(cr)]], FALSE) :
                      d \in found}

\* A resource that is gone needs nothing.
Reconcile(id) ==
    /\ id \in queue /\ work[id[1]] = Idle
    /\ queue' = queue \ {id}
    /\ IF crs[id] = Gone THEN UNCHANGED work
       ELSE \E job \in Jobs(crs[id]) : work' = [work EXCEPT ![id[1]] = job]
    /\ UNCHANGED <<scenario, gate, crs, cond, objs, left>>

Busy(kind, stage) == work[kind] # Idle /\ work[kind].stage = stage

afterWrites(kind, failed) == IF failed THEN "report" ELSE "cleanup"

\* Mutant: an error of one object is forgotten when the next one is written.
CreateOrUpdate_ForgetsErrors(kind) ==
    /\ Busy(kind, "write")
    /\ LET desired == Head(work[kind].todo)
           k       == Key(desired)
           laid    == IF k \in DOMAIN objs THEN MutateFuncFor(objs[k], desired) ELSE desired
       IN \E fails \in BOOLEAN :
            /\ IF fails THEN Happens("failure") /\ UNCHANGED <<objs, queue>>
               ELSE Change(With(laid), {}) /\ UNCHANGED left
            /\ work' = [work EXCEPT ![kind].todo = Tail(@),
                                    ![kind].failed = fails,
                                    ![kind].stage = IF Len(work[kind].todo) > 1 THEN "write"
                                                    ELSE afterWrites(kind, fails)]
    /\ UNCHANGED <<scenario, gate, crs, cond>>

\* Mutant: the first error ends the loop over the objects.
CreateOrUpdate_StopsAtError(kind) ==
    /\ Busy(kind, "write")
    /\ LET desired == Head(work[kind].todo)
           k       == Key(desired)
           laid    == IF k \in DOMAIN objs THEN MutateFuncFor(objs[k], desired) ELSE desired
       IN \E fails \in BOOLEAN :
            /\ IF fails THEN Happens("failure") /\ UNCHANGED <<objs, queue>>
               ELSE Change(With(laid), {}) /\ UNCHANGED left
            /\ work' = [work EXCEPT ![kind].todo = Tail(@),
                                    ![kind].failed = @ \/ fails,
                                    ![kind].stage = IF ~fails /\ Len(work[kind].todo) > 1 THEN "write"
                                                    ELSE afterWrites(kind, work[kind].failed \/ fails)]
    /\ UNCHANGED <<scenario, gate, crs, cond>>

\* handler.CreateOrUpdate of the next object: it is created, or laid over the
\* one there is, which becomes the resource's own.  Errors are counted.
CreateOrUpdate(kind) ==
    /\ Busy(kind, "write")
    /\ LET desired == Head(work[kind].todo)
           k       == Key(desired)
           laid    == IF k \in DOMAIN objs THEN MutateFuncFor(objs[k], desired) ELSE desired
       IN \E fails \in BOOLEAN :
            /\ IF fails THEN Happens("failure") /\ UNCHANGED <<objs, queue>>
               ELSE Change(With(laid), {}) /\ UNCHANGED left
            /\ work' = [work EXCEPT ![kind].todo = Tail(@),
                                    ![kind].failed = @ \/ fails,
                                    ![kind].stage = IF Len(work[kind].todo) > 1 THEN "write"
                                                    ELSE afterWrites(kind, work[kind].failed \/ fails)]
    /\ UNCHANGED <<scenario, gate, crs, cond>>

\* Each object left over is deleted in a call of its own, one of which may fail.
Deletes(kind, keys, next) ==
    /\ \E stay \in {{}} \cup {{k} : k \in keys \cap DOMAIN objs} :
         /\ IF stay = {} THEN UNCHANGED left ELSE Happens("failure")
         /\ Change(Without(keys \ stay), {})
         /\ work' = [work EXCEPT ![kind].todo = IF stay = {} THEN @ ELSE <<>>,
                                 ![kind].failed = @ \/ stay # {},
                                 ![kind].stage = IF stay = {} THEN next ELSE "report"]
    /\ UNCHANGED <<scenario, gate, crs, cond>>

PruneFirst(kind) ==
    Busy(kind, "prune") /\ Deletes(kind, PrunedBefore(work[kind].cr, gate, objs), "write")
Cleanup(kind) ==
    Busy(kind, "cleanup") /\ Deletes(kind, cleanup(work[kind].cr, gate, objs), "report")

\* Mutant: the condition is written with a new time at every end, so that its
\* event always comes back.
Report_AlwaysWrites(kind) ==
    /\ work[kind] # Idle /\ work[kind].stage \in {"report", "paused"}
    /\ LET job == work[kind]
           id  == Id(job.cr)
           new == IF job.stage = "paused" THEN [cond[id] EXCEPT !.paused = TRUE]
                  ELSE [cond[id] EXCEPT !.ready = IF job.failed THEN "False" ELSE "True"]
       IN /\ cond' = [cond EXCEPT ![id] = IF job.current THEN new ELSE @]
          /\ queue' = queue \cup {id}
    /\ work' = [work EXCEPT ![kind] = Idle]
    /\ UNCHANGED <<scenario, gate, crs, objs, left>>

\* updateCondition, and the end of Reconcile.  The write is refused, and only
\* logged, when the resource has changed since it was read; when it changes
\* the resource its event comes back.  An error is returned and requeues.
Report(kind) ==
    /\ work[kind] # Idle /\ work[kind].stage \in {"report", "paused"}
    /\ LET job == work[kind]
           id  == Id(job.cr)
           new == IF job.stage = "paused" THEN [cond[id] EXCEPT !.paused = TRUE]
                  ELSE [cond[id] EXCEPT !.ready = IF job.failed THEN "False" ELSE "True"]
       IN /\ cond' = [cond EXCEPT ![id] = IF job.current THEN new ELSE @]
          /\ queue' = queue \cup (IF cond' # cond \/ job.failed THEN {id} ELSE {})
    /\ work' = [work EXCEPT ![kind] = Idle]
    /\ UNCHANGED <<scenario, gate, crs, objs, left>>

Worker(kind) ==
    \/ \E id \in Ids : id[1] = kind /\ Reconcile(id)
    \/ CreateOrUpdate(kind) \/ PruneFirst(kind) \/ Cleanup(kind) \/ Report(kind)

-----------------------------------------------------------------------------
(* Everybody else. *)

\* A job that has read the resource before this is out of date.
Outdated(id) == [kind \in Kinds |->
    IF work[kind] # Idle /\ Id(work[kind].cr) = id THEN [work[kind] EXCEPT !.current = FALSE]
    ELSE work[kind]]

EditSpec(id) ==
    /\ Happens("edit") /\ crs[id] # Gone
    /\ \E cr \in Scenarios[scenario].crs[id] \ {crs[id]} : crs' = [crs EXCEPT ![id] = cr]
    /\ queue' = queue \cup {id}
    /\ work' = Outdated(id)
    /\ UNCHANGED <<scenario, gate, cond, objs>>

\* The user deletes a resource; its objects are garbage from now on.
DeleteResource(id) ==
    /\ Happens("deletion") /\ crs[id] # Gone
    /\ crs' = [crs EXCEPT ![id] = Gone]
    /\ queue' = queue \cup {id}
    /\ work' = Outdated(id)
    /\ UNCHANGED <<scenario, gate, cond, objs>>

Garbage == {k \in DOMAIN objs : objs[k].owner # NoOwner /\ crs[objs[k].owner] = Gone}

CollectGarbage(k) ==
    /\ k \in Garbage
    /\ Change(Without({k}), {})
    /\ UNCHANGED <<scenario, gate, crs, cond, work, left>>

\* Somebody deletes an object of a kind its controller watches.
DeleteObject(k) ==
    /\ Happens("loss") /\ k \in DOMAIN objs /\ objs[k].owner # NoOwner /\ k[1] \in Owns(objs[k].owner[1])
    /\ Change(Without({k}), {})
    /\ UNCHANGED <<scenario, gate, crs, cond, work>>

\* A Service that is not the operator's appears, changes its labels, or goes.
ForeignService ==
    /\ Happens("foreign")
    /\ \/ \E svc \in Foreign : Change(With(svc), {}) /\ objs' # objs
       \/ \E svc \in Foreign : Key(svc) \in DOMAIN objs /\ Change(Without({Key(svc)}), {})
    /\ UNCHANGED <<scenario, gate, crs, cond, work>>

\* The operator restarts, perhaps with other feature gates: work under way is
\* lost, and every resource is queued.
Restart ==
    /\ Happens("restart")
    /\ gate' \in Scenarios[scenario].gates
    /\ gate' # gate \/ \E kind \in Kinds : work[kind] # Idle
    /\ queue' = Ids
    /\ work' = [kind \in Kinds |-> Idle]
    /\ UNCHANGED <<scenario, crs, cond, objs>>

Environment ==
    \/ \E id \in Ids : EditSpec(id) \/ DeleteResource(id)
    \/ \E k \in DOMAIN objs : DeleteObject(k)
    \/ ForeignService \/ Restart

Next ==
    \/ \E kind \in Kinds : Worker(kind)
    \/ \E k \in DOMAIN objs : CollectGarbage(k)
    \/ Environment

\* A worker that holds a job, or whose queue holds a resource, goes on whatever
\* the others do: weak fairness of Worker(kind), with what enables it and what
\* it does to the worker spelled out.  A scenario has three kinds at most.
CanMove(kind) == work[kind] # Idle \/ \E id \in queue : id[1] = kind /\ crs[id] # Gone
Moves(kind)   == /\ work'[kind] # work[kind]
                 /\ work[kind] # Idle => work'[kind] # [work[kind] EXCEPT !.current = FALSE]
WorkersAt(i) == IF i > Cardinality(Kinds) THEN {} ELSE {SetToSeq(Kinds)[i]}
Fairness == \A i \in 1 .. 3 :
    \/ []<>(\A kind \in WorkersAt(i) : ~CanMove(kind))
    \/ []<><<\E kind \in WorkersAt(i) : Moves(kind)>>_vars

Spec == Init /\ [][Next]_vars /\ Fairness

-----------------------------------------------------------------------------
(* What the namespace looks like when the operator has nothing to do.      *)

AtRest == (\A id \in queue : crs[id] = Gone) /\ \A kind \in Kinds : work[kind] = Idle
Managed == {cr \in Present : ~cr.spec.paused}

Workloads == {k \in DOMAIN objs : k[1] \in {"Deployment", "StatefulSet"}}
Pods(k)   == objs[k].body.pod

IsEndpoint(arg) == arg[1] \in ToSet(EndpointTypes)
ButEndpoints(obj) ==
    IF obj.kind # "Deployment" THEN obj
    ELSE [obj EXCEPT !.body.pod.containers[1].args = SelectSeq(@, LAMBDA a : ~IsEndpoint(a))]

\* Every object of d is there as it would be if it were written once more, the
\* endpoints of a querier apart.
Laid(cr, d) == \A i \in DOMAIN d :
    /\ Key(d[i]) \in DOMAIN objs
    /\ LET obj == objs[Key(d[i])]
       IN ButEndpoints(obj) = ButEndpoints(MutateFuncFor(obj, [d[i] EXCEPT !.owner = Id(cr)]))

Own(cr) == {k \in DOMAIN objs : objs[k].owner = Id(cr)}

\* What a spec that no longer asks for it leaves behind for good: a frontend, as
\* the querier prunes by its own component's labels (thanosquery_controller.go:
\* 407-412); the Role and RoleBinding of a gate that was shut, as no pruner knows
\* their kinds (thanosreceive_controller.go:390-425); and a budget that was
\* disabled for a workload with two or more replicas (thanosstore_controller.go:165-173).
NeverPruned(cr) == {k \in Own(cr) :
    \/ cr.kind = "ThanosQuery" /\ cr.spec.frontend = {} /\ k[2] = QueryFrontendNameFromParent(cr.name)
    \/ cr.kind = "ThanosReceive" /\ ~gate.krs /\ k[1] \in {"Role", "RoleBinding"}
    \/ /\ k[1] = "PodDisruptionBudget"
       /\ \E w \in Workloads : w[2] = k[2] /\ objs[w].body.replicas >= 2}

\* What the resource asks for is there, and of what it asked for before only
\* what is never pruned, whatever cleanup makes of it.
Built(cr) == \E d \in Desired(cr, gate, objs) :
    /\ Laid(cr, d)
    /\ Own(cr) \subseteq {Key(d[i]) : i \in DOMAIN d} \cup NeverPruned(cr)

\* A ruler without a querier or, if stateless, a receiver, and a querier next to
\* a Service that has the labels of a StoreAPI but no gRPC port: all jobs fail.
Waits(cr) == cr.kind \in {"ThanosRuler", "ThanosQuery"} /\ Desired(cr, gate, objs) = {}

\* No wakeup is lost: with nothing queued and no worker busy, each resource has
\* the objects its spec, the feature gates and the other resources call for, no
\* other but the three kinds of leftovers named in NeverPruned, and its condition
\* says so; after any edits, deleted objects, failed calls and restarts (the
\* SetupWithManager and syncResources of the five reconcilers).  What waits is
\* excepted: a querier is not told of a Service that will make its next job fail.
RestsOnlyWhenBuilt ==
    AtRest => \A cr \in Managed : ~Waits(cr) => Built(cr) /\ cond[Id(cr)].ready = "True"

\* A querier at rest asks every Service that carries the labels of a StoreAPI
\* and matches its selector, strictly or in a group as the Service says,
\* whether it was there before the querier or not
\* (thanosquery_controller.go:196-248, 292-339).
AsksEveryStore ==
    AtRest => \A cr \in {c \in Managed : c.kind = "ThanosQuery"} :
        \A eps \in getStoreAPIServiceEndpoints(cr, objs) : \A i \in DOMAIN eps :
            Contains(Pods(<<"Deployment", QueryNameFromParent(cr.name)>>).containers[1].args,
                     Q!EndpointArg(eps[i]))

\* Users provide the Secrets their specs name; the operator must see to the rest.
Given(source) == source[1] = "Secret" /\ source[2] = <<"objstore">>
Refers(pod) ==
    {<<"ServiceAccount", pod.account>>}
    \cup (UNION {pod.volumes[i].source : i \in DOMAIN pod.volumes})
    \cup (UNION {UNION {pod.containers[i].env[j].source : j \in DOMAIN pod.containers[i].env} :
                    i \in DOMAIN pod.containers})
NoDuplicates(s) == Cardinality(ToSet(s)) = Len(s)

\* The flags of Thanos that may be given more than once.
Cumulative == RepeatableFlags \cup {"alert.label-drop", "deduplication.replica-label", "watched-dir"}
Accepted(args) == \A i, j \in DOMAIN args :
    i # j /\ args[i][1] = args[j][1] => args[i][1] \in Cumulative

PodStarts(k) ==
    LET pod == Pods(k)
        Names(s) == [i \in DOMAIN s |-> s[i].name]
        all == pod.inits \o pod.containers
        ports == FlattenSeq([i \in DOMAIN pod.containers |-> pod.containers[i].ports])
    IN  /\ \A ref \in Refers(pod) : ref \in DOMAIN objs \/ Given(ref)
        /\ k[1] = "StatefulSet" => <<"Service", objs[k].body.service>> \in DOMAIN objs
        /\ NoDuplicates(Names(pod.volumes)) /\ NoDuplicates(Names(all))
        /\ NoDuplicates([i \in DOMAIN ports |-> ports[i].port])
        /\ \A i \in DOMAIN all :
              /\ ToSet(all[i].mounts) \subseteq ToSet(Names(pod.volumes)) \cup pod.claims
              /\ Accepted(all[i].args)

\* The pods of every workload can start: the account, ConfigMaps and Secrets
\* they refer to exist, mounts name volumes of the pod, nothing is named twice
\* and no flag is given twice that may be given once, whatever combination of
\* gates and additional arguments, volumes and containers the template was
\* put together from (options.go:248-365, 503-546, util.go:79-171).
PodsCanStart == AtRest => \A k \in Workloads : crs[objs[k].owner] \in Managed => PodStarts(k)

Selects(obj, k) == HasRequiredLabels(Pods(k).labels, obj.body.selector)
Selecting == {k \in DOMAIN objs : k[1] \in {"Service", "PodDisruptionBudget"} /\ objs[k].owner # NoOwner}

\* At any time a Service, a budget and a workload select the pods of no other
\* workload, be it of another shard, hashring or resource whose name starts
\* like this one's.
SelectsOnlyItsOwn ==
    \A k \in Selecting \cup Workloads : \A w \in Workloads : Selects(objs[k], w) => w[2] = k[2]

Monitors == {k \in DOMAIN objs : k[1] = "ServiceMonitor"}
ServesNamedPorts(k, w) == \A i \in DOMAIN objs[k].body.ports :
    LET port == objs[k].body.ports[i]
    IN  port.name \in {GRPC, HTTP, "remote-write", "capnproto"} =>
            \E j \in DOMAIN Pods(w).containers :
                Contains(Pods(w).containers[j].ports, Port(port.name, port.target))

\* At rest the pieces of each instance fit: a Service and a budget select the
\* pods of a workload, the Service its ports; a ServiceMonitor selects one
\* Service and a port of it; what is labelled as a gRPC API serves gRPC.
WellWired == AtRest /\ Managed = Present /\ Garbage = {} =>
    /\ \A k \in Selecting : \E w \in Workloads :
          Selects(objs[k], w) /\ (k[1] = "Service" => ServesNamedPorts(k, w))
    /\ \A w \in Workloads : Selects(objs[w], w)
    /\ \A m \in Monitors : \E k \in Selecting :
          /\ \A other \in Selecting \cap Labelled(objs, {"Service"}, objs[m].body.selector) : other = k
          /\ k \in Labelled(objs, {"Service"}, objs[m].body.selector)
          /\ \E i \in DOMAIN objs[k].body.ports : objs[k].body.ports[i].name = objs[m].body.port
    /\ \A k \in Selecting : \A labels \in {requiredStoreServiceLabels, RequiredQueryServiceLabels} :
          k[1] = "Service" /\ HasRequiredLabels(objs[k].labels, labels)
             => IsGrpcServiceWithLabels(objs[k], labels) = {GRPCPort}

-----------------------------------------------------------------------------
Pruned(kind) == IF Busy(kind, "prune") \/ Busy(kind, "cleanup")
                THEN IF work'[kind] # work[kind] THEN DOMAIN objs \ DOMAIN objs' ELSE {}
                ELSE {}

\* A reconciler deletes what is its resource's own and nothing else, although
\* it finds what to delete by labels and names (handlers.go:196-266).
NeverDeletesNeighbours ==
    [][\A kind \in Kinds : \A k \in Pruned(kind) : objs[k].owner = Id(work[kind].cr)]_vars

\* A reconciler takes nothing away that the pods of a workload that stays
\* refer to: the Secret of a ruler goes only after its pods no longer mount it
\* (thanosruler_controller.go:1035-1046).
NeverPrunesWhatIsUsed ==
    [][\A kind \in Kinds : \A k \in Pruned(kind) :
          \A w \in Workloads \ pruneOrphanedResources(work[kind].cr, gate, objs) :
             k \notin Refers(Pods(w))]_vars

\* The reconcilers do not wake each other for ever: after the last disturbance
\* they come to rest, with everything built, unless a ruler still has nobody to
\* ask or a querier meets a Service without a gRPC port; a ruler that was
\* created before any querier or receiver, and failed until then, gets there
\* too (thanosruler_controller.go:205-288, 637-756).  With two queriers or two
\* external labels, whose order may change with each reconcile, they need not.
FleetConverges == <>[](AtRest \/ \E cr \in Managed : Waits(cr))
=============================================================================
