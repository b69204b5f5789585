# The Thanos operator in TLA+

This directory holds TLA+ models of the controllers in this repository, the TLC
configurations that check them on small instances, and TLAPS proofs of what
holds for any number of hashrings, replicas, shards, rule files and faults. It is
meant to be read next to the code: `PROJECT.json` names, for every definition that models code,
the file and lines it stands for.

    tlc -workers 2 -config ReceiveSafety.cfg MCReceive     # one run
    tlapm ReceiveProofs.tla                                # the proofs of a module

## 1. The system

The operator is one process. Each custom resource kind has a controller: a work
queue with one worker that takes a resource, reads it and the objects it needs
from informer caches, writes what is missing to the API server, and reports in
the resource's status. Watches on the objects put the resource back on the
queue. An error puts it back too, after a delay.

| Component | Its state | Operations | Correct when |
|---|---|---|---|
| **ThanosReceive controller** (`thanosreceive_controller.go`) | a StatefulSet per ring, the router Deployment and ConfigMap with `hashrings.json`, conditions | `Reconcile` = ingesters, read the configuration and the EndpointSlices, merge, router, prune, status; `enqueueForEndpointSlice` | routers never lose a ring by accident, no ring is deleted while routed to, quorum holds, no wakeup is lost |
| **Hashring configuration** (`pkg/receive/hashrings.go`) | none | `DynamicMerge`, `StaticMerge`, `trimTo`, JSON | see above, and the list has one entry per ring in a stable order |
| **ThanosCompact controller** | a StatefulSet per shard | prune, then create or update | no two compactors on the same data |
| **ThanosStore controller** | a StatefulSet and a PodDisruptionBudget per shard | create or update, then prune | every block stays served, shards agree on the modulus in the end |
| **VolumeResize controller** (feature gate) | claims, the size annotation and claim template of a StatefulSet | expand the claims, delete the StatefulSet and orphan its pods so that its owner recreates it | the template follows the claims, whatever fails between |
| **ThanosRuler controller** | StatefulSet, rule ConfigMaps derived from PrometheusRules and user ConfigMaps | collect, convert, bucket by size, prune | every selected rule is loaded, once, for its tenant; nothing a pod loads is pruned |
| **ThanosQuery controller** | Deployment, query frontend | discover StoreAPI Services, build endpoint flags, prune | the querier asks every store there is, as its Service says |
| **ObjectStatus controller** | workload status in the custom resources | copy replica counts | the status follows, and its writes do not hide the other controller's |
| **Object handler** (`pkg/handlers`, `pkg/manifests/mutations.go`) | none | `CreateOrUpdate`, `Prune`, `DeleteResource` | counts every failure and goes on |
| **Manifest builders and transformation** (`pkg/manifests`, `transform.go`) | none | from a spec to options to objects | the objects of an instance fit together and its pods can start |
| Feature gates, metrics, `cmd/main.go` | none that changes while the process runs | flags, wiring | objects of a gate that was shut go |

The components meet in the API server. The receive controller and the pods meet
in EndpointSlices; the routers read the ConfigMap; VolumeResize deletes what the
other controllers create; ObjectStatus and every other controller write the same
status with optimistic concurrency; two resources in a namespace can produce the
same names or prune by the same labels.

What makes it hard: reads come from caches that lag behind the worker's own
writes; a reconcile is a sequence of calls any of which may fail or conflict, and
the code counts failures and continues past some of them; the process may die
between two calls; the user and the pods change everything while a reconcile
runs; wakeups come only from watches, which judge an update by what the object is
now; what is to be pruned is found by labels and names. `PROJECT.json` lists the
hazards one by one at their lines, the open ones with the reason.

## 2. The modules

    Hashrings          the merge of the receive controller, as functions of tables
    RoutingTable       what the controller promises, without caches and failures
    ReceiveController  one ThanosReceive resource: users, pods, caches, the worker
    MCReceive          small instances of it, symmetry of the rings
    HashringList       the configuration as the list it is stored as
    HashringsProofs    theorems about the merge
    HashringListProofs theorems about HashringList
    ReceiveProofs      theorems about ReceiveController
    Shards             the instances ThanosCompact and ThanosStore ask for, as functions
    ShardedWorkloads   one ThanosCompact or ThanosStore resource: users, cache, worker
    MCShards           small instances of it
    ShardsProofs       theorems about Shards and ShardedWorkloads
    VolumeResize       the resize controller and the owner of a StatefulSet, composed
    VolumeResizeProofs theorems about VolumeResize
    Manifests          names, labels, arguments, pods, and what all builders share
    QueryManifests, FrontendManifests, StoreManifests, CompactManifests,
    ReceiveManifests, RulerManifests
                       the builders, from options to objects
    Transform          from resources to options
    Controllers        what reconcilers discover, want, prune and are woken by
    OwnedObjects       all five kinds of reconciler at work in one namespace
    ObjectStatus       OwnedObjects with the controller that copies replica counts
    MCFleet            small namespaces for ObjectStatus
    ManifestProofs     theorems about what a resource asks its builders for
    FleetProofs        theorems about OwnedObjects and ObjectStatus
    RulerRules         rule files on their way from users to the pods of a ruler
    MCRuler            small sets of sources and rulers for it
    RulerProofs        rule files and their buckets; what RulerRules may never do, and
                       what it comes to rest with

Operators named `Definition_Variant` with a comment that starts with "Mutant"
are plausible mistakes in the definition that follows them. `PROJECT.json` lists
one for every checked property: with it in place of the definition, TLC finds
that property violated in the same run.

### Hashrings

A list of hashrings is a function from ring names to sets of pod ordinals, empty
for a ring that is not listed. This loses nothing of a ring's endpoints, because
`EndpointSliceListToEndpoints` sorts them by address and removes duplicates;
what it loses of the list (order, tenants, Cap'n Proto addresses) is the subject
of `HashringList`. `AddressRank` is the order of the addresses as strings, in
which pod 10 comes before pod 2; `trimTo` cuts in that order. `Merged` is the
loop the two merge functions share, `Acceptable` and `Chosen` are where the
dynamic and the static policy differ.

### ReceiveController

| Variable | In the code |
|---|---|
| `spec`, `status` | the resource; `status` keeps the Ready condition and `status.paused` |
| `crFresh` | whether a status update with the resource version the worker read succeeds |
| `sts`, `stsCache` | the StatefulSet of each ring (replicas; 0: none) in the API server and in the informer cache; it stands for the ring's Service and other objects, which are written and deleted with it |
| `ready` | the ready endpoints in the EndpointSlices |
| `cm`, `cmCache` | the router ConfigMap in the API server and in the cache |
| `routerRF` | the replication factor in the router Deployment's arguments |
| `dirty` | the work queue holds the resource |
| `pc`, `snap`, `previous`, `seen`, `todo`, `errCount` | the worker's position in `Reconcile` and its locals |
| `faults` | failed calls, foreign status writes and crashes so far |

`Reconcile` is cut where it reads or writes shared state, so each action is what
happens between two moments at which another process can interfere:
`Reconcile` (take and `Get`), `CreateOrUpdateIngesters`, `ReadHashringConfig`,
`ReadEndpointSlices(h)` once per ring, `CreateOrUpdateRouter` (merge, Deployment
and ConfigMap), `PruneOrphanedResources`, `Report`. The writes of the ingesters
of several rings are one action, with every subset of them failing, and with
`another`, a failure of a ServiceAccount, Service, PodDisruptionBudget or
ServiceMonitor of a ring, which counts without changing a StatefulSet; nothing the
worker does depends on the order of these writes, and the users and pods that
could act between them act before or after. `CreateOrUpdateRouter` reads the
ConfigMap again before it writes, as `controllerutil.CreateOrUpdate` does. A
write is refused when the cached object is not the current one.

`EditSpec` writes any spec that admission accepts, at any time. Pods of existing
StatefulSets become ready and unready at any time, also surplus ones of a
scale-down or of a deleted ring. With a kind in `Lagging` its cache is brought
up to date by a separate action, which is also when the watch event arrives.
`Crash` empties the worker; a new process starts from current caches with every
resource queued.

### RoutingTable

The abstract specification: the user's wish, the plan the operator carries out,
the table that is routed by and the rings that run. Its actions say what a
change of the table may be (`Routable`): a ring of the plan as it was, or
complete, or one member short if something is published already; a ring outside
the plan goes. A workload is retired only when its ring is not routed to.
`ReceiveController!KeepsPromise` instantiates it with `spec.rings`, `pc # "idle"`,
`snap.rings`, `cm.table` and the rings with a StatefulSet. It is checked by TLC
and proved.

### HashringList

The entries of `hashrings.json` with name, tenants, members and whether they
carry Cap'n Proto addresses; `Reconciled` is a complete `buildHashringConfig`
with the JSON written and read back, including the iteration order of Go maps,
which is a nondeterministic choice, as is the place `sort.Slice`, which is not
stable, gives entries of one name. One step of this module is a whole reconcile.
A merge first says what it lists (`listed`: the rings `rebuilt` from their
members, and for the others of the spec all previous entries of their name) and
then in which order (`sortings`), which is how the two could go wrong: a ring
listed twice, or none. `MergesTables` connects it to `Hashrings`, and
`TwoReconcilesSettle` says that the file comes to rest.

### Shards and ShardedWorkloads

A block of the object store is the hash of its ID. `Layout` says for every
instance (a generated resource name) whether it is there and which blocks its
relabelling keeps. `compactOptions` gives the layout of the shards a user lists,
`storeOptions` that of n shards by hashmod; without shards both have one
instance, `Whole`, that keeps everything.

| Variable | In the code |
|---|---|
| `kind` | which of the two reconcilers the behaviour is about; it never changes |
| `spec`, `status` | the resource: the layout it asks for and `.spec.paused`; its Ready and Paused conditions |
| `sts`, `stsCache` | the StatefulSets in the API server and in the cache |
| `dirty` | the work queue holds the resource |
| `pc`, `snap`, `todo`, `errCount` | the worker's position in `Reconcile` and its locals |
| `faults` | failed calls and crashes so far |

The reconcilers of compact and store are the same program but for the order of
`pruneOrphanedResources` and the loop of `CreateOrUpdate`, and for what an error
in the first of them stops: `syncResources`, `afterPrune` and `afterWrites` are
where they differ. There is one `CreateOrUpdate(i)` per instance, since between
two instances the cluster is in between two layouts. Compact writes in the order
of the user's list, which may be any; store writes by index. A StatefulSet
stands for the objects of its instance, and `another` is a failure in one of the
others (ServiceAccount, Service, PodDisruptionBudget, ServiceMonitor), which
counts without changing the StatefulSet. With `CacheLags` the cache is brought
up to date by `SyncStatefulSet`, which is also when the event arrives; before
that the pruner misses new instances and writes conflict.

### VolumeResize

Two controllers with a queue and a worker each. The owner is an instance of
ThanosCompact or ThanosStore, with a reconcile reduced to what happens to its
StatefulSet: `OwnerReconcile` reads the resource; `OwnerWrites` creates the
StatefulSet with the size asked for as annotation and template, or changes the
annotation of the one there is (`mutateStatefulSet` leaves claim templates
alone), or prunes it. The resize controller is `Reconcile` (take and `Get`),
`ListClaims`, one `processPVC(o)` per claim to be expanded, and
`orphanAndDeleteStatefulSet`, which is also the end of `processPVCs` when there
is nothing to delete.

`claims` are the requested sizes of the pods' claims; `claimsCache` is what a
list returns. Each write may or may not show there at once, and `SyncClaims`
brings it up to date without waking anyone, since neither controller watches
claims. `running` are the pods, `doomed` those whose StatefulSet was deleted with
its pods. A pod that starts without a claim gets one of the template's size. The
deletion names no version, so it removes whatever StatefulSet is there by then.

### Manifests and the six builders

A name or a value is a sequence of symbols, with the separators among them, so
that `a` with shard `b-c` and `a-b` with shard `c` collide here as in the code. `NameLimit`
is the length from which names are shortened to a hash. An argument is a flag
and a value; `MergeArgs`, `PruneEmptyArgs` and the repeatable flags are those of
`util.go`. An object is its kind, name, labels, owner and a body with what
another object can refer to: selectors, ports, arguments, volumes, mounts,
containers, claims, replicas. `MutateFuncFor` lays a desired object over the one
that is there, field by field as `mutations.go` does.

`RulerManifests` also has `MakeRulesConfigMaps`, the distribution of rule files by
size. The loop over the sorted files is given by what it decides: `NewBuckets` is
the set of files that begin a bucket because they do not fit `currBucket`, the
files since the last one that did. Each file is judged by the files before it
only, so there is exactly one such set.

### Transform and Controllers

`Transform` has one operator per function of `transform.go`. `Controllers` has
the decisions of the reconcilers as functions of the objects in the namespace:
`getStoreAPIServiceEndpoints` and its relatives discover, `Desired` gives the
lists of objects a reconcile may set out to write (several, where the code
follows the order of a list or a map; none, where it fails first), `cleanup` and
`PrunedBefore` give what it prunes, and `Woken` whom an event wakes, watch by
watch, with the predicates of each `SetupWithManager`. External labels are a set in a
spec and in the options made of it; the builders range over a Go map of them, so
`Ranged` and `Rangings` give the options of a ruler, a router and all ingesters with
the labels in every order, and each reconcile takes any. A call on the nil options
of a stateless ruler without a receiver, and an endpoint without a type, panic
in the code; controller-runtime turns the panic into an error, which here is the
empty set.

### OwnedObjects and ObjectStatus

| Variable | In the code |
|---|---|
| `gate` | the feature gates the process was started with |
| `crs`, `cond` | the resources, and their Ready and Paused conditions |
| `objs` | every object of the operator's, and Services of others, in the API server |
| `queue` | the resources in the work queues |
| `work` | per kind, the worker: the resource it read, the objects it has yet to write, errors so far, and whether the resource is still as it was read |
| `ready`, `status`, `pass` | which workloads have ready pods, the counts in the status, and the copies the status controller holds |

One worker per kind. `Reconcile` reads the resource and whatever it discovers
and decides what to write; `CreateOrUpdate` writes one object; `PruneFirst` and
`Cleanup` delete what is left over; `Report` writes the condition, which is
refused and only logged when the resource has changed meanwhile. `EditSpec`,
`DeleteResource`, `CollectGarbage`, `DeleteObject`, `ForeignService` and
`Restart` are everybody else. Caches are current: lagging ones are the subject of
`ReceiveController`, `ShardedWorkloads` and `VolumeResize`, and the merge of
hashrings, whose result here is an empty configuration, that of the former.

`ScenariosAssumption` says what a scenario is: every version of a resource is of one
of the five kinds and keeps its kind and name, a list in a spec is a list, and the
Services of others have no owner reference and no `owner` label.
`NeighboursAssumption` says which resources can live in one namespace: two of one kind
have different `owner` labels (names longer than a label are cut and hashed), and no
other resource gives an object a name that a ThanosReceive gives one of its own (what
that reconciler deletes it partly finds by name). `NamesAssumption` asks more: the names
two resources give their objects never meet, a querier and its frontend are named
differently, and so are a receiver's router and its rings. Each name starts with that
of its component and ends with that of its resource, so they meet only if users choose
them so; the code writes by name and has no answer then (the last writer owns the
object). `LabelsAssumption`: the different names that one resource gives, before or
after an edit, are different as label values. Names up to 63 characters are their own
label values; a longer one is cut, and its end replaced by a hash. `UsersAssumption`:
what users mount or read in pods are Secrets and ConfigMaps (`ConfigMaps`, `Secrets`,
volumes and environments of the API types), and none of the Secrets is the one that a
ruler generates for itself. TLC evaluates all of them on the namespaces of `fleet`;
they are what the proofs assume of any others.

`ObjectStatus` adds the pass that lists all resources and then counts the
workloads of each and writes its status; the write makes a reconcile under way
out of date and wakes the reconciler.

### RulerRules

Sources are ConfigMaps and PrometheusRules in the forms users may give them; a
file has a key, a size, rules, and the tenant bound to its labels and queries. The reconcile
is cut at each call: the listing of ConfigMaps, one write per derived ConfigMap,
the listing of PrometheusRules (which can be later than edits the first listing
missed), their writes, the StatefulSet, the Secret, the pruning. Pods load the
files their StatefulSet names that are in the ConfigMap it names (the mounts are
optional). `missed` holds, for each ruler, the sources whose last change no watch let
through and that were not listed for it since.

The assumptions on the constants say what sources are: objects nobody owns, whose
files have sizes and places in the order of names, no two of them with one name
(`FilesAssumption`; two user ConfigMaps may break it, see below), and that the names of
derived ConfigMaps are told apart (`NamesAssumption`; TLC evaluates it for the names
the rulers of each run make, as far as there are sources to fill them).

## 3. The runs

| Run | Instance | Shows |
|---|---|---|
| `receive_safety` | 2 rings, up to 2 replicas, dynamic, 1 fault | the type invariant, no retirement of a routed ring, rings in trouble are left alone, rings go only when removed, and the refinement of `RoutingTable` |
| `receive_status` | 1 ring, 3 or 4 replicas at factor 3, both policies, conditions, 1 fault | published rings reach the replication factor, static rings keep their size, Ready is earned |
| `receive_liveness` | 1 ring, 2 replicas, both caches lagging, pauses, 1 fault | convergence, removal, no lost wakeup |
| `hashring_list` | 2 rings, 2 replicas, 2 tenant lists, both policies and protocols | the list merges as the table does, with one entry per ring, and two reconciles reach a fixpoint |
| `receive_stale_cache` | 1 ring, lagging ConfigMap cache | **violated**: a ring in trouble is dropped |
| `hashring_capnproto` | 2 rings, capnproto | **violated**: the kept entry loses its Cap'n Proto addresses |
| `shards_safety` | both kinds, 3 blocks, 3 compact layouts, 1 to 3 store shards, 2 faults | the type invariant, compact never mixes layouts nor compacts a block twice, store keeps the old shards until the new ones are there, Ready is earned |
| `shards_liveness` | the same with a lagging cache, pauses, 1 fault | no lost wakeup, convergence |
| `volume_resize` | 2 pods, sizes 1 and 2, 1 fault | whoever rests has done its part: the owner with the StatefulSet as asked, the resize controller with every claim expanded; the two do come to rest with the StatefulSet there, the volumes grow |
| `fleet` | six namespaces of one to three resources, 1 or 2 disturbances | each resource rests with the objects it asks for and no other but three named kinds of leftovers, they fit together, pods can start, nobody deletes a neighbour's, the querier asks every store, and reconcilers and status controller converge |
| `ruler` | one ruler with and without tenancy, 14 forms of four sources, the gate open and shut, 2 disturbances | pods load every selected rule, once, for its tenant; ConfigMaps keep their limit; the ruler comes to rest |
| `ruler_prunes_neighbour` | two rulers, no disturbance | **violated**: each prunes the other's ConfigMaps |

The violations are disagreements between the code and its own comments or
documents:

* **A stale configuration is merged and written** (`receive_stale_cache`).
  `buildHashringConfig` reads the ConfigMap from the cache, and
  `CreateOrUpdate` reads it a second time before it writes. If the cache misses
  the first publication at the first read and has it at the second, the result
  of "nothing published yet" replaces the published configuration without a
  conflict, and a ring in trouble vanishes, although "if the hashring is having
  issues, we don't interfere with it".
* **`Endpoint.UnmarshalJSON` drops `capnproto_address`** (`hashring_capnproto`),
  so keeping an entry unchanged changes it.
* **Rulers prune each other's rules** (`ruler_prunes_neighbour`).
  `pruneOrphanedDerivedConfigMaps` lists the derived ConfigMaps of the namespace
  by a label all rulers use, and deletes those this ruler does not expect. The
  deletion wakes the other ruler, which restores its own and deletes the first
  one's, for ever; meanwhile rules come and go under the pods.

Five further configurations, kept beside the runs, show where a property that
holds elsewhere ends:

* `ReceiveFactorRaised.cfg` (`ReplicationFactorMet`): a ring that is kept as
  published may have fewer members than the raised replication factor the same
  reconcile gives to the routers.
* `CompactMoved.cfg` (`OneStatefulSetPerBlock`): a label value that moves from one
  compact shard to another that stays is in both between the two updates, and
  for as long as the second one fails, although "we don't want multiple
  compactor instances potentially compacting the same data".
* `VolumeRemoved.cfg` (`RemovedStops`): a resize deletes the StatefulSet and leaves
  its pods to the one the owner creates next; if the shard leaves the spec
  before the owner's next reconcile, the pruner, which looks for StatefulSets,
  finds none.
* `RulerSelector.cfg` (`RestsOnlyWhenLoaded`): `enqueueForPrometheusRule` matches with
  the ruler's selector alone (`thanosruler_controller.go:821`), while the listing lays
  `DefaultRuleLabels` over it (line 542). The two agree if the selector leaves
  `operator.thanos.io/prometheus-rule` out or gives it the value "true". With another
  value, which "will be appended to the default" according to
  `thanosruler_types.go:48`, the ruler loads the rules labelled "true" and is woken by
  the others: one that it loaded goes, and nobody wakes it. `RulesRestLoaded` (section
  4) shows that two selectors disagree in no other way.
* `FleetLabels.cfg` (`FleetConverges`): a ring with two external labels. The arguments of
  an ingester range over a Go map (`receive/builder.go:536`; a router's do in line 577,
  a ruler's in `ruler/builder.go:551`), so each reconcile may write them in the other
  order; the update of the StatefulSet wakes the reconciler, which may write the first
  order again, for ever. The invariants of `fleet` hold there as well.

Other behaviour of the code that the models have and that a maintainer may want to
know of:

* A Service that has the labels of a StoreAPI and no gRPC port stops the reconcile
  of every querier that selects it (`thanosquery_controller.go:222`,
  `query/builder.go:313`); the code logs it as skipped. `Waits` excepts such queriers.
* A Service that loses the labels of a StoreAPI stays an endpoint until the
  querier's next event; a PrometheusRule whose labels alone change and a
  ConfigMap that loses the rule label wake no ruler.
* Endpoints of queriers and receivers are not sorted, so with two of them a
  ruler's StatefulSet or Secret may follow the order of the list.
* Objects of a query frontend that leaves the spec (`thanosquery_controller.go:407`
  prunes by the labels of the querier), the Role and RoleBinding of a router whose
  sync gate was shut, and a PodDisruptionBudget disabled at two or more replicas are
  never pruned. They are what `NeverPruned` names; `RestsOnlyWhenBuilt` allows a
  resource at rest no other object that it does not ask for. It compares the objects
  the resource owns with those it asks for, not with what `cleanup` finds, and the
  scenarios produce all three kinds.
* One source with an empty tenant label stops the reconcile of all rules of that
  ruler; rules that already name another tenant keep their queries; two user
  ConfigMaps whose name and key join to the same string share one rule file.
* `MakeRulesConfigMaps` never returns to an earlier bucket (next fit), where its comment
  says first fit; the number of ConfigMaps may be larger, their limit holds.

The first publication of a configuration is in the order of a Go map, which the
SOP for volumes does not expect; it takes a second reconcile to sort it, and
`TwoReconcilesSettle` states that two are enough.

### Bounds

* Two rings are needed for one ring to be kept, removed or published while
  another is not, for the order of reads, and for the empty table as a special
  case; a third adds no new relation, since each ring is merged on its own and
  the rings interact only through "is anything published". They are
  interchangeable, so the safety run uses symmetry.
* With two replicas a dynamic ring can be complete, one short and in trouble. The
  static policy and a quorum that differs from 1 are in `receive_status`, where
  four replicas at factor 3 leave room for a scale-down from 4 to 3 with a surplus
  pod. More than ten replicas, where string order matters, are covered by
  `TrimSize`.
* One fault is enough to fail, conflict or crash at each point of a reconcile
  and see every later step of it and of the next ones; what must survive any
  number of faults is proved for arbitrary `MaxFaults`. `EditSpec` and pod
  changes are not bounded.
* Compact has three layouts: one compactor for everything, and two that share one
  shard name and not the other, so a change may keep, add and remove instances at
  once. The shards have two matchers that both count. With up to three store
  shards every instance of a smaller layout changes its blocks in a larger one.
  Two faults let a second reconcile fail as well.
* Two pods let one claim fail while the other is expanded, and let a pod start
  from an old template after a resize; sizes 1 and 2 let a size grow and be taken
  back. Pods stop and start, and the user edits, any number of times.
* The namespaces of `fleet` each put together what can interact: `discovery` (a
  querier with and without a frontend, a store with one and two shards, and a Service of somebody
  else's that comes, goes, turns strict, loses its labels or has no port),
  `rules` (a ruler that gains an object store while its budget is disabled, or the
  other way round, a querier, a receiver),
  `gates` (a receiver with one ring or two whose names begin alike, restarts
  between three sets of gates), `compact` (shards that come and go, arguments of
  the user, lost objects, failures, restarts), `neighbours` (stores `s` and `s-t`
  with shards, deletion) and `status` (a store, its pods, the status pass). One
  disturbance is enough for every pair of an event and a point of a reconcile;
  where gates or shards change, two let the second meet what the first left.
  A wakeup that is lost shows as a state at rest, whatever else may happen later.
* `ruler` has room for two files of size 1 in a ConfigMap, so that a file that
  grows moves to another one and one of size 3 fits none; two disturbances let
  a file move while a write of the move fails.
* `CHECK_DEADLOCK` is on where users and pods can always act. In `fleet` and the
  two ruler runs disturbances are bounded and the system may really stop when it
  is settled.

### Fairness

`FairSpec` assumes weak fairness of the worker (a queued resource is taken, a
reconcile that runs goes on), of each cache catching up (informers deliver), and
of a surplus pod stopping (the StatefulSet controller). A failed reconcile puts
its resource back on the queue, which is in `Report`. Nothing is assumed of
users, healthy pods, failures or crashes. `RingConverges` therefore speaks of
rings that stay asked for and whose pods stay ready.

`ShardedWorkloads!FairSpec` assumes the same of its worker and of the cache of
each StatefulSet. `VolumeResize!FairSpec` assumes it of both workers and the
cache of claims, that the StatefulSet controller starts missing pods, and that
the garbage collector stops doomed ones. `StatefulSetReturns` is nothing but the
question whether these two controllers, fair as they are, undo each other's work
for ever. `VolumesFollow` and `RestsOnlyWhenExpanded` have the premise that claims are
never listed out of date: without it both fail, because a claim that was missing in the list
wakes nobody when it appears, and stays small until the next event of its
StatefulSet.

`OwnedObjects!Fairness` is weak fairness of the worker of each kind,
`ObjectStatus!StatusFairness` that of the status pass, which is requeued after 30
seconds whatever happens. Both are spelled out as "infinitely often not
enabled, or infinitely often taken", with the enabling condition written down,
because evaluating ENABLED of steps that lay objects over each other dominates
the run otherwise. Nothing is assumed of the garbage collector, users or pods. `RulerRules!Fairness`
is weak fairness of the one worker.

## 4. What is proved

### ReceiveController and Hashrings

`TypeCorrect` holds for every choice of the constants, with lagging caches. So
does `PausedUntouched`, whose invariant is that a worker past its first step
holds a spec that was not paused.

The others say which cache they need. What the worker does to the routers it
decides from the configuration it read, so `RetiresOnlyUnrouted`, `TroubledStays`,
`DropsOnlyRemoved`, `StaticSize` and the refinement `Implements` assume that the
ConfigMap cache does not lag (`"ConfigMap" \notin Lagging`) and hold however
late the StatefulSet cache is; without the assumption `TroubledRingUntouched` and
the refinement are false, which is what `receive_stale_cache` shows.
`ReadyEarned` speaks of StatefulSets as well and assumes `Lagging = {}`. All of
them hold for any rings, replicas up to 100, policies, factors and number of
faults.

None of the properties is inductive: that pruning deletes only unrouted rings
depends on what the router step wrote some steps earlier, and that Ready is
earned depends on everything before it. Two invariants say what the worker
relies on at each point of the reconcile. `RoutersKnown`, with a current
ConfigMap cache, is

* `ReadIsCurrent`: the configuration read is still the published one, so keeping
  an entry of what was read keeps what is published;
* `RouterApplied`: when pruning, no ring outside the spec is published, because
  the router was written in this reconcile or was that way already.

`IngestersKnown`, with a current StatefulSet cache, is

* `IngestersApplied`: past the ingesters with no error counted, each StatefulSet
  is as the spec held says;
* `Pruned`: when reporting success, the StatefulSets are exactly the spec's.

With `TypeOK`, each is inductive (`RoutersKnownAlways`, `IngestersKnownAlways`),
with one lemma for each step that writes. From them follow the action properties
and, step by step, `Implements`: every behaviour of the controller is one of
`RoutingTable`.

`FactorMet` holds whichever caches lag. It assumes that the replication factor
never changes (`Factors = {rf}`; compare `ReceiveFactorRaised.cfg`). With a stale
configuration the worker may publish a ring as it was some time ago, so the
invariant `FactorKept` says that every ring has at least rf members in all three
places the worker may take it from: the ConfigMap, its cache and what was read.

`RestSettled`, that no wakeup is lost, also holds whichever caches lag. Its
invariant `NoWakeupLost` is about the reconciles that nobody disturbs: as long as
nothing is queued and the caches are current, what the reconcile has done so far
still stands (`HasSettled`, a clause for each stage, up to "at rest, the rings
are as the spec says and another merge changes nothing"). A reconcile that
starts from a stale cache is covered because whatever the worker writes and its
cache does not show leaves the two apart, so the state is disturbed, and the
event that brings them together queues the resource. What needs an argument is
the events the watches drop: the one of a pod is dropped only for a ring whose
Service is not in the cache, and no ring that is settled is one.

The lemmas about the merge carry the arithmetic: `TrimSize` (trimming leaves
exactly n members; by induction on n over the well-ordered addresses, for
ordinals below 100 where `AddressRank` is exact), `MergeKeepsTroubled`,
`MergeQuorum` and `MergeNeverEmpties`. `SameCardinality` states that the
`Cardinality` inside the instance of `RoutingTable` is the usual one: an
instantiated module has its own copy of the operator, with the same definition.

### HashringList

`ListTypeCorrect`, `ListMergesTables` and `ListSettles` state the three invariants
of the run for any finitely many rings, any lists of tenants, policies and
protocols, replicas up to 100 (where `AddressRank` is exact) and any replication
factor up to the number of replicas.

The inductive invariant `ListInv` says of the stored list (`Stored`) that it has
one entry per name (`Once`) and that every entry has a ring and members
(`Inhabited`), or that it is the `[{}]` of an empty result. `TypeOK` lacks the
first part, and a list with two entries of one name would be carried over as two,
so neither `MergesTables` nor `TwoReconcilesSettle` could be shown of a later
reconcile without it.

The proof speaks of sets of entries as long as it can: `Outcome` is the set of
entries a merge makes, `MergeLists` shows that every list the merge may return,
whatever order the map is ranged over and the sort leaves, has exactly these
entries, each once. The order comes in at the end. `SomeSorting` (a finite set
of items with distinct names can be sorted) and `OneSorting` (only in one way)
make a merge of an inhabited list deterministic; `SecondIsLast` then follows the
three ways into a second reconcile: the first found nothing published and listed
the rings in any order, found a list and sorted it, or stored `[{}]`.
`MergeOfTable` is the other half of `ListMergesTables`: what `Hashrings!Merge`
gives a ring is the members of its entry in `Outcome`.

`TroubledEntryKept` is not among them: `HashringCapnProto.cfg` shows it false.

### Sharded workloads

`ShardsTypeCorrect` and `ShardsRestSettled` hold with a lagging cache. `OneLayoutAtATime`, `OneCompactorPerBlock`, `OldStays` and `ShardsReadyEarned`
assume `~CacheLags`, that the cache shows the worker's own writes at once, and
`shards_safety` checks their properties under it. With a lagging cache, which the
operator's may be, each of the four is false: the pruner may miss an instance, so that
two layouts are mixed and Ready is reported before its event arrives, and a write may be
skipped since the cache shows an older shard as asked.

`WorkerKnows` is the inductive invariant: `CacheCurrent`; `OrphansGone` (compact
writes only when nothing outside its layout is left); `WrittenAsAsked` (what is
off the list without an error is as asked); `AllWritten` (store prunes only when
every instance is as asked); `Done` (success is reported on exactly the layout).
`PruneKnows` and `WriteKnows` are its two interesting steps. From it follow
`OldStays` and `ShardsReadyEarned`. `OneLayoutAtATime` is an induction of its own:
pruning keeps a subset of the layout there was, a write adds to a subset of the
layout held. `OneCompactorPerBlock` combines it with `KeepsAsNamedAlways` (every
shard there keeps the blocks some layout gave its name). It assumes
`StableNames`: a name has the same blocks in all layouts and each layout is
disjoint; `CompactMoved.cfg` shows that it cannot be left out.
`EveryBlockOnce` is arithmetic: the n shards of a store divide the blocks.

`ShardsRestSettled` has the invariant `NoWakeupLost` of its own, built as the one
of the receive controller: the mixture of layouts that a lagging cache allows
never survives, since a reconcile that ends undisturbed has seen every instance
there was and left exactly those asked for. `TookItsWay` adds what the two orders
of writing and pruning leave in the locals of `Reconcile`.

### VolumeResize

The theorems hold for any pods, sizes, pauses and faults. The type invariant
(`VolumeTypeCorrect`) carries what a step may rely on: every running pod has a claim,
the resize worker past its first step has a size to compare with, and claims are left
to be patched only while it patches.

`ReturnsBeforeRest` states `RestsOnlyWhenReturned`, for lists of claims of any age. The
deletion of a resize takes away whatever StatefulSet bears the name, perhaps one that
the owner has just written, so that the owner's work may be undone at any point of its
own. The invariant `OwnerKnows` is about an owner that nobody has queued: if its worker
holds a resource it is the present one, and if not, the StatefulSet is as asked.

`ExpandedBeforeRest` states `RestsOnlyWhenExpanded`, as long as the list of claims is
current. A claim can be missed in many ways: a pod started from an old template after
the list was made, a failed expansion, a crash, a StatefulSet recreated in the middle of a
pass. The invariant `ResizeKnows` says of a StatefulSet that is not queued that the pass
under way works with its annotation and that each claim off its list is large enough, unless
an error was counted, which queues the StatefulSet again in the end.

### RulerRules

The theorems hold for any finite set of sources in any forms, any rulers, any limit
on the size of a ConfigMap and any number of disturbances, under the named
assumptions of `RulerRules` (`SourcesAssumption`, `RulersAssumption`,
`BoundsAssumption`, `FilesAssumption`, `NamesAssumption`).

`RulerProofs` begins with what the bucketing does. `BucketsDivide`: every file is
in exactly one of the buckets, and their number is bounded by that of the files.
`BucketFits`: no bucket outgrows the limit. It takes the last file of a bucket: if it
began the bucket it is alone, and no file is larger than the limit; if not, it
fitted the files before it, which are the rest of the bucket. `MapsMade` and
`Collected` carry this over to the ConfigMaps a reconcile sets out to write, and
`KindsApart` says that the files of user ConfigMaps and those of PrometheusRules
never meet in one.

`RulesTypeCorrect` and `EachFileOnce` state `RulesTypeOK` and `LoadsOnce`. Neither is
inductive. `RulesInv` adds what a job may hold between its calls: the ConfigMaps it
has yet to write are derived, its ruler's, within the limit and have names of their
own (`OwnMaps`), the files it will tell the StatefulSet are there once each, and
before the second listing they are all from user ConfigMaps (`Read`), so that the
files of PrometheusRules can be added; what the StatefulSets were told is there once
(`ToldOnce`). `EachFileOnce` holds for several rulers and in every
state on the way, with a file that has moved to another ConfigMap and a StatefulSet
that still names the old place: a pod loads a file by the one place it was told.

`RulesRestLoaded` is the statement a user would ask for: `RestsOnlyWhenLoaded`. It is
about lost wakeups, since every edit, loss, failure or restart between any two calls
of a reconcile must either be undone by the job under way or wake the ruler. The
inductive invariant `RestInv` says of every ruler that is not queued that it is
`Settled` or that its job is `Pending`. Settled: there are ConfigMaps (`maps`) made
for it, all of them are there as they were made, its StatefulSet and Secret name
exactly their files and tenants, it owns no other, and what they hold is what the
ruler selects now, but for the sources in `missed`. Pending says the same of what the
job has yet to do, stage by stage. The lemmas up to `QuietSources` compare the
watches with the listings: a change that wakes nobody either changes nothing a
ruler selects or is one `Ignored` names. `OwnedStays` does this for derived
ConfigMaps, whose changes wake their owner even if the worker itself makes
them. Then there is one lemma per action. It assumes `SelectorsAgree`, that no
selector gives the label of rule files a value other than the default; the rulers
of `Ruler.cfg` satisfy it, the default of the API type does, and
`RulerSelector.cfg` shows that it cannot be left out.

`OneRulerPrunesOnlyOrphans`: in a namespace with one ruler, `PrunesOnlyOrphans`
holds for any sources, limit on the size of a ConfigMap and failures. (Only
`ruler_prunes_neighbour` checks this property; for one ruler it is proved.) The
inductive invariant `PruneInv` ties what the worker has read to what the pods
were told: from the write of the StatefulSet to the pruning, the StatefulSet names
exactly the files of the job, unless the job has failed and will not prune. Each
action that moves a job on has a lemma; `PruningIsCleanup` shows that no other
step both deletes a ConfigMap and ends a job. `OneRuler` is an assumption of the
theorem and `RulerNeighbours.cfg` shows why: two rulers in a namespace prune what
the other one's pods load.

### OwnedObjects and ObjectStatus

`NeighboursStay` states `NeverDeletesNeighbours` for any resources of any number and
kind, any versions of their specs, feature gates, Services of others, failures,
deletions and restarts. Of the assumptions of `OwnedObjects` it needs
`ScenariosAssumption`, `NeighboursAssumption` and the first part of `UsersAssumption`,
that lists are lists. No reconciler compares the owner of what it deletes: it lists by
labels (`prune`, `handlers.go:196`), deletes by name, or looks for owner references
when a feature gate is shut, so the theorem rests on what the seven builders put on
their objects.

`DesiredAsked` is that part, in `ManifestProofs`. A resource has one part for each
component (`Parts`): the labels the owner lists its objects by, the names it may give
them, the kind of its workload, and the sources that pods may mount or read. Every list
a resource may ask for is not empty, and every object on it `Fits` one of these parts:
it has a name of the part and its labels; a Service, PodDisruptionBudget or workload
selects by the `instance` label of its own name; and the pods of a workload carry that
selector, run under the account of its name and refer to nothing but ConfigMaps and the
part's sources. There is a lemma for the labels of each component (labels that users
add never replace the operator's, and stripping the StoreAPI labels leaves them), one
for each builder, one for the options made of each kind of resource, and one for
each kind of resource. What users add (volumes, containers, environment) and what the
tracing gate adds goes through `AugmentWithOptions`, whose lemmas say that it keeps all
this. A resource with shards or hashrings flattens one list of objects for each, which
is a fold; `Flattened` goes through its prefixes, since a least one that fails does not
exist (`LeastNumber`).

`StatusInv` is the inductive invariant. Neither `StatusTypeOK` nor the property is
inductive: that an object may go depends on the labels with which it was written, by
a job that was given them when it began. It says of every object in the namespace
that it is `Owned` (its name and marks are those of the resource its owner reference
names) or a foreign Service, and of every job that what it has left to write is its
own resource's. The step that could break it is `CreateOrUpdate`, which merges the
labels of the object there is with those of the one it writes: the latter win, and so
does its owner (`LaidOver`). `PrunedIsOwn` then shows that each of the ways to find
what is left over finds the resource's own only: `ByLabels` since no two resources
share a mark (`MarksApart`), `ByName` since no other resource uses a receiver's
names. `PrunedNow` shows that no other step deletes while a job that prunes moves on.
`FleetTypeCorrect` states `StatusTypeOK`.

`SelectionStaysApart` states `SelectsOnlyItsOwn` and `UsedThingsStay` states
`NeverPrunesWhatIsUsed`, under all the assumptions of `OwnedObjects`. `StatusInv` knows
names and marks and is too weak for both: which pods a Service selects, and what pods
refer to, lies in the bodies of objects, and those of an older version of a resource,
or of one written under other feature gates, stay until they are written anew. The
invariant `PartsInv` therefore speaks of all versions: every object with an owner, and
every object a job still has to write, `Belongs` to a part of *some* version of its
resource under *some* gates. That it survives a write is the heart of it (`LaidBelongs`):
`MutateFuncFor` gives a workload the pods that are written but leaves its selector as it
is, and merges labels, so an object may be half of one version and half of another; the
parts of two versions agree on the labels that tell components and instances apart, and
so does every mixture. `NextEffect` says once what any step does
to the objects and the jobs (`Wrote`, `Rests`, `GoesOn`, `Begins`), and both `PartsStep`
and the invariant after it argue from that and not from the steps.

From `PartsInv` follows `SelectionStaysApart`: a selector tells its component's `name`,
its resource's `owner` and its own `instance`, and pods tell theirs. If the two are
of one instance they have one name; of two, `NamesAssumption` or `LabelsAssumption`
separates them. `UsedThingsStay` needs one thing more. An account, or a ConfigMap of a
receiver, that goes has the name of the workload that goes with it (`AccountsGoWithPods`:
both are listed by the same labels and kept by the same names, so that one that is
pruned is pruned with its workload; `MainByName` and `ListedApart` for queriers and
receivers, whose components share an owner). The exception is the Secret that a
stateless ruler generates: when the ruler is given an object store the Secret is deleted
by name after the StatefulSet has been written (`thanosruler_controller.go:1035`).
`SwitchedInv` keeps count of that: as long as the job has not failed, the StatefulSet is
still on the list or its pods no longer refer to the Secret, and a job that has failed
does not clean up. `SwitchedGoesOn` is the step in which it is written;
`UnusedStays` shows that nobody else can bring the reference back.

### What is model-checked only

* All liveness properties: the prover has no rules for fairness beyond
  propositional temporal logic.
* `RulesConverge`, `FleetConverges` and their like say that the rest the theorems speak
  of is reached; that is liveness.
* Of `OwnedObjects`: `RestsOnlyWhenBuilt`, `AsksEveryStore`, `PodsCanStart` and
  `WellWired`. The last two are about what the builders compute argument by argument
  (flags merged with those of the user, ports, mounts): they are true of what users
  add sensibly, as those of the scenarios do, and of what `MergeArgs` makes of it, a
  recursion over a list of arguments whose result for every list cannot be proved here.
  The first two compare what is there with what a querier or a ruler would discover
  now. Their watches pass no update of a Service that leaves its labels alone
  (`LabelChangedPredicate`; the `GenerationChangedPredicate` beside it sees none either,
  Services have no generation), so nothing is lost only because the Services of others
  in the scenarios do not change their ports under the same labels; for any Services
  the invariant is false.

## 5. What is not modelled

* In `ReceiveController`: more than one ThanosReceive, PodDisruptionBudgets and
  ServiceMonitors (they are in `OwnedObjects`), and metrics and events. The
  finalizer's handler only logs.
* In `OwnedObjects`: lagging caches, and two resources whose names make the very
  same object, for which the code has no answer (the last writer owns it). Each
  deletion call of a cleanup is in one action; which of them fails is free.
* In `ShardedWorkloads`: pods. Deleting a StatefulSet returns before its pods have
  stopped, so that FitsOneLayout is about StatefulSets. In `VolumeResize`: the
  file system behind a claim, and StatefulSets other than the one instance.
  VolumeResize is composed with a reduced owner instead of `ShardedWorkloads`
  itself, whose layouts it does not need.
* `Crash` restarts with current caches, since a process lists every kind before
  its workers start. EndpointSlices and the resource itself are read as current;
  a stale read of either is the same as the pods or the user acting a little
  later, as far as the properties can tell.
* In the builders: images, resource requests, probes, security contexts,
  annotations, affinity and other placement, which are copied and decide
  nothing; the characters of names beyond what `SanitizeName` and the limits
  do to them. In `RulerRules`: the text of rule files and of PromQL; what the
  label enforcement does to a query is one of two outcomes.
* Defaults and admission rules of the API types other than the one relating
  replicas and replication factor: the specs in the scenarios are as the API
  server would store them.
* The parsing of flags and of the feature gates' configuration file, metrics,
  start-up, leader election, the generators under `magefiles/` and `config/`
  and the generated deep copies: constant during a run of the operator, or no
  part of it.

## 6. Plan

What would come next, each with runs, mutants and, where it pays, theorems:

1. Two rulers whose pruning is by owner, as the specification of a repair.
2. Lagging caches in `OwnedObjects`, in scenarios small enough for them.
3. Proofs: what survives a lagging cache of the shards (that a pruned instance is
   never one of the layout held), and of `OwnedObjects` that what is at rest is built
   (`RestsOnlyWhenBuilt`), from `PartsInv` and an assumption on what may change about
   the Services of others.
