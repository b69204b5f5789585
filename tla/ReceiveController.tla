-------------------------- MODULE ReceiveController --------------------------
(***************************************************************************)
(* The ThanosReceive reconciler                                            *)
(* (internal/controller/thanosreceive_controller.go) for one ThanosReceive *)
(* resource: the user edits the resource, pods of the ingester StatefulSets*)
(* become ready and unready, and the single reconcile worker creates the   *)
(* ingesters, merges the ready endpoints into the published hashring       *)
(* configuration, writes it for the routers and prunes what the spec no    *)
(* longer names.  Reads of Kubernetes objects come from informer caches,   *)
(* which may be behind the API server; writes go to the API server and are *)
(* refused when the object read is not the current one.                    *)
(***************************************************************************)
EXTENDS Hashrings

CONSTANTS
    Factors,   \* the replication factors the user picks from
    Policies,  \* the hashring policies the user picks from
    Pauses,    \* the values of .spec.paused the user picks from
    Conditions,\* whether status conditions are written (DisableConditionUpdate)
    Lagging,   \* the object kinds whose informer cache may be behind
    MaxFaults  \* bound: failed calls, foreign status writes and crashes

ASSUME FactorsAssumption   == Factors \subseteq 1 .. MaxReplicas
ASSUME PoliciesAssumption  == Policies \subseteq {"static", "dynamic"}
ASSUME PausesAssumption    == Pauses \subseteq BOOLEAN /\ Conditions \in BOOLEAN
ASSUME LaggingAssumption   == Lagging \subseteq {"StatefulSet", "ConfigMap"}
ASSUME MaxFaultsAssumption == MaxFaults \in Nat

VARIABLES
    spec,       \* ThanosReceive.spec, as the CR cache shows it
    crFresh,    \* a status write with the CR the worker holds is not outdated
    status,     \* ThanosReceive.status.conditions and .paused
    sts,        \* StatefulSet of each ring in the API server: replicas, 0: none
    stsCache,   \* ... and in the informer cache
    ready,      \* ready endpoints in the EndpointSlices of each ring (cached)
    cm,         \* router ConfigMap in the API server
    cmCache,    \* ... and in the informer cache
    routerRF,   \* replication factor the router Deployment runs with; 0: none
    dirty,      \* the work queue holds the resource
    pc,         \* where the worker is in Reconcile
    snap,       \* spec of the object Reconcile was given
    previous,   \* currentHashringState in buildHashringConfig
    seen,       \* fetchedReadyState in buildHashringConfig
    todo,       \* rings whose EndpointSlices are still to be listed
    errCount,   \* some ingester object could not be created or updated
    faults

environment == <<spec, ready>>
objects     == <<sts, stsCache, cm, cmCache, routerRF>>
locals      == <<snap, crFresh, previous, seen, todo, errCount>>
vars == <<spec, crFresh, status, sts, stsCache, ready, cm, cmCache, routerRF,
          dirty, pc, snap, previous, seen, todo, errCount, faults>>

(***************************************************************************)
(* Admission (the XValidation rule of ThanosReceiveSpec): no ring has fewer*)
(* replicas than the replication factor.                                   *)
(***************************************************************************)
Specs == {s \in [rings : Wanted, rf : Factors, policy : Policies, paused : Pauses] :
             \A h \in Rings : s.rings[h] = 0 \/ s.rings[h] >= s.rf}

ConfigMaps == [exists : BOOLEAN, table : Table]
Statuses   == [ready : {"Unknown", "True", "False"}, paused : BOOLEAN]
Stages     == {"idle", "ingesters", "readConfig", "readSlices", "prune",
               "reportOK", "reportError", "reportPaused"}

\* The worker holds no object: it is between two reconciles.
Unread == [rings |-> NoRings, rf |-> 0, policy |-> "static", paused |-> FALSE]

InSpec(s) == {h \in Rings : s.rings[h] > 0}

TypeOK ==
    /\ spec \in Specs
    /\ snap \in Specs \cup {Unread}
    /\ crFresh \in BOOLEAN /\ dirty \in BOOLEAN /\ errCount \in BOOLEAN
    /\ status \in Statuses
    /\ sts \in Wanted /\ stsCache \in Wanted
    /\ ready \in Table /\ previous \in Table /\ seen \in Table
    /\ cm \in ConfigMaps /\ cmCache \in ConfigMaps
    /\ routerRF \in 0 .. MaxReplicas
    /\ pc \in Stages
    /\ pc # "idle" => snap \in Specs
    /\ todo \subseteq Rings
    /\ faults \in 0 .. MaxFaults

\* A resource has just been created and nothing of it exists yet.
Init ==
    /\ spec \in Specs
    /\ snap = Unread
    /\ crFresh = TRUE
    /\ status = [ready |-> "Unknown", paused |-> FALSE]
    /\ sts = NoRings /\ stsCache = NoRings
    /\ ready = NoViews
    /\ cm = [exists |-> FALSE, table |-> NoViews]
    /\ cmCache = cm
    /\ routerRF = 0
    /\ dirty = TRUE
    /\ pc = "idle"
    /\ previous = NoViews /\ seen = NoViews /\ todo = {}
    /\ errCount = FALSE
    /\ faults = 0

-----------------------------------------------------------------------------
(***************************************************************************)
(* The user, the pods and the informer caches.                             *)
(***************************************************************************)

\* The user writes any admissible spec.  The resource gets a new version, so
\* the one the worker may hold is outdated, and its event enqueues it.
EditSpec ==
    /\ spec' \in Specs \ {spec}
    /\ crFresh' = (pc = "idle" \/ ~Conditions)
    /\ dirty' = TRUE
    /\ UNCHANGED <<status, ready, objects, pc, snap, previous, seen, todo, errCount, faults>>

\* Mutant: EndpointSlices are not watched.
SliceEvent_Lost(h) == dirty' = dirty

\* An EndpointSlice event reaches the queue only through the ring's Service,
\* read from its cache: enqueueForEndpointSlice drops it when there is none.
SliceEvent(h) == dirty' = (dirty \/ stsCache[h] > 0)

\* A pod of an existing StatefulSet becomes ready.
PodReady(h) ==
    /\ \E o \in Ordinals \ ready[h] :
         /\ o < sts[h]
         /\ ready' = [ready EXCEPT ![h] = @ \cup {o}]
    /\ SliceEvent(h)
    /\ UNCHANGED <<spec, status, objects, pc, locals, faults>>

\* A pod stops being ready: it fails, is evicted, or is surplus to its
\* StatefulSet and terminates, which takes it any time.
PodUnready(h) ==
    /\ \E o \in ready[h] : ready' = [ready EXCEPT ![h] = @ \ {o}]
    /\ SliceEvent(h)
    /\ UNCHANGED <<spec, status, objects, pc, locals, faults>>

\* Mutant: StatefulSets are not watched.
SyncStatefulSet_Unwatched(h) ==
    /\ stsCache[h] # sts[h]
    /\ stsCache' = [stsCache EXCEPT ![h] = sts[h]]
    /\ UNCHANGED <<environment, status, sts, cm, cmCache, routerRF, dirty, pc, locals, faults>>

\* The caches catch up; the watches the controller Owns enqueue the resource.
SyncStatefulSet(h) ==
    /\ stsCache[h] # sts[h]
    /\ stsCache' = [stsCache EXCEPT ![h] = sts[h]]
    /\ dirty' = TRUE
    /\ UNCHANGED <<environment, status, sts, cm, cmCache, routerRF, pc, locals, faults>>

SyncConfigMap ==
    /\ cmCache # cm
    /\ cmCache' = cm
    /\ dirty' = TRUE
    /\ UNCHANGED <<environment, status, sts, stsCache, cm, routerRF, pc, locals, faults>>

\* Another writer of the status (the ObjectStatus controller) changes the
\* version of the resource while the worker holds it.
ForeignStatusWrite ==
    /\ faults < MaxFaults
    /\ faults' = faults + 1
    /\ Conditions /\ pc # "idle" /\ crFresh
    /\ crFresh' = FALSE
    /\ dirty' = TRUE
    /\ UNCHANGED <<environment, status, objects, pc, snap, previous, seen, todo, errCount>>

-----------------------------------------------------------------------------
(***************************************************************************)
(* What the operator's own writes do to the caches: a lagging cache shows  *)
(* them later (SyncStatefulSet, SyncConfigMap), the others at once, with   *)
(* the watch event that goes with it.                                      *)
(***************************************************************************)
WriteStatefulSets(new) ==
    /\ sts' = new
    /\ stsCache' = IF "StatefulSet" \in Lagging THEN stsCache ELSE new

WriteConfigMap(new) ==
    /\ cm' = new
    /\ cmCache' = IF "ConfigMap" \in Lagging THEN cmCache ELSE new

\* k of the calls of a step fail; a fault budget keeps their number finite.
Fails(k) == faults + k <= MaxFaults /\ faults' = faults + k

Forget ==
    /\ snap' = Unread /\ crFresh' = TRUE
    /\ previous' = NoViews /\ seen' = NoViews /\ todo' = {}
    /\ errCount' = FALSE

(***************************************************************************)
(* updateCondition: the status is written with the version that was read;  *)
(* a conflict or any other error is logged and nothing else.               *)
(***************************************************************************)
updateCondition(new, queued) ==
    \/ /\ ~Conditions /\ Fails(0)
       /\ UNCHANGED status
       /\ dirty' = queued
    \/ /\ Conditions /\ crFresh /\ Fails(0)
       /\ status' = new
       /\ dirty' = (queued \/ status # new)
    \/ /\ Conditions /\ ~crFresh /\ Fails(0)
       /\ UNCHANGED status
       /\ dirty' = queued
    \/ /\ Conditions /\ crFresh /\ Fails(1)
       /\ UNCHANGED status
       /\ dirty' = queued

-----------------------------------------------------------------------------
(***************************************************************************)
(* Reconcile, one action per stretch between two reads or writes.          *)
(***************************************************************************)

\* Mutant: the object is not read.
Reconcile_WithoutGet ==
    /\ pc = "idle" /\ dirty
    /\ dirty' = FALSE
    /\ pc' = "ingesters"
    /\ UNCHANGED <<environment, status, objects, locals, faults>>

\* The worker takes the resource from the queue and reads it.
Reconcile ==
    /\ pc = "idle" /\ dirty
    /\ dirty' = FALSE
    /\ snap' = spec /\ crFresh' = TRUE
    /\ pc' = IF spec.paused THEN "reportPaused" ELSE "ingesters"
    /\ UNCHANGED <<environment, status, objects, previous, seen, todo, errCount, faults>>

\* handler.CreateOrUpdate of each ring's objects, the StatefulSet standing for
\* them all.  A ring whose cached StatefulSet is as wanted is not written; a
\* write fails when the cached object is not the current one (conflict,
\* already exists, not found) or when the call does, and another object of a
\* ring can fail whatever becomes of its StatefulSet.  Failures are counted and
\* the remaining rings are still written.
CreateOrUpdateIngesters ==
    /\ pc = "ingesters"
    /\ LET different == {h \in InSpec(snap) : stsCache[h] # snap.rings[h]}
           conflicts == {h \in different : stsCache[h] # sts[h]}
       IN \E failed \in SUBSET (different \ conflicts), another \in {FALSE, InSpec(snap) # {}} :
            LET written == different \ (conflicts \cup failed)
            IN /\ Fails(IF failed = {} /\ ~another THEN 0 ELSE 1)
               /\ WriteStatefulSets([h \in Rings |->
                      IF h \in written THEN snap.rings[h] ELSE sts[h]])
               /\ dirty' = (dirty \/ (written # {} /\ "StatefulSet" \notin Lagging))
               /\ errCount' = (conflicts \cup failed # {} \/ another)
    /\ pc' = "readConfig"
    /\ UNCHANGED <<environment, crFresh, status, cm, cmCache, routerRF, snap, previous, seen, todo>>

\* buildHashringConfig reads the published configuration from the cache.
ReadHashringConfig ==
    /\ pc = "readConfig"
    /\ previous' = cmCache.table
    /\ todo' = InSpec(snap)
    /\ pc' = "readSlices"
    /\ UNCHANGED <<environment, crFresh, status, objects, dirty, snap, seen, errCount, faults>>

\* ... then lists the EndpointSlices of one ring after the other.
ReadEndpointSlices(h) ==
    /\ pc = "readSlices" /\ h \in todo
    /\ seen' = [seen EXCEPT ![h] = ready[h]]
    /\ todo' = todo \ {h}
    /\ UNCHANGED <<environment, crFresh, status, objects, dirty, pc, snap, previous, errCount, faults>>

\* A read that fails makes syncResources return before the router is written.
ReadFails ==
    /\ pc \in {"readConfig", "readSlices"} /\ Fails(1)
    /\ pc' = "reportError"
    /\ UNCHANGED <<environment, status, objects, dirty, locals>>

\* What buildHashringConfig returns; an empty result is written as "[{}]",
\* which the next reconcile reads back as no hashring.
hashringConfig == Merge(snap.policy, previous, snap.rings, seen, snap.rf)

\* Mutant: cleanup runs whatever failed before it.
afterRouter_PrunesAnyway(failed) == "prune"

\* An error of the router's objects, or an earlier one of an ingester's, ends
\* the reconcile before anything is pruned.
afterRouter(failed) == IF failed \/ errCount THEN "reportError" ELSE "prune"

\* handler.CreateOrUpdate of the router's objects: the Deployment, which runs
\* with the replication factor, and the ConfigMap.  CreateOrUpdate reads the
\* ConfigMap again: equal to the new content it is not written, and the write
\* of an outdated one is refused.
CreateOrUpdateRouter ==
    /\ pc = "readSlices" /\ todo = {}
    /\ LET new      == [exists |-> TRUE, table |-> hashringConfig]
           conflict == cmCache # new /\ cmCache # cm
       IN \E cmFails, deploymentFails \in BOOLEAN :
            LET write == cmCache # new /\ ~conflict /\ ~cmFails
            IN /\ Fails(IF cmFails \/ deploymentFails THEN 1 ELSE 0)
               /\ WriteConfigMap(IF write THEN new ELSE cm)
               /\ dirty' = (dirty \/ (write /\ "ConfigMap" \notin Lagging))
               /\ routerRF' = IF deploymentFails THEN routerRF ELSE snap.rf
               /\ pc' = afterRouter(conflict \/ cmFails \/ deploymentFails)
    /\ UNCHANGED <<environment, status, sts, stsCache, locals>>

\* Mutant: a failed deletion is not an error.
afterCleanup_Lenient(failed) == "reportOK"

afterCleanup(failed) == IF failed THEN "reportError" ELSE "reportOK"

\* The listed StatefulSets of the owner whose name is not to be kept.
orphans == {h \in Rings : stsCache[h] > 0 /\ snap.rings[h] = 0}

\* cleanup deletes them in calls that may fail one by one; deleting what is
\* gone already is no error.
PruneOrphanedResources ==
    /\ pc = "prune"
    /\ \E failed \in SUBSET orphans :
         LET deleted == {h \in orphans \ failed : sts[h] > 0}
         IN /\ Fails(IF failed = {} THEN 0 ELSE 1)
            /\ WriteStatefulSets([h \in Rings |-> IF h \in deleted THEN 0 ELSE sts[h]])
            /\ dirty' = (dirty \/ (deleted # {} /\ "StatefulSet" \notin Lagging))
            /\ pc' = afterCleanup(failed # {})
    /\ UNCHANGED <<environment, status, cm, cmCache, routerRF, locals>>

\* The condition each way through Reconcile ends with; an error puts the
\* resource back on the queue.  status.paused is set and never reset.
Report ==
    /\ \/ /\ pc = "reportOK"
          /\ updateCondition([status EXCEPT !.ready = "True"], dirty)
       \/ /\ pc = "reportError"
          /\ updateCondition([status EXCEPT !.ready = "False"], TRUE)
       \/ /\ pc = "reportPaused"
          /\ updateCondition([status EXCEPT !.paused = TRUE], dirty)
    /\ pc' = "idle"
    /\ Forget
    /\ UNCHANGED <<environment, objects>>

\* The operator dies anywhere in a reconcile; the new process lists every
\* object before it starts and enqueues every resource.
Crash ==
    /\ pc # "idle" /\ Fails(1)
    /\ pc' = "idle" /\ dirty' = TRUE
    /\ stsCache' = sts /\ cmCache' = cm
    /\ Forget
    /\ UNCHANGED <<environment, status, sts, cm, routerRF>>

-----------------------------------------------------------------------------
Worker ==
    \/ Reconcile \/ CreateOrUpdateIngesters \/ ReadHashringConfig
    \/ (\E h \in Rings : ReadEndpointSlices(h))
    \/ CreateOrUpdateRouter \/ PruneOrphanedResources \/ Report

Next ==
    \/ Worker \/ ReadFails \/ Crash
    \/ EditSpec \/ ForeignStatusWrite \/ SyncConfigMap
    \/ \E h \in Rings : PodReady(h) \/ PodUnready(h) \/ SyncStatefulSet(h)

Spec == Init /\ [][Next]_vars

(***************************************************************************)
(* The work queue hands a queued resource to the worker, a worker that runs*)
(* takes its next step, informers deliver what changed, and the StatefulSet*)
(* controller terminates surplus pods.  Nothing makes users edit, pods fail*)
(* or calls go wrong.                                                      *)
(***************************************************************************)
SurplusPodStops(h) ==
    /\ \E o \in ready[h] : o >= sts[h] /\ ready' = [ready EXCEPT ![h] = @ \ {o}]
    /\ PodUnready(h)

Fairness ==
    /\ WF_vars(Worker)
    /\ WF_vars(SyncConfigMap)
    /\ \A h \in Rings : WF_vars(SyncStatefulSet(h)) /\ WF_vars(SurplusPodStops(h))

FairSpec == Spec /\ Fairness

-----------------------------------------------------------------------------
(***************************************************************************)
(* Properties.                                                             *)
(***************************************************************************)

\* A StatefulSet is only ever deleted while no published hashring routes to
\* it, whatever failed or crashed before (thanosreceive_controller.go:208-241
\* writes the router before it prunes and does not prune after an error).
NeverRetireRouted ==
    [][\A h \in Rings : sts[h] > 0 /\ sts'[h] = 0 => cm.table[h] = {}]_vars

\* "if the hashring is having issues, we don't interfere with it"
\* (hashrings.go:192-194): while the endpoints a reconcile has seen do not
\* make up the ring it is to build, the published ring stays what it was.
TroubledRingUntouched ==
    [][\A h \in InSpec(snap) :
          ~ Acceptable(snap.policy, snap.rings[h], seen[h], snap.rf)
            => cm'.table[h] = cm.table[h]]_vars

\* A published ring disappears from the configuration only in a reconcile of
\* a spec that does not name it.
DroppedOnlyWhenRemoved ==
    [][\A h \in Rings : cm.table[h] # {} /\ cm'.table[h] = {} => snap.rings[h] = 0]_vars

\* "the replication factor is met" (hashrings.go:174-175): no published ring
\* has fewer members than the routers replicate to.
ReplicationFactorMet ==
    \A h \in Rings : cm.table[h] # {} => Cardinality(cm.table[h]) >= routerRF

\* Nothing is queued, running or on its way to a cache.
Quiescent == pc = "idle" /\ ~dirty /\ cmCache = cm /\ stsCache = sts

\* No wakeup is lost: whenever the controller rests, another reconcile would
\* change nothing.  Every event that matters must have enqueued the resource.
RestsOnlyWhenSettled ==
    Quiescent /\ ~spec.paused =>
        /\ sts = spec.rings
        /\ routerRF = spec.rf
        /\ cm.exists
        /\ cm.table = Merge(spec.policy, cm.table, spec.rings, ready, spec.rf)

\* "fixed in size based on the input of the IngesterHashringSpec.Replicas
\* field" (thanosreceive_types.go:28-29): from the first publication on, a
\* static ring is rebuilt with exactly the replicas its spec asks for, even
\* while surplus pods of a scale-down are still ready.
StaticRingFixedSize ==
    [][\A h \in InSpec(snap) :
          snap.policy = "static" /\ previous # NoViews /\ cm'.table[h] # cm.table[h]
            => Cardinality(cm'.table[h]) = snap.rings[h]]_vars

\* "When a resource is paused, no actions except for deletion will be
\* performed on the underlying objects" (thanosreceive_types.go:205-206):
\* whoever writes an object holds a spec that was not paused.
PausedHandsOff ==
    [][<<sts, cm, routerRF>>' # <<sts, cm, routerRF>> => pc # "idle" /\ ~snap.paused]_vars

\* Ready turns true only when everything the reconciled spec names is there
\* and nothing it does not name is: a partial failure earlier in the same
\* reconcile, and its continuation past it, must not end in Ready.
ReadyIsEarned ==
    [][status.ready # "True" /\ status'.ready = "True" =>
          /\ sts = snap.rings
          /\ routerRF = snap.rf
          /\ \A h \in Rings : snap.rings[h] = 0 => cm.table[h] = {}]_vars

\* A ring whose members stay ready under a spec that stays is published with
\* exactly these members in the end.
RingConverges ==
    \A h \in Rings : \A n \in 1 .. MaxReplicas :
        <>[](spec.rings[h] = n /\ ~spec.paused /\ ready[h] = 0 .. n - 1)
            => <>[](cm.table[h] = 0 .. n - 1)

\* A ring that stays out of the spec is withdrawn and its workload deleted.
RemovedRingGoes ==
    \A h \in Rings :
        <>[](spec.rings[h] = 0 /\ ~spec.paused) => <>[](cm.table[h] = {} /\ sts[h] = 0)

(***************************************************************************)
(* What the worker knows while it runs: about the routers as long as the   *)
(* ConfigMap cache does not lag, about the ingesters as long as the        *)
(* StatefulSet cache does not.  These facts make the properties above      *)
(* inductive.                                                              *)
(***************************************************************************)

\* The configuration read is the one that will be overwritten.
ReadIsCurrent == pc = "readSlices" => previous = cm.table

\* Past the router without an error, no ring outside the spec is published.
RouterApplied ==
    pc \in {"prune", "reportOK"} => \A h \in Rings : snap.rings[h] = 0 => cm.table[h] = {}

RoutersKnown == cmCache = cm /\ ReadIsCurrent /\ RouterApplied

\* Past the ingesters without an error, every StatefulSet is as the spec says.
IngestersApplied ==
    \/ pc \in {"readConfig", "readSlices"} /\ ~errCount
    \/ pc \in {"prune", "reportOK"}
    => \A h \in InSpec(snap) : sts[h] = snap.rings[h]

Pruned == pc = "reportOK" => sts = snap.rings

IngestersKnown == stsCache = sts /\ IngestersApplied /\ Pruned

(***************************************************************************)
(* What the controller promises, as RoutingTable states it.                *)
(***************************************************************************)
Promise == INSTANCE RoutingTable WITH
    wanted  <- spec.rings,
    busy    <- pc # "idle",
    plan    <- snap.rings,
    table   <- cm.table,
    running <- {h \in Rings : sts[h] > 0}

\* The controller keeps the promise, as long as its ConfigMap cache does not lag.
KeepsPromise == Promise!Spec
=============================================================================
