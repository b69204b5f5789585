--------------------------- MODULE ShardedWorkloads ---------------------------
(***************************************************************************)
(* The reconcilers of ThanosCompact and ThanosStore, which spread a        *)
(* resource over one StatefulSet per shard.  Both prune the instances the  *)
(* spec no longer names and create or update the others, compact in this   *)
(* order, store in the opposite one.  A behaviour is about one resource,   *)
(* of either kind; a StatefulSet stands for the objects of its instance.   *)
(***************************************************************************)
EXTENDS Shards

CONSTANTS
    Kinds,       \* the kinds of resource considered
    Shardings,   \* the shardings users give to a ThanosCompact
    ShardCounts, \* the numbers of shards users give to a ThanosStore
    Pauses,      \* the values of .spec.paused the user picks from
    CacheLags,   \* whether the StatefulSet cache may be behind the API server
    MaxFaults    \* bound: failed calls and crashes

ASSUME KindsAssumption == Kinds \subseteq {"compact", "store"}
ASSUME ShardingsAssumption ==
    \A s \in Shardings : /\ DOMAIN s \subseteq ShardNames
                         /\ \A i \in DOMAIN s : s[i] \subseteq SUBSET Blocks
ASSUME ShardCountsAssumption == ShardCounts \subseteq 0 .. MaxShards
ASSUME FlagsAssumption == Pauses \subseteq BOOLEAN /\ CacheLags \in BOOLEAN
ASSUME FaultsAssumption == MaxFaults \in Nat

VARIABLES
    kind,      \* which of the two reconcilers this is; never changes
    spec,      \* the resource: the layout it asks for, and .spec.paused
    status,    \* its conditions: Ready, and whether Paused was ever set
    sts,       \* the StatefulSets in the API server, as a layout
    stsCache,  \* ... and in the informer cache
    dirty,     \* the work queue holds the resource
    pc,        \* where the worker is in Reconcile
    snap,      \* the resource Reconcile was given
    todo,      \* the instances still to be created or updated
    errCount,  \* some object could not be created or updated
    faults

vars == <<kind, spec, status, sts, stsCache, dirty, pc, snap, todo, errCount, faults>>

specToOptions(k) ==
    IF k = "compact" THEN {compactOptions(s) : s \in Shardings}
                     ELSE {storeOptions(n) : n \in ShardCounts}

Resources(k) == [layout : specToOptions(k), paused : Pauses]
Nothing      == [i \in Instances |-> Absent]
Unread       == [layout |-> Nothing, paused |-> FALSE]
Statuses     == [ready : {"Unknown", "True", "False"}, paused : BOOLEAN]
Stages       == {"idle", "prune", "write", "reportOK", "reportError", "reportPaused"}

TypeOK ==
    /\ kind \in Kinds
    /\ spec \in Resources(kind)
    /\ status \in Statuses
    /\ sts \in Layout /\ stsCache \in Layout
    /\ dirty \in BOOLEAN /\ errCount \in BOOLEAN
    /\ pc \in Stages
    /\ IF pc = "idle" THEN snap = Unread ELSE snap \in Resources(kind)
    /\ todo \subseteq Named(snap.layout)
    /\ faults \in 0 .. MaxFaults

Init ==
    /\ kind \in Kinds
    /\ spec \in Resources(kind)
    /\ status = [ready |-> "Unknown", paused |-> FALSE]
    /\ sts = Nothing /\ stsCache = Nothing
    /\ dirty = TRUE
    /\ pc = "idle" /\ snap = Unread /\ todo = {} /\ errCount = FALSE
    /\ faults = 0

-----------------------------------------------------------------------------
\* The user writes another spec; its event enqueues the resource.
EditSpec ==
    /\ spec' \in Resources(kind) \ {spec}
    /\ dirty' = TRUE
    /\ UNCHANGED <<kind, status, sts, stsCache, pc, snap, todo, errCount, faults>>

\* Mutant: the controller does not watch the StatefulSets it owns.
SyncStatefulSet_Unwatched(i) ==
    /\ stsCache[i] # sts[i]
    /\ stsCache' = [stsCache EXCEPT ![i] = sts[i]]
    /\ UNCHANGED <<kind, spec, status, sts, dirty, pc, snap, todo, errCount, faults>>

\* The cache catches up; the event of an owned object enqueues its owner.
SyncStatefulSet(i) ==
    /\ stsCache[i] # sts[i]
    /\ stsCache' = [stsCache EXCEPT ![i] = sts[i]]
    /\ dirty' = TRUE
    /\ UNCHANGED <<kind, spec, status, sts, pc, snap, todo, errCount, faults>>

-----------------------------------------------------------------------------
\* k of the calls of a step fail.
Fails(k) == faults + k <= MaxFaults /\ faults' = faults + k

\* The operator's own writes and the watch events that follow them.
WriteStatefulSets(new) ==
    /\ sts' = new
    /\ stsCache' = IF CacheLags THEN stsCache ELSE new
    /\ dirty' = (dirty \/ (new # sts /\ ~CacheLags))

\* Mutant: compact writes before it prunes.
syncResources_WritesFirst(layout) ==
    /\ pc' = "write"
    /\ todo' = Named(layout)
    /\ errCount' = FALSE

\* Where Reconcile goes when it is not paused: compact prunes first, "as we
\* don't want multiple compactor instances potentially compacting the same
\* data"; store writes first.
syncResources(layout) ==
    /\ pc' = IF kind = "compact" THEN "prune" ELSE "write"
    /\ todo' = Named(layout)
    /\ errCount' = FALSE

\* Mutant: the instances are taken from a spec that was not read.
Reconcile_WithoutGet ==
    /\ pc = "idle" /\ dirty
    /\ dirty' = FALSE
    /\ IF spec.paused THEN pc' = "reportPaused" /\ UNCHANGED <<todo, errCount>>
                      ELSE syncResources(spec.layout)
    /\ UNCHANGED <<kind, spec, status, sts, stsCache, snap, faults>>

\* The worker takes the resource from the queue and reads it.
Reconcile ==
    /\ pc = "idle" /\ dirty
    /\ dirty' = FALSE
    /\ snap' = spec
    /\ IF spec.paused THEN pc' = "reportPaused" /\ UNCHANGED <<todo, errCount>>
                      ELSE syncResources(spec.layout)
    /\ UNCHANGED <<kind, spec, status, sts, stsCache, faults>>

\* Mutant: an instance that could not be deleted is not an error.
afterPrune_Lenient(failed) == IF kind = "compact" THEN "write" ELSE "reportOK"

afterPrune(failed) ==
    IF failed THEN "reportError"
    ELSE IF kind = "compact" THEN "write" ELSE "reportOK"

\* The owner's StatefulSets in the cache whose name is not expected.
orphans == Named(stsCache) \ Named(snap.layout)

\* Each orphan is deleted in a call that may fail, as may a call for another
\* kind of object; the remaining calls are made all the same.
pruneOrphanedResources ==
    /\ pc = "prune"
    /\ \E failed \in SUBSET (orphans \cap Named(sts)), another \in BOOLEAN :
         LET errors == failed # {} \/ another
         IN /\ Fails(IF errors THEN 1 ELSE 0)
            /\ WriteStatefulSets([i \in Instances |->
                   IF i \in orphans \ failed THEN Absent ELSE sts[i]])
            /\ pc' = afterPrune(errors)
    /\ UNCHANGED <<kind, spec, status, snap, todo, errCount>>

\* Store writes its shards by index, compact in the order of the user's list.
IsNext(i) == kind = "store" => \A j \in todo : i <= j

\* Mutant: store prunes whatever could not be written.
afterWrites_PrunesAnyway(errors) == IF kind = "store" THEN "prune" ELSE "reportOK"

\* After the last instance: an error ends the reconcile, store prunes.
afterWrites(errors) ==
    IF errors THEN "reportError" ELSE IF kind = "store" THEN "prune" ELSE "reportOK"

\* Mutant: the errors of the instances are not added up.
CreateOrUpdate_ForgetsErrors(i) ==
    /\ pc = "write" /\ i \in todo /\ IsNext(i)
    /\ todo' = todo \ {i}
    /\ LET desired  == snap.layout[i]
           conflict == stsCache[i] # desired /\ stsCache[i] # sts[i]
       IN \E failed, another \in BOOLEAN :
            /\ Fails(IF failed \/ another THEN 1 ELSE 0)
            /\ WriteStatefulSets(IF stsCache[i] = desired \/ conflict \/ failed
                                   THEN sts ELSE [sts EXCEPT ![i] = desired])
            /\ errCount' = (conflict \/ failed \/ another)
            /\ pc' = IF todo' = {} THEN afterWrites(errCount') ELSE "write"
    /\ UNCHANGED <<kind, spec, status, snap>>

\* handler.CreateOrUpdate of one instance: nothing to do when the cached object
\* is as wanted; otherwise a write, which is refused when the cached object is
\* not the current one.  Errors, also those of the instance's other objects,
\* are counted and the loop goes on.
CreateOrUpdate(i) ==
    /\ pc = "write" /\ i \in todo /\ IsNext(i)
    /\ todo' = todo \ {i}
    /\ LET desired  == snap.layout[i]
           conflict == stsCache[i] # desired /\ stsCache[i] # sts[i]
       IN \E failed, another \in BOOLEAN :
            /\ Fails(IF failed \/ another THEN 1 ELSE 0)
            /\ WriteStatefulSets(IF stsCache[i] = desired \/ conflict \/ failed
                                   THEN sts ELSE [sts EXCEPT ![i] = desired])
            /\ errCount' = (errCount \/ conflict \/ failed \/ another)
            /\ pc' = IF todo' = {} THEN afterWrites(errCount') ELSE "write"
    /\ UNCHANGED <<kind, spec, status, snap>>

Forget == snap' = Unread /\ todo' = {} /\ errCount' = FALSE

\* updateCondition: a status that cannot be written, because of a conflict or
\* otherwise, is logged and left; a written change is an event.
updateCondition(new, queued) ==
    \/ status' = new /\ dirty' = (queued \/ status # new)
    \/ UNCHANGED status /\ dirty' = queued

\* Mutant: an error is reported but not returned.
Report_Swallows ==
    /\ \/ pc = "reportOK" /\ updateCondition([status EXCEPT !.ready = "True"], dirty)
       \/ pc = "reportError" /\ updateCondition([status EXCEPT !.ready = "False"], dirty)
       \/ pc = "reportPaused" /\ updateCondition([status EXCEPT !.paused = TRUE], dirty)
    /\ pc' = "idle"
    /\ Forget
    /\ UNCHANGED <<kind, spec, sts, stsCache, faults>>

\* The end of Reconcile; an error that is returned requeues the resource.
Report ==
    /\ \/ pc = "reportOK" /\ updateCondition([status EXCEPT !.ready = "True"], dirty)
       \/ pc = "reportError" /\ updateCondition([status EXCEPT !.ready = "False"], TRUE)
       \/ pc = "reportPaused" /\ updateCondition([status EXCEPT !.paused = TRUE], dirty)
    /\ pc' = "idle"
    /\ Forget
    /\ UNCHANGED <<kind, spec, sts, stsCache, faults>>

\* The operator restarts: current caches, every resource queued.
Crash ==
    /\ pc # "idle" /\ Fails(1)
    /\ pc' = "idle" /\ dirty' = TRUE
    /\ stsCache' = sts
    /\ Forget
    /\ UNCHANGED <<kind, spec, status, sts>>

-----------------------------------------------------------------------------
Worker ==
    \/ Reconcile \/ pruneOrphanedResources \/ Report
    \/ \E i \in Instances : CreateOrUpdate(i)

Next ==
    \/ Worker \/ Crash \/ EditSpec
    \/ \E i \in Instances : SyncStatefulSet(i)

Spec == Init /\ [][Next]_vars

\* The queue hands out what it holds, a running worker goes on, and informers
\* deliver.  Nothing makes users edit or calls fail.
FairSpec ==
    /\ Spec
    /\ WF_vars(Worker)
    /\ \A i \in Instances : WF_vars(SyncStatefulSet(i))

-----------------------------------------------------------------------------
Fits(some, layout) == Named(some) \subseteq Named(layout)

\* Compact never mixes two layouts: after any failure or crash the shards there
\* are belong to one layout the user has asked for, because nothing is written
\* before every orphan is gone (thanoscompact_controller.go:154-165).  This,
\* OneStatefulSetPerBlock, OldStaysUntilNew and ReadyIsEarned suppose that the
\* StatefulSet cache is current: each of them fails with one that lags.
FitsOneLayout ==
    kind = "compact" => \E layout \in specToOptions(kind) : Fits(sts, layout)

\* "we don't want multiple compactor instances potentially compacting the same
\* data" (thanoscompact_controller.go:155).
OneStatefulSetPerBlock == kind = "compact" => Disjoint(sts)

(***************************************************************************)
(* What the worker knows while it runs, when the cache does not lag.       *)
(***************************************************************************)
CacheCurrent == stsCache = sts

\* Compact writes when every orphan is gone, and has all its writes to do.
OrphansGone ==
    kind = "compact" =>
        /\ pc = "prune" => todo = Named(snap.layout)
        /\ pc = "write" => Fits(sts, snap.layout)

\* What is not to be written any more and did not fail is as the spec says.
WrittenAsAsked ==
    pc = "write" /\ ~errCount =>
        \A i \in Named(snap.layout) \ todo : sts[i] = snap.layout[i]

\* Store prunes when every instance is as the spec says.
AllWritten ==
    kind = "store" /\ pc = "prune" =>
        \A i \in Named(snap.layout) : sts[i] = snap.layout[i]

Done == pc = "reportOK" => sts = snap.layout

\* Between its calls the worker relies on what its earlier calls have done
\* (thanoscompact_controller.go:149-183, thanosstore_controller.go:138-176).
WorkerKnows == CacheCurrent /\ OrphansGone /\ WrittenAsAsked /\ AllWritten /\ Done

\* Store takes nothing of an old layout away before every shard of the new one
\* is in place (thanosstore_controller.go:143-156): an interrupted change, or
\* one in which a shard cannot be written, leaves the old stores serving.
OldStaysUntilNew ==
    [][kind = "store" /\ ~ (Named(sts) \subseteq Named(sts'))
        => \A i \in Named(snap.layout) : sts[i] = snap.layout[i]]_vars

\* Ready turns true only when exactly the instances of the reconciled spec are
\* there, whichever call failed on the way and was only counted.
ReadyIsEarned ==
    [][status.ready # "True" /\ status'.ready = "True" => sts = snap.layout]_vars

\* No wakeup is lost: a controller at rest has done what the spec says.
RestsOnlyWhenSettled ==
    pc = "idle" /\ ~dirty /\ stsCache = sts /\ ~spec.paused => sts = spec.layout

\* A spec that stays is carried out.
Converges ==
    \A layout \in specToOptions("compact") \cup specToOptions("store") :
        <>[](spec = [layout |-> layout, paused |-> FALSE]) => <>[](sts = layout)
===============================================================================
