----------------------------- MODULE VolumeResize -----------------------------
(***************************************************************************)
(* The volume resize controller                                            *)
(* (internal/controller/volume_resize_controller.go) next to a controller  *)
(* that owns the StatefulSet it works on.  Claim templates of a StatefulSet*)
(* cannot be changed, so the size a user asks for travels in an annotation:*)
(* the owner writes it, the resize controller expands the claims and       *)
(* deletes the StatefulSet, leaving its pods, and the owner creates it     *)
(* again with the new template.  Each of the two has a queue and a worker. *)
(*                                                                         *)
(* The owner is one instance of ThanosCompact or ThanosStore, as           *)
(* ShardedWorkloads has it, reduced to what the two have in common with    *)
(* this controller: the StatefulSet is created, annotated or pruned.       *)
(***************************************************************************)
EXTENDS Integers, FiniteSets

CONSTANTS
    Pods,       \* the ordinals of the StatefulSet's pods
    MaxSize,    \* bound: the largest storage size asked for
    Pauses,     \* the values of .spec.paused the user picks from
    MaxFaults   \* bound: failed calls and crashes

ASSUME MaxSizeAssumption   == MaxSize \in Nat \ {0}
ASSUME PausesAssumption    == Pauses \subseteq BOOLEAN /\ Pauses # {}
ASSUME MaxFaultsAssumption == MaxFaults \in Nat

VARIABLES
    spec,         \* the owner's resource: is the instance named, size, paused
    sts,          \* the StatefulSet: annotated size and size in its template
    claims,       \* requested size of each pod's claim, 0: no claim
    claimsCache,  \* ... and in the informer cache, which may be behind
    running,      \* the pods there are
    doomed,       \* ... those the garbage collector is to stop
    ownerDirty,   \* the owner's queue holds the resource
    ownerHas,     \* the resource the owner's worker was given, or Nothing
    dirty,        \* the resize queue holds the StatefulSet
    pc,           \* where the resize worker is
    requested,    \* the annotation of the StatefulSet it was given
    todo,         \* the claims it has found too small and not patched yet
    errCount,     \* a claim could not be processed
    needsRecreation,
    faults

owner  == <<ownerDirty, ownerHas>>
worker == <<pc, requested, todo, errCount, needsRecreation>>
vars   == <<spec, sts, claims, claimsCache, running, doomed, owner, dirty, worker, faults>>

Sizes     == 1 .. MaxSize
Resources == [named : BOOLEAN, size : Sizes, paused : Pauses]
Nothing   == [named |-> FALSE, size |-> 0, paused |-> FALSE]
Missing   == [annotation |-> 0, template |-> 0]
Claims    == [Pods -> 0 .. MaxSize]
NoClaims  == [o \in Pods |-> 0]

exists == sts # Missing

TypeOK ==
    /\ spec \in Resources
    /\ sts \in [annotation : Sizes, template : Sizes] \cup {Missing}
    /\ claims \in Claims /\ claimsCache \in Claims
    /\ doomed \subseteq running /\ running \subseteq Pods
    /\ \A o \in running : claims[o] > 0
    /\ ownerDirty \in BOOLEAN /\ dirty \in BOOLEAN
    /\ ownerHas \in Resources \cup {Nothing}
    /\ pc \in {"idle", "list", "process"}
    /\ requested \in 0 .. MaxSize
    /\ pc # "idle" => requested \in Sizes
    /\ todo \subseteq Pods /\ (todo # {} => pc = "process")
    /\ errCount \in BOOLEAN /\ needsRecreation \in BOOLEAN
    /\ faults \in 0 .. MaxFaults

Init ==
    /\ spec \in Resources
    /\ sts = Missing
    /\ claims = NoClaims /\ claimsCache = NoClaims
    /\ running = {} /\ doomed = {}
    /\ ownerDirty = TRUE /\ ownerHas = Nothing
    /\ dirty = FALSE /\ pc = "idle" /\ requested = 0 /\ todo = {}
    /\ errCount = FALSE /\ needsRecreation = FALSE
    /\ faults = 0

Fails(k) == faults + k <= MaxFaults /\ faults' = faults + k

-----------------------------------------------------------------------------
(***************************************************************************)
(* The user, the StatefulSet controller, the garbage collector, the caches.*)
(***************************************************************************)
EditSpec ==
    /\ spec' \in Resources \ {spec}
    /\ ownerDirty' = TRUE
    /\ UNCHANGED <<sts, claims, claimsCache, running, doomed, ownerHas, dirty, worker, faults>>

\* A pod is started, on its old claim or on a new one of the template's size;
\* the StatefulSet's status changes, which is an event for both controllers.
PodStarts(o) ==
    /\ exists /\ o \notin running
    /\ running' = running \cup {o}
    /\ claims' = [claims EXCEPT ![o] = IF @ = 0 THEN sts.template ELSE @]
    /\ claimsCache' \in {claimsCache, claims'}
    /\ dirty' = TRUE /\ ownerDirty' = TRUE
    /\ UNCHANGED <<spec, sts, doomed, ownerHas, worker, faults>>

PodStops(o) ==
    /\ o \in running
    /\ running' = running \ {o} /\ doomed' = doomed \ {o}
    /\ dirty' = (dirty \/ exists) /\ ownerDirty' = (ownerDirty \/ exists)
    /\ UNCHANGED <<spec, sts, claims, claimsCache, ownerHas, worker, faults>>

\* Claims are not watched: the cache catches up and nobody is told.
SyncClaims ==
    /\ claimsCache # claims
    /\ claimsCache' = claims
    /\ UNCHANGED <<spec, sts, claims, running, doomed, owner, dirty, worker, faults>>

-----------------------------------------------------------------------------
(***************************************************************************)
(* The owner.                                                              *)
(***************************************************************************)
OwnerReconcile ==
    /\ ownerDirty /\ ownerHas = Nothing
    /\ ownerDirty' = FALSE
    /\ ownerHas' = IF spec.paused THEN Nothing ELSE spec
    /\ UNCHANGED <<spec, sts, claims, claimsCache, running, doomed, dirty, worker, faults>>

\* Mutant: of the annotations that are merged those of the existing object win.
created_KeepsAnnotations(resource) ==
    IF exists THEN sts ELSE [annotation |-> resource.size, template |-> resource.size]

\* mutateStatefulSet leaves the claim templates of an existing StatefulSet
\* alone; its annotations are merged before.
created(resource) ==
    IF exists THEN [sts EXCEPT !.annotation = resource.size]
              ELSE [annotation |-> resource.size, template |-> resource.size]

\* The StatefulSet is created, annotated, or pruned with its pods; a failed
\* call requeues the resource.
OwnerWrites ==
    /\ ownerHas # Nothing
    /\ ownerHas' = Nothing
    /\ \/ /\ ownerHas.named
          /\ sts' = created(ownerHas)
          /\ UNCHANGED doomed /\ Fails(0)
       \/ /\ ~ownerHas.named
          /\ sts' = Missing
          /\ doomed' = IF exists THEN running ELSE doomed
          /\ Fails(0)
       \/ UNCHANGED <<sts, doomed>> /\ Fails(1)
    /\ ownerDirty' = (ownerDirty \/ sts' # sts \/ faults' # faults)
    /\ dirty' = (dirty \/ sts' # sts)
    /\ UNCHANGED <<spec, claims, claimsCache, running, worker>>

-----------------------------------------------------------------------------
(***************************************************************************)
(* The resize controller.                                                  *)
(***************************************************************************)
Idle ==
    /\ pc' = "idle" /\ requested' = 0 /\ todo' = {}
    /\ errCount' = FALSE /\ needsRecreation' = FALSE

\* Mutant: a StatefulSet that is gone is worked on as if it were there.
Reconcile_IgnoresNotFound ==
    /\ pc = "idle" /\ dirty
    /\ dirty' = FALSE
    /\ pc' = "list" /\ requested' = sts.annotation
    /\ UNCHANGED <<spec, sts, claims, claimsCache, running, doomed, owner,
                   todo, errCount, needsRecreation, faults>>

\* The worker takes the StatefulSet from the queue; one that is gone is ignored.
Reconcile ==
    /\ pc = "idle" /\ dirty
    /\ dirty' = FALSE
    /\ \/ exists /\ pc' = "list" /\ requested' = sts.annotation
       \/ ~exists /\ UNCHANGED <<pc, requested>>
    /\ UNCHANGED <<spec, sts, claims, claimsCache, running, doomed, owner,
                   todo, errCount, needsRecreation, faults>>

\* The claims that are listed and smaller than requested; processPVC passes
\* over the others.
tooSmall == {o \in Pods : claimsCache[o] > 0 /\ requested > claimsCache[o]}

\* Mutant: a list that failed is taken for an empty one.
ListClaims_IgnoresError ==
    /\ pc = "list"
    /\ pc' = "process"
    /\ \/ Fails(0) /\ todo' = tooSmall
       \/ Fails(1) /\ todo' = {}
    /\ UNCHANGED <<dirty, requested, errCount, needsRecreation>>
    /\ UNCHANGED <<spec, sts, claims, claimsCache, running, doomed, owner>>

\* processPVCs lists the claims of the instance.
ListClaims ==
    /\ pc = "list"
    /\ \/ /\ Fails(0)
          /\ pc' = "process"
          /\ todo' = tooSmall
          /\ UNCHANGED <<dirty, requested, errCount, needsRecreation>>
       \/ Fails(1) /\ Idle /\ dirty' = TRUE
    /\ UNCHANGED <<spec, sts, claims, claimsCache, running, doomed, owner>>

\* Mutant: a claim that could not be patched is only logged.
countError_Not == errCount

countError == TRUE

\* processPVC: a claim smaller than requested is patched.  The API server
\* refuses to shrink a claim, which an outdated list can lead to; errors are
\* counted and the other claims are still processed.
processPVC(o) ==
    /\ pc = "process" /\ o \in todo
    /\ todo' = todo \ {o}
    /\ \/ /\ requested >= claims[o] /\ Fails(0)
          /\ claims' = [claims EXCEPT ![o] = requested]
          /\ needsRecreation' = TRUE
          /\ UNCHANGED errCount
       \/ /\ Fails(IF requested < claims[o] THEN 0 ELSE 1)
          /\ errCount' = countError
          /\ UNCHANGED <<claims, needsRecreation>>
    /\ claimsCache' \in {claimsCache, claims'}
    /\ UNCHANGED <<spec, sts, running, doomed, owner, dirty, pc, requested>>

\* Mutant: the owner does not watch its StatefulSets.
wakesOwner_Not == FALSE

\* The deletion of a StatefulSet is an event for the controller that owns it.
wakesOwner == exists

\* After the last claim: an error requeues; otherwise, if a claim was resized,
\* the StatefulSet is deleted and its pods stay.  Deleting one that is gone is
\* no error.
orphanAndDeleteStatefulSet ==
    /\ pc = "process" /\ todo = {}
    /\ \/ /\ errCount /\ Fails(0)
          /\ dirty' = TRUE
          /\ UNCHANGED <<sts, doomed, ownerDirty>>
       \/ /\ ~errCount /\ ~needsRecreation /\ Fails(0)
          /\ UNCHANGED <<sts, doomed, dirty, ownerDirty>>
       \/ /\ ~errCount /\ needsRecreation /\ Fails(0)
          /\ sts' = Missing /\ UNCHANGED doomed
          /\ dirty' = (dirty \/ exists) /\ ownerDirty' = (ownerDirty \/ wakesOwner)
       \/ /\ ~errCount /\ needsRecreation /\ Fails(1)
          /\ dirty' = TRUE
          /\ UNCHANGED <<sts, doomed, ownerDirty>>
    /\ Idle
    /\ UNCHANGED <<spec, claims, claimsCache, running, ownerHas>>

\* The operator restarts: empty workers, current caches, full queues.
Crash ==
    /\ pc # "idle" \/ ownerHas # Nothing
    /\ Fails(1)
    /\ Idle /\ ownerHas' = Nothing
    /\ dirty' = exists /\ ownerDirty' = TRUE
    /\ claimsCache' = claims
    /\ UNCHANGED <<spec, sts, claims, running, doomed>>

-----------------------------------------------------------------------------
Owner  == OwnerReconcile \/ OwnerWrites
Resize == \/ Reconcile \/ ListClaims \/ orphanAndDeleteStatefulSet
          \/ \E o \in Pods : processPVC(o)

Next ==
    \/ Owner \/ Resize \/ Crash \/ EditSpec \/ SyncClaims
    \/ \E o \in Pods : PodStarts(o) \/ PodStops(o)

Spec == Init /\ [][Next]_vars

DoomedStops(o) == o \in doomed /\ PodStops(o)

\* Both workers go on, informers deliver, the StatefulSet controller starts
\* pods and the garbage collector stops those of deleted StatefulSets.
FairSpec ==
    /\ Spec
    /\ WF_vars(Owner) /\ WF_vars(Resize) /\ WF_vars(SyncClaims)
    /\ \A o \in Pods : WF_vars(PodStarts(o)) /\ WF_vars(DoomedStops(o))

-----------------------------------------------------------------------------
OwnerRests  == ~ownerDirty /\ ownerHas = Nothing
ResizeRests == ~dirty /\ pc = "idle"

\* The resize controller deletes by name whatever StatefulSet is there by then,
\* also one that its owner has just created or annotated.  Whoever's call came
\* last, the owner has nothing left to do only when the StatefulSet is there with
\* the size asked for, or is gone if the instance is no longer named
\* (volume_resize_controller.go:223, thanoscompact_controller.go:139-147).
RestsOnlyWhenReturned ==
    OwnerRests /\ ~spec.paused =>
        IF spec.named THEN sts.annotation = spec.size ELSE sts = Missing

\* No claim is forgotten: the resize controller has nothing left to do only when
\* every claim is as large as the annotation says, also those of pods started in
\* the middle of a pass and those whose expansion failed; provided the claims
\* listed are never outdated (volume_resize_controller.go:120-160).
RestsOnlyWhenExpanded ==
    [](claimsCache = claims) =>
        [](ResizeRests => \A o \in Pods : claims[o] > 0 => claims[o] >= sts.annotation)

Asked(size) == spec = [named |-> TRUE, size |-> size, paused |-> FALSE]

\* The two controllers do not undo each other's work for ever: while the spec
\* names the instance, resizing deletes its StatefulSet only so often and the
\* owner always brings it back, with the size asked for in its annotation,
\* whatever calls fail and however old the claims listed are
\* (volume_resize_controller.go:152, thanoscompact_controller.go:144).
StatefulSetReturns ==
    \A size \in Sizes : <>[]Asked(size) => <>[](sts.annotation = size)

\* "Automatically expands persistent volumes when you increase storage sizes in
\* Thanos custom resources" (gated-features.md:71), also the volumes of pods
\* that start later from an outdated template, and after failed calls and
\* crashes; provided the claims listed are never outdated, because nothing wakes
\* the controller when they were (volume_resize_controller.go:127).
VolumesFollow ==
    [](claimsCache = claims) =>
        \A size \in Sizes :
            <>[]Asked(size) => <>[](\A o \in running : claims[o] >= size)

\* "we want to make sure we clean up any resources that are no longer needed"
\* (thanoscompact_controller.go:154): when the instance stays out of the spec
\* its pods stop.
RemovedStops ==
    <>[](~spec.named /\ ~spec.paused) => <>[](running = {})
===============================================================================
