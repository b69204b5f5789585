-------------------------- MODULE VolumeResizeProofs --------------------------
(***************************************************************************)
(* Theorems about VolumeResize, for any number of pods, sizes and faults   *)
(* and with outdated claims.                                               *)
(***************************************************************************)
EXTENDS VolumeResize, TLAPS

\* What is counted as a fault stays within the bound.
LEMMA FaultsType ==
    ASSUME TypeOK, NEW k \in {0, 1}, Fails(k)
    PROVE  faults' \in 0 .. MaxFaults
BY MaxFaultsAssumption DEF TypeOK, Fails

\* The pods and their claims: steps of the StatefulSet controller.
LEMMA PodStartsType ==
    ASSUME TypeOK, NEW o \in Pods, PodStarts(o)
    PROVE  TypeOK'
<1>1. claims' \in Claims /\ \A p \in running' : claims'[p] > 0
  <2>1. sts.template \in 1 .. MaxSize
    BY DEF TypeOK, PodStarts, exists, Sizes
  <2> QED BY <2>1, MaxSizeAssumption DEF TypeOK, PodStarts, Claims
<1>2. claimsCache' \in Claims
  BY <1>1 DEF TypeOK, PodStarts
<1> QED BY <1>1, <1>2 DEF TypeOK, PodStarts, worker

\* The owner's write.
LEMMA OwnerWritesType ==
    ASSUME TypeOK, OwnerWrites
    PROVE  TypeOK'
<1>1. ownerHas \in Resources
  BY DEF TypeOK, OwnerWrites
<1>2. sts' \in [annotation : Sizes, template : Sizes] \cup {Missing}
  <2>1. created(ownerHas) \in [annotation : Sizes, template : Sizes]
    BY <1>1 DEF TypeOK, created, exists, Resources
  <2> QED BY <2>1 DEF TypeOK, OwnerWrites
<1>3. doomed' \subseteq running
  BY DEF TypeOK, OwnerWrites
<1>4. faults' \in 0 .. MaxFaults
  BY FaultsType DEF OwnerWrites
<1> QED BY <1>2, <1>3, <1>4 DEF TypeOK, OwnerWrites, worker

\* A claim that is patched gets a size that can be asked for.
LEMMA ProcessType ==
    ASSUME TypeOK, NEW o \in Pods, processPVC(o)
    PROVE  TypeOK'
<1>1. requested \in 1 .. MaxSize
  BY DEF TypeOK, processPVC, Sizes
<1>2. claims' \in Claims /\ \A p \in running' : claims'[p] > 0
  BY <1>1, MaxSizeAssumption DEF TypeOK, processPVC, Claims
<1>3. claimsCache' \in Claims
  BY <1>2 DEF TypeOK, processPVC
<1>4. faults' \in 0 .. MaxFaults
  BY FaultsType DEF processPVC
<1> QED BY <1>1, <1>2, <1>3, <1>4
        DEF TypeOK, processPVC, countError, owner, Sizes

\* The end of a pass and a crash forget what the worker knew.
LEMMA IdleType ==
    ASSUME Idle
    PROVE  /\ pc' = "idle" /\ requested' \in 0 .. MaxSize /\ todo' = {}
           /\ errCount' \in BOOLEAN /\ needsRecreation' \in BOOLEAN
<1>1. 0 \in 0 .. MaxSize
  BY MaxSizeAssumption
<1> QED BY <1>1 DEF Idle

\* Every value keeps its type; in particular a pod that runs has a claim, and
\* the resize worker never works on a StatefulSet without an annotation.
THEOREM VolumeTypeCorrect == Spec => []TypeOK
<1>1. Init => TypeOK
  <2>1. 0 \in 0 .. MaxSize /\ 0 \in 0 .. MaxFaults
    BY MaxSizeAssumption, MaxFaultsAssumption
  <2>2. NoClaims \in Claims
    BY <2>1 DEF NoClaims, Claims
  <2> QED BY <2>1, <2>2 DEF Init, TypeOK
<1>2. TypeOK /\ [Next]_vars => TypeOK'
  <2> SUFFICES ASSUME TypeOK, [Next]_vars PROVE TypeOK'
    OBVIOUS
  <2>1. CASE UNCHANGED vars
    BY <2>1 DEF TypeOK, vars, owner, worker
  <2>2. CASE EditSpec
    BY <2>2 DEF TypeOK, EditSpec, worker
  <2>3. ASSUME NEW o \in Pods, PodStarts(o) PROVE TypeOK'
    BY <2>3, PodStartsType
  <2>4. ASSUME NEW o \in Pods, PodStops(o) PROVE TypeOK'
    BY <2>4 DEF TypeOK, PodStops, worker
  <2>5. CASE SyncClaims
    BY <2>5 DEF TypeOK, SyncClaims, owner, worker
  <2>6. CASE OwnerReconcile
    BY <2>6 DEF TypeOK, OwnerReconcile, worker
  <2>7. CASE OwnerWrites
    BY <2>7, OwnerWritesType
  <2>8. CASE Reconcile
    <3>1. exists => sts.annotation \in Sizes
      BY DEF TypeOK, exists
    <3>2. Sizes \subseteq 0 .. MaxSize
      BY DEF Sizes
    <3>3. /\ pc' \in {"idle", "list"} /\ requested' \in 0 .. MaxSize
          /\ pc' # "idle" => requested' \in Sizes
      BY <2>8, <3>1, <3>2 DEF TypeOK, Reconcile
    <3>4. todo' = {}
      BY <2>8 DEF TypeOK, Reconcile
    <3> QED BY <2>8, <3>3, <3>4 DEF TypeOK, Reconcile, owner
  <2>9. CASE ListClaims
    <3>1. faults' \in 0 .. MaxFaults
      BY <2>9, FaultsType DEF ListClaims
    <3>2. /\ pc' \in {"idle", "process"} /\ requested' \in 0 .. MaxSize
          /\ pc' # "idle" => requested' \in Sizes
          /\ todo' \subseteq Pods /\ (todo' # {} => pc' = "process")
          /\ errCount' \in BOOLEAN /\ needsRecreation' \in BOOLEAN
          /\ dirty' \in BOOLEAN
      <4>1. CASE Idle /\ dirty' = TRUE
        BY <4>1, IdleType
      <4>2. CASE pc' = "process" /\ todo' = tooSmall
                 /\ UNCHANGED <<dirty, requested, errCount, needsRecreation>>
        BY <2>9, <4>2 DEF TypeOK, ListClaims, tooSmall
      <4> QED BY <2>9, <4>1, <4>2 DEF ListClaims
    <3> QED BY <2>9, <3>1, <3>2 DEF TypeOK, ListClaims, owner
  <2>10. ASSUME NEW o \in Pods, processPVC(o) PROVE TypeOK'
    BY <2>10, ProcessType
  <2>11. CASE orphanAndDeleteStatefulSet
    <3>1. faults' \in 0 .. MaxFaults
      BY <2>11, FaultsType DEF orphanAndDeleteStatefulSet
    <3>2. sts' \in {sts, Missing} /\ doomed' = doomed
      BY <2>11 DEF orphanAndDeleteStatefulSet
    <3>3. dirty' \in BOOLEAN /\ ownerDirty' \in BOOLEAN
      BY <2>11 DEF TypeOK, orphanAndDeleteStatefulSet, exists, wakesOwner
    <3> QED BY <2>11, <3>1, <3>2, <3>3, IdleType
            DEF TypeOK, orphanAndDeleteStatefulSet
  <2>12. CASE Crash
    <3>1. faults' \in 0 .. MaxFaults
      BY <2>12, FaultsType DEF Crash
    <3> QED BY <2>12, <3>1, IdleType DEF TypeOK, Crash, exists
  <2> QED BY <2>1, <2>2, <2>3, <2>4, <2>5, <2>6, <2>7, <2>8, <2>9, <2>10, <2>11, <2>12
          DEF Next, Owner, Resize
<1> QED BY <1>1, <1>2, PTL DEF Spec

-----------------------------------------------------------------------------
(* The owner.                                                               *)

\* As long as nothing has queued the owner's resource again, its worker holds the
\* resource as it is or has brought the StatefulSet in line with it.
OwnerKnows ==
    ~ownerDirty /\ ~spec.paused =>
        IF ownerHas = Nothing
        THEN IF spec.named THEN sts.annotation = spec.size ELSE sts = Missing
        ELSE ownerHas = spec

\* The owner's write ends in line with the resource, or is repeated.
LEMMA OwnerWritesKnown ==
    ASSUME TypeOK, OwnerKnows, OwnerWrites
    PROVE  OwnerKnows'
<1> SUFFICES ASSUME ~ownerDirty', ~spec.paused
             PROVE  IF spec.named THEN sts'.annotation = spec.size ELSE sts' = Missing
  BY DEF OwnerWrites, OwnerKnows
<1>1. ownerHas = spec /\ sts' = sts /\ faults' = faults
  BY DEF OwnerWrites, OwnerKnows, TypeOK
<1>2. ~Fails(1)
  BY <1>1 DEF Fails, TypeOK
<1>3. CASE spec.named
  <2>1. sts' = created(spec)
    BY <1>1, <1>2, <1>3 DEF OwnerWrites
  <2>2. sts \in [annotation : Sizes, template : Sizes] \cup {Missing}
    BY DEF TypeOK
  <2> QED BY <1>3, <2>1, <2>2 DEF created, exists
<1>4. CASE ~spec.named
  BY <1>1, <1>2, <1>4 DEF OwnerWrites
<1> QED BY <1>3, <1>4

\* With nothing left to do the owner has the StatefulSet its resource asks for, no
\* matter what the resize controller has deleted in the meantime, which calls
\* failed and how old the claims were that it listed.
THEOREM ReturnsBeforeRest == Spec => []RestsOnlyWhenReturned
<1>1. Init => OwnerKnows
  BY DEF Init, OwnerKnows
<1>2. TypeOK /\ OwnerKnows /\ [Next]_vars => OwnerKnows'
  <2> SUFFICES ASSUME TypeOK, OwnerKnows, [Next]_vars PROVE OwnerKnows'
    OBVIOUS
  <2>1. CASE EditSpec \/ Crash \/ \E o \in Pods : PodStarts(o)
    BY <2>1 DEF EditSpec, Crash, PodStarts, OwnerKnows
  <2>2. CASE OwnerReconcile
    <3>1. spec # Nothing
      BY DEF TypeOK, Resources, Nothing, Sizes
    <3> QED BY <2>2, <3>1 DEF OwnerReconcile, OwnerKnows
  <2>3. CASE OwnerWrites
    BY <2>3, OwnerWritesKnown
  <2>4. CASE orphanAndDeleteStatefulSet
    <3>1. UNCHANGED <<spec, ownerHas>> /\ (ownerDirty' \/ (sts' = sts /\ ~ownerDirty))
      BY <2>4 DEF TypeOK, orphanAndDeleteStatefulSet, wakesOwner, exists
    <3> QED BY <3>1 DEF OwnerKnows
  <2>5. ASSUME NEW o \in Pods, PodStops(o) PROVE OwnerKnows'
    BY <2>5 DEF PodStops, OwnerKnows
  <2>6. CASE SyncClaims \/ Reconcile \/ ListClaims \/ (\E o \in Pods : processPVC(o)) \/ UNCHANGED vars
    <3>1. UNCHANGED <<spec, sts, ownerDirty, ownerHas>>
      BY <2>6 DEF SyncClaims, Reconcile, ListClaims, processPVC, vars, owner
    <3> QED BY <3>1 DEF OwnerKnows
  <2> QED BY <2>1, <2>2, <2>3, <2>4, <2>5, <2>6 DEF Next, Owner, Resize
<1>3. OwnerKnows => RestsOnlyWhenReturned
  BY DEF OwnerKnows, RestsOnlyWhenReturned, OwnerRests
<1> QED BY <1>1, <1>2, <1>3, VolumeTypeCorrect, PTL DEF Spec

-----------------------------------------------------------------------------
(* The resize controller.                                                   *)

Current == claimsCache = claims

\* As long as nothing has queued the StatefulSet again, a pass works with its
\* annotation, every claim off the list is large enough unless an error was
\* counted, and after the pass all are.
ResizeKnows ==
    ~dirty =>
        /\ pc = "idle" => \A o \in Pods : claims[o] > 0 => claims[o] >= sts.annotation
        /\ pc # "idle" => sts = Missing \/ requested = sts.annotation
        /\ pc = "process" => errCount \/ \A o \in Pods \ todo : claims[o] > 0 => claims[o] >= requested

\* A StatefulSet that is gone asks for nothing.
LEMMA NothingAsked ==
    ASSUME TypeOK, sts = Missing, NEW o \in Pods
    PROVE  claims[o] >= sts.annotation
BY MaxSizeAssumption DEF TypeOK, Missing, Claims

\* One claim more is large enough, or an error is counted.
LEMMA ProcessKnown ==
    ASSUME TypeOK, ResizeKnows, NEW o \in Pods, processPVC(o)
    PROVE  ResizeKnows'
<1> SUFFICES ASSUME ~dirty, ~errCount'
             PROVE  \A p \in Pods \ todo' : claims'[p] > 0 => claims'[p] >= requested
  BY DEF ResizeKnows, processPVC
<1>1. claims' = [claims EXCEPT ![o] = requested] /\ errCount' = errCount
  BY DEF processPVC, countError
<1>2. requested \in Nat /\ claims \in Claims
  BY MaxSizeAssumption DEF TypeOK
<1>3. \A p \in Pods \ todo : claims[p] > 0 => claims[p] >= requested
  BY <1>1 DEF ResizeKnows, processPVC
<1> QED BY <1>1, <1>2, <1>3 DEF processPVC, Claims

\* A pass that ends without being repeated leaves no claim too small.
LEMMA EndKnown ==
    ASSUME TypeOK, ResizeKnows, orphanAndDeleteStatefulSet
    PROVE  ResizeKnows'
<1> SUFFICES ASSUME ~dirty', NEW o \in Pods, claims'[o] > 0
             PROVE  claims'[o] >= sts'.annotation
  BY DEF ResizeKnows, orphanAndDeleteStatefulSet, Idle
<1>1. ~dirty /\ ~errCount /\ claims' = claims /\ todo = {} /\ pc = "process"
  BY DEF orphanAndDeleteStatefulSet, TypeOK
<1>2. sts' = sts
  BY <1>1 DEF orphanAndDeleteStatefulSet, exists, TypeOK
<1>3. claims[o] >= requested /\ (sts = Missing \/ requested = sts.annotation)
  BY <1>1 DEF ResizeKnows
<1> QED BY <1>1, <1>2, <1>3, NothingAsked

\* With nothing left to do the resize controller has made every claim as large as
\* the StatefulSet's annotation says, if the claims it lists are never outdated:
\* also those of pods that were started, and those whose expansion failed, in the
\* middle of a pass.
THEOREM ExpandedBeforeRest == Spec => RestsOnlyWhenExpanded
<1>1. Init => ResizeKnows
  BY MaxSizeAssumption DEF Init, ResizeKnows, NoClaims
<1>2. TypeOK /\ ResizeKnows /\ Current /\ [Next]_vars => ResizeKnows'
  <2> SUFFICES ASSUME TypeOK, ResizeKnows, Current, [Next]_vars PROVE ResizeKnows'
    OBVIOUS
  <2>1. ASSUME NEW o \in Pods, PodStarts(o) PROVE ResizeKnows'
    BY <2>1 DEF PodStarts, ResizeKnows
  <2>2. ASSUME NEW o \in Pods, PodStops(o) PROVE ResizeKnows'
    BY <2>2 DEF PodStops, ResizeKnows, worker
  <2>3. CASE EditSpec \/ SyncClaims \/ OwnerReconcile \/ UNCHANGED vars
    <3>1. UNCHANGED <<sts, claims, dirty, pc, requested, todo, errCount>>
      BY <2>3 DEF EditSpec, SyncClaims, OwnerReconcile, vars, worker
    <3> QED BY <3>1 DEF ResizeKnows
  <2>4. CASE OwnerWrites
    BY <2>4 DEF OwnerWrites, ResizeKnows, worker
  <2>5. CASE Reconcile
    <3>1. CASE ~exists
      BY <2>5, <3>1, NothingAsked DEF Reconcile, ResizeKnows, exists
    <3>2. CASE pc' = "list" /\ requested' = sts.annotation
      BY <2>5, <3>2 DEF Reconcile, ResizeKnows
    <3> QED BY <2>5, <3>1, <3>2 DEF Reconcile
  <2>6. CASE ListClaims
    <3>1. CASE dirty' = TRUE
      BY <3>1 DEF ResizeKnows
    <3>2. CASE pc' = "process" /\ todo' = tooSmall /\ UNCHANGED <<dirty, requested, errCount>>
      <4>1. requested \in Nat /\ claims \in Claims
        BY MaxSizeAssumption DEF TypeOK
      <4>2. \A o \in Pods \ todo' : claims[o] > 0 => claims[o] >= requested
        BY <3>2, <4>1 DEF tooSmall, Current, Claims
      <4> QED BY <2>6, <3>2, <4>2 DEF ListClaims, ResizeKnows
    <3> QED BY <2>6, <3>1, <3>2 DEF ListClaims
  <2>7. ASSUME NEW o \in Pods, processPVC(o) PROVE ResizeKnows'
    BY <2>7, ProcessKnown
  <2>8. CASE orphanAndDeleteStatefulSet
    BY <2>8, EndKnown
  <2>9. CASE Crash
    <3>1. UNCHANGED <<sts, claims>> /\ pc' = "idle" /\ (dirty' \/ sts = Missing)
      BY <2>9 DEF Crash, Idle, exists
    <3> QED BY <3>1, NothingAsked DEF ResizeKnows
  <2> QED BY <2>1, <2>2, <2>3, <2>4, <2>5, <2>6, <2>7, <2>8, <2>9 DEF Next, Owner, Resize
<1>3. ResizeKnows => (ResizeRests => \A o \in Pods : claims[o] > 0 => claims[o] >= sts.annotation)
  BY DEF ResizeKnows, ResizeRests
<1>4. Current <=> claimsCache = claims
  BY DEF Current
<1> QED BY <1>1, <1>2, <1>3, <1>4, VolumeTypeCorrect, PTL DEF Spec, RestsOnlyWhenExpanded
===============================================================================
