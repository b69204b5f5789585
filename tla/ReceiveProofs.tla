---------------------------- MODULE ReceiveProofs ----------------------------
(***************************************************************************)
(* Theorems about ReceiveController for every set of rings, every bound on *)
(* replicas and faults, every choice of policies and replication factors.  *)
(* Each says which of the caches it needs to be current, if any.           *)
(***************************************************************************)
EXTENDS ReceiveController, HashringsProofs

\* What every step but the reads and writes of the worker leaves alone.
USE DEF environment, objects, locals

\* The bounds are numbers.
LEMMA Bounds ==
    /\ MaxReplicas \in Nat /\ MaxReplicas >= 1
    /\ \A rf \in Factors : rf \in Nat /\ rf >= 1 /\ rf <= MaxReplicas
  BY MaxReplicasAssumption, FactorsAssumption

\* The spec the worker holds is admissible, so its fields have their types.
LEMMA SpecFields ==
    ASSUME NEW s \in Specs
    PROVE  /\ s.rings \in Wanted
           /\ s.rf \in Factors /\ s.rf \in Nat /\ s.rf >= 1 /\ s.rf \in 0 .. MaxReplicas
           /\ s.policy \in {"static", "dynamic"}
           /\ \A h \in InSpec(s) : s.rings[h] > 0 /\ s.rings[h] >= s.rf
<1>1. /\ s.rings \in Wanted /\ s.rf \in Factors /\ s.policy \in Policies
      /\ \A h \in Rings : s.rings[h] = 0 \/ s.rings[h] >= s.rf
  BY DEF Specs
<1>2. s.rf \in Nat /\ s.rf >= 1 /\ s.rf \in 0 .. MaxReplicas
  BY <1>1, Bounds
<1>3. \A h \in InSpec(s) : s.rings[h] > 0 /\ s.rings[h] >= s.rf
  BY <1>1, <1>2 DEF InSpec
<1> QED
  BY <1>1, <1>2, <1>3, PoliciesAssumption

\* The configuration a reconcile writes is a table.
LEMMA HashringConfigType ==
    ASSUME TypeOK, pc # "idle"
    PROVE  hashringConfig \in Table
  BY SpecFields, MergeType DEF TypeOK, hashringConfig

\* Types are kept by every step; the parts of the state only a few steps write
\* are treated together with them.
THEOREM TypeCorrect == Spec => []TypeOK
<1>1. Init => TypeOK
  <2>1. NoRings \in Wanted /\ NoViews \in Table
    BY Bounds DEF NoRings, NoViews, Wanted, Table, View
  <2>2. [exists |-> FALSE, table |-> NoViews] \in ConfigMaps
    BY <2>1 DEF ConfigMaps
  <2>3. [ready |-> "Unknown", paused |-> FALSE] \in Statuses
    BY DEF Statuses
  <2>4. 0 \in 0 .. MaxReplicas /\ 0 \in 0 .. MaxFaults
    BY Bounds, MaxFaultsAssumption
  <2> QED
    BY <2>1, <2>2, <2>3, <2>4 DEF Init, TypeOK, Stages
<1>2. TypeOK /\ [Next]_vars => TypeOK'
  <2> SUFFICES ASSUME TypeOK, [Next]_vars PROVE TypeOK'
    OBVIOUS
  <2> USE DEF TypeOK
  <2>1. CASE EditSpec
    BY <2>1 DEF EditSpec
  <2>2. ASSUME NEW h \in Rings, PodReady(h) PROVE TypeOK'
    BY <2>2 DEF PodReady, SliceEvent, Table, View
  <2>3. ASSUME NEW h \in Rings, PodUnready(h) PROVE TypeOK'
    BY <2>3 DEF PodUnready, SliceEvent, Table, View
  <2>4. ASSUME NEW h \in Rings, SyncStatefulSet(h) PROVE TypeOK'
    BY <2>4 DEF SyncStatefulSet, Wanted
  <2>5. CASE SyncConfigMap
    BY <2>5 DEF SyncConfigMap
  <2>6. CASE ForeignStatusWrite
    <3>1. faults' \in 0 .. MaxFaults
      BY <2>6, MaxFaultsAssumption DEF ForeignStatusWrite
    <3> QED
      BY <2>6, <3>1 DEF ForeignStatusWrite
  <2>7. CASE Reconcile
    BY <2>7 DEF Reconcile, Stages
  <2>8. CASE CreateOrUpdateIngesters
    <3>1. PICK failed, written \in SUBSET Rings :
             /\ WriteStatefulSets([h \in Rings |->
                    IF h \in written THEN snap.rings[h] ELSE sts[h]])
             /\ Fails(IF failed = {} THEN 0 ELSE 1)
      BY <2>8 DEF CreateOrUpdateIngesters, InSpec
    <3>2. sts' \in Wanted /\ stsCache' \in Wanted
      BY <2>8, <3>1, SpecFields DEF CreateOrUpdateIngesters, WriteStatefulSets, Wanted
    <3>3. faults' \in 0 .. MaxFaults
      BY <3>1, MaxFaultsAssumption DEF Fails
    <3> QED
      BY <2>8, <3>2, <3>3 DEF CreateOrUpdateIngesters, Stages
  <2>9. CASE ReadHashringConfig
    BY <2>9 DEF ReadHashringConfig, ConfigMaps, InSpec, Stages
  <2>10. ASSUME NEW h \in Rings, ReadEndpointSlices(h) PROVE TypeOK'
    BY <2>10 DEF ReadEndpointSlices, Table
  <2>11. CASE CreateOrUpdateRouter
    <3>1. [exists |-> TRUE, table |-> hashringConfig] \in ConfigMaps
      BY <2>11, HashringConfigType DEF CreateOrUpdateRouter, ConfigMaps
    <3>2. cm' \in ConfigMaps /\ cmCache' \in ConfigMaps
      BY <2>11, <3>1 DEF CreateOrUpdateRouter, WriteConfigMap
    <3>3. faults' \in 0 .. MaxFaults /\ routerRF' \in 0 .. MaxReplicas
      BY <2>11, SpecFields, MaxFaultsAssumption DEF CreateOrUpdateRouter, Fails
    <3> QED
      BY <2>11, <3>2, <3>3 DEF CreateOrUpdateRouter, afterRouter, Stages
  <2>12. CASE PruneOrphanedResources
    <3>1. PICK failed, deleted \in SUBSET Rings :
             /\ WriteStatefulSets([h \in Rings |-> IF h \in deleted THEN 0 ELSE sts[h]])
             /\ Fails(IF failed = {} THEN 0 ELSE 1)
      BY <2>12 DEF PruneOrphanedResources, orphans
    <3>2. sts' \in Wanted /\ stsCache' \in Wanted
      BY <3>1, Bounds DEF WriteStatefulSets, Wanted
    <3>3. faults' \in 0 .. MaxFaults
      BY <3>1, MaxFaultsAssumption DEF Fails
    <3> QED
      BY <2>12, <3>2, <3>3 DEF PruneOrphanedResources, afterCleanup, Stages
  <2>13. CASE Report
    <3>1. faults' \in 0 .. MaxFaults
      BY <2>13, MaxFaultsAssumption DEF Report, updateCondition, Fails
    <3>2. status' \in Statuses
      BY <2>13 DEF Report, updateCondition, Statuses
    <3>3. dirty' \in BOOLEAN
      BY <2>13 DEF Report, updateCondition
    <3> QED
      BY <2>13, <3>1, <3>2, <3>3 DEF Report, Forget, Stages, NoViews, Table, View
  <2>14. CASE ReadFails
    BY <2>14, MaxFaultsAssumption DEF ReadFails, Fails, Stages
  <2>15. CASE Crash
    <3>1. faults' \in 0 .. MaxFaults
      BY <2>15, MaxFaultsAssumption DEF Crash, Fails
    <3> QED
      BY <2>15, <3>1 DEF Crash, Forget, Stages, NoViews, Table, View
  <2>16. CASE UNCHANGED vars
    BY <2>16 DEF vars
  <2> QED
    BY <2>1, <2>2, <2>3, <2>4, <2>5, <2>6, <2>7, <2>8, <2>9, <2>10, <2>11, <2>12,
       <2>13, <2>14, <2>15, <2>16 DEF Next, Worker
<1> QED
  BY <1>1, <1>2, PTL DEF Spec

-----------------------------------------------------------------------------
(***************************************************************************)
(* What the worker knows is inductive.                                     *)
(***************************************************************************)

\* A step that leaves the worker and what it knows of alone.
LEMMA RoutersStay ==
    ASSUME RoutersKnown, UNCHANGED <<cm, cmCache, pc, snap, previous>>
    PROVE  RoutersKnown'
  BY DEF RoutersKnown, ReadIsCurrent, RouterApplied

\* What is known of the ingesters rests on the StatefulSets and the worker only.
LEMMA IngestersStay ==
    ASSUME IngestersKnown, UNCHANGED <<sts, stsCache, pc, snap, errCount>>
    PROVE  IngestersKnown'
  BY DEF IngestersKnown, IngestersApplied, Pruned, InSpec

\* Outside the stages the facts speak of, only the caches matter.
LEMMA OutsideStages ==
    ASSUME pc' \in {"idle", "ingesters", "reportError", "reportPaused"}
    PROVE  /\ (cmCache = cm)' => RoutersKnown'
           /\ (stsCache = sts)' => IngestersKnown'
  BY DEF RoutersKnown, ReadIsCurrent, RouterApplied, IngestersKnown, IngestersApplied, Pruned

\* The router step publishes exactly the merge of what was read, or reports an error.
LEMMA RouterStep ==
    ASSUME "ConfigMap" \notin Lagging, TypeOK, RoutersKnown, CreateOrUpdateRouter
    PROVE  /\ RoutersKnown'
           /\ cm' \in {cm, [exists |-> TRUE, table |-> hashringConfig]}
<1> DEFINE new == [exists |-> TRUE, table |-> hashringConfig]
           conflict == cmCache # new /\ cmCache # cm
<1>0. new.table = hashringConfig
  OBVIOUS
<1> HIDE DEF new
<1>1. ~ conflict /\ cmCache = cm
  BY DEF RoutersKnown
<1>2. PICK cmFails, deploymentFails \in BOOLEAN :
         /\ WriteConfigMap(IF cmCache # new /\ ~ conflict /\ ~ cmFails THEN new ELSE cm)
         /\ pc' = IF conflict \/ cmFails \/ deploymentFails \/ errCount
                    THEN "reportError" ELSE "prune"
  BY DEF CreateOrUpdateRouter, afterRouter, new
<1>3. (cmCache = cm)'
  BY <1>2 DEF WriteConfigMap
<1>4. CASE pc' = "reportError"
  BY <1>2, <1>3, <1>4, OutsideStages DEF WriteConfigMap, new
<1>5. CASE pc' = "prune"
  <2>1. cm' = new
    BY <1>1, <1>2, <1>5 DEF WriteConfigMap
  <2>2. snap \in Specs /\ snap' = snap
    BY DEF TypeOK, CreateOrUpdateRouter
  <2>3. \A h \in Rings : snap.rings[h] = 0 => cm'.table[h] = {}
    BY <1>0, <2>1, <2>2, SpecFields, MergeDropsRemoved DEF hashringConfig
  <2> QED
    BY <1>3, <1>5, <2>1, <2>2, <2>3 DEF RoutersKnown, RouterApplied, ReadIsCurrent, new
<1> QED
  BY <1>2, <1>4, <1>5

\* As long as the ConfigMap cache does not lag, what the worker has read of the
\* configuration is still published when it writes, and no ring outside the
\* spec is published when it prunes, whatever users, pods, late StatefulSet
\* events, failing calls and restarts do in between.
THEOREM RoutersKnownAlways ==
    ASSUME "ConfigMap" \notin Lagging
    PROVE  Spec => []RoutersKnown
<1>1. Init => RoutersKnown
  BY DEF Init, RoutersKnown, ReadIsCurrent, RouterApplied
<1>2. TypeOK /\ RoutersKnown /\ [Next]_vars => RoutersKnown'
  <2> SUFFICES ASSUME TypeOK, RoutersKnown, [Next]_vars PROVE RoutersKnown'
    OBVIOUS
  <2>1. CASE EditSpec \/ ForeignStatusWrite \/ UNCHANGED vars
    BY <2>1, RoutersStay DEF EditSpec, ForeignStatusWrite, vars
  <2>2. ASSUME NEW h \in Rings, PodReady(h) \/ PodUnready(h) \/ SyncStatefulSet(h)
        PROVE  RoutersKnown'
    BY <2>2, RoutersStay DEF PodReady, PodUnready, SyncStatefulSet
  <2>3. CASE SyncConfigMap
    BY <2>3 DEF SyncConfigMap, RoutersKnown
  <2>4. CASE Reconcile
    BY <2>4, OutsideStages DEF Reconcile, RoutersKnown
  <2>5. CASE CreateOrUpdateIngesters
    BY <2>5 DEF CreateOrUpdateIngesters, RoutersKnown, ReadIsCurrent, RouterApplied
  <2>6. CASE ReadHashringConfig
    BY <2>6 DEF ReadHashringConfig, RoutersKnown, ReadIsCurrent, RouterApplied
  <2>7. ASSUME NEW h \in Rings, ReadEndpointSlices(h) PROVE RoutersKnown'
    BY <2>7, RoutersStay DEF ReadEndpointSlices
  <2>8. CASE CreateOrUpdateRouter
    BY <2>8, RouterStep
  <2>9. CASE PruneOrphanedResources
    BY <2>9 DEF PruneOrphanedResources, afterCleanup, RoutersKnown, ReadIsCurrent, RouterApplied
  <2>10. CASE Report \/ ReadFails
    BY <2>10, OutsideStages DEF Report, ReadFails, RoutersKnown
  <2>11. CASE Crash
    BY <2>11, OutsideStages DEF Crash
  <2> QED
    BY <2>1, <2>2, <2>3, <2>4, <2>5, <2>6, <2>7, <2>8, <2>9, <2>10, <2>11 DEF Next, Worker
<1> QED
  BY <1>1, <1>2, TypeCorrect, PTL DEF Spec

\* The ingesters step brings every StatefulSet to its spec or counts an error.
LEMMA IngestersStep ==
    ASSUME "StatefulSet" \notin Lagging, TypeOK, IngestersKnown, CreateOrUpdateIngesters
    PROVE  IngestersKnown'
<1> DEFINE different == {h \in InSpec(snap) : stsCache[h] # snap.rings[h]}
           conflicts == {h \in different : stsCache[h] # sts[h]}
<1>1. PICK failed \in SUBSET (different \ conflicts) :
         /\ WriteStatefulSets([h \in Rings |->
                IF h \in different \ (conflicts \cup failed) THEN snap.rings[h] ELSE sts[h]])
         /\ conflicts \cup failed # {} => errCount'
  BY DEF CreateOrUpdateIngesters
<1>2. conflicts = {}
  BY DEF IngestersKnown
<1>3. (stsCache = sts)'
  BY <1>1 DEF WriteStatefulSets
<1>4. ASSUME ~ errCount', NEW h \in InSpec(snap) PROVE sts'[h] = snap.rings[h]
  <2>1. failed = {}
    BY <1>1, <1>4
  <2>2. CASE h \in different
    BY <1>1, <1>2, <2>1, <2>2 DEF WriteStatefulSets, InSpec
  <2>3. CASE h \notin different
    BY <1>1, <2>1, <2>3 DEF WriteStatefulSets, InSpec, IngestersKnown
  <2> QED
    BY <2>2, <2>3
<1>5. pc' = "readConfig" /\ snap' = snap
  BY DEF CreateOrUpdateIngesters
<1> QED
  BY <1>3, <1>4, <1>5 DEF IngestersKnown, IngestersApplied, Pruned, InSpec

\* Pruning never touches the rings of the spec, whatever the cache shows.
LEMMA PruneKeepsSpec ==
    ASSUME PruneOrphanedResources
    PROVE  \A h \in InSpec(snap) : sts'[h] = sts[h]
<1>1. PICK failed \in SUBSET orphans :
         LET deleted == {h \in orphans \ failed : sts[h] > 0}
         IN  WriteStatefulSets([h \in Rings |-> IF h \in deleted THEN 0 ELSE sts[h]])
  BY DEF PruneOrphanedResources
<1> QED
  BY <1>1 DEF WriteStatefulSets, InSpec, orphans

\* The prune step deletes every StatefulSet of a ring outside the spec unless
\* it reports an error.
LEMMA PruneStep ==
    ASSUME "StatefulSet" \notin Lagging, TypeOK, IngestersKnown, PruneOrphanedResources
    PROVE  IngestersKnown'
<1>1. PICK failed \in SUBSET orphans :
         LET deleted == {h \in orphans \ failed : sts[h] > 0}
         IN  /\ WriteStatefulSets([h \in Rings |-> IF h \in deleted THEN 0 ELSE sts[h]])
             /\ pc' = IF failed = {} THEN "reportOK" ELSE "reportError"
  BY DEF PruneOrphanedResources, afterCleanup
<1>2. snap \in Specs /\ snap' = snap /\ pc = "prune"
  BY DEF TypeOK, PruneOrphanedResources
<1>3. (stsCache = sts)'
  BY <1>1 DEF WriteStatefulSets
<1>4. \A h \in InSpec(snap) : sts'[h] = sts[h]
  BY PruneKeepsSpec
<1>5. CASE pc' = "reportError"
  BY <1>3, <1>5, OutsideStages
<1>6. CASE pc' = "reportOK"
  <2>1. failed = {}
    BY <1>1, <1>6
  <2>2. ASSUME NEW h \in Rings PROVE sts'[h] = snap.rings[h]
    <3>1. CASE snap.rings[h] = 0
      BY <1>1, <2>1, <3>1, SpecFields, MaxReplicasAssumption
         DEF WriteStatefulSets, IngestersKnown, TypeOK, Wanted, orphans
    <3>2. CASE snap.rings[h] # 0
      <4>1. h \in InSpec(snap)
        BY <1>2, <3>2, SpecFields, MaxReplicasAssumption DEF InSpec, Wanted
      <4> QED
        BY <1>2, <1>4, <4>1 DEF IngestersKnown, IngestersApplied
    <3> QED
      BY <3>1, <3>2
  <2>3. sts' = snap.rings
    <3>1. sts' = [h \in Rings |-> sts'[h]]
      BY <1>1 DEF WriteStatefulSets
    <3>2. snap.rings = [h \in Rings |-> snap.rings[h]]
      BY <1>2, SpecFields DEF Wanted
    <3> QED
      BY <3>1, <3>2, <2>2
  <2> QED
    BY <1>2, <1>3, <1>6, <2>2, <2>3 DEF IngestersKnown, IngestersApplied, Pruned, InSpec
<1> QED
  BY <1>1, <1>5, <1>6

\* As long as the StatefulSet cache does not lag, what the worker has done to
\* the ingesters stays done until it reports it.
THEOREM IngestersKnownAlways ==
    ASSUME "StatefulSet" \notin Lagging
    PROVE  Spec => []IngestersKnown
<1>1. Init => IngestersKnown
  BY DEF Init, IngestersKnown, IngestersApplied, Pruned
<1>2. TypeOK /\ IngestersKnown /\ [Next]_vars => IngestersKnown'
  <2> SUFFICES ASSUME TypeOK, IngestersKnown, [Next]_vars PROVE IngestersKnown'
    OBVIOUS
  <2>1. CASE EditSpec \/ ForeignStatusWrite \/ SyncConfigMap \/ UNCHANGED vars
    BY <2>1, IngestersStay DEF EditSpec, ForeignStatusWrite, SyncConfigMap, vars
  <2>2. ASSUME NEW h \in Rings, PodReady(h) \/ PodUnready(h) PROVE IngestersKnown'
    BY <2>2, IngestersStay DEF PodReady, PodUnready
  <2>3. ASSUME NEW h \in Rings, SyncStatefulSet(h) PROVE FALSE
    BY <2>3 DEF SyncStatefulSet, IngestersKnown
  <2>4. CASE Reconcile
    BY <2>4, OutsideStages DEF Reconcile, IngestersKnown
  <2>5. CASE CreateOrUpdateIngesters
    BY <2>5, IngestersStep
  <2>6. CASE ReadHashringConfig
    BY <2>6 DEF ReadHashringConfig, IngestersKnown, IngestersApplied, Pruned, InSpec
  <2>7. ASSUME NEW h \in Rings, ReadEndpointSlices(h) PROVE IngestersKnown'
    BY <2>7, IngestersStay DEF ReadEndpointSlices
  <2>8. CASE CreateOrUpdateRouter
    <3>1. /\ pc = "readSlices" /\ UNCHANGED <<sts, stsCache, snap, errCount>>
          /\ pc' \in {"prune", "reportError"} /\ (pc' = "prune" => ~errCount)
      BY <2>8 DEF CreateOrUpdateRouter, afterRouter
    <3> QED
      BY <3>1 DEF IngestersKnown, IngestersApplied, Pruned, InSpec
  <2>9. CASE PruneOrphanedResources
    BY <2>9, PruneStep
  <2>10. CASE Report \/ ReadFails
    BY <2>10, OutsideStages DEF Report, ReadFails, IngestersKnown
  <2>11. CASE Crash
    BY <2>11, OutsideStages DEF Crash
  <2> QED
    BY <2>1, <2>2, <2>3, <2>4, <2>5, <2>6, <2>7, <2>8, <2>9, <2>10, <2>11 DEF Next, Worker
<1> QED
  BY <1>1, <1>2, TypeCorrect, PTL DEF Spec

\* The factor the routers run with past the router step is the spec's, in any
\* case.
FactorApplied == pc \in {"prune", "reportOK"} => routerRF = snap.rf

\* No step between the router step and the report changes the factor of the routers.
LEMMA FactorAppliedAlways == Spec => []FactorApplied
<1>1. Init => FactorApplied
  BY DEF Init, FactorApplied
<1>2. FactorApplied /\ [Next]_vars => FactorApplied'
  BY DEF FactorApplied, Next, Worker, vars, EditSpec, PodReady, PodUnready, SyncStatefulSet,
         SyncConfigMap, ForeignStatusWrite, Reconcile, CreateOrUpdateIngesters,
         ReadHashringConfig, ReadEndpointSlices, CreateOrUpdateRouter, afterRouter,
         PruneOrphanedResources, afterCleanup, Report, ReadFails, Crash
<1> QED
  BY <1>1, <1>2, PTL DEF Spec

-----------------------------------------------------------------------------
(***************************************************************************)
(* The action properties.                                                  *)
(***************************************************************************)

\* Only three steps write objects, and what they write them with.
LEMMA ObjectsWrittenBy ==
    ASSUME [Next]_vars
    PROVE  /\ ~ CreateOrUpdateRouter => UNCHANGED <<cm, routerRF>>
           /\ ~ CreateOrUpdateIngesters /\ ~ PruneOrphanedResources => UNCHANGED sts
           /\ ~ Report => UNCHANGED status
  BY DEF Next, Worker, vars, EditSpec, PodReady, PodUnready, SyncStatefulSet, SyncConfigMap,
         ForeignStatusWrite, Reconcile, CreateOrUpdateIngesters, ReadHashringConfig,
         ReadEndpointSlices, CreateOrUpdateRouter, PruneOrphanedResources, Report,
         ReadFails, Crash

\* The ingesters step writes StatefulSets of rings of the spec only.
LEMMA IngestersKeepOthers ==
    ASSUME CreateOrUpdateIngesters
    PROVE  /\ \A h \in Rings : sts'[h] = sts[h] \/ (h \in InSpec(snap) /\ sts'[h] = snap.rings[h])
           /\ UNCHANGED <<cm, routerRF>>
<1>1. PICK written \in SUBSET InSpec(snap) :
         WriteStatefulSets([h \in Rings |-> IF h \in written THEN snap.rings[h] ELSE sts[h]])
  BY DEF CreateOrUpdateIngesters
<1> QED
  BY <1>1 DEF WriteStatefulSets, CreateOrUpdateIngesters

\* A StatefulSet is never deleted while a published ring routes to it, whatever
\* failed or crashed on the way.
THEOREM RetiresOnlyUnrouted ==
    ASSUME "ConfigMap" \notin Lagging
    PROVE  Spec => NeverRetireRouted
<1>1. TypeOK /\ RoutersKnown /\ [Next]_vars =>
        [\A h \in Rings : sts[h] > 0 /\ sts'[h] = 0 => cm.table[h] = {}]_vars
  <2> SUFFICES ASSUME TypeOK, RoutersKnown, [Next]_vars, NEW h \in Rings,
                      sts[h] > 0, sts'[h] = 0
               PROVE  cm.table[h] = {}
    OBVIOUS
  <2>1. sts'[h] # sts[h]
    OBVIOUS
  <2>2. CASE CreateOrUpdateIngesters
    BY <2>1, <2>2, IngestersKeepOthers, Bounds DEF InSpec
  <2>3. CASE PruneOrphanedResources
    <3>1. h \notin InSpec(snap)
      BY <2>1, <2>3, PruneKeepsSpec
    <3>2. pc = "prune" /\ snap \in Specs
      BY <2>3 DEF PruneOrphanedResources, TypeOK
    <3>3. snap.rings[h] = 0
      BY <3>1, <3>2, SpecFields, Bounds DEF InSpec, Wanted
    <3> QED
      BY <3>2, <3>3 DEF RoutersKnown, RouterApplied
  <2> QED
    BY <2>1, <2>2, <2>3, ObjectsWrittenBy
<1> QED
  BY <1>1, TypeCorrect, RoutersKnownAlways, PTL DEF Spec, NeverRetireRouted

\* What a step publishes: the table stays, or becomes the merge of what the
\* worker read over the table it is about to replace.
LEMMA TableSteps ==
    ASSUME "ConfigMap" \notin Lagging, TypeOK, RoutersKnown, [Next]_vars, cm'.table # cm.table
    PROVE  /\ snap \in Specs
           /\ previous = cm.table
           /\ cm'.table = Merge(snap.policy, cm.table, snap.rings, seen, snap.rf)
           /\ CreateOrUpdateRouter
<1>1. CreateOrUpdateRouter
  BY ObjectsWrittenBy
<1>2. cm'.table = hashringConfig
  BY <1>1, RouterStep
<1>3. snap \in Specs /\ previous = cm.table
  BY <1>1 DEF CreateOrUpdateRouter, TypeOK, RoutersKnown, ReadIsCurrent
<1> QED
  BY <1>1, <1>2, <1>3 DEF hashringConfig

\* A ring whose ready members do not suffice is published as it was before.
THEOREM TroubledStays ==
    ASSUME "ConfigMap" \notin Lagging
    PROVE  Spec => TroubledRingUntouched
<1>1. TypeOK /\ RoutersKnown /\ [Next]_vars =>
        [\A h \in InSpec(snap) :
            ~ Acceptable(snap.policy, snap.rings[h], seen[h], snap.rf)
              => cm'.table[h] = cm.table[h]]_vars
  <2> SUFFICES ASSUME TypeOK, RoutersKnown, [Next]_vars, NEW h \in InSpec(snap),
                      ~ Acceptable(snap.policy, snap.rings[h], seen[h], snap.rf),
                      cm'.table # cm.table
               PROVE  cm'.table[h] = cm.table[h]
    OBVIOUS
  <2>1. snap \in Specs /\ cm'.table = Merge(snap.policy, cm.table, snap.rings, seen, snap.rf)
    BY TableSteps
  <2>2. cm.table \in Table /\ seen \in Table
    BY DEF TypeOK, ConfigMaps
  <2>3. h \in Rings
    BY DEF InSpec
  <2> QED
    BY <2>1, <2>2, <2>3, SpecFields, MergeKeepsTroubled
<1> QED
  BY <1>1, TypeCorrect, RoutersKnownAlways, PTL DEF Spec, TroubledRingUntouched

\* A published ring leaves the table only under a spec without it.
THEOREM DropsOnlyRemoved ==
    ASSUME "ConfigMap" \notin Lagging
    PROVE  Spec => DroppedOnlyWhenRemoved
<1>1. TypeOK /\ RoutersKnown /\ [Next]_vars =>
        [\A h \in Rings : cm.table[h] # {} /\ cm'.table[h] = {} => snap.rings[h] = 0]_vars
  <2> SUFFICES ASSUME TypeOK, RoutersKnown, [Next]_vars, NEW h \in Rings,
                      cm.table[h] # {}, cm'.table[h] = {}
               PROVE  snap.rings[h] = 0
    OBVIOUS
  <2>1. snap \in Specs /\ cm'.table = Merge(snap.policy, cm.table, snap.rings, seen, snap.rf)
    BY TableSteps
  <2>2. cm.table \in Table /\ seen \in Table
    BY DEF TypeOK, ConfigMaps
  <2>3. CASE h \in InSpec(snap)
    BY <2>1, <2>2, <2>3, SpecFields, MergeNeverEmpties
  <2>4. CASE h \notin InSpec(snap)
    BY <2>1, <2>4, SpecFields, Bounds DEF InSpec, Wanted
  <2> QED
    BY <2>3, <2>4
<1> QED
  BY <1>1, TypeCorrect, RoutersKnownAlways, PTL DEF Spec, DroppedOnlyWhenRemoved

\* Once something was published a static ring changes to exactly its size.
THEOREM StaticSize ==
    ASSUME "ConfigMap" \notin Lagging
    PROVE  Spec => StaticRingFixedSize
<1>1. TypeOK /\ RoutersKnown /\ [Next]_vars =>
        [\A h \in InSpec(snap) :
           snap.policy = "static" /\ previous # NoViews /\ cm'.table[h] # cm.table[h]
             => Cardinality(cm'.table[h]) = snap.rings[h]]_vars
  <2> SUFFICES ASSUME TypeOK, RoutersKnown, [Next]_vars, NEW h \in InSpec(snap),
                      snap.policy = "static", previous # NoViews,
                      cm'.table[h] # cm.table[h]
               PROVE  Cardinality(cm'.table[h]) = snap.rings[h]
    OBVIOUS
  <2>1. snap \in Specs /\ previous = cm.table
        /\ cm'.table = Merge(snap.policy, cm.table, snap.rings, seen, snap.rf)
    BY TableSteps
  <2>2. cm.table \in Table /\ seen[h] \in View /\ h \in Rings
    BY DEF TypeOK, ConfigMaps, Table, InSpec
  <2>3. ~ isEmptyHashring(cm.table)
    BY <2>1, <2>2 DEF isEmptyHashring, NoViews, Table
  <2>4. cm'.table = Merged("static", cm.table, snap.rings, seen, snap.rf)
    BY <2>1, <2>3 DEF Merge, StaticMerge
  <2>5. snap.rings[h] \in Nat /\ snap.rings[h] > 0
    BY <2>1, <2>2, SpecFields, Bounds DEF Wanted
  <2>6. cm'.table[h] = IF Acceptable("static", snap.rings[h], seen[h], snap.rf)
                         THEN Chosen("static", snap.rings[h], seen[h]) ELSE cm.table[h]
    BY <2>2, <2>4, <2>5 DEF Merged
  <2>7. Cardinality(seen[h]) >= snap.rings[h]
    BY <2>6 DEF Acceptable
  <2>8. cm'.table[h] = trimTo(seen[h], snap.rings[h])
    BY <2>6 DEF Chosen
  <2> QED
    BY <2>2, <2>5, <2>7, <2>8, TrimSize, ViewFinite
<1> QED
  BY <1>1, TypeCorrect, RoutersKnownAlways, PTL DEF Spec, StaticRingFixedSize

\* Ready turns true at the end of a reconcile that did everything it had to do.
THEOREM ReadyEarned ==
    ASSUME Lagging = {}
    PROVE  Spec => ReadyIsEarned
<1>1. TypeOK /\ RoutersKnown /\ IngestersKnown /\ FactorApplied /\ [Next]_vars =>
        [status.ready # "True" /\ status'.ready = "True" =>
            /\ sts = snap.rings
            /\ routerRF = snap.rf
            /\ \A h \in Rings : snap.rings[h] = 0 => cm.table[h] = {}]_vars
  <2> SUFFICES ASSUME TypeOK, RoutersKnown, IngestersKnown, FactorApplied, [Next]_vars,
                      status.ready # "True", status'.ready = "True"
               PROVE  /\ sts = snap.rings
                      /\ routerRF = snap.rf
                      /\ \A h \in Rings : snap.rings[h] = 0 => cm.table[h] = {}
    OBVIOUS
  <2>1. Report
    BY ObjectsWrittenBy
  <2>2. pc = "reportOK"
    BY <2>1 DEF Report, updateCondition, TypeOK, Statuses
  <2> QED
    BY <2>2 DEF RoutersKnown, IngestersKnown, FactorApplied, Pruned, RouterApplied
<1>2. "ConfigMap" \notin Lagging /\ "StatefulSet" \notin Lagging
  OBVIOUS
<1> QED
  BY <1>1, <1>2, TypeCorrect, RoutersKnownAlways, IngestersKnownAlways, FactorAppliedAlways,
     PTL DEF Spec, ReadyIsEarned

\* A paused resource is never past the stage that reports it paused.
WorkerNotPaused ==
    pc \in {"ingesters", "readConfig", "readSlices", "prune"} => ~ snap.paused

\* While a resource is paused nothing is written; also when caches lag.
THEOREM PausedUntouched == Spec => PausedHandsOff
<1>1. Init => WorkerNotPaused
  BY DEF Init, WorkerNotPaused
<1>2. WorkerNotPaused /\ [Next]_vars => WorkerNotPaused'
  BY DEF WorkerNotPaused, Next, Worker, vars, EditSpec, PodReady, PodUnready, SyncStatefulSet,
         SyncConfigMap, ForeignStatusWrite, Reconcile, CreateOrUpdateIngesters,
         ReadHashringConfig, ReadEndpointSlices, CreateOrUpdateRouter,
         PruneOrphanedResources, Report, ReadFails, Crash
<1>3. WorkerNotPaused /\ [Next]_vars =>
        [<<sts, cm, routerRF>>' # <<sts, cm, routerRF>> => pc # "idle" /\ ~ snap.paused]_vars
  <2> SUFFICES ASSUME WorkerNotPaused, [Next]_vars,
                      <<sts, cm, routerRF>>' # <<sts, cm, routerRF>>
               PROVE  pc # "idle" /\ ~ snap.paused
    OBVIOUS
  <2>1. CreateOrUpdateRouter \/ CreateOrUpdateIngesters \/ PruneOrphanedResources
    BY ObjectsWrittenBy
  <2>2. pc \in {"ingesters", "readSlices", "prune"}
    BY <2>1 DEF CreateOrUpdateRouter, CreateOrUpdateIngesters, PruneOrphanedResources
  <2> QED
    BY <2>2 DEF WorkerNotPaused
<1> QED
  BY <1>1, <1>2, <1>3, PTL DEF Spec, PausedHandsOff

-----------------------------------------------------------------------------
(***************************************************************************)
(* The replication factor.                                                 *)
(***************************************************************************)

\* Rings published, shown by the cache or read by the worker have at least rf
\* members, and the routers run with rf.
Serves(table, rf) == \A h \in Rings : table[h] # {} => Cardinality(table[h]) >= rf

FactorKept(rf) ==
    /\ routerRF \in {0, rf}
    /\ Serves(cm.table, rf) /\ Serves(cmCache.table, rf) /\ Serves(previous, rf)

\* A merge over a table that serves rf serves rf.
LEMMA MergeServes ==
    ASSUME TypeOK, pc # "idle", NEW rf, Factors = {rf}, Serves(previous, rf)
    PROVE  Serves(hashringConfig, rf)
<1> SUFFICES ASSUME NEW h \in Rings, hashringConfig[h] # {}
             PROVE  Cardinality(hashringConfig[h]) >= rf
  BY DEF Serves
<1>1. snap \in Specs /\ snap.rf = rf /\ rf \in Nat /\ previous \in Table /\ seen \in Table
  BY SpecFields DEF TypeOK
<1>2. snap.rings[h] # 0
  BY <1>1, SpecFields, MergeDropsRemoved DEF hashringConfig
<1>3. h \in InSpec(snap)
  BY <1>1, <1>2, SpecFields, Bounds DEF InSpec, Wanted
<1>4. snap.rings[h] > 0 /\ snap.rings[h] >= snap.rf
      /\ snap.policy \in {"static", "dynamic"} /\ snap.rings \in Wanted
  BY <1>1, <1>3, SpecFields
<1>5. CASE hashringConfig[h] = previous[h]
  BY <1>5 DEF Serves
<1>6. CASE hashringConfig[h] # previous[h]
  BY <1>1, <1>4, <1>6, MergeQuorum DEF hashringConfig
<1> QED
  BY <1>5, <1>6

\* A user who never changes the replication factor never has a published ring
\* with fewer members than the routers replicate to, whichever caches lag: a
\* table read too late or merged over an outdated one serves the factor all the
\* same.  (One who raises it can: hence the assumption.)
THEOREM FactorMet ==
    ASSUME NEW rf, Factors = {rf}
    PROVE  Spec => []ReplicationFactorMet
<1>0. rf \in Nat /\ rf >= 1
  BY Bounds
<1>1. Init => FactorKept(rf)
  BY DEF Init, FactorKept, Serves, NoViews
<1>2. TypeOK /\ FactorKept(rf) /\ [Next]_vars => FactorKept(rf)'
  <2> SUFFICES ASSUME TypeOK, FactorKept(rf), [Next]_vars
               PROVE  FactorKept(rf)'
    OBVIOUS
  <2> USE DEF FactorKept
  <2>0. Serves(NoViews, rf)
    BY DEF Serves, NoViews
  <2>1. CASE CreateOrUpdateRouter
    <3> DEFINE new == [exists |-> TRUE, table |-> hashringConfig]
    <3>1. Serves(new.table, rf)
      BY <2>1, MergeServes DEF CreateOrUpdateRouter
    <3>2. routerRF' \in {0, rf} /\ previous' = previous
      <4>1. snap \in Specs
        BY <2>1 DEF CreateOrUpdateRouter, TypeOK
      <4> QED
        BY <2>1, <4>1, SpecFields DEF CreateOrUpdateRouter
    <3> HIDE DEF new
    <3>3. cm' \in {cm, new} /\ cmCache' \in {cmCache, cm'}
      BY <2>1 DEF CreateOrUpdateRouter, WriteConfigMap, new
    <3> QED
      BY <3>1, <3>2, <3>3 DEF Serves
  <2>2. CASE ReadHashringConfig
    BY <2>2 DEF ReadHashringConfig, Serves
  <2>3. CASE SyncConfigMap
    BY <2>3 DEF SyncConfigMap, Serves
  <2>4. CASE Report \/ Crash
    BY <2>0, <2>4 DEF Report, Crash, Forget, Serves
  <2>5. CASE UNCHANGED <<cm, cmCache, routerRF, previous>>
    BY <2>5 DEF Serves
  <2> QED
    BY <2>1, <2>2, <2>3, <2>4, <2>5
       DEF Next, Worker, vars, EditSpec, PodReady, PodUnready, SyncStatefulSet,
           ForeignStatusWrite, Reconcile, CreateOrUpdateIngesters, ReadEndpointSlices,
           PruneOrphanedResources, ReadFails
<1>3. TypeOK /\ FactorKept(rf) => ReplicationFactorMet
  <2> SUFFICES ASSUME TypeOK, FactorKept(rf), NEW h \in Rings, cm.table[h] # {}
               PROVE  Cardinality(cm.table[h]) >= routerRF
    BY DEF ReplicationFactorMet
  <2>1. Cardinality(cm.table[h]) \in Nat
    BY ViewFinite DEF TypeOK, ConfigMaps, Table
  <2>2. Cardinality(cm.table[h]) >= rf /\ routerRF \in {0, rf}
    BY DEF FactorKept, Serves
  <2> QED
    BY <1>0, <2>1, <2>2
<1> QED
  BY <1>1, <1>2, <1>3, TypeCorrect, PTL DEF Spec

-----------------------------------------------------------------------------
(***************************************************************************)
(* ReceiveController implements RoutingTable.                              *)
(***************************************************************************)

\* The instance brings its own copy of the operator of FiniteSets.
LEMMA SameCardinality ==
    \A S : Promise!Cardinality(S) = Cardinality(S)
  BY DEF Promise!Cardinality, Cardinality

\* The router step is a Route of the abstract table: every ring goes where
\* Routable lets it.
LEMMA RouterRoutes ==
    ASSUME "ConfigMap" \notin Lagging, TypeOK, RoutersKnown, [Next]_vars, CreateOrUpdateRouter,
           cm'.table # cm.table
    PROVE  Promise!Route
<1>1. snap \in Specs
      /\ cm'.table = Merge(snap.policy, cm.table, snap.rings, seen, snap.rf)
  BY TableSteps
<1>2. cm.table \in Table /\ seen \in Table /\ cm'.table \in Table
  <2>1. cm.table \in Table /\ seen \in Table
    BY DEF TypeOK, ConfigMaps
  <2> QED
    BY <1>1, <2>1, SpecFields, MergeType
<1>3. ASSUME NEW h \in Rings PROVE Promise!Routable(h, cm'.table[h])
  <2>1. CASE snap.rings[h] = 0
    BY <1>1, <2>1, SpecFields, MergeDropsRemoved DEF Promise!Routable
  <2>2. CASE snap.rings[h] # 0
    <3>1. h \in InSpec(snap)
      BY <1>1, <2>2, SpecFields, Bounds DEF InSpec, Wanted
    <3>2. snap.rings[h] > 0 /\ snap.rings[h] \in Nat
          /\ snap.rings[h] >= snap.rf /\ snap.rf \in Nat /\ snap.rf >= 1
      BY <1>1, <3>1, SpecFields, Bounds DEF Wanted
    <3>3. CASE cm'.table[h] = cm.table[h]
      BY <3>2, <3>3 DEF Promise!Routable
    <3>4. CASE cm'.table[h] # cm.table[h]
      <4>0. PICK members : members = cm'.table[h]
        OBVIOUS
      <4>1. /\ Cardinality(members) \in Nat
            /\ Cardinality(members) >= snap.rf
            /\ Cardinality(members) >= snap.rings[h] - 1
            /\ isEmptyHashring(cm.table) => Cardinality(members) >= snap.rings[h]
        BY <1>1, <1>2, <3>2, <3>4, <4>0, SpecFields, MergeQuorum
      <4>2. members # {}
        <5>1. Cardinality({}) = 0
          BY FS_EmptySet
        <5>2. Cardinality(members) >= 1
          BY <3>2, <4>1
        <5> QED
          BY <5>1, <5>2
      <4>3. CASE Cardinality(members) >= snap.rings[h]
        BY <3>2, <4>0, <4>2, <4>3, SameCardinality DEF Promise!Routable
      <4>4. CASE ~ (Cardinality(members) >= snap.rings[h])
        <5>1. Cardinality(members) = snap.rings[h] - 1
          BY <3>2, <4>1, <4>4
        <5>2. \E g \in Rings : cm.table[g] # {}
          BY <4>1, <4>4 DEF isEmptyHashring
        <5> QED
          BY <3>2, <4>0, <4>2, <5>1, <5>2, SameCardinality DEF Promise!Routable
      <4> QED
        BY <4>3, <4>4
    <3> QED
      BY <3>3, <3>4
  <2> QED
    BY <2>1, <2>2
<1>4. cm'.table \in [Rings -> SUBSET Promise!Members]
  BY <1>2 DEF Table, View, Ordinals, Promise!Members
<1> QED
  BY <1>3, <1>4 DEF Promise!Route, CreateOrUpdateRouter, afterRouter

\* The ingesters step starts rings of the plan, and only these.
LEMMA IngestersStart ==
    ASSUME TypeOK, CreateOrUpdateIngesters
    PROVE  Promise!Start
<1> DEFINE new == {h \in InSpec(snap) : sts'[h] > 0}
<1>1. \A h \in Rings : sts'[h] > 0 <=> (sts[h] > 0 \/ h \in new)
  BY IngestersKeepOthers, SpecFields DEF InSpec, CreateOrUpdateIngesters
<1>2. {h \in Rings : sts'[h] > 0} = {h \in Rings : sts[h] > 0} \cup new
  BY <1>1 DEF InSpec
<1>3. new \in SUBSET {h \in Rings : snap.rings[h] > 0}
  BY DEF InSpec
<1> QED
  BY <1>2, <1>3 DEF Promise!Start, CreateOrUpdateIngesters

\* The prune step retires rings that are neither planned nor routed to.
LEMMA PruneRetires ==
    ASSUME "ConfigMap" \notin Lagging, TypeOK, RoutersKnown, PruneOrphanedResources
    PROVE  Promise!Retire
<1> DEFINE old == {h \in Rings : sts[h] > 0 /\ ~ (sts'[h] > 0)}
<1>1. PICK deleted \in SUBSET Rings :
         WriteStatefulSets([h \in Rings |-> IF h \in deleted THEN 0 ELSE sts[h]])
  BY DEF PruneOrphanedResources, orphans
<1>2. \A h \in Rings : sts'[h] > 0 => sts[h] > 0
  BY <1>1 DEF WriteStatefulSets
<1>3. {h \in Rings : sts'[h] > 0} = {h \in Rings : sts[h] > 0} \ old
  BY <1>2
<1>4. pc = "prune" /\ snap \in Specs
  BY DEF PruneOrphanedResources, TypeOK
<1>5. ASSUME NEW h \in old PROVE snap.rings[h] = 0 /\ cm.table[h] = {}
  <2>1. h \notin InSpec(snap)
    BY <1>5, PruneKeepsSpec
  <2>2. snap.rings[h] = 0
    BY <1>4, <2>1, SpecFields, Bounds DEF InSpec, Wanted
  <2> QED
    BY <1>4, <2>2 DEF RoutersKnown, RouterApplied
<1>6. old \in SUBSET {h \in Rings : snap.rings[h] = 0 /\ cm.table[h] = {}}
  BY <1>5
<1> QED
  BY <1>3, <1>4, <1>6 DEF Promise!Retire, PruneOrphanedResources, afterCleanup

\* The controller, with its caches, conflicts, failures and restarts, does to
\* rings and routes nothing that RoutingTable does not allow.
THEOREM Implements ==
    ASSUME "ConfigMap" \notin Lagging
    PROVE  Spec => KeepsPromise
<1>1. Init => Promise!Init
  <2> SUFFICES ASSUME Init PROVE Promise!Init
    OBVIOUS
  <2>1. spec.rings \in Wanted
    BY SpecFields DEF Init
  <2>2. NoRings \in Wanted
    BY Bounds DEF NoRings, Wanted
  <2>3. {h \in Rings : sts[h] > 0} = {}
    BY DEF Init, NoRings
  <2> QED
    BY <2>1, <2>2, <2>3 DEF Init, Promise!Init, Promise!Wish, Wanted, NoViews, Unread
<1>2. TypeOK /\ RoutersKnown /\ TypeOK' /\ [Next]_vars => [Promise!Next]_Promise!promise
  <2> SUFFICES ASSUME TypeOK, RoutersKnown, TypeOK', [Next]_vars
               PROVE  Promise!Next \/ UNCHANGED Promise!promise
    BY DEF Promise!promise
  <2>1. CASE CreateOrUpdateRouter
    <3>1. CASE cm'.table = cm.table
      BY <2>1, <3>1 DEF CreateOrUpdateRouter, afterRouter, Promise!promise
    <3> QED
      BY <2>1, <3>1, RouterRoutes DEF Promise!Next
  <2>2. CASE CreateOrUpdateIngesters
    BY <2>2, IngestersStart DEF Promise!Next
  <2>3. CASE PruneOrphanedResources
    BY <2>3, PruneRetires DEF Promise!Next
  <2>4. CASE EditSpec
    <3>1. spec'.rings \in Promise!Wish
      BY SpecFields DEF TypeOK, Promise!Wish, Wanted
    <3> QED
      BY <2>4, <3>1 DEF EditSpec, Promise!Next, Promise!Ask
  <2>5. CASE Reconcile
    BY <2>5 DEF Reconcile, Promise!Next, Promise!Take
  <2>6. CASE Report \/ Crash
    <3>1. NoRings \in Promise!Wish
      BY Bounds DEF NoRings, Promise!Wish
    <3>2. pc # "idle"
      BY <2>6 DEF Report, Crash
    <3>3. snap' = Unread /\ pc' = "idle" /\ UNCHANGED <<spec, cm, sts>>
      BY <2>6 DEF Report, Crash, Forget
    <3> QED
      BY <3>1, <3>2, <3>3 DEF Promise!Next, Promise!Rest, Unread
  <2>7. CASE ReadHashringConfig \/ ReadFails \/ \E h \in Rings : ReadEndpointSlices(h)
    BY <2>7 DEF ReadHashringConfig, ReadFails, ReadEndpointSlices, Promise!promise
  <2>8. CASE SyncConfigMap \/ ForeignStatusWrite \/ UNCHANGED vars
    BY <2>8 DEF SyncConfigMap, ForeignStatusWrite, vars, Promise!promise
  <2>9. CASE \E h \in Rings : PodReady(h) \/ PodUnready(h) \/ SyncStatefulSet(h)
    BY <2>9 DEF PodReady, PodUnready, SyncStatefulSet, Promise!promise
  <2> QED
    BY <2>1, <2>2, <2>3, <2>4, <2>5, <2>6, <2>7, <2>8, <2>9 DEF Next, Worker
<1> QED
  BY <1>1, <1>2, TypeCorrect, RoutersKnownAlways, PTL DEF Spec, KeepsPromise, Promise!Spec
-----------------------------------------------------------------------------
(***************************************************************************)
(* No wakeup is lost, whichever caches lag.  Whatever the worker writes    *)
(* that its caches do not yet show leaves the two apart, and the event that*)
(* brings them together queues the resource; an endpoint event is dropped  *)
(* only for a ring whose Service is not in the cache, and no settled ring  *)
(* is one.  So as long as nothing is queued and the caches are current,    *)
(* what the reconcile has done so far still stands.                        *)
(***************************************************************************)
CachesFollow ==
    /\ "StatefulSet" \notin Lagging => stsCache = sts
    /\ "ConfigMap" \notin Lagging => cmCache = cm

PausedAsRead == pc = "reportPaused" => snap.paused

CachesCurrent == cmCache = cm /\ stsCache = sts

Undisturbed == ~dirty /\ CachesCurrent

\* The ingesters, and the routers, of a spec are as another reconcile would
\* leave them.
InPlace(s) == \A h \in InSpec(s) : sts[h] = s.rings[h]

Published(s) ==
    /\ routerRF = s.rf
    /\ cm.exists
    /\ cm.table = Merge(s.policy, cm.table, s.rings, ready, s.rf)

\* What an undisturbed reconcile has brought about at each of its stages.
HasSettled ==
    /\ pc # "idle" => snap = spec
    /\ pc \in {"readConfig", "readSlices"} /\ ~errCount => InPlace(snap)
    /\ pc = "readSlices" => previous = cm.table
    /\ pc = "readSlices" /\ ~errCount => \A h \in InSpec(snap) \ todo : seen[h] = ready[h]
    /\ pc \in {"prune", "reportOK"} => InPlace(snap) /\ Published(snap)
    /\ pc = "reportOK" => sts = snap.rings
    /\ pc = "idle" /\ ~spec.paused => sts = spec.rings /\ Published(spec)

NoWakeupLost == CachesFollow /\ PausedAsRead /\ (Undisturbed => HasSettled)

\* A step that changes nothing HasSettled speaks of.
LEMMA StaysSettled ==
    ASSUME NoWakeupLost, Undisturbed', dirty => dirty',
           UNCHANGED <<environment, objects, pc, snap, previous, seen, todo, errCount>>
    PROVE  HasSettled'
<1>1. HasSettled
  BY DEF NoWakeupLost, Undisturbed, CachesCurrent
<1> QED
  BY <1>1 DEF HasSettled, InPlace, Published, InSpec

\* The caches are current at all times when they do not lag, and the worker
\* reports a pause only of a resource that was paused.
LEMMA CourseKept ==
    ASSUME CachesFollow, PausedAsRead, [Next]_vars
    PROVE  CachesFollow' /\ PausedAsRead'
<1> USE DEF CachesFollow, PausedAsRead
<1>1. CASE EditSpec \/ ForeignStatusWrite \/ UNCHANGED vars
  BY <1>1 DEF EditSpec, ForeignStatusWrite, vars
<1>2. ASSUME NEW h \in Rings, PodReady(h) \/ PodUnready(h) \/ SyncStatefulSet(h)
      PROVE  CachesFollow' /\ PausedAsRead'
  BY <1>2 DEF PodReady, PodUnready, SyncStatefulSet
<1>3. CASE SyncConfigMap
  BY <1>3 DEF SyncConfigMap
<1>4. CASE Reconcile
  BY <1>4 DEF Reconcile
<1>5. CASE CreateOrUpdateIngesters
  BY <1>5 DEF CreateOrUpdateIngesters, WriteStatefulSets
<1>6. CASE ReadHashringConfig \/ \E h \in Rings : ReadEndpointSlices(h)
  BY <1>6 DEF ReadHashringConfig, ReadEndpointSlices
<1>7. CASE CreateOrUpdateRouter
  BY <1>7 DEF CreateOrUpdateRouter, WriteConfigMap, afterRouter
<1>8. CASE PruneOrphanedResources
  BY <1>8 DEF PruneOrphanedResources, WriteStatefulSets, afterCleanup
<1>9. CASE Report \/ ReadFails \/ Crash
  BY <1>9 DEF Report, ReadFails, Crash
<1> QED
  BY <1>1, <1>2, <1>3, <1>4, <1>5, <1>6, <1>7, <1>8, <1>9 DEF Next, Worker

\* A pod that comes or goes without waking the controller is not of a ring of
\* a settled spec, so the merge is what it was.
LEMMA PodsSettle ==
    ASSUME TypeOK, NoWakeupLost, NEW h \in Rings, PodReady(h) \/ PodUnready(h), Undisturbed'
    PROVE  HasSettled'
<1>1. /\ UNCHANGED <<spec, objects, pc, snap, previous, seen, todo, errCount>>
      /\ ready \in Table /\ \A g \in Rings : g # h => ready'[g] = ready[g]
      /\ ~dirty /\ ~ (stsCache[h] > 0)
  BY DEF PodReady, PodUnready, SliceEvent, Undisturbed, TypeOK, Table
<1>2. HasSettled /\ ~ (sts[h] > 0) /\ sts \in Wanted
  BY <1>1 DEF NoWakeupLost, Undisturbed, CachesCurrent, TypeOK
<1>3. ASSUME NEW s \in Specs, InPlace(s)
      PROVE  /\ \A g \in InSpec(s) : ready'[g] = ready[g]
             /\ Published(s) => Published(s)'
  <2>1. h \notin InSpec(s)
    BY <1>2, <1>3 DEF InPlace, InSpec
  <2>2. \A g \in InSpec(s) : ready'[g] = ready[g]
    BY <1>1, <2>1 DEF InSpec
  <2>3. Merge(s.policy, cm.table, s.rings, ready, s.rf) = Merge(s.policy, cm.table, s.rings, ready', s.rf)
    BY <2>2, SpecFields, MergeReadsOnlyTheSpec DEF InSpec
  <2> QED
    BY <1>1, <2>2, <2>3 DEF Published
<1>4. CASE pc = "idle"
  <2>1. sts = spec.rings => InPlace(spec)
    BY DEF InPlace
  <2> QED
    BY <1>1, <1>2, <1>3, <1>4, <2>1 DEF HasSettled, TypeOK
<1>5. CASE pc # "idle"
  <2>1. snap \in Specs /\ (InPlace(snap) => InPlace(snap)')
    BY <1>1, <1>5 DEF TypeOK, InPlace, InSpec
  <2>2. CASE pc \in {"readConfig", "readSlices"}
    BY <1>1, <1>2, <1>3, <2>1, <2>2 DEF HasSettled, InSpec
  <2>3. CASE pc \in {"prune", "reportOK"}
    BY <1>1, <1>2, <1>3, <2>1, <2>3 DEF HasSettled
  <2> QED
    BY <1>1, <1>2, <1>5, <2>2, <2>3 DEF HasSettled
<1> QED
  BY <1>4, <1>5
\* The ingesters step of an undisturbed reconcile writes nothing, and finds
\* every ingester in place or counts an error.
LEMMA IngestersSettle ==
    ASSUME TypeOK, NoWakeupLost, CreateOrUpdateIngesters, Undisturbed'
    PROVE  HasSettled'
<1> DEFINE different == {h \in InSpec(snap) : stsCache[h] # snap.rings[h]}
           conflicts == {h \in different : stsCache[h] # sts[h]}
<1>1. PICK failed \in SUBSET (different \ conflicts) :
         LET written == different \ (conflicts \cup failed)
         IN /\ WriteStatefulSets([h \in Rings |-> IF h \in written THEN snap.rings[h] ELSE sts[h]])
            /\ dirty' = (dirty \/ (written # {} /\ "StatefulSet" \notin Lagging))
            /\ conflicts \cup failed # {} => errCount'
  BY DEF CreateOrUpdateIngesters
<1> DEFINE written == different \ (conflicts \cup failed)
<1>2. /\ pc = "ingesters" /\ pc' = "readConfig" /\ UNCHANGED <<environment, cm, cmCache, snap>>
      /\ sts \in Wanted /\ sts' = stsCache' /\ ~dirty /\ cmCache = cm
      /\ sts' = [h \in Rings |-> IF h \in written THEN snap.rings[h] ELSE sts[h]]
  BY <1>1 DEF CreateOrUpdateIngesters, Undisturbed, CachesCurrent, TypeOK, WriteStatefulSets
<1>3. written = {}
  <2>1. CASE "StatefulSet" \notin Lagging
    BY <1>1, <2>1 DEF Undisturbed
  <2>2. CASE "StatefulSet" \in Lagging
    <3>1. stsCache' = stsCache
      BY <1>1, <2>2 DEF WriteStatefulSets
    <3>2. \A h \in written : h \in Rings /\ stsCache[h] # snap.rings[h]
      BY DEF InSpec
    <3> QED
      BY <1>2, <3>1, <3>2
  <2> QED
    BY <2>1, <2>2
<1>4. sts' = sts
  BY <1>2, <1>3 DEF Wanted
<1>5. stsCache = sts
  BY <1>1, <1>2, <1>4 DEF NoWakeupLost, CachesFollow, WriteStatefulSets
<1>6. HasSettled
  BY <1>2, <1>5 DEF NoWakeupLost, Undisturbed, CachesCurrent
<1>7. ASSUME ~errCount', NEW h \in InSpec(snap) PROVE sts[h] = snap.rings[h]
  <2>1. h \notin different
    BY <1>1, <1>3, <1>7
  <2> QED
    BY <1>5, <2>1
<1> HIDE DEF different, conflicts
<1> QED
  BY <1>2, <1>4, <1>6, <1>7 DEF HasSettled, InPlace, InSpec

\* The reads of an undisturbed reconcile are of what is there.
LEMMA ReadsSettle ==
    ASSUME TypeOK, NoWakeupLost, Undisturbed',
           ReadHashringConfig \/ \E h \in Rings : ReadEndpointSlices(h)
    PROVE  HasSettled'
<1>1. /\ UNCHANGED <<environment, objects, dirty, snap, errCount>> /\ pc' = "readSlices"
      /\ pc \in {"readConfig", "readSlices"}
  BY DEF ReadHashringConfig, ReadEndpointSlices
<1>2. HasSettled /\ cmCache = cm
  BY <1>1 DEF NoWakeupLost, Undisturbed, CachesCurrent
<1>3. snap' = spec' /\ (~errCount' => InPlace(snap)')
  BY <1>1, <1>2 DEF HasSettled, InPlace, InSpec
<1>4. CASE ReadHashringConfig
  <2>1. previous' = cm.table /\ todo' = InSpec(snap)
    BY <1>2, <1>4 DEF ReadHashringConfig
  <2> QED
    BY <1>1, <1>3, <2>1 DEF HasSettled, InSpec
<1>5. ASSUME NEW h \in Rings, ReadEndpointSlices(h) PROVE HasSettled'
  <2>1. /\ seen' = [seen EXCEPT ![h] = ready[h]] /\ todo' = todo \ {h} /\ previous' = previous
        /\ pc = "readSlices" /\ seen \in Table
    BY <1>5 DEF ReadEndpointSlices, TypeOK
  <2>2. ASSUME ~errCount', NEW g \in InSpec(snap) \ todo' PROVE seen'[g] = ready[g]
    <3>1. CASE g = h
      BY <2>1, <3>1 DEF Table
    <3>2. CASE g # h
      BY <1>1, <1>2, <2>1, <2>2, <3>2 DEF HasSettled, InSpec, Table
    <3> QED
      BY <3>1, <3>2
  <2> QED
    BY <1>1, <1>2, <1>3, <2>1, <2>2 DEF HasSettled, InSpec
<1> QED
  BY <1>4, <1>5

\* The router step of an undisturbed reconcile finds the configuration as it
\* would write it, or reports an error.
LEMMA RouterSettles ==
    ASSUME TypeOK, NoWakeupLost, CreateOrUpdateRouter, Undisturbed'
    PROVE  HasSettled'
<1> DEFINE new == [exists |-> TRUE, table |-> hashringConfig]
           conflict == cmCache # new /\ cmCache # cm
<1>1. new.exists /\ new.table = hashringConfig
  OBVIOUS
<1> HIDE DEF new
<1>2. PICK cmFails, deploymentFails \in BOOLEAN :
         LET write == cmCache # new /\ ~conflict /\ ~cmFails
         IN /\ WriteConfigMap(IF write THEN new ELSE cm)
            /\ dirty' = (dirty \/ (write /\ "ConfigMap" \notin Lagging))
            /\ routerRF' = IF deploymentFails THEN routerRF ELSE snap.rf
            /\ pc' = IF conflict \/ cmFails \/ deploymentFails \/ errCount
                       THEN "reportError" ELSE "prune"
  BY DEF CreateOrUpdateRouter, afterRouter, new
<1>3. /\ pc = "readSlices" /\ todo = {} /\ ~dirty /\ cm' = cmCache'
      /\ UNCHANGED <<environment, sts, stsCache, locals>> /\ stsCache = sts
  BY <1>2 DEF CreateOrUpdateRouter, Undisturbed, CachesCurrent
<1>4. ~ (cmCache # new /\ ~conflict /\ ~cmFails) /\ cm' = cm
  BY <1>2, <1>3 DEF WriteConfigMap, Undisturbed
<1>5. cmCache = cm
  BY <1>2, <1>3, <1>4 DEF NoWakeupLost, CachesFollow, WriteConfigMap
<1>6. HasSettled
  BY <1>3, <1>5 DEF NoWakeupLost, Undisturbed, CachesCurrent
<1>7. CASE pc' = "reportError"
  BY <1>3, <1>6, <1>7 DEF HasSettled
<1>8. CASE pc' = "prune"
  <2>1. ~cmFails /\ ~deploymentFails /\ ~errCount
    BY <1>2, <1>8
  <2>2. cm = new /\ routerRF' = snap.rf
    BY <1>2, <1>4, <1>5, <2>1
  <2>3. /\ snap = spec /\ InPlace(snap) /\ previous = cm.table
        /\ \A h \in InSpec(snap) : seen[h] = ready[h]
    BY <1>3, <1>6, <2>1 DEF HasSettled
  <2>4. snap \in Specs
    BY <1>3 DEF TypeOK
  <2>5. hashringConfig = Merge(snap.policy, cm.table, snap.rings, ready, snap.rf)
    BY <2>3, <2>4, SpecFields, MergeReadsOnlyTheSpec DEF InSpec, hashringConfig
  <2>6. Published(snap)'
    BY <1>1, <1>3, <1>4, <2>2, <2>5 DEF Published
  <2>7. InPlace(snap)'
    BY <1>3, <2>3 DEF InPlace, InSpec
  <2> QED
    BY <1>3, <1>8, <2>3, <2>6, <2>7 DEF HasSettled
<1> QED
  BY <1>2, <1>7, <1>8

\* The prune step of an undisturbed reconcile deletes nothing: there was no
\* orphan, or none could be deleted.
LEMMA PruneSettles ==
    ASSUME TypeOK, NoWakeupLost, PruneOrphanedResources, Undisturbed'
    PROVE  HasSettled'
<1>1. PICK failed \in SUBSET orphans :
         LET deleted == {h \in orphans \ failed : sts[h] > 0}
         IN /\ WriteStatefulSets([h \in Rings |-> IF h \in deleted THEN 0 ELSE sts[h]])
            /\ dirty' = (dirty \/ (deleted # {} /\ "StatefulSet" \notin Lagging))
            /\ pc' = afterCleanup(failed # {})
  BY DEF PruneOrphanedResources
<1> DEFINE deleted == {h \in orphans \ failed : sts[h] > 0}
<1>2. /\ pc = "prune" /\ UNCHANGED <<environment, cm, cmCache, routerRF, locals>>
      /\ sts \in Wanted /\ sts' = stsCache' /\ ~dirty /\ cmCache = cm
      /\ sts' = [h \in Rings |-> IF h \in deleted THEN 0 ELSE sts[h]]
  BY <1>1 DEF PruneOrphanedResources, Undisturbed, CachesCurrent, TypeOK, WriteStatefulSets
<1>3. deleted = {}
  <2>1. CASE "StatefulSet" \notin Lagging
    BY <1>1, <2>1 DEF Undisturbed
  <2>2. CASE "StatefulSet" \in Lagging
    <3>1. stsCache' = stsCache
      BY <1>1, <2>2 DEF WriteStatefulSets
    <3>2. ASSUME NEW h \in deleted PROVE FALSE
      <4>1. h \in Rings /\ stsCache[h] > 0
        BY DEF orphans
      <4>2. sts'[h] = 0
        BY <1>2, <4>1
      <4>3. stsCache = sts'
        BY <1>2, <3>1
      <4> QED
        BY <4>1, <4>2, <4>3
    <3> QED
      BY <3>2
  <2> QED
    BY <2>1, <2>2
<1>4. sts' = sts
  BY <1>2, <1>3 DEF Wanted
<1>5. stsCache = sts
  BY <1>1, <1>2, <1>4 DEF NoWakeupLost, CachesFollow, WriteStatefulSets
<1>6. /\ snap = spec /\ InPlace(snap) /\ Published(snap)
  BY <1>2, <1>5 DEF NoWakeupLost, Undisturbed, CachesCurrent, HasSettled
<1>7. /\ snap' = spec' /\ InPlace(snap)' /\ Published(snap)'
  BY <1>2, <1>4, <1>6 DEF InPlace, Published, InSpec
<1>8. CASE pc' = "reportError"
  BY <1>7, <1>8 DEF HasSettled
<1>9. CASE pc' = "reportOK"
  <2>1. failed = {}
    BY <1>1, <1>9 DEF afterCleanup
  <2>2. \A h \in orphans : ~ (sts[h] > 0)
    BY <1>3, <2>1
  <2>3. snap \in Specs /\ snap.rings \in Wanted
    BY <1>2, SpecFields DEF TypeOK
  <2>4. ASSUME NEW h \in Rings PROVE sts[h] = snap.rings[h]
    <3>1. CASE snap.rings[h] > 0
      BY <1>6, <3>1 DEF InPlace, InSpec
    <3>2. CASE ~ (snap.rings[h] > 0)
      <4>1. snap.rings[h] = 0 /\ sts[h] \in Nat
        BY <1>2, <2>3, <3>2, Bounds DEF Wanted
      <4>2. ~ (sts[h] > 0)
        BY <1>5, <2>2, <4>1 DEF orphans
      <4> QED
        BY <4>1, <4>2
    <3> QED
      BY <3>1, <3>2
  <2>5. sts = snap.rings
    BY <1>2, <2>3, <2>4 DEF Wanted
  <2> QED
    BY <1>2, <1>4, <1>7, <1>9, <2>5 DEF HasSettled
<1> HIDE DEF deleted
<1> QED
  BY <1>1, <1>8, <1>9 DEF afterCleanup

\* What a report leaves at rest is what the reconcile has brought about.
LEMMA ReportSettles ==
    ASSUME NoWakeupLost, Report, Undisturbed'
    PROVE  HasSettled'
<1>1. UNCHANGED <<environment, objects>> /\ pc' = "idle"
  BY DEF Report
<1>2. CASE pc = "reportError"
  BY <1>2 DEF Report, updateCondition, Undisturbed
<1>3. CASE pc \in {"reportOK", "reportPaused"}
  <2>1. ~dirty
    BY <1>3 DEF Report, updateCondition, Undisturbed
  <2>2. /\ snap = spec
        /\ pc = "reportOK" => sts = snap.rings /\ Published(snap)
    BY <1>1, <1>3, <2>1 DEF NoWakeupLost, Undisturbed, CachesCurrent, HasSettled
  <2>3. pc = "reportPaused" => snap.paused
    BY DEF NoWakeupLost, PausedAsRead
  <2>4. pc = "reportOK" => Published(spec)'
    BY <1>1, <2>2 DEF Published
  <2> QED
    BY <1>1, <1>3, <2>2, <2>3, <2>4 DEF HasSettled
<1> QED
  BY <1>2, <1>3 DEF Report

\* Whichever caches lag, every step keeps what makes up for a wakeup that was dropped.
LEMMA NoWakeupLostAlways == Spec => []NoWakeupLost
<1>1. Init => NoWakeupLost
  BY DEF Init, NoWakeupLost, CachesFollow, PausedAsRead, Undisturbed
<1>2. TypeOK /\ NoWakeupLost /\ [Next]_vars => NoWakeupLost'
  <2> SUFFICES ASSUME TypeOK, NoWakeupLost, [Next]_vars PROVE NoWakeupLost'
    OBVIOUS
  <2>0. CachesFollow' /\ PausedAsRead'
    BY CourseKept DEF NoWakeupLost
  <2> SUFFICES ASSUME Undisturbed' PROVE HasSettled'
    BY <2>0 DEF NoWakeupLost
  <2>1. CASE EditSpec \/ ForeignStatusWrite \/ SyncConfigMap \/ Crash
    BY <2>1 DEF EditSpec, ForeignStatusWrite, SyncConfigMap, Crash, Undisturbed
  <2>2. ASSUME NEW h \in Rings, PodReady(h) \/ PodUnready(h) PROVE HasSettled'
    BY <2>2, PodsSettle
  <2>3. ASSUME NEW h \in Rings, SyncStatefulSet(h) PROVE FALSE
    BY <2>3 DEF SyncStatefulSet, Undisturbed
  <2>4. CASE Reconcile
    BY <2>4 DEF Reconcile, HasSettled
  <2>5. CASE CreateOrUpdateIngesters
    BY <2>5, IngestersSettle
  <2>6. CASE ReadHashringConfig \/ \E h \in Rings : ReadEndpointSlices(h)
    BY <2>6, ReadsSettle
  <2>7. CASE CreateOrUpdateRouter
    BY <2>7, RouterSettles
  <2>8. CASE PruneOrphanedResources
    BY <2>8, PruneSettles
  <2>9. CASE Report
    BY <2>9, ReportSettles
  <2>10. CASE ReadFails
    <3>1. snap = spec
      BY <2>10 DEF ReadFails, NoWakeupLost, Undisturbed, CachesCurrent, HasSettled
    <3> QED
      BY <2>10, <3>1 DEF ReadFails, HasSettled
  <2>11. CASE UNCHANGED vars
    BY <2>11, StaysSettled DEF vars
  <2> QED
    BY <2>1, <2>2, <2>3, <2>4, <2>5, <2>6, <2>7, <2>8, <2>9, <2>10, <2>11 DEF Next, Worker
<1> QED
  BY <1>1, <1>2, TypeCorrect, PTL DEF Spec

\* A controller at rest whose caches are current has nothing left to do: the
\* StatefulSets and the routers are as the spec says, and the published table
\* is the merge of itself with the endpoints there are, after any interleaving
\* of edits, pods, late events, failed calls and crashes (SetupWithManager and
\* enqueueForEndpointSlice of thanosreceive_controller.go).
THEOREM RestSettled == Spec => []RestsOnlyWhenSettled
<1>1. NoWakeupLost => RestsOnlyWhenSettled
  BY DEF NoWakeupLost, Undisturbed, CachesCurrent, HasSettled, Published,
         RestsOnlyWhenSettled, Quiescent
<1> QED
  BY <1>1, NoWakeupLostAlways, PTL
=============================================================================
