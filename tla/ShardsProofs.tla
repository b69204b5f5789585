----------------------------- MODULE ShardsProofs -----------------------------
(***************************************************************************)
(* What holds of ShardedWorkloads for any shards, blocks and faults.       *)
(***************************************************************************)
EXTENDS ShardedWorkloads, TLAPS

-----------------------------------------------------------------------------
\* Whatever specToOptions returns is a layout (compact and store).
LEMMA LayoutType ==
    ASSUME NEW k, NEW layout \in specToOptions(k)
    PROVE  layout \in Layout
<1>0. Unsharded \in Layout
  BY DEF Unsharded, Layout
<1>1. ASSUME NEW s \in Shardings PROVE compactOptions(s) \in Layout
  BY <1>0 DEF compactOptions, Layout, Kept
<1>2. ASSUME NEW n \in ShardCounts PROVE storeOptions(n) \in Layout
  BY <1>0 DEF storeOptions, Layout
<1>3. CASE k = "compact"
  BY <1>1, <1>3 DEF specToOptions
<1>4. CASE k # "compact"
  BY <1>2, <1>4 DEF specToOptions
<1> QED
  BY <1>3, <1>4

\* What a user may ask for is a layout of the resource's kind.
LEMMA ResourceType ==
    ASSUME NEW r \in Resources(kind)
    PROVE  r.layout \in Layout /\ r.layout \in specToOptions(kind) /\ r.paused \in BOOLEAN
<1>1. r.layout \in specToOptions(kind) /\ r.paused \in Pauses
  BY DEF Resources
<1> QED
  BY <1>1, LayoutType, FlagsAssumption

\* The shards of a ThanosStore divide the blocks: each is kept by exactly one
\* (specToOptions of thanosstore_controller.go).
THEOREM EveryBlockOnce ==
    ASSUME NEW n \in 0 .. MaxShards, NEW b \in Blocks
    PROVE  \E i \in Named(storeOptions(n)) :
              /\ b \in storeOptions(n)[i]
              /\ \A j \in Named(storeOptions(n)) : b \in storeOptions(n)[j] => j = i
<1>1. CASE n \in {0, 1}
  <2>1. storeOptions(n) = Unsharded
    BY <1>1 DEF storeOptions
  <2>2. Named(Unsharded) = {Whole} /\ Unsharded[Whole] = Blocks
    BY AbsentAssumption DEF Named, Unsharded, Instances
  <2> QED
    BY <2>1, <2>2
<1>2. CASE n \notin {0, 1}
  <2> DEFINE layout == storeOptions(n)
             i == b % n
             Share(j) == {c \in Blocks : c % n = j}
  <2>1. n \in Nat /\ n >= 2 /\ n <= MaxShards /\ b \in Nat
    BY <1>2, MaxShardsAssumption, BlocksAssumption
  <2>2. i \in 0 .. n - 1
    BY <2>1
  <2>3. \A j \in 0 .. n - 1 : j \in Instances
    BY <2>1, MaxShardsAssumption DEF Instances
  <2>4. layout = [j \in Instances |-> IF j \in 0 .. n - 1 THEN Share(j) ELSE Absent]
    BY <1>2 DEF storeOptions
  <2>5. \A j : Share(j) # Absent
    BY AbsentAssumption
  <2>6. b \in Share(i) /\ \A j : b \in Share(j) => j = i
    OBVIOUS
  <2> HIDE DEF layout, i, Share
  <2>7. Named(layout) = 0 .. n - 1
    BY <2>3, <2>4, <2>5 DEF Named
  <2>8. \A j \in 0 .. n - 1 : layout[j] = Share(j)
    BY <2>3, <2>4
  <2>9. \E m \in Named(layout) :
           b \in layout[m] /\ \A j \in Named(layout) : b \in layout[j] => j = m
    BY <2>2, <2>6, <2>7, <2>8
  <2> QED
    BY <2>9 DEF layout
<1> QED
  BY <1>1, <1>2

-----------------------------------------------------------------------------
\* What a write leaves is a layout.
LEMMA WrittenType ==
    ASSUME sts \in Layout, NEW layout \in Layout, NEW i \in Instances
    PROVE  [sts EXCEPT ![i] = layout[i]] \in Layout
  BY DEF Layout

\* What is written, if anything, is the instance of the layout held.
LEMMA Writes ==
    ASSUME TypeOK, NEW i \in Instances, CreateOrUpdate(i)
    PROVE  /\ pc = "write" /\ i \in todo /\ todo' = todo \ {i}
           /\ UNCHANGED <<kind, spec, status, snap>>
           /\ sts' = sts \/ sts' = [sts EXCEPT ![i] = snap.layout[i]]
           /\ stsCache' = IF CacheLags THEN stsCache ELSE sts'
           /\ dirty' \in BOOLEAN /\ errCount' \in BOOLEAN /\ faults' \in 0 .. MaxFaults
           /\ ~errCount' /\ stsCache = sts => ~errCount /\ sts'[i] = snap.layout[i]
           /\ pc' = IF todo' = {} THEN afterWrites(errCount') ELSE "write"
<1>0. PICK failed \in BOOLEAN, another \in BOOLEAN :
         LET desired  == snap.layout[i]
             conflict == stsCache[i] # desired /\ stsCache[i] # sts[i]
         IN /\ Fails(IF failed \/ another THEN 1 ELSE 0)
            /\ WriteStatefulSets(IF stsCache[i] = desired \/ conflict \/ failed
                                   THEN sts ELSE [sts EXCEPT ![i] = desired])
            /\ errCount' = (errCount \/ conflict \/ failed \/ another)
            /\ pc' = IF todo' = {} THEN afterWrites(errCount') ELSE "write"
  BY DEF CreateOrUpdate
<1>1. /\ pc = "write" /\ i \in todo /\ todo' = todo \ {i}
      /\ UNCHANGED <<kind, spec, status, snap>>
  BY DEF CreateOrUpdate
<1>2. faults' \in 0 .. MaxFaults
  BY <1>0, FaultsAssumption DEF Fails, TypeOK
<1>3. /\ sts' = sts \/ sts' = [sts EXCEPT ![i] = snap.layout[i]]
      /\ stsCache' = IF CacheLags THEN stsCache ELSE sts'
      /\ dirty' \in BOOLEAN /\ errCount' \in BOOLEAN
  BY <1>0 DEF WriteStatefulSets, TypeOK
<1>4. ASSUME ~errCount', stsCache = sts PROVE ~errCount /\ sts'[i] = snap.layout[i]
  BY <1>0, <1>4 DEF WriteStatefulSets, TypeOK, Layout
<1> QED
  BY <1>0, <1>1, <1>2, <1>3, <1>4

\* What pruning deletes are orphans, all of them unless it fails.
LEMMA Prunes ==
    ASSUME TypeOK, pruneOrphanedResources
    PROVE  /\ pc = "prune" /\ UNCHANGED <<kind, spec, status, snap, todo, errCount>>
           /\ sts' \in Layout /\ \A i \in Instances : sts'[i] \in {sts[i], Absent}
           /\ \A i \in Named(snap.layout) : sts'[i] = sts[i]
           /\ stsCache' = IF CacheLags THEN stsCache ELSE sts'
           /\ dirty' \in BOOLEAN /\ faults' \in 0 .. MaxFaults
           /\ pc' \in {"reportError", IF kind = "compact" THEN "write" ELSE "reportOK"}
           /\ pc' # "reportError" /\ stsCache = sts => Fits(sts', snap.layout)
<1>0. PICK failed \in SUBSET (orphans \cap Named(sts)), another \in BOOLEAN :
         LET errors == failed # {} \/ another
         IN /\ Fails(IF errors THEN 1 ELSE 0)
            /\ WriteStatefulSets([i \in Instances |->
                   IF i \in orphans \ failed THEN Absent ELSE sts[i]])
            /\ pc' = afterPrune(errors)
  BY DEF pruneOrphanedResources
<1>1. pc = "prune" /\ UNCHANGED <<kind, spec, status, snap, todo, errCount>>
  BY DEF pruneOrphanedResources
<1>2. faults' \in 0 .. MaxFaults
  BY <1>0, FaultsAssumption DEF Fails, TypeOK
<1>3. /\ sts' = [i \in Instances |-> IF i \in orphans \ failed THEN Absent ELSE sts[i]]
      /\ stsCache' = IF CacheLags THEN stsCache ELSE sts'
      /\ dirty' \in BOOLEAN
  BY <1>0 DEF WriteStatefulSets, TypeOK
<1>4. pc' \in {"reportError", IF kind = "compact" THEN "write" ELSE "reportOK"}
  BY <1>0 DEF afterPrune
<1>5. ASSUME pc' # "reportError", stsCache = sts PROVE Fits(sts', snap.layout)
  <2>1. failed = {}
    BY <1>0, <1>5 DEF afterPrune
  <2> QED
    BY <1>3, <1>5, <2>1 DEF Fits, Named, orphans
<1>6. sts' \in Layout /\ \A i \in Instances : sts'[i] \in {sts[i], Absent}
  BY <1>3 DEF Layout, TypeOK
<1>7. \A i \in Named(snap.layout) : sts'[i] = sts[i]
  BY <1>3 DEF orphans, Named
<1> QED
  BY <1>1, <1>2, <1>3, <1>4, <1>5, <1>6, <1>7

\* Every value keeps its type, with and without a lagging cache.
THEOREM ShardsTypeCorrect == Spec => []TypeOK
<1>1. Init => TypeOK
  <2> SUFFICES ASSUME Init PROVE TypeOK
    OBVIOUS
  <2>1. Nothing \in Layout
    BY DEF Nothing, Layout
  <2>2. Unread.layout = Nothing
    BY DEF Unread
  <2>3. 0 \in 0 .. MaxFaults
    BY FaultsAssumption
  <2> QED
    BY <2>1, <2>2, <2>3 DEF Init, TypeOK, Statuses, Stages
<1>2. TypeOK /\ [Next]_vars => TypeOK'
  <2> SUFFICES ASSUME TypeOK, [Next]_vars PROVE TypeOK'
    OBVIOUS
  <2> USE DEF TypeOK
  <2>0. /\ Unread.layout = Nothing /\ Named(Nothing) = {}
        /\ \A k : Fails(k) /\ k \in {0, 1} => faults' \in 0 .. MaxFaults
    BY FaultsAssumption DEF Unread, Nothing, Named, Fails
  <2>1. CASE EditSpec
    BY <2>1 DEF EditSpec, Resources
  <2>2. ASSUME NEW i \in Instances, SyncStatefulSet(i) PROVE TypeOK'
    BY <2>2 DEF SyncStatefulSet, Layout
  <2>3. CASE Reconcile
    <3>1. CASE spec.paused
      <4>1. todo = {}
        BY <2>0, <2>3 DEF Reconcile
      <4> QED
        BY <2>3, <3>1, <4>1 DEF Reconcile, Stages
    <3>2. CASE ~spec.paused
      BY <2>3, <3>2 DEF Reconcile, Stages, syncResources, Resources
    <3> QED
      BY <3>1, <3>2
  <2>4. CASE pruneOrphanedResources
    <3>1. snap \in Resources(kind)
      BY <2>4, Prunes
    <3> QED
      BY <2>4, <3>1, Prunes DEF Stages
  <2>5. ASSUME NEW i \in Instances, CreateOrUpdate(i) PROVE TypeOK'
    <3>1. snap \in Resources(kind) /\ snap.layout \in Layout
      BY <2>5, Writes, ResourceType
    <3>2. sts' \in Layout
      BY <2>5, <3>1, Writes, WrittenType
    <3>3. /\ pc = "write" /\ todo' = todo \ {i} /\ UNCHANGED <<kind, spec, status, snap>>
          /\ stsCache' = IF CacheLags THEN stsCache ELSE sts'
          /\ dirty' \in BOOLEAN /\ errCount' \in BOOLEAN /\ faults' \in 0 .. MaxFaults
      BY <2>5, Writes
    <3>4. pc' \in Stages /\ pc' # "idle"
      BY <2>5, Writes DEF afterWrites, Stages
    <3> QED
      BY <3>1, <3>2, <3>3, <3>4
  <2>6. CASE Report
    BY <2>0, <2>6 DEF Report, Forget, updateCondition, Stages, Statuses
  <2>7. CASE Crash
    BY <2>0, <2>7 DEF Crash, Forget, Stages
  <2>8. CASE UNCHANGED vars
    BY <2>8 DEF vars
  <2> QED
    BY <2>1, <2>2, <2>3, <2>4, <2>5, <2>6, <2>7, <2>8 DEF Next, Worker
<1> QED
  BY <1>1, <1>2, PTL DEF Spec

-----------------------------------------------------------------------------
(***************************************************************************)
(* From here on the cache shows the operator's own writes at once.         *)
(***************************************************************************)

\* What the worker knows only changes when it moves or writes.
LEMMA AtRest ==
    ASSUME CacheCurrent', pc' \in {"idle", "reportError", "reportPaused"}
    PROVE  WorkerKnows'
  BY DEF WorkerKnows, OrphansGone, WrittenAsAsked, AllWritten, Done

\* What the worker knows rests on the StatefulSets, their cache and the worker only.
LEMMA KnowledgeStays ==
    ASSUME WorkerKnows, UNCHANGED <<kind, sts, stsCache, pc, snap, todo, errCount>>
    PROVE  WorkerKnows'
  BY DEF WorkerKnows, CacheCurrent, OrphansGone, WrittenAsAsked, AllWritten, Done, Fits, Named

\* Two layouts are equal when one has no instance the other lacks, and all
\* instances of the other as they are there.
LEMMA SameLayout ==
    ASSUME NEW some \in Layout, NEW layout \in Layout, Fits(some, layout),
           \A i \in Named(layout) : some[i] = layout[i]
    PROVE  some = layout
<1>1. ASSUME NEW i \in Instances PROVE some[i] = layout[i]
  <2>1. CASE i \in Named(layout)
    BY <2>1
  <2>2. CASE i \notin Named(layout)
    BY <2>2 DEF Fits, Named
  <2> QED
    BY <2>1, <2>2
<1> QED
  BY <1>1 DEF Layout

\* A pruning step leaves compact with nothing but shards of its layout, and
\* store with exactly its layout.
LEMMA PruneKnows ==
    ASSUME ~CacheLags, TypeOK, WorkerKnows, pruneOrphanedResources
    PROVE  WorkerKnows'
<1> USE DEF CacheCurrent
<1>1. CacheCurrent' /\ pc = "prune"
  BY Prunes
<1>2. CASE pc' = "reportError"
  BY <1>1, <1>2, AtRest
<1>3. CASE pc' # "reportError"
  <2>1. Fits(sts', snap.layout) /\ sts' \in Layout /\ UNCHANGED <<kind, snap, todo, errCount>>
    BY <1>3, Prunes DEF WorkerKnows
  <2>2. snap.layout \in Layout
    BY <1>1, ResourceType DEF TypeOK
  <2>3. CASE kind = "compact"
    <3>1. pc' = "write" /\ todo = Named(snap.layout)
      BY <1>1, <1>3, <2>3, Prunes DEF WorkerKnows, OrphansGone
    <3> QED
      BY <1>1, <2>1, <2>3, <3>1
      DEF WorkerKnows, OrphansGone, WrittenAsAsked, AllWritten, Done, Fits, Named
  <2>4. CASE kind # "compact"
    <3>1. kind = "store" /\ pc' = "reportOK"
      BY <1>3, <2>4, Prunes, KindsAssumption DEF TypeOK
    <3>2. \A i \in Named(snap.layout) : sts'[i] = snap.layout[i]
      BY <1>1, <3>1, Prunes DEF WorkerKnows, AllWritten
    <3>3. sts' = snap'.layout
      BY <2>1, <2>2, <3>2, SameLayout
    <3> QED
      BY <1>1, <2>1, <3>1, <3>3 DEF WorkerKnows, OrphansGone, WrittenAsAsked, AllWritten, Done
  <2> QED
    BY <2>3, <2>4
<1> QED
  BY <1>2, <1>3

\* A write brings one more instance to where the spec wants it, or is counted.
LEMMA WriteKnows ==
    ASSUME ~CacheLags, TypeOK, WorkerKnows, NEW i \in Instances, CreateOrUpdate(i)
    PROVE  WorkerKnows'
<1>1. /\ CacheCurrent' /\ stsCache = sts /\ UNCHANGED <<kind, snap>>
      /\ pc = "write" /\ i \in todo /\ todo' = todo \ {i}
      /\ pc' = IF todo' = {} THEN afterWrites(errCount') ELSE "write"
      /\ sts' = sts \/ sts' = [sts EXCEPT ![i] = snap.layout[i]]
      /\ ~errCount' => ~errCount /\ sts'[i] = snap.layout[i]
  BY Writes DEF WorkerKnows, CacheCurrent
<1>2. /\ snap.layout \in Layout /\ sts \in Layout /\ sts' \in Layout
      /\ todo \subseteq Named(snap.layout) /\ kind \in {"compact", "store"}
  BY <1>1, ResourceType, WrittenType, KindsAssumption DEF TypeOK
<1>3. \A j \in Instances : j # i => sts'[j] = sts[j]
  BY <1>1, <1>2 DEF Layout
<1>4. ASSUME ~errCount', NEW j \in Named(snap.layout) \ todo' PROVE sts'[j] = snap.layout[j]
  <2>1. j \in Instances
    BY DEF Named
  <2>2. CASE j = i
    BY <1>1, <1>4, <2>2
  <2>3. CASE j # i
    BY <1>1, <1>3, <1>4, <2>1, <2>3 DEF WorkerKnows, WrittenAsAsked
  <2> QED
    BY <2>2, <2>3
<1>5. ASSUME kind = "compact" PROVE Fits(sts', snap.layout)
  BY <1>1, <1>2, <1>3, <1>5 DEF WorkerKnows, OrphansGone, Fits, Named
<1>6. CASE todo' # {}
  BY <1>1, <1>4, <1>5, <1>6 DEF WorkerKnows, OrphansGone, WrittenAsAsked, AllWritten, Done, Fits, Named
<1>7. CASE todo' = {} /\ errCount'
  BY <1>1, <1>7, AtRest DEF afterWrites
<1>8. CASE todo' = {} /\ ~errCount'
  <2>1. \A j \in Named(snap.layout) : sts'[j] = snap.layout[j]
    BY <1>4, <1>8
  <2>2. CASE kind = "compact"
    <3>1. pc' = "reportOK" /\ sts' = snap.layout
      BY <1>1, <1>2, <1>5, <1>8, <2>1, <2>2, SameLayout DEF afterWrites
    <3> QED
      BY <1>1, <2>2, <3>1 DEF WorkerKnows, OrphansGone, WrittenAsAsked, AllWritten, Done
  <2>3. CASE kind = "store"
    <3>1. pc' = "prune"
      BY <1>1, <1>8, <2>3 DEF afterWrites
    <3> QED
      BY <1>1, <2>1, <2>3, <3>1 DEF WorkerKnows, OrphansGone, WrittenAsAsked, AllWritten, Done, Named
  <2> QED
    BY <1>2, <2>2, <2>3
<1> QED
  BY <1>6, <1>7, <1>8

\* The worker's knowledge holds throughout a reconcile of either controller.
THEOREM ShardsWorkerKnows ==
    ASSUME ~CacheLags
    PROVE  Spec => []WorkerKnows
<1>1. Init => WorkerKnows
  BY DEF Init, WorkerKnows, CacheCurrent, OrphansGone, WrittenAsAsked, AllWritten, Done
<1>2. TypeOK /\ WorkerKnows /\ [Next]_vars => WorkerKnows'
  <2> SUFFICES ASSUME TypeOK, WorkerKnows, [Next]_vars PROVE WorkerKnows'
    OBVIOUS
  <2>1. CASE EditSpec
    BY <2>1, KnowledgeStays DEF EditSpec
  <2>2. ASSUME NEW i \in Instances, SyncStatefulSet(i) PROVE FALSE
    BY <2>2 DEF SyncStatefulSet, WorkerKnows, CacheCurrent
  <2>3. CASE Reconcile
    <3>0. CacheCurrent'
      BY <2>3 DEF Reconcile, WorkerKnows, CacheCurrent
    <3>1. CASE spec.paused
      BY <2>3, <3>0, <3>1, AtRest DEF Reconcile
    <3>2. CASE ~spec.paused
      BY <2>3, <3>0, <3>2, KindsAssumption
      DEF Reconcile, syncResources, TypeOK, WorkerKnows, OrphansGone, WrittenAsAsked,
          AllWritten, Done, Named
    <3> QED
      BY <3>1, <3>2
  <2>4. CASE pruneOrphanedResources
    BY <2>4, PruneKnows
  <2>5. ASSUME NEW i \in Instances, CreateOrUpdate(i) PROVE WorkerKnows'
    BY <2>5, WriteKnows
  <2>6. CASE Report
    BY <2>6, AtRest DEF Report, WorkerKnows, CacheCurrent
  <2>7. CASE Crash
    BY <2>7, AtRest DEF Crash, CacheCurrent
  <2>8. CASE UNCHANGED vars
    BY <2>8, KnowledgeStays DEF vars
  <2> QED
    BY <2>1, <2>2, <2>3, <2>4, <2>5, <2>6, <2>7, <2>8 DEF Next, Worker
<1> QED
  BY <1>1, <1>2, ShardsTypeCorrect, PTL DEF Spec

-----------------------------------------------------------------------------
\* The steps that change the StatefulSets.
LEMMA WrittenBy ==
    ASSUME [Next]_vars
    PROVE  \/ UNCHANGED sts
           \/ pruneOrphanedResources
           \/ \E i \in Instances : CreateOrUpdate(i)
  BY DEF Next, Worker, vars, EditSpec, SyncStatefulSet, Reconcile, Report, Crash

\* The kind of a resource never changes.
LEMMA SameKind ==
    ASSUME [Next]_vars
    PROVE  kind' = kind
  BY DEF Next, Worker, vars, EditSpec, SyncStatefulSet, Reconcile, Report, Crash,
         pruneOrphanedResources, CreateOrUpdate

\* As long as its StatefulSet cache is current, compact never mixes two layouts:
\* every orphan is gone before anything is written (syncResources of
\* thanoscompact_controller.go).  An orphan that a lagging cache hides stays.
THEOREM OneLayoutAtATime ==
    ASSUME ~CacheLags
    PROVE  Spec => []FitsOneLayout
<1>1. Init => FitsOneLayout
  <2> SUFFICES ASSUME Init, kind = "compact"
               PROVE  \E layout \in specToOptions(kind) : Fits(sts, layout)
    BY DEF FitsOneLayout
  <2>1. spec.layout \in specToOptions(kind)
    BY ResourceType DEF Init
  <2>2. Fits(sts, spec.layout)
    BY DEF Init, Fits, Named, Nothing
  <2> QED
    BY <2>1, <2>2
<1>2. TypeOK /\ WorkerKnows /\ FitsOneLayout /\ [Next]_vars => FitsOneLayout'
  <2> SUFFICES ASSUME TypeOK, WorkerKnows, FitsOneLayout, [Next]_vars, kind' = "compact"
               PROVE  \E layout \in specToOptions(kind') : Fits(sts', layout)
    BY DEF FitsOneLayout
  <2>0. PICK old \in specToOptions(kind) : Fits(sts, old)
    BY SameKind DEF FitsOneLayout
  <2>1. CASE UNCHANGED sts
    BY <2>0, <2>1, SameKind DEF Fits, Named
  <2>2. CASE pruneOrphanedResources
    <3>1. Fits(sts', old)
      BY <2>0, <2>2, Prunes DEF Fits, Named
    <3> QED
      BY <2>0, <3>1, SameKind
  <2>3. ASSUME NEW i \in Instances, CreateOrUpdate(i)
        PROVE  \E layout \in specToOptions(kind') : Fits(sts', layout)
    <3>1. pc = "write" /\ i \in todo /\ (sts' = sts \/ sts' = [sts EXCEPT ![i] = snap.layout[i]])
      BY <2>3, Writes
    <3>2. /\ snap.layout \in specToOptions(kind)
          /\ todo \subseteq Named(snap.layout) /\ sts \in Layout
      BY <3>1, ResourceType DEF TypeOK
    <3>3. Fits(sts, snap.layout)
      BY <3>1, SameKind DEF WorkerKnows, OrphansGone
    <3>4. Fits(sts', snap.layout)
      BY <3>1, <3>2, <3>3 DEF Fits, Named, Layout
    <3> QED
      BY <3>2, <3>4, SameKind
  <2> QED
    BY <2>1, <2>2, <2>3, WrittenBy
<1> QED
  BY <1>1, <1>2, ShardsTypeCorrect, ShardsWorkerKnows, PTL DEF Spec

\* As long as its StatefulSet cache is current, store withdraws an instance only
\* when its new layout is complete (syncResources of thanosstore_controller.go
\* returns before cleanup after an error).  A lagging cache may show a shard as
\* written that is not.
THEOREM OldStays ==
    ASSUME ~CacheLags
    PROVE  Spec => OldStaysUntilNew
<1>1. TypeOK /\ WorkerKnows /\ [Next]_vars =>
        (kind = "store" /\ ~ (Named(sts) \subseteq Named(sts'))
           => \A i \in Named(snap.layout) : sts[i] = snap.layout[i])
  <2> SUFFICES ASSUME TypeOK, WorkerKnows, [Next]_vars, kind = "store",
                      ~ (Named(sts) \subseteq Named(sts'))
               PROVE  \A i \in Named(snap.layout) : sts[i] = snap.layout[i]
    OBVIOUS
  <2>1. CASE pruneOrphanedResources
    BY <2>1, Prunes DEF WorkerKnows, AllWritten
  <2>2. ASSUME NEW i \in Instances, CreateOrUpdate(i) PROVE FALSE
    <3>1. /\ i \in Named(snap.layout) /\ sts \in Layout
          /\ sts' = sts \/ sts' = [sts EXCEPT ![i] = snap.layout[i]]
      BY <2>2, Writes DEF TypeOK
    <3> QED
      BY <3>1 DEF Named, Layout
  <2>3. CASE UNCHANGED sts
    BY <2>3 DEF Named
  <2> QED
    BY <2>1, <2>2, <2>3, WrittenBy
<1> QED
  BY <1>1, ShardsTypeCorrect, ShardsWorkerKnows, PTL DEF Spec, OldStaysUntilNew

\* As long as the StatefulSet cache is current, Ready turns true on exactly the
\* instances of the spec that was reconciled.  The pruner misses what a lagging
\* cache does not show.
THEOREM ShardsReadyEarned ==
    ASSUME ~CacheLags
    PROVE  Spec => ReadyIsEarned
<1>1. TypeOK /\ WorkerKnows /\ [Next]_vars =>
        (status.ready # "True" /\ status'.ready = "True" => sts = snap.layout)
  <2> SUFFICES ASSUME TypeOK, WorkerKnows, [Next]_vars, status.ready # "True", status'.ready = "True"
               PROVE  sts = snap.layout
    OBVIOUS
  <2>1. CASE Report
    <3>1. CASE pc = "reportOK"
      BY <3>1 DEF WorkerKnows, Done
    <3>2. CASE pc = "reportError" \/ pc = "reportPaused"
      BY <2>1, <3>2 DEF Report, updateCondition, TypeOK, Statuses
    <3> QED
      BY <2>1, <3>1, <3>2 DEF Report
  <2>2. CASE UNCHANGED status
    BY <2>2
  <2> QED
    BY <2>1, <2>2 DEF Next, Worker, vars, EditSpec, SyncStatefulSet, Reconcile, Crash,
                      pruneOrphanedResources, CreateOrUpdate
<1> QED
  BY <1>1, ShardsTypeCorrect, ShardsWorkerKnows, PTL DEF Spec, ReadyIsEarned

(***************************************************************************)
(* When a shard's name stands for the same blocks in every layout, and no  *)
(* layout gives a block to two shards, one layout at a time is one         *)
(* compactor per block.                                                    *)
(***************************************************************************)
StableNames(layouts) ==
    /\ \A layout \in layouts : Disjoint(layout)
    /\ \A l, m \in layouts : \A i \in Named(l) \cap Named(m) : l[i] = m[i]

\* Every shard there is keeps the blocks some layout gave it.
KeepsAsNamed ==
    \A i \in Named(sts) : \E layout \in specToOptions(kind) :
        i \in Named(layout) /\ sts[i] = layout[i]

\* Every instance there is has the blocks that some layout gives its name.
LEMMA KeepsAsNamedAlways == Spec => []KeepsAsNamed
<1>1. Init => KeepsAsNamed
  BY DEF Init, KeepsAsNamed, Named, Nothing
<1>2. TypeOK /\ KeepsAsNamed /\ [Next]_vars => KeepsAsNamed'
  <2> SUFFICES ASSUME TypeOK, KeepsAsNamed, [Next]_vars, NEW j \in Named(sts')
               PROVE  \E layout \in specToOptions(kind) : j \in Named(layout) /\ sts'[j] = layout[j]
    BY SameKind DEF KeepsAsNamed
  <2>1. CASE UNCHANGED sts
    BY <2>1 DEF KeepsAsNamed, Named
  <2>2. CASE pruneOrphanedResources
    BY <2>2, Prunes DEF KeepsAsNamed, Named
  <2>3. ASSUME NEW i \in Instances, CreateOrUpdate(i)
        PROVE  \E layout \in specToOptions(kind) : j \in Named(layout) /\ sts'[j] = layout[j]
    <3>1. pc = "write" /\ i \in todo /\ (sts' = sts \/ sts' = [sts EXCEPT ![i] = snap.layout[i]])
      BY <2>3, Writes
    <3>2. /\ snap.layout \in specToOptions(kind) /\ i \in Named(snap.layout) /\ sts \in Layout
      BY <3>1, ResourceType DEF TypeOK
    <3>3. CASE j = i /\ sts' = [sts EXCEPT ![i] = snap.layout[i]]
      BY <3>2, <3>3 DEF Layout
    <3>4. CASE j # i \/ sts' = sts
      <4>1. j \in Instances /\ sts'[j] # Absent
        BY DEF Named
      <4>2. sts'[j] = sts[j]
        BY <3>1, <3>2, <3>4, <4>1 DEF Layout
      <4> QED
        BY <4>1, <4>2 DEF KeepsAsNamed, Named
    <3> QED
      BY <3>1, <3>3, <3>4
  <2> QED
    BY <2>1, <2>2, <2>3, WrittenBy
<1> QED
  BY <1>1, <1>2, ShardsTypeCorrect, PTL DEF Spec

\* "we don't want multiple compactor instances potentially compacting the same
\* data" (thanoscompact_controller.go): so it is, as long as the StatefulSet cache
\* is current, shard names keep their blocks and no layout has a block twice.
THEOREM OneCompactorPerBlock ==
    ASSUME ~CacheLags, StableNames(specToOptions("compact"))
    PROVE  Spec => []OneStatefulSetPerBlock
<1>1. TypeOK /\ FitsOneLayout /\ KeepsAsNamed => OneStatefulSetPerBlock
  <2> SUFFICES ASSUME FitsOneLayout, KeepsAsNamed, kind = "compact",
                      NEW i \in Named(sts), NEW j \in Named(sts), i # j
               PROVE  sts[i] \cap sts[j] = {}
    BY DEF OneStatefulSetPerBlock, Disjoint
  <2>1. PICK layout \in specToOptions(kind) : Fits(sts, layout)
    BY DEF FitsOneLayout
  <2>2. i \in Named(layout) /\ j \in Named(layout)
    BY <2>1 DEF Fits
  <2>3. sts[i] = layout[i] /\ sts[j] = layout[j]
    BY <2>2 DEF KeepsAsNamed, StableNames
  <2>4. Disjoint(layout)
    BY <2>1 DEF StableNames
  <2> QED
    BY <2>2, <2>3, <2>4 DEF Disjoint
<1> QED
  BY <1>1, ShardsTypeCorrect, OneLayoutAtATime, KeepsAsNamedAlways, PTL

-----------------------------------------------------------------------------
(***************************************************************************)
(* No wakeup is lost, however far the cache is behind.  Whatever the       *)
(* worker does that its cache does not yet show leaves the two apart, and  *)
(* the event that brings them together queues the resource.  So as long as *)
(* nothing is queued and the cache is current, nothing has changed since   *)
(* Reconcile was given the resource.                                       *)
(***************************************************************************)
CacheFollows == ~CacheLags => CacheCurrent

\* What the locals of Reconcile say about the way it took.
TookItsWay ==
    /\ pc = "reportPaused" => snap.paused
    /\ pc = "prune" /\ kind = "compact" => todo = Named(snap.layout)

Undisturbed == ~dirty /\ CacheCurrent

\* What an undisturbed reconcile has brought about at each of its stages.
HasSettled ==
    /\ pc # "idle" => snap = spec
    /\ pc = "write" /\ ~errCount =>
          \A i \in Named(snap.layout) \ todo : sts[i] = snap.layout[i]
    /\ pc = "write" /\ kind = "compact" => Fits(sts, snap.layout)
    /\ pc = "prune" /\ kind = "store" => \A i \in Named(snap.layout) : sts[i] = snap.layout[i]
    /\ pc = "reportOK" => sts = snap.layout
    /\ pc = "idle" /\ ~spec.paused => sts = spec.layout

NoWakeupLost == CacheFollows /\ TookItsWay /\ (Undisturbed => HasSettled)

\* A write after which nothing is queued and the cache is current was none:
\* the instance was already as the spec says, or the call failed.
LEMMA WritesNothing ==
    ASSUME TypeOK, CacheFollows, NEW i \in Instances, CreateOrUpdate(i), Undisturbed'
    PROVE  /\ Undisturbed /\ sts' = sts
           /\ ~errCount' => ~errCount /\ sts[i] = snap.layout[i]
<1>0. PICK failed \in BOOLEAN, another \in BOOLEAN :
         LET desired  == snap.layout[i]
             conflict == stsCache[i] # desired /\ stsCache[i] # sts[i]
         IN /\ Fails(IF failed \/ another THEN 1 ELSE 0)
            /\ WriteStatefulSets(IF stsCache[i] = desired \/ conflict \/ failed
                                   THEN sts ELSE [sts EXCEPT ![i] = desired])
            /\ errCount' = (errCount \/ conflict \/ failed \/ another)
            /\ pc' = IF todo' = {} THEN afterWrites(errCount') ELSE "write"
  BY DEF CreateOrUpdate
<1>1. ~dirty /\ (sts' # sts => CacheLags) /\ stsCache' = sts'
  BY <1>0 DEF WriteStatefulSets, Undisturbed, CacheCurrent
<1>2. sts' = sts
  <2>1. CASE stsCache[i] = snap.layout[i] \/ failed
    BY <1>0, <2>1 DEF WriteStatefulSets
  <2>2. CASE stsCache[i] # snap.layout[i] /\ sts' # sts
    <3>1. sts' = [sts EXCEPT ![i] = snap.layout[i]] /\ stsCache' = stsCache
      BY <1>0, <1>1, <2>2 DEF WriteStatefulSets
    <3>2. sts'[i] = snap.layout[i]
      BY <3>1 DEF TypeOK, Layout
    <3> QED
      BY <1>1, <2>2, <3>1, <3>2
  <2> QED
    BY <2>1, <2>2
<1>3. stsCache = sts
  BY <1>0, <1>1, <1>2 DEF WriteStatefulSets, CacheFollows, CacheCurrent
<1>4. ASSUME ~errCount' PROVE ~errCount /\ sts[i] = snap.layout[i]
  BY <1>4, <1>2, <1>3, Writes
<1> QED
  BY <1>1, <1>2, <1>3, <1>4 DEF Undisturbed, CacheCurrent

\* Likewise a pruning step: there was no orphan, or none could be deleted.
LEMMA PrunesNothing ==
    ASSUME TypeOK, CacheFollows, pruneOrphanedResources, Undisturbed'
    PROVE  Undisturbed /\ sts' = sts
<1>0. PICK failed \in SUBSET (orphans \cap Named(sts)), another \in BOOLEAN :
         LET errors == failed # {} \/ another
         IN /\ Fails(IF errors THEN 1 ELSE 0)
            /\ WriteStatefulSets([i \in Instances |->
                   IF i \in orphans \ failed THEN Absent ELSE sts[i]])
            /\ pc' = afterPrune(errors)
  BY DEF pruneOrphanedResources
<1>1. /\ ~dirty /\ (sts' # sts => CacheLags) /\ stsCache' = sts'
      /\ sts' = [i \in Instances |-> IF i \in orphans \ failed THEN Absent ELSE sts[i]]
  BY <1>0 DEF WriteStatefulSets, Undisturbed, CacheCurrent
<1>2. ASSUME CacheLags PROVE sts' = sts
  <2>1. stsCache' = stsCache
    BY <1>0, <1>2 DEF WriteStatefulSets
  <2>2. orphans \ failed = {}
    BY <1>1, <2>1 DEF orphans, Named
  <2> QED
    BY <1>1, <2>2 DEF TypeOK, Layout
<1>3. sts' = sts
  BY <1>1, <1>2
<1>4. stsCache = sts
  BY <1>0, <1>1, <1>3 DEF WriteStatefulSets, CacheFollows, CacheCurrent
<1> QED
  BY <1>1, <1>3, <1>4 DEF Undisturbed, CacheCurrent

\* An undisturbed write of one instance keeps what has been brought about.
LEMMA WriteSettles ==
    ASSUME TypeOK, NoWakeupLost, NEW i \in Instances, CreateOrUpdate(i), Undisturbed'
    PROVE  HasSettled'
<1>1. /\ Undisturbed /\ sts' = sts /\ UNCHANGED <<kind, snap, spec>>
      /\ pc = "write" /\ i \in todo /\ todo' = todo \ {i}
      /\ pc' = IF todo' = {} THEN afterWrites(errCount') ELSE "write"
      /\ ~errCount' => ~errCount /\ sts[i] = snap.layout[i]
  BY WritesNothing, Writes DEF NoWakeupLost
<1>2. /\ snap = spec
      /\ ~errCount => \A j \in Named(snap.layout) \ todo : sts[j] = snap.layout[j]
      /\ kind = "compact" => Fits(sts, snap.layout)
  BY <1>1 DEF NoWakeupLost, HasSettled
<1>3. ~errCount' => \A j \in Named(snap.layout) \ todo' : sts[j] = snap.layout[j]
  BY <1>1, <1>2
<1>4. snap.layout \in Layout /\ sts \in Layout /\ kind \in {"compact", "store"}
  BY <1>1, ResourceType, KindsAssumption DEF TypeOK
<1>5. CASE pc' = "write"
  BY <1>1, <1>2, <1>3, <1>5 DEF HasSettled, Fits, Named
<1>6. CASE pc' = "reportError"
  BY <1>1, <1>2, <1>6 DEF HasSettled
<1>7. CASE pc' = "prune"
  <2>1. kind = "store" /\ todo' = {} /\ ~errCount'
    BY <1>1, <1>7 DEF afterWrites
  <2>2. \A j \in Named(snap.layout) : sts[j] = snap.layout[j]
    BY <1>3, <2>1
  <2>3. UNCHANGED <<sts, snap, spec>>
    BY <1>1
  <2> QED
    BY <1>2, <1>7, <2>2, <2>3 DEF HasSettled, Named
<1>8. CASE pc' = "reportOK"
  <2>1. kind = "compact" /\ todo' = {} /\ ~errCount'
    BY <1>1, <1>4, <1>8 DEF afterWrites
  <2>2. sts = snap.layout
    BY <1>2, <1>3, <1>4, <2>1, SameLayout
  <2> QED
    BY <1>1, <1>2, <1>8, <2>2 DEF HasSettled
<1> QED
  BY <1>1, <1>5, <1>6, <1>7, <1>8 DEF afterWrites

\* So does an undisturbed pruning step.
LEMMA PruneSettles ==
    ASSUME TypeOK, NoWakeupLost, pruneOrphanedResources, Undisturbed'
    PROVE  HasSettled'
<1>1. /\ Undisturbed /\ sts' = sts /\ UNCHANGED <<kind, snap, spec, todo, errCount>>
      /\ pc = "prune"
      /\ pc' \in {"reportError", IF kind = "compact" THEN "write" ELSE "reportOK"}
      /\ pc' # "reportError" => Fits(sts, snap.layout)
  BY PrunesNothing, Prunes DEF NoWakeupLost, Undisturbed, CacheCurrent
<1>2. /\ snap = spec
      /\ kind = "store" => \A i \in Named(snap.layout) : sts[i] = snap.layout[i]
      /\ kind = "compact" => todo = Named(snap.layout)
  BY <1>1 DEF NoWakeupLost, HasSettled, TookItsWay
<1>3. snap.layout \in Layout /\ sts \in Layout /\ kind \in {"compact", "store"}
  BY <1>1, ResourceType, KindsAssumption DEF TypeOK
<1>4. CASE pc' = "reportError"
  BY <1>1, <1>2, <1>4 DEF HasSettled
<1>5. CASE pc' = "write"
  <2>1. kind = "compact" /\ Fits(sts, snap.layout)
    BY <1>1, <1>3, <1>5
  <2> QED
    BY <1>1, <1>2, <1>5, <2>1 DEF HasSettled, Fits, Named
<1>6. CASE pc' = "reportOK"
  <2>1. kind = "store" /\ Fits(sts, snap.layout)
    BY <1>1, <1>3, <1>6
  <2>2. sts = snap.layout
    BY <1>2, <1>3, <2>1, SameLayout
  <2> QED
    BY <1>1, <1>2, <1>6, <2>2 DEF HasSettled
<1> QED
  BY <1>1, <1>4, <1>5, <1>6

\* The start of a reconcile settles what is as asked without a call.
LEMMA ReconcileSettles ==
    ASSUME TypeOK, Reconcile
    PROVE  HasSettled' /\ TookItsWay'
<1>1. snap' = spec /\ spec' = spec /\ kind' = kind /\ kind \in {"compact", "store"}
  BY KindsAssumption DEF Reconcile, TypeOK
<1>2. CASE spec.paused
  BY <1>1, <1>2 DEF Reconcile, HasSettled, TookItsWay
<1>3. CASE ~spec.paused
  BY <1>1, <1>3 DEF Reconcile, syncResources, HasSettled, TookItsWay, Named
<1> QED
  BY <1>2, <1>3

\* The cache is current at all times when it does not lag, and the worker
\* reports a pause only of a resource that was paused.
LEMMA CourseKept ==
    ASSUME TypeOK, CacheFollows, TookItsWay, [Next]_vars
    PROVE  CacheFollows' /\ TookItsWay'
<1>0. kind' = kind
  BY SameKind
<1> USE DEF CacheFollows, CacheCurrent, TookItsWay
<1>1. CASE EditSpec
  BY <1>1 DEF EditSpec, Named
<1>2. ASSUME NEW i \in Instances, SyncStatefulSet(i) PROVE CacheFollows' /\ TookItsWay'
  BY <1>2 DEF SyncStatefulSet, Named
<1>3. CASE Reconcile
  BY <1>3, ReconcileSettles DEF Reconcile
<1>4. CASE pruneOrphanedResources
  BY <1>4, Prunes
<1>5. ASSUME NEW i \in Instances, CreateOrUpdate(i) PROVE CacheFollows' /\ TookItsWay'
  <2>1. CacheFollows' /\ pc' # "reportPaused" /\ (kind = "compact" => pc' # "prune")
    BY <1>5, Writes DEF afterWrites
  <2> QED
    BY <1>0, <2>1
<1>6. CASE Report
  BY <1>6 DEF Report
<1>7. CASE Crash
  BY <1>7 DEF Crash
<1>8. CASE UNCHANGED vars
  BY <1>8 DEF vars, Named
<1> QED
  BY <1>1, <1>2, <1>3, <1>4, <1>5, <1>6, <1>7, <1>8 DEF Next, Worker

\* What a report leaves at rest is what the reconcile has brought about.
LEMMA ReportSettles ==
    ASSUME NoWakeupLost, Report, Undisturbed'
    PROVE  HasSettled'
<1>1. UNCHANGED <<spec, sts, stsCache>> /\ pc' = "idle"
  BY DEF Report
<1>2. CASE pc = "reportError"
  BY <1>2 DEF Report, updateCondition, Undisturbed
<1>3. CASE pc \in {"reportOK", "reportPaused"}
  <2>1. ~dirty
    BY <1>3 DEF Report, updateCondition, Undisturbed
  <2>2. snap = spec /\ (pc = "reportOK" => sts = snap.layout)
    BY <1>1, <1>3, <2>1 DEF NoWakeupLost, Undisturbed, CacheCurrent, HasSettled
  <2>3. pc = "reportPaused" => snap.paused
    BY DEF NoWakeupLost, TookItsWay
  <2> QED
    BY <1>1, <1>3, <2>2, <2>3 DEF HasSettled
<1> QED
  BY <1>2, <1>3 DEF Report

\* Lagging cache or not, every step keeps what makes up for a wakeup that was dropped.
LEMMA NoWakeupLostAlways == Spec => []NoWakeupLost
<1>1. Init => NoWakeupLost
  BY DEF Init, NoWakeupLost, CacheFollows, CacheCurrent, TookItsWay, Undisturbed
<1>2. TypeOK /\ NoWakeupLost /\ [Next]_vars => NoWakeupLost'
  <2> SUFFICES ASSUME TypeOK, NoWakeupLost, [Next]_vars PROVE NoWakeupLost'
    OBVIOUS
  <2>0. CacheFollows' /\ TookItsWay'
    BY CourseKept DEF NoWakeupLost
  <2> SUFFICES ASSUME Undisturbed' PROVE HasSettled'
    BY <2>0 DEF NoWakeupLost
  <2> USE DEF Undisturbed
  <2>1. CASE EditSpec
    BY <2>1 DEF EditSpec
  <2>2. ASSUME NEW i \in Instances, SyncStatefulSet(i) PROVE FALSE
    BY <2>2 DEF SyncStatefulSet
  <2>3. CASE Reconcile
    BY <2>3, ReconcileSettles
  <2>4. CASE pruneOrphanedResources
    BY <2>4, PruneSettles
  <2>5. ASSUME NEW i \in Instances, CreateOrUpdate(i) PROVE HasSettled'
    BY <2>5, WriteSettles
  <2>6. CASE Report
    BY <2>6, ReportSettles
  <2>7. CASE Crash
    BY <2>7 DEF Crash
  <2>8. CASE UNCHANGED vars
    BY <2>8 DEF vars, NoWakeupLost, HasSettled, CacheCurrent, Fits, Named
  <2> QED
    BY <2>1, <2>2, <2>3, <2>4, <2>5, <2>6, <2>7, <2>8 DEF Next, Worker
<1> QED
  BY <1>1, <1>2, ShardsTypeCorrect, PTL DEF Spec

\* A controller at rest whose cache is current has done what the spec says,
\* after any interleaving of edits, late events, failed calls and crashes
\* (SetupWithManager of both controllers watches what they own, and Reconcile
\* returns its errors to the queue).
THEOREM ShardsRestSettled == Spec => []RestsOnlyWhenSettled
<1>1. NoWakeupLost => RestsOnlyWhenSettled
  BY DEF NoWakeupLost, Undisturbed, CacheCurrent, HasSettled, RestsOnlyWhenSettled
<1> QED
  BY <1>1, NoWakeupLostAlways, PTL
===============================================================================
