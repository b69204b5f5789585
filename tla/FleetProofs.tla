----------------------------- MODULE FleetProofs -----------------------------
(***************************************************************************)
(* What the reconcilers write and delete, for any resources, feature gates *)
(* and neighbours.  It rests on what a resource asks for (ManifestProofs)  *)
(* and on three invariants, each of them on the one before.                *)
(*                                                                         *)
(*  - StatusInv: every object in the namespace that has an owner, and      *)
(*    every object that a worker still has to write, has a name and the    *)
(*    marks of that owner.  Laying one object over another keeps the       *)
(*    labels of the one that is written; what has no owner is a Service    *)
(*    without an owner label.  What a reconciler prunes it finds by those  *)
(*    labels, by its own name or by the owner reference: so it is its      *)
(*    resource's own (NeighboursStay).                                     *)
(*  - PartsInv: every such object is one of a part of a version of its     *)
(*    owner, whatever versions and gates have been: it selects pods of its *)
(*    own instance only, and its pods refer to nothing but their own       *)
(*    account, ConfigMaps and the part's sources.  Two instances differ in *)
(*    a label they select by (SelectionStaysApart).                        *)
(*  - SwitchedInv: once a ruler asked to be stateful prunes the Secret of  *)
(*    its stateless days, its StatefulSet has been written anew and no     *)
(*    pods refer to that Secret: pruning never takes what the pods of a    *)
(*    workload refer to (UsedThingsStay).                                  *)
(***************************************************************************)
EXTENDS ObjectStatus, ManifestProofs

-----------------------------------------------------------------------------
(* The invariant.                                                           *)
\* The versions a resource may have, and the gates of its scenario.
CrsOf(id) == Scenarios[scenario].crs[id]
Gates     == Scenarios[scenario].gates

\* An object of a resource: one of the names it gives, and its labels.
Named(id, name) == \E cr \in CrsOf(id), g \in Gates : name \in AskedNames(cr, g)
Owned(x, id) ==
    /\ id \in Ids /\ x.owner = id
    /\ Marked(x.labels, Marks(id)) /\ Named(id, x.name)
Alien(x) == x.kind = "Service" /\ x.owner = NoOwner /\ "owner" \notin DOMAIN x.labels

SettingInv ==
    /\ scenario \in DOMAIN Scenarios /\ gate \in Gates
    /\ left \in 0 .. Scenarios[scenario].disturbances
ResourcesInv ==
    /\ crs = [id \in Ids |-> crs[id]]
    /\ \A id \in Ids : crs[id] \in CrsOf(id) \cup {Gone}
    /\ cond \in [Ids -> [ready : Readiness, paused : BOOLEAN]]
    /\ queue \subseteq Ids
ObjectsInv == \A k \in DOMAIN objs :
    Key(objs[k]) = k /\ (Owned(objs[k], objs[k].owner) \/ Alien(objs[k]))

\* What a job still has to write is its resource's own.
Todo(todo, id) ==
    /\ \E T : todo \in Seq(T)
    /\ \A i \in DOMAIN todo : IsObject(todo[i]) /\ Owned(todo[i], id)
JobOf(job, kind) ==
    /\ job = [cr |-> job.cr, stage |-> job.stage, todo |-> job.todo,
              failed |-> job.failed, current |-> job.current]
    /\ job.cr.kind = kind /\ Id(job.cr) \in Ids /\ job.cr \in CrsOf(Id(job.cr))
    /\ job.stage \in {"prune", "write", "cleanup", "report", "paused"}
    /\ IF job.stage \in {"prune", "write"} THEN job.todo # <<>> /\ Todo(job.todo, Id(job.cr))
                                           ELSE job.todo = <<>>
WorkInv ==
    /\ work = [kind \in Kinds |-> work[kind]]
    /\ \A kind \in Kinds : work[kind] # Idle => JobOf(work[kind], kind)

FleetInv == SettingInv /\ ResourcesInv /\ ObjectsInv /\ WorkInv

-----------------------------------------------------------------------------
(* What a reconciler finds when it prunes.                                  *)

\* A version of a resource is of one of the five kinds, and known by its kind and
\* name.
LEMMA KnownResource ==
    ASSUME SettingInv, NEW id \in Ids, NEW cr \in CrsOf(id)
    PROVE  IsResource(cr) /\ id = Id(cr)
BY ScenariosAssumption, UsersAssumption
   DEF ScenariosAssumption, UsersAssumption, SettingInv, CrsOf, IsResource, Ids

\* Two resources have no mark in common: they differ in their component or in their
\* owner label.
LEMMA MarksApart ==
    ASSUME SettingInv, NEW id \in Ids, NEW other \in Ids, NEW cr \in CrsOf(id),
           NEW neighbour \in CrsOf(other),
           NEW m \in Marks(id), m \in Marks(other)
    PROVE  id = other
<1>1. /\ IsResource(cr) /\ id[1] = cr.kind /\ IsResource(neighbour) /\ other[1] = neighbour.kind
  BY KnownResource DEF Id
<1>2. PICK c \in Components(id[1]) : m = <<Value(c), ValidateAndSanitizeNameToValidLabelValue(id[2])>>
  BY DEF Marks
<1>3. PICK d \in Components(other[1]) :
        m = <<Value(d), ValidateAndSanitizeNameToValidLabelValue(other[2])>>
  BY DEF Marks
<1>4. c = d /\ ValidateAndSanitizeNameToValidLabelValue(id[2])
               = ValidateAndSanitizeNameToValidLabelValue(other[2])
  BY <1>2, <1>3 DEF Value
<1>5. id[1] = other[1]
  BY <1>1, <1>2, <1>3, <1>4 DEF Components, IsResource
<1> QED BY <1>4, <1>5, NeighboursAssumption DEF NeighboursAssumption, SettingInv, Ids

\* What has the labels a reconciler lists by is its resource's own (handlers.go:196-263).
LEMMA ByLabels ==
    ASSUME SettingInv, ObjectsInv, NEW id \in Ids, NEW cr \in CrsOf(id), NEW labels,
           Marked(labels, Marks(id)),
           NEW k \in DOMAIN objs, HasRequiredLabels(objs[k].labels, labels)
    PROVE  objs[k].owner = id
<1>1. "owner" \in DOMAIN objs[k].labels
      /\ <<objs[k].labels["name"], objs[k].labels["owner"]>> \in Marks(id)
  BY DEF HasRequiredLabels, Marked
<1>2. Owned(objs[k], objs[k].owner)
  BY <1>1 DEF ObjectsInv, Alien
<1>3. <<objs[k].labels["name"], objs[k].labels["owner"]>> \in Marks(objs[k].owner)
  BY <1>2 DEF Owned, Marked
<1>4. PICK neighbour : neighbour \in CrsOf(objs[k].owner)
  BY <1>2 DEF Owned, Named
<1> QED BY <1>1, <1>2, <1>3, <1>4, MarksApart DEF Owned

\* What a receiver looks up by name, Services apart, is its own
\* (thanosreceive_controller.go:390-419).
LEMMA ByName ==
    ASSUME SettingInv, ObjectsInv, NEW id \in Ids, NEW cr \in CrsOf(id), cr.kind = "ThanosReceive",
           NEW n \in AskedNames(cr, gate), NEW kind, kind # "Service",
           <<kind, n>> \in DOMAIN objs
    PROVE  objs[<<kind, n>>].owner = id
<1> DEFINE x == objs[<<kind, n>>]
<1>1. x.kind = kind /\ x.name = n
  BY DEF ObjectsInv, Key
<1>2. Owned(x, x.owner)
  BY <1>1 DEF ObjectsInv, Alien
<1>3. PICK neighbour \in CrsOf(x.owner), h \in Gates : n \in AskedNames(neighbour, h)
  BY <1>1, <1>2 DEF Owned, Named
<1>4. id[1] = "ThanosReceive" /\ gate \in Gates
  BY KnownResource DEF Id, SettingInv
<1>5. AskedNames(cr, gate) \cap AskedNames(neighbour, h) # {}
  BY <1>3
<1> QED BY <1>2, <1>3, <1>4, <1>5, NeighboursAssumption
        DEF NeighboursAssumption, SettingInv, Ids, CrsOf, Gates, Owned

\* The disruption budgets that a reconciler deletes when they are switched off are its
\* resource's own.
LEMMA BudgetsOwn ==
    ASSUME SettingInv, ObjectsInv, NEW id \in Ids, NEW cr \in CrsOf(id),
           NEW k \in DOMAIN objs, k \in singleBudgets(cr, objs)
    PROVE  objs[k].owner = id
<1>1. id = Id(cr) /\ IsResource(cr)
  BY KnownResource
<1> DEFINE owner == [owner |-> cr.name]
           Budgets(labels) == Prune(objs, {"PodDisruptionBudget"}, labels, {})
<1>2. owner.owner = cr.name /\ id[1] = cr.kind /\ id[2] = cr.name
  BY <1>1 DEF Id
<1>3. \A labels : Marked(labels, Marks(id)) /\ k \in Budgets(labels) => objs[k].owner = id
  BY ByLabels DEF Prune, Labelled
<1> HIDE DEF Budgets
<1>4. CASE cr.kind = "ThanosReceive"
  <2>1. CASE k \in Budgets(GetLabelSelectorForOwner(I!RouterSelector(owner)))
    <3> HIDE DEF owner
    <3>1. Marked(I!RouterSelector(owner), Marks(id))
      BY <1>2, <1>4, RouterLabels, ReceiveValue DEF Marked, Mark, Marks, Components, Value
    <3> QED BY <1>3, <2>1, <3>1, ForOwnerMarked
  <2>2. CASE \E r \in ToSet(cr.spec.ingester.rings) :
                k = <<"PodDisruptionBudget", ReceiveIngesterNameFromParent(cr.name, r.name)>>
    <3> DEFINE rings == cr.spec.ingester.rings
    <3>1. PICK i \in DOMAIN rings :
             k = <<"PodDisruptionBudget", ReceiveIngesterNameFromParent(cr.name, rings[i].name)>>
      BY <2>2 DEF ToSet
    <3> DEFINE o == receiverV1Alpha1ToIngesterOptions(cr, rings[i], gate)
    <3>2. o.owner = cr.name
      BY IngesterOptions DEF HasCommon
    <3>3. o.hashring = rings[i].name
      BY IngesterOptions
    <3>4. I!IngesterName(o) \in Kept(cr, gate)
      <4>1. specToIngestOptions(cr, gate)[i] = o /\ i \in DOMAIN specToIngestOptions(cr, gate)
        BY DEF specToIngestOptions
      <4> HIDE DEF o
      <4> QED BY <1>4, <4>1 DEF Kept, Instances
    <3> HIDE DEF o, rings
    <3>5. I!IngesterName(o) = ReceiveIngesterNameFromParent(cr.name, rings[i].name)
      BY <3>2, <3>3 DEF I!IngesterName, ReceiveIngesterNameFromParent
    <3> QED BY <1>4, <3>1, <3>4, <3>5, ByName DEF AskedNames
  <2> QED BY <1>4, <2>1, <2>2 DEF singleBudgets, Budgets
<1>5. CASE cr.kind = "ThanosCompact"
  BY <1>5 DEF singleBudgets
<1>6. CASE cr.kind \notin {"ThanosReceive", "ThanosCompact"}
  <2>1. CASE k \in Budgets(OwnerLabels(cr))
    BY <1>1, <1>3, <2>1, OwnerMarked
  <2>2. CASE cr.kind = "ThanosQuery"
               /\ k \in Budgets(GetLabelSelectorForOwner(F!GetSelectorLabels(owner)))
    <3> HIDE DEF owner
    <3>1. Marked(F!GetSelectorLabels(owner), Marks(id))
      BY <1>2, <2>2, FrontendLabels, FrontendValue DEF Marked, Mark, Marks, Components, Value
    <3> QED BY <1>3, <2>2, <3>1, ForOwnerMarked
  <2> QED BY <1>6, <2>1, <2>2 DEF singleBudgets, Budgets
<1> QED BY <1>4, <1>5, <1>6

\* Whatever a reconciler prunes, before the first write or after the last, is its
\* resource's own.
LEMMA PrunedIsOwn ==
    ASSUME SettingInv, ObjectsInv, NEW id \in Ids, NEW cr \in CrsOf(id), NEW k \in DOMAIN objs,
           k \in PrunedBefore(cr, gate, objs) \cup cleanup(cr, gate, objs)
    PROVE  objs[k].owner = id
<1>1. id = Id(cr) /\ IsResource(cr)
  BY KnownResource
<1>2. CASE k \in pruneOrphanedResources(cr, gate, objs)
  BY <1>1, <1>2, ByLabels, OwnerMarked DEF pruneOrphanedResources, Prune, Labelled
<1>3. CASE k \in singleBudgets(cr, objs)
  BY <1>3, BudgetsOwn
<1>4. CASE k \in pruneGeneratedRemoteWriteSecret(cr, objs)
  <2>1. Marked(MergeMaps(OwnerLabels(cr), R!GeneratedSecret), Marks(id))
    BY <1>1, OwnerMarked DEF Marked, MergeMaps, R!GeneratedSecret, R!Label
  <2> QED BY <1>4, <2>1, ByLabels DEF pruneGeneratedRemoteWriteSecret, Prune, Labelled
<1>5. CASE k \in gatedMonitors(cr, gate, objs)
  <2>1. CASE gate.sm = {}
    BY <1>1, <1>5, <2>1 DEF gatedMonitors, PruneByOwner
  <2>2. CASE gate.sm # {}
    <3> DEFINE n == ReceiveRouterNameFromParent(cr.name) \o <<"-", I!SyncContainer>>
    <3>1. cr.kind = "ThanosReceive" /\ k = <<"ServiceMonitor", n>>
      BY <1>5, <2>2 DEF gatedMonitors
    <3>2. n \in AskedNames(cr, gate)
      BY <3>1 DEF AskedNames, RouterNames
    <3> HIDE DEF n
    <3> QED BY <3>1, <3>2, ByName
  <2> QED BY <2>1, <2>2
<1> QED BY <1>2, <1>3, <1>4, <1>5 DEF PrunedBefore, cleanup

-----------------------------------------------------------------------------
(* The steps of the reconcilers.                                            *)

\* There are no objects and no jobs in the beginning.
LEMMA InitFleet ==
    ASSUME Init
    PROVE  FleetInv
<1>1. SettingInv
  BY ScenariosAssumption DEF Init, SettingInv, ScenariosAssumption, Gates
<1>2. ResourcesInv
  <2>1. \A id \in Ids : crs[id] \in CrsOf(id)
    BY DEF Init, CrsOf
  <2>2. crs = [id \in Ids |-> crs[id]]
    BY DEF Init
  <2>3. cond \in [Ids -> [ready : Readiness, paused : BOOLEAN]]
    BY DEF Init, Readiness
  <2> QED BY <2>1, <2>2, <2>3 DEF ResourcesInv, Init
<1>3. ObjectsInv
  BY DEF Init, ObjectsInv, NoObjects
<1>4. WorkInv
  BY DEF Init, WorkInv
<1> QED BY <1>1, <1>2, <1>3, <1>4 DEF FleetInv

\* Only resources that are there are woken by an event.
LEMMA WokenKnown ==
    ASSUME NEW resources, NEW old, NEW new
    PROVE  Woken(resources, old, new) \subseteq {Id(c) : c \in resources}
BY DEF Woken, enqueueForStoreService, enqueueForRulerService

\* So a change of the objects queues known resources only.
LEMMA ChangeQueues ==
    ASSUME SettingInv, ResourcesInv, NEW new, Change(new, {})
    PROVE  queue' \subseteq Ids
<1>1. \A c \in Present : Id(c) \in Ids
  BY KnownResource DEF Present, ResourcesInv
<1>2. {Id(c) : c \in Present} \subseteq Ids
  BY <1>1
<1>3. \A old, now : Woken(Present, old, now) \subseteq Ids
  BY <1>2, WokenKnown
<1> HIDE DEF Present, Ids
<1> DEFINE changed == {k \in DOMAIN objs \cup DOMAIN new :
                       At(k) # (IF k \in DOMAIN new THEN {new[k]} ELSE {})}
           W(k) == Woken(Present, At(k), IF k \in DOMAIN new THEN {new[k]} ELSE {})
<1>4. queue' = queue \cup {} \cup UNION {W(k) : k \in changed}
  BY DEF Change
<1>5. \A k \in changed : W(k) \subseteq Ids
  BY <1>3
<1> HIDE DEF W, changed
<1> QED BY <1>4, <1>5 DEF ResourcesInv

\* Laying one object over another leaves its kind, name, owner, component and owner
\* label as the one that is written has them (mutations.go:33-180).
LEMMA LaidOver ==
    ASSUME NEW e, NEW d, NEW marks, IsObject(d), Marked(d.labels, marks)
    PROVE  LET laid == MutateFuncFor(e, d)
           IN  /\ laid.kind = d.kind /\ laid.name = d.name /\ laid.owner = d.owner
               /\ Marked(laid.labels, marks)
<1>1. Marked(MergeMaps(e.labels, d.labels), marks)
  BY DEF Marked, MergeMaps
<1>2. \A kind, name, labels, body, owner, merged, selector, service, claims :
         LET x == [kind |-> kind, name |-> name, labels |-> labels, body |-> body, owner |-> owner]
             m == [x EXCEPT !.labels = merged, !.body.selector = selector]
             s == [m EXCEPT !.body.service = service, !.body.pod.claims = claims]
         IN  /\ m.kind = kind /\ m.name = name /\ m.labels = merged /\ m.owner = owner
             /\ s.kind = kind /\ s.name = name /\ s.labels = merged /\ s.owner = owner
  OBVIOUS
<1> QED BY <1>1, <1>2 DEF MutateFuncFor, IsObject

\* An object of a resource, or a foreign Service, is put in the namespace.
LEMMA WithObject ==
    ASSUME ObjectsInv, NEW x, Owned(x, x.owner) \/ Alien(x), objs' = With(x), UNCHANGED scenario
    PROVE  ObjectsInv'
<1>1. \A k \in DOMAIN objs' : (objs'[k] = x /\ k = Key(x)) \/ (k \in DOMAIN objs /\ objs'[k] = objs[k])
  <2>1. DOMAIN objs' = DOMAIN objs \cup {Key(x)}
    BY DEF With
  <2>2. \A k \in DOMAIN objs' : objs'[k] = IF k = Key(x) THEN x ELSE objs[k]
    BY DEF With
  <2> QED BY <2>1, <2>2
<1>2. ASSUME NEW k \in DOMAIN objs'
      PROVE  Key(objs'[k]) = k /\ (Owned(objs'[k], objs'[k].owner) \/ Alien(objs'[k]))
  BY <1>1, <1>2 DEF ObjectsInv
<1>3. \A y, id : Owned(y, id)' <=> Owned(y, id)
  BY DEF Owned, Named, CrsOf, Gates, Ids
<1> QED BY <1>2, <1>3 DEF ObjectsInv, Owned, Named, CrsOf, Gates, Ids, Alien

\* Objects go.
LEMMA WithoutObjects ==
    ASSUME ObjectsInv, NEW keys, objs' = Without(keys), UNCHANGED scenario
    PROVE  ObjectsInv'
<1>1. \A k \in DOMAIN objs' : k \in DOMAIN objs /\ objs'[k] = objs[k]
  BY DEF Without
<1> QED BY <1>1 DEF ObjectsInv, Owned, Named, CrsOf, Gates, Ids, Alien

\* No object changes.
LEMMA SameObjects ==
    ASSUME ObjectsInv, UNCHANGED objs, UNCHANGED scenario
    PROVE  ObjectsInv'
BY DEF ObjectsInv, Owned, Named, CrsOf, Gates, Ids, Alien

\* A worker takes a job, goes on with one or ends one.
LEMMA NextJob ==
    ASSUME WorkInv, NEW kind \in Kinds, NEW job, job = Idle \/ JobOf(job, kind),
           work' = [work EXCEPT ![kind] = job], UNCHANGED scenario
    PROVE  WorkInv'
<1>1. Kinds' = Kinds
  BY DEF Kinds, Ids
<1>2. work' = [k \in Kinds' |-> work'[k]]
  BY <1>1 DEF WorkInv
<1>3. ASSUME NEW k \in Kinds', work'[k] # Idle PROVE JobOf(work'[k], k)
  BY <1>1, <1>3 DEF WorkInv
<1>4. \A k \in Kinds' : work'[k] # Idle => JobOf(work[k], k)'
  BY <1>3 DEF JobOf, Todo, Owned, Named, CrsOf, Gates, Ids
<1> QED BY <1>2, <1>4 DEF WorkInv

\* No worker moves.
LEMMA SameWork ==
    ASSUME WorkInv, UNCHANGED <<work, scenario>>
    PROVE  WorkInv'
BY DEF WorkInv, JobOf, Todo, Owned, Named, CrsOf, Gates, Ids, Kinds

\* The scenario and the gates stay, and there is one disturbance less or not.
LEMMA LaterSetting ==
    ASSUME SettingInv, UNCHANGED scenario, UNCHANGED gate,
           left' = left \/ (left > 0 /\ left' = left - 1)
    PROVE  SettingInv'
BY ScenariosAssumption DEF SettingInv, Gates, ScenariosAssumption

\* No resource changes.
LEMMA SameResources ==
    ASSUME ResourcesInv, UNCHANGED scenario, UNCHANGED crs, UNCHANGED cond, queue' \subseteq Ids
    PROVE  ResourcesInv'
BY DEF ResourcesInv, CrsOf, Ids

\* What a reconciler sets out to do when it has read its resource: it is paused, it
\* fails, or it has objects of its own to write.
LEMMA JobsKnown ==
    ASSUME SettingInv, NEW id \in Ids, NEW cr \in CrsOf(id), NEW job \in Jobs(cr)
    PROVE  JobOf(job, cr.kind)
<1>1. id = Id(cr) /\ IsResource(cr) /\ gate \in Gates
  BY KnownResource DEF SettingInv
<1>2. CASE job = Job(cr, "paused", <<>>, FALSE) \/ job = Job(cr, "report", <<>>, TRUE)
  BY <1>1, <1>2 DEF JobOf, Job
<1>3. CASE \E d \in Desired(cr, gate, objs), first \in {"prune", "write"} :
              job = Job(cr, first, [i \in DOMAIN d |-> [d[i] EXCEPT !.owner = Id(cr)]], FALSE)
  <2>1. PICK d \in Desired(cr, gate, objs), first \in {"prune", "write"} :
              job = Job(cr, first, [i \in DOMAIN d |-> [d[i] EXCEPT !.owner = Id(cr)]], FALSE)
    BY <1>3
  <2>2. AllAsked(d, Parts(cr, gate)) /\ d # <<>>
    BY <1>1, DesiredAsked
  <2> DEFINE todo == [i \in DOMAIN d |-> [d[i] EXCEPT !.owner = id]]
  <2>3. PICK n \in Nat : n # 0 /\ DOMAIN d = 1 .. n
    <3>1. PICK T : d \in Seq(T)
      BY <2>2 DEF AllAsked
    <3>2. Len(d) \in Nat /\ DOMAIN d = 1 .. Len(d) /\ Len(d) # 0
      BY <2>2, <3>1
    <3> QED BY <3>2
  <2>4. todo # <<>> /\ \E T : todo \in Seq(T)
    <3>1. todo = [i \in 1 .. n |-> todo[i]] /\ DOMAIN todo = 1 .. n
      BY <2>3
    <3> HIDE DEF todo
    <3> DEFINE T == {todo[i] : i \in 1 .. n}
    <3>2. todo \in Seq(T)
      BY <3>1
    <3>3. DOMAIN <<>> = {} /\ 1 \in 1 .. n
      BY <2>3
    <3> QED BY <3>1, <3>2, <3>3
  <2>5. ASSUME NEW i \in DOMAIN todo PROVE IsObject(todo[i]) /\ Owned(todo[i], id)
    <3>1. PICK part \in Parts(cr, gate) : Fits(d[i], part)
      BY <2>2 DEF AllAsked, Asked
    <3>2. d[i].name \in AskedNames(cr, gate) /\ HasRequiredLabels(d[i].labels, part.labels)
      BY <1>1, <3>1, PartNames DEF Fits
    <3>3. Marked(d[i].labels, Marks(id))
      BY <1>1, <3>2, PartMarked DEF Marked, HasRequiredLabels
    <3>4. todo[i] = [kind |-> d[i].kind, name |-> d[i].name, labels |-> d[i].labels,
                     body |-> d[i].body, owner |-> id]
      BY <3>1 DEF Fits, IsObject
    <3> HIDE DEF todo
    <3> QED BY <1>1, <3>2, <3>3, <3>4 DEF IsObject, Owned, Named
  <2>6. job = Job(cr, first, todo, FALSE)
    BY <1>1, <2>1
  <2> HIDE DEF todo
  <2> QED BY <1>1, <2>4, <2>5, <2>6 DEF JobOf, Job, Todo
<1> QED BY <1>2, <1>3 DEF Jobs

\* A reconcile begins.
LEMMA ReconcileFleet ==
    ASSUME FleetInv, NEW id \in Ids, Reconcile(id)
    PROVE  FleetInv'
<1> USE DEF FleetInv
<1>0. UNCHANGED <<scenario, gate, crs, cond, objs, left>>
  BY DEF Reconcile
<1>1. SettingInv' /\ ObjectsInv'
  BY <1>0, LaterSetting, SameObjects
<1>2. ResourcesInv'
  BY SameResources DEF Reconcile, ResourcesInv
<1>3. WorkInv'
  <2>1. CASE crs[id] = Gone
    BY <2>1, SameWork DEF Reconcile
  <2>2. CASE crs[id] # Gone
    <3>1. PICK job \in Jobs(crs[id]) : work' = [work EXCEPT ![id[1]] = job]
      BY <2>2 DEF Reconcile
    <3>2. crs[id] \in CrsOf(id)
      BY <2>2 DEF ResourcesInv
    <3>3. id = Id(crs[id])
      BY <3>2, KnownResource
    <3>4. crs[id].kind = id[1] /\ id[1] \in Kinds
      BY <3>3 DEF Id, Kinds
    <3>5. JobOf(job, id[1])
      BY <3>2, <3>4, JobsKnown
    <3> QED BY <3>1, <3>4, <3>5, NextJob DEF Reconcile
  <2> QED BY <2>1, <2>2
<1> QED BY <1>1, <1>2, <1>3

\* A change of the objects leaves the resources, and the queues hold known ones.
LEMMA ChangeKeeps ==
    ASSUME FleetInv, NEW new, Change(new, {}), UNCHANGED <<scenario, gate, crs, cond>>,
           left' = left \/ (left > 0 /\ left' = left - 1)
    PROVE  SettingInv' /\ ResourcesInv'
<1>1. queue' \subseteq Ids
  BY ChangeQueues DEF FleetInv
<1>2. UNCHANGED scenario /\ UNCHANGED gate /\ UNCHANGED crs /\ UNCHANGED cond
  OBVIOUS
<1> QED BY <1>1, <1>2, LaterSetting, SameResources DEF FleetInv

\* A job, and what it becomes.
IsJob(job) == job = [cr |-> job.cr, stage |-> job.stage, todo |-> job.todo,
                     failed |-> job.failed, current |-> job.current]

Becomes(job, stage, failed, todo, later) ==
    later = [job EXCEPT !.todo = todo, !.failed = failed, !.stage = stage]

\* What a job is after a step of it.
LEMMA LaterJob ==
    ASSUME NEW job, IsJob(job), NEW stage, NEW failed, NEW todo, NEW later,
           Becomes(job, stage, failed, todo, later)
    PROVE  /\ IsJob(later)
           /\ later.cr = job.cr /\ later.stage = stage /\ later.todo = todo /\ later.failed = failed
<1> DEFINE Of(s, t, f) == [cr |-> job.cr, stage |-> s, todo |-> t, failed |-> f,
             current |-> job.current]
           a1 == [job EXCEPT !.todo = todo]   a2 == [a1 EXCEPT !.failed = failed]
<1>1. \A s, t, f : /\ [Of(s, t, f) EXCEPT !.todo = todo] = Of(s, todo, f)
                   /\ [Of(s, t, f) EXCEPT !.failed = failed] = Of(s, t, failed)
                   /\ [Of(s, t, f) EXCEPT !.stage = stage] = Of(stage, t, f)
  OBVIOUS
<1>2. later = [a2 EXCEPT !.stage = stage]
  BY DEF Becomes
<1>3. job = Of(job.stage, job.todo, job.failed)
  BY DEF IsJob
<1> HIDE DEF Of
<1>4. a1 = Of(job.stage, todo, job.failed)
  BY <1>1, <1>3
<1> HIDE DEF a1
<1>5. a2 = Of(job.stage, todo, failed)
  BY <1>1, <1>4
<1> HIDE DEF a2
<1>6. later = Of(stage, todo, failed)
  BY <1>1, <1>2, <1>5
<1> QED BY <1>6 DEF Of, IsJob

\* One write of a job: what is written is the resource's own, also when it is laid
\* over what was there (handlers.go:53-128).
LEMMA CreateOrUpdateFleet ==
    ASSUME FleetInv, NEW kind \in Kinds, CreateOrUpdate(kind)
    PROVE  FleetInv'
<1> DEFINE job == work[kind]  desired == Head(job.todo)  k == Key(desired)
           laid == IF k \in DOMAIN objs THEN MutateFuncFor(objs[k], desired) ELSE desired
           id == Id(job.cr)
<1>1. PICK fails \in BOOLEAN :
        /\ IF fails THEN Happens("failure") /\ UNCHANGED <<objs, queue>>
           ELSE Change(With(laid), {}) /\ UNCHANGED left
        /\ work' = [work EXCEPT ![kind].todo = Tail(@),
                                ![kind].failed = @ \/ fails,
                                ![kind].stage = IF Len(work[kind].todo) > 1 THEN "write"
                                                ELSE afterWrites(kind, work[kind].failed \/ fails)]
  BY DEF CreateOrUpdate
<1>2. /\ UNCHANGED scenario /\ UNCHANGED gate /\ UNCHANGED crs /\ UNCHANGED cond
      /\ job # Idle /\ job.stage = "write"
  BY DEF CreateOrUpdate, Busy
<1>3. JobOf(job, kind)
  BY <1>2 DEF FleetInv, WorkInv
<1>4. job.todo # <<>> /\ Todo(job.todo, id)
  BY <1>2, <1>3 DEF JobOf
<1>5. PICK T : job.todo \in Seq(T)
  BY <1>4 DEF Todo
<1> HIDE DEF job
<1>6. /\ Len(job.todo) \in Nat /\ Len(job.todo) >= 1 /\ desired = job.todo[1] /\ 1 \in DOMAIN job.todo
      /\ Tail(job.todo) \in Seq(T) /\ Len(Tail(job.todo)) = Len(job.todo) - 1
      /\ \A i \in DOMAIN Tail(job.todo) : i + 1 \in DOMAIN job.todo
           /\ Tail(job.todo)[i] = job.todo[i + 1]
      /\ Len(job.todo) = 1 => Tail(job.todo) = <<>>
      /\ Len(job.todo) > 1 => Tail(job.todo) # <<>>
  <2> DEFINE t == job.todo
  <2>1. t \in Seq(T) /\ t # <<>> /\ desired = Head(t)
    BY <1>4, <1>5
  <2> HIDE DEF t, desired
  <2>2. Len(t) \in Nat /\ Len(t) >= 1 /\ DOMAIN t = 1 .. Len(t) /\ Head(t) = t[1]
    BY <2>1
  <2>3. Tail(t) \in Seq(T) /\ Len(Tail(t)) = Len(t) - 1
    BY <2>1, <2>2
  <2>4. DOMAIN Tail(t) = 1 .. Len(t) - 1 /\ \A i \in 1 .. Len(t) - 1 : Tail(t)[i] = t[i + 1]
    BY <2>1, <2>2, <2>3
  <2>5. \A i \in DOMAIN Tail(t) : i + 1 \in DOMAIN t /\ Tail(t)[i] = t[i + 1]
    BY <2>2, <2>4
  <2> DEFINE u == Tail(t)
  <2>8. u \in Seq(T) /\ Len(u) = Len(t) - 1
    BY <2>3
  <2> HIDE DEF u
  <2>6. Len(t) = 1 => u = <<>>
    BY <2>2, <2>8
  <2>7. Len(t) > 1 => u # <<>>
    BY <2>2, <2>8
  <2> QED BY <2>1, <2>2, <2>3, <2>5, <2>6, <2>7 DEF t, u
<1>7. IsObject(desired) /\ Owned(desired, id)
  BY <1>4, <1>6 DEF Todo
<1>8. Owned(laid, laid.owner)
  <2> HIDE DEF desired
  <2>1. /\ laid.name = desired.name /\ laid.owner = id
        /\ Marked(laid.labels, Marks(id))
    BY <1>7, LaidOver DEF Owned
  <2> QED BY <1>7, <2>1 DEF Owned
<1> HIDE DEF laid, desired
<1>9. SettingInv' /\ ResourcesInv' /\ ObjectsInv'
  <2>1. CASE fails
    <3>1. left > 0 /\ left' = left - 1 /\ UNCHANGED objs /\ queue' = queue
      BY <1>1, <2>1 DEF Happens
    <3> QED BY <1>2, <3>1, LaterSetting, SameResources, SameObjects DEF FleetInv, ResourcesInv
  <2>2. CASE ~ fails
    <3>1. Change(With(laid), {}) /\ left' = left
      BY <1>1, <2>2
    <3>2. objs' = With(laid)
      BY <3>1 DEF Change
    <3> QED BY <1>2, <1>8, <3>1, <3>2, ChangeKeeps, WithObject DEF FleetInv
  <2> QED BY <2>1, <2>2
<1> DEFINE todo == Tail(job.todo)  failed == job.failed \/ fails
           stage == IF Len(job.todo) > 1 THEN "write" ELSE afterWrites(kind, failed)
           later == [job EXCEPT !.todo = todo, !.failed = failed, !.stage = stage]
<1>10. work' = [work EXCEPT ![kind] = later]
  BY <1>1 DEF FleetInv, WorkInv, job
<1>11. JobOf(later, kind)
  <2>1. IsJob(job)
    BY <1>3 DEF JobOf, IsJob
  <2> HIDE DEF todo, failed, stage
  <2>9. Becomes(job, stage, failed, todo, later)
    BY DEF Becomes
  <2> HIDE DEF later
  <2>2. /\ later.cr = job.cr /\ later.todo = todo /\ later.stage = stage
        /\ IsJob(later)
    BY <2>1, <2>9, LaterJob
  <2>3. /\ job.cr.kind = kind /\ id \in Ids /\ job.cr \in CrsOf(id)
    BY <1>3 DEF JobOf
  <2>4. CASE Len(job.todo) > 1
    <3>1. Todo(Tail(job.todo), id)
      BY <1>4, <1>6 DEF Todo
    <3> QED BY <1>6, <2>2, <2>3, <2>4, <3>1 DEF JobOf, IsJob, todo, stage
  <2>5. CASE ~ (Len(job.todo) > 1)
    <3>1. later.stage \in {"report", "cleanup"} /\ later.todo = <<>>
      BY <1>6, <2>2, <2>5 DEF afterWrites, todo, stage
    <3> QED BY <2>2, <2>3, <3>1 DEF JobOf, IsJob
  <2> QED BY <2>4, <2>5
<1> HIDE DEF later
<1> QED BY <1>2, <1>9, <1>10, <1>11, NextJob DEF FleetInv

\* A job prunes.
LEMMA DeletesFleet ==
    ASSUME FleetInv, NEW kind \in Kinds, NEW keys, NEW next, Deletes(kind, keys, next),
           work[kind] # Idle,
           (work[kind].stage = "prune" /\ next = "write")
             \/ (work[kind].stage = "cleanup" /\ next = "report")
    PROVE  FleetInv'
<1> DEFINE job == work[kind]
<1>1. PICK stay :
         /\ IF stay = {} THEN UNCHANGED left ELSE Happens("failure")
         /\ Change(Without(keys \ stay), {})
         /\ work' = [work EXCEPT ![kind].todo = IF stay = {} THEN @ ELSE <<>>,
                                 ![kind].failed = @ \/ stay # {},
                                 ![kind].stage = IF stay = {} THEN next ELSE "report"]
  BY DEF Deletes
<1>2. UNCHANGED scenario /\ UNCHANGED gate /\ UNCHANGED crs /\ UNCHANGED cond
  BY DEF Deletes
<1>3. left' = left \/ (left > 0 /\ left' = left - 1)
  BY <1>1 DEF Happens
<1>4. objs' = Without(keys \ stay)
  BY <1>1 DEF Change
<1>5. SettingInv' /\ ResourcesInv' /\ ObjectsInv'
  BY <1>1, <1>2, <1>3, <1>4, ChangeKeeps, WithoutObjects DEF FleetInv
<1>6. JobOf(job, kind)
  BY DEF FleetInv, WorkInv
<1> DEFINE stage == IF stay = {} THEN next ELSE "report"  failed == job.failed \/ stay # {}
           todo == IF stay = {} THEN job.todo ELSE <<>>
           later == [job EXCEPT !.todo = todo, !.failed = failed, !.stage = stage]
<1>7. work' = [work EXCEPT ![kind] = later]
  BY <1>1 DEF FleetInv, WorkInv
<1>8. JobOf(later, kind)
  <2> HIDE DEF job
  <2>1. IsJob(job)
    BY <1>6 DEF JobOf, IsJob
  <2> HIDE DEF todo, failed, stage
  <2>9. Becomes(job, stage, failed, todo, later)
    BY DEF Becomes
  <2> HIDE DEF later
  <2>2. /\ later.cr = job.cr /\ later.todo = todo /\ later.stage = stage
        /\ IsJob(later)
    BY <2>1, <2>9, LaterJob
  <2>3. (job.stage = "prune" /\ next = "write") \/ (job.stage = "cleanup" /\ next = "report")
    BY DEF job
  <2> QED BY <1>6, <2>2, <2>3 DEF JobOf, IsJob, todo, stage
<1> HIDE DEF later
<1> QED BY <1>2, <1>5, <1>7, <1>8, NextJob DEF FleetInv

\* A job ends with a write of the condition.
LEMMA ReportFleet ==
    ASSUME FleetInv, NEW kind \in Kinds, Report(kind)
    PROVE  FleetInv'
<1> DEFINE job == work[kind]  id == Id(job.cr)
           new == IF job.stage = "paused" THEN [cond[id] EXCEPT !.paused = TRUE]
                  ELSE [cond[id] EXCEPT !.ready = IF job.failed THEN "False" ELSE "True"]
<1>1. /\ UNCHANGED scenario /\ UNCHANGED gate /\ UNCHANGED crs /\ UNCHANGED objs /\ UNCHANGED left
      /\ job # Idle /\ work' = [work EXCEPT ![kind] = Idle]
      /\ cond' = [cond EXCEPT ![id] = IF job.current THEN new ELSE @]
      /\ queue' \subseteq queue \cup {id}
  BY DEF Report
<1>2. id \in Ids
  BY <1>1 DEF FleetInv, WorkInv, JobOf
<1>3. SettingInv' /\ ObjectsInv' /\ WorkInv'
  BY <1>1, LaterSetting, SameObjects, NextJob DEF FleetInv
<1>4. ResourcesInv'
  <2> HIDE DEF id, job
  <2>1. cond[id] \in [ready : Readiness, paused : BOOLEAN]
    BY <1>2 DEF FleetInv, ResourcesInv
  <2>2. new \in [ready : Readiness, paused : BOOLEAN]
    BY <2>1 DEF Readiness
  <2>3. cond' \in [Ids -> [ready : Readiness, paused : BOOLEAN]]
    BY <1>1, <2>2 DEF FleetInv, ResourcesInv
  <2> QED BY <1>1, <1>2, <2>3 DEF FleetInv, ResourcesInv, CrsOf, Ids
<1> QED BY <1>3, <1>4 DEF FleetInv

\* The copies of a resource that jobs hold become out of date; the jobs go on.
LEMMA OutdatedWork ==
    ASSUME WorkInv, NEW id, work' = Outdated(id), UNCHANGED scenario
    PROVE  WorkInv'
<1>1. Kinds' = Kinds
  BY DEF Kinds, Ids
<1>2. work' = [k \in Kinds' |-> work'[k]]
  BY <1>1 DEF Outdated
<1>3. ASSUME NEW k \in Kinds, work'[k] # Idle PROVE JobOf(work'[k], k)
  <2>1. CASE work'[k] = work[k]
    BY <1>3, <2>1 DEF WorkInv
  <2>2. CASE work[k] # Idle /\ work'[k] = [work[k] EXCEPT !.current = FALSE]
    <3>1. JobOf(work[k], k)
      BY <2>2 DEF WorkInv
    <3> DEFINE job == work[k]  later == work'[k]
    <3>2. job = [cr |-> job.cr, stage |-> job.stage, todo |-> job.todo,
                 failed |-> job.failed, current |-> job.current]
      BY <3>1 DEF JobOf
    <3>3. later = [job EXCEPT !.current = FALSE]
      BY <2>2
    <3> HIDE DEF job, later
    <3>4. /\ later.cr = job.cr /\ later.todo = job.todo /\ later.stage = job.stage
          /\ later = [cr |-> later.cr, stage |-> later.stage, todo |-> later.todo,
                      failed |-> later.failed, current |-> later.current]
      BY <3>2, <3>3
    <3>5. JobOf(job, k)
      BY <3>1 DEF job
    <3>6. JobOf(later, k)
      BY <3>4, <3>5 DEF JobOf
    <3> QED BY <3>6 DEF later
  <2> QED BY <2>1, <2>2 DEF Outdated
<1>4. \A k \in Kinds' : work'[k] # Idle => JobOf(work[k], k)'
  BY <1>1, <1>3 DEF JobOf, Todo, Owned, Named, CrsOf, Gates, Ids
<1> QED BY <1>2, <1>4 DEF WorkInv

-----------------------------------------------------------------------------
(* The steps of everybody else, and the theorems.                           *)

\* The user edits or deletes a resource.
LEMMA EditFleet ==
    ASSUME FleetInv, NEW id \in Ids, EditSpec(id) \/ DeleteResource(id)
    PROVE  FleetInv'
<1>1. /\ UNCHANGED scenario /\ UNCHANGED gate /\ UNCHANGED cond /\ UNCHANGED objs
      /\ left > 0 /\ left' = left - 1 /\ queue' = queue \cup {id} /\ work' = Outdated(id)
  BY DEF EditSpec, DeleteResource, Happens
<1>2. PICK cr \in CrsOf(id) \cup {Gone} : crs' = [crs EXCEPT ![id] = cr]
  BY DEF EditSpec, DeleteResource, CrsOf
<1>3. SettingInv' /\ ObjectsInv' /\ WorkInv'
  BY <1>1, LaterSetting, SameObjects, OutdatedWork DEF FleetInv
<1>4. ResourcesInv'
  <2>1. Ids' = Ids /\ \A i \in Ids : CrsOf(i)' = CrsOf(i)
    BY <1>1 DEF Ids, CrsOf
  <2>2. crs' = [i \in Ids |-> crs'[i]] /\ \A i \in Ids : crs'[i] \in CrsOf(i) \cup {Gone}
    BY <1>2 DEF FleetInv, ResourcesInv
  <2> QED BY <1>1, <2>1, <2>2 DEF FleetInv, ResourcesInv
<1> QED BY <1>3, <1>4 DEF FleetInv

\* An object is collected as garbage, or deleted by somebody.
LEMMA LossFleet ==
    ASSUME FleetInv, NEW k, CollectGarbage(k) \/ DeleteObject(k)
    PROVE  FleetInv'
<1>1. /\ UNCHANGED scenario /\ UNCHANGED gate /\ UNCHANGED crs /\ UNCHANGED cond /\ UNCHANGED work
      /\ (left' = left \/ (left > 0 /\ left' = left - 1)) /\ Change(Without({k}), {})
  BY DEF CollectGarbage, DeleteObject, Happens
<1>2. objs' = Without({k})
  BY <1>1 DEF Change
<1> QED BY <1>1, <1>2, ChangeKeeps, WithoutObjects, SameWork DEF FleetInv

\* A Service that is not the operator's comes, changes or goes.
LEMMA ForeignFleet ==
    ASSUME FleetInv, ForeignService
    PROVE  FleetInv'
<1>1. /\ UNCHANGED scenario /\ UNCHANGED gate /\ UNCHANGED crs /\ UNCHANGED cond /\ UNCHANGED work
      /\ left > 0 /\ left' = left - 1
  BY DEF ForeignService, Happens
<1>2. CASE \E svc \in Foreign : Change(With(svc), {})
  <2>1. PICK svc \in Foreign : Change(With(svc), {})
    BY <1>2
  <2>2. Alien(svc)
    BY ScenariosAssumption DEF FleetInv, SettingInv, ScenariosAssumption, Alien, Foreign
  <2>3. objs' = With(svc)
    BY <2>1 DEF Change
  <2> QED BY <1>1, <2>1, <2>2, <2>3, ChangeKeeps, WithObject, SameWork DEF FleetInv
<1>3. CASE \E svc \in Foreign : Change(Without({Key(svc)}), {})
  <2>1. PICK svc \in Foreign : Change(Without({Key(svc)}), {})
    BY <1>3
  <2>2. objs' = Without({Key(svc)})
    BY <2>1 DEF Change
  <2> QED BY <1>1, <2>1, <2>2, ChangeKeeps, WithoutObjects, SameWork DEF FleetInv
<1> QED BY <1>2, <1>3 DEF ForeignService

\* The operator restarts, perhaps with other gates.
LEMMA RestartFleet ==
    ASSUME FleetInv, Restart
    PROVE  FleetInv'
<1>1. /\ UNCHANGED scenario /\ UNCHANGED crs /\ UNCHANGED cond /\ UNCHANGED objs
      /\ gate' \in Gates /\ left > 0 /\ left' = left - 1 /\ queue' = Ids
      /\ work' = [kind \in Kinds |-> Idle]
  BY DEF Restart, Happens, Gates
<1>2. SettingInv'
  BY <1>1, ScenariosAssumption DEF FleetInv, SettingInv, Gates, ScenariosAssumption
<1>3. ResourcesInv' /\ ObjectsInv'
  BY <1>1, SameResources, SameObjects DEF FleetInv
<1>4. WorkInv'
  BY <1>1 DEF WorkInv, Kinds, Ids
<1> QED BY <1>2, <1>3, <1>4 DEF FleetInv

\* Every step of the fleet keeps its invariant.
LEMMA NextFleet ==
    ASSUME FleetInv, Next
    PROVE  FleetInv'
<1>1. CASE \E kind \in Kinds : Worker(kind)
  <2>1. PICK kind \in Kinds : Worker(kind)
    BY <1>1
  <2>2. CASE \E id \in Ids : Reconcile(id)
    BY <2>2, ReconcileFleet
  <2>3. CASE CreateOrUpdate(kind)
    BY <2>3, CreateOrUpdateFleet
  <2>4. CASE PruneFirst(kind)
    BY <2>4, DeletesFleet DEF PruneFirst, Busy
  <2>5. CASE Cleanup(kind)
    BY <2>5, DeletesFleet DEF Cleanup, Busy
  <2>6. CASE Report(kind)
    BY <2>6, ReportFleet
  <2> QED BY <2>1, <2>2, <2>3, <2>4, <2>5, <2>6 DEF Worker
<1>2. CASE \E k \in DOMAIN objs : CollectGarbage(k)
  BY <1>2, LossFleet
<1>3. CASE Environment
  BY <1>3, EditFleet, LossFleet, ForeignFleet, RestartFleet DEF Environment
<1> QED BY <1>1, <1>2, <1>3 DEF Next

\* So do the status passes and the pods (object_status_controller.go:96-176).
LEMMA PassFleet ==
    ASSUME FleetInv,
           ListResources \/ (\E id \in Ids : updateStatus(id)) \/ (\E k \in DOMAIN objs : PodsChange(k))
    PROVE  FleetInv'
<1>1. CASE ListResources
  <2>1. /\ UNCHANGED scenario /\ UNCHANGED gate /\ UNCHANGED crs /\ UNCHANGED cond /\ UNCHANGED objs
        /\ UNCHANGED queue /\ UNCHANGED work /\ UNCHANGED left
    BY <1>1 DEF ListResources, vars
  <2> QED BY <2>1, LaterSetting, SameResources, SameObjects, SameWork DEF FleetInv, ResourcesInv
<1>2. CASE \E id \in Ids : updateStatus(id)
  <2>1. PICK id \in Ids : updateStatus(id)
    BY <1>2
  <2>2. /\ UNCHANGED scenario /\ UNCHANGED gate /\ UNCHANGED crs /\ UNCHANGED cond /\ UNCHANGED objs
        /\ UNCHANGED left /\ queue' \subseteq queue \cup {id}
        /\ work' = work \/ work' = Outdated(id)
    BY <2>1 DEF updateStatus
  <2> QED BY <2>2, LaterSetting, SameResources, SameObjects, SameWork, OutdatedWork
      DEF FleetInv, ResourcesInv
<1>3. CASE \E k \in DOMAIN objs : PodsChange(k)
  <2>1. /\ UNCHANGED scenario /\ UNCHANGED gate /\ UNCHANGED crs /\ UNCHANGED cond /\ UNCHANGED objs
        /\ UNCHANGED queue /\ UNCHANGED work /\ (left' = left \/ (left > 0 /\ left' = left - 1))
    BY <1>3 DEF PodsChange, Happens
  <2>2. queue' \subseteq Ids
    BY <2>1 DEF FleetInv, ResourcesInv
  <2>3. SettingInv'
    BY <2>1, LaterSetting DEF FleetInv
  <2>4. ResourcesInv'
    BY <2>1, <2>2, SameResources DEF FleetInv
  <2> QED BY <2>1, <2>3, <2>4, SameObjects, SameWork DEF FleetInv
<1> QED BY <1>1, <1>2, <1>3

\* The invariant, with what the status controller adds to it.
StatusInv ==
    /\ FleetInv
    /\ ready \subseteq Workloads
    /\ DOMAIN status = Ids /\ pass \subseteq Ids

\* Every step of the reconcilers and of the status controller keeps the invariant.
LEMMA StatusStep ==
    ASSUME StatusInv, [StatusNext]_allVars
    PROVE  StatusInv'
<1> USE DEF StatusInv
<1>1. CASE Others
  <2>1. Next /\ ready' = ready \cap DOMAIN objs' /\ pass' \subseteq Ids /\ UNCHANGED status
    BY <1>1 DEF Others
  <2>2. FleetInv'
    BY <2>1, NextFleet
  <2>3. UNCHANGED scenario
    BY <2>1 DEF Next, Worker, Reconcile, CreateOrUpdate, PruneFirst, Cleanup, Deletes, Report,
                Environment, EditSpec, DeleteResource, CollectGarbage, DeleteObject, ForeignService,
                Restart
  <2>4. ready' \subseteq Workloads'
    BY <2>1 DEF Workloads
  <2> QED BY <2>1, <2>2, <2>3, <2>4 DEF Ids
<1>2. CASE StatusPass
  <2>1. FleetInv'
    BY <1>2, PassFleet DEF StatusPass
  <2>2. /\ UNCHANGED scenario /\ UNCHANGED objs /\ UNCHANGED ready
        /\ DOMAIN status' = DOMAIN status /\ pass' \subseteq Ids
    BY <1>2 DEF StatusPass, ListResources, updateStatus, vars
  <2> QED BY <2>1, <2>2 DEF Ids, Workloads
<1>3. CASE \E k \in DOMAIN objs : PodsChange(k)
  <2>1. FleetInv'
    BY <1>3, PassFleet
  <2>2. UNCHANGED scenario /\ UNCHANGED objs /\ UNCHANGED status /\ UNCHANGED pass
          /\ ready' \subseteq Workloads
    BY <1>3 DEF PodsChange
  <2> QED BY <2>1, <2>2 DEF Ids, Workloads
<1>4. CASE UNCHANGED allVars
  <2>1. /\ UNCHANGED scenario /\ UNCHANGED gate /\ UNCHANGED crs /\ UNCHANGED cond /\ UNCHANGED objs
        /\ UNCHANGED queue /\ UNCHANGED work /\ UNCHANGED left
        /\ UNCHANGED ready /\ UNCHANGED status /\ UNCHANGED pass
    BY <1>4 DEF allVars, vars, statusVars
  <2>2. FleetInv'
    BY <2>1, LaterSetting, SameResources, SameObjects, SameWork DEF FleetInv, ResourcesInv
  <2> QED BY <2>1, <2>2 DEF Ids, Workloads
<1> QED BY <1>1, <1>2, <1>3, <1>4 DEF StatusNext

\* Whatever the resources are and whatever happens to them, every object in the
\* namespace that has an owner has a name and the labels of that owner, and so has
\* every object that a running job of the five reconcilers still has to write.
THEOREM FleetInvariant == StatusSpec => []StatusInv
<1>1. StatusInit => StatusInv
  BY InitFleet DEF StatusInit, StatusInv
<1>2. StatusInv /\ [StatusNext]_allVars => StatusInv'
  BY StatusStep
<1> QED BY <1>1, <1>2, PTL DEF StatusSpec

\* The types of the reconcilers and of the status controller: a worker has a job of
\* its own kind, for a resource that exists, and only a job that is writing or is yet
\* to write has objects to write.
THEOREM FleetTypeCorrect == StatusSpec => []StatusTypeOK
<1>1. StatusInv => StatusTypeOK
  <2> SUFFICES ASSUME StatusInv PROVE StatusTypeOK
    OBVIOUS
  <2>1. gate \in Scenarios[scenario].gates /\ left \in 0 .. Scenarios[scenario].disturbances
    BY DEF StatusInv, FleetInv, SettingInv, Gates
  <2>2. /\ \A id \in Ids : crs[id] \in Scenarios[scenario].crs[id] \cup {Gone}
        /\ cond \in [Ids -> [ready : Readiness, paused : BOOLEAN]] /\ queue \subseteq Ids
    BY DEF StatusInv, FleetInv, ResourcesInv, CrsOf
  <2>3. \A k \in DOMAIN objs : Key(objs[k]) = k /\ objs[k].owner \in Ids \cup {NoOwner}
    BY DEF StatusInv, FleetInv, ObjectsInv, Owned, Alien
  <2>4. DOMAIN work = Kinds
    BY DEF StatusInv, FleetInv, WorkInv
  <2>5. ASSUME NEW kind \in Kinds, work[kind] # Idle
        PROVE  /\ Id(work[kind].cr) \in Ids /\ work[kind].cr.kind = kind
               /\ work[kind].stage \in {"prune", "write", "cleanup", "report", "paused"}
               /\ work[kind].stage # "write" => work[kind].todo = <<>> \/ work[kind].stage = "prune"
    <3>1. JobOf(work[kind], kind)
      BY <2>5 DEF StatusInv, FleetInv, WorkInv
    <3> DEFINE job == work[kind]
    <3> HIDE DEF job
    <3>2. JobOf(job, kind)
      BY <3>1 DEF job
    <3>3. /\ Id(job.cr) \in Ids /\ job.cr.kind = kind
          /\ job.stage \in {"prune", "write", "cleanup", "report", "paused"}
          /\ job.stage # "write" => job.todo = <<>> \/ job.stage = "prune"
      BY <3>2 DEF JobOf
    <3> QED BY <3>3 DEF job
  <2>6. TypeOK
    BY <2>1, <2>2, <2>3, <2>4, <2>5 DEF TypeOK
  <2> QED BY <2>6 DEF StatusInv, StatusTypeOK
<1> QED BY <1>1, FleetInvariant, PTL

\* What goes while a job that prunes moves on is what that job prunes.
LEMMA PrunedNow ==
    ASSUME FleetInv, StatusNext, NEW kind \in Kinds, NEW k \in Pruned(kind)
    PROVE  k \in PrunedBefore(work[kind].cr, gate, objs) \cup cleanup(work[kind].cr, gate, objs)
<1>1. /\ Busy(kind, "prune") \/ Busy(kind, "cleanup")
      /\ work'[kind] # work[kind] /\ k \in DOMAIN objs /\ k \notin DOMAIN objs'
  BY DEF Pruned
<1>2. Next
  BY <1>1 DEF StatusNext, Others, StatusPass, ListResources, updateStatus, PodsChange, vars
<1>3. CASE \E other \in Kinds : Worker(other)
  <2>1. PICK other \in Kinds : Worker(other)
    BY <1>3
  <2>2. CASE \E id \in Ids : Reconcile(id)
    BY <1>1, <2>2 DEF Reconcile
  <2>3. CASE CreateOrUpdate(other)
    <3>1. UNCHANGED objs \/ \E x : objs' = With(x)
      BY <2>3 DEF CreateOrUpdate, Change
    <3> QED BY <1>1, <3>1 DEF With
  <2>4. CASE PruneFirst(other) \/ Cleanup(other)
    <3>1. CASE other = kind
      <4>1. CASE PruneFirst(kind)
        BY <1>1, <4>1 DEF PruneFirst, Deletes, Change, Without
      <4>2. CASE Cleanup(kind)
        BY <1>1, <4>2 DEF Cleanup, Deletes, Change, Without
      <4> QED BY <2>4, <3>1, <4>1, <4>2
    <3>2. CASE other # kind
      <4>1. work'[kind] = work[kind]
        BY <2>4, <3>2 DEF PruneFirst, Cleanup, Deletes, FleetInv, WorkInv
      <4> QED BY <1>1, <4>1
    <3> QED BY <3>1, <3>2
  <2>5. CASE Report(other)
    BY <1>1, <2>5 DEF Report
  <2> QED BY <2>1, <2>2, <2>3, <2>4, <2>5 DEF Worker
<1>4. CASE \E other \in DOMAIN objs : CollectGarbage(other)
  BY <1>1, <1>4 DEF CollectGarbage
<1>5. CASE Environment
  BY <1>1, <1>5 DEF Environment, EditSpec, DeleteResource, DeleteObject, ForeignService, Restart
<1> QED BY <1>2, <1>3, <1>4, <1>5 DEF Next

\* A reconciler only ever deletes objects that its own resource owns: what it lists by
\* labels, looks up by name or finds by owner reference is never a neighbour's
\* (handlers.go:196-263 and the cleanup of the five reconcilers).
THEOREM NeighboursStay == StatusSpec => NeverDeletesNeighbours
<1>1. StatusInv /\ [StatusNext]_allVars
      => [\A kind \in Kinds : \A k \in Pruned(kind) : objs[k].owner = Id(work[kind].cr)]_vars
  <2> SUFFICES ASSUME StatusInv, StatusNext, NEW kind \in Kinds, NEW k \in Pruned(kind)
               PROVE  objs[k].owner = Id(work[kind].cr)
    BY DEF allVars
  <2>1. FleetInv
    BY DEF StatusInv
  <2>2. k \in DOMAIN objs /\ work[kind] # Idle
    BY DEF Pruned, Busy
  <2>3. Id(work[kind].cr) \in Ids /\ work[kind].cr \in CrsOf(Id(work[kind].cr))
    BY <2>1, <2>2 DEF FleetInv, WorkInv, JobOf
  <2>4. k \in PrunedBefore(work[kind].cr, gate, objs) \cup cleanup(work[kind].cr, gate, objs)
    BY <2>1, PrunedNow
  <2> QED BY <2>1, <2>2, <2>3, <2>4, PrunedIsOwn DEF FleetInv
<1> QED BY <1>1, FleetInvariant, PTL DEF StatusSpec, NeverDeletesNeighbours

-----------------------------------------------------------------------------
(* What every object is a part of.                                          *)

\* The parts of all versions of a resource, under all gates.
PartsOf(id) == UNION {Parts(cr, g) : cr \in CrsOf(id), g \in Gates}

\* An object of a part of its resource, labelled as the part is listed; a workload
\* has the kind of the part's and pods that fit it.  What it selects, if it does,
\* are pods labelled with its own name, of the same part or of another that has
\* that name.
OfPart(x, part) ==
    /\ x.name \in part.names /\ HasRequiredLabels(x.labels, part.labels)
    /\ IsWorkload(x) => WorkloadFits(x, part)
SelectsIn(x, part) == x.name \in part.names /\ Told(x.body.selector, x.name, part)
Belongs(x, id) ==
    /\ \E part \in PartsOf(id) : OfPart(x, part)
    /\ HasSelector(x) => \E part \in PartsOf(id) : SelectsIn(x, part)

PartsInv ==
    /\ \A k \in DOMAIN objs : objs[k].owner # NoOwner => Belongs(objs[k], objs[k].owner)
    /\ \A kind \in Kinds : work[kind] # Idle =>
          \A i \in DOMAIN work[kind].todo : Belongs(work[kind].todo[i], Id(work[kind].cr))

\* Two resources that give the same name are one (reconcilers write by name only).
LEMMA SameNameSameOwner ==
    ASSUME SettingInv, NEW id \in Ids, NEW other \in Ids, NEW n, Named(id, n), Named(other, n)
    PROVE  id = other
<1>1. PICK cr \in CrsOf(id), g \in Gates : n \in AskedNames(cr, g)
  BY DEF Named
<1>2. PICK neighbour \in CrsOf(other), h \in Gates : n \in AskedNames(neighbour, h)
  BY DEF Named
<1>3. AskedNames(cr, g) \cap AskedNames(neighbour, h) # {}
  BY <1>1, <1>2
<1> QED BY <1>3, NamesAssumption DEF NamesAssumption, SettingInv, CrsOf, Gates, Ids

\* Pods that differ in their volume claims at most.
ButClaims(new, pod) == new = pod \/ \E claims : new = [pod EXCEPT !.claims = claims]

\* What is laid over a workload keeps the kind, the name, the owner and the pods of the
\* one that is written, but the claims, and the selector of the one that was there
\* (mutations.go:33-180).
LEMMA LaidWorkload ==
    ASSUME NEW e, NEW d, IsObject(d), IsWorkload(d), {"selector", "pod"} \subseteq DOMAIN d.body
    PROVE  LET laid == MutateFuncFor(e, d)
           IN  /\ laid.kind = d.kind /\ laid.name = d.name /\ laid.owner = d.owner
               /\ laid.labels = MergeMaps(e.labels, d.labels)
               /\ {"selector", "pod"} \subseteq DOMAIN laid.body
               /\ laid.body.selector = e.body.selector
               /\ ButClaims(laid.body.pod, d.body.pod)
<1> DEFINE labels == MergeMaps(e.labels, d.labels)  selector == e.body.selector
           merged == [d EXCEPT !.labels = labels, !.body.selector = selector]
           laid == MutateFuncFor(e, d)
<1>1. DOMAIN d = {"kind", "name", "labels", "body", "owner"}
  BY DEF IsObject
<1>2. MutateFuncFor(e, d) = IF d.kind = "Deployment" THEN merged
                            ELSE [merged EXCEPT !.body.service = e.body.service,
                                                !.body.pod.claims = e.body.pod.claims]
  BY DEF MutateFuncFor, IsWorkload
<1> HIDE DEF labels, selector
<1>3. /\ DOMAIN merged = DOMAIN d /\ DOMAIN merged.body = DOMAIN d.body
      /\ merged.kind = d.kind /\ merged.name = d.name /\ merged.owner = d.owner
           /\ merged.labels = labels
      /\ merged.body.selector = selector /\ merged.body.pod = d.body.pod
  BY <1>1
<1> DEFINE m == merged
<1>4. /\ DOMAIN m = DOMAIN d /\ DOMAIN m.body = DOMAIN d.body
      /\ m.kind = d.kind /\ m.name = d.name /\ m.owner = d.owner /\ m.labels = labels
      /\ m.body.selector = selector /\ m.body.pod = d.body.pod
  BY <1>3
<1>5. m = merged
  OBVIOUS
<1> HIDE DEF m
<1> DEFINE Keeping(service, claims) == [m EXCEPT !.body.service = service, !.body.pod.claims = claims]
<1>6. ASSUME NEW service, NEW claims, NEW x, x = Keeping(service, claims)
      PROVE  /\ x.kind = d.kind /\ x.name = d.name /\ x.owner = d.owner /\ x.labels = labels
             /\ DOMAIN x.body = DOMAIN d.body /\ x.body.selector = selector
             /\ x.body.pod = [d.body.pod EXCEPT !.claims = claims]
  BY <1>1, <1>4, <1>6
<1>7. MutateFuncFor(e, d) = IF d.kind = "Deployment" THEN m
                            ELSE Keeping(e.body.service, e.body.pod.claims)
  BY <1>2, <1>5
<1> HIDE DEF merged, laid, Keeping
<1>8. CASE d.kind = "Deployment"
  BY <1>4, <1>7, <1>8 DEF labels, selector, ButClaims
<1>9. CASE d.kind # "Deployment"
  <2> DEFINE x == Keeping(e.body.service, e.body.pod.claims)
  <2>1. MutateFuncFor(e, d) = x
    BY <1>7, <1>9
  <2>2. /\ x.kind = d.kind /\ x.name = d.name /\ x.owner = d.owner /\ x.labels = labels
        /\ DOMAIN x.body = DOMAIN d.body /\ x.body.selector = selector
        /\ x.body.pod = [d.body.pod EXCEPT !.claims = e.body.pod.claims]
    BY <1>6
  <2> HIDE DEF x
  <2> QED BY <2>1, <2>2 DEF labels, selector, ButClaims
<1> QED BY <1>8, <1>9

\* So what is laid over an object belongs where the one that is written belongs: the
\* selector that stays is that of the same resource, which alone gives this name.
LEMMA LaidBelongs ==
    ASSUME SettingInv, ObjectsInv, NEW id \in Ids, NEW d, IsObject(d), Owned(d, id), Belongs(d, id),
           Key(d) \in DOMAIN objs,
           objs[Key(d)].owner # NoOwner => Belongs(objs[Key(d)], objs[Key(d)].owner)
    PROVE  Belongs(MutateFuncFor(objs[Key(d)], d), id)
<1> DEFINE e == objs[Key(d)]  laid == MutateFuncFor(e, d)
<1>1. CASE ~ IsWorkload(d)
  BY <1>1 DEF MutateFuncFor, IsWorkload
<1>2. CASE IsWorkload(d)
  <2>1. e.kind = d.kind /\ e.name = d.name /\ (Owned(e, e.owner) \/ Alien(e))
    BY DEF ObjectsInv, Key
  <2>2. Owned(e, e.owner)
    BY <1>2, <2>1 DEF Alien, IsWorkload
  <2>3. e.owner = id
    BY <2>1, <2>2, SameNameSameOwner DEF Owned
  <2> HIDE DEF e
  <2>4. \E part \in PartsOf(id) : SelectsIn(e, part)
    <3>1. id # NoOwner
      BY KnownResource, <2>2 DEF NoOwner, Ids, Id, Owned, Named
    <3> QED BY <1>2, <2>1, <2>3, <3>1 DEF Belongs, HasSelector, IsWorkload, e
  <2>5. PICK part \in PartsOf(id) : OfPart(d, part)
    BY DEF Belongs
  <2>6. WorkloadFits(d, part)
    BY <1>2, <2>5 DEF OfPart
  <2>7. /\ laid.kind = d.kind /\ laid.name = d.name /\ laid.labels = MergeMaps(e.labels, d.labels)
        /\ {"selector", "pod"} \subseteq DOMAIN laid.body /\ laid.body.selector = e.body.selector
        /\ ButClaims(laid.body.pod, d.body.pod)
    <3>1. {"selector", "pod"} \subseteq DOMAIN d.body
      BY <2>6 DEF WorkloadFits
    <3> QED BY <1>2, <3>1, LaidWorkload
  <2> HIDE DEF laid
  <2>8. PodFits(laid.body.pod, laid.name, part)
    <3>1. PodFits(d.body.pod, d.name, part)
      BY <2>6 DEF WorkloadFits
    <3>2. ASSUME NEW claims PROVE PodFits([d.body.pod EXCEPT !.claims = claims], d.name, part)
      <4> DEFINE pod == d.body.pod  new == [pod EXCEPT !.claims = claims]
      <4>1. /\ DOMAIN new = DOMAIN pod /\ new.labels = pod.labels /\ new.account = pod.account
            /\ new.volumes = pod.volumes /\ new.containers = pod.containers
        BY <3>1 DEF PodFits
      <4> HIDE DEF new, pod
      <4>2. PodFits(pod, d.name, part)
        BY <3>1 DEF pod
      <4>3. PodFits(new, d.name, part)
        BY <4>1, <4>2 DEF PodFits
      <4> QED BY <4>3 DEF new, pod
    <3> QED BY <2>7, <3>1, <3>2 DEF ButClaims
  <2>9. HasRequiredLabels(laid.labels, part.labels)
    BY <2>5, <2>7 DEF OfPart, HasRequiredLabels, MergeMaps
  <2>10. OfPart(laid, part)
    BY <2>5, <2>6, <2>7, <2>8, <2>9 DEF OfPart, WorkloadFits
  <2>11. \E p \in PartsOf(id) : SelectsIn(laid, p)
    BY <2>1, <2>4, <2>7 DEF SelectsIn
  <2>12. Belongs(laid, id)
    BY <2>10, <2>11 DEF Belongs
  <2> QED BY <2>12 DEF laid, e
<1> QED BY <1>1, <1>2

\* Whatever a reconciler sets out to write belongs to its resource.
LEMMA JobsBelong ==
    ASSUME SettingInv, NEW id \in Ids, NEW cr \in CrsOf(id), NEW job \in Jobs(cr),
           NEW i \in DOMAIN job.todo
    PROVE  Belongs(job.todo[i], id)
<1>1. id = Id(cr) /\ IsResource(cr) /\ gate \in Gates
  BY KnownResource DEF SettingInv
<1>2. CASE job = Job(cr, "paused", <<>>, FALSE) \/ job = Job(cr, "report", <<>>, TRUE)
  BY <1>2 DEF Job
<1>3. CASE \E d \in Desired(cr, gate, objs), first \in {"prune", "write"} :
              job = Job(cr, first, [j \in DOMAIN d |-> [d[j] EXCEPT !.owner = Id(cr)]], FALSE)
  <2>1. PICK d \in Desired(cr, gate, objs), first \in {"prune", "write"} :
              job = Job(cr, first, [j \in DOMAIN d |-> [d[j] EXCEPT !.owner = Id(cr)]], FALSE)
    BY <1>3
  <2>2. AllAsked(d, Parts(cr, gate))
    BY <1>1, DesiredAsked
  <2>3. i \in DOMAIN d /\ job.todo[i] = [d[i] EXCEPT !.owner = id]
    BY <1>1, <2>1 DEF Job
  <2>4. PICK part \in Parts(cr, gate) : Fits(d[i], part)
    BY <2>2, <2>3 DEF AllAsked, Asked
  <2> DEFINE x == d[i]  y == job.todo[i]
  <2>5. y.kind = x.kind /\ y.name = x.name /\ y.labels = x.labels /\ y.body = x.body
    BY <2>3, <2>4 DEF Fits, IsObject
  <2>6. Fits(x, part)
    BY <2>4
  <2>7. part \in PartsOf(id)
    BY <1>1, <2>4 DEF PartsOf
  <2> HIDE DEF x, y
  <2>8. OfPart(y, part) /\ (HasSelector(y) => SelectsIn(y, part))
    BY <2>5, <2>6 DEF Fits, OfPart, WorkloadFits, IsWorkload, HasSelector, SelectsIn
  <2> QED BY <2>7, <2>8 DEF Belongs, y
<1> QED BY <1>2, <1>3 DEF Jobs

-----------------------------------------------------------------------------
(* What a step does to the objects and the jobs.                            *)

\* A worker has written its next object.
LaidOn(k, desired) == IF k \in DOMAIN objs THEN MutateFuncFor(objs[k], desired) ELSE desired
Wrote(kind, k) ==
    /\ work[kind] # Idle /\ work[kind].stage = "write" /\ work[kind].todo # <<>>
    /\ k = Key(Head(work[kind].todo)) /\ k \in DOMAIN objs'
    /\ objs'[k] = LaidOn(k, Head(work[kind].todo))

\* A job goes on: not at all; it writes, and has not failed later only if it wrote;
\* it prunes.
Rests(job, later)  == later.stage = job.stage /\ later.todo = job.todo /\ later.failed = job.failed
Writes(job, later) ==
    /\ job.stage = "write" /\ later.todo = Tail(job.todo)
         /\ later.stage \in {"write", "cleanup", "report"}
    /\ later.stage = "cleanup" => later.todo = <<>> /\ ~ later.failed
Prunes(job, later) ==
    \/ /\ job.stage = "prune" /\ later.stage = "write" /\ later.todo = job.todo
       /\ ~ later.failed => ~ job.failed
    \/ later.stage = "report" /\ (later.todo = job.todo \/ later.todo = <<>>)
GoesOn(kind) ==
    /\ work[kind] # Idle /\ work'[kind].cr = work[kind].cr
    /\ \/ Rests(work[kind], work'[kind])
       \/ /\ Writes(work[kind], work'[kind])
          /\ ~ work'[kind].failed => ~ work[kind].failed /\ Wrote(kind, Key(Head(work[kind].todo)))
       \/ Prunes(work[kind], work'[kind])

\* A job begins.
Begins(kind) == \E id \in Ids :
    id[1] = kind /\ crs[id] # Gone /\ work'[kind] \in Jobs(crs[id]) /\ UNCHANGED objs

\* The objects that a step leaves: those there were, foreign Services, and what a
\* worker wrote.
ObjectsAfter == \A k \in DOMAIN objs' :
    \/ k \in DOMAIN objs /\ objs'[k] = objs[k]
    \/ Alien(objs'[k])
    \/ \E kind \in Kinds : Wrote(kind, k)
WorkAfter == \A kind \in Kinds : work'[kind] # Idle => GoesOn(kind) \/ Begins(kind)

\* No object changes but for those that go.
LEMMA FewerObjects ==
    ASSUME UNCHANGED objs \/ \E keys : objs' = Without(keys)
    PROVE  ObjectsAfter
BY DEF Without, ObjectsAfter

\* No job moves.
LEMMA JobsRest ==
    ASSUME UNCHANGED work
    PROVE  WorkAfter
BY DEF WorkAfter, GoesOn, Rests

\* Copies of a resource become out of date.
LEMMA JobsOutdated ==
    ASSUME WorkInv, NEW id, work' = Outdated(id)
    PROVE  WorkAfter
<1> SUFFICES ASSUME NEW kind \in Kinds, work'[kind] # Idle
             PROVE  GoesOn(kind)
  BY DEF WorkAfter
<1>1. CASE work'[kind] = work[kind]
  BY <1>1 DEF GoesOn, Rests
<1>2. CASE work[kind] # Idle /\ work'[kind] = [work[kind] EXCEPT !.current = FALSE]
  <2> DEFINE job == work[kind]  later == work'[kind]
  <2>1. IsJob(job)
    BY <1>2 DEF WorkInv, JobOf, IsJob
  <2>2. later = [job EXCEPT !.current = FALSE]
    BY <1>2
  <2>3. job # Idle
    BY <1>2
  <2> HIDE DEF job, later
  <2>4. later.cr = job.cr /\ later.stage = job.stage /\ later.todo = job.todo
          /\ later.failed = job.failed
    BY <2>1, <2>2 DEF IsJob
  <2> QED BY <2>3, <2>4 DEF GoesOn, Rests, job, later
<1> QED BY <1>1, <1>2 DEF Outdated

\* One worker moves, the others do not.
LEMMA OneMoves ==
    ASSUME WorkInv, NEW kind \in Kinds, NEW job, work' = [work EXCEPT ![kind] = job],
           job # Idle => GoesOn(kind) \/ Begins(kind)
    PROVE  WorkAfter
<1> SUFFICES ASSUME NEW other \in Kinds, work'[other] # Idle
             PROVE  GoesOn(other) \/ Begins(other)
  BY DEF WorkAfter
<1>1. CASE other = kind
  BY <1>1 DEF WorkInv
<1>2. CASE other # kind
  <2>1. work'[other] = work[other]
    BY <1>2 DEF WorkInv
  <2> QED BY <2>1 DEF GoesOn, Rests
<1> QED BY <1>1, <1>2

\* A reconcile begins (thanosreceive_controller.go:101-155 and its like).
LEMMA ReconcileEffect ==
    ASSUME FleetInv, NEW id \in Ids, Reconcile(id)
    PROVE  ObjectsAfter /\ WorkAfter
<1>1. UNCHANGED objs
  BY DEF Reconcile
<1>2. CASE crs[id] = Gone
  BY <1>1, <1>2, FewerObjects, JobsRest DEF Reconcile
<1>3. CASE crs[id] # Gone
  <2>1. PICK job \in Jobs(crs[id]) : work' = [work EXCEPT ![id[1]] = job]
    BY <1>3 DEF Reconcile
  <2>2. id[1] \in Kinds /\ work'[id[1]] = job
    BY <2>1 DEF FleetInv, WorkInv, Kinds
  <2>3. Begins(id[1])
    BY <1>1, <1>3, <2>1, <2>2 DEF Begins
  <2> QED BY <1>1, <2>1, <2>2, <2>3, FewerObjects, OneMoves DEF FleetInv
<1> QED BY <1>2, <1>3

\* A write, and what becomes of the job (handlers.go:53-128).
LEMMA CreateOrUpdateEffect ==
    ASSUME FleetInv, NEW kind \in Kinds, CreateOrUpdate(kind)
    PROVE  ObjectsAfter /\ WorkAfter
<1> DEFINE job == work[kind]  desired == Head(job.todo)  k == Key(desired)
           laid == LaidOn(k, desired)
<1>1. PICK fails \in BOOLEAN :
        /\ IF fails THEN UNCHANGED objs ELSE Change(With(laid), {})
        /\ work' = [work EXCEPT ![kind].todo = Tail(@),
                                ![kind].failed = @ \/ fails,
                                ![kind].stage = IF Len(work[kind].todo) > 1 THEN "write"
                                                ELSE afterWrites(kind, work[kind].failed \/ fails)]
  BY DEF CreateOrUpdate, LaidOn
<1>2. job # Idle /\ job.stage = "write"
  BY DEF CreateOrUpdate, Busy
<1>3. JobOf(job, kind)
  BY <1>2 DEF FleetInv, WorkInv
<1>4. job.todo # <<>> /\ \E T : job.todo \in Seq(T)
  BY <1>2, <1>3 DEF JobOf, Todo
<1>5. ~ fails => Wrote(kind, k)
        /\ \A n \in DOMAIN objs' : n = k \/ (n \in DOMAIN objs /\ objs'[n] = objs[n])
  <2> SUFFICES ASSUME ~ fails
               PROVE  Wrote(kind, k)
                        /\ \A n \in DOMAIN objs' : n = k \/ (n \in DOMAIN objs /\ objs'[n] = objs[n])
    OBVIOUS
  <2>1. objs' = With(laid)
    BY <1>1 DEF Change
  <2>2. Key(laid) = k
    <3>1. desired \in {job.todo[i] : i \in DOMAIN job.todo}
      <4>1. PICK T : job.todo \in Seq(T)
        BY <1>4
      <4> DEFINE t == job.todo
      <4>2. t \in Seq(T) /\ t # <<>>
        BY <1>4, <4>1
      <4> HIDE DEF t
      <4>3. 1 \in DOMAIN t /\ Head(t) = t[1]
        BY <4>2
      <4> QED BY <4>3 DEF t
    <3>2. /\ IsObject(desired) /\ Marked(desired.labels, Marks(Id(job.cr)))
      <4> HIDE DEF job
      <4> QED BY <1>2, <1>3, <3>1 DEF JobOf, Todo, Owned
    <3> HIDE DEF desired
    <3>3. \A e : MutateFuncFor(e, desired).kind = desired.kind
            /\ MutateFuncFor(e, desired).name = desired.name
      BY <3>2, LaidOver
    <3> QED BY <3>3 DEF LaidOn, Key
  <2> HIDE DEF laid, k
  <2>3. k \in DOMAIN objs' /\ objs'[k] = laid
    BY <2>1, <2>2 DEF With
  <2>4. \A n \in DOMAIN objs' : n = k \/ (n \in DOMAIN objs /\ objs'[n] = objs[n])
    BY <2>1, <2>2 DEF With
  <2> QED BY <1>2, <1>4, <2>3, <2>4 DEF Wrote, laid, k
<1>6. ObjectsAfter
  BY <1>1, <1>5, FewerObjects DEF ObjectsAfter
<1> HIDE DEF k, laid
<1> DEFINE todo == Tail(job.todo)  failed == job.failed \/ fails
           stage == IF Len(job.todo) > 1 THEN "write" ELSE afterWrites(kind, failed)
           later == [job EXCEPT !.todo = todo, !.failed = failed, !.stage = stage]
<1>7. work' = [work EXCEPT ![kind] = later] /\ work'[kind] = later
  BY <1>1 DEF FleetInv, WorkInv
<1>8. IsJob(job)
  BY <1>3 DEF JobOf, IsJob
<1>9. Len(job.todo) <= 1 => todo = <<>>
  <2> DEFINE t == job.todo
  <2>1. PICK T : t \in Seq(T)
    BY <1>4
  <2>2. t # <<>>
    BY <1>4
  <2> HIDE DEF t
  <2>3. Len(t) <= 1 => Tail(t) = <<>>
    <3> DEFINE u == Tail(t)
    <3>1. Len(t) \in Nat /\ Len(t) >= 1 /\ u \in Seq(T) /\ Len(u) = Len(t) - 1
      BY <2>1, <2>2
    <3> HIDE DEF u
    <3>2. Len(t) <= 1 => u = <<>>
      BY <3>1
    <3> QED BY <3>2 DEF u
  <2> QED BY <2>3 DEF t
<1>10. Len(job.todo) \in Nat
  BY <1>4
<1> HIDE DEF todo, failed, stage
<1>11. Becomes(job, stage, failed, todo, later)
  BY DEF Becomes
<1> HIDE DEF job, later
<1>12. later.cr = job.cr /\ later.todo = todo /\ later.stage = stage /\ later.failed = failed
  BY <1>8, <1>11, LaterJob
<1>13. Writes(job, later)
  BY <1>2, <1>9, <1>10, <1>12 DEF Writes, todo, failed, stage, afterWrites
<1>14. ~ later.failed => ~ job.failed /\ Wrote(kind, Key(Head(job.todo)))
  BY <1>5, <1>12 DEF failed, k
<1>15. GoesOn(kind)
  BY <1>2, <1>7, <1>12, <1>13, <1>14 DEF GoesOn, job
<1> QED BY <1>6, <1>7, <1>15, OneMoves DEF FleetInv

\* A job prunes (handlers.go:196-266).
LEMMA DeletesEffect ==
    ASSUME FleetInv, NEW kind \in Kinds, NEW keys, NEW next, Deletes(kind, keys, next),
           work[kind] # Idle,
           (work[kind].stage = "prune" /\ next = "write")
             \/ (work[kind].stage = "cleanup" /\ next = "report")
    PROVE  ObjectsAfter /\ WorkAfter
<1> DEFINE job == work[kind]
<1>1. PICK stay :
         /\ Change(Without(keys \ stay), {})
         /\ work' = [work EXCEPT ![kind].todo = IF stay = {} THEN @ ELSE <<>>,
                                 ![kind].failed = @ \/ stay # {},
                                 ![kind].stage = IF stay = {} THEN next ELSE "report"]
  BY DEF Deletes
<1>2. ObjectsAfter
  BY <1>1, FewerObjects DEF Change
<1>3. JobOf(job, kind)
  BY DEF FleetInv, WorkInv
<1> DEFINE stage == IF stay = {} THEN next ELSE "report"  failed == job.failed \/ stay # {}
           todo == IF stay = {} THEN job.todo ELSE <<>>
           later == [job EXCEPT !.todo = todo, !.failed = failed, !.stage = stage]
<1>4. work' = [work EXCEPT ![kind] = later] /\ work'[kind] = later /\ job # Idle
  BY <1>1 DEF FleetInv, WorkInv
<1>5. IsJob(job)
  BY <1>3 DEF JobOf, IsJob
<1>6. (job.stage = "prune" /\ next = "write") \/ (job.stage = "cleanup" /\ next = "report")
  OBVIOUS
<1> HIDE DEF job, todo, failed, stage
<1>7. Becomes(job, stage, failed, todo, later)
  BY DEF Becomes
<1> HIDE DEF later
<1>8. later.cr = job.cr /\ later.todo = todo /\ later.stage = stage /\ later.failed = failed
  BY <1>5, <1>7, LaterJob
<1>9. Prunes(job, later)
  BY <1>6, <1>8 DEF Prunes, todo, failed, stage
<1>10. GoesOn(kind)
  BY <1>4, <1>8, <1>9 DEF GoesOn, job
<1> QED BY <1>2, <1>4, <1>10, OneMoves DEF FleetInv

\* Every step leaves the objects and the jobs so.
LEMMA NextEffect ==
    ASSUME FleetInv, Next
    PROVE  ObjectsAfter /\ WorkAfter
<1>1. CASE \E kind \in Kinds : Worker(kind)
  <2>1. PICK kind \in Kinds : Worker(kind)
    BY <1>1
  <2>2. CASE \E id \in Ids : Reconcile(id)
    BY <2>2, ReconcileEffect
  <2>3. CASE CreateOrUpdate(kind)
    BY <2>3, CreateOrUpdateEffect
  <2>4. CASE PruneFirst(kind)
    BY <2>4, DeletesEffect DEF PruneFirst, Busy
  <2>5. CASE Cleanup(kind)
    BY <2>5, DeletesEffect DEF Cleanup, Busy
  <2>6. CASE Report(kind)
    <3>1. UNCHANGED objs /\ work' = [work EXCEPT ![kind] = Idle]
      BY <2>6 DEF Report
    <3> QED BY <3>1, FewerObjects, OneMoves DEF FleetInv
  <2> QED BY <2>1, <2>2, <2>3, <2>4, <2>5, <2>6 DEF Worker
<1>2. CASE \E k \in DOMAIN objs : CollectGarbage(k) \/ DeleteObject(k)
  <2>1. UNCHANGED work /\ \E k : Change(Without({k}), {})
    BY <1>2 DEF CollectGarbage, DeleteObject
  <2>2. \E keys : objs' = Without(keys)
    BY <2>1 DEF Change
  <2> QED BY <2>1, <2>2, FewerObjects, JobsRest
<1>3. CASE \E id \in Ids : EditSpec(id) \/ DeleteResource(id)
  <2>1. UNCHANGED objs /\ \E id : work' = Outdated(id)
    BY <1>3 DEF EditSpec, DeleteResource
  <2> QED BY <2>1, FewerObjects, JobsOutdated DEF FleetInv
<1>4. CASE ForeignService
  <2>1. UNCHANGED work
    BY <1>4 DEF ForeignService
  <2>2. CASE \E svc \in Foreign : Change(With(svc), {})
    <3>1. PICK svc \in Foreign : objs' = With(svc)
      BY <2>2 DEF Change
    <3>2. Alien(svc)
      BY ScenariosAssumption DEF FleetInv, SettingInv, ScenariosAssumption, Alien, Foreign
    <3>3. \A k \in DOMAIN objs' : objs'[k] = svc \/ (k \in DOMAIN objs /\ objs'[k] = objs[k])
      BY <3>1 DEF With
    <3> QED BY <2>1, <3>2, <3>3, JobsRest DEF ObjectsAfter
  <2>3. CASE \E svc \in Foreign : Change(Without({Key(svc)}), {})
    <3>1. \E keys : objs' = Without(keys)
      BY <2>3 DEF Change
    <3> QED BY <2>1, <3>1, FewerObjects, JobsRest
  <2> QED BY <1>4, <2>2, <2>3 DEF ForeignService
<1>5. CASE Restart
  <2>1. UNCHANGED objs /\ \A kind \in Kinds : work'[kind] = Idle
    BY <1>5 DEF Restart
  <2> QED BY <2>1, FewerObjects DEF WorkAfter
<1> QED BY <1>1, <1>2, <1>3, <1>4, <1>5 DEF Next, Environment

\* So does every step of the status controller and of the pods.
LEMMA StepEffect ==
    ASSUME FleetInv, [StatusNext]_allVars
    PROVE  ObjectsAfter /\ WorkAfter /\ UNCHANGED scenario
<1>1. CASE Others
  <2>1. Next
    BY <1>1 DEF Others
  <2>2. UNCHANGED scenario
    BY <2>1 DEF Next, Worker, Reconcile, CreateOrUpdate, PruneFirst, Cleanup, Deletes, Report,
                Environment, EditSpec, DeleteResource, CollectGarbage, DeleteObject, ForeignService,
                Restart
  <2> QED BY <2>1, <2>2, NextEffect
<1>2. CASE StatusPass \/ (\E k \in DOMAIN objs : PodsChange(k)) \/ UNCHANGED allVars
  <2>1. UNCHANGED objs /\ UNCHANGED scenario /\ (UNCHANGED work \/ \E id : work' = Outdated(id))
    BY <1>2 DEF StatusPass, ListResources, updateStatus, PodsChange, allVars, vars, statusVars
  <2> QED BY <2>1, FewerObjects, JobsRest, JobsOutdated DEF FleetInv
<1> QED BY <1>1, <1>2 DEF StatusNext

\* A list after its first entry.
LEMMA TailEntries ==
    ASSUME NEW list, list # <<>>, \E T : list \in Seq(T)
    PROVE  /\ 1 \in DOMAIN list /\ Head(list) = list[1]
           /\ \A i \in DOMAIN Tail(list) : i + 1 \in DOMAIN list /\ Tail(list)[i] = list[i + 1]
           /\ \A j \in DOMAIN list : j # 1 => j - 1 \in DOMAIN Tail(list) /\ Tail(list)[j - 1] = list[j]
<1>1. PICK T : list \in Seq(T)
  OBVIOUS
<1>2. Len(list) \in Nat /\ Len(list) >= 1 /\ DOMAIN list = 1 .. Len(list) /\ Head(list) = list[1]
  BY <1>1
<1>3. Tail(list) \in Seq(T) /\ Len(Tail(list)) = Len(list) - 1
  BY <1>1, <1>2
<1>4. DOMAIN Tail(list) = 1 .. Len(list) - 1
        /\ \A i \in 1 .. Len(list) - 1 : Tail(list)[i] = list[i + 1]
  BY <1>1, <1>2, <1>3
<1> QED BY <1>2, <1>4

\* The next object of a job that writes is one of those it has to write.
LEMMA NextToWrite ==
    ASSUME FleetInv, NEW kind \in Kinds, work[kind] # Idle, work[kind].todo # <<>>
    PROVE  LET job == work[kind]
           IN  /\ JobOf(job, kind) /\ Id(job.cr) \in Ids /\ \E T : job.todo \in Seq(T)
               /\ 1 \in DOMAIN job.todo /\ Head(job.todo) = job.todo[1]
               /\ IsObject(job.todo[1]) /\ Owned(job.todo[1], Id(job.cr))
<1> DEFINE job == work[kind]
<1>1. JobOf(job, kind) /\ job.todo # <<>>
  BY DEF FleetInv, WorkInv
<1> HIDE DEF job
<1>2. Todo(job.todo, Id(job.cr)) /\ Id(job.cr) \in Ids
  BY <1>1 DEF JobOf
<1>3. \E T : job.todo \in Seq(T)
  BY <1>2 DEF Todo
<1>4. 1 \in DOMAIN job.todo /\ Head(job.todo) = job.todo[1]
  BY <1>1, <1>3, TailEntries
<1>5. IsObject(job.todo[1]) /\ Owned(job.todo[1], Id(job.cr))
  BY <1>2, <1>4 DEF Todo
<1> QED BY <1>1, <1>2, <1>3, <1>4, <1>5 DEF job

\* Every step keeps what each object, and each that is to be written, is a part of.
LEMMA PartsStep ==
    ASSUME FleetInv, PartsInv, [StatusNext]_allVars
    PROVE  PartsInv'
<1>1. ObjectsAfter /\ WorkAfter /\ UNCHANGED scenario
  BY StepEffect
<1>2. \A x, id : Belongs(x, id)' <=> Belongs(x, id)
  BY <1>1 DEF Belongs, PartsOf, CrsOf, Gates
<1>3. Kinds' = Kinds
  BY <1>1 DEF Kinds, Ids
<1>4. ASSUME NEW k \in DOMAIN objs', objs'[k].owner # NoOwner
      PROVE  Belongs(objs'[k], objs'[k].owner)
  <2>1. CASE k \in DOMAIN objs /\ objs'[k] = objs[k]
    BY <1>4, <2>1 DEF PartsInv
  <2>2. CASE Alien(objs'[k])
    BY <1>4, <2>2 DEF Alien
  <2>3. CASE \E kind \in Kinds : Wrote(kind, k)
    <3>1. PICK kind \in Kinds : Wrote(kind, k)
      BY <2>3
    <3> DEFINE job == work[kind]  d == job.todo[1]  id == Id(job.cr)
    <3>2. work[kind] # Idle /\ work[kind].todo # <<>>
      BY <3>1 DEF Wrote
    <3>3. /\ id \in Ids /\ 1 \in DOMAIN job.todo /\ Head(job.todo) = d
          /\ IsObject(d) /\ Owned(d, id)
      BY <3>2, NextToWrite
    <3>4. Belongs(d, id)
      BY <3>2, <3>3 DEF PartsInv
    <3>5. k = Key(d) /\ objs'[k] = LaidOn(k, d)
      BY <3>1, <3>3 DEF Wrote
    <3> HIDE DEF id, d
    <3>6. CASE k \notin DOMAIN objs
      BY <3>3, <3>4, <3>5, <3>6 DEF LaidOn, Owned
    <3>7. CASE k \in DOMAIN objs
      <4>1. objs[k].owner # NoOwner => Belongs(objs[k], objs[k].owner)
        BY <3>7 DEF PartsInv
      <4>2. Belongs(MutateFuncFor(objs[k], d), id)
        BY <3>3, <3>4, <3>5, <3>7, <4>1, LaidBelongs DEF FleetInv
      <4>3. MutateFuncFor(objs[k], d).owner = id
        BY <3>3, LaidOver DEF Owned
      <4> QED BY <3>5, <3>7, <4>2, <4>3 DEF LaidOn
    <3> QED BY <3>6, <3>7
  <2> QED BY <1>1, <2>1, <2>2, <2>3 DEF ObjectsAfter
<1>5. ASSUME NEW kind \in Kinds, work'[kind] # Idle, NEW i \in DOMAIN work'[kind].todo
      PROVE  Belongs(work'[kind].todo[i], Id(work'[kind].cr))
  <2>1. CASE Begins(kind)
    <3>1. PICK id \in Ids : crs[id] # Gone /\ work'[kind] \in Jobs(crs[id])
      BY <2>1 DEF Begins
    <3>2. crs[id] \in CrsOf(id)
      BY <3>1 DEF FleetInv, ResourcesInv
    <3>3. Belongs(work'[kind].todo[i], id)
      BY <1>5, <3>1, <3>2, JobsBelong DEF FleetInv
    <3>4. work'[kind].cr = crs[id]
      BY <3>1 DEF Jobs, Job
    <3>5. id = Id(crs[id])
      BY <3>2, KnownResource DEF FleetInv
    <3> QED BY <3>3, <3>4, <3>5
  <2>2. CASE GoesOn(kind)
    <3> DEFINE job == work[kind]  later == work'[kind]
    <3>1. job # Idle /\ later.cr = job.cr
      BY <2>2 DEF GoesOn
    <3>2. \A j \in DOMAIN job.todo : Belongs(job.todo[j], Id(job.cr))
      BY <3>1 DEF PartsInv
    <3>3. CASE later.todo = job.todo
      BY <1>5, <3>1, <3>2, <3>3
    <3>4. CASE later.todo = <<>>
      BY <1>5, <3>4
    <3>5. CASE Writes(job, later)
      <4>1. later.todo = Tail(job.todo) /\ job.stage = "write"
        BY <3>5 DEF Writes
      <4>2. job.todo # <<>> /\ \E T : job.todo \in Seq(T)
        <5>1. JobOf(job, kind)
          BY <3>1 DEF FleetInv, WorkInv
        <5> HIDE DEF job
        <5> QED BY <4>1, <5>1 DEF JobOf, Todo
      <4>3. i + 1 \in DOMAIN job.todo /\ later.todo[i] = job.todo[i + 1]
        BY <1>5, <4>1, <4>2, TailEntries
      <4> QED BY <3>1, <3>2, <4>3
    <3> QED BY <2>2, <3>3, <3>4, <3>5 DEF GoesOn, Rests, Prunes
  <2> QED BY <1>1, <1>5, <2>1, <2>2 DEF WorkAfter
<1> QED BY <1>2, <1>3, <1>4, <1>5 DEF PartsInv

\* The parts of all objects, from the beginning on.
PartedInv == StatusInv /\ PartsInv

\* Whatever happens, every object in the namespace that has an owner, and every object
\* that a running job still has to write, is one of a part of its resource: labelled as
\* that part is listed, its pods, if it has any, running under an account of its own
\* name and referring to nothing but ConfigMaps, what the users name and a stateless
\* ruler's own Secret, also after a write has been laid over an older object
\* (mutations.go:33-180, handlers.go:53-128, options.go:248-365).
THEOREM PartsInvariant == StatusSpec => []PartedInv
<1>1. StatusInit => PartedInv
  <2> SUFFICES ASSUME StatusInit PROVE PartedInv
    OBVIOUS
  <2>1. StatusInv
    BY InitFleet DEF StatusInit, StatusInv
  <2>2. PartsInv
    BY DEF StatusInit, Init, PartsInv, NoObjects
  <2> QED BY <2>1, <2>2 DEF PartedInv
<1>2. PartedInv /\ [StatusNext]_allVars => PartedInv'
  BY StatusStep, PartsStep DEF PartedInv, StatusInv
<1> QED BY <1>1, <1>2, PTL DEF StatusSpec

\* An object that selects pods and a workload whose pods it selects have one name: the
\* pods' labels tell the component and the owner of both, so they are one resource's,
\* and that resource's names are different label values.
LEMMA SelectedIsOwn ==
    ASSUME SettingInv, NEW id \in Ids, NEW other \in Ids, NEW n, NEW m, NEW labels,
           NEW part \in PartsOf(id), NEW its \in PartsOf(other),
           n \in part.names, Told(labels, n, part), m \in its.names, Told(labels, m, its)
    PROVE  n = m
<1>1. PICK cr \in CrsOf(id), g \in Gates : part \in Parts(cr, g)
  BY DEF PartsOf
<1>2. PICK neighbour \in CrsOf(other), h \in Gates : its \in Parts(neighbour, h)
  BY DEF PartsOf
<1>3. IsResource(cr) /\ id = Id(cr) /\ IsResource(neighbour) /\ other = Id(neighbour)
  BY KnownResource
<1>4. Marked(part.labels, Marks(id)) /\ Marked(its.labels, Marks(other))
  BY <1>1, <1>2, <1>3, PartMarked
<1>5. <<labels["name"], labels["owner"]>> \in Marks(id) \cap Marks(other)
  BY <1>4 DEF Told, HasRequiredLabels, Marked
<1>6. id = other
  BY <1>5, MarksApart
<1>7. n \in AskedNames(cr, g) /\ m \in AskedNames(neighbour, h)
  BY <1>1, <1>2, <1>3, PartNames
<1>8. ValidateAndSanitizeNameToValidLabelValue(n) = ValidateAndSanitizeNameToValidLabelValue(m)
  BY DEF Told
<1> QED BY <1>6, <1>7, <1>8, LabelsAssumption DEF LabelsAssumption, SettingInv, CrsOf, Gates, Ids

\* A selector that some pods have and that tells its instance: so do the pods.
LEMMA SelectorTold ==
    ASSUME NEW labels, NEW selector, HasRequiredLabels(labels, selector),
           NEW n, NEW part, Told(selector, n, part)
    PROVE  Told(labels, n, part)
BY DEF Told, HasRequiredLabels

\* At any time the Services, the disruption budgets and the workloads of the operator
\* select the pods of the workload of their own name and of no other, be it of another
\* shard, hashring, component or resource, for any resources, gates and edits, whatever
\* is created anew or laid over what was there (labels.go:31-75, mutations.go:33-180).
THEOREM SelectionStaysApart == StatusSpec => []SelectsOnlyItsOwn
<1>1. PartedInv => SelectsOnlyItsOwn
  <2> SUFFICES ASSUME StatusInv, PartsInv, NEW k \in Selecting \cup Workloads, NEW w \in Workloads,
                      Selects(objs[k], w)
               PROVE  w[2] = k[2]
    BY DEF PartedInv, SelectsOnlyItsOwn
  <2> DEFINE x == objs[k]  y == objs[w]
  <2>1. k \in DOMAIN objs /\ w \in DOMAIN objs /\ SettingInv /\ ObjectsInv
    BY DEF Selecting, Workloads, StatusInv, FleetInv
  <2>2. k = <<x.kind, x.name>> /\ w = <<y.kind, y.name>>
    BY <2>1 DEF ObjectsInv, Key
  <2>3. IsWorkload(y) /\ HasSelector(x) /\ (IsWorkload(x) \/ x.owner # NoOwner)
    BY <2>2 DEF Workloads, Selecting, IsWorkload, HasSelector
  <2>4. Owned(x, x.owner) /\ Owned(y, y.owner)
    BY <2>1, <2>3 DEF ObjectsInv, Alien, IsWorkload
  <2>5. x.owner \in Ids /\ y.owner \in Ids /\ x.owner # NoOwner /\ y.owner # NoOwner
    BY <2>1, <2>4, KnownResource DEF Owned, Named, Id, NoOwner
  <2>6. Belongs(x, x.owner) /\ Belongs(y, y.owner)
    BY <2>1, <2>5 DEF PartsInv
  <2>7. HasRequiredLabels(y.body.pod.labels, x.body.selector)
    BY DEF Selects, Pods
  <2> HIDE DEF x, y
  <2>8. PICK part \in PartsOf(x.owner) : x.name \in part.names /\ Told(x.body.selector, x.name, part)
    BY <2>3, <2>6 DEF Belongs, SelectsIn
  <2>9. PICK its \in PartsOf(y.owner) : y.name \in its.names /\ Told(y.body.pod.labels, y.name, its)
    BY <2>3, <2>6 DEF Belongs, OfPart, WorkloadFits, PodFits
  <2>10. Told(y.body.pod.labels, x.name, part)
    BY <2>7, <2>8, SelectorTold
  <2>11. x.name = y.name
    BY <2>1, <2>5, <2>8, <2>9, <2>10, SelectedIsOwn
  <2> QED BY <2>2, <2>11
<1> QED BY <1>1, PartsInvariant, PTL

-----------------------------------------------------------------------------
(* What the pods refer to.                                                  *)

\* The pods of an instance refer to its account, to ConfigMaps and to the sources of
\* its part.
LEMMA PodRefers ==
    ASSUME NEW pod, NEW name, NEW part, PodFits(pod, name, part), NEW ref \in Refers(pod)
    PROVE  ref = <<"ServiceAccount", name>> \/ ref[1] = "ConfigMap" \/ ref \in part.sources
<1>1. CASE ref \in {<<"ServiceAccount", pod.account>>}
  BY <1>1 DEF PodFits
<1>2. CASE \E i \in DOMAIN pod.volumes : ref \in pod.volumes[i].source
  BY <1>2 DEF PodFits, AllFrom
<1>3. CASE \E i \in DOMAIN pod.containers : \E j \in DOMAIN pod.containers[i].env :
              ref \in pod.containers[i].env[j].source
  BY <1>3 DEF PodFits, ContainerFits, AllFrom
<1> QED BY <1>1, <1>2, <1>3 DEF Refers

\* Claims are no references.
LEMMA ClaimsReferNothing ==
    ASSUME NEW new, NEW pod, ButClaims(new, pod)
    PROVE  Refers(new) = Refers(pod)
<1>1. CASE new = pod
  BY <1>1
<1>2. CASE \E claims : new = [pod EXCEPT !.claims = claims]
  <2>1. new.account = pod.account /\ new.volumes = pod.volumes /\ new.containers = pod.containers
    BY <1>2
  <2> QED BY <2>1 DEF Refers
<1> QED BY <1>1, <1>2 DEF ButClaims

\* A list that has an object with a key still has it when more follow.
LEMMA StillThere ==
    ASSUME NEW a, NEW b, \E A : a \in Seq(A), \E B : b \in Seq(B), NEW i \in DOMAIN a
    PROVE  i \in DOMAIN (a \o b) /\ (a \o b)[i] = a[i] /\ \E A : a \o b \in Seq(A)
<1>1. PICK A : a \in Seq(A)
  OBVIOUS
<1>2. PICK B : b \in Seq(B)
  OBVIOUS
<1>3. a \in Seq(A \cup B) /\ b \in Seq(A \cup B)
  BY <1>1, <1>2
<1>4. a \o b \in Seq(A \cup B)
  BY <1>3
<1>5. i \in DOMAIN (a \o b) /\ (a \o b)[i] = a[i]
  BY <1>3
<1> QED BY <1>4, <1>5

\* The second object that a ruler asks for is its StatefulSet (ruler/builder.go:87-109).
LEMMA RulersSecond ==
    ASSUME NEW o
    PROVE  /\ 2 \in DOMAIN R!Build(o)
           /\ Key(R!Build(o)[2]) = <<"StatefulSet", R!GetGeneratedResourceName(o)>>
<1> DEFINE name == R!GetGeneratedResourceName(o)  set == R!newRulerStatefulSet(o)
           first == <<R!BuildServiceAccount(name, R!GetSelectorLabels(o)), set, R!newRulerService(o)>>
           sec == IF R!IsStateful(o) THEN <<>> ELSE <<R!newRulerSecret(o)>>
           pdb == R!WhenSome(o.pdb, LAMBDA p :
                      R!NewPodDisruptionBudget(name, R!GetSelectorLabels(o), R!GetLabels(o), p))
           sm == R!WhenSome(o.gate.sm, LAMBDA c :
                      R!BuildServiceMonitor(name, R!GetLabels(o), R!GetSelectorLabels(o), c, R!HTTP))
<1>1. R!Build(o) = ((first \o sec) \o pdb) \o sm
  BY DEF R!Build
<1>2. \E A : sec \in Seq(A)
  <2>1. <<>> \in Seq({}) /\ <<R!newRulerSecret(o)>> \in Seq({R!newRulerSecret(o)})
    OBVIOUS
  <2> QED BY <2>1
<1>3. \E A : pdb \in Seq(A)
  <2>1. \A x : <<x>> \in Seq({x})
    OBVIOUS
  <2>2. <<>> \in Seq({})
    OBVIOUS
  <2> HIDE DEF name
  <2> QED BY <2>1, <2>2 DEF R!WhenSome
<1>4. \E A : sm \in Seq(A)
  <2>1. \A x : <<x>> \in Seq({x})
    OBVIOUS
  <2>2. <<>> \in Seq({})
    OBVIOUS
  <2> HIDE DEF name
  <2> QED BY <2>1, <2>2 DEF R!WhenSome
<1>5. set.kind = "StatefulSet" /\ set.name = name
  <2>1. \E labels, replicas, selector, service, pod :
           set = R!AugmentWithOptions(R!StatefulSet(name, labels, replicas, selector, service, pod), o)
    BY DEF R!newRulerStatefulSet
  <2> HIDE DEF name, set
  <2>2. ASSUME NEW labels, NEW replicas, NEW selector, NEW service, NEW pod
        PROVE  LET x == R!AugmentWithOptions(R!StatefulSet(name, labels, replicas, selector, service,
                 pod), o)
               IN  x.kind = "StatefulSet" /\ x.name = name
    <3> DEFINE old == R!StatefulSet(name, labels, replicas, selector, service, pod)
    <3>1. /\ old.kind = "StatefulSet" /\ old.name = name
          /\ DOMAIN old = {"kind", "name", "labels", "body", "owner"}
      BY DEF R!StatefulSet, R!Object
    <3> HIDE DEF old
    <3>2. R!AugmentWithOptions(old, o)
            = [old EXCEPT !.body.pod = R!Augmented(@, o), !.body.rollout = o.rollout]
      BY <3>1 DEF R!AugmentWithOptions
    <3>3. R!AugmentWithOptions(old, o).kind = "StatefulSet" /\ R!AugmentWithOptions(old, o).name = name
      BY <3>1, <3>2
    <3> QED BY <3>3 DEF old
  <2> QED BY <2>1, <2>2
<1> HIDE DEF set, name, sec, pdb, sm
<1>6. 2 \in DOMAIN first /\ first[2] = set /\ \E A : first \in Seq(A)
  <2>1. \A x, y, z : <<x, y, z>> \in Seq({x, y, z}) /\ 2 \in DOMAIN <<x, y, z>> /\ <<x, y, z>>[2] = y
    OBVIOUS
  <2> QED BY <2>1
<1> HIDE DEF first
<1> DEFINE a == first \o sec
<1>7. 2 \in DOMAIN a /\ a[2] = set /\ \E A : a \in Seq(A)
  BY <1>2, <1>6, StillThere
<1> DEFINE b == a \o pdb
<1>8. 2 \in DOMAIN b /\ b[2] = set /\ \E A : b \in Seq(A)
  <2> HIDE DEF a
  <2> QED BY <1>3, <1>7, StillThere
<1>9. 2 \in DOMAIN (b \o sm) /\ (b \o sm)[2] = set
  <2> HIDE DEF b
  <2> QED BY <1>4, <1>8, StillThere
<1> QED BY <1>1, <1>5, <1>9 DEF Key, name

-----------------------------------------------------------------------------
(* A ruler that has become stateful.                                        *)

\* No pod of a ruler's workload refers to the Secret of its stateless days.
Unused(n) == <<"StatefulSet", n>> \in DOMAIN objs =>
                 <<"Secret", n>> \notin Refers(objs[<<"StatefulSet", n>>].body.pod)

\* A job for a ruler with an object store.  As long as it writes without an error, the
\* StatefulSet is still to be written or its pods no longer refer to the Secret; they
\* do not when the job prunes.
Switched(cr) == cr.kind = "ThanosRuler" /\ cr.spec.stateful # {}
SwitchedJob(job) ==
    LET n == RulerNameFromParent(job.cr.name)
    IN  /\ job.stage # "prune"
        /\ \A i \in DOMAIN job.todo : IsWorkload(job.todo[i]) =>
              <<"Secret", n>> \notin Refers(job.todo[i].body.pod)
        /\ job.stage = "write" /\ ~ job.failed =>
              (\E i \in DOMAIN job.todo : Key(job.todo[i]) = <<"StatefulSet", n>>) \/ Unused(n)
        /\ job.stage = "cleanup" => Unused(n)
SwitchedInv == \A kind \in Kinds :
    work[kind] # Idle /\ Switched(work[kind].cr) => SwitchedJob(work[kind])

\* The names that a ruler gives, whatever becomes of its spec.
LEMMA RulerNames ==
    ASSUME NEW cr, cr.kind = "ThanosRuler", NEW g
    PROVE  AskedNames(cr, g) = {RulerNameFromParent(cr.name)}
BY DEF AskedNames, Kept

\* What a ruler with an object store sets out to write: its StatefulSet, among others,
\* whose pods do not refer to the Secret (ruler/builder.go:87-109, 195-215).
LEMMA SwitchedBegins ==
    ASSUME SettingInv, NEW id \in Ids, NEW cr \in CrsOf(id), Switched(cr), NEW job \in Jobs(cr)
    PROVE  SwitchedJob(job) /\ job.cr = cr
<1> DEFINE n == RulerNameFromParent(cr.name)
<1>1. id = Id(cr) /\ IsResource(cr) /\ gate \in Gates /\ cr.kind = "ThanosRuler"
  BY KnownResource DEF SettingInv, Switched
<1>2. CASE job = Job(cr, "paused", <<>>, FALSE) \/ job = Job(cr, "report", <<>>, TRUE)
  BY <1>2 DEF Job, SwitchedJob
<1>3. CASE \E d \in Desired(cr, gate, objs) :
              job = Job(cr, "write", [j \in DOMAIN d |-> [d[j] EXCEPT !.owner = Id(cr)]], FALSE)
  <2>1. PICK d \in Desired(cr, gate, objs) :
              job = Job(cr, "write", [j \in DOMAIN d |-> [d[j] EXCEPT !.owner = Id(cr)]], FALSE)
    BY <1>3
  <2>2. AllAsked(d, Parts(cr, gate))
    BY <1>1, DesiredAsked
  <2>3. /\ job.cr = cr /\ job.stage = "write" /\ DOMAIN job.todo = DOMAIN d
        /\ \A i \in DOMAIN d : job.todo[i] = [d[i] EXCEPT !.owner = id]
    BY <1>1, <2>1 DEF Job
  <2>4. \A i \in DOMAIN d : IsObject(d[i]) /\ \E part \in Parts(cr, gate) : Fits(d[i], part)
    BY <2>2 DEF AllAsked, Asked, Fits
  <2>5. ASSUME NEW i \in DOMAIN d
        PROVE  job.todo[i].kind = d[i].kind /\ job.todo[i].name = d[i].name
                 /\ job.todo[i].body = d[i].body
    BY <2>3, <2>4 DEF IsObject
  <2>6. \E i \in DOMAIN d : Key(d[i]) = <<"StatefulSet", n>>
    <3>1. PICK o \in buildRuler(cr, gate, objs) : d = R!Build(o)
      BY <1>1 DEF Desired
    <3>2. o.owner = cr.name
      BY RulerOptions DEF HasCommon
    <3>3. R!GetGeneratedResourceName(o) = n
      BY <3>2 DEF RulerNameFromParent, R!GetGeneratedResourceName
    <3> QED BY <3>1, <3>3, RulersSecond
  <2>7. ASSUME NEW i \in DOMAIN d, IsWorkload(d[i])
        PROVE  <<"Secret", n>> \notin Refers(d[i].body.pod)
    <3>1. PICK part \in Parts(cr, gate) : Fits(d[i], part)
      BY <2>4
    <3>2. part.sources = UserSources(cr)
      BY <1>1, <3>1 DEF Parts, MainPart, Switched
    <3>3. PodFits(d[i].body.pod, d[i].name, part)
      BY <2>7, <3>1 DEF Fits, WorkloadFits
    <3>4. <<"Secret", n>> \notin UserSources(cr)
      <4>1. id[1] = "ThanosRuler" /\ id[2] = cr.name
        BY <1>1 DEF Id
      <4> QED BY <4>1, UsersAssumption DEF UsersAssumption, SettingInv, Ids, CrsOf
    <3> QED BY <3>2, <3>3, <3>4, PodRefers
  <2> HIDE DEF n
  <2>8. \A i \in DOMAIN job.todo : IsWorkload(job.todo[i])
          => <<"Secret", n>> \notin Refers(job.todo[i].body.pod)
    BY <2>3, <2>5, <2>7 DEF IsWorkload
  <2>9. \E i \in DOMAIN job.todo : Key(job.todo[i]) = <<"StatefulSet", n>>
    BY <2>3, <2>5, <2>6 DEF Key
  <2> QED BY <2>3, <2>8, <2>9 DEF SwitchedJob, n
<1>4. job.cr = cr
  BY <1>2, <1>3 DEF Job, Jobs, Switched
<1> QED BY <1>1, <1>2, <1>3, <1>4 DEF Jobs

\* What is written as the StatefulSet of a ruler that has become stateful is written by
\* its own job, and its pods do not refer to the Secret.
LEMMA RulerWrites ==
    ASSUME FleetInv, PartsInv, SwitchedInv,
           NEW kind \in Kinds, work[kind] # Idle, Switched(work[kind].cr),
           NEW n, n = RulerNameFromParent(work[kind].cr.name),
           NEW other \in Kinds, Wrote(other, <<"StatefulSet", n>>)
    PROVE  <<"Secret", n>> \notin Refers(objs'[<<"StatefulSet", n>>].body.pod)
<1> DEFINE k == <<"StatefulSet", n>>  its == work[other]  d == its.todo[1]  id == Id(its.cr)
<1>1. its # Idle /\ its.todo # <<>> /\ k = Key(Head(its.todo)) /\ objs'[k] = LaidOn(k, Head(its.todo))
  BY DEF Wrote
<1>2. /\ JobOf(its, other) /\ id \in Ids /\ 1 \in DOMAIN its.todo /\ Head(its.todo) = d
      /\ IsObject(d) /\ Owned(d, id)
  BY <1>1, NextToWrite
<1>3. d.kind = "StatefulSet" /\ d.name = n /\ IsWorkload(d)
  BY <1>1, <1>2 DEF Key, IsWorkload
<1>4. other = kind
  <2> DEFINE job == work[kind]
  <2>1. JobOf(job, kind)
    BY DEF FleetInv, WorkInv
  <2>2. job.cr.kind = kind /\ Id(job.cr) \in Ids /\ job.cr \in CrsOf(Id(job.cr))
    <3> HIDE DEF job
    <3> QED BY <2>1 DEF JobOf
  <2>3. Named(Id(job.cr), n)
    BY <2>2, RulerNames DEF Named, Switched, FleetInv, SettingInv
  <2>4. Named(id, n)
    BY <1>2, <1>3 DEF Owned
  <2>5. id = Id(job.cr)
    BY <1>2, <2>2, <2>3, <2>4, SameNameSameOwner DEF FleetInv
  <2>6. its.cr.kind = other
    <3> HIDE DEF its
    <3> QED BY <1>2 DEF JobOf
  <2> QED BY <2>2, <2>5, <2>6 DEF Id
<1>5. <<"Secret", n>> \notin Refers(d.body.pod)
  BY <1>1, <1>2, <1>3, <1>4 DEF SwitchedInv, SwitchedJob
<1>6. {"selector", "pod"} \subseteq DOMAIN d.body
  <2>1. Belongs(d, id)
    BY <1>1, <1>2 DEF PartsInv
  <2> HIDE DEF d, id
  <2> QED BY <1>3, <2>1 DEF Belongs, OfPart, WorkloadFits
<1>7. objs'[k] = LaidOn(k, d)
  BY <1>1, <1>2
<1> HIDE DEF d, k
<1>8. CASE k \notin DOMAIN objs
  BY <1>5, <1>7, <1>8 DEF LaidOn, k
<1>9. CASE k \in DOMAIN objs
  <2> DEFINE laid == MutateFuncFor(objs[k], d)
  <2>1. ButClaims(laid.body.pod, d.body.pod)
    BY <1>2, <1>3, <1>6, LaidWorkload
  <2>2. objs'[k] = laid
    BY <1>7, <1>9 DEF LaidOn
  <2> HIDE DEF laid
  <2>3. Refers(laid.body.pod) = Refers(d.body.pod)
    BY <2>1, ClaimsReferNothing
  <2> QED BY <1>5, <2>2, <2>3 DEF k
<1> QED BY <1>8, <1>9

\* So once the ruler has written its StatefulSet, its pods stay without a reference to
\* the Secret as long as the job lasts.
LEMMA UnusedStays ==
    ASSUME FleetInv, PartsInv, SwitchedInv, ObjectsAfter, ObjectsInv',
           NEW kind \in Kinds, work[kind] # Idle, Switched(work[kind].cr),
           NEW n, n = RulerNameFromParent(work[kind].cr.name),
           Unused(n) \/ Wrote(kind, <<"StatefulSet", n>>)
    PROVE  Unused(n)'
<1> DEFINE k == <<"StatefulSet", n>>
<1> SUFFICES ASSUME k \in DOMAIN objs' PROVE <<"Secret", n>> \notin Refers(objs'[k].body.pod)
  BY DEF Unused
<1>1. CASE \E other \in Kinds : Wrote(other, k)
  BY <1>1, RulerWrites
<1>2. CASE k \in DOMAIN objs /\ objs'[k] = objs[k] /\ Unused(n)
  BY <1>2 DEF Unused
<1>3. CASE Alien(objs'[k])
  <2>1. objs'[k].kind = "StatefulSet"
    BY DEF ObjectsInv, Key
  <2> QED BY <1>3, <2>1 DEF Alien
<1> QED BY <1>1, <1>2, <1>3 DEF ObjectsAfter

\* A job for such a ruler goes on.
LEMMA SwitchedGoesOn ==
    ASSUME FleetInv, PartsInv, SwitchedInv, ObjectsAfter, ObjectsInv',
           NEW kind \in Kinds, GoesOn(kind), Switched(work'[kind].cr)
    PROVE  SwitchedJob(work[kind])'
<1> DEFINE job == work[kind]  later == work'[kind]  n == RulerNameFromParent(job.cr.name)
           k == <<"StatefulSet", n>>
<1>1. job # Idle /\ later.cr = job.cr /\ Switched(job.cr) /\ n = RulerNameFromParent(later.cr.name)
  BY DEF GoesOn
<1>2. SwitchedJob(job)
  BY <1>1 DEF SwitchedInv
<1>3. Unused(n) \/ Wrote(kind, k) => Unused(n)'
  BY <1>1, UnusedStays
<1>4. /\ job.stage # "prune"
      /\ \A i \in DOMAIN job.todo : IsWorkload(job.todo[i])
           => <<"Secret", n>> \notin Refers(job.todo[i].body.pod)
      /\ job.stage = "write" /\ ~ job.failed
           => (\E i \in DOMAIN job.todo : Key(job.todo[i]) = k) \/ Unused(n)
      /\ job.stage = "cleanup" => Unused(n)
  BY <1>2 DEF SwitchedJob
<1> DEFINE Goal ==
      /\ later.stage # "prune"
      /\ \A i \in DOMAIN later.todo : IsWorkload(later.todo[i])
           => <<"Secret", n>> \notin Refers(later.todo[i].body.pod)
      /\ later.stage = "write" /\ ~ later.failed
           => (\E i \in DOMAIN later.todo : Key(later.todo[i]) = k) \/ Unused(n)'
      /\ later.stage = "cleanup" => Unused(n)'
<1>5. Goal => SwitchedJob(work[kind])'
  BY <1>1 DEF SwitchedJob
<1>6. CASE Rests(job, later)
  <2>1. Goal
    BY <1>3, <1>4, <1>6 DEF Rests
  <2> QED BY <1>5, <2>1
<1>7. CASE Prunes(job, later)
  <2>1. later.stage = "report" /\ (later.todo = job.todo \/ later.todo = <<>>)
    BY <1>4, <1>7 DEF Prunes
  <2>2. Goal
    BY <1>4, <2>1
  <2> QED BY <1>5, <2>2
<1>8. CASE Writes(job, later) /\ (~ later.failed => ~ job.failed /\ Wrote(kind, Key(Head(job.todo))))
  <2>1. JobOf(job, kind)
    BY <1>1 DEF FleetInv, WorkInv
  <2>2. /\ job.stage = "write" /\ later.todo = Tail(job.todo)
             /\ later.stage \in {"write", "cleanup", "report"}
        /\ later.stage = "cleanup" => later.todo = <<>> /\ ~ later.failed
    BY <1>8 DEF Writes
  <2>3. job.todo # <<>> /\ \E T : job.todo \in Seq(T)
    <3> HIDE DEF job
    <3> QED BY <2>1, <2>2 DEF JobOf, Todo
  <2>4. /\ 1 \in DOMAIN job.todo /\ Head(job.todo) = job.todo[1]
        /\ \A i \in DOMAIN later.todo : i + 1 \in DOMAIN job.todo /\ later.todo[i] = job.todo[i + 1]
        /\ \A j \in DOMAIN job.todo : j # 1 => j - 1 \in DOMAIN later.todo
             /\ later.todo[j - 1] = job.todo[j]
    BY <2>2, <2>3, TailEntries
  <2>5. \A i \in DOMAIN later.todo : IsWorkload(later.todo[i])
          => <<"Secret", n>> \notin Refers(later.todo[i].body.pod)
    BY <1>4, <2>4
  <2>6. ~ later.failed => (\E i \in DOMAIN later.todo : Key(later.todo[i]) = k) \/ Unused(n)'
    <3> SUFFICES ASSUME ~ later.failed
                 PROVE  (\E i \in DOMAIN later.todo : Key(later.todo[i]) = k) \/ Unused(n)'
      OBVIOUS
    <3>1. ~ job.failed /\ Wrote(kind, Key(job.todo[1]))
      BY <1>8, <2>4
    <3>2. CASE Unused(n)
      BY <1>3, <3>2
    <3>3. CASE \E i \in DOMAIN job.todo : Key(job.todo[i]) = k
      <4>1. PICK i \in DOMAIN job.todo : Key(job.todo[i]) = k
        BY <3>3
      <4>2. CASE i = 1
        BY <1>3, <3>1, <4>1, <4>2
      <4>3. CASE i # 1
        BY <2>4, <4>1, <4>3
      <4> QED BY <4>2, <4>3
    <3> QED BY <1>4, <2>2, <3>1, <3>2, <3>3
  <2>7. later.todo = <<>> => ~ \E i \in DOMAIN later.todo : Key(later.todo[i]) = k
    OBVIOUS
  <2>8. Goal
    BY <2>2, <2>5, <2>6, <2>7
  <2> QED BY <1>5, <2>8
<1> QED BY <1>6, <1>7, <1>8 DEF GoesOn

\* Every step keeps what is known of the rulers that became stateful.
LEMMA SwitchedStep ==
    ASSUME FleetInv, PartsInv, SwitchedInv, ObjectsInv', [StatusNext]_allVars
    PROVE  SwitchedInv'
<1>1. ObjectsAfter /\ WorkAfter /\ UNCHANGED scenario
  BY StepEffect
<1>2. Kinds' = Kinds
  BY <1>1 DEF Kinds, Ids
<1>3. ASSUME NEW kind \in Kinds, work'[kind] # Idle, Switched(work'[kind].cr)
      PROVE  SwitchedJob(work[kind])'
  <2>1. CASE GoesOn(kind)
    BY <1>1, <1>3, <2>1, SwitchedGoesOn
  <2>2. CASE Begins(kind)
    <3>1. PICK id \in Ids : crs[id] # Gone /\ work'[kind] \in Jobs(crs[id]) /\ UNCHANGED objs
      BY <2>2 DEF Begins
    <3>2. crs[id] \in CrsOf(id)
      BY <3>1 DEF FleetInv, ResourcesInv
    <3>3. work'[kind].cr = crs[id]
      BY <3>1 DEF Jobs, Job
    <3>4. SwitchedJob(work'[kind])
      BY <1>3, <3>1, <3>2, <3>3, SwitchedBegins DEF FleetInv
    <3> QED BY <3>1, <3>4 DEF SwitchedJob, Unused
  <2> QED BY <1>1, <1>3, <2>1, <2>2 DEF WorkAfter
<1> QED BY <1>2, <1>3 DEF SwitchedInv

-----------------------------------------------------------------------------
(* What is pruned while the pods of another workload refer to it.           *)

\* What a resource is listed by depends on its kind and name only.
LEMMA SameListing ==
    ASSUME NEW cr, NEW edited, Id(cr) = Id(edited)
    PROVE  OwnerLabels(cr) = OwnerLabels(edited) /\ cr.kind = edited.kind /\ cr.name = edited.name
<1>1. cr.kind = edited.kind /\ cr.name = edited.name
  BY DEF Id
<1> QED BY <1>1 DEF OwnerLabels

\* The component of the labels that hashrings are listed by (receive/builder.go:627-645).
LEMMA IngesterComponent ==
    ASSUME NEW o
    PROVE  LET labels == GetLabelSelectorForOwner(I!IngesterSelector(o))
           IN  "component" \in DOMAIN labels /\ labels["component"] = <<"thanos-receive-ingester">>
BY DEF GetLabelSelectorForOwner, I!IngesterSelector, I!InstanceLabels, I!MergeMaps, I!Label,
       I!ComponentLabels, I!Value, I!GetRequiredIngesterLabels, I!GetRequiredLabels, I!StoreAPI,
       I!NoLabels

\* And of those of routers (receive/builder.go:646-661).
LEMMA RouterComponent ==
    ASSUME NEW o
    PROVE  LET labels == GetLabelSelectorForOwner(I!RouterSelector(o))
           IN  "component" \in DOMAIN labels /\ labels["component"] = <<"thanos-receive-router">>
BY DEF GetLabelSelectorForOwner, I!RouterSelector, I!InstanceLabels, I!MergeMaps, I!Label,
       I!ComponentLabels, I!Value, I!GetRequiredRouterLabels, I!GetRequiredLabels

\* What an owner lists its main part by is on none of its frontend's objects, nor on
\* those of its router (labels.go:31-75).
LEMMA ListedApart ==
    ASSUME NEW cr, NEW g, NEW part \in Parts(cr, g), NEW labels,
           HasRequiredLabels(labels, part.labels), HasRequiredLabels(labels, OwnerLabels(cr))
    PROVE  part = MainPart(cr, g)
<1> DEFINE o == [owner |-> cr.name, shard |-> {}, hashring |-> <<>>]  owner == [owner |-> cr.name]
<1>1. ASSUME cr.kind = "ThanosQuery", part = FrontPart(cr) PROVE FALSE
  <2> HIDE DEF o, owner
  <2>1. "name" \in DOMAIN OwnerLabels(cr) /\ OwnerLabels(cr)["name"] = <<"thanos-query">>
    <3>1. OwnerLabels(cr) = GetLabelSelectorForOwner(Q!GetSelectorLabels(o))
      BY <1>1 DEF OwnerLabels, o
    <3>2. Marked(OwnerLabels(cr), Mark("thanos-query",
            Q!ValidateAndSanitizeNameToValidLabelValue(o.owner)))
      BY <3>1, QueryLabels, ForOwnerMarked
    <3> QED BY <3>2 DEF Marked, Mark
  <2>2. "name" \in DOMAIN part.labels /\ part.labels["name"] = <<"thanos-query-frontend">>
    <3>1. part.labels = GetLabelSelectorForOwner(F!GetSelectorLabels(owner))
      BY <1>1 DEF FrontPart, owner
    <3>2. Marked(part.labels, Mark("thanos-query-frontend",
            F!ValidateAndSanitizeNameToValidLabelValue(owner.owner)))
      BY <3>1, FrontendLabels, ForOwnerMarked
    <3> QED BY <3>2 DEF Marked, Mark
  <2> QED BY <2>1, <2>2 DEF HasRequiredLabels
<1>2. ASSUME cr.kind = "ThanosReceive", part = RouterPart(cr) PROVE FALSE
  <2> HIDE DEF o, owner
  <2>1. "component" \in DOMAIN OwnerLabels(cr)
          /\ OwnerLabels(cr)["component"] = <<"thanos-receive-ingester">>
    <3>1. OwnerLabels(cr) = GetLabelSelectorForOwner(I!IngesterSelector(o))
      BY <1>2 DEF OwnerLabels, o
    <3> QED BY <3>1, IngesterComponent
  <2>2. "component" \in DOMAIN part.labels /\ part.labels["component"] = <<"thanos-receive-router">>
    <3>1. part.labels = GetLabelSelectorForOwner(I!RouterSelector(owner))
      BY <1>2 DEF RouterPart, owner
    <3> QED BY <3>1, RouterComponent
  <2> QED BY <2>1, <2>2 DEF HasRequiredLabels
<1> QED BY <1>1, <1>2 DEF Parts

\* The parts of a resource that have a name of its main part are its main part: a
\* querier and its frontend, hashrings and a router, never share one.
LEMMA MainByName ==
    ASSUME SettingInv, NEW id \in Ids, NEW cr \in CrsOf(id), NEW g \in Gates,
           NEW n \in MainPart(cr, g).names,
           NEW edited \in CrsOf(id), NEW h \in Gates, NEW part \in Parts(edited, h), n \in part.names
    PROVE  part = MainPart(edited, h)
<1>1. IsResource(cr) /\ id = Id(cr) /\ id = Id(edited)
  BY KnownResource
<1>2. cr.kind = edited.kind /\ cr.name = edited.name
  BY <1>1, SameListing
<1>3. ASSUME cr.kind = "ThanosQuery", part = FrontPart(edited) PROVE FALSE
  <2>1. n = QueryNameFromParent(cr.name) /\ n = QueryFrontendNameFromParent(cr.name)
    BY <1>2, <1>3 DEF MainPart, FrontPart
  <2> QED BY <1>3, <2>1, NamesAssumption DEF NamesAssumption, SettingInv, Ids, CrsOf, Gates
<1>4. ASSUME cr.kind = "ThanosReceive", part = RouterPart(edited) PROVE FALSE
  <2>1. n \in RouterNames(cr) \cap Kept(cr, g)
    BY <1>2, <1>4 DEF MainPart, RouterPart, RouterNames
  <2> QED BY <1>4, <2>1, NamesAssumption DEF NamesAssumption, SettingInv, Ids, CrsOf, Gates
<1> QED BY <1>2, <1>3, <1>4 DEF Parts

\* A reconciler that prunes an account left over prunes the workload of that name too
\* (handlers.go:196-263).
LEMMA AccountsGoWithPods ==
    ASSUME SettingInv, ObjectsInv, PartsInv, NEW id \in Ids, NEW cr \in CrsOf(id), NEW w \in Workloads,
           NEW k \in pruneOrphanedResources(cr, gate, objs), k = <<"ServiceAccount", objs[w].name>>
    PROVE  w \in pruneOrphanedResources(cr, gate, objs)
<1> DEFINE x == objs[k]  y == objs[w]
<1>1. id = Id(cr) /\ IsResource(cr) /\ id # NoOwner
  BY KnownResource DEF Id, NoOwner
<1>2. /\ k \in DOMAIN objs /\ HasRequiredLabels(x.labels, OwnerLabels(cr)) /\ k[2] \notin Kept(cr, gate)
  BY DEF pruneOrphanedResources, Prune, Labelled
<1>3. x.owner = id
  BY <1>1, <1>2, ByLabels, OwnerMarked
<1>4. w \in DOMAIN objs /\ IsWorkload(y) /\ w = <<y.kind, y.name>> /\ x.name = y.name /\ k[2] = w[2]
  BY <1>2 DEF Workloads, IsWorkload, ObjectsInv, Key
<1>5. Owned(y, y.owner) /\ Owned(x, x.owner)
  BY <1>1, <1>2, <1>3, <1>4 DEF ObjectsInv, Alien, IsWorkload
<1>6. y.owner = id
  BY <1>3, <1>4, <1>5, SameNameSameOwner DEF Owned
<1>7. Belongs(x, id) /\ Belongs(y, id)
  BY <1>1, <1>2, <1>3, <1>4, <1>6 DEF PartsInv
<1> HIDE DEF x, y
<1>8. PICK part \in PartsOf(id) : OfPart(x, part)
  BY <1>7 DEF Belongs
<1>9. PICK edited \in CrsOf(id), g \in Gates : part \in Parts(edited, g)
  BY <1>8 DEF PartsOf
<1>10. PICK its \in PartsOf(id) : OfPart(y, its)
  BY <1>7 DEF Belongs
<1>11. PICK other \in CrsOf(id), h \in Gates : its \in Parts(other, h)
  BY <1>10 DEF PartsOf
<1>12. Id(edited) = Id(cr) /\ Id(other) = Id(cr)
  BY <1>1, KnownResource
<1>13. /\ OwnerLabels(edited) = OwnerLabels(cr) /\ OwnerLabels(other) = OwnerLabels(cr)
       /\ other.kind = cr.kind
  BY <1>12, SameListing
<1>14. part = MainPart(edited, g)
  BY <1>2, <1>8, <1>9, <1>13, ListedApart DEF OfPart, x
<1>15. its = MainPart(other, h)
  BY <1>4, <1>8, <1>9, <1>10, <1>11, <1>14, MainByName DEF OfPart
<1>16. /\ HasRequiredLabels(y.labels, OwnerLabels(cr))
       /\ y.kind = IF cr.kind = "ThanosQuery" THEN "Deployment" ELSE "StatefulSet"
  BY <1>4, <1>10, <1>13, <1>15 DEF OfPart, WorkloadFits, MainPart
<1> QED BY <1>2, <1>4, <1>16 DEF pruneOrphanedResources, Prune, Labelled, y

\* Only the StatefulSet of a ruler refers to a Secret named like it, and that ruler has
\* it generated.
LEMMA SecretsOfRulers ==
    ASSUME SettingInv, ObjectsInv, PartsInv, NEW id \in Ids, NEW cr \in CrsOf(id),
           cr.kind = "ThanosRuler",
           NEW w \in Workloads, <<"Secret", RulerNameFromParent(cr.name)>> \in Refers(Pods(w))
    PROVE  w = <<"StatefulSet", RulerNameFromParent(cr.name)>>
<1> DEFINE y == objs[w]  ref == <<"Secret", RulerNameFromParent(cr.name)>>
<1>1. id = Id(cr)
  BY KnownResource
<1>2. id[1] = "ThanosRuler" /\ id[2] = cr.name
  BY <1>1 DEF Id
<1>3. w \in DOMAIN objs /\ IsWorkload(y) /\ w = <<y.kind, y.name>>
  BY DEF Workloads, IsWorkload, ObjectsInv, Key
<1>4. Owned(y, y.owner) /\ y.owner # NoOwner
  <2>1. Owned(y, y.owner)
    BY <1>3 DEF ObjectsInv, Alien, IsWorkload
  <2> QED BY <2>1, KnownResource DEF Owned, Named, Id, NoOwner
<1>5. Belongs(y, y.owner)
  BY <1>3, <1>4 DEF PartsInv
<1>6. ref \in Refers(y.body.pod)
  BY DEF Pods
<1> HIDE DEF y
<1>7. PICK part \in PartsOf(y.owner) : OfPart(y, part)
  BY <1>5 DEF Belongs
<1>8. PICK neighbour \in CrsOf(y.owner), g \in Gates : part \in Parts(neighbour, g)
  BY <1>7 DEF PartsOf
<1>9. WorkloadFits(y, part) /\ y.name \in part.names
  BY <1>3, <1>7 DEF OfPart
<1>10. ref \in part.sources
  BY <1>6, <1>9, PodRefers DEF WorkloadFits
<1>11. ref \notin UserSources(neighbour)
  BY <1>2, <1>4, <1>8, UsersAssumption DEF UsersAssumption, SettingInv, Ids, CrsOf, Owned
<1>12. /\ part = MainPart(neighbour, g) /\ neighbour.kind = "ThanosRuler"
       /\ RulerNameFromParent(neighbour.name) = RulerNameFromParent(cr.name)
  BY <1>8, <1>10, <1>11 DEF Parts, MainPart, FrontPart, RouterPart
<1>13. part.names = {RulerNameFromParent(neighbour.name)} /\ part.workload = "StatefulSet"
  BY <1>12 DEF MainPart, Kept
<1> QED BY <1>3, <1>9, <1>12, <1>13 DEF WorkloadFits

\* What a reconciler prunes of the kinds that pods refer to: accounts left over, and the
\* Secret of a ruler that has become stateful.
LEMMA PrunedKinds ==
    ASSUME ObjectsInv, NEW cr, NEW k \in DOMAIN objs,
           k \in PrunedBefore(cr, gate, objs) \cup cleanup(cr, gate, objs),
           k[1] \in {"ServiceAccount", "ConfigMap", "Secret"}
    PROVE  \/ k[1] = "ServiceAccount" /\ k \in pruneOrphanedResources(cr, gate, objs)
           \/ k[1] = "Secret" /\ Switched(cr) /\ k \in pruneGeneratedRemoteWriteSecret(cr, objs)
<1>1. CASE k \in pruneOrphanedResources(cr, gate, objs)
  BY <1>1 DEF pruneOrphanedResources, Prune, Labelled
<1>2. CASE k \in singleBudgets(cr, objs)
  <2>1. k[1] = "PodDisruptionBudget"
    BY <1>2 DEF singleBudgets, Prune, Labelled
  <2> QED BY <2>1
<1>3. CASE k \in pruneGeneratedRemoteWriteSecret(cr, objs)
  BY <1>3 DEF pruneGeneratedRemoteWriteSecret, Prune, Labelled, Switched
<1>4. CASE k \in gatedMonitors(cr, gate, objs)
  <2>1. k[1] = "ServiceMonitor"
    BY <1>4 DEF gatedMonitors, PruneByOwner
  <2> QED BY <2>1
<1> QED BY <1>1, <1>2, <1>3, <1>4 DEF PrunedBefore, cleanup

\* The parts of all objects, and what is known of the rulers that became stateful.
UsageInv == PartedInv /\ SwitchedInv

\* While a job runs for a ruler that has been given an object store, the job keeps count
\* of its Secret: as long as it has not failed, its StatefulSet is still to be written
\* or its pods no longer refer to the Secret, and it cleans up only then
\* (thanosruler_controller.go:205-288, 1035-1046).
THEOREM UsageInvariant == StatusSpec => []UsageInv
<1>1. StatusInit => UsageInv
  <2> SUFFICES ASSUME StatusInit PROVE UsageInv
    OBVIOUS
  <2>1. StatusInv
    BY InitFleet DEF StatusInit, StatusInv
  <2>2. PartsInv
    BY DEF StatusInit, Init, PartsInv, NoObjects
  <2>3. SwitchedInv
    BY DEF StatusInit, Init, SwitchedInv
  <2> QED BY <2>1, <2>2, <2>3 DEF PartedInv, UsageInv
<1>2. UsageInv /\ [StatusNext]_allVars => UsageInv'
  <2> SUFFICES ASSUME UsageInv, [StatusNext]_allVars PROVE UsageInv'
    OBVIOUS
  <2>1. StatusInv' /\ PartsInv'
    BY StatusStep, PartsStep DEF UsageInv, PartedInv, StatusInv
  <2>2. SwitchedInv'
    BY <2>1, SwitchedStep DEF UsageInv, PartedInv, StatusInv, FleetInv
  <2> QED BY <2>1, <2>2 DEF UsageInv, PartedInv
<1> QED BY <1>1, <1>2, PTL DEF StatusSpec

\* A reconciler takes nothing away that the pods of a workload that stays refer to: an
\* account goes together with the workload of its name, a ConfigMap is never pruned, and
\* the Secret of a ruler goes only when no pods of it mount it, whatever fails, is edited
\* or restarts in between (handlers.go:196-263, thanosruler_controller.go:1035-1046).
THEOREM UsedThingsStay == StatusSpec => NeverPrunesWhatIsUsed
<1>1. UsageInv /\ [StatusNext]_allVars
      => [\A kind \in Kinds : \A k \in Pruned(kind) :
            \A w \in Workloads \ pruneOrphanedResources(work[kind].cr, gate, objs) :
               k \notin Refers(Pods(w))]_vars
  <2> SUFFICES ASSUME UsageInv, StatusNext, NEW kind \in Kinds, NEW k \in Pruned(kind),
                      NEW w \in Workloads,
                      w \notin pruneOrphanedResources(work[kind].cr, gate, objs), k \in Refers(Pods(w))
               PROVE  FALSE
    BY DEF allVars
  <2> DEFINE job == work[kind]  cr == job.cr  id == Id(cr)  y == objs[w]
  <2>1. FleetInv /\ PartsInv /\ SwitchedInv /\ SettingInv /\ ObjectsInv
    BY DEF UsageInv, PartedInv, StatusInv, FleetInv
  <2>2. k \in DOMAIN objs /\ job # Idle /\ job.stage \in {"prune", "cleanup"}
    BY DEF Pruned, Busy
  <2>3. id \in Ids /\ cr \in CrsOf(id)
    BY <2>1, <2>2 DEF FleetInv, WorkInv, JobOf
  <2>4. k \in PrunedBefore(cr, gate, objs) \cup cleanup(cr, gate, objs)
    BY <2>1, PrunedNow
  <2>5. k[1] \in {"ServiceAccount", "ConfigMap", "Secret"}
          /\ (k[1] = "ServiceAccount" => k = <<"ServiceAccount", y.name>>)
    <3>1. w \in DOMAIN objs /\ IsWorkload(y) /\ Owned(y, y.owner)
      BY <2>1 DEF Workloads, IsWorkload, ObjectsInv, Key, Alien
    <3>2. Belongs(y, y.owner)
      BY <2>1, <3>1, KnownResource DEF PartsInv, Owned, Named, Id, NoOwner
    <3>3. k \in Refers(y.body.pod)
      BY DEF Pods
    <3>4. y.owner \in Ids
      BY <3>1 DEF Owned
    <3> HIDE DEF y
    <3>5. PICK part \in PartsOf(y.owner) : WorkloadFits(y, part)
      BY <3>1, <3>2 DEF Belongs, OfPart
    <3>6. \A ref \in part.sources : ref[1] \in {"Secret", "ConfigMap"}
      <4>1. PICK neighbour \in CrsOf(y.owner), g \in Gates : part \in Parts(neighbour, g)
        BY <3>5 DEF PartsOf
      <4>2. \A ref \in UserSources(neighbour) : ref[1] \in {"Secret", "ConfigMap"}
        BY <2>1, <3>4, <4>1, UsersAssumption DEF UsersAssumption, SettingInv, Ids, CrsOf
      <4> QED BY <4>1, <4>2 DEF Parts, MainPart, FrontPart, RouterPart
    <3>7. k = <<"ServiceAccount", y.name>> \/ k[1] = "ConfigMap" \/ k \in part.sources
      BY <3>3, <3>5, PodRefers DEF WorkloadFits
    <3> QED BY <3>6, <3>7
  <2> HIDE DEF cr, id
  <2>6. CASE k[1] = "ServiceAccount" /\ k \in pruneOrphanedResources(cr, gate, objs)
    <3>1. w \in pruneOrphanedResources(cr, gate, objs)
      BY <2>1, <2>3, <2>5, <2>6, AccountsGoWithPods
    <3> QED BY <3>1 DEF cr
  <2>7. CASE k[1] = "Secret" /\ Switched(cr) /\ k \in pruneGeneratedRemoteWriteSecret(cr, objs)
    <3> DEFINE n == RulerNameFromParent(cr.name)
    <3>1. cr.kind = "ThanosRuler"
      BY <2>7 DEF Switched
    <3>2. k = <<"Secret", n>>
      <4>1. objs[k].owner = id
        BY <2>1, <2>2, <2>3, <2>4, PrunedIsOwn
      <4>2. k = <<"Secret", objs[k].name>> /\ objs[k].kind = "Secret"
        BY <2>1, <2>2, <2>7 DEF ObjectsInv, Key
      <4>3. Named(id, objs[k].name)
        BY <2>1, <2>2, <4>1, <4>2 DEF ObjectsInv, Owned, Alien
      <4>4. PICK edited \in CrsOf(id), g \in Gates : objs[k].name \in AskedNames(edited, g)
        BY <4>3 DEF Named
      <4>5. Id(edited) = Id(cr)
        BY <2>1, <2>3, KnownResource
      <4>6. edited.kind = cr.kind /\ edited.name = cr.name
        BY <4>5, SameListing
      <4> QED BY <3>1, <4>2, <4>4, <4>6, RulerNames
    <3>3. w = <<"StatefulSet", n>>
      BY <2>1, <2>3, <3>1, <3>2, SecretsOfRulers
    <3>4. SwitchedJob(job)
      BY <2>1, <2>2, <2>7 DEF SwitchedInv, cr
    <3>5. Unused(n)
      BY <2>2, <3>4 DEF SwitchedJob, cr
    <3> QED BY <3>2, <3>3, <3>5 DEF Unused, Workloads, Pods
  <2> QED BY <2>1, <2>2, <2>4, <2>5, <2>6, <2>7, PrunedKinds
<1> QED BY <1>1, UsageInvariant, PTL DEF StatusSpec, NeverPrunesWhatIsUsed
=============================================================================
