----------------------------- MODULE ObjectStatus -----------------------------
(***************************************************************************)
(* The controller that copies the replica counts of the workloads into the *)
(* status of the resources, next to the reconcilers of OwnedObjects: both  *)
(* write the status of the same resource, either write is refused when the *)
(* resource has changed since it was read, and both only log a refusal.    *)
(* Of the counts of a workload one is told apart: how many pods are ready. *)
(***************************************************************************)
EXTENDS OwnedObjects

VARIABLES
    ready,  \* the workloads whose pods are ready
    status, \* the counts in the status of each resource
    pass    \* the resources the running pass holds an up-to-date copy of

statusVars == <<ready, status, pass>>
allVars    == <<vars, statusVars>>

\* The container whose workload a count is about, and the label it goes under.
SingleComponents == {"thanos-query", "thanos-query-frontend", "thanos-receive-router", "thanos-ruler"}
MapLabel(container) == CASE container = "thanos-receive-ingester" -> "hashring"
                         [] container \in {"thanos-store", "thanos-compact"} -> "shard"
Default == <<"default">>

StatusTypeOK ==
    /\ TypeOK
    /\ ready \subseteq Workloads
    /\ DOMAIN status = Ids /\ pass \subseteq Ids

NoStatus == [single |-> [c \in {} |-> 0], map |-> [l \in {} |-> 0]]

StatusInit == Init /\ ready = {} /\ pass = {} /\ status = [id \in Ids |-> NoStatus]

-----------------------------------------------------------------------------
Count(k) == IF k \in ready THEN objs[k].body.replicas ELSE 0

\* The workloads with the labels of the resource that it owns.
getWorkloads(cr) ==
    {k \in Labelled(objs, {"Deployment", "StatefulSet"}, cr.labels) : objs[k].owner = Id(cr)}

Containers(k) == {Pods(k).containers[i].name : i \in DOMAIN Pods(k).containers}

\* A count of a single workload is kept when the workload is gone; a map of
\* counts is made anew.
Counts(cr, old) ==
    LET Found(c) == {k \in getWorkloads(cr) : c \in Containers(k)}
        single   == {c \in SingleComponents : Found(c) # {}}
        mapped   == UNION {{<<c, k>> : k \in Found(c)} :
                              c \in {"thanos-receive-ingester", "thanos-store", "thanos-compact"}}
        Label1(m) == IF MapLabel(m[1]) \in DOMAIN objs[m[2]].labels
                     THEN objs[m[2]].labels[MapLabel(m[1])] ELSE Default
    IN  [single |-> [c \in single |-> Count(Some(Found(c)))] @@ old.single,
         map    |-> [l \in {Label1(m) : m \in mapped} |->
                        Count(Some({m \in mapped : Label1(m) = l})[2])]]

-----------------------------------------------------------------------------
\* Only some scenarios are about pods and counts.
Counted == "pods" \in Scenarios[scenario].happens

\* Pods become ready, or no longer are.
PodsChange(k) ==
    /\ Counted /\ k \in Workloads
    /\ \/ k \notin ready /\ ready' = ready \cup {k} /\ UNCHANGED left
       \/ k \in ready /\ ready' = ready \ {k} /\ Happens("pods")
    /\ UNCHANGED <<scenario, gate, crs, cond, objs, queue, work, status, pass>>

\* A pass lists the resources.
ListResources ==
    /\ Counted /\ pass = {}
    /\ pass' = {id \in Ids : crs[id] # Gone}
    /\ UNCHANGED <<vars, ready, status>>

\* Mutant: the reconciler is not told of a new status.
updateStatus_Unnoticed(id) ==
    /\ id \in pass
    /\ pass' = pass \ {id}
    /\ status' = [status EXCEPT ![id] = Counts(crs[id], @)]
    /\ work' = IF status' = status THEN work ELSE Outdated(id)
    /\ UNCHANGED <<scenario, gate, crs, cond, objs, queue, left, ready>>

\* One resource of the pass: its workloads are listed and its status written.
\* The write is an event for its reconciler, and makes a job that has read the
\* resource before out of date.
updateStatus(id) ==
    /\ id \in pass
    /\ pass' = pass \ {id}
    /\ status' = [status EXCEPT ![id] = Counts(crs[id], @)]
    /\ IF status' = status THEN UNCHANGED <<queue, work>>
       ELSE queue' = queue \cup {id} /\ work' = Outdated(id)
    /\ UNCHANGED <<scenario, gate, crs, cond, objs, left, ready>>

\* A step of the others: copies of what it changes are out of date, and the
\* pods of workloads that go are gone.
Others ==
    /\ Next
    /\ ready' = ready \cap DOMAIN objs'
    /\ pass' = {id \in pass : crs'[id] = crs[id] /\ cond'[id] = cond[id]}
    /\ UNCHANGED status

StatusPass == ListResources \/ \E id \in Ids : updateStatus(id)

StatusNext == Others \/ StatusPass \/ \E k \in DOMAIN objs : PodsChange(k)

\* Every pass is followed by another after 30 seconds, or by an event: weak
\* fairness of StatusPass, spelled out.
PassMoves == pass' # pass /\ UNCHANGED <<crs, cond>>
StatusFairness == []<>~(Counted /\ Present # {}) \/ []<><<PassMoves>>_allVars

StatusSpec == StatusInit /\ [][StatusNext]_allVars /\ Fairness /\ StatusFairness

-----------------------------------------------------------------------------
\* The refused writes of two controllers that only log them do not add up to a
\* status that stays wrong: in the end the counts are those of the workloads
\* and Ready is true of what is built, however the two race
\* (object_status_controller.go:170-176, thanosreceive_controller.go:434-448).
StatusConverges ==
    <>[](\A cr \in Managed : ~Waits(cr) =>
            /\ Counted => status[Id(cr)] = Counts(cr, status[Id(cr)])
            /\ cond[Id(cr)].ready = "True")
=============================================================================
