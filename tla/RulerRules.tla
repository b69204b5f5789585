------------------------------ MODULE RulerRules ------------------------------
(***************************************************************************)
(* How the rules of users reach the pods of a ruler.  The ConfigMaps and   *)
(* PrometheusRules a ruler selects are read, their rules bound to tenants, *)
(* spread over derived ConfigMaps by size, written one by one, mounted by  *)
(* the StatefulSet, and what is left over is pruned by label; users edit   *)
(* all the while, calls fail, and the operator restarts with the gate of   *)
(* PrometheusRules open or shut.                                           *)
(*                                                                         *)
(* The data of a ConfigMap, and the rules of a PrometheusRule, are a set   *)
(* of files: a key, the place of the file's name among all names, a size,  *)
(* what the rules are, and the tenant put into labels and into queries.    *)
(* The other objects of the ruler are in OwnedObjects.                     *)
(***************************************************************************)
EXTENDS Manifests, FiniteSets

CONSTANTS
    Sources,        \* the forms user ConfigMaps and PrometheusRules may take
    Rulers,         \* name -> the specs it may have
    RuleGates,      \* whether the operator reads PrometheusRules
    maxConfigMapDataSize,
    Happening,      \* what may disturb the operator, and
    MaxDisturbances,\* how often
    Garbage,        \* rules that do not parse
    Clashing        \* rules that query another tenant

VARIABLES
    gate,    \* whether the PrometheusRule gate is open
    specs,   \* the specs of the rulers
    objs,    \* ConfigMaps and PrometheusRules, by key
    sts,     \* the rule files each ruler's pods are told to load
    secret,  \* the tenants each ruler's remote writes are for
    queue, work,
    missed,  \* sources that changed behind the back of the watches and were not read
             \* for a ruler since
    left     \* bound: disturbances still to come

vars == <<gate, specs, objs, sts, secret, queue, work, missed, left>>

R == INSTANCE RulerManifests

TheOne(opt) == CHOOSE x \in opt : TRUE
DefaultRuleLabels == Label("prometheus-rule", Value("true"))
PromRuleDerived   == Label("promrule-derived", Value("true"))
UserSource        == Label("usercfgmap-source", Value("true"))
IsDerived(obj)    == HasRequiredLabels(obj.labels, PromRuleDerived)
                     \/ HasRequiredLabels(obj.labels, UserSource)
SourceKeys        == {Key(o) : o \in Sources}

\* Sources are objects that nobody owns, with the files as they were written; a
\* PrometheusRule is one file.
ASSUME SourcesAssumption ==
    /\ IsFiniteSet(Sources)
    /\ \A o \in Sources :
          /\ o = Object(o.kind, o.name, o.labels, [data |-> o.body.data])
          /\ o.kind \in {"ConfigMap", "PrometheusRule"}
          /\ IsFiniteSet(o.body.data)
          /\ o.kind = "PrometheusRule" => \E f \in o.body.data : o.body.data = {f}
          /\ \A f \in o.body.data :
                /\ f = [key |-> f.key, place |-> f.place, size |-> f.size, rules |-> f.rules,
                        label |-> {}, matcher |-> {}]
                /\ f.place \in Nat /\ f.size \in Nat

ASSUME RulersAssumption ==
    /\ NoOwner \notin DOMAIN Rulers
    /\ \A r \in DOMAIN Rulers : \A spec \in Rulers[r] :
          spec.ruleConfigSelector.kind \in {"labels", "expressions"}

ASSUME BoundsAssumption ==
    maxConfigMapDataSize \in Nat /\ MaxDisturbances \in Nat

-----------------------------------------------------------------------------
(* From sources to rule files.  A result is a set: empty for an error.     *)

Selectors(spec, required) == BuildLabelSelectorFrom(spec.ruleConfigSelector, required)

RuleSources(kind, spec) ==
    {objs[k] : k \in {x \in DOMAIN objs : x[1] = kind /\ ~IsDerived(objs[x]) /\
        \E s \in Selectors(spec, DefaultRuleLabels) : HasRequiredLabels(objs[x].labels, s)}}

\* A ConfigMap must hold one file, and the file must parse.
Usable(source) ==
    source.kind = "ConfigMap" => /\ Cardinality(source.body.data) = 1
                                 /\ \A f \in source.body.data : f.rules # Garbage

Tenant(source, spec) ==
    {source.labels[t.specifier] : t \in {x \in spec.tenancy : x.specifier \in DOMAIN source.labels}}

\* Rules that already name another tenant keep their queries.
processRuleGroupsWithTenancy(file, tenant) ==
    [file EXCEPT !.label = tenant, !.matcher = IF file.rules = Clashing THEN {} ELSE tenant]

FileName(source, file) ==
    IF source.kind = "ConfigMap" THEN source.name \o <<"-">> \o file.key ELSE source.name

RuleFile(source, spec) ==
    LET file == TheOne(source.body.data)
    IN  processRuleGroupsWithTenancy([file EXCEPT !.key = FileName(source, file)],
                                     Tenant(source, spec))

\* The rule files of all sources of a kind; an empty tenant stops everything.
CollectRules(kind, spec) ==
    LET usable == {s \in RuleSources(kind, spec) : Usable(s)}
    IN  IF Selectors(spec, DefaultRuleLabels) = {} \/ \E s \in usable : EmptyValue \in Tenant(s, spec)
        THEN {} ELSE {{RuleFile(s, spec) : s \in usable}}

\* No two sources give files of one name: of these one would be lost.
ASSUME FilesAssumption ==
    \A o, p \in Sources : Key(o) # Key(p) =>
        \A f \in o.body.data, g \in p.body.data :
            FileName(o, f) # FileName(p, g) /\ f.place # g.place

DerivedName(ruler, prefix, i) == SanitizeName(ruler \o <<"-", prefix, "-", ToString(i - 1)>>)

RulePrefixes == {"usercfgmap", "promrule"}
RuleNumbers  == 1 .. Cardinality(Sources) + 1

\* The names of derived ConfigMaps, of which there are never more than sources,
\* are different, and no source has one.
ASSUME NamesAssumption ==
    /\ \A r, s \in DOMAIN Rulers, p, q \in RulePrefixes, i, j \in RuleNumbers :
          DerivedName(r, p, i) = DerivedName(s, q, j) => r = s /\ p = q /\ i = j
    /\ \A r \in DOMAIN Rulers, p \in RulePrefixes, i \in RuleNumbers :
          <<"ConfigMap", DerivedName(r, p, i)>> \notin SourceKeys

\* The derived ConfigMaps, numbered; no files, no ConfigMap.
createBucketedRuleConfigMaps(ruler, spec, files, prefix, label) ==
    LET Derived(i, bucket) ==
            Object("ConfigMap", DerivedName(ruler, prefix, i),
                   MergeMaps(MergeMaps(spec.ruleConfigSelector.match, DefaultRuleLabels), label),
                   [data |-> bucket])
    IN  IF files = {} THEN {<<>>}
        ELSE {[i \in DOMAIN b |-> [Derived(i, b[i]) EXCEPT !.owner = ruler]] :
                 b \in R!MakeRulesConfigMaps(files, maxConfigMapDataSize)}

getRuleConfigMaps(ruler, spec) ==
    UNION {createBucketedRuleConfigMaps(ruler, spec, files, "usercfgmap", UserSource) :
              files \in CollectRules("ConfigMap", spec)}
getPrometheusRuleConfigMaps(ruler, spec) ==
    UNION {createBucketedRuleConfigMaps(ruler, spec, files, "promrule", PromRuleDerived) :
              files \in CollectRules("PrometheusRule", spec)}

RuleFiles(configMaps) == UNION {{<<configMaps[i].name, f.key>> : f \in configMaps[i].body.data} :
                                   i \in DOMAIN configMaps}
getNames(ruleFiles)   == {f[1] : f \in ruleFiles}
Tenants(configMaps)   == UNION {UNION {f.label : f \in configMaps[i].body.data} : i \in DOMAIN configMaps}

-----------------------------------------------------------------------------
(* Events. *)

\* An update is judged by the labels of the new object, and reaches the rulers
\* that select the old one or the new.
enqueueForConfigMap(old, new) ==
    LET judged == IF new = {} THEN old ELSE new
    IN  {r \in DOMAIN specs :
            /\ \E o \in judged : o.kind = "ConfigMap" /\ HasRequiredLabels(o.labels, DefaultRuleLabels)
            /\ \E o \in old \cup new, s \in Selectors(specs[r], DefaultRuleLabels) :
                  HasRequiredLabels(o.labels, s)}

\* Mutant: a PrometheusRule that goes wakes nobody.
enqueueForPrometheusRule_NotGone(old, new) ==
    {r \in DOMAIN specs :
        /\ gate /\ new # {} /\ \E o \in new : o.kind = "PrometheusRule"
        /\ old # {} => TheOne(old).body # TheOne(new).body
        /\ \E o \in old \cup new, s \in Selectors(specs[r], NoLabels) : HasRequiredLabels(o.labels, s)}

\* An update must change more than labels.
enqueueForPrometheusRule(old, new) ==
    {r \in DOMAIN specs :
        /\ gate /\ \E o \in old \cup new : o.kind = "PrometheusRule"
        /\ old # {} /\ new # {} => TheOne(old).body # TheOne(new).body
        /\ \E o \in old \cup new, s \in Selectors(specs[r], NoLabels) : HasRequiredLabels(o.labels, s)}

enqueueForOwner(old, new) == {o.owner : o \in old \cup new} \ {NoOwner}

Woken(old, new) ==
    enqueueForConfigMap(old, new) \cup enqueueForPrometheusRule(old, new) \cup enqueueForOwner(old, new)

-----------------------------------------------------------------------------
At(k) == IF k \in DOMAIN objs THEN {objs[k]} ELSE {}

\* Who is woken when the objects become new, and that they do.
WokenBy(new) == UNION {Woken(At(k), IF k \in DOMAIN new THEN {new[k]} ELSE {}) :
                          k \in {x \in DOMAIN objs \cup DOMAIN new :
                                    At(x) # (IF x \in DOMAIN new THEN {new[x]} ELSE {})}}
Change(new) == objs' = new /\ queue' = queue \cup WokenBy(new)
With(obj)     == [k \in DOMAIN objs \cup {Key(obj)} |-> IF k = Key(obj) THEN obj ELSE objs[k]]
Without(keys) == [k \in DOMAIN objs \ keys |-> objs[k]]

\* The worker without a ruler.
Idle == [stage |-> "idle"]

Happens(what) == left > 0 /\ left' = left - 1 /\ what \in Happening
MayFail(fails) == IF fails THEN Happens("failure") ELSE UNCHANGED left

Init ==
    /\ gate \in RuleGates
    /\ specs \in {f \in [DOMAIN Rulers -> UNION {Rulers[r] : r \in DOMAIN Rulers}] :
                     \A r \in DOMAIN Rulers : f[r] \in Rulers[r]}
    /\ objs = [k \in SourceKeys |-> CHOOSE o \in Sources : Key(o) = k]
    /\ sts = [r \in DOMAIN Rulers |-> {}]
    /\ secret = [r \in DOMAIN Rulers |-> {}]
    /\ queue = DOMAIN Rulers
    /\ work = Idle
    /\ missed = [r \in DOMAIN Rulers |-> {}]
    /\ left = MaxDisturbances

-----------------------------------------------------------------------------
(* The reconciler.  A job carries what it has read so far.                 *)

In(stage) == work # Idle /\ work.stage = stage

Failed    == [work EXCEPT !.stage = "report", !.failed = TRUE, !.todo = <<>>]

\* On to the writes of the ConfigMaps it found, or straight to what follows.
Writing(job, configMaps, stage, next) ==
    [job EXCEPT !.stage = IF configMaps = <<>> THEN next ELSE stage,
                !.todo = configMaps,
                !.files = @ \cup RuleFiles(configMaps),
                !.tenants = @ \cup Tenants(configMaps)]

Reconcile(r) ==
    /\ work = Idle /\ r \in queue
    /\ queue' = queue \ {r}
    /\ LET job   == [ruler |-> r, spec |-> specs[r], stage |-> "user", todo |-> <<>>,
                     failed |-> FALSE, files |-> {}, tenants |-> {}]
           found == getRuleConfigMaps(r, specs[r])
       IN work' = IF found = {} THEN [job EXCEPT !.stage = "report", !.failed = TRUE]
                  ELSE Writing(job, TheOne(found), "user", "list")
    /\ missed' = [missed EXCEPT ![r] = {k \in @ : k[1] # "ConfigMap"}]
    /\ UNCHANGED <<gate, specs, objs, sts, secret, left>>

\* handler.CreateOrUpdate: all are tried; one error stops the reconcile after.
WriteConfigMap ==
    /\ \E stage \in {"user", "promrule"} : In(stage)
    /\ \E fails \in BOOLEAN :
         /\ MayFail(fails)
         /\ IF fails THEN UNCHANGED <<objs, queue>>
            ELSE Change(With(Head(work.todo)))
         /\ LET failed == work.failed \/ fails
                next   == IF work.stage = "user" THEN "list" ELSE "sts"
            IN work' = IF Len(work.todo) > 1
                       THEN [work EXCEPT !.todo = Tail(@), !.failed = failed]
                       ELSE IF failed THEN Failed ELSE [work EXCEPT !.todo = <<>>, !.stage = next]
    /\ UNCHANGED <<gate, specs, sts, secret, missed>>

ListPrometheusRules ==
    /\ In("list")
    /\ LET found == IF gate THEN getPrometheusRuleConfigMaps(work.ruler, work.spec) ELSE {<<>>}
       IN work' = IF found = {} THEN Failed ELSE Writing(work, TheOne(found), "promrule", "sts")
    /\ missed' = IF gate THEN [missed EXCEPT ![work.ruler] = {k \in @ : k[1] # "PrometheusRule"}]
                 ELSE missed
    /\ UNCHANGED <<gate, specs, objs, sts, secret, queue, left>>

\* The StatefulSet comes before the Secret, which is written even when the
\* StatefulSet could not be.
WriteStatefulSet ==
    /\ In("sts")
    /\ \E fails \in BOOLEAN :
         /\ MayFail(fails)
         /\ sts' = IF fails THEN sts ELSE [sts EXCEPT ![work.ruler] = work.files]
         /\ work' = [work EXCEPT !.stage = "secret", !.failed = fails]
    /\ UNCHANGED <<gate, specs, objs, secret, queue, missed>>

WriteSecret ==
    /\ In("secret")
    /\ \E fails \in BOOLEAN :
         /\ MayFail(fails)
         /\ secret' = IF fails THEN secret ELSE [secret EXCEPT ![work.ruler] = work.tenants]
         /\ work' = IF work.failed \/ fails THEN Failed ELSE [work EXCEPT !.stage = "prune"]
    /\ UNCHANGED <<gate, specs, objs, sts, queue, missed>>

\* Mutant: the ConfigMaps of PrometheusRules alone are expected.
pruneOrphanedDerivedConfigMaps_PromOnly(expected) ==
    {k \in DOMAIN objs : k[1] = "ConfigMap" /\ IsDerived(objs[k])
        /\ ~(k[2] \in expected /\ HasRequiredLabels(objs[k].labels, PromRuleDerived))}

\* Whatever in the namespace is derived and has no expected name.
pruneOrphanedDerivedConfigMaps(expected) ==
    {k \in DOMAIN objs : k[1] = "ConfigMap" /\ IsDerived(objs[k]) /\ k[2] \notin expected}

\* Each is deleted in a call of its own, one of which may fail.
Cleanup ==
    /\ In("prune")
    /\ LET orphans == pruneOrphanedDerivedConfigMaps(getNames(work.files))
       IN \E stay \in {{}} \cup {{k} : k \in orphans} :
            /\ MayFail(stay # {})
            /\ Change(Without(orphans \ stay))
            /\ work' = IF stay = {} THEN [work EXCEPT !.stage = "report"] ELSE Failed
    /\ UNCHANGED <<gate, specs, sts, secret, missed>>

\* An error is returned, and requeues.
Report ==
    /\ In("report")
    /\ queue' = queue \cup (IF work.failed THEN {work.ruler} ELSE {})
    /\ work' = Idle
    /\ UNCHANGED <<gate, specs, objs, sts, secret, missed, left>>

Worker ==
    \/ \E r \in DOMAIN Rulers : Reconcile(r)
    \/ WriteConfigMap \/ ListPrometheusRules \/ WriteStatefulSet \/ WriteSecret \/ Cleanup \/ Report

-----------------------------------------------------------------------------
(* Everybody else. *)

\* What no watch lets through: a PrometheusRule of which only labels change, and
\* a ConfigMap that loses the label of rule files.
Ignored(old, new) ==
    /\ old # {} /\ new # {}
    /\ \E o \in old, n \in new :
          IF o.kind = "PrometheusRule" THEN o.body = n.body
          ELSE ~HasRequiredLabels(n.labels, DefaultRuleLabels)

Edited(k, new, form) ==
    /\ Change(new)
    /\ missed' = IF Ignored(At(k), form) THEN [r \in DOMAIN Rulers |-> missed[r] \cup {k}] ELSE missed
    /\ UNCHANGED <<gate, specs, sts, secret, work>>
EditSource(o) ==
    Happens("edit") /\ At(Key(o)) # {o} /\ Edited(Key(o), With(o), {o})
RemoveSource(k) == Happens("edit") /\ k \in DOMAIN objs /\ Edited(k, Without({k}), {})

EditRuler(r) ==
    /\ Happens("spec")
    /\ \E spec \in Rulers[r] \ {specs[r]} : specs' = [specs EXCEPT ![r] = spec]
    /\ queue' = queue \cup {r}
    /\ UNCHANGED <<gate, objs, sts, secret, work, missed>>

\* A derived ConfigMap is deleted or its data is overwritten by hand.
LoseConfigMap(k) ==
    /\ Happens("loss") /\ k \in DOMAIN objs /\ objs[k].owner # NoOwner
    /\ \/ Change(Without({k}))
       \/ objs[k].body.data # {} /\ Change([objs EXCEPT ![k].body.data = {}])
    /\ UNCHANGED <<gate, specs, sts, secret, work, missed>>

Restart ==
    /\ Happens("restart")
    /\ gate' \in RuleGates
    /\ gate' # gate \/ work # Idle
    /\ queue' = DOMAIN Rulers
    /\ work' = Idle
    /\ UNCHANGED <<specs, objs, sts, secret, missed>>

Next ==
    \/ Worker
    \/ \E o \in Sources : EditSource(o)
    \/ \E k \in SourceKeys : RemoveSource(k)
    \/ \E r \in DOMAIN Rulers : EditRuler(r)
    \/ \E k \in DOMAIN objs : LoseConfigMap(k)
    \/ Restart

\* There is one worker, and whatever is queued it takes in the end.
Fairness == WF_vars(Worker)
Spec == Init /\ [][Next]_vars /\ Fairness

-----------------------------------------------------------------------------
(* What the pods of a ruler load: the files they are told to load that are *)
(* where they are told to look.                                            *)

Present(r)   == {f \in sts[r] : \E k \in DOMAIN objs : k = <<"ConfigMap", f[1]>>
                                   /\ \E d \in objs[k].body.data : d.key = f[2]}
Contents(f)  == {d \in objs[<<"ConfigMap", f[1]>>].body.data : d.key = f[2]}
Loaded(r)    == UNION {Contents(f) : f \in Present(r)}

AtRest == queue = {} /\ work = Idle

Loads(r)     == {[key |-> d.key, rules |-> d.rules, tenant |-> d.label] : d \in Loaded(r)}

\* What a ruler should load: one file for each usable source it selects.
Wanted(kind, spec) ==
    UNION {{[key |-> FileName(s, d), rules |-> d.rules, tenant |-> Tenant(s, spec)] : d \in s.body.data} :
              s \in {x \in RuleSources(kind, spec) : Usable(x)}}
Selected(r) == Wanted("ConfigMap", specs[r]) \cup (IF gate THEN Wanted("PrometheusRule", specs[r]) ELSE {})

\* The file names of the sources whose last change went unnoticed.
MissedNames(r) == UNION {{FileName(o, d) : d \in o.body.data} :
                            o \in {s \in Sources : Key(s) \in missed[r]}}

RulesTypeOK ==
    /\ gate \in RuleGates /\ queue \subseteq DOMAIN Rulers
    /\ \A r \in DOMAIN Rulers : specs[r] \in Rulers[r] /\ missed[r] \subseteq SourceKeys
    /\ \A k \in DOMAIN objs :
          /\ Key(objs[k]) = k
          /\ k \notin SourceKeys => /\ objs[k].owner \in DOMAIN Rulers
                                   /\ R!bucketSize(objs[k].body.data) <= maxConfigMapDataSize
    /\ work # Idle => work.stage \in {"user", "list", "promrule", "sts", "secret", "prune", "report"}
    /\ left \in 0 .. MaxDisturbances

\* With nothing queued and the worker idle the pods of each ruler load exactly
\* the rules it selects, as they are now and bound to their tenant, no derived
\* ConfigMap is left over, and every tenant is written for; what a watch was
\* made to ignore is excepted until it is read again.  Edits between the two
\* listings, files that move from one ConfigMap to another, failed writes,
\* lost ConfigMaps and a gate that shuts do not change it
\* (thanosruler_controller.go:396-635, 923-1033).
RestsOnlyWhenLoaded ==
    AtRest => \A r \in DOMAIN Rulers :
        /\ {d \in Loads(r) : d.key \notin MissedNames(r)} = {d \in Selected(r) : d.key \notin MissedNames(r)}
        /\ Present(r) = sts[r]
        /\ {k \in DOMAIN objs : objs[k].owner = r} = {<<"ConfigMap", name>> : name \in getNames(sts[r])}
        /\ UNION {d.label : d \in Loaded(r)} = secret[r]

\* At no time do the pods of a ruler load one rule file from two ConfigMaps,
\* which would record and alert twice, although files move between ConfigMaps
\* that are written one after the other (builder.go:632-674).
LoadsOnce ==
    \A r \in DOMAIN Rulers : \A f, g \in Present(r) : f[2] = g[2] /\ f # g
        => {d.place : d \in Contents(f)} # {d.place : d \in Contents(g)}

\* "prunes orphaned derived ConfigMaps (both PrometheusRule and user ConfigMap
\* sources)" (thanosruler_controller.go:1012): a ConfigMap that pods are told
\* to load rules from is not an orphan.
PrunesOnlyOrphans ==
    [][In("prune") => \A k \in DOMAIN objs \ DOMAIN objs' :
                         work' # work => \A r \in DOMAIN Rulers : k[2] \notin getNames(sts[r])]_vars

\* A ruler whose rules cannot be read: a selector without labels, an empty
\* tenant, a file too large for any ConfigMap.
Unreadable(r) ==
    getRuleConfigMaps(r, specs[r]) = {} \/ (gate /\ getPrometheusRuleConfigMaps(r, specs[r]) = {})

\* The events of the operator's own writes and deletions of derived ConfigMaps,
\* which have the labels of rule files, do not keep the ruler busy for ever.
RulesConverge == <>[](AtRest \/ \E r \in DOMAIN Rulers : Unreadable(r))
=============================================================================
