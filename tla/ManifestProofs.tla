---------------------------- MODULE ManifestProofs ----------------------------
(***************************************************************************)
(* What a resource asks for, for any resource, feature gates and objects   *)
(* found: every object that its builders return is one of a part of the    *)
(* resource (DesiredAsked), has a name, the labels and the owner of that   *)
(* part, selects the pods of its own instance, and its pods refer to       *)
(* nothing but their account, ConfigMaps, what the user names and, if they *)
(* are a stateless ruler's, the Secret that comes with them.               *)
(***************************************************************************)
EXTENDS OwnedObjects, SequenceTheorems, WellFoundedInduction, TLAPS

-----------------------------------------------------------------------------
(* Lists of objects.                                                        *)

IsObject(x) ==
    x = [kind |-> x.kind, name |-> x.name, labels |-> x.labels, body |-> x.body, owner |-> x.owner]
IsWorkload(x) == x.kind \in {"Deployment", "StatefulSet"}
HasSelector(x) == IsWorkload(x) \/ x.kind \in {"Service", "PodDisruptionBudget"}

\* A part of a resource is a record of one of its components (Parts): labels are
\* those by which the owner lists the objects of the part, names the names they may
\* have, workload the kind of its workload and sources what its pods may refer to
\* besides ConfigMaps.

\* These labels, or this selector, are those of the instance called name.
Told(labels, name, part) ==
    /\ HasRequiredLabels(labels, part.labels)
    /\ "instance" \in DOMAIN labels
    /\ labels["instance"] = ValidateAndSanitizeNameToValidLabelValue(name)

\* A list of volumes, or the environment of a container, refers to these sources.
AllFrom(list, sources) ==
    /\ IsList(list)
    /\ \A i \in DOMAIN list : \A ref \in list[i].source : ref[1] = "ConfigMap" \/ ref \in sources

ContainerFits(c, sources) == "env" \in DOMAIN c /\ AllFrom(c.env, sources)

\* The pods of the instance called name.
PodFits(pod, name, part) ==
    /\ {"labels", "account", "volumes", "containers"} \subseteq DOMAIN pod
    /\ Told(pod.labels, name, part) /\ pod.account = name
    /\ AllFrom(pod.volumes, part.sources)
    /\ IsList(pod.containers) /\ 1 \in DOMAIN pod.containers
    /\ \A i \in DOMAIN pod.containers : ContainerFits(pod.containers[i], part.sources)

WorkloadFits(x, part) ==
    /\ x.kind = part.workload /\ {"selector", "pod"} \subseteq DOMAIN x.body
    /\ PodFits(x.body.pod, x.name, part)

\* An object of a part; of one of the parts; a list of them.
Fits(x, part) ==
    /\ IsObject(x) /\ x.name \in part.names
    /\ HasRequiredLabels(x.labels, part.labels)
    /\ HasSelector(x) => Told(x.body.selector, x.name, part)
    /\ IsWorkload(x) => WorkloadFits(x, part)

Asked(x, parts) == \E part \in parts : Fits(x, part)

AllAsked(list, parts) ==
    /\ \E A : list \in Seq(A)
    /\ \A i \in DOMAIN list : Asked(list[i], parts)

\* A list of one object that is asked for.
LEMMA AllOf1 ==
    ASSUME NEW x, NEW parts, Asked(x, parts)
    PROVE  AllAsked(<<x>>, parts)
<1> DEFINE one == <<x>>
<1>1. one \in Seq({x}) /\ DOMAIN one = {1} /\ one[1] = x
  OBVIOUS
<1> HIDE DEF one
<1>2. AllAsked(one, parts)
  BY <1>1 DEF AllAsked
<1> QED BY <1>2 DEF one

\* Nothing is asked for.
LEMMA AllOfNone ==
    ASSUME NEW parts
    PROVE  AllAsked(<<>>, parts)
<1>1. <<>> \in Seq({}) /\ DOMAIN <<>> = {}
  OBVIOUS
<1> QED BY <1>1 DEF AllAsked

\* Two lists of what is asked for, one after the other, as the builders append
\* what is optional.
LEMMA Joined ==
    ASSUME NEW a, NEW b, NEW parts, AllAsked(a, parts), AllAsked(b, parts)
    PROVE  AllAsked(a \o b, parts)
<1>1. PICK A : a \in Seq(A)
  BY DEF AllAsked
<1>2. PICK B : b \in Seq(B)
  BY DEF AllAsked
<1>3. a \in Seq(A \cup B) /\ b \in Seq(A \cup B)
  BY <1>1, <1>2
<1>4. a \o b \in Seq(A \cup B)
  BY <1>3
<1>5. /\ Len(a) \in Nat /\ Len(b) \in Nat /\ DOMAIN a = 1 .. Len(a) /\ DOMAIN b = 1 .. Len(b)
      /\ DOMAIN (a \o b) = 1 .. Len(a) + Len(b)
      /\ \A i \in 1 .. Len(a) : (a \o b)[i] = a[i]
      /\ \A i \in Len(a) + 1 .. Len(a) + Len(b) : (a \o b)[i] = b[i - Len(a)]
  BY <1>3
<1>6. ASSUME NEW i \in DOMAIN (a \o b) PROVE Asked((a \o b)[i], parts)
  <2>1. CASE i <= Len(a)
    BY <1>5, <1>6, <2>1 DEF AllAsked
  <2>2. CASE i > Len(a)
    <3>1. i - Len(a) \in DOMAIN b /\ (a \o b)[i] = b[i - Len(a)]
      BY <1>5, <1>6, <2>2
    <3> QED BY <3>1 DEF AllAsked
  <2> QED BY <1>5, <1>6, <2>1, <2>2
<1> QED BY <1>4, <1>6 DEF AllAsked

\* Appending to a list that is not empty, or a list that is not.
LEMMA Longer ==
    ASSUME NEW a, NEW b, NEW parts, AllAsked(a, parts), AllAsked(b, parts),
           a # <<>> \/ b # <<>>
    PROVE  a \o b # <<>>
<1>1. PICK A : a \in Seq(A)
  BY DEF AllAsked
<1>2. PICK B : b \in Seq(B)
  BY DEF AllAsked
<1>3. a \in Seq(A \cup B) /\ b \in Seq(A \cup B)
  BY <1>1, <1>2
<1>4. Len(a) \in Nat /\ Len(b) \in Nat /\ Len(a) + Len(b) # 0 /\ Len(a \o b) = Len(a) + Len(b)
  BY <1>3
<1>5. Len(<<>>) = 0
  OBVIOUS
<1> QED BY <1>4, <1>5

\* The objects every component has: a builder starts with three of them.
LEMMA Three ==
    ASSUME NEW x, NEW y, NEW z, NEW parts,
           Asked(x, parts), Asked(y, parts), Asked(z, parts)
    PROVE  AllAsked(<<x, y, z>>, parts)
<1> DEFINE three == <<x, y, z>>
<1>1. three \in Seq({x, y, z}) /\ DOMAIN three = 1 .. 3
      /\ three[1] = x /\ three[2] = y /\ three[3] = z
  OBVIOUS
<1> HIDE DEF three
<1>2. \A i \in DOMAIN three : i = 1 \/ i = 2 \/ i = 3
  BY <1>1
<1>3. AllAsked(three, parts)
  BY <1>1, <1>2 DEF AllAsked
<1> QED BY <1>3 DEF three

\* Among numbers one is the least.
LEMMA LeastNumber ==
    ASSUME NEW K \in SUBSET Nat, K # {}
    PROVE  \E k \in K : \A j \in K : k <= j
<1> DEFINE before == {ss \in Nat \X Nat : ss[1] < ss[2]}
<1>1. IsWellFoundedOn(before, Nat)
  BY NatLessThanWellFounded DEF OpToRel
<1>2. PICK k \in K : \A j \in K : ~ (<<j, k>> \in before)
  BY <1>1, WFMin
<1>3. \A j \in K : ~ (j < k)
  BY <1>2
<1> QED BY <1>3

\* One list after another, up to each.
Runs(f, lists, n) == f = [i \in 1 .. n |-> IF i = 1 THEN lists[i] ELSE f[i - 1] \o lists[i]]

\* The lists that FlattenSeq runs through exist.
LEMMA RunsExist ==
    ASSUME NEW A, NEW lists, NEW n \in Nat, \A i \in 1 .. n : lists[i] \in Seq(A)
    PROVE  \E f : Runs(f, lists, n)
<1> DEFINE Upto(f, k) == \A i \in 1 .. k : f[i] = IF i = 1 THEN lists[i] ELSE f[i - 1] \o lists[i]
           K == {k \in 0 .. n : ~ \E f \in [1 .. k -> Seq(A)] : Upto(f, k)}
<1>1. K = {}
  <2> SUFFICES ASSUME K # {} PROVE FALSE
    OBVIOUS
  <2>1. PICK k \in K : \A j \in K : k <= j
    <3>1. K \in SUBSET Nat
      OBVIOUS
    <3> HIDE DEF K
    <3> QED BY <3>1, LeastNumber
  <2>2. k \in 0 .. n /\ ~ \E f \in [1 .. k -> Seq(A)] : Upto(f, k)
    BY <2>1
  <2>3. CASE k = 0
    <3>1. [i \in 1 .. 0 |-> <<>>] \in [1 .. 0 -> Seq(A)] /\ Upto([i \in 1 .. 0 |-> <<>>], 0)
      OBVIOUS
    <3> QED BY <2>2, <2>3, <3>1
  <2>4. CASE k > 0
    <3>1. k - 1 \in 0 .. n /\ k - 1 \notin K
      <4> HIDE DEF K
      <4> QED BY <2>1, <2>2, <2>4
    <3>2. PICK g \in [1 .. k - 1 -> Seq(A)] : Upto(g, k - 1)
      BY <3>1
    <3> DEFINE f == [i \in 1 .. k |-> IF i < k THEN g[i]
                                      ELSE IF k = 1 THEN lists[1] ELSE g[k - 1] \o lists[k]]
    <3>3. f \in [1 .. k -> Seq(A)]
      <4>1. lists[k] \in Seq(A) /\ (k # 1 => g[k - 1] \in Seq(A)) /\ (k = 1 => lists[1] \in Seq(A))
        BY <2>2, <2>4, <3>2
      <4>2. k # 1 => g[k - 1] \o lists[k] \in Seq(A)
        BY <4>1
      <4>3. \A i \in 1 .. k : i < k => g[i] \in Seq(A)
        BY <2>2, <3>2
      <4> QED BY <4>1, <4>2, <4>3
    <3>4. ASSUME NEW i \in 1 .. k PROVE f[i] = IF i = 1 THEN lists[i] ELSE f[i - 1] \o lists[i]
      <4>1. CASE i < k
        <5>1. f[i] = g[i] /\ (i # 1 => f[i - 1] = g[i - 1])
          BY <2>2, <4>1
        <5>2. i \in 1 .. k - 1
          BY <2>2, <4>1
        <5>3. g[i] = IF i = 1 THEN lists[i] ELSE g[i - 1] \o lists[i]
          BY <3>2, <5>2
        <5> HIDE DEF f
        <5> QED BY <5>1, <5>3
      <4>2. CASE i = k
        <5>1. i # 1 => f[i - 1] = g[i - 1]
          BY <2>2, <4>2
        <5>2. f[i] = IF k = 1 THEN lists[1] ELSE g[k - 1] \o lists[k]
          BY <2>2, <4>2
        <5> HIDE DEF f
        <5> QED BY <4>2, <5>1, <5>2
      <4> QED BY <2>2, <4>1, <4>2
    <3> HIDE DEF f
    <3>5. Upto(f, k)
      BY <3>4
    <3> QED BY <2>2, <3>3, <3>5
  <2> QED BY <2>2, <2>3, <2>4
<1>2. PICK f \in [1 .. n -> Seq(A)] : Upto(f, n)
  <2> HIDE DEF Upto
  <2> QED BY <1>1
<1>3. f = [i \in 1 .. n |-> f[i]]
  BY <1>2
<1>4. Runs(f, lists, n)
  BY <1>2, <1>3 DEF Runs
<1> QED BY <1>4

\* Lists of what a resource asks for, one after another: the shards or hashrings
\* of a resource.
LEMMA Flattened ==
    ASSUME NEW B, NEW lists \in Seq(B), lists # <<>>, NEW parts,
           \A i \in DOMAIN lists : AllAsked(lists[i], parts) /\ lists[i] # <<>>
    PROVE  AllAsked(FlattenSeq(lists), parts) /\ FlattenSeq(lists) # <<>>
<1> DEFINE n == Len(lists)  f == CHOOSE h : Runs(h, lists, n)
           A == UNION {{lists[i][j] : j \in DOMAIN lists[i]} : i \in 1 .. n}
<1>1. n \in Nat /\ n >= 1 /\ DOMAIN lists = 1 .. n
  OBVIOUS
<1>2. ASSUME NEW i \in 1 .. n PROVE lists[i] \in Seq(A)
  <2>1. PICK U : lists[i] \in Seq(U)
    BY <1>1 DEF AllAsked
  <2>2. \A j \in DOMAIN lists[i] : lists[i][j] \in A
    OBVIOUS
  <2> HIDE DEF A
  <2>3. Len(lists[i]) \in Nat /\ DOMAIN lists[i] = 1 .. Len(lists[i])
        /\ lists[i] = [j \in 1 .. Len(lists[i]) |-> lists[i][j]]
    BY <2>1
  <2> QED BY <2>2, <2>3
<1>3. Runs(f, lists, n)
  <2> HIDE DEF A
  <2>1. \E h : Runs(h, lists, n)
    BY <1>1, <1>2, RunsExist
  <2> QED BY <2>1
<1>4. FlattenSeq(lists) = f[n]
  BY <1>1 DEF FlattenSeq, Runs
<1> HIDE DEF f
<1>5. \A i \in 1 .. n : f[i] = IF i = 1 THEN lists[i] ELSE f[i - 1] \o lists[i]
  BY <1>3 DEF Runs
<1> DEFINE K == {k \in 1 .. n : ~ (AllAsked(f[k], parts) /\ f[k] # <<>>)}
<1>6. K = {}
  <2> SUFFICES ASSUME K # {} PROVE FALSE
    OBVIOUS
  <2>1. PICK k \in K : \A j \in K : k <= j
    <3>1. K \in SUBSET Nat
      OBVIOUS
    <3> HIDE DEF K
    <3> QED BY <3>1, LeastNumber
  <2>2. CASE k = 1
    BY <1>1, <1>5, <2>1, <2>2
  <2>3. CASE k # 1
    <3>1. k - 1 \in 1 .. n /\ k - 1 \notin K /\ k \in 1 .. n
      <4>1. k \in 1 .. n
        OBVIOUS
      <4> HIDE DEF K
      <4> QED BY <1>1, <2>1, <2>3, <4>1
    <3>2. AllAsked(f[k - 1], parts)
      BY <3>1
    <3>3. f[k] = f[k - 1] \o lists[k] /\ AllAsked(lists[k], parts) /\ lists[k] # <<>>
      BY <1>1, <1>5, <2>3, <3>1
    <3>4. AllAsked(f[k], parts)
      BY <3>2, <3>3, Joined
    <3>5. f[k] # <<>>
      BY <3>2, <3>3, Longer
    <3> QED BY <3>4, <3>5
  <2> QED BY <2>2, <2>3
<1> QED BY <1>1, <1>4, <1>6

-----------------------------------------------------------------------------
(* Pods.                                                                    *)

\* Two lists, one after the other.
LEMMA ListsJoined ==
    ASSUME NEW a, NEW b, IsList(a), IsList(b)
    PROVE  /\ IsList(a \o b)
           /\ DOMAIN (a \o b) = 1 .. Len(a) + Len(b)
           /\ DOMAIN a = 1 .. Len(a) /\ DOMAIN b = 1 .. Len(b)
           /\ \A i \in DOMAIN (a \o b) : \/ i \in DOMAIN a /\ (a \o b)[i] = a[i]
                                         \/ i - Len(a) \in DOMAIN b /\ (a \o b)[i] = b[i - Len(a)]
<1> DEFINE T == {a[i] : i \in 1 .. Len(a)} \cup {b[i] : i \in 1 .. Len(b)}
<1>1. Len(a) \in Nat /\ Len(b) \in Nat
      /\ a = [i \in 1 .. Len(a) |-> a[i]] /\ b = [i \in 1 .. Len(b) |-> b[i]]
  BY DEF IsList
<1>2. a \in Seq(T) /\ b \in Seq(T)
  <2>1. \A i \in 1 .. Len(a) : a[i] \in T
    OBVIOUS
  <2>2. \A i \in 1 .. Len(b) : b[i] \in T
    OBVIOUS
  <2> HIDE DEF T
  <2>3. [i \in 1 .. Len(a) |-> a[i]] \in Seq(T) /\ [i \in 1 .. Len(b) |-> b[i]] \in Seq(T)
    BY <1>1, <2>1, <2>2
  <2> QED BY <1>1, <2>3
<1> HIDE DEF T
<1>3. /\ DOMAIN a = 1 .. Len(a) /\ DOMAIN b = 1 .. Len(b)
      /\ a \o b \in Seq(T) /\ Len(a \o b) = Len(a) + Len(b)
      /\ DOMAIN (a \o b) = 1 .. Len(a) + Len(b)
      /\ \A i \in 1 .. Len(a) + Len(b) : (a \o b)[i] = IF i <= Len(a) THEN a[i] ELSE b[i - Len(a)]
  BY <1>2
<1> DEFINE c == a \o b  n == Len(a) + Len(b)
<1>4. c \in Seq(T) /\ Len(c) = n
  BY <1>3
<1> HIDE DEF c, n
<1>5. IsList(c)
  BY <1>4 DEF IsList
<1>6. \A i \in DOMAIN (a \o b) : \/ i \in DOMAIN a /\ (a \o b)[i] = a[i]
                                 \/ i - Len(a) \in DOMAIN b /\ (a \o b)[i] = b[i - Len(a)]
  <2> SUFFICES ASSUME NEW i \in 1 .. Len(a) + Len(b)
               PROVE  \/ i \in 1 .. Len(a) /\ (a \o b)[i] = a[i]
                      \/ i - Len(a) \in 1 .. Len(b) /\ (a \o b)[i] = b[i - Len(a)]
    BY <1>3
  <2>1. CASE i <= Len(a)
    BY <1>1, <1>3, <2>1
  <2>2. CASE ~ (i <= Len(a))
    BY <1>1, <1>3, <2>2
  <2> QED BY <2>1, <2>2
<1> QED BY <1>3, <1>5, <1>6 DEF c

\* Volumes, or environments, one list after the other.
LEMMA SourcesJoined ==
    ASSUME NEW a, NEW b, NEW sources, AllFrom(a, sources), AllFrom(b, sources)
    PROVE  AllFrom(a \o b, sources)
<1>1. IsList(a) /\ IsList(b)
  BY DEF AllFrom
<1>2. /\ IsList(a \o b)
      /\ \A i \in DOMAIN (a \o b) : (\E j \in DOMAIN a : (a \o b)[i] = a[j])
                                    \/ (\E j \in DOMAIN b : (a \o b)[i] = b[j])
  BY <1>1, ListsJoined
<1> DEFINE c == a \o b
<1> HIDE DEF c
<1>3. IsList(c)
        /\ \A i \in DOMAIN c :
             (\E j \in DOMAIN a : c[i] = a[j]) \/ (\E j \in DOMAIN b : c[i] = b[j])
  BY <1>2 DEF c
<1>4. AllFrom(c, sources)
  BY <1>3 DEF AllFrom
<1> QED BY <1>4 DEF c

\* A list of one volume.
LEMMA OneSource ==
    ASSUME NEW x, NEW sources, \A ref \in x.source : ref[1] = "ConfigMap" \/ ref \in sources
    PROVE  AllFrom(<<x>>, sources)
<1> DEFINE one == <<x>>
<1>1. Len(one) = 1 /\ one = [i \in 1 .. 1 |-> one[i]] /\ DOMAIN one = {1} /\ one[1] = x
  OBVIOUS
<1> HIDE DEF one
<1>2. AllFrom(one, sources)
  BY <1>1 DEF AllFrom, IsList
<1> QED BY <1>2 DEF one

\* No volume, or no environment.
LEMMA NoSource ==
    ASSUME NEW sources
    PROVE  AllFrom(<<>>, sources)
<1> DEFINE none == <<>>
<1>1. Len(none) = 0 /\ none = [i \in 1 .. 0 |-> none[i]] /\ DOMAIN none = {}
  OBVIOUS
<1> HIDE DEF none
<1>2. AllFrom(none, sources)
  BY <1>1 DEF AllFrom, IsList
<1> QED BY <1>2 DEF none

\* A list made entry by entry of another.
LEMMA SourcesMapped ==
    ASSUME NEW list, IsList(list), NEW sources, NEW made, made = [i \in DOMAIN list |-> made[i]],
           \A i \in DOMAIN list : \A ref \in made[i].source : ref[1] = "ConfigMap" \/ ref \in sources
    PROVE  AllFrom(made, sources)
<1>1. DOMAIN made = 1 .. Len(list) /\ Len(list) \in Nat /\ DOMAIN made = DOMAIN list
      /\ made = [i \in 1 .. Len(list) |-> made[i]]
  BY DEF IsList
<1>2. Len(made) = Len(list)
  BY <1>1
<1> QED BY <1>1, <1>2 DEF AllFrom, IsList

\* A pod gets another first container.
LEMMA FirstReplaced ==
    ASSUME NEW pod, NEW name, NEW part, PodFits(pod, name, part),
           NEW main, ContainerFits(main, part.sources)
    PROVE  LET first == [pod.containers EXCEPT ![1] = main]
           IN  /\ IsList(first) /\ 1 \in DOMAIN first
               /\ \A i \in DOMAIN first : ContainerFits(first[i], part.sources)
<1> DEFINE first == [pod.containers EXCEPT ![1] = main]  old == pod.containers
<1>1. old = [i \in 1 .. Len(old) |-> old[i]] /\ Len(old) \in Nat /\ 1 \in DOMAIN old
      /\ \A i \in DOMAIN old : ContainerFits(old[i], part.sources)
  BY DEF PodFits, IsList
<1> HIDE DEF old
<1>2. first = [i \in 1 .. Len(old) |-> first[i]] /\ DOMAIN first = DOMAIN old
      /\ \A i \in DOMAIN old : first[i] = IF i = 1 THEN main ELSE old[i]
  BY <1>1 DEF old
<1> HIDE DEF first
<1>3. Len(first) = Len(old)
  BY <1>1, <1>2
<1>4. IsList(first) /\ 1 \in DOMAIN first
        /\ \A i \in DOMAIN first : ContainerFits(first[i], part.sources)
  BY <1>1, <1>2, <1>3 DEF IsList
<1> QED BY <1>4 DEF first

\* The containers of a pod get another first one and more after them, and the pod gets
\* more volumes: the pod still fits if they do (options.go:308-346).
LEMMA PodGrown ==
    ASSUME NEW pod, NEW name, NEW part, PodFits(pod, name, part),
           NEW main, ContainerFits(main, part.sources),
           NEW volumes, AllFrom(volumes, part.sources),
           NEW containers, IsList(containers),
           \A i \in DOMAIN containers : ContainerFits(containers[i], part.sources)
    PROVE  PodFits([pod EXCEPT !.volumes    = @ \o volumes,
                               !.containers = [@ EXCEPT ![1] = main] \o containers], name, part)
<1> DEFINE first == [pod.containers EXCEPT ![1] = main]
           vs == pod.volumes \o volumes  cs == first \o containers
           grown == [pod EXCEPT !.volumes = vs, !.containers = cs]
<1>1. AllFrom(vs, part.sources)
  BY SourcesJoined DEF PodFits
<1>2. IsList(first) /\ 1 \in DOMAIN first
        /\ \A i \in DOMAIN first : ContainerFits(first[i], part.sources)
  BY FirstReplaced
<1> HIDE DEF first
<1>3. IsList(cs) /\ 1 \in DOMAIN cs /\ \A i \in DOMAIN cs : ContainerFits(cs[i], part.sources)
  <2>1. /\ IsList(cs) /\ DOMAIN cs = 1 .. Len(first) + Len(containers)
        /\ DOMAIN first = 1 .. Len(first)
        /\ \A i \in DOMAIN cs : (\E j \in DOMAIN first : cs[i] = first[j])
                                \/ (\E j \in DOMAIN containers : cs[i] = containers[j])
    BY <1>2, ListsJoined
  <2>2. Len(first) \in Nat /\ Len(containers) \in Nat
    BY <1>2 DEF IsList
  <2>3. 1 \in DOMAIN cs
    BY <1>2, <2>1, <2>2
  <2> HIDE DEF cs
  <2>4. ASSUME NEW i \in DOMAIN cs PROVE ContainerFits(cs[i], part.sources)
    BY <1>2, <2>1
  <2> QED BY <2>1, <2>3, <2>4
<1> HIDE DEF vs, cs
<1>4. {"labels", "account", "volumes", "containers"} \subseteq DOMAIN pod
  BY DEF PodFits
<1>5. /\ DOMAIN grown = DOMAIN pod
      /\ grown.labels = pod.labels /\ grown.account = pod.account
      /\ grown.volumes = vs /\ grown.containers = cs
  BY <1>4
<1>6. grown = [pod EXCEPT !.volumes = @ \o volumes, !.containers = [@ EXCEPT ![1] = main] \o containers]
  BY DEF vs, cs, first
<1> HIDE DEF grown
<1>7. PodFits(grown, name, part)
  BY <1>1, <1>3, <1>4, <1>5 DEF PodFits
<1> QED BY <1>6, <1>7

\* The same when nothing is added but volumes, and the first container changes.
LEMMA PodChanged ==
    ASSUME NEW pod, NEW name, NEW part, PodFits(pod, name, part),
           NEW main, ContainerFits(main, part.sources),
           NEW volumes, AllFrom(volumes, part.sources), NEW changed,
           changed = [pod EXCEPT !.volumes = @ \o volumes, !.containers = [@ EXCEPT ![1] = main]]
           \/ changed = [pod EXCEPT !.containers = [@ EXCEPT ![1] = main]]
    PROVE  PodFits(changed, name, part)
<1> DEFINE first == [pod.containers EXCEPT ![1] = main]
           vs == pod.volumes \o volumes
<1>1. AllFrom(vs, part.sources)
  BY SourcesJoined DEF PodFits
<1>2. IsList(first) /\ 1 \in DOMAIN first
        /\ \A i \in DOMAIN first : ContainerFits(first[i], part.sources)
  BY FirstReplaced
<1>4. {"labels", "account", "volumes", "containers"} \subseteq DOMAIN pod
  BY DEF PodFits
<1>5. /\ DOMAIN changed = DOMAIN pod
      /\ changed.labels = pod.labels /\ changed.account = pod.account
      /\ changed.volumes = vs \/ changed.volumes = pod.volumes
      /\ changed.containers = first
  <2>1. CASE changed = [pod EXCEPT !.volumes = vs, !.containers = first]
    <3> HIDE DEF first, vs
    <3> QED BY <1>4, <2>1
  <2>2. CASE changed = [pod EXCEPT !.containers = first]
    <3> HIDE DEF first, vs
    <3> QED BY <1>4, <2>2
  <2> QED BY <2>1, <2>2
<1> HIDE DEF first, vs
<1> QED BY <1>1, <1>2, <1>4, <1>5 DEF PodFits

\* A container with other mounts, ports and arguments, and more in its environment.
LEMMA ContainerGrown ==
    ASSUME NEW c, NEW sources, ContainerFits(c, sources), NEW env, AllFrom(env, sources),
           NEW mounts, NEW ports, NEW args
    PROVE  /\ ContainerFits([c EXCEPT !.mounts = mounts, !.ports = ports,
                                      !.env = @ \o env, !.args = args], sources)
           /\ ContainerFits([c EXCEPT !.mounts = mounts], sources)
           /\ ContainerFits([c EXCEPT !.args = args], sources)
<1> DEFINE more == c.env \o env
<1>1. AllFrom(more, sources)
  BY SourcesJoined DEF ContainerFits
<1>2. "env" \in DOMAIN c
  BY DEF ContainerFits
<1> HIDE DEF more
<1> DEFINE grown == [c EXCEPT !.mounts = mounts, !.ports = ports, !.env = more, !.args = args]
<1>3. "env" \in DOMAIN grown /\ grown.env = more
  BY <1>2
<1>4. "env" \in DOMAIN [c EXCEPT !.mounts = mounts] /\ [c EXCEPT !.mounts = mounts].env = c.env
  BY <1>2
<1>5. "env" \in DOMAIN [c EXCEPT !.args = args] /\ [c EXCEPT !.args = args].env = c.env
  BY <1>2
<1>6. ContainerFits(grown, sources)
  BY <1>1, <1>3 DEF ContainerFits
<1>7. grown = [c EXCEPT !.mounts = mounts, !.ports = ports, !.env = @ \o env, !.args = args]
  BY DEF more
<1> HIDE DEF grown
<1> QED BY <1>4, <1>5, <1>6, <1>7 DEF ContainerFits

\* What the user adds to the pods of a component of this part (transform.go:427-460).
Added(extra, part) == IsExtra(extra) /\ ExtraSources(extra) \subseteq part.sources

\* It refers to what the user names.
LEMMA AddedFits ==
    ASSUME NEW extra, NEW part, Added(extra, part)
    PROVE  /\ AllFrom(extra.env, part.sources) /\ AllFrom(extra.volumes, part.sources)
           /\ IsList(extra.containers) /\ IsList(extra.configMaps) /\ IsList(extra.secrets)
           /\ \A i \in DOMAIN extra.containers : ContainerFits(extra.containers[i], part.sources)
           /\ \A i \in DOMAIN extra.secrets : <<"Secret", extra.secrets[i]>> \in part.sources
<1>1. IsList(extra.volumes) /\ IsList(extra.env) /\ IsList(extra.containers)
      /\ IsList(extra.configMaps) /\ IsList(extra.secrets)
  BY DEF Added, IsExtra
<1>2. \A list : IsList(list) /\ Sources(list) \subseteq part.sources => AllFrom(list, part.sources)
  BY DEF AllFrom, Sources
<1>3. Sources(extra.volumes) \subseteq part.sources /\ Sources(extra.env) \subseteq part.sources
  BY DEF Added, ExtraSources
<1>4. ASSUME NEW i \in DOMAIN extra.containers PROVE ContainerFits(extra.containers[i], part.sources)
  <2>1. Sources(extra.containers[i].env) \subseteq part.sources
    BY DEF Added, ExtraSources
  <2>2. "env" \in DOMAIN extra.containers[i] /\ IsList(extra.containers[i].env)
    BY DEF Added, IsExtra
  <2> QED BY <1>2, <2>1, <2>2 DEF ContainerFits
<1>5. ASSUME NEW i \in DOMAIN extra.secrets PROVE <<"Secret", extra.secrets[i]>> \in part.sources
  <2>1. extra.secrets[i] \in ToSet(extra.secrets)
    BY DEF ToSet
  <2> DEFINE secrets == {<<"Secret", s>> : s \in ToSet(extra.secrets)}
  <2>2. <<"Secret", extra.secrets[i]>> \in secrets
    BY <2>1
  <2> DEFINE others == Sources(extra.volumes) \cup Sources(extra.env)
                       \cup UNION {Sources(extra.containers[j].env) : j \in DOMAIN extra.containers}
  <2>3. ExtraSources(extra) = others \cup secrets
    BY DEF ExtraSources
  <2> HIDE DEF secrets, others
  <2> QED BY <2>2, <2>3 DEF Added
<1> QED BY <1>1, <1>2, <1>3, <1>4, <1>5

\* What Augment makes of the pods of a querier (options.go:248-365, 503-546).
LEMMA QueryAugmented ==
    ASSUME NEW pod, NEW name, NEW part, NEW o, PodFits(pod, name, part), Added(o.extra, part)
    PROVE  PodFits(Q!Augmented(pod, o), name, part)
<1> DEFINE extra == o.extra
           p1 == Q!augmentPodTemplate(pod, extra)
           p2 == IF o.gate.otel THEN Q!augmentOtel(p1) ELSE p1
           p3 == Q!mountConfigMap(p2, extra.configMaps)
<1>1. /\ AllFrom(extra.env, part.sources) /\ AllFrom(extra.volumes, part.sources)
      /\ IsList(extra.containers) /\ IsList(extra.configMaps) /\ IsList(extra.secrets)
      /\ \A i \in DOMAIN extra.containers : ContainerFits(extra.containers[i], part.sources)
      /\ \A i \in DOMAIN extra.secrets : <<"Secret", extra.secrets[i]>> \in part.sources
  BY AddedFits
<1>2. Q!Augmented(pod, o) = Q!mountSecrets(p3, extra.secrets)
  BY DEF Q!Augmented, Q!MountResource
<1> HIDE DEF extra
<1>3. \A x : PodFits(x, name, part) => ContainerFits(x.containers[1], part.sources)
  BY DEF PodFits
<1>4. PodFits(p1, name, part)
  BY <1>1, <1>3, ContainerGrown, PodGrown DEF Q!augmentPodTemplate
<1> HIDE DEF p1
<1>5. PodFits(p2, name, part)
  BY <1>3, <1>4, NoSource, ContainerGrown, PodChanged DEF Q!augmentOtel
<1> HIDE DEF p2
<1>6. ASSUME NEW x, PodFits(x, name, part), NEW vs, AllFrom(vs, part.sources)
      PROVE  PodFits(Q!Mounted(x, vs), name, part)
  <2> DEFINE main == [x.containers[1] EXCEPT !.mounts = @ \o [i \in DOMAIN vs |-> Q!Mount(vs[i].name)]]
  <2>1. ContainerFits(main, part.sources)
    BY <1>3, <1>6, ContainerGrown, NoSource
  <2>2. Q!Mounted(x, vs) = [x EXCEPT !.volumes = @ \o vs, !.containers = [@ EXCEPT ![1] = main]]
    BY DEF Q!Mounted
  <2> HIDE DEF main
  <2> QED BY <1>6, <2>1, <2>2, PodChanged
<1>7. PodFits(p3, name, part)
  <2> DEFINE vs == [i \in DOMAIN extra.configMaps |->
                      Q!Volume(Q!configMapVolumeName(extra.configMaps[i]),
                        Q!Source("ConfigMap", extra.configMaps[i]))]
  <2>1. AllFrom(vs, part.sources)
    <3>1. vs = [i \in DOMAIN extra.configMaps |-> vs[i]]
          /\ \A i \in DOMAIN extra.configMaps :
                \A ref \in vs[i].source : ref[1] = "ConfigMap" \/ ref \in part.sources
      BY DEF Q!Volume, Q!Source
    <3> HIDE DEF vs
    <3> QED BY <1>1, <3>1, SourcesMapped
  <2>2. p3 = Q!Mounted(p2, vs)
    BY DEF Q!mountConfigMap
  <2> HIDE DEF vs
  <2> QED BY <1>5, <1>6, <2>1, <2>2
<1> HIDE DEF p3
<1>8. PodFits(Q!mountSecrets(p3, extra.secrets), name, part)
  <2> DEFINE vs == [i \in DOMAIN extra.secrets |->
                      Q!Volume(Q!secretVolumeName(extra.secrets[i]),
                        Q!Source("Secret", extra.secrets[i]))]
  <2>1. AllFrom(vs, part.sources)
    <3>1. vs = [i \in DOMAIN extra.secrets |-> vs[i]]
          /\ \A i \in DOMAIN extra.secrets : vs[i].source = {<<"Secret", extra.secrets[i]>>}
      BY DEF Q!Volume, Q!Source
    <3> HIDE DEF vs
    <3> QED BY <1>1, <3>1, SourcesMapped
  <2>2. Q!mountSecrets(p3, extra.secrets) = Q!Mounted(p3, vs)
    BY DEF Q!mountSecrets
  <2> HIDE DEF vs
  <2> QED BY <1>6, <1>7, <2>1, <2>2
<1> QED BY <1>2, <1>8

\* What Augment makes of the pods of a query frontend (options.go:248-365, 503-546).
LEMMA FrontendAugmented ==
    ASSUME NEW pod, NEW name, NEW part, NEW o, PodFits(pod, name, part), Added(o.extra, part)
    PROVE  PodFits(F!Augmented(pod, o), name, part)
<1> DEFINE extra == o.extra
           p1 == F!augmentPodTemplate(pod, extra)
           p2 == IF o.gate.otel THEN F!augmentOtel(p1) ELSE p1
           p3 == F!mountConfigMap(p2, extra.configMaps)
<1>1. /\ AllFrom(extra.env, part.sources) /\ AllFrom(extra.volumes, part.sources)
      /\ IsList(extra.containers) /\ IsList(extra.configMaps) /\ IsList(extra.secrets)
      /\ \A i \in DOMAIN extra.containers : ContainerFits(extra.containers[i], part.sources)
      /\ \A i \in DOMAIN extra.secrets : <<"Secret", extra.secrets[i]>> \in part.sources
  BY AddedFits
<1>2. F!Augmented(pod, o) = F!mountSecrets(p3, extra.secrets)
  BY DEF F!Augmented, F!MountResource
<1> HIDE DEF extra
<1>3. \A x : PodFits(x, name, part) => ContainerFits(x.containers[1], part.sources)
  BY DEF PodFits
<1>4. PodFits(p1, name, part)
  BY <1>1, <1>3, ContainerGrown, PodGrown DEF F!augmentPodTemplate
<1> HIDE DEF p1
<1>5. PodFits(p2, name, part)
  BY <1>3, <1>4, NoSource, ContainerGrown, PodChanged DEF F!augmentOtel
<1> HIDE DEF p2
<1>6. ASSUME NEW x, PodFits(x, name, part), NEW vs, AllFrom(vs, part.sources)
      PROVE  PodFits(F!Mounted(x, vs), name, part)
  <2> DEFINE main == [x.containers[1] EXCEPT !.mounts = @ \o [i \in DOMAIN vs |-> F!Mount(vs[i].name)]]
  <2>1. ContainerFits(main, part.sources)
    BY <1>3, <1>6, ContainerGrown, NoSource
  <2>2. F!Mounted(x, vs) = [x EXCEPT !.volumes = @ \o vs, !.containers = [@ EXCEPT ![1] = main]]
    BY DEF F!Mounted
  <2> HIDE DEF main
  <2> QED BY <1>6, <2>1, <2>2, PodChanged
<1>7. PodFits(p3, name, part)
  <2> DEFINE vs == [i \in DOMAIN extra.configMaps |->
                      F!Volume(F!configMapVolumeName(extra.configMaps[i]),
                        F!Source("ConfigMap", extra.configMaps[i]))]
  <2>1. AllFrom(vs, part.sources)
    <3>1. vs = [i \in DOMAIN extra.configMaps |-> vs[i]]
          /\ \A i \in DOMAIN extra.configMaps :
                \A ref \in vs[i].source : ref[1] = "ConfigMap" \/ ref \in part.sources
      BY DEF F!Volume, F!Source
    <3> HIDE DEF vs
    <3> QED BY <1>1, <3>1, SourcesMapped
  <2>2. p3 = F!Mounted(p2, vs)
    BY DEF F!mountConfigMap
  <2> HIDE DEF vs
  <2> QED BY <1>5, <1>6, <2>1, <2>2
<1> HIDE DEF p3
<1>8. PodFits(F!mountSecrets(p3, extra.secrets), name, part)
  <2> DEFINE vs == [i \in DOMAIN extra.secrets |->
                      F!Volume(F!secretVolumeName(extra.secrets[i]),
                        F!Source("Secret", extra.secrets[i]))]
  <2>1. AllFrom(vs, part.sources)
    <3>1. vs = [i \in DOMAIN extra.secrets |-> vs[i]]
          /\ \A i \in DOMAIN extra.secrets : vs[i].source = {<<"Secret", extra.secrets[i]>>}
      BY DEF F!Volume, F!Source
    <3> HIDE DEF vs
    <3> QED BY <1>1, <3>1, SourcesMapped
  <2>2. F!mountSecrets(p3, extra.secrets) = F!Mounted(p3, vs)
    BY DEF F!mountSecrets
  <2> HIDE DEF vs
  <2> QED BY <1>6, <1>7, <2>1, <2>2
<1> QED BY <1>2, <1>8

\* What Augment makes of the pods of a ruler (options.go:248-365, 503-546).
LEMMA RulerAugmented ==
    ASSUME NEW pod, NEW name, NEW part, NEW o, PodFits(pod, name, part), Added(o.extra, part)
    PROVE  PodFits(R!Augmented(pod, o), name, part)
<1> DEFINE extra == o.extra
           p1 == R!augmentPodTemplate(pod, extra)
           p2 == IF o.gate.otel THEN R!augmentOtel(p1) ELSE p1
           p3 == R!mountConfigMap(p2, extra.configMaps)
<1>1. /\ AllFrom(extra.env, part.sources) /\ AllFrom(extra.volumes, part.sources)
      /\ IsList(extra.containers) /\ IsList(extra.configMaps) /\ IsList(extra.secrets)
      /\ \A i \in DOMAIN extra.containers : ContainerFits(extra.containers[i], part.sources)
      /\ \A i \in DOMAIN extra.secrets : <<"Secret", extra.secrets[i]>> \in part.sources
  BY AddedFits
<1>2. R!Augmented(pod, o) = R!mountSecrets(p3, extra.secrets)
  BY DEF R!Augmented, R!MountResource
<1> HIDE DEF extra
<1>3. \A x : PodFits(x, name, part) => ContainerFits(x.containers[1], part.sources)
  BY DEF PodFits
<1>4. PodFits(p1, name, part)
  BY <1>1, <1>3, ContainerGrown, PodGrown DEF R!augmentPodTemplate
<1> HIDE DEF p1
<1>5. PodFits(p2, name, part)
  BY <1>3, <1>4, NoSource, ContainerGrown, PodChanged DEF R!augmentOtel
<1> HIDE DEF p2
<1>6. ASSUME NEW x, PodFits(x, name, part), NEW vs, AllFrom(vs, part.sources)
      PROVE  PodFits(R!Mounted(x, vs), name, part)
  <2> DEFINE main == [x.containers[1] EXCEPT !.mounts = @ \o [i \in DOMAIN vs |-> R!Mount(vs[i].name)]]
  <2>1. ContainerFits(main, part.sources)
    BY <1>3, <1>6, ContainerGrown, NoSource
  <2>2. R!Mounted(x, vs) = [x EXCEPT !.volumes = @ \o vs, !.containers = [@ EXCEPT ![1] = main]]
    BY DEF R!Mounted
  <2> HIDE DEF main
  <2> QED BY <1>6, <2>1, <2>2, PodChanged
<1>7. PodFits(p3, name, part)
  <2> DEFINE vs == [i \in DOMAIN extra.configMaps |->
                      R!Volume(R!configMapVolumeName(extra.configMaps[i]),
                        R!Source("ConfigMap", extra.configMaps[i]))]
  <2>1. AllFrom(vs, part.sources)
    <3>1. vs = [i \in DOMAIN extra.configMaps |-> vs[i]]
          /\ \A i \in DOMAIN extra.configMaps :
                \A ref \in vs[i].source : ref[1] = "ConfigMap" \/ ref \in part.sources
      BY DEF R!Volume, R!Source
    <3> HIDE DEF vs
    <3> QED BY <1>1, <3>1, SourcesMapped
  <2>2. p3 = R!Mounted(p2, vs)
    BY DEF R!mountConfigMap
  <2> HIDE DEF vs
  <2> QED BY <1>5, <1>6, <2>1, <2>2
<1> HIDE DEF p3
<1>8. PodFits(R!mountSecrets(p3, extra.secrets), name, part)
  <2> DEFINE vs == [i \in DOMAIN extra.secrets |->
                      R!Volume(R!secretVolumeName(extra.secrets[i]),
                        R!Source("Secret", extra.secrets[i]))]
  <2>1. AllFrom(vs, part.sources)
    <3>1. vs = [i \in DOMAIN extra.secrets |-> vs[i]]
          /\ \A i \in DOMAIN extra.secrets : vs[i].source = {<<"Secret", extra.secrets[i]>>}
      BY DEF R!Volume, R!Source
    <3> HIDE DEF vs
    <3> QED BY <1>1, <3>1, SourcesMapped
  <2>2. R!mountSecrets(p3, extra.secrets) = R!Mounted(p3, vs)
    BY DEF R!mountSecrets
  <2> HIDE DEF vs
  <2> QED BY <1>6, <1>7, <2>1, <2>2
<1> QED BY <1>2, <1>8

\* What Augment makes of the pods of a store (options.go:248-365, 503-546).
LEMMA StoreAugmented ==
    ASSUME NEW pod, NEW name, NEW part, NEW o, PodFits(pod, name, part), Added(o.extra, part)
    PROVE  PodFits(S!Augmented(pod, o), name, part)
<1> DEFINE extra == o.extra
           p1 == S!augmentPodTemplate(pod, extra)
           p2 == IF o.gate.otel THEN S!augmentOtel(p1) ELSE p1
           p3 == S!mountConfigMap(p2, extra.configMaps)
<1>1. /\ AllFrom(extra.env, part.sources) /\ AllFrom(extra.volumes, part.sources)
      /\ IsList(extra.containers) /\ IsList(extra.configMaps) /\ IsList(extra.secrets)
      /\ \A i \in DOMAIN extra.containers : ContainerFits(extra.containers[i], part.sources)
      /\ \A i \in DOMAIN extra.secrets : <<"Secret", extra.secrets[i]>> \in part.sources
  BY AddedFits
<1>2. S!Augmented(pod, o) = S!mountSecrets(p3, extra.secrets)
  BY DEF S!Augmented, S!MountResource
<1> HIDE DEF extra
<1>3. \A x : PodFits(x, name, part) => ContainerFits(x.containers[1], part.sources)
  BY DEF PodFits
<1>4. PodFits(p1, name, part)
  BY <1>1, <1>3, ContainerGrown, PodGrown DEF S!augmentPodTemplate
<1> HIDE DEF p1
<1>5. PodFits(p2, name, part)
  BY <1>3, <1>4, NoSource, ContainerGrown, PodChanged DEF S!augmentOtel
<1> HIDE DEF p2
<1>6. ASSUME NEW x, PodFits(x, name, part), NEW vs, AllFrom(vs, part.sources)
      PROVE  PodFits(S!Mounted(x, vs), name, part)
  <2> DEFINE main == [x.containers[1] EXCEPT !.mounts = @ \o [i \in DOMAIN vs |-> S!Mount(vs[i].name)]]
  <2>1. ContainerFits(main, part.sources)
    BY <1>3, <1>6, ContainerGrown, NoSource
  <2>2. S!Mounted(x, vs) = [x EXCEPT !.volumes = @ \o vs, !.containers = [@ EXCEPT ![1] = main]]
    BY DEF S!Mounted
  <2> HIDE DEF main
  <2> QED BY <1>6, <2>1, <2>2, PodChanged
<1>7. PodFits(p3, name, part)
  <2> DEFINE vs == [i \in DOMAIN extra.configMaps |->
                      S!Volume(S!configMapVolumeName(extra.configMaps[i]),
                        S!Source("ConfigMap", extra.configMaps[i]))]
  <2>1. AllFrom(vs, part.sources)
    <3>1. vs = [i \in DOMAIN extra.configMaps |-> vs[i]]
          /\ \A i \in DOMAIN extra.configMaps :
                \A ref \in vs[i].source : ref[1] = "ConfigMap" \/ ref \in part.sources
      BY DEF S!Volume, S!Source
    <3> HIDE DEF vs
    <3> QED BY <1>1, <3>1, SourcesMapped
  <2>2. p3 = S!Mounted(p2, vs)
    BY DEF S!mountConfigMap
  <2> HIDE DEF vs
  <2> QED BY <1>5, <1>6, <2>1, <2>2
<1> HIDE DEF p3
<1>8. PodFits(S!mountSecrets(p3, extra.secrets), name, part)
  <2> DEFINE vs == [i \in DOMAIN extra.secrets |->
                      S!Volume(S!secretVolumeName(extra.secrets[i]),
                        S!Source("Secret", extra.secrets[i]))]
  <2>1. AllFrom(vs, part.sources)
    <3>1. vs = [i \in DOMAIN extra.secrets |-> vs[i]]
          /\ \A i \in DOMAIN extra.secrets : vs[i].source = {<<"Secret", extra.secrets[i]>>}
      BY DEF S!Volume, S!Source
    <3> HIDE DEF vs
    <3> QED BY <1>1, <3>1, SourcesMapped
  <2>2. S!mountSecrets(p3, extra.secrets) = S!Mounted(p3, vs)
    BY DEF S!mountSecrets
  <2> HIDE DEF vs
  <2> QED BY <1>6, <1>7, <2>1, <2>2
<1> QED BY <1>2, <1>8

\* What Augment makes of the pods of a compactor (options.go:248-365, 503-546).
LEMMA CompactAugmented ==
    ASSUME NEW pod, NEW name, NEW part, NEW o, PodFits(pod, name, part), Added(o.extra, part)
    PROVE  PodFits(C!Augmented(pod, o), name, part)
<1> DEFINE extra == o.extra
           p1 == C!augmentPodTemplate(pod, extra)
           p2 == IF o.gate.otel THEN C!augmentOtel(p1) ELSE p1
           p3 == C!mountConfigMap(p2, extra.configMaps)
<1>1. /\ AllFrom(extra.env, part.sources) /\ AllFrom(extra.volumes, part.sources)
      /\ IsList(extra.containers) /\ IsList(extra.configMaps) /\ IsList(extra.secrets)
      /\ \A i \in DOMAIN extra.containers : ContainerFits(extra.containers[i], part.sources)
      /\ \A i \in DOMAIN extra.secrets : <<"Secret", extra.secrets[i]>> \in part.sources
  BY AddedFits
<1>2. C!Augmented(pod, o) = C!mountSecrets(p3, extra.secrets)
  BY DEF C!Augmented, C!MountResource
<1> HIDE DEF extra
<1>3. \A x : PodFits(x, name, part) => ContainerFits(x.containers[1], part.sources)
  BY DEF PodFits
<1>4. PodFits(p1, name, part)
  BY <1>1, <1>3, ContainerGrown, PodGrown DEF C!augmentPodTemplate
<1> HIDE DEF p1
<1>5. PodFits(p2, name, part)
  BY <1>3, <1>4, NoSource, ContainerGrown, PodChanged DEF C!augmentOtel
<1> HIDE DEF p2
<1>6. ASSUME NEW x, PodFits(x, name, part), NEW vs, AllFrom(vs, part.sources)
      PROVE  PodFits(C!Mounted(x, vs), name, part)
  <2> DEFINE main == [x.containers[1] EXCEPT !.mounts = @ \o [i \in DOMAIN vs |-> C!Mount(vs[i].name)]]
  <2>1. ContainerFits(main, part.sources)
    BY <1>3, <1>6, ContainerGrown, NoSource
  <2>2. C!Mounted(x, vs) = [x EXCEPT !.volumes = @ \o vs, !.containers = [@ EXCEPT ![1] = main]]
    BY DEF C!Mounted
  <2> HIDE DEF main
  <2> QED BY <1>6, <2>1, <2>2, PodChanged
<1>7. PodFits(p3, name, part)
  <2> DEFINE vs == [i \in DOMAIN extra.configMaps |->
                      C!Volume(C!configMapVolumeName(extra.configMaps[i]),
                        C!Source("ConfigMap", extra.configMaps[i]))]
  <2>1. AllFrom(vs, part.sources)
    <3>1. vs = [i \in DOMAIN extra.configMaps |-> vs[i]]
          /\ \A i \in DOMAIN extra.configMaps :
                \A ref \in vs[i].source : ref[1] = "ConfigMap" \/ ref \in part.sources
      BY DEF C!Volume, C!Source
    <3> HIDE DEF vs
    <3> QED BY <1>1, <3>1, SourcesMapped
  <2>2. p3 = C!Mounted(p2, vs)
    BY DEF C!mountConfigMap
  <2> HIDE DEF vs
  <2> QED BY <1>5, <1>6, <2>1, <2>2
<1> HIDE DEF p3
<1>8. PodFits(C!mountSecrets(p3, extra.secrets), name, part)
  <2> DEFINE vs == [i \in DOMAIN extra.secrets |->
                      C!Volume(C!secretVolumeName(extra.secrets[i]),
                        C!Source("Secret", extra.secrets[i]))]
  <2>1. AllFrom(vs, part.sources)
    <3>1. vs = [i \in DOMAIN extra.secrets |-> vs[i]]
          /\ \A i \in DOMAIN extra.secrets : vs[i].source = {<<"Secret", extra.secrets[i]>>}
      BY DEF C!Volume, C!Source
    <3> HIDE DEF vs
    <3> QED BY <1>1, <3>1, SourcesMapped
  <2>2. C!mountSecrets(p3, extra.secrets) = C!Mounted(p3, vs)
    BY DEF C!mountSecrets
  <2> HIDE DEF vs
  <2> QED BY <1>6, <1>7, <2>1, <2>2
<1> QED BY <1>2, <1>8

\* What Augment makes of the pods of a hashring or a router (options.go:248-365, 503-546).
LEMMA ReceiveAugmented ==
    ASSUME NEW pod, NEW name, NEW part, NEW o, PodFits(pod, name, part), Added(o.extra, part)
    PROVE  PodFits(I!Augmented(pod, o), name, part)
<1> DEFINE extra == o.extra
           p1 == I!augmentPodTemplate(pod, extra)
           p2 == IF o.gate.otel THEN I!augmentOtel(p1) ELSE p1
           p3 == I!mountConfigMap(p2, extra.configMaps)
<1>1. /\ AllFrom(extra.env, part.sources) /\ AllFrom(extra.volumes, part.sources)
      /\ IsList(extra.containers) /\ IsList(extra.configMaps) /\ IsList(extra.secrets)
      /\ \A i \in DOMAIN extra.containers : ContainerFits(extra.containers[i], part.sources)
      /\ \A i \in DOMAIN extra.secrets : <<"Secret", extra.secrets[i]>> \in part.sources
  BY AddedFits
<1>2. I!Augmented(pod, o) = I!mountSecrets(p3, extra.secrets)
  BY DEF I!Augmented, I!MountResource
<1> HIDE DEF extra
<1>3. \A x : PodFits(x, name, part) => ContainerFits(x.containers[1], part.sources)
  BY DEF PodFits
<1>4. PodFits(p1, name, part)
  BY <1>1, <1>3, ContainerGrown, PodGrown DEF I!augmentPodTemplate
<1> HIDE DEF p1
<1>5. PodFits(p2, name, part)
  BY <1>3, <1>4, NoSource, ContainerGrown, PodChanged DEF I!augmentOtel
<1> HIDE DEF p2
<1>6. ASSUME NEW x, PodFits(x, name, part), NEW vs, AllFrom(vs, part.sources)
      PROVE  PodFits(I!Mounted(x, vs), name, part)
  <2> DEFINE main == [x.containers[1] EXCEPT !.mounts = @ \o [i \in DOMAIN vs |-> I!Mount(vs[i].name)]]
  <2>1. ContainerFits(main, part.sources)
    BY <1>3, <1>6, ContainerGrown, NoSource
  <2>2. I!Mounted(x, vs) = [x EXCEPT !.volumes = @ \o vs, !.containers = [@ EXCEPT ![1] = main]]
    BY DEF I!Mounted
  <2> HIDE DEF main
  <2> QED BY <1>6, <2>1, <2>2, PodChanged
<1>7. PodFits(p3, name, part)
  <2> DEFINE vs == [i \in DOMAIN extra.configMaps |->
                      I!Volume(I!configMapVolumeName(extra.configMaps[i]),
                        I!Source("ConfigMap", extra.configMaps[i]))]
  <2>1. AllFrom(vs, part.sources)
    <3>1. vs = [i \in DOMAIN extra.configMaps |-> vs[i]]
          /\ \A i \in DOMAIN extra.configMaps :
                \A ref \in vs[i].source : ref[1] = "ConfigMap" \/ ref \in part.sources
      BY DEF I!Volume, I!Source
    <3> HIDE DEF vs
    <3> QED BY <1>1, <3>1, SourcesMapped
  <2>2. p3 = I!Mounted(p2, vs)
    BY DEF I!mountConfigMap
  <2> HIDE DEF vs
  <2> QED BY <1>5, <1>6, <2>1, <2>2
<1> HIDE DEF p3
<1>8. PodFits(I!mountSecrets(p3, extra.secrets), name, part)
  <2> DEFINE vs == [i \in DOMAIN extra.secrets |->
                      I!Volume(I!secretVolumeName(extra.secrets[i]),
                        I!Source("Secret", extra.secrets[i]))]
  <2>1. AllFrom(vs, part.sources)
    <3>1. vs = [i \in DOMAIN extra.secrets |-> vs[i]]
          /\ \A i \in DOMAIN extra.secrets : vs[i].source = {<<"Secret", extra.secrets[i]>>}
      BY DEF I!Volume, I!Source
    <3> HIDE DEF vs
    <3> QED BY <1>1, <3>1, SourcesMapped
  <2>2. I!mountSecrets(p3, extra.secrets) = I!Mounted(p3, vs)
    BY DEF I!mountSecrets
  <2> HIDE DEF vs
  <2> QED BY <1>6, <1>7, <2>1, <2>2
<1> QED BY <1>2, <1>8

-----------------------------------------------------------------------------
(* Labels.  The first six lemmas say that a component's package and the     *)
(* reconcilers make the same label of a name (options.go:141-149).          *)

\* The label value a querier makes of its owner's name.
LEMMA QueryValue ==
    ASSUME NEW s
    PROVE  Q!ValidateAndSanitizeNameToValidLabelValue(s) = ValidateAndSanitizeNameToValidLabelValue(s)
BY DEF Q!ValidateAndSanitizeNameToValidLabelValue, ValidateAndSanitizeNameToValidLabelValue,
       Q!IsValidLabelValue, IsValidLabelValue, Q!ensureAlphaNumericTrailingChars,
       ensureAlphaNumericTrailingChars, Q!Separators, Separators, Q!sanitizeToLength,
       sanitizeToLength, Q!Shortened, Shortened, Q!Dashed, Dashed, Q!hashString, hashString,
       Q!Min, Min, Q!Max, Max

\* The label value a query frontend makes of its owner's name.
LEMMA FrontendValue ==
    ASSUME NEW s
    PROVE  F!ValidateAndSanitizeNameToValidLabelValue(s) = ValidateAndSanitizeNameToValidLabelValue(s)
BY DEF F!ValidateAndSanitizeNameToValidLabelValue, ValidateAndSanitizeNameToValidLabelValue,
       F!IsValidLabelValue, IsValidLabelValue, F!ensureAlphaNumericTrailingChars,
       ensureAlphaNumericTrailingChars, F!Separators, Separators, F!sanitizeToLength,
       sanitizeToLength, F!Shortened, Shortened, F!Dashed, Dashed, F!hashString, hashString,
       F!Min, Min, F!Max, Max

\* The label value a ruler makes of its owner's name.
LEMMA RulerValue ==
    ASSUME NEW s
    PROVE  R!ValidateAndSanitizeNameToValidLabelValue(s) = ValidateAndSanitizeNameToValidLabelValue(s)
BY DEF R!ValidateAndSanitizeNameToValidLabelValue, ValidateAndSanitizeNameToValidLabelValue,
       R!IsValidLabelValue, IsValidLabelValue, R!ensureAlphaNumericTrailingChars,
       ensureAlphaNumericTrailingChars, R!Separators, Separators, R!sanitizeToLength,
       sanitizeToLength, R!Shortened, Shortened, R!Dashed, Dashed, R!hashString, hashString,
       R!Min, Min, R!Max, Max

\* The label value a receiver makes of its owner's name.
LEMMA ReceiveValue ==
    ASSUME NEW s
    PROVE  I!ValidateAndSanitizeNameToValidLabelValue(s) = ValidateAndSanitizeNameToValidLabelValue(s)
BY DEF I!ValidateAndSanitizeNameToValidLabelValue, ValidateAndSanitizeNameToValidLabelValue,
       I!IsValidLabelValue, IsValidLabelValue, I!ensureAlphaNumericTrailingChars,
       ensureAlphaNumericTrailingChars, I!Separators, Separators, I!sanitizeToLength,
       sanitizeToLength, I!Shortened, Shortened, I!Dashed, Dashed, I!hashString, hashString,
       I!Min, Min, I!Max, Max

\* The label value a store makes of its owner's name.
LEMMA StoreValue ==
    ASSUME NEW s
    PROVE  S!ValidateAndSanitizeNameToValidLabelValue(s) = ValidateAndSanitizeNameToValidLabelValue(s)
BY DEF S!ValidateAndSanitizeNameToValidLabelValue, ValidateAndSanitizeNameToValidLabelValue,
       S!IsValidLabelValue, IsValidLabelValue, S!ensureAlphaNumericTrailingChars,
       ensureAlphaNumericTrailingChars, S!Separators, Separators, S!sanitizeToLength,
       sanitizeToLength, S!Shortened, Shortened, S!Dashed, Dashed, S!hashString, hashString,
       S!Min, Min, S!Max, Max

\* The label value a compactor makes of its owner's name.
LEMMA CompactValue ==
    ASSUME NEW s
    PROVE  C!ValidateAndSanitizeNameToValidLabelValue(s) = ValidateAndSanitizeNameToValidLabelValue(s)
BY DEF C!ValidateAndSanitizeNameToValidLabelValue, ValidateAndSanitizeNameToValidLabelValue,
       C!IsValidLabelValue, IsValidLabelValue, C!ensureAlphaNumericTrailingChars,
       ensureAlphaNumericTrailingChars, C!Separators, Separators, C!sanitizeToLength,
       sanitizeToLength, C!Shortened, Shortened, C!Dashed, Dashed, C!hashString, hashString,
       C!Min, Min, C!Max, Max

\* Labels that carry those of an instance tell its part and its name: those its owner
\* lists its part by are the same but for the instance (options.go:62-78).
LEMMA InstanceTold ==
    ASSUME NEW req, NEW own, NEW name, NEW owner, NEW part,
           HasRequiredLabels(InstanceLabels(req, own, owner), part.labels),
           "instance" \notin DOMAIN part.labels,
           NEW labels, HasRequiredLabels(labels, InstanceLabels(req, name, owner))
    PROVE  Told(labels, name, part)
<1> DEFINE sel == InstanceLabels(req, name, owner)  osel == InstanceLabels(req, own, owner)
<1>1. /\ DOMAIN sel = DOMAIN req \cup {"instance"} \cup {"owner"} /\ DOMAIN osel = DOMAIN sel
      /\ \A k \in DOMAIN sel : k # "instance" => osel[k] = sel[k]
      /\ sel["instance"] = ValidateAndSanitizeNameToValidLabelValue(name)
  BY DEF InstanceLabels, MergeMaps, Label
<1> HIDE DEF sel, osel
<1>2. HasRequiredLabels(labels, part.labels)
  BY <1>1 DEF HasRequiredLabels, sel, osel
<1>3. "instance" \in DOMAIN labels
        /\ labels["instance"] = ValidateAndSanitizeNameToValidLabelValue(name)
  BY <1>1 DEF HasRequiredLabels, sel
<1> QED BY <1>2, <1>3 DEF Told

\* The labels an owner lists a part by are those of any instance of it, but for the
\* instance.
LEMMA ForOwner ==
    ASSUME NEW labels, NEW sel, HasRequiredLabels(sel, labels)
    PROVE  /\ HasRequiredLabels(sel, GetLabelSelectorForOwner(labels))
           /\ "instance" \notin DOMAIN GetLabelSelectorForOwner(labels)
BY DEF HasRequiredLabels, GetLabelSelectorForOwner

\* Labels carry themselves, and those merged into others.
LEMMA Carried ==
    ASSUME NEW labels, NEW more
    PROVE  HasRequiredLabels(labels, labels) /\ HasRequiredLabels(MergeMaps(more, labels), labels)
BY DEF HasRequiredLabels, MergeMaps

\* The labels of an instance of a querier (labels.go:31-75).
LEMMA QueryInstance ==
    ASSUME NEW req, NEW name, NEW owner
    PROVE  Q!InstanceLabels(req, name, owner) = InstanceLabels(req, name, owner)
BY QueryValue DEF Q!InstanceLabels, InstanceLabels, Q!MergeMaps, MergeMaps, Q!Label, Label

\* The labels of an instance of a query frontend (labels.go:31-75).
LEMMA FrontendInstance ==
    ASSUME NEW req, NEW name, NEW owner
    PROVE  F!InstanceLabels(req, name, owner) = InstanceLabels(req, name, owner)
BY FrontendValue DEF F!InstanceLabels, InstanceLabels, F!MergeMaps, MergeMaps, F!Label, Label

\* The labels of an instance of a ruler (labels.go:31-75).
LEMMA RulerInstance ==
    ASSUME NEW req, NEW name, NEW owner
    PROVE  R!InstanceLabels(req, name, owner) = InstanceLabels(req, name, owner)
BY RulerValue DEF R!InstanceLabels, InstanceLabels, R!MergeMaps, MergeMaps, R!Label, Label

\* The labels of an instance of a store (labels.go:31-75).
LEMMA StoreInstance ==
    ASSUME NEW req, NEW name, NEW owner
    PROVE  S!InstanceLabels(req, name, owner) = InstanceLabels(req, name, owner)
BY StoreValue DEF S!InstanceLabels, InstanceLabels, S!MergeMaps, MergeMaps, S!Label, Label

\* The labels of an instance of a compactor (labels.go:31-75).
LEMMA CompactInstance ==
    ASSUME NEW req, NEW name, NEW owner
    PROVE  C!InstanceLabels(req, name, owner) = InstanceLabels(req, name, owner)
BY CompactValue DEF C!InstanceLabels, InstanceLabels, C!MergeMaps, MergeMaps, C!Label, Label

\* The labels of an instance of a receiver (labels.go:31-75).
LEMMA ReceiveInstance ==
    ASSUME NEW req, NEW name, NEW owner
    PROVE  I!InstanceLabels(req, name, owner) = InstanceLabels(req, name, owner)
BY ReceiveValue DEF I!InstanceLabels, InstanceLabels, I!MergeMaps, MergeMaps, I!Label, Label

\* Of the labels of a ruler all stay but the endpoint types that a user gave it
\* (labels.go:101-126).
LEMMA RulerSanitized ==
    ASSUME NEW labels, NEW sel, HasRequiredLabels(labels, sel),
           \A k \in DOMAIN sel :
             k \notin {"endpoint-group-strict", "endpoint-group", "endpoint-strict", "endpoint"}
    PROVE  HasRequiredLabels(R!SanitizeStoreAPIEndpointLabels(labels), sel)
<1>1. \A k \in DOMAIN sel : k \notin R!ToSet(R!EndpointTypes)
  BY DEF R!ToSet, R!EndpointTypes, R!GroupStrictLabel, R!GroupLabel, R!StrictLabel, R!RegularLabel
<1> QED BY <1>1 DEF HasRequiredLabels, R!SanitizeStoreAPIEndpointLabels

\* Of the labels of a store all stay but the endpoint types that a user gave it
\* (labels.go:101-126).
LEMMA StoreSanitized ==
    ASSUME NEW labels, NEW sel, HasRequiredLabels(labels, sel),
           \A k \in DOMAIN sel :
             k \notin {"endpoint-group-strict", "endpoint-group", "endpoint-strict", "endpoint"}
    PROVE  HasRequiredLabels(S!SanitizeStoreAPIEndpointLabels(labels), sel)
<1>1. \A k \in DOMAIN sel : k \notin S!ToSet(S!EndpointTypes)
  BY DEF S!ToSet, S!EndpointTypes, S!GroupStrictLabel, S!GroupLabel, S!StrictLabel, S!RegularLabel
<1> QED BY <1>1 DEF HasRequiredLabels, S!SanitizeStoreAPIEndpointLabels

\* Of the labels of a hashring all stay but the endpoint types that a user gave it
\* (labels.go:101-126).
LEMMA ReceiveSanitized ==
    ASSUME NEW labels, NEW sel, HasRequiredLabels(labels, sel),
           \A k \in DOMAIN sel :
             k \notin {"endpoint-group-strict", "endpoint-group", "endpoint-strict", "endpoint"}
    PROVE  HasRequiredLabels(I!SanitizeStoreAPIEndpointLabels(labels), sel)
<1>1. \A k \in DOMAIN sel : k \notin I!ToSet(I!EndpointTypes)
  BY DEF I!ToSet, I!EndpointTypes, I!GroupStrictLabel, I!GroupLabel, I!StrictLabel, I!RegularLabel
<1> QED BY <1>1 DEF HasRequiredLabels, I!SanitizeStoreAPIEndpointLabels

\* The labels of a querier (query/builder.go:332-343).
LEMMA QueryTold ==
    ASSUME NEW o, NEW own, own.owner = o.owner, NEW part,
           part.labels = GetLabelSelectorForOwner(Q!GetSelectorLabels(own))
    PROVE  LET name == Q!GetGeneratedResourceName(o)
           IN  Told(Q!GetSelectorLabels(o), name, part) /\ Told(Q!GetLabels(o), name, part)
<1> DEFINE req == Q!GetRequiredLabels  name == Q!GetGeneratedResourceName(o)
           sel == InstanceLabels(req, name, o.owner)
           osel == InstanceLabels(req, Q!GetGeneratedResourceName(own), o.owner)
<1>1. Q!GetSelectorLabels(o) = sel /\ Q!GetSelectorLabels(own) = osel
  BY QueryInstance DEF Q!GetSelectorLabels
<1>2. HasRequiredLabels(Q!GetLabels(o), sel)
  BY <1>1 DEF Q!GetLabels, Q!MergeMaps, HasRequiredLabels
<1>3. HasRequiredLabels(osel, part.labels) /\ "instance" \notin DOMAIN part.labels
  BY <1>1, ForOwner, Carried
<1>4. HasRequiredLabels(sel, sel)
  BY Carried
<1> HIDE DEF req, name
<1> QED BY <1>1, <1>2, <1>3, <1>4, InstanceTold DEF name

\* The labels of a query frontend (queryfrontend/builder.go:258-269).
LEMMA FrontendTold ==
    ASSUME NEW o, NEW own, own.owner = o.owner, NEW part,
           part.labels = GetLabelSelectorForOwner(F!GetSelectorLabels(own))
    PROVE  LET name == F!GetGeneratedResourceName(o)
           IN  Told(F!GetSelectorLabels(o), name, part) /\ Told(F!GetLabels(o), name, part)
<1> DEFINE req == F!GetRequiredLabels  name == F!GetGeneratedResourceName(o)
           sel == InstanceLabels(req, name, o.owner)
           osel == InstanceLabels(req, F!GetGeneratedResourceName(own), o.owner)
<1>1. F!GetSelectorLabels(o) = sel /\ F!GetSelectorLabels(own) = osel
  BY FrontendInstance DEF F!GetSelectorLabels
<1>2. HasRequiredLabels(F!GetLabels(o), sel)
  BY <1>1 DEF F!GetLabels, F!MergeMaps, HasRequiredLabels
<1>3. HasRequiredLabels(osel, part.labels) /\ "instance" \notin DOMAIN part.labels
  BY <1>1, ForOwner, Carried
<1>4. HasRequiredLabels(sel, sel)
  BY Carried
<1> HIDE DEF req, name
<1> QED BY <1>1, <1>2, <1>3, <1>4, InstanceTold DEF name

\* The labels of a ruler; a stateful one is a StoreAPI besides (ruler/builder.go:581-594).
LEMMA RulerTold ==
    ASSUME NEW o, NEW own, own.owner = o.owner, NEW part,
           part.labels = GetLabelSelectorForOwner(R!GetSelectorLabels(own))
    PROVE  LET name == R!GetGeneratedResourceName(o)
           IN  Told(R!GetSelectorLabels(o), name, part) /\ Told(R!GetLabels(o), name, part)
<1> DEFINE req == R!GetRequiredLabels  name == R!GetGeneratedResourceName(o)
           sel == InstanceLabels(req, name, o.owner)
           osel == InstanceLabels(req, R!GetGeneratedResourceName(own), o.owner)
           labels == R!MergeMaps(o.labels, sel)
           api == R!MergeMaps(R!Label("part-of", R!Value("thanos")), R!StoreAPI)
<1>1. R!GetSelectorLabels(o) = sel /\ R!GetSelectorLabels(own) = osel
  BY RulerInstance DEF R!GetSelectorLabels
<1>2. DOMAIN req = {"name", "component", "part-of", "managed-by"} /\ req["part-of"] = R!Value("thanos")
  BY DEF R!GetRequiredLabels, R!ComponentLabels
<1> HIDE DEF req, name
<1>3. /\ DOMAIN sel = {"name", "component", "part-of", "managed-by", "instance", "owner"}
      /\ sel["part-of"] = R!Value("thanos")
  BY <1>2 DEF InstanceLabels, MergeMaps, Label
<1> HIDE DEF sel
<1>4. HasRequiredLabels(labels, sel)
  BY DEF R!MergeMaps, HasRequiredLabels
<1>5. HasRequiredLabels(R!MergeMaps(labels, api), sel)
  <2>1. DOMAIN api = {"part-of", "store-api"} /\ api["part-of"] = R!Value("thanos")
    BY DEF R!MergeMaps, R!Label, R!StoreAPI
  <2> HIDE DEF api, labels
  <2> QED BY <1>3, <1>4, <2>1 DEF R!MergeMaps, HasRequiredLabels
<1>6. HasRequiredLabels(R!SanitizeStoreAPIEndpointLabels(R!MergeMaps(labels, api)), sel)
  BY <1>3, <1>5, RulerSanitized
<1>7. HasRequiredLabels(R!GetLabels(o), sel)
  BY <1>1, <1>4, <1>6 DEF R!GetLabels
<1>8. HasRequiredLabels(osel, part.labels) /\ "instance" \notin DOMAIN part.labels
  BY <1>1, ForOwner, Carried
<1>9. HasRequiredLabels(sel, sel)
  BY Carried
<1> QED BY <1>1, <1>7, <1>8, <1>9, InstanceTold DEF name, sel

\* The labels of a shard of a store (store/builder.go:427-444).
LEMMA StoreTold ==
    ASSUME NEW o, NEW own, own.owner = o.owner, own.shard = {}, NEW part,
           part.labels = GetLabelSelectorForOwner(S!GetSelectorLabels(own))
    PROVE  LET name == S!GetGeneratedResourceName(o)
           IN  Told(S!GetSelectorLabels(o), name, part) /\ Told(S!GetLabels(o), name, part)
<1> DEFINE req == S!GetRequiredLabels  name == S!GetGeneratedResourceName(o)
           sel == InstanceLabels(req, name, o.owner)
           osel == InstanceLabels(req, S!GetGeneratedResourceName(own), o.owner)
           selector == S!GetSelectorLabels(o)
<1>1. DOMAIN req = {"name", "component", "part-of", "managed-by", "store-api"}
  BY DEF S!GetRequiredLabels, S!ComponentLabels, S!GetRequiredStoreServiceLabel, S!StoreAPI,
         S!MergeMaps, S!Label
<1>2. S!InstanceLabels(req, name, o.owner) = sel /\ HasRequiredLabels(osel, S!GetSelectorLabels(own))
  BY StoreInstance, Carried DEF S!GetSelectorLabels
<1> HIDE DEF req, name
<1>3. DOMAIN sel = {"name", "component", "part-of", "managed-by", "store-api", "instance", "owner"}
  BY <1>1 DEF InstanceLabels, MergeMaps, Label
<1>4. HasRequiredLabels(selector, sel)
  <2>1. selector = sel \/ \E v : selector = S!MergeMaps(sel, S!Label("shard", v))
    <3> HIDE DEF sel
    <3> QED BY <1>2 DEF S!GetSelectorLabels, req, name
  <2>2. \A v : HasRequiredLabels(S!MergeMaps(sel, S!Label("shard", v)), sel)
    <3> HIDE DEF sel
    <3> QED BY <1>3 DEF S!MergeMaps, S!Label, HasRequiredLabels
  <2> HIDE DEF sel, selector
  <2> QED BY <2>1, <2>2, Carried
<1> HIDE DEF sel, selector
<1> DEFINE labels == S!MergeMaps(o.labels, selector)
<1>5. HasRequiredLabels(labels, sel)
  BY <1>4 DEF S!MergeMaps, HasRequiredLabels
<1>6. \A v : HasRequiredLabels(S!MergeMaps(labels, S!Label(S!GroupLabel, v)), sel)
  <2> HIDE DEF labels
  <2> QED BY <1>3, <1>5 DEF S!MergeMaps, S!Label, S!GroupLabel, HasRequiredLabels
<1>7. HasRequiredLabels(S!GetLabels(o), sel)
  <2>1. \A x : HasRequiredLabels(x, sel) => HasRequiredLabels(S!SanitizeStoreAPIEndpointLabels(x), sel)
    BY <1>3, StoreSanitized
  <2> QED BY <1>5, <1>6, <2>1 DEF S!GetLabels, selector
<1>8. HasRequiredLabels(osel, part.labels) /\ "instance" \notin DOMAIN part.labels
  BY <1>2, ForOwner
<1> QED BY <1>4, <1>7, <1>8, InstanceTold DEF name, sel, selector

\* The labels of a shard of a compactor (compact/builder.go:327-341).
LEMMA CompactTold ==
    ASSUME NEW o, NEW own, own.owner = o.owner, own.shard = {}, NEW part,
           part.labels = GetLabelSelectorForOwner(C!GetSelectorLabels(own))
    PROVE  LET name == C!GetGeneratedResourceName(o)
           IN  Told(C!GetSelectorLabels(o), name, part) /\ Told(C!GetLabels(o), name, part)
<1> DEFINE req == C!GetRequiredLabels  name == C!GetGeneratedResourceName(o)
           sel == InstanceLabels(req, name, o.owner)
           osel == InstanceLabels(req, C!GetGeneratedResourceName(own), o.owner)
           selector == C!GetSelectorLabels(o)
<1>1. DOMAIN req = {"name", "component", "part-of", "managed-by"}
  BY DEF C!GetRequiredLabels, C!ComponentLabels
<1>2. C!InstanceLabels(req, name, o.owner) = sel /\ HasRequiredLabels(osel, C!GetSelectorLabels(own))
  BY CompactInstance, Carried DEF C!GetSelectorLabels
<1> HIDE DEF req, name
<1>3. DOMAIN sel = {"name", "component", "part-of", "managed-by", "instance", "owner"}
  BY <1>1 DEF InstanceLabels, MergeMaps, Label
<1>4. HasRequiredLabels(selector, sel)
  <2>1. selector = sel \/ \E v : selector = C!MergeMaps(sel, C!Label("shard", v))
    <3> HIDE DEF sel
    <3> QED BY <1>2 DEF C!GetSelectorLabels, req, name
  <2>2. \A v : HasRequiredLabels(C!MergeMaps(sel, C!Label("shard", v)), sel)
    <3> HIDE DEF sel
    <3> QED BY <1>3 DEF C!MergeMaps, C!Label, HasRequiredLabels
  <2> HIDE DEF sel, selector
  <2> QED BY <2>1, <2>2, Carried
<1> HIDE DEF sel, selector
<1>7. HasRequiredLabels(C!GetLabels(o), sel)
  BY <1>4 DEF C!GetLabels, C!MergeMaps, HasRequiredLabels, selector
<1>8. HasRequiredLabels(osel, part.labels) /\ "instance" \notin DOMAIN part.labels
  BY <1>2, ForOwner
<1> QED BY <1>4, <1>7, <1>8, InstanceTold DEF name, sel, selector

\* The labels of a hashring (receive/builder.go:627-645).
LEMMA IngesterTold ==
    ASSUME NEW o, NEW own, own.owner = o.owner, own.hashring = <<>>, NEW part,
           part.labels = GetLabelSelectorForOwner(I!IngesterSelector(own))
    PROVE  LET name == I!IngesterName(o)
           IN  Told(I!IngesterSelector(o), name, part) /\ Told(I!GetIngesterLabels(o), name, part)
<1> DEFINE req == I!GetRequiredIngesterLabels  name == I!IngesterName(o)
           sel == InstanceLabels(req, name, o.owner)
           osel == InstanceLabels(req, I!IngesterName(own), o.owner)
           selector == I!IngesterSelector(o)
<1>1. DOMAIN req = {"name", "component", "part-of", "managed-by", "store-api"}
  BY DEF I!GetRequiredIngesterLabels, I!GetRequiredLabels, I!ComponentLabels, I!StoreAPI,
         I!MergeMaps, I!Label
<1>2. I!InstanceLabels(req, name, o.owner) = sel /\ HasRequiredLabels(osel, I!IngesterSelector(own))
  BY ReceiveInstance, Carried DEF I!IngesterSelector, I!MergeMaps, I!NoLabels, HasRequiredLabels
<1> HIDE DEF req, name
<1>3. DOMAIN sel = {"name", "component", "part-of", "managed-by", "store-api", "instance", "owner"}
  BY <1>1 DEF InstanceLabels, MergeMaps, Label
<1>4. HasRequiredLabels(selector, sel)
  <2>1. \E more : selector = I!MergeMaps(sel, more) /\ DOMAIN more \subseteq {"hashring"}
    <3> HIDE DEF sel
    <3> QED BY <1>2 DEF I!IngesterSelector, req, name, I!Label, I!NoLabels
  <2> HIDE DEF sel, selector
  <2> QED BY <1>3, <2>1 DEF I!MergeMaps, HasRequiredLabels
<1> HIDE DEF sel, selector
<1>7. HasRequiredLabels(I!GetIngesterLabels(o), sel)
  <2>1. HasRequiredLabels(I!MergeMaps(o.labels, selector), sel)
    BY <1>4 DEF I!MergeMaps, HasRequiredLabels
  <2> QED BY <1>3, <2>1, ReceiveSanitized DEF I!GetIngesterLabels, selector
<1>8. HasRequiredLabels(osel, part.labels) /\ "instance" \notin DOMAIN part.labels
  BY <1>2, ForOwner
<1> QED BY <1>4, <1>7, <1>8, InstanceTold DEF name, sel, selector

\* The labels of a router (receive/builder.go:646-661).
LEMMA RouterTold ==
    ASSUME NEW o, NEW own, own.owner = o.owner, NEW part,
           part.labels = GetLabelSelectorForOwner(I!RouterSelector(own))
    PROVE  LET name == I!RouterName(o)
           IN  Told(I!RouterSelector(o), name, part) /\ Told(I!GetRouterLabels(o), name, part)
<1> DEFINE req == I!GetRequiredRouterLabels  name == I!RouterName(o)
           sel == InstanceLabels(req, name, o.owner)
           osel == InstanceLabels(req, I!RouterName(own), o.owner)
           selector == I!RouterSelector(o)
<1>1. DOMAIN req = {"name", "component", "part-of", "managed-by"}
  BY DEF I!GetRequiredRouterLabels, I!GetRequiredLabels, I!ComponentLabels
<1>2. I!InstanceLabels(req, name, o.owner) = sel /\ HasRequiredLabels(osel, I!RouterSelector(own))
  BY ReceiveInstance, Carried DEF I!RouterSelector
<1> HIDE DEF req, name
<1>3. DOMAIN sel = {"name", "component", "part-of", "managed-by", "instance", "owner"}
  BY <1>1 DEF InstanceLabels, MergeMaps, Label
<1>4. HasRequiredLabels(selector, sel)
  BY <1>2, Carried DEF I!RouterSelector, req, name
<1> HIDE DEF sel, selector
<1>7. HasRequiredLabels(I!GetRouterLabels(o), sel)
  <2>1. DOMAIN I!RemoteWriteAPI = {"remote-write-api"}
    BY DEF I!RemoteWriteAPI, I!Label
  <2>2. HasRequiredLabels(I!MergeMaps(selector, I!RemoteWriteAPI), sel)
    BY <1>3, <1>4, <2>1 DEF I!MergeMaps, HasRequiredLabels
  <2> QED BY <2>2 DEF I!GetRouterLabels, I!MergeMaps, HasRequiredLabels, selector
<1>8. HasRequiredLabels(osel, part.labels) /\ "instance" \notin DOMAIN part.labels
  BY <1>2, ForOwner
<1> QED BY <1>4, <1>7, <1>8, InstanceTold DEF name, sel, selector

-----------------------------------------------------------------------------
(* The builders.                                                            *)

\* An instance of a part: its name, selector and labels.
InstanceOf(name, selector, labels, part) ==
    name \in part.names /\ Told(selector, name, part) /\ Told(labels, name, part)

\* An object without a selector, be it an account, a monitor or a Secret.
LEMMA PlainAsked ==
    ASSUME NEW parts, NEW part \in parts, NEW name \in part.names,
           NEW labels, HasRequiredLabels(labels, part.labels),
           NEW kind \in {"ServiceAccount", "ServiceMonitor", "Secret", "ConfigMap",
                         "Role", "RoleBinding"},
           NEW body, NEW owner
    PROVE  Asked([kind |-> kind, name |-> name, labels |-> labels, body |-> body, owner |-> owner],
             parts)
<1> DEFINE x == [kind |-> kind, name |-> name, labels |-> labels, body |-> body, owner |-> owner]
<1>1. IsObject(x) /\ x.name = name /\ x.labels = labels /\ ~ HasSelector(x) /\ ~ IsWorkload(x)
  BY DEF IsObject, HasSelector, IsWorkload
<1> HIDE DEF x
<1>2. Asked(x, parts)
  BY <1>1 DEF Asked, Fits
<1> QED BY <1>2 DEF x

\* A Service or a disruption budget, which selects the pods of its instance.
LEMMA SelectingAsked ==
    ASSUME NEW parts, NEW part \in parts, NEW name \in part.names,
           NEW labels, HasRequiredLabels(labels, part.labels),
           NEW kind \in {"Service", "PodDisruptionBudget"},
           NEW body, Told(body.selector, name, part), NEW owner
    PROVE  Asked([kind |-> kind, name |-> name, labels |-> labels, body |-> body, owner |-> owner],
             parts)
<1> DEFINE x == [kind |-> kind, name |-> name, labels |-> labels, body |-> body, owner |-> owner]
<1>1. IsObject(x) /\ x.name = name /\ x.labels = labels /\ x.body = body /\ ~ IsWorkload(x)
  BY DEF IsObject, IsWorkload
<1> HIDE DEF x
<1>2. Asked(x, parts)
  BY <1>1 DEF Asked, Fits
<1> QED BY <1>2 DEF x

\* A workload with the pods of its instance.
LEMMA WorkloadAsked ==
    ASSUME NEW parts, NEW part \in parts, NEW name \in part.names,
           NEW labels, HasRequiredLabels(labels, part.labels), NEW kind, kind = part.workload,
           NEW body, {"selector", "pod"} \subseteq DOMAIN body,
           Told(body.selector, name, part), PodFits(body.pod, name, part), NEW owner
    PROVE  Asked([kind |-> kind, name |-> name, labels |-> labels, body |-> body, owner |-> owner],
             parts)
<1> DEFINE x == [kind |-> kind, name |-> name, labels |-> labels, body |-> body, owner |-> owner]
<1>1. IsObject(x) /\ x.kind = kind /\ x.name = name /\ x.labels = labels /\ x.body = body
  BY DEF IsObject
<1> HIDE DEF x
<1>2. Asked(x, parts)
  BY <1>1 DEF Asked, Fits, WorkloadFits
<1> QED BY <1>2 DEF x

\* The environment of a container may refer to what its part's pods may refer to.
LEMMA ContainerMade ==
    ASSUME NEW name, NEW args, NEW ports, NEW mounts, NEW probed, NEW sources,
           NEW env, AllFrom(env, sources)
    PROVE  ContainerFits([name |-> name, args |-> args, ports |-> ports, mounts |-> mounts,
                          env |-> env, probed |-> probed], sources)
BY DEF ContainerFits

\* A list of one container; one after another.
LEMMA OneContainer ==
    ASSUME NEW c, NEW sources, ContainerFits(c, sources)
    PROVE  /\ IsList(<<c>>) /\ 1 \in DOMAIN <<c>>
           /\ \A i \in DOMAIN <<c>> : ContainerFits(<<c>>[i], sources)
<1> DEFINE one == <<c>>
<1>1. Len(one) = 1 /\ one = [i \in 1 .. 1 |-> one[i]] /\ DOMAIN one = {1} /\ one[1] = c
  OBVIOUS
<1> HIDE DEF one
<1>2. IsList(one) /\ 1 \in DOMAIN one /\ \A i \in DOMAIN one : ContainerFits(one[i], sources)
  BY <1>1 DEF IsList
<1> QED BY <1>2 DEF one

\* A first container, and perhaps a sidecar.
LEMMA MoreContainers ==
    ASSUME NEW c, NEW more, NEW sources, ContainerFits(c, sources),
           more = <<>> \/ \E sidecar : more = <<sidecar>> /\ ContainerFits(sidecar, sources)
    PROVE  /\ IsList(<<c>> \o more) /\ 1 \in DOMAIN (<<c>> \o more)
           /\ \A i \in DOMAIN (<<c>> \o more) : ContainerFits((<<c>> \o more)[i], sources)
<1> DEFINE all == <<c>> \o more
<1>1. CASE more = <<>>
  <2>1. all = <<c>>
    BY <1>1
  <2> HIDE DEF all
  <2>2. IsList(all) /\ 1 \in DOMAIN all /\ \A i \in DOMAIN all : ContainerFits(all[i], sources)
    BY <2>1, OneContainer
  <2> QED BY <2>2 DEF all
<1>2. CASE \E sidecar : more = <<sidecar>> /\ ContainerFits(sidecar, sources)
  <2>1. PICK sidecar : more = <<sidecar>> /\ ContainerFits(sidecar, sources)
    BY <1>2
  <2>2. /\ Len(all) = 2 /\ all = [i \in 1 .. 2 |-> all[i]] /\ DOMAIN all = 1 .. 2
        /\ all[1] = c /\ all[2] = sidecar
    BY <2>1
  <2> HIDE DEF all
  <2>3. IsList(all) /\ 1 \in DOMAIN all
    BY <2>2 DEF IsList
  <2>4. ASSUME NEW i \in DOMAIN all PROVE ContainerFits(all[i], sources)
    <3>1. i = 1 \/ i = 2
      BY <2>2
    <3> QED BY <2>1, <2>2, <3>1
  <2> QED BY <2>3, <2>4 DEF all
<1> QED BY <1>1, <1>2

\* The pods of an instance, made of the labels, volumes and containers of it.
LEMMA PodMade ==
    ASSUME NEW name, NEW part, NEW labels, Told(labels, name, part),
           NEW volumes, AllFrom(volumes, part.sources), NEW claims, NEW inits,
           NEW containers, IsList(containers), 1 \in DOMAIN containers,
           \A i \in DOMAIN containers : ContainerFits(containers[i], part.sources)
    PROVE  PodFits([labels |-> labels, account |-> name, volumes |-> volumes, claims |-> claims,
                    inits |-> inits, containers |-> containers], name, part)
<1> DEFINE pod == [labels |-> labels, account |-> name, volumes |-> volumes, claims |-> claims,
                   inits |-> inits, containers |-> containers]
<1>1. /\ {"labels", "account", "volumes", "containers"} \subseteq DOMAIN pod
      /\ pod.labels = labels /\ pod.account = name /\ pod.volumes = volumes
           /\ pod.containers = containers
  OBVIOUS
<1> HIDE DEF pod
<1>2. PodFits(pod, name, part)
  BY <1>1 DEF PodFits
<1> QED BY <1>2 DEF pod

\* The Deployment of a querier: Augment changes what its pods are, not whose
\* (options.go:248-306).
LEMMA QueryWorkload ==
    ASSUME NEW parts, NEW part \in parts, part.workload = "Deployment",
           NEW name, NEW selector, NEW labels, InstanceOf(name, selector, labels, part),
           NEW pod, PodFits(pod, name, part), NEW o, Added(o.extra, part), NEW replicas
    PROVE  Asked(Q!AugmentWithOptions(
                     Q!Deployment(name, labels, replicas, selector, pod), o), parts)
<1> DEFINE body == [replicas |-> replicas, selector |-> selector, pod |-> Q!Augmented(pod, o)]
           x == Q!AugmentWithOptions(Q!Deployment(name, labels, replicas, selector, pod), o)
<1>1. x = [kind |-> "Deployment", name |-> name, labels |-> labels, body |-> body, owner |-> Q!NoOwner]
  BY DEF Q!AugmentWithOptions, Q!Deployment, Q!Object
<1>2. PodFits(Q!Augmented(pod, o), name, part)
  BY QueryAugmented
<1>3. /\ {"selector", "pod"} \subseteq DOMAIN body
      /\ body.selector = selector /\ PodFits(body.pod, name, part)
  BY <1>2
<1>4. name \in part.names /\ Told(selector, name, part) /\ HasRequiredLabels(labels, part.labels)
  BY DEF InstanceOf, Told
<1> HIDE DEF body, x
<1>5. Asked(x, parts)
  BY <1>1, <1>3, <1>4, WorkloadAsked
<1> QED BY <1>5 DEF x

\* The Deployment of a query frontend: Augment changes what its pods are, not whose
\* (options.go:248-306).
LEMMA FrontendWorkload ==
    ASSUME NEW parts, NEW part \in parts, part.workload = "Deployment",
           NEW name, NEW selector, NEW labels, InstanceOf(name, selector, labels, part),
           NEW pod, PodFits(pod, name, part), NEW o, Added(o.extra, part), NEW replicas
    PROVE  Asked(F!AugmentWithOptions(
                     F!Deployment(name, labels, replicas, selector, pod), o), parts)
<1> DEFINE body == [replicas |-> replicas, selector |-> selector, pod |-> F!Augmented(pod, o)]
           x == F!AugmentWithOptions(F!Deployment(name, labels, replicas, selector, pod), o)
<1>1. x = [kind |-> "Deployment", name |-> name, labels |-> labels, body |-> body, owner |-> F!NoOwner]
  BY DEF F!AugmentWithOptions, F!Deployment, F!Object
<1>2. PodFits(F!Augmented(pod, o), name, part)
  BY FrontendAugmented
<1>3. /\ {"selector", "pod"} \subseteq DOMAIN body
      /\ body.selector = selector /\ PodFits(body.pod, name, part)
  BY <1>2
<1>4. name \in part.names /\ Told(selector, name, part) /\ HasRequiredLabels(labels, part.labels)
  BY DEF InstanceOf, Told
<1> HIDE DEF body, x
<1>5. Asked(x, parts)
  BY <1>1, <1>3, <1>4, WorkloadAsked
<1> QED BY <1>5 DEF x

\* The StatefulSet of a ruler: Augment changes what its pods are, not whose
\* (options.go:248-306).
LEMMA RulerWorkload ==
    ASSUME NEW parts, NEW part \in parts, part.workload = "StatefulSet",
           NEW name, NEW selector, NEW labels, InstanceOf(name, selector, labels, part),
           NEW pod, PodFits(pod, name, part), NEW o, Added(o.extra, part), NEW replicas, NEW service
    PROVE  Asked(R!AugmentWithOptions(
                     R!StatefulSet(name, labels, replicas, selector, service, pod), o), parts)
<1> DEFINE body == [replicas |-> replicas, selector |-> selector, service |-> service,
                    pod |-> R!Augmented(pod, o), rollout |-> o.rollout]
           x == R!AugmentWithOptions(R!StatefulSet(name, labels, replicas, selector, service, pod), o)
<1>1. x = [kind |-> "StatefulSet", name |-> name, labels |-> labels, body |-> body, owner |-> R!NoOwner]
  BY DEF R!AugmentWithOptions, R!StatefulSet, R!Object
<1>2. PodFits(R!Augmented(pod, o), name, part)
  BY RulerAugmented
<1>3. /\ {"selector", "pod"} \subseteq DOMAIN body
      /\ body.selector = selector /\ PodFits(body.pod, name, part)
  BY <1>2
<1>4. name \in part.names /\ Told(selector, name, part) /\ HasRequiredLabels(labels, part.labels)
  BY DEF InstanceOf, Told
<1> HIDE DEF body, x
<1>5. Asked(x, parts)
  BY <1>1, <1>3, <1>4, WorkloadAsked
<1> QED BY <1>5 DEF x

\* The StatefulSet of a shard of a store: Augment changes what its pods are, not whose
\* (options.go:248-306).
LEMMA StoreWorkload ==
    ASSUME NEW parts, NEW part \in parts, part.workload = "StatefulSet",
           NEW name, NEW selector, NEW labels, InstanceOf(name, selector, labels, part),
           NEW pod, PodFits(pod, name, part), NEW o, Added(o.extra, part), NEW replicas, NEW service
    PROVE  Asked(S!AugmentWithOptions(
                     S!StatefulSet(name, labels, replicas, selector, service, pod), o), parts)
<1> DEFINE body == [replicas |-> replicas, selector |-> selector, service |-> service,
                    pod |-> S!Augmented(pod, o), rollout |-> o.rollout]
           x == S!AugmentWithOptions(S!StatefulSet(name, labels, replicas, selector, service, pod), o)
<1>1. x = [kind |-> "StatefulSet", name |-> name, labels |-> labels, body |-> body, owner |-> S!NoOwner]
  BY DEF S!AugmentWithOptions, S!StatefulSet, S!Object
<1>2. PodFits(S!Augmented(pod, o), name, part)
  BY StoreAugmented
<1>3. /\ {"selector", "pod"} \subseteq DOMAIN body
      /\ body.selector = selector /\ PodFits(body.pod, name, part)
  BY <1>2
<1>4. name \in part.names /\ Told(selector, name, part) /\ HasRequiredLabels(labels, part.labels)
  BY DEF InstanceOf, Told
<1> HIDE DEF body, x
<1>5. Asked(x, parts)
  BY <1>1, <1>3, <1>4, WorkloadAsked
<1> QED BY <1>5 DEF x

\* The StatefulSet of a shard of a compactor: Augment changes what its pods are, not whose
\* (options.go:248-306).
LEMMA CompactWorkload ==
    ASSUME NEW parts, NEW part \in parts, part.workload = "StatefulSet",
           NEW name, NEW selector, NEW labels, InstanceOf(name, selector, labels, part),
           NEW pod, PodFits(pod, name, part), NEW o, Added(o.extra, part), NEW replicas, NEW service
    PROVE  Asked(C!AugmentWithOptions(
                     C!StatefulSet(name, labels, replicas, selector, service, pod), o), parts)
<1> DEFINE body == [replicas |-> replicas, selector |-> selector, service |-> service,
                    pod |-> C!Augmented(pod, o), rollout |-> o.rollout]
           x == C!AugmentWithOptions(C!StatefulSet(name, labels, replicas, selector, service, pod), o)
<1>1. x = [kind |-> "StatefulSet", name |-> name, labels |-> labels, body |-> body, owner |-> C!NoOwner]
  BY DEF C!AugmentWithOptions, C!StatefulSet, C!Object
<1>2. PodFits(C!Augmented(pod, o), name, part)
  BY CompactAugmented
<1>3. /\ {"selector", "pod"} \subseteq DOMAIN body
      /\ body.selector = selector /\ PodFits(body.pod, name, part)
  BY <1>2
<1>4. name \in part.names /\ Told(selector, name, part) /\ HasRequiredLabels(labels, part.labels)
  BY DEF InstanceOf, Told
<1> HIDE DEF body, x
<1>5. Asked(x, parts)
  BY <1>1, <1>3, <1>4, WorkloadAsked
<1> QED BY <1>5 DEF x

\* The StatefulSet of a hashring: Augment changes what its pods are, not whose
\* (options.go:248-306).
LEMMA IngesterWorkload ==
    ASSUME NEW parts, NEW part \in parts, part.workload = "StatefulSet",
           NEW name, NEW selector, NEW labels, InstanceOf(name, selector, labels, part),
           NEW pod, PodFits(pod, name, part), NEW o, Added(o.extra, part), NEW replicas, NEW service
    PROVE  Asked(I!AugmentWithOptions(
                     I!StatefulSet(name, labels, replicas, selector, service, pod), o), parts)
<1> DEFINE body == [replicas |-> replicas, selector |-> selector, service |-> service,
                    pod |-> I!Augmented(pod, o), rollout |-> o.rollout]
           x == I!AugmentWithOptions(I!StatefulSet(name, labels, replicas, selector, service, pod), o)
<1>1. x = [kind |-> "StatefulSet", name |-> name, labels |-> labels, body |-> body, owner |-> I!NoOwner]
  BY DEF I!AugmentWithOptions, I!StatefulSet, I!Object
<1>2. PodFits(I!Augmented(pod, o), name, part)
  BY ReceiveAugmented
<1>3. /\ {"selector", "pod"} \subseteq DOMAIN body
      /\ body.selector = selector /\ PodFits(body.pod, name, part)
  BY <1>2
<1>4. name \in part.names /\ Told(selector, name, part) /\ HasRequiredLabels(labels, part.labels)
  BY DEF InstanceOf, Told
<1> HIDE DEF body, x
<1>5. Asked(x, parts)
  BY <1>1, <1>3, <1>4, WorkloadAsked
<1> QED BY <1>5 DEF x

\* The Deployment of a router: Augment changes what its pods are, not whose
\* (options.go:248-306).
LEMMA RouterWorkload ==
    ASSUME NEW parts, NEW part \in parts, part.workload = "Deployment",
           NEW name, NEW selector, NEW labels, InstanceOf(name, selector, labels, part),
           NEW pod, PodFits(pod, name, part), NEW o, Added(o.extra, part), NEW replicas
    PROVE  Asked(I!AugmentWithOptions(
                     I!Deployment(name, labels, replicas, selector, pod), o), parts)
<1> DEFINE body == [replicas |-> replicas, selector |-> selector, pod |-> I!Augmented(pod, o)]
           x == I!AugmentWithOptions(I!Deployment(name, labels, replicas, selector, pod), o)
<1>1. x = [kind |-> "Deployment", name |-> name, labels |-> labels, body |-> body, owner |-> I!NoOwner]
  BY DEF I!AugmentWithOptions, I!Deployment, I!Object
<1>2. PodFits(I!Augmented(pod, o), name, part)
  BY ReceiveAugmented
<1>3. /\ {"selector", "pod"} \subseteq DOMAIN body
      /\ body.selector = selector /\ PodFits(body.pod, name, part)
  BY <1>2
<1>4. name \in part.names /\ Told(selector, name, part) /\ HasRequiredLabels(labels, part.labels)
  BY DEF InstanceOf, Told
<1> HIDE DEF body, x
<1>5. Asked(x, parts)
  BY <1>1, <1>3, <1>4, WorkloadAsked
<1> QED BY <1>5 DEF x

\* Lists of two or three volumes, or variables of an environment.
LEMMA TwoSources ==
    ASSUME NEW x, NEW y, NEW sources,
           \A ref \in x.source \cup y.source : ref[1] = "ConfigMap" \/ ref \in sources
    PROVE  AllFrom(<<x, y>>, sources)
<1> DEFINE two == <<x, y>>
<1>1. Len(two) = 2 /\ two = [i \in 1 .. 2 |-> two[i]] /\ DOMAIN two = 1 .. 2 /\ two[1] = x /\ two[2] = y
  OBVIOUS
<1> HIDE DEF two
<1>2. \A i \in DOMAIN two : two[i] = x \/ two[i] = y
  BY <1>1
<1>3. AllFrom(two, sources)
  BY <1>1, <1>2 DEF AllFrom, IsList
<1> QED BY <1>3 DEF two

\* So do three entries, as in the environment of an ingester.
LEMMA ThreeSources ==
    ASSUME NEW x, NEW y, NEW z, NEW sources,
           \A ref \in x.source \cup y.source \cup z.source : ref[1] = "ConfigMap" \/ ref \in sources
    PROVE  AllFrom(<<x, y, z>>, sources)
<1> DEFINE three == <<x, y, z>>
<1>1. /\ Len(three) = 3 /\ three = [i \in 1 .. 3 |-> three[i]] /\ DOMAIN three = 1 .. 3
      /\ three[1] = x /\ three[2] = y /\ three[3] = z
  OBVIOUS
<1> HIDE DEF three
<1>2. \A i \in DOMAIN three : three[i] = x \/ three[i] = y \/ three[i] = z
  BY <1>1
<1>3. AllFrom(three, sources)
  BY <1>1, <1>2 DEF AllFrom, IsList
<1> QED BY <1>3 DEF three

\* Two objects.
LEMMA Two ==
    ASSUME NEW x, NEW y, NEW parts, Asked(x, parts), Asked(y, parts)
    PROVE  AllAsked(<<x, y>>, parts)
<1> DEFINE two == <<x, y>>
<1>1. two \in Seq({x, y}) /\ DOMAIN two = 1 .. 2 /\ two[1] = x /\ two[2] = y
  OBVIOUS
<1> HIDE DEF two
<1>2. \A i \in DOMAIN two : i = 1 \/ i = 2
  BY <1>1
<1>3. AllAsked(two, parts)
  BY <1>1, <1>2 DEF AllAsked
<1> QED BY <1>3 DEF two

\* The environment that a query frontend reads a Secret into, if it has one.
LEMMA FrontendSecretEnv ==
    ASSUME NEW name, NEW opt, NEW sources, \A s \in opt : <<"Secret", s>> \in sources
    PROVE  AllFrom(F!SecretEnv(name, opt), sources)
<1>1. CASE opt = {}
  BY <1>1, NoSource DEF F!SecretEnv
<1>2. CASE opt # {}
  <2> DEFINE s == CHOOSE x \in opt : TRUE  env == F!Env(name, F!Source("Secret", s))
  <2>1. F!SecretEnv(name, opt) = <<env>>
    BY <1>2 DEF F!SecretEnv
  <2>2. s \in opt
    BY <1>2
  <2>3. env.source = {<<"Secret", s>>}
    BY DEF F!Env, F!Source
  <2> HIDE DEF s, env
  <2> QED BY <2>1, <2>2, <2>3, OneSource
<1> QED BY <1>1, <1>2

\* The environment that a ruler reads a Secret into, if it has one.
LEMMA RulerSecretEnv ==
    ASSUME NEW name, NEW opt, NEW sources, \A s \in opt : <<"Secret", s>> \in sources
    PROVE  AllFrom(R!SecretEnv(name, opt), sources)
<1>1. CASE opt = {}
  BY <1>1, NoSource DEF R!SecretEnv
<1>2. CASE opt # {}
  <2> DEFINE s == CHOOSE x \in opt : TRUE  env == R!Env(name, R!Source("Secret", s))
  <2>1. R!SecretEnv(name, opt) = <<env>>
    BY <1>2 DEF R!SecretEnv
  <2>2. s \in opt
    BY <1>2
  <2>3. env.source = {<<"Secret", s>>}
    BY DEF R!Env, R!Source
  <2> HIDE DEF s, env
  <2> QED BY <2>1, <2>2, <2>3, OneSource
<1> QED BY <1>1, <1>2

\* The environment that a store reads a Secret into, if it has one.
LEMMA StoreSecretEnv ==
    ASSUME NEW name, NEW opt, NEW sources, \A s \in opt : <<"Secret", s>> \in sources
    PROVE  AllFrom(S!SecretEnv(name, opt), sources)
<1>1. CASE opt = {}
  BY <1>1, NoSource DEF S!SecretEnv
<1>2. CASE opt # {}
  <2> DEFINE s == CHOOSE x \in opt : TRUE  env == S!Env(name, S!Source("Secret", s))
  <2>1. S!SecretEnv(name, opt) = <<env>>
    BY <1>2 DEF S!SecretEnv
  <2>2. s \in opt
    BY <1>2
  <2>3. env.source = {<<"Secret", s>>}
    BY DEF S!Env, S!Source
  <2> HIDE DEF s, env
  <2> QED BY <2>1, <2>2, <2>3, OneSource
<1> QED BY <1>1, <1>2

\* The environment that a compactor reads a Secret into, if it has one.
LEMMA CompactSecretEnv ==
    ASSUME NEW name, NEW opt, NEW sources, \A s \in opt : <<"Secret", s>> \in sources
    PROVE  AllFrom(C!SecretEnv(name, opt), sources)
<1>1. CASE opt = {}
  BY <1>1, NoSource DEF C!SecretEnv
<1>2. CASE opt # {}
  <2> DEFINE s == CHOOSE x \in opt : TRUE  env == C!Env(name, C!Source("Secret", s))
  <2>1. C!SecretEnv(name, opt) = <<env>>
    BY <1>2 DEF C!SecretEnv
  <2>2. s \in opt
    BY <1>2
  <2>3. env.source = {<<"Secret", s>>}
    BY DEF C!Env, C!Source
  <2> HIDE DEF s, env
  <2> QED BY <2>1, <2>2, <2>3, OneSource
<1> QED BY <1>1, <1>2

\* What a querier asks for (query/builder.go:64-82).
LEMMA QueryBuilt ==
    ASSUME NEW o, NEW parts, NEW part \in parts, part.workload = "Deployment",
           InstanceOf(Q!GetGeneratedResourceName(o), Q!GetSelectorLabels(o), Q!GetLabels(o), part),
             Added(o.extra, part)
    PROVE  AllAsked(Q!Build(o), parts) /\ Q!Build(o) # <<>>
<1> DEFINE name == Q!GetGeneratedResourceName(o)  selector == Q!GetSelectorLabels(o)
           labels == Q!GetLabels(o)
           sa == Q!BuildServiceAccount(name, selector)
           first == <<sa, Q!newQueryDeployment(o), Q!newQueryService(o)>>
           pdb == Q!WhenSome(o.pdb, LAMBDA p : Q!NewPodDisruptionBudget(name, selector, labels, p))
           sm == Q!WhenSome(o.gate.sm, LAMBDA c :
                      Q!BuildServiceMonitor(name, labels, selector, c, Q!HTTP))
<1>0. /\ name \in part.names /\ Told(selector, name, part) /\ Told(labels, name, part)
      /\ HasRequiredLabels(selector, part.labels) /\ HasRequiredLabels(labels, part.labels)
  BY DEF InstanceOf, Told
<1>1. Asked(sa, parts)
  BY <1>0, PlainAsked DEF Q!BuildServiceAccount, Q!Object
<1>2. Asked(Q!newQueryDeployment(o), parts)
  <2> DEFINE main == Q!Container("thanos-query", Q!queryArgs(o),
               <<Q!Port(Q!GRPC, Q!GRPCPort), Q!Port(Q!HTTP, Q!HTTPPort)>>,
                                  <<>>, <<>>, {Q!HTTPPort})
             pod == Q!Pod(labels, name, <<>>, {}, <<>>, <<main>>)
  <2>1. Q!newQueryDeployment(o)
          = Q!AugmentWithOptions(Q!Deployment(name, labels, o.replicas, selector, pod), o)
    BY DEF Q!newQueryDeployment
  <2> HIDE DEF name, selector, labels
  <2>2. AllFrom(<<>>, part.sources)
    BY NoSource
  <2>3. ContainerFits(main, part.sources)
    BY <2>2, ContainerMade DEF Q!Container
  <2> HIDE DEF main
  <2>4. PodFits(pod, name, part)
    BY <1>0, <2>3, OneContainer, NoSource, PodMade DEF Q!Pod
  <2> HIDE DEF pod
  <2>5. InstanceOf(name, selector, labels, part)
    BY <1>0 DEF InstanceOf
  <2> QED BY <2>1, <2>4, <2>5, QueryWorkload
<1>3. Asked(Q!newQueryService(o), parts)
  <2> DEFINE body == [selector |-> selector, ports |-> Q!newQueryService(o).body.ports]
  <2>1. Q!newQueryService(o) = [kind |-> "Service", name |-> name, labels |-> labels, body |-> body,
          owner |-> Q!NoOwner]
    BY DEF Q!newQueryService, Q!Service, Q!Object
  <2>2. body.selector = selector
    OBVIOUS
  <2> HIDE DEF body, name, selector, labels
  <2> QED BY <1>0, <2>1, <2>2, SelectingAsked
<1>4. AllAsked(pdb, parts)
  <2> HIDE DEF name, selector, labels
  <2>1. ASSUME NEW q PROVE Asked(Q!NewPodDisruptionBudget(name, selector, labels, q), parts)
    <3> DEFINE body == [selector |-> selector, min |-> q.min, max |-> IF q.max = {} THEN {1} ELSE q.max]
    <3>1. Q!NewPodDisruptionBudget(name, selector, labels, q) =
          [kind |-> "PodDisruptionBudget", name |-> name, labels |-> labels, body |-> body,
            owner |-> Q!NoOwner]
      BY DEF Q!NewPodDisruptionBudget, Q!Object
    <3>2. body.selector = selector
      OBVIOUS
    <3> HIDE DEF body
    <3> QED BY <1>0, <3>1, <3>2, SelectingAsked
  <2> QED BY <2>1, AllOf1, AllOfNone DEF Q!WhenSome
<1>5. AllAsked(sm, parts)
  <2> HIDE DEF name, selector, labels
  <2>1. ASSUME NEW c, NEW n \in part.names, NEW port
        PROVE  Asked(Q!BuildServiceMonitor(n, labels, selector, c, port), parts)
    <3> DEFINE merged == Q!MergeMaps(c.labels, labels)
    <3>1. HasRequiredLabels(merged, part.labels)
      BY <1>0 DEF Q!MergeMaps, HasRequiredLabels
    <3>2. Q!BuildServiceMonitor(n, labels, selector, c, port) =
          [kind |-> "ServiceMonitor", name |-> n, labels |-> merged,
           body |-> [selector |-> selector, port |-> port], owner |-> Q!NoOwner]
      BY DEF Q!BuildServiceMonitor, Q!Object
    <3> HIDE DEF merged
    <3> QED BY <3>1, <3>2, PlainAsked
  <2>2. \A c : Asked(Q!BuildServiceMonitor(name, labels, selector, c, Q!HTTP), parts)
    BY <1>0, <2>1
  <2> QED BY <2>2, AllOf1, AllOfNone DEF Q!WhenSome
<1>6. Q!Build(o) = (first \o pdb) \o sm
  BY DEF Q!Build
<1> HIDE DEF sa, pdb, sm, name, selector, labels
<1>7. AllAsked(first, parts) /\ first # <<>>
  <2>1. first # <<>>
    OBVIOUS
  <2> QED BY <1>1, <1>2, <1>3, <2>1, Three
<1> HIDE DEF first
<1>8. AllAsked(first \o pdb, parts) /\ first \o pdb # <<>>
  BY <1>7, <1>4, Joined, Longer
<1>9. AllAsked((first \o pdb) \o sm, parts) /\ (first \o pdb) \o sm # <<>>
  BY <1>8, <1>5, Joined, Longer
<1> QED BY <1>6, <1>9

\* What a query frontend asks for; its cache may be configured by a Secret
\* (queryfrontend/builder.go:43-61).
LEMMA FrontendBuilt ==
    ASSUME NEW o, NEW parts, NEW part \in parts, part.workload = "Deployment",
           InstanceOf(F!GetGeneratedResourceName(o), F!GetSelectorLabels(o), F!GetLabels(o), part),
             Added(o.extra, part),
           \A s \in o.cache.secret : <<"Secret", s>> \in part.sources
    PROVE  AllAsked(F!Build(o), parts) /\ F!Build(o) # <<>>
<1> DEFINE name == F!GetGeneratedResourceName(o)  selector == F!GetSelectorLabels(o)
           labels == F!GetLabels(o)
           sa == F!BuildServiceAccount(name, selector)
           first == <<sa, F!newQueryFrontendDeployment(o), F!newQueryFrontendService(o)>>
           sm == F!WhenSome(o.gate.sm, LAMBDA c :
                      F!BuildServiceMonitor(name, labels, selector, c, F!HTTP))
           pdb == F!WhenSome(o.pdb, LAMBDA p : F!NewPodDisruptionBudget(name, selector, labels, p))
<1>0. /\ name \in part.names /\ Told(selector, name, part) /\ Told(labels, name, part)
      /\ HasRequiredLabels(selector, part.labels) /\ HasRequiredLabels(labels, part.labels)
  BY DEF InstanceOf, Told
<1>1. Asked(sa, parts)
  BY <1>0, PlainAsked DEF F!BuildServiceAccount, F!Object
<1>2. Asked(F!newQueryFrontendDeployment(o), parts)
  <2> DEFINE main == F!Container("thanos-query-frontend", F!queryFrontendArgs(o),
               <<F!Port(F!HTTP, F!HTTPPort)>>,
                                  <<>>, F!SecretEnv(F!CacheEnv, o.cache.secret), {F!HTTPPort})
             pod == F!Pod(labels, name, <<>>, {}, <<>>, <<main>>)
  <2>1. F!newQueryFrontendDeployment(o)
          = F!AugmentWithOptions(F!Deployment(name, labels, o.replicas, selector, pod), o)
    BY DEF F!newQueryFrontendDeployment
  <2> HIDE DEF name, selector, labels
  <2>2. AllFrom(F!SecretEnv(F!CacheEnv, o.cache.secret), part.sources)
    BY FrontendSecretEnv
  <2>3. ContainerFits(main, part.sources)
    BY <2>2, ContainerMade DEF F!Container
  <2> HIDE DEF main
  <2>4. PodFits(pod, name, part)
    BY <1>0, <2>3, OneContainer, NoSource, PodMade DEF F!Pod
  <2> HIDE DEF pod
  <2>5. InstanceOf(name, selector, labels, part)
    BY <1>0 DEF InstanceOf
  <2> QED BY <2>1, <2>4, <2>5, FrontendWorkload
<1>3. Asked(F!newQueryFrontendService(o), parts)
  <2> DEFINE body == [selector |-> selector, ports |-> F!newQueryFrontendService(o).body.ports]
  <2>1. F!newQueryFrontendService(o) = [kind |-> "Service", name |-> name, labels |-> labels,
          body |-> body, owner |-> F!NoOwner]
    BY DEF F!newQueryFrontendService, F!Service, F!Object
  <2>2. body.selector = selector
    OBVIOUS
  <2> HIDE DEF body, name, selector, labels
  <2> QED BY <1>0, <2>1, <2>2, SelectingAsked
<1>4. AllAsked(sm, parts)
  <2> HIDE DEF name, selector, labels
  <2>1. ASSUME NEW c, NEW n \in part.names, NEW port
        PROVE  Asked(F!BuildServiceMonitor(n, labels, selector, c, port), parts)
    <3> DEFINE merged == F!MergeMaps(c.labels, labels)
    <3>1. HasRequiredLabels(merged, part.labels)
      BY <1>0 DEF F!MergeMaps, HasRequiredLabels
    <3>2. F!BuildServiceMonitor(n, labels, selector, c, port) =
          [kind |-> "ServiceMonitor", name |-> n, labels |-> merged,
           body |-> [selector |-> selector, port |-> port], owner |-> F!NoOwner]
      BY DEF F!BuildServiceMonitor, F!Object
    <3> HIDE DEF merged
    <3> QED BY <3>1, <3>2, PlainAsked
  <2>2. \A c : Asked(F!BuildServiceMonitor(name, labels, selector, c, F!HTTP), parts)
    BY <1>0, <2>1
  <2> QED BY <2>2, AllOf1, AllOfNone DEF F!WhenSome
<1>5. AllAsked(pdb, parts)
  <2> HIDE DEF name, selector, labels
  <2>1. ASSUME NEW q PROVE Asked(F!NewPodDisruptionBudget(name, selector, labels, q), parts)
    <3> DEFINE body == [selector |-> selector, min |-> q.min, max |-> IF q.max = {} THEN {1} ELSE q.max]
    <3>1. F!NewPodDisruptionBudget(name, selector, labels, q) =
          [kind |-> "PodDisruptionBudget", name |-> name, labels |-> labels, body |-> body,
            owner |-> F!NoOwner]
      BY DEF F!NewPodDisruptionBudget, F!Object
    <3>2. body.selector = selector
      OBVIOUS
    <3> HIDE DEF body
    <3> QED BY <1>0, <3>1, <3>2, SelectingAsked
  <2> QED BY <2>1, AllOf1, AllOfNone DEF F!WhenSome
<1>6. F!Build(o) = (first \o sm) \o pdb
  BY DEF F!Build
<1> HIDE DEF sa, pdb, sm, name, selector, labels
<1>7. AllAsked(first, parts) /\ first # <<>>
  <2>1. first # <<>>
    OBVIOUS
  <2> QED BY <1>1, <1>2, <1>3, <2>1, Three
<1> HIDE DEF first
<1>8. AllAsked(first \o sm, parts) /\ first \o sm # <<>>
  BY <1>7, <1>4, Joined, Longer
<1>9. AllAsked((first \o sm) \o pdb, parts) /\ (first \o sm) \o pdb # <<>>
  BY <1>8, <1>5, Joined, Longer
<1> QED BY <1>6, <1>9

\* What a shard of a store asks for; the object store and the caches may be
\* configured by Secrets (store/builder.go:56-75).
LEMMA StoreBuilt ==
    ASSUME NEW o, NEW parts, NEW part \in parts, part.workload = "StatefulSet",
           InstanceOf(S!GetGeneratedResourceName(o), S!GetSelectorLabels(o), S!GetLabels(o), part),
             Added(o.extra, part),
           \A s \in {o.objstore} \cup o.indexCache.secret \cup o.bucketCache.secret :
              <<"Secret", s>> \in part.sources
    PROVE  AllAsked(S!Build(o), parts) /\ S!Build(o) # <<>>
<1> DEFINE name == S!GetGeneratedResourceName(o)  selector == S!GetSelectorLabels(o)
           labels == S!GetLabels(o)
           sa == S!BuildServiceAccount(name, selector)
           first == <<sa, S!newStoreService(o), S!newStoreShardStatefulSet(o)>>
           pdb == S!WhenSome(o.pdb, LAMBDA p : S!NewPodDisruptionBudget(name, selector, labels, p))
           sm == S!WhenSome(o.gate.sm, LAMBDA c :
                      S!BuildServiceMonitor(name, labels, selector, c, S!HTTP))
<1>0. /\ name \in part.names /\ Told(selector, name, part) /\ Told(labels, name, part)
      /\ HasRequiredLabels(selector, part.labels) /\ HasRequiredLabels(labels, part.labels)
  BY DEF InstanceOf, Told
<1>1. Asked(sa, parts)
  BY <1>0, PlainAsked DEF S!BuildServiceAccount, S!Object
<1>3. Asked(S!newStoreShardStatefulSet(o), parts)
  <2> DEFINE main == S!Container("thanos-store", S!storeArgsFrom(o),
               <<S!Port(S!GRPC, S!GRPCPort), S!Port(S!HTTP, S!HTTPPort)>>,
                                  <<S!Mount(S!DataClaim)>>, S!Environment(o), {S!HTTPPort})
             pod == S!Pod(labels, name, <<>>, {S!DataClaim}, <<>>, <<main>>)
  <2>1. S!newStoreShardStatefulSet(o)
          = S!AugmentWithOptions(S!StatefulSet(name, labels, o.replicas, selector, name, pod), o)
    BY DEF S!newStoreShardStatefulSet, S!storePod
  <2> HIDE DEF name, selector, labels
  <2>2. AllFrom(S!Environment(o), part.sources)
    BY StoreSecretEnv, SourcesJoined DEF S!Environment
  <2>3. ContainerFits(main, part.sources)
    BY <2>2, ContainerMade DEF S!Container
  <2> HIDE DEF main
  <2>4. PodFits(pod, name, part)
    BY <1>0, <2>3, OneContainer, NoSource, PodMade DEF S!Pod
  <2> HIDE DEF pod
  <2>5. InstanceOf(name, selector, labels, part)
    BY <1>0 DEF InstanceOf
  <2> QED BY <2>1, <2>4, <2>5, StoreWorkload
<1>2. Asked(S!newStoreService(o), parts)
  <2> DEFINE body == [selector |-> selector, ports |-> S!newStoreService(o).body.ports]
  <2>1. S!newStoreService(o) = [kind |-> "Service", name |-> name, labels |-> labels, body |-> body,
          owner |-> S!NoOwner]
    BY DEF S!newStoreService, S!Service, S!Object
  <2>2. body.selector = selector
    OBVIOUS
  <2> HIDE DEF body, name, selector, labels
  <2> QED BY <1>0, <2>1, <2>2, SelectingAsked
<1>4. AllAsked(pdb, parts)
  <2> HIDE DEF name, selector, labels
  <2>1. ASSUME NEW q PROVE Asked(S!NewPodDisruptionBudget(name, selector, labels, q), parts)
    <3> DEFINE body == [selector |-> selector, min |-> q.min, max |-> IF q.max = {} THEN {1} ELSE q.max]
    <3>1. S!NewPodDisruptionBudget(name, selector, labels, q) =
          [kind |-> "PodDisruptionBudget", name |-> name, labels |-> labels, body |-> body,
            owner |-> S!NoOwner]
      BY DEF S!NewPodDisruptionBudget, S!Object
    <3>2. body.selector = selector
      OBVIOUS
    <3> HIDE DEF body
    <3> QED BY <1>0, <3>1, <3>2, SelectingAsked
  <2> QED BY <2>1, AllOf1, AllOfNone DEF S!WhenSome
<1>5. AllAsked(sm, parts)
  <2> HIDE DEF name, selector, labels
  <2>1. ASSUME NEW c, NEW n \in part.names, NEW port
        PROVE  Asked(S!BuildServiceMonitor(n, labels, selector, c, port), parts)
    <3> DEFINE merged == S!MergeMaps(c.labels, labels)
    <3>1. HasRequiredLabels(merged, part.labels)
      BY <1>0 DEF S!MergeMaps, HasRequiredLabels
    <3>2. S!BuildServiceMonitor(n, labels, selector, c, port) =
          [kind |-> "ServiceMonitor", name |-> n, labels |-> merged,
           body |-> [selector |-> selector, port |-> port], owner |-> S!NoOwner]
      BY DEF S!BuildServiceMonitor, S!Object
    <3> HIDE DEF merged
    <3> QED BY <3>1, <3>2, PlainAsked
  <2>2. \A c : Asked(S!BuildServiceMonitor(name, labels, selector, c, S!HTTP), parts)
    BY <1>0, <2>1
  <2> QED BY <2>2, AllOf1, AllOfNone DEF S!WhenSome
<1>6. S!Build(o) = (first \o pdb) \o sm
  BY DEF S!Build
<1> HIDE DEF sa, pdb, sm, name, selector, labels
<1>7. AllAsked(first, parts) /\ first # <<>>
  <2>1. first # <<>>
    OBVIOUS
  <2> QED BY <1>1, <1>2, <1>3, <2>1, Three
<1> HIDE DEF first
<1>8. AllAsked(first \o pdb, parts) /\ first \o pdb # <<>>
  BY <1>7, <1>4, Joined, Longer
<1>9. AllAsked((first \o pdb) \o sm, parts) /\ (first \o pdb) \o sm # <<>>
  BY <1>8, <1>5, Joined, Longer
<1> QED BY <1>6, <1>9

\* What a shard of a compactor asks for; it has no disruption budget
\* (compact/builder.go:54-69).
LEMMA CompactBuilt ==
    ASSUME NEW o, NEW parts, NEW part \in parts, part.workload = "StatefulSet",
           InstanceOf(C!GetGeneratedResourceName(o), C!GetSelectorLabels(o), C!GetLabels(o), part),
             Added(o.extra, part),
           <<"Secret", o.objstore>> \in part.sources
    PROVE  AllAsked(C!Build(o), parts) /\ C!Build(o) # <<>>
<1> DEFINE name == C!GetGeneratedResourceName(o)  selector == C!GetSelectorLabels(o)
           labels == C!GetLabels(o)
           sa == C!BuildServiceAccount(name, selector)
           first == <<sa, C!newShardStatefulSet(o), C!NewService(o)>>
           sm == C!WhenSome(o.gate.sm, LAMBDA c :
                      C!BuildServiceMonitor(name, labels, selector, c, C!HTTP))
<1>0. /\ name \in part.names /\ Told(selector, name, part) /\ Told(labels, name, part)
      /\ HasRequiredLabels(selector, part.labels) /\ HasRequiredLabels(labels, part.labels)
  BY DEF InstanceOf, Told
<1>1. Asked(sa, parts)
  BY <1>0, PlainAsked DEF C!BuildServiceAccount, C!Object
<1>2. Asked(C!newShardStatefulSet(o), parts)
  <2> DEFINE main == C!Container("thanos-compact", C!compactorArgsFrom(o),
               <<C!Port(C!HTTP, C!HTTPPort)>>,
                                  <<C!Mount(C!DataClaim)>>,
                                    C!SecretEnv("OBJSTORE_CONFIG", {o.objstore}), {C!HTTPPort})
             pod == C!Pod(labels, name, <<>>, {C!DataClaim}, <<>>, <<main>>)
  <2>1. C!newShardStatefulSet(o)
          = C!AugmentWithOptions(C!StatefulSet(name, labels, 1, selector, name, pod), o)
    BY DEF C!newShardStatefulSet
  <2> HIDE DEF name, selector, labels
  <2>2. AllFrom(C!SecretEnv("OBJSTORE_CONFIG", {o.objstore}), part.sources)
    BY CompactSecretEnv
  <2>3. ContainerFits(main, part.sources)
    BY <2>2, ContainerMade DEF C!Container
  <2> HIDE DEF main
  <2>4. PodFits(pod, name, part)
    BY <1>0, <2>3, OneContainer, NoSource, PodMade DEF C!Pod
  <2> HIDE DEF pod
  <2>5. InstanceOf(name, selector, labels, part)
    BY <1>0 DEF InstanceOf
  <2> QED BY <2>1, <2>4, <2>5, CompactWorkload
<1>3. Asked(C!NewService(o), parts)
  <2> DEFINE body == [selector |-> selector, ports |-> C!NewService(o).body.ports]
  <2>1. C!NewService(o) = [kind |-> "Service", name |-> name, labels |-> labels, body |-> body,
          owner |-> C!NoOwner]
    BY DEF C!NewService, C!Service, C!Object
  <2>2. body.selector = selector
    OBVIOUS
  <2> HIDE DEF body, name, selector, labels
  <2> QED BY <1>0, <2>1, <2>2, SelectingAsked
<1>4. AllAsked(sm, parts)
  <2> HIDE DEF name, selector, labels
  <2>1. ASSUME NEW c, NEW n \in part.names, NEW port
        PROVE  Asked(C!BuildServiceMonitor(n, labels, selector, c, port), parts)
    <3> DEFINE merged == C!MergeMaps(c.labels, labels)
    <3>1. HasRequiredLabels(merged, part.labels)
      BY <1>0 DEF C!MergeMaps, HasRequiredLabels
    <3>2. C!BuildServiceMonitor(n, labels, selector, c, port) =
          [kind |-> "ServiceMonitor", name |-> n, labels |-> merged,
           body |-> [selector |-> selector, port |-> port], owner |-> C!NoOwner]
      BY DEF C!BuildServiceMonitor, C!Object
    <3> HIDE DEF merged
    <3> QED BY <3>1, <3>2, PlainAsked
  <2>2. \A c : Asked(C!BuildServiceMonitor(name, labels, selector, c, C!HTTP), parts)
    BY <1>0, <2>1
  <2> QED BY <2>2, AllOf1, AllOfNone DEF C!WhenSome
<1>5. C!Build(o) = first \o sm
  BY DEF C!Build
<1> HIDE DEF sa, sm, name, selector, labels
<1>6. AllAsked(first, parts) /\ first # <<>>
  <2>1. first # <<>>
    OBVIOUS
  <2> QED BY <1>1, <1>2, <1>3, <2>1, Three
<1> HIDE DEF first
<1>7. AllAsked(first \o sm, parts) /\ first \o sm # <<>>
  BY <1>6, <1>4, Joined, Longer
<1> QED BY <1>5, <1>7

\* What a hashring asks for (receive/builder.go:88-106).
LEMMA IngesterBuilt ==
    ASSUME NEW o, NEW parts, NEW part \in parts, part.workload = "StatefulSet",
           InstanceOf(I!IngesterName(o), I!IngesterSelector(o), I!GetIngesterLabels(o), part),
             Added(o.extra, part),
           <<"Secret", o.objstore>> \in part.sources
    PROVE  AllAsked(I!BuildIngester(o), parts) /\ I!BuildIngester(o) # <<>>
<1> DEFINE name == I!IngesterName(o)  selector == I!IngesterSelector(o)
           labels == I!GetIngesterLabels(o)
           sa == I!BuildServiceAccount(name, selector)
           first == <<sa, I!newIngestorService(o), I!newIngestorStatefulSet(o)>>
           pdb == I!WhenSome(o.pdb, LAMBDA p : I!NewPodDisruptionBudget(name, selector, labels, p))
           sm == I!WhenSome(o.gate.sm, LAMBDA c :
                      I!BuildServiceMonitor(name, labels, selector, c, I!HTTP))
<1>0. /\ name \in part.names /\ Told(selector, name, part) /\ Told(labels, name, part)
      /\ HasRequiredLabels(selector, part.labels) /\ HasRequiredLabels(labels, part.labels)
  BY DEF InstanceOf, Told
<1>1. Asked(sa, parts)
  BY <1>0, PlainAsked DEF I!BuildServiceAccount, I!Object
<1>3. Asked(I!newIngestorStatefulSet(o), parts)
  <2> DEFINE main == I!Container("thanos-receive-ingester", I!ingestorArgsFrom(o), I!ContainerPorts,
                                  <<I!Mount(I!DataClaim)>>,
                                    << I!Env("POD_NAME", I!Scratch), I!Env("POD_NAMESPACE", I!Scratch),
                                     I!Env("OBJSTORE_CONFIG", I!Source("Secret", o.objstore)) >>,
                                       {I!HTTPPort})
             pod == I!Pod(labels, name, <<>>, {I!DataClaim}, <<>>, <<main>>)
  <2>1. I!newIngestorStatefulSet(o)
          = I!AugmentWithOptions(I!StatefulSet(name, labels, o.replicas, selector, name, pod), o)
    BY DEF I!newIngestorStatefulSet
  <2> HIDE DEF name, selector, labels
  <2>2. AllFrom(<< I!Env("POD_NAME", I!Scratch), I!Env("POD_NAMESPACE", I!Scratch),
                    I!Env("OBJSTORE_CONFIG", I!Source("Secret", o.objstore)) >>, part.sources)
    <3> DEFINE a == I!Env("POD_NAME", I!Scratch)  b == I!Env("POD_NAMESPACE", I!Scratch)
               c == I!Env("OBJSTORE_CONFIG", I!Source("Secret", o.objstore))
    <3>1. a.source = {} /\ b.source = {} /\ c.source = {<<"Secret", o.objstore>>}
      BY DEF I!Env, I!Scratch, I!Source
    <3> HIDE DEF a, b, c
    <3>2. AllFrom(<<a, b, c>>, part.sources)
      BY <3>1, ThreeSources
    <3> QED BY <3>2 DEF a, b, c
  <2>3. ContainerFits(main, part.sources)
    BY <2>2, ContainerMade DEF I!Container
  <2> HIDE DEF main
  <2>4. PodFits(pod, name, part)
    BY <1>0, <2>3, OneContainer, NoSource, PodMade DEF I!Pod
  <2> HIDE DEF pod
  <2>5. InstanceOf(name, selector, labels, part)
    BY <1>0 DEF InstanceOf
  <2> QED BY <2>1, <2>4, <2>5, IngesterWorkload
<1>2. Asked(I!newIngestorService(o), parts)
  <2> DEFINE body == [selector |-> selector, ports |-> I!newIngestorService(o).body.ports]
  <2>1. I!newIngestorService(o) = [kind |-> "Service", name |-> name, labels |-> labels, body |-> body,
          owner |-> I!NoOwner]
    BY DEF I!newIngestorService, I!Service, I!Object
  <2>2. body.selector = selector
    OBVIOUS
  <2> HIDE DEF body, name, selector, labels
  <2> QED BY <1>0, <2>1, <2>2, SelectingAsked
<1>4. AllAsked(pdb, parts)
  <2> HIDE DEF name, selector, labels
  <2>1. ASSUME NEW q PROVE Asked(I!NewPodDisruptionBudget(name, selector, labels, q), parts)
    <3> DEFINE body == [selector |-> selector, min |-> q.min, max |-> IF q.max = {} THEN {1} ELSE q.max]
    <3>1. I!NewPodDisruptionBudget(name, selector, labels, q) =
          [kind |-> "PodDisruptionBudget", name |-> name, labels |-> labels, body |-> body,
            owner |-> I!NoOwner]
      BY DEF I!NewPodDisruptionBudget, I!Object
    <3>2. body.selector = selector
      OBVIOUS
    <3> HIDE DEF body
    <3> QED BY <1>0, <3>1, <3>2, SelectingAsked
  <2> QED BY <2>1, AllOf1, AllOfNone DEF I!WhenSome
<1>5. AllAsked(sm, parts)
  <2> HIDE DEF name, selector, labels
  <2>1. ASSUME NEW c, NEW n \in part.names, NEW port
        PROVE  Asked(I!BuildServiceMonitor(n, labels, selector, c, port), parts)
    <3> DEFINE merged == I!MergeMaps(c.labels, labels)
    <3>1. HasRequiredLabels(merged, part.labels)
      BY <1>0 DEF I!MergeMaps, HasRequiredLabels
    <3>2. I!BuildServiceMonitor(n, labels, selector, c, port) =
          [kind |-> "ServiceMonitor", name |-> n, labels |-> merged,
           body |-> [selector |-> selector, port |-> port], owner |-> I!NoOwner]
      BY DEF I!BuildServiceMonitor, I!Object
    <3> HIDE DEF merged
    <3> QED BY <3>1, <3>2, PlainAsked
  <2>2. \A c : Asked(I!BuildServiceMonitor(name, labels, selector, c, I!HTTP), parts)
    BY <1>0, <2>1
  <2> QED BY <2>2, AllOf1, AllOfNone DEF I!WhenSome
<1>6. I!BuildIngester(o) = (first \o pdb) \o sm
  BY DEF I!BuildIngester
<1> HIDE DEF sa, pdb, sm, name, selector, labels
<1>7. AllAsked(first, parts) /\ first # <<>>
  <2>1. first # <<>>
    OBVIOUS
  <2> QED BY <1>1, <1>2, <1>3, <2>1, Three
<1> HIDE DEF first
<1>8. AllAsked(first \o pdb, parts) /\ first \o pdb # <<>>
  BY <1>7, <1>4, Joined, Longer
<1>9. AllAsked((first \o pdb) \o sm, parts) /\ (first \o pdb) \o sm # <<>>
  BY <1>8, <1>5, Joined, Longer
<1> QED BY <1>6, <1>9

\* What a router asks for.  With the Kubernetes resource sync its sidecar has a
\* ServiceMonitor with a name of its own (receive/builder.go:124-154).
LEMMA RouterBuilt ==
    ASSUME NEW o, NEW parts, NEW part \in parts, part.workload = "Deployment",
           InstanceOf(I!RouterName(o), I!RouterSelector(o), I!GetRouterLabels(o), part),
             Added(o.extra, part),
           I!RouterName(o) \o <<"-", I!SyncContainer>> \in part.names
    PROVE  AllAsked(I!BuildRouter(o), parts) /\ I!BuildRouter(o) # <<>>
<1> DEFINE name == I!RouterName(o)  selector == I!RouterSelector(o)  labels == I!GetRouterLabels(o)
           sa == I!BuildServiceAccount(name, selector)
           first == <<sa, I!newRouterService(o), I!newRouterDeployment(o), I!newHashringConfigMap(o)>>
           synced == name \o <<"-", I!SyncContainer>>
           Monitor(n, c, port) == I!BuildServiceMonitor(n, labels, selector, c, port)
           access == IF o.gate.krs THEN <<I!newRouterRole(o), I!newRouterRoleBinding(o)>> ELSE <<>>
           pdb == I!WhenSome(o.pdb, LAMBDA p : I!NewPodDisruptionBudget(name, selector, labels, p))
           sm == I!WhenSome(o.gate.sm, LAMBDA c : Monitor(name, c, I!HTTP))
           sidecar == IF o.gate.krs
                      THEN I!WhenSome(o.gate.sm, LAMBDA c : Monitor(synced, c, I!SyncContainer))
                      ELSE <<>>
<1>0. /\ name \in part.names /\ Told(selector, name, part) /\ Told(labels, name, part)
      /\ HasRequiredLabels(selector, part.labels) /\ HasRequiredLabels(labels, part.labels)
  BY DEF InstanceOf, Told
<1>1. Asked(sa, parts)
  BY <1>0, PlainAsked DEF I!BuildServiceAccount, I!Object
<1>2. Asked(I!newRouterService(o), parts)
  <2> DEFINE body == [selector |-> selector, ports |-> I!newRouterService(o).body.ports]
  <2>1. I!newRouterService(o) = [kind |-> "Service", name |-> name, labels |-> labels, body |-> body,
          owner |-> I!NoOwner]
    BY DEF I!newRouterService, I!Service, I!Object
  <2>2. body.selector = selector
    OBVIOUS
  <2> HIDE DEF body, name, selector, labels
  <2> QED BY <1>0, <2>1, <2>2, SelectingAsked
<1>3. Asked(I!newRouterDeployment(o), parts)
  <2> DEFINE pod == I!Pod(labels, name, I!buildRouterVolumes(o), {}, I!buildRouterInitContainers(o),
                          I!buildRouterContainers(o))
  <2>1. I!newRouterDeployment(o)
          = I!AugmentWithOptions(I!Deployment(name, labels, o.replicas, selector, pod), o)
    BY DEF I!newRouterDeployment
  <2> HIDE DEF name, selector, labels
  <2>2. AllFrom(I!buildRouterVolumes(o), part.sources)
    <3> DEFINE v == I!Volume(I!HashringVolume, IF o.gate.krs THEN I!Scratch
                                                 ELSE I!Source("ConfigMap", I!RouterName(o)))
    <3>1. \A ref \in v.source : ref[1] = "ConfigMap"
      BY DEF I!Volume, I!Scratch, I!Source
    <3> HIDE DEF v
    <3>2. AllFrom(<<v>>, part.sources)
      BY <3>1, OneSource
    <3> QED BY <3>2 DEF v, I!buildRouterVolumes
  <2>3. /\ IsList(I!buildRouterContainers(o)) /\ 1 \in DOMAIN I!buildRouterContainers(o)
        /\ \A i \in DOMAIN I!buildRouterContainers(o) :
              ContainerFits(I!buildRouterContainers(o)[i], part.sources)
    <3> DEFINE main == I!buildThanosRouterContainer(o)
               sync == I!buildKubeResourceSyncContainer(o, I!SyncContainer, <<>>)
    <3>1. ContainerFits(main, part.sources)
      <4> DEFINE a == I!Env("POD_NAME", I!Scratch)  b == I!Env("POD_NAMESPACE", I!Scratch)
      <4>1. a.source = {} /\ b.source = {}
        BY DEF I!Env, I!Scratch
      <4>2. main = I!Container("thanos-receive-router", I!routerArgsFrom(o), I!ContainerPorts,
                               <<I!Mount(I!HashringVolume)>>, <<a, b>>, {I!HTTPPort})
        BY DEF I!buildThanosRouterContainer
      <4> HIDE DEF a, b, main
      <4>3. AllFrom(<<a, b>>, part.sources)
        BY <4>1, TwoSources
      <4> QED BY <4>2, <4>3, ContainerMade DEF I!Container
    <3>2. ContainerFits(sync, part.sources)
      BY NoSource, ContainerMade DEF I!buildKubeResourceSyncContainer, I!Container
    <3> HIDE DEF main, sync
    <3>3. I!buildRouterContainers(o) = <<main>> \o (IF o.gate.krs THEN <<sync>> ELSE <<>>)
      BY DEF I!buildRouterContainers, main, sync
    <3> DEFINE more == IF o.gate.krs THEN <<sync>> ELSE <<>>
    <3>4. more = <<>> \/ \E x : more = <<x>> /\ ContainerFits(x, part.sources)
      BY <3>2
    <3> HIDE DEF more
    <3> QED BY <3>1, <3>3, <3>4, MoreContainers DEF more
  <2>4. PodFits(pod, name, part)
    BY <1>0, <2>2, <2>3, PodMade DEF I!Pod
  <2> HIDE DEF pod
  <2>5. InstanceOf(name, selector, labels, part)
    BY <1>0 DEF InstanceOf
  <2> QED BY <2>1, <2>4, <2>5, RouterWorkload
<1>4. Asked(I!newHashringConfigMap(o), parts)
  BY <1>0, PlainAsked DEF I!newHashringConfigMap, I!Object
<1>5. Asked(I!newRouterRole(o), parts) /\ Asked(I!newRouterRoleBinding(o), parts)
  BY <1>0, PlainAsked DEF I!newRouterRole, I!newRouterRoleBinding, I!Object
<1>6. AllAsked(pdb, parts)
  <2> HIDE DEF name, selector, labels
  <2>1. ASSUME NEW q PROVE Asked(I!NewPodDisruptionBudget(name, selector, labels, q), parts)
    <3> DEFINE body == [selector |-> selector, min |-> q.min, max |-> IF q.max = {} THEN {1} ELSE q.max]
    <3>1. I!NewPodDisruptionBudget(name, selector, labels, q) =
          [kind |-> "PodDisruptionBudget", name |-> name, labels |-> labels, body |-> body,
            owner |-> I!NoOwner]
      BY DEF I!NewPodDisruptionBudget, I!Object
    <3>2. body.selector = selector
      OBVIOUS
    <3> HIDE DEF body
    <3> QED BY <1>0, <3>1, <3>2, SelectingAsked
  <2> QED BY <2>1, AllOf1, AllOfNone DEF I!WhenSome
<1>7. \A n \in part.names : \A c, port : Asked(Monitor(n, c, port), parts)
  <2> HIDE DEF name, selector, labels
  <2>1. ASSUME NEW c, NEW n \in part.names, NEW port
        PROVE  Asked(I!BuildServiceMonitor(n, labels, selector, c, port), parts)
    <3> DEFINE merged == I!MergeMaps(c.labels, labels)
    <3>1. HasRequiredLabels(merged, part.labels)
      BY <1>0 DEF I!MergeMaps, HasRequiredLabels
    <3>2. I!BuildServiceMonitor(n, labels, selector, c, port) =
          [kind |-> "ServiceMonitor", name |-> n, labels |-> merged,
           body |-> [selector |-> selector, port |-> port], owner |-> I!NoOwner]
      BY DEF I!BuildServiceMonitor, I!Object
    <3> HIDE DEF merged
    <3> QED BY <3>1, <3>2, PlainAsked
  <2> QED BY <2>1
<1>8. name \in part.names /\ synced \in part.names
  BY <1>0
<1>9. AllAsked(sm, parts)
  <2>1. \A c : Asked(Monitor(name, c, I!HTTP), parts)
    BY <1>7, <1>8
  <2> HIDE DEF Monitor
  <2> QED BY <2>1, AllOf1, AllOfNone DEF I!WhenSome
<1>10. AllAsked(sidecar, parts)
  <2>1. \A c : Asked(Monitor(synced, c, I!SyncContainer), parts)
    BY <1>7, <1>8
  <2> HIDE DEF Monitor
  <2> QED BY <2>1, AllOf1, AllOfNone DEF I!WhenSome
<1> DEFINE Build == (((first \o access) \o pdb) \o sm) \o sidecar
<1>11. I!BuildRouter(o) = Build
  BY DEF I!BuildRouter
<1> HIDE DEF sa, pdb, sm, sidecar, name, selector, labels
<1>12. AllAsked(access, parts)
  <2>1. AllAsked(<<I!newRouterRole(o), I!newRouterRoleBinding(o)>>, parts)
    BY <1>5, Two
  <2> QED BY <2>1, AllOfNone
<1>13. AllAsked(first, parts) /\ first # <<>>
  <2>1. first = <<sa, I!newRouterService(o), I!newRouterDeployment(o)>> \o <<I!newHashringConfigMap(o)>>
    OBVIOUS
  <2>2. first # <<>>
    OBVIOUS
  <2> QED BY <1>1, <1>2, <1>3, <1>4, <2>1, <2>2, AllOf1, Three, Joined
<1> HIDE DEF first, access
<1>14. AllAsked(first \o access, parts) /\ first \o access # <<>>
  BY <1>12, <1>13, Joined, Longer
<1>15. AllAsked((first \o access) \o pdb, parts) /\ (first \o access) \o pdb # <<>>
  BY <1>6, <1>14, Joined, Longer
<1>16. AllAsked(((first \o access) \o pdb) \o sm, parts) /\ ((first \o access) \o pdb) \o sm # <<>>
  BY <1>9, <1>15, Joined, Longer
<1>17. AllAsked(Build, parts) /\ Build # <<>>
  BY <1>10, <1>16, Joined, Longer
<1> QED BY <1>11, <1>17

\* A ruler that is given no rule files watches no ConfigMap.
LEMMA NoRuleConfigMaps ==
    ASSUME NEW o, o.ruleFiles = <<>>
    PROVE  R!RuleConfigMaps(o) = <<>>
<1> DEFINE Op(f, seen) == IF R!Contains(seen, f.name) THEN seen ELSE Append(seen, f.name)
           Iter(iter) == iter = [s \in SUBSET (DOMAIN o.ruleFiles) |->
                                    IF s = {} THEN <<>>
                                    ELSE LET x == R!Max(s) IN Op(o.ruleFiles[x], iter[s \ {x}])]
<1>1. DOMAIN o.ruleFiles = {}
  OBVIOUS
<1>2. \E iter : Iter(iter)
  <2> DEFINE none == [s \in SUBSET (DOMAIN o.ruleFiles) |-> <<>>]
  <2>1. \A s \in SUBSET (DOMAIN o.ruleFiles) : s = {}
    BY <1>1
  <2>2. Iter(none)
    BY <2>1
  <2> HIDE DEF none, Iter
  <2> QED BY <2>2
<1> DEFINE iter == CHOOSE iter : Iter(iter)
<1>3. Iter(iter)
  <2> HIDE DEF Iter
  <2> QED BY <1>2
<1>4. R!RuleConfigMaps(o) = iter[DOMAIN o.ruleFiles]
  BY DEF R!RuleConfigMaps, R!FoldLeft, R!MapThenFoldSet
<1> HIDE DEF iter
<1> QED BY <1>1, <1>3, <1>4

\* What a ruler asks for; its Secret is labelled as generated besides
\* (ruler/builder.go:87-109).
LEMMA RulerBuilt ==
    ASSUME NEW o, NEW parts, NEW part \in parts, part.workload = "StatefulSet",
           InstanceOf(R!GetGeneratedResourceName(o), R!GetSelectorLabels(o), R!GetLabels(o), part),
             Added(o.extra, part),
           o.ruleFiles = <<>>, \A s \in o.objstore : <<"Secret", s>> \in part.sources,
           "generated-remote-write-secret" \notin DOMAIN part.labels,
           o.objstore = {} => <<"Secret", R!GetGeneratedResourceName(o)>> \in part.sources
    PROVE  AllAsked(R!Build(o), parts) /\ R!Build(o) # <<>>
<1> DEFINE name == R!GetGeneratedResourceName(o)  selector == R!GetSelectorLabels(o)
           labels == R!GetLabels(o)
           sa == R!BuildServiceAccount(name, selector)
           first == <<sa, R!newRulerStatefulSet(o), R!newRulerService(o)>>
           sec == IF R!IsStateful(o) THEN <<>> ELSE <<R!newRulerSecret(o)>>
           pdb == R!WhenSome(o.pdb, LAMBDA p : R!NewPodDisruptionBudget(name, selector, labels, p))
           sm == R!WhenSome(o.gate.sm, LAMBDA c :
                      R!BuildServiceMonitor(name, labels, selector, c, R!HTTP))
<1>0. /\ name \in part.names /\ Told(selector, name, part) /\ Told(labels, name, part)
      /\ HasRequiredLabels(selector, part.labels) /\ HasRequiredLabels(labels, part.labels)
  BY DEF InstanceOf, Told
<1>1. Asked(sa, parts)
  BY <1>0, PlainAsked DEF R!BuildServiceAccount, R!Object
<1>2. Asked(R!newRulerStatefulSet(o), parts)
  <2> DEFINE none == R!RuleVolumes(o)
             remote == IF R!IsStateful(o) THEN <<>>
               ELSE <<R!Volume(R!RemoteWrite, R!Source("Secret", name))>>
             main == R!rulerContainer(o)
             more == IF o.ruleFiles = <<>> THEN <<>> ELSE <<R!buildConfigReloaderContainer(o)>>
             pod == R!Pod(labels, name, none \o remote, {R!DataClaim}, <<>>, <<main>> \o more)
  <2>1. R!newRulerStatefulSet(o)
          = R!AugmentWithOptions(R!StatefulSet(name, labels, o.replicas, selector, name, pod), o)
    BY DEF R!newRulerStatefulSet
  <2>2. AllFrom(none \o remote, part.sources)
    <3>1. none = <<>>
      BY NoRuleConfigMaps DEF R!RuleVolumes
    <3>2. AllFrom(remote, part.sources)
      <4> DEFINE v == R!Volume(R!RemoteWrite, R!Source("Secret", name))
      <4>1. v.source = {<<"Secret", name>>}
        BY DEF R!Volume, R!Source
      <4> HIDE DEF v
      <4>2. o.objstore = {} => AllFrom(<<v>>, part.sources)
        BY <4>1, OneSource
      <4> QED BY <4>2, NoSource DEF v, R!IsStateful
    <3> HIDE DEF none, remote
    <3> QED BY <3>1, <3>2, NoSource, SourcesJoined
  <2> HIDE DEF name, selector, labels, none, remote
  <2>3. ContainerFits(main, part.sources)
    <3> DEFINE a == R!Env("NAME", R!Scratch)  env == <<a>> \o R!SecretEnv("OBJSTORE_CONFIG", o.objstore)
    <3>1. a.source = {}
      BY DEF R!Env, R!Scratch
    <3>2. \E ports, mounts, probed :
             main = R!Container("thanos-ruler", R!rulerArgs(o), ports, mounts, env, probed)
      BY DEF R!rulerContainer
    <3> HIDE DEF a, main
    <3>3. AllFrom(env, part.sources)
      BY <3>1, OneSource, RulerSecretEnv, SourcesJoined
    <3> HIDE DEF env
    <3> QED BY <3>2, <3>3, ContainerMade DEF R!Container
  <2>4. more = <<>>
    OBVIOUS
  <2> HIDE DEF main, more
  <2>5. /\ IsList(<<main>> \o more) /\ 1 \in DOMAIN (<<main>> \o more)
        /\ \A i \in DOMAIN (<<main>> \o more) : ContainerFits((<<main>> \o more)[i], part.sources)
    BY <2>3, <2>4, MoreContainers
  <2>6. PodFits(pod, name, part)
    BY <1>0, <2>2, <2>5, PodMade DEF R!Pod
  <2> HIDE DEF pod
  <2>7. InstanceOf(name, selector, labels, part)
    BY <1>0 DEF InstanceOf
  <2> QED BY <2>1, <2>6, <2>7, RulerWorkload
<1>3. Asked(R!newRulerService(o), parts)
  <2> DEFINE body == [selector |-> selector, ports |-> R!newRulerService(o).body.ports]
  <2>1. R!newRulerService(o) = [kind |-> "Service", name |-> name, labels |-> labels, body |-> body,
          owner |-> R!NoOwner]
    BY DEF R!newRulerService, R!Service, R!Object
  <2>2. body.selector = selector
    OBVIOUS
  <2> HIDE DEF body, name, selector, labels
  <2> QED BY <1>0, <2>1, <2>2, SelectingAsked
<1>4. AllAsked(sec, parts)
  <2>1. Asked(R!newRulerSecret(o), parts)
    <3> DEFINE merged == R!MergeMaps(labels, R!GeneratedSecret)
    <3>1. HasRequiredLabels(merged, part.labels)
      <4>1. DOMAIN R!GeneratedSecret = {"generated-remote-write-secret"}
        BY DEF R!GeneratedSecret, R!Label
      <4> QED BY <1>0, <4>1 DEF R!MergeMaps, HasRequiredLabels
    <3> HIDE DEF merged
    <3> QED BY <1>0, <3>1, PlainAsked DEF R!newRulerSecret, R!Object, merged
  <2> QED BY <2>1, AllOf1, AllOfNone
<1>5. AllAsked(pdb, parts)
  <2> HIDE DEF name, selector, labels
  <2>1. ASSUME NEW q PROVE Asked(R!NewPodDisruptionBudget(name, selector, labels, q), parts)
    <3> DEFINE body == [selector |-> selector, min |-> q.min, max |-> IF q.max = {} THEN {1} ELSE q.max]
    <3>1. R!NewPodDisruptionBudget(name, selector, labels, q) =
          [kind |-> "PodDisruptionBudget", name |-> name, labels |-> labels, body |-> body,
            owner |-> R!NoOwner]
      BY DEF R!NewPodDisruptionBudget, R!Object
    <3>2. body.selector = selector
      OBVIOUS
    <3> HIDE DEF body
    <3> QED BY <1>0, <3>1, <3>2, SelectingAsked
  <2> QED BY <2>1, AllOf1, AllOfNone DEF R!WhenSome
<1>6. AllAsked(sm, parts)
  <2> HIDE DEF name, selector, labels
  <2>1. ASSUME NEW c, NEW n \in part.names, NEW port
        PROVE  Asked(R!BuildServiceMonitor(n, labels, selector, c, port), parts)
    <3> DEFINE merged == R!MergeMaps(c.labels, labels)
    <3>1. HasRequiredLabels(merged, part.labels)
      BY <1>0 DEF R!MergeMaps, HasRequiredLabels
    <3>2. R!BuildServiceMonitor(n, labels, selector, c, port) =
          [kind |-> "ServiceMonitor", name |-> n, labels |-> merged,
           body |-> [selector |-> selector, port |-> port], owner |-> R!NoOwner]
      BY DEF R!BuildServiceMonitor, R!Object
    <3> HIDE DEF merged
    <3> QED BY <3>1, <3>2, PlainAsked
  <2>2. \A c : Asked(R!BuildServiceMonitor(name, labels, selector, c, R!HTTP), parts)
    BY <1>0, <2>1
  <2> QED BY <2>2, AllOf1, AllOfNone DEF R!WhenSome
<1>7. R!Build(o) = ((first \o sec) \o pdb) \o sm
  BY DEF R!Build
<1> HIDE DEF sa, sec, pdb, sm, name, selector, labels
<1>8. AllAsked(first, parts) /\ first # <<>>
  <2>1. first # <<>>
    OBVIOUS
  <2> QED BY <1>1, <1>2, <1>3, <2>1, Three
<1> HIDE DEF first
<1>9. AllAsked(first \o sec, parts) /\ first \o sec # <<>>
  BY <1>8, <1>4, Joined, Longer
<1>10. AllAsked((first \o sec) \o pdb, parts) /\ (first \o sec) \o pdb # <<>>
  BY <1>9, <1>5, Joined, Longer
<1>11. AllAsked(((first \o sec) \o pdb) \o sm, parts) /\ ((first \o sec) \o pdb) \o sm # <<>>
  BY <1>10, <1>6, Joined, Longer
<1> QED BY <1>7, <1>11

-----------------------------------------------------------------------------
(* The parts of a resource.                                                 *)

\* A resource has one part, a querier with a frontend and a receiver two: the
\* frontend, and the router.
MainPart(cr, g) ==
    [labels   |-> OwnerLabels(cr),
     names    |-> IF cr.kind = "ThanosQuery" THEN {QueryNameFromParent(cr.name)} ELSE Kept(cr, g),
     workload |-> IF cr.kind = "ThanosQuery" THEN "Deployment" ELSE "StatefulSet",
     sources  |-> UserSources(cr)
                  \cup (IF cr.kind = "ThanosRuler" /\ cr.spec.stateful = {}
                        THEN {<<"Secret", RulerNameFromParent(cr.name)>>} ELSE {})]
FrontPart(cr) ==
    [labels   |-> GetLabelSelectorForOwner(F!GetSelectorLabels([owner |-> cr.name])),
     names    |-> {QueryFrontendNameFromParent(cr.name)},
     workload |-> "Deployment", sources |-> UserSources(cr)]
RouterPart(cr) ==
    [labels   |-> GetLabelSelectorForOwner(I!RouterSelector([owner |-> cr.name])),
     names    |-> RouterNames(cr),
     workload |-> "Deployment", sources |-> UserSources(cr)]
Parts(cr, g) ==
    {MainPart(cr, g)}
    \cup (IF cr.kind = "ThanosQuery" /\ cr.spec.frontend # {} THEN {FrontPart(cr)} ELSE {})
    \cup (IF cr.kind = "ThanosReceive" THEN {RouterPart(cr)} ELSE {})

\* What the model takes a resource to be.
IsResource(cr) ==
    /\ \A extra \in Additional(cr) : IsExtra(extra)
    /\ \/ cr.kind \in {"ThanosQuery", "ThanosRuler"}
       \/ cr.kind = "ThanosStore" /\ cr.spec.shards \in Nat
       \/ cr.kind = "ThanosCompact" /\ IsList(cr.spec.sharding)
       \/ cr.kind = "ThanosReceive" /\ IsList(cr.spec.ingester.rings)

\* The names of its parts are those of the resource.
LEMMA PartNames ==
    ASSUME NEW cr, NEW g, IsResource(cr), NEW part \in Parts(cr, g)
    PROVE  part.names \subseteq AskedNames(cr, g)
<1>1. CASE part = MainPart(cr, g)
  BY <1>1 DEF MainPart, AskedNames, Kept, IsResource
<1>2. CASE cr.kind = "ThanosQuery" /\ cr.spec.frontend # {} /\ part = FrontPart(cr)
  BY <1>2 DEF FrontPart, AskedNames, Kept
<1>3. CASE cr.kind = "ThanosReceive" /\ part = RouterPart(cr)
  BY <1>3 DEF RouterPart, AskedNames
<1> QED BY <1>1, <1>2, <1>3 DEF Parts

\* Labels that say which component of which resource an object belongs to.
Marked(labels, marks) ==
    /\ {"name", "owner"} \subseteq DOMAIN labels
    /\ <<labels["name"], labels["owner"]>> \in marks

\* The component names on the objects of a resource, and with them its owner label.
Components(kind) ==
    CASE kind = "ThanosQuery"   -> {"thanos-query", "thanos-query-frontend"}
      [] kind = "ThanosRuler"   -> {"thanos-ruler"}
      [] kind = "ThanosStore"   -> {"thanos-store"}
      [] kind = "ThanosCompact" -> {"thanos-compact"}
      [] kind = "ThanosReceive" -> {"thanos-receive"}
Marks(id) == {<<Value(c), ValidateAndSanitizeNameToValidLabelValue(id[2])>> : c \in Components(id[1])}
Mark(component, value) == {<<<<component>>, value>>}

\* The selector of a querier (query/builder.go:332-343).
LEMMA QueryLabels ==
    ASSUME NEW o
    PROVE  Marked(Q!GetSelectorLabels(o), Mark("thanos-query",
             Q!ValidateAndSanitizeNameToValidLabelValue(o.owner)))
BY DEF Mark, Marked, Q!GetSelectorLabels, Q!InstanceLabels, Q!MergeMaps, Q!Label,
       Q!GetRequiredLabels, Q!ComponentLabels, Q!QueryAPI, Q!Value

\* The selector of a query frontend (queryfrontend/builder.go:258-269).
LEMMA FrontendLabels ==
    ASSUME NEW o
    PROVE  Marked(F!GetSelectorLabels(o), Mark("thanos-query-frontend",
             F!ValidateAndSanitizeNameToValidLabelValue(o.owner)))
BY DEF Mark, Marked, F!GetSelectorLabels, F!InstanceLabels, F!MergeMaps, F!Label,
       F!ComponentLabels, F!Value, F!GetRequiredLabels

\* The selector of a ruler (ruler/builder.go:581-594).
LEMMA RulerLabels ==
    ASSUME NEW o
    PROVE  Marked(R!GetSelectorLabels(o), Mark("thanos-ruler",
             R!ValidateAndSanitizeNameToValidLabelValue(o.owner)))
BY DEF Mark, Marked, R!GetSelectorLabels, R!InstanceLabels, R!MergeMaps, R!Label,
       R!ComponentLabels, R!Value, R!GetRequiredLabels

\* The selector of a shard of a store (store/builder.go:427-444).
LEMMA StoreLabels ==
    ASSUME NEW o
    PROVE  Marked(S!GetSelectorLabels(o), Mark("thanos-store",
             S!ValidateAndSanitizeNameToValidLabelValue(o.owner)))
BY DEF Mark, Marked, S!GetSelectorLabels, S!InstanceLabels, S!MergeMaps, S!Label,
       S!ComponentLabels, S!Value, S!GetRequiredLabels, S!GetRequiredStoreServiceLabel, S!StoreAPI

\* The selector of a shard of a compactor (compact/builder.go:327-341).
LEMMA CompactLabels ==
    ASSUME NEW o
    PROVE  Marked(C!GetSelectorLabels(o), Mark("thanos-compact",
             C!ValidateAndSanitizeNameToValidLabelValue(o.owner)))
BY DEF Mark, Marked, C!GetSelectorLabels, C!InstanceLabels, C!MergeMaps, C!Label,
       C!ComponentLabels, C!Value, C!GetRequiredLabels

\* The selector of a hashring (receive/builder.go:627-645).
LEMMA IngesterLabels ==
    ASSUME NEW o
    PROVE  Marked(I!IngesterSelector(o), Mark("thanos-receive",
             I!ValidateAndSanitizeNameToValidLabelValue(o.owner)))
BY DEF Mark, Marked, I!IngesterSelector, I!InstanceLabels, I!MergeMaps, I!Label,
       I!ComponentLabels, I!Value, I!GetRequiredIngesterLabels, I!GetRequiredLabels,
       I!StoreAPI, I!NoLabels

\* The selector of a router (receive/builder.go:646-661).
LEMMA RouterLabels ==
    ASSUME NEW o
    PROVE  Marked(I!RouterSelector(o), Mark("thanos-receive",
             I!ValidateAndSanitizeNameToValidLabelValue(o.owner)))
BY DEF Mark, Marked, I!RouterSelector, I!InstanceLabels, I!MergeMaps, I!Label,
       I!ComponentLabels, I!Value, I!GetRequiredRouterLabels, I!GetRequiredLabels

\* The labels that an owner lists the objects of a part by say which component and
\* owner (options.go:62-78).
LEMMA ForOwnerMarked ==
    ASSUME NEW labels, NEW marks, Marked(labels, marks)
    PROVE  Marked(GetLabelSelectorForOwner(labels), marks)
BY DEF Marked, GetLabelSelectorForOwner

\* So the selector that a reconciler prunes by has its resource's marks.
LEMMA OwnerMarked ==
    ASSUME NEW cr, IsResource(cr)
    PROVE  Marked(OwnerLabels(cr), Marks(Id(cr)))
<1> DEFINE o == [owner |-> cr.name, shard |-> {}, hashring |-> <<>>]  id == Id(cr)
<1>1. id[1] = cr.kind /\ id[2] = cr.name /\ o.owner = cr.name
  BY DEF Id
<1> HIDE DEF o, id
<1>2. CASE cr.kind = "ThanosQuery"
  <2>1. Marked(Q!GetSelectorLabels(o), Marks(id))
    BY <1>1, <1>2, QueryLabels, QueryValue DEF Marked, Mark, Marks, Components, Value
  <2> QED BY <1>2, <2>1, ForOwnerMarked DEF OwnerLabels, o, id
<1>3. CASE cr.kind = "ThanosRuler"
  <2>1. Marked(R!GetSelectorLabels(o), Marks(id))
    BY <1>1, <1>3, RulerLabels, RulerValue DEF Marked, Mark, Marks, Components, Value
  <2> QED BY <1>3, <2>1, ForOwnerMarked DEF OwnerLabels, o, id
<1>4. CASE cr.kind = "ThanosStore"
  <2>1. Marked(S!GetSelectorLabels(o), Marks(id))
    BY <1>1, <1>4, StoreLabels, StoreValue DEF Marked, Mark, Marks, Components, Value
  <2> QED BY <1>4, <2>1, ForOwnerMarked DEF OwnerLabels, o, id
<1>5. CASE cr.kind = "ThanosCompact"
  <2>1. Marked(C!GetSelectorLabels(o), Marks(id))
    BY <1>1, <1>5, CompactLabels, CompactValue DEF Marked, Mark, Marks, Components, Value
  <2> QED BY <1>5, <2>1, ForOwnerMarked DEF OwnerLabels, o, id
<1>6. CASE cr.kind = "ThanosReceive"
  <2>1. Marked(I!IngesterSelector(o), Marks(id))
    BY <1>1, <1>6, IngesterLabels, ReceiveValue DEF Marked, Mark, Marks, Components, Value
  <2> QED BY <1>6, <2>1, ForOwnerMarked DEF OwnerLabels, o, id
<1> QED BY <1>2, <1>3, <1>4, <1>5, <1>6 DEF IsResource

\* So have the objects of each of its parts.
LEMMA PartMarked ==
    ASSUME NEW cr, NEW g, IsResource(cr), NEW part \in Parts(cr, g)
    PROVE  Marked(part.labels, Marks(Id(cr)))
<1> DEFINE owner == [owner |-> cr.name]  id == Id(cr)
<1>1. id[1] = cr.kind /\ id[2] = cr.name /\ owner.owner = cr.name
  BY DEF Id
<1>2. CASE part = MainPart(cr, g)
  BY <1>2, OwnerMarked DEF MainPart
<1>3. CASE cr.kind = "ThanosQuery" /\ part = FrontPart(cr)
  <2>1. part.labels = GetLabelSelectorForOwner(F!GetSelectorLabels(owner))
    BY <1>3 DEF FrontPart
  <2> HIDE DEF owner, id
  <2>2. Marked(F!GetSelectorLabels(owner), Marks(id))
    BY <1>1, <1>3, FrontendLabels, FrontendValue DEF Marked, Mark, Marks, Components, Value
  <2> QED BY <2>1, <2>2, ForOwnerMarked DEF id
<1>4. CASE cr.kind = "ThanosReceive" /\ part = RouterPart(cr)
  <2>1. part.labels = GetLabelSelectorForOwner(I!RouterSelector(owner))
    BY <1>4 DEF RouterPart
  <2> HIDE DEF owner, id
  <2>2. Marked(I!RouterSelector(owner), Marks(id))
    BY <1>1, <1>4, RouterLabels, ReceiveValue DEF Marked, Mark, Marks, Components, Value
  <2> QED BY <2>1, <2>2, ForOwnerMarked DEF id
<1> QED BY <1>2, <1>3, <1>4 DEF Parts

-----------------------------------------------------------------------------
(* The options of the components.                                           *)

\* Options that name the owner and what its user adds to the pods.
HasCommon(o, cr, extra) == {"owner", "extra"} \subseteq DOMAIN o /\ o.owner = cr.name /\ o.extra = extra

\* The options of every component do (transform.go:427-460).
LEMMA CommonOptions ==
    ASSUME NEW cr, NEW replicas, NEW common, NEW additional, NEW rollout, NEW g
    PROVE  HasCommon(commonToOpts(cr, replicas, common, additional, rollout, g), cr, additional)
BY DEF commonToOpts, HasCommon

\* Further options leave them.
LEMMA WithCommon ==
    ASSUME NEW o, NEW cr, NEW extra, HasCommon(o, cr, extra),
           NEW more, "owner" \notin DOMAIN more, "extra" \notin DOMAIN more
    PROVE  HasCommon(WithFields(o, more), cr, extra)
BY DEF WithFields, MergeMaps, HasCommon

\* Ranging over the external labels of options leaves their other fields.
LEMMA RangedOptions ==
    ASSUME NEW o, NEW r \in Ranged(o)
    PROVE  /\ DOMAIN o \subseteq DOMAIN r
           /\ \A f \in DOMAIN o \ {"externalLabels"} : r[f] = o[f]
<1>1. PICK s : r = WithFields(o, [externalLabels |-> s])
  BY DEF Ranged
<1> QED BY <1>1 DEF WithFields, MergeMaps

\* The options of a querier, whatever endpoints it is told.
LEMMA QueryOptions ==
    ASSUME NEW cr, NEW g, NEW eps
    PROVE  HasCommon(buildQuery(cr, g, eps), cr, cr.spec.additional)
<1>1. HasCommon(queryV1Alpha1ToOptions(cr, g), cr, cr.spec.additional)
  BY CommonOptions, WithCommon DEF queryV1Alpha1ToOptions
<1> QED BY <1>1, WithCommon DEF buildQuery

\* The options of a query frontend.
LEMMA FrontendOptions ==
    ASSUME NEW cr, NEW g, NEW f
    PROVE  LET o == queryV1Alpha1ToQueryFrontEndOptions(cr, f, g)
           IN  HasCommon(o, cr, f.additional) /\ o.cache.secret = f.cache.external
<1>1. HasCommon(queryV1Alpha1ToQueryFrontEndOptions(cr, f, g), cr, f.additional)
  BY CommonOptions, WithCommon DEF queryV1Alpha1ToQueryFrontEndOptions
<1>2. queryV1Alpha1ToQueryFrontEndOptions(cr, f, g).cache = toManifestCacheConfig(f.cache)
  BY DEF queryV1Alpha1ToQueryFrontEndOptions, WithFields, MergeMaps
<1> QED BY <1>1, <1>2 DEF toManifestCacheConfig

\* The options of a ruler, whatever queriers and receivers it found, and however
\* its external labels are ranged over.
LEMMA RulerOptions ==
    ASSUME NEW cr, NEW g, NEW os, NEW o \in buildRuler(cr, g, os)
    PROVE  /\ HasCommon(o, cr, cr.spec.additional)
           /\ o.ruleFiles = <<>> /\ o.objstore = {s.objstore : s \in cr.spec.stateful}
<1>1. /\ HasCommon(rulerV1Alpha1ToOptions(cr, g), cr, cr.spec.additional)
      /\ "objstore" \in DOMAIN rulerV1Alpha1ToOptions(cr, g)
      /\ rulerV1Alpha1ToOptions(cr, g).objstore = {s.objstore : s \in cr.spec.stateful}
  <2>1. HasCommon(rulerV1Alpha1ToOptions(cr, g), cr, cr.spec.additional)
    BY CommonOptions, WithCommon DEF rulerV1Alpha1ToOptions
  <2>2. /\ "objstore" \in DOMAIN rulerV1Alpha1ToOptions(cr, g)
        /\ rulerV1Alpha1ToOptions(cr, g).objstore = {s.objstore : s \in cr.spec.stateful}
    BY DEF rulerV1Alpha1ToOptions, WithFields, MergeMaps
  <2> QED BY <2>1, <2>2
<1>2. PICK q, w : o \in Ranged(rulerOptions(cr, g, q, w))
  BY DEF buildRuler
<1> DEFINE base == rulerOptions(cr, g, q, w)
<1>3. HasCommon(base, cr, cr.spec.additional)
  BY <1>1, WithCommon DEF rulerOptions
<1>4. /\ {"ruleFiles", "objstore"} \subseteq DOMAIN base
      /\ base.ruleFiles = <<>> /\ base.objstore = rulerV1Alpha1ToOptions(cr, g).objstore
  BY <1>1 DEF rulerOptions, WithFields, MergeMaps
<1> HIDE DEF base
<1>5. \A f \in {"owner", "extra", "ruleFiles", "objstore"} :
         f \in DOMAIN base => f \in DOMAIN o /\ o[f] = base[f]
  BY <1>2, RangedOptions DEF base
<1> QED BY <1>1, <1>3, <1>4, <1>5 DEF HasCommon

\* What the shards of a store have in common.
OfStore(o, cr) ==
    /\ HasCommon(o, cr, cr.spec.additional)
    /\ {"objstore", "indexCache", "bucketCache"} \subseteq DOMAIN o
    /\ o.objstore = cr.spec.objstore
    /\ o.indexCache.secret = cr.spec.indexCache.external
    /\ o.bucketCache.secret = cr.spec.bucketCache.external

\* There is one set of options at least for the shards of a store.
LEMMA StoreOptions ==
    ASSUME NEW cr, NEW g, cr.spec.shards \in Nat
    PROVE  LET os == specToStoreOptions(cr, g)
           IN  \E n \in Nat \ {0} : DOMAIN os = 1 .. n /\ \A i \in 1 .. n : OfStore(os[i], cr)
<1> DEFINE o == storeV1Alpha1ToOptions(cr, g)  os == specToStoreOptions(cr, g)  n == cr.spec.shards
<1>1. OfStore(o, cr)
  <2>1. HasCommon(o, cr, cr.spec.additional)
    BY CommonOptions, WithCommon DEF storeV1Alpha1ToOptions
  <2>2. /\ {"objstore", "indexCache", "bucketCache"} \subseteq DOMAIN o
        /\ o.objstore = cr.spec.objstore
        /\ o.indexCache = toManifestCacheConfig(cr.spec.indexCache)
        /\ o.bucketCache = toManifestCacheConfig(cr.spec.bucketCache)
    BY DEF storeV1Alpha1ToOptions, WithFields, MergeMaps
  <2> HIDE DEF o
  <2> QED BY <2>1, <2>2 DEF toManifestCacheConfig, OfStore
<1> HIDE DEF o
<1>2. \A s, r : OfStore(WithFields(o, [shard |-> s, relabel |-> r]), cr)
  BY <1>1 DEF OfStore, HasCommon, WithFields, MergeMaps
<1>3. CASE n < 2
  <2>1. os = <<WithFields(o, [shard |-> {}, relabel |-> <<>>])>>
    BY <1>3 DEF specToStoreOptions, o
  <2> HIDE DEF os
  <2>2. 1 \in Nat \ {0} /\ DOMAIN os = 1 .. 1 /\ \A i \in 1 .. 1 : OfStore(os[i], cr)
    BY <1>2, <2>1
  <2> QED BY <2>2 DEF os
<1>4. CASE ~ (n < 2)
  <2> DEFINE Shard(i) == WithFields(o, [shard   |-> {Number(i)},
                                        relabel |-> <<[action |-> "hashmod", arg |-> Number(n)],
                                                      [action |-> "keep", arg |-> Number(i)]>>])
  <2>1. os = [i \in 1 .. n |-> Shard(i - 1)]
    BY <1>4 DEF specToStoreOptions, o
  <2>2. \A i : OfStore(Shard(i), cr)
    BY <1>2
  <2> HIDE DEF os, Shard
  <2>3. n \in Nat \ {0} /\ DOMAIN os = 1 .. n /\ \A i \in 1 .. n : OfStore(os[i], cr)
    BY <1>4, <2>1, <2>2
  <2> QED BY <2>3 DEF os
<1> QED BY <1>3, <1>4

\* What the shards of a compactor have in common.
OfCompact(o, cr) ==
    HasCommon(o, cr, cr.spec.additional) /\ "objstore" \in DOMAIN o /\ o.objstore = cr.spec.objstore

\* There is one set of options at least for the shards of a compactor.
LEMMA CompactOptions ==
    ASSUME NEW cr, NEW g, IsList(cr.spec.sharding)
    PROVE  LET os == specToCompactOptions(cr, g)
           IN  \E n \in Nat \ {0} : DOMAIN os = 1 .. n /\ \A i \in 1 .. n : OfCompact(os[i], cr)
<1> DEFINE o == compactV1Alpha1ToOptions(cr, g)  os == specToCompactOptions(cr, g)
           sharding == cr.spec.sharding
<1>1. OfCompact(o, cr)
  <2>1. \A c : c = commonToOpts(cr, 1, cr.spec.common, cr.spec.additional,
                               statefulSetToOpts(cr.spec.rollout), g)
               => HasCommon([c EXCEPT !.pdb = {}], cr, cr.spec.additional)
    BY DEF commonToOpts, HasCommon
  <2>2. HasCommon(o, cr, cr.spec.additional)
    BY <2>1, WithCommon DEF compactV1Alpha1ToOptions
  <2>3. "objstore" \in DOMAIN o /\ o.objstore = cr.spec.objstore
    BY DEF compactV1Alpha1ToOptions, WithFields, MergeMaps
  <2> HIDE DEF o
  <2> QED BY <2>2, <2>3 DEF OfCompact
<1> HIDE DEF o
<1>2. \A s, r : OfCompact(WithFields(o, [shard |-> s, relabel |-> r]), cr)
  BY <1>1 DEF OfCompact, HasCommon, WithFields, MergeMaps
<1>3. CASE sharding = <<>>
  <2>1. os = <<WithFields(o, [shard |-> {}, relabel |-> <<>>])>>
    BY <1>3 DEF specToCompactOptions, o
  <2> HIDE DEF os
  <2>2. 1 \in Nat \ {0} /\ DOMAIN os = 1 .. 1 /\ \A i \in 1 .. 1 : OfCompact(os[i], cr)
    BY <1>2, <2>1
  <2> QED BY <2>2 DEF os
<1>4. CASE sharding # <<>>
  <2> DEFINE Shard(s) == WithFields(o, [shard   |-> {s.name},
                                   relabel |-> [i \in DOMAIN s.blocks |->
                                                   [action |-> "keep", arg |-> s.blocks[i]]]])
             n == Len(sharding)
  <2>1. os = [i \in DOMAIN sharding |-> Shard(sharding[i])]
    BY <1>4 DEF specToCompactOptions, o
  <2>2. \A s : OfCompact(Shard(s), cr)
    BY <1>2
  <2>4. n \in Nat \ {0} /\ DOMAIN sharding = 1 .. n
    <3>1. n \in Nat /\ sharding = [i \in 1 .. n |-> sharding[i]]
      BY DEF IsList
    <3> HIDE DEF n
    <3>2. n = 0 => 1 .. n = {}
      OBVIOUS
    <3>3. n = 0 => sharding = <<>>
      BY <3>1, <3>2
    <3> QED BY <1>4, <3>1, <3>3
  <2> HIDE DEF os, Shard, n, sharding
  <2>3. n \in Nat \ {0} /\ DOMAIN os = 1 .. n /\ \A i \in 1 .. n : OfCompact(os[i], cr)
    BY <2>1, <2>2, <2>4
  <2> QED BY <2>3 DEF os
<1> QED BY <1>3, <1>4 DEF sharding

\* The options of a hashring, which may have an object store of its own.
LEMMA IngesterOptions ==
    ASSUME NEW cr, NEW ring, NEW g
    PROVE  LET o == receiverV1Alpha1ToIngesterOptions(cr, ring, g)
           IN  /\ HasCommon(o, cr, cr.spec.ingester.additional)
               /\ {"hashring", "objstore"} \subseteq DOMAIN o
               /\ o.objstore \in {cr.spec.ingester.objstore} \cup ring.objstore
               /\ o.hashring = ring.name
<1>1. HasCommon(receiverV1Alpha1ToIngesterOptions(cr, ring, g), cr, cr.spec.ingester.additional)
  BY CommonOptions, WithCommon DEF receiverV1Alpha1ToIngesterOptions
<1>2. LET o == receiverV1Alpha1ToIngesterOptions(cr, ring, g)
      IN  /\ {"hashring", "objstore"} \subseteq DOMAIN o
          /\ o.hashring = ring.name
          /\ o.objstore = IF ring.objstore = {} THEN cr.spec.ingester.objstore ELSE Some(ring.objstore)
  BY DEF receiverV1Alpha1ToIngesterOptions, WithFields, MergeMaps
<1>3. ring.objstore # {} => Some(ring.objstore) \in ring.objstore
  BY DEF Some
<1> QED BY <1>1, <1>2, <1>3

\* The options of a router.
LEMMA RouterOptions ==
    ASSUME NEW cr, NEW g
    PROVE  HasCommon(specToRouterOptions(cr, g), cr, cr.spec.router.additional)
<1>1. HasCommon(receiverV1Alpha1ToRouterOptions(cr, g), cr, cr.spec.router.additional)
  BY CommonOptions, WithCommon DEF receiverV1Alpha1ToRouterOptions
<1> QED BY <1>1, WithCommon DEF specToRouterOptions

\* What the user adds belongs to the sources of each part.
LEMMA UserAdded ==
    ASSUME NEW cr, IsResource(cr), NEW extra \in Additional(cr), NEW part,
           UserSources(cr) \subseteq part.sources
    PROVE  Added(extra, part)
BY DEF IsResource, Added, UserSources

\* So do the Secrets of its object stores and caches.
LEMMA UserSecrets ==
    ASSUME NEW cr, NEW s \in ConfigSecrets(cr)
    PROVE  <<"Secret", s>> \in UserSources(cr)
BY DEF UserSources

-----------------------------------------------------------------------------
(* What a resource asks for.                                                *)

\* A querier and, if it has one, its frontend (thanosquery_controller.go:151-194).
LEMMA QueryDesired ==
    ASSUME NEW cr, NEW g, NEW os, IsResource(cr), cr.kind = "ThanosQuery", NEW d \in Desired(cr, g, os)
    PROVE  AllAsked(d, Parts(cr, g)) /\ d # <<>>
<1> DEFINE front == IF cr.spec.frontend = {} THEN <<>> ELSE F!Build(Some(buildQueryFrontend(cr, g)))
           parts == Parts(cr, g)
<1>1. PICK eps : d = Q!Build(buildQuery(cr, g, eps)) \o front
  BY DEF Desired
<1>2. AllAsked(Q!Build(buildQuery(cr, g, eps)), parts) /\ Q!Build(buildQuery(cr, g, eps)) # <<>>
  <2> DEFINE o == buildQuery(cr, g, eps)  part == MainPart(cr, g)
             own == [owner |-> cr.name, shard |-> {}, hashring |-> <<>>]
  <2>1. o.owner = cr.name /\ o.extra = cr.spec.additional
    BY QueryOptions DEF HasCommon
  <2>2. /\ part \in parts /\ part.workload = "Deployment" /\ part.names = {QueryNameFromParent(cr.name)}
        /\ part.labels = GetLabelSelectorForOwner(Q!GetSelectorLabels(own)) /\ own.owner = cr.name
        /\ UserSources(cr) \subseteq part.sources
    BY DEF Parts, MainPart, OwnerLabels
  <2>3. Added(o.extra, part)
    <3>1. cr.spec.additional \in Additional(cr)
      BY DEF Additional
    <3> HIDE DEF o, part
    <3> QED BY <2>1, <2>2, <3>1, UserAdded
  <2> HIDE DEF o, part, own, parts
  <2>4. Q!GetGeneratedResourceName(o) = QueryNameFromParent(cr.name)
    BY <2>1 DEF QueryNameFromParent, Q!GetGeneratedResourceName
  <2>5. InstanceOf(Q!GetGeneratedResourceName(o), Q!GetSelectorLabels(o), Q!GetLabels(o), part)
    BY <2>1, <2>2, <2>4, QueryTold DEF InstanceOf
  <2>6. AllAsked(Q!Build(o), parts) /\ Q!Build(o) # <<>>
    BY <2>2, <2>3, <2>5, QueryBuilt
  <2> QED BY <2>6 DEF o
<1>3. AllAsked(front, parts)
  <2>1. CASE cr.spec.frontend = {}
    BY <2>1, AllOfNone
  <2>2. CASE cr.spec.frontend # {}
    <3> DEFINE o == Some(buildQueryFrontend(cr, g))  part == FrontPart(cr)  own == [owner |-> cr.name]
    <3>1. PICK f \in cr.spec.frontend : o = queryV1Alpha1ToQueryFrontEndOptions(cr, f, g)
      BY <2>2 DEF Some, buildQueryFrontend
    <3>2. o.owner = cr.name /\ o.extra = f.additional /\ o.cache.secret = f.cache.external
      BY <3>1, FrontendOptions DEF HasCommon
    <3>3. /\ part \in parts /\ part.workload = "Deployment"
          /\ part.names = {QueryFrontendNameFromParent(cr.name)}
          /\ part.labels = GetLabelSelectorForOwner(F!GetSelectorLabels(own)) /\ own.owner = cr.name
          /\ part.sources = UserSources(cr)
      BY <2>2 DEF Parts, FrontPart
    <3>4. Added(o.extra, part)
      <4>1. f.additional \in Additional(cr)
        BY DEF Additional
      <4> HIDE DEF o, part
      <4> QED BY <3>2, <3>3, <4>1, UserAdded
    <3>5. \A s \in o.cache.secret : <<"Secret", s>> \in part.sources
      <4>1. f.cache.external \subseteq ConfigSecrets(cr)
        BY DEF ConfigSecrets
      <4> HIDE DEF o, part
      <4> QED BY <3>2, <3>3, <4>1, UserSecrets
    <3> HIDE DEF o, part, own, parts
    <3>6. F!GetGeneratedResourceName(o) = QueryFrontendNameFromParent(cr.name)
      BY <3>2 DEF QueryFrontendNameFromParent, F!GetGeneratedResourceName
    <3>7. InstanceOf(F!GetGeneratedResourceName(o), F!GetSelectorLabels(o), F!GetLabels(o), part)
      BY <3>2, <3>3, <3>6, FrontendTold DEF InstanceOf
    <3>8. AllAsked(F!Build(o), parts)
      BY <3>3, <3>4, <3>5, <3>7, FrontendBuilt
    <3> QED BY <2>2, <3>8 DEF o
  <2> QED BY <2>1, <2>2
<1> HIDE DEF front, parts
<1>4. AllAsked(d, parts) /\ d # <<>>
  BY <1>1, <1>2, <1>3, Joined, Longer
<1> QED BY <1>4 DEF parts

\* A ruler, once there is a querier to ask (thanosruler_controller.go:205-288).
LEMMA RulerDesired ==
    ASSUME NEW cr, NEW g, NEW os, IsResource(cr), cr.kind = "ThanosRuler", NEW d \in Desired(cr, g, os)
    PROVE  AllAsked(d, Parts(cr, g)) /\ d # <<>>
<1> DEFINE parts == Parts(cr, g)  part == MainPart(cr, g)
           own == [owner |-> cr.name, shard |-> {}, hashring |-> <<>>]
<1>1. PICK o \in buildRuler(cr, g, os) : d = R!Build(o)
  BY DEF Desired
<1>2. /\ o.owner = cr.name /\ o.extra = cr.spec.additional
      /\ o.ruleFiles = <<>> /\ o.objstore = {s.objstore : s \in cr.spec.stateful}
  BY RulerOptions DEF HasCommon
<1>3. /\ part \in parts /\ part.workload = "StatefulSet" /\ part.names = {RulerNameFromParent(cr.name)}
      /\ part.labels = GetLabelSelectorForOwner(R!GetSelectorLabels(own)) /\ own.owner = cr.name
      /\ UserSources(cr) \subseteq part.sources
      /\ cr.spec.stateful = {} => <<"Secret", RulerNameFromParent(cr.name)>> \in part.sources
  BY DEF Parts, MainPart, OwnerLabels, Kept
<1>4. Added(o.extra, part)
  <2>1. cr.spec.additional \in Additional(cr)
    BY DEF Additional
  <2> HIDE DEF part
  <2> QED BY <1>2, <1>3, <2>1, UserAdded
<1>5. \A s \in o.objstore : <<"Secret", s>> \in part.sources
  <2>1. o.objstore \subseteq ConfigSecrets(cr)
    BY <1>2 DEF ConfigSecrets
  <2> HIDE DEF part
  <2> QED BY <1>3, <2>1, UserSecrets
<1> HIDE DEF parts, part, own
<1>6. R!GetGeneratedResourceName(o) = RulerNameFromParent(cr.name)
  BY <1>2 DEF RulerNameFromParent, R!GetGeneratedResourceName
<1>7. InstanceOf(R!GetGeneratedResourceName(o), R!GetSelectorLabels(o), R!GetLabels(o), part)
  BY <1>2, <1>3, <1>6, RulerTold DEF InstanceOf
<1>8. o.objstore = {} => <<"Secret", R!GetGeneratedResourceName(o)>> \in part.sources
  <2>1. o.objstore = {} => cr.spec.stateful = {}
    BY <1>2
  <2> QED BY <1>3, <1>6, <2>1
<1>9. "generated-remote-write-secret" \notin DOMAIN part.labels
  BY <1>3 DEF GetLabelSelectorForOwner, R!GetSelectorLabels, R!InstanceLabels, R!MergeMaps, R!Label,
              R!GetRequiredLabels, R!ComponentLabels
<1>10. AllAsked(d, parts) /\ d # <<>>
  BY <1>1, <1>2, <1>3, <1>4, <1>5, <1>7, <1>8, <1>9, RulerBuilt
<1> QED BY <1>10 DEF parts

\* The lists of each shard or hashring, one after another.
LEMMA FlattenedLists ==
    ASSUME NEW n \in Nat, NEW lists, lists = [i \in 1 .. n |-> lists[i]], NEW parts,
           \A i \in 1 .. n : AllAsked(lists[i], parts) /\ lists[i] # <<>>
    PROVE  /\ AllAsked(FlattenSeq(lists), parts)
           /\ n # 0 => FlattenSeq(lists) # <<>>
<1> DEFINE T == {lists[i] : i \in 1 .. n}
<1>1. lists \in Seq(T) /\ DOMAIN lists = 1 .. n /\ Len(lists) = n
  OBVIOUS
<1>2. CASE n = 0
  <2>1. lists = <<>>
    BY <1>1, <1>2
  <2>2. FlattenSeq(<<>>) = <<>>
    BY DEF FlattenSeq
  <2> QED BY <1>2, <2>1, <2>2, AllOfNone
<1>3. CASE n # 0
  <2>1. lists # <<>>
    BY <1>1, <1>3
  <2>2. \A i \in DOMAIN lists : AllAsked(lists[i], parts) /\ lists[i] # <<>>
    BY <1>1
  <2> HIDE DEF T
  <2> QED BY <1>1, <2>1, <2>2, Flattened
<1> QED BY <1>2, <1>3

\* A store, shard by shard (thanosstore_controller.go).
LEMMA StoreDesired ==
    ASSUME NEW cr, NEW g, NEW os, IsResource(cr), cr.kind = "ThanosStore", NEW d \in Desired(cr, g, os)
    PROVE  AllAsked(d, Parts(cr, g)) /\ d # <<>>
<1> DEFINE options == specToStoreOptions(cr, g)  parts == Parts(cr, g)  part == MainPart(cr, g)
           own == [owner |-> cr.name, shard |-> {}, hashring |-> <<>>]
<1>1. d = FlattenSeq([i \in DOMAIN options |-> S!Build(options[i])])
  BY DEF Desired
<1>2. PICK n \in Nat \ {0} : DOMAIN options = 1 .. n /\ \A i \in 1 .. n : OfStore(options[i], cr)
  BY StoreOptions DEF IsResource
<1>3. /\ part \in parts /\ part.workload = "StatefulSet" /\ part.names = Kept(cr, g)
      /\ part.labels = GetLabelSelectorForOwner(S!GetSelectorLabels(own))
      /\ own.owner = cr.name /\ own.shard = {}
      /\ UserSources(cr) \subseteq part.sources
  BY DEF Parts, MainPart, OwnerLabels
<1>4. \A i \in DOMAIN options : S!GetGeneratedResourceName(options[i]) \in part.names
  BY <1>3 DEF Kept, Instances
<1>5. cr.spec.additional \in Additional(cr)
        /\ {cr.spec.objstore} \cup cr.spec.indexCache.external
             \cup cr.spec.bucketCache.external \subseteq ConfigSecrets(cr)
  BY DEF Additional, ConfigSecrets
<1> HIDE DEF options, parts, part, own
<1>6. ASSUME NEW i \in 1 .. n
      PROVE  AllAsked(S!Build(options[i]), parts) /\ S!Build(options[i]) # <<>>
  <2> DEFINE o == options[i]
  <2>1. OfStore(o, cr)
    BY <1>2
  <2>2. S!GetGeneratedResourceName(o) \in part.names
    BY <1>2, <1>4
  <2> HIDE DEF o
  <2>3. o.owner = cr.name /\ Added(o.extra, part)
    BY <1>3, <1>5, <2>1, UserAdded DEF OfStore, HasCommon
  <2>4. InstanceOf(S!GetGeneratedResourceName(o), S!GetSelectorLabels(o), S!GetLabels(o), part)
    BY <1>3, <2>2, <2>3, StoreTold DEF InstanceOf
  <2>5. \A s \in {o.objstore} \cup o.indexCache.secret \cup o.bucketCache.secret :
           <<"Secret", s>> \in part.sources
    BY <1>3, <1>5, <2>1, UserSecrets DEF OfStore
  <2>6. AllAsked(S!Build(o), parts) /\ S!Build(o) # <<>>
    BY <1>3, <2>3, <2>4, <2>5, StoreBuilt
  <2> QED BY <2>6 DEF o
<1> DEFINE lists == [i \in 1 .. n |-> S!Build(options[i])]
<1>7. d = FlattenSeq(lists)
  BY <1>1, <1>2
<1>8. lists = [i \in 1 .. n |-> lists[i]] /\ \A i \in 1 .. n : lists[i] = S!Build(options[i])
  OBVIOUS
<1> HIDE DEF lists
<1>9. AllAsked(d, parts) /\ d # <<>>
  BY <1>6, <1>7, <1>8, FlattenedLists
<1> QED BY <1>9 DEF parts

\* A compactor, shard by shard.
LEMMA CompactDesired ==
    ASSUME NEW cr, NEW g, NEW os, IsResource(cr), cr.kind = "ThanosCompact",
           NEW d \in Desired(cr, g, os)
    PROVE  AllAsked(d, Parts(cr, g)) /\ d # <<>>
<1> DEFINE options == specToCompactOptions(cr, g)  parts == Parts(cr, g)  part == MainPart(cr, g)
           own == [owner |-> cr.name, shard |-> {}, hashring |-> <<>>]
<1>1. d = FlattenSeq([i \in DOMAIN options |-> C!Build(options[i])])
  BY DEF Desired
<1>2. PICK n \in Nat \ {0} : DOMAIN options = 1 .. n /\ \A i \in 1 .. n : OfCompact(options[i], cr)
  BY CompactOptions DEF IsResource
<1>3. /\ part \in parts /\ part.workload = "StatefulSet" /\ part.names = Kept(cr, g)
      /\ part.labels = GetLabelSelectorForOwner(C!GetSelectorLabels(own))
      /\ own.owner = cr.name /\ own.shard = {}
      /\ UserSources(cr) \subseteq part.sources
  BY DEF Parts, MainPart, OwnerLabels
<1>4. \A i \in DOMAIN options : C!GetGeneratedResourceName(options[i]) \in part.names
  BY <1>3 DEF Kept, Instances
<1>5. cr.spec.additional \in Additional(cr) /\ {cr.spec.objstore} \subseteq ConfigSecrets(cr)
  BY DEF Additional, ConfigSecrets
<1> HIDE DEF options, parts, part, own
<1>6. ASSUME NEW i \in 1 .. n
      PROVE  AllAsked(C!Build(options[i]), parts) /\ C!Build(options[i]) # <<>>
  <2> DEFINE o == options[i]
  <2>1. OfCompact(o, cr)
    BY <1>2
  <2>2. C!GetGeneratedResourceName(o) \in part.names
    BY <1>2, <1>4
  <2> HIDE DEF o
  <2>3. o.owner = cr.name /\ Added(o.extra, part)
    BY <1>3, <1>5, <2>1, UserAdded DEF OfCompact, HasCommon
  <2>4. InstanceOf(C!GetGeneratedResourceName(o), C!GetSelectorLabels(o), C!GetLabels(o), part)
    BY <1>3, <2>2, <2>3, CompactTold DEF InstanceOf
  <2>5. <<"Secret", o.objstore>> \in part.sources
    BY <1>3, <1>5, <2>1, UserSecrets DEF OfCompact
  <2>6. AllAsked(C!Build(o), parts) /\ C!Build(o) # <<>>
    BY <1>3, <2>3, <2>4, <2>5, CompactBuilt
  <2> QED BY <2>6 DEF o
<1> DEFINE lists == [i \in 1 .. n |-> C!Build(options[i])]
<1>7. d = FlattenSeq(lists)
  BY <1>1, <1>2
<1>8. lists = [i \in 1 .. n |-> lists[i]] /\ \A i \in 1 .. n : lists[i] = C!Build(options[i])
  OBVIOUS
<1> HIDE DEF lists
<1>9. AllAsked(d, parts) /\ d # <<>>
  BY <1>6, <1>7, <1>8, FlattenedLists
<1> QED BY <1>9 DEF parts

\* A receiver: its hashrings and its router (thanosreceive_controller.go:243-264).
LEMMA ReceiveDesired ==
    ASSUME NEW cr, NEW g, NEW os, IsResource(cr), cr.kind = "ThanosReceive",
           NEW d \in Desired(cr, g, os)
    PROVE  AllAsked(d, Parts(cr, g)) /\ d # <<>>
<1> DEFINE options == specToIngestOptions(cr, g)  parts == Parts(cr, g)  part == MainPart(cr, g)
           rings == cr.spec.ingester.rings  n == Len(rings)
           own == [owner |-> cr.name, shard |-> {}, hashring |-> <<>>]
<1>1. PICK ranged \in Rangings(options), router \in Ranged(specToRouterOptions(cr, g)) :
         d = FlattenSeq([i \in DOMAIN ranged |-> I!BuildIngester(ranged[i])]) \o I!BuildRouter(router)
  BY DEF Desired
<1> DEFINE ingesters == FlattenSeq([i \in DOMAIN ranged |-> I!BuildIngester(ranged[i])])
<1>1a. d = ingesters \o I!BuildRouter(router)
  BY <1>1
<1>2. n \in Nat /\ DOMAIN rings = 1 .. n
  <2>1. n \in Nat /\ rings = [i \in 1 .. n |-> rings[i]]
    BY DEF IsList, IsResource
  <2> HIDE DEF n, rings
  <2> QED BY <2>1
<1>3. options = [i \in DOMAIN rings |-> receiverV1Alpha1ToIngesterOptions(cr, rings[i], g)]
  BY DEF specToIngestOptions
<1>4. /\ part \in parts /\ part.workload = "StatefulSet" /\ part.names = Kept(cr, g)
      /\ part.labels = GetLabelSelectorForOwner(I!IngesterSelector(own))
      /\ own.owner = cr.name /\ own.hashring = <<>>
      /\ UserSources(cr) \subseteq part.sources
  BY DEF Parts, MainPart, OwnerLabels
<1>5. \A i \in DOMAIN options : I!IngesterName(options[i]) \in part.names
  BY <1>4 DEF Kept, Instances
<1>6. /\ cr.spec.ingester.additional \in Additional(cr)
      /\ {cr.spec.ingester.objstore} \cup (UNION {rings[i].objstore : i \in DOMAIN rings})
           \subseteq ConfigSecrets(cr)
  BY DEF Additional, ConfigSecrets, ToSet
<1> HIDE DEF options, parts, part, rings, n, own
<1>7. /\ DOMAIN options = 1 .. n /\ DOMAIN ranged = 1 .. n
      /\ \A i \in 1 .. n : ranged[i] \in Ranged(options[i])
  BY <1>1, <1>2, <1>3 DEF Rangings
<1>8. ASSUME NEW i \in 1 .. n
      PROVE  AllAsked(I!BuildIngester(ranged[i]), parts) /\ I!BuildIngester(ranged[i]) # <<>>
  <2> DEFINE asked == options[i]  o == ranged[i]
  <2>1. asked = receiverV1Alpha1ToIngesterOptions(cr, rings[i], g) /\ i \in DOMAIN rings
    BY <1>2, <1>3
  <2>2. I!IngesterName(asked) \in part.names /\ o \in Ranged(asked)
    BY <1>5, <1>7
  <2> HIDE DEF asked, o
  <2>3. /\ o.owner = cr.name /\ o.extra = cr.spec.ingester.additional
        /\ o.objstore \in {cr.spec.ingester.objstore} \cup rings[i].objstore
        /\ I!IngesterName(o) \in part.names
    <3>1. /\ asked.owner = cr.name /\ asked.extra = cr.spec.ingester.additional
          /\ asked.objstore \in {cr.spec.ingester.objstore} \cup rings[i].objstore
          /\ {"owner", "extra", "objstore", "hashring"} \subseteq DOMAIN asked
      BY <2>1, IngesterOptions DEF HasCommon
    <3>2. \A f \in {"owner", "extra", "objstore", "hashring"} : o[f] = asked[f]
      BY <2>2, <3>1, RangedOptions
    <3>3. I!IngesterName(o) = I!IngesterName(asked)
      BY <3>2 DEF I!IngesterName
    <3> QED BY <2>2, <3>1, <3>2, <3>3
  <2>4. Added(o.extra, part)
    BY <1>4, <1>6, <2>3, UserAdded
  <2>5. InstanceOf(I!IngesterName(o), I!IngesterSelector(o), I!GetIngesterLabels(o), part)
    BY <1>4, <2>3, IngesterTold DEF InstanceOf
  <2>6. <<"Secret", o.objstore>> \in part.sources
    <3>1. o.objstore \in ConfigSecrets(cr)
      BY <1>6, <2>1, <2>3
    <3> QED BY <1>4, <3>1, UserSecrets
  <2>7. AllAsked(I!BuildIngester(o), parts) /\ I!BuildIngester(o) # <<>>
    BY <1>4, <2>4, <2>5, <2>6, IngesterBuilt
  <2> QED BY <2>7 DEF o
<1>9. AllAsked(ingesters, parts)
  <2> DEFINE lists == [i \in 1 .. n |-> I!BuildIngester(ranged[i])]
  <2>1. ingesters = FlattenSeq(lists)
    BY <1>7
  <2>2. lists = [i \in 1 .. n |-> lists[i]] /\ \A i \in 1 .. n : lists[i] = I!BuildIngester(ranged[i])
    OBVIOUS
  <2> HIDE DEF lists
  <2> QED BY <1>2, <1>8, <2>1, <2>2, FlattenedLists
<1>10. AllAsked(I!BuildRouter(router), parts) /\ I!BuildRouter(router) # <<>>
  <2> DEFINE other == RouterPart(cr)  theirs == [owner |-> cr.name]
  <2>1. router.owner = cr.name /\ router.extra = cr.spec.router.additional
    <3> DEFINE base == specToRouterOptions(cr, g)
    <3>1. HasCommon(base, cr, cr.spec.router.additional)
      BY RouterOptions
    <3> HIDE DEF base
    <3>2. router \in Ranged(base)
      BY <1>1 DEF base
    <3> QED BY <3>1, <3>2, RangedOptions DEF HasCommon
  <2>2. /\ other \in parts /\ other.workload = "Deployment" /\ other.names = RouterNames(cr)
        /\ other.labels = GetLabelSelectorForOwner(I!RouterSelector(theirs)) /\ theirs.owner = cr.name
        /\ other.sources = UserSources(cr)
    BY DEF Parts, RouterPart, parts
  <2>3. cr.spec.router.additional \in Additional(cr)
    BY DEF Additional
  <2> HIDE DEF other, theirs
  <2>4. Added(router.extra, other)
    BY <2>1, <2>2, <2>3, UserAdded
  <2>5. I!RouterName(router) = ReceiveRouterNameFromParent(cr.name)
    BY <2>1 DEF I!RouterName, ReceiveRouterNameFromParent
  <2>6. I!RouterName(router) \in other.names
          /\ I!RouterName(router) \o <<"-", I!SyncContainer>> \in other.names
    BY <2>2, <2>5 DEF RouterNames
  <2>7. InstanceOf(I!RouterName(router), I!RouterSelector(router), I!GetRouterLabels(router), other)
    BY <2>1, <2>2, <2>6, RouterTold DEF InstanceOf
  <2> QED BY <2>2, <2>4, <2>6, <2>7, RouterBuilt
<1> HIDE DEF ingesters
<1>11. AllAsked(d, parts) /\ d # <<>>
  BY <1>1a, <1>9, <1>10, Joined, Longer
<1> QED BY <1>11 DEF parts

\* Whatever a resource of any kind asks for, for any gates and objects found, is of
\* one of its parts, and it asks for something.
THEOREM DesiredAsked ==
    ASSUME NEW cr, NEW g, NEW os, IsResource(cr), NEW d \in Desired(cr, g, os)
    PROVE  AllAsked(d, Parts(cr, g)) /\ d # <<>>
BY QueryDesired, RulerDesired, StoreDesired, CompactDesired, ReceiveDesired DEF IsResource
=============================================================================
