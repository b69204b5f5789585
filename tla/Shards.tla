-------------------------------- MODULE Shards --------------------------------
(***************************************************************************)
(* The instances a ThanosCompact or a ThanosStore resource asks for, and   *)
(* the blocks of the object store each of them keeps (specToOptions in     *)
(* thanoscompact_controller.go and thanosstore_controller.go).             *)
(*                                                                         *)
(* A block is the hash of its ID; what its external labels are is given by *)
(* the matchers that keep it.  An instance is a generated resource name.   *)
(***************************************************************************)
EXTENDS Integers

CONSTANTS
    Blocks,      \* the blocks in the object store
    ShardNames,  \* the names a user may give to compact shards
    MaxShards,   \* bound: the largest number of store shards
    Absent       \* no such instance

ASSUME BlocksAssumption     == Blocks \subseteq Nat
ASSUME ShardNamesAssumption == ShardNames \subseteq Nat
ASSUME MaxShardsAssumption  == MaxShards \in Nat \ {0}
ASSUME AbsentAssumption     == \A kept \in SUBSET Blocks : kept # Absent

Whole     == -1  \* the instance without a shard in its name
Instances == {Whole} \cup ShardNames \cup 0 .. MaxShards - 1
Layout    == [Instances -> {Absent} \cup SUBSET Blocks]

Named(layout) == {i \in Instances : layout[i] # Absent}

Unsharded == [i \in Instances |-> IF i = Whole THEN Blocks ELSE Absent]

\* A block passes when every "keep" of the shard does; with none all pass.
Kept(matchers) == {b \in Blocks : \A m \in matchers : b \in m}

(***************************************************************************)
(* Compact: explicit shards, a function from names to sets of matchers, or *)
(* one instance for everything when there are none.                        *)
(***************************************************************************)
compactOptions(sharding) ==
    IF DOMAIN sharding = {} THEN Unsharded
    ELSE [i \in Instances |-> IF i \in DOMAIN sharding THEN Kept(sharding[i]) ELSE Absent]

(***************************************************************************)
(* Store: shard i of n keeps the blocks whose hash is i modulo n.          *)
(***************************************************************************)
storeOptions(shards) ==
    IF shards \in {0, 1} THEN Unsharded
    ELSE [i \in Instances |->
            IF i \in 0 .. shards - 1 THEN {b \in Blocks : b % shards = i} ELSE Absent]

\* No block is kept by two instances.
Disjoint(layout) ==
    \A i, j \in Named(layout) : i # j => layout[i] \cap layout[j] = {}
===============================================================================
