------------------------------- MODULE MCShards -------------------------------
(***************************************************************************)
(* Small instances of ShardedWorkloads for TLC.                            *)
(***************************************************************************)
EXTENDS ShardedWorkloads, TLC

\* Shardings in which a name always stands for the same blocks: everything in
\* one compactor, and two ways to split.
StableShardings ==
    {<<>>,
     1 :> {{0, 1}, {0, 2}} @@ 2 :> {{1, 2}},
     2 :> {{1, 2}} @@ 3 :> {{0}}}

\* Block 1 moves from one shard to another.
MovingShardings ==
    {1 :> {{0}} @@ 2 :> {{1, 2}},
     1 :> {{0, 1}} @@ 2 :> {{2}}}
===============================================================================
