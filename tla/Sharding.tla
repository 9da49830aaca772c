------------------------------ MODULE Sharding ------------------------------
(***************************************************************************)
(* How a pushdown splits a table's files over the scan calls               *)
(* (crates/lakehouse-engine/src/adapter/sharding.rs, exasol.rs): the       *)
(* number of groups follows the cluster, then a longest-processing-time    *)
(* greedy fills the lightest shard with the heaviest file left.            *)
(*                                                                         *)
(* A file is its position in the list the format planned, 1 .. n.  The     *)
(* split is a step of planning, beside the modules of the plans, and its   *)
(* names say so: SplitInit, SplitNext, SplitSpec.                          *)
(***************************************************************************)
EXTENDS Integers, Sequences, FiniteSets

CONSTANTS
    MaxFiles,          \* bound on the files of the table
    MaxSize,           \* bound on a file's size in bytes
    MaxNodes,          \* bound on the cluster's nodes
    MaxFactor,         \* bound on PARALLELISM_FACTOR
    MAX_GROUP_COUNT    \* groups Exasol still distributes round-robin

ASSUME ShardingAssumption ==
    /\ MaxFiles \in Nat
    /\ MaxSize \in Nat
    /\ MaxNodes \in Nat
    /\ MaxFactor \in Nat
    /\ MAX_GROUP_COUNT \in Nat \ {0}

VARIABLES
    progress,   \* "counting", "placing", "dispatched"
    size,       \* the file sizes in planned order
    nodes,      \* cluster_nodes
    factor,     \* parallelism_factor
    unplaced,   \* files the loop has still to place
    shards,     \* the file list of every shard
    bytes       \* the balancing weight of every shard

splitVars == <<progress, size, nodes, factor, unplaced, shards, bytes>>

Files == DOMAIN size
ShardIds == DOMAIN shards

Clamp(x, low, high) == IF x < low THEN low ELSE IF x > high THEN high ELSE x

group_count(node_count, per_node, upper_bound) ==
    Clamp(node_count * per_node, 1, Clamp(upper_bound, 1, MAX_GROUP_COUNT))

\* The count partition_files_by_bytes clamps once more to [1, files.len()].
ShardCount(n, file_count) == Clamp(n, 1, file_count)

\* Mutant: an empty file weighs nothing.
RawWeight(f) == size[f]

\* A 0-byte file weighs 1 for balancing only.
Weight(f) == IF size[f] = 0 THEN 1 ELSE size[f]

\* Mutant: the files are placed in planned order.
FirstPlanned(f) == \A g \in unplaced : f <= g

\* The stable descending sort: the heaviest file, the first of equals.
Heaviest(f) ==
    \A g \in unplaced : Weight(f) > Weight(g) \/ (Weight(f) = Weight(g) /\ f <= g)

\* min_by_key: the lightest shard, the first of equals.
Lightest(s) ==
    \A t \in ShardIds : bytes[s] < bytes[t] \/ (bytes[s] = bytes[t] /\ s <= t)

SplitInit ==
    /\ progress = "counting"
    /\ \E n \in 0 .. MaxFiles : size \in [1 .. n -> 0 .. MaxSize]
    /\ nodes \in 0 .. MaxNodes
    /\ factor \in 0 .. MaxFactor
    /\ unplaced = {}
    /\ shards = <<>>
    /\ bytes = <<>>

\* No file is left after pruning: the adapter answers without a scan call.
NoFiles ==
    /\ progress = "counting"
    /\ Files = {}
    /\ progress' = "dispatched"
    /\ UNCHANGED <<size, nodes, factor, unplaced, shards, bytes>>

\* Mutant: the weights are counted for the clamped shards only.
StartUnclamped ==
    /\ progress = "counting"
    /\ Files # {}
    /\ LET n == ShardCount(group_count(nodes, factor, Len(size)), Len(size))
       IN  /\ shards' = [s \in 1 .. nodes * factor |-> <<>>]
           /\ bytes' = [s \in 1 .. n |-> 0]
    /\ unplaced' = Files
    /\ progress' = "placing"
    /\ UNCHANGED <<size, nodes, factor>>

StartShards ==
    /\ progress = "counting"
    /\ Files # {}
    /\ LET n == ShardCount(group_count(nodes, factor, Len(size)), Len(size))
       IN  /\ shards' = [s \in 1 .. n |-> <<>>]
           /\ bytes' = [s \in 1 .. n |-> 0]
    /\ unplaced' = Files
    /\ progress' = "placing"
    /\ UNCHANGED <<size, nodes, factor>>

\* Mutant: the file stays in the list and is placed again.
PlaceAndKeep(f, s) ==
    /\ progress = "placing"
    /\ f \in unplaced /\ Heaviest(f)
    /\ Lightest(s)
    /\ shards' = [shards EXCEPT ![s] = Append(@, f)]
    /\ bytes' = [bytes EXCEPT ![s] = @ + Weight(f)]
    /\ unplaced' = IF bytes[s] = 0 THEN unplaced ELSE unplaced \ {f}
    /\ UNCHANGED <<progress, size, nodes, factor>>

Place(f, s) ==
    /\ progress = "placing"
    /\ f \in unplaced /\ Heaviest(f)
    /\ Lightest(s)
    /\ shards' = [shards EXCEPT ![s] = Append(@, f)]
    /\ bytes' = [bytes EXCEPT ![s] = @ + Weight(f)]
    /\ unplaced' = unplaced \ {f}
    /\ UNCHANGED <<progress, size, nodes, factor>>

Dispatch ==
    /\ progress = "placing"
    /\ unplaced = {}
    /\ progress' = "dispatched"
    /\ UNCHANGED <<size, nodes, factor, unplaced, shards, bytes>>

Dispatched ==
    /\ progress = "dispatched"
    /\ UNCHANGED splitVars

SplitNext ==
    \/ NoFiles
    \/ StartShards
    \/ \E f \in Files, s \in ShardIds : Place(f, s)
    \/ Dispatch
    \/ Dispatched

SplitSpec == SplitInit /\ [][SplitNext]_splitVars

-----------------------------------------------------------------------------
SplitTypeOK ==
    /\ progress \in {"counting", "placing", "dispatched"}
    /\ size \in Seq(Nat)
    /\ nodes \in Nat
    /\ factor \in Nat
    /\ unplaced \subseteq Files
    /\ shards \in Seq(Seq(Files))
    /\ bytes \in [ShardIds -> Nat]

\* Every planned file reaches exactly one scan call, once: a file in two shards
\* would double its rows, a file in none would lose them.
EachFileOnce ==
    /\ \A s, t \in ShardIds : \A k \in DOMAIN shards[s], l \in DOMAIN shards[t] :
         shards[s][k] = shards[t][l] => s = t /\ k = l
    /\ progress = "dispatched" =>
         \A f \in Files : \E s \in ShardIds : \E k \in DOMAIN shards[s] : shards[s][k] = f

\* No scan call is made for nothing: a shard without files would emit an
\* unfiltered NULL partial, and its GROUP BY group would cost a VM.
NoShardEmpty ==
    progress = "dispatched" => \A s \in ShardIds : shards[s] # <<>>

\* The split is locally optimal: no single file can move to another shard and
\* leave the heavier of the two lighter.  Needs the descending order.
NoSingleMoveHelps ==
    \A s, t \in ShardIds : \A k \in DOMAIN shards[s] :
        bytes[s] <= bytes[t] + Weight(shards[s][k])

\* The groups stay within what Exasol distributes round-robin and what the
\* cluster asks for, and one group always exists.
GroupsWithinReach ==
    progress # "counting" /\ Files # {} =>
        /\ Len(shards) \in 1 .. MAX_GROUP_COUNT
        /\ Len(shards) <= Len(size)
        /\ Len(shards) <= nodes * factor \/ Len(shards) = 1
=============================================================================
