------------------------------- MODULE Shards -------------------------------
(***************************************************************************)
(* Shards: SHARD places every document and page by its identifier,         *)
(* REBALANCE places them anew by their weight, SHARDINFO lists the loads   *)
(* (src/src/shards.cpp).                                                   *)
(***************************************************************************)
EXTENDS Sources

CONSTANTS
    ShardLimit,     \* most shards (the code: 64)
    Slack,          \* share of the target a full shard is relieved of (16)
    ShardCounts,    \* numbers of shards commands ask for
    ShardTargets    \* loads commands aim at

ASSUME ShardConstants ==
    /\ ShardLimit \in Nat
    /\ Slack \in Nat \ {0}
    /\ ShardTargets \subseteq Nat

VARIABLES
    shards,         \* Store.shards: placements, by object, and loads
    aimed           \* history: the target of REBALANCE since SHARD, or 0

shardVars == <<shards, aimed>>

ShardInit ==
    /\ shards = [placements |-> Empty, load |-> Empty, ready |-> FALSE]
    /\ aimed = 0

\* The weights of what SHARD places, by kind and identifier.
Weights ==
    [object \in ({"doc"} \X DOMAIN documents) \cup ({"page"} \X DOMAIN pages) |->
        IF object[1] = "doc"
        THEN SizeOf(documents[object[2]].title) + SizeOf(documents[object[2]].body)
        ELSE SizeOf(pages[object[2]].bytes)]

Placed(placements, shard) ==
    {object \in DOMAIN placements : placements[object].shard = shard}

WeightOf(placements, objects) ==
    LET sum[some \in SUBSET objects] ==
            IF some = {} THEN 0
            ELSE LET next == CHOOSE object \in some : TRUE
                 IN  placements[next].weight + sum[some \ {next}]
    IN  sum[objects]

-----------------------------------------------------------------------------
(* SHARD count: the old shards are gone when there is nothing to place. *)

ShardCheck(count) ==
    IF count \notin 1..ShardLimit THEN "limit"
    ELSE IF DOMAIN Weights = {} THEN "invalid_state" ELSE "ok"

AssignShards(count) ==
    LET placements == [object \in DOMAIN Weights |->
                          [shard |-> object[2] % count, weight |-> Weights[object]]]
    IN  /\ status' = ShardCheck(count)
        /\ IF status' = "limit" THEN UNCHANGED shardVars
           ELSE /\ shards' = [placements |-> placements,
                              load  |-> [shard \in 0..(count - 1) |->
                                  WeightOf(placements, Placed(placements, shard))],
                              ready |-> shards.ready \/ status' = "ok"]
                /\ aimed' = 0

-----------------------------------------------------------------------------
(* REBALANCE target *)

\* lightest_shard: the first of the least loaded.
Lightest(load) ==
    Min({shard \in DOMAIN load : \A other \in DOMAIN load : load[shard] <= load[other]})

\* Mutant: a load at the target is relieved too, of a whole target.
RelievedWhole(load, target) == IF load >= target THEN load - target ELSE load

\* A load above the target counts for less than it is from then on.
Relieved(load, target) == IF load > target THEN load - (target \div Slack) ELSE load

\* The heavier objects first; std::sort leaves the order of equals open.
ByWeight(placements) ==
    {order \in Bijection(1..Cardinality(DOMAIN placements), DOMAIN placements) :
        \A i \in 1..(Len(order) - 1) :
            placements[order[i]].weight >= placements[order[i + 1]].weight}

\* The next object goes to the lightest shard, which then counts it.
Place(state, object, target) ==
    LET shard  == Lightest(state.load)
        weight == state.placements[object].weight
    IN  [state EXCEPT !.placements[object].shard = shard,
                      !.load[shard] = Relieved(@ + weight, target)]

\* The objects placed one after the other.
PlacedAnew(start, order, target) ==
    LET after[n \in 0..Len(order)] ==
            IF n = 0 THEN start ELSE Place(after[n - 1], order[n], target)
    IN  after[Len(order)]

RebalanceCheck(target) ==
    IF ~shards.ready THEN "invalid_state" ELSE IF target = 0 THEN "limit" ELSE "ok"

RebalanceShards(target) ==
    /\ status' = RebalanceCheck(target)
    /\ IF status' = "ok"
       THEN /\ \E order \in ByWeight(shards.placements) :
                  shards' = PlacedAnew([shards EXCEPT !.load = [s \in DOMAIN @ |-> 0]],
                                       order, target)
            /\ aimed' = target
       ELSE UNCHANGED shardVars

-----------------------------------------------------------------------------
(* SHARDINFO: its lines belong to the inspection lines of Checkpoints. *)
InspectShards ==
    /\ status' = IF shards.ready THEN "ok" ELSE "invalid_state"
    /\ UNCHANGED shardVars

-----------------------------------------------------------------------------
ShardNext ==
    \/ \E count \in ShardCounts : AssignShards(count)
    \/ \E target \in ShardTargets : RebalanceShards(target)
    \/ InspectShards

(* The loads account for the placements: exactly after SHARD, and after     *)
(* REBALANCE short by no more than the relief of each object placed there.  *)
(* Where the target is too small for a relief, they are exact again, and no *)
(* shard is heavier than another by more than its heaviest object.          *)
LoadsAccount ==
    LET relief == aimed \div Slack
        Objects(shard) == Placed(shards.placements, shard)
        Weight(shard)  == WeightOf(shards.placements, Objects(shard))
    IN  \A shard \in DOMAIN shards.load :
          /\ shards.load[shard] <= Weight(shard)
          /\ Weight(shard) - shards.load[shard] <= relief * Cardinality(Objects(shard))
          /\ aimed # 0 /\ relief = 0 =>
                \A other \in DOMAIN shards.load : Objects(shard) # {} =>
                    Weight(shard) <= Weight(other)
                        + Max({shards.placements[o].weight : o \in Objects(shard)})
=============================================================================
