------------------------------ MODULE Indexes ------------------------------
(***************************************************************************)
(* The indexes of one journal: rows, links, the filter, the skip index,    *)
(* query plans, packed blocks and normalized documents, with the store     *)
(* they are built from (dispatch_query and dispatch_codec of               *)
(* src/src/engine.cpp).  Each keeps what it was built from; the store goes *)
(* on under it.  A step is one command; of the commands on the store only  *)
(* those that succeed, since Archive has the others.                       *)
(***************************************************************************)
EXTENDS Planner, Blocks, Normalizer

CONSTANT
    MaxCommands     \* bound of the model: commands of a journal

ASSUME IndexesConstants ==
    /\ MaxCommands \in Nat
    /\ DocIds \cup PageIds \subseteq Nat

VARIABLE
    ran             \* history: how many commands ran

indexVars == <<holdVars, epoch, rowVars, linkVars, bloomVars, skipVars, planVars,
          blocks, normalizerVars, status, ran>>

IndexInit ==
    /\ HoldInit
    /\ RowInit
    /\ LinkInit
    /\ BloomInit
    /\ SkipInit
    /\ PlanInit
    /\ BlockInit
    /\ NormalizerInit
    /\ epoch = 0
    /\ status = "ok"
    /\ ran = 0

\* A command on the store; a restore puts other pages under the skip index.
StoreNext ==
    /\ HoldNext
    /\ status' = "ok"
    /\ replaced' = (replaced \/ \E id \in SnapshotIds : RestoreSnapshot(id))
    /\ UNCHANGED <<rowVars, linkVars, bloomVars, skip, planVars, blocks,
                   normalizerVars>>

IndexNext ==
    \/ RowNext /\ UNCHANGED <<linkVars, bloomVars, skipVars, planVars, blocks,
                              normalizerVars>>
    \/ LinkNext /\ UNCHANGED <<rowVars, bloomVars, skipVars, planVars, blocks,
                               normalizerVars>>
    \/ BloomNext /\ UNCHANGED <<rowVars, linkVars, skipVars, planVars, blocks,
                                normalizerVars>>
    \/ SkipNext /\ UNCHANGED <<rowVars, linkVars, bloomVars, planVars, blocks,
                               normalizerVars>>
    \/ PlanNext /\ UNCHANGED <<rowVars, linkVars, bloomVars, skipVars, blocks,
                               normalizerVars>>
    \/ BlockNext /\ UNCHANGED <<rowVars, linkVars, bloomVars, skipVars, planVars,
                                normalizerVars>>
    \/ NormalizerNext /\ UNCHANGED <<rowVars, linkVars, bloomVars, skipVars,
                                     planVars, blocks>>

IndexStep ==
    /\ Continues(status)
    /\ ran < MaxCommands
    /\ ran' = ran + 1
    /\ \/ StoreNext
       \/ IndexNext /\ UNCHANGED <<holdVars, epoch>>

IndexSpec == IndexInit /\ [][IndexStep]_indexVars

-----------------------------------------------------------------------------
(* A reading through an index goes outside what it reads in one way only:   *)
(* a PROJECT whose schema came after its row, or hides the end of a field.  *)
(* In particular the link EXPORT takes is always in the table, whatever     *)
(* tables and selections came before.                                       *)
ReadsInside ==
    /\ FieldsInRow
    /\ selected \in 0..Len(links)
=============================================================================
