------------------------------- MODULE Nodes -------------------------------
(***************************************************************************)
(* Nodes, watches and the watch review: NODE, WATCH, DROP, AUDIT,          *)
(* WATCHSNAP and WATCHREVIEW (src/src/store.cpp, delta.cpp, audit.cpp,     *)
(* watch_review.cpp).                                                      *)
(*                                                                         *)
(* The relation and timeline counts a watch snapshot also records are read *)
(* from other components and left out; the notes are abstracted to which   *)
(* report they hold.                                                       *)
(***************************************************************************)
EXTENDS Store

CONSTANTS
    NodeIds,          \* node identifiers
    Values,           \* node values
    NodeAddresses,    \* addresses of Node objects
    Tags,             \* valid tags of a watch snapshot (the code: not 0)
    NoTag,            \* the reserved tag 0, and "no anchor yet"
    MaxWatches        \* bound of the model: watches alive at a time

ASSUME NodeConstants ==
    /\ NoTag \notin Tags
    /\ MaxWatches \in Nat

VARIABLES
    nodes,            \* Store.nodes: id |-> object and value
    watches,          \* Store.watches: Node objects
    outdatedWatches,  \* history: watches whose node was dropped since
    watchedIds,       \* history: nodes watched since they were added
    review            \* Store.watch_review: anchor, snapshots, notes

nodeVars == <<nodes, watches, outdatedWatches, watchedIds, review>>

ReviewModes == {"summary", "relations", "timeline", "all"}

NodeInit ==
    /\ nodes = [id \in {} |-> 0]
    /\ watches = <<>>
    /\ outdatedWatches = {}
    /\ watchedIds = {}
    /\ review = [anchor |-> NoTag, snapshots |-> [id \in {} |-> 0],
                 notes |-> "none"]

LiveNodes == {nodes[id].object : id \in DOMAIN nodes}

FreeNodes == NodeAddresses \ LiveNodes

Watched == {watches[i] : i \in DOMAIN watches}

-----------------------------------------------------------------------------
(* NODE id value *)

AddNode(id, value) ==
    /\ status' = IF id \in DOMAIN nodes THEN "invalid_state" ELSE "ok"
    /\ IF status' = "ok"
       THEN \E address \in FreeNodes :
               nodes' = Put(nodes, id, [object |-> address, value |-> value])
       ELSE UNCHANGED nodes
    /\ UNCHANGED <<watches, outdatedWatches, watchedIds, review, epoch>>

-----------------------------------------------------------------------------
(* WATCH id *)

WatchNode(id) ==
    /\ Len(watches) < MaxWatches
    /\ status' = IF id \in DOMAIN nodes THEN "ok" ELSE "not_found"
    /\ IF status' = "ok"
       THEN /\ watches' = Append(watches, nodes[id].object)
            /\ watchedIds' = watchedIds \cup {id}
       ELSE UNCHANGED <<watches, watchedIds>>
    /\ UNCHANGED <<nodes, outdatedWatches, review, epoch>>

-----------------------------------------------------------------------------
(* DROP id: the node goes, the watches on it stay. *)

DropNode(id) ==
    /\ status' = IF id \in DOMAIN nodes THEN "ok" ELSE "not_found"
    /\ IF status' = "ok"
       THEN /\ nodes' = Restrict(nodes, DOMAIN nodes \ {id})
            /\ outdatedWatches' = outdatedWatches \cup
                   {i \in DOMAIN watches : watches[i] = nodes[id].object}
            /\ watchedIds' = watchedIds \ {id}
            /\ NextEpoch
       ELSE UNCHANGED <<nodes, outdatedWatches, watchedIds, epoch>>
    /\ UNCHANGED <<watches, review>>

-----------------------------------------------------------------------------
(* AUDIT: reads every watched node through its pointer; never fails. *)

AuditWatches ==
    /\ status' \in ReadOutcome(Watched \subseteq LiveNodes)
    /\ UNCHANGED <<nodeVars, epoch>>

-----------------------------------------------------------------------------
(* WATCHSNAP tag: the nodes whose address is among the watches.  The old    *)
(* review is discarded, and the anchor set, before the check for none.      *)

\* Mutant: every node is listed, watched or not.
SnapshotOfAll == [id \in DOMAIN nodes |-> nodes[id].value]

Snapshot ==
    LET listed == {id \in DOMAIN nodes : nodes[id].object \in Watched}
    IN  [id \in listed |-> nodes[id].value]

SnapshotWatches(tag) ==
    /\ status' = IF tag = NoTag THEN "limit"
                 ELSE IF DOMAIN Snapshot = {} THEN "invalid_state" ELSE "ok"
    /\ review' = IF tag = NoTag THEN review
                 ELSE [anchor |-> tag, snapshots |-> Snapshot,
                       notes |-> IF status' = "ok" THEN "header" ELSE "none"]
    /\ UNCHANGED <<nodes, watches, outdatedWatches, watchedIds, epoch>>

-----------------------------------------------------------------------------
(* WATCHREVIEW mode: the notes are cleared before the mode is looked at, so *)
(* an unknown mode is unsupported and loses them.                           *)

ReviewWatchState(mode) ==
    /\ status' = IF DOMAIN review.snapshots = {} THEN "invalid_state"
                 ELSE IF mode = "" THEN "limit"
                 ELSE IF mode \notin ReviewModes THEN "unsupported" ELSE "ok"
    /\ review' = CASE status' = "ok"          -> [review EXCEPT !.notes = "report"]
                   [] status' = "unsupported" -> [review EXCEPT !.notes = "none"]
                   [] OTHER                   -> review
    /\ UNCHANGED <<nodes, watches, outdatedWatches, watchedIds, epoch>>

-----------------------------------------------------------------------------
(* RESTORE, the nodes' part: watches are dropped, each captured node is     *)
(* built anew.  The watch review is not touched.                            *)

\* Mutant: the watches of before stay.
RestoreNodesKeepsWatches(captured) ==
    /\ \E place \in Placements(DOMAIN captured, NodeAddresses) :
          nodes' = [id \in DOMAIN captured |->
                       [object |-> place[id], value |-> captured[id]]]
    /\ outdatedWatches' = {}
    /\ watchedIds' = {}
    /\ UNCHANGED <<watches, review>>

RestoreNodes(captured) ==
    /\ \E place \in Placements(DOMAIN captured, NodeAddresses) :
          nodes' = [id \in DOMAIN captured |->
                       [object |-> place[id], value |-> captured[id]]]
    /\ watches' = <<>>
    /\ outdatedWatches' = {}
    /\ watchedIds' = {}
    /\ UNCHANGED review

-----------------------------------------------------------------------------
NodeNext ==
    \/ \E id \in NodeIds, value \in Values : AddNode(id, value)
    \/ \E id \in NodeIds : WatchNode(id)
    \/ \E id \in NodeIds : DropNode(id)
    \/ AuditWatches
    \/ \E tag \in Tags \cup {NoTag} : SnapshotWatches(tag)
    \/ \E mode \in {"summary", "", "mystery"} : ReviewWatchState(mode)

(* A watch goes bad in one way only: its node is dropped.  Adding nodes and *)
(* restoring snapshots leave no watch on an object that is gone.            *)
OnlyDropOutdatesWatches ==
    \A i \in DOMAIN watches \ outdatedWatches : watches[i] \in LiveNodes

(* What WATCHSNAP finds by address is what was watched by name: a watched   *)
(* node is always found, and a node nobody watched is found only if a watch *)
(* on a dropped node is still there, whose address it may have been given.  *)
WatchListFaithful ==
    LET listed == DOMAIN Snapshot
    IN  /\ watchedIds \subseteq listed
        /\ outdatedWatches = {} => listed = watchedIds
=============================================================================
