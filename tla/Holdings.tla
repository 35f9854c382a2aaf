------------------------------ MODULE Holdings ------------------------------
(***************************************************************************)
(* What the store of a journal holds, without addresses and without the    *)
(* commands that fail: documents, pages, nodes, how many watches there     *)
(* are, and the snapshots of them (src/src/store.cpp, transaction.cpp,     *)
(* compaction.cpp, delta.cpp, snapshot.cpp).                               *)
(*                                                                         *)
(* Archive keeps the objects and the pointers to them, and implements this *)
(* module.  The indexes and reports read the values only: they are built   *)
(* on this one.                                                            *)
(***************************************************************************)
EXTENDS Store, SequencesExt

CONSTANTS
    DocIds,        \* document identifiers
    Titles,        \* what a title may be, as far as the model tells
    Bodies,        \* what a body may be
    PageIds,       \* page identifiers
    PageBytes,     \* what the bytes of a page may be
    NodeIds,       \* node identifiers
    Values,        \* node values
    SnapshotIds    \* snapshot identifiers

VARIABLES
    documents,     \* Store.documents: id |-> title and body
    pages,         \* Store.pages: id |-> bytes and generation
    nodes,         \* Store.nodes: id |-> value
    watches,       \* Store.watches: their number
    snapshots      \* SnapshotState.captured: id |-> contents

holdVars == <<documents, pages, nodes, watches, snapshots>>

Empty == [id \in {} |-> 0]

\* The identifiers of a table, the least first.
Ids(table) == InOrder(DOMAIN table)

HoldInit ==
    /\ documents = Empty
    /\ pages = Empty
    /\ nodes = Empty
    /\ watches = 0
    /\ snapshots = Empty

Contents == [documents |-> documents, pages |-> pages, nodes |-> nodes]

-----------------------------------------------------------------------------
(* DOC id title body *)
AddDocument(id, title, body) ==
    /\ NextEpoch
    /\ id \notin DOMAIN documents
    /\ documents' = Put(documents, id, [title |-> title, body |-> body])
    /\ UNCHANGED <<pages, nodes, watches, snapshots>>

(* RENAME id title *)
RenameDocument(id, title) ==
    /\ NextEpoch
    /\ id \in DOMAIN documents
    /\ documents' = [documents EXCEPT ![id].title = title]
    /\ UNCHANGED <<pages, nodes, watches, snapshots>>

(* PAGE id bytes: a page bears the epoch it came in. *)
AddPage(id, bytes) ==
    /\ id \notin DOMAIN pages
    /\ pages' = Put(pages, id, [bytes |-> bytes, generation |-> epoch])
    /\ UNCHANGED <<documents, nodes, watches, snapshots, epoch>>

(* COMPACT: the same bytes, the generation of the epoch that begins. *)
CompactPages ==
    /\ NextEpoch
    /\ DOMAIN pages # {}
    /\ pages' = [id \in DOMAIN pages |->
                    [pages[id] EXCEPT !.generation = epoch + 1]]
    /\ UNCHANGED <<documents, nodes, watches, snapshots>>

(* NODE id value *)
AddNode(id, value) ==
    /\ id \notin DOMAIN nodes
    /\ nodes' = Put(nodes, id, value)
    /\ UNCHANGED <<documents, pages, watches, snapshots, epoch>>

(* WATCH id *)
WatchNode ==
    /\ watches' = watches + 1
    /\ DOMAIN nodes # {}
    /\ UNCHANGED <<documents, pages, nodes, snapshots, epoch>>

(* DROP id: the watches on the node stay. *)
DropNode(id) ==
    /\ NextEpoch
    /\ id \in DOMAIN nodes
    /\ nodes' = Restrict(nodes, DOMAIN nodes \ {id})
    /\ UNCHANGED <<documents, pages, watches, snapshots>>

(* SNAPSHOT id *)
CaptureSnapshot(id) ==
    /\ id \notin DOMAIN snapshots
    /\ snapshots' = Put(snapshots, id, Contents)
    /\ UNCHANGED <<documents, pages, nodes, watches, epoch>>

(* RESTORE id: the contents come back, the watches go, the epoch stays. *)
RestoreSnapshot(id) ==
    /\ id \in DOMAIN snapshots
    /\ documents' = snapshots[id].documents
    /\ pages' = snapshots[id].pages
    /\ nodes' = snapshots[id].nodes
    /\ watches' = 0
    /\ UNCHANGED <<snapshots, epoch>>

-----------------------------------------------------------------------------
HoldNext ==
    \/ \E id \in DocIds, title \in Titles, body \in Bodies :
          AddDocument(id, title, body)
    \/ \E id \in DocIds, title \in Titles : RenameDocument(id, title)
    \/ \E id \in PageIds, bytes \in PageBytes : AddPage(id, bytes)
    \/ CompactPages
    \/ \E id \in NodeIds, value \in Values : AddNode(id, value)
    \/ WatchNode
    \/ \E id \in NodeIds : DropNode(id)
    \/ \E id \in SnapshotIds : CaptureSnapshot(id)
    \/ \E id \in SnapshotIds : RestoreSnapshot(id)

HoldSpec ==
    HoldInit /\ epoch = 0 /\ [][HoldNext]_<<holdVars, epoch>>
=============================================================================
