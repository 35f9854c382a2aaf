--------------------------- MODULE ArchiveProofs ---------------------------
(* Proofs about Archive, for any identifiers, addresses and limits.  The    *)
(* inductive invariant is Inv: next to the types it needs that the nodes    *)
(* are at different addresses and that every watch no drop outdated is on a *)
(* node that is known to be watched (WatchesAccounted), and that snapshots  *)
(* have different identifiers (SnapshotsDistinct), so that find_snapshot    *)
(* goes on returning what was captured.                                     *)
EXTENDS Archive, FiniteSetTheorems, TLAPS

Title == [title : TitleBuffers, title_size : Nat]
View == [document_id : DocIds, data : TitleBuffers, size : Nat]
Page == [object : PageAddresses, size : Nat, generation : Nat]
Cursor == [page_id : PageIds, offset : Nat, page : PageAddresses]
Node == [object : NodeAddresses, value : Values]

\* The finite functions from some of the ids to values.
Tables(ids, values) ==
    UNION {[some -> values] : some \in {s \in SUBSET ids : IsFiniteSet(s)}}

Capture ==
    [snapshot_id : SnapshotIds,
     contents : [documents : Tables(DocIds, [title : Nat, body : {0}]),
                 pages : Tables(PageIds, [bytes : Nat, generation : Nat]),
                 nodes : Tables(NodeIds, Values)]]

DocInv ==
    /\ documents \in Tables(DocIds, Title)
    /\ titleViews \in Seq(View)
    /\ OnlyRenameOutdatesViews

PageInv ==
    /\ pages \in Tables(PageIds, Page)
    /\ cursors \in Seq(Cursor)
    /\ OnlyCompactOutdatesCursors

\* Nodes are at different addresses.
NodesApart ==
    \A a, b \in DOMAIN nodes : nodes[a].object = nodes[b].object => a = b

\* A node known to be watched is under a watch.
WatchedFound == watchedIds \subseteq DOMAIN Snapshot

\* A watch no drop outdated is on a node known to be watched.
WatchesAccounted ==
    \A i \in DOMAIN watches \ outdatedWatches :
        \E id \in watchedIds : id \in DOMAIN nodes /\ nodes[id].object = watches[i]

NodeInv ==
    /\ nodes \in Tables(NodeIds, Node)
    /\ watches \in Seq(NodeAddresses)
    /\ NodesApart
    /\ WatchedFound
    /\ WatchesAccounted

SnapshotsDistinct ==
    \A i, j \in DOMAIN captured :
        captured[i].snapshot_id = captured[j].snapshot_id => i = j

SnapInv == captured \in Seq(Capture) /\ SnapshotsDistinct

Inv ==
    /\ epoch \in Nat
    /\ DocInv
    /\ PageInv
    /\ NodeInv
    /\ SnapInv
    /\ CrashNeedsOutdatedReference

-----------------------------------------------------------------------------
(* A table is a function with a finite set of ids as its domain.            *)
LEMMA TableFacts ==
    ASSUME NEW ids, NEW values, NEW f \in Tables(ids, values)
    PROVE  /\ f \in [DOMAIN f -> values]
           /\ DOMAIN f \subseteq ids
           /\ IsFiniteSet(DOMAIN f)
BY DEF Tables

LEMMA TableIntro ==
    ASSUME NEW ids, NEW values, NEW some \in SUBSET ids, IsFiniteSet(some),
           NEW f \in [some -> values]
    PROVE  f \in Tables(ids, values)
BY DEF Tables

(* One more entry makes a table of a table.                                 *)
LEMMA PutTable ==
    ASSUME NEW ids, NEW values, NEW f \in Tables(ids, values),
           NEW x \in ids, NEW v \in values
    PROVE  Put(f, x, v) \in Tables(ids, values)
<1>1. /\ f \in [DOMAIN f -> values]
      /\ DOMAIN f \subseteq ids
      /\ IsFiniteSet(DOMAIN f)
  BY TableFacts
<1>2. IsFiniteSet(DOMAIN f \cup {x})
  BY <1>1, FS_AddElement
<1>3. Put(f, x, v) \in [DOMAIN f \cup {x} -> values]
  BY <1>1 DEF Put
<1> QED
  BY <1>1, <1>2, <1>3, TableIntro

(* Extending a sequence by one element.                                     *)
LEMMA AppendFacts ==
    ASSUME NEW S, NEW s \in Seq(S), NEW e \in S
    PROVE  /\ Append(s, e) \in Seq(S)
           /\ DOMAIN Append(s, e) = 1..(Len(s) + 1)
           /\ DOMAIN s = 1..Len(s)
           /\ Len(s) \in Nat
           /\ Len(Append(s, e)) = Len(s) + 1
           /\ Append(s, e)[Len(s) + 1] = e
           /\ \A i \in 1..Len(s) : Append(s, e)[i] = s[i]
OBVIOUS

-----------------------------------------------------------------------------
(* Documents and title views *)

LEMMA DocStep ==
    ASSUME DocInv, epoch \in Nat, DocNext
    PROVE  DocInv' /\ epoch' \in Nat
<1>1. /\ documents \in [DOMAIN documents -> Title]
      /\ DOMAIN documents \subseteq DocIds
      /\ IsFiniteSet(DOMAIN documents)
      /\ titleViews \in Seq(View)
      /\ OnlyRenameOutdatesViews
  BY TableFacts DEF DocInv
<1>2. CASE UNCHANGED <<docVars, epoch>>
  BY <1>2 DEF DocInv, docVars, OnlyRenameOutdatesViews, ViewReadable
<1>3. ASSUME NEW id \in DocIds, NEW size \in 0..(TitleLimit + 1),
             AddDocument(id, size), status' = "ok"
      PROVE  DocInv' /\ epoch' \in Nat
  <2>1. PICK buffer \in FreeTitles :
            documents' = Put(documents, id, [title |-> buffer, title_size |-> size])
    BY <1>3 DEF AddDocument
  <2>2. id \notin DOMAIN documents
    BY <1>3 DEF AddDocument, AddDocumentCheck
  <2>3. [title |-> buffer, title_size |-> size] \in Title
    BY <1>3, DocumentConstants DEF Title, FreeTitles
  <2> DEFINE entry == [title |-> buffer, title_size |-> size]
  <2>4. /\ documents' \in Tables(DocIds, Title)
        /\ DOMAIN documents' = DOMAIN documents \cup {id}
        /\ \A y \in DOMAIN documents : documents'[y] = documents[y]
    <3>1. documents \in Tables(DocIds, Title)
      BY DEF DocInv
    <3>2. entry \in Title
      BY <2>3
    <3> HIDE DEF entry
    <3>3. Put(documents, id, entry) \in Tables(DocIds, Title)
      BY <3>1, <3>2, PutTable
    <3>4. documents' = Put(documents, id, entry)
      BY <2>1 DEF entry
    <3> QED
      BY <2>2, <3>3, <3>4 DEF Put
  <2>5. OnlyRenameOutdatesViews'
    BY <1>1, <1>3, <2>4 DEF AddDocument, OnlyRenameOutdatesViews, ViewReadable
  <2>6. epoch' \in Nat
    BY <1>3 DEF AddDocument, NextEpoch
  <2> QED
    BY <1>1, <1>3, <2>4, <2>5, <2>6 DEF AddDocument, DocInv
<1>4. ASSUME NEW id \in DocIds, CreateTitleView(id), status' = "ok"
      PROVE  DocInv' /\ epoch' \in Nat
  <2>1. /\ id \in DOMAIN documents
        /\ titleViews' = Append(titleViews, ViewOf(documents, id))
        /\ UNCHANGED <<documents, outdatedViews, epoch>>
    BY <1>4 DEF CreateTitleView
  <2>2. ViewOf(documents, id) \in View
    BY <1>1, <2>1 DEF ViewOf, View, Title
  <2>3. ViewReadable(ViewOf(documents, id))
    BY <1>1, <2>1 DEF ViewOf, ViewReadable, Title
  <2>4. /\ titleViews' \in Seq(View)
        /\ DOMAIN titleViews' = DOMAIN titleViews \cup {Len(titleViews) + 1}
        /\ titleViews'[Len(titleViews) + 1] = ViewOf(documents, id)
        /\ \A i \in DOMAIN titleViews : titleViews'[i] = titleViews[i]
    BY <1>1, <2>1, <2>2, AppendFacts
  <2>5. OnlyRenameOutdatesViews'
    BY <1>1, <2>1, <2>3, <2>4 DEF OnlyRenameOutdatesViews, ViewReadable
  <2> QED
    BY <1>1, <2>1, <2>4, <2>5 DEF DocInv
<1>5. ASSUME NEW id \in DocIds, NEW size \in 0..(TitleLimit + 1),
             RenameDocument(id, size), status' = "ok"
      PROVE  DocInv' /\ epoch' \in Nat
  <2>1. PICK buffer \in FreeTitles :
            documents' = [documents EXCEPT
                             ![id] = [title |-> buffer, title_size |-> size]]
    BY <1>5 DEF RenameDocument
  <2>2. id \in DOMAIN documents
    BY <1>5 DEF RenameDocument, RenameCheck
  <2>3. [title |-> buffer, title_size |-> size] \in Title
    BY <1>5, DocumentConstants DEF Title, FreeTitles
  <2>4. documents' \in [DOMAIN documents -> Title]
    BY <1>1, <2>1, <2>3
  <2>5. documents' \in Tables(DocIds, Title)
    BY <1>1, <2>4, TableIntro
  <2>6. /\ UNCHANGED titleViews
        /\ outdatedViews' = outdatedViews \cup
               {i \in DOMAIN titleViews : titleViews[i].document_id = id}
        /\ NextEpoch
    BY <1>5 DEF RenameDocument
  <2>7. OnlyRenameOutdatesViews'
    <3> SUFFICES ASSUME NEW i \in DOMAIN titleViews \ outdatedViews'
                 PROVE  ViewReadable(titleViews[i])'
      BY <2>6 DEF OnlyRenameOutdatesViews
    <3>1. ViewReadable(titleViews[i]) /\ titleViews[i].document_id # id
      BY <1>1, <2>6 DEF OnlyRenameOutdatesViews
    <3> QED
      BY <1>1, <2>1, <2>4, <2>6, <3>1 DEF ViewReadable
  <2> QED
    BY <1>1, <2>5, <2>6, <2>7 DEF DocInv, NextEpoch
<1>6. ASSUME NEW id \in DocIds, NEW size \in 0..(TitleLimit + 1),
             AddDocument(id, size) \/ RenameDocument(id, size), status' # "ok"
      PROVE  UNCHANGED <<docVars, epoch>>
  BY <1>6 DEF AddDocument, RenameDocument, docVars
<1>7. ASSUME NEW id \in DocIds, CreateTitleView(id), status' # "ok"
      PROVE  UNCHANGED <<docVars, epoch>>
  BY <1>7 DEF CreateTitleView, docVars
<1>8. CASE EmitManifest
  BY <1>2, <1>8 DEF EmitManifest
<1> QED
  BY <1>2, <1>3, <1>4, <1>5, <1>6, <1>7, <1>8 DEF DocNext

(* RESTORE gives every captured document one readable view.                 *)
LEMMA DocRestored ==
    ASSUME NEW contents \in Tables(DocIds, [title : Nat, body : {0}]),
           RestoreDocuments(contents)
    PROVE  /\ DocInv'
           /\ \A i \in DOMAIN titleViews' : ViewReadable(titleViews[i])'
           /\ contents = [id \in DOMAIN documents' |->
                             [title |-> documents'[id].title_size, body |-> 0]]
<1> DEFINE ids == DOMAIN contents
<1>1. /\ contents \in [ids -> [title : Nat, body : {0}]]
      /\ ids \subseteq DocIds
      /\ IsFiniteSet(ids)
  BY TableFacts
<1>2. PICK place \in Placements(ids, TitleBuffers), order \in Ascending(ids) :
          /\ documents' = [id \in ids |-> [title |-> place[id],
                                           title_size |-> contents[id].title]]
          /\ titleViews' = [i \in DOMAIN order |-> ViewOf(documents', order[i])]
          /\ outdatedViews' = {}
  BY DEF RestoreDocuments
<1>3. place \in [ids -> TitleBuffers]
  BY DEF Placements, Injection
<1>4. /\ Cardinality(ids) \in Nat
      /\ order \in [1..Cardinality(ids) -> ids]
  BY <1>1, FS_CardinalityType DEF Ascending
<1>5. documents' \in [ids -> Title]
  BY <1>1, <1>2, <1>3 DEF Title
<1>6. documents' \in Tables(DocIds, Title)
  BY <1>1, <1>5, TableIntro
<1>7. /\ titleViews' \in Seq(View)
      /\ DOMAIN titleViews' = 1..Cardinality(ids)
      /\ \A i \in 1..Cardinality(ids) : titleViews'[i] = ViewOf(documents', order[i])
  <2>1. \A i \in 1..Cardinality(ids) : ViewOf(documents', order[i]) \in View
    BY <1>1, <1>4, <1>5 DEF ViewOf, View, Title
  <2>2. titleViews' = [i \in 1..Cardinality(ids) |-> ViewOf(documents', order[i])]
    BY <1>2, <1>4
  <2>3. titleViews' \in [1..Cardinality(ids) -> View]
    BY <2>1, <2>2
  <2> QED
    BY <1>4, <2>2, <2>3
<1>8. \A i \in DOMAIN titleViews' : ViewReadable(titleViews[i])'
  BY <1>4, <1>5, <1>7 DEF ViewReadable, ViewOf, Title
<1>9. contents = [id \in DOMAIN documents' |->
                     [title |-> documents'[id].title_size, body |-> 0]]
  <2>1. \A id \in ids : contents[id] = [title |-> contents[id].title, body |-> 0]
    BY <1>1
  <2> QED
    BY <1>1, <1>2, <2>1
<1> QED
  BY <1>6, <1>7, <1>8, <1>9 DEF DocInv, OnlyRenameOutdatesViews

-----------------------------------------------------------------------------
(* Pages and cursors *)

LEMMA PageStep ==
    ASSUME PageInv, epoch \in Nat, PageNext
    PROVE  PageInv' /\ epoch' \in Nat
<1>1. /\ pages \in [DOMAIN pages -> Page]
      /\ DOMAIN pages \subseteq PageIds
      /\ IsFiniteSet(DOMAIN pages)
      /\ cursors \in Seq(Cursor)
      /\ OnlyCompactOutdatesCursors
  BY TableFacts DEF PageInv
<1>2. CASE UNCHANGED <<pageVars, epoch>>
  BY <1>2 DEF PageInv, pageVars, OnlyCompactOutdatesCursors, CursorCurrent
<1>3. ASSUME NEW id \in PageIds, NEW size \in 0..(PageLimit + 1),
             AddPage(id, size), status' = "ok"
      PROVE  PageInv' /\ epoch' \in Nat
  <2>1. PICK address \in FreePages :
            pages' = Put(pages, id, [object |-> address, size |-> size,
                                     generation |-> epoch])
    BY <1>3 DEF AddPage
  <2>2. id \notin DOMAIN pages
    BY <1>3 DEF AddPage, AddPageCheck
  <2> DEFINE entry == [object |-> address, size |-> size, generation |-> epoch]
  <2>3. entry \in Page
    BY <1>3, PageConstants DEF Page, FreePages
  <2>4. pages \in Tables(PageIds, Page) /\ pages' = Put(pages, id, entry)
    BY <2>1 DEF PageInv
  <2> HIDE DEF entry
  <2>5. pages' \in Tables(PageIds, Page)
    BY <2>3, <2>4, PutTable
  <2>6. /\ DOMAIN pages' = DOMAIN pages \cup {id}
        /\ \A y \in DOMAIN pages : pages'[y] = pages[y]
    BY <2>2, <2>4 DEF Put
  <2>7. UNCHANGED <<cursors, outdatedCursors, epoch>>
    BY <1>3 DEF AddPage
  <2>8. OnlyCompactOutdatesCursors'
    BY <1>1, <2>6, <2>7 DEF OnlyCompactOutdatesCursors, CursorCurrent
  <2> QED
    BY <1>1, <2>5, <2>7, <2>8 DEF PageInv
<1>4. ASSUME NEW id \in PageIds, NEW offset \in 0..PageLimit,
             CreateCursor(id, offset), status' = "ok"
      PROVE  PageInv' /\ epoch' \in Nat
  <2> DEFINE cursor == [page_id |-> id, offset |-> offset,
                        page |-> pages[id].object]
  <2>1. /\ id \in DOMAIN pages
        /\ ~(offset >= pages[id].size)
        /\ cursors' = Append(cursors, cursor)
        /\ UNCHANGED <<pages, outdatedCursors, epoch>>
    BY <1>4 DEF CreateCursor, CursorCheck
  <2>2. pages[id] \in Page
    BY <1>1, <2>1
  <2>3. cursor \in Cursor
    BY <1>4, <2>2, PageConstants DEF Page, Cursor
  <2>4. CursorCurrent(cursor)
    BY <1>4, <2>1, <2>2, PageConstants DEF Page, CursorCurrent
  <2> HIDE DEF cursor
  <2>5. /\ cursors' \in Seq(Cursor)
        /\ DOMAIN cursors' = DOMAIN cursors \cup {Len(cursors) + 1}
        /\ cursors'[Len(cursors) + 1] = cursor
        /\ \A i \in DOMAIN cursors : cursors'[i] = cursors[i]
    BY <1>1, <2>1, <2>3, AppendFacts
  <2>6. OnlyCompactOutdatesCursors'
    BY <1>1, <2>1, <2>4, <2>5 DEF OnlyCompactOutdatesCursors, CursorCurrent
  <2> QED
    BY <1>1, <2>1, <2>5, <2>6 DEF PageInv
<1>5. ASSUME CompactPages, status' = "ok"
      PROVE  PageInv' /\ epoch' \in Nat
  <2>1. PICK place \in Placements(DOMAIN pages, FreePages) :
            pages' = [id \in DOMAIN pages |->
                         [object |-> place[id], size |-> pages[id].size,
                          generation |-> epoch + 1]]
    BY <1>5 DEF CompactPages
  <2>2. place \in [DOMAIN pages -> PageAddresses]
    BY DEF Placements, Injection, FreePages
  <2>3. pages' \in [DOMAIN pages -> Page]
    BY <1>1, <2>1, <2>2 DEF Page
  <2>4. pages' \in Tables(PageIds, Page)
    BY <1>1, <2>3, TableIntro
  <2>5. outdatedCursors' = DOMAIN cursors /\ UNCHANGED cursors /\ epoch' \in Nat
    BY <1>5 DEF CompactPages, NextEpoch
  <2> QED
    BY <1>1, <2>4, <2>5 DEF PageInv, OnlyCompactOutdatesCursors
<1>6. ASSUME NEW id \in PageIds, NEW size \in 0..(PageLimit + 1),
             AddPage(id, size), status' # "ok"
      PROVE  UNCHANGED <<pageVars, epoch>>
  BY <1>6 DEF AddPage, pageVars
<1>7. ASSUME NEW id \in PageIds, NEW offset \in 0..PageLimit,
             CreateCursor(id, offset), status' # "ok"
      PROVE  UNCHANGED <<pageVars, epoch>>
  BY <1>7 DEF CreateCursor, pageVars
<1>8. ASSUME CompactPages, status' # "ok" PROVE UNCHANGED <<pageVars, epoch>>
  BY <1>8 DEF CompactPages, pageVars
<1>9. ASSUME NEW index \in 1..(MaxCursors + 1), ScanCursor(index)
      PROVE  UNCHANGED <<pageVars, epoch>>
  BY <1>9 DEF ScanCursor
<1> QED
  BY <1>2, <1>3, <1>4, <1>5, <1>6, <1>7, <1>8, <1>9 DEF PageNext

(* RESTORE leaves no cursor, and the pages that were captured.              *)
LEMMA PageRestored ==
    ASSUME NEW contents \in Tables(PageIds, [bytes : Nat, generation : Nat]),
           RestorePages(contents)
    PROVE  /\ PageInv'
           /\ cursors' = <<>>
           /\ contents = [id \in DOMAIN pages' |->
                             [bytes |-> pages'[id].size,
                              generation |-> pages'[id].generation]]
<1>1. /\ contents \in [DOMAIN contents -> [bytes : Nat, generation : Nat]]
      /\ DOMAIN contents \subseteq PageIds
      /\ IsFiniteSet(DOMAIN contents)
  BY TableFacts
<1>2. PICK place \in Placements(DOMAIN contents, PageAddresses) :
          pages' = [id \in DOMAIN contents |->
                       [object |-> place[id], size |-> contents[id].bytes,
                        generation |-> contents[id].generation]]
  BY DEF RestorePages
<1>3. place \in [DOMAIN contents -> PageAddresses]
  BY DEF Placements, Injection
<1>4. pages' \in [DOMAIN contents -> Page]
  BY <1>1, <1>2, <1>3 DEF Page
<1>5. pages' \in Tables(PageIds, Page)
  BY <1>1, <1>4, TableIntro
<1>6. cursors' = <<>>
  BY DEF RestorePages
<1>7. <<>> \in Seq(Cursor) /\ DOMAIN <<>> = {}
  OBVIOUS
<1>8. PageInv'
  BY <1>5, <1>6, <1>7 DEF PageInv, OnlyCompactOutdatesCursors
<1>9. \A id \in DOMAIN contents :
          contents[id] = [bytes |-> contents[id].bytes,
                          generation |-> contents[id].generation]
  BY <1>1
<1> QED
  BY <1>1, <1>2, <1>6, <1>8, <1>9

-----------------------------------------------------------------------------
(* Nodes and watches *)

\* A node is listed by WATCHSNAP when a watch holds its address.
LEMMA ListedFacts ==
    DOMAIN Snapshot = {id \in DOMAIN nodes : nodes[id].object \in Watched}
BY DEF Snapshot

LEMMA NodeStep ==
    ASSUME NodeInv, epoch \in Nat, NodeNext
    PROVE  NodeInv' /\ epoch' \in Nat
<1>1. /\ nodes \in [DOMAIN nodes -> Node]
      /\ DOMAIN nodes \subseteq NodeIds
      /\ IsFiniteSet(DOMAIN nodes)
      /\ watches \in Seq(NodeAddresses)
      /\ NodesApart
      /\ WatchedFound
      /\ WatchesAccounted
  BY TableFacts DEF NodeInv
<1>2. ASSUME UNCHANGED <<nodes, watches, outdatedWatches, watchedIds, epoch>>
      PROVE  NodeInv' /\ epoch' \in Nat
  BY <1>2 DEF NodeInv, NodesApart, WatchedFound, WatchesAccounted, Snapshot,
              Watched
<1>3. ASSUME NEW id \in NodeIds, NEW value \in Values,
             AddNode(id, value), status' = "ok"
      PROVE  NodeInv' /\ epoch' \in Nat
  <2>1. PICK address \in FreeNodes :
            nodes' = Put(nodes, id, [object |-> address, value |-> value])
    BY <1>3 DEF AddNode
  <2>2. id \notin DOMAIN nodes
    BY <1>3 DEF AddNode
  <2> DEFINE entry == [object |-> address, value |-> value]
  <2>3. entry \in Node /\ entry.object = address
    BY <1>3 DEF Node, FreeNodes
  <2>4. nodes \in Tables(NodeIds, Node) /\ nodes' = Put(nodes, id, entry)
    BY <2>1 DEF NodeInv
  <2> HIDE DEF entry
  <2>5. nodes' \in Tables(NodeIds, Node)
    BY <2>3, <2>4, PutTable
  <2>6. /\ DOMAIN nodes' = DOMAIN nodes \cup {id}
        /\ nodes'[id] = entry
        /\ \A y \in DOMAIN nodes : nodes'[y] = nodes[y]
    BY <2>2, <2>4 DEF Put
  <2>7. UNCHANGED <<watches, outdatedWatches, watchedIds, epoch>>
    BY <1>3 DEF AddNode
  <2>8. \A y \in DOMAIN nodes : nodes[y].object # address
    BY DEF FreeNodes, LiveNodes
  <2>9. NodesApart'
    BY <1>1, <2>3, <2>6, <2>8 DEF NodesApart
  <2>10. WatchedFound'
    BY <1>1, <2>6, <2>7 DEF WatchedFound, Snapshot, Watched
  <2>11. WatchesAccounted'
    BY <1>1, <2>6, <2>7 DEF WatchesAccounted
  <2> QED
    BY <1>1, <2>5, <2>7, <2>9, <2>10, <2>11 DEF NodeInv
<1>4. ASSUME NEW id \in NodeIds, WatchNode(id), status' = "ok"
      PROVE  NodeInv' /\ epoch' \in Nat
  <2>1. /\ id \in DOMAIN nodes
        /\ watches' = Append(watches, nodes[id].object)
        /\ watchedIds' = watchedIds \cup {id}
        /\ UNCHANGED <<nodes, outdatedWatches, epoch>>
    BY <1>4 DEF WatchNode
  <2>2. nodes[id].object \in NodeAddresses
    BY <1>1, <2>1 DEF Node
  <2>3. /\ watches' \in Seq(NodeAddresses)
        /\ DOMAIN watches' = DOMAIN watches \cup {Len(watches) + 1}
        /\ watches'[Len(watches) + 1] = nodes[id].object
        /\ \A i \in DOMAIN watches : watches'[i] = watches[i]
    BY <1>1, <2>1, <2>2, AppendFacts
  <2>4. Watched' = Watched \cup {nodes[id].object}
    BY <2>3 DEF Watched
  <2>5. WatchedFound'
    BY <1>1, <2>1, <2>4 DEF WatchedFound, Snapshot
  <2>6. WatchesAccounted'
    BY <1>1, <2>1, <2>3 DEF WatchesAccounted
  <2> QED
    BY <1>1, <2>1, <2>3, <2>5, <2>6 DEF NodeInv, NodesApart
<1>5. ASSUME NEW id \in NodeIds, DropNode(id), status' = "ok"
      PROVE  NodeInv' /\ epoch' \in Nat
  <2>1. /\ nodes' = [x \in DOMAIN nodes \ {id} |-> nodes[x]]
        /\ outdatedWatches' = outdatedWatches \cup
               {i \in DOMAIN watches : watches[i] = nodes[id].object}
        /\ watchedIds' = watchedIds \ {id}
        /\ NextEpoch
        /\ UNCHANGED watches
    BY <1>5 DEF DropNode, Restrict
  <2>2. IsFiniteSet(DOMAIN nodes \ {id})
    BY <1>1, FS_Subset
  <2>3. nodes' \in [DOMAIN nodes \ {id} -> Node]
    BY <1>1, <2>1
  <2>4. nodes' \in Tables(NodeIds, Node)
    BY <1>1, <2>2, <2>3, TableIntro
  <2>5. NodesApart'
    BY <1>1, <2>1 DEF NodesApart
  <2>6. WatchedFound'
    BY <1>1, <2>1 DEF WatchedFound, Snapshot, Watched
  <2>7. WatchesAccounted'
    BY <1>1, <2>1 DEF WatchesAccounted
  <2> QED
    BY <1>1, <2>1, <2>4, <2>5, <2>6, <2>7 DEF NodeInv, NextEpoch
<1>6. ASSUME NEW id \in NodeIds, NEW value \in Values, AddNode(id, value),
             status' # "ok"
      PROVE  UNCHANGED <<nodes, watches, outdatedWatches, watchedIds, epoch>>
  BY <1>6 DEF AddNode
<1>7. ASSUME NEW id \in NodeIds, WatchNode(id) \/ DropNode(id), status' # "ok"
      PROVE  UNCHANGED <<nodes, watches, outdatedWatches, watchedIds, epoch>>
  BY <1>7 DEF WatchNode, DropNode
<1>8. CASE AuditWatches
  BY <1>2, <1>8 DEF AuditWatches, nodeVars
<1>9. ASSUME NEW tag, SnapshotWatches(tag)
      PROVE  UNCHANGED <<nodes, watches, outdatedWatches, watchedIds, epoch>>
  BY <1>9 DEF SnapshotWatches
<1>10. ASSUME NEW mode, ReviewWatchState(mode)
       PROVE  UNCHANGED <<nodes, watches, outdatedWatches, watchedIds, epoch>>
  BY <1>10 DEF ReviewWatchState
<1> QED
  BY <1>2, <1>3, <1>4, <1>5, <1>6, <1>7, <1>8, <1>9, <1>10 DEF NodeNext

(* RESTORE leaves no watch, and the nodes that were captured.               *)
LEMMA NodeRestored ==
    ASSUME NEW contents \in Tables(NodeIds, Values), RestoreNodes(contents)
    PROVE  /\ NodeInv'
           /\ watches' = <<>>
           /\ contents = [id \in DOMAIN nodes' |-> nodes'[id].value]
<1>1. /\ contents \in [DOMAIN contents -> Values]
      /\ DOMAIN contents \subseteq NodeIds
      /\ IsFiniteSet(DOMAIN contents)
  BY TableFacts
<1>2. PICK place \in Placements(DOMAIN contents, NodeAddresses) :
          nodes' = [id \in DOMAIN contents |->
                       [object |-> place[id], value |-> contents[id]]]
  BY DEF RestoreNodes
<1>3. /\ place \in [DOMAIN contents -> NodeAddresses]
      /\ \A a, b \in DOMAIN contents : place[a] = place[b] => a = b
  BY DEF Placements, Injection, IsInjective
<1>4. nodes' \in [DOMAIN contents -> Node]
  BY <1>1, <1>2, <1>3 DEF Node
<1>5. nodes' \in Tables(NodeIds, Node)
  BY <1>1, <1>4, TableIntro
<1>6. watches' = <<>> /\ watchedIds' = {}
  BY DEF RestoreNodes
<1>7. <<>> \in Seq(NodeAddresses) /\ DOMAIN <<>> = {}
  OBVIOUS
<1>8. NodesApart'
  BY <1>1, <1>2, <1>3 DEF NodesApart
<1>9. NodeInv'
  BY <1>5, <1>6, <1>7, <1>8 DEF NodeInv, WatchedFound, WatchesAccounted
<1> QED
  BY <1>1, <1>2, <1>6, <1>9

-----------------------------------------------------------------------------
(* Snapshots *)

(* Of captures with different identifiers, the first with an identifier is  *)
(* the only one with it.                                                    *)
LEMMA FirstIsOnly ==
    ASSUME NEW caps, NEW k \in DOMAIN caps,
           caps \in Seq(Capture),
           \A i, j \in DOMAIN caps :
               caps[i].snapshot_id = caps[j].snapshot_id => i = j
    PROVE  caps[CHOOSE i \in DOMAIN caps :
                   /\ caps[i].snapshot_id = caps[k].snapshot_id
                   /\ \A j \in 1..(i - 1) :
                          caps[j].snapshot_id # caps[k].snapshot_id] = caps[k]
<1> DEFINE P(i) == /\ caps[i].snapshot_id = caps[k].snapshot_id
                   /\ \A j \in 1..(i - 1) :
                          caps[j].snapshot_id # caps[k].snapshot_id
<1>1. DOMAIN caps = 1..Len(caps) /\ Len(caps) \in Nat
  OBVIOUS
<1>2. P(k)
  BY <1>1
<1>3. \A i \in DOMAIN caps : P(i) => i = k
  OBVIOUS
<1> HIDE DEF P
<1>4. (CHOOSE i \in DOMAIN caps : P(i)) \in DOMAIN caps
      /\ P(CHOOSE i \in DOMAIN caps : P(i))
  BY <1>2
<1>5. (CHOOSE i \in DOMAIN caps : P(i)) = k
  BY <1>3, <1>4
<1>6. caps[CHOOSE i \in DOMAIN caps : P(i)] = caps[k]
  BY <1>5
<1> QED
  BY <1>6 DEF P

(* find_snapshot returns the capture of the identifier it is asked for.     *)
LEMMA FindSnapshotOf ==
    ASSUME SnapInv, NEW id \in CapturedIds
    PROVE  \E k \in DOMAIN captured :
              /\ captured[k].snapshot_id = id
              /\ FindSnapshot(id) = captured[k]
              /\ FindSnapshot(id) \in Capture
<1>1. PICK k \in DOMAIN captured : captured[k].snapshot_id = id
  BY DEF CapturedIds
<1>2. FindSnapshot(id) = captured[k]
  BY <1>1, FirstIsOnly DEF FindSnapshot, SnapInv, SnapshotsDistinct
<1>3. captured[k] \in Capture
  BY <1>1 DEF SnapInv
<1> QED
  BY <1>1, <1>2, <1>3

(* What SNAPSHOT copies is what RESTORE takes.                              *)
LEMMA ContentsCaptured ==
    ASSUME DocInv, PageInv, NodeInv, NEW id \in SnapshotIds
    PROVE  [snapshot_id |-> id, contents |-> Contents] \in Capture
<1>1. /\ documents \in [DOMAIN documents -> Title]
      /\ DOMAIN documents \subseteq DocIds /\ IsFiniteSet(DOMAIN documents)
  BY TableFacts DEF DocInv
<1>2. /\ pages \in [DOMAIN pages -> Page]
      /\ DOMAIN pages \subseteq PageIds /\ IsFiniteSet(DOMAIN pages)
  BY TableFacts DEF PageInv
<1>3. /\ nodes \in [DOMAIN nodes -> Node]
      /\ DOMAIN nodes \subseteq NodeIds /\ IsFiniteSet(DOMAIN nodes)
  BY TableFacts DEF NodeInv
<1>4. Contents.documents \in Tables(DocIds, [title : Nat, body : {0}])
  <2>1. Contents.documents \in [DOMAIN documents -> [title : Nat, body : {0}]]
    BY <1>1 DEF Contents, Title
  <2> QED
    BY <1>1, <2>1, TableIntro
<1>5. Contents.pages \in Tables(PageIds, [bytes : Nat, generation : Nat])
  <2>1. Contents.pages \in [DOMAIN pages -> [bytes : Nat, generation : Nat]]
    BY <1>2 DEF Contents, Page
  <2> QED
    BY <1>2, <2>1, TableIntro
<1>6. Contents.nodes \in Tables(NodeIds, Values)
  <2>1. Contents.nodes \in [DOMAIN nodes -> Values]
    BY <1>3 DEF Contents, Node
  <2> QED
    BY <1>3, <2>1, TableIntro
<1>7. Contents = [documents |-> Contents.documents, pages |-> Contents.pages,
                  nodes |-> Contents.nodes]
  BY DEF Contents
<1> QED
  BY <1>4, <1>5, <1>6, <1>7 DEF Capture

(* SNAPSHOT appends the contents of now under an identifier not yet used.   *)
LEMMA CaptureStep ==
    ASSUME Inv, NEW id \in SnapshotIds \cup {NoSnapshot},
           CaptureSnapshot(id), status' = "ok"
    PROVE  /\ SnapInv'
           /\ id \in SnapshotIds \ CapturedIds
           /\ CapturedIds' = CapturedIds \cup {id}
           /\ FindSnapshot(id)'.contents = Contents
           /\ \A x \in CapturedIds : FindSnapshot(x)' = FindSnapshot(x)
<1> DEFINE new == [snapshot_id |-> id, contents |-> Contents]
<1>1. /\ id \in SnapshotIds /\ id \notin CapturedIds
      /\ captured' = Append(captured, new)
  BY DEF CaptureSnapshot, CaptureCheck
<1>2. new \in Capture
  BY <1>1, ContentsCaptured DEF Inv
<1>3. captured \in Seq(Capture) /\ SnapshotsDistinct
  BY DEF Inv, SnapInv
<1>4. new.snapshot_id = id /\ new.contents = Contents
  OBVIOUS
<1> HIDE DEF new
<1>5. /\ captured' \in Seq(Capture)
      /\ DOMAIN captured' = DOMAIN captured \cup {Len(captured) + 1}
      /\ Len(captured) + 1 \notin DOMAIN captured
      /\ captured'[Len(captured) + 1] = new
      /\ \A i \in DOMAIN captured : captured'[i] = captured[i]
  BY <1>1, <1>2, <1>3, AppendFacts
<1>6. \A i \in DOMAIN captured : captured[i].snapshot_id # id
  BY <1>1 DEF CapturedIds
<1>7. SnapInv'
  BY <1>3, <1>4, <1>5, <1>6 DEF SnapInv, SnapshotsDistinct
<1>8. CapturedIds' = CapturedIds \cup {id}
  BY <1>4, <1>5 DEF CapturedIds
<1>9. ASSUME NEW x, NEW k \in DOMAIN captured', captured'[k].snapshot_id = x
      PROVE  FindSnapshot(x)' = captured'[k]
  <2>1. FindSnapshot(x)'
          = captured'[CHOOSE i \in DOMAIN captured' :
                         /\ captured'[i].snapshot_id = captured'[k].snapshot_id
                         /\ \A j \in 1..(i - 1) :
                              captured'[j].snapshot_id # captured'[k].snapshot_id]
    BY <1>9 DEF FindSnapshot
  <2>2. /\ captured' \in Seq(Capture)
        /\ \A i, j \in DOMAIN captured' :
              captured'[i].snapshot_id = captured'[j].snapshot_id => i = j
    BY <1>7 DEF SnapInv, SnapshotsDistinct
  <2> QED
    BY <2>1, <2>2, FirstIsOnly
<1>10. FindSnapshot(id)'.contents = Contents
  BY <1>4, <1>5, <1>9
<1>11. ASSUME NEW x \in CapturedIds PROVE FindSnapshot(x)' = FindSnapshot(x)
  <2>1. PICK k \in DOMAIN captured : /\ captured[k].snapshot_id = x
                                     /\ FindSnapshot(x) = captured[k]
    BY FindSnapshotOf DEF Inv
  <2> QED
    BY <1>5, <1>9, <2>1
<1> QED
  BY <1>1, <1>7, <1>8, <1>10, <1>11

(* RESTORE brings back the contents of the snapshot, and only sound views,  *)
(* cursors and watches.                                                     *)
LEMMA RestoreStep ==
    ASSUME Inv, NEW id \in SnapshotIds, RestoreSnapshot(id), status' = "ok"
    PROVE  /\ DocInv' /\ PageInv' /\ NodeInv'
           /\ id \in CapturedIds
           /\ current' = id
           /\ Contents' = FindSnapshot(id).contents
           /\ \A i \in DOMAIN titleViews' : ViewReadable(titleViews[i])'
           /\ cursors' = <<>>
           /\ watches' = <<>>
<1> DEFINE contents == FindSnapshot(id).contents
<1>1. id \in CapturedIds
  BY DEF RestoreSnapshot
<1>2. FindSnapshot(id) \in Capture
  BY <1>1, FindSnapshotOf DEF Inv
<1>3. /\ contents \in [documents : Tables(DocIds, [title : Nat, body : {0}]),
                       pages : Tables(PageIds, [bytes : Nat, generation : Nat]),
                       nodes : Tables(NodeIds, Values)]
  BY <1>2 DEF Capture
<1>4. /\ RestoreDocuments(contents.documents)
      /\ RestorePages(contents.pages)
      /\ RestoreNodes(contents.nodes)
      /\ current' = id
  BY DEF RestoreSnapshot
<1> HIDE DEF contents
<1>5. /\ DocInv'
      /\ \A i \in DOMAIN titleViews' : ViewReadable(titleViews[i])'
      /\ contents.documents = [x \in DOMAIN documents' |->
                                 [title |-> documents'[x].title_size, body |-> 0]]
  BY <1>3, <1>4, DocRestored
<1>6. /\ PageInv'
      /\ cursors' = <<>>
      /\ contents.pages = [x \in DOMAIN pages' |->
                             [bytes |-> pages'[x].size,
                              generation |-> pages'[x].generation]]
  BY <1>3, <1>4, PageRestored
<1>7. /\ NodeInv'
      /\ watches' = <<>>
      /\ contents.nodes = [x \in DOMAIN nodes' |-> nodes'[x].value]
  BY <1>3, <1>4, NodeRestored
<1>8. contents = [documents |-> contents.documents, pages |-> contents.pages,
                  nodes |-> contents.nodes]
  BY <1>3
<1>9. Contents' = contents
  BY <1>5, <1>6, <1>7, <1>8 DEF Contents
<1> QED
  BY <1>1, <1>4, <1>5, <1>6, <1>7, <1>9 DEF contents

-----------------------------------------------------------------------------
LEMMA InitInv == Init => Inv
<1> SUFFICES ASSUME Init PROVE Inv
  OBVIOUS
<1>1. DOMAIN documents = {} /\ DOMAIN pages = {} /\ DOMAIN nodes = {}
  BY DEF Init, DocInit, PageInit, NodeInit
<1>2. /\ documents \in [{} -> Title] /\ pages \in [{} -> Page]
      /\ nodes \in [{} -> Node]
  BY DEF Init, DocInit, PageInit, NodeInit
<1>3. /\ documents \in Tables(DocIds, Title)
      /\ pages \in Tables(PageIds, Page)
      /\ nodes \in Tables(NodeIds, Node)
  BY <1>2, FS_EmptySet, TableIntro
<1>4. /\ <<>> \in Seq(View) /\ <<>> \in Seq(Cursor)
      /\ <<>> \in Seq(NodeAddresses) /\ <<>> \in Seq(Capture)
      /\ DOMAIN <<>> = {}
  OBVIOUS
<1>5. DocInv
  BY <1>3, <1>4 DEF Init, DocInit, DocInv, OnlyRenameOutdatesViews
<1>6. PageInv
  BY <1>3, <1>4 DEF Init, PageInit, PageInv, OnlyCompactOutdatesCursors
<1>7. NodeInv
  BY <1>1, <1>3, <1>4 DEF Init, NodeInit, NodeInv, NodesApart, WatchedFound,
                          WatchesAccounted
<1>8. SnapInv
  BY <1>4 DEF Init, SnapInv, SnapshotsDistinct
<1>9. epoch \in Nat /\ status # Crash
  BY DEF Init, Crash
<1> QED
  BY <1>5, <1>6, <1>7, <1>8, <1>9 DEF Inv, CrashNeedsOutdatedReference

(* The types and the sound references, step by step.                        *)
LEMMA NextParts ==
    ASSUME Inv, Next
    PROVE  epoch' \in Nat /\ DocInv' /\ PageInv' /\ NodeInv' /\ SnapInv'
<1> USE DEF Inv
<1>1. UNCHANGED docVars => DocInv'
  BY DEF docVars, DocInv, OnlyRenameOutdatesViews, ViewReadable
<1>2. UNCHANGED pageVars => PageInv'
  BY DEF pageVars, PageInv, OnlyCompactOutdatesCursors, CursorCurrent
<1>3. UNCHANGED nodeVars => NodeInv'
  BY DEF nodeVars, NodeInv, NodesApart, WatchedFound, WatchesAccounted,
         Snapshot, Watched
<1>4. UNCHANGED captured => SnapInv'
  BY DEF SnapInv, SnapshotsDistinct
<1>5. UNCHANGED snapVars => UNCHANGED captured
  BY DEF snapVars
<1>6. CASE DocNext /\ UNCHANGED <<pageVars, nodeVars, snapVars>>
  BY <1>2, <1>3, <1>4, <1>5, <1>6, DocStep
<1>7. CASE PageNext /\ UNCHANGED <<docVars, nodeVars, snapVars>>
  BY <1>1, <1>3, <1>4, <1>5, <1>7, PageStep
<1>8. CASE NodeNext /\ UNCHANGED <<docVars, pageVars, snapVars>>
  BY <1>1, <1>2, <1>4, <1>5, <1>8, NodeStep
<1>9. ASSUME NEW id \in SnapshotIds \cup {NoSnapshot}, CaptureSnapshot(id)
      PROVE  epoch' \in Nat /\ DocInv' /\ PageInv' /\ NodeInv' /\ SnapInv'
  <2>1. UNCHANGED <<docVars, pageVars, nodeVars, epoch>>
    BY <1>9 DEF CaptureSnapshot
  <2>2. SnapInv'
    BY <1>4, <1>9, CaptureStep DEF CaptureSnapshot
  <2> QED
    BY <1>1, <1>2, <1>3, <2>1, <2>2
<1>10. ASSUME NEW id \in SnapshotIds, RestoreSnapshot(id)
       PROVE  epoch' \in Nat /\ DocInv' /\ PageInv' /\ NodeInv' /\ SnapInv'
  <2>1. UNCHANGED <<captured, epoch>>
    BY <1>10 DEF RestoreSnapshot
  <2>2. CASE status' = "ok"
    BY <1>4, <1>10, <2>1, <2>2, RestoreStep
  <2>3. CASE status' # "ok"
    BY <1>1, <1>2, <1>3, <1>4, <1>10, <2>1, <2>3 DEF RestoreSnapshot
  <2> QED
    BY <2>2, <2>3
<1>11. CASE InspectSnapshots
  BY <1>1, <1>2, <1>3, <1>4, <1>5, <1>11 DEF InspectSnapshots
<1>12. ASSUME NEW left, NEW right, DiffSnapshots(left, right)
       PROVE  UNCHANGED <<docVars, pageVars, nodeVars, captured, epoch>>
  BY <1>12 DEF DiffSnapshots
<1> QED
  BY <1>1, <1>2, <1>3, <1>4, <1>6, <1>7, <1>8, <1>9, <1>10, <1>11, <1>12
     DEF Next, SnapNext

(* Only MANIFEST, SCAN and AUDIT can crash, and they only by following a    *)
(* reference that no longer leads to what it was made for.                  *)
LEMMA NextCrash ==
    ASSUME Inv, Next, status' = Crash
    PROVE  outdatedViews' # {} \/ outdatedCursors' # {} \/ outdatedWatches' # {}
<1>1. CASE DocNext
  <2>1. EmitManifest
    BY <1>1 DEF DocNext, AddDocument, AddDocumentCheck, CreateTitleView,
                RenameDocument, RenameCheck, Crash
  <2>2. PICK i \in DOMAIN titleViews : ~ViewReadable(titleViews[i])
    BY <2>1 DEF EmitManifest, ReadOutcome, Crash
  <2>3. i \in outdatedViews
    BY <2>2 DEF Inv, DocInv, OnlyRenameOutdatesViews
  <2> QED
    BY <2>1, <2>3 DEF EmitManifest, docVars
<1>2. CASE PageNext
  <2>1. PICK index \in DOMAIN cursors :
            ScanCursor(index) /\ ~CursorCurrent(cursors[index])
    BY <1>2 DEF PageNext, AddPage, AddPageCheck, CreateCursor, CursorCheck,
                CompactPages, ScanCursor, ReadOutcome, Crash
  <2>2. index \in outdatedCursors
    BY <2>1 DEF Inv, PageInv, OnlyCompactOutdatesCursors
  <2> QED
    BY <2>1, <2>2 DEF ScanCursor, pageVars
<1>3. CASE NodeNext
  <2>1. AuditWatches
    BY <1>3 DEF NodeNext, AddNode, WatchNode, DropNode, SnapshotWatches,
                ReviewWatchState, Crash
  <2>2. PICK i \in DOMAIN watches : watches[i] \notin LiveNodes
    BY <2>1 DEF AuditWatches, ReadOutcome, Watched, Crash
  <2>3. i \in outdatedWatches
    BY <2>2 DEF Inv, NodeInv, WatchesAccounted, LiveNodes
  <2> QED
    BY <2>1, <2>3 DEF AuditWatches, nodeVars
<1>4. ~SnapNext
  BY DEF SnapNext, CaptureSnapshot, CaptureCheck, RestoreSnapshot,
         InspectSnapshots, DiffSnapshots, Crash
<1> QED
  BY <1>1, <1>2, <1>3, <1>4 DEF Next

LEMMA NextInv == Inv /\ [Next]_vars => Inv'
<1> SUFFICES ASSUME Inv, [Next]_vars PROVE Inv'
  OBVIOUS
<1>1. CASE Next
  BY <1>1, NextParts, NextCrash DEF Inv, CrashNeedsOutdatedReference
<1>2. CASE UNCHANGED vars
  BY <1>2 DEF vars, docVars, pageVars, nodeVars, snapVars, Inv, DocInv,
              PageInv, NodeInv, SnapInv, OnlyRenameOutdatesViews, ViewReadable,
              OnlyCompactOutdatesCursors, CursorCurrent, NodesApart,
              WatchedFound, WatchesAccounted, Snapshot, Watched,
              SnapshotsDistinct, CrashNeedsOutdatedReference
<1> QED
  BY <1>1, <1>2

THEOREM Safety == Spec => []Inv
<1>1. Init => Inv
  BY InitInv
<1>2. Inv /\ [Next]_vars => Inv'
  BY NextInv
<1> QED
  BY <1>1, <1>2, PTL DEF Spec

(* For any number of documents, pages, nodes and references: a view goes    *)
(* bad only by the RENAME of its document, a cursor only by COMPACT, a      *)
(* watch only by the DROP of its node.                                      *)
THEOREM ReferencesGoBadInOneWay == Spec => []OutdatedInOneWay
<1>1. Inv => OutdatedInOneWay
  BY DEF Inv, DocInv, PageInv, NodeInv, WatchesAccounted, OutdatedInOneWay,
         OnlyDropOutdatesWatches, LiveNodes
<1> QED
  BY <1>1, Safety, PTL

(* MANIFEST, SCAN and AUDIT, the commands that follow pointers, bring the   *)
(* process down only after a RENAME, COMPACT or DROP left a reference       *)
(* behind.                                                                  *)
THEOREM CrashIsOutdated == Spec => []CrashNeedsOutdatedReference
<1>1. Inv => CrashNeedsOutdatedReference
  BY DEF Inv
<1> QED
  BY <1>1, Safety, PTL

(* WATCHSNAP, which looks for watched nodes by their address, finds the     *)
(* nodes that were watched, whatever addresses nodes are given again.       *)
THEOREM WatchListIsFaithful == Spec => []WatchListFaithful
<1>1. Inv => WatchListFaithful
  <2> SUFFICES ASSUME Inv PROVE WatchListFaithful
    OBVIOUS
  <2>1. watchedIds \subseteq DOMAIN Snapshot
    BY DEF Inv, NodeInv, WatchedFound
  <2>2. ASSUME outdatedWatches = {}, NEW id \in DOMAIN Snapshot
        PROVE  id \in watchedIds
    <3>1. id \in DOMAIN nodes /\ nodes[id].object \in Watched
      BY <2>2, ListedFacts
    <3>2. PICK i \in DOMAIN watches : watches[i] = nodes[id].object
      BY <3>1 DEF Watched
    <3>3. PICK known \in watchedIds : /\ known \in DOMAIN nodes
                                      /\ nodes[known].object = watches[i]
      BY <2>2 DEF Inv, NodeInv, WatchesAccounted
    <3> QED
      BY <3>1, <3>2, <3>3 DEF Inv, NodeInv, NodesApart
  <2> QED
    BY <2>1, <2>2 DEF WatchListFaithful
<1> QED
  BY <1>1, Safety, PTL

(* RESTORE makes the live store exactly what the snapshot holds, and leaves *)
(* no view, cursor or watch that is not sound.                              *)
THEOREM RestoreIsExact == Spec => RestoreExact
<1> DEFINE Exact == restoreCount' # restoreCount =>
               /\ Contents' = FindSnapshot(current').contents
               /\ \A i \in DOMAIN titleViews' : ViewReadable(titleViews[i])'
               /\ \A i \in DOMAIN cursors' : CursorCurrent(cursors[i])'
               /\ Watched' \subseteq LiveNodes'
<1>1. Inv /\ [Next]_vars => [Exact]_vars
  <2> SUFFICES ASSUME Inv, Next, restoreCount' # restoreCount PROVE Exact
    OBVIOUS
  <2>1. UNCHANGED snapVars => UNCHANGED restoreCount
    BY DEF snapVars
  <2>2. PICK id \in SnapshotIds : RestoreSnapshot(id)
    BY <2>1 DEF Next, SnapNext, CaptureSnapshot, InspectSnapshots, DiffSnapshots
  <2>3. status' = "ok"
    BY <2>2 DEF RestoreSnapshot
  <2>4. /\ current' = id
        /\ Contents' = FindSnapshot(id).contents
        /\ \A i \in DOMAIN titleViews' : ViewReadable(titleViews[i])'
        /\ cursors' = <<>>
        /\ watches' = <<>>
    BY <2>2, <2>3, RestoreStep
  <2>5. Contents' = FindSnapshot(current').contents
    BY <2>4
  <2>6. DOMAIN cursors' = {} /\ Watched' = {}
    BY <2>4 DEF Watched
  <2> QED
    BY <2>4, <2>5, <2>6
<1> QED
  BY <1>1, Safety, PTL DEF Spec, RestoreExact

-----------------------------------------------------------------------------
(* The archive implements Holdings: HeldDocuments, HeldPages, HeldNodes and *)
(* HeldSnapshots are the values its objects stand for.                      *)

HeldDocuments ==
    [id \in DOMAIN documents |-> [title |-> documents[id].title_size, body |-> 0]]

HeldPages ==
    [id \in DOMAIN pages |->
        [bytes |-> pages[id].size, generation |-> pages[id].generation]]

HeldNodes == [id \in DOMAIN nodes |-> nodes[id].value]

HeldSnapshots == [id \in CapturedIds |-> FindSnapshot(id).contents]

held == <<HeldDocuments, HeldPages, HeldNodes, Len(watches), HeldSnapshots, epoch>>

Stays == [Held!HoldNext]_<<Held!holdVars, epoch>>

LEMMA StaysHeld == (UNCHANGED held) => Stays
BY DEF held, Stays, Held!holdVars, HeldDocuments, HeldPages, HeldNodes, HeldSnapshots

LEMMA HeldContents ==
    Contents = [documents |-> HeldDocuments, pages |-> HeldPages,
                nodes |-> HeldNodes]
BY DEF Contents, HeldDocuments, HeldPages, HeldNodes

(* What a component leaves alone, it holds.                                 *)
LEMMA HeldUnchanged ==
    /\ UNCHANGED documents => UNCHANGED HeldDocuments
    /\ UNCHANGED pages => UNCHANGED HeldPages
    /\ UNCHANGED nodes => UNCHANGED HeldNodes
    /\ UNCHANGED watches => UNCHANGED Len(watches)
    /\ UNCHANGED captured => UNCHANGED HeldSnapshots
    /\ UNCHANGED docVars => UNCHANGED documents
    /\ UNCHANGED pageVars => UNCHANGED pages
    /\ UNCHANGED nodeVars => UNCHANGED nodes /\ UNCHANGED watches
    /\ UNCHANGED snapVars => UNCHANGED captured
<1>1. UNCHANGED documents => UNCHANGED HeldDocuments
  BY DEF HeldDocuments
<1>2. UNCHANGED pages => UNCHANGED HeldPages
  BY DEF HeldPages
<1>3. UNCHANGED nodes => UNCHANGED HeldNodes
  BY DEF HeldNodes
<1>4. UNCHANGED captured => UNCHANGED HeldSnapshots
  BY DEF HeldSnapshots, CapturedIds, FindSnapshot
<1> QED
  BY <1>1, <1>2, <1>3, <1>4 DEF docVars, pageVars, nodeVars, snapVars

LEMMA InitHolds == Init => Held!HoldInit /\ epoch = 0
<1> SUFFICES ASSUME Init PROVE Held!HoldInit /\ epoch = 0
  OBVIOUS
<1>1. /\ DOMAIN documents = {} /\ DOMAIN pages = {} /\ DOMAIN nodes = {}
      /\ Len(watches) = 0
  BY DEF Init, DocInit, PageInit, NodeInit
<1>2. CapturedIds = {}
  BY DEF Init, CapturedIds
<1> QED
  BY <1>1, <1>2 DEF Init, Held!HoldInit, Held!Empty

LEMMA DocHolds ==
    ASSUME Inv, DocNext, UNCHANGED <<pageVars, nodeVars, snapVars>>
    PROVE  Stays
<1>1. UNCHANGED <<HeldPages, HeldNodes, Len(watches), HeldSnapshots>>
  BY HeldUnchanged
<1>2. documents \in [DOMAIN documents -> Title]
  BY TableFacts DEF Inv, DocInv
<1>3. ASSUME NEW id \in DocIds, NEW size \in 0..(TitleLimit + 1),
             AddDocument(id, size), status' = "ok"
      PROVE  Held!AddDocument(id, size, 0) /\ size \in 1..TitleLimit
  <2>1. PICK buffer \in FreeTitles :
            documents' = Put(documents, id, [title |-> buffer, title_size |-> size])
    BY <1>3 DEF AddDocument
  <2>2. id \notin DOMAIN documents /\ size \in 1..TitleLimit /\ NextEpoch
    BY <1>3 DEF AddDocument, AddDocumentCheck
  <2>3. HeldDocuments' = [y \in DOMAIN HeldDocuments \cup {id} |->
                             IF y = id THEN [title |-> size, body |-> 0]
                             ELSE HeldDocuments[y]]
    BY <2>1, <2>2 DEF HeldDocuments, Put
  <2> QED
    BY <1>1, <2>2, <2>3 DEF Held!AddDocument, Held!Put, Held!NextEpoch,
       NextEpoch, HeldDocuments, HeldPages, HeldNodes, HeldSnapshots
<1>4. ASSUME NEW id \in DocIds, NEW size \in 0..(TitleLimit + 1),
             RenameDocument(id, size), status' = "ok"
      PROVE  Held!RenameDocument(id, size) /\ size \in 1..TitleLimit
  <2>1. PICK buffer \in FreeTitles :
            documents' = [documents EXCEPT
                             ![id] = [title |-> buffer, title_size |-> size]]
    BY <1>4 DEF RenameDocument
  <2>2. id \in DOMAIN documents /\ size \in 1..TitleLimit /\ NextEpoch
    BY <1>4 DEF RenameDocument, RenameCheck
  <2>3. HeldDocuments' = [HeldDocuments EXCEPT ![id].title = size]
    BY <1>2, <2>1, <2>2 DEF HeldDocuments
  <2> QED
    BY <1>1, <2>2, <2>3 DEF Held!RenameDocument, Held!NextEpoch, NextEpoch,
       HeldDocuments, HeldPages, HeldNodes, HeldSnapshots
<1>5. UNCHANGED <<documents, epoch>> => UNCHANGED held
  BY <1>1, HeldUnchanged DEF held
<1>6. ASSUME NEW id \in DocIds, NEW size \in 0..(TitleLimit + 1),
             AddDocument(id, size) \/ RenameDocument(id, size), status' # "ok"
      PROVE  UNCHANGED <<documents, epoch>>
  BY <1>6 DEF AddDocument, RenameDocument
<1>7. ASSUME NEW id \in DocIds, CreateTitleView(id)
      PROVE  UNCHANGED <<documents, epoch>>
  BY <1>7 DEF CreateTitleView
<1>8. EmitManifest => UNCHANGED <<documents, epoch>>
  BY DEF EmitManifest, docVars
<1>9. /\ \A id \in DocIds, size \in 1..TitleLimit :
             Held!AddDocument(id, size, 0) => Held!HoldNext
      /\ \A id \in DocIds, size \in 1..TitleLimit :
             Held!RenameDocument(id, size) => Held!HoldNext
  BY DEF Held!HoldNext
<1>10. Held!HoldNext \/ UNCHANGED held
  BY <1>3, <1>4, <1>5, <1>6, <1>7, <1>8, <1>9 DEF DocNext
<1> QED
  BY <1>10, StaysHeld DEF Stays

LEMMA PageHolds ==
    ASSUME Inv, PageNext, UNCHANGED <<docVars, nodeVars, snapVars>>
    PROVE  Stays
<1>1. UNCHANGED <<HeldDocuments, HeldNodes, Len(watches), HeldSnapshots>>
  BY HeldUnchanged
<1>2. pages \in [DOMAIN pages -> Page]
  BY TableFacts DEF Inv, PageInv
<1>3. ASSUME NEW id \in PageIds, NEW size \in 0..(PageLimit + 1),
             AddPage(id, size), status' = "ok"
      PROVE  Held!AddPage(id, size) /\ size \in 1..PageLimit
  <2>1. PICK address \in FreePages :
            pages' = Put(pages, id, [object |-> address, size |-> size,
                                     generation |-> epoch])
    BY <1>3 DEF AddPage
  <2>2. id \notin DOMAIN pages /\ size \in 1..PageLimit /\ UNCHANGED epoch
    BY <1>3 DEF AddPage, AddPageCheck
  <2>3. HeldPages' = [y \in DOMAIN HeldPages \cup {id} |->
                         IF y = id THEN [bytes |-> size, generation |-> epoch]
                         ELSE HeldPages[y]]
    BY <2>1, <2>2 DEF HeldPages, Put
  <2> QED
    BY <1>1, <2>2, <2>3 DEF Held!AddPage, Held!Put,
       HeldDocuments, HeldPages, HeldNodes, HeldSnapshots
<1>4. ASSUME CompactPages, status' = "ok" PROVE Held!CompactPages
  <2>1. PICK place \in Placements(DOMAIN pages, FreePages) :
            pages' = [id \in DOMAIN pages |->
                         [object |-> place[id], size |-> pages[id].size,
                          generation |-> epoch + 1]]
    BY <1>4 DEF CompactPages
  <2>2. DOMAIN pages # {} /\ NextEpoch
    BY <1>4 DEF CompactPages
  <2>3. HeldPages' = [id \in DOMAIN HeldPages |->
                         [HeldPages[id] EXCEPT !.generation = epoch + 1]]
    BY <1>2, <2>1 DEF HeldPages
  <2> QED
    BY <1>1, <2>2, <2>3 DEF Held!CompactPages, Held!NextEpoch, NextEpoch,
       HeldDocuments, HeldPages, HeldNodes, HeldSnapshots
<1>5. UNCHANGED <<pages, epoch>> => UNCHANGED held
  BY <1>1, HeldUnchanged DEF held
<1>6. ASSUME NEW id \in PageIds, NEW size \in 0..(PageLimit + 1),
             AddPage(id, size), status' # "ok"
      PROVE  UNCHANGED <<pages, epoch>>
  BY <1>6 DEF AddPage
<1>7. ASSUME CompactPages, status' # "ok" PROVE UNCHANGED <<pages, epoch>>
  BY <1>7 DEF CompactPages
<1>8. ASSUME NEW id, NEW offset, CreateCursor(id, offset)
      PROVE  UNCHANGED <<pages, epoch>>
  BY <1>8 DEF CreateCursor
<1>9. ASSUME NEW index, ScanCursor(index) PROVE UNCHANGED <<pages, epoch>>
  BY <1>9 DEF ScanCursor, pageVars
<1>10. /\ \A id \in PageIds, size \in 1..PageLimit :
              Held!AddPage(id, size) => Held!HoldNext
       /\ Held!CompactPages => Held!HoldNext
  BY DEF Held!HoldNext
<1>11. Held!HoldNext \/ UNCHANGED held
  BY <1>3, <1>4, <1>5, <1>6, <1>7, <1>8, <1>9, <1>10 DEF PageNext
<1> QED
  BY <1>11, StaysHeld DEF Stays

LEMMA NodeHolds ==
    ASSUME Inv, NodeNext, UNCHANGED <<docVars, pageVars, snapVars>>
    PROVE  Stays
<1>1. UNCHANGED <<HeldDocuments, HeldPages, HeldSnapshots>>
  BY HeldUnchanged
<1>2. nodes \in [DOMAIN nodes -> Node] /\ watches \in Seq(NodeAddresses)
  BY TableFacts DEF Inv, NodeInv
<1>3. ASSUME NEW id \in NodeIds, NEW value \in Values,
             AddNode(id, value), status' = "ok"
      PROVE  Held!AddNode(id, value)
  <2>1. PICK address \in FreeNodes :
            nodes' = Put(nodes, id, [object |-> address, value |-> value])
    BY <1>3 DEF AddNode
  <2>2. id \notin DOMAIN nodes /\ UNCHANGED <<watches, epoch>>
    BY <1>3 DEF AddNode
  <2>3. HeldNodes' = [y \in DOMAIN HeldNodes \cup {id} |->
                         IF y = id THEN value ELSE HeldNodes[y]]
    BY <2>1, <2>2 DEF HeldNodes, Put
  <2> QED
    BY <1>1, <2>2, <2>3 DEF Held!AddNode, Held!Put,
       HeldDocuments, HeldPages, HeldNodes, HeldSnapshots
<1>4. ASSUME NEW id \in NodeIds, WatchNode(id), status' = "ok"
      PROVE  Held!WatchNode
  <2>1. /\ id \in DOMAIN nodes
        /\ watches' = Append(watches, nodes[id].object)
        /\ UNCHANGED <<nodes, epoch>>
    BY <1>4 DEF WatchNode
  <2>2. nodes[id].object \in NodeAddresses
    BY <1>2, <2>1 DEF Node
  <2>3. Len(watches') = Len(watches) + 1
    BY <1>2, <2>1, <2>2, AppendFacts
  <2> QED
    BY <1>1, <2>1, <2>3, HeldUnchanged DEF Held!WatchNode,
       HeldDocuments, HeldPages, HeldNodes, HeldSnapshots
<1>5. ASSUME NEW id \in NodeIds, DropNode(id), status' = "ok"
      PROVE  Held!DropNode(id)
  <2>1. /\ id \in DOMAIN nodes
        /\ nodes' = [x \in DOMAIN nodes \ {id} |-> nodes[x]]
        /\ NextEpoch
        /\ UNCHANGED watches
    BY <1>5 DEF DropNode, Restrict
  <2>2. HeldNodes' = [x \in DOMAIN HeldNodes \ {id} |-> HeldNodes[x]]
    BY <2>1 DEF HeldNodes
  <2> QED
    BY <1>1, <2>1, <2>2 DEF Held!DropNode, Held!Restrict, Held!NextEpoch,
       NextEpoch, Restrict, HeldDocuments, HeldPages, HeldNodes, HeldSnapshots
<1>6. UNCHANGED <<nodes, watches, epoch>> => UNCHANGED held
  BY <1>1, HeldUnchanged DEF held
<1>7. ASSUME NEW id, NEW value, AddNode(id, value), status' # "ok"
      PROVE  UNCHANGED <<nodes, watches, epoch>>
  BY <1>7 DEF AddNode
<1>8. ASSUME NEW id, WatchNode(id) \/ DropNode(id), status' # "ok"
      PROVE  UNCHANGED <<nodes, watches, epoch>>
  BY <1>8 DEF WatchNode, DropNode
<1>9. AuditWatches => UNCHANGED <<nodes, watches, epoch>>
  BY DEF AuditWatches, nodeVars
<1>10. ASSUME NEW tag, SnapshotWatches(tag)
       PROVE  UNCHANGED <<nodes, watches, epoch>>
  BY <1>10 DEF SnapshotWatches
<1>11. ASSUME NEW mode, ReviewWatchState(mode)
       PROVE  UNCHANGED <<nodes, watches, epoch>>
  BY <1>11 DEF ReviewWatchState
<1>12. /\ \A id \in NodeIds, value \in Values :
              Held!AddNode(id, value) => Held!HoldNext
       /\ Held!WatchNode => Held!HoldNext
       /\ \A id \in NodeIds : Held!DropNode(id) => Held!HoldNext
  BY DEF Held!HoldNext
<1>13. Held!HoldNext \/ UNCHANGED held
  BY <1>3, <1>4, <1>5, <1>6, <1>7, <1>8, <1>9, <1>10, <1>11, <1>12 DEF NodeNext
<1> QED
  BY <1>13, StaysHeld DEF Stays

LEMMA SnapHolds ==
    ASSUME Inv, SnapNext
    PROVE  Stays
<1>1. ASSUME NEW id \in SnapshotIds \cup {NoSnapshot}, CaptureSnapshot(id),
             status' = "ok"
      PROVE  Held!CaptureSnapshot(id) /\ id \in SnapshotIds
  <2>1. /\ id \in SnapshotIds \ CapturedIds
        /\ CapturedIds' = CapturedIds \cup {id}
        /\ FindSnapshot(id)'.contents = Contents
        /\ \A x \in CapturedIds : FindSnapshot(x)' = FindSnapshot(x)
    BY <1>1, CaptureStep
  <2>2. UNCHANGED <<HeldDocuments, HeldPages, HeldNodes, watches, epoch>>
    BY <1>1, HeldUnchanged DEF CaptureSnapshot
  <2>3. HeldSnapshots' = [x \in CapturedIds' |-> FindSnapshot(x)'.contents]
    BY DEF HeldSnapshots
  <2>4. HeldSnapshots' = [x \in DOMAIN HeldSnapshots \cup {id} |->
                             IF x = id THEN Contents ELSE HeldSnapshots[x]]
    BY <2>1, <2>3 DEF HeldSnapshots
  <2> QED
    BY <2>1, <2>2, <2>4, HeldContents DEF Held!CaptureSnapshot, Held!Contents,
       Held!Put, HeldDocuments, HeldPages, HeldNodes, HeldSnapshots
<1>2. ASSUME NEW id \in SnapshotIds, RestoreSnapshot(id), status' = "ok"
      PROVE  Held!RestoreSnapshot(id)
  <2>1. id \in CapturedIds /\ Contents' = FindSnapshot(id).contents
        /\ watches' = <<>>
    BY <1>2, RestoreStep
  <2>2. UNCHANGED <<HeldSnapshots, epoch>>
    BY <1>2, HeldUnchanged DEF RestoreSnapshot
  <2>3. HeldSnapshots[id] = Contents'
    BY <2>1 DEF HeldSnapshots
  <2>4. /\ HeldDocuments' = HeldSnapshots[id].documents
        /\ HeldPages' = HeldSnapshots[id].pages
        /\ HeldNodes' = HeldSnapshots[id].nodes
    BY <2>3, HeldContents DEF Contents, HeldDocuments, HeldPages, HeldNodes
  <2>5. id \in DOMAIN HeldSnapshots /\ Len(watches') = 0
    BY <2>1 DEF HeldSnapshots
  <2> QED
    BY <2>2, <2>4, <2>5 DEF Held!RestoreSnapshot,
       HeldDocuments, HeldPages, HeldNodes, HeldSnapshots
<1>3. UNCHANGED <<documents, pages, nodes, watches, captured, epoch>>
          => UNCHANGED held
  BY HeldUnchanged DEF held
<1>4. ASSUME NEW id, CaptureSnapshot(id) \/ RestoreSnapshot(id), status' # "ok"
      PROVE  UNCHANGED <<documents, pages, nodes, watches, captured, epoch>>
  BY <1>4 DEF CaptureSnapshot, RestoreSnapshot, docVars, pageVars, nodeVars
<1>5. ASSUME NEW left, NEW right, InspectSnapshots \/ DiffSnapshots(left, right)
      PROVE  UNCHANGED <<documents, pages, nodes, watches, captured, epoch>>
  BY <1>5 DEF InspectSnapshots, DiffSnapshots, docVars, pageVars, nodeVars,
              snapVars
<1>6. /\ \A id \in SnapshotIds : Held!CaptureSnapshot(id) => Held!HoldNext
      /\ \A id \in SnapshotIds : Held!RestoreSnapshot(id) => Held!HoldNext
  BY DEF Held!HoldNext
<1>7. Held!HoldNext \/ UNCHANGED held
  BY <1>1, <1>2, <1>3, <1>4, <1>5, <1>6 DEF SnapNext
<1> QED
  BY <1>7, StaysHeld DEF Stays

(* Whatever moves in memory, the archive holds what Holdings says a journal *)
(* of its successful commands makes.                                        *)
THEOREM ArchiveHolds == Spec => HoldingsImplemented
<1>1. Init => Held!HoldInit /\ epoch = 0
  BY InitHolds
<1>2. Inv /\ [Next]_vars => [Held!HoldNext]_<<Held!holdVars, epoch>>
  <2> SUFFICES ASSUME Inv, [Next]_vars PROVE Stays
    BY DEF Stays
  <2>1. CASE Next
    BY <2>1, DocHolds, PageHolds, NodeHolds, SnapHolds DEF Next
  <2>2. CASE UNCHANGED vars
    BY <2>2, HeldUnchanged, StaysHeld DEF vars, held
  <2> QED
    BY <2>1, <2>2
<1> QED
  BY <1>1, <1>2, Safety, PTL DEF Spec, HoldingsImplemented, Held!HoldSpec
=============================================================================
