------------------------------- MODULE Pages -------------------------------
(***************************************************************************)
(* Pages and cursors: PAGE, CURSOR, COMPACT and SCAN (src/src/store.cpp,   *)
(* compaction.cpp, query.cpp).                                             *)
(*                                                                         *)
(* The bytes of a page are abstracted to their number.  COMPACT reverses   *)
(* them twice, which leaves them as they were, in a new object.            *)
(***************************************************************************)
EXTENDS Store

CONSTANTS
    PageIds,          \* page identifiers
    PageLimit,        \* largest page (the code: 2^20 bytes)
    PageAddresses,    \* addresses of Page objects
    MaxCursors        \* bound of the model: cursors alive at a time

ASSUME PageConstants ==
    /\ PageLimit \in Nat
    /\ MaxCursors \in Nat

VARIABLES
    pages,            \* Store.pages: id |-> object, size and generation
    cursors,          \* Store.cursors: page id, Page object and offset
    outdatedCursors   \* history: cursors made before the last COMPACT

pageVars == <<pages, cursors, outdatedCursors>>

PageInit ==
    /\ pages = [id \in {} |-> 0]
    /\ cursors = <<>>
    /\ outdatedCursors = {}

LivePages == {pages[id].object : id \in DOMAIN pages}

FreePages == PageAddresses \ LivePages

\* SCAN through the cursor reads the page it names, from inside it.
CursorCurrent(cursor) ==
    /\ cursor.page_id \in DOMAIN pages
    /\ pages[cursor.page_id].object = cursor.page
    /\ cursor.offset < pages[cursor.page_id].size

-----------------------------------------------------------------------------
(* PAGE id bytes *)

AddPageCheck(id, size) ==
    IF size \notin 1..PageLimit THEN "limit"
    ELSE IF id \in DOMAIN pages THEN "invalid_state" ELSE "ok"

AddPage(id, size) ==
    /\ status' = AddPageCheck(id, size)
    /\ IF status' = "ok"
       THEN \E address \in FreePages :
               pages' = Put(pages, id, [object |-> address, size |-> size,
                                        generation |-> epoch])
       ELSE UNCHANGED pages
    /\ UNCHANGED <<cursors, outdatedCursors, epoch>>

-----------------------------------------------------------------------------
(* CURSOR id offset *)

CursorCheck(id, offset) ==
    IF id \notin DOMAIN pages THEN "not_found"
    ELSE IF offset >= pages[id].size THEN "limit" ELSE "ok"

CreateCursor(id, offset) ==
    /\ Len(cursors) < MaxCursors
    /\ status' = CursorCheck(id, offset)
    /\ IF status' = "ok"
       THEN cursors' = Append(cursors, [page_id |-> id, offset |-> offset,
                                        page |-> pages[id].object])
       ELSE UNCHANGED cursors
    /\ UNCHANGED <<pages, outdatedCursors, epoch>>

-----------------------------------------------------------------------------
(* COMPACT: every page moves to a new object, allocated while all the old   *)
(* ones are alive, and takes the generation of the epoch that begins.       *)

\* Mutant: the generation of the epoch that ends.
CompactPagesEarly ==
    /\ status' = IF DOMAIN pages = {} THEN "invalid_state" ELSE "ok"
    /\ IF status' = "ok"
       THEN /\ \E place \in Placements(DOMAIN pages, FreePages) :
                  pages' = [id \in DOMAIN pages |->
                               [object |-> place[id], size |-> pages[id].size,
                                generation |-> epoch]]
            /\ outdatedCursors' = DOMAIN cursors
            /\ NextEpoch
       ELSE UNCHANGED <<pages, outdatedCursors, epoch>>
    /\ UNCHANGED cursors

CompactPages ==
    /\ status' = IF DOMAIN pages = {} THEN "invalid_state" ELSE "ok"
    /\ IF status' = "ok"
       THEN /\ \E place \in Placements(DOMAIN pages, FreePages) :
                  pages' = [id \in DOMAIN pages |->
                               [object |-> place[id], size |-> pages[id].size,
                                generation |-> epoch + 1]]
            /\ outdatedCursors' = DOMAIN cursors
            /\ NextEpoch
       ELSE UNCHANGED <<pages, outdatedCursors, epoch>>
    /\ UNCHANGED cursors

-----------------------------------------------------------------------------
(* SCAN index: reads the cursor's page through its pointer. *)

ScanCursor(index) ==
    /\ IF index \in DOMAIN cursors
       THEN status' \in ReadOutcome(CursorCurrent(cursors[index]))
       ELSE status' = "not_found"
    /\ UNCHANGED <<pageVars, epoch>>

-----------------------------------------------------------------------------
(* RESTORE, the pages' part: cursors are dropped, each captured page is     *)
(* built anew with the generation it had when it was captured.              *)

\* Mutant: a restored page takes the generation of now.
RestorePagesRegenerates(captured) ==
    /\ \E place \in Placements(DOMAIN captured, PageAddresses) :
          pages' = [id \in DOMAIN captured |->
                       [object |-> place[id], size |-> captured[id].bytes,
                        generation |-> epoch]]
    /\ cursors' = <<>>
    /\ outdatedCursors' = {}

\* Mutant: the cursors of before stay.
RestorePagesKeepsCursors(captured) ==
    /\ \E place \in Placements(DOMAIN captured, PageAddresses) :
          pages' = [id \in DOMAIN captured |->
                       [object |-> place[id], size |-> captured[id].bytes,
                        generation |-> captured[id].generation]]
    /\ outdatedCursors' = {}
    /\ UNCHANGED cursors

RestorePages(captured) ==
    /\ \E place \in Placements(DOMAIN captured, PageAddresses) :
          pages' = [id \in DOMAIN captured |->
                       [object |-> place[id], size |-> captured[id].bytes,
                        generation |-> captured[id].generation]]
    /\ cursors' = <<>>
    /\ outdatedCursors' = {}

-----------------------------------------------------------------------------
PageNext ==
    \/ \E id \in PageIds, size \in 0..(PageLimit + 1) : AddPage(id, size)
    \/ \E id \in PageIds, offset \in 0..PageLimit : CreateCursor(id, offset)
    \/ CompactPages
    \/ \E index \in 1..(MaxCursors + 1) : ScanCursor(index)

(* A cursor goes bad in one way only: COMPACT moves the pages after it was  *)
(* made.  Adding pages and restoring snapshots leave no cursor dangling.    *)
OnlyCompactOutdatesCursors ==
    \A i \in DOMAIN cursors \ outdatedCursors : CursorCurrent(cursors[i])
=============================================================================
