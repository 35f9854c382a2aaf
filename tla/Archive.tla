------------------------------ MODULE Archive ------------------------------
(***************************************************************************)
(* The archive of a journal: documents, pages and nodes with the views,    *)
(* cursors and watches that point into them, and SNAPSHOT, RESTORE,        *)
(* SNAPINFO and DIFFSNAP over them (src/src/snapshot.cpp, diff.cpp).       *)
(*                                                                         *)
(* A step is one command of the journal.  The journal ends at the first    *)
(* command that fails (execute_commands, engine.cpp:541).                  *)
(***************************************************************************)
EXTENDS Documents, Pages, Nodes, SequencesExt

CONSTANTS
    SnapshotIds,     \* valid snapshot identifiers (the code: any but 0)
    NoSnapshot,      \* the reserved identifier 0, and "none current"
    MaxRestores      \* bound of the model: restores of one journal

ASSUME ArchiveConstants ==
    /\ NoSnapshot \notin SnapshotIds
    /\ MaxRestores \in Nat

VARIABLES
    captured,        \* SnapshotState.captured
    current,         \* SnapshotState.current
    restoreCount,    \* SnapshotState.restore_count
    diff             \* Store.diff: the counts compared, or nothing yet

snapVars == <<captured, current, restoreCount, diff>>
vars == <<docVars, pageVars, nodeVars, snapVars, epoch, status>>

Init ==
    /\ epoch = 0
    /\ status = "ok"
    /\ DocInit
    /\ PageInit
    /\ NodeInit
    /\ captured = <<>>
    /\ current = NoSnapshot
    /\ restoreCount = 0
    /\ diff = <<>>

\* What capture_snapshot copies of the live store: values, no addresses.
\* The titles it also lists repeat the ids and titles of the documents; a
\* title and a page are known by their size, and bodies are not told apart.
Contents ==
    [documents |-> [id \in DOMAIN documents |->
                       [title |-> documents[id].title_size, body |-> 0]],
     pages     |-> [id \in DOMAIN pages |->
                       [bytes |-> pages[id].size,
                        generation |-> pages[id].generation]],
     nodes     |-> [id \in DOMAIN nodes |-> nodes[id].value]]

CapturedIds == {captured[i].snapshot_id : i \in DOMAIN captured}

\* find_snapshot: the first captured snapshot of that identifier.
FindSnapshot(id) ==
    captured[CHOOSE i \in DOMAIN captured :
                 /\ captured[i].snapshot_id = id
                 /\ \A j \in 1..(i - 1) : captured[j].snapshot_id # id]

-----------------------------------------------------------------------------
(* SNAPSHOT id *)

CaptureCheck(id) ==
    IF id = NoSnapshot THEN "limit"
    ELSE IF id \in CapturedIds THEN "invalid_state" ELSE "ok"

CaptureSnapshot(id) ==
    /\ status' = CaptureCheck(id)
    /\ IF status' = "ok"
       THEN /\ captured' = Append(captured,
                                  [snapshot_id |-> id, contents |-> Contents])
            /\ current' = id
       ELSE UNCHANGED <<captured, current>>
    /\ UNCHANGED <<docVars, pageVars, nodeVars, restoreCount, diff, epoch>>

-----------------------------------------------------------------------------
(* RESTORE id: the live store is cleared and rebuilt; the epoch stays.      *)

RestoreSnapshot(id) ==
    /\ status' = IF id \in CapturedIds THEN "ok" ELSE "not_found"
    /\ IF status' = "ok"
       THEN /\ restoreCount < MaxRestores
            /\ RestoreDocuments(FindSnapshot(id).contents.documents)
            /\ RestorePages(FindSnapshot(id).contents.pages)
            /\ RestoreNodes(FindSnapshot(id).contents.nodes)
            /\ current' = id
            /\ restoreCount' = restoreCount + 1
       ELSE UNCHANGED <<docVars, pageVars, nodeVars, current, restoreCount>>
    /\ UNCHANGED <<captured, diff, epoch>>

-----------------------------------------------------------------------------
(* SNAPINFO *)

InspectSnapshots ==
    /\ status' = IF captured = <<>> THEN "not_found" ELSE "ok"
    /\ UNCHANGED <<docVars, pageVars, nodeVars, snapVars, epoch>>

-----------------------------------------------------------------------------
(* DIFFSNAP left right: the counts of the two snapshots, side by side. *)

Sizes(contents) ==
    <<Cardinality(DOMAIN contents.documents), Cardinality(DOMAIN contents.pages),
      Cardinality(DOMAIN contents.nodes), Cardinality(DOMAIN contents.documents)>>

DiffSnapshots(left, right) ==
    /\ status' = IF {left, right} \subseteq CapturedIds THEN "ok" ELSE "not_found"
    /\ diff' = IF status' = "ok"
               THEN [left_id |-> left, right_id |-> right,
                     left |-> Sizes(FindSnapshot(left).contents),
                     right |-> Sizes(FindSnapshot(right).contents)]
               ELSE diff
    /\ UNCHANGED <<docVars, pageVars, nodeVars, captured, current,
                   restoreCount, epoch>>

-----------------------------------------------------------------------------
SnapNext ==
    \/ \E id \in SnapshotIds \cup {NoSnapshot} : CaptureSnapshot(id)
    \/ \E id \in SnapshotIds : RestoreSnapshot(id)
    \/ InspectSnapshots
    \/ \E left, right \in SnapshotIds : DiffSnapshots(left, right)

Next ==
    /\ Continues(status)
    /\ \/ DocNext /\ UNCHANGED <<pageVars, nodeVars, snapVars>>
       \/ PageNext /\ UNCHANGED <<docVars, nodeVars, snapVars>>
       \/ NodeNext /\ UNCHANGED <<docVars, pageVars, snapVars>>
       \/ SnapNext

Spec == Init /\ [][Next]_vars

-----------------------------------------------------------------------------
(* A reference goes bad in one way only: a view by the renaming of its      *)
(* document, a cursor by a compaction, a watch by the drop of its node,     *)
(* each after the reference was made.  Additions, snapshots and restores    *)
(* take nothing away from under a reference.                                *)
OutdatedInOneWay ==
    /\ OnlyRenameOutdatesViews
    /\ OnlyCompactOutdatesCursors
    /\ OnlyDropOutdatesWatches

(* RESTORE makes the live store exactly what the snapshot holds: nothing of *)
(* what came since survives, nothing captured is lost, and every view,      *)
(* cursor and watch that exists afterwards is sound.                        *)
RestoreExact ==
    [][restoreCount' # restoreCount =>
          /\ Contents' = FindSnapshot(current').contents
          /\ \A i \in DOMAIN titleViews' : ViewReadable(titleViews[i])'
          /\ \A i \in DOMAIN cursors' : CursorCurrent(cursors[i])'
          /\ Watched' \subseteq LiveNodes']_vars

\* The values the archive holds, without the addresses they have.
Held ==
    INSTANCE Holdings WITH
        documents <- [id \in DOMAIN documents |->
                         [title |-> documents[id].title_size, body |-> 0]],
        pages     <- [id \in DOMAIN pages |->
                         [bytes |-> pages[id].size,
                          generation |-> pages[id].generation]],
        nodes     <- [id \in DOMAIN nodes |-> nodes[id].value],
        watches   <- Len(watches),
        snapshots <- [id \in CapturedIds |-> FindSnapshot(id).contents],
        Titles    <- 1..TitleLimit,
        Bodies    <- {0},
        PageBytes <- 1..PageLimit

(* Whatever moves in memory, the archive holds what Holdings says a journal *)
(* of its successful commands makes: a command that fails changes no value, *)
(* a compaction and a snapshot keep every byte, and a restore brings back   *)
(* what was captured and not what became of it since.                       *)
HoldingsImplemented == Held!HoldSpec

(* The process dies only by reading through a view, cursor or watch that an *)
(* earlier RENAME, COMPACT or DROP left behind.                             *)
CrashNeedsOutdatedReference ==
    status = Crash =>
        \/ outdatedViews # {}
        \/ outdatedCursors # {}
        \/ outdatedWatches # {}
=============================================================================
