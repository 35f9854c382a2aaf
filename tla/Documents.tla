----------------------------- MODULE Documents -----------------------------
(***************************************************************************)
(* Documents and title views: DOC, VIEW, RENAME and MANIFEST               *)
(* (src/src/store.cpp, transaction.cpp, manifest.cpp).                     *)
(*                                                                         *)
(* A title is abstracted to its length, which is what a view copies; a     *)
(* body never changes and is not modelled.                                 *)
(***************************************************************************)
EXTENDS Store

CONSTANTS
    DocIds,         \* document identifiers, numbers
    TitleLimit,     \* longest title (the code: 4096)
    TitleBuffers,   \* addresses of title buffers
    MaxViews        \* bound of the model: views alive at a time

ASSUME DocumentConstants ==
    /\ DocIds \subseteq Nat
    /\ TitleLimit \in Nat
    /\ MaxViews \in Nat

VARIABLES
    documents,      \* Store.documents: id |-> title buffer and its length
    titleViews,     \* Store.title_views: document, buffer and length
    outdatedViews   \* history: views whose document was renamed since

docVars == <<documents, titleViews, outdatedViews>>

DocInit ==
    /\ documents = [id \in {} |-> 0]
    /\ titleViews = <<>>
    /\ outdatedViews = {}

LiveTitles == {documents[id].title : id \in DOMAIN documents}

FreeTitles == TitleBuffers \ LiveTitles

\* create_title_view: the view copies the pointer and the length.
ViewOf(docs, id) ==
    [document_id |-> id, data |-> docs[id].title, size |-> docs[id].title_size]

\* Reading the view touches only what its document's title holds now.
ViewReadable(view) ==
    /\ view.document_id \in DOMAIN documents
    /\ documents[view.document_id].title = view.data
    /\ documents[view.document_id].title_size >= view.size

-----------------------------------------------------------------------------
(* DOC id title body *)

AddDocumentCheck(id, size) ==
    IF id \in DOMAIN documents THEN "invalid_state"
    ELSE IF size \notin 1..TitleLimit THEN "limit" ELSE "ok"

AddDocument(id, size) ==
    /\ status' = AddDocumentCheck(id, size)
    /\ IF status' = "ok"
       THEN /\ \E buffer \in FreeTitles :
                  documents' = Put(documents, id,
                                   [title |-> buffer, title_size |-> size])
            /\ NextEpoch
       ELSE UNCHANGED <<documents, epoch>>
    /\ UNCHANGED <<titleViews, outdatedViews>>

-----------------------------------------------------------------------------
(* VIEW id *)

CreateTitleView(id) ==
    /\ Len(titleViews) < MaxViews
    /\ status' = IF id \in DOMAIN documents THEN "ok" ELSE "not_found"
    /\ IF status' = "ok"
       THEN titleViews' = Append(titleViews, ViewOf(documents, id))
       ELSE UNCHANGED titleViews
    /\ UNCHANGED <<documents, outdatedViews, epoch>>

-----------------------------------------------------------------------------
(* RENAME id title: the new buffer is allocated before the old is freed. *)

RenameCheck(id, size) ==
    IF id \notin DOMAIN documents THEN "not_found"
    ELSE IF size \notin 1..TitleLimit THEN "limit" ELSE "ok"

RenameDocument(id, size) ==
    /\ status' = RenameCheck(id, size)
    /\ IF status' = "ok"
       THEN /\ \E buffer \in FreeTitles :
                  documents' = [documents EXCEPT
                                    ![id] = [title |-> buffer, title_size |-> size]]
            /\ outdatedViews' = outdatedViews \cup
                   {i \in DOMAIN titleViews : titleViews[i].document_id = id}
            /\ NextEpoch
       ELSE UNCHANGED <<documents, outdatedViews, epoch>>
    /\ UNCHANGED titleViews

-----------------------------------------------------------------------------
(* MANIFEST: reads every view through its pointer. *)

EmitManifest ==
    /\ status' \in ReadOutcome(\A i \in DOMAIN titleViews :
                                  ViewReadable(titleViews[i]))
    /\ UNCHANGED <<docVars, epoch>>

-----------------------------------------------------------------------------
(* RESTORE, the documents' part: everything is dropped, then each captured  *)
(* document is built anew and each gets a view, in the order of their ids.  *)

RestoreDocuments(captured) ==
    LET ids == DOMAIN captured
    IN  \E place \in Placements(ids, TitleBuffers), order \in Ascending(ids) :
            /\ documents' = [id \in ids |-> [title |-> place[id],
                                             title_size |-> captured[id].title]]
            /\ titleViews' = [i \in DOMAIN order |-> ViewOf(documents', order[i])]
            /\ outdatedViews' = {}

-----------------------------------------------------------------------------
DocNext ==
    \/ \E id \in DocIds, size \in 0..(TitleLimit + 1) : AddDocument(id, size)
    \/ \E id \in DocIds : CreateTitleView(id)
    \/ \E id \in DocIds, size \in 0..(TitleLimit + 1) : RenameDocument(id, size)
    \/ EmitManifest

(* A title view goes bad in one way only: its own document is renamed after *)
(* the view was made.  No other document's rename, addition, or restore     *)
(* takes a title away from under a view.                                    *)
OnlyRenameOutdatesViews ==
    \A i \in DOMAIN titleViews \ outdatedViews : ViewReadable(titleViews[i])

(* MANIFEST reads whatever views there are and reports ok.                  *)
ManifestSucceeds == [][EmitManifest => status' = "ok"]_<<docVars, epoch, status>>
=============================================================================
