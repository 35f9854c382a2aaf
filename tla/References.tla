----------------------------- MODULE References -----------------------------
(***************************************************************************)
(* The table of links: LINKS, FOLLOW and EXPORT (src/src/references.cpp,   *)
(* export.cpp).                                                            *)
(***************************************************************************)
EXTENDS Store

CONSTANTS
    LinkTables,    \* tables of targets commands define
    LinkLimit      \* longest table (the code: 4096)

ASSUME ReferenceConstants ==
    /\ LinkLimit \in Nat
    /\ \A targets \in LinkTables : targets \in Seq(Nat)

VARIABLES
    links,         \* LinkTable.targets
    selected       \* LinkTable.selected: a position, 0 for none

linkVars == <<links, selected>>

LinkInit ==
    /\ links = <<>>
    /\ selected = 0

-----------------------------------------------------------------------------
(* LINKS targets *)

\* Mutant: the link selected in the old table stays selected.
InstallLinksOnly(targets) ==
    /\ links' = targets
    /\ UNCHANGED selected

InstallLinks(targets) ==
    /\ links' = targets
    /\ selected' = 0

DefineLinks(targets) ==
    /\ status' = IF Len(targets) \notin 1..LinkLimit THEN "limit" ELSE "ok"
    /\ IF status' = "ok" THEN InstallLinks(targets) ELSE UNCHANGED linkVars

-----------------------------------------------------------------------------
(* FOLLOW index *)
SelectLink(index) ==
    /\ status' = IF index \notin DOMAIN links THEN "limit" ELSE "ok"
    /\ selected' = IF status' = "ok" THEN index ELSE selected
    /\ UNCHANGED links

-----------------------------------------------------------------------------
(* EXPORT: indexes the table without a look at its size. *)
ExportSelectedLink ==
    /\ IF selected = 0 THEN status' = "invalid_state"
       ELSE status' \in ReadOutcome(selected \in DOMAIN links)
    /\ UNCHANGED linkVars

-----------------------------------------------------------------------------
LinkNext ==
    \/ \E targets \in LinkTables : DefineLinks(targets)
    \/ \E index \in 1..(Len(links) + 1) : SelectLink(index)
    \/ ExportSelectedLink
=============================================================================
