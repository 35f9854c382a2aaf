----------------------------- MODULE SegmentLog -----------------------------
(***************************************************************************)
(* What the journal-segment component promises, without its machinery: a   *)
(* set of named segments.  A segment appears at once, complete and for     *)
(* good; replaying one materialises exactly its items, in their order, and *)
(* advances the epoch once for each of them.                               *)
(*                                                                         *)
(* Segments.tla is the component as the code builds it, entry by entry.    *)
(***************************************************************************)
EXTENDS Naturals, Sequences

CONSTANTS
    Ids,         \* segment identifiers a journal may use
    Kinds,       \* entry kinds
    Payloads,    \* entry payloads
    EntryLimit   \* most entries a segment may declare

VARIABLES
    log,         \* the segments there are: a function from ids to items
    effects,     \* items materialised so far, in order
    epoch        \* number of items materialised

vars == <<log, effects, epoch>>

Item == [kind : Kinds, payload : Payloads]

\* What a segment may hold: between one and EntryLimit items.
Contents == UNION {[1..n -> Item] : n \in 1..EntryLimit}

Init ==
    /\ log = [id \in {} |-> <<>>]
    /\ effects = <<>>
    /\ epoch = 0

\* A new segment becomes visible with everything in it.
Commit ==
    /\ \E id \in Ids \ DOMAIN log, items \in Contents :
          log' = [x \in DOMAIN log \cup {id} |->
                     IF x = id THEN items ELSE log[x]]
    /\ UNCHANGED <<effects, epoch>>

\* A segment is played into the store.
Apply ==
    /\ \E id \in DOMAIN log :
          /\ effects' = effects \o log[id]
          /\ epoch' = epoch + Len(log[id])
    /\ UNCHANGED log

Next == Commit \/ Apply

Spec == Init /\ [][Next]_vars
=============================================================================
