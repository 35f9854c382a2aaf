----------------------------- MODULE Relations -----------------------------
(***************************************************************************)
(* Relations: RELATE lists edges, WALKREL walks along them                 *)
(* (src/src/relations.cpp).  A walk takes, at each step, the first edge    *)
(* that begins or ends where it is, so that the order of the edges shows:  *)
(* that of the documents is the order of a hash table, that of the nodes   *)
(* the order they came in, which the model leaves open as well.            *)
(***************************************************************************)
EXTENDS Sources

CONSTANTS
    WalkLimit,      \* longest walk (the code: 1024)
    Walks           \* beginnings and lengths commands ask for

ASSUME RelationConstants == WalkLimit \in Nat

VARIABLES
    relation,       \* Store.relation: edges, walk, and whether prepared
    asked           \* history: the steps the last WALKREL asked for

relationVars == <<relation, asked>>

RelationInit ==
    /\ relation = [edges |-> <<>>, walk |-> <<>>, prepared |-> FALSE]
    /\ asked = 0

RelationModes == {"links", "docs", "nodes", "mixed"}

Edge(from, to) == [from |-> from, to |-> to]

LinkEdges == [i \in DOMAIN links |-> Edge(0, links[i])]

\* The edges of a table in some order, each from an object to its value.
TableEdges(values) ==
    {[i \in DOMAIN order |-> Edge(order[i], values[order[i]])] :
        order \in Bijection(1..Cardinality(DOMAIN values), DOMAIN values)}

DocEdges == TableEdges([id \in DOMAIN documents |-> SizeOf(documents[id].title)])

NodeEdges == TableEdges(nodes)

MixedEdges == {d \o LinkEdges \o n : d \in DocEdges, n \in NodeEdges}

\* The lists of edges a mode may make.
EdgesOf(mode) ==
    CASE mode = "links" -> {LinkEdges}
      [] mode = "docs"  -> DocEdges
      [] mode = "nodes" -> NodeEdges
      [] mode = "mixed" -> MixedEdges
      [] OTHER          -> {<<>>}

-----------------------------------------------------------------------------
(* RELATE mode: edges and walk are gone first; an unknown mode leaves none, *)
(* prepared all the same, and does not end the journal.                     *)

RelateCheck(mode) ==
    IF mode = "" THEN "limit"
    ELSE IF mode \notin RelationModes THEN "unsupported"
    ELSE IF EdgesOf(mode) = {<<>>} THEN "invalid_state" ELSE "ok"

BuildRelations(mode) ==
    /\ status' = RelateCheck(mode)
    /\ IF status' = "limit" THEN UNCHANGED relationVars
       ELSE /\ \E edges \in EdgesOf(mode) :
                  relation' = [edges |-> edges, walk |-> <<>>,
                               prepared |-> relation.prepared \/ status' = "ok"]
            /\ asked' = 0

-----------------------------------------------------------------------------
(* WALKREL start steps *)

\* Mutant: only edges that begin where the walk is.
MatchingForward(place) == {i \in DOMAIN relation.edges : relation.edges[i].from = place}

Matching(place) ==
    {i \in DOMAIN relation.edges :
        place \in {relation.edges[i].from, relation.edges[i].to}}

\* The places a walk comes to; it ends early where no edge matches.
WalkFrom(start, steps) ==
    LET Advance(walk, step) ==
            LET place == IF walk = <<>> THEN start ELSE Last(walk)
                edges == Matching(place)
            IN  IF edges = {} \/ Len(walk) < step - 1 THEN walk
                ELSE Append(walk, relation.edges[Min(edges)].to)
        walk[n \in 0..steps] == IF n = 0 THEN <<>> ELSE Advance(walk[n - 1], n)
    IN  walk[steps]

WalkCheck(start, steps) ==
    IF ~relation.prepared THEN "invalid_state"
    ELSE IF steps \notin 1..WalkLimit THEN "limit"
    ELSE IF Matching(start) = {} THEN "not_found" ELSE "ok"

WalkRelations(start, steps) ==
    /\ status' = WalkCheck(start, steps)
    /\ IF status' \in {"ok", "not_found"}
       THEN /\ relation' = [relation EXCEPT !.walk = WalkFrom(start, steps)]
            /\ asked' = steps
       ELSE UNCHANGED relationVars

-----------------------------------------------------------------------------
RelationNext ==
    \/ \E mode \in RelationModes \cup {"", "mystery"} : BuildRelations(mode)
    \/ \E walk \in Walks : WalkRelations(walk[1], walk[2])

(* A walk that takes a first step takes all it was asked for: the edge it   *)
(* took ends where it is, so one always matches, and the early end in the   *)
(* code is for the first step only.  Each place it comes to is the end of   *)
(* an edge that the place before is on.                                     *)
WalkNeverStops ==
    LET walk  == relation.walk
        edges == Range(relation.edges)
    IN  /\ Len(walk) \in {0, asked}
        /\ \A i \in DOMAIN walk : \E edge \in edges :
              /\ edge.to = walk[i]
              /\ i > 1 => walk[i - 1] \in {edge.from, edge.to}
=============================================================================
