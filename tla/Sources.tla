------------------------------ MODULE Sources ------------------------------
(***************************************************************************)
(* What the reports of a journal are made from: the objects of the store,  *)
(* the links, the codec plans and the number of events, and the rows that  *)
(* MERGE and SAMPLE list them in (src/src/merge.cpp, sampler.cpp).  Of    *)
(* titles, bodies and pages only their sizes matter here.                  *)
(***************************************************************************)
EXTENDS Holdings, References, Codecs

CONSTANT
    SizeOf(_)    \* size of a title, of a body, of the bytes of a page

ASSUME SourceConstants ==
    /\ \A text \in Titles \cup Bodies \cup PageBytes : SizeOf(text) \in Nat
    /\ DocIds \cup PageIds \cup NodeIds \cup Values \subseteq Nat

VARIABLE
    events       \* Store.events: their number

sourceVars == <<holdVars, linkVars, codecVars>>

Row(kind, id, weight) == [kind |-> kind, id |-> id, weight |-> weight]

\* One row for each identifier, with its weight.  The rows are sorted in the
\* end, so that the order they are read in does not show.
RowsOf(kind, weights) ==
    [i \in DOMAIN Ids(weights) |->
        Row(kind, Ids(weights)[i], weights[Ids(weights)[i]])]

DocRows ==
    RowsOf("doc", [id \in DOMAIN documents |->
        SizeOf(documents[id].title) + SizeOf(documents[id].body)])

PageRows ==
    RowsOf("page", [id \in DOMAIN pages |->
        SizeOf(pages[id].bytes) + pages[id].generation])

LinkRows == [i \in DOMAIN links |-> Row("link", links[i], links[i] * 3)]

NodeRows == RowsOf("node", nodes)

\* The kinds as their names are ordered.
KindRank == [doc |-> 1, link |-> 2, node |-> 3, page |-> 4]

\* The heavier first, then by kind, then by identifier.  A sample orders by
\* the text "kind:id", the same for identifiers of one digit.
RowBefore(left, right) ==
    \/ left.weight > right.weight
    \/ /\ left.weight = right.weight
       /\ \/ KindRank[left.kind] < KindRank[right.kind]
          \/ left.kind = right.kind /\ left.id < right.id
=============================================================================
