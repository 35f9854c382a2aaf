----------------------------- MODULE SkipIndex -----------------------------
(***************************************************************************)
(* The skip index: INDEX and SEEK (src/src/skip_index.cpp).  Every stride  *)
(* bytes of a page make a point of the base layer; each layer above takes  *)
(* every stride-th point of the one below.  The index is built from the    *)
(* pages there are, and asked later.                                       *)
(***************************************************************************)
EXTENDS Holdings

CONSTANTS
    Radix,          \* values of a byte; the weight of a key's parts (2^8)
    StrideLimit,    \* widest stride (the code: 64)
    LevelLimit,     \* most layers (the code: 8)
    IndexPlans,     \* strides and levels commands ask for
    Needles         \* keys commands look for

ASSUME SkipConstants ==
    /\ Radix \in Nat \ {0}
    /\ {StrideLimit, LevelLimit} \subseteq Nat
    /\ \A bytes \in PageBytes : bytes \in Seq(0..(Radix - 1)) \ {<<>>}
    /\ Needles \subseteq Nat

VARIABLES
    skip,           \* Store.skip: layers, the last key and its match
    replaced        \* history: a RESTORE came since the INDEX

skipVars == <<skip, replaced>>

NoMatch == [key |-> 0, page_id |-> 0, offset |-> 0, span |-> 0]

SkipInit ==
    /\ skip = [layers |-> <<>>, search_key |-> 0, last_match |-> NoMatch,
               built |-> FALSE]
    /\ replaced = FALSE

-----------------------------------------------------------------------------
\* The key of a byte: an unsigned int made of the byte, its offset, whose
\* higher part is lost, and its page, whose higher part is lost.
KeyOf(byte, offset, id) ==
    LET two == Radix * Radix
    IN  byte + ((offset % Radix) * Radix) + ((id * two) % (two * two))

PointAt(id, offset, stride) ==
    [key     |-> KeyOf(pages[id].bytes[offset + 1], offset, id),
     page_id |-> id,
     offset  |-> offset,
     span    |-> Min({stride, Len(pages[id].bytes) - offset})]

PointBefore(left, right) ==
    \/ left.key < right.key
    \/ left.key = right.key /\ left.page_id < right.page_id
    \/ /\ left.key = right.key
       /\ left.page_id = right.page_id
       /\ left.offset < right.offset

\* The points of one page, a stride apart.
PagePoints(id, stride) ==
    [i \in 1..((Len(pages[id].bytes) + stride - 1) \div stride) |->
        PointAt(id, (i - 1) * stride, stride)]

\* build_base_points
BasePoints(stride) ==
    LET ids == Ids(pages)
    IN  Sorted(Flat([i \in DOMAIN ids |-> PagePoints(ids[i], stride)]), PointBefore)

\* compact_layer
Above(layer, stride) ==
    [i \in 1..((Len(layer) + stride - 1) \div stride) |->
        LET from == (i - 1) * stride + 1
        IN  [layer[from] EXCEPT !.span = Min({stride, Len(layer) - from + 1})]]

\* Layers are added until there are enough, or one has a single point.
Layers(base, stride, levels) ==
    LET With(layers, level) ==
            IF level > 1 /\ Len(Last(layers)) <= 1 THEN layers
            ELSE Append(layers, Above(Last(layers), stride))
        layers[n \in 0..(levels - 1)] ==
            IF n = 0 THEN <<base>> ELSE With(layers[n - 1], n)
    IN  layers[levels - 1]

-----------------------------------------------------------------------------
(* INDEX stride levels *)

IndexCheck(stride, levels) ==
    IF stride \notin 1..StrideLimit \/ levels \notin 1..LevelLimit THEN "limit"
    ELSE IF BasePoints(stride) = <<>> THEN "invalid_state" ELSE "ok"

BuildSkipIndex(stride, levels) ==
    /\ status' = IndexCheck(stride, levels)
    /\ IF status' = "ok"
       THEN /\ skip' = [skip EXCEPT
                           !.layers     = Layers(BasePoints(stride), stride, levels),
                           !.last_match = NoMatch,
                           !.built      = TRUE]
            /\ replaced' = FALSE
       ELSE UNCHANGED skipVars

-----------------------------------------------------------------------------
(* SEEK key: the layers are searched from the top, each from its beginning; *)
(* what the one below finds takes the place of what the one above found.    *)

\* The first point of a layer not below the key, or else its last.
LowerBound(layer, key) ==
    LET notBelow == {i \in DOMAIN layer : layer[i].key >= key}
    IN  IF notBelow # {} THEN layer[Min(notBelow)] ELSE Last(layer)

\* Mutant: the search ends with the first layer that has the key or more.
CandidateOnTop(layers, key) == LowerBound(layers[Len(layers)], key)

Candidate(layers, key) ==
    LET With(found, layer) == IF layer = <<>> THEN found ELSE LowerBound(layer, key)
        found[n \in 0..Len(layers)] ==
            IF n = 0 THEN NoMatch
            ELSE With(found[n - 1], layers[Len(layers) - n + 1])
    IN  found[Len(layers)]

SeekSkipIndex(key) ==
    /\ status' = IF skip.built THEN "ok" ELSE "invalid_state"
    /\ skip' = IF status' = "ok"
               THEN [skip EXCEPT !.search_key = key,
                                 !.last_match = Candidate(skip.layers, key)]
               ELSE skip
    /\ UNCHANGED replaced

-----------------------------------------------------------------------------
SkipNext ==
    \/ \E plan \in IndexPlans : BuildSkipIndex(plan[1], plan[2])
    \/ \E key \in Needles : SeekSkipIndex(key)

(* SEEK finds the point of the base layer next to the key: none of those    *)
(* not below it is less, and it is below the key only when all are.  What   *)
(* the layers above found never stands in for it, nor does it narrow the    *)
(* search.  And what it found is in the store, the byte its key says at the *)
(* offset it says, through additions and compactions of pages; only a       *)
(* restore can have taken it away.                                          *)
SeekTellsPlace ==
    skip.last_match # NoMatch =>
        LET found == skip.last_match
            base  == Range(skip.layers[1])
        IN  /\ found.key < skip.search_key =>
                   \A point \in base : point.key <= found.key
            /\ found.key >= skip.search_key =>
                   \A point \in base :
                       point.key >= skip.search_key => point.key >= found.key
            /\ found \in base
            /\ ~replaced =>
                   /\ found.page_id \in DOMAIN pages
                   /\ found.offset < Len(pages[found.page_id].bytes)
                   /\ found.key = KeyOf(pages[found.page_id].bytes[found.offset + 1],
                                        found.offset, found.page_id)
=============================================================================
