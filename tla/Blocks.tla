------------------------------- MODULE Blocks -------------------------------
(***************************************************************************)
(* Block packing: PACK and UNPACK (src/src/blocks.cpp).  PACK copies every *)
(* page, flat and as runs of equal bytes; UNPACK unrolls the runs again.   *)
(***************************************************************************)
EXTENDS Holdings

CONSTANTS
    RunLimit,       \* longest run a command may ask for (the code: 255)
    BlockSizes      \* lengths of runs commands ask for

ASSUME BlockConstants == RunLimit \in Nat

VARIABLE
    blocks          \* Store.blocks: chunks by page, with the size asked for

BlockInit == blocks = [chunks |-> Empty, block_size |-> 0, ready |-> FALSE,
                       packed |-> 0, unpacked |-> 0]

-----------------------------------------------------------------------------
\* Mutant: a byte that ends a full run is added to it.
WithByteLong(runs, byte, size) ==
    IF runs # <<>> /\ Last(runs).value = byte /\ Last(runs).length <= size
    THEN Front(runs) \o <<[value |-> byte, length |-> Last(runs).length + 1]>>
    ELSE Append(runs, [value |-> byte, length |-> 1])

\* A byte lengthens the last run if it is of that value and not full.
WithByte(runs, byte, size) ==
    IF runs # <<>> /\ Last(runs).value = byte /\ Last(runs).length < size
    THEN Front(runs) \o <<[value |-> byte, length |-> Last(runs).length + 1]>>
    ELSE Append(runs, [value |-> byte, length |-> 1])

\* pack_page
Runs(bytes, size) ==
    LET runs[n \in 0..Len(bytes)] ==
            IF n = 0 THEN <<>> ELSE WithByte(runs[n - 1], bytes[n], size)
    IN  runs[Len(bytes)]

\* unpack_chunk
Unrolled(runs) ==
    Flat([i \in DOMAIN runs |-> [j \in 1..runs[i].length |-> runs[i].value]])

-----------------------------------------------------------------------------
(* PACK size: the old chunks are gone when there is nothing to pack. *)

PackCheck(size) ==
    IF size \notin 1..RunLimit THEN "limit"
    ELSE IF DOMAIN pages = {} THEN "invalid_state" ELSE "ok"

PackBlocks(size) ==
    LET chunks == [id \in DOMAIN pages |->
                      [flat |-> pages[id].bytes, runs |-> Runs(pages[id].bytes, size)]]
        ids == Ids(pages)
    IN  /\ status' = PackCheck(size)
        /\ blocks' = IF status' = "limit" THEN blocks
                     ELSE [chunks     |-> chunks,
                           block_size |-> size,
                           ready      |-> blocks.ready \/ status' = "ok",
                           packed     |-> Total([i \in DOMAIN ids |-> Len(chunks[ids[i]].runs)]),
                           unpacked   |-> Total([i \in DOMAIN ids |-> Len(chunks[ids[i]].flat)])]

-----------------------------------------------------------------------------
(* UNPACK: compares what the runs unroll to with the copy. *)

RoundTrips(chunk) == Unrolled(chunk.runs) = chunk.flat

UnpackBlocks ==
    /\ status' = IF ~blocks.ready THEN "invalid_state"
                 ELSE IF \A id \in DOMAIN blocks.chunks : RoundTrips(blocks.chunks[id])
                      THEN "ok" ELSE "invalid_state"
    /\ UNCHANGED blocks

-----------------------------------------------------------------------------
BlockNext ==
    \/ \E size \in BlockSizes : PackBlocks(size)
    \/ UnpackBlocks

(* The runs of a page unroll to the page: UNPACK never reports a mismatch.  *)
(* No run is longer than asked for, none could have been longer, and the    *)
(* totals are those of the chunks; so no page packs to more runs than it    *)
(* has bytes, nor to fewer than it takes.                                   *)
PackLossless ==
    /\ \A id \in DOMAIN blocks.chunks :
          LET runs == blocks.chunks[id].runs
              size == blocks.block_size
          IN  /\ RoundTrips(blocks.chunks[id])
              /\ \A i \in DOMAIN runs : runs[i].length \in 1..size
              /\ \A i \in 1..(Len(runs) - 1) :
                    runs[i].value = runs[i + 1].value => runs[i].length = size
    /\ blocks.packed <= blocks.unpacked
    /\ blocks.unpacked <= blocks.packed * blocks.block_size
=============================================================================
