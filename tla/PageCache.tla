----------------------------- MODULE PageCache -----------------------------
(***************************************************************************)
(* The cache of page windows (src/src/cache.cpp): CACHE copies the end of  *)
(* a page into a window, TOUCH makes a window the youngest, EVICT shrinks  *)
(* the cache to a byte budget.  Windows of pages with an even identifier   *)
(* are pinned.  The recency list names windows by their position, which    *)
(* every eviction shifts.                                                  *)
(*                                                                         *)
(* A window is its page, its size and its stamp.  Its bytes, offset and    *)
(* hit count are only hashed.  Positions are 1-based here.                 *)
(***************************************************************************)
EXTENDS Naturals, Sequences, FiniteSets, SequencesExt, Common

CONSTANTS
    PageIds,        \* page identifiers, numbers
    PageSizes,      \* sizes of pages
    Targets,        \* budgets EVICT asks for
    InitialTarget,  \* the budget a cache starts with (the code: 256)
    NoWindow,       \* "no last window yet"
    MaxStamp        \* bound of the model: CACHE and TOUCH of one journal

ASSUME PageCacheConstants ==
    /\ PageIds \subseteq Nat
    /\ PageSizes \subseteq Nat \ {0}
    /\ Targets \subseteq Nat
    /\ InitialTarget \in Nat
    /\ NoWindow \notin Nat
    /\ MaxStamp \in Nat

VARIABLES
    pages,          \* Store.pages: id |-> size
    windows,        \* CacheState.windows
    lru,            \* CacheState.lru, oldest first
    target,         \* CacheState.target_bytes
    total,          \* CacheState.total_bytes
    stamp,          \* CacheState.stamp
    evictions,      \* CacheState.evictions
    last            \* CacheState.last_window

vars == <<pages, windows, lru, target, total, stamp, evictions, last,
          status>>

Init ==
    /\ pages = [id \in {} |-> 0]
    /\ windows = <<>>
    /\ lru = <<>>
    /\ target = InitialTarget
    /\ total = 0
    /\ stamp = 0
    /\ evictions = 0
    /\ last = NoWindow
    /\ status = "ok"

\* cache_page_window: the windows of even pages are pinned.
Pinned(window) == window.page_id % 2 = 0

\* measure_cache: the sum of the sizes.
Measure(ws) ==
    LET sum[n \in 0..Len(ws)] == IF n = 0 THEN 0 ELSE sum[n - 1] + ws[n].size
    IN  sum[Len(ws)]

\* The list without a slot, however often it is there: a function, since the
\* prover knows nothing of SelectSeq.
Without(list, slot) ==
    LET kept[n \in 0..Len(list)] ==
            IF n = 0 THEN <<>>
            ELSE IF list[n] = slot THEN kept[n - 1] ELSE Append(kept[n - 1], list[n])
    IN  kept[Len(list)]

\* touch_slot: the slot moves to the young end.
TouchSlot(list, slot) == Append(Without(list, slot), slot)

-----------------------------------------------------------------------------
(* Eviction, on the fields it touches: windows, lru, total and evictions.   *)

\* Mutant: the positions in the list stay as they were.
NotRenumbered(list, slot) == list

\* Positions beyond the erased one move down by one.
Renumbered(list, slot) ==
    [k \in DOMAIN list |-> IF list[k] > slot THEN list[k] - 1 ELSE list[k]]

\* Mutant: the victim is the youngest window that may go.
Youngest(victims) == Max(victims)

\* The place in the list of the oldest window that may go.
Oldest(victims) == Min(victims)

\* evict_one: slots are popped up to the oldest that is not pinned, whose
\* window is erased.  The pinned ones popped on the way leave the list; when
\* all are pinned the list ends up empty and no window goes.
EvictOne(cache) ==
    LET victims == {k \in DOMAIN cache.lru :
                       /\ cache.lru[k] \in DOMAIN cache.windows
                       /\ ~Pinned(cache.windows[cache.lru[k]])}
    IN  IF victims = {} THEN [cache EXCEPT !.lru = <<>>]
        ELSE LET slot == cache.lru[Oldest(victims)]
                 left == RemoveAt(cache.windows, slot)
                 young == SubSeq(cache.lru, Oldest(victims) + 1, Len(cache.lru))
             IN  [windows   |-> left,
                  lru       |-> Renumbered(young, slot),
                  total     |-> Measure(left),
                  evictions |-> cache.evictions + 1]

\* Mutant: at most one window goes.
ShrinkOnce(cache, budget) ==
    IF cache.total > budget THEN EvictOne(cache) ELSE cache

\* The loop of CACHE and EVICT: while over budget, evict one more.  A round
\* that finds no victim changes nothing but the list, so as many rounds as
\* there are windows, and one more, reach its end.
Shrink(cache, budget) ==
    LET rounds[n \in 0..(Len(cache.windows) + 1)] ==
            IF n = 0 THEN cache
            ELSE IF rounds[n - 1].total > budget THEN EvictOne(rounds[n - 1])
            ELSE rounds[n - 1]
    IN  rounds[Len(cache.windows) + 1]

Keep(cache) ==
    /\ windows' = cache.windows
    /\ lru' = cache.lru
    /\ total' = cache.total
    /\ evictions' = cache.evictions

-----------------------------------------------------------------------------
(* PAGE id bytes, of a valid size; Pages.tla has the whole handler *)

AddPage(id, size) ==
    /\ status' = IF id \in DOMAIN pages THEN "invalid_state" ELSE "ok"
    /\ pages' = IF status' = "ok"
                THEN [x \in DOMAIN pages \cup {id} |->
                         IF x = id THEN size ELSE pages[x]]
                ELSE pages
    /\ UNCHANGED <<windows, lru, target, total, stamp, evictions, last>>

-----------------------------------------------------------------------------
(* CACHE id width: the new window is the youngest, and may be the very one  *)
(* the budget then evicts.                                                  *)

CacheCheck(id, width) ==
    IF id \notin DOMAIN pages THEN "not_found"
    ELSE IF width = 0 \/ width > pages[id] THEN "limit" ELSE "ok"

Inserted(id, width) ==
    LET grown == Append(windows, [page_id |-> id, size |-> width,
                                  stamp |-> stamp + 1])
    IN  [windows |-> grown, lru |-> TouchSlot(lru, Len(grown)),
         total |-> Measure(grown), evictions |-> evictions]

CachePageWindow(id, width) ==
    /\ stamp < MaxStamp
    /\ status' = CacheCheck(id, width)
    /\ IF status' = "ok"
       THEN /\ Keep(Shrink(Inserted(id, width), target))
            /\ stamp' = stamp + 1
            /\ last' = Len(windows) + 1
       ELSE UNCHANGED <<windows, lru, total, stamp, evictions, last>>
    /\ UNCHANGED <<pages, target>>

-----------------------------------------------------------------------------
(* TOUCH slot *)

TouchCacheWindow(slot) ==
    /\ stamp < MaxStamp
    /\ status' = IF slot \in DOMAIN windows THEN "ok" ELSE "limit"
    /\ IF status' = "ok"
       THEN /\ windows' = [windows EXCEPT ![slot].stamp = stamp + 1]
            /\ lru' = TouchSlot(lru, slot)
            /\ stamp' = stamp + 1
            /\ last' = slot
       ELSE UNCHANGED <<windows, lru, stamp, last>>
    /\ UNCHANGED <<pages, target, total, evictions>>

-----------------------------------------------------------------------------
(* EVICT target: the budget is set, and windows are gone, even if it fails. *)

EvictCacheWindows(budget) ==
    /\ target' = budget
    /\ Keep(Shrink([windows |-> windows, lru |-> lru,
                     total |-> Measure(windows), evictions |-> evictions],
                    budget))
    /\ status' = IF total' > budget THEN "invalid_state" ELSE "ok"
    /\ UNCHANGED <<pages, stamp, last>>

-----------------------------------------------------------------------------
Next ==
    /\ Continues(status)
    /\ \/ \E id \in PageIds, size \in PageSizes : AddPage(id, size)
       \/ \E id \in PageIds, width \in {0, 1} \cup {size + 1 : size \in PageSizes}
                                     \cup PageSizes :
             CachePageWindow(id, width)
       \/ \E slot \in 1..(Len(windows) + 1) : TouchCacheWindow(slot)
       \/ \E budget \in Targets : EvictCacheWindows(budget)

Spec == Init /\ [][Next]_vars

-----------------------------------------------------------------------------
Slots == {lru[k] : k \in DOMAIN lru}

Unpinned == {i \in DOMAIN windows : ~Pinned(windows[i])}

Stamps == {windows[i].stamp : i \in DOMAIN windows}

(* The positions in the recency list stay those of the windows they were    *)
(* put there for, through every eviction that shifts the windows: each is a *)
(* window's, none twice, every window that may be evicted has one, and they *)
(* come in the order in which their windows were last used.                 *)
LruFaithful ==
    /\ Slots \subseteq DOMAIN windows
    /\ Cardinality(Slots) = Len(lru)
    /\ Unpinned \subseteq Slots
    /\ \A k \in 1..(Len(lru) - 1) :
          windows[lru[k]].stamp < windows[lru[k + 1]].stamp

(* The cache is over its budget only when nothing in it may be evicted, and *)
(* the total it goes by is the size of the windows there are, however they  *)
(* came and went.                                                           *)
BudgetHeld ==
    /\ total = Measure(windows)
    /\ total > target => Unpinned = {}

Evicted == {i \in DOMAIN windows : windows[i].stamp \notin Stamps'}

(* Eviction takes no pinned window, and none younger than an unpinned one   *)
(* that it leaves; and it stops as soon as the budget is met: with some     *)
(* window it took still there the cache would be over budget (unless CACHE  *)
(* evicted the very window it made, which is in no state).                  *)
EvictsAsNeeded ==
    [][evictions' # evictions =>
          /\ \A i \in Evicted :
                /\ ~Pinned(windows[i])
                /\ \A j \in Unpinned \ Evicted : windows[i].stamp < windows[j].stamp
          /\ stamp' \in {stamp} \cup Stamps' =>
                \E i \in Evicted : total' + windows[i].size > target']_vars

=============================================================================
