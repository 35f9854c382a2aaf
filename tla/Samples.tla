------------------------------ MODULE Samples -------------------------------
(***************************************************************************)
(* What a journal lists of the store.  MERGE lists objects by weight, NEXT *)
(* goes through the list (src/src/merge.cpp).  SAMPLE lists the heaviest   *)
(* objects, FOLD folds the list, and a fold is known by the weight it took *)
(* in (src/src/sampler.cpp).  METRICS collects numbers and counts them in  *)
(* buckets, REDUCE folds the buckets; that fold is left out, for nothing   *)
(* but digests are made of it (src/src/metrics.cpp).                       *)
(***************************************************************************)
EXTENDS Sources

CONSTANTS
    StepLimit,      \* most rows at a time (the code: 1024)
    MergeSteps      \* numbers of rows commands ask for

ASSUME MergeConstants == StepLimit \in Nat

VARIABLE
    merge           \* Store.merge: rows, cursor, and whether it is prepared;
                    \* history: the turn, which tells one list from the next

MergeInit == merge = [rows |-> <<>>, cursor |-> 0, prepared |-> FALSE, turn |-> FALSE]

MergeModes == {"docs", "pages", "links", "mixed"}

RowsMerged(mode) ==
    CASE mode = "docs"  -> DocRows
      [] mode = "pages" -> PageRows
      [] mode = "links" -> LinkRows
      [] mode = "mixed" -> DocRows \o PageRows \o LinkRows

-----------------------------------------------------------------------------
(* MERGE mode: the old rows are gone first.  An unknown mode, which does    *)
(* not end the journal, leaves none, and the cursor where it was.           *)

MergeCheck(mode) ==
    IF mode = "" THEN "limit"
    ELSE IF mode \notin MergeModes THEN "unsupported"
    ELSE IF RowsMerged(mode) = <<>> THEN "invalid_state" ELSE "ok"

\* Mutant: the cursor stays where it was in the old list.
ListedFromCursor(rows) ==
    [merge EXCEPT !.rows = rows, !.prepared = TRUE, !.turn = ~merge.turn]

Listed(rows) ==
    [rows |-> rows, cursor |-> 0, prepared |-> TRUE, turn |-> ~merge.turn]

PrepareMerge(mode) ==
    /\ status' = MergeCheck(mode)
    /\ merge' = CASE status' = "limit" -> merge
                  [] status' = "ok"    -> Listed(Sorted(RowsMerged(mode), RowBefore))
                  [] OTHER             -> [merge EXCEPT !.rows = <<>>, !.turn = ~merge.turn]

-----------------------------------------------------------------------------
(* NEXT steps *)

NextCheck(steps) ==
    IF ~merge.prepared THEN "invalid_state"
    ELSE IF steps \notin 1..StepLimit THEN "limit"
    ELSE IF merge.cursor >= Len(merge.rows) THEN "not_found" ELSE "ok"

NextMerge(steps) ==
    /\ status' = NextCheck(steps)
    /\ merge' = IF status' = "ok"
                THEN [merge EXCEPT
                         !.cursor = Min({Len(merge.rows), merge.cursor + steps})]
                ELSE merge

-----------------------------------------------------------------------------
MergeNext ==
    \/ \E mode \in MergeModes \cup {"", "mystery"} : PrepareMerge(mode)
    \/ \E steps \in MergeSteps : NextMerge(steps)

\* The list NEXT goes through.  The cursor of a list that an unknown mode
\* emptied points nowhere, and NEXT finds nothing.
HandedOut == INSTANCE Listing WITH
                 Before <- RowBefore,
                 rows   <- merge.rows,
                 given  <- IF merge.rows = <<>> THEN 0 ELSE merge.cursor,
                 turn   <- merge.turn

(* The rows of a merge come in order of weight, each once and none skipped, *)
(* through any number of NEXT, whatever happens to the store meanwhile; and *)
(* a new MERGE begins at its own first row, after one of an unknown mode    *)
(* left the old cursor behind too; NEXT never goes back to the first row.   *)
MergeHandsOutOnce == HandedOut!Spec

-----------------------------------------------------------------------------
CONSTANTS
    SampleMax,      \* most rows of a sample (the code: 512)
    SampleSizes     \* numbers of rows commands ask for

ASSUME SampleConstants == SampleMax \in Nat

VARIABLES
    sample,         \* Store.sample: rows and folds
    sampled         \* history: all rows SAMPLE chose from

sampleVars == <<sample, sampled>>

SampleInit ==
    /\ sample = [rows |-> <<>>, folds |-> <<>>, limit |-> 0]
    /\ sampled = <<>>

SampleScopes == {"docs", "pages", "nodes", "all"}

RowsSampled(scope) ==
    CASE scope = "docs"  -> DocRows
      [] scope = "pages" -> PageRows
      [] scope = "nodes" -> NodeRows
      [] scope = "all"   -> DocRows \o PageRows \o NodeRows

-----------------------------------------------------------------------------
(* SAMPLE scope limit: the old rows and folds are gone first; an unknown    *)
(* scope leaves none, and does not end the journal.                         *)

SampleCheck(scope, limit) ==
    IF scope = "" \/ limit \notin 1..SampleMax THEN "limit"
    ELSE IF scope \notin SampleScopes THEN "unsupported"
    ELSE IF RowsSampled(scope) = <<>> THEN "invalid_state" ELSE "ok"

\* Mutant: cut to the limit before it is sorted.
HeaviestUnsorted(rows, limit) ==
    Sorted(IF Len(rows) > limit THEN SubSeq(rows, 1, limit) ELSE rows, RowBefore)

Heaviest(rows, limit) ==
    LET sorted == Sorted(rows, RowBefore)
    IN  IF Len(sorted) > limit THEN SubSeq(sorted, 1, limit) ELSE sorted

SampleScope(scope, limit) ==
    /\ status' = SampleCheck(scope, limit)
    /\ IF status' = "limit" THEN UNCHANGED sampleVars
       ELSE /\ sampled' = IF status' = "ok" THEN RowsSampled(scope) ELSE <<>>
            /\ sample' = [rows |-> Heaviest(sampled', limit), folds |-> <<>>,
                          limit |-> limit]

-----------------------------------------------------------------------------
(* FOLD *)
FoldSample ==
    /\ status' = IF sample.rows = <<>> THEN "invalid_state" ELSE "ok"
    /\ sample' = IF status' = "ok"
                 THEN [sample EXCEPT !.folds = [i \in DOMAIN sample.rows |->
                                                   sample.rows[i].weight]]
                 ELSE sample
    /\ UNCHANGED sampled

-----------------------------------------------------------------------------
SampleNext ==
    \/ \E scope \in SampleScopes \cup {"", "mystery"}, limit \in SampleSizes :
          SampleScope(scope, limit)
    \/ FoldSample

(* A sample is the heaviest of what it was chosen from, no more than asked  *)
(* for and no fewer than there are; folds there are belong to these rows,   *)
(* not to those of a sample before.                                         *)
SampleAgrees ==
    LET rows == Range(sample.rows)
    IN  /\ sampled # <<>> =>
               Len(sample.rows) = IF Len(sampled) < sample.limit
                                  THEN Len(sampled) ELSE sample.limit
        /\ rows \subseteq Range(sampled)
        /\ \A row \in rows, left \in Range(sampled) \ rows : row.weight >= left.weight
        /\ sample.folds # <<>> =>
               /\ DOMAIN sample.folds = DOMAIN sample.rows
               /\ \A i \in DOMAIN sample.rows : sample.folds[i] = sample.rows[i].weight

-----------------------------------------------------------------------------
CONSTANT
    ValueMask       \* node values are taken modulo this (the code: 2^16)

ASSUME MetricsConstants == ValueMask \in Nat \ {0}

VARIABLES
    metrics,        \* Store.metrics: samples, buckets, scope and range
    measured        \* history: the samples the buckets were counted from

metricsVars == <<metrics, measured>>

MetricsInit ==
    /\ metrics = [scope |-> "", samples |-> <<>>, buckets |-> <<>>, minimum |-> 0,
                  maximum |-> 0, average |-> 0, collected |-> FALSE]
    /\ measured = <<>>

MetricsScopes == {"docs", "pages", "graph", "all"}

\* The two numbers of each identifier, one after the other.
Paired(numbers) == Flat([i \in DOMAIN Ids(numbers) |-> numbers[Ids(numbers)[i]]])

DocumentSamples ==
    Paired([id \in DOMAIN documents |->
        <<SizeOf(documents[id].title), SizeOf(documents[id].body)>>])

PageSamples ==
    Paired([id \in DOMAIN pages |->
        <<SizeOf(pages[id].bytes), pages[id].generation % 4096>>])

GraphSamples ==
    [i \in DOMAIN Ids(nodes) |-> nodes[Ids(nodes)[i]] % ValueMask]
        \o links \o <<watches>>

SamplesOf(scope) ==
    CASE scope = "docs"  -> DocumentSamples
      [] scope = "pages" -> PageSamples
      [] scope = "graph" -> GraphSamples
      [] scope = "all"   -> DocumentSamples \o PageSamples \o GraphSamples
      [] OTHER           -> <<>>

-----------------------------------------------------------------------------
\* The width of a bucket.
Width(high) == Max({1, (high \div 8) + 1})

\* Mutant: the upper end of a bucket is not in it.
InBucketBelow(number, lower, width) == lower <= number /\ number < lower + width - 1

InBucket(number, lower, width) == lower <= number /\ number <= lower + width - 1

\* One bucket: the samples in it, counted and summed up.
Bucket(samples, lower, width) ==
    LET In(i) == InBucket(samples[i], lower, width)
    IN  [lower  |-> lower,
         count  |-> Total([i \in DOMAIN samples |-> IF In(i) THEN 1 ELSE 0]),
         weight |-> Total([i \in DOMAIN samples |-> IF In(i) THEN samples[i] ELSE 0])]

\* Buckets of one width from 0 to beyond the greatest number, 16 at most.
BucketsOf(samples) ==
    LET high  == Max(Range(samples))
        width == Width(high)
    IN  [i \in 1..Min({16, ((high + width) \div width) + 1}) |->
            Bucket(samples, (i - 1) * width, width)]

-----------------------------------------------------------------------------
(* METRICS scope: scope and samples are replaced first.  An unknown scope   *)
(* leaves no samples, with the old buckets, and does not end the journal.   *)

MetricsCheck(scope) ==
    IF scope = "" THEN "limit"
    ELSE IF scope \notin MetricsScopes THEN "unsupported"
    ELSE IF SamplesOf(scope) = <<>> THEN "invalid_state" ELSE "ok"

Collected(scope) ==
    LET samples == Sorted(SamplesOf(scope), <)
    IN  [scope     |-> scope,
         samples   |-> samples,
         buckets   |-> BucketsOf(samples),
         minimum   |-> Head(samples),
         maximum   |-> Last(samples),
         average   |-> Total(samples) \div Len(samples),
         collected |-> TRUE]

CollectMetrics(scope) ==
    /\ status' = MetricsCheck(scope)
    /\ metrics' = CASE status' = "limit" -> metrics
                    [] status' = "ok"    -> Collected(scope)
                    [] OTHER             -> [metrics EXCEPT !.scope = scope,
                                                            !.samples = <<>>]
    /\ measured' = IF status' = "ok" THEN metrics'.samples ELSE measured

-----------------------------------------------------------------------------
(* REDUCE: folds the buckets there are, whatever the scope says. *)
ReduceMetrics ==
    /\ status' = IF metrics.collected THEN "ok" ELSE "invalid_state"
    /\ UNCHANGED metricsVars

-----------------------------------------------------------------------------
MetricsNext ==
    \/ \E scope \in MetricsScopes \cup {"", "mystery"} : CollectMetrics(scope)
    \/ ReduceMetrics

(* Every number collected is counted in a bucket, and in one only, up to    *)
(* the greatest: the counts and weights of the buckets add up.  An unknown  *)
(* scope takes the samples away and leaves buckets and range of the scope   *)
(* before, which REDUCE goes on with, whole.                                *)
MetricsAgree ==
    LET buckets == metrics.buckets
    IN  /\ metrics.samples \in {<<>>, measured}
        /\ Total([i \in DOMAIN buckets |-> buckets[i].count]) = Len(measured)
        /\ Total([i \in DOMAIN buckets |-> buckets[i].weight]) = Total(measured)
        /\ metrics.collected =>
               /\ \A i \in DOMAIN measured : measured[i] \in metrics.minimum..metrics.maximum
               /\ metrics.average \in metrics.minimum..metrics.maximum
=============================================================================
