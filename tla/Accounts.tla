------------------------------ MODULE Accounts ------------------------------
(***************************************************************************)
(* What accounts of the store a journal keeps.  LEDGER counts what the     *)
(* store holds, FOLDLEDGER folds the counts, and a fold is known by the    *)
(* entries it took (src/src/ledger.cpp).  QUOTA counts what is used and    *)
(* how much may be, ENFORCE judges one of the counts (src/src/quotas.cpp). *)
(* DIGEST records the digest of an object, VERIFY compares the newest with *)
(* what is expected, and a digest is known by the content it was made of   *)
(* (src/src/checksum.cpp).                                                 *)
(***************************************************************************)
EXTENDS Sources

VARIABLES
    ledger,        \* Store.ledger: entries, and those the fold took in
    known          \* history: the mode of the last LEDGER is a mode

ledgerVars == <<ledger, known>>

LedgerInit ==
    /\ ledger = [entries |-> <<>>, folded |-> <<>>]
    /\ known = TRUE

LedgerModes == {"archive", "query", "codec", "all"}

Entry(tag, value) == [tag |-> tag, value |-> value]

CommonEntries ==
    << Entry("documents", Cardinality(DOMAIN documents)),
       Entry("pages", Cardinality(DOMAIN pages)),
       Entry("events", events) >>

\* The segment log is not part of the model: none is sealed.
ArchiveEntries ==
    << Entry("snapshots", Cardinality(DOMAIN snapshots)), Entry("segments", 0) >>

QueryEntries ==
    << Entry("links", Len(links)),
       Entry("nodes", Cardinality(DOMAIN nodes)),
       Entry("watches", watches) >>

CodecEntries ==
    << Entry("vector-width", vector.width),
       Entry("label-size", label.declared_size),
       Entry("palette", palette) >>

EntriesOf(mode) ==
    CASE mode = "archive" -> CommonEntries \o ArchiveEntries
      [] mode = "query"   -> CommonEntries \o QueryEntries
      [] mode = "codec"   -> CommonEntries \o CodecEntries
      [] mode = "all"     -> CommonEntries \o QueryEntries \o CodecEntries
      [] OTHER            -> CommonEntries

-----------------------------------------------------------------------------
(* LEDGER mode: the common entries are there before the mode is looked at.  *)
(* An unknown one leaves them, and the old fold, and does not end the       *)
(* journal.                                                                 *)

LedgerCheck(mode) ==
    IF mode = "" THEN "limit"
    ELSE IF mode \notin LedgerModes THEN "unsupported" ELSE "ok"

\* Mutant: the fold of the entries before is kept.
StartedKeepsFold(mode) == [ledger EXCEPT !.entries = EntriesOf(mode)]

Started(mode) ==
    [entries |-> EntriesOf(mode),
     folded  |-> IF mode \in LedgerModes THEN <<>> ELSE ledger.folded]

BuildLedger(mode) ==
    /\ status' = LedgerCheck(mode)
    /\ IF status' = "limit" THEN UNCHANGED ledgerVars
       ELSE /\ ledger' = Started(mode)
            /\ known' = (mode \in LedgerModes)

-----------------------------------------------------------------------------
(* FOLDLEDGER *)
FoldLedger ==
    /\ status' = IF ledger.entries = <<>> THEN "invalid_state" ELSE "ok"
    /\ ledger' = IF status' = "ok" THEN [ledger EXCEPT !.folded = ledger.entries]
                 ELSE ledger
    /\ UNCHANGED known

-----------------------------------------------------------------------------
LedgerNext ==
    \/ \E mode \in LedgerModes \cup {"", "mystery"} : BuildLedger(mode)
    \/ FoldLedger

(* A fold is that of the entries there are: it may be that of others only   *)
(* after a LEDGER of an unknown mode, which leaves the common entries, and  *)
(* nothing else, for a ledger.  The events a ledger counts are those before *)
(* its own.                                                                 *)
LedgerAgrees ==
    /\ known => ledger.folded \in {<<>>, ledger.entries}
    /\ ~known => Len(ledger.entries) = Len(CommonEntries)
    /\ ledger.entries # <<>> /\ known => ledger.entries[3].value < events

-----------------------------------------------------------------------------
CONSTANTS
    ScaleLimit,    \* largest scale (the code: 4096)
    Scales         \* scales commands ask for

ASSUME QuotaConstants == ScaleLimit \in Nat

VARIABLES
    quota,         \* Store.quota: bucket |-> used, limit and verdict
    moved          \* history: the store or the links changed since QUOTA

quotaVars == <<quota, moved>>

QuotaInit ==
    /\ quota = [buckets |-> Empty, prepared |-> FALSE]
    /\ moved = FALSE

Used == [documents |-> Cardinality(DOMAIN documents),
         pages     |-> Cardinality(DOMAIN pages),
         events    |-> events,
         links     |-> Len(links),
         nodes     |-> Cardinality(DOMAIN nodes)]

Factor == [documents |-> 2, pages |-> 2, events |-> 8, links |-> 4, nodes |-> 4]

-----------------------------------------------------------------------------
(* QUOTA scale: judges every count as well. *)

\* Mutant: a count that reaches its limit exceeds it.
VerdictAtLimit(used, limit) == used >= limit

Verdict(used, limit) == used > limit

PrepareQuota(scale) ==
    /\ status' = IF scale \notin 1..ScaleLimit THEN "limit" ELSE "ok"
    /\ IF status' = "ok"
       THEN /\ quota' = [prepared |-> TRUE,
                         buckets  |-> [name \in DOMAIN Used |->
                             [used |-> Used[name], limit |-> scale * Factor[name],
                              exceeded |-> Verdict(Used[name], scale * Factor[name])]]]
            /\ moved' = FALSE
       ELSE UNCHANGED quotaVars

-----------------------------------------------------------------------------
(* ENFORCE name: judges the stored count again. *)
EnforceQuota(name) ==
    /\ status' = IF ~quota.prepared THEN "invalid_state"
                 ELSE IF name \notin DOMAIN quota.buckets THEN "not_found" ELSE "ok"
    /\ quota' = IF status' = "ok"
                THEN [quota EXCEPT !.buckets[name].exceeded =
                         Verdict(quota.buckets[name].used, quota.buckets[name].limit)]
                ELSE quota
    /\ UNCHANGED moved

-----------------------------------------------------------------------------
QuotaNext ==
    \/ \E scale \in Scales : PrepareQuota(scale)
    \/ \E name \in {"documents", "events", "mystery"} : EnforceQuota(name)

(* The verdicts are those of the store, as long as nothing of it changed    *)
(* since QUOTA counted: each bucket is judged by the count of now.  The     *)
(* events are an exception, since each command adds one: an excess of them  *)
(* stays one, but the absence of an excess tells of before the QUOTA only.  *)
QuotaAgrees ==
    quota.prepared =>
        \A name \in DOMAIN quota.buckets :
            LET bucket == quota.buckets[name]
            IN  IF name = "events"
                THEN bucket.used < events /\ (bucket.exceeded => events > bucket.limit)
                ELSE ~moved => (bucket.exceeded <=> Used[name] > bucket.limit)

-----------------------------------------------------------------------------
CONSTANTS
    DigestLimit,    \* most digests kept (the code: 128)
    DigestTrim,     \* digests dropped beyond the limit (the code: 32)
    DigestKinds     \* kinds and identifiers commands ask for

ASSUME DigestConstants ==
    /\ DigestLimit \in Nat
    /\ DigestTrim \in 1..DigestLimit

VARIABLE
    digests         \* Store.digests: entries, and what VERIFY found

DigestInit == digests = [entries |-> <<>>, verified |-> <<>>, matched |-> FALSE]

-----------------------------------------------------------------------------
\* What a digest of a kind is made of; the identifier goes into all of them.
Content(kind, id) ==
    CASE kind = "doc"    -> <<kind, id, documents[id]>>
      [] kind = "page"   -> <<kind, id, pages[id]>>
      [] kind = "links"  -> <<kind, id, links, selected>>
      [] kind = "nodes"  -> <<kind, id, nodes, watches>>
      [] kind = "events" -> <<kind, id, events>>

Found(kind, id) ==
    \/ kind = "doc" /\ id \in DOMAIN documents
    \/ kind = "page" /\ id \in DOMAIN pages
    \/ kind \in {"links", "nodes", "events"}

\* Mutant: an epoch that does not begin with the digest.
CatalogueEntryStale(kind, id) == [digest |-> Content(kind, id), stamp |-> epoch]

CatalogueEntry(kind, id) == [digest |-> Content(kind, id), stamp |-> epoch + 1]

Shortened(entries) ==
    IF Len(entries) > DigestLimit
    THEN SubSeq(entries, DigestTrim + 1, Len(entries)) ELSE entries

-----------------------------------------------------------------------------
(* DIGEST kind id: begins an epoch. *)
CaptureDigest(kind, id) ==
    /\ status' = IF Found(kind, id) THEN "ok" ELSE "not_found"
    /\ IF status' = "ok"
       THEN /\ digests' = [digests EXCEPT
                  !.entries = Shortened(Append(@, CatalogueEntry(kind, id)))]
            /\ NextEpoch
       ELSE UNCHANGED <<digests, epoch>>

(* VERIFY expected *)
VerifyDigest(expected) ==
    /\ status' = IF digests.entries = <<>> THEN "invalid_state" ELSE "ok"
    /\ digests' = IF status' = "ok"
                  THEN [digests EXCEPT
                           !.verified = Last(digests.entries).digest,
                           !.matched  = Last(digests.entries).digest = expected]
                  ELSE digests
    /\ UNCHANGED epoch

-----------------------------------------------------------------------------
DigestNext ==
    \/ \E kind \in DigestKinds : CaptureDigest(kind[1], kind[2])
    \/ \E kind \in {k \in DigestKinds : Found(k[1], k[2])} :
          VerifyDigest(Content(kind[1], kind[2]))

(* The stamps of the catalogue grow, through changes of the store and       *)
(* restores, which the epoch outlives, and each is later than all it        *)
(* speaks of: a page bears a generation from before its digest.  The        *)
(* catalogue keeps to its limit, and no trim takes the newest digest.       *)
DigestsAgree ==
    LET entries == digests.entries
    IN  /\ Len(entries) <= DigestLimit
        /\ \A i, j \in DOMAIN entries : i < j => entries[i].stamp < entries[j].stamp
        /\ \A i \in DOMAIN entries :
              /\ entries[i].stamp <= epoch
              /\ entries[i].digest[1] = "page" =>
                    entries[i].digest[3].generation < entries[i].stamp
        /\ digests.verified # <<>> => entries # <<>>
=============================================================================
