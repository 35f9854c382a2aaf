------------------------------ MODULE Reports ------------------------------
(***************************************************************************)
(* The reports of one journal: merges, samples, metrics, ledgers, quotas,  *)
(* relations, shards and digests, with the links and codec plans, over one *)
(* store (dispatch_query and dispatch_codec of src/src/engine.cpp).  Most  *)
(* are prepared by one command and used by another; in between, the store  *)
(* goes on, and a preparation with an unknown mode, which does not end the *)
(* journal, may have taken half of the preparation away.                   *)
(***************************************************************************)
EXTENDS Samples, Accounts, Relations, Shards

CONSTANTS
    MaxEvents,    \* bound of the model: commands that succeed in a journal
    MaxKinds      \* bound of the model: kinds of reports in one journal

ASSUME ReportsConstants == {MaxEvents, MaxKinds} \subseteq Nat

VARIABLE
    used          \* history: the kinds of reports asked for

vars == <<sourceVars, merge, sampleVars, metricsVars, ledgerVars, quotaVars,
          relationVars, shardVars, digests, events, epoch, status,
          used>>

Init ==
    /\ HoldInit
    /\ LinkInit
    /\ CodecInit
    /\ MergeInit
    /\ SampleInit
    /\ MetricsInit
    /\ LedgerInit
    /\ QuotaInit
    /\ RelationInit
    /\ ShardInit
    /\ DigestInit
    /\ events = 0
    /\ epoch = 0
    /\ status = "ok"
    /\ used = {}

\* A command on the store, the links or the codecs.
SourceNext ==
    /\ \/ HoldNext /\ status' = "ok" /\ UNCHANGED <<linkVars, codecVars>>
       \/ LinkNext /\ UNCHANGED <<holdVars, codecVars, epoch>>
       \/ CodecNext /\ UNCHANGED <<holdVars, linkVars, epoch>>
    /\ moved' = (moved \/ holdVars' # holdVars \/ linkVars' # linkVars)
    /\ UNCHANGED <<merge, sampleVars, metricsVars, ledgerVars, quota, relationVars,
                   shardVars, digests, used>>

\* No report reads another: a journal need not have many kinds of them.
Uses(kind) ==
    /\ used' = used \cup {kind}
    /\ Cardinality(used') <= MaxKinds

\* A command on a report.  Of these, only a digest begins an epoch.
ReportNext ==
    \/ Uses("merge") /\ MergeNext
       /\ UNCHANGED <<sampleVars, metricsVars, ledgerVars, quotaVars,
                      relationVars, shardVars, digests, epoch>>
    \/ Uses("sample") /\ SampleNext
       /\ UNCHANGED <<merge, metricsVars, ledgerVars, quotaVars,
                      relationVars, shardVars, digests, epoch>>
    \/ Uses("metrics") /\ MetricsNext
       /\ UNCHANGED <<merge, sampleVars, ledgerVars, quotaVars,
                      relationVars, shardVars, digests, epoch>>
    \/ Uses("ledger") /\ LedgerNext
       /\ UNCHANGED <<merge, sampleVars, metricsVars, quotaVars,
                      relationVars, shardVars, digests, epoch>>
    \/ Uses("quota") /\ QuotaNext
       /\ UNCHANGED <<merge, sampleVars, metricsVars, ledgerVars,
                      relationVars, shardVars, digests, epoch>>
    \/ Uses("relation") /\ RelationNext
       /\ UNCHANGED <<merge, sampleVars, metricsVars, ledgerVars,
                      quotaVars, shardVars, digests, epoch>>
    \/ Uses("shard") /\ ShardNext
       /\ UNCHANGED <<merge, sampleVars, metricsVars, ledgerVars,
                      quotaVars, relationVars, digests, epoch>>
    \/ Uses("digest") /\ DigestNext
       /\ UNCHANGED <<merge, sampleVars, metricsVars, ledgerVars,
                      quotaVars, relationVars, shardVars>>

\* Every command that succeeds leaves one event.
Next ==
    /\ Continues(status)
    /\ events < MaxEvents
    /\ \/ SourceNext
       \/ ReportNext /\ UNCHANGED sourceVars
    /\ events' = IF status' = "ok" THEN events + 1 ELSE events

Spec == Init /\ [][Next]_vars

-----------------------------------------------------------------------------
(* What the reports of one journal say is true of what they were made from, *)
(* and their parts belong together, whatever commands came in between: see  *)
(* the parts in the modules of the reports.                                 *)
ReportsAgree ==
    /\ SampleAgrees
    /\ MetricsAgree
    /\ LedgerAgrees
    /\ QuotaAgrees
    /\ DigestsAgree

(* No reading leaves what it reads: EXPORT stays in the table of links,     *)
(* DECODE in its output, RENDER in the label and the room for it, COLOR in  *)
(* the palette, though none of them looks at a limit; and a vector whose    *)
(* storage was refused is never decoded.                                    *)
NoReadOutside == status # Crash
=============================================================================
