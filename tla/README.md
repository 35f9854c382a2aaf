# A TLA+ model of Vesper Index

Vesper Index replays a journal: it parses a script of lines, and runs each
command against one `Store`, in one thread, until the script ends or a command
fails. This directory holds TLA+ modules that model its handlers, the TLC
configurations that check them on small instances, and TLAPS proofs of what
matters most for every value of the constants. Source paths below are relative
to the repository.

## 1. The system

### Inventory

| component | source | state it keeps | operations | modules |
|---|---|---|---|---|
| journal execution | `src/engine.cpp` | the Result of the last handler | `execute_script`, `execute_commands`, four dispatchers | Common, Journal, JournalProofs |
| parser | `src/parser.cpp` | none | `parse_script`, `tokenize` | Journal |
| segment log | `src/wal.cpp` | `SegmentState`: the open segment, sealed images, replay history | SEGMENT, ENTRY, SEALSEG, REPLAY | Segments, SegmentLog, SegmentsProofs |
| documents and title views | `src/store.cpp`, `transaction.cpp`, `manifest.cpp` | `documents`, `title_views` (raw pointers to titles) | DOC, VIEW, RENAME, MANIFEST | Store, Documents, ArchiveProofs |
| pages and cursors | `src/store.cpp`, `compaction.cpp`, `query.cpp` | `pages`, `cursors` (raw pointers to pages) | PAGE, CURSOR, COMPACT, SCAN | Store, Pages, ArchiveProofs |
| nodes, watches, watch review | `src/store.cpp`, `delta.cpp`, `audit.cpp`, `watch_review.cpp` | `nodes`, `watches` (raw pointers to nodes), `watch_review` | NODE, WATCH, DROP, AUDIT, WATCHSNAP, WATCHREVIEW | Store, Nodes, ArchiveProofs |
| snapshots | `src/snapshot.cpp`, `diff.cpp` | `SnapshotState`: captured snapshots, the current one | SNAPSHOT, RESTORE, SNAPINFO, DIFFSNAP | Archive, Holdings, ArchiveProofs |
| page cache | `src/cache.cpp` | `CacheState`: windows, recency list, byte budget | CACHE, TOUCH, EVICT | PageCache, PageCacheProofs |
| keyring and leases | `src/store.cpp`, `rekey.cpp`, `key_audit.cpp` | `active_keys`, `retired_keys` (raw owning pointers), `KeyAuditState` | KEY, ROTATE, KEYLEASE, KEYRELEASE, KEYAUDIT, `Store::~Store` | Keyring, KeyringProofs |
| checkpoints, policies, inspection lines | `src/checkpoints.cpp`, `policy.cpp`, `inspect.cpp` | `CheckpointState` (with a raw pointer into `InspectState.lines`), `PolicyState` | CHECKPOINT, CHECKVIEW, INSPECT, POLICY, POLICYCHECK | Checkpoints, CheckpointsProofs |
| tickets | `src/tickets.cpp` | `TicketState` | ISSUE, RENEWTICKET, CHECKTICKET | Tickets, SessionProofs |
| timeline | `src/timeline.cpp` | `TimelineState` | TIME, WINDOW, RETAIN | Timeline, SessionProofs |
| roles | `src/acl.cpp` | `AclState` | ROLE, GRANT, CHECK | Acl, SessionProofs |
| closing signatures | `src/session.cpp`, `signature.cpp` | `SignaturePlan` | SIGPLAN, FINALIZE, SIGN | Signatures, SessionProofs |
| row schema and projection | `src/schema.cpp`, `store.cpp`, `projection.cpp` | `schema`, `row` | SCHEMA, ROW, PROJECT | Rows, QueriesProofs |
| links and export | `src/references.cpp`, `export.cpp` | the table of links, the selected index | LINKS, FOLLOW, EXPORT | References, QueriesProofs |
| vectors, labels, palettes | `src/vector_format.cpp`, `codec.cpp`, `label_format.cpp`, `renderer.cpp`, `palette.cpp`, `palette_header.cpp` | a plan and the buffer it owns, each | VECTOR, DECODE, LABEL, RENDER, PALETTE, COLOR | Codecs, QueriesProofs |
| merges | `src/merge.cpp` | rows, a cursor, whether prepared | MERGE, NEXT | Samples, Listing, Sources, QueriesProofs |
| samples and metrics | `src/sampler.cpp`, `metrics.cpp` | rows and folds; numbers and buckets | SAMPLE, FOLD, METRICS, REDUCE | Samples, Sources, QueriesProofs |
| ledgers and quotas | `src/ledger.cpp`, `quotas.cpp` | entries and a fold; buckets with verdicts | LEDGER, FOLDLEDGER, QUOTA, ENFORCE | Accounts, Sources, QueriesProofs |
| relations | `src/relations.cpp` | edges, a walk, whether prepared | RELATE, WALKREL | Relations, QueriesProofs |
| query plans | `src/planner.cpp` | steps, a budget, readiness | PLAN, EVAL | Planner, QueriesProofs |
| shards | `src/shards.cpp` | placements and loads | SHARD, REBALANCE, SHARDINFO | Shards, QueriesProofs |
| block packing | `src/blocks.cpp` | flat copies and runs of the pages | PACK, UNPACK | Blocks, QueriesProofs |
| bloom filter, skip index | `src/bloom.cpp`, `skip_index.cpp` | an index of the store at one moment | BLOOM, PROBE, INDEX, SEEK | Bloom, SkipIndex, QueriesProofs |
| digest catalogue | `src/checksum.cpp` | a trimmed list of digests | DIGEST, VERIFY | Accounts, QueriesProofs |
| normalizer | `src/normalizer.cpp` | words with their counts, those listed | NORMALIZE, TOKENS | Normalizer, QueriesProofs |
| byte helpers | `src/bytes.cpp` | none | hashing, hexadecimal, numbers | none: pure functions without state |
| tools, fuzz harness, tests | `tools/`, `fuzz/`, `tests/` | none of their own | call `execute_script` and print | read for what they expect of the engine |

### How the parts interact

* Calls: `execute_script` parses the whole script first; `execute_commands`
  then offers each command to the dispatchers of its profile, in a fixed order,
  until one of them reports something other than `unsupported`. A dispatcher
  checks the arity and the numbers and calls one handler.
* The one thing every handler leaves behind is its `Result`. After `ok` and
  `unsupported` the journal goes on; any other status ends it. The variable
  `status` is that Result, and `Continues(status)` guards every command.
* Shared state: `Store.epoch` (documents, pages, nodes, segments and keys),
  the length of `Store.events` (keys and checkpoints number things by it),
  `InspectState.lines` (INSPECT, CHECKVIEW, KEYAUDIT, SNAPINFO, SHARDINFO), and
  the raw pointers of the table above.
* There are no threads, callbacks, messages or files that survive a run:
  nothing here is about interleaving, loss or restart.

### What is hard

What makes this code hard is that a journal is an arbitrary sequence of
commands, and one command reads what an earlier one left behind:

* **Outdated references.** Views, cursors, watches, the checkpoint summary and
  the keyring keep raw pointers. Commands run in between free, replace or
  delete what they point to, and the allocator may give the same address to
  something else.
* **Positions that shift.** The recency list of the cache holds positions of a
  vector that eviction shortens.
* **Checks far from uses.** An identifier is checked when a segment is opened
  and used when it is sealed; a lease names a key that is rotated later; a
  verdict is recorded under grants that grow.
* **Failures half way.** Some handlers change state and then fail; after
  `unsupported` the journal even goes on with that state: a report asked for in
  a mode nobody knows has lost its rows and kept the rest.
* **Copies of a store that moves on.** Filter, skip index, plans, packed blocks,
  quotas and lists are built from the store at one moment and read at another.
* **Uses that trust an earlier check.** PROJECT, EXPORT, DECODE, RENDER and
  COLOR index without a look at the limit: a command before them made sure.
* **Limits.** Records trimmed at a limit, budgets that cannot be met.

`PROJECT.json` lists each of these at its line, under "hazards".

### What correct means, per component

| component | it must hold that |
|---|---|
| journal | nothing runs before all is parsed; commands run in order and once each; nothing runs after a failure, and the answer names it; there is always an answer |
| segment log | what is sealed is what was announced, whole and for good; replays are deterministic; it implements the abstract log |
| archive | a reference goes bad only through the one command that outdates its kind; a restore brings back exactly what was captured, and leaves no reference behind; the watch list found by address is the one made by name |
| page cache | positions in the recency list name the windows they were put there for; the budget is exceeded only when nothing may go; the oldest go first and no more than must |
| keyring | the key of every lease can be found; history and leases tell the same story; a key is freed once, and once more for each rotation of its identifier if it is the first of it |
| checkpoints | the summary a policy reads is the one of the selected checkpoint; the evaluations kept are the latest |
| store of values | documents, pages, nodes and snapshots change as Holdings says, whatever becomes of addresses |
| rows, links, codecs | a use stays inside what an earlier command laid out, in whatever order they come |
| filter, skip index | the filter never denies what it was built from; a seek finds the nearest point, and its byte is in the store unless a restore took it away |
| plans | an evaluation spends what it has, in order, and no more |
| blocks, normalizer | unpacking gives back the page; a word is counted as often as it occurs |
| merges | a list is handed out in order, each row once |
| samples, metrics, ledgers, quotas, digests | the parts of a report belong together and are true of what they were made from; stamps grow |
| relations | a walk that begins goes as far as it was asked to |
| shards | loads account for what is placed there |
| session | reported tickets are revoked and stay so; no event is lost or misplaced; an allow stays right; signatures fit the plan |

## 2. Modules

Conventions. A step of a module is one command, run by its handler to its end.
`XCheck(args)` is the outcome the handler's early returns give, in their order;
the action is `status' = XCheck(args)` and, if that is `ok`, what the handler
assigns. A handler that changes state and then fails (EVICT, WATCHREVIEW,
WATCHSNAP, WINDOW, KEYAUDIT, INSPECT) does so in its action. Inputs are drawn
from small sets that hold, next to good values, the reserved and the refused
ones. Positions count from 1 where the code counts from 0. Variables marked
"history" record what happened for a property to look at; no action reads
them. An operator under a comment `Mutant:` is a plausible slip in the
definition that follows it; it is there to show that a property would notice.

* **Common** - the statuses, which of them let a journal go on, and the
  variable that holds the last one, which every module of handlers shares; and
  how handlers put lists together: sorting (`Sorted`, `InOrder`), taking some
  places (`At`), joining (`Flat`) and summing (`Total`), as sets and recursive
  functions, so that lemmas can speak of them.
* **SegmentLog** - the abstract log: a function from identifiers to contents,
  `Commit` adds one, `Apply` plays one. **Segments** - the code: the open
  segment, its entries and positions, images in a sequence searched by
  identifier. `Log == INSTANCE SegmentLog WITH log <- ...` maps the images to
  the function, and `Implements == Log!Spec` is the refinement.
* **Store** - addresses. An object is known by the address it was given; an
  allocation picks any address no live object of its kind has, so an address
  may be used again. Reading through a pointer to something gone is undefined:
  the model lets it succeed or take the process down (`ReadOutcome`).
  **Documents, Pages, Nodes** extend it with one kind of object and one kind
  of reference each; **Archive** composes the three with snapshots: `Next` is a
  step of one of them, the others unchanged, or a snapshot command over all.
  **MCArchive** adds the symmetry.
  **Holdings** is the abstract store: what documents, pages and nodes hold, by
  value, without addresses, references or failing commands.
  `Held == INSTANCE Holdings WITH ...` maps the objects of Archive to their
  values, and `HoldingsImplemented == Held!HoldSpec` is the refinement.
* **PageCache** - windows, recency list, the eviction loop as a recursive
  function that is the fixpoint of one round. Its PAGE is a stand-in for the
  handler of Pages.
* **Keyring** - keys as positions in `active_keys`, since ROTATE leaves the old
  key in both lists; `DestroyStore` is the destructor that deletes both.
* **Checkpoints** - lines as the buffer that holds their characters and whom
  they speak of; the summary is a buffer. An allocation may reuse the buffer of
  a cleared line. Hash results are any number up to a bound.
* **Journal** - the dispatch tables with their arities, and the run of a script
  through parser and dispatchers, where a handler may report anything.
  **MCJournal** names the lines scripts are made of.
* **Tickets, Timeline, Acl, Signatures** - the four families that
  `dispatch_session` knows, each with an Init and a Next of its own over the
  shared `status`; **Session** composes them as that dispatcher does.
* **Indexes** - what is built from the store and asked later. It stands on
  Holdings, so that its commands on the store are those that succeed, which the
  refinement of Archive justifies. Its parts, one file of the code each:
  **Rows** (fields as places of a row, sums taken modulo `Word`),
  **References** (the table of links), **Bloom** (bits of the filter and the
  texts it was built from; the hash is the operator parameter `SlotFor`),
  **SkipIndex** (layers of points, the search down them), **Planner** (steps
  and the sharing of the budget), **Blocks** (runs as a recursive
  function over the bytes of a page) and **Normalizer** (words as sequences of numbers, since the order
  among equally frequent ones is that of their letters). **MCIndexes** names
  the tables, plans and texts, and the hash.
* **Reports** - what one command prepares and another uses. **Sources** is what
  they are made from: Holdings, References, the number of events and
  **Codecs** (plans known by their sizes); the size of a title, body or page is
  the operator parameter `SizeOf`. Its parts: **Samples** (MERGE, SAMPLE and
  METRICS), **Accounts**
  (LEDGER, QUOTA and DIGEST), **Relations** (edges in any order the hash tables
  may give) and **Shards** (objects of equal weight in any order `std::sort` may
  leave). **Listing** is the list a merge promises: opened in
  order, taken from the front, each row once. `HandedOut == INSTANCE Listing
  WITH rows <- merge.rows, given <- ..., turn <- merge.turn` maps cursor and rows
  to it; `turn` is history, which tells one list from the next and which no
  action reads; and `MergeHandsOutOnce == HandedOut!Spec` is the refinement. **MCReports** names
  the tables, plans and kinds.
* **SegmentsProofs, KeyringProofs, SessionProofs, ArchiveProofs,
  CheckpointsProofs, JournalProofs, PageCacheProofs** - theorems about the module
  they are named for. **QueriesProofs** - theorems
  about Indexes and Reports, which stand on the same store.

Where the code visits an `unordered_map`, Indexes and the lists of Reports visit
it in ascending order of identifier (`InOrder`), one of the orders the code may
meet; no property there depends on which.

## 3. Runs

Each property has a mutant of the code in `PROJECT.json` that breaks it under
the configuration of its run. Deadlock is not looked for in any run but by
`Answers`: a journal stops after a fatal outcome or its last command, and does
so by design.

| run | distinct states | asks |
|---|---|---|
| Segments | 25 628 | `OpenConsistent`, `SealedComplete`, `ReplayDeterministic`, and `Implements` |
| Archive | 515 515 | `OutdatedInOneWay`, `CrashNeedsOutdatedReference`, `WatchListFaithful`, `RestoreExact`, and `HoldingsImplemented` |
| PageCache | 240 718 | `LruFaithful`, `BudgetHeld`, `EvictsAsNeeded` |
| Keyring | 190 334 | `LeasesFindable`, `HistoryTellsLeases`, `DeletionsFollowRotations`, `AuditAccountsForLeases` |
| Journal | 592 400 | `ParsedBeforeRun`, `CalledInOrder`, `AnswerComplete`, and `Answers` under fairness |
| Checkpoints | 327 620 | `SummaryOfSelected`, `EvaluationsRecent` |
| Session | 403 341 | `ReportedAreRevoked`, `EventsKept`, `WindowTells`, `AllowsHold`, `SignedAsPlanned` |
| Indexes | 1 199 491 | `ReadsInside`, `NoFalseNegatives`, `SeekTellsPlace`, `PlanWithinBudget`, `PackLossless`, `TokensCounted` |
| Reports | 1 648 005 | `ReportsAgree`, `WalkNeverStops`, `LoadsAccount`, `NoReadOutside`, and `MergeHandsOutOnce` |

Segments and Keyring also check the type invariants that their proofs use; those
of the session are part of the invariant proved in SessionProofs. The other
modules state none: a record of another shape would break their properties.

What the wider ones say, in short:

* `HoldingsImplemented`: every command of Archive changes the values the store
  holds as one action of Holdings does, or not at all. A failing command changes
  none, a reading none, and objects given an address again hold what they should.
* `DeletionsFollowRotations`: what `~Store` deletes, whatever was rotated before.
  A rotation finds the first key of the identifier it names and retires that one
  again. A key it shadows, one that was given an identifier already taken, is
  never retired and is deleted once.
* `AuditAccountsForLeases`: an audit counts every active lease in the line of the
  key it was taken on, or, after rotations, in the line of each key of that
  identifier: never fewer than there are, and no more unless a key is shadowed.
* `ReadsInside`: a projection leaves its row only if a schema came after the row
  or the 32-bit sum of offset and width hid the end of a field; the link EXPORT
  takes is always in the table.
* `ReportsAgree` has a part in each report module. `SampleAgrees`: a sample is
  the heaviest of its scope, and folds belong to the rows there are.
  `MetricsAgree`: buckets count the numbers they were made from, an unknown scope
  in between notwithstanding. `LedgerAgrees`: a fold is that of the entries there
  are, but after an unknown mode, and a ledger counts the events before its own.
  `QuotaAgrees`: verdicts are those of the store as long as it has not changed
  since. `DigestsAgree`: stamps grow, through restores too, and are later than
  the page they speak of.
* `MergeHandsOutOnce`: each row of a merge is handed out once, in order, until
  the next MERGE, and NEXT cannot go back to the first row: a list that is begun
  again is another one, by its `turn`.
* `NoReadOutside`: no state of Reports has crashed. EXPORT, DECODE, RENDER and
  COLOR are never handed something to read outside of.
* `LoadsAccount`: exact after SHARD; after REBALANCE a shard counts for less
  than it holds, by one relief for each of its objects at most.

### Bounds, and why they are enough

* Segments: two identifiers, two kinds, up to three entries a segment, four
  seals and replays. Two segments with a different number of entries each, and
  both replayed twice, fit.
* Archive: two documents with three title buffers, one page with two
  addresses, two nodes with two addresses, one view, cursor and watch at a
  time, one snapshot restored once, two epochs. A buffer freed by a rename, a
  page replaced by a compaction and a node dropped can each be given out again
  while a reference to it is left, and a restore can come before or after. With
  one watch at a time a second node at the watched address is reached, which
  is the case `WatchListFaithful` distinguishes. Two epochs allow one compaction and one more
  change of a document, page or node.
* PageCache: a pinned and an unpinned page, two sizes, six insertions and
  touches, budgets from 0 to above the largest sum that fits: evictions of
  several windows in one command, over a list with pinned slots in front.
* Keyring: two key identifiers, two leases, four keys, six events. An identifier
  rotated twice, and one given out again before and after a rotation, fit with
  leases before and after.
* Journal: all scripts of up to four lines out of nine kinds, more commands
  than the limit of three among them, every profile, and every outcome of each
  handler.
* Checkpoints: two checkpoints, three buffers, two lines, six events; the
  limit of the evaluations is 2 with a trim of 2 where the code has 64 and 16:
  small enough for several trims.
* Session: six commands. The shortest way to break any of its properties takes
  four, the longest command sequence a family needs to reach all its cases
  (role, three checks, trim, grant) five.
* Indexes: five commands. The shortest ways to break a property take three or
  four (an object, an index built, a change of the store, a use). Numbers are
  small so that the edges are met: bytes modulo 2 and page numbers modulo 4 in the
  keys of the skip index, so that keys of different bytes are equal and wrap;
  unsigned ints modulo 8 in the ends of fields, with one field that wraps; a
  filter of few bits and a hash that tells few texts apart, so that texts share
  bits; a page with a run longer than the longest one asked for.
* Reports: five commands that succeed and any number of `unsupported` ones
  between them (other failures end a journal). A journal asks for one kind of report
  (`MaxKinds = 1`): no report reads the state of another, which is why this
  loses nothing; of what they share, the epoch and the number of events, DIGEST
  advances the one and every command the other. Three documents put a bucket of
  QUOTA below, at and above a limit of two. Weights are small and meet the
  identifiers, so that rows tie and walks go on. `Slack` is 2 where the code
  has 16, so that reliefs of 0 and of 1 occur for targets 1 and 2; the digest
  catalogue holds two and is trimmed by one.

Bounds of the model that the code does not have are constants with `Max` in
their names. They stand in guards, so a journal that reaches them is one that
is cut short there.

### Fairness

Only Journal is asked for liveness. `FairSpec` adds weak fairness of its whole
`Next`: the engine is a single thread that never waits, its loops are over the
lines and commands of a finite script, and so some step is taken as long as
there is one. No fairness between actions is assumed; each state of a run has
one action, with a choice of outcomes.

### Where the code and its tests or docs part

Three runs expect a violation. Each checks what a line of the repository says.

* **ManifestAfterRename** (`ManifestSucceeds`): DOC, VIEW, RENAME, MANIFEST
  reads a title that RENAME has freed (`src/manifest.cpp:8`,
  `src/transaction.cpp`). `tests/archive_replay_tests.cpp:40` runs this very
  journal and expects ok.
* **KeyringRotate** (`EndsWithoutCrash`): ROTATE adds the old key to the
  retired list and leaves it active (`src/rekey.cpp:24`); the destructor
  deletes it twice. `tests/archive_replay_tests.cpp:20` expects ok.
* **JournalUnsupported** (`UnsupportedReported`): a handler's `unsupported`
  never reaches the caller (`src/engine.cpp:542`).
  `tests/key_watch_activity_tests.cpp:58` expects that it does.

Two more are visible in the models without a run of their own. EVICT fails when
only a pinned window is left above the budget (`EvictCacheWindows` of PageCache,
`src/cache.cpp:111`), where `tests/archive_replay_tests.cpp:50` expects ok. An
audit of active keys succeeds without any lease (`AuditKeyring` of Keyring,
`src/key_audit.cpp:136`), where `tests/key_audit_tests.cpp:34` expects it to be
rejected.

## 4. Proofs

TLAPS checks every step. A theorem holds for any sets of identifiers, any limits
and any bound of the model; it rests on nothing but the named `ASSUME`s of the
module's constants, which every run evaluates.

**SegmentsProofs.** The invariant is
`TypeOK /\ OpenConsistent /\ SealedComplete /\ SealedUnique`. Each part needs
another: a segment is sealed whole because the open one is consistent, and
identifiers stay unique because an open segment's is not among the sealed ones
(which OpenConsistent says). `SealedUnique` then makes the first image
`find_segment` meets the one that was sealed under that identifier, and with
that the refinement goes through step by step: SEALSEG is a `Commit`, REPLAY an
`Apply`, everything else leaves the abstract log alone
(`SegmentsImplementLog`). Also proved: `SealedIsForGood` and
`FailureIsTraceless`, two properties of steps that no run repeats. For
`ReplaysAgree` the invariant gains `HistoryOfSealed`: every replay in the history
has the digest of the image sealed under its identifier, which no step changes.

**KeyringProofs.** The invariant is
`TypeOK /\ LeasesFindable /\ ReleaseAfterIssue /\ EventBeforeLease`. The last
part is the strengthening: a lease exists only after at least one event, so that
a release, stamped with epoch plus events, comes strictly after an issue
stamped with the epoch alone. `RotationsAreDeletions` rests on a part about the
retired list (`RetiredFit`): a place on it is that of the first key of its
identifier, because that is the one `find_key` gives, and is there once for each
rotation that named the identifier, since every rotation adds a key behind the
ones there are. `ReleasedIsForGood` because KEYRELEASE refuses a
released lease and finds each lease by an identifier that is unique.
`HistoryIsTold` shows by cases on the last record that the history goes on
telling the leases: a grant adds a record and a lease, a release a record of a
lease that had none. `AuditAccountsForAll` counts: the pairs of a line and a
number up to its count are in bijection with the active leases
(`PairsCounted`) as long as the lines of the first key of each identifier are
counted, because every lease has one such key; the lines of shadowed keys, if
there are any, only add to the sum.

**SessionProofs.** Each family has its own invariant, kept by its own commands
and left alone by the others (`TicketNextInv`, `SignatureNextInv`,
`AclNextInv`, `TimelineNextInv`); `NextInv` puts them together along the
dispatcher's alternatives.
Tickets: that revoked tickets are exactly the reported ones stops a renewal from
moving a revoked ticket's expiry. Signatures: that signed slots are the
requested ones of a finalized plan. Roles: the strengthening is that a verdict
names a role that is defined, so defining another cannot touch it; `TrimmedList`
says what is left of the verdicts is the end of their list. The timeline: an
event is told by how often it is in a list (`Copies`); sorting keeps that, RETAIN
lessens it and a late event raises it by one, in the events and in all there ever
were (`EventsSorted`, `LatestAre`, `CopiesAppend`). The strengthening is that any two
events, not only neighbours, are in order, so that a window is (`SpanIs`); that a
span of more events has more (`SpanGrows`) keeps an old window below the events of
now. What sorting does to a list is proved here once more, as in QueriesProofs:
the two stand on modules that do not go together. Proved of them:
`ReportedRevoked`, `GrantsAreDistinct`, `NoEarlyRevocation`, `RevokedStays`,
`TimelineIsKept`, `WindowsTell`, `SignaturesFitPlan`, `AllowedStays`.

**ArchiveProofs.** `Inv` says of every live reference where it points, through
any reuse of addresses: a view no RENAME outdated shows the title its document
has, a cursor no COMPACT outdated is on the page its identifier names, a watch
no DROP outdated on a node known to be watched (`WatchesAccounted`). That
snapshots have different identifiers makes `find_snapshot` return what was
captured, so that a restore is exact (`RestoreIsExact`); that nodes live at
different addresses makes the list WATCHSNAP finds by address the one made by
name (`WatchListIsFaithful`). Also proved: `ReferencesGoBadInOneWay`,
`CrashIsOutdated`. `ArchiveHolds` is the refinement: each command is shown, by
one lemma for each part of the store (`DocHolds`, `PageHolds`, `NodeHolds`,
`SnapHolds`), to be a step of Holdings or none.

**CheckpointsProofs.** `SummaryIsOfSelected` is inductive with the types: each
command that clears or extends the lines also says what becomes of the pointer
into them. `EvaluationsRecent` is not: it says the evaluations kept are a suffix
of all there were, and a trim takes a suffix of that. `KeptPlaces` gives each one
kept its place among all, and `KeptCount` how many there are; the suffix follows
(`EvaluationsAreRecent`), for every limit and every trim no greater than it.

**JournalProofs.** `ParseInv` is what the parser has established about the lines
before the one it reads, `DealtWith` that the commands before the current one
have run if the profile knows them, `CurrentInv` how far the dispatchers are with
the current one. That no command runs twice rests on the dispatch tables: no
verb is known to two dispatchers (`KnownOnce`, from the tables of `engine.cpp`
line by line). Proved, for any script and any outcome of the handlers:
`ParsedFirst`, `CalledOnceInOrder`, `AnswerIsComplete`.

**PageCacheProofs.** Types, distinct stamps, and that the recency list is in the
order of stamps and has every window that may go (`Ordered`, `Covers`) hold
together. The loops of `cache.cpp` are recursive functions here. `Recursion` says
that such a function is there, and `Induct` is induction up to a number, for a
set of numbers; both are proved from the well-foundedness of the naturals, since
a set, unlike an operator, can be handed to a lemma. With them: what a list is
after a slot was taken out and the others renumbered (`WithoutSieves`,
`KeptsAre`), how the sum of the sizes changes (`SumsAre`, `SizeGone`), and what
the eviction loop has done after any number of rounds (`RoundsAre`, `Shrinks`).
Proved: `ListIsFaithful`, `BudgetIsHeld`, `EvictionIsAsNeeded`.

**QueriesProofs.** Indexes is a composition of seven families over one store,
and `IndexInv` of eight parts: what holds of the store's tables, and for each
family what ties the thing it keeps to the thing it was built from.
`LinkInv`: the index EXPORT takes is within the table. `RowInv`: a field ends
within the size its schema says, as 32-bit sums go, and a row has that size unless
a schema came after it. `BloomInv`: no text that was put in is denied, for any hash
whatever (`SlotFor` is a constant operator of which nothing is assumed).
`SkipInv`: the layers stand on a base of rising keys, whose points are in the pages
unless a restore replaced them, and the last match is where a search of the base
ends. `PlanInv`: the shares are those of the plan there is. `BlockInv`: each chunk
unrolls to its page. `NormalizerInv`: counts are those of the words the list was
made from, and falling. A command keeps its own part, and a command of another
family leaves it alone (`IndexesKept`).

What takes the work is underneath: what lists are that were sorted, joined,
summed or run through. `RunIs` and `Recursion` say that a recursive function of
Common or of a handler is there; `ArrangedList` that a finite set in a total
order is arranged in it, each element once; `RearrangedKeeps` that sorting is a
permutation; `FlatIs` and `TotalIs` what joining and summing give. On them rest
`CandidateIs` (the search down the layers ends where a search of the base would),
`SharesOn` (one more step of a plan), `PacksOn` (one more byte of a page lengthens
its last run or begins one), `LessIsWeak` (the order of words, first by count and
then by letters, is one) and `MergedAre` (a word counts as often as it occurs).
Proved, for any store, any journal and any limits: `Safety`,
`ReadingsStayInside`, `FilterMissesNothing`, `SeekFindsThePlace`,
`PlansArePaidFor`, `PackingLosesNothing`, `WordsAreCounted`.

The reports, in the same module, have an invariant of their own over the same
store, `ReportInv`. `CodecInv`: a buffer is as large as the plan it is for, a label
as long as declared and within its room, a color within the palette; so no use
reads outside (`NothingReadOutside`). `SampleInv`: the rows kept are the heaviest
of those they were chosen from, sorted by an order that is shown to be a weak one
(`RowsWeak`), and a fold is that of the rows. `MetricsInv`: buckets and range are
those of the sorted numbers; that each number falls into one bucket and no other
(`OneBucket`, which needs the width to be more than an eighth of the greatest)
makes the totals of the buckets add up (`RowsAddUp`, an exchange of sums).
`LedgerInv`: the fold is that of the entries, unless an unknown mode came between.
`QuotaInv`: a bucket is judged by what is stored with it, which is what there is
until the store or the links change; `moved` is that change. `DigestInv`: stamps
rise up to the epoch, which no command turns back. `RelationInv`: edges are a list
and the walk goes along them; `WalkGoes` shows by induction over the steps that a
place a walk came to is the end of an edge, and so on an edge. `MergeInv`: rows in
a list and a cursor; MERGE is an `Open` of Listing, which turns, and NEXT a `Take`, which does not, and an
unknown mode, which empties the rows under the old cursor, an `Open` of an empty
list (`MergeStep`). `ShardInv`: the loads account for the placements. That a set
weighs what any one object of it weighs and the others (`SumsTake`), whichever was
chosen first, makes the order of REBALANCE immaterial; `LoadsTellOn` places one more
object: the shard it goes to was the lightest, so that it is heavier than another by
that object at most, and a relief takes off no more than there is, the target being
below the load. Proved, for any sizes, limits, tables and scales:
`ReportSafety`, `ReportsTellTheStore`, `NothingReadOutside`, `WalksGoOn`,
`LoadsAccountForAll`, and the refinement `MergesHandOut`.

**Only model-checked.** Every invariant, action property and refinement of the
passing runs is a theorem. `Answers` is liveness, which is out of the prover's
reach, as is anything that needs ENABLED.

## 5. What is left out

* Bytes. Hashes, digests, keys, titles and payloads are told apart by what the
  properties tell apart: valid or not, this one or that one.
* Event strings. `Store.events` is its length where a handler reads that.
* Addresses of different kinds are disjoint: a freed title's buffer is given to
  titles only. A mixed reuse reads bytes of another type and has the same
  outcome in the model: the read succeeds with nonsense or crashes.
* The wraparound of 32-bit and 64-bit counters (epochs, ordinals, stamps): a
  journal has at most 1024 commands, and a count advances by at most one page, entry or
  document per object stored.
* `WATCHREVIEW`'s counts of relations and timeline events, which other
  components own; segments in a ledger, which count 0 there.
* Folds and digests. FOLD, REDUCE, FOLDLEDGER, EVAL and the digests of handlers
  mix numbers into a 64-bit word. A fold is known by what it took in; where
  nothing but a digest is made of it, it is left out, and so are the costs of
  plan steps. A digest in the catalogue is the content it was made of, that is,
  collisions are left out.
* The hash of the filter is a parameter, of which nothing is assumed.
* The characters of texts. A title is a sequence of words to the filter and the
  normalizer, its size to the reports; the case of letters, which both lower,
  is not told apart.
* The lines of SHARDINFO: they are those of a report that adds to the inspection
  lines, `AddReport` of Checkpoints.
* The components marked as having no module in the table above and in
  `PROJECT.json`.

## 6. Plan

Every component that keeps state is modelled. What is left:

1. Inspection lines as one component shared by keyring, checkpoints, snapshots
   and shards.
