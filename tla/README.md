# rust-scraper (webfang): a TLA+ development

Specifications of the parts of webfang whose correctness depends on the order of
things: exporting pages exactly once across kills and reruns, sharing one state
file between processes, one writer thread behind many handles, a crawl that
stops, is killed and resumes over a checkpoint, a batch that hands its pages
through a spool, shared sessions that are banned and recover, and a cache of
downloads that evicts while it downloads. TLC checks them on small
instances; TLAPS proves the safety properties for all instances.
Paths below are under `src/crates/webfang_core/src/` unless they begin with
`docs/`, which stands for `src/docs/`.

Contents: 1 inventory · 2 modules and how they correspond to the code · 3 runs ·
4 fairness · 5 proofs · 6 abstractions · 7 where code and documents disagree ·
8 plan.

## 1. Inventory

| Part (source) | State | Operations | Meets |
|---|---|---|---|
| Page record (`domain/persistence.rs`, `domain/page_state`, `domain/record_transition.rs`) | status, hash, location, attempts, last error | reconcile, typed transitions, commit-point swap | export sessions |
| Export loops (`application/export_factory.rs`, `resume.rs`) | records, hash index, driven pairs, cancellation | open, decide, export, checkpoint, commit, fail, final persist | exporter, record store |
| JSONL writer (`infrastructure/export/jsonl_writer.rs`, `jsonl_exporter.rs`) | channel, thread, exit slot, file | append, flush, close, open with torn-tail cut | export loops |
| Record store (`infrastructure/export/record_store.rs`) | state file, sentinel lock, temp files, v1 backup | load, update, migrate, GC | every session with `--resume`, in any process |
| Crawl engine (`application/crawler/engine.rs`, `crawl_task.rs`, `collector.rs`, `crawl_scheduler.rs`, `infrastructure/crawler/url_queue.rs`) | queue, pending, visited, tasks, counters, flag and token | dispatch, join, drain, save, shut down | tasks, sink, checkpoint |
| Crawl checkpoint (`application/crawler/checkpoint.rs`) | visited and queued URLs on disk | save, load, delete | engine |
| Content sink (`application/crawler/bounded_sink.rs`) | sender, channel, deferred sends, writer task, spool file | capture, finish | engines of a batch, orchestration |
| Batch manager and processor (`application/batch/`), `run_batch` (`cli/orchestrator.rs`) | job, permits, task set, errors, exit code | dispatch, join, flush, extract, export, route | engines, sink, export |
| Session pool (`infrastructure/network/session_pool.rs`) | slots per domain, bans, deadlines, tracked domains | acquire, report, cap, sweep | HTTP client, crawl tasks |
| HTTP client (`application/http_client/`) | user agent, attempts, last failure | get, retry, report outcome | session pool, rate limiter, WAF verdict |
| Asset downloader (`adapters/downloader/mod.rs`) | cells, insertion ledger, in-flight marks, files | download, evict, retry, rename | pages' assets, disk |

### Item and chunk export

A run opens a session (records from the store, content hashes from the output
file), and for each result *decides*: skip it (COMMITTED and valid), *promote* it
(its bytes are in the file, only the record is behind), or *drive* it (append,
flush, EXPORTED checkpoint, COMMITTED). Two loops do this: one item at a time,
and, for chunked output, all decisions first, one batch append behind one flush,
then the commits. Hard: a kill between any two of those steps; a save that
failed while memory went on; a write that fails half a line in; a torn tail that
the hash index is built before and the exporter cuts after; claims of a record
that failed, changed its content or came from a v1 file. Correct when: no line
is appended twice, nothing is called exported without its bytes, a committed
page stays committed, cancellation separates no append from its commit, and
rerunning gets every page committed.

### Record store

Every transaction takes a `flock` on a sentinel that is never unlinked, collects
stray temp files, reads, merges last-writer-wins per URL, writes a temp file and
renames it. A v1 file is copied aside and rewritten inside the same critical
section. Hard: `load` looks for the file before it locks; a kill at any step; GC
beside a live writer; failure of any call. Correct when: load and update are
atomic, an acknowledged save is on disk, a stale copy never replaces a newer
record, the backup precedes the rewrite, and nobody waits for the lock for ever.

### JSONL writer

Clones send lines, flush requests and one shutdown through a bounded channel to
a thread that owns the file. Correct when: the file is a prefix of what was
accepted in channel order, an ack proves that everything accepted before it, from
any clone, is written, and every call returns even when the thread dies under
its callers.

### Crawl engine and checkpoint

One loop joins finished tasks, drains what they discovered from the shared queue
into its own buffer, saves periodically, dispatches up to the concurrency limit
and waits at most a moment. Tasks wait for a rate-limit permit, fetch, run the
pipeline, count their page and push links one by one. A signal sets a flag and
then fires a token; the end of a run drains tasks for a bounded time and deletes
or saves the checkpoint. Hard: tasks push after the loop last drained; pages are
found twice under two spellings; the budget is counted by tasks still in flight;
a signal lands anywhere; a wedged task is aborted; memory pressure takes the
limit to zero. Correct when: no page is fetched twice, also across a resume;
`max_pages` is overshot by less than the concurrency limit; nothing discovered is
forgotten; only a crawl that did everything deletes its checkpoint; every run
ends.

### Batch run: manager, processor, sink, orchestration

A job dispatches its URLs under a semaphore; the engine of each captures its page
in one shared sink, whose writer appends it to a spool file. A full channel is
not waited for: the page gets a task of its own that holds a sender. When all
URLs are joined the sink is finished (its sender goes, the writer is awaited),
the spool is read back, extracted and exported, and two independent counts of
failures become one exit code. Hard: tasks nobody awaits that still hold pages
while the sink is being finished; a writer that dies under them; a shutdown
before, during or after the dispatch; errors that surface in different phases.
Correct when: what was captured is in the spool once, a cancelled batch still
hands over what it had, exit code 0 hides no failure, and every run ends.

### HTTP client and session pool

A request acquires one of a domain's slots (not a lease: others may hold it too),
waits, sends, resends after a timeout, once more with another user agent after a
403, or in a retry loop after a 429 or 5xx, and reports success or failure on its
slot. Failures ban the slot until a deadline with jitter and stagger, or retire it;
entries older than a TTL heal; the number of tracked domains is capped by every
acquire after it has let go of its own entry. Hard: reports that come late, about
a slot that was banned, healed or evicted meanwhile; calls that count, choose and
remove at the same time; budgets that start anew inside each other; a future
dropped while it waits. Correct when: a ban lasts until its deadline and not
longer than the configured maximum allows, the cap is exceeded only by callers not
yet through with it, and one call sends a bounded number of requests.

### Asset downloader

Calls for the same URL share a cell that is filled once; a ledger keeps the order
of insertion; a call that finds too many entries evicts the oldest whose download
is not marked as in flight. Bytes are streamed to a temporary file and renamed.
Hard: an eviction between the entry and the mark; one mark for several callers;
counting before the lock and subtracting after it; two downloads that choose their
final path by looking at the disk; a call dropped mid-way. Correct when: the
excess is never negative, every entry can be evicted some day, a returned asset's
file has its content, and every call returns.

### Parts without a module

The resource governor and the downloader routing take one semaphore permit and one
look at the memory per fetch and keep nothing between fetches; the crawl model has
their effect (`Limit`). WAF detection, discovery, link and sitemap parsing,
extraction, the adaptive engine and the AI crate are pattern matching and
numerics: what they produce enters the models as an arbitrary choice. Argument
parsing and preflight have no state. SQLite, Elastic and MCP lean on a
transaction engine or a service, and come last. The rate limiter is a thin wrapper
of a library. These parts are most of the repository's lines, which is why the
modelled share of it is small.

## 2. Modules

```
PageRecord            ExactlyOnce          StampedRecords        CrawlScheduler
    |                     |                 |          |               |
CommitSession             |             AtomicStore    |          CrawlEngine
  |         |             |                  \         |           |        |
ExportBatch ExportItems --+(implements)       RecordStore    CrawlProofs  MCCrawl
  |           |       \                    (implements AtomicStore)
MCBatch   ExportProofs MCExport              |      |
BatchProofs               RecordStoreProofs -+   MCRecordStore

JsonlWriter            BoundedSink             SessionPool          AssetDownloader
  |       |                 |                       |                  |        |
WriterProofs            BatchRun                HttpClient       AssetProofs  MCAssets
MCJsonlWriter            |     |                 |      |
              BatchRunProofs MCBatchRun  ClientProofs MCHttpClient
```

**PageRecord** (constant level): what the rules read of a `RawRecord`, `Valid`
(the D2 table, `domain/persistence.rs`), the typed transitions and
`SwapToCommitted`. `Migrated` is what `migrate_v1` makes of a legacy URL.

**CommitSession**: what both loops share. `file`, `tail`, `store` are on disk;
`records`, `index`, `driven`, `writer`, `cancelled` are the process; `pc` is
where it may be interrupted. `Open` is `CommitSession::open`, `Decide` is
`decide`, `Checkpoint` and `CommitPoint` are the two halves of `commit_item`,
`Promote` the first half of `promote_from_flush_proof`, `Finish` `final_persist` and the
exporter's drop. `Save` is `merge_persist` as one step: with one process at a
time and a clock that does not go back, the session's own record wins.
RecordStore takes that transaction apart. Modes are how flags start a run:
`resume`, `plain` (no context, no store) and `fresh` (a context that keeps
records but does not consult them).

**ExportItems**: `process_results`. `SkipClaimed`, `SkipCommitted`,
`BeginPromote`, `BeginExport`, `RejectItem` are the outcomes of
`process_single_item`; `OpenWriter`, `AppendLine`, `ExportFails` are the lazily opened
session inside `JsonlExporter::export`; `FailItem` is `fail_item`. `Crash` may
tear the line being written.

**ExportBatch**: `process_results_with_chunks`. `pos` walks `export_batch` over
the chunks that pass its filters, `FlushBatch` is the one barrier, then the
commit loop. A failed export returns at once, and records nothing.

**ExactlyOnce**: the promise of `docs/persistence-resume.md`, over the output
lines and the set of durably committed pages. ExportItems implements it by
mapping `out` to `file` and `done` to the keys whose durable record is a valid
COMMITTED.

**JsonlWriter**: `JsonlSession` and `writer_loop`. Calls are split where they
wait (for a slot, an ack, the exit); the thread leaves its loop and drops its
receiver in two steps, between which senders still find room.

**StampedRecords, AtomicStore, RecordStore**: records as a merge sees them;
sessions that load and publish in one indivisible step; and the store step by
step, where the lock, the GC, the migration and the rename are. RecordStore
implements AtomicStore by mapping `recs` to the records the next load would see.

**CrawlScheduler, CrawlEngine**: the scheduler's state and operations
(`DrainDiscovered`, `NextUrl`, `SnapshotPending`, `Push`, named as in the code),
and the loop and tasks around it. One engine action per stage of `crawl_loop` (`Top`,
`Join`, `Drain`, `PeriodicSave`, `Spawn`, `Wait`), then `Finish` (the bounded
drain), `Conclude` (delete or save) and `Shutdown`. A task is a record: where it
is, its depth, the links it has left. `fetched` and `lost` are history.

**BoundedSink, BatchRun**: the sink's steps (`Capture`, the deferred sends, the
writer, the closing half of `finish`) and the run around them. A URL of the batch
is its page. An engine's run is its capture and its end (`Fetched`, `Ends`,
`Fails`), which may come without a page; the manager is `SkipJob` to `JoinEnds`,
`run_batch` the rest. `Export` keeps what the code does with the outcome of the
export phase: nothing.

**SessionPool, HttpClient**: the pool's operations over `clock` and `pool`, a call
being one step on its entry because it holds the map's guard; the cap is
enforced outside it, in three steps (`CountDomains`, `ChooseVictims`,
`RemoveVictim`) that belong to the request. `try` holds the counters of
`get_inner`, `outcome` what `report_outcome` will make of the result.

**AssetDownloader**: one action per stretch of `download` between two places where
another call can come in. A cell is named by the call that made it. `lock` is the
ledger's mutex and `scan` the locals of the loop under it.

**ExportProofs, BatchProofs, RecordStoreProofs, CrawlProofs, WriterProofs,
BatchRunProofs, ClientProofs, AssetProofs**: theorems, section 5. The **MC** modules
give instances. Operators marked "Mutant" in a comment are faulty variants of the
definition that follows them; no specification uses them, they show for each
property a change of the code that TLC would report.

## 3. Runs

| Run | Instance and bounds | Shows |
|---|---|---|
| `items_exactly_once` | 3 URLs (two of one page), 2 result lists, resumed runs; 4 faults of save, crash, cancel | at most one line per (url, hash); a committed page has its own line; committed stays; implements ExactlyOnce |
| `items_faults` | resumed and plain runs, all faults, an invalid content, tails cut anywhere incl. inside UTF-8; 5 faults, 1 run that does not resume | a durable exported record has its bytes in the output; no save persists a record the next load refuses; every page ends up committed, or stuck behind its line where a tail inside UTF-8 once emptied the index |
| `batch` | a page of two chunks, one of them twice, and another page; 3 faults | the same safety, the flush barrier, and liveness, for the batch loop |
| `writer` | 2 clones, 2 slots, 2 lines each, failing writes | order, barrier, every call returns |
| `store` | 2 keys, 2 sessions, 2 stamps; no file, v1, unreadable, refused or another session's record; 1 fault | acknowledged saves, live temp files, backup before rewrite, stale copies yield, atomic transactions, no wait for ever |
| `crawl` | 4 pages, one spelled twice; `max_depth` 1, `max_pages` 2, concurrency 2, save every 2 pages; 2 runs, 1 fault | the six properties of the crawl |
| `client` | 3 domains, the pool tracks 1, 1 slot each; 2 requests, 3 calls, 2 user agents, 1 retry; clock up to 4, delays 1 and 2, TTL 2; symmetric domains and requests | bans hold and are bounded, the cap's overshoot, the sends of one call |
| `assets` | 3 calls, 2 URLs of the same bytes, cache of 1, 1 retry, names by hash | the excess, the ledger covers the cache, files intact, every call returns |
| `batch_run` | 3 URLs, 2 permits, a channel of 1 | spool, cancelled batches, exit code 0, the run ends |
| `v_failed_then_killed`, `v_stuck_exported`, `v_second_connection` | the smallest instance that shows it | a divergence each, section 7 |

Why the bounds are enough to be interesting. In the item runs the two URLs of
one page with one content reach claim, skip and promotion; the second list
changes that page's content and repeats the other page; four faults allow a
failed save, a kill, and both again in the rerun that repairs them.
`items_faults` needs more: a page gets stuck by three faults in a row (a lost
save, a kill that empties the index, a failed append or a kill in the run that drives
the page again), so it
has five, which leave room for two more before, between or behind them. In the store
runs both sessions reach every step inside and outside the lock while the other
is at any of its steps, and one fault hits every call. In `writer` the four
lines and their flushes do not fit two slots, so senders wait while the thread
dies. In `crawl` page 1 links to three pages of which two fit the budget, page 2
links back to 1 and to another spelling of 3, the limit 2 lets two tasks count
at once, and the second run resumes from whatever the first one left, by
completion, truncation, signal, kill, failed save or abort. In `client` two calls
of different domains push each other out of a pool of one while a third call's
report is still to come; the clock passes a ban's deadline and, at 4, the TTL. In
`assets` one call can evict the entry of a second that a third waits for, which
takes three calls, a cache of one and two URLs. In `batch_run` two engines
capture at once, one place in the channel makes the second page a deferred one,
and the third URL is still undispatched when the signal comes. The bounds that are
counters (`MaxFaults`, `MaxReruns`, `MaxRuns`, `MaxLines`, `MaxClock`, `MaxGets`)
appear only in guards of the environment or of the caller, never of the code.

What a bound on faults cuts off is a chain longer than it, and a liveness property
shows nothing of it. So these runs were also finished with larger bounds than they
keep: `items_faults` with 6 faults and 2 runs that do not resume (2,636,009 distinct
states), and over the two result lists with 4 faults (1,772,717); `batch` with 4 faults
and tails inside UTF-8 (43,387); `store` with 2 faults (413,531); `crawl` with 3 faults
in one run (1,451,647).

Distinct states: `items_exactly_once` 10,047; `items_faults` 337,682; `batch` 4,584;
`writer` 65,152; `store` 170,488; `crawl` 648,038; `client` 607,409; `assets`
181,797; `batch_run` 37,867 (`crawl` takes about two minutes,
the others one at most).

Symmetry is used in `client` only: domains and requests are interchangeable and
the run has no liveness property. `writer`, `crawl`, `client`, `assets` and
`batch_run` switch deadlock checking off: there the system may stop, when all
clones are done, when `MaxRuns` runs have ended, when the calls are used up, when
the batch has its exit code. Everywhere else a stop is reported.

`MaxPages` in the crawl is small next to the site on purpose: most of what goes
wrong is at the limit. `Interval` 2 makes the periodic save fall between two
dispatches.

## 4. Fairness

Safety runs use none. Where a run checks liveness:

* Item and batch loops: `WF(Work)`, the process runs on unless killed; and
  `WF(StartRun)`, the user runs the command again. The claim is about rerunning,
  so without the second there is nothing to claim. Faults are bounded by
  `MaxFaults`, and no fairness makes one happen. A cancelled token stays cancelled for
  the rest of its run only; the first half of `EventuallySettled` assumes
  `<>[](~cancelled)`, because a run cancelled before it can repair a page, again and
  again, need not settle it.
* Writer: `WF` of the thread and of calls that have their answer; `SF` of a send,
  because tokio's channel serves waiting senders in turn, so a sender that finds
  room again and again gets it. No clone is obliged to make a further call.
* Store: `WF` of a step within a call; `SF(Acquire)`, because the kernel wakes the
  waiters of a flock and retries are not starved for ever. The repository does
  not state this; it is the kernel's.
* Crawl: `WF` of the loop; `WF` of *some* task, not of each one, because every
  wait of a task is bounded (limiter, fetch timeout) and the loop's own drain
  copes with one that does not end; `WF(Relief)`, memory pressure passes. With
  pressure that stays critical the loop idles by design.
* Batch run: `WF` of the run, of the sink (its writer and the deferred sends are
  tasks of one runtime) and of each URL's task, whose fetch has a timeout. The
  signal has none.
* Assets: `WF` of each call's own steps: requests time out, backoffs end, and the
  ledger's mutex is held for a scan only. Nothing makes a call begin or be dropped.
* Client: no liveness is claimed; a banned domain answers at once.

## 5. Proofs

Checked by tlapm with Z3, Zenon and LS4. Every theorem holds for all values of
the constants that satisfy the named assumptions (`RecordAssumption`,
`SessionAssumption`, `StoreAssumption`, `SchedulerAssumption`, `EngineAssumption`,
`WriterAssumption`, `SinkAssumption`, `BatchAssumption`, `PoolAssumption`,
`ClientAssumption`, `AssetAssumption`), which say no more than what the types of
the code and its clamped configuration say. What a theorem assumes beyond them is
named with it.

**ExportProofs** (item loop, every mode and fault)

* `TypeCorrect`, `DurableRecordsBacked` (`ExportedBacked`). `ExportedBacked` is not
  inductive: a save copies `records` to the store, promotion copies a proof out of
  `index`, the checkpoint relies on the append before it. `IInv` adds that the
  in-memory records are as sound as the durable ones (`Sound`, which also says
  that only exported records carry a hash, so no lower record can prove a flush),
  that the index is backed by the file, that at `checkpoint` the line is there,
  and that a promotion has its proof. One lemma per kind of step.
* `CommittedPagesStay` (`CommittedStays`), for resumed runs with a readable store.
  Needs in addition that a running session holds durably committed records as
  the disk has them (`Synced`), so that its saves rewrite them unchanged.
* `SavedRecordsValid` (`StoreValid`), in every mode but the one that discards earlier
  records. What a save persists is valid because the typed transitions are (`Sound`)
  or because it was valid when loaded; the only way to an invalid record is
  `fail_item` on a committed one, and a session that skips those never does that
  (`CommittedValid`). With `"fresh"` in `Modes` it can (section 7).
* `CommittedPagesHaveTheirLine` (`CommittedHasOwnLine`), in every mode. A page is
  committed by an append, by promotion on a proof in the index, or by an earlier
  run; only the first says by itself whose line it is. Hence the hypothesis that no
  content is shared by two pages (`OnePageEach`), given as an owner for each content,
  and `OInv`: batch, file and both record maps respect the owner. With shared content
  a page is committed on another's line (section 7).
* `DrainIsHonest` (`DrainHonest`), `NoLineTwice` (`NoDuplicateLine`) and `ItemsExportOnce`
  (`ExportsOnce`: ExportItems implements ExactlyOnce), for resumed runs in which no
  append fails and no item is rejected (`NoItemFails`). `CInv` says what the map of such
  a run looks like: exported or committed records only, none failed. `DInv` adds that
  each line of the file is in the index or was appended by this run (`Accounted`), so
  that a page that is driven has no line. For the refinement an append is an `Export`
  and a save is a `Commit` of the pages it makes durable, several at once when earlier
  saves failed; `MigratedDone` keeps the pages of a v1 file among those done.
  Each hypothesis is there because dropping it has a counterexample: a failed item that
  is killed later is appended twice (`v_failed_then_killed`), a tail cut inside a UTF-8
  sequence empties the index (section 7), and a failed load un-commits pages, which
  leaves `NoLineTwice` true but not the refinement (`"load" \notin Faults` there).
* Proviso of all: an interrupted write never leaves a whole object without
  its newline (`"unterminated" \notin TornKinds`). It is needed, see section 7.

**BatchProofs** (chunk loop, every mode and fault)

* `BatchTypeCorrect`, and `CommitsFollowTheFlush` (`BatchFlushed`: in the commit loop
  every chunk to be committed has its line), provided no chunk fails
  validation (`BadHashes = {}`), which is needed (section 7).
* `ChunkRecordsValid` (`StoreValid`), without any hypothesis: the batch loop decides
  once and fails no single item, so no step of it fails a committed record.
* `ChunkRecordsBacked` (`ExportedBacked`) and `NoChunkTwice` (`NoDuplicateLine`), for pages
  of any number of chunks. A record has one hash and a page many chunks, so the
  record of one chunk answers for all of them: `BInv` says that a record with a hash
  is that of a page *all* of whose chunks are in the output, and that the decisions
  of a batch are the same for all chunks of a page as far as skipping goes. This needs
  that a page is split alike in every run (`ChunkedAlike`) and that its chunks pass
  validation; a page chunked anew is a counterexample without it (section 7).
  `NoChunkTwice` is for resumed runs and, like `NoLineTwice`, excludes tails cut inside
  a UTF-8 sequence.

**RecordStoreProofs** (any number of sessions, keys, stamps and faults; any first file)

* `TypeCorrect` (`Bookkept`).
* `LiveTempFilesStay` (`RenameFinds`), `BackupComesFirst` (`BackupFirst`),
  `AcknowledgedSavesStay` (`Acknowledged`) and `StoreIsAtomic` (`AtomicTransactions`:
  RecordStore implements AtomicStore). One invariant carries all four, a part per
  session: `Exclusive` (whoever is inside a transaction has the lock, and its temp
  file is there), `Prepared` (what is about to be written is the merge of what the
  session holds over what is *still* on disk; in a migration it is the v1 file's
  own records, and the backup exists) and `Saved` (only a call that is over is a
  success, and then the file covers what the session holds). `Prepared` is where
  the lock matters: nothing can have changed the file since the read. For the
  refinement a rename is a `Publish`, except that of a migration, which changes
  nothing a load would see; reading at open is `Begin`, forgetting is `Forget`.
* `StaleCopiesYield` (`StaleCopyYields`), when stamps do not tie (`Ties = FALSE`) and no
  file found at the start bears a stamp from the future. `SInv`: all copies of a page's
  record, in memory or on disk, are told apart by their stamps (`Apart`), and the copy of
  a page the session did not touch is what is on disk or older (`Untouched`). A publish
  by another session keeps this because it either keeps the record or puts one with a
  later stamp in its place. Its step lemmas go by effect: a step of a session reads
  (`Reads`), publishes (`Publishes`) or stamps (`Stamps`). With `Ties = TRUE` it is false.

**CrawlProofs** (any site, canonicalisation, budget, limit, runs and faults)

* `BudgetAlwaysKept`. `BudgetKept` is not inductive: a task may count its page at
  any time. `Allowance` reserves a page for each task that may still count one;
  it survives a dispatch because of `Looked` (between the second look at
  `max_pages` and the dispatch only tasks that give up their reservation can have
  counted) and of `Slots` (they still hold their slots). Without the second look
  of issue #590 `Looked` fails, and so does the run's mutant.
* `PagesFetchedOnce`. Needs `Owned`: a task's page was dispatched by this run, is
  not in the checkpoint, and no other visited URL spells it; and `Fetches`: what
  was fetched is visited, and who waits for a permit was not fetched.
* `TypeCorrect` (`TypeOK`), for which the priority order is given by rank rather than
  by sorting: in a queue with one entry per page (`Distinct`) no two entries have the
  same rank, and by counting every place is taken (`Ordered`).
* `DiscoveredIsKept` (`NothingForgotten`).
* `DeletionMeansDone` (`DeletedOnlyWhenDone`). The danger is a task that pushes after
  the loop's last drain. `Served` follows the rounds of the loop: when the queue may
  hold something, a task is still unjoined or work is pending, so another round, with
  its drain, will come. `Resolved`: tasks are lost only after a signal or at
  `max_pages`, and neither lets the checkpoint go.

**WriterProofs** (any clones, channel and lines)

* `TypeCorrect`, `LinesKeepOrder` (`OrderKept`) and `FlushIsBarrier` (`FlushBarrier`).
  The file alone says too little: the invariant also follows what is accepted but
  still queued, and what each queued flush will acknowledge.

**BatchRunProofs** (any pages, permits and buffer)

* `SpoolIsComplete` (`SpoolComplete`), `CapturedPagesKept` (`DrainKept`) and
  `SuccessHidesNothing` (`SuccessIsHonest`). What was captured is always split,
  without overlap, among spool, channel and deferred sends as long as the writer
  runs; the writer is done only when the last two are empty, and from then on the
  spool stands still while it is read.

**ClientProofs** (any domains, slots, delays, retries and callers)

* `TypeCorrect`; `CooldownStaysBounded` (`CooldownBounded`), from the arithmetic of
  cap, jitter and stagger; `BansHold` (`BanHolds`), which rests on
  `MaxCooldown <= Ttl`: an expired failure cannot carry an open deadline, so the
  TTL never lifts a ban; `SendsStayBounded` (`SendsBounded`), from a ledger of the
  three budgets (`Budget`).
* `MapStaysBounded` (`MapBounded`). How many domains a call will evict was fixed when it
  counted, so what it leaves depends on who came after: `CapInv` carries, for each
  call, the set `later` of those that began to enforce the cap after it had counted. The
  map less the call's own excess (or victims) exceeds the cap by at most the size of
  that set. So when a call is through, the calls in its set, still at work, account
  for what is left over the cap, and when the last one is through nothing is.
* `PoolAssumption` has `MaxCooldown <= Ttl`, the relation of the defaults. It is no
  clamp of the code: a configuration with a shorter TTL, like the test's at
  `session_pool.rs:694`, lies outside, and there a banned entry heals before its deadline.

**AssetProofs** (any calls, URLs, capacity and retries)

* `TypeCorrect`; `ExcessNeverUnderflows` (`ExcessFits`): whoever waits for the
  ledger saw an excess, and evictions leave at least the capacity; `EntriesStayTracked`
  (`EntriesTracked`); `FilesStayIntact` (`FilesIntact`), provided names tell contents
  apart (`NamesTellContents`), which naming by hash does and naming by slug does not.

TLC checked every invariant of this section on instances before it was proved, and
the cfgs of section 3 meet the hypotheses of the theorems where their properties are
run: `items_exactly_once` those of `ItemsExportOnce`, `store` those of `StaleCopiesYield`,
`batch` those of `NoChunkTwice`; `items_faults` has no `"fresh"` run.

Model-checked only: the liveness properties (`EventuallySettled` of the item loop,
`EventuallyCommitted` of the batch loop, the three `CallsReturn`, `RunEnds`, `RunsEnd`), since fairness and ENABLED are out of the prover's
reach. Every safety property of a passing run is proved. The type invariants of
RecordStore, JsonlWriter, AssetDownloader, HttpClient and ExportBatch are proved and
not run.

## 6. Abstractions

* A line is its URL and content hash, a page a set of links, a record the fields
  the D2 table and `decide` read. URLs are model values with a canonical form.
* Opening the JSONL file, cutting its tail and building the hash index are
  actions of the export modules; the writer module starts with an open file.
* `Push` enters the seen set and the heap in one step: only pushes read the set.
* A checkpoint save is atomic or fails (temp file, fsync, rename); the CRC header
  and version gate are left out: a file they refuse counts as none.
* Left out of the crawl: robots and URL filters (`Links` are what they allow),
  redirects, banned domains and cookies (recorded, not read by the loop), a
  panicking task, and `cancel_handle`, fired by tests only.
* `RecordStore::save` is not modelled: production uses `update`. The envelope's
  `domain_key` and `created_at` are left out. `load` and `update` hold the lock
  from before the read to after the rename; without a file `load` never locks.
* In the export models, cancellation is given to runs with a ResumeContext only,
  since it is the context that carries the token.
* One export process at a time in the export modules; several in RecordStore.
* Batch: one job per process, as the command line makes it; the engine of a URL is
  reduced to its capture and its end; pages are their places in the list.
* Pool: times are small integers, jitter is any value of its range, a scan may find
  any slot available, since it starts at one hashed from the clock.
* Client: delays, headers and bodies are left out, the WAF verdict is a choice.
* Assets: `download_batch`, the unbounded cache, a poisoned ledger, names and the
  temporary file of a download that ended early are left out.

## 7. Where code and documents disagree

Each with a run that TLC must find violated:

1. `v_failed_then_killed`: an item that failed once, was appended by a later run,
   and whose run was killed before the checkpoint is appended again. A failed
   record has no hash, and `decide` does not fall back to the fresh one.
   `docs/persistence-resume.md:29` promises no duplicated exports.
2. `v_stuck_exported`: resumed runs only, three faults. A page's line and EXPORTED
   checkpoint are saved, its COMMITTED save is lost; a kill in the next append leaves a
   tail inside a UTF-8 sequence, so the next run has no index and drives the page again;
   a result of it that fails validation makes `fail_item` mark the EXPORTED record,
   and a kill keeps its other result from being appended (a failed append alone does
   both). Meanwhile the tail was cut, so the index is whole again, and every later run
   promotes the page (`export_factory.rs:255-258` keeps `last_error`) and none commits
   or exports it. `docs/persistence-resume.md:126-127` calls line + EXPORTED checkpoint
   "recovered by flush-proof promotion". `EventuallySettled` says that
   without such a tail every page ends up committed, and with one committed or stuck so.
3. `v_second_connection`: a download's entry is in the map before its in-flight mark
   is set, and the mark is one for all callers; another call evicts the entry, and
   the next caller opens a second connection, which `mod.rs:511-513` excludes.

Seen while modelling, and reproducible by changing constants of a run:

| Behaviour | To reproduce |
|---|---|
| Migration files v1 URLs under their raw spelling; a page with a `www.` host, a query or an index path is not found under its canonical key and is exported again. | a run of MCExport with `Keys` the URLs, `Canon <- MCCanonUrl` and a v1 file that lists the page as `aw`: `LegacySkipped` |
| A page is visited when handed out; a signal then cancels its task; the checkpoint calls it visited, and no resumed run fetches it. | `crawl.cfg` with fault `"signal"` only: `InterruptedLeftOver` |
| The export phase's outcome is dropped: a batch may exit 0 with nothing exported; a URL whose task ends without a page (seed excluded, cancelled, aborted) counts as succeeded, against `processor.rs:297-298`. | `batch_run`: `SuccessMeansExported` |
| The sink's header gives a peak of buffer times page size; deferred sends have no bound. | `batch_run`: `MemoryBounded` |
| Two downloads of different bytes under one slug choose the same path, and the second rename replaces the first file. | `assets` with `Urls = {u1, u3}`, `FileName <- MCSlugName`: `FilesIntact` |
| A whole object without its newline is indexed, then truncated by the exporter: a page is promoted on bytes that go. | `TornKinds = {"unterminated"}`: `ExportedBacked` |
| A tail that ends inside a UTF-8 sequence empties the hash index: pages appended but not recorded are appended again. | `TornKinds = {"codepoint"}` in `items_exactly_once`: `NoDuplicateLine` |
| A page without a record is promoted by its content hash alone, also when another page wrote it (`export_factory.rs:1153` calls the dedup key "never content alone"). | two pages of one content: `CommittedHasOwnLine` |
| With `with_resume(false)`, `fail_item` on a COMMITTED record makes one the next load refuses. | modes with `"fresh"`, fault `"write"`: `StoreValid` |
| With `with_resume(false)` an EXPORTED record gets stuck as in 2 without any such tail, since every page is driven. | the same modes, `TornKinds = {"cut"}`: `EventuallyCommitted` |
| A chunk that fails validation is filtered from the batch append but committed by the commit loop. | `batch` with `BadHashes = {h2}`: `BatchFlushed` |
| A page chunked anew is promoted on the proof of another chunk. | batches `<<a h1>>`, `<<a h1, a h2>>`: `ExportedBacked` |
| Two sessions in one millisecond: a stale copy, which only "observed" it, replaces the other's record (the rule is documented, `export_factory.rs:408-410`). | `Ties = TRUE` in `store`: `StaleCopyYields` |
| An append accepted behind a queued shutdown reports Ok and is dropped. | in JsonlWriter, `disk` falls short of `accepted` after `exit = "ok"` |

And by reading.

* Crawl and export: the bounded frontier drops pages a resumed run could reach
  (`checkpoint.rs:153` says nothing is dropped); restored entries start at depth 0,
  so a resumed crawl goes deeper than `max_depth`; `pages_crawled` is not restored;
  `Reduced` pressure with a limit of 1 means 0; a page keeps the depth it was first
  found at; production never calls `observing_cancel`; a load fault followed by a
  failed export can put a failed DISCOVERED record over a COMMITTED one; a corrupt
  store makes every update of the run fail; a second `close()` of a JSONL session
  returns Ok before the first one's drain is over.
* Sessions and HTTP: the container gives its `HttpClient` a default pool
  (`container.rs:605-607`), but crawls do not go through that client: the pool of the
  crawl path is only acquired from and told of successes, and nothing calls `evict_stale`; a late success lifts
  a ban; a second ban at the cap can end earlier than the first, by jitter; a slot
  that retired becomes banned again by a late failure; a 2xx body met in the retry
  loop is neither capped nor inspected (`retry.rs:136-140`); the flag of
  `retry.rs:79-81` is stale when a timeout is followed by a 503; one call sends up to
  `3 * max_retries + 2` requests (`client.rs:249-252`: "exactly what the operator
  asked for").
* Assets: ledger keys that are gone count as evictions, so a scan may leave the cache
  over its capacity; a failed stream leaves its temporary file; an evicted asset is
  fetched again, although `mod.rs:443-446` says at most once.
* Batch: a cancelled batch with an empty spool exits `NetworkError`
  (`orchestrator.rs:991-992` says cancellation comes first); the spool stays when the
  flush fails or nothing was captured; two batch processes in one directory share
  `.webfang-batch-capture.jsonl`; progress counts ended but unjoined tasks as running.
* Downloader routing: after a first 403, a 429 or 5xx under the rotated user agent is
  repeated without backoff; the hybrid route takes no permit of the governor; the full
  route looks at the memory before it waits for its permit.

## 8. Plan

In order, what comes next and what it is to show:

1. Proofs: a weaker form of `NoLineTwice` for runs in which appends may fail, which says
   which lines can be there twice; ExportBatch as an implementation of ExactlyOnce.
2. The hazards without a property: a checkpoint written while tasks are in flight, and
   v1 records under raw URLs.
3. The vector exporter as a second exporter of ExportItems, which rewrites its
   output as a whole.
4. The governor's permits and the routing between the downloaders, as a refinement of
   the fetch that CrawlEngine takes in one step.
5. SQLite result repository, Elastic bulk retry and the MCP server's shared state, as
   far as they have protocols of their own.
