# A specification of AegisArchive

AegisArchive is a web archiver. A browser console crawls politely and a local
Python *station* keeps what was captured in an archive folder on a USB drive
or a disk. These modules model the parts of it whose correctness depends on the order
of events: what is on the disk after a crash, who may write, which message
arrives when. They are TLA+ modules checked by TLC on small instances, and
theorems checked by TLAPS for all values of the constants.

## 1. Inventory

| Part | State it keeps | Operations | What is hard | What makes it correct |
| --- | --- | --- | --- | --- |
| USB archive store, `cli/usb_archive.py` | archive folder: two partial files, `checkpoint.json`, orphan files, receipt, `.writer.lock`; in memory: a session with sizes, running hashes, generation, lease | start, chunk, checkpoint, reopen, finalize, suspend, close, discover | crashes and power losses between disk steps, failed steps, two processes, stale leases | acknowledged bytes and checkpoints survive; one writer; a receipt is final |
| Capture bridge, `cli/capture_bridge.py` | the capture session, its stop flag and lock, `native-pacing.json` | configure, fetch, stop, recover, reopen | threads: a request in flight while another page stops, recovers or reopens | one source request at a time; a Retry-After is not forgotten |
| USB streamer, `web/lib/native_capture.js` | offsets, lease, generation, failed | init, reopen, writeChunk, checkpoint, finalize | lost requests, lost replies, late requests, reloads | no chunk twice, none missing |
| Core crawler, `web/lib/core_crawler.js` | queue, visited, outcomes, robots rules, run flags | start, loop, processUrl, retry, pause, resume, stop, export and import | awaits between reading and writing the frontier; storage that fails; reloads | no URL lost or doubled; checkpoints that can be resumed; robots.txt kept |
| Politeness engine, `cli/politeness.py`, `web/lib/politeness_engine.js` | tokens, next slot, circuit breaker, cooldowns | acquire, record success and failure, export, restore | a clock that is set back, restored waits, several callers | never sooner or more often than allowed |
| Debug journal and recorder, `cli/debug_journal.py`, `web/lib/debug_recorder.js` | queue, frozen batch, sequence; per client the next sequence and the last batch | open, record, flush; start, batch | lost and late requests, full queue, a file that fails | each event once and in order, or counted in a gap |
| Job store and mirror checkpoint, `cli/jobs.py`, `cli/durable_job.py`, `cli/mirror_checkpoint.py` | one row for each job: state, lease; segment files, checkpoint | start, transition, acquire, release; append, save, load | several workers; read and write in separate statements; power loss | workers overlap, and the checkpoint stops loading, for known causes only |
| Headless crawl, `cli/aegis_cli.py`, `cli/retry_policy.py` | queue, visited, outcomes, edges, limits, WARC | the loop, requests, redirects, sitemaps, retries, receipt | every way to fail; headers that lie; cycles | the receipt enumerates what is archived; the rules are kept; it ends |
| Crawl rules and report, `cli/crawl_rules.py` (and `web/lib/crawl_rules.js`, `web/reports.html`) | none | evaluate_rules, preview, discover_sitemap, build_report | rules decided before all metadata are known | a decision is final; totals reconcile |
| Document catalogue and search index, `portable/document_catalogue.py`, `portable/document_search.py` | sources, revisions, heads, receipts, handling, retention, derivatives, text index | register, set_handling, flag, set_retention, remove, open; add | triggers that act on one another; another connection between read and write | what was denied is never served; the index has just what may be found |
| Model cache and native bundle, `portable/provision_models.py`, `provision_native.py`, `provision_speech.py`, `prefetch_bash.py`, `packaging.py`, `native_qualification.py` | pinned files with `.part` and `.part.invalid`, receipts; archives, packages with manifests, the qualification report | provision, acquire, stage, audit; build, assemble, relocate, qualify, retain; restore, purge, verify, smoke | files that were damaged or cut short; kills between disk steps; reports of earlier runs; full disks | only locked bytes are published and certified; inference is claimed only when it was tried |
| Others, see section 14 | | | | |

The console (`web/index.html`) creates a streamer and a crawler, and calls the
station over HTTP (`capture_bridge.handle`). The bridge owns the store and the
capture session. The crawler writes WARC records through the streamer to the
store, and fetches through the bridge. After each URL it saves its recovery
state with `archive-checkpoint`; after a reload the console discovers that
checkpoint and reopens the archive from it.

## 2. Modules

| | Modules | Composes | TLC | TLAPS |
| --- | --- | --- | --- | --- |
| 1 | `UsbArchiveStore`, `CheckpointRegister` | store processes, disk; the register is their abstract specification | faults at each disk step, refinement | all safety properties, the refinement |
| 2 | `UsbStreamer` | pages, network, store at the level of calls | fencing of late calls, every call settles | all safety properties |
| 3 | `CaptureBridge` | bridge threads, store session, pacing journal | one request in flight, every call ends | all safety properties |
| 4 | `CoreCrawler` | crawler, page, archive, recovery checkpoint | frontier, robots.txt, the crawl ends | all safety properties of the runs |
| 5 | `Politeness` | engine, callers, clock | waits, rates, slots of several callers | all safety properties |
| 6 | `DebugJournal` | recorder, network, journal file | each event once, and in the end | all safety properties |
| 7 | `DurableJob` | workers, database, checkpoint files | what overlapping workers, and a checkpoint that does not load, can come from | all safety properties |
| 8 | `HeadlessCrawl` with `CrawlRules`, `CaptureReport` | crawl, rules, report | frontier, receipt, rules, the crawl ends | all safety properties, the rules |
| 9 | `DocumentCatalogue` | catalogue, triggers, search index | what may be found | all safety properties of the runs |
| 10 | `ModelCache`, `NativeBundle` | downloads, receipts and audit; build, packages and trial on top of them | damaged and partial files, faults, kills, stale reports | all properties |

A module `MC...` has the definitions that its `.cfg` files need, a module `...Proofs` the
theorems. `PacingJournalProofs` has those of 5 and of 6, `PortableProofs` those of 9 and of 10; they have nothing in common.

Every invariant and action property that a run checks and expects to hold is also a theorem.
Some theorems state properties that no run checks any more: `SizeCheckSuffices`,
`RefusalsAreFencing`, `TrippedRests` and `JournalIsUnbroken`. Model-checked only are
the liveness properties (`CallsSettle`, `CallsEnd`, `CrawlEnds` twice, `EventsAreSaved`), since the prover
does not do fairness and `ENABLED`, and the properties of further configurations that section 13 names.

Where two modules speak of the same thing, the more abstract one says so: `UsbStreamer`
serves a call of the store in one step, `CaptureBridge` has of the archive only its lease
and journal, `CoreCrawler` has of the archive the set of URLs in it, and of pacing that it
ends. What the lower module guarantees is what the upper one uses: a checkpoint that is
acknowledged stays and describes bytes that are there (`UsbArchiveStore`,
`CheckpointsFormARegister`), with the writer's state of those bytes (`UsbStreamer`,
`CheckpointsRestorable`); therefore `Reload` of `CoreCrawler` may set front and archive back to
one saved moment.

The limits of the instances are chosen so that each run ends within a few minutes and every
action fires. Safety properties that are proved hold beyond them.

## 3. The archive store

`UsbArchiveStore` models one archive folder and the station processes
(`Stores`) that can have it open.

*State and code.* `file`, `name`, `ckpt`, `orphans` and `receipt` are what the
program sees of the folder; `fileD` and `dirD` are what is on the medium, the
former moved on by `fsync`, the latter by `sync_directory`. `flock` is the
holder of `.writer.lock`. `status`, `hashed`, `generation`, `profile`, `lease`
and `requireLease` are the item in `UsbArchiveStore.sessions`; `hashed` stands
for the running hash, the size and the last chunk, all of which are functions
of the bytes accounted for. `pc`, `req`, `meta` and `done` are the locals of
the operation that holds the store's lock: one per process, since every
operation runs under that lock. `acked`, `confirmed` and `delivered` are history
variables: what clients were told.

*Actions.* An operation is cut where another process, a crash, a power loss or an
OSError can see it half done: `ChunkWrite`, `ChunkSync`; `CheckpointVerify`,
`CheckpointReplace`, `CheckpointSync`; `ReopenVerify`, `ReopenCopy` for each
kind, `ReopenSyncOrphans`, `ReopenTruncate` for each kind, `ReopenReplace`,
`ReopenFinish`; `FinalizeBegin`, `FinalizeRename` for each kind,
`FinalizeReceipt`, `FinalizePublish`. `ChunkRetry`, `ChunkStale` and
`FinalizeStale` are the branches of chunk and finalize that do not advance.
`OsError` fails whatever step is next, and does what the `except` clauses do.
A call the code refuses without changing anything is not an action.

*Abstractions.* A chunk is one unit of length, so that an offset counts chunks;
`Torn` is what an interrupted write leaves. A hash is the bytes it hashes. A
lease is a number from a counter, since two random tokens of 256 bits differ.
Temporary files, and an orphan or receipt file whose creation was cut short,
are left out: no operation reads them. Creating a file counts as
durable together with its first `fsync`.

*Faults.* A crash ends one process and leaves the visible disk. A power loss
ends all of them; each directory entry changed since the last
`sync_directory` and each byte since the last `fsync` is there or not,
independently. On Windows `sync_directory` does nothing (line 137): the
mutant `SyncDirectoryNoOp` shows what that may cost.

### Runs

| Run | Instance | Shows |
| --- | --- | --- |
| `store` | two processes, one power loss, one crash, one OSError, two payloads, two WARC chunks and one CDX chunk, two generations, two leases | `RecoverableCheckpoint`, `AckedBytesSurvive`, `ReceiptMatchesArchives`, `LeaseFencing`, `ImplementsRegister` |
| `store_receipt_lost` | one power loss | violation: see finding 1 |

The bounds leave room for what matters: two sessions of one archive, a tail
after a checkpoint that a reopen has to copy and truncate, a second reopen
attempt after one that failed between any two of its steps, a power
loss in a state that an OSError had already made irregular. Stores and
payloads are symmetric: no action names one of them. The runs set `CHECK_DEADLOCK FALSE`:
once the faults, leases and generations of an instance are spent and the archive is
finalized and suspended, nothing is left to do.

`CheckpointRegister` is the abstract specification of checkpoint and reopen: a
register that is only replaced by a newer checkpoint that covers its bytes,
and of which only a stored value is acknowledged. `ImplementsRegister` states
that the store implements it with `stored <- dirD.ckpt` and
`promised <- confirmed`, faults included.

### Proofs

`UsbArchiveStoreProofs` proves for all values of the constants:
`TypeCorrect`, `CheckpointIsRecoverable`, `OnlyNewestLeaseWrites`,
`SizesIdentifyContents`, `AckedCheckpointsStay`, `AckedBytesStay`, `ReceiptsMatch` and
`CheckpointsFormARegister`. They rest on `BoundsAssumption` (bounds are natural
numbers) and `NullsAssumption` (the null values are not in the sets they
complete), nothing else.

None of these properties is inductive. `IInv` adds what the code relies on
between two steps: a live session or an operation in progress has the
writer lock (`LockInv`); from the oldest checkpoint that a power loss can
leave, over the visible one and the durable bytes to the visible bytes, each
extends the one before (`DiskInv`); what an operation has already established
at each of its steps (`OpInv`); a writable session knows at least the bytes in the
file, and more only after a reopen that truncated and then failed
(`SessionInv`); no checkpoint on disk is behind the one acknowledged
(`ConfirmedInv`); and after the receipt nobody is in a step that writes
(`ReceiptInv`). Each part has a lemma with one step for each action;
`Invariance` puts them together.

`AckedBytesStay` needs a second invariant, `AckInv`, beside `IInv`: what was acknowledged is
durable, in the archive or in an orphan file (`Spilled`), and while a reopen is
under way, in what the reopen does not take away. Three points of `reopen` carry it, each
a lemma of its own: an orphan file has all of the tail before the next kind is copied (`CopyStep`),
the directory is synced before anything is truncated (`SyncOrphansStep`), and what is
truncated is then covered by files that a power loss cannot take (`TruncateStep`). All other steps
only make files, orphans or the committed prefix longer (`QuietStep`).

`FinalizedNeverReopens` does not hold with power losses, as finding 1 says.

## 4. The streamer

`UsbStreamer` models one archive as the browser sees it: pages that write it
through an `UsbArchiveStreamer`, the network between them and the station, and
the station at the level of calls. `UsbArchiveStore` has the disk steps below a
call; here a call is served in one step, and the disk only shows in what an
OSError leaves behind.

*State and code.* Of a page: `offsets`, `lease` and `generation` are the fields of
its streamer, `written` is what its crawler gave `writeChunk`, `closing` says
that `finalize` is under way, `call` is the payload of the last call and `phase`
is where the page is in its code: it has no archive, is between two calls, waits
for one, has failed (`streamer.failed`, or the crawl that saw the error) or has
a receipt. `net` is what was sent and not served, `reply` what was answered and
not read. Of the station: `stored`, `ckpt` and `receipt` are the folder, `hashed`,
`current` and `open` are the session; `issued` counts leases, of which the
newest is the one `check_lease` accepts.

*Actions.* The page: `AppendRecord` (`appendRecord` up to its first chunk),
`BeginFinalize` (up to the CDX text), `SendChunk`, `SendCheckpoint`,
`SendFinalize`, `SendReopen`, `Receive` with the checks each method makes on a
reply (`Accept`), `Reload`. The network: `ConnectionLost` (a connection breaks: the
request or its reply is lost, or it is served when nobody waits),
`ConnectionClosed` (the station that had the request is gone); both repeat a
chunk once, as `writeChunk` does, and fail every other call. The station:
`ServeChunk`, `ServeCheckpoint`, `ServeReopen`, `ServeFinalize`, with
`StorageFault` and `ReopenFault` for the same calls when they end in an OSError,
and `Restart`.

*Abstractions.* A chunk is one unit, a record a sequence of them. The writer's state
is the WARC bytes it has counted. A lease is a number from a counter. The hash
of the crawl profile is left out: every page resumes the profile it discovered.
`discover` reads the folder in one step. A page that was reloaded has no memory but
what the checkpoint gives it. `refused` stands for a ValueError of the station and
`failed` for an OSError: the page treats the two alike, `RefusalsAreFencing`
does not.

### Runs

| Run | Instance | Shows |
| --- | --- | --- |
| `streamer` | two pages, one connection fault, one OSError, one restart, records of one and two chunks, two generations, two leases | `ExactlyOnce`, `CheckpointRestorable`, `ReceiptIsWhole`, and `CallsSettle` under `FairSpec` |

One connection fault loses a request or a reply, or lets it arrive late; a restart and an OSError
are faults besides. Two connection faults, which lose both attempts of a chunk, are the matter of
the theorems below. Two leases are a session and the one that replaces it
while calls of the first are still in the network. A record of two chunks
leaves a page in the middle of a record. No symmetry is used, since the run has liveness. It sets
`CHECK_DEADLOCK FALSE`: a page that has its receipt need not do anything more.

*Fairness.* `CallsSettle` assumes that the station serves a request of a page that waits
(a thread for each request, `ThreadingHTTPServer`), that the system closes the
connections of a station that died, and that a page handles a reply (the
promise is resolved). Nothing is assumed of what a page does next, of requests nobody
waits for, or of faults.

### Proofs

`UsbStreamerProofs` proves for all values of the constants `TypeCorrect`,
`StoredExactlyOnce`, `CheckpointsRestorable`, `OwnersNotRefused`, `FinishedIsWhole`
and `ReceiptIsFinal`, from `StreamerAssumption` alone: the records and CDX texts
are sequences of chunks, records are not empty, and bounds are natural numbers.

The properties speak of the page and the files; between the two lie requests and
replies. The invariant `IInv` says what each of them may be: one page at most has
the newest lease or a reply that gives it (`LeaseInv`); what a page has written,
sent and waits for fit together (`WriteInv`, `CallInv`); a page has one request
or one reply (`NetInv`), and a reply fits its call and the session (`ReplyInv`,
`RefusedInv`); what is stored is a prefix of what the holder of the newest
lease wrote (`StoredInv`), the checkpoint is a prefix of what is stored
(`PrefixInv`), and what an open session accounts for lies between the file and what the
holder wrote (`SessionInv`); a chunk request with the newest lease, even if nobody
waits for it, is older than the holder's call or is that call (`ChunkInv`), and
a checkpoint request counts just the bytes of the session (`CheckpointInv`);
an open session has the holder's generation (`GenerationInv`), and no
session is open beside a receipt (`SealedInv`). Each part has a lemma that every
step preserves it; the station's actions enter these lemmas by what they do to the
files (append, nothing, publish, reopen, cut back, finalize), so that a call and
its OSError use one argument.

`CallsSettle` is liveness and stays with TLC.

## 5. The capture bridge

`CaptureBridge` models the request threads of one station process, and the process that
is started after it, with one archive. It begins after `archive-start`. The archive
appears as the bridge sees it, by its lease and by `native-pacing.json`; `UsbArchiveStore`
has the rest of it.

*State and code.* `bridgeLock` is `bridge.lock`, `session` is `bridge.session`; `stop`,
`lock`, `bound` and `engine` are the fields `stop`, `lock`, `archive_lease` and
`engine` of each session ever configured, since a thread may still have an old
one (`at`, the local of `fetch`). `pc` is the place of a thread in its call, `round` says
whether `fetch` is in its `except` clause. `archive`, `issued` and `saved` are the status,
the newest lease and "the generation is above 0" of the item in the store;
`journal` and `journalD` are the pacing journal, visible and on the medium.
`told`, `reported` and `settled` are history: what a source asked for, what the
page was told after that, and whether a `recover` has returned.

*Actions.* `configure` is `ConfigureBegin` (the lock), `ConfigureSettled` or
`ConfigureTimeout` (the wait for the old session's lock), `ConfigureBind` or
`ConfigureRefused`. `recover` and `reopen_archive` are `RecoverBegin`,
`RecoverSettled` or `RecoverTimeout`, and `Rotate` for reopen. `fetch` is cut where
another thread gets in: `FetchBegin` (`get_session`, no lock yet), `FetchEnter` (the
session's lock and the checks under it), `FetchPermitted` (the wait in
`acquire_permission`), `FetchSend`, `FetchRefused`, `FetchAnswered`, then
`persist_pacing` as `PersistReplace` and `PersistSync` or `PersistNothing`, and
`FetchReturns`. `PersistFails` and `BodyFails` lead to the `except` clause, which
persists once more. `Close` sets the flag without any lock, `Checkpoint` and
`CloseArchive` are what other calls do to the archive, `Crash` and `PowerLoss` what happens
to the process.

*Abstractions.* What sources asked for is a count: the n-th Retry-After is n + 1, and
an engine that knows it knows those before it. Sources of sessions without an archive
are not counted, since nothing is kept for them. A response that is
recorded as a failure is persisted twice on the way to the page, with the same contents:
the model has one of the two. Waits are not timed, and a timeout may come
whenever what is waited for has not happened. The store's own lock is left out: nothing
waits while it holds it. Rule, URL and header checks, which refuse a call
before any lock, are no actions, and logs are only a reason why a step may fail.

### Runs

| Run | Instance | Shows |
| --- | --- | --- |
| `bridge` | two threads, two sessions, two leases, one Retry-After, one OSError, one crash, one power loss | `OneSourceRequest`, `RequestsAreOwned`, `QuietAfterRecover`, `ReportedIsDurable`, `RequestsArePaced`, and `CallsEnd` under `FairSpec` |

Two threads are a request in flight with a session that is stopped meanwhile, and one
that recovers, reopens or configures the next session. More threads and sessions are the matter
of the theorems below. The run sets `CHECK_DEADLOCK FALSE`: when the sessions of
the instance are used up and all threads are between calls, nothing has to happen.

`QuietAfterRecover` is stated for `recover`, not for `close`: a `fetch` does not
look at the flag again after `acquire_permission`, so that one request may
still be sent after `stop` has been answered.

*Fairness.* `CallsEnd` assumes that a thread that waits for no lock runs on: a wait
for permission ends, as does the exchange with a source (`timeout=30`), and the wait for
an old request (`timeout=35`). Nothing is assumed of who gets a lock.

### Proofs

`CaptureBridgeProofs` proves for all values of the constants `TypeCorrect`,
`OneRequestAtATime`, `OwnersRequest`, `RecoverSettles`, `ReportsAreDurable` and
`PacingIsKept`, from `BridgeAssumption` (bounds are natural numbers, `Free` is not
a thread). The invariant `IInv` adds: a thread in the middle of a call has the lock of its
session or of the bridge (`LockInv`); only the current session has its lock taken,
and all others are stopped (`CurrentInv`); during `configure`, `recover` and
`reopen_archive` the current session is stopped, and once it has settled, until the
next one begins, nobody has its lock (`QuietInv`); no engine and no file knows
what was never received, and the medium is not ahead of the visible journal (`ToldInv`);
the current engine knows the journal, and a call that has persisted left on the medium
what its engine knows (`JournalInv`). `CallsEnd` is liveness and stays with TLC.

## 6. The crawler in the browser

`CoreCrawler` models `start()` and `processUrl` of one crawl, the page that runs it, and the
pages that resume it.

*State and code.* JavaScript runs one thread, so a step ends where the code awaits; `pc` is
the await it is at: `loop`, `robots` and `robots_txt` (`isAllowedByRobots`), `gate`
(`acquirePermission`), `transport`, `archive`, `checkpoint`, `final`. `front` is what
`exportRecoveryState` exports: `queue`, `visited`, `resourceOutcomes`, `robotsRules`, and
whether there are limitations. `task` is the task in `processUrl`; `paused` and `stop` are the
flags. `archived` is the set of URLs with a record; `saved` is the last recovery checkpoint with
the archive bytes it was stored with; `receipt` is what `complete` says in the end.

*Actions.* `Start`, `Pause`, `Resume`, `Stop` are the operator, at any await. `Take` is the
head of the loop up to the first await of `processUrl`, with the declining rules; `LoopEnds` and
`Finalize` are its end. `RobotsDecided`, `RobotsAsked`, `RobotsAnswered`, `Permitted`, `Rejected`,
`Fails` (`requeueForRetry`), `Arrives` and `Archive` are `processUrl`. `Archive` has the three
outcomes of what follows the record: all references are queued; a limitation is noted and any of them are queued;
or the target of a redirect raises an error, which retries a URL that is already archived. `SaveCheckpoint` follows each task. `StorageFails` is a write,
checkpoint or finalize that throws: the crawl is over. `Reload` is a new page that reopens the archive at its
checkpoint and imports it.

*Abstractions.* Rules, scope and robots rules are sets of URLs; what the site says is a relation
`Links`. A redirect is a link at the depth of its source. Waiting is not timed: `Politeness` has that.

| Run | Instance | Shows |
| --- | --- | --- |
| `crawl` | five URLs at two origins, depth 1, two retries, two reloads | `NothingLost`, `CheckpointIsSound`, `RobotsAreRespected`, and `CrawlEnds` under `FairSpec` |

The five URLs are a page with a link to itself; one that is too deep as a link and near enough as a
redirect; a declined one; one that robots.txt of another origin disallows. Two reloads resume from a
checkpoint that was itself saved by a resumed crawl. `CHECK_DEADLOCK FALSE`: a finished crawl does
nothing.

*Fairness.* `CrawlEnds` assumes only that the loop goes on: each await is of a request or a wait with a
timeout, or of storage that answers or fails. Nothing is assumed of the operator: a crawl that is
paused and never resumed is excluded by the property.

*Proofs.* `CoreCrawlerProofs` proves for all sites, seeds, limits and numbers of reloads
`NothingIsEverLost`, `CheckpointAlwaysSound`, `CheckpointAlwaysAccepted`, `RobotsAlwaysRespected` and
`TypesAreKept`, from `CrawlAssumption`: seeds are tasks of depth 0 that were not retried, links join
URLs, `Nobody` is not a task. A frontier is called sound if a pending URL is queued or being
processed, a queued URL is queued once and not visited, a visited one has an outcome, and a captured one is in
the archive. That is nearly inductive: `IInv` adds that the task in `processUrl` was visited, is in scope
and within the limits (`TaskInv`), that a request is made only after robots.txt was read and allows it
(`PermissionInv`), and that the frontier, not only the saved one, is one that `importCheckpoint` accepts. For each
operation on frontiers there is a lemma that it keeps soundness (`SoundRequeue`, `SoundEnqueue`, ...) and one
that it keeps the rest (`Fits...`); the steps of the loop then differ only in the operation they use.
`CompleteIsWhole` is model-checked only (`CrawlComplete.cfg`), as is liveness.

## 7. The politeness engine

`Politeness` models `acquire_permission`, `record_success`, `record_failure`, `export_state` and
`restore_state` for several callers, and when `capture_bridge.py` calls them.

*State and code.* `now` is real time, in which sleeps elapse; the engine sees `clock`, which `SetBack`
may set back. `eng` has the engine's fields: circuit, `until` (cooldown_until), errors, the host
cooldowns, tokens (in units of a tick of refill), `refill`, `next` (the next free slot), back-off, and
whether latencies are high. `call` says for each caller at which sleep it is and when it wakes, and after that whether its request is
out, answered, or has counted as a failure. `saved` is the state that was written last.

Four variables are history in real time, which no code reads and no restore puts back; the properties speak only of these:

- `heard`: when the newest Retry-After of each host and the cooldown of the last trip are over, as this process was told;
- `kept`: the latest such moments of all that any process had been told when it saved its state;
- `granted`: the permissions of all processes together;
- `interrupted`: how many of them belong to calls that ended before their state was saved.

*Actions.* `Acquire` runs up to the first sleep; `Awake` goes on from the sleep it is at (circuit, host,
token, slot); `Abort` ends a sleep early. `RecordSuccess`, `RecordFailure`, `RecordOther` are the three
kinds of answers. `Save` is `persist_pacing`, at the end of a call or before its body is read; `EndUnsaved` is a call that ends
without it, since the event before the request cannot be logged or the journal cannot be written. `Restore` is `configure`: at any time a new
engine takes what was saved last, if `restore_state` accepts it, and whoever asked the former engine is cut off.

*Abstractions.* Jitter and decorrelated back-off are any value of their range; the latency
statistics are an arbitrary `strained`.

| Run | Instance | Shows |
| --- | --- | --- |
| `polite` | one caller, one host, real time up to 5, the clock set back by 1, burst 2, tripwire 2 | `RetryAfterIsHonoured`, `RateIsBounded` |

`RetryAfterIsHonoured` says that a request is permitted only after what this process has heard, and after everything that any process had
heard when it saved, whatever state was restored since and wherever the clock is set. What may be lost is what was heard by a call
that ended without a save: by a process that is killed, or finding 4. `RateIsBounded` says that all processes
together are permitted at most a burst, what real time refills, and one request for each call that was cut off before its save. This is what a
restore of an older state could cost; the save after each answer is why it costs no more.

Five ticks hold a burst, a wait for tokens, a trip with its cooldown, and restores in between (2942840 states). The
properties are stated for one caller (each crawl has one engine and one loop): with two, `TrippedRests` does
not hold, since a caller that already waits for its slot is released although another one has tripped the
circuit meanwhile. What the code says of several callers is that they get distinct slots
(`SlotsAreDistinct`): `PoliteCallers.cfg` checks it with two callers, in three ticks that hold two slots reserved behind each
other, one of them after a trip or a restore. `CHECK_DEADLOCK FALSE`: time ends.

*Limits.* The model is of the engine of the bridge, whose state is saved with each answer. The crawler in the browser runs the same algorithm, but
exports it only with a recovery checkpoint (`web/lib/core_crawler.js:257`), so that after a reload it may ask again for what it was
permitted since, and may have forgotten a Retry-After of that time. A session without an archive has no journal; its engine starts afresh.

*Proofs.* `PacingJournalProofs` proves for all hosts, costs, bursts, delays, bounds and clocks that are set back
`PacingTypesAreKept` and `SlotsStayApart`, for any number of callers, and under `OneCaller` (any two callers are the same) also
`RetryAfterIsAlwaysHonoured`, `TripsAlwaysRest` and `RateIsAlwaysBounded`; the paragraph above says why these need it. They rest on
`PolitenessAssumption`.

The difficulty is that the engine promises in its own time and is judged in real time, by a history that a restore does not put
back. The invariant therefore has the
distance `behind` by which the clock was set back: of all that was heard or kept (`Asked`), a wait is over in real time or the engine knows it and its time plus `behind` is late enough
(`Promised`, `Rested`), and tokens that were refilled at a time of the engine are paid for by that time plus
`behind` (`Metered`). The saved state is like that too, for what was kept and for the distance of the moment it was saved at
(`SavedInv`); `Restore` may only move deadlines later and tokens lower, and forgets just what was not kept. Permissions are counted without the calls that were cut off
(`Charged`), and in the saved state also without those that are not yet answered (`Told`). Of a caller, the invariant says for
each sleep what has been waited for already (`HasWaited`): this is what a second caller would break. `SlotsStayApart` needs
only that no slot that is waited for lies after the engine's `next` (`SlotInv`).

## 8. The debug journal

`DebugJournal` models `DebugRecorder` of a page, the network, and `DebugJournal` of the station with
its file.

*State and code.* Of the recorder: `queue`, `batch` (how much of the queue is frozen),
`sending`, `sequence`, `dropped`, and `page` for active and terminal. `requests` has the
batches on their way, those of attempts that were given up too; `reply` is the answer to the newest. Of the
station: `journal` are the rows of this client in the file, `next` and `last` its state of
the client, `known` and `clients` the client table, `failed` the flag of the journal.
An event is its number; a `debug_gap` stands for a number of events.

*Actions.* `Open`, `Record`, `Flush`, `Acknowledged`, `Refused`, `Timeout` are the page; `Store`,
`Repeat`, `AppendFails` are `batch`; `Restart` is a new station with a new file, which forgets its clients.

| Run | Instance | Shows |
| --- | --- | --- |
| `journal` | seven events, a queue of three, batches of two, three faults | `NothingIsLost`, and `EventsAreSaved` under `FairJournalSpec` |

Seven events overflow the queue twice, so that a gap event is itself queued, acknowledged and followed by another.
Three faults are two lost attempts of a batch, of which one arrives late, and a failing file or a
restart. `CHECK_DEADLOCK FALSE`: all events are recorded in the end.

*Fairness.* `EventsAreSaved` (under `FairJournalSpec`) assumes the recorder's timer (`Flush`), a station that serves requests, and a page that
takes replies.

*Proofs.* `PacingJournalProofs` proves for any queue, batch and number of events, clients and faults `JournalTypesAreKept`,
`JournalIsAlwaysUnbroken` and `NothingIsEverLost`, from `JournalAssumption`. The invariant relates page, network and
station: the station has nothing of the frozen batch or all of it and remembers it as its last one (`Agrees`), so that
the rows of the file and the rest of the queue follow one another (`FileInv`); a request on its way is the
frozen batch, or begins at a number the page has left behind (`RequestInv`), and is therefore never what the station expects;
an acknowledgement that the page would accept speaks of rows that are in the file (`ReplyInv`). Chains of
rows are described by where they begin and what comes after them (`Chain`, `After`), which avoids any recursion.

## 9. Jobs

`DurableJob` models one row of the job store, the mirror checkpoint of that job, and processes
that take the job over from each other. Each process has its own connection, and may be a worker or an operator.

*State and code.* `state` and `lease` are the row. `call` says of each process which call it is in, which row that call has read, and what
it is about to write; or that it works, and until when. `files`,
`filesD` and `checkpoint` are the segment files, those that are on the medium, and what `checkpoint.json` refers to;
segments are told apart by a number. `exposed` is history: whether the lease has been undermined.

*Actions.* `AcquireRead` and `AcquireWrite`, `TransitionRead` and `TransitionWrite`, `ReleaseLease` are
`JobStore`, each statement by itself, by any process: nothing ties a call to the holder of the lease. `ResumeStatus` and `ResumeLoad` are
`DurableCaptureJob.resume`, which loads the checkpoint and then calls `acquire`, whose result it ignores; `LoadCheckpoint` is a worker that called
`acquire` itself. `AppendSegment` and `Save` are `MirrorCheckpoint`. `Die`, `LeaseEnds`, `PowerLoss`, `Flush` and `Tick` are faults and time.

*What is assumed.* The repository has no loop of a worker. A worker is here a process to which `acquire` granted the lease: it writes until
its lease ends, numbers its segments from the checkpoint it has loaded, and stops afterwards.

| Run | Instance | Shows |
| --- | --- | --- |
| `jobs` | two processes, leases of two ticks, time up to 3, two segments, one death, one power loss | `LeasesExclude`, `CheckpointLoads` |
| `jobs_overlap` | time up to 4, no fault | violation: see finding 5 |

`docs/HEADLESS_JOBS.md` says that leases prevent overlapping workers. They do not, and what is checked is exactly what
they are good for: `LeasesExclude` says that two workers overlap only after one of

- a call that wrote over a row other than the one it had read (finding 5);
- a pause under a worker, after which `acquire` does not look at the lease;
- a release of the lease of another worker;

and `CheckpointLoads` that the checkpoint stops loading only after one of these, after

- a resume with a checkpoint that is not the current one any more,

or after a power loss (finding 7). Each of the four is needed: without it in `exposed`, TLC finds two workers or a checkpoint that
does not load. All else is harmless: leases that end, workers that die, cancellations and completions by others, takeovers of any kind.

Three ticks are a lease that ends, and a takeover with its work (1712128 states). The constraint `UntilExposed` ends a behaviour where `exposed` becomes true, since it
stays so and nothing is claimed of what follows. `CHECK_DEADLOCK FALSE`: a job ends.

*Liveness.* None is claimed. `acquire` would take a running job whose lease has ended, but nothing in the repository calls
it for one: `resume` does so only for queued and paused jobs.

*Proofs.* `DurableJobProofs` proves for any number of processes, any lease time and all interleavings `TypesAreKept`,
`OverlapsHaveACause` (of `LeasesExclude`) and `CheckpointAlwaysLoads`, from `JobAssumption`. The invariant says that, until something is exposed, a worker that works has the lease of the
row (`LeaseInv`); that a call about to write has read a row that allowed it (`AcquireInv`, `TransitionInv`); and, for the checkpoint, that the segments a worker knows are in the
files and no fewer than those of the checkpoint (`WorkerInv`): it is why a segment that replaces a file replaces none
that the checkpoint refers to.

## 10. The headless crawl, its rules and its report

`HeadlessCrawl` models the crawl of `aegis_cli.py`; `CrawlRules` are the rules of `crawl_rules.py` as
operators and `CaptureReport` is `build_report` on the receipt.

*State and code.* `crawl` holds what `main` keeps: the queue, the outcomes, limits, edges, the
sitemaps seen; `visited`; `task` is the task at hand; `robots` is the cache of `can_fetch`; `archive` are
the responses in the WARC. `rules` is chosen in the initial state. `sent` is history. `receipt` is the coverage receipt; `running` becomes false when the
program dies.

*Actions.* `Dequeue`; `ReadRobots`, `RefusedByRobots`; then the request with its result: `TransferFails`, `HttpFails`,
`Refused` (the rules, with the headers or with the body), `TooLarge`, `Capture`, `Redirect`; `Finish` writes the
receipt. `Dies` is an exception of `http.client` that nothing catches (`InvalidURL`, `BadStatusLine`, `LineTooLong`), of the request or of that for robots.txt. What the headers say of type and length is any combination, also a wrong length. References of a document are
queued in order, up to one for which `evaluate_rules` raises.

*Abstractions.* A host is a sequence of labels and a path a sequence of letters, which is what prefix
and suffix tests need. Globs and the normalisation of URLs are left out. There is no fault but those of the
network: the WARC of the command line is not resumed.

| Run | Instance | Shows |
| --- | --- | --- |
| `headless` | seven URLs: a sitemap index that lists itself, one that is too large, pages, a redirect back, equal payloads, a disallowed URL; three rule sets | `FrontierIsWhole`, `ArchiveIsEnumerated`, `RulesAreRespected`, `RobotsAreRespected`, and `CrawlEnds` under `FairSpec` |

The limit of four visited pages is below the number of URLs, so that crawls end with and without a rest in the
queue. *Fairness* is that of the program's own steps only. A request need not end: its timeout of 15 s is one of each socket operation,
and a body that trickles has no deadline. `CrawlEnds` therefore says that there is a receipt in the end, unless the program dies or
waits for one request for ever: retries, redirects and sitemaps do not keep it running.

*Proofs.* `HeadlessCrawlProofs` has theorems on the rules and on the crawl. For every list of rules, by the least element of the matching
places: `DecisionsAreFinal` (what was decided with some of the metadata is not changed by more), `UndecidedKeepsNothing`
(while a rule lacks metadata only an earlier one can permit a download), and `FirstMatchDecides`. The first is what lets the
crawl refuse a URL before it asks for it.

For all sites, seeds, profiles and limits that satisfy `HeadlessAssumption` (what `validate_rules`, `scope_hosts`
and the validation of a profile accept): `HeadlessTypesAreKept`, `FrontierIsAlwaysWhole`, `RulesAreAlwaysRespected`,
`RobotsAreAlwaysRespected`, and, if no URL is over 8192 characters (`NoneTooLong`), `ArchiveIsAlwaysEnumerated`; with such a URL the last one is false,
as finding 9 says. The invariant speaks of the two moments between which the program works:

- `Done`: nothing is at hand, and exactly the pending URLs are queued, once, none of them visited;
- `Requesting`: one URL is at hand, pending as well, and not queued.

`FrontierInv` says that one or the other holds, `RequestsInv` and `ArchiveInv` have what was requested and archived, `EndInv`
that a receipt is the report of the final outcomes, and `WholeInv` that the captured URLs are the archived ones. Between the two
moments each operation on the frontier (`Enqueue`, `Requeue`, `Update`, `Settle`, ...) has a lemma on what it does to the queued, the
pending and the captured URLs. The part of `RulesAreRespected` on previews
needs no invariant of its own: by `DecisionsAreFinal`, what a preview decided stays so with the body's metadata.

`Unseen` and `EnqueueAll`, the loops over the references of a document, are recursive functions. The library's induction takes an
operator as a parameter; what holds before a loop, and is kept by its body, is instead shown to hold after it by the set of the
places where it holds, which is closed under successors (`Upward`).

## 11. The document catalogue

`DocumentCatalogue` models the SQLite catalogue and the search index on the same database.

*State and code.* `handling`, `flagged`, `policy` and `removed` are the columns of `documents` and
`source_policy`, `head` is the `urls` table, `receipts` are acquisitions with their change
receipts, `derived` and `index` are the tables `derivatives` and `text_index`, `events` is
`handling_events`. `adding` is the transaction of an `add()` between its reads and its writes.

*Actions.* `Register`, `SetHandling`, `FlagSource`, `SetRetention`, `RemoveSource` are one transaction each, the triggers
that they fire included (`Relabelled`, `Uncached`, `Restricted`). `AddReads`, `AddWrites` and `AddFails` are
`SearchIndex.add`, which reserves the database before it reads: `locked` is that reservation, and the mutant of `DerivativesFollowTheSource`
takes it away. `Reopen` is `Catalogue.__init__` with its upgrades.

| Run | Instance | Shows |
| --- | --- | --- |
| `catalogue` | two URLs, two contents, two labels, two times, two registrations, two policy operations | `IndexIsExact`, `ReceiptsExplainTheHeads`, `DerivativesFollowTheSource`, `DenialIsFinal` |

Two registrations are of the same URL in either order of time, of one that moved to the other, or of the same
content; two policy operations are a restriction and what might undo it. Contents are
symmetric. `CHECK_DEADLOCK FALSE`: bounds end.

*Proofs.* `PortableProofs` proves for all URLs, contents, results and times `IndexIsAlwaysExact`,
`DerivativesAlwaysFollow`, `ReceiptsAlwaysExplain`, `DenialIsAlwaysFinal`, `OneSourceForEachUrl`, `WithdrawalStays` and
`HoldsAreAlwaysKept`, from `CatalogueAssumption` (bounds are natural numbers, null values are none of the values they stand beside). The invariant adds that what `add` read stays
true until it writes (`AddInv`), that a withdrawn source has no derivatives (`RemovedInv`), that the
index is the set of eligible derivatives (`IndexInv`), and that the restricted acquisitions of a source have a latest one for an upgrade to
take its label from (`LatestInv`). For `ReceiptsAlwaysExplain` it also says that a head has the revision and the time of its URL's
latest receipt (`HeadsInv`), so that the one comparison that `Register` makes with the head decides as a comparison with all
receipts would (`RegisterExplains`), and that older receipts keep what explains them, since later ones are not among the first n
(`BeforeInv`, `NewestKept`). `HistoryExplainsThePolicy` is model-checked only.

## 12. Provisioning and packaging

`ModelCache` models a directory of pinned files and the programs that fill and audit it: `provision_models.py`,
the `--acquire` mode of `provision_native.py`, and `prefetch_bash.py`. `NativeBundle` extends it with the build of
`provision_native.py`, which fetches through the same steps, and with what becomes of a bundle on another machine.

*State and code.* `file` has for each entry of the lock the destination, `.part` and `.part.invalid`, each absent or a sequence of blocks,
of which a block is what the lock has at that place or not; so a file matches size and SHA-256 if all its blocks do.
`sidecar` are the `.provenance.json` files, `report` the receipts of provisioning, acquisition and audit. `proc` has the
locals of `fetch` and of the loop around it: the task, what is left, the attempt, the offset, and which name
the open file has at present (`open`), since a file goes on being written when it is renamed. In `NativeBundle`,
`build` is the place in `main`; `made` and `tar` are the work directory and its `archives/`; `package` are the temporary, assembled,
relocated, retained and delivered packages, each with its contents, its manifest and its undeclared files; `child` and
`qualification` are `native_qualification.py` and the report it has written; `field` and `receipt` are `verify_or_smoke` and its
receipt.

*Actions.* `Provision`, `Acquire`, `Stage` start a program. `FetchModel` is `fetch` up to its loop; an attempt is
`Inspect` (the length of the partial file), `Quarantine`, `Answer` (206, 200 or a refusal), `Block` for each block, `EndOfBody`, `Check`,
`Publish`, and `Retry` when it fails; `FetchArchive` enters the same steps for the simple `fetch` of runtimes, which never resumes. `Record`
writes the sidecar, `GiveUp` and `Finish` end a run with or without its receipt; the exceptions of `http.client`, which the mirrors and the last
attempt of an acquisition do not catch, end the program at once (`EndsIt`). `StartAudit`, `AuditFile`, `EndAudit` are the audit.
The build is `FetchRuntime`, `Unpack`, `ProvisionSpeech`, `Assemble`; then for each asset `StreamRuntime` or `Supply`, `Pack`, `Drop`,
`Extract`, `Consume`, which is the generator of `main` and the loop of `assemble` in turns; then `Manifest`,
`Relocate`, `Qualify`, `Qualified`, `Retain`. `Examine` is one check of the qualification. `Deliver`, `Restore`, `Purge`, `Smoke`, `Smoked` are the other
machine. Faults: a body that ends too soon, breaks or has a damaged block; an exception in the build (`BuildError`); a child
that dies (`ChildDies`, `TimedOut`); a kill (`Kill`, `FieldCrash`); a power loss, which may spoil the last block of a partial file.

*Abstractions.* Three kinds of checks of the qualification are fatal, three are the language models, and the others are one, `rest`. The sources and
compilers of a runtime are its set of downloads (`Needs`). Path and link checks, which refuse before anything is touched, are no
actions. A rename and a receipt are taken to last (the code syncs files, and no directory), and a child to end with its parent.

| Run | Instance | Shows |
| --- | --- | --- |
| `bundle` | two models of two and of one block, a wheel, a download with two mirrors, one runtime; two attempts; six budgets | `HonestServerSuffices`, `DiskIsBounded`, `CertifiedIsLocked`, `PublishedIsLocked`, `ClaimsAreEarned` |

A model of two blocks can be resumed in the middle, and two models have an order of size. The directory begins empty, with a wrong destination and a wrong partial
file, or with a partial file that is too long (`MCFound`). The budgets (`MCBudgets`) say how many runs, faults, crashes, audits, builds,
smokes and uses a behaviour may have; each is made for one kind of trouble: two runs with a fault and a crash; one run with two faults; a run beside an audit;
two builds; a build that is delivered, with a crash; and a bundle that is smoked three times while it is spoilt and a child dies. Programs that fetch run one at a
time here, and the audit beside them; nothing in the code excludes two at a time, and what happens then is finding 11. `CHECK_DEADLOCK FALSE`: budgets end.

`DiskIsBounded` counts the copies of a model from its turn in the build on: its files, the archive and the packages. Models that were provisioned into the
work directory before the build lie there as well, and a temporary package that a killed build has left stays until someone removes it
(no later build in that work directory comes as far as assembling).

`CertifiedIsLocked` is `ReceiptsAreTrue` and `PackagesAreWhole`; a build takes models out of the directory (`taken`), which makes receipts of that
directory old, not wrong. `HonestServerSuffices` says that a fetch without a fault may fail only if it has a single
attempt: a damaged partial file of full length costs none, a damaged shorter one is noticed when it is whole and costs one.

*Proofs.* The second part of `PortableProofs` proves from `CacheAssumption` and `BundleAssumption` (the entries, assets and null values
are what their names say; assets are finitely many), for all models, archives, sizes, mirrors, budgets and initial files,
`BundleTypesAreKept` and `ClaimsAreAlwaysEarned`, and under `OneFetcher` (one process at a time downloads into the directory) `PublishedIsAlwaysLocked`,
`HonestServersAlwaysSuffice`, `CertifiedIsAlwaysLocked` and, if there are models, `DiskIsAlwaysBounded`. With two processes the first three are false, see finding 11; nothing in the code
keeps a second process away, so `OneFetcher` is a condition on the use of the programs. The invariant is `BundleInv`, which says

- what a stage of `fetch` or of the build says of task, file at hand and assets left (`FetchInv`, `StageInv`), and that a process that builds is
  the only one and does what `build` says (`BuilderInv`);
- that a child that has passed has passed all its checks (`ChildInv`), which is what a claim needs;
- where what is made, packed and extracted is while the build goes on (`StreamInv`), so that the manifest names every asset (`ManifestInv`),
  and that what is at its place verifies (`Placed`);
- and with one process: that what is about to be published has been compared (`PublishInv`); that what a run has got, or the audit found in order,
  stays or is taken by a build (`GotInv`), so that receipts stay true; and for `HonestServersAlwaysSuffice`, of an attempt without a fault, that the partial file is the
  right one or that it is resumed from a former run and there is another attempt (`HonestInv`).

The actions are first reduced to what a step makes of the process that takes it (`OwnMoves`) and leaves of the others (`OthersStay`),
to what it does to destinations (`DestMoves`), packages (`PackageMoves`) and receipts (`ReceiptMoves`); the parts of the invariant follow from these.

`DiskIsAlwaysBounded` needs to know where the bytes of each model are, which is a second invariant, `Roomy`. While a build goes from
model to model, the largest first, each model has one place, but for the model at hand, which has two; that one is not the largest, or there is
nothing of any other yet (`PlaceInv`, `RoomInv`). What a killed build has left stays within this, because the next build in the same directories does not
come as far once everything has been made (`OnceInv`), and no fetch runs beside a build (`BusyInv`). From `Roomy` it is arithmetic (`HeldIsBounded`): each
model holds at most its size, but for one that holds at most twice that. The sums over all models are those of the community modules; what the
proof needs of them (`SumOfRest`: they are the same whichever element is taken first; `SumIncreases`, `SumOfOne`) is proved by well-founded
induction on subsets, with the predicate as a set (`Smaller`), for the provers cannot instantiate an operator.

## 13. Findings and further configurations

Two findings are runs that expect a violation:

- **1.** `finalize` does not sync the directory after `os.replace` of the receipt
   (line 509), as `publish_checkpoint` does (line 316). After a power loss the
   folder may show the partial files again, and reopen accepts it though
   the client has a receipt (`store_receipt_lost`).
- **5.** `acquire` reads the row (`cli/jobs.py:33`) and updates it in a later statement without a condition, so two
   processes can both get the lease; `docs/HEADLESS_JOBS.md` says that "leases prevent overlapping
   workers" (`jobs_overlap`).

For the others the configuration named gives TLC's counterexample:

- **2.** `StoreStranded.cfg`: a crash between the renames of finalize leaves `archive.warc` beside
   `archive.cdx.partial`, without a receipt. `refuse_finalized` takes that for a
   finalized archive, so it is neither discovered nor reopened, and its
   checkpoint cannot be resumed.
- **3.** `StreamerReport.cfg`: when the reply to finalize is lost, the page reports "No successful archive
   receipt was produced." (`web/lib/native_capture.js:173`), though the station
   may have produced it: the page does not ask.
- **4.** `BridgeForgets.cfg`: when the drive fails while `persist_pacing` writes, in the `try` block of `fetch` and
   again in its `except` clause, only the engine of the session knows the Retry-After.
   `configure` makes the next engine from `native-pacing.json`
   (`cli/capture_bridge.py:139`) and does not look at the engine of the session it replaces,
   so the next session of the same process does not wait, against "a received Retry-After
   cannot disappear" (line 147).
- **6.** `JobsReuse.cfg`: as in 5, `transition` and `acquire` may write over a state that became terminal after they read
   it, against "terminal states cannot be reused".
- **7.** `JobsPower.cfg`: `append_segment` and `save` do not sync their directories, so that after a power loss the
   checkpoint may refer to a segment that is not there, and `load` refuses it, against "Crash safe checkpoint
   and segment storage" (`cli/mirror_checkpoint.py:1`).
- **8.** `CatalogueFlagged.cfg`: `set_handling` takes a flagged source out of quarantine until the catalogue is opened
   again; `docs/DOCUMENT_LIFECYCLE.md` says that "Flagged sources are quarantined".
- **9.** `HeadlessLong.cfg`: a page with a link of more than 8192 characters is archived, then `evaluate_rules` raises
   for the link, and the page counts as failed: it is retried, archived up to four times, and ends as
   failed in the receipt.
- **10.** `HeadlessReport.cfg`: a response with a status above 599 goes into the receipt, which `build_report` then refuses as a whole.
- **11.** `BundleTwo.cfg`: of two runs that fetch into one directory, the second opens the `.part` with `"wb"` between the check of
   the first (`portable/provision_models.py:258`) and its `os.replace` (line 260), so that a truncated file is published,
   against "A completed file is published only after its size and SHA-256 match the lock" (line 4).

Further configurations, which pass, are larger instances or ask for what the theorems already say:

| Configuration | Module | Checks |
| --- | --- | --- |
| `CrawlComplete.cfg` | `MCCoreCrawler` | `TypeOK`, `CheckpointIsAccepted`, `CompleteIsWhole` with nothing declined or disallowed |
| `PoliteCallers.cfg` | `MCPoliteness` | `SlotsAreDistinct` with two callers |
| `HeadlessPages.cfg` | `MCHeadlessCrawl` | six rule sets on pages: `TypeOK`, `RefusalsAreFinal`, `RevisitsResolve`, `ReceiptIsAccepted`, `CompleteIsWhole` and the run's invariants |
| `HeadlessSitemap.cfg` | `MCHeadlessCrawl` | nested sitemaps: `SitemapsStayHome`, `RobotsAreRespected`, `CrawlEnds` |
| `CatalogueHistory.cfg` | `MCDocumentCatalogue` | four policy operations: `HistoryExplainsThePolicy`, `HoldsAreKept` |

Seen while modelling, without a statement of the repository to hold against it:

- `asset_record` packs whatever lies in the directory of a model, so that a `.part.invalid` of an earlier attempt goes
  into the bundle and its manifest (`DiskIsBounded` and `PackagesAreWhole` allow for it).
- A build refuses a work directory with a `provisioning.json` (`portable/provision_native.py:673`), but that file is written to the
  output directory (line 742); what stops a second build in the same directory is `unpack`, which makes new directories only.
- A clock that is set back between a refill and an export, or two callers that wait for tokens, leave the politeness engine with
  a state that `restore_state` refuses.
- A URL that is first visited deep makes its links excluded for depth, also if it is linked from
  nearer pages later.
- The resume of a durable job loads the checkpoint before it acquires the lease and does not look at the result of `acquire`
  (`cli/durable_job.py:10-11`). A worker that comes between, saves another checkpoint and pauses the job leaves it with an older one, whose next
  segment replaces one that the newer checkpoint refers to.
- Anyone may pause a running job, after which another worker can acquire it though the first one's lease goes on, and anyone may
  release a lease.
- Nothing acquires a running job whose lease has ended.
- A link that `http.client` refuses (with a space), or a server that answers with no valid status line, ends the headless crawl with a traceback and without a
  receipt; so does such an answer for robots.txt.
- What a server asked for with a call that ends before its state is saved is forgotten by the next engine; in the browser, that is all since the
  last recovery checkpoint.
- The rule and visited branches after a dequeue of the headless crawl cannot be taken: queued URLs were
  checked, and are not visited (`FrontierIsWhole`, `DecisionsAreFinal`).
- The report takes 10000 resources, while the crawl limits the pages it visits and not those it discovers.
- The station's limit of 128 sessions counts finalized archives, which nothing removes.

## 14. Not modelled

- Formats and parsing: WARC writer, reader and verification, HTML, CSS and sitemap XML, URL normalisation, text
  extraction, ranking and diffs. They are pure functions of bytes; what the models need of them (which URLs a page
  refers to, which payloads are equal) is a constant.
- `web/lib/opfs_streamer.js`, network transport, proxies and authentication: thin wrappers of the browser or of
  the operating system without a protocol of their own.
- The console's pages: user interface; what they call is the environment of the models.
- MCP server, optional document processing, station launcher: request dispatch and subprocesses around the other parts.
- Diagnostic intake: one operator writes an append-only ledger by hand; its docstring asks for one writer at a time.
- Gates (`scripts/gate.py`, `claims_audit.py`, `track_health.py`): reports on the repository itself.

`PROJECT.json` lists each part with the reason, and what is left out of the parts that are modelled partly.
