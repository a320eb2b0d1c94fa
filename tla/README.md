# escrow-proxy in TLA+

escrow-proxy is a caching man-in-the-middle proxy: it answers HTTP(S) requests
from a cache of earlier responses, fetches what it lacks, can record a session
into an archive and replay the archive offline. This directory holds TLA+
modules of its parts, TLC configurations that check them on small instances,
and TLAPS proofs that hold for every instance. `PROJECT.json` maps every
definition to the lines it models and lists runs, mutants, findings, hazards
and theorems.

## 1. The system

| Part | State | Operations | Talks to |
|---|---|---|---|
| Request handler (`internal/proxy/handler.go`, `digest.go`) | per request: `reqState` in `ctx.UserData` (key, fallback) | `HandleRequest`, `HandleResponse` | cache, transport, metrics; run by goproxy on one goroutine per connection |
| Transport (`transport.go`) | none | `RoundTrip` follows redirects, turns an error into a marked 502 | upstream, metrics |
| Cache key (`cache_key.go`) | none | `ComputeCacheKey` | |
| Cache (`internal/cache/cache.go`) | none of its own | `Put`, `Get`, `Delete`, `Walk`, `Reindex` | storage, index |
| Local storage (`internal/storage/local.go`) | a directory, two files per entry | `Put`, `Get`, `Size`, `Exists`, `Delete`, `List` | the file system, without locks |
| Tiered storage (`tiered.go`), S3 and GCS | two tiers | the same, with backfill from the second tier | local and cloud storage |
| Archive storage (`archive_storage.go`) | an archive held in memory | read-only | archive readers |
| Usage index (`internal/index`) | SQLite table `entries`; buffer `dirty`; a flush goroutine | `Insert`, `Upsert`, `Delete`, `bufferHit`, `Flush`, `Close` | cache, commands |
| Recorder and archives (`internal/cache/recorder.go`, `internal/archive`) | the set of recorded keys | `Finalize`, `Add`, `Close`, `NewReader` | cache storage |
| CA and leaf certificates (`internal/tls`) | two CA files; map and order of leaves under a mutex | `EnsureCA`, `GetOrCreate` | goproxy's CONNECT callback |
| Commands (`cmd/escrow-proxy`) | none | `serve`, `record`, `offline`, `ca export`, `cache evict/reindex/invalidate/list/show/domains` | all of the above, in one or several processes |

### What is hard

* Requests run concurrently and nothing orders two of them on one key: two
  misses truncate and write the same two files, a hit reads them meanwhile, a
  failed verification deletes them.
* An entry is two files. A crash, a full disk or another client may come
  between them.
* A request passes two handlers. What the first one knows (a fallback, that the
  request was bypassed, that it was already counted) has to survive until the
  second.
* Hits are buffered in memory, flushed by two goroutines, put back when a
  statement fails, dropped when the entry is deleted, and lost with the process.
* `reindex` and `evict` decide on a listing or a snapshot while the proxy goes
  on. They may be other processes, which do not see the buffer.
* With two tiers a read writes: it copies what it found in the second tier into
  the first, while the entry may be deleted or replaced, and either tier may
  fail a call that the other performs.
* An archive is written at shutdown, beside requests that are still served, as
  one file or many, possibly over those of an earlier session, and the process
  may die between any two writes.
* Certificates expire, and the map and the slice that hold them must agree.
* The CA is two files without a lock, made by whichever command comes first;
  clients install what one process printed and meet leaves that another signs.
* The cache commands are processes beside the proxy. They list, read, decide and
  delete by separate calls over tiers that disagree, any call may fail, some
  errors are reported and others dropped, and reading fills faster tiers.

### What makes each part correct

* Handler: pinned content is never served or stored wrong; excluded requests
  leave nothing behind; stale entries are not served as hits; a failed refresh
  falls back; a request is counted once and finished; a stored HEAD is usable;
  offline nothing reaches upstream.
* Index: no hit is counted twice, none is lost unless its entry or its process goes, and
  each reaches the table in the end; `reindex` restores the match of table and directory
  but for entries that it could not read; `evict` keeps to its target, its order and its
  age limit.
* Leaf cache: bounded, consistent, and never hands out a leaf about to expire.
* Tiers: what a put or a delete left stays, and a backfill changes nothing that
  a reader can see.
* Recording: a finalized archive replays what was recorded, all of it, and an
  unfinished one is not taken for an archive.
* CA: the root that was exported stays what the files hold and what every leaf
  chains to, through crashes, failed reads and writes, and restarts.
* Cache commands: what an invalidation was told to delete is gone everywhere;
  what a command reports or lists is what was there; the index follows the
  storage; nothing else changes.

## 2. The modules

### `EntryStore`: the two files of an entry

State: `meta` and `body` are the files `<key>.meta` and `<key>.body`; `handle`
is the file each goroutine has open and `held` the bytes of a file that was
unlinked while open. `Local.Put` is two steps, `os.Create` (which truncates)
and one write, so the model has `CreateMeta`, `WriteMeta`, `CreateBody`,
`WriteBody`. A write that is shorter than what another client wrote to the same
file leaves a mixture (`Overlay`), a reader whose file changes under it may see
one (`mode = "torn"`), and any call may fail (`StorageFaults`). A body is one of
`Contents`, `Empty` or `Damaged`. A damaged metadata file does not unmarshal.
This is the one assumption about damaged bytes: a mixture of two JSON
documents, or a prefix of one, is not taken for a document.

### `ProxyHandler`: the request path

State: for each client, `pc` (where in the two handlers its goroutine is), the
request, `userData`, what `cache.Get` returned (`gotMeta`, `gotBody`), whether
that is kept as a fallback (`armed`), the response, the metadata to store, and
what was recorded in the metrics (`records`, `errs`).

| Actions | Code |
|---|---|
| `DropNilURL`, `RefuseBypass`, `ForwardBypass`, `Lookup` | the start of `HandleRequest` |
| `ReadMeta`, `MissMeta`, `GetBody`, `MissBody` | `cache.Get` |
| `EvictMismatchedHit`, `DeferToUpstream`, `ServeHit` | the hit path: verification, revalidation, replay |
| `DeleteExists`, `DeleteNotFound`, `DeleteMeta`, `DeleteBody`, `DeleteFails` | `cache.Delete` |
| `Answer`, `Fail` | `RoundTrip` with upstream as the environment |
| `ReturnUntouched`, `serveFallback`, `NotCached`, `ServeTruncated`, `RejectMismatch`, `ServeHeadUncached`, `BeginPut` | the ways through `HandleResponse` |
| `PutMetaCreate` ... `PutBodyWrite`, `PutFails` | `cache.Put` |
| `Restart` | the process dies at any point and starts again over the same directory |

Abstractions. A URL is a name (scheme, host, path) and how its port is spelled,
because normalisation of the port is what exclusion depends on. A pattern is
the set of URLs it matches. A digest is the body it is the digest of. A cache
key is the record of what is hashed. Of the headers only Content-Length is
kept, in three classes, since only its presence and sign are looked at.
Redirects inside `http.Client` are part of upstream's choice.

### `UsageIndex`: hits, flushes, reindex and evict

State: `rows` (the table), `dirty` (the buffer), `pending` (the batch of each running
flush), `disk` (the size of each entry in the directory), where each worker, the flush
goroutine, `Cache.Reindex` and `runEvict` are, and history variables: what was hit and
when (`recorded`, `lastHit`), whose statistics were reset (`discarded`), which entries
workers put or deleted (`written`), and for which a reindex dropped a storage error
(`dropped`). A statement or transaction is one step, and so is a critical section of
`Index.mu`; everything between interleaves. An entry is one object here: a worker that
gets an entry has its size with it. The reindex reads and sizes it in two steps, as an
entry may go in between. `Cache.Walk` skips an entry that is gone and, without a word,
one that is there and cannot be read or parsed (`ReindexSkip`); an error of `Size`
counts as 0 (`ReindexSize`). A row that the walk has not seen is an orphan, also that of
an entry which was skipped. The column `created_at` is left out because nothing decides
on it. The signal that the buffer has reached its threshold only makes a flush come
earlier, and a flush may come at any time. `runEvict` runs with or without `--dry-run`
(`EvictForecast`).

### `HitLedger`: what the index promises about hits

The abstract specification, with no buffers, batches, goroutines or database:
for each key the hits that are saved and those that are not, and the keys whose
statistics were reset. A hit is recorded once (`Record`), moves once from unsaved
to saved (`Save`), and goes only with its row (`Reset`, then possibly `Drop`) or
with the process (`Crash`). `UsageIndex` implements it (`ImplementsLedger`):
`saved` is the `hits` column, `unsaved` the sum of the buffer and the batches of
both flushers, `forgotten` the history variable `discarded`. The swap, a failed
flush, its requeueing, the reindex's upserts and the order of the two halves of
`Index.Delete` are all steps or stutters of the ledger. Its definitions translate
no code of their own; the refinement in `UsageIndex` ties them to it.

### `TieredStore`: one entry over several tiers

State: `tiers` is what each tier holds of the two objects of an entry, `job` the
call each client is in, `settled` a history variable. `Tiered.Put` and `Delete`
start a goroutine per tier, so `PutTier` and `DeleteTier` take the tiers in any
order and each may fail on its own (`PutTierFails`, `DeleteTierFails`); the
error is reported after all are through. `Get` asks tier by tier, takes an error
for a miss, and fills the tiers before the one that answered (`Backfill`), whose
errors are dropped. `StartEvict` is the evict command, which works on the local
tier alone. A failing write may damage the object only on a tier in `Torn`: the
local one, since cloud objects are replaced as a whole.

### `RecordSession`: recording into an archive

State: `store` is the cache's storage, `client` the `Put` or `Delete` each
goroutine is in, `keys` the recorder's keys, `run` where the process is in its
life and in `Finalize`, `writer` the archive writer in memory, `dest` the files
of the archive.

| Actions | Code |
|---|---|
| `Record`, `Crash`, `Finalized` | the life of the record command |
| `PutObject`, `PutObjectFails`, `RecordMeta`, `RecordBody`, `DeleteExists`, `DeleteMeta`, `DeleteBody`, `DeleteFails` | `cache.Put` and `Delete` through `recordingStorage` |
| `Finalize`, `ReadMeta`, `SkipMeta`, `SkipBody`, `Add`, `AddFails`, `NextKey`, `Close` | `Recorder.Finalize` |
| `Truncate`, `Write`, `WriteFails` | `os.WriteFile` of one file of the archive |

The writers differ only in the files that `Add` and `Close` write and in their
order (`AddWrites`, `CloseWrites`), and the readers in `Views`, the set of
results that `NewReader` and `Get` may give over `dest`. It is a set because
`readTarBytes` takes a truncated layer for a shorter one. A digest is the content
it is the digest of. The file `oci-layout` is left out, as nothing reads it. Of
the keys only the first occurrence is kept, as `Finalize` does with `seen`.

### `CertCache`: leaf certificates

`GetOrCreate` runs under one mutex, so each outcome (`Hit`, `Create`,
`CreateFails`) is one step, with the drop of an expiring leaf, the insertion
and the eviction all inside it. Time is in hours.

### `Authority`: the CA, who makes it and who relies on it

Extends `CertCache` by the files `ca.crt` and `ca.key`, by a proxy and processes
that run `ca export`, each of which calls `EnsureCA` when it starts, and by what
the last export printed (`trusted`).

| Actions | Code |
|---|---|
| `StartAndLoad`, `StartAndGenerate`, `StartFails` | `EnsureCA`: `os.Stat` decides, `GenerateCA` makes a key |
| `LoadCert`, `LoadKey` | `LoadCA`; a file without a PEM block ends the command (`GiveUp`) |
| `CreateCert`, `WriteCert`, `CreateKey`, `WriteKey`, `SaveFails` | `SaveCA`: each `os.WriteFile` truncates, then writes |
| `Export` | `ca export` |
| `Connect` | the TLS callback, which is `CertCache`'s `Hit`, `Create` or `CreateFails` |
| `Stop` | the process ends or is killed anywhere; the proxy's leaves go with it |

`EnsureCA` loads only when `os.Stat` returns no error. Any other error than that there
is no such file also makes it generate a CA and write over the files that are there
(`StartAndGenerate` under `Faults`); `MkdirAll` has no objection to an existing
directory, and where it or `GenerateCA` fails no file is touched (`StartFails`).
`overwritten` remembers that a process generated a CA over existing files, or while
another was writing them; the properties are about what happens until then, since
afterwards nothing holds (section 5).

### `CacheCommands`: the cache commands over tiers and index

State: `tiers` (what each tier holds of the two objects of each key), `rows` (the
body size in each row), `cmd` (the command: where it is and its variables), and
`serve`, `served`, `buffered` for a proxy that performs `Put`, `Get` or `Delete` on
the same storage and index in between.

| Actions | Code |
|---|---|
| `Begin` | the choice between lookup, index and walk in `collectTargets`, `runList`, `runShow`, `runReindex` |
| `Query` | `Index.List` with `limit + 1` |
| `List`, `Read`, `Fill`, `WalkEnds` | `Cache.Walk` over `Tiered.List` and `Tiered.Get`, `Cache.Get` |
| `ExistsForShow`, `RecordHit`, `DropOrphan` | `resolveShowKey`, and the two ends of `Cache.Get` |
| `DeleteNext`, `DeleteFile`, `DeletesEnd` | `executeDeletes` and `Cache.Delete` |
| `DeleteRow`, `DropHit` | `Index.Delete`: the row, then the buffered hit |
| `Size`, `Upsert`, `AllKeys`, `DeleteOrphan`, `OrphansEnd` | `Cache.Reindex`, the dry run of `runReindex`, the sizes of `list --key` and `show` |
| `SwapHit`, `CommitHit`, `RequeueHit`, `Close` | the flush goroutine of the command's own index, beside the command, and its last flush |
| `Serve...` | `cache.Cache` in the proxy, with its flush |

`FailingTiers` lets one tier fail any call. `cmd.dropped` remembers what kind of
error the code swallowed, so that a property can say which of its promises that
voids. The command's flush takes its batch (`cmd.batch`) in one step and commits or
requeues it in another, so that it may lie across the two steps of `Index.Delete`;
`cmd.overtaken` remembers that it did. The flush of serve is the one step of its
commit. A filter is the set of keys it matches: one for the comparison in Go, one for
SQL. `domains` is the unfiltered list without a limit. With one tier
`buildStorage` returns that storage itself; errors are then reported where
`Tiered` drops them, and the rest is the same with `N = 1`. What the body of `show`
is written to, and the sizes that a walking `list` prints, are left out.

### How they fit

`ProxyHandler` extends `EntryStore`: every storage call of the handlers is an
action of the store taken by that client. `UsageIndex` models the same
operations of `cache.Cache` from the side of the index, with the files
abstracted to one object. `Authority` composes `CertCache` with the files and
processes around it; both are independent of the cache, as in the code, where they
are reached only through the CONNECT callback. `TieredStore` takes the
place of the single store below `cache.Cache`, and `RecordSession` stands between
the two: its `store` is either, at the grain of one call, and its `Views` are
what an offline `ProxyHandler` (`ReadOnly`, `InitialStores`) starts from.
`CacheCommands` composes what `TieredStore` and `UsageIndex` take apart, at the
grain of a call and without statistics, and adds the commands and a second
process. The MC
modules hold the requests, patterns and initial states that the configurations
choose from.

## 3. The runs

| Run | Result | Instance | Shows |
|---|---|---|---|
| `proxy_digest` | pass, 1.8M states | 2 clients, GET and HEAD of one blob, two contents, a store that may start with a wrong body and may fail | `DigestServed`, `WrongBodyNeverStored`, `HeadLength`, `TypeOK` |
| `proxy_revalidate` | pass, 173k states | 2 clients, a tag revalidated after one tick and an excluded URL, statuses 200/304/500 | `FallbackHonoured`, `OnlySuccessStored`, `CountedOnce`, `BypassUncached`, `NoStaleHit`, `EventuallyAnswered` |
| `proxy_offline` | pass, 1.6k states | 2 clients over an intact archive, all kinds of request | `OfflineReplay` |
| `proxy_offline_upstream` | violation | 1 client, an archive with a wrong body | `OfflineForbidsUpstream` |
| `proxy_mitm_revalidate` | violation | 1 client on the MITM path, a stale tag | `NoStaleHit` |
| `index_stats` | pass, 687k states | 2 workers on one key, flush loop, automatic reindex, shutdown, crashes, failing statements and reads | `NoHitCountedTwice`, `StatsPreserved`, `HitsReachTable`, `ImplementsLedger`, `TypeOK` |
| `index_commands` | pass, 5.0M states | two keys, an index that agrees with the directory or has drifted in one key, `reindex` and `evict`, dry or not, beside a worker that reads, puts and deletes, failures and dropped errors | `ReindexExact`, `EvictExact` |
| `authority` | pass, 2.9M states | a proxy and two exports, failures and kills anywhere; 3 hosts, 2 slots, leaves of 3 hours | `ExportedRootKept`, `ServedChainsToTrusted`, `PairMatches`, `OrderMatchesMap`, `ServedOutlivesMargin` |
| `tiered` | pass, 576k states | 2 clients, 2 tiers, 2 versions, all operations, failures everywhere | `SettledAgree`, `BackfillTransparent` |
| `record` | pass, 4.8M states | 2 sessions in each format, 2 keys, 3 puts or deletes, failures and crashes at any step; an OCI destination is reused | `FinalizedReplays`, `QuietComplete`, `UnfinishedStaysOut` |
| `commands` | pass, 4.5M states | each command with its filters and flags and its own flush, 2 tiers in 24 states of agreement, any index, one failing call, one operation of serve | `InvalidateComplete`, `ReportExact`, `TiersIndexed`, `ListComplete`, `RowsFollow`, `OthersUntouched`, `TypeOK` |
| `commands_s3` | violation | the same, S3 as second tier with a page of one entry, nothing fails | `DeletesEveryEntry` |

### Bounds, and why they are enough

* Two clients. Every clash is between one client and one other on a key: both
  write, one writes while the other reads, one deletes what the other stored.
  Most of the safety properties are proved for any number (section 4).
* Two contents (the right one and a wrong one) plus the empty and the damaged
  body: verification distinguishes no more.
* Statuses 200, 304 and 500 are one of each class the code tells apart (2xx,
  cacheable but not 2xx, not cacheable). `proxy_digest` keeps 200 only, since
  other statuses end the request before verification.
* `MaxClock` 1 with interval 1, and entries with the zero `CachedAt`, give
  ages below, at and above the interval.
* `MaxHits` 2 lets a hit arrive while the batch with the earlier one is in
  flight and while it is put back. One key suffices there, since no statement
  couples two keys' statistics.
* `index_commands` has two keys and two sizes for order and totals, of entries last
  used at two times, so that the age limit spares one only after a hit; and one key
  can be written or have drifted while the other has to come out right. Its
  constraint, `SaysSomething`, leaves out states from which neither property says
  anything any more: all keys written, or an eviction begun over an index that did not
  agree, or beside a worker that has written or a reindex that dropped an error. It
  hides no violation.
* In `index_stats` the clock advances once, so that a later hit and a requeued older
  one can be told apart. In `index_commands` it stands: the times that matter are
  those in the rows at the start and those of hits.
* `index_stats` has a `VIEW` without `written` and `dropped`, which no action, fairness
  condition or property of that run reads, so that states which differ only in them
  have the same future.
* Three hosts over two slots evict; five hours let a three-hour leaf meet the
  margin and be renewed.
* `MaxAuthorities` 2 lets a second authority replace the first, which is what
  must not happen; two exports beside the proxy let one print what another is
  still writing.
* In `commands` one fault is enough for each promise: it names the calls whose
  failure voids it, and every call can be the one that fails. `MaxServed` 1 puts
  one whole `Put`, `Get` or `Delete` of the proxy at any place of the command. Two
  keys tell the targets of a filter from the others and reach a limit of 1 or 2. The
  initial tiers have a key in both, in either, in neither, in two versions, with a
  damaged local copy and without a body. A page of two objects in `commands_s3`
  stands for S3's thousand.
* Two tiers are what the documentation configures; the properties of `TieredStore`
  are proved for any number, and the run also passes with three.
* `MaxSessions` 2 lets a session meet what another left, finished or not.
  `MaxCalls` 3 fills a layer of two entries, or leaves one pending, and deletes
  or rewrites an entry. One client is enough there: the clash is with
  `Finalize`. With one entry per layer, or three keys, the run passes as well.

`record` uses the symmetry of keys and versions, which is sound since it checks
invariants only. The other runs use none. Deadlock is checked in all runs but `index_commands` and the command runs,
where everything has come to rest once the hits and the commands are through,
and `record`, where the last process has ended.

### Fairness

`ProxyFairness`: weak fairness of the proxy's own steps. Go's scheduler runs
every runnable goroutine, and none of these steps waits for another client.
`UpstreamFairness`: upstream answers or the connection breaks.
`EventuallyAnswered` needs the latter, because the timeout that the
configuration offers bounds nothing (see section 5).
In `UsageIndex`, weak fairness of the flush loop (the timer is armed again after
every flush), of a started reindex and of workers that are in an operation, and
strong fairness of `LoopCommit`: a flush that is tried again and again is not
refused by the database for ever. Clients, crashes, shutdown and the clock are
under no fairness.

### Mutants

Each property of each passing run has a mutant in `PROJECT.json`, a plausible
mistake in one definition that makes TLC report the property violated. The
mutated form stands right before the definition it replaces.

## 4. The proofs

The proofs are for every value of the constants that the named `ASSUME`s allow:
any number of clients, keys, tiers, hosts, workers, exports and sessions, any
patterns and statuses, and every initial state that `Init` allows. TLC evaluates
the `ASSUME`s on every run. Where a theorem has a hypothesis of its own, the table
gives it; each has a reason, below the table or in section 5.

| Theorem | States | Hypothesis |
|---|---|---|
| `TypeCorrect` | `ProxyHandler.TypeOK` | |
| `DigestsHold`, `StoresHold` | `DigestServed`, `WrongBodyNeverStored` | |
| `BypassHolds` | `BypassUncached` | |
| `FallbacksHold` | `FallbackHonoured` | |
| `CountingHolds` | `CountedOnce` | |
| `HeadsHold` | `HeadLength` | |
| `SuccessesHold` | `OnlySuccessStored` | |
| `OfflineHolds` | `OfflineReplay` | offline, `IntactArchives`, reads do not fail |
| `StaleHitsHold` | `NoStaleHit` | `PlainPorts` |
| `TiersSettle` | `SettledAgree` | |
| `BackfillsAreTransparent` | `BackfillTransparent` | |
| `IndexTypeCorrect` | `UsageIndex.TypeOK` | |
| `HitsCountedOnce`, `StatsComplete` | `NoHitCountedTwice`, `StatsPreserved` | |
| `IndexImplementsLedger` | `ImplementsLedger` | |
| `ReindexIsExact` | `ReindexExact` | |
| `EvictIsExact` | `EvictExact` | `AgeSensible` |
| `OrderAlwaysMatchesMap`, `ServedLeavesOutliveMargin` | `OrderMatchesMap`, `ServedOutlivesMargin` | |
| `ExportedRootIsKept`, `ServedChains`, `ServerHoldsPair` | `ExportedRootKept`, `ServedChainsToTrusted`, `PairMatches` | |
| `FinishedArchiveReplays`, `UnfinishedAddsNothing`, `QuietArchiveComplete` | `FinalizedReplays`, `UnfinishedStaysOut`, `QuietComplete` | `"cas" \notin Reuse` |
| `CommandsTypeCorrect` | `CacheCommands.TypeOK` | |
| `OthersKept` | `OthersUntouched` | |
| `NothingLeft` | `InvalidateComplete` | `PagedTiers = {}` |
| `ReportsExact`, `TiersAreIndexed`, `RowsAlwaysFollow` | `ReportExact`, `TiersIndexed`, `RowsFollow` | `PagedTiers = {}` |
| `ListsComplete` | `ListComplete` | `PagedTiers = {}`, `IsFiniteSet(Keys)` |

So each safety property that a passing run checks is stated by a theorem.

### `ProxyHandlerProofs`

The properties are not inductive. That a client gets the right body at the end
depends on what was verified several steps before, and on which of the two
handlers it is in. `IndInv` is `TypeOK`, `LocalInv` and `StoreSound`:

* `Flow`: for each place of the goroutine, what it has in hand (a response or
  none, a fallback with usable metadata, metadata to store that fits the
  response, `userData` exactly when the request was not bypassed);
* `Counted`: what has been recorded so far at each place;
* `Verified`: a pinned request carries only the pinned body past a
  verification site;
* `Refreshed`: what a request with a fallback may be answered with;
* `HeadSound`: a HEAD from the cache has a length;
* `StoreSound`: no entry of an excluded request, and metadata in the store has
  a cacheable status and, for a HEAD, a length.

`Local` is an operator on one client's values, so `LocalFrame` settles in one
place that a step of one client leaves the others alone. There is one lemma for
each group of actions, and under it one step per action. The body files are not
in `IndInv` beyond their type: `DigestServed` does not rest on what is in the
store, since every hit is verified after it was read. That is why it survives
any interleaving of writers.

`OfflineHolds` adds `OfflineInv`: the archive is what it was, and each client is
at one of the places that an offline request reaches. It is for an archive whose
pinned bodies are right (`IntactArchives`), since a wrong one is sent upstream
(finding 1). `StaleHitsHold` is for requests that do not spell out the default
port (`PlainPorts`), since the others are not revalidated (finding 2).

### `TieredStoreProofs` and `BackfillProofs`

`SettledAgree` alone is not inductive: a backfill writes what its client read
several steps before, and a put settles only what its goroutines wrote. `IndInv`
adds

* `Shapes`: what a job at each place has in hand;
* `AloneMeans`: a client that is `alone` in a put or a delete is the only one that
  can change the tiers, but for the evict command's deletes;
* `Progress`: the tiers that such a client has been through hold what it leaves;
* `SettledQuiet`: while the store is settled no put or delete is under way, and
  whatever a backfill is about to write is the settled version or, with `Torn`
  tiers, a damaged copy of it.

`BackfillTransparent` is about tiers that disagree, where none of this helps: two
tiers may hold different versions, and a Get that has passed the first by must not
fill an older version in over it. `FillInv` says why it does not. While no put or
delete runs (`ReadersMeet`), there is for each part a tier `h` and a version `b`
with: no Get has gone past `h`; up to `h` the tiers hold `b`, a damaged copy or
nothing, apart from the first before a Get has passed it; and `b` is what any Get
fills in. When no Get is under way `h` is simply the first tier after the local one
that has the part (`QuietAgreed`); evictions, which take the local copy away, and
backfills keep the same `h` and `b`.

### `UsageIndexProofs`

What a step does to rows, buffer and batches is one of nine effects (`Effect`:
record, swap, commit, requeue, upsert, reset, drop, lose, nothing), whichever
goroutine takes it. `StepHasEffect` sorts the actions, and what concerns hits is
proved once for each effect. The effects need little of the state, and the
invariant has it: buffered hits are dropped only after their row (`DropsDiscarded`),
a batch of the reindex lives only during its flush, so that the next one overwrites
none (`BatchWithFlush`), and a delta has hits (`DeltasHaveHits`). The same effects
are steps or stutters of `HitLedger`, which is the step part of
`IndexImplementsLedger`.

`ReindexIsExact` is about every key that no worker put or deleted, while workers may do
that to all others: an entry that is put beside a reindex loses its row (section 5). For
a key whose storage error the reindex dropped it leaves the two outcomes that the code
has, no row or size 0. Its invariant, `ExactInv`, holds until the
eviction deletes its first entry. `RowSound` says that whatever the
others do meanwhile, a row of such a key that they write has the size that is on disk
and a row that they delete has no entry; so what the walk has dealt with stays right
(`WalkOf`, one conjunct for each place of the reindex).

`EvictIsExact` compares two sums: of the sizes of all rows, when the eviction begins,
and of the sizes on disk, when it ends. `MapThenSumSet` is a recursion over the
subsets of a set of unknown size, and an induction over it takes an operator as a
parameter; the proof goes round that. A sum is the number of its units:
`Units(f, T)` has `f[x]` elements for each `x` of `T`, so that the library's facts
about cardinalities give what a sum does when an element joins it or when its set is
split (`WeightFacts`, `WeightSplits`). That the recursion has this value
(`AdderIsWeight`) is proved from a smallest subset where it would not.

With sums at hand `EvictInv` is the account of the loop, for an index that agreed with
the directory when the eviction began: what is freed is the weight of what is gone, the
entry that went last was needed (`Account`), entries go from the candidates only
(`Progress`), none of them too young (`Candidates`), and those gone were used no later
than those left (`InOrder`). A flush may write rows between the total and the list of
candidates, and a reindex may run; while nothing is deleted they leave every row its
size (`RowsStayRight`), as long as no request writes (`written`) and the reindex drops
no error (`dropped`), which are in the property. `AgeSensible` says that `--min-age` is
less than the time since the epoch, since `runEvict` drops a cutoff that is not positive
(`cmd/escrow-proxy/cache.go:736`, `index.go:285`).

### `AuthorityProofs`

For the leaves, that the order names the cached hosts once each is proved from what
`RemoveFirst`, appending and cutting off the head do to a sequence without
repetition. For the files, `AuthInv` says how they go together at each place of the
process that writes them (`HolderSound`: the certificate is damaged, whole, then the
key is damaged, whole) and that a process that holds a certificate holds the one in
the file. From the step where a process generates a CA over files that are there, or while
another is writing them (`overwritten`), nothing is claimed, as in the properties.

### `RecordSessionProofs`

The argument is about the files. `FilesKept`: all files of a session's archive
(`Required`) are on disk or still in its list of writes; `IndexLast`: the index is
the last of that list, and no other file is one; `IndexSound`: the index on disk
describes the last archive that was completed. An archive that a session reports
as finished has an empty list, so it is whole and its index is its own; one that is
not finished has not written its index. For `QuietComplete`, `Gathered` says of each
key that was put that it is still to be read, or not whole in the storage, or in
the writer.

The hypothesis is that no CAS directory is used by two sessions. Without it
the theorems are false, as section 5 says: a blob that a crash left truncated is
taken for written, and metadata is replaced under an old index. OCI
directories may be used again, as in the run.

### `CacheCommandsProofs`

`TypeInv` says what a command has in hand at each place (`CourseOf`). `SeenInv`: for a
key that serve has not changed, for which no error was dropped and of which the command
has not begun to delete anything (`Undisturbed`), what the command or serve has in hand
for a faster tier is what a read returns, so that writing it there changes nothing, and
what can be read is what could be read when the command began. `OthersKept` follows
step by step. `GoneInv`: an entry that is to be deleted is, one after the other,
to be listed, listed, in hand, found (`Searched`), then left to do, in deletion, or
gone from all tiers and the index (`DeletedUp`). `RemovedInv` says the same of an entry
that is reported as deleted, whether the command ends well or not: it is in the output
only once both files are gone everywhere, and its row goes next. For the row both need
to know where its hit is: after the row was deleted it is neither in the buffer nor in
a batch, unless the batch was under way then (`overtaken`).

`NothingLeft` is for tiers that list all their objects: with S3's pages it is false,
as `commands_s3` shows. That a tier fails, and that serve reads and deletes beside the
command, is all allowed.

### `CommandReportsProofs`

What a command reports rests on what it has decided and counted by where it is
(`PathInv`) and on what its walk has found: `FoundInv` follows a key, and says that a
matching entry is listed, in hand or found, that nothing else is found, and that at the
end of the walk what is found is what matches. `ReportInv` carries this on: of an
invalidation, that the matching keys are those left, in deletion or counted
(`InvalidatedOf`); of a reindex, which keys it has counted so far as inserted, updated
or removed, and that the row of each is there, has the size of the body, or is gone
(`ReindexedOf`). `ReportsExact` and `TiersAreIndexed` follow. `ListInv` says what a list
has cut off when it reports that it is truncated; it compares cardinalities, so
`ListsComplete` is for a finite set of keys. `FollowInv` (`FollowedOf`) says, for an
entry that serve leaves alone, where its row may differ from the one it had at the
start: a new row, and a hit that the command still buffers or is flushing (`Held`), are
those of an entry that can be read or is in deletion; a row that is gone is that of an
entry that a deletion is past the metadata of, or that cannot be read whole.
`RowsAlwaysFollow` is its end. An entry counts (`Alone`) as long as no error was dropped
and no flush was under way during `Index.Delete`.

The reindex command's part of `CommandsAssumption` is what `runReindex` makes sure of:
it refuses to run without an index and takes no filter, so it walks all keys.

All four are for tiers that list completely (`PagedTiers = {}`). With S3's pages a
report counts the first page only, and a reindex takes away the rows of the others
(section 5).

### Only model-checked

* Liveness (`EventuallyAnswered`, `HitsReachTable`) is out of the prover's reach.
* The findings are counterexamples, found by TLC.

## 5. Findings

Three runs end in a violation of something the repository says of itself:

1. `proxy_offline_upstream`: offline, a cached body with the wrong digest sends
   the request upstream (`handler.go:192`, against `handler.go:156`).
2. `proxy_mitm_revalidate`: revalidate patterns are matched against the URL with
   the MITM path's `:443`, exclude patterns without it (`handler.go:199`).
3. `commands_s3`: `S3.List` returns the first page of the listing only, at most
   1000 objects or 500 entries (`s3.go:113`). `invalidate --all` ("delete every
   entry", `cmd/escrow-proxy/cache.go:1057`) ends well and leaves the rest, which a
   later read copies into the local tier again. Lists without an index miss the
   same entries, and `reindex` deletes their rows.

Known divergences that have no run of their own; each property is worded around
the one it meets:

* A pinned body that upstream cuts short is served with its 2xx status and
  without verification (`handler.go:306`, `ServeTruncated`).
* A fallback is whatever `ReadAll` returned, so without a digest it may be half
  of what another client is writing (`local.go:41`, `handler.go:301`).
* Two clients that miss on one key both fetch it; `docs/architecture.md:144` says
  they are coalesced.
* The transport's marker header is stripped in `HandleResponse` only after the
  bypass check (`handler.go:242`), so a bypassed request's 502 carries it.
* `evict --min-age` does not see hits that a running `serve` still buffers
  (`cmd/escrow-proxy/cache.go:720`).
* Shutdown closes the index while requests are being served: their hits are lost
  (`main.go:415`).
* `--upstream-timeout` bounds nothing: no client or context gets it
  (`proxy.go:104`, against `README.md:439`), so an upstream that accepts a request
  and never answers holds it for ever.
* A flush in flight brings back the row of an entry deleted meanwhile
  (`index.go:207`, against `index.go:204`). The command `invalidate --key` does this to
  itself when its own flush has taken the hit of the lookup before `Index.Delete` and
  commits it afterwards: the state `overtaken` of `CacheCommands`.
* The walk skips without an error what it cannot read or parse (`cache.go:146-158`), and
  the reindex then deletes the row of that entry and reports success; an error of `Size`
  makes it a row of size 0 (`cache.go:209-212`). `ReindexExact` names the entry
  (`dropped`) and allows these two outcomes for it.
* Orphan rows count towards evict's total but not towards what was freed, so too
  much is evicted (`cmd/escrow-proxy/cache.go:760`).
* A read that found an entry in the second tier fills the first one after both
  were deleted from: the entry is back (`tiered.go:35`, against `README.md:159`).
* A put that fails in the second tier is reported, and `cache.Put` stops after
  the metadata; `docs/architecture.md:141` says that the first tier still serves.
* `Tiered.Exists` swallows errors (`tiered.go:83`), so a delete may report that an
  entry is not there while a tier that failed has it; and when the metadata went
  and the body did not, no command can delete the body.
* A CAS destination that is used again: a body file that a crash left truncated
  is taken for written (`cas.go:67`), and a session that crashes has replaced the
  metadata of an archive whose index still names the old bodies. With
  `Reuse = {"cas"}` `FinalizedReplays` and `UnfinishedStaysOut` fail this way.
* An OCI layer that a crash left truncated is read without an error, so entries
  are missing or have an empty body (`oci.go:357`).
* Only stored keys are recorded: a request answered from the cache leaves nothing
  in the archive (`recorder.go:95`; `README.md:129` says that all cached entries
  are recorded).
* `PushToRegistry` and `PullFromRegistry` have no caller, so an archive named by a
  registry reference is a local directory of that name.
* The leaf cache evicts in order of insertion; `README.md:474` calls it LRU.
* The reindex deletes every row that its listing did not see, also that of an
  entry stored since (`cache.go:249`, against `cache.go:191`), and
  `main.go:467` runs it beside the proxy.
* `Finalize` starts as soon as `ListenAndServe` returns, before the requests in
  flight are through: the archive lacks what they store (`main.go:410`, against
  `docs/architecture.md:145`).
* Two first starts at the same time both generate a CA and overwrite each other's
  files: the proxy may run with a CA that is on disk no more, or the files may be
  a certificate and a key that do not belong together, which `LoadCA` does not
  notice. `docs/ci-cd-integration.md:28` starts `serve` in the background and runs
  `ca export` right after it.
* `EnsureCA` takes any error of `os.Stat` for a first run (`ca.go:117`). One that cannot
  stat the certificate that is there makes a new CA and writes over both files: the root
  that clients trust is gone, a running proxy signs with the old one, and a process that
  loads in between may have the certificate of one CA and the key of the other.
  `README.md:84` says that the CA is generated on the first run.
* After a crash inside `SaveCA` no command starts until the files are deleted by
  hand. Only one of `--ca-cert` and `--ca-key` is ignored (`ca.go:110`).
* `list`, `show`, `domains` and dry runs fill the local tier from slower ones
  (`tiered.go:35`); `cmd/escrow-proxy/cache.go:1022` says that a dry run does not
  touch storage. `show`, `list --key` and `invalidate --key` count as hits.
* `Tiered` drops the errors of `List`, `Get` and `Exists`, so an invalidation ends
  well although a tier that could not be asked still has the entry.
* `Tiered.Get` makes `ErrNotFound` of any error of its tiers, so a failing tier
  makes `Cache.Get` delete the row of an entry that is there.
* A read of the proxy that has the entry in hand puts it back into the local tier
  after an invalidation, and its buffered hit makes a row for it again
  (`index.go:204` drops only the hits in the command's own buffer).
* A body whose metadata is gone, and metadata that does not unmarshal, are removed
  by no bulk command: the walk skips them.
* `reindex` over tiers makes rows for entries that are only in the cloud
  (`index.go:1` calls the index L1-only, `cmd/escrow-proxy/cache.go:1164` speaks of
  the local directory), and a later `evict` counts their bytes as local.
* With the index, `list --url-prefix` uses `LIKE`, where `%`, `_` and letter case
  differ from the `HasPrefix` of `invalidate`, and `method =` is case-sensitive
  where `invalidate` folds case. `invalidate --key` ignores `--method`.
* `parseSize` multiplies in `int64` without a check: `8388608T` is negative and
  `16777216T` is 0.

## 6. Not modelled, and the plan

Not modelled: metrics beyond the counting above, configuration parsing, logging
and output (pure output or sequential code without state), the cloud SDKs,
`PushToRegistry`, `PullFromRegistry` and `DetectFormat` (without a caller, or a look
at the spelling of a path). `offline --allow-fallback`, the archive as a read-only
first tier in front of the real storage, has no module of its own: it is an
instance of `TieredStore`, where a tier's puts and deletes may always fail.

Still to come:

1. The cache key's encoding, and `parseSize` and `parseAge`, against reference
   definitions on bounded inputs.
2. An abstract specification of the cache (what a single atomic store would
   promise) that `TieredStore` without concurrent calls implements.
