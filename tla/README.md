# Layerlens: a formal model

Layerlens analyses container images layer by layer. A server pulls an image from
a registry or from a Docker daemon, indexes each layer into a durable analysis
cache bounded in bytes, and compares two images by squashing and diffing those
indexes; a web client polls the pulls and browses the comparison as a tree.

This directory holds TLA+ modules translated from that source, the TLC
configurations that check them on small instances, and theorems that TLAPS
checks for every value of the constants. `PROJECT.json` ties every definition to
the lines it models (`map`), every property to a mutation of the code that
breaks it (`mutants`), and every known hazard of the code to the properties that
watch it (`hazards`).

    tlc -workers 2 -config MCCacheStore_core.cfg MCCacheStore     # one run
    tlapm CacheStoreProofs.tla                                    # one module of proofs

Contents: [The system](#the-system) · [The modules](#the-modules) ·
[The runs](#the-runs) · [Bounds](#bounds) · [Fairness](#fairness) ·
[The proofs](#the-proofs) · [Findings](#findings) ·
[Known deviations](#known-deviations) · [Not modelled](#not-modelled) ·
[Plan](#plan)

## The system

Requests meet shared state in four places: the pull manager's table, the
analysis cache's tables and ledger, the files under the cache's root, and the
comparison cache. Every one of them is entered by goroutines the others do not
wait for.

```
 browser ──POST/GET/DELETE /pulls──▶ pull manager ──launches──▶ run (goroutine)
    │                                     │  ▲                      │
    │                          cachedByRef│  │progress reports      │ registry / docker save
    │                                     ▼  └──────────────────────┤
    │                               analysis cache ◀──Begin/UseLayer/PutLayer/Commit
    │                                     ▲  files: layers/, images/, staging/
    └──GET /diff/tree──▶ handler ──▶ comparison cache ──assembles from──┘
```

### Analysis cache — `internal/cachestore`
*State.* In memory, under one `RWMutex` `mu`: the images (record, size of its
file), the layers (size of their directory), the open transactions with the
layers each counts on, and `accounted`, the bytes charged against the cap. On
disk: `layers/<diff id>/{index,layer.json}`, `images/<id>.json`, `staging/`.
*Operations.* `Open` (lock, sweep), `Begin`, `UseLayer`, `PutLayer`, `Commit`,
`Abort`; `GetImage`, `ListImages`, `LayerIndex`; `Touch`, `UpgradeProvenance`.
*Hard.* Staging is written outside `mu`; a reservation may evict, with `mu` held
across file removals; per-layer digest locks are held while waiting for `mu`;
record rewrites hold no lock at all while they touch the file; the process may
die between any two renames, and only the order of renames protects the reader.
*Correct when* a listed image has all its layers, a listed layer is whole, the
ledger equals the tables plus what is granted, the cap holds, pinned images stay,
eviction takes no image more than it has to and ends, and what the sweep rebuilds
is what the disk completely holds.

### Pull manager — `internal/ingest/manager.go`
*State.* Under `mu`: `pulls`/`order` (the table), `byKey` (deduplication index),
`inFlight`. Each pull has its own `mu`, atomics for its counters, a context with
a deadline, and a goroutine.
*Operations.* `Start` (join, record, or admit and launch), `Get`/`List`,
`Cancel`, and the run: `resolve`, registry ingest or docker save with a fallback
from one to the other, `finish`, `releaseSlot`.
*Hard.* `Start` takes `mu` three times and looks at the cache in between; a DELETE
marks the pull under its own mutex and cancels its context later; the deadline,
a DELETE and the end of the run race for the outcome; the table drops finished
pulls while requests and goroutines still hold them.
*Correct when* a slot is held exactly by each run that has not ended, identical
pulls are shared, live pulls stay reachable, the outcome is final and says what
happened, and every run ends.

### Ingest pipeline — `internal/ingest/{ingester,savetar,layout}.go`
*State.* The position in a manifest, or in a save stream the buffered small
members, the latched target and the layers dealt with; a transaction of the
cache; the progress it reports to the pull.
*Operations.* `Ingest` (registry: one layer after the other, known layers
skipped), `IngestDockerSave` (one pass over a tar, then `reconcile`),
`LoadFixtures`.
*Hard.* The members of a save stream come in any order: a layer may precede the
manifest that names it, be buffered because it is small, be no layer at all, or
be drained because the cache has it, long before the record that counts on it is
committed, while other ingests evict; the record is read back after its
transaction closed.
*Correct when* it fails only for a cause of its own, what it commits is whole,
what it reports counts each layer once, and it ends.

### Comparison cache and assembly — `internal/server/{comparison,handlers_diff}.go`
*State.* An LRU of assembled comparisons and a map of assemblies in flight,
under one mutex.
*Hard.* The images were looked up before the assembly, which loads layers one
at a time from a cache that goes on evicting; the leader's client may leave
while others wait; a failure must reach the waiters and must not be remembered.
*Correct when* a comparison is assembled once, every answer is whole and for its
own selection, an error names the image that is gone, every request is answered.

### Layer analysis — `internal/analyze`
*State.* `indexState` while a tar is read, the cumulative tree while layers are
squashed; the rest are functions.
*Operations.* `IndexLayer` (tar to changeset: entries, whiteouts, opaque
markers, an entry cap, a ledger of bytes), `Squasher.Apply` (three loops over a
changeset), `Diff` (two trees merged, statuses, sums), `ChangesetDigest`,
`ChainIDs`, `TrunkLCP`, `CouldBeSharedEdges`, history matching.
*Hard.* Members of a tar come in any order and may repeat, mark a path they also
restate, or lie beneath something that is no directory; directories may be
implied only; a path may be a directory on one side and a file on the other.
*Correct when* squashing is overlaying, every path keeps its directories, sums
are those of the files shown, every change can be found by browsing, and layers
joined in the graph have one effect.

### HTTP API — `internal/server`
*State.* None beside the comparison cache. *Operations.* `GET /diff/tree`
(parameters, a directory's rows filtered, sorted and cut into pages, with some
of the next level embedded), `GET /diff/layers` (trunk, branches, edges), image
listing and details, the `/pulls` handlers in front of the manager.
*Hard.* A cursor resumes by section and name in a list another request computed;
embedded levels share one budget, and the client takes some of them for whole.
*Correct when* paging neither repeats nor skips, and a level taken over is the
level that would have been sent.

### Outbound HTTP guard — `internal/safehttp`
*State.* Of each response body: bytes read, `tripped`, the request's context, and
a watchdog goroutine; the hosts from which a small blob is expected.
*Hard.* The watchdog marks and cancels while a read is under way, and a cancelled
connection may look like the end of the body.
*Correct when* a short body never passes for a whole one and no read waits for
ever.

### Registry and docker clients — `internal/ingest/{registry,docker}.go`
Stateless clients of external services.

### Domain types, image references, index codec, embedded UI, command
`internal/domain`, `imgref`, `index`, `webui`, `cmd/layerlens`: types and
interfaces, a grammar and an allowlist, a framed encoding, static files, and
wiring. `cmd/layerlens` also ingests the fixture images, pinned, at start-up,
while the server already serves.

### Fixture generator, deployment — `cmd/genfixtures`, `deploy`
Build-time and packaging.

### Web client — `web/src`
*State.* Query cache (polls while a pull is active), the two slots to compare,
the layer selection in the URL, and the tree adapter's pages and expansions.
*Hard.* Pages arrive out of order or for a selection no longer shown; a poll
that stops must not stop too early.

## The modules

| module | models | role |
|---|---|---|
| `ImageCatalog` | the promise of `domain.ImageStore` and `domain.LayerIndexSource` | abstract specification of the analysis cache |
| `CacheStore` | `internal/cachestore` | the analysis cache in detail |
| `CacheCatalog` | — | the refinement mapping from `CacheStore` to `ImageCatalog` |
| `CacheStoreProofs`, `CacheLedgerProofs`, `CacheCatalogProofs` | — | inductive invariant, eviction and files; the ledger; refinement |
| `PullManager` | `internal/ingest/manager.go`, and what `ingester.go` and `savetar.go` report to it | the lifecycle of pulls |
| `PullManagerProofs` | — | inductive invariant, retention, outcomes, progress |
| `Comparison` | `internal/server/comparison.go`, the handler in front of it and `Store.LayerIndex` | single-flight LRU and assembly, composed with `ImageCatalog` |
| `ComparisonProofs` | — | flights, entries and requests; answers, cancels, errors |
| `StallGuard` | `safehttp.stallGuard` | a response body, its reader and its watchdog |
| `Ingest` | `internal/ingest/{ingester,savetar}.go` | both kinds of ingest, composed with `ImageCatalog` and `StallGuard` |
| `IngestProofs` | — | both kinds of ingest, and the body they read |
| `LayerTree` | `internal/domain/{entry,tree}.go`, `analyze/fields.go` | entries, nodes, trees |
| `LayerIndex` | `analyze/{indexer,changeset}.go` | a pass over a layer's tar, and the changeset digest |
| `Squash` | `analyze/squash.go` | layers applied to a cumulative tree |
| `TreeDiff` | `analyze/diff.go` | two trees merged |
| `TreePages` | `server/{handlers_diff,pagination}.go`, `analyze/sort.go`, `web/src/compare/fs/treeAdapter.ts` | `GET /diff/tree` over a diff, and what the client keeps of it |
| `LayerGraph` | `analyze/{trunk,edges,chainid}.go`, `handleDiffLayers` | `GET /diff/layers` |
| `Analysis` | — | what the six before it promise together |
| `AnalysisProofs` | — | indexing and squashing; comparisons, their pages, the graph |
| `FiniteSums` | — | lemmas on sums over finite sets, for the ledgers |
| `MCCacheStore`, `MCPullManager`, `MCComparison`, `MCIngest`, `MCAnalysis` | — | instances for TLC |

`Analysis` extends `Squash`, `TreePages` and `LayerGraph`; `Squash` and
`LayerGraph` extend `LayerIndex`, `TreePages` extends `TreeDiff`, and both of
those extend `LayerTree`. `Ingest` extends `StallGuard`. `CacheCatalog` extends
`CacheStore`; it, `Comparison` and `Ingest` instantiate `ImageCatalog`.
`PullManager` stands alone.

`ImageCatalog` is used three times: `CacheStore` is shown to implement it, and
`Comparison` and `Ingest` run over it. What holds of a comparison or an ingest
therefore rests on the catalog only, and the catalog on the store. `Ingest` adds
one thing the catalog does not say: a layer an open transaction counts on is not
dropped. That is `TxnsHoldLayers` of the store's inductive invariant.

### `ImageCatalog`
`status` says of each image whether it is absent, listed or listed and pinned;
`readable` is the set of layers `LayerIndex` can open. A listed image has only
readable layers; a pinned one is not evicted; a restart lists a subset of what it
finds complete.

### `CacheStore`
| state | code |
|---|---|
| `up` | the process runs (`Open` has returned) |
| `images`, `layers`, `accounted` | `Store.images`, `Store.layers`, `Store.accounted` |
| `mu`, `victim` | which reservation holds `Store.mu` across steps, and the image it is taking away |
| `txn` | a `Txn` and the point its goroutine has reached; `deps` is `Txn.layers`, `own` is `ownBytes` |
| `writer` | a goroutine inside `Touch` or `UpgradeProvenance`, with its record and its file descriptor |
| `layerDir`, `recFile`, `tmpFile` | `layers/<id>` (nothing, index only, full), `images/<id>.json`, and the staging file all rewrites of that image share |
| `now` | `LastUsedAt`'s clock; `Tick` moves it |

An ingest may put or use the layers of its image and, as a save stream can hold
blobs that no config declares, those of `Stray`.

A call becomes the steps that other goroutines can see: one per hold of `mu` and
one per rename. `PutLayer` is `PutLayer` (lookup, digest lock) → `ReserveRefuse`
| (`EvictRecord` → `DropLayers`)* → `ReserveGrant` | `ReserveExhausted` →
`RenameIndex` → `RenameDoc` → `InstallLayer`, or `PutFails`. `Commit` is
`CommitStart` (declared-layers check, record staged) → the same reservation →
`RenameRecord` → `InstallRecord`, or `RecordFails`. `evictLRULocked` keeps `mu` across its file removals, so it is
two steps that hold `mu`: the record and its file first, then the layers. A
rewrite is `Touch` or `UpgradeProvenance` (memory, under `mu`) → `OpenTmp` →
`WriteTmp` → `RenameTmp` → `AccountRewrite`, or `RewriteFails`. A file carries the record it was
written from and whether it is whole: a rewrite that opens the shared staging
path truncates what another has there, and a descriptor follows its file through
a rename or an unlink, as in POSIX. `Crash` may come between any two steps and
keeps the disk; `Open` is `sweep`.

### `PullManager`
| state | code |
|---|---|
| `table` | `Manager.pulls`/`order`; ids are allocated in order, so the order is the ids' |
| `byKey`, `inFlight` | the same fields |
| `pull` | `pull` objects, kept after the table has dropped them: state, `terminal`, context, `layersTotal`, `layersDone`, `currentLayer`, `imageID` |
| `run` | the goroutine `launch` starts: where it stands, on which path, with an error or not, how many blobs or members it has read |
| `caller` | where a POST (`Start`) or DELETE (`Cancel`) stands between two holds of a lock |
| `cached` | keys a cached image answers for; changed by runs and by everything else (`CacheChanges`) |

`Start` is `Submit` (existing) → `LookupCached` (no lock held) → `Record` →
`Settle`, or `JoinOrRefuse` | `Launch`. `Cancel` is `Cancel` → `MarkCancelled` →
`Stop`: between the last two the pull says it is cancelled and its run has not
heard. A run is one action per report it makes to its pull; `Error` stands for
any failure of the registry, the daemon, the stream, the cache or the context,
and `Failed` says where it leads: a registry shortcut whose context is live falls
back to docker save, everything else goes to `Finish`. `Finish` reads the outcome
off the error and the pull's own context; `finish` also says "cancelled" of an
error that is `context.Canceled` under a live context (`manager.go:812`), which no
run ends with: the only other context that is cancelled rather than timed out is
the round trip's (`safehttp.go:226`), by the watchdog, which reads as `ErrStalled`,
or when the body is closed already. Insertion and the release
of a slot both trim the table, as `evictLocked` does.

### `Comparison`
`entries` is the LRU, `inflight` the key's leading request, `req` the handlers,
`gone` the requests whose client has left. A handler looks both images up, then
hits, joins or leads; a leader loads one layer per step, left side first, and
`status`/`readable` change in between by any step of the catalog but a restart.
A comparison stands for its tree by the sequence of layers applied to each side:
that is what the tree is a function of.

A layer load is two steps, as `LayerIndex` has them: the lookup under the
store's lock (`FindLayer`), and the opening of the file after it (`LoadLayer`),
between which the layer may be evicted.

### `StallGuard`
`sent` is what the upstream has put on the wire, `line` whether the connection is
up, `read`/`tripped`/`closed` the fields of the same name, `cancelled` the
request's context, `watchdog` and `reader` the two goroutines. `Read` is two
steps, `ReadInner` (whatever the connection returns, a clean end included once
the request is cancelled) and `Return` (which looks at `tripped`); the watchdog
marks first and cancels then (`Trip`). Time is a window that may pass at any
moment.

### `Ingest`
`save` is `IngestDockerSave` with its parser: the members seen, how many are
buffered, the latched target (`known`), the layers dealt with (`indexed`), the
position of `reconcile`, the counts of the result. `pull` is `Ingest`. `uses` is
what each transaction counts on. A member is one step when it is passed over,
buffered or drained, and two when it is indexed (the cache may change while it is
read). `reconcile` is a step per declared layer, three for one that comes from
the buffer. Other ingests store layers of `Elsewhere`, evict images, and drop what
no transaction counts on, between any two steps. `why` is the error an ingest
ended with.

### `LayerTree`, `LayerIndex`, `Squash`, `TreeDiff`
A path is a model value with the directories above it; everything the changeset
digest reads of an entry beside its kind and content is one `attr`. A tree is a
function from paths to nodes. Indexing is one action per tar member (`AddEntry`,
`AddMarker`), a failed pass is `Fail`; applying a layer is three loops, one step
per marker or entry, in any order the sorted loops could have for some naming of
the paths. `Diff` is a pure operator over two trees, with recursive functions for
statuses and sums.

### `TreePages`, `LayerGraph`, `Analysis`
`TreePage(d, params, cur)` is the answer of `GET /diff/tree` for a diff, `None`
when the request is refused: parameters with their defaults (`TreeParams`), a
path that must be there (`Found`), a cursor that must fit the query
(`CursorFits`), rows filtered and sorted, page start by section and name, the
budget of embedded rows handed out in row order. `SeedPage` is the client's
decision to take an embedded level for a whole page. `DiffLayers` is the answer of
`GET /diff/layers`. `Analysis` states what the parts promise together, over the
points a run of `Squash` goes through.

## The runs

| run | what it asks | distinct states |
|---|---|---|
| `cache_core` | two ingests of three images, two sharing a layer, one pinned, a stray layer in their streams, a cap that forces evictions, a crash between any two steps | 658,900 |
| `cache_rewrite` | one ingest against one rewrite of a record that grows, with failing renames and syncs: eviction, second commit and crash between its steps; refinement of `ImageCatalog` | 1,035,237 |
| `cache_faults` | two ingests with failing renames and syncs under `FairSpec`: every call returns | 153,348 |
| `pull_core` | two requests, two keys, two slots, a table of one: every interleaving of POST, DELETE, the deadline and the runs | 1,097,109 |
| `pull_live` | docker pulls through shortcut, fallback and save, beside `record` and a cache that changes, under `FairSpec` | 154,434 |
| `compare` | two requests for two selections of one pair, an LRU of one, clients that leave, a cache that evicts and ingests between any lookup, open and load | 182,600 |
| `analysis` | every image of two layers of at most two entries or markers over two nested directories, any member order and repetition: squashed, compared, browsed, graphed | 53,704 |
| `ingest` | a save stream in every member order beside a registry pull through the stall guard, over a cache that stores and evicts, under `FairSpec` | 188,438 |
| `cache_torn`, `cache_unpin`, `cache_orphans`, `pull_twice` | each refutes one sentence of the documentation, see [Findings](#findings) | stops at the counterexample |

What the passing runs show:

* **cache_core** — a listed image always has its layers (`ImagesHaveLayers`),
  though another ingest's eviction may run between `UseLayer` and `Commit`; the
  digest lock makes `PutLayer`'s re-check dead code (`PutsAreFirst`); the ledger
  is exact at every step (`AccountingExact`) and within the cap (`CapHeld`); no
  crash leaves a record whose layers are not complete (`DiskRecordsComplete`);
  eviction spares the pinned (`PinnedStays`), and an image goes, or a request that
  could fit is turned away, only while the bytes really held leave too little room
  (`EvictsOnlyForRoom`): nothing is charged twice, freed late or given back short.
* **cache_rewrite** — the ledger stays exact when a record grows while its image
  is evicted or committed again, and on every error path; one rewrite at a time
  never leaves a partial file; what is listed survives a crash
  (`CachedIsDurable`); and all of it refines `ImageCatalog`.
* **cache_faults** — no wait for a digest lock and `mu` is circular, the eviction
  loop ends, and a failure releases what it held.
* **pull_core** — slots, table, index and requests agree; live pulls of an
  uncached reference are shared; the table is trimmed as far as it may be; an
  outcome is never overwritten and "cancelled" is only said after a DELETE.
* **pull_live** — a pull that is done shows its image and all its layers; the
  fallback forgets what the shortcut had counted, so that a pull from a registry
  counts no more layers than the manifest has, and a save no more than the members
  of its stream that have gone by; every run ends.
* **compare** — one assembly per key; every answer is whole and its own; only a
  request's own client cancels it; an error names an image that is gone at that
  moment, even when the layer went between its lookup and the opening of its
  file; every request is answered.
* **analysis** — the three loops of `applyLayer` amount to overlaying the
  changeset (`SquashIsOverlay`), with every path under directories and the
  indexer's ledger exact (`Inv`); a row's sums are those of the files at or
  beneath it, both sides alike (`DiffAddsUp`); `filter=changed` hides no change
  and leads nowhere in vain (`ChangesAreFound`); whichever cursor of an earlier
  answer is sent with whichever query is refused or resumes right after its row
  (`PagesResume`); an embedded level the client takes over is the level it would
  have been sent (`SeedsAreWhole`); layers joined as "could be shared" lead to the
  same tree, and the trunk is the longest common chain (`SharingIsReal`).
* **ingest** — no ingest ever fails because a layer it has dealt with vanished,
  nor without a member missing or wrong (`FailsForCause`); a finished save counts
  each declared layer once, as indexed or as skipped (`CountsAddUp`); whenever the
  watchdog strikes, a body that ended is whole (`EofMeansWhole`); both kinds of
  ingest end (`IngestsEnd`).

## Bounds

Every bound is a CONSTANT or a guard that names it.

* `MaxBytes` is chosen per instance so that the images never all fit: the
  eviction loop has work in each passing run with several images, and the
  mutants of `Fits`, `Evictable` and `Replaced` fail in `cache_core`.
* `Stray` is one layer in `cache_core`, so that an ingest also brings what its image
  does not declare; the proofs leave it any set of layers.
* `MaxTime = 1`: two values of `LastUsedAt` are enough for an order and for the
  debounce; the order is total by the tie-break on the id.
* `MaxCrashes = 1`: a second crash starts from a disk that the first could have
  left, since `Open` changes the disk only to remove what is incomplete.
* Two ingests: the hazards are between one that evicts and one that counts on
  what is evicted. The proofs cover any number.
* `cache_rewrite` has one ingest and one rewrite: with two rewrites the
  documentation's claim is false (`cache_torn`), and with two ingests durability
  is (`phantom` below). Two concurrent rewrites under faults (a rename that finds
  the shared path already moved away among them), and the refinement
  with two ingests, rest on the proofs (`Inductive`, `CatalogRefined`).
* `CapHeld` is checked without rewrites, which may grow a record past the cap
  (`growth` below), and without faults (`leftover` below).
* `pull_core` has two ids: one pull to hold the table and one to displace it;
  `pull_twice` needs three. No cached image answers its keys, so that `record`
  is left to `pull_live` and `pull_twice`, and its place in `IndInv` and `TableTrimmed`
  to the proofs (`Inductive`, `TableStaysTrimmed`). With one cacheable key the
  properties of the run were checked once (2.2 million states); that instance is left
  out for its time. `LayerCount = 1`, `MaxMembers = 1`: the counter properties compare
  with the total, and the fallback already counts twice at one.
* `compare` has two requests, a leader and a waiter; a waiter never waits for
  another waiter. Safety with three requests was checked once (2.6 million
  states with symmetry) and is left out for its time.
* `analysis`: two layers, since a marker acts on what one lower tree holds, and
  the second layer meets every tree the first can make; two entries or markers,
  since rules of the loops are between a path and one marker or one path above
  it, and the cap is reached at two. A directory over a directory over a file
  gives each rule a level to skip; a page of one row, an embedded budget of one
  row and a limit of two put every row at a page boundary and cut levels short.
  The stacks for the graph have up to three layers of four kinds.
* `ingest`: three members of four make each member come first, last and not at
  all; a fourth member passes the cap on members, and a third small one the budget
  of those. One layer is shared by both images, one is brought by others. One byte of body, at
  an expected rate that rounds down to none.

## Fairness

* `CacheStore!FairSpec`: strong fairness of each goroutine inside a call.
  Strong, because `mu` may be taken again and again by others, and
  `sync.RWMutex` hands over to a waiting writer. No caller is obliged to make a
  call or to finish its transaction, and the clock need not move.
* `PullManager!FairSpec`: weak fairness of each run. A run waits only for
  registries, the daemon and files; the context's deadline (`pullContext`)
  interrupts the former, so no step of a run is disabled for ever. Requests are
  not fair: no property needs a DELETE to complete.
* `Comparison!FairSpec`: weak fairness of each handler. Its holds of the mutex
  are short and never nested, so a waiting handler is enabled again and stays
  enabled in this model (a hold is one step); file reads return. Clients and the
  analysis cache owe nothing.
* `Ingest!FairSpec`: weak fairness of each of the two ingests, of the reader of a
  body (a read that has something to return returns), and of the watchdog (its
  ticker fires). Nothing obliges a registry to send a byte; the daemon's stream
  goes on or ends, as `pullContext` sees to. Faults, evictions and other ingests
  need not happen.

## The proofs

TLAPS checks every theorem for all values of the constants, under the named
assumptions of the modules: sizes are natural numbers, the limits are positive,
the store's images, layers and ingests and the pull ids are finite sets (of any
size), a path lies in finitely many directories, every other set is arbitrary, and
`None` is no member of any of them, no number and no cursor. The retention
cap, the byte cap, the number of images, layers, ingests, rewrites, requests,
selections and pulls may be any.

| theorem | says |
|---|---|
| `CacheStoreProofs!Inductive` | the store's `IndInv` holds always |
| `… ImagesComplete`, `LayersComplete`, `PutsNeverCollide`, `TablesTyped` | its parts, as the runs state them |
| `… PinnedIsNeverEvicted` | `PinnedStays`: what may not leave the table |
| `… ApartRewritesAreWhole`, `UncrossedEntriesAreDurable`, `TimelyRecordsAreComplete` | `RecordFilesWhole`, `CachedIsDurable`, `DiskRecordsComplete`, each but for named interleavings |
| `CacheLedgerProofs!AccountsBalance` | `AccountingExact`: the ledger is the tables plus what is granted |
| `… EvictionsMakeRoom` | `EvictsOnlyForRoom`: what leaves the table leaves it for want of room |
| `… CapHolds` | `CapHeld`, until the process ends, but for a rewrite that grows a record |
| `… CapSurvivesRestarts` | `CapHeld` across crashes without failing renames, but for three named interleavings |
| `… CallsAreNeverStuck`, `CallsAlwaysAdvance` | why `CallsReturn`: no call waits for one that cannot go on, each step brings it nearer its end |
| `CacheCatalogProofs!CatalogRefined` | `CacheStore!Spec` implements `ImageCatalog!Spec` |
| `PullManagerProofs!Inductive` | the manager's `IndInv` holds always |
| `… SlotsNeverLeak`, `IndexSound`, `LiveReachable`, `OnePullPerUncachedKey` | its parts, and what follows |
| `… TableStaysTrimmed` | `TableTrimmed`: beyond the cap there are live pulls, runs that have not released their slot, and entries `record` inserted |
| `… OutcomesAreFinal`, `CancelledOnRequest` | `OutcomeIsFinal`, `OnlyDeleteCancels` |
| `… DoneShowsAll`, `NoLayerTwice` | `DoneIsComplete`, `LayersCountedOnce` |
| `… RunsAlwaysDescend` | why `RunsEnd`: each step of a run leaves it fewer |
| `ComparisonProofs!ComparisonsSound` | the comparison cache's `IndInv` holds always |
| `… OneAssembly`, `AnswersAreOwn`, `CancelsAreOwn`, `ErrorsNameTheEvicted` | `AssembledOnce`, `AnswersMatch`, `OnlyOwnClientCancels`, `ErrorNamesEvicted` |
| `… RequestsAreNeverStuck`, `HandlersAlwaysDescend` | why `RequestsAnswered`: leaders wait for nobody, each step of a handler leaves it fewer |
| `IngestProofs!IngestTyped`, `IngestsFailForCause`, `ShortBodiesShow` | `TypeOK`, `FailsForCause`, `EofMeansWhole` |
| `… SaveCountsAddUp` | `CountsAddUp`, for a stream that holds what it declares |
| `… ReadsAlwaysWatched`, `IngestsAlwaysDescend` | why `IngestsEnd`: a body that is read is watched, the steps of ingests, readers and watchdogs wear out |
| `AnalysisProofs!SquasherSound`, `SquashesOverlay` | `Inv` and `SquashIsOverlay` of `Squash` |
| `… ChangesFound`, `DiffsAddUp` | `ChangesAreFound`, `DiffAddsUp`: what a comparison says of a row |
| `… PagesAlwaysResume`, `SeedsAlwaysWhole` | `PagesResume`, `SeedsAreWhole`: what its pages show |
| `… GraphTellsTruth` | `SharingIsReal`: what the layer graph says of two images |

*The store.* `ImagesHaveLayers` is not inductive: nothing in it says that the
layers a commit is about to name are still there. `TxnsHoldLayers` adds it: what
a transaction counts on stays installed, because `layerReferencedLocked` looks at
open transactions, and a record past the declared-layers check names only such
layers. `InstalledLayersComplete` needs `PutsAreFirst`: a directory is replaced
only by the put that holds the digest, whose layer is in no table.
`WritersHoldFiles` types the descriptors, and `DownIsEmpty` lets `Open` start
from nothing. Each action has a lemma of its own. The refinement then maps
records to catalog steps: `EvictRecord` is `Evict`, `InstallRecord` is
`Publish`, an upgrade of provenance is `Pin`, `Open` is `Recover`.

*Files and records.* Three properties of the disk are not unconditional, and the
theorems say on what they depend. `RewritesApart` (no two rewrites of one record
overlap) is what `RecordFilesWhole` needs, and `cache_torn` shows what happens
otherwise. `CachedIsDurable` needs `CommitsUncrossed` besides: no image is evicted
between the rename of its new record and the install of its entry (*phantom*
below). `DiskRecordsComplete` needs `RewritesTimely` (no rewrite renames the
record of an image evicted meanwhile, *resurrect* below) and no failing rename or
sync. Each condition names interleavings the code permits; the theorems say that
there are no others.

*The ledger.* `AccountingExact` equates `accounted` with sums over the tables and
the transactions, and so needs what one step does to such a sum. `FiniteSums`
proves it of `MapThenFoldSet` without induction over sets: the library defines a
fold through a recursive function on sets, and a set on which a law fails could be
chosen of least cardinality, which is refuted by taking one element away. From the
three laws (empty sum, one element more, pointwise equality) follow sums over
unions, over a changed element and over a smaller set. `CacheLedgerProofs` then
has a lemma per action that touches the books. `EvictsOnlyForRoom` follows at once
for the loop, whose test reads the ledger: between an eviction and the removal of
the victim's layers the loop does not look, and `LeftByVictim` is empty when it
does. `CapHeld` follows with
`RewritesFit`, since `AccountRewrite` alone charges without a reservation
(*growth* below), and `[]up`, since what a failed sync left on disk is adopted at
the next start (*leftover*). Across restarts `CapHeld` is not inductive, because the
sweep charges what the disk holds: `DiskBacked` says that while the process runs
every complete directory and every record file is charged, by an entry or by the
transaction about to install one, with no more bytes on disk than in the books. Each
file is matched with one summand of the ledger (`SumCarried`), so what a crash leaves
fits. That needs `RecordsApart` (no two commits or rewrites write one record at a
time, *crossed* below), `RewritesTimely` (*resurrect*) and `RenamesFit` (*growth*);
TLC breaks the cap as soon as one of the three is dropped.

*The manager.* `SlotsMatchRuns` alone is inductive only with `RunsHavePulls` (a
slot is given back by a run that is over, once). That identical pulls are shared
needs `IndexCoversLive`: the live pull of an uncached key is the one the index
names; it would be lost if eviction dropped a live pull (`LivePullsListed`) or
if the index named a pull under another's key (`KeysPointIntoTable`).
`RequestsHoldPulls` says what a request may still do to a pull it looked up.
The steps of a run that only report share one lemma (`Reports`), those that end
it another (`RunMoves`). `TableTrimmed` rests on what `Trim` leaves: it removes
the oldest finished pulls, whose order has a least element in every set of
naturals, until the cap is met or none is left. Outcomes are final because of the
two steps that write one each find it unset, under the pull's mutex. Progress
needs `ProgressInv`: a run past the resolve counts layers of one total, its own
position bounds the counter, and a fallback starts from zero.

*Comparisons.* `IndInv` speaks of all requests at once. Its proof shows for each
action that the request that moves is sound again (`OneRequestInv`) and that the
others' soundness does not depend on what it changed: a waiter's key has a leader
while the waiter waits, and a leader's sequence of layers is a prefix of its
selection. `ErrorNamesEvicted` adds `CatalogSound`, which every step of the
catalog keeps: a listed image has only readable layers, so a layer that is gone
speaks for the image.

*Ingests.* `FailsForCause` needs that the layers a transaction counts on stay
readable, whatever others evict (`CacheInv`), and at each point of the two programs
that the layers dealt with are among those it counts on. `EofMeansWhole` needs `GuardInv`: the
watchdog marks before it cancels, so a cancelled connection with a short body is
never read without the mark, unless the caller itself left. `CountsAddUp` compares
counters with cardinalities: by `CountInv` the counters add up to the large blobs
that have gone by and the declared layers found after them. Under `HonestStream`
(a listed blob holds the layer its place declares, and no two large ones hold the
same) blobs and layers correspond one to one, so each layer is counted once.

*The analysis.* `IndInv` of `AnalysisProofs` has four parts: the types, `TreeRooted`
(every path has its directories), `LedgerInv` (the indexer's bytes are a sum over its
entries), and `OverlayInv`: during the third loop the tree is the lower tree,
less what the markers hide, overlaid with the entries applied so far. It is an
invariant of every point of the third loop, for any order of its steps in which directories
come before what they hold; in the first two loops the tree is the lower one less
what the markers handled so far hide.

*Comparisons and pages.* The points of a squash are finite trees (`TreesFinite`, an
invariant of its own), and what `Diff` shows is `Closed`: with a path it shows
what the path lies in. Statuses and sums are recursive functions on trees, which
only their own equations define. `StatusAt` solves the status recursion: a row
differs when it or a row beneath it does in itself (`Changed`). In place of an
induction, a path where the solution failed could be chosen deepest (`Deepest`),
and its children, where it holds, refute it. The sums go column by column: the fold
over children becomes a sum over the children's families (`SumFamily`), which
partition what lies beneath.
Rows have ranks, the number of rows that sort before them (`Ranked`), so that a
listing is a bijection that keeps the order (`SortedRows`). A cursor starts the
next page right after its own row (`PageStarts`), and one that fits the query was
issued for the same path and filter, hence the same listing. The budget of embedded
rows is a recursion along a page; it has a solution (`SpendExists`, by a least
counterexample), never goes below zero, and what the rows take adds up to what has
left it.

*The graph.* Layers of one changeset digest have the same paths, the same markers
and equal fields (`SameChangeset`), so what they make of a tree is alike path by path
(`OverlaysAlike`) and the squashed trees do not differ (`SameEffect`). That a
digest is drawn from these alone is the model's reading of `writeEntry`. The chain IDs
are a recursive function along a stack, and one more least counterexample shows that
it has a solution (`ChainExists`); equal chains then mean equal DiffIDs so far, and
so equal layers (`ChainsMatch`), and the trunk is the longest run of them. The
edges are listed by rank, as the rows are (`InOrderForm`), so each is listed once.
Assumed is that a DiffID names one layer (`StackAssumption`), which is what a digest
of the layer's bytes is.

*Progress.* A temporal proof of liveness is out of the prover's reach, but what makes
the four liveness properties true is not, and is proved for all constants. Each
process has a rank: a natural number for a run (`StepsLeft`), for a handler and for
both ingests (`SaveLeft`, `PullLeft`), and for a call of the store an order of three
parts: its points, whether it holds `mu`, and what its eviction loop has left
(`LoopLeft`). Every step of the process lowers its rank and no other step raises
it, so none goes round forever: a shortcut falls back once, an eviction loop takes
images that nobody can add meanwhile. Where a process waits, whom it waits for can go
on: a call waits for `mu`, and its holder can evict or leave (among the
evictable images there is a least recently used one, `OldestExists`); a request waits
for a leader, and leaders wait for nobody; an ingest waits for bytes, and the
watchdog of its body is there or has cancelled the request (`ReadsAreWatched`), its
windows being counted by the bytes that come in (`BodyLeft`), which is why `Floor`
must not be none. That the guards named there enable the steps is read off the
actions: `ENABLED` itself has no proof.

Only model-checked is the last step to liveness (`CallsReturn`, `RunsEnd`,
`RequestsAnswered`, `IngestsEnd`): that a process which can go on and is scheduled
fairly does, until its rank is used up. TLC checked every rank and invariant above
on the instances of the runs before they were proved.

## Findings

Four sentences of the documentation are not true of the code; each has a run
with a counterexample.

* `cache_torn` — "a concurrent reader sees the old file or the new one and never
  a partial write" (`store.go:888-889`). All rewrites of an image share one
  staging path and hold no lock: one renames what another is still writing.
* `cache_unpin` — "Pinned is monotonic — it can be set, never cleared"
  (`store.go:802-804`). `Commit` replaces an entry wholesale, pin included.
* `cache_orphans` — "Anything they leave unreferenced becomes evictable the
  moment the transaction closes" (`store.go:773-774`). Eviction starts from
  image records, so a layer no record ever named is freed by nothing but the
  eviction of some image that names it; a restart keeps it, since `Open` adopts every
  complete layer directory. In the counterexample an ingest of one image puts a
  layer and aborts. The next ingest, of another image with none of its layers, is
  then alone in the store, and as a whole, record included, would fit in the cap;
  its record is refused for the bytes of the orphan, with no image left to evict.
* `pull_twice` — an identical request in flight "returns the pull that covers it
  instead of starting a second one" (`manager.go:294-296`). `record` redirects
  the index from a live pull to a finished one.

## Known deviations

Met while modelling, reproduced by the models' actions, and without a run of
their own:

* *resurrect* — `writeRecord` renames its file into place whatever happened to
  the image since (`store.go:900`): a record evicted meanwhile is back on disk,
  over layers that may be gone. `sweep`'s comment (`store.go:187-191`) says that
  only corruption can leave such a record; `Open` removes it all the same.
  `DiskRecordsComplete` is therefore checked without rewrites.
* *phantom* — between the rename of a new record and the install of its entry
  (`store.go:755`) another ingest may evict the image's previous entry and
  remove the file just renamed: the image is listed and charged without a file
  until a restart, when it is gone, against "`accounted` keeps matching the
  bytes that are actually on disk" (`store.go:619-620`).
* *crossed* — two commits of one image (pulled under two references) may rename
  their records in one order and install their entries in the other
  (`store.go:755`, `store.go:766`): the table then charges one record while the disk
  holds the other, which the next start adopts, possibly over the cap. A commit
  and a rewrite of one record cross the same way.
* *growth* — a rewrite charges its growth without a reservation
  (`store.go:904`), so `accounted` may pass the "maximum bytes the analysis
  cache may occupy" (`main.go:90`) until the next reservation evicts.
* *thrash* — the refusal test looks at this ingest's bytes, the loop at all
  bytes (`lru.go:36`): an ingest may evict everything and then be refused,
  against "only once we know the image *can* fit do we start evicting"
  (`lru.go:18-19`). It may also evict for its first layer and be refused at a later
  one, as no step knows the size of what is still to come, against "nothing already
  cached is evicted on its behalf" (`.planning/ARCHITECTURE.md:754-755`).
* *overtaken* — `Touch` and `UpgradeProvenance` write the snapshot they took under
  `mu` with no lock held (`store.go:883`): a second commit, or another rewrite, that
  comes in between is overtaken, and the file holds the older record. The table
  keeps the newer one until a restart, which adopts the file: references, and a
  pin, that were added meanwhile are forgotten. What is left is a whole record of the
  right size over complete layers (`CachedIsDurable`, `AccountingExact`).
* *overwrite* — `record` inserts an entry that says "resolving" for a moment and
  settles it under another lock (`manager.go:345`), and a DELETE in between is
  overwritten: "cancelled" becomes "done", against "never change again"
  (`queries.ts:152`). `OutcomeIsFinal` speaks of launched pulls only.
* *frozen* — progress reported after a DELETE still changes a cancelled pull's
  counters and current layer (`manager.go:739`), where the client expects that
  a further poll could only return what it has (`queries.ts:152-153`).
* *inherited 404* — a waiter may be told that an image is gone although that
  image was ingested again before the waiter asked: it joined an assembly that
  had failed earlier and had not landed. `ErrorNamesEvicted` speaks of the moment
  a lookup or a load fails.
* *leftover* — a record or layer whose directory sync fails after its rename stays
  on disk, uncharged, under its final name (`store.go:602`, `store.go:755`); the
  next start adopts it, possibly over the cap.
* *not read back* — an image that is evicted between its commit and the read-back
  (`ingester.go:273`) is reported as a failed pull though it was committed;
  `FailsForCause` leaves the cause "evicted" free.
* *repeated small layer* — `indexBuffered` does not set `p.indexed`, against
  "indexed records every DiffID committed during this pass" (`savetar.go:78`): a
  layer small enough to be buffered and declared twice counts as indexed and as
  skipped. A known blob the stream repeats is counted twice, too. `CountsAddUp`
  speaks of streams and configs without repetition.
* *type change* — a path that is a directory on one side and a file on the other
  counts itself as a modified file, so `rowKindOf` draws it as "contains", against the "dir↔file exception" of the
  comment beside it (`treeAdapter.ts:95-100`); and the client's refinements hide
  directories in which only symlinks changed (`treeAdapter.ts:205-218`), which have
  no file counts. Both are views of rows the server sends as `DiffAddsUp` and
  `ChangesAreFound` describe them.
* *shutdown* — the store is closed while pulls and the fixture load may still
  write, against "must not be used afterwards" (`store.go:163-164`); the flock is
  released with it.
* *shared cap* — the size cap on a config blob is a set entry per digest, which the
  pull that has read it removes: another pull still reading the same config goes on
  without the cap (`safehttp.go:268-275`).

## Not modelled

*Analysis cache:* failures of `os.Remove` and of the rename inside eviction; the
loss of an un-synced rename at a power cut; the `Source` field and the length of
timestamps in a record's size; a crash within the sweep or between two layers of
one victim; digests that do not parse; the early ceiling on staged bytes
(`writeStagedLimit`), which is folded into `ReserveRefuse`.
*Pull manager:* byte counters, rates and estimates; the classification of
failures into codes; input validation in front of `Start`; what a restart
forgets (no pull is persisted).
*Ingest pipeline:* which manifest of nested indexes is linux/amd64 and the legacy
`manifest.json`: the target is there once all of its metadata is; sniffing of
compressions; `LoadFixtures`, which is an ingest of a local layout that pins.
*Outbound HTTP guard:* dialling, address screening, redirects, the caps on
metadata: predicates on one request.
*Layer analysis:* decompression, path sanitising, warnings, xattr filtering (all
inside `attr`), history matching: functions of one value without interplay.
*Comparison:* panics during an assembly.
*HTTP API:* routing, envelopes, authentication, image listing and details.
*Web client:* polling, selection in the URL, expansion and rendering: state of a
query library and pure views, apart from the levels the tree adapter takes over.
*All else* in the inventory is listed in `PROJECT.json` with its reason: clients
of external services, grammars, encodings, static files, wiring, build tools.

## Plan

Modelled, checked and where it says so proved: the analysis cache with its
refinement of the catalog, the pull manager, comparisons, both kinds of ingest
with the stall guard, the analysis from a tar to a page. What is left, in order of
importance:

1. **Ingest.** The walk to the amd64 manifest over a stream whose metadata is only
   partly there, where the latched target may differ from the final one; `Ingest`
   composed with `PullManager` in place of its `Error` and `FetchKnown`.
2. **Web client.** Slots, selection and polling as one state machine.
