# TLA+ models of deckgl-s3-cog-s1m

This directory holds a verification project for the repository: TLA+ modules
translated from its source, TLC configurations that check them on small
instances, and theorems about them checked by the TLA+ proof system. Paths below
are relative to the repository; `PROJECT.json` maps every definition to the lines
it models, and lists the hazards of the code with the properties that cover them.

- Check a model: `tlc -workers 2 -config MCLimiter_safety.cfg MCLimiter.tla`
- Check proofs: `tlapm LimiterProofs.tla`

## The system

The repository reads Cloud Optimized GeoTIFFs straight from object storage into a
deck.gl map. It has three layers:

1. **Libraries** (`packages/`): `geotiff` opens files and reads, merges, caches,
   throttles and decodes byte ranges; `deck.gl-geotiff` and `deck.gl-raster` turn
   them into tiled layers; `raster-reproject` triangulates reprojected tiles;
   `affine`, `proj`, `morecantile` and `epsg` are pure mathematics and tables.
2. **Viewer** (`app/viewer/app.js`): searches the API, signs the URLs of what it
   found, and shows it as a mosaic of images and as textures of a terrain.
3. **API** (`app/api/`): answers searches from a data lake of Parquet partitions
   through DuckDB, presigns URLs, and runs ingests in background threads. Batch
   programs fill the lake and keep the published index.

### Inventory

| Component | State | Operations | Hard behaviour | Correct when | Status |
|---|---|---|---|---|---|
| Request limiter (`limiter.ts`) | active count and waiter queue per origin | acquire, release, abort, priority scan | aborts between grant and continuation, releases called twice, priorities that change, callbacks that throw | never more reads than slots, no slot lost, most urgent waiter served, nobody starves | modelled, proved |
| Chunk cache (`chunk-cache.ts`) | LRU memory, in-flight loads, persistent store | fetch, joined loads, eviction, clear | loads joined at any stage, store that throws, abort of the loader | right bytes, one load per chunk, bytes accounted, every read settles | modelled, proved |
| Batched tile reads (`fetch.ts`, `coalesce.ts`) | per call: merged groups, requests, results | look up, merge, request in batches, slice | answers out of order, truncated and sparse tiles, one part failing | every tile gets its own bytes, requests within limits, calls settle | partly, proved |
| Decoder pool (`pool/`) | per worker: job ids, pending jobs | decode, answer, destroy | calls mixed in one pool, answers out of order, failures, destruction | an answer reaches its job, load counts pending jobs | partly, proved |
| COGLayer (`cog-layer.ts`, `raster-tile-layer.ts`) | opened file, projection, tileset, tiles | prop changes, open, removal, tile loads | opens that overtake each other, removal during an open | tiles are of the source their tileset was built for | partly, proved |
| MultiCOGLayer (`multi-cog-layer.ts`, `multi-raster-tileset/`) | opened sources, finest grid | prop changes, open, covering tiles, stitching, UV transform | several opens under way, grids that do not nest | tiles are of their sources, a band is sampled where its tile lies | modelled; sources proved |
| Mosaic layer (`mosaic-layer/`) | sources, spatial index, tile cache by id | new list, viewport, loads | lists and viewports that change apart, sources named by their place | the tiles in view are the sources in view | modelled, proved |
| Raster tileset (`raster-tileset/`) | cache of bounding volumes, nodes of a traversal | select, cull, sort | copies of the world, heights, views of a globe, levels that do not nest | selected tiles cover the view | partly |
| Mesh refinement (`delatin.ts`) | half-edges, queue, pending list | refine, split, legalise | flips of queued and pending triangles, degenerate points | a Delaunay triangulation with a current queue after each step | modelled |
| Ingest jobs and panel (`ingest_jobs.py`, `app.js`) | bounded registry of records, chains of polls | start, log, finish, poll | threads and polls that outlive a record | at most the limit plus running jobs, outcomes stand and are shown | modelled, proved |
| Newest-year cache (`lake.py`) | one entry with expiry per collection | read, reset | slow listings overlapping ingests | never older than the TTL | modelled, proved |
| Lake connection (`lake.py`, `duckdb_s3.py`) | one shared DuckDB connection | get, query, reset, retry | resets while others read credentials or query, sessions that end | a request that nobody disturbs gets a good connection | partly, proved |
| Collection descriptors (`descriptors.py`) | registered collections | list, parse, cap, newest year | years of folders, of names and of items | only what was asked for is written | partly, proved |
| Ingest and migration (`ingest_duckdb.py`, `ingest_manifest.py`, `migrate_lake_layout.py`) | partitions of the lake | acquire, reconcile, clear, write, verify | programs side by side, kills, unreadable headers | a run replaces what it writes; a strict run is complete; a verified migration may drop the old tree | partly, proved |
| Index programs (`refresh_manifest_index.py`, `rewrite_index_layout.py`) | published index files | refresh, stage, verify, copy | kills between two objects, removals that fail, publishing meanwhile | recent keys are the live ones, history untouched, rewriting keeps the rows | partly, proved |
| Presigning (`aws_s3.py`, `/sign`) | credentials, client, cache of URLs | sign, report, reset | windows told after the fact, credentials renewed or reset by another thread | no URL is used past its lapse | partly, proved |
| Viewer (`app.js`) | caches of URLs, files, tiles and textures; controls, searches, overlays | search, pick, move, toggle, enable, clear, paint | answers out of order, late textures, retries after a refusal | the picture is that of the controls and the newest answer | partly; pictures, overlays and opened files proved |
| GeoTIFF opening and metadata (`geotiff.ts`, `overview.ts`, `transform.ts`, `tile-matrix-set.ts`) | none after opening | sort images into levels and masks, derive transforms and grids | overviews in any order, sizes that round, rotated and south-up images | each pixel keeps its place on every level | partly |
| Codecs and arrays (`decode.ts`, `predictor.ts`, `array.ts`, `assemble.ts`) | none | undo predictors, unpack bits, clip, join | last tiles that are cut, bands stored apart, floats by planes | each sample keeps its value | partly |
| Raster layers, GPU modules (`render-pipeline.ts`, `gpu-modules/`) | none | choose modules, make textures, place a mesh | formats and interpretations that combine | each pixel keeps its colour | partly |
| Coordinate libraries (`affine`, `morecantile`, `proj`, `epsg`) | none | compose, invert, apply; tables | - | two ways to lay tiles agree | partly |
| Ingest options, other index builders, deployment | none, or files | - | - | - | not modelled |

How they interact: a layer opens a `GeoTIFF` over a source that `LimitedSource`
wraps (one limiter per process). Tile data is read through a `ChunkCachedSource` around
that, when there is a chunk cache; header reads go around it, through a view of the
limited source with a memory of its own (`geotiff.ts:355`). `fetchTiles` sends its batches
to the source of the data and its bytes to the pool. A layer hands deck.gl's `TileLayer` a tileset and a
callback; deck.gl asks the tileset which tiles a viewport needs and the callback for
each. The viewer asks `/search`, `/availability` and `/sign`; the API's ingest threads
share the registry, the newest-year cache and the lake connection with its request
threads; batch programs share nothing but the objects of the lake. The interfaces
between components are promises (JavaScript), locks (Python) and objects in a bucket.

Atomicity. JavaScript runs one synchronous stretch at a time, so an action is what runs
between two awaits, with everything it calls. In Python an action is what one lock
covers, or one read or write of shared state outside a lock; threads interleave
everywhere else. A batch program takes one step per object it lists, deletes or writes.

## The modules

| Module | Models | Extends |
|---|---|---|
| `Priority` | the order of tuples, `comparePriorities`, `normalizePriority`, and who is next | - |
| `PriorityScan` | the one-pass scan in `_releaseOne` | `Priority` |
| `ConcurrencyLimit` | abstract: what a concurrency limiter promises (no code of its own; the interface `ConcurrencyLimiter`) | - |
| `Limiter` | `Semaphore`, `PerOriginSemaphore`, `LimitedSource` | `Priority`, refines `ConcurrencyLimit` |
| `ChunkCache` | `ChunkCachedSource` over a store and a network | - |
| `TileReads` | `fetchTiles`, `coalesceRanges`, `getMultipleBytes`, `DecoderPool`, `WorkerWrapper` | - |
| `RasterTileLayer` | the tile layer both COG layers render through, and what they rely on in deck.gl | - |
| `CogLayer` | `COGLayer` | `RasterTileLayer` |
| `SecondaryTiles` | levels of a grid, covering tiles, stitching, UV transform | - |
| `MultiCogLayer` | `MultiCOGLayer` | `SecondaryTiles`, `RasterTileLayer` |
| `MosaicLayer` | `MosaicLayer`, `MosaicTileset2D` | - |
| `TileTraversal` | `RasterTileset2D.getTileIndices`, the traversal, `BoundingVolumeCache`, the order of requests | `SecondaryTiles` |
| `Delatin` | `RasterReprojector` | - |
| `Layers` | the layers side by side: properties that need no recursive operator | `CogLayer`, `MultiCogLayer`, `MosaicLayer` |
| `PixelPlaces` | affine transforms, the georeference of a file and its overviews, and the two ways to lay tiles over it | - |
| `CogPixels` | opening a file and reading a tile or a block of it up to the colours of its pixels | `PixelPlaces` |
| `IngestService` | `run_ingest_job`, its registry, `cached_latest_years` | - |
| `IngestPanel` | the viewer's panel that starts ingests and polls for their end, beside the server | `IngestService` |
| `Descriptors` | listing and parsing of the keys of a collection | - |
| `LakeIngest` | ingests and the migration over one lake | `Descriptors` |
| `IndexScripts` | refresh and rewriting of the published index | - |
| `LakeConnection` | `get_lake_duckdb`, `lake_query`, `reset_lake_duckdb` | - |
| `Lake` | the programs and the connection side by side | `LakeIngest`, `IndexScripts`, `LakeConnection` |
| `Presign` | credentials, client, cache of presigned URLs, `/sign` and `/search` | - |
| `SignedSources` | `signHref`, `resolveGeotiffSource`, one retry after a refusal | `Presign` |
| `ViewerSession` | controls, searches, imagery, ingest completion | - |
| `Terrain` | refreshes, sub-tiles, textures, clearing | - |
| `DrapeTiles` | the cache of decoded tiles and the painting of a texture | - |
| `Footprints` | the two overlays that follow the view | - |
| `LimiterProofs`, `PriorityProofs`, `ChunkCacheProofs`, `TileReadsProofs`, `LayersProofs`, `LakeProofs` | theorems | the modules they are named for, `TLAPS` |
| `IngestProofs` | theorems about the jobs, the newest year and the panel | `IngestPanel` |
| `ViewerProofs` | theorems about the viewer | `SignedSources`, `ViewerSession`, `Footprints`, `Terrain`, `DrapeTiles` |
| `MC*` | values of the constants for TLC, and compositions: `MCLayers` (`Layers`, `TileTraversal`, `Delatin`, `PriorityScan`, `CogPixels` with the files of `MCPictures`), `MCLake` (`Lake`), `MCViewer` (`SignedSources`, `ViewerSession`, `Terrain`, `DrapeTiles`, `Footprints`) | the modules they name |

A composition runs one *family* at a time: components that share no state have no
interleavings that a property could tell apart, so a behaviour follows one of them and
the others keep their initial values. Components that do interact are in one module or
extend one another (`SignedSources` runs the server of `Presign` and the viewer
together).

**Limiter.** `pc[f]` is where a read stands in `LimitedSource.fetch`; `active[o]` and
`queue[o]` are the fields of the origin's `Semaphore`. `Start` is the synchronous
prefix of `fetch` up to its await, `Settle` the finally block with `_releaseOne`, the
priority scan and the grant. A callback that throws ends `_releaseOne` where the
code's exception does (`ScanThrows`). `Pan` changes what the callbacks return.
`AbortElsewhere` is an abort between grant and continuation. A read that repeats
stands for a sequence of reads.

**ChunkCache.** A read asks for its chunks at once and waits for all. A load goes
through the stages of `fetchChunkUncached` (store lookup, network, store write) and
ends in two separate turns, as the promise chain does: the continuation that puts the
chunk in memory, and the one that removes the in-flight entry. Bytes carry their
position and chunks are small enough that truncation at the end of the file shows.

**TileReads.** A buffer is the interval of the file it came from, so handing a tile
somebody else's bytes is visible. The loops of `coalesce.ts` are recursive functions, one
value per turn, so that their results can be proved for any number of ranges. `FetchAnswers` carries a part through
`dispatchMerged`: the last answer of a batch requests the next, and the last of all
slices every range. `Assemble` submits all jobs of a call in one synchronous stretch;
each goes to the worker that is least loaded counting those just submitted.
`OwnPixels` also says that a worker's load is exactly what it has yet to answer.

**IngestService.** A job thread is spawn, log lines, exit, reset of the cache and the
final record; a search is lookup, listing without the lock, and store. `newest` is the
newest year of one region; every ingest that writes adds one. `wroteAt` and
`announced` are history variables used by properties alone.

**IngestPanel.** Each ingest has a chain: the configuration, the request that starts it,
polls and timers, then the environment, the years available and the options of the
panel. `pollId` is the one variable `ingestStatusPollId` that all chains write. The
server beside it is that of `IngestService`, whose registry may drop the record a chain
asks for.

**CogLayer, MultiCogLayer.** A file is what the properties tell apart: its number of
levels, whether its projection has to be looked up, whether the default pipeline can
show it. An open is a record that goes from header to projection to `setState`; each
change of the prop starts another and none is told to stop. `RasterTileLayer` keeps
which source the tileset was built from and which source the callback reads, because
deck.gl builds the tileset once and calls the callback of the last render.
`SecondaryTiles` does the arithmetic of grids in integers; `BandsAligned` compares, place
by place, what the shader samples with the pixel that lies there.

**MosaicLayer.** Boxes and viewports are intervals of a line. `tileset.cache` is keyed
by the id of a source, or by its place in the list where it has none. `handedOn`, a history
variable, holds the ids of tiles whose place has another source since they were made.

**TileTraversal.** One action is a whole call of `getTileIndices`. Common space is a
plane of integers; a leaning view sees ground at height h further south. The traversal
is a RECURSIVE operator, as is the refinement of `Delatin`, so their properties
(`TilesMatchView`, `MeshIsSound`) are stated in `MCLayers`, and `Layers` is free of both.

**Delatin.** `triangles`, `halfedges`, `candidates`, `queueIndices`, `queue`, `errors`
and `pending` are the fields of the class; points are exact on a lattice, and the error
at a point is an arbitrary function of its place, which is more than any projection.

**PixelPlaces, CogPixels.** A file is opened, then one tile is drawn or one block of
tiles is read. Nothing of a read outlives it, so one read per behaviour loses nothing.
The writer of the file is modelled beside its reader: what the code undoes (predictor,
packing of bits, padding of the last tiles) is done first. Colours and places are exact
fractions. `Regular` names the files that the code's own comments exclude from promises.
What the translation showed, and no property claims otherwise: an overview is decoded with the
tags of the full image (`overview.ts:40`); the pipeline has a module for masks when the
*full* image has one, and a tile whose mask is not in the file is drawn without; the tie
point's pixel is ignored (`transform.ts:40`); bands stored apart have no range check on
x and y; a `domain` rescales colours after `WhiteIsZero` and `Colormap`, though
`cog-layer.ts:186` speaks of raw units; four samples of CMYK show as RGBA
(`render-pipeline.ts:239`).

**LakeIngest.** A program is a record with a stage; a partition maps file
names to sets of rows. An ingest acquires its rows, reconciles them, lists and
deletes the partitions it will write, and writes them file by file; the migration copies
the old tree and compares counts. Any of them may be killed at each step.

**IndexScripts.** The refresh removes and copies one partition under one root at a time.
A removal may fail and leave any of the files: on a local root that ends the program, in
the bucket nobody looks at the exit status (`refresh_manifest_index.py:80`); `unremoved`, a
history variable, remembers it. `IndexIsCurrent` is stated file by file for that reason:
what a copy replaces is current, what a failed removal left and no copy replaces may stay.
The rewriting stages a file, verifies it, copies it over the live one and deletes the
stage. `Republish` is the builder of the index running meanwhile.

**LakeConnection.** A request is a thread that gets the credentials, closes a stale
connection under the lock, makes a new one under it and notes its key and its end, reads
the shared variable again after it, queries, and on a recoverable error resets and tries
once more. `_cached_creds` is shared without a lock, so each of its reads is an action:
for None, for its end, for the key, and for secret and token, which nothing between tells
apart; and again for None and for the end where the connection is noted. `calm` is a
history variable: while this request ran, nobody closed or spoilt the connection, nobody
reset the credentials between two of its reads of them, and no session ended after it had
dropped the connection to try again; `QueriesHeal` is of such requests. Without the last
part it is false with three sessions: a token that ends between the reset and the retry
costs the only retry. Without the part before it is false with two requests.

**Presign, SignedSources.** Time is counted in ticks. The server's threads sign, cache and
report; the host's sessions end and are renewed. The viewer shares a signing request
between callers, keeps a URL for the window it was told, and opens a file once for all
who ask. A signed URL remembers whether its window was fixed from the session that
signed it (`sound`), an answer whether its window is that of its own URL (`honest`).
`ResetBetweenReads` is a request that finds credentials and, a reset later, None.

**ViewerSession.** The state is that of the page: the controls, the one search under way
and the pending one, the calls that refresh collections and years, what is shown. An
image is a collection, a region, a year and a place.

**Terrain.** A refresh asks for tiles, reads the missing ones, paints, and a paint asks
for textures; a texture asks for a paint. `seq` and `revision` are
`s1mRefreshSeq` and `imageryRevision`. A search for images keeps the refresh that made it
(`by`, the `failedSeq` of the code) and those it tells: one that fails is made again by any
other refresh, also by one that joined it; one may find nothing.

**DrapeTiles.** A texture of a few pixels is painted image by image, largest overlap
first, from tiles that are decoded once for all textures, with the settings of that
moment, under a key with the revision of that moment. `decoded` holds the cache in its
order, the byte counts, their running sum, and the promises, so that an entry evicted
and asked again is told from the former one.

**Footprints.** Both overlays keep a key of what they asked and a sequence number; the
model answers their requests in any order.

## Runs

| Run | Question | Instance | Result |
|---|---|---|---|
| `limiter_safety` | Are slots, queue and order right with aborts, double releases, moving priorities and a callback that throws? | five reads, one origin, two slots, three with signals | holds |
| `limiter_service` | With well-behaved callbacks, is any slot lost, any caller starved, and is `ConcurrencyLimit` implemented? | four reads that repeat, two origins, one slot each | holds |
| `limiter_lost_slot` | Does every read hold its slot for exactly its duration, as the doc of `LimitedSource` says? | four reads, one origin, two slots, one callback that throws | violated |
| `chunk_cache` | Bytes, de-duplication, accounting and settling under a store that may throw | three reads, three chunks, memory of one chunk | holds |
| `foreign_abort` | Can one caller's abort fail another caller's read? | the instance of `chunk_cache` | violated: it can |
| `tile_reads` | Does every batched read settle with the pixels of its own tiles? | two calls, two workers, 19 layouts of an eight-byte file | holds |
| `ingest_service` | Registry and staleness bounds; does the panel show what a completed ingest added? | two jobs and a registry of one record, beside two searches over four ticks, or beside the panel | holds |
| `stale_years` | After an ingest completes, is the new year visible, as the comments promise? | two jobs, two searches | violated: not until the TTL |
| `layers` | Do tiles belong to their source, bands lie where their tile does, mosaics show their sources, removed layers stay removed; does a selection cover the view, a mesh stay Delaunay, a scan find the next, a drawn tile have the pixels of its file, with their colours and in their places? | one layer of each kind, three pyramids under seven views, 64 warps, queues of four, 19 files | holds |
| `layers_stale_file` | Does a COGLayer show the file of its prop once no open is under way? | the COGLayer of `layers` | violated: the former file may stay |
| `lake` | Do ingests replace what they write, and only what was asked; are strict runs complete, migrations verified, indexes refreshed and rewritten faithfully; do undisturbed queries heal? | two ingests with ten sets of options and the migration; one index of two roots; two requests that read the credentials and three connections step by step | holds |
| `viewer` | No URL past its lapse; files, results, pictures, terrain, textures and overlays that belong to the controls and the newest answers | two images to sign, a session of three events, a terrain of two data sets (acts of all kinds, or changes of the imagery alone and deeper), two textures, overlays over three places | holds |

The four violations are recorded under `findings` in `PROJECT.json` with the line of
code and the sentence it contradicts:

- `limiter_lost_slot`: an exception from `getPriority` inside `_releaseOne` leaves the
  count of active requests one too high for good. The properties of
  `limiter_safety` still hold then (a lost slot never oversubscribes), which is why
  `SlotConservation` has the assumption that nothing throws.
- `foreign_abort`: a shared chunk load runs under the signal of its first caller.
- `stale_years`: a listing that overlaps an ingest is stored after the reset.
  `StalenessCeiling` still holds: the TTL bounds the harm.
- `layers_stale_file`: an open is not aborted when the prop changes, and the one that
  ends last wins. `TilesOfTheirSource` excepts overlapping opens for that reason.

Every property of a passing run has a mutant: an operator beside the definition it
mutates, changed the way a plausible bug would be, under which the property is violated.

### Bounds

- *Limiter*: five reads and two slots make queues of three, the least in which a splice
  from the middle, an overtaking and an abort of a neighbour all occur. Priorities have
  two views so that the order at arrival and at release differ. The queue is never
  longer than the number of reads, so nothing is cut off.
- *PriorityScan*: four waiters and tuples up to two elements with NaN cover each outcome
  of a comparison at each position; the theorem covers the rest.
- *ChunkCache*: chunks of two bytes and a file of three make a full, a short and a
  missing chunk; a memory of two bytes makes every second put evict.
- *TileReads*: `Coalesce = 1`, `MaxRange = 3` and `Parallel = 2` make gaps at, below and
  above the limit, groups that would be too large, and a second batch.
- *IngestService*: `MaxTime` bounds the clock; with a TTL of two, four ticks are enough
  for an entry to be stored late, read and expire. One record makes every second job
  drop one. *IngestPanel*: two chains, one reload of the page and one failed request make
  two refreshes overlap, a timer be overwritten, and a record be dropped while it is polled.
- *Layers*: `CogChanges = 3` lets a first open be overtaken by two others, `MultiChanges
  = 2` each source of a list be open twice; `MosaicChanges = 3` is a list, a viewport
  and a list again, of lists with ids and without, where a source is appended, put first, or
  moved to another place. `MaxTiles = 1` tile in a view is enough for a tile of a former source
  to stay; `Buffer` and the zoom limits make a viewport inside, across and out of them.
- *TileTraversal*: a pyramid of nested levels, one whose levels do not nest and end
  within a tile, and one with a large root level; viewports across the antimeridian, with
  two copies to the east, leaning, on the globe, and below the least zoom; heights of
  zero and two. `MAX_ROOT_TILES_NO_CULL = 8` stands for 100, `MAX_MAPS = 2` for 3, and
  `MaxEntries = 6` makes the cache of volumes full; three calls use what two have left.
- *Delatin*: a lattice of side 72 halves without a remainder as often as 14 refinements
  do; 64 error fields, flat ones and such that vanish on lines included, make flips of
  triangles that are queued, pending, and neither. All arithmetic is exact: rounding is
  not part of the model.
- *Pictures*: images of 10 by 3 in tiles of 8 by 2, so that the last tiles are cut on both
  sides and a row of a mask fills whole bytes; overviews of 5 by 2 and 3 by 1, where one
  side rounds; samples of 1, 8, 16 and 32 bits, one to four bands, joined and apart, both
  predictors, masks of a bit and a byte, absent and sparse ones, palettes, six
  georeferences, and files the code refuses.
- *Lake*: two ingests with ten sets of options (each collection, with and without years,
  latest, cap, headers, strict), two files to a partition, and the migration: enough for a
  partition that both clear, both write, or one writes after the other listed it. The
  index has two roots and two recent partitions. *LakeConnection*: two requests with
  three calls in all (`MaxCalls`), two keys and three connections, so that a request may
  find the connection of the other closed, its own, and the credentials gone at each read.
- *Signing*: two images, one of which cannot be signed; sessions of three ticks, four
  moments, a margin of one tick on either side and a cache of one entry for two ticks, so
  that a window may be longer than the viewer's margin and the URL be kept by the viewer
  for part of it; two sessions, two opens, one reset. *Session*: two collections, three
  views of which one covers another, three events of the user and one retry, so that a
  search, a pending one and a check after a move overlap. *Terrain*: two data sets, two
  positions and one fault; in breadth two acts or faults and two refreshes (`BroadActs`,
  `BroadRefreshes`); in depth three and three, the acts being changes of the imagery, so that
  a texture of a former revision is in view when a search that two refreshes wait for
  fails. *Textures*: two textures of two pixels over four images (one
  older than another of its state, one over one texture only, one cut by the limit of
  two), two builds, two changes or failures, a cache of three bytes and two tiles.
  *Overlays*: three places, one too far to show outlines, six steps of the user.

### Fairness

Weak fairness only, and only where the source's environment gives it: a request that
was sent is answered or fails (network and storage have timeouts), a worker answers
what it was posted, a continuation that is ready runs. Never assumed: that a caller
aborts, that a job starts, that a decode succeeds. `WaitersProgress` needs `Settle`
fair for each read, which is the caller's reads ending. `CallsSettle` excepts calls whose
jobs were with workers when the pool was destroyed: their promises stay pending in the
code too. The layers, lake and viewer runs state safety alone; what must hold at last is
stated of the states in which nothing is under way (`AtRestCurrent`, `DrapesShown`,
`FootprintsFollow`, `ShowsItsProp`), which needs no fairness.

### What stands in for code outside the repository

deck.gl's `Tileset2D` and `TileLayer` (the tileset is built when the layer first
appears; loads are cancelled and tiles evicted when out of view); the browser Cache API;
DuckDB, whose partitioned COPY writes only partitions it has rows for and leaves other
files alone; S3; EarthSearch, whose items have a year of their own; hosts whose sessions
end. Assumed of them and of the data: signing takes less than the client's margin; the
folder year of a Kentucky key is the year of its name; a viewport sees a point of the
primary world; projections are the identity; tiles whose bytes begin at one offset are the same bytes
(`FilesAssumption`: were their lengths to differ, the read of the longer could fail as too
short, `coalesce.ts:60`); the samples of a file are in the byte order of the machine
(`decode.ts` takes it so).

## Known limits of what the properties say

Some statements hold only with an exception that the code really has. They are in the
properties' comments, and together here:

- *COGLayer*: dropping the custom callbacks without a new file leaves the layer blank.
- *MultiCOGLayer*: a source with fewer levels than the primary, on the same grid, is
  asked for an image it does not have (`multi-cog-layer.ts:537`); the instance has none.
- *Mosaic*: the doc of `sources` (`mosaic-layer.ts:48`) says that removing items
  "invalidates the cache slots of shifted items", which then re-fetch. Nothing does: the
  number of the place is the id (`mosaic-tileset-2d.ts:194`), a held tile is found under it,
  and it goes on showing the former source of the place. `MosaicShowsItsSources` is of all
  sources with ids, in whatever lists, and of those without whose place has not changed
  hands since their tile was made; without the exception it is false.
- *Connection and signing*: a reset of the credentials between two reads of them fails the
  request that reads (`aws_s3.py:96`, `:163`, `:207`), with an error that nothing retries; at
  `aws_s3.py:38` it leaves a connection shared whose end was not noted. `QueriesHeal`
  excepts queries to which this happens. In `Presign` one reset fails one request; that it
  may fail several at once is left out.
- *Raster tileset*: `raster-tile-traversal.ts:241` says "there should never be overdraw".
  A border tile of levels that do not nest hangs under two parents
  (`affine-tileset-level.ts:109`, ranges are inclusive), so the model states it along one
  branch. A large root level is culled at sea level and in the primary world only
  (`raster-tile-traversal.ts:842`): coverage is stated of that.
- *Ingest*: a cap counts the images of a region over all years before the newest is chosen
  (`descriptors.py:278`), so a capped run for the latest year may be short; `StrictIsComplete`
  is of runs without a cap.
- *Index*: what is published between the verification of a staged file and its copy is
  lost (`rewrite_index_layout.py:259`). A removal in the bucket that fails unnoticed leaves
  former files of names that the new build has not (`refresh_manifest_index.py:80`); the
  attempt to prove `IndexIsCurrent` showed it.
- *Presigning*: the window reported for a URL falls back to the full one when the URL is no
  longer cached, and credentials may have been reset since; the client keeps a URL for at
  least its minimum though it was told less. `UrlsLapseUnused` is of URLs whose window was
  fixed from their own session and told from their own entry.
- *Session*: controls and results drift apart in four ways: a move before the load handler
  is done (`app.js:6967`); a move back into the shown results while a search of another
  view is under way (`app.js:6976`); an answered availability that changes region or year
  though no search follows (`app.js:6251`), which also reverts a pick made meanwhile; a
  retried list of collections, or the new one a selection asks for (`app.js:6770`), without
  the searched collection, which moves the control and searches nothing. Two concurrent initialisations of
  the overlay create two (`app.js:5078`).
- *Terrain*: a texture built for an earlier refresh is painted by the next paint, not by
  its own (`app.js:4079`); a texture of a former revision stays where a search finds no
  images (`app.js:4010`), or fails with none at hand for the newest refresh that made it
  (`app.js:3132`); a promise of a texture that failed stays until another key is
  asked; a failed search of the tiles drops paints already queued; a late build sets the
  ratchet of subdivisions again after a clear; the key of a texture lacks the grid size.
- *Textures*: the comment on the tile cache says that it "evicts oldest resolved tiles"
  (`app.js:3418`), while the oldest go whether resolved or under way
  (`app.js:3461`). Nothing else depends on it: a build holds the promises it awaits, and an
  evicted tile is fetched again (`TilesAccounted`, `TexturesRight`).
- *Ingest panel*: a new ingest clears the timer of the last chain (`app.js:5420`), so the
  former ingest is not followed further and its completion refreshes nothing; a chain
  whose poll is under way at that moment goes on beside the new one; a chain whose record
  was dropped ends with the status "undefined". An answer of `/availability` that comes
  after that of a later request replaces it. `IngestsSurface` is of chains that were told
  of the completion, and excepts such answers. The marks "already ingested" are looked up in
  the years of the viewer's collection (`app.js:6490`), which may not be the panel's:
  the model has one collection.
- *Overlays*: a return to the shown view while another is asked lets the answer of that
  other view replace the outlines (`app.js:4404`); clearing the buildings does not advance
  their sequence number, so a late answer shows them again (`app.js:2918`).

## Proofs

All proofs are checked by tlapm with its SMT, Zenon and LS4 backends. They assume only
the named `ASSUME`s on the constants.

- **`LimiterProofs`.** `IInv` is `TypeOK /\ QueueIsWaiters /\ ReleaseFlags /\ NoIdleSlot
  /\ SlotsCounted`. `QueueIsWaiters` alone is not inductive: a release must know that
  the head it grants is waiting and that its own flag is still unset; `NoIdleSlot` (a
  waiter implies a full origin) is what lets a hand-over keep the count. From it follow
  `TypeCorrectness`, `QueueCorrectness`, `NeverOversubscribed` (callbacks that throw
  included), `SlotConservation` (when none does), the action property
  `AbortedStaysOut`, and the refinement `LimiterKeepsPromise`: every step of the limiter
  is a step of `ConcurrencyLimit` or leaves its variables alone.
  `UrgentFirst` is about the step that hands a slot over: the scan of `_releaseOne` finds the
  least priority and the earliest arrival among equals, by the argument of `PriorityProofs`.
- **`PriorityProofs`.** `ScanServesNext`: the scan's best so far is the next among those
  seen, for queues and tuples of any length. It rests on the transitivity of the order
  with NaN and missing elements, which is proved case by case.
- **`ChunkCacheProofs`.** `Inv` is `TypeOK /\ MemoryInv /\ Joined /\ NeverFetchedTwice /\
  Contents /\ Progress /\ StoreNeverFailsRead`. `MemoryInv` says that the count of bytes is
  the sum over the entries, each chunk held once: an induction along the LRU list, which is
  what an eviction loop of any length needs. `Joined` ties a read to the load it waits on,
  `Contents` a promise to the bytes or to the reason of its error, `Progress` what a read
  has collected to where its loop stands. From it follow `MemoryIsAccounted`,
  `ChunksFetchedOnce`, `StoreIsBestEffort` and `BytesAreExact`; the last also needs that
  joining chunks and cutting the range out puts each byte in its place.
- **`TileReadsProofs`.** `IInv` is `Typed /\ ReadsInv /\ PoolInv /\ QueueInv /\ PixelsInv`
  (TLC checks it on the instance of `tile_reads`). The lemmas come first: sorting keeps the
  ranges (`SortedFacts`), merging covers them, within the limits and no less than they
  allow (`MergeFacts`), and the binary search finds the group a range lies in
  (`RangesFound`), each by induction over the turns of its loop. `ReadsInv` says that the
  groups of a read are those of its ranges and that what has arrived and what is in flight
  are the first of them; `PoolInv` and `QueueInv` that a job and its message, wherever
  they are, carry the bytes of the job's own tile and that the ids of a worker are
  used once; `PixelsInv` that what is decoded was asked for and is right. `PixelsAreOwn` is
  `[]OwnPixels` and `RequestsAreSound` is `[]RequestsSound`, for any file, lists of tiles, limits
  and number of workers. `FilesAssumption` is all they assume of a file.
- **`IngestProofs`.** The invariant is `TypeOK /\ RegistryInv /\ CacheInv`. `FewRecords`
  bounds the registry by counting the jobs that could still revive a record, which makes
  `RegistryBounded` inductive. `EntryCovers` and `ListingCovers` say of an entry, and of
  a listing that is not stored yet, which years it must include; `StalenessIsBounded`
  follows from them.
  The panel has `PanelInv`: `RecordsTrue` and `ChainsFollow` say that a record and a chain
  know no more of an ingest than happened, `CallsFollow` that an answer to a later request is
  no older, `YearsShown` that no answer still to come takes a shown year away unless it is
  `excused`. `IngestsDoSurface` is `[]IngestsSurface`, beside a registry that drops records.
- **`LayersProofs`.** `LayersInv` joins an invariant for each layer. `CogFollows` and
  `MultiFollows` say that, while no two opens overlap, opens, state, tileset and tiles are
  all of the file or sources of the props; it takes the whole chain from prop to tile, since
  each step copies the former. `TilesetCurrent` says that the tileset has looked for tiles since
  list, revision or viewport changed, and that a tile is of the source its id names unless
  its place was handed on. `MosaicAssumption` asks of explicit ids alone that each name one
  source, as the docs of `sources` do; a place may be any source's. From it
  follow `TilesAreOfTheirSource`, `MosaicsShowTheirSources` and the action property
  `RemovedLayersRest`: no open that ends after removal changes the layer.
- **`LakeProofs`.** Four invariants side by side, for any number of runs, requests, roots and
  queries:
  - *Programs.* `LakeInv` says of each run at work, for each partition it writes that no other
    run changed meanwhile, where it stands (`Progress`): still to be cleared, about to lose
    all that is there, empty, or holding exactly its own rows. With it an ingest that ends
    has replaced what it wrote (`IngestsReplace`), whatever former, killed or other runs
    left. `StrictIngestsComplete` adds two bijections: from the rows of a partition to the
    images of the bucket, and from the readings of its files to its rows.
    `OnlyAskedChanges` follows the year of a row from the key or from EarthSearch into the
    partition that is written. `MigrationsVerified` is a counting argument: all old rows are
    found, and counts that agree leave no room for another row or a second copy.
  - *Refresh.* `RefreshInv`: the files the refresh has passed by are current
    (`RecentMerged`), those of former years untouched (`FormerKept`). `IndexStaysRefreshed`.
  - *Rewriting.* `RewriteInv`: a verified file agrees with the live one unless that was
    published again. `LayoutIsOnlyChanged`; `RewrittenInTwoGroups` is the arithmetic of
    `row_group_size_for` for files of any length.
  - *Connection.* `Inv` is `Typed /\ HostAlive /\ Remembered` and, for each request, `Fit`: what
    it may rely on at its place, of the connection it holds and, while it is calm, of the
    shared one. `HostAlive` (the host never resolves a session that has ended) is what a
    retry needs, `Remembered` (a calm request that has found credentials finds them again)
    what its reads of them need.
    `UndisturbedQueriesHeal` follows.
- **`ViewerProofs`.** Five invariants, of parts that share no state:
  - *Files.* `Inv` joins `ServerInv` (a session has one end, a cached URL lapses after its
    entry, an answer under way was told of its own URL), `SignedInv` (what the viewer keeps)
    and `FilesInv` (a note of an open file names the promise in the cache).
    `UrlsAreUsedInTime` and `SourcesAlwaysAgree` follow. `SessionsInv` quantifies over the
    function from sessions to their ends, which is not in the state: each session has one end,
    and the code's checks compare with it through whatever copy they hold.
  - *Page.* `PageInv`: unless another search is to follow, the one under way, or the results of
    the last, are those of the controls and of the view (`Current`), and what is drawn is what
    was found (`Pictured`). `PictureStaysCurrent`. The proof found a way of drifting that the
    runs had no room for, see the limits above.
  - *Overlays.* `OverlaysInv` says of each overlay that the call with the newest number is for
    what the overlay waits for, so that an older answer is dropped; `OverlaysFollow`.
  - *Terrain.* `TerrainInv`: in a cleared terrain the newest number belongs to no refresh
    (`Cleared`), which is what makes every read, frame and build that comes back find itself
    overtaken; and a texture that is kept belongs to a build that is remembered (`MemoryOK`).
    `ClearedTerrainRests`.
  - *Textures.* `DrapeInv`: the cache has each key once and its sum is that of its tiles
    (`CacheOK`, kept by an eviction loop of any length); a tile asked at the current revision
    shows the current settings once no frame is due (`ShownOK`), which is why the frame has to
    change the revision; a texture awaits tiles of its next image, asked since it began
    (`AwaitsOK`); and each pixel has the first of the images painted so far that shows there
    (`PictureOK`). `TexturesStayRight`, for any images, tiles, sizes and limits.

The assumptions say of the constants what the code is given: `BucketAssumption` and
`LakeAssumption` that keys have numbers where the parsers match numbers, that a request names
the bucket its descriptor has, and one region for an ad hoc collection; `IndexAssumption` that
published files have rows; `DrapeAssumption` that the tiles read for a texture cover it as far
as the image does, and that areas and sizes are numbers; `CogAssumption`, `MultiAssumption`, `MosaicAssumption`,
`SessionAssumption`, `PanelAssumption` and the others that `None` and the like are apart from
real values and that bounds are numbers. TLC evaluates each on the instance of its run.

Induction over data is done from `LeastNat` (a set of naturals that is not empty has a
least element), which the prover finds itself; `Recursion` gives a loop of n turns the
function of its turns.

Model-checked only: all liveness (`WaitersProgress`, `EveryReadSettles`, `CallsSettle`), because
fairness and ENABLED are beyond the prover; `TilesMatchView` and `MeshIsSound`, whose models use
RECURSIVE operators, which the prover cannot reason about; `BandsAligned` and
`PicturesAreTrue`, which compare exact fractions and bits place by place, nonlinear arithmetic
that the SMT solver does not settle; `DrapesShown`, whose invariant would have to say of each
texture which refresh, build or frame still owes its paint.

## Not modelled

- Text, layout and logging; the byte counters of `stats()`; the 200-line cap of job logs.
- A worker that crashes without a message: no listener exists, its jobs stay pending.
- Two versions of one object in the persistent chunk store.
- `LimitedSource.head`, which takes no slot; JPEG tables; the codecs themselves, which are
  libraries.
- `TileMatrixSet`'s clamping of both ends, `getParentIndex` and `getTileMetadata`.
- Single-file output of an ingest, the text manifest, the adapter of the manifest index,
  the registration of lake collections at start, and the builders of the other indexes:
  statements run one after another.
- The synchronous ingest of deployments without threads (`/ingest/run-sync`), and the
  choices of the ingest panel, whose options may be answered in any order
  (`app.js:6428`); `get_ingest_job` hands out the live record (`ingest_jobs.py:38`), of
  which the model reads the status alone.
- Decoding and pixel mapping of textures, the limit of the cache of texture searches, the
  wireframe and the controls of the GPU; the limit of a search.
- CRS texts, GDAL metadata and projections, which are conversions; files whose mask has
  other tiles than its image, and whose overviews are stored otherwise than the full image
  (`Regular`).
- Other colour spaces than grey, palettes and RGB; tables and deployment scripts.

## Plan

1. The predictor codec undone for rows of any length, in `CogPixels`.
2. `DrapesShown` of `Terrain`: who still owes which paint, as an invariant.
3. The synchronous ingest and the panel's choices.
