# Verification of the watershed delineation engine

TLA+ models of `pourpoint-core` (crates/core) and of the HTTP portal on top of
it (src/main.rs), TLC configurations that check them on small instances, and
TLAPS proofs for every value of the constants. `PROJECT.json` maps every
definition to the lines it models, lists the runs, and for each property a
mutant of the model that breaks it.

    tlc -config RasterWindow.cfg MCRasterWindowCache
    tlapm RasterWindowProofs.tla

## The system

A delineation answers "what drains to this point?" over an HFX dataset: a
directory or URL with `manifest.json`, `graph.parquet` (units and their upstream
ids), `catchments.parquet` (unit geometries), an optional snap artifact (stream
reaches) and optional D8 rasters. The program has these parts.

| Component | State it keeps | Operations | Interacts with |
| --- | --- | --- | --- |
| Dataset session (`session.rs`) | manifest, graph, stores, D8 declarations, caches; immutable once open | open (local, remote), localize a D8 raster, pick a snap artifact | cache, readers, object store |
| Remote artifact cache (`cache.rs`) | per fabric and adapter version: manifest, graph, `validated.json`; per source: an index entry; all files, no locks | read and write an entry, read and write the sidecar | sessions of any number of processes |
| Remote raster window cache (`raster_cache.rs`) | window files, an in-flight map per session | get or fetch a window | COG reader, object store |
| COG reader (`cog.rs`) | none | read a header, plan a window, fetch and decode its tiles, write it | object store |
| Parquet cache (`parquet_cache.rs`) | column-chunk bytes under an LRU budget, footers | get bytes, get metadata | readers, object store |
| Readers (`reader/`) | row-group bounds, an id index (kept on disk for remote datasets), the graph | find rows or geometries by id, find by box, read all | Parquet cache |
| Outlet resolution (`resolver.rs`) | none | choose the terminal unit of an outlet, by snap or by point in polygon | readers |
| Upstream traversal (`algo/upstream.rs`) | a queue, a visited set, a downstream map | collect the units upstream of a terminal | graph |
| Terminal refinement (`refinement.rs`, `algo/refine.rs`, `algo/snap.rs`) | none | carve the terminal along the D8 grid, or fall back | rasters |
| Engine (`engine.rs`, `staged.rs`) | none of its own | delineate in stages, in batches, with reaches | all of the above |
| Portal (`src/main.rs`) | one engine behind a mutex, one thread per connection | accept, parse, climb the radius ladder, delineate, answer | engine, clients |
| Export (`export/`) | rows being materialized, an open Parquet writer | write basins or unit bundles in spatial row groups | engine results |
| Geometry, raster kernels (`assembly.rs`, `algo/`) | none | dissolve, clean, trace, rasterize, mask, polygonize | engine, refinement |

What is hard to test in it:

- **Sharing without locks.** Openers, in this process or another, read and write
  the same cache files, and an open may die between any two writes.
- **Tokens and bytes taken at different times.** Entity tags come from HEAD
  requests; the bytes come from the cache or from later requests, and objects
  are overwritten in place.
- **Callbacks and wake-ups.** Waiters for a window are woken once; a wake-up that
  comes too early is lost.
- **Arbitrary graphs.** Rows may repeat ids, name ids that do not exist, and
  form diamonds and cycles.
- **Reads that overlap.** Row groups, tiles and index entries are read several at
  a time; requests fail one by one and end in any order.
- **Approximations that must be on the safe side.** Statistics prune row groups,
  bounds are narrowed to `f32`, windows are cut on tile borders.
- **Fallbacks.** An error at one rung, candidate or raster decides whether the
  next is tried, whether a refinement is skipped, or the request fails.

## Correctness properties by component

| Component | What makes it correct | Where |
| --- | --- | --- |
| Remote open and artifact cache | A session that skipped validation serves a combination that was validated; nobody is served another dataset's pair; tokens are complete or absent; the index is the commit record; a cached pair is frozen | `RemoteOpen` |
| Remote raster window cache | One fetch per session and window; no stale map entry; a window is published once and never replaced; Ok only for a published window; a waiter wakes up | `RasterWindowCache`, `WindowPromise` |
| Upstream traversal | Exactly what drains to the terminal, once each, terminal first; a tree of real edges; dangling references exact; it ends | `UpstreamTraversal` |
| Outlet resolution | The answer is the one the strategy names, whatever the row order; errors are exact; ties are told as they were broken | `SnapResolution`, `PipResolution` |
| Terminal refinement | Strict mode never returns a coarse terminal; best effort never fails; the first covering declaration is carved; a failed selection names its reason | `TerminalRefinement` |
| D8 carve | The seed honours the authority that resolved the outlet; the carve is the masked upslope of the seed, and so are its polygons; it ends | `D8Carve`, `CellPolygons` |
| Portal | The radius used is the least that finds something; one client cannot take the service from another | `Portal` |
| Strahler orders | The iterative fold computes the recursive definition | `StrahlerOrder` |
| Catchment reader, chunk cache, id index | A query answers as a scan of one upload would, errors included; the index of a tag is that upload's; reads end | `CatchmentReads` |
| Snap reader | Pruning by statistics loses no match (it does lose some, see below) | `SnapQuery` |
| COG reader | Every tile of a window is one whole chunk that its index leads to, every sample on its pixel; documented files are read | `CogWindow` |
| Engine and batches | Every call ends with the watershed of its own outlet, or with an error that has a cause, whatever runs next to it and whatever uploads its reads mix | `Delineation` |
| Export | Each row once and in one order, within its bounds; a refused write writes nothing; legal row groups | `BasinExport`, `RowGroups` |

## The models

Every module begins with a comment on its abstraction; `PROJECT.json` `map`
gives the lines behind each definition. Definitions called "Mutant of X" are
plausible bugs: each one, put in X's place, makes TLC refute one property.

Modules that compose others hand one component's result to the next:
`UpstreamNetwork` (`UpstreamTraversal`, then `StrahlerOrder` on its downstream
map), `OutletResolution` (the dispatch, then `SnapResolution` or `PipResolution`),
`TerminalCarve` (`TerminalRefinement` with its carve replaced by `D8Carve`) and
`WatershedExport` (`Delineation`, then `BasinExport` on its answers).

**RemoteOpen** — `DatasetSession::open_remote_with_stats` over
`RemoteArtifactCache`. A *content* is `<<source, version>>`: the bytes one upload
put at one URL; its entity tag identifies it. One action is one visit to the
network or the disk: `HeadManifest`, `HeadGraph`, `ReadIndex`, `ReadGraph` (the
cached pair), `GetManifest`, `GetGraph`, three file writes, `OpenCatchments`,
`HeadSnaps`, `ReadSidecar`, `Validate` and `WriteSidecar`. A write is two steps,
truncate and fill, because the code uses plain `std::fs::write`; a second writer
in between may leave a torn file. `Abort` is an error, a crash or the end of a
session, at any step. The environment overwrites objects (`Publish`) and removes
cached files (`Evict`). `Valid` is an arbitrary relation: which combinations of
manifest, graph, rows and snap rows pass the referential scan.
**RemoteRegimes** says under which circumstances the properties of the cache hold.
Nothing survives racing openers, removals and uploads at once (see below), so a
behaviour is of one of two regimes, chosen at the start: in a *crowd* openers race,
crash and lose files, while nothing is uploaded; by *turns* one session is open at a
time and nothing is removed, while objects are overwritten between any two steps.

**RasterWindowCache** — `RemoteRasterCache::get_or_fetch_window`. `inFlight` is
the DashMap, one per session; `notify` is the Notify a call made or cloned;
`file` is the shared directory. A call looks up, then either clones an occupied
entry's Notify and parks, or claims the entry, fetches, writes (a temporary file
and a rename that does not replace), releases the entry and notifies. Dropping
the map guard, creating the `Notified` future and `notify_waiters` are steps of
their own. A fetch may fail at each stage, or panic. `drawn` remembers which
raster versions the header and the tiles were read from.
**WindowPromise** is what a caller may rely on: a window is published at most
once, and a call returns Ok only for a published one. `RefinesPromise` maps the
steps of the cache to it.

**UpstreamTraversal** — `collect_upstream` and the same-level check of
`Engine::traverse_upstream_at_level`. The graph is an arbitrary function from
ids to sequences of ids. `Expand` pops the queue; `PassOver`, `Dangle` and
`Discover` are the three ways through the body of the inner loop. The reference,
`Upstream`, is the intersection of all sets that hold the terminal and are closed
under upstream ids.

**UpstreamNetwork** — the portal's use of the walk: when it has returned ok,
`strahler_orders` runs on its downstream map.

**OutletResolution**, **SnapResolution**, **PipResolution** — the level and the
snap store that an outlet is resolved with, and the two resolvers. The dispatch
follows the session's lookup of the declarations that reference the level. Snap rows are scored
in any order, because row groups arrive in any order; the ranking, tolerance
band and error choice follow the code, and the reference `Best` is stated
independently from what `SnapStrategy` documents. Distances are whole numbers, and
a stored box that is within the search box is no farther than its target
(`near <= distance`). In the code that is true up to the rounding of the box to
`f32` (about a metre) and the tangent-plane approximation, and false across the
antimeridian, which `search_bbox` documents as a limitation. Snap ids are unique
by being the domain of a function; the reader does not check it.

**TerminalRefinement** — `Engine::refine_terminal`, the D8 strategy, and the
session's `select_d8_raster_for_terminal` and `localize_d8_raster_window`.
A declaration has a CRS and, for each of its two rasters, an extent that covers,
touches or misses the terminal, or cannot be read. The loop over declarations is
one `Examine` per turn, with its early exit; every later stage may fail with each
of its errors. `Failure` is the code's translation of an error by mode, with the
category of a skip. `PreMergeCatchmentFetch`, a terminal missing from the
pre-merge units, is not modelled: the units always hold the terminal.

**TerminalCarve** runs both together: whatever the carve fails with is translated
by `Failure`, and its seed reason enters the provenance.

**D8Carve** — the carve itself (`algo/refine.rs`): alignment of the two tiles,
mask, the guards of a vector outlet, the ranking for a unit's outlet, and
`trace_upstream`. Coordinates count quarter cells, so that borders, centres and
points between them are told apart. The seed of a unit's outlet is not checked
for a flow direction; one without is a carve of the cells that drain into it.

**CellPolygons** — the two conversions around the trace, as operators.
`Rasterized` is the scan line of `algo/rasterize.rs`: a side counts at its lower
end and not at its upper, and a cell belongs to the mask when an odd number of
rings hold its centre. `Polygonized` is `algo/polygonize.rs`: the `Edges` of the
mask, each ring followed from the first corner that has one, by the edge pushed
last where four cells meet, and each hole given to the first exterior that contains
its first vertex, or dropped. `geo`'s `contains` is `Encloses`. `PolygonsExact` says
that the second undoes the first: no hole is dropped and no cell lost. The loops that
sum an area and push rings are recursive functions (`Area`, `Picked`), which the
proofs unfold.

**Portal** — `main`, `handle` and `delineate` of `src/main.rs`. One thread per
connection, one mutex around the engine, a guard that lives until the answer is
sent, a radius ladder that climbs on any error. A request carries its fate: the
distance of the nearest candidate and the faults that will happen to it. The
ladder's radii are the code's, 100 m to 20 km; `src/README.md:196` speaks of
1 to 50 km.

**StrahlerOrder** — `strahler_orders`, the explicit stack that visits a unit
twice, over any tree the traversal can hand it, children in any order.

**CatchmentReads** — `CatchmentStore` over `CachingReader`, the footer cache and
`IdIndex`. A session takes the HEAD, reads the footer, and loads or builds the id
index: `HeadObject`, `Footer`, `Load`, the scan's requests, `Build`, and `Write` in
two steps, since `write_to_path` is a plain `std::fs::write`. A call plans its row
groups (`Plan`) and reads them: `Ask` takes what the chunk cache holds and requests
the rest, `Arrive` brings each missing column from before or after an overwrite
made meanwhile and caches it under the session's tag, `Lose` is a request that
failed. The query for geometries keeps `Window` groups in flight (`buffered`: any
order of arrival, one order of results); the others go group by group and stop at
the first error. A version is the content of an upload together with its ETag, so
uploading a content again brings its tag back. The cache budget is a
nondeterministic drop, at lookup, of any entry (`Small`). Chunks are as good as
their columns: the model tells three projections apart, `key`, `scalars` and
`geometry`. A remote object without an ETag, whose chunks are cached under its
modification time and whose index is not kept, is not modelled.

**SnapQuery** — `SnapStore::query_by_bbox`: the statistics of a row group, which
leave nulls out, the bbox of a row or else of its geometry, the padding of points
and axis-aligned lines with `next_up_f32`, and the post-filter.

**CogWindow** — `RemoteCogReader`: the header's fields with their widths and the
rule for inline values, the documented layout (`MeritLayout`), the pixel window of
a box, the tile plan, the interleaved requests for offsets and byte counts, the
range checks, the three predictors with the padding of edge tiles, the copy into
the window, and what the local file says of itself. `Encoded` is the TIFF writer's
side. Requests name no version: between two of them, or within one for several
ranges, the object may be uploaded anew. A range that was put together from stale
entries need not be a chunk's: `Read` inflates what starts where the range does, if the
range takes in its stream, because `ZlibDecoder` (`cog.rs:1665`) stops at the end of the
stream and minds neither what follows it nor whose chunk it is. So a window may show, in
the place of one tile, a whole chunk of a later upload that starts at the offset of an
older one's tile. `WindowIsRaster` says exactly that: each tile of a window is one whole
chunk that an index entry of the tile, of the same or an older upload, leads to, and all
of them show one upload *unless* a later upload has a chunk at the offset that an earlier
one gave to a tile of the window. The model leaves out: uploads with
other headers, since all uploads of a file have one here; an upload that comes back; bytes
at which no chunk starts but which inflate all the same; and tiles of one upload that
share a chunk. A sample has 16 values; as an `f32` it is two bytes, which is enough for
predictor 3 to have planes. An `i32` becomes an `f32` with fewer digits
(`Rounded`, for `value as f32` at `cog.rs:2166`), after it was compared with the nodata;
what a pixel means, in `WindowIsRaster`, is therefore the nearest of these.
`Documented` says which files `SupportedIsRead` is about, by what their headers,
chunks and sizes are. Two
limits of the reader follow from its lines and are in the model: a BigTIFF whose
two LONG byte counts fit the inline field is refused (`cog.rs:1074`), and so are
sparse tiles (`cog.rs:1460`).

**Delineation** — `Engine::delineate`, `delineate_batch` and the staged calls.
`Open` and `Refuse` are the session's validation of graph, catchments and snaps.
Each call of a batch resolves, walks (`Begin`, `Walk` for each upstream id looked at,
`Traversed`), reads metadata and then geometries in two
queries, refines, and dissolves; a staged call ends with the pre-merge units
(`Collect`) or the reaches (`Reaches`). Between any two reads the catchments may be
overwritten, while graph, id index and snaps are those of the open. Neither an open's
scan nor a query is a read of one upload: each column of a row group is a request of its
own, without a condition, and through a cache that keeps what earlier requests brought
(`parquet_cache.rs:407`), so that `Mixes` lets every column of every row group be of any
upload so far. The rows of a query may hold an id of one upload, a level of another and an area
of a third. A unit's row group is found by the id index of the open, so only what some
upload has at a place that was the unit's (`Readable`) can be taken for it. A read of an
upload that is laid out otherwise (`None`: other row groups, other chunk places) fails
to decode, which is an assumption about Parquet's pages. `Reaches` takes the rows of
the row groups whose statistics meet the rectangle around the basin (`GroupRead`, which
overlooks what `SnapPruning` shows); a row of such a group that cannot be decoded refuses the
query, in or out of the basin (`SnapsRefused`), a row with a bad value if it is near, and
a reach without a length if it is the basin's. The boxes a snap file declares are those
of its geometries, and no box is rounded to `f32` here (`SnapQuery` is about that).
`Threads` bounds the calls at work. Geometries are sets of cells, so that joining, losing
and refining a unit can be told apart. Resolution and refinement enter
by what their modules show: some unit of the finest level or an error; some part of
the terminal, or the mode's answer to none.

`ResultsAreWatersheds` is what remains true under all that. An answer has exactly the
units that drain to the terminal by the graph of the open; each area in it is one that
some upload has at a place of the unit, though perhaps that of another unit which the
place was given to; the reaches are those of the units, save overlooked ones. An error
has a cause, which is the upload's (`Displaced`, `Relevelled`), the row's, or the failed
read's own; on a file that was not overwritten and has no faulty row, what
the open has validated never fails.

**BasinExport** — `BasinGeoParquetWriter::write` for basins and for unit bundles:
identities and their collisions, materialization, bounds rounded outward to `f32`
(`Step` apart in the model), centroids clamped and quantized on the Hilbert curve
(`Curve`, four curves of half the side), the sort, row groups by the plan, and the
footer. `Before` is the order of the sort keys; as no two rows that were accepted
have one key, the sort is stated by rank: the row at place r is the one that r - 1
others come before (`Rank`, `Sorted`). **RowGroups** is `plan_row_groups`, apart
because it is proved about. **WatershedExport** hands the answers of a batch to the
writer under names and labels of the caller's choice.

## Runs

| Run | Question | Bounds |
| --- | --- | --- |
| `RemoteOpen` | Can torn or half-written cache files, another opener, or uploads between any two steps make a session skip a validation or serve another source? | either two openers of two sources of different fabrics, one of them broken, with evictions; or one opener at a time on one source whose artifacts are each overwritten once; crashes, and a HEAD without a tag |
| `RemoteOpenStaleToken` | Does a sidecar always name what was scanned? **Violated** | one source, one overwrite, the cached graph removed |
| `RasterWindow` | Single flight, live entries, refinement, wake-up | four calls of two sessions on one window; or three of them on a window overwritten once, with a fourth call that fails early; one call may panic |
| `RasterWindowLostWakeup` | Does every call return? **Violated** | three calls of one session |
| `Upstream` | Is the walk exact, are the orders Strahler's, and do both end? | all graphs over 3 ids with rows of up to 2 ids; all DAGs over 4 units under two levels; all trees of 7 units with confluences of at most three |
| `OutletResolution` | Is the store the declared one, the best target found under any row order, the claimant told with its tie break? | every manifest of up to two declarations over three level indexes; up to 3 targets, 3 distances, 2 weights, 2 radii; up to 3 catchments, 2 areas |
| `TerminalRefinement` | What comes of every failure in every mode; is the seed the right one, the carve exact, the trace finite? | up to 2 declarations; 4 by 4 cells, flows and accumulations in a corner of 2 by 2, carves of every shape within 3 by 3 |
| `Portal` | Is the ladder exact, and can one client harm another? | 3 connections of 8 kinds; 45 delineations next to two silent clients |
| `CatchmentReads` | Does a query answer as a scan would, is the index the tag's, do reads end? | two calls at once on a remote session with a cache at its budget; two sessions over one cache directory with two overwrites, one of which may die; a local session with one; three queries over files of two or three row groups |
| `SnapPruning` | Does pruning lose no match? **Violated** | one or two groups of up to two targets, three boxes |
| `CogWindow` | Is every tile of a window a whole chunk, in its place, of one upload unless chunks coincide; is every documented file read? | twenty boxes; rasters of one to six tiles in every sample type, predictor and format, departures of one field; up to two new uploads, with chunks elsewhere or at the offsets of earlier ones |
| `WatershedExport` | Is every answer of a batch the watershed of its outlet, and every finished file exact? | two calls in five combinations of modes over 21 datasets, one overwrite that moves, takes away or breaks rows, every mix of the two uploads; eight requests |

Why the bounds are enough. Two openers give every overlap of two writers and of
a writer and a reader; a third adds no new kind of overlap, and two versions
tell old from new. A waiter, a second waiter (so that waking one is not waking
all), a fetcher and a foreign session are the roles around a window. Three ids
give self loops, cycles of two and three, repeated and dangling ids; four units
are needed for a diamond. Three targets give a tie and a third that sets the
band. Two declarations give a first and a later one; the proofs lift the bound.
Two by two cells hold flow cycles, diagonals and every tie of distance; three by
three, and a frame of four by four around anything, hold lakes, islands, and lakes
and islands that touch at a corner. Three
connections give a holder, a waiter and a bystander. Seven units give orders 1 to
3 at confluences of two and three children. Two calls on one chunk cache give a
miss of both on one chunk, and three row groups a window of two with one left
over; the second overwrite of `CatchmentReads` brings the first upload and its tag
back. Tiles of two by two pixels in rasters of up to five by three give inner,
right, lower and corner tiles; boxes start and end within, on and outside them.
Five units with a diamond and a coarser one give shared upstream units, and a
request of three rows or more two row groups of an export.

A chunk that stays where it was, two that change places and streams of other lengths
are the ways in which uploads of `CogWindow` can coincide.

The MC modules narrow `Init` to families of interesting problems. The steps are
those of the module, with these exceptions: in one family of
`MCRasterWindowCache` a spare call may only fail; `MCRemoteOpen` bounds each regime of
`RemoteRegimes` (in a crowd the manifest's HEAD has a tag; by turns one source is
opened and overwritten); `MCOutletResolution` and
`MCTerminalCarve` search and carve fully only for one manifest and one declaration
of each kind; `MCCatchmentReads` opens, in one behaviour, the sessions of one of
three groups, and overwrites a second time only between opens.

### What the three violations mean

- *A token for a graph never scanned* (`RemoteOpenStaleToken`). The tags of
  manifest and graph are taken by HEAD first (`session.rs:373`), then the bytes
  come from the cache if the source is indexed there. After an upload the open
  scans the *old* graph and writes a sidecar naming the *new* one. While the
  cached pair stays, nothing goes wrong: it is what was scanned, which is why
  `SkipIsEarned` holds by turns. If the cached graph is
  removed, the next open downloads the new graph and the sidecar matches without
  a scan.
- *A lost wake-up* (`RasterWindowLostWakeup`). `notify_waiters` wakes the
  `Notified` futures that exist. A call that cloned the Notify (`raster_cache.rs:82`)
  and creates its future (`:88`) after the fetch has notified never wakes up.
- *A match that is skipped* (`SnapPruning`). The bbox column of `snap.parquet` is
  nullable, and a row without one takes the box of its geometry
  (`snap_store.rs:970`). The statistics of a row group know only the boxes that are
  there. A group with both kinds of rows is skipped when those miss the query
  (`snap_store.rs:518`), although a row without one matches; the doc comment of the
  query (`:493`) says that only groups that cannot match are.

### Other divergences

No run shows these; they are single lines, and the models follow the code.

- `next_up_f32` (`snap_store.rs:48`) adds one to the bits of a number. Below zero
  that moves away from zero, so the padded box of a point or an axis-aligned line
  at a negative coordinate has its maximum below its minimum, and the query that
  reads the row is refused. The comments at `:51` and `:57` promise a box of
  positive width. (`SnapQuery` has `NextUp`; `SkipsNoMatch` speaks of files
  without such rows.)
- The doc of `Engine::delineate` lists `TerminalCatchmentFetch` and
  `TerminalCatchmentDecode` (`engine.rs:1109`); no code constructs them.
- `README.md:196` gives the portal radii of 1 to 50 km; the ladder is 100 m to
  20 km.
- A carve is made of whole cells and may reach half a cell over the terminal's
  border, where `refine.rs:259` speaks of "a strict sub-polygon".
- Cells that meet at a corner may end in one ring that touches itself: two diagonal
  cells are one polygon, where `polygonize.rs:14` and the test at `refine.rs:1075`
  speak of one for each disconnected region, and a lake that meets the outside at a
  corner is part of the exterior, not an interior ring.
- A ring of cells within the lake of another may hang on it by a corner. `Polygonized`
  then gives the inner lake to the outer exterior, the first that contains it
  (`polygonize.rs:81`), and the inner polygon covers its own lake. Two such rings of
  seven by seven cells, joined below, show it; all rings together, by the even-odd
  rule, are still right. `PolygonsExact` speaks of all rings together.

Two sources with one fabric name and adapter version share a cache directory, and
then one is served the other's pair (`cache.rs:168`, against the comment at `:139`).
The runs take sources of different fabrics; with `CacheKey <- SharedKey` and two
sources TLC refutes `ServesOwnSource`.

### Fairness

Safety properties assume none. `UpstreamNetwork` and `TerminalCarve` are loops of
one thread: weak fairness of the next step says that the thread runs.
`CatchmentReads`: weak fairness of every open that began and of every call, since
an object-store request ends in data or an error; that a process dies, an object
is overwritten, or an open begins is not assumed. `ReadsEnd` is what the code makes
of it: a reader that gives up on one group does not wait for the others for ever.
`RasterWindowCache`: weak fairness of each call, since tokio polls a ready task and
an object-store request ends in data or an error (the client has timeouts and
bounded retries). A parked call has no step of its own, so fairness does not wake
it. `Portal`: weak fairness of accepting, reading and writing, which have timeouts
or are the operating system's; that the engine returns is not assumed by the
specification but is the premise of `OthersDoNoHarm`, and not of
`PagesNeedNoEngine`.

## Proofs

TLAPS proves, for every value of the constants:

- `RasterWindowProofs`: of `RasterWindowCache`, type correctness, `SingleFlight`, `EntriesAreLive`,
  that a call which returns Ok names a file that exists and that a published window
  is never replaced (theorems only), and that the cache implements `WindowPromise`.
  The inductive invariant adds that a fetching call owns its map entry
  (`FlightOwnsEntry`: single flight follows because an entry has one value) and
  that whoever has seen a window in place still finds it there (`FileInPlace`).
  Of `CogWindow`, type correctness, `WindowIsRaster` and `SupportedIsRead`, for any
  files, boxes, width of a tile and ceilings, and however uploads and requests
  interleave. The ranges are put together from entries that are no later than the last
  request that was answered (`RangesAre`, in `ReadInv`); what inflates at one is a chunk
  that starts there, and it is the tile's own if the entry is of the upload that was read
  (`ChunkIs`). If all chunks are of the uploads of their entries and of one, the window
  shows that upload; if not, a later upload has a chunk where an earlier one has a tile.
  Then every step of the way is a lemma: a
  span holds the pixels under the box, and one at least if the box meets the axis
  (`SpanIs`); the plan has the tiles that hold a pixel of the window, each once
  (`PlanIs`); the interleaved responses are taken apart as they were asked for
  (`ResolvedIs`); the predictors are undone (`UndoneIs`, `RowRestored`: the running sums
  are shown to exist and to restore the row by a least sample where they would not);
  padding and narrow tiles leave no trace (`DecodedIs`); and each pixel is copied from
  the one tile it lies in (`CopiedIs`). `SupportedIsRead` goes the other way: each
  check of the code is shown to pass (`DocumentedAccepted`, `DocumentedRead`, where the
  sum of the planned chunks is bounded by the largest one), as long as the size that
  HEAD gave is the first upload's (`SupportedInv`).
- `UpstreamTraversalProofs`: type correctness, `FindsUpstream`,
  `DownstreamIsTree`, `DanglingExact`, `SameLevelUnreachable`, for every graph,
  finite or not. The invariant is about `units \o queue`, the order of discovery,
  which expanding leaves alone: it lists the visited set once; rows of expanded
  units are covered up to what is still to do; nothing outside a closed set was
  ever visited; everyone's downstream unit was expanded earlier.
  `OrdersAreStrahler` is proved of both components together, for every graph. That
  an order is right when it is folded needs that the orders of the unit's children
  are there, and that is a fact about the stack (`FoldInv`): a unit lies on it once
  at most, and not after it has its order (`StackOnce`); the parent of a unit that
  is on the stack or folded was opened or folded before (`ParentsOpen`); the children
  of an opened unit are folded or lie above it (`KidsAbove`); and the folded units are
  closed upstream (`Ordered`). That *every* unit was folded when the stack is empty
  (`AllFolded`) follows from the first one, in the order of the walk, that was not.
- `WatershedExportProofs`: `ResultsAreWatersheds`, for any datasets, any number of
  calls and threads in any modes, any overwrites and any mix of uploads in a read. The
  invariant (`BatchInv`)
  says of a batch that runs what the open has proved in spite of mixing (`Opened`: the
  index knows the units of the graph and gives each a row group in which some upload has it,
  no edge leaves a level and, while the file was not overwritten, graph and rows agree),
  and of each call what its stage
  may count on. A walk lists distinct units of one level, the terminal first
  (`Order`), each but the first with a downstream unit listed before it (`Drains`);
  the rows before the one being looked at are listed already, and so is the part of
  that row before the next id (`Progress`); and nothing is listed that some set closed
  upstream from the terminal lacks (`Least`). When the walk has ended the list is
  therefore the basin, which is defined as the least such set (`Whole`), and no unit of
  it is of another level: `SameLevelInvariant` comes of a traversal only if the outlet
  was resolved to a row that an upload has moved to another level. A level in the
  metadata of a call is one that some upload has at a place of the unit, and a unit that
  is missing there has lost a place (`Metas`); so it is with the cells of a joined
  one (`Joined`). Both rest on the index: a query reads the whole row group in which
  some upload has the unit, so that the unit's row is missed only where an upload has put
  another id (`MissingDisplaced`), and a level differs from the graph's only if an upload has changed it
  (`MisfitCause`). A dissolved answer has every cell of the joined areas and
  no other, and a reach is found when it shares a cell with the watershed because
  two areas that share a cell have bounds that meet (`SharedMeet`), and with it its row
  group's statistics unless the reach is overlooked (`GroupMet`).
  Of `RowGroups`, for any number of rows and any policy with a target of twice
  the smallest size: the plan of `plan_row_groups` is legal, so that its own check
  cannot fail, and its groups follow each other from the first row to the last.
  The argument is that the number of groups is the least that keeps to the target,
  hence at most the number that keeps every group above the smallest size.
  `ExportExact`, for any requests, policy, resolution of the curve and spacing of the
  `f32`, and wherever the sink fails. The invariant (`ExportInv`, beside `BatchInv`)
  says that what is written is a prefix of the plan's groups of rows in order
  (`Partial`, `InOrder`); `AnsweredInv` says of the batch that what it answered can
  be exported at all: ids are numbers, and geometries finite sets of cells. Inputs that
  nothing is wrong with (`Clean`) have rows whose sort keys differ, since id and
  label alone do, so that `Before` is a strict total order of them and `Rank` a
  bijection from them to 1..N (`BeforeOrders`, `RankGrows`, `SortedIs`). It takes that
  every place on the curve is a number (`Hilbert`, a recursive function that is shown
  to exist and to be typed by a least counterexample, and quantized coordinates that
  the clamp keeps on it). The groups of a plan cover the rows without overlap
  (`PlanCovers`), so a finished file has each row once (`FinishedRows`) in groups of
  the policy sizes (`FinishedGroups`); rounding outward moves a bound by less than one
  step (`FinishedBounds`). What refuses an input is a cause (`TroubleHas`).
- `RemoteOpenProofs`: type correctness, `TokensFailClosed` (every whole sidecar has
  four tags, and so has the token of whoever writes one) and, for sources of which
  no two share a cache directory (`SourcesApart`: a fabric name and adapter version
  belong to one dataset), `ServesOwnSource`. Its invariant says that what an open
  holds is of its own source, and so are the directory its index entry names and
  the graph in it, through every crash, torn file and removal.
  Of `RemoteRegimes` it proves `IndexCommits`, `IndexedPairFrozen` and
  `SkipIsEarned`, for any numbers of openers, sources and uploads. The invariant
  has a part for each regime. By turns (`LoneInv`) an open that writes has no entry
  that parses, and no entry leads to its directory, so that the cached pair, once
  committed, stays; and (`EarnInv`) the tags of a whole sidecar are
  no newer than rows and snap rows that one scan accepted *together with the pair
  that its directory holds now*, and so are those of an open past its scan; as tags
  are taken before the rows are opened, a match can only be of what was scanned. In a crowd
  (`QuietInv`) everything that is cached, held or named is of the one version that
  the objects have, so a tag that matches matches what was scanned.
- `PortalProofs`: type correctness and `LadderExact`, for any ascending ladder. The
  invariant is that every rung below the present one was passed, because it found
  nothing or could not be read, and that the reply was formed at the present one.
- `TerminalCarveProofs`: of `TerminalRefinement`, for any number of declarations,
  type correctness, `StrictNeverCoarse`, `BestEffortSkips`, `ManifestFirstCovers`,
  `SelectionExact` and `FetchesOnlyChosen`. The invariant ties the loop's two
  vectors to the index reached: what was examined was judgeable, and the first
  covering and the first two meeting declarations are where the vectors say.
  Of `TerminalCarve`, `SeedHonoursAuthority` on tiles of any size and content
  (distance, accumulation and row-major position order the candidates strictly),
  and that the carve on cells implements `TerminalRefinement`
  (`ImplementsRefinement`, if that is told of every error: `ErrorsTold`). The
  invariant relates the authority of the call to the kind of outlet and of failure.
  `CarveExact`, for tiles of any size and content: `Catchment` is what is reached
  in as many steps upstream as the mask has cells, and it is the *least* set that
  holds the seed and all that drains into it, because levels that have not yet
  stopped growing have more cells than steps. The trace keeps to three facts
  (`TraceInv`): every set that holds the seed and all that drains into it holds
  what is visited; what flows into a visited cell that is
  no longer on the stack is visited; and the stack holds only visited cells. A mask
  with a cell has edges, so no carve ends as `EmptyPolygonization`.
  `WholeCallCorrect` draws the conclusion: what is proved of the decision holds of
  calls with the carve in them.
  `PolygonsExact`, for masks of any size and shape, by winding numbers. First the walk
  (`WalkInv`): at every corner as many edges arrive as leave, so a ring goes on until it
  is back, and when no edge is left every edge is on exactly one ring (`RingsAre`).
  The winding of a ring around a cell is the sum, over its legs in the cell's row and
  to the left of it, of up and down; from a cell to the next it changes by the ring's
  own edges between them. Summed over all rings it is 1 in the mask and 0 elsewhere
  (`WindingsAre`). A single ring keeps the same winding on the inner side of all its
  edges, because two edges that meet at a corner share a cell or turn around one
  (`Pivot`), so it winds -1, 0 or 1 times around any cell (`RingWinds`), and by parity
  the scan line finds a cell inside exactly when that is not 0 (`InsideIs`). The area
  is made of the windings, so a ring of negative area is a hole (`NegativeIsHole`); the
  walk starts a ring at its first corner and prefers the edge pushed last, so a hole
  starts below a cell that an exterior winds around, and is not dropped
  (`HoleEnclosed`). Every ring is then drawn once, in some polygon
  (`PolygonizedDrawn`), and the rings around a cell are odd in number in the mask only
  (`PolygonsHoldMask`).
- `OutletResolutionProofs`: `ResolvesToBest`, `WideningKeeps`, `AnswerIsClaimant`
  and `ErrorsExact`, for any finite stores. The invariant of each search says that
  what was scored, or decoded, and what failed is what should have been of the rows
  seen so far, with the counts as cardinalities; the rest is that both rankings are
  strict orders. `DispatchByDeclaration`, for a manifest of any length and order: the
  declarations of a level that compete by name and artifact have a least one.
- `CatchmentReadsProofs`: type correctness, `IndexIsExact` and `AnswersAreScan`, for any number of
  sessions, calls and uploads. A session has only one tag to know its upload by, so
  the invariant follows the rows: what an open's scan has read so far is of the
  upload its HEAD named, unless an upload met the open under the same tag
  (`OneUpload`), and an index file that decodes is, for its tag, the index of that
  tag's upload (`Indexed`), whichever session wrote it and whichever died writing.
  `AnswersAreScan` adds four facts about calls (`CallsInv`): a call reads the groups
  that its query selects, now as when it was made; unless several are in flight,
  whatever was asked for or came, all groups before it came; only a lossy
  reader loses a request; and what returned is complete or has failed. Then the
  first failure is the first a scan would meet, because every needed group before
  it came whole, and a group that holds a wanted row is selected, by an exact index
  or by the least and greatest corners of its boxes. That the rows come in the order
  of the file is a lemma about `FlattenSeq` (`FlattenOrdered`).

Two kinds of argument by induction are within reach, because the property is fixed:
a least counterexample among the naturals (`NatLessThanWellFounded` with
`WFMin`), and finite cardinalities. That is also how a recursive function over the
naturals is shown to exist (`LevelsExist`): each is proved for itself.

The assumptions are the `ASSUME`s of the modules, which TLC evaluates in the runs:
types of the constants, what a TIFF file holds (`Stored`), what a dataset's tables hold
(`Dataset`), the ladder's order and distinctness of the markers (`None`,
`Absent`, `Unset`, `Garbage`, and that no error of an export is `None`), and that what callers export
are sequences of calls with names and methods. `SourcesApart` and `ErrorsTold` are hypotheses of their theorems, and
hold in the instances of the runs.

Only model-checked:

- everything about fairness (`BothTerminate`, `Returns`, `ParkedInFlightWakes`,
  `ReadsEnd`, `OthersDoNoHarm`, `PagesNeedNoEngine`), which the prover does not do;
- that the Hilbert order is a curve, which visits every place once and next to the one
  before (`HilbertIsCurve`): the file's order needs only that it is a number.

## Not modelled

- Polygon geometry (unions, buffers, cleaning, projections, areas): floating-point
  algorithms without protocol, whose correctness is about real numbers.
- Tile statistics and the length of a channel; the rows that rasterizing fills in
  parallel, which share nothing.
- Parsing of manifest and graph files: a long list of field checks without state.
- Source URLs, client options, the shared runtime, telemetry.
- Local rasters, which the `tiff` crate reads.
- The browser page, benchmarks, examples (`portal_server.rs` is an earlier copy of
  the portal) and deployment files.

Manifest and graph are read in one step, although the code reads large objects in
several ranges. The portal's threads are unlimited. Floating-point inputs such as
NaN coordinates are below the abstraction: they are one of the failures of a
resolution.

## Plan

Every component with a protocol of its own is modelled, and of those that are not
only about reading a format the safety invariants are proved.
