---------------------------- MODULE TileTraversal ----------------------------
(***************************************************************************)
(* RasterTileset2D: the tiles of a pyramid that a viewport needs           *)
(* (packages/deck.gl-raster/src/raster-tileset/raster-tileset-2d.ts,       *)
(* raster-tile-traversal.ts, bounding-volume-cache.ts and                  *)
(* sort-by-distance.ts).                                                   *)
(*                                                                         *)
(* Common space is a plane of integers, WorldWidth to a copy of the world, *)
(* whose equator lies at y = 0; projections are the identity.  The frustum *)
(* of a viewport is the box it sees at sea level; of ground at height h it *)
(* sees what lies lean * h further south.  A place of the sphere of the    *)
(* globe view is told from one of the plane by the tag of its volume.      *)
(***************************************************************************)
EXTENDS SecondaryTiles

CONSTANTS
  Pyramids,        \* descriptors: levels of SecondaryTiles, coarsest first
  TileViews,       \* viewports: box, zoom, globe, lean, copies (subViewports > 1)
  ZRanges,         \* the highest elevation of the zRange prop, null is 0
  MinTileZoom,     \* the minZoom prop
  MaxTileZooms,    \* the maxZoom prop
  WorldWidth, WorldHeight,
  MAX_ROOT_TILES_NO_CULL, MAX_MAPS, MaxEntries, MaxTileRequests,
  MaxTileCalls     \* bound on the calls of getTileIndices

VARIABLES
  pyramid,              \* the descriptor
  boundingVolumeCache,  \* entries, least recently used first
  lastViewportIsGlobe,  \* None before the first call
  tileOpts,             \* arguments of the last call
  tileIndices,          \* its result
  tileCalls

CONSTANT None

tileVars == <<pyramid, boundingVolumeCache, lastViewportIsGlobe, tileOpts, tileIndices, tileCalls>>

LOCAL Least(a, b) == IF a <= b THEN a ELSE b
LOCAL Most(a, b) == IF a >= b THEN a ELSE b

\* The box of the whole array of a level: projectedBounds of a descriptor whose
\* finest level it is.
Extent(level) ==
  [minX |-> level.x, maxX |-> level.x + level.width * level.px,
   minY |-> level.y - level.height * level.px, maxY |-> level.y]

TileBox(levels, tile) == Box(levels[tile.z], tile.x, tile.y)

\* The tiles of a range, row by row.
TileSeq(range, z) ==
  LET columns == Most(0, range.maxCol - range.minCol + 1)
      rows == Most(0, range.maxRow - range.minRow + 1)
  IN [i \in 1..(columns * rows) |->
        [z |-> z, x |-> range.minCol + ((i - 1) % columns), y |-> range.minRow + (i - 1) \div columns]]

\* A node is the path of tiles that leads to it from its root: the grids of
\* two levels need not nest, so a tile may hang under several parents.
children(levels, node) ==
  LET tile == Last(node)
  IN IF tile.z >= Len(levels) THEN <<>>
     ELSE LET below == TileSeq(crsBoundsToTileRange(levels[tile.z + 1], TileBox(levels, tile)), tile.z + 1)
          IN [i \in DOMAIN below |-> Append(node, below[i])]

-----------------------------------------------------------------------------
(* BoundingVolumeCache                                                     *)

Others(cache, tile) == SelectSeq(cache, LAMBDA e : e.tile # tile)

\* sweep: over the cap, down to half of it, the least recently used go.
sweep(cache) ==
  IF Len(cache) <= MaxEntries THEN cache
  ELSE SubSeq(cache, Len(cache) - MaxEntries \div 2 + 1, Len(cache))

\* _getGenericBoundingVolume and _getGlobeBoundingVolume: elevation is not
\* modelled on the globe.
computeBoundingVolume(opts, tile) ==
  [tile |-> tile, zRange |-> opts.zRange, globe |-> opts.view.globe,
   box |-> TileBox(opts.levels, tile), top |-> IF opts.view.globe THEN 0 ELSE opts.zRange]

\* Mutant of getBoundingVolume: any entry of the tile will do.
getBoundingVolume_AnyRange(cache, opts, tile) ==
  LET hits == SelectSeq(cache, LAMBDA e : e.tile = tile)
      base == IF hits # <<>> THEN hits[1] ELSE computeBoundingVolume(opts, tile)
  IN [cache |-> Append(Others(cache, tile), base), base |-> base]

\* A volume of another elevation range is computed anew; the entry becomes the
\* most recently used in both cases.
getBoundingVolume(cache, opts, tile) ==
  LET hits == SelectSeq(cache, LAMBDA e : e.tile = tile /\ e.zRange = opts.zRange)
      base == IF hits # <<>> THEN hits[1] ELSE computeBoundingVolume(opts, tile)
  IN [cache |-> Append(Others(cache, tile), base), base |-> base]

-----------------------------------------------------------------------------
(* RasterTileNode.update                                                   *)

insideBounds(bounds, box) ==
  /\ box.minX < bounds.maxX /\ box.maxX > bounds.minX
  /\ box.minY < bounds.maxY /\ box.maxY > bounds.minY

\* cullingVolume.computeVisibility of the volume in one copy of the world.  A
\* volume of the other projection lies elsewhere.
InFrustum(view, volume, offset) ==
  /\ volume.globe = view.globe
  /\ volume.box.minX + offset * WorldWidth <= view.east
  /\ volume.box.maxX + offset * WorldWidth >= view.west
  /\ volume.box.minY <= view.north
  /\ volume.box.maxY + view.lean * volume.top >= view.south

\* getMetersPerPixelAtCommonSpaceBounds: half as much in the northern half of
\* the plane, by the latitude of the middle of the box.
MetersPerPixel(view, box) ==
  (IF box.minY + box.maxY > WorldHeight THEN 1 ELSE 2) * 2^(2 - view.zoom)

\* The test of level of detail; one device pixel to a CSS pixel.
FineEnough(opts, tile, box, kids) ==
  \/ opts.levels[tile.z].px <= MetersPerPixel(opts.view, box)
  \/ tile.z >= opts.maxZ
  \/ kids = <<>>

\* One visit of a node.  A pass over the primary world, offset 0, resets the
\* flags of each node it visits; the passes over its copies only add to them.
\* s keeps the cache, the flags of the nodes, and what the visit returns.
RECURSIVE update(_, _, _, _)
update(s, opts, node, offset) ==
  LET tile == Last(node)
      got == getBoundingVolume(s.cache, opts, tile)
      reset(t) == IF offset = 0 THEN t \ {node} ELSE t
      here == [s EXCEPT !.cache = got.cache, !.childVisible = reset(@), !.selected = reset(@)]
      kids == children(opts.levels, node)
      visit(t, kid) == LET u == update(t, opts, kid, offset)
                       IN [u EXCEPT !.returns = @ \/ t.returns]
  IN IF \/ ~insideBounds(opts.bounds, got.base.box)
        \/ ~InFrustum(opts.view, got.base, offset)
     THEN [here EXCEPT !.returns = FALSE]
     ELSE IF node \notin here.childVisible /\ FineEnough(opts, tile, got.base.box, kids)
     THEN [here EXCEPT !.selected = @ \cup {node}, !.returns = TRUE]
     ELSE LET below == FoldLeft(visit, [here EXCEPT !.selected = reset(@), !.returns = FALSE], kids)
          IN IF below.returns THEN [below EXCEPT !.childVisible = @ \cup {node}] ELSE below

RECURSIVE getSelected(_, _, _)
getSelected(s, levels, node) ==
  (IF node \in s.selected THEN <<node>> ELSE <<>>)
    \o FlattenSeq([i \in DOMAIN children(levels, node) |->
                     getSelected(s, levels, children(levels, node)[i])])

-----------------------------------------------------------------------------
(* getTileIndices                                                          *)

RootCount(levels) == matrixWidth(levels[1]) * matrixHeight(levels[1])

\* A large root level is cut down to the data in view, which is the box of the
\* primary world at sea level.
createRootTiles(opts) ==
  LET root == opts.levels[1]
      cull == [minX |-> Most(opts.bounds.minX, opts.view.west), maxX |-> Least(opts.bounds.maxX, opts.view.east),
               minY |-> Most(opts.bounds.minY, opts.view.south), maxY |-> Least(opts.bounds.maxY, opts.view.north)]
      tiles == IF RootCount(opts.levels) <= MAX_ROOT_TILES_NO_CULL
               THEN TileSeq([minCol |-> 0, maxCol |-> matrixWidth(root) - 1,
                             minRow |-> 0, maxRow |-> matrixHeight(root) - 1], 1)
               ELSE IF cull.minX > cull.maxX \/ cull.minY > cull.maxY THEN <<>>
               ELSE TileSeq(crsBoundsToTileRange(root, cull), 1)
  IN [i \in DOMAIN tiles |-> <<tiles[i]>>]

\* A pass over every root, returning whether any of them was visible.
Pass(s, opts, roots, offset) ==
  FoldLeft(LAMBDA t, root : LET u == update(t, opts, root, offset)
                            IN [u EXCEPT !.returns = @ \/ t.returns],
           [s EXCEPT !.returns = FALSE], roots)

\* The copies to the west, then those to the east, each side until a pass sees
\* nothing.
runOffsetPasses(s, opts, roots) ==
  LET step(t, offset) == IF t.returns THEN Pass(t, opts, roots, offset) ELSE t
      west == FoldLeft(step, [s EXCEPT !.returns = TRUE], [k \in 1..MAX_MAPS |-> -k])
  IN IF ~opts.view.copies THEN s
     ELSE FoldLeft(step, [west EXCEPT !.returns = TRUE], [k \in 1..MAX_MAPS |-> k])

Traverse(cache, opts) ==
  LET roots == createRootTiles(opts)
      clean == [cache |-> sweep(cache), childVisible |-> {}, selected |-> {}, returns |-> FALSE]
      primary == Pass(clean, opts, roots, 0)
      s == runOffsetPasses(primary, opts, roots)
  IN [cache |-> s.cache,
      nodes |-> FlattenSeq([i \in DOMAIN roots |-> getSelected(s, opts.levels, roots[i])])]

\* Four times the squared distance of the middle of a tile from that of the view.
Distance(opts, node) ==
  LET box == TileBox(opts.levels, Last(node))
      dx == box.minX + box.maxX - opts.view.west - opts.view.east
      dy == box.minY + box.maxY - opts.view.south - opts.view.north
  IN dx * dx + dy * dy

\* Left alone when every request can start at once.
sortTileIndicesByDistance(opts, nodes) ==
  LET d == [i \in DOMAIN nodes |-> Distance(opts, nodes[i])]
      order == SortSeq([i \in DOMAIN nodes |-> i],
                       LAMBDA i, k : d[i] < d[k] \/ (d[i] = d[k] /\ i < k))
  IN IF Len(nodes) <= MaxTileRequests THEN nodes
     ELSE [i \in DOMAIN nodes |-> nodes[order[i]]]

-----------------------------------------------------------------------------
TilesInit ==
  /\ pyramid \in Pyramids
  /\ boundingVolumeCache = <<>>
  /\ lastViewportIsGlobe = None
  /\ tileOpts = None
  /\ tileIndices = <<>>
  /\ tileCalls = 0

\* clearStale: what is left of the cache when the projection flips.
Current(isGlobe) ==
  IF lastViewportIsGlobe # None /\ lastViewportIsGlobe # isGlobe THEN <<>> ELSE boundingVolumeCache

Opts(view, zRange, maxZoom) ==
  [levels |-> pyramid, view |-> view, zRange |-> zRange,
   maxZ |-> Least(maxZoom, Len(pyramid)), bounds |-> Extent(Last(pyramid))]

getTileIndices(view, zRange, maxZoom) ==
  /\ tileCalls < MaxTileCalls
  /\ tileCalls' = tileCalls + 1
  /\ tileOpts' = Opts(view, zRange, maxZoom)
  /\ lastViewportIsGlobe' = view.globe
  /\ IF view.zoom < MinTileZoom
     THEN tileIndices' = <<>> /\ boundingVolumeCache' = Current(view.globe)
     ELSE \E t \in {Traverse(Current(view.globe), Opts(view, zRange, maxZoom))} :
            /\ boundingVolumeCache' = t.cache
            /\ tileIndices' = sortTileIndicesByDistance(Opts(view, zRange, maxZoom), t.nodes)
  /\ UNCHANGED pyramid

TilesNext ==
  \E view \in TileViews, zRange \in ZRanges, maxZoom \in MaxTileZooms :
    getTileIndices(view, zRange, maxZoom)

-----------------------------------------------------------------------------
Shown == tileOpts # None /\ tileOpts.view.zoom >= MinTileZoom
Selected == {Last(tileIndices[i]) : i \in DOMAIN tileIndices}

\* Ground at height h in the unit cell [x, y] of the data shows in a copy.
CellShows(x, y, h, offset) ==
  /\ x + offset * WorldWidth < tileOpts.view.east
  /\ x + 1 + offset * WorldWidth > tileOpts.view.west
  /\ y + tileOpts.view.lean * h < tileOpts.view.north
  /\ y + 1 + tileOpts.view.lean * h > tileOpts.view.south

\* Where a viewport may see the data: a large root level is cut by the box of
\* the primary world at sea level, and gives up the rest.
Copies == IF tileOpts.view.copies /\ RootCount(pyramid) <= MAX_ROOT_TILES_NO_CULL
          THEN (-MAX_MAPS)..MAX_MAPS ELSE {0}
Heights == IF tileOpts.view.globe \/ RootCount(pyramid) > MAX_ROOT_TILES_NO_CULL
           THEN {0} ELSE 0..tileOpts.zRange

\* raster-tile-traversal.ts:229: all data in view is covered by a tile that was
\* selected, in every copy of the world the viewport shows and at every height
\* the terrain may have, whatever earlier calls left in the cache of volumes.
ViewIsCovered ==
  Shown =>
    \A x \in tileOpts.bounds.minX..(tileOpts.bounds.maxX - 1),
       y \in tileOpts.bounds.minY..(tileOpts.bounds.maxY - 1) :
      (\E h \in Heights, offset \in Copies : CellShows(x, y, h, offset)) =>
        \E tile \in Selected :
          LET box == TileBox(pyramid, tile)
          IN box.minX <= x /\ x + 1 <= box.maxX /\ box.minY <= y /\ y + 1 <= box.maxY

\* raster-tile-traversal.ts:241: along one branch, no tile is selected with a
\* tile below it, whichever passes selected them.
NoOverdraw ==
  \A i, k \in DOMAIN tileIndices : i # k => ~IsPrefix(tileIndices[i], tileIndices[k])

\* bounding-volume-cache.ts:40 ("it is safe to memoize"): the cache changes
\* nothing but the work.
CacheIsTransparent ==
  Shown => tileIndices = sortTileIndicesByDistance(tileOpts, Traverse(<<>>, tileOpts).nodes)

\* raster-tileset-2d.ts:265: when not all tiles can be asked for at once, those
\* near the middle of the view come first.
CentreOut ==
  Len(tileIndices) > MaxTileRequests =>
    \A i \in 1..(Len(tileIndices) - 1) :
      Distance(tileOpts, tileIndices[i]) <= Distance(tileOpts, tileIndices[i + 1])
=============================================================================
