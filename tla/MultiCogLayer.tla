---------------------------- MODULE MultiCogLayer ----------------------------
(***************************************************************************)
(* MultiCOGLayer (packages/deck.gl-geotiff/src/multi-cog-layer.ts): opens  *)
(* the files of its sources side by side, groups them by the finest grid,  *)
(* and reads every band of a tile, those of coarser grids from the tiles   *)
(* that cover it.                                                          *)
(***************************************************************************)
EXTENDS SecondaryTiles, RasterTileLayer

CONSTANTS
  MultiFiles,   \* MultiFiles[f]: the levels of file f, coarsest first
  MultiNames,   \* the names of the bands, in the order sources lists them
  MultiProps,   \* values of the sources prop: functions from some names to files
  MultiChanges  \* bound: changes of the sources in a behaviour

ASSUME MultiAssumption == MultiChanges \in Nat

VARIABLES
  multiProps,    \* the sources prop
  multiState,    \* the sources of the state, which its descriptor groups
  multiOpens,    \* calls of _parseAllSources under way
  multiView,     \* the tile layer
  multiRemoved,  \* finalizeState was called; the controller of the layer is aborted
  multiLoaded,   \* auxiliary: the opens onGeoTIFFLoad was called for
  multiChanges,  \* auxiliary: changes of the sources so far
  multiOverlap   \* auxiliary: the sources changed while others were being opened

multiVars == <<multiProps, multiState, multiOpens, multiView, multiRemoved,
               multiLoaded, multiChanges, multiOverlap>>

NamesOf(sources) == SelectSeq(MultiNames, LAMBDA name : name \in DOMAIN sources)

\* The primary of the descriptor that groups these sources.
Primary(sources) ==
  primaryKey(NamesOf(sources), [name \in DOMAIN sources |-> MultiFiles[sources[name]]])

PrimaryLevels(sources) == MultiFiles[sources[Primary(sources)]]

\* _parseAllSources up to its await: no sources, no call of openCogSources.
MultiOpening(n, sources) ==
  IF DOMAIN sources = {} THEN {}
  ELSE {[n |-> n, sources |-> sources, waiting |-> DOMAIN sources]}

MultiWithout(open) == {o \in multiOpens : o.n # open.n}

\* The callbacks of the layer go to the layer itself: they read the state of
\* the moment they are called.
MultiRendered(view, state) == renderLayers(view, state, state, state)

MultiInit ==
  /\ multiProps \in MultiProps
  /\ multiState = None
  /\ multiOpens = MultiOpening(0, multiProps)
  /\ multiView = NoView
  /\ multiRemoved = FALSE
  /\ multiLoaded = {}
  /\ multiChanges = 0
  /\ multiOverlap = FALSE

\* updateState for new sources, and the render that follows.
MultiUpdate(sources) ==
  /\ ~multiRemoved
  /\ multiChanges < MultiChanges
  /\ sources # multiProps
  /\ multiChanges' = multiChanges + 1
  /\ multiProps' = sources
  /\ multiState' = None
  /\ multiOpens' = multiOpens \cup MultiOpening(multiChanges + 1, sources)
  /\ multiView' = MultiRendered(multiView, None)
  /\ multiOverlap' = (multiOverlap \/ multiOpens # {})
  /\ UNCHANGED <<multiRemoved, multiLoaded>>

MultiRemove ==
  /\ ~multiRemoved
  /\ multiRemoved' = TRUE
  /\ multiView' = NoView
  /\ UNCHANGED <<multiProps, multiState, multiOpens, multiLoaded, multiChanges, multiOverlap>>

\* All sources are open: nothing on a removed layer, otherwise the state is set
\* and onGeoTIFFLoad called.
MultiResume(open) ==
  IF multiRemoved THEN UNCHANGED <<multiState, multiView, multiLoaded>>
  ELSE /\ multiState' = open.sources
       /\ multiView' = MultiRendered(multiView, open.sources)
       /\ multiLoaded' = multiLoaded \cup {open.n}

\* One of the sources of Promise.all is open, with its projection.
MultiSourceOpened(open, name) ==
  /\ name \in open.waiting
  /\ IF open.waiting = {name}
       THEN /\ multiOpens' = MultiWithout(open)
            /\ MultiResume(open)
       ELSE /\ multiOpens' = MultiWithout(open) \cup {[open EXCEPT !.waiting = @ \ {name}]}
            /\ UNCHANGED <<multiState, multiView, multiLoaded>>
  /\ UNCHANGED <<multiProps, multiRemoved, multiChanges, multiOverlap>>

\* One of them fails or is aborted: the call ends, whatever the others do.
MultiOpenFails(open) ==
  /\ multiOpens' = MultiWithout(open)
  /\ UNCHANGED <<multiProps, multiState, multiView, multiRemoved, multiLoaded,
                 multiChanges, multiOverlap>>

-----------------------------------------------------------------------------
(* The bands of a tile.                                                    *)

\* selectImage: image z of a file, counted from the coarsest, if it has one.
selectImage(file, z) == IF z \in DOMAIN MultiFiles[file] THEN z ELSE 0

\* _fetchPrimaryBand: the tile of the same index, under the identity transform.
PrimaryBand(file, tile) ==
  LET z == selectImage(file, tile.z)
      level == MultiFiles[file][z]
      at == Box(level, tile.col, tile.row)
      side == level.tile * level.px
  IN IF z = 0 THEN None
     ELSE [file |-> file, z |-> z,
           tiles |-> [tiles |-> {<<tile.col, tile.row>>}, minCol |-> tile.col, minRow |-> tile.row,
                      crsWidth |-> side, crsHeight |-> side,
                      offsetX |-> 0, scaleX |-> side, offsetY |-> 0, scaleY |-> side,
                      width |-> level.tile, height |-> level.tile]]

\* _fetchSecondaryBand: the covering tiles of the level that suits.
SecondaryBand(file, primary, tile) ==
  LET levels == MultiFiles[file]
      z == selectSecondaryLevel(levels, primary.px)
      r == resolveSecondaryTiles(Box(primary, tile.col, tile.row), levels[z])
  IN IF Assembles(r, levels[z]) THEN [file |-> file, z |-> z, tiles |-> r] ELSE None

\* _getTileData: every source is fetched on the primary grid when its level of
\* the same index, or its coarsest when it has none, is the same grid.
BandsOf(sources, tile) ==
  LET primary == PrimaryLevels(sources)[tile.z]
      same(name) ==
        LET levels == MultiFiles[sources[name]]
        IN \/ name = Primary(sources)
           \/ tilesetLevelsEqual(levels[IF tile.z \in DOMAIN levels THEN tile.z ELSE 1], primary)
  IN [name \in DOMAIN sources |->
        IF same(name) THEN PrimaryBand(sources[name], tile)
        ELSE SecondaryBand(sources[name], primary, tile)]

TilesOf(sources) ==
  {[z |-> z, col |-> c, row |-> r] :
     z \in DOMAIN PrimaryLevels(sources), c \in 0..1, r \in 0..1}

InMatrix(sources, tile) ==
  LET level == PrimaryLevels(sources)[tile.z]
  IN tile.col < matrixWidth(level) /\ tile.row < matrixHeight(level)

\* The tileset asks for a tile; its bands are looked up in the state at once.
MultiTileStarts ==
  /\ multiView.tileset # None
  /\ \E tile \in Wanted(multiView, TilesOf(multiView.tileset)) :
       /\ InMatrix(multiView.tileset, tile)
       /\ \E bands \in {IF tile.z \in DOMAIN PrimaryLevels(multiState)
                          THEN BandsOf(multiState, tile)
                          ELSE [name \in DOMAIN multiState |-> None]} :
            multiView' = StartLoad(multiView, tile, bands)
  /\ UNCHANGED <<multiProps, multiState, multiOpens, multiRemoved, multiLoaded,
                 multiChanges, multiOverlap>>

\* The reads of all bands end, or one fails: that of an image that is not there
\* always does.
MultiTileEnds(load) ==
  /\ \/ /\ \A name \in DOMAIN load.content : load.content[name] # None
        /\ multiView' = KeepTile(multiView, load)
     \/ multiView' = DropLoad(multiView, load)
  /\ UNCHANGED <<multiProps, multiState, multiOpens, multiRemoved, multiLoaded,
                 multiChanges, multiOverlap>>

MultiNext ==
  \/ \E s \in MultiProps : MultiUpdate(s)
  \/ MultiRemove
  \/ \E o \in multiOpens : MultiOpenFails(o) \/ \E name \in DOMAIN o.sources : MultiSourceOpened(o, name)
  \/ MultiTileStarts
  \/ \E l \in multiView.loads : MultiTileEnds(l)

MultiTypeOK ==
  /\ multiProps \in MultiProps
  /\ {multiState, multiView.tileset, multiView.reader} \subseteq MultiProps \cup {None}
  /\ \A o \in multiOpens : o.waiting \subseteq DOMAIN o.sources /\ o.waiting # {}
  /\ {multiRemoved, multiOverlap} \subseteq BOOLEAN
  /\ multiLoaded \subseteq 0..MultiChanges

\* The places of a box that a level has pixels for, in the middle of a CRS unit
\* of two.
Places(box, level) ==
  {place \in ((box.minX)..(box.maxX)) \X ((box.minY)..(box.maxY)) :
     /\ place[1] % 2 = 1 /\ place[2] % 2 = 1
     /\ level.x < place[1] /\ place[1] < level.x + level.width * level.px
     /\ level.y - level.height * level.px < place[2] /\ place[2] < level.y}

\* Whatever grid a band is on, the shader samples, at every place of the tile
\* that its image reaches, the pixel of that place; and it is never read
\* coarser than the tile when its file has finer levels.
BandAligned(band, box, px) ==
  LET level == MultiFiles[band.file][band.z]
  IN /\ level.px <= px \/ band.z = Len(MultiFiles[band.file])
     /\ \A place \in Places(box, level) :
          LET texel == SampledTexel(band.tiles, box, place[1], place[2])
              pixels == AssembledPixel(band.tiles, level, texel[1], texel[2])
          IN /\ pixels # {}
             /\ \A p \in pixels :
                  LET at == PixelBox(level, p)
                  IN at.minX < place[1] /\ place[1] < at.maxX
                     /\ at.minY < place[2] /\ place[2] < at.maxY

\* multi-cog-layer.ts:378: the state is reset, or "the TileLayer renders with
\* new props but stale state, caching tiles with the wrong bands".  As long as
\* no two opens overlap, a tile has the bands of the sources prop, and no other's.
MultiTilesOfTheirSources ==
  ~multiOverlap =>
    /\ {multiState, multiView.tileset} \subseteq {None, multiProps}
    /\ \A t \in multiView.loads \cup multiView.tiles :
         /\ DOMAIN t.content = DOMAIN multiProps
         /\ \A name \in DOMAIN t.content :
              t.content[name] # None => t.content[name].file = multiProps[name]

\* multi-cog-layer.ts:334: "secondary sources are sampled at the closest
\* matching resolution", and every band of a tile is there and lies where the tile does.
MultiBandsAligned ==
  ~multiOverlap =>
    \A t \in multiView.loads :
      LET primary == PrimaryLevels(multiProps)[t.index.z]
      IN \A name \in DOMAIN t.content :
           /\ t.content[name] # None
           /\ BandAligned(t.content[name], Box(primary, t.index.col, t.index.row), primary.px)
=============================================================================
