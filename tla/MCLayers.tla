------------------------------- MODULE MCLayers -------------------------------
(***************************************************************************)
(* Instances of Layers for TLC, with the tileset that selects the tiles of *)
(* a layer, the reprojector that meshes a tile, the search of the          *)
(* limiter's queue (PriorityScan) and the reads of a file (CogPixels).     *)
(* They share no state, so a behaviour follows the one that is mounted and *)
(* the others stay as they began.                                          *)
(***************************************************************************)
EXTENDS Layers, PriorityScan, MCPictures

CONSTANTS
  Pyramids, TileViews, ZRanges, MinTileZoom, MaxTileZooms, WorldWidth, WorldHeight,
  MAX_ROOT_TILES_NO_CULL, MAX_MAPS, MaxEntries, MaxTileRequests, MaxTileCalls,
  Side, Warps, MaxError, MaxIterations

VARIABLES
  mounted,  \* what this behaviour follows
  pyramid, boundingVolumeCache, lastViewportIsGlobe, tileOpts, tileIndices, tileCalls,
  warp, mesh, iterations

Tiles == INSTANCE TileTraversal
Reprojector == INSTANCE Delatin

tileVars == <<pyramid, boundingVolumeCache, lastViewportIsGlobe, tileOpts, tileIndices, tileCalls>>
meshVars == <<warp, mesh, iterations>>
othersVars == <<tileVars, meshVars>>

\* Files of one, two and three levels; one with an EPSG code, one whose samples
\* the default pipeline refuses.
CogFiles0 ==
  ("a" :> [levels |-> 3, epsg |-> TRUE, uint |-> TRUE]) @@
  ("b" :> [levels |-> 1, epsg |-> FALSE, uint |-> TRUE]) @@
  ("c" :> [levels |-> 2, epsg |-> TRUE, uint |-> FALSE])
CogProps0 == [geotiff : {"a", "b", "c"}, custom : BOOLEAN]

\* Levels of 8 x 8 CRS units of two: grids of pixels of 2, 4 and 8 in tiles of
\* two pixels, one that does not divide, and one that reaches only half as far.
Level(px, width, height) ==
  [x |-> 0, y |-> 16, px |-> px, width |-> width, height |-> height, tile |-> 2]
MultiFiles0 ==
  ("fine" :> <<Level(8, 2, 2), Level(4, 4, 4)>>) @@
  ("twin" :> <<Level(8, 2, 2), Level(4, 4, 4)>>) @@
  ("coarse" :> <<Level(16, 1, 1), Level(8, 2, 2)>>) @@
  ("odd" :> <<Level(6, 3, 3)>>) @@
  ("half" :> <<Level(8, 2, 1)>>) @@
  ("single" :> <<Level(4, 4, 4)>>)
MultiNames0 == <<"B02", "B11">>
B(f, g) == ("B02" :> f) @@ ("B11" :> g)
MultiProps0 ==
  {<<>>, "B02" :> "fine", B("fine", "twin"), B("coarse", "fine"), B("fine", "odd"), B("half", "fine")}

\* Sources with an id, a number that is no place, and the same without one: lists
\* that are reordered, and lists that are appended to and shifted.
Source(name, id, west, east) == [name |-> name, id |-> id, box |-> <<west, east>>]
Placed(source) == [source EXCEPT !.id = Unset]
A == Source("A", 11, 0, 2)
C == Source("C", 12, 3, 4)
D == Source("D", 13, 6, 7)
Lists0 ==
  {<<>>, <<A, C, D>>, <<D, A>>, <<Placed(A)>>, <<Placed(A), Placed(C)>>, <<Placed(C), D>>}
Viewports0 == {[zoom |-> z, west |-> w, east |-> w + 2] : z \in {1, 2}, w \in {0, 4}}

\* A pyramid of three levels that nest, one whose grids do not and whose array
\* ends inside a tile, and one level with more roots than are made unculled.
Grid(x, y, px, width, height, tile) ==
  [x |-> x, y |-> y, px |-> px, width |-> width, height |-> height, tile |-> tile]
Pyramids0 ==
  {<<Grid(0, 4, 4, 2, 1, 1), Grid(0, 4, 2, 4, 2, 1), Grid(0, 4, 1, 8, 4, 1)>>,
   <<Grid(0, 4, 3, 2, 2, 1), Grid(0, 4, 1, 5, 4, 2)>>,
   <<Grid(4, 4, 1, 4, 3, 1)>>}
View(west, east, south, north, zoom) ==
  [west |-> west, east |-> east, south |-> south, north |-> north, zoom |-> zoom,
   globe |-> FALSE, lean |-> 0, copies |-> FALSE]
\* Close and wide, across the antimeridian on both sides, over two copies to the
\* east, leaning, on the globe, and below the minimum zoom.
TileViews0 ==
  {View(0, 4, 1, 4, 2), View(5, 7, 0, 2, 1),
   [View(-3, 5, 0, 3, 1) EXCEPT !.copies = TRUE],
   [View(6, 19, 1, 2, 1) EXCEPT !.copies = TRUE],
   [View(1, 3, 3, 5, 2) EXCEPT !.lean = 1],
   [View(1, 6, 1, 3, 1) EXCEPT !.globe = TRUE],
   View(0, 8, 0, 4, 0)}

\* Few errors with many ties, and many that differ.
Warps0 == [a : {1, 4, 8, 9}, b : {0, 29}, c : {0, 1, 3, 13}, m : {7, 97}]

\* Tuples of one and two elements, some of them NaN.
Returns0 == {<<0>>, <<1>>, <<0, 1>>, <<1, -1>>, <<NaN>>, <<NaN, 1>>, <<-1>>}

-----------------------------------------------------------------------------
\* The queue of one waiter, while something else is followed.
OneWaiter == <<CHOOSE c \in Returns : TRUE>>
FirstPicture == CHOOSE file \in Pictures : TRUE

\* Those that are not mounted begin in one state each.
MCInit ==
  /\ mounted \in {"COGLayer", "MultiCOGLayer", "MosaicLayer", "RasterTileset2D",
                  "RasterReprojector", None}
  /\ LayersInit
  /\ mounted # "COGLayer" => cogProps = CHOOSE p \in CogProps : TRUE
  /\ mounted # "MultiCOGLayer" => multiProps = CHOOSE p \in MultiProps : TRUE
  /\ mounted # "MosaicLayer" =>
       /\ mosaicProps.sources = CHOOSE l \in Lists : TRUE
       /\ mosaicViewport = CHOOSE v \in Viewports : TRUE
  /\ Tiles!TilesInit
  /\ mounted # "RasterTileset2D" => pyramid = CHOOSE p \in Pyramids : TRUE
  /\ Reprojector!MeshInit
  /\ mounted # "RasterReprojector" => warp = CHOOSE w \in Warps : TRUE
  /\ Init
  /\ PicturesInit
  /\ mounted # None => prios = OneWaiter
  /\ mounted # None \/ prios # OneWaiter => picture = FirstPicture

MCNext ==
  /\ UNCHANGED mounted
  /\ \/ /\ mounted = "COGLayer" /\ CogNext
        /\ UNCHANGED <<multiVars, mosaicVars, othersVars, vars, pictureVars>>
     \/ /\ mounted = "MultiCOGLayer" /\ MultiNext
        /\ UNCHANGED <<cogVars, mosaicVars, othersVars, vars, pictureVars>>
     \/ /\ mounted = "MosaicLayer" /\ MosaicNext
        /\ UNCHANGED <<cogVars, multiVars, othersVars, vars, pictureVars>>
     \/ /\ mounted = "RasterTileset2D" /\ Tiles!TilesNext
        /\ UNCHANGED <<layersVars, meshVars, vars, pictureVars>>
     \/ /\ mounted = "RasterReprojector" /\ Reprojector!refine
        /\ UNCHANGED <<layersVars, tileVars, vars, pictureVars>>
     \/ /\ mounted = None /\ Next
        /\ UNCHANGED <<layersVars, othersVars, pictureVars>>
     \/ /\ mounted = None /\ prios = OneWaiter /\ PicturesNext
        /\ UNCHANGED <<layersVars, othersVars, vars>>

MCSpec == MCInit /\ [][MCNext]_<<mounted, layersVars, othersVars, vars, pictureVars>>

-----------------------------------------------------------------------------
\* raster-tile-traversal.ts:241 and bounding-volume-cache.ts:40: the tiles that
\* are selected cover all data in view, in every copy of the world and at every
\* height, once along a branch, the middle of the view first, and are those a
\* tileset without a cache of volumes selects.
TilesMatchView ==
  Tiles!ViewIsCovered /\ Tiles!NoOverdraw /\ Tiles!CacheIsTransparent /\ Tiles!CentreOut

\* delatin.ts:59 and 150: after each refinement the mesh is a Delaunay
\* triangulation that covers the texture once, and the queue holds each of its
\* triangles with its present error, the worst first.
MeshIsSound == Reprojector!CoversOnce /\ Reprojector!IsDelaunay /\ Reprojector!QueueIsCurrent
=============================================================================
