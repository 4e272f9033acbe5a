--------------------------- MODULE RasterTileLayer ---------------------------
(***************************************************************************)
(* The tile layer that COGLayer and MultiCOGLayer render through           *)
(* (packages/deck.gl-raster/src/raster-tile-layer/raster-tile-layer.ts)    *)
(* and as much of deck.gl's TileLayer as it relies on.                     *)
(*                                                                         *)
(* A view is the TileLayer on screen: the source whose descriptor its      *)
(* tileset was built from, the source its tile-fetch callback reads, the   *)
(* loads under way and the tiles it keeps.  deck.gl builds the tileset     *)
(* when the TileLayer first appears and keeps it for as long as            *)
(* renderLayers goes on returning a TileLayer, whatever TilesetClass it is *)
(* handed meanwhile; it calls the callback of the last render; and it      *)
(* cancels the loads when the TileLayer goes away.                         *)
(***************************************************************************)
EXTENDS Naturals, FiniteSets

CONSTANTS
  None,     \* no source
  MaxTiles  \* bound: tiles a view loads and keeps

NoView == [tileset |-> None, reader |-> None, loads |-> {}, tiles |-> {}]

\* A tileset is built from the descriptor of the render that mounts the layer.
Mounted(view, descriptor) == IF view.tileset = None THEN descriptor ELSE view.tileset

\* renderLayers: nothing without a descriptor, a tile-fetch callback (reader)
\* and a render callback; otherwise a TileLayer with the current ones.
renderLayers(view, descriptor, reader, renderTile) ==
  IF descriptor = None \/ reader = None \/ renderTile = None THEN NoView
  ELSE [view EXCEPT !.tileset = Mounted(view, descriptor), !.reader = reader]

\* A load carries the index the tileset gave it and what the callback of the
\* last render made of it.
StartLoad(view, index, content) ==
  [view EXCEPT !.loads = @ \cup {[index |-> index, content |-> content]}]

\* _wrapGetTileData: the load of a tile is given up when either its own signal
\* or the one of the props is aborted; an aborted or failed load keeps nothing.
DropLoad(view, load) == [view EXCEPT !.loads = @ \ {load}]

KeepTile(view, load) == [DropLoad(view, load) EXCEPT !.tiles = @ \cup {load}]

\* The tileset asks for each of its tiles once.
Wanted(view, indices) ==
  LET asked == view.loads \cup view.tiles
  IN {i \in indices : Cardinality(asked) < MaxTiles /\ \A t \in asked : t.index # i}
=============================================================================
