----------------------------- MODULE MosaicLayer -----------------------------
(***************************************************************************)
(* MosaicLayer and its tileset (packages/deck.gl-geotiff/src/mosaic-layer):*)
(* a list of sources, an index of their boxes, and a deck.gl tileset whose *)
(* tiles are the sources in view, kept in a cache under the id of a source *)
(* or, when it has none, its place in the list.                            *)
(*                                                                         *)
(* Boxes and viewports are intervals of a line.  deck.gl's Tileset2D looks *)
(* for tiles when its viewport changes, makes one for an id it does not    *)
(* hold, and keeps the others with the index they were made with.          *)
(***************************************************************************)
EXTENDS Integers, Sequences, FiniteSets, SequencesExt

CONSTANTS
  Lists,         \* lists of sources an application sets: [name, id, box]
  Viewports,     \* [zoom, west, east]
  MinZoom, MaxZoom,
  Buffer,        \* how far beyond the viewport sources are looked for
  MosaicChanges, \* bound: changes of the props or of the viewport
  Unset          \* no id, no list

\* "Supply an explicit value", "so a given source keeps the same cache slot": an explicit id
\* is that of one source, in one place of a list, and no number of a place
\* (mosaic-tileset-2d.ts:18-24).  A place may be that of any source.
ASSUME MosaicAssumption ==
  /\ Unset \notin Lists /\ Unset \notin Viewports /\ MosaicChanges \in Nat
  /\ MinZoom \in Int /\ MaxZoom \in Int /\ \A v \in Viewports : v.zoom \in Int
  /\ \A k, l \in Lists : \A i \in DOMAIN k, j \in DOMAIN l :
       k[i].id # Unset =>
         /\ k[i].id # j
         /\ k[i].id = l[j].id => k[i] = l[j] /\ (k = l => i = j)

VARIABLES
  mosaicProps,    \* the sources and the revision
  mosaicIndex,    \* the spatial index: Unset, or the list it was built of
  sourceRevision,
  mosaicViewport, \* the viewport on screen
  tileset,        \* the MosaicTileset2D
  handedOn,       \* auxiliary: ids of tiles held whose place in the list has changed hands
  mosaicChanges   \* auxiliary: changes so far

mosaicVars ==
  <<mosaicProps, mosaicIndex, sourceRevision, mosaicViewport, tileset, handedOn, mosaicChanges>>

\* _buildSpatialIndex: no index of an empty list.
_buildSpatialIndex(sources) == IF sources = <<>> THEN Unset ELSE sources

\* getTileId: the id of a resolved source.
ResolvedId(source, i) == IF source.id = Unset THEN i ELSE source.id

\* getTileIndices: the sources in view with their resolved ids.  The index gives
\* places in the list it was built of; the sources are looked up in the list of
\* the props, and places it does not have are left out.
getTileIndices(viewport, index, sources) ==
  IF \/ viewport.zoom < MinZoom \/ viewport.zoom > MaxZoom
     \/ index = Unset
  THEN {}
  ELSE {[id |-> ResolvedId(sources[i], i), source |-> sources[i]] :
          i \in {i \in DOMAIN index \cap DOMAIN sources :
                   /\ index[i].box[1] <= viewport.east + Buffer
                   /\ index[i].box[2] >= viewport.west - Buffer}}

NewTileset == [lastSources |-> Unset, lastRevision |-> -1, viewport |-> Unset,
               selected |-> {}, cache |-> <<>>]

\* The tiles the tileset holds after looking for those of the indices found.
Held(cache, found) ==
  LET ids == {f.id : f \in found}
      made(id) == [source |-> (CHOOSE f \in found : f.id = id).source, status |-> "loading"]
      kept(id) == IF id \in ids /\ cache[id].status = "cancelled"
                    THEN [cache[id] EXCEPT !.status = "loading"] ELSE cache[id]
  IN [id \in DOMAIN cache \cup ids |-> IF id \in DOMAIN cache THEN kept(id) ELSE made(id)]

\* Mutant of TilesetUpdate: new sources alone do not make it look again.
TilesetUpdate_ViewportOnly(ts, viewport, sources, index, revision) ==
  IF ts.viewport = viewport THEN ts
  ELSE LET found == getTileIndices(viewport, index, sources)
       IN [ts EXCEPT !.lastSources = sources, !.lastRevision = revision, !.viewport = viewport,
                     !.selected = {f.id : f \in found}, !.cache = Held(@, found)]

\* MosaicTileset2D.update: a new list or revision counts as a new viewport.
TilesetUpdate(ts, viewport, sources, index, revision) ==
  LET changed == ts.lastSources # sources \/ ts.lastRevision # revision
      seen == IF changed THEN Unset ELSE ts.viewport
      found == getTileIndices(viewport, index, sources)
      noted == [ts EXCEPT !.lastSources = sources, !.lastRevision = revision, !.viewport = viewport]
  IN IF seen = viewport THEN noted
     ELSE [noted EXCEPT !.selected = {f.id : f \in found}, !.cache = Held(@, found)]

MosaicInit ==
  /\ mosaicProps \in [sources : Lists, revision : {0}]
  /\ mosaicViewport \in Viewports
  /\ mosaicIndex = _buildSpatialIndex(mosaicProps.sources)
  /\ sourceRevision = 0
  /\ tileset = TilesetUpdate(NewTileset, mosaicViewport, mosaicProps.sources, mosaicIndex, 0)
  /\ handedOn = {}
  /\ mosaicChanges = 0

\* The source with a resolved id, if there is one.
Named(id, sources) == {sources[i] : i \in {i \in DOMAIN sources : ResolvedId(sources[i], i) = id}}

\* updateState and the render of the inner TileLayer that follows: the update
\* trigger keyed to sourceRevision has it update its tileset.
MosaicUpdate(sources, revision) ==
  /\ mosaicChanges < MosaicChanges
  /\ [sources |-> sources, revision |-> revision] # mosaicProps
  /\ mosaicChanges' = mosaicChanges + 1
  /\ mosaicProps' = [sources |-> sources, revision |-> revision]
  /\ mosaicIndex' = _buildSpatialIndex(sources)
  /\ sourceRevision' = sourceRevision + 1
  /\ tileset' = TilesetUpdate(tileset, mosaicViewport, sources, mosaicIndex', sourceRevision')
  /\ handedOn' = handedOn \cup
       {id \in DOMAIN tileset.cache : Named(id, sources) # Named(id, mosaicProps.sources)}
  /\ UNCHANGED mosaicViewport

\* The map moves.
MosaicPan(viewport) ==
  /\ mosaicChanges < MosaicChanges
  /\ viewport # mosaicViewport
  /\ mosaicChanges' = mosaicChanges + 1
  /\ mosaicViewport' = viewport
  /\ tileset' = TilesetUpdate(tileset, viewport, mosaicProps.sources, mosaicIndex, sourceRevision)
  /\ UNCHANGED <<mosaicProps, mosaicIndex, sourceRevision, handedOn>>

SetStatus(id, status) ==
  tileset' = [tileset EXCEPT !.cache[id].status = status] /\ UNCHANGED handedOn

\* getTileData of a source: getSource resolves, with the data renderSource is
\* handed, or fails; nothing reloads a tile that failed.
MosaicSourceEnds(id) ==
  /\ tileset.cache[id].status = "loading"
  /\ \E status \in {"loaded", "failed"} : SetStatus(id, status)
  /\ UNCHANGED <<mosaicProps, mosaicIndex, sourceRevision, mosaicViewport, mosaicChanges>>

\* deck.gl cancels loads of tiles out of view, and evicts tiles out of view.
MosaicTileGoes(id) ==
  /\ id \notin tileset.selected
  /\ \/ tileset.cache[id].status = "loading" /\ SetStatus(id, "cancelled")
     \/ /\ tileset' = [tileset EXCEPT !.cache = [i \in DOMAIN @ \ {id} |-> @[i]]]
        /\ handedOn' = handedOn \ {id}
  /\ UNCHANGED <<mosaicProps, mosaicIndex, sourceRevision, mosaicViewport, mosaicChanges>>

MosaicNext ==
  \/ \E l \in Lists, revision \in mosaicProps.revision..(mosaicProps.revision + 1) :
       MosaicUpdate(l, revision)
  \/ \E v \in Viewports : MosaicPan(v)
  \/ \E id \in DOMAIN tileset.cache : MosaicSourceEnds(id) \/ MosaicTileGoes(id)

MosaicTypeOK ==
  /\ mosaicProps.sources \in Lists
  /\ mosaicIndex \in Lists \cup {Unset}
  /\ sourceRevision \in 0..MosaicChanges
  /\ mosaicViewport \in Viewports
  /\ tileset.selected \subseteq DOMAIN tileset.cache
  /\ \A id \in DOMAIN tileset.cache :
       tileset.cache[id].status \in {"loading", "loaded", "failed", "cancelled"}
  /\ handedOn \subseteq DOMAIN tileset.cache

InZoom == MinZoom <= mosaicViewport.zoom /\ mosaicViewport.zoom <= MaxZoom

\* The places of the sources of the props that meet the viewport.
PlacesInView ==
  {i \in DOMAIN mosaicProps.sources :
     /\ InZoom
     /\ mosaicProps.sources[i].box[1] <= mosaicViewport.east + Buffer
     /\ mosaicProps.sources[i].box[2] >= mosaicViewport.west - Buffer}

\* mosaic-layer.ts:36-51: the mosaic "updates reactively" when it is handed a new list: at
\* every moment there is a tile in view for every source of the props that meets the
\* viewport, for no other, and it is of that source, whatever tiles the cache holds from
\* former lists.  Not so for a source that has no id, when its place in the list has changed
\* hands since the tile of the place was made: the doc says that such items re-fetch, but
\* the tile is found under the number of the place and stays that of the former source for
\* as long as the tileset holds it.
MosaicShowsItsSources ==
  LET sources == mosaicProps.sources
      id(i) == ResolvedId(sources[i], i)
  IN /\ tileset.selected = {id(i) : i \in PlacesInView}
     /\ \A i \in PlacesInView :
          sources[i].id # Unset \/ id(i) \notin handedOn => tileset.cache[id(i)].source = sources[i]
=============================================================================
