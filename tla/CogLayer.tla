------------------------------- MODULE CogLayer -------------------------------
(***************************************************************************)
(* COGLayer (packages/deck.gl-geotiff/src/cog-layer.ts): opens the file of *)
(* its geotiff prop, resolves the projection, and sets the state that its  *)
(* tile layer renders from.  Every change of the prop starts another open; *)
(* the opens under way are not told.                                       *)
(*                                                                         *)
(* A file is known by its number of levels, whether its projection is an   *)
(* EPSG code that has to be looked up, and whether its samples are of the  *)
(* one kind the default pipeline supports.                                 *)
(***************************************************************************)
EXTENDS Integers, FiniteSets, RasterTileLayer

CONSTANTS
  CogFiles,   \* CogFiles[f]: [levels, epsg, uint]
  CogProps,   \* the props an application sets: [geotiff, custom]
  CogChanges  \* bound: changes of the props in a behaviour

\* None is neither a file nor an image of one.
ASSUME CogAssumption ==
  /\ CogProps \subseteq [geotiff : DOMAIN CogFiles, custom : BOOLEAN]
  /\ None \notin DOMAIN CogFiles /\ None \notin [file : DOMAIN CogFiles, level : Nat]
  /\ CogChanges \in Nat

VARIABLES
  cogProps,    \* the props
  cogState,    \* what setState holds: geotiff, tilesetDescriptor, default pipeline
  cogOpens,    \* calls of _parseGeoTIFF under way
  cogView,     \* the tile layer
  cogRemoved,  \* finalizeState was called; the controller of the layer is aborted
  cogLoaded,   \* auxiliary: the opens onGeoTIFFLoad was called for
  cogChanges,  \* auxiliary: changes of the props so far
  cogOverlap   \* auxiliary: the file changed while another was being opened

cogVars == <<cogProps, cogState, cogOpens, cogView, cogRemoved, cogLoaded, cogChanges, cogOverlap>>

CogOpening(n, f) == [n |-> n, file |-> f, at |-> "header"]
CogWithout(open) == {o \in cogOpens : o.n # open.n}

NoFile == [geotiff |-> None, descriptor |-> None, pipeline |-> None]

\* Mutant of clearState: the state of the former file stays.
clearState_Keeps(state) == state

clearState(state) == NoFile

\* The callbacks of the layer: those of the props, or the inferred ones.  Both
\* are known here by the file whose images they read.
_getTileDataCallback(state, props) ==
  IF state.geotiff = None THEN None
  ELSE IF props.custom THEN state.geotiff ELSE state.pipeline

_renderTileCallback(state, props) ==
  IF props.custom THEN props.geotiff ELSE state.pipeline

CogRendered(view, state, props) ==
  renderLayers(view, state.descriptor, _getTileDataCallback(state, props),
               _renderTileCallback(state, props))

CogInit ==
  /\ cogProps \in CogProps
  /\ cogState = NoFile
  /\ cogOpens = {CogOpening(0, cogProps.geotiff)}
  /\ cogView = NoView
  /\ cogRemoved = FALSE
  /\ cogLoaded = {}
  /\ cogChanges = 0
  /\ cogOverlap = FALSE

\* updateState, and the render that follows it in the same pass.
CogUpdate(props) ==
  LET needsUpdate == props.geotiff # cogProps.geotiff
      state == IF needsUpdate THEN clearState(cogState) ELSE cogState
  IN /\ ~cogRemoved
     /\ cogChanges < CogChanges
     /\ props # cogProps
     /\ cogChanges' = cogChanges + 1
     /\ cogProps' = props
     /\ cogState' = state
     /\ cogOpens' = IF needsUpdate
                      THEN cogOpens \cup {CogOpening(cogChanges + 1, props.geotiff)}
                      ELSE cogOpens
     /\ cogView' = CogRendered(cogView, state, props)
     /\ cogOverlap' = (cogOverlap \/ (needsUpdate /\ cogOpens # {}))
     /\ UNCHANGED <<cogRemoved, cogLoaded>>

\* finalizeState.
CogRemove ==
  /\ ~cogRemoved
  /\ cogRemoved' = TRUE
  /\ cogView' = NoView
  /\ UNCHANGED <<cogProps, cogState, cogOpens, cogLoaded, cogChanges, cogOverlap>>

\* The end of _parseGeoTIFF, which runs without an await: onGeoTIFFLoad of the
\* props of the moment is called, then the pipeline is inferred (which throws
\* for samples it does not support) unless the props bring their own, then the
\* state is set.
CogOpened(open) ==
  LET state == [geotiff |-> open.file, descriptor |-> open.file,
                pipeline |-> IF cogProps.custom THEN None ELSE open.file]
  IN /\ cogLoaded' = cogLoaded \cup {open.n}
     /\ IF cogProps.custom \/ CogFiles[open.file].uint
          THEN /\ cogState' = state
               /\ cogView' = CogRendered(cogView, state, cogProps)
          ELSE UNCHANGED <<cogState, cogView>>

\* Mutant of CogResume: the signal is not looked at.
CogResume_Unchecked(open) == CogOpened(open)

\* What follows the last await: nothing on a removed layer.
CogResume(open) ==
  IF cogRemoved THEN UNCHANGED <<cogState, cogView, cogLoaded>> ELSE CogOpened(open)

\* The header was read: an EPSG code is looked up, a projection that the file
\* spells out is parsed at once.
CogHeaderRead(open) ==
  /\ open.at = "header"
  /\ IF CogFiles[open.file].epsg
       THEN /\ cogOpens' = CogWithout(open) \cup {[open EXCEPT !.at = "crs"]}
            /\ UNCHANGED <<cogState, cogView, cogLoaded>>
       ELSE /\ cogOpens' = CogWithout(open)
            /\ CogResume(open)
  /\ UNCHANGED <<cogProps, cogRemoved, cogChanges, cogOverlap>>

CogProjectionResolved(open) ==
  /\ open.at = "crs"
  /\ cogOpens' = CogWithout(open)
  /\ CogResume(open)
  /\ UNCHANGED <<cogProps, cogRemoved, cogChanges, cogOverlap>>

\* The read or the lookup fails, or is aborted: the call ends, with an error
\* that nobody catches unless the layer was removed.
CogOpenFails(open) ==
  /\ cogOpens' = CogWithout(open)
  /\ UNCHANGED <<cogProps, cogState, cogView, cogRemoved, cogLoaded, cogChanges, cogOverlap>>

\* The image a tile is read from: the last level is the full image, level z of
\* the others the overview that many places from the coarsest.  An index the
\* file has no image for reads nothing: the callback throws.
CogImageOf(file, z) ==
  LET overviews == CogFiles[file].levels - 1
  IN IF z \in 0..overviews THEN [file |-> file, level |-> z] ELSE None

\* The tileset asks for the tile of level z; the callback is called at once.
CogTileStarts(z) ==
  /\ cogView.tileset # None
  /\ z \in Wanted(cogView, 0..(CogFiles[cogView.tileset].levels - 1))
  /\ cogView' = StartLoad(cogView, z, CogImageOf(cogView.reader, z))
  /\ UNCHANGED <<cogProps, cogState, cogOpens, cogRemoved, cogLoaded, cogChanges, cogOverlap>>

CogTileEnds(load) ==
  /\ \/ load.content # None /\ cogView' = KeepTile(cogView, load)
     \/ cogView' = DropLoad(cogView, load)
  /\ UNCHANGED <<cogProps, cogState, cogOpens, cogRemoved, cogLoaded, cogChanges, cogOverlap>>

CogNext ==
  \/ \E p \in CogProps : CogUpdate(p)
  \/ CogRemove
  \/ \E o \in cogOpens : CogHeaderRead(o) \/ CogProjectionResolved(o) \/ CogOpenFails(o)
  \/ \E z \in 0..3 : CogTileStarts(z)
  \/ \E l \in cogView.loads : CogTileEnds(l)

CogTypeOK ==
  /\ cogProps \in CogProps
  /\ cogState \in [{"geotiff", "descriptor", "pipeline"} -> DOMAIN CogFiles \cup {None}]
  /\ cogOpens \subseteq [n : 0..CogChanges, file : DOMAIN CogFiles, at : {"header", "crs"}]
  /\ {cogView.tileset, cogView.reader} \subseteq DOMAIN CogFiles \cup {None}
  /\ {cogRemoved, cogOverlap} \subseteq BOOLEAN
  /\ cogLoaded \subseteq 0..CogChanges

\* cog-layer.ts:238: the state of the former file is cleared "so renderLayers
\* returns null until the new GeoTIFF is ready", and no change of the props
\* leaves tiles of another file under the tileset of this one -- as long as no
\* two opens overlap.
CogTilesOfTheirFile ==
  ~cogOverlap =>
    /\ cogState.geotiff \in {None, cogProps.geotiff}
    /\ cogView.tileset \in {None, cogProps.geotiff}
    /\ \A t \in cogView.loads \cup cogView.tiles :
         t.content # None /\ t.content.file = cogView.tileset

\* cog-layer.ts:214 and 238: opens under way are aborted "when the `geotiff`
\* prop changes", and the state of the former file is cleared: once no open is
\* under way, the layer shows the file of its props or nothing.
CogShowsItsProp == cogOpens = {} => cogState.geotiff \in {None, cogProps.geotiff}
=============================================================================
