----------------------------- MODULE LayersProofs -----------------------------
(***************************************************************************)
(* Proofs about the layers: for any files, sources, viewports and order of *)
(* the answers, tiles are of the source that is set while opens do not     *)
(* overlap, a removed layer stays as it was, and a mosaic shows its        *)
(* sources.                                                                *)
(***************************************************************************)
EXTENDS Layers, TLAPS

-----------------------------------------------------------------------------
(* The tile layer.                                                         *)

IsView(v) == v = [tileset |-> v.tileset, reader |-> v.reader, loads |-> v.loads, tiles |-> v.tiles]

LEMMA NoViewFacts ==
  IsView(NoView) /\ NoView.tileset = None /\ NoView.reader = None /\ NoView.loads = {} /\ NoView.tiles = {}
BY DEF IsView, NoView

\* A render takes the layer away, or has it go on with the callback it is handed.
LEMMA RenderFacts ==
  ASSUME NEW v, IsView(v), NEW descriptor, NEW reader, NEW renderTile,
         NEW w, w = renderLayers(v, descriptor, reader, renderTile)
  PROVE  /\ IsView(w)
         /\ \/ w = NoView
            \/ /\ descriptor # None /\ reader # None
               /\ w.tileset = Mounted(v, descriptor) /\ w.reader = reader
               /\ w.loads = v.loads /\ w.tiles = v.tiles
         /\ descriptor = None => w = NoView
<1>1. CASE descriptor = None \/ reader = None \/ renderTile = None
  BY <1>1, NoViewFacts DEF renderLayers
<1>2. CASE ~(descriptor = None \/ reader = None \/ renderTile = None)
  <2>1. w = [tileset |-> Mounted(v, descriptor), reader |-> reader, loads |-> v.loads, tiles |-> v.tiles]
    BY <1>2 DEF renderLayers, IsView
  <2> QED
    BY <1>2, <2>1 DEF IsView
<1> QED
  BY <1>1, <1>2

LEMMA LoadFacts ==
  ASSUME NEW v, IsView(v), NEW w, NEW index, NEW content, w = StartLoad(v, index, content)
  PROVE  /\ IsView(w) /\ w.tileset = v.tileset /\ w.reader = v.reader /\ w.tiles = v.tiles
         /\ w.loads = v.loads \cup {[index |-> index, content |-> content]}
<1>1. w = [tileset |-> v.tileset, reader |-> v.reader,
           loads |-> v.loads \cup {[index |-> index, content |-> content]}, tiles |-> v.tiles]
  BY DEF StartLoad, IsView
<1> QED
  BY <1>1 DEF IsView

LEMMA EndFacts ==
  ASSUME NEW v, IsView(v), NEW w, NEW load \in v.loads, w = KeepTile(v, load) \/ w = DropLoad(v, load)
  PROVE  /\ IsView(w) /\ w.tileset = v.tileset /\ w.reader = v.reader
         /\ w.loads \cup w.tiles \subseteq v.loads \cup v.tiles
<1> DEFINE dropped == [tileset |-> v.tileset, reader |-> v.reader, loads |-> v.loads \ {load}, tiles |-> v.tiles]
<1>1. DropLoad(v, load) = dropped
  BY DEF DropLoad, IsView
<1>2. KeepTile(v, load) = [tileset |-> v.tileset, reader |-> v.reader, loads |-> v.loads \ {load},
                           tiles |-> v.tiles \cup {load}]
  <2>1. KeepTile(v, load) = [dropped EXCEPT !.tiles = @ \cup {load}]
    BY <1>1, Zenon DEF KeepTile
  <2> QED
    BY <2>1
<1>3. CASE w = KeepTile(v, load)
  BY <1>2, <1>3 DEF IsView
<1>4. CASE w = DropLoad(v, load)
  BY <1>1, <1>4 DEF IsView
<1> QED
  BY <1>3, <1>4

-----------------------------------------------------------------------------
(* COGLayer.                                                               *)

FilesOrNone == DOMAIN CogFiles \cup {None}

CogTypes ==
  /\ cogProps \in CogProps
  /\ cogState \in [geotiff : FilesOrNone, descriptor : FilesOrNone, pipeline : FilesOrNone]
  /\ cogOpens \subseteq [n : 0..cogChanges, file : DOMAIN CogFiles, at : {"header", "crs"}]
  /\ IsView(cogView) /\ cogView.tileset \in FilesOrNone /\ cogView.reader \in FilesOrNone
  /\ cogView.tileset = None => cogView = NoView
  /\ cogRemoved \in BOOLEAN /\ cogOverlap \in BOOLEAN
  /\ cogChanges \in 0..CogChanges /\ cogLoaded \subseteq 0..cogChanges

\* While no two opens overlap, what is opened, set and shown is the file of the props.
CogFollows ==
  ~cogOverlap =>
    /\ \A o \in cogOpens : o.file = cogProps.geotiff
    /\ cogState.geotiff \in {None, cogProps.geotiff}
    /\ cogState.descriptor = cogState.geotiff /\ cogState.pipeline \in {None, cogState.geotiff}
    /\ cogView.tileset \in {None, cogState.geotiff}
    /\ cogView.tileset # None => cogView.reader = cogState.geotiff
    /\ \A t \in cogView.loads \cup cogView.tiles : t.content # None /\ t.content.file = cogView.tileset

CogGone == cogRemoved => cogView = NoView

CogInv == CogTypes /\ CogFollows /\ CogGone

LEMMA CogInitInv == CogInit => CogInv
<1> SUFFICES ASSUME CogInit PROVE CogInv
  OBVIOUS
<1>1. cogProps.geotiff \in DOMAIN CogFiles
  BY CogAssumption DEF CogInit
<1>2. CogTypes
  <2>1. cogState \in [geotiff : FilesOrNone, descriptor : FilesOrNone, pipeline : FilesOrNone]
    BY DEF CogInit, NoFile, FilesOrNone
  <2>2. cogOpens \subseteq [n : 0..0, file : DOMAIN CogFiles, at : {"header", "crs"}]
    BY <1>1 DEF CogInit, CogOpening
  <2>3. cogChanges = 0 /\ cogLoaded = {} /\ cogView = NoView /\ None \in FilesOrNone
    BY DEF CogInit, FilesOrNone
  <2>4. 0 \in 0..CogChanges
    BY CogAssumption
  <2> QED
    BY <2>1, <2>2, <2>3, <2>4, NoViewFacts DEF CogInit, CogTypes
<1>3. CogFollows
  BY NoViewFacts DEF CogInit, CogFollows, NoFile, CogOpening
<1> QED
  BY <1>2, <1>3 DEF CogInv, CogInit, CogGone

LEMMA CogKeptByUpdate ==
  ASSUME CogInv, NEW props \in CogProps, CogUpdate(props)
  PROVE  CogInv'
<1> USE DEF CogInv
<1> DEFINE needsUpdate == props.geotiff # cogProps.geotiff
           opened == CogOpening(cogChanges + 1, props.geotiff)
<1>1. /\ props.geotiff \in DOMAIN CogFiles /\ cogProps' = props
      /\ cogChanges' = cogChanges + 1 /\ cogRemoved' = cogRemoved /\ cogLoaded' = cogLoaded
      /\ cogRemoved = FALSE /\ cogChanges < CogChanges
      /\ cogState' = (IF needsUpdate THEN NoFile ELSE cogState)
      /\ cogOpens' = (IF needsUpdate THEN cogOpens \cup {opened} ELSE cogOpens)
      /\ cogOverlap' = (cogOverlap \/ (needsUpdate /\ cogOpens # {}))
      /\ cogView' = CogRendered(cogView, cogState', props)
  BY CogAssumption DEF CogUpdate, CogTypes, clearState
<1>2. CogChanges \in Nat /\ cogChanges \in 0..CogChanges /\ cogChanges + 1 \in 0..CogChanges
      /\ 0..cogChanges \subseteq 0..cogChanges + 1 /\ cogChanges + 1 \in 0..cogChanges + 1
  BY <1>1, CogAssumption DEF CogTypes
<1>3. /\ cogState' \in [geotiff : FilesOrNone, descriptor : FilesOrNone, pipeline : FilesOrNone]
      /\ needsUpdate => cogState'.descriptor = None
  BY <1>1 DEF CogTypes, NoFile, FilesOrNone
<1>4. opened \in [n : 0..cogChanges + 1, file : DOMAIN CogFiles, at : {"header", "crs"}] /\ opened.file = props.geotiff
  BY <1>1, <1>2 DEF CogOpening
<1> DEFINE reader == _getTileDataCallback(cogState', props)
<1>5. /\ IsView(cogView')
      /\ \/ cogView' = NoView
         \/ /\ cogState'.descriptor # None /\ reader # None
            /\ cogView'.tileset = Mounted(cogView, cogState'.descriptor) /\ cogView'.reader = reader
            /\ cogView'.loads = cogView.loads /\ cogView'.tiles = cogView.tiles
      /\ cogState'.descriptor = None => cogView' = NoView
  BY <1>1, RenderFacts DEF CogRendered, CogTypes
<1>6. reader \in FilesOrNone /\ (reader # None => reader \in {cogState'.geotiff, cogState'.pipeline})
  BY <1>3 DEF _getTileDataCallback, FilesOrNone
<1> HIDE DEF opened, reader
<1>7. CogTypes'
  <2>1. cogOpens' \subseteq [n : 0..cogChanges + 1, file : DOMAIN CogFiles, at : {"header", "crs"}]
    BY <1>1, <1>2, <1>4 DEF CogTypes
  <2>2. /\ cogView'.tileset \in FilesOrNone /\ cogView'.reader \in FilesOrNone
        /\ cogView'.tileset = None => cogView' = NoView
    BY <1>3, <1>5, <1>6, NoViewFacts DEF CogTypes, Mounted, FilesOrNone
  <2>3. cogOverlap' \in BOOLEAN
    BY <1>1 DEF CogTypes
  <2> QED
    BY <1>1, <1>2, <1>3, <1>5, <2>1, <2>2, <2>3 DEF CogTypes
<1>8. CogFollows'
  <2> SUFFICES ASSUME ~cogOverlap'
               PROVE  /\ \A o \in cogOpens' : o.file = props.geotiff
                      /\ cogState'.geotiff \in {None, props.geotiff}
                      /\ cogState'.descriptor = cogState'.geotiff
                      /\ cogState'.pipeline \in {None, cogState'.geotiff}
                      /\ cogView'.tileset \in {None, cogState'.geotiff}
                      /\ cogView'.tileset # None => cogView'.reader = cogState'.geotiff
                      /\ \A t \in cogView'.loads \cup cogView'.tiles :
                           t.content # None /\ t.content.file = cogView'.tileset
    BY <1>1 DEF CogFollows
  <2>1. CASE needsUpdate
    BY <1>1, <1>3, <1>4, <1>5, <2>1, NoViewFacts DEF NoFile
  <2>2. CASE ~needsUpdate
    <3>1. ~cogOverlap /\ cogState' = cogState /\ cogOpens' = cogOpens /\ props.geotiff = cogProps.geotiff
      BY <1>1, <2>2
    <3>2. cogView.tileset = None => cogView.loads = {} /\ cogView.tiles = {}
      BY NoViewFacts DEF CogTypes
    <3>3. /\ \A o \in cogOpens : o.file = props.geotiff
          /\ cogState.geotiff \in {None, props.geotiff}
          /\ cogState.descriptor = cogState.geotiff
          /\ cogState.pipeline \in {None, cogState.geotiff}
          /\ cogView.tileset \in {None, cogState.geotiff}
          /\ \A t \in cogView.loads \cup cogView.tiles : t.content # None /\ t.content.file = cogView.tileset
      BY <3>1 DEF CogFollows
    <3>4. CASE cogView' = NoView
      BY <3>1, <3>3, <3>4, NoViewFacts
    <3>5. CASE cogView' # NoView
      <4>1. cogView'.tileset = cogState.geotiff /\ cogView'.reader = cogState.geotiff
        BY <1>5, <1>6, <3>1, <3>3, <3>5 DEF Mounted
      <4>2. cogView'.loads = cogView.loads /\ cogView'.tiles = cogView.tiles
        BY <1>5, <3>5
      <4> QED
        BY <3>1, <3>2, <3>3, <4>1, <4>2
    <3> QED
      BY <3>4, <3>5
  <2> QED
    BY <2>1, <2>2
<1> QED
  BY <1>1, <1>7, <1>8 DEF CogGone

\* An open ends, or goes on: what it sets is the file it opened.
LEMMA CogKeptByOpen ==
  ASSUME CogInv, NEW open \in cogOpens,
         cogOpens' = CogWithout(open) \/ cogOpens' = CogWithout(open) \cup {[open EXCEPT !.at = "crs"]},
         CogResume(open) \/ UNCHANGED <<cogState, cogView, cogLoaded>>,
         UNCHANGED <<cogProps, cogRemoved, cogChanges, cogOverlap>>
  PROVE  CogInv'
<1> USE DEF CogInv
<1>1. /\ open \in [n : 0..cogChanges, file : DOMAIN CogFiles, at : {"header", "crs"}]
      /\ [open EXCEPT !.at = "crs"] \in [n : 0..cogChanges, file : DOMAIN CogFiles, at : {"header", "crs"}]
      /\ [open EXCEPT !.at = "crs"].file = open.file
  BY DEF CogTypes
<1>2. /\ cogOpens' \subseteq [n : 0..cogChanges, file : DOMAIN CogFiles, at : {"header", "crs"}]
      /\ \A o \in cogOpens' : \E p \in cogOpens : o.file = p.file
  BY <1>1 DEF CogTypes, CogWithout
<1>3. CASE UNCHANGED <<cogState, cogView>> /\ cogLoaded' \subseteq 0..cogChanges
  <2>1. CogTypes' /\ CogGone'
    BY <1>2, <1>3 DEF CogTypes, CogGone
  <2>2. CogFollows'
    BY <1>2, <1>3 DEF CogFollows
  <2> QED
    BY <2>1, <2>2
<1>4. CASE CogOpened(open) /\ cogRemoved = FALSE /\ ~UNCHANGED <<cogState, cogView>>
  <2> DEFINE reader == _getTileDataCallback(cogState', cogProps)
  <2>1. /\ cogLoaded' = cogLoaded \cup {open.n} /\ cogView' = CogRendered(cogView, cogState', cogProps)
        /\ cogState' = [geotiff |-> open.file, descriptor |-> open.file,
                        pipeline |-> IF cogProps.custom THEN None ELSE open.file]
    BY <1>4 DEF CogOpened
  <2>2. /\ cogState' \in [geotiff : FilesOrNone, descriptor : FilesOrNone, pipeline : FilesOrNone]
        /\ cogState'.geotiff = open.file /\ cogState'.descriptor = open.file /\ open.file # None
        /\ cogState'.pipeline \in {None, open.file}
    BY <1>1, <2>1, CogAssumption DEF FilesOrNone
  <2>3. /\ IsView(cogView')
        /\ \/ cogView' = NoView
           \/ /\ reader # None
              /\ cogView'.tileset = Mounted(cogView, cogState'.descriptor) /\ cogView'.reader = reader
              /\ cogView'.loads = cogView.loads /\ cogView'.tiles = cogView.tiles
    BY <2>1, RenderFacts DEF CogRendered, CogTypes
  <2>4. reader \in {None, open.file}
    BY <2>2 DEF _getTileDataCallback
  <2> HIDE DEF reader
  <2>5. CogTypes'
    <3>1. /\ cogView'.tileset \in FilesOrNone /\ cogView'.reader \in FilesOrNone
          /\ cogView'.tileset = None => cogView' = NoView
      BY <1>1, <2>2, <2>3, <2>4, NoViewFacts DEF CogTypes, Mounted, FilesOrNone
    <3>2. open.n \in 0..cogChanges
      BY <1>1
    <3> QED
      BY <1>2, <2>1, <2>2, <2>3, <3>1, <3>2 DEF CogTypes
  <2>6. CogFollows'
    <3> SUFFICES ASSUME ~cogOverlap
                 PROVE  /\ \A o \in cogOpens' : o.file = cogProps.geotiff
                        /\ cogState'.geotiff \in {None, cogProps.geotiff}
                        /\ cogState'.descriptor = cogState'.geotiff
                        /\ cogState'.pipeline \in {None, cogState'.geotiff}
                        /\ cogView'.tileset \in {None, cogState'.geotiff}
                        /\ cogView'.tileset # None => cogView'.reader = cogState'.geotiff
                        /\ \A t \in cogView'.loads \cup cogView'.tiles :
                             t.content # None /\ t.content.file = cogView'.tileset
      BY DEF CogFollows
    <3>1. open.file = cogProps.geotiff /\ \A o \in cogOpens' : o.file = cogProps.geotiff
      BY <1>2 DEF CogFollows
    <3>2. CASE cogView' = NoView
      BY <2>2, <3>1, <3>2, NoViewFacts
    <3>3. CASE cogView' # NoView
      <4>1. /\ cogView.tileset \in {None, cogProps.geotiff}
            /\ \A t \in cogView.loads \cup cogView.tiles : t.content # None /\ t.content.file = cogView.tileset
        BY DEF CogFollows
      <4>2. cogView'.tileset = open.file /\ cogView'.reader = open.file
        BY <2>2, <2>3, <2>4, <3>1, <3>3, <4>1 DEF Mounted
      <4>3. CASE cogView.tileset = None
        <5>1. cogView.loads = {} /\ cogView.tiles = {}
          BY <4>3, NoViewFacts DEF CogTypes
        <5> QED
          BY <2>2, <2>3, <3>1, <3>3, <4>2, <5>1
      <4>4. CASE cogView.tileset # None
        BY <2>2, <2>3, <3>1, <3>3, <4>1, <4>2, <4>4
      <4> QED
        BY <4>3, <4>4
    <3> QED
      BY <3>2, <3>3
  <2> QED
    BY <1>4, <2>5, <2>6 DEF CogGone
<1>5. open.n \in 0..cogChanges /\ cogLoaded \subseteq 0..cogChanges /\ cogRemoved \in BOOLEAN
  BY <1>1 DEF CogTypes
<1> QED
  BY <1>3, <1>4, <1>5 DEF CogResume, CogOpened

\* A tile is asked for, of the file that is shown; or its load ends.
LEMMA CogKeptByTiles ==
  ASSUME CogInv, (\E z \in 0..3 : CogTileStarts(z)) \/ \E l \in cogView.loads : CogTileEnds(l)
  PROVE  CogInv'
<1> USE DEF CogInv
<1>1. /\ cogProps' = cogProps /\ cogState' = cogState /\ cogOpens' = cogOpens
      /\ cogRemoved' = cogRemoved /\ cogLoaded' = cogLoaded /\ cogChanges' = cogChanges
      /\ cogOverlap' = cogOverlap
  BY DEF CogTileStarts, CogTileEnds
<1>2. IsView(cogView)
  BY DEF CogTypes
<1>3. cogView.tileset # None
  BY NoViewFacts DEF CogTileStarts, CogTypes
<1>4. /\ IsView(cogView') /\ cogView'.tileset = cogView.tileset /\ cogView'.reader = cogView.reader
      /\ \A t \in cogView'.loads \cup cogView'.tiles :
           \/ t \in cogView.loads \cup cogView.tiles
           \/ /\ t.content = CogImageOf(cogView.reader, t.index)
              /\ t.index \in 0..3 \cap 0..(CogFiles[cogView.tileset].levels - 1)
  <2>1. ASSUME NEW z \in 0..3, CogTileStarts(z)
        PROVE  /\ IsView(cogView') /\ cogView'.tileset = cogView.tileset /\ cogView'.reader = cogView.reader
               /\ \A t \in cogView'.loads \cup cogView'.tiles :
                    \/ t \in cogView.loads \cup cogView.tiles
                    \/ /\ t.content = CogImageOf(cogView.reader, t.index)
                       /\ t.index \in 0..3 \cap 0..(CogFiles[cogView.tileset].levels - 1)
    <3>1. z \in 0..(CogFiles[cogView.tileset].levels - 1)
      BY <2>1 DEF CogTileStarts, Wanted
    <3>2. cogView' = StartLoad(cogView, z, CogImageOf(cogView.reader, z))
      BY <2>1 DEF CogTileStarts
    <3> QED
      BY <1>2, <3>1, <3>2, LoadFacts
  <2>2. ASSUME NEW l \in cogView.loads, CogTileEnds(l)
        PROVE  /\ IsView(cogView') /\ cogView'.tileset = cogView.tileset /\ cogView'.reader = cogView.reader
               /\ cogView'.loads \cup cogView'.tiles \subseteq cogView.loads \cup cogView.tiles
    BY <1>2, <2>2, EndFacts DEF CogTileEnds
  <2> QED
    BY <2>1, <2>2
<1>5. CogTypes'
  BY <1>1, <1>3, <1>4 DEF CogTypes
<1>6. CogFollows'
  <2> SUFFICES ASSUME ~cogOverlap, NEW t \in cogView'.loads \cup cogView'.tiles
               PROVE  t.content # None /\ t.content.file = cogView.tileset
    BY <1>1, <1>4 DEF CogFollows
  <2>1. CASE t \in cogView.loads \cup cogView.tiles
    BY <2>1 DEF CogFollows
  <2>2. CASE /\ t.content = CogImageOf(cogView.reader, t.index)
             /\ t.index \in 0..3 \cap 0..(CogFiles[cogView.tileset].levels - 1)
    <3>1. cogView.reader = cogView.tileset /\ cogView.tileset \in DOMAIN CogFiles
      BY <1>3 DEF CogFollows, CogTypes, FilesOrNone
    <3>2. t.content = [file |-> cogView.tileset, level |-> t.index]
      BY <2>2, <3>1 DEF CogImageOf
    <3>3. [file |-> cogView.tileset, level |-> t.index] \in [file : DOMAIN CogFiles, level : Nat]
      BY <2>2, <3>1
    <3> QED
      BY <3>2, <3>3, CogAssumption
  <2> QED
    BY <1>4, <2>1, <2>2
<1>7. CogGone'
  BY <1>1, <1>3, NoViewFacts DEF CogGone
<1> QED
  BY <1>5, <1>6, <1>7

LEMMA CogKept ==
  ASSUME CogInv, CogNext \/ UNCHANGED cogVars
  PROVE  CogInv'
<1>1. ASSUME NEW p \in CogProps, CogUpdate(p) PROVE CogInv'
  BY <1>1, CogKeptByUpdate
<1>2. CASE CogRemove
  BY <1>2, NoViewFacts DEF CogRemove, CogInv, CogTypes, CogFollows, CogGone, FilesOrNone
<1>3. ASSUME NEW o \in cogOpens, CogHeaderRead(o) \/ CogProjectionResolved(o) \/ CogOpenFails(o)
      PROVE  CogInv'
  BY <1>3, CogKeptByOpen DEF CogHeaderRead, CogProjectionResolved, CogOpenFails
<1>4. CASE (\E z \in 0..3 : CogTileStarts(z)) \/ \E l \in cogView.loads : CogTileEnds(l)
  BY <1>4, CogKeptByTiles
<1>5. CASE UNCHANGED cogVars
  BY <1>5 DEF cogVars, CogInv, CogTypes, CogFollows, CogGone
<1> QED
  BY <1>1, <1>2, <1>3, <1>4, <1>5 DEF CogNext

LEMMA CogKeepsItsWord ==
  ASSUME CogInv
  PROVE  CogTypeOK /\ CogTilesOfTheirFile
<1> USE DEF CogInv
<1>1. CogChanges \in Nat /\ 0..cogChanges \subseteq 0..CogChanges
  BY CogAssumption DEF CogTypes
<1>2. cogState \in [{"geotiff", "descriptor", "pipeline"} -> DOMAIN CogFiles \cup {None}]
  BY DEF CogTypes, FilesOrNone
<1>3. cogOpens \subseteq [n : 0..CogChanges, file : DOMAIN CogFiles, at : {"header", "crs"}]
  BY <1>1 DEF CogTypes
<1>4. CogTypeOK
  BY <1>1, <1>2, <1>3 DEF CogTypes, CogTypeOK, FilesOrNone
<1>5. CogTilesOfTheirFile
  BY DEF CogFollows, CogTilesOfTheirFile
<1> QED
  BY <1>4, <1>5

\* A removed COGLayer stays as it was.
LEMMA CogRests ==
  ASSUME CogInv, CogNext \/ UNCHANGED cogVars, cogRemoved
  PROVE  UNCHANGED <<cogState, cogLoaded, cogView>>
<1>1. cogView = NoView /\ cogView.tileset = None /\ cogView.loads = {} /\ cogRemoved = TRUE
  BY NoViewFacts DEF CogInv, CogGone, CogTypes
<1> QED
  BY <1>1 DEF CogNext, cogVars, CogUpdate, CogRemove, CogHeaderRead, CogProjectionResolved, CogOpenFails,
              CogTileStarts, CogTileEnds, CogResume

-----------------------------------------------------------------------------
(* MultiCOGLayer.                                                          *)

SetsOrNone == MultiProps \cup {None}

MultiTypes ==
  /\ multiProps \in MultiProps /\ multiState \in SetsOrNone
  /\ \A o \in multiOpens :
       /\ o = [n |-> o.n, sources |-> o.sources, waiting |-> o.waiting]
       /\ o.n \in 0..multiChanges /\ o.sources \in MultiProps
       /\ o.waiting \subseteq DOMAIN o.sources /\ o.waiting # {}
  /\ IsView(multiView) /\ multiView.tileset \in SetsOrNone /\ multiView.reader \in SetsOrNone
  /\ multiView.tileset = None => multiView = NoView
  /\ multiRemoved \in BOOLEAN /\ multiOverlap \in BOOLEAN
  /\ multiChanges \in 0..MultiChanges /\ multiLoaded \subseteq 0..multiChanges

\* The bands of these sources.
BandsFrom(bands, sources) ==
  /\ DOMAIN bands = DOMAIN sources
  /\ \A name \in DOMAIN bands : bands[name] # None => bands[name].file = sources[name]

MultiFollows ==
  ~multiOverlap =>
    /\ \A o \in multiOpens : o.sources = multiProps
    /\ multiState \in {None, multiProps}
    /\ multiView.tileset \in {None, multiState}
    /\ \A t \in multiView.loads \cup multiView.tiles : BandsFrom(t.content, multiProps)

MultiGone == multiRemoved => multiView = NoView

MultiInv == MultiTypes /\ MultiFollows /\ MultiGone

LEMMA MultiInitInv == MultiInit => MultiInv
<1> SUFFICES ASSUME MultiInit PROVE MultiInv
  OBVIOUS
<1>1. /\ multiProps \in MultiProps /\ multiState = None /\ multiOpens = MultiOpening(0, multiProps)
      /\ multiView = NoView /\ multiRemoved = FALSE /\ multiLoaded = {} /\ multiChanges = 0
      /\ multiOverlap = FALSE /\ 0 \in 0..MultiChanges
  BY MultiAssumption DEF MultiInit
<1>2. MultiTypes
  <2>1. \A o \in MultiOpening(0, multiProps) :
          o = [n |-> 0, sources |-> multiProps, waiting |-> DOMAIN multiProps] /\ DOMAIN multiProps # {}
    BY DEF MultiOpening
  <2>2. \A o \in multiOpens :
          /\ o = [n |-> o.n, sources |-> o.sources, waiting |-> o.waiting]
          /\ o.n \in 0..0 /\ o.sources \in MultiProps
          /\ o.waiting \subseteq DOMAIN o.sources /\ o.waiting # {}
    BY <1>1, <2>1
  <2> QED
    BY <1>1, <2>2, NoViewFacts DEF MultiTypes, SetsOrNone
<1>3. MultiFollows
  BY <1>1, NoViewFacts DEF MultiFollows, MultiOpening
<1> QED
  BY <1>1, <1>2, <1>3 DEF MultiInv, MultiGone

LEMMA MultiKeptByUpdate ==
  ASSUME MultiInv, NEW sources \in MultiProps, MultiUpdate(sources)
  PROVE  MultiInv'
<1> USE DEF MultiInv
<1>1. /\ multiProps' = sources /\ multiState' = None /\ multiRemoved' = FALSE /\ multiLoaded' = multiLoaded
      /\ multiChanges' = multiChanges + 1 /\ multiChanges < MultiChanges
      /\ multiOpens' = multiOpens \cup MultiOpening(multiChanges + 1, sources)
      /\ multiOverlap' = (multiOverlap \/ multiOpens # {})
  BY DEF MultiUpdate, MultiTypes
<1>2. multiView' = NoView
  BY NoViewFacts, RenderFacts DEF MultiUpdate, MultiRendered, MultiTypes
<1>3. /\ multiChanges + 1 \in 0..MultiChanges /\ 0..multiChanges \subseteq 0..multiChanges + 1
      /\ multiChanges + 1 \in 0..multiChanges + 1
  BY <1>1, MultiAssumption DEF MultiTypes
<1>4. \A o \in MultiOpening(multiChanges + 1, sources) :
        /\ o = [n |-> multiChanges + 1, sources |-> sources, waiting |-> DOMAIN sources]
        /\ DOMAIN sources # {}
  BY DEF MultiOpening
<1>5. MultiTypes'
  <2>1. \A o \in multiOpens' :
          /\ o = [n |-> o.n, sources |-> o.sources, waiting |-> o.waiting]
          /\ o.n \in 0..multiChanges + 1 /\ o.sources \in MultiProps
          /\ o.waiting \subseteq DOMAIN o.sources /\ o.waiting # {}
    <3> SUFFICES ASSUME NEW o \in multiOpens'
                 PROVE  /\ o = [n |-> o.n, sources |-> o.sources, waiting |-> o.waiting]
                        /\ o.n \in 0..multiChanges + 1 /\ o.sources \in MultiProps
                        /\ o.waiting \subseteq DOMAIN o.sources /\ o.waiting # {}
      OBVIOUS
    <3>1. CASE o \in multiOpens
      BY <1>3, <3>1 DEF MultiTypes
    <3>2. CASE o \in MultiOpening(multiChanges + 1, sources)
      BY <1>3, <1>4, <3>2
    <3> QED
      BY <1>1, <3>1, <3>2
  <2>2. multiOverlap' \in BOOLEAN /\ multiLoaded' \subseteq 0..multiChanges + 1
    BY <1>1, <1>3 DEF MultiTypes
  <2> QED
    BY <1>1, <1>2, <1>3, <2>1, <2>2, NoViewFacts DEF MultiTypes, SetsOrNone
<1>6. MultiFollows'
  <2> SUFFICES ASSUME ~multiOverlap', NEW o \in multiOpens' PROVE o.sources = sources
    BY <1>1, <1>2, NoViewFacts DEF MultiFollows
  <2>1. multiOpens = {}
    BY <1>1 DEF MultiTypes
  <2> QED
    BY <1>1, <1>4, <2>1
<1> QED
  BY <1>1, <1>5, <1>6 DEF MultiGone

\* A source of an open is there, the last of them, or one fails.
LEMMA MultiKeptByOpen ==
  ASSUME MultiInv, NEW open \in multiOpens,
         MultiOpenFails(open) \/ \E name \in DOMAIN open.sources : MultiSourceOpened(open, name)
  PROVE  MultiInv'
<1> USE DEF MultiInv
<1>1. /\ multiProps' = multiProps /\ multiRemoved' = multiRemoved /\ multiChanges' = multiChanges
      /\ multiOverlap' = multiOverlap
  BY DEF MultiOpenFails, MultiSourceOpened
<1>2. /\ open = [n |-> open.n, sources |-> open.sources, waiting |-> open.waiting]
      /\ open.n \in 0..multiChanges /\ open.sources \in MultiProps
      /\ open.waiting \subseteq DOMAIN open.sources
  BY DEF MultiTypes
<1>3. ASSUME NEW o \in multiOpens'
      PROVE  /\ o = [n |-> o.n, sources |-> o.sources, waiting |-> o.waiting]
             /\ o.n \in 0..multiChanges /\ o.sources \in MultiProps
             /\ o.waiting \subseteq DOMAIN o.sources /\ o.waiting # {}
             /\ \E p \in multiOpens : o.sources = p.sources
  <2>1. CASE o \in multiOpens
    BY <2>1 DEF MultiTypes
  <2>2. CASE o \notin multiOpens
    <3>1. PICK name \in DOMAIN open.sources :
            /\ name \in open.waiting /\ open.waiting # {name}
            /\ o = [open EXCEPT !.waiting = @ \ {name}]
      BY <2>2 DEF MultiOpenFails, MultiSourceOpened, MultiWithout
    <3>2. o = [n |-> open.n, sources |-> open.sources, waiting |-> open.waiting \ {name}]
      BY <1>2, <3>1
    <3> QED
      BY <1>2, <3>1, <3>2
  <2> QED
    BY <2>1, <2>2
<1>4. CASE UNCHANGED <<multiState, multiView, multiLoaded>>
  <2>1. MultiTypes' /\ MultiGone'
    BY <1>1, <1>3, <1>4 DEF MultiTypes, MultiGone
  <2>2. MultiFollows'
    BY <1>1, <1>3, <1>4 DEF MultiFollows
  <2> QED
    BY <2>1, <2>2
<1>5. CASE /\ ~multiRemoved
           /\ multiState' = open.sources
           /\ multiView' = MultiRendered(multiView, open.sources)
           /\ multiLoaded' = multiLoaded \cup {open.n}
  <2>1. /\ IsView(multiView')
        /\ \/ multiView' = NoView
           \/ /\ open.sources # None
              /\ multiView'.tileset = Mounted(multiView, open.sources) /\ multiView'.reader = open.sources
              /\ multiView'.loads = multiView.loads /\ multiView'.tiles = multiView.tiles
    BY <1>5, RenderFacts DEF MultiRendered, MultiTypes
  <2>2. MultiTypes'
    <3>1. /\ multiView'.tileset \in SetsOrNone /\ multiView'.reader \in SetsOrNone
          /\ multiView'.tileset = None => multiView' = NoView
      BY <1>2, <2>1, NoViewFacts DEF MultiTypes, Mounted, SetsOrNone
    <3>2. multiState' \in SetsOrNone /\ multiLoaded' \subseteq 0..multiChanges
      BY <1>2, <1>5 DEF MultiTypes, SetsOrNone
    <3> QED
      BY <1>1, <1>3, <2>1, <3>1, <3>2 DEF MultiTypes
  <2>3. MultiFollows'
    <3> SUFFICES ASSUME ~multiOverlap
                 PROVE  /\ \A o \in multiOpens' : o.sources = multiProps
                        /\ multiState' \in {None, multiProps}
                        /\ multiView'.tileset \in {None, multiState'}
                        /\ \A t \in multiView'.loads \cup multiView'.tiles : BandsFrom(t.content, multiProps)
      BY <1>1 DEF MultiFollows
    <3>1. open.sources = multiProps /\ \A o \in multiOpens' : o.sources = multiProps
      BY <1>3 DEF MultiFollows
    <3>2. CASE multiView' = NoView
      BY <1>5, <3>1, <3>2, NoViewFacts
    <3>3. CASE multiView' # NoView
      BY <1>5, <2>1, <3>1, <3>3 DEF MultiFollows, Mounted
    <3> QED
      BY <3>2, <3>3
  <2> QED
    BY <1>1, <1>5, <2>2, <2>3 DEF MultiGone
<1> QED
  BY <1>4, <1>5 DEF MultiOpenFails, MultiSourceOpened, MultiResume

\* The bands of a tile are of the sources they are looked up in.
LEMMA BandsFacts ==
  ASSUME NEW sources, NEW tile
  PROVE  /\ BandsFrom(BandsOf(sources, tile), sources)
         /\ BandsFrom([name \in DOMAIN sources |-> None], sources)
<1> DEFINE bands == BandsOf(sources, tile)
<1>1. /\ DOMAIN bands = DOMAIN sources
      /\ \A name \in DOMAIN bands : \E primary :
           bands[name] \in {PrimaryBand(sources[name], tile), SecondaryBand(sources[name], primary, tile)}
  BY DEF BandsOf
<1>2. \A file : PrimaryBand(file, tile) # None => PrimaryBand(file, tile).file = file
  BY DEF PrimaryBand
<1>3. \A file, primary : SecondaryBand(file, primary, tile) # None => SecondaryBand(file, primary, tile).file = file
  BY DEF SecondaryBand
<1> HIDE DEF bands
<1>4. \A name \in DOMAIN bands : bands[name] # None => bands[name].file = sources[name]
  BY <1>1, <1>2, <1>3
<1> QED
  BY <1>1, <1>4 DEF BandsFrom, bands

LEMMA MultiKeptByTiles ==
  ASSUME MultiInv, MultiTileStarts \/ \E l \in multiView.loads : MultiTileEnds(l)
  PROVE  MultiInv'
<1> USE DEF MultiInv
<1>1. /\ multiProps' = multiProps /\ multiState' = multiState /\ multiOpens' = multiOpens
      /\ multiRemoved' = multiRemoved /\ multiLoaded' = multiLoaded /\ multiChanges' = multiChanges
      /\ multiOverlap' = multiOverlap
  BY DEF MultiTileStarts, MultiTileEnds
<1>2. IsView(multiView) /\ multiView.tileset # None
  BY NoViewFacts DEF MultiTileStarts, MultiTypes
<1>3. /\ IsView(multiView') /\ multiView'.tileset = multiView.tileset /\ multiView'.reader = multiView.reader
      /\ \A t \in multiView'.loads \cup multiView'.tiles :
           t \in multiView.loads \cup multiView.tiles \/ BandsFrom(t.content, multiState)
  <2>1. CASE MultiTileStarts
    <3>1. PICK tile, bands : BandsFrom(bands, multiState) /\ multiView' = StartLoad(multiView, tile, bands)
      BY <2>1, BandsFacts DEF MultiTileStarts
    <3> QED
      BY <1>2, <3>1, LoadFacts
  <2>2. ASSUME NEW l \in multiView.loads, MultiTileEnds(l)
        PROVE  /\ IsView(multiView') /\ multiView'.tileset = multiView.tileset /\ multiView'.reader = multiView.reader
               /\ multiView'.loads \cup multiView'.tiles \subseteq multiView.loads \cup multiView.tiles
    BY <1>2, <2>2, EndFacts DEF MultiTileEnds
  <2> QED
    BY <2>1, <2>2
<1>4. MultiTypes'
  BY <1>1, <1>2, <1>3 DEF MultiTypes
<1>5. MultiFollows'
  <2>1. ~multiOverlap => multiState = multiProps
    BY <1>2 DEF MultiFollows
  <2> QED
    BY <1>1, <1>3, <2>1 DEF MultiFollows
<1>6. MultiGone'
  BY <1>1, <1>2, NoViewFacts DEF MultiGone
<1> QED
  BY <1>4, <1>5, <1>6

LEMMA MultiKept ==
  ASSUME MultiInv, MultiNext \/ UNCHANGED multiVars
  PROVE  MultiInv'
<1>1. ASSUME NEW s \in MultiProps, MultiUpdate(s) PROVE MultiInv'
  BY <1>1, MultiKeptByUpdate
<1>2. CASE MultiRemove
  BY <1>2, NoViewFacts DEF MultiRemove, MultiInv, MultiTypes, MultiFollows, MultiGone, SetsOrNone
<1>3. ASSUME NEW o \in multiOpens,
             MultiOpenFails(o) \/ \E name \in DOMAIN o.sources : MultiSourceOpened(o, name)
      PROVE  MultiInv'
  BY <1>3, MultiKeptByOpen
<1>4. CASE MultiTileStarts \/ \E l \in multiView.loads : MultiTileEnds(l)
  BY <1>4, MultiKeptByTiles
<1>5. CASE UNCHANGED multiVars
  BY <1>5 DEF multiVars, MultiInv, MultiTypes, MultiFollows, MultiGone
<1> QED
  BY <1>1, <1>2, <1>3, <1>4, <1>5 DEF MultiNext

LEMMA MultiKeepsItsWord ==
  ASSUME MultiInv
  PROVE  MultiTypeOK /\ MultiTilesOfTheirSources
<1> USE DEF MultiInv
<1>1. 0..multiChanges \subseteq 0..MultiChanges
  BY MultiAssumption DEF MultiTypes
<1>2. MultiTypeOK
  BY <1>1 DEF MultiTypes, MultiTypeOK, SetsOrNone
<1>3. MultiTilesOfTheirSources
  BY DEF MultiFollows, MultiTilesOfTheirSources, BandsFrom
<1> QED
  BY <1>2, <1>3

\* A removed MultiCOGLayer stays as it was.
LEMMA MultiRests ==
  ASSUME MultiInv, MultiNext \/ UNCHANGED multiVars, multiRemoved
  PROVE  UNCHANGED <<multiState, multiLoaded, multiView>>
<1>1. multiView = NoView /\ multiView.tileset = None /\ multiView.loads = {} /\ multiRemoved = TRUE
  BY NoViewFacts DEF MultiInv, MultiGone, MultiTypes
<1> QED
  BY <1>1 DEF MultiNext, multiVars, MultiUpdate, MultiRemove, MultiSourceOpened, MultiOpenFails,
              MultiTileStarts, MultiTileEnds, MultiResume

-----------------------------------------------------------------------------
(* MosaicLayer.                                                            *)

\* The id is that of the source in some list.
KnownAs(id, source) == \E l \in Lists : \E i \in DOMAIN l : id = ResolvedId(l[i], i) /\ source = l[i]

CacheRight(cache) ==
  \A id \in DOMAIN cache :
    /\ cache[id] = [source |-> cache[id].source, status |-> cache[id].status]
    /\ KnownAs(id, cache[id].source)
    /\ cache[id].status \in {"loading", "loaded", "failed", "cancelled"}

\* The tiles are of the sources the list has under their ids, those handed on apart.
Faithful(cache, handed, sources) ==
  /\ handed \subseteq DOMAIN cache
  /\ \A id \in DOMAIN cache \ handed : Named(id, sources) = {cache[id].source}

IsTileset(ts) ==
  ts = [lastSources |-> ts.lastSources, lastRevision |-> ts.lastRevision, viewport |-> ts.viewport,
        selected |-> ts.selected, cache |-> ts.cache]

MosaicTypes ==
  /\ mosaicProps.sources \in Lists /\ mosaicViewport \in Viewports
  /\ mosaicIndex = _buildSpatialIndex(mosaicProps.sources)
  /\ mosaicChanges \in 0..MosaicChanges /\ sourceRevision \in 0..mosaicChanges

\* The tileset has looked for tiles since the list, the revision or the viewport changed.
TilesetCurrent ==
  /\ IsTileset(tileset)
  /\ tileset.lastRevision = sourceRevision /\ tileset.viewport = mosaicViewport
  /\ tileset.selected = {f.id : f \in getTileIndices(mosaicViewport, mosaicIndex, mosaicProps.sources)}
  /\ tileset.selected \subseteq DOMAIN tileset.cache
  /\ CacheRight(tileset.cache)
  /\ Faithful(tileset.cache, handedOn, mosaicProps.sources)

MosaicInv == MosaicTypes /\ TilesetCurrent

\* One explicit id, one source.
LEMMA OneSourceEach ==
  ASSUME NEW id, NEW a, NEW b, KnownAs(id, a), KnownAs(id, b), a.id # Unset
  PROVE  a = b
<1>1. PICK k \in Lists : \E i \in DOMAIN k : id = ResolvedId(k[i], i) /\ a = k[i]
  BY DEF KnownAs
<1>2. PICK l \in Lists : \E j \in DOMAIN l : id = ResolvedId(l[j], j) /\ b = l[j]
  BY DEF KnownAs
<1> QED
  BY <1>1, <1>2, MosaicAssumption DEF ResolvedId

\* Within a list, every resolved id is that of one place.
LEMMA OnePlaceEach ==
  ASSUME NEW sources \in Lists, NEW i \in DOMAIN sources
  PROVE  Named(ResolvedId(sources[i], i), sources) = {sources[i]}
<1>1. ASSUME NEW j \in DOMAIN sources, ResolvedId(sources[j], j) = ResolvedId(sources[i], i)
      PROVE  sources[j] = sources[i]
  BY <1>1, MosaicAssumption DEF ResolvedId
<1> QED
  BY <1>1 DEF Named

Meets(source, viewport) ==
  /\ MinZoom <= viewport.zoom /\ viewport.zoom <= MaxZoom
  /\ source.box[1] <= viewport.east + Buffer
  /\ source.box[2] >= viewport.west - Buffer

\* What is found are the sources of the list in view, under their ids.
LEMMA FoundFacts ==
  ASSUME NEW viewport \in Viewports, NEW sources \in Lists,
         NEW found, found = getTileIndices(viewport, _buildSpatialIndex(sources), sources)
  PROVE  /\ \A f \in found : KnownAs(f.id, f.source) /\ Named(f.id, sources) = {f.source}
         /\ {f.id : f \in found} =
              {ResolvedId(sources[i], i) : i \in {i \in DOMAIN sources : Meets(sources[i], viewport)}}
<1> DEFINE index == _buildSpatialIndex(sources)
           inZoom == ~(viewport.zoom < MinZoom \/ viewport.zoom > MaxZoom)
           places == {i \in DOMAIN sources : Meets(sources[i], viewport)}
           tile(i) == [id |-> ResolvedId(sources[i], i), source |-> sources[i]]
<1>z. inZoom <=> MinZoom <= viewport.zoom /\ viewport.zoom <= MaxZoom
  BY MosaicAssumption
<1> HIDE DEF inZoom
<1>1. found = {tile(i) : i \in places}
  <2>1. CASE ~inZoom
    <3>1. found = {}
      BY <2>1 DEF getTileIndices, inZoom
    <3> QED
      BY <2>1, <1>z, <3>1 DEF Meets
  <2>2. CASE inZoom /\ index = Unset
    <3>1. DOMAIN sources = {}
      BY <2>2, MosaicAssumption DEF _buildSpatialIndex
    <3>2. found = {}
      BY <2>2 DEF getTileIndices
    <3> QED
      BY <3>1, <3>2
  <2>3. CASE inZoom /\ index # Unset
    <3>1. index = sources
      BY <2>3 DEF _buildSpatialIndex
    <3>2. found = {tile(i) : i \in {i \in DOMAIN sources : /\ sources[i].box[1] <= viewport.east + Buffer
                                                         /\ sources[i].box[2] >= viewport.west - Buffer}}
      BY <2>3, <3>1 DEF getTileIndices, inZoom
    <3> QED
      BY <2>3, <1>z, <3>2 DEF Meets
  <2> QED
    BY <2>1, <2>2, <2>3
<1>2. \A i \in places : KnownAs(tile(i).id, tile(i).source) /\ Named(tile(i).id, sources) = {tile(i).source}
  BY OnePlaceEach DEF KnownAs
<1>3. \A i \in places : tile(i).id = ResolvedId(sources[i], i)
  OBVIOUS
<1> HIDE DEF tile, places
<1>4. {f.id : f \in {tile(i) : i \in places}} = {ResolvedId(sources[i], i) : i \in places}
  BY <1>3
<1>5. \A f \in found : KnownAs(f.id, f.source) /\ Named(f.id, sources) = {f.source}
  BY <1>1, <1>2
<1> QED
  BY <1>1, <1>4, <1>5 DEF places

\* The tiles that are kept and made are right.
LEMMA HeldFacts ==
  ASSUME NEW cache, CacheRight(cache), NEW sources, NEW handed, Faithful(cache, handed, sources),
         NEW found, \A f \in found : KnownAs(f.id, f.source) /\ Named(f.id, sources) = {f.source}
  PROVE  /\ CacheRight(Held(cache, found)) /\ Faithful(Held(cache, found), handed, sources)
         /\ {f.id : f \in found} \subseteq DOMAIN Held(cache, found)
<1> DEFINE ids == {f.id : f \in found}
           made(id) == [source |-> (CHOOSE f \in found : f.id = id).source, status |-> "loading"]
           kept(id) == IF id \in ids /\ cache[id].status = "cancelled"
                         THEN [cache[id] EXCEPT !.status = "loading"] ELSE cache[id]
           held == Held(cache, found)
           Right(id, tile) ==
             /\ tile = [source |-> tile.source, status |-> tile.status]
             /\ KnownAs(id, tile.source)
             /\ id \in handed \/ Named(id, sources) = {tile.source}
             /\ tile.status \in {"loading", "loaded", "failed", "cancelled"}
<1>1. held = [id \in DOMAIN cache \cup ids |-> IF id \in DOMAIN cache THEN kept(id) ELSE made(id)]
  BY DEF Held
<1>2. \A id \in DOMAIN cache : Right(id, cache[id])
  BY DEF CacheRight, Faithful
<1>3. ASSUME NEW id \in DOMAIN cache PROVE Right(id, kept(id))
  <2>1. Right(id, cache[id])
    BY <1>2
  <2>2. CASE id \in ids /\ cache[id].status = "cancelled"
    <3>1. kept(id) = [source |-> cache[id].source, status |-> "loading"]
      BY <2>1, <2>2
    <3> HIDE DEF kept
    <3> QED
      BY <2>1, <3>1
  <2>3. CASE ~(id \in ids /\ cache[id].status = "cancelled")
    BY <2>1, <2>3
  <2> QED
    BY <2>2, <2>3
<1>4. ASSUME NEW id \in ids PROVE Right(id, made(id))
  <2>1. PICK f \in found : f.id = id /\ made(id) = [source |-> f.source, status |-> "loading"]
    <3>1. (CHOOSE f \in found : f.id = id) \in found /\ (CHOOSE f \in found : f.id = id).id = id
      OBVIOUS
    <3> QED
      BY <3>1
  <2> HIDE DEF made
  <2> QED
    BY <2>1
<1>5. ASSUME NEW id \in DOMAIN held PROVE Right(id, held[id])
  <2>1. CASE id \in DOMAIN cache
    BY <1>1, <1>3, <2>1
  <2>2. CASE id \notin DOMAIN cache
    <3>1. id \in ids /\ held[id] = made(id)
      BY <1>1, <2>2
    <3> QED
      BY <1>4, <3>1
  <2> QED
    BY <2>1, <2>2
<1>6. ids \subseteq DOMAIN held /\ handed \subseteq DOMAIN held
  BY <1>1 DEF Faithful
<1> QED
  BY <1>5, <1>6 DEF CacheRight, Faithful

\* A tileset that has to look again is current afterwards.
LEMMA UpdateFacts ==
  ASSUME NEW ts, IsTileset(ts), CacheRight(ts.cache), NEW viewport \in Viewports, NEW sources \in Lists,
         NEW handed, Faithful(ts.cache, handed, sources), NEW revision, ts.lastRevision # revision \/ ts.viewport # viewport,
         NEW w, w = TilesetUpdate(ts, viewport, sources, _buildSpatialIndex(sources), revision)
  PROVE  /\ IsTileset(w) /\ w.lastRevision = revision /\ w.viewport = viewport
         /\ w.selected = {f.id : f \in getTileIndices(viewport, _buildSpatialIndex(sources), sources)}
         /\ w.selected \subseteq DOMAIN w.cache /\ CacheRight(w.cache) /\ Faithful(w.cache, handed, sources)
<1> DEFINE found == getTileIndices(viewport, _buildSpatialIndex(sources), sources)
           noted == [ts EXCEPT !.lastSources = sources, !.lastRevision = revision, !.viewport = viewport]
<1>1. viewport # Unset
  BY MosaicAssumption
<1>2. w = [noted EXCEPT !.selected = {f.id : f \in found}, !.cache = Held(@, found)]
  BY <1>1 DEF TilesetUpdate
<1>3. noted = [lastSources |-> sources, lastRevision |-> revision, viewport |-> viewport,
               selected |-> ts.selected, cache |-> ts.cache]
  <2> DEFINE whole == [lastSources |-> ts.lastSources, lastRevision |-> ts.lastRevision,
                       viewport |-> ts.viewport, selected |-> ts.selected, cache |-> ts.cache]
  <2>1. ts = whole
    BY DEF IsTileset
  <2>2. noted = [whole EXCEPT !.lastSources = sources, !.lastRevision = revision, !.viewport = viewport]
    BY <2>1, Zenon
  <2> HIDE DEF noted
  <2> QED
    BY <2>2
<1> HIDE DEF noted
<1>4. w = [lastSources |-> sources, lastRevision |-> revision, viewport |-> viewport,
           selected |-> {f.id : f \in found}, cache |-> Held(ts.cache, found)]
  BY <1>2, <1>3
<1>5. \A f \in found : KnownAs(f.id, f.source) /\ Named(f.id, sources) = {f.source}
  BY FoundFacts
<1> HIDE DEF found
<1>6. /\ CacheRight(Held(ts.cache, found)) /\ Faithful(Held(ts.cache, found), handed, sources)
      /\ {f.id : f \in found} \subseteq DOMAIN Held(ts.cache, found)
  BY <1>5, HeldFacts
<1> QED
  BY <1>4, <1>6 DEF IsTileset, found

LEMMA MosaicInitInv == MosaicInit => MosaicInv
<1> SUFFICES ASSUME MosaicInit PROVE MosaicInv
  OBVIOUS
<1>1. MosaicTypes
  BY MosaicAssumption DEF MosaicInit, MosaicTypes
<1>2. /\ IsTileset(NewTileset) /\ CacheRight(NewTileset.cache) /\ NewTileset.lastRevision # 0
      /\ Faithful(NewTileset.cache, {}, mosaicProps.sources)
  BY DEF NewTileset, IsTileset, CacheRight, Faithful
<1>3. TilesetCurrent
  <2> DEFINE sources == mosaicProps.sources
  <2>1. /\ sources \in Lists /\ mosaicViewport \in Viewports /\ handedOn = {} /\ sourceRevision = 0
        /\ tileset = TilesetUpdate(NewTileset, mosaicViewport, sources, _buildSpatialIndex(sources), 0)
    BY DEF MosaicInit
  <2>2. /\ IsTileset(tileset) /\ tileset.lastRevision = 0 /\ tileset.viewport = mosaicViewport
        /\ tileset.selected =
             {f.id : f \in getTileIndices(mosaicViewport, _buildSpatialIndex(sources), sources)}
        /\ tileset.selected \subseteq DOMAIN tileset.cache /\ CacheRight(tileset.cache)
        /\ Faithful(tileset.cache, {}, sources)
    BY <1>2, <2>1, UpdateFacts
  <2> QED
    BY <1>1, <2>1, <2>2 DEF MosaicTypes, TilesetCurrent
<1> QED
  BY <1>1, <1>3 DEF MosaicInv

\* A tile out of view, or a load, ends: what is shown stays.
LEMMA MosaicKeptByTiles ==
  ASSUME MosaicInv, NEW id \in DOMAIN tileset.cache, MosaicSourceEnds(id) \/ MosaicTileGoes(id)
  PROVE  MosaicInv'
<1> USE DEF MosaicInv
<1>1. /\ mosaicProps' = mosaicProps /\ mosaicIndex' = mosaicIndex /\ sourceRevision' = sourceRevision
      /\ mosaicViewport' = mosaicViewport /\ mosaicChanges' = mosaicChanges
  BY DEF MosaicSourceEnds, MosaicTileGoes
<1>2. /\ IsTileset(tileset) /\ CacheRight(tileset.cache) /\ tileset.selected \subseteq DOMAIN tileset.cache
      /\ Faithful(tileset.cache, handedOn, mosaicProps.sources)
  BY DEF TilesetCurrent
<1> DEFINE Same(cache) == tileset' = [lastSources |-> tileset.lastSources, lastRevision |-> tileset.lastRevision,
             viewport |-> tileset.viewport, selected |-> tileset.selected, cache |-> cache]
<1> DEFINE Stays(cache) == /\ CacheRight(cache) /\ Faithful(cache, handedOn', mosaicProps.sources)
                           /\ tileset.selected \subseteq DOMAIN cache
<1>3. PICK cache : Same(cache) /\ Stays(cache)
  <2>1. ASSUME NEW status \in {"loaded", "failed", "cancelled"}, SetStatus(id, status)
        PROVE  \E cache : Same(cache) /\ Stays(cache)
    <3> DEFINE tile == [tileset.cache[id] EXCEPT !.status = status]
               cache == [tileset.cache EXCEPT ![id] = tile]
    <3>1. Same(cache)
      BY <1>2, <2>1 DEF SetStatus, IsTileset
    <3>2. tile = [source |-> tileset.cache[id].source, status |-> status] /\ KnownAs(id, tileset.cache[id].source)
      <4>1. /\ tileset.cache[id] = [source |-> tileset.cache[id].source, status |-> tileset.cache[id].status]
            /\ KnownAs(id, tileset.cache[id].source)
        BY <1>2 DEF CacheRight
      <4> QED
        BY <4>1
    <3> HIDE DEF tile
    <3>3. CacheRight(cache)
      BY <1>2, <3>2 DEF CacheRight
    <3>4. Faithful(cache, handedOn', mosaicProps.sources) /\ DOMAIN cache = DOMAIN tileset.cache
      BY <1>2, <2>1, <3>2 DEF Faithful, SetStatus
    <3> HIDE DEF cache, Same
    <3> QED
      BY <1>2, <3>1, <3>3, <3>4
  <2>2. ASSUME id \notin tileset.selected,
               tileset' = [tileset EXCEPT !.cache = [i \in DOMAIN @ \ {id} |-> @[i]]],
               handedOn' = handedOn \ {id}
        PROVE  \E cache : Same(cache) /\ Stays(cache)
    <3> DEFINE cache == [i \in DOMAIN tileset.cache \ {id} |-> tileset.cache[i]]
    <3>1. Same(cache)
      BY <1>2, <2>2 DEF IsTileset
    <3>2. CacheRight(cache)
      BY <1>2 DEF CacheRight
    <3>3. tileset.selected \subseteq DOMAIN cache /\ Faithful(cache, handedOn', mosaicProps.sources)
      BY <1>2, <2>2 DEF Faithful
    <3> HIDE DEF cache, Same
    <3> QED
      BY <3>1, <3>2, <3>3
  <2> HIDE DEF Same, Stays
  <2> QED
    BY <2>1, <2>2 DEF MosaicSourceEnds, MosaicTileGoes
<1>4. TilesetCurrent'
  BY <1>1, <1>3 DEF TilesetCurrent, IsTileset
<1> QED
  BY <1>1, <1>4 DEF MosaicTypes

LEMMA MosaicKept ==
  ASSUME MosaicInv, MosaicNext \/ UNCHANGED mosaicVars
  PROVE  MosaicInv'
<1> USE DEF MosaicInv
<1>1. ASSUME NEW l \in Lists, NEW revision, MosaicUpdate(l, revision) PROVE MosaicInv'
  <2>1. MosaicTypes' /\ sourceRevision' # sourceRevision
    BY <1>1, MosaicAssumption DEF MosaicUpdate, MosaicTypes
  <2>2. Faithful(tileset.cache, handedOn', l)
    BY <1>1 DEF MosaicUpdate, TilesetCurrent, Faithful
  <2>3. TilesetCurrent'
    BY <1>1, <2>1, <2>2, UpdateFacts DEF MosaicUpdate, MosaicTypes, TilesetCurrent
  <2> QED
    BY <2>1, <2>3
<1>2. ASSUME NEW v \in Viewports, MosaicPan(v) PROVE MosaicInv'
  <2>1. MosaicTypes' /\ v # mosaicViewport
    BY <1>2, MosaicAssumption DEF MosaicPan, MosaicTypes
  <2>2. TilesetCurrent'
    BY <1>2, <2>1, UpdateFacts DEF MosaicPan, MosaicTypes, TilesetCurrent
  <2> QED
    BY <2>1, <2>2
<1>3. ASSUME NEW id \in DOMAIN tileset.cache, MosaicSourceEnds(id) \/ MosaicTileGoes(id) PROVE MosaicInv'
  BY <1>3, MosaicKeptByTiles
<1>4. CASE UNCHANGED mosaicVars
  BY <1>4 DEF mosaicVars, MosaicTypes, TilesetCurrent
<1> QED
  BY <1>1, <1>2, <1>3, <1>4 DEF MosaicNext

LEMMA MosaicKeepsItsWord ==
  ASSUME MosaicInv
  PROVE  MosaicTypeOK /\ MosaicShowsItsSources
<1> USE DEF MosaicInv
<1> DEFINE sources == mosaicProps.sources
           found == getTileIndices(mosaicViewport, mosaicIndex, sources)
           named(i) == ResolvedId(sources[i], i)
<1>1. /\ \A f \in found : KnownAs(f.id, f.source) /\ Named(f.id, sources) = {f.source}
      /\ {f.id : f \in found} = {named(i) : i \in PlacesInView}
  <2>1. mosaicIndex = _buildSpatialIndex(sources)
    BY DEF MosaicTypes
  <2>2. PlacesInView = {i \in DOMAIN sources : Meets(sources[i], mosaicViewport)}
    BY DEF PlacesInView, InZoom, Meets
  <2> QED
    BY <2>1, <2>2, FoundFacts DEF MosaicTypes
<1>2. tileset.selected = {named(i) : i \in PlacesInView} /\ tileset.selected \subseteq DOMAIN tileset.cache
  BY <1>1 DEF TilesetCurrent
<1>3. ASSUME NEW i \in PlacesInView, sources[i].id # Unset \/ named(i) \notin handedOn
      PROVE  tileset.cache[named(i)].source = sources[i]
  <2>1. i \in DOMAIN sources /\ sources \in Lists /\ named(i) \in DOMAIN tileset.cache
    BY <1>2 DEF PlacesInView, MosaicTypes
  <2>2. Named(named(i), sources) = {sources[i]}
    BY <2>1, OnePlaceEach
  <2>3. CASE sources[i].id # Unset
    <3>1. KnownAs(named(i), sources[i]) /\ KnownAs(named(i), tileset.cache[named(i)].source)
      BY <2>1 DEF KnownAs, TilesetCurrent, CacheRight
    <3> QED
      BY <2>3, <3>1, OneSourceEach
  <2>4. CASE named(i) \notin handedOn
    BY <2>1, <2>2, <2>4 DEF TilesetCurrent, Faithful
  <2> QED
    BY <1>3, <2>3, <2>4
<1>4. MosaicShowsItsSources
  BY <1>2, <1>3 DEF MosaicShowsItsSources
<1>5. MosaicTypeOK
  <2>1. sourceRevision \in 0..MosaicChanges
    BY MosaicAssumption DEF MosaicTypes
  <2>2. mosaicIndex \in Lists \cup {Unset}
    BY DEF MosaicTypes, _buildSpatialIndex
  <2>3. \A id \in DOMAIN tileset.cache :
          tileset.cache[id].status \in {"loading", "loaded", "failed", "cancelled"}
    BY DEF TilesetCurrent, CacheRight
  <2>4. handedOn \subseteq DOMAIN tileset.cache
    BY DEF TilesetCurrent, Faithful
  <2> QED
    BY <1>2, <2>1, <2>2, <2>3, <2>4 DEF MosaicTypeOK, MosaicTypes
<1> QED
  BY <1>4, <1>5

-----------------------------------------------------------------------------
(* The layers beside each other.                                           *)

LayersInv == CogInv /\ MultiInv /\ MosaicInv

LEMMA LayersStep == LayersInv /\ [LayersNext]_layersVars => LayersInv'
BY CogKept, MultiKept, MosaicKept DEF LayersInv, LayersNext, layersVars

LEMMA LayersInvariance == LayersSpec => []LayersInv
<1>1. LayersInit => LayersInv
  BY CogInitInv, MultiInitInv, MosaicInitInv DEF LayersInit, LayersInv
<1> QED
  BY <1>1, LayersStep, PTL DEF LayersSpec

\* For any files, sources and changes of them: while no two opens overlap, every tile is read
\* from the source its tileset was built for (updateState, clearState, _parseGeoTIFF and the
\* callbacks of COGLayer and MultiCOGLayer).
THEOREM TilesAreOfTheirSource == LayersSpec => []TilesOfTheirSource
<1>1. LayersInv => TilesOfTheirSource
  BY CogKeepsItsWord, MultiKeepsItsWord, MosaicKeepsItsWord DEF LayersInv, TilesOfTheirSource
<1> QED
  BY <1>1, LayersInvariance, PTL

\* Whenever an open ends, it does nothing to a layer that was removed (finalizeState and the
\* checks of the signal).
THEOREM RemovedLayersRest == LayersSpec => NothingAfterRemoval
<1>1. LayersInv /\ [LayersNext]_layersVars =>
        [ /\ cogRemoved => UNCHANGED <<cogState, cogLoaded, cogView>>
          /\ multiRemoved => UNCHANGED <<multiState, multiLoaded, multiView>> ]_layersVars
  BY CogRests, MultiRests DEF LayersInv, LayersNext, layersVars, cogVars, multiVars
<1> QED
  BY <1>1, LayersInvariance, PTL DEF LayersSpec, NothingAfterRemoval

\* For any viewports and any lists, reordered, appended to or shifted, in which an explicit id
\* stands for one source: the tiles in view are those of the sources of the list that meet the
\* viewport, each of its source, but for a source without an id whose place has changed hands
\* since its tile was made (MosaicLayer.updateState, MosaicTileset2D.update, getTileIndices).
THEOREM MosaicsShowTheirSources == LayersSpec => []MosaicShowsItsSources
<1>1. LayersInv => MosaicShowsItsSources
  BY MosaicKeepsItsWord DEF LayersInv
<1> QED
  BY <1>1, LayersInvariance, PTL
=============================================================================
