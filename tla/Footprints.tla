----------------------------- MODULE Footprints -----------------------------
(***************************************************************************)
(* Two overlays of the viewer that ask for what the view covers (app.js):   *)
(* the outlines of the elevation tiles, asked after every move, and the     *)
(* buildings, asked whenever the terrain has found its tiles.               *)
(***************************************************************************)
EXTENDS Integers

CONSTANTS
  Places, Near,  \* map positions, and those near enough for the outlines
  Nothing,
  MaxSteps      \* bound: acts of the user

VARIABLES
  view,
  outlines,                            \* toggleS1MFootprintsLayerEl
  tiles, tilesKey, tilesPending, tilesSeq, \* s1mFootprintTiles (the view they are of), Key, PendingKey, Seq
  tilesCalls,                          \* requests of /s1m/tiles under way: [seq, key]
  terrain, buildings,                  \* s1mActive, terBuildingsEl
  houses, housesKey, housesSeq,        \* buildingFeatureData (the view it is of), Key, Seq
  housesCalls,                         \* requests of /buildings/overture under way
  excused,                             \* for the property: see FootprintsFollow
  steps

ASSUME FootprintsAssumption == Near \subseteq Places /\ Nothing \notin Places /\ MaxSteps \in Nat

outlineVars == <<outlines, tiles, tilesKey, tilesPending, tilesSeq, tilesCalls>>
houseVars == <<houses, housesKey, housesSeq, housesCalls>>
footprintVars == <<view, outlineVars, terrain, buildings, houseVars, excused, steps>>

FootprintsInit ==
  /\ view \in Places
  /\ outlines = FALSE /\ tiles = Nothing /\ tilesKey = Nothing /\ tilesPending = Nothing /\ tilesSeq = 0 /\ tilesCalls = {}
  /\ terrain = FALSE /\ buildings = FALSE
  /\ houses = Nothing /\ housesKey = Nothing /\ housesSeq = 0 /\ housesCalls = {}
  /\ excused = {} /\ steps = 0

User == steps < MaxSteps /\ steps' = steps + 1

-----------------------------------------------------------------------------
\* Nothing when it is off or too far; nothing to ask when the view is shown or asked already.
refreshS1MFootprintsLayer(on, v) ==
  IF ~on \/ v \notin Near
  THEN /\ tilesSeq' = tilesSeq + 1 /\ tiles' = Nothing /\ tilesKey' = Nothing /\ tilesPending' = Nothing
       /\ UNCHANGED <<tilesCalls, excused>>
  ELSE IF v \in {tilesKey, tilesPending}
  THEN /\ excused' = IF v = tilesKey /\ tilesPending # Nothing THEN excused \cup {"outlines"} ELSE excused
       /\ UNCHANGED <<tilesSeq, tiles, tilesKey, tilesPending, tilesCalls>>
  ELSE /\ tilesSeq' = tilesSeq + 1 /\ tilesPending' = v
       /\ tilesCalls' = tilesCalls \cup {[seq |-> tilesSeq', key |-> v]}
       /\ excused' = excused \ {"outlines"}
       /\ UNCHANGED <<tiles, tilesKey>>

TilesAnswered_Unguarded(c) ==
  /\ c \in tilesCalls /\ tilesCalls' = tilesCalls \ {c}
  /\ tiles' = c.key /\ tilesKey' = c.key /\ tilesPending' = Nothing
  /\ UNCHANGED <<view, outlines, tilesSeq, terrain, buildings, houseVars, excused, steps>>
TilesAnswered(c) ==
  /\ c \in tilesCalls /\ tilesCalls' = tilesCalls \ {c}
  /\ IF c.seq = tilesSeq THEN tiles' = c.key /\ tilesKey' = c.key /\ tilesPending' = Nothing
     ELSE UNCHANGED <<tiles, tilesKey, tilesPending>>
  /\ UNCHANGED <<view, outlines, tilesSeq, terrain, buildings, houseVars, excused, steps>>

TilesFailed(c) ==
  /\ c \in tilesCalls /\ tilesCalls' = tilesCalls \ {c}
  /\ IF c.seq = tilesSeq
     THEN tiles' = Nothing /\ tilesKey' = Nothing /\ tilesPending' = Nothing /\ excused' = excused \cup {"outlines"}
     ELSE UNCHANGED <<tiles, tilesKey, tilesPending, excused>>
  /\ UNCHANGED <<view, outlines, tilesSeq, terrain, buildings, houseVars, steps>>

-----------------------------------------------------------------------------
\* What was shown goes; a request under way does not.
clearBuildingFootprints ==
  housesKey' = Nothing /\ houses' = Nothing /\ excused' = excused \ {"houses"} /\ UNCHANGED <<housesSeq, housesCalls>>

refreshBuildingFootprints(on, up) ==
  IF ~on \/ ~up THEN clearBuildingFootprints
  ELSE IF view = housesKey THEN UNCHANGED <<houseVars, excused>>
  ELSE /\ housesKey' = view /\ housesSeq' = housesSeq + 1
       /\ housesCalls' = housesCalls \cup {[seq |-> housesSeq', key |-> view]}
       /\ UNCHANGED <<houses, excused>>

\* An answer to the newest request is shown, whether buildings are still wanted or not.
HousesAnswered(c) ==
  /\ c \in housesCalls /\ housesCalls' = housesCalls \ {c}
  /\ IF c.seq = housesSeq
     THEN /\ houses' = c.key
          /\ excused' = IF housesKey = c.key THEN excused \ {"houses"} ELSE excused \cup {"houses"}
     ELSE UNCHANGED <<houses, excused>>
  /\ UNCHANGED <<view, outlineVars, terrain, buildings, housesKey, housesSeq, steps>>

\* After a failure the view counts as asked: nothing is shown, and it is not asked again.
HousesFailed(c) ==
  /\ c \in housesCalls /\ housesCalls' = housesCalls \ {c}
  /\ IF c.seq = housesSeq THEN houses' = Nothing /\ excused' = excused \cup {"houses"}
     ELSE UNCHANGED <<houses, excused>>
  /\ UNCHANGED <<view, outlineVars, terrain, buildings, housesKey, housesSeq, steps>>

-----------------------------------------------------------------------------
Move(v) ==
  /\ User /\ v # view /\ view' = v
  /\ refreshS1MFootprintsLayer(outlines, v)
  /\ UNCHANGED <<outlines, terrain, buildings, houseVars>>

ToggleOutlines ==
  /\ User /\ outlines' = ~outlines
  /\ refreshS1MFootprintsLayer(outlines', view)
  /\ UNCHANGED <<view, terrain, buildings, houseVars>>

ToggleBuildings ==
  /\ User /\ buildings' = ~buildings
  /\ refreshBuildingFootprints(buildings', terrain)
  /\ UNCHANGED <<view, outlineVars, terrain>>

\* The terrain is enabled; it has found its tiles; it is cleared.
TerrainEnabled == User /\ ~terrain /\ terrain' = TRUE /\ UNCHANGED <<view, outlineVars, buildings, houseVars, excused>>
TerrainFound ==
  /\ terrain /\ refreshBuildingFootprints(buildings, TRUE)
  /\ UNCHANGED <<view, outlineVars, terrain, buildings, steps>>
TerrainCleared ==
  /\ User /\ terrain /\ terrain' = FALSE /\ clearBuildingFootprints
  /\ UNCHANGED <<view, outlineVars, buildings>>

FootprintsNext ==
  \/ \E v \in Places : Move(v)
  \/ ToggleOutlines \/ ToggleBuildings \/ TerrainEnabled \/ TerrainFound \/ TerrainCleared
  \/ \E c \in tilesCalls : TilesAnswered(c) \/ TilesFailed(c)
  \/ \E c \in housesCalls : HousesAnswered(c) \/ HousesFailed(c)

FootprintsSpec == FootprintsInit /\ [][FootprintsNext]_footprintVars

-----------------------------------------------------------------------------
FootprintsTypeOK ==
  /\ view \in Places /\ {outlines, terrain, buildings} \subseteq BOOLEAN
  /\ {tiles, tilesKey, tilesPending, houses, housesKey} \subseteq Places \cup {Nothing}
  /\ {tilesSeq, housesSeq} \subseteq Nat
  /\ tilesCalls \subseteq [seq : 1..tilesSeq, key : Near]
  /\ housesCalls \subseteq [seq : 1..housesSeq, key : Places]
  /\ excused \subseteq {"outlines", "houses"} /\ steps \in 0..MaxSteps

\* However the answers come in: outlines never show while they are off or too far; with no
\* answer to wait for they are those of the view, and the buildings those of the view they
\* were last asked for, none if they were cleared (the sequence numbers and keys).
\* Excused: outlines after a failure, or when the map came back to the shown view while
\* another was asked, whose answer then replaces it; buildings whose answer came after they
\* were cleared, which are shown, or that failed.
FootprintsFollow ==
  /\ FootprintsTypeOK
  /\ ~outlines \/ view \notin Near => tiles = Nothing
  /\ outlines /\ view \in Near /\ tilesCalls = {} => tiles = view \/ "outlines" \in excused
  /\ housesCalls = {} => houses = housesKey \/ "houses" \in excused
=============================================================================
