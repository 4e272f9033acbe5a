------------------------------ MODULE MCViewer ------------------------------
(***************************************************************************)
(* What lies between the viewer's controls and its picture, for TLC: the    *)
(* signed URLs and opened files, the session of searches, the terrain, the  *)
(* painting of its textures, and the overlays.  Each is driven by its own   *)
(* events, so each behaviour runs one of them.                              *)
(***************************************************************************)
EXTENDS SignedSources, ViewerSession, Footprints, Terrain, DrapeTiles, TLC

CONSTANTS
  Disturbances,             \* bound of the signing: renewals, searches and resets together
  BroadActs, BroadRefreshes \* bounds of the terrain in breadth

VARIABLE family \* which of them runs

viewerVars == <<family, sourcesVars, sessionVars, terrainVars, footprintVars, drapeVars>>

-----------------------------------------------------------------------------
Features0 == {Signable}

Image(c, r, y, p) == [collection |-> c, region |-> r, year |-> y, place |-> p]
LakeFirst == {Image("naip", "de", 2021, "west"), Image("ky", "ky", 2021, "west"), Image("naip", "de", 2021, "east")}
LakeLater == {Image("naip", "de", 2023, "west")}
Seen0 == [west |-> {"west"}, east |-> {"east"}, far |-> {"west", "east"}]
Wide0 == [west |-> {"west"}, east |-> {"west", "east"}, far |-> {"west"}]

\* Near the ground one data set is in view, finer and cut in four; farther off there are two.
Covers0 == [near |-> <<"d">>, far |-> <<"d", "e">>]
Lod0 == [near |-> 2, far |-> 1]
Split0 == [near |-> 2, far |-> 1]

\* Two textures that share the second tile of the first image.  Of the images found the
\* second is older than another of its state, the third overlaps one texture only, and the
\* fourth is left out of that texture by the limit, and has no tile under the other.
Img(y, s) == [year |-> y, state |-> s]
On(r, s) == "r" :> r @@ "s" :> s
Px(x, y) == "x" :> x @@ "y" :> y
Pool0 == <<Img(2021, "de"), Img(2020, "de"), Img(2021, "md"), Img(Clear, "md")>>
Overlap0 == <<On(2, 1), On(4, 4), On(Clear, 3), On(0, 0)>>
Cover0 == <<On(<<"a1", "a2">>, <<"a2">>), On(<<"b">>, <<"b">>), On(<<>>, <<"c">>), On(<<>>, <<"d">>)>>
TileAt0 ==
  <<On(Px("a1", "a2"), Px("a2", Clear)), On(Px("b", "b"), Px("b", "b")),
    On(Px(Clear, Clear), Px("c", "c")), On(Px(Clear, Clear), Px("d", Clear))>>
\* The settings under which a pixel is opaque: all, the darker, or none.
Opaque0 ==
  <<On(Px({1, 2}, {1}), Px({1}, {})), On(Px({1, 2}, {1, 2}), Px({1, 2}, {1, 2})),
    On(Px({}, {}), Px({}, {1, 2})), On(Px({}, {}), Px({1, 2}, {}))>>
Size0 == "a1" :> 2 @@ "a2" :> 1 @@ "b" :> 1 @@ "c" :> 2 @@ "d" :> 1

\* The session is renewed, a search signs, and the credentials are reset: any of them beside
\* any other, but not all in one behaviour.
Disturbed == sessions' - 1 + searches' + resets' <= Disturbances

\* The terrain is run in breadth, with every act of the user, and in depth, with changes of
\* the imagery alone.  In breadth a search that finds nothing counts like a fault.
FoundNothing == {d \in Datasets : memory.entries[d].state = "ready" /\ memory.entries[d].pool = "none"}
Broad ==
  /\ acts' + faults' + Cardinality(FoundNothing') <= BroadActs
  /\ seq' \in DOMAIN refreshes' => seq' <= BroadRefreshes
  /\ button' = "loading" => button = "loading" \/ seq < BroadRefreshes
Deep == acts' # acts => revision' # revision

MCInit ==
  /\ family \in {"signing", "session", "terrain", "imagery", "overlays", "textures"}
  /\ SourcesInit /\ SessionInit /\ TerrainInit /\ FootprintsInit
  /\ DrapeTilesInit
  /\ family = "session" \/ ~cog
  /\ family = "overlays" \/ view = "p"
  /\ display = 1

MCNext ==
  \/ family = "signing" /\ SourcesNext /\ Disturbed /\ UNCHANGED <<family, sessionVars, terrainVars, footprintVars, drapeVars>>
  \/ family = "session" /\ SessionNext /\ UNCHANGED <<family, sourcesVars, terrainVars, footprintVars, drapeVars>>
  \/ /\ family \in {"terrain", "imagery"} /\ TerrainNext
     /\ family = "terrain" => Broad
     /\ family = "imagery" => Deep
     /\ UNCHANGED <<family, sourcesVars, sessionVars, footprintVars, drapeVars>>
  \/ family = "overlays" /\ FootprintsNext /\ UNCHANGED <<family, sourcesVars, sessionVars, terrainVars, drapeVars>>
  \/ family = "textures" /\ DrapeTilesNext /\ UNCHANGED <<family, sourcesVars, sessionVars, terrainVars, footprintVars>>
MCSpec == MCInit /\ [][MCNext]_viewerVars
=============================================================================
