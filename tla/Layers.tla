-------------------------------- MODULE Layers --------------------------------
(***************************************************************************)
(* The layers of packages/deck.gl-geotiff, COGLayer, MultiCOGLayer and     *)
(* MosaicLayer, mounted side by side.  They share no state.                *)
(***************************************************************************)
EXTENDS CogLayer, MultiCogLayer, MosaicLayer

layersVars == <<cogVars, multiVars, mosaicVars>>

LayersInit == CogInit /\ MultiInit /\ MosaicInit
LayersNext ==
  \/ CogNext /\ UNCHANGED <<multiVars, mosaicVars>>
  \/ MultiNext /\ UNCHANGED <<cogVars, mosaicVars>>
  \/ MosaicNext /\ UNCHANGED <<cogVars, multiVars>>
LayersSpec == LayersInit /\ [][LayersNext]_layersVars

-----------------------------------------------------------------------------
\* cog-layer.ts:238 and multi-cog-layer.ts:378: no tile is read from another
\* source than the one its tileset was built for, as long as no two opens
\* overlap.
TilesOfTheirSource ==
  /\ CogTypeOK /\ MultiTypeOK /\ MosaicTypeOK
  /\ CogTilesOfTheirFile /\ MultiTilesOfTheirSources

\* multi-cog-layer.ts:334: every band of a tile is there, and is sampled where the
\* tile lies, at a resolution that suits it, whatever grid the file of the band has.
BandsAligned == MultiBandsAligned

\* cog-layer.ts:265 and multi-cog-layer.ts:469 ("Layer removed mid-open ...
\* drop it", "don't setState on a finalized layer"): once a layer is removed, an
\* open that ends, whenever it does, neither changes its state nor calls
\* onGeoTIFFLoad.
NothingAfterRemoval ==
  [][ /\ cogRemoved => UNCHANGED <<cogState, cogLoaded, cogView>>
      /\ multiRemoved => UNCHANGED <<multiState, multiLoaded, multiView>> ]_layersVars

\* cog-layer.ts:214: once no open is under way, a COGLayer shows the file of its
\* props or nothing.
ShowsItsProp == CogShowsItsProp
=============================================================================
