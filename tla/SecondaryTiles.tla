---------------------------- MODULE SecondaryTiles ----------------------------
(***************************************************************************)
(* How a band of a coarser grid is read under a tile of the finest one     *)
(* (packages/deck.gl-raster/src/multi-raster-tileset, the levels of        *)
(* raster-tileset/affine-tileset-level.ts, and packages/geotiff/src/       *)
(* assemble.ts).                                                           *)
(*                                                                         *)
(* A level is a north-up grid: the CRS place [x, y] of its top left        *)
(* corner, the size px of a pixel, the size of its array and of its tiles  *)
(* in pixels.  CRS units are integers, so that metersPerPixel is px; a UV  *)
(* coordinate is a fraction with the size of the texture in the CRS as its *)
(* denominator.                                                            *)
(***************************************************************************)
EXTENDS Integers, Sequences, FiniteSets, SequencesExt

LOCAL CeilDiv(a, b) == (a + b - 1) \div b
LOCAL Least(a, b) == IF a <= b THEN a ELSE b
LOCAL Most(a, b) == IF a >= b THEN a ELSE b

matrixWidth(level) == CeilDiv(level.width, level.tile)
matrixHeight(level) == CeilDiv(level.height, level.tile)

\* projectedTileCorners, as the box the corners span.
Box(level, col, row) ==
  LET side == level.tile * level.px
  IN [minX |-> level.x + col * side, maxX |-> level.x + (col + 1) * side,
      minY |-> level.y - (row + 1) * side, maxY |-> level.y - row * side]

Spanned(a, b) == [minX |-> Least(a.minX, b.minX), maxX |-> Most(a.maxX, b.maxX),
                  minY |-> Least(a.minY, b.minY), maxY |-> Most(a.maxY, b.maxY)]

\* Mutant of crsBoundsToTileRange: the last column is left out.
crsBoundsToTileRange_Exclusive(level, box) ==
  LET side == level.tile * level.px
  IN [minCol |-> Most(0, (box.minX - level.x) \div side),
      maxCol |-> Least(matrixWidth(level) - 1, ((box.maxX - level.x) \div side) - 1),
      minRow |-> Most(0, (level.y - box.maxY) \div side),
      maxRow |-> Least(matrixHeight(level) - 1, (level.y - box.minY) \div side)]

\* The tiles that a box meets, clamped to the matrix on one side each: a box
\* off the array has an empty range.
crsBoundsToTileRange(level, box) ==
  LET side == level.tile * level.px
  IN [minCol |-> Most(0, (box.minX - level.x) \div side),
      maxCol |-> Least(matrixWidth(level) - 1, (box.maxX - level.x) \div side),
      minRow |-> Most(0, (level.y - box.maxY) \div side),
      maxRow |-> Least(matrixHeight(level) - 1, (level.y - box.minY) \div side)]

tilesetLevelsEqual(a, b) ==
  /\ matrixWidth(a) = matrixWidth(b) /\ matrixHeight(a) = matrixHeight(b)
  /\ a.tile = b.tile
  /\ a.px = b.px

\* "closest-finer": the coarsest level that is no coarser than the primary, or
\* the finest there is.  Levels are ordered coarsest first.
selectSecondaryLevel(levels, metersPerPixel) ==
  LET finer == {i \in DOMAIN levels : levels[i].px <= metersPerPixel}
  IN IF finer = {} THEN Len(levels)
     ELSE CHOOSE i \in finer : \A k \in finer : i <= k

\* createMultiRasterTilesetDescriptor: the first source, in the order of its
\* name in names, whose last level is the finest.
primaryKey(names, levelsOf) ==
  LET finest(i) == Last(levelsOf[names[i]]).px
  IN names[CHOOSE i \in DOMAIN names :
             \A k \in DOMAIN names :
               \/ finest(i) < finest(k)
               \/ finest(i) = finest(k) /\ i <= k]

\* The covering tiles of a box, where the stitched region lies, and the offsets
\* and scales of the UV transform as numerators over its width and height.
resolveSecondaryTiles(primary, level) ==
  LET range == crsBoundsToTileRange(level, primary)
      stitched == Spanned(Box(level, range.minCol, range.minRow),
                          Box(level, range.maxCol, range.maxRow))
  IN [tiles |-> {<<col, row>> : col \in range.minCol..range.maxCol,
                                row \in range.minRow..range.maxRow},
      minCol |-> range.minCol, minRow |-> range.minRow,
      crsWidth |-> stitched.maxX - stitched.minX,
      crsHeight |-> stitched.maxY - stitched.minY,
      offsetX |-> primary.minX - stitched.minX, scaleX |-> primary.maxX - primary.minX,
      offsetY |-> stitched.maxY - primary.maxY, scaleY |-> primary.maxY - primary.minY,
      width  |-> (range.maxCol - range.minCol + 1) * level.tile,
      height |-> (range.maxRow - range.minRow + 1) * level.tile]

\* validateContiguousGrid: one tile for each place of the stitched region.
Assembles(r, level) ==
  /\ r.tiles # {}
  /\ Cardinality(r.tiles) * level.tile * level.tile = r.width * r.height

\* assembleTiles: the pixel of the band's image that lies at column i and row j
\* of the stitched texture.  None of them when no tile was copied there.
AssembledPixel(r, level, i, j) ==
  {<<t[1] * level.tile + i - (t[1] - r.minCol) * level.tile,
     t[2] * level.tile + j - (t[2] - r.minRow) * level.tile>> :
   t \in {t \in r.tiles : /\ i \div level.tile = t[1] - r.minCol
                          /\ j \div level.tile = t[2] - r.minRow}}

\* The texel the shader samples for the place [x, y] of the tile at box: the
\* place in the UV space of the tile, times the scale, plus the offset.
SampledTexel(r, box, x, y) ==
  LET width == box.maxX - box.minX
      height == box.maxY - box.minY
  IN <<(((x - box.minX) * r.scaleX + r.offsetX * width) * r.width) \div (width * r.crsWidth),
       (((box.maxY - y) * r.scaleY + r.offsetY * height) * r.height) \div (height * r.crsHeight)>>

\* The place of a pixel of the image, as a box.
PixelBox(level, p) == Box([level EXCEPT !.tile = 1], p[1], p[2])
=============================================================================
