----------------------------- MODULE PixelPlaces -----------------------------
(***************************************************************************)
(* Where a pixel lies: the affine transforms of packages/affine, the       *)
(* georeference of a GeoTIFF and of its overviews (geotiff/transform.ts,   *)
(* overview.ts), and the grids of tiles made from them, one by affine      *)
(* transforms (deck.gl-raster/affine-tileset-level.ts) and one as a tile   *)
(* matrix set (geotiff/tile-matrix-set.ts, morecantile).                   *)
(*                                                                         *)
(* Numbers are exact fractions: the six entries of a transform, and the    *)
(* two of a point, have one denominator q.                                 *)
(***************************************************************************)
EXTENDS Integers, Sequences, FiniteSets

CONSTANT Absent  \* a tag the file does not have

Affine(a, b, c, d, e, f, q) == [a |-> a, b |-> b, c |-> c, d |-> d, e |-> e, f |-> f, q |-> q]
Point(x, y, q) == [x |-> x, y |-> y, q |-> q]
SamePoint(p, r) == p.x * r.q = r.x * p.q /\ p.y * r.q = r.y * p.q

translation(xoff, yoff) == Affine(1, 0, xoff, 0, 1, yoff, 1)

\* By nx / dx and ny / dy.
scale(nx, dx, ny, dy) == Affine(nx * dy, 0, 0, 0, ny * dx, 0, dx * dy)

apply(t, p) == Point(t.a * p.x + t.b * p.y + t.c * p.q, t.d * p.x + t.e * p.y + t.f * p.q, t.q * p.q)

compose(s, t) ==
  Affine(s.a * t.a + s.b * t.d, s.a * t.b + s.b * t.e, s.a * t.c + s.b * t.f + s.c * t.q,
         s.d * t.a + s.e * t.d, s.d * t.b + s.e * t.e, s.d * t.c + s.e * t.f + s.f * t.q,
         s.q * t.q)

Det(t) == t.a * t.e - t.b * t.d

\* Throws for a degenerate transform: Det(t) # 0 is a guard of its callers.
invert(t) ==
  LET s == IF Det(t) > 0 THEN 1 ELSE -1
  IN Affine(s * t.e * t.q, -(s * t.b * t.q), s * (t.f * t.b - t.c * t.e),
            -(s * t.d * t.q), s * t.a * t.q, s * (t.c * t.d - t.f * t.a), s * Det(t))

CeilDiv(n, d) == (n + d - 1) \div d

-----------------------------------------------------------------------------
(* The georeference: a tie point with a pixel scale, or a matrix.          *)

\* The tie point is taken for that of the corner of the first pixel.
createFromModelTiepointAndPixelScale(tie, pixel) ==
  Affine(pixel[1], 0, tie[1], 0, -pixel[2], tie[2], 1)

createFromModelTransformation(m) == Affine(m[1], m[2], m[3], m[4], m[5], m[6], 1)

HasTransform(geo) == (geo.tiepoint # Absent /\ geo.pixelScale # Absent) \/ geo.matrix # Absent

\* Half a pixel, for a raster whose values belong to points.
Half == Affine(2, 0, -1, 0, 2, -1, 2)

createTransform(geo) ==
  LET t == IF geo.tiepoint # Absent /\ geo.pixelScale # Absent
             THEN createFromModelTiepointAndPixelScale(geo.tiepoint, geo.pixelScale)
             ELSE createFromModelTransformation(geo.matrix)
  IN IF geo.rasterType = "PixelIsPoint" THEN compose(t, Half) ELSE t

\* The transform of an image of the file, which for an overview stretches that
\* of the full image over its own pixels.
ImageTransform(geo, full, image) ==
  IF image = full THEN createTransform(geo)
  ELSE compose(createTransform(geo), scale(full.w, image.w, full.h, image.h))

\* Corners of a pixel, or its centre.
Offsets == [center |-> <<1, 1>>, ul |-> <<0, 0>>, ur |-> <<2, 0>>, ll |-> <<0, 2>>, lr |-> <<2, 2>>]

xy(t, row, col, offset) ==
  apply(t, Point(2 * col + Offsets[offset][1], 2 * row + Offsets[offset][2], 2))

index(t, p) == LET at == apply(invert(t), p) IN <<at.y \div at.q, at.x \div at.q>>

-----------------------------------------------------------------------------
(* The tiles of a level.                                                   *)

AffineTilesetLevel(t, image) ==
  [affine |-> t, tileWidth |-> image.tw, tileHeight |-> image.th,
   matrixWidth |-> CeilDiv(image.w, image.tw), matrixHeight |-> CeilDiv(image.h, image.th)]

\* From the pixels of a tile to the CRS.
forwardTransform(level, col, row) ==
  compose(level.affine, translation(col * level.tileWidth, row * level.tileHeight))

projectedTileCorners(level, col, row) ==
  LET at(c, r) == apply(level.affine, Point(c * level.tileWidth, r * level.tileHeight, 1))
  IN [topLeft |-> at(col, row), topRight |-> at(col + 1, row),
      bottomLeft |-> at(col, row + 1), bottomRight |-> at(col + 1, row + 1)]

\* A tile matrix has one size of cell for both directions.
buildTileMatrix(t, image) ==
  [cellSize |-> t.a, bottomLeft |-> t.e > 0, origin |-> <<t.c, t.f>>, q |-> t.q,
   tileWidth |-> image.tw, tileHeight |-> image.th,
   matrixWidth |-> CeilDiv(image.w, image.tw), matrixHeight |-> CeilDiv(image.h, image.th)]

\* generateTileMatrixSet refuses files that are rotated, striped or without units.
Orthogonal(t) == t.b = 0 /\ t.d = 0

tileTransform(m, col, row) ==
  LET ySign == IF m.bottomLeft THEN 1 ELSE -1
  IN Affine(m.cellSize, 0, m.origin[1] + col * m.cellSize * m.tileWidth,
            0, ySign * m.cellSize, m.origin[2] + ySign * row * m.cellSize * m.tileHeight, m.q)

xy_bounds(m, col, row) ==
  LET t == tileTransform(m, col, row)
      first == apply(t, Point(0, 0, 1))
      last == apply(t, Point(m.tileWidth, m.tileHeight, 1))
  IN IF m.bottomLeft THEN [lowerLeft |-> first, upperRight |-> last]
     ELSE [lowerLeft |-> Point(first.x, last.y, m.q), upperRight |-> Point(last.x, first.y, m.q)]

\* The adaptor of a tile matrix names the corners for the directions of the CRS.
TileMatrixAdaptor(m, col, row) ==
  LET bounds == xy_bounds(m, col, row)
      low == bounds.lowerLeft
      high == bounds.upperRight
  IN [topLeft |-> Point(low.x, high.y, m.q), topRight |-> high,
      bottomLeft |-> low, bottomRight |-> Point(high.x, low.y, m.q)]

\* Both grids say the same of a tile of square pixels in a raster that is not
\* rotated and begins at its top.
GridsAgree(level, matrix, col, row) ==
  LET one == forwardTransform(level, col, row)
      other == tileTransform(matrix, col, row)
  IN /\ \A x \in {0, level.tileWidth}, y \in {0, level.tileHeight} :
          SamePoint(apply(one, Point(x, y, 1)), apply(other, Point(x, y, 1)))
     /\ \A corner \in {"topLeft", "topRight", "bottomLeft", "bottomRight"} :
          SamePoint(projectedTileCorners(level, col, row)[corner],
                    TileMatrixAdaptor(matrix, col, row)[corner])
=============================================================================
