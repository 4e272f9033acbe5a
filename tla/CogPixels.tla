------------------------------ MODULE CogPixels ------------------------------
(***************************************************************************)
(* From a file to the screen.  GeoTIFF.fromTiff sorts the images of a file *)
(* into levels and masks (geotiff.ts); the tile of a level is cut out of   *)
(* the file, decoded, clipped and joined (fetch.ts, decode.ts,             *)
(* predictor.ts, array.ts, assemble.ts); and the default pipeline of       *)
(* COGLayer turns it into a texture and a sequence of shader modules       *)
(* (render-pipeline.ts, gpu-modules), which a mesh over the tile is drawn  *)
(* with (raster-layer.ts).                                                 *)
(*                                                                         *)
(* A buffer or typed array is a function on 0..n-1.  Samples of a file and *)
(* of the machine have the same byte order, so a buffer of integers holds  *)
(* samples and one of floats holds bytes.  A colour is a fraction          *)
(* <<numerator, denominator>>.                                             *)
(***************************************************************************)
EXTENDS PixelPlaces
LOCAL INSTANCE SequencesExt

CONSTANTS
  Pictures,             \* the files that may be opened
  Content(_, _, _, _, _), \* Content(file, i, c, r, b): band b of pixel c, r of image i
  Valid(_, _, _),       \* Valid(i, c, r): whether mask i lets the pixel through
  Entry(_, _),          \* Entry(v, k): the 16-bit colour k of value v in the palette
  Domains(_)            \* the domain props a layer may have for a file

VARIABLES
  picture,  \* the file
  cog,      \* what was made of it when it was opened
  drawn     \* the last tile or block that was read

pictureVars == <<picture, cog, drawn>>

Failed == [failed |-> TRUE]
Nothing == [nothing |-> TRUE]

MinOf(a, b) == IF a <= b THEN a ELSE b
TypeMax(bits) == 2 ^ bits - 1

-----------------------------------------------------------------------------
(* What the writer of a TIFF puts into a tile: rows of the full width,     *)
(* zero beyond the image, differenced by the predictor; a mask of one bit  *)
(* packed with the first pixel in the highest bit.                         *)

Padded(i, c, r, b) ==
  IF c < picture.ifds[i].w /\ r < picture.ifds[i].h THEN Content(picture, i, c, r, b) ELSE 0

Masking(i, c, r) ==
  c < picture.ifds[i].w /\ r < picture.ifds[i].h /\ Valid(i, c, r)

\* Byte k of a float, the least first.
ByteOf(v, k) == (v \div 256 ^ k) % 256

\* Samples are unsigned integers unless a tag says otherwise.
FormatOf(file) == IF file.format = Absent THEN <<"uint">> ELSE file.format

Differenced(row, stride, modulus) ==
  [k \in DOMAIN row |-> IF k < stride THEN row[k] ELSE (row[k] - row[k - stride]) % modulus]

Row(buffer, i, length) == [k \in 0..(length - 1) |-> buffer[i * length + k]]

\* The bytes of a row of samples as they are, and plane by plane, the highest first.
BytesOf(samples, n) == [k \in 0..(4 * n - 1) |-> ByteOf(samples[k \div 4], k % 4)]
PlanesOf(samples, n) == [k \in 0..(4 * n - 1) |-> ByteOf(samples[k % n], 3 - (k \div n))]

\* Eight bits of the function to a byte.
Packed(bits, count) ==
  [j \in 0..(count \div 8 - 1) |->
     LET byte[k \in 0..8] == IF k = 0 THEN 0 ELSE 2 * byte[k - 1] + bits[8 * j + k - 1] IN byte[8]]

WrittenRow(samples, n, stride, format, bits, predictor) ==
  CASE predictor = "FloatingPoint" -> Differenced(PlanesOf(samples, n), stride, 256)
    [] predictor = "Horizontal" -> Differenced(samples, stride, 2 ^ bits)
    [] OTHER -> IF format = "float" THEN BytesOf(samples, n)
                ELSE IF bits = 1 THEN Packed(samples, n) ELSE samples

\* The uncompressed bytes of tile x, y of image i with the given bands.
Written(i, x, y, bands) ==
  LET ifd == picture.ifds[i]
      n == Len(bands) * ifd.tw
      format == FormatOf(picture)[1]
      length == IF format = "float" THEN 4 * n ELSE IF picture.bits[1] = 1 THEN n \div 8 ELSE n
      samples(r) == [k \in 0..(n - 1) |->
        Padded(i, x * ifd.tw + (k \div Len(bands)), y * ifd.th + r, bands[(k % Len(bands)) + 1])]
      rows == [r \in 0..(ifd.th - 1) |->
        WrittenRow(samples(r), n, Len(bands), format, picture.bits[1], ifd.predictor)]
  IN [k \in 0..(length * ifd.th - 1) |-> rows[k \div length][k % length]]

WrittenMask(i, x, y) ==
  LET ifd == picture.ifds[i]
      valid(k) == Masking(i, x * ifd.tw + (k % ifd.tw), y * ifd.th + (k \div ifd.tw))
      bit(k) == IF valid(k) THEN 1 ELSE 0
  IN IF ifd.bits = 1 THEN Packed([k \in 0..(ifd.tw * ifd.th - 1) |-> bit(k)], ifd.tw * ifd.th)
     ELSE [k \in 0..(ifd.tw * ifd.th - 1) |-> 255 * bit(k)]

-----------------------------------------------------------------------------
(* predictor.ts and decode.ts                                              *)

\* Each sample is added to the one stride before it.
decodeRowAcc(row, stride, modulus) ==
  LET acc[k \in DOMAIN row] == IF k < stride THEN row[k] ELSE (acc[k - stride] + row[k]) % modulus
  IN [k \in DOMAIN row |-> acc[k]]

decodeRowFloatingPoint(row, stride, wc) ==
  LET copy == decodeRowAcc(row, stride, 256)
  IN [k \in DOMAIN row |-> copy[(3 - (k % 4)) * wc + (k \div 4)]]

\* meta: format, bits, n bands in the buffer, width and height of the tile,
\* predictor.
applyPredictor(buffer, meta) ==
  LET wc == meta.n * meta.w
      length == IF meta.format = "float" THEN 4 * wc ELSE wc
      row(i) == CASE meta.predictor = "Horizontal" ->
                       decodeRowAcc(Row(buffer, i, length), meta.n, 2 ^ meta.bits)
                  [] meta.predictor = "FloatingPoint" ->
                       decodeRowFloatingPoint(Row(buffer, i, length), meta.n, wc)
      rows == [i \in 0..(meta.h - 1) |-> row(i)]
  IN IF meta.predictor = "None" THEN buffer
     ELSE [k \in DOMAIN buffer |-> rows[k \div length][k % length]]

\* One bit per pixel, the first in the highest bit of its byte, becomes 0 or 255.
unpackBitPacked(buffer, count) ==
  [i \in 0..(count - 1) |-> 255 * ((buffer[i \div 8] \div 2 ^ (7 - (i % 8))) % 2)]

\* The formats and depths of which toTypedArray makes an array, and the depths
\* predictor 2 takes.
Decodable(meta) ==
  /\ <<meta.format, meta.bits>> \in
       ({"uint"} \X {1, 8, 16, 32}) \cup ({"int"} \X {8, 16, 32}) \cup ({"float"} \X {32, 64})
  /\ meta.predictor = "Horizontal" => meta.bits \in {8, 16, 32}

toTypedArray(buffer, meta) ==
  CASE meta.format = "float" ->
         [i \in 0..(meta.n * meta.w * meta.h - 1) |-> [k \in 0..3 |-> buffer[4 * i + k]]]
    [] meta.bits = 1 -> unpackBitPacked(buffer, meta.n * meta.w * meta.h)
    [] OTHER -> buffer

decode(buffer, meta) == toTypedArray(applyPredictor(buffer, meta), meta)

-----------------------------------------------------------------------------
(* fetch.ts: a level is the index of its image and of its mask, if any.    *)

Across(ifd) == CeilDiv(ifd.w, ifd.tw)
Down(ifd) == CeilDiv(ifd.h, ifd.th)

\* getTile: an index beyond the last tile is refused.
InRange(ifd, x, y) == x < Across(ifd) /\ y < Down(ifd)

\* getBytes: a tile of no bytes is not in the file.
Stored(ifd, x, y) == <<x, y>> \notin ifd.sparse

\* getUniqueSampleFormat: all bands alike.
Unique(values) == values # <<>> /\ Cardinality(ToSet(values)) = 1

Meta(lvl, n) ==
  [format |-> cog.tags.format[1], bits |-> cog.tags.bits[1], n |-> n,
   w |-> picture.ifds[lvl.image].tw, h |-> picture.ifds[lvl.image].th, predictor |-> cog.tags.predictor]

MaskMeta(ifd) ==
  [format |-> "uint", bits |-> ifd.bits, n |-> 1, w |-> ifd.tw, h |-> ifd.th, predictor |-> "None"]

\* The entry of the file's table of tiles that holds band b of tile x, y of a
\* file with bands stored apart; no range is checked.
BandTile(ifd, x, y, b) ==
  LET idx == b * Across(ifd) * Down(ifd) + y * Across(ifd) + x
      within == idx % (Across(ifd) * Down(ifd))
  IN [band |-> idx \div (Across(ifd) * Down(ifd)), x |-> within % Across(ifd), y |-> within \div Across(ifd)]

Bands == [b \in 1..cog.tags.samples |-> b - 1]

\* Whether fetchCogBytes and the fetch of the mask bring all the bytes.
Fetched(lvl, x, y) ==
  LET ifd == picture.ifds[lvl.image]
  IN /\ cog.tags.planar \in {"Contig", "Separate"}
     /\ cog.tags.planar = "Contig" => InRange(ifd, x, y) /\ Stored(ifd, x, y)
     /\ cog.tags.planar = "Separate" => \A b \in ToSet(Bands) :
          LET t == BandTile(ifd, x, y, b) IN t.band < cog.tags.samples /\ Stored(ifd, t.x, t.y)
     /\ lvl.mask # Absent => InRange(picture.ifds[lvl.mask], x, y)

decodeTile(lvl, x, y) ==
  LET ifd == picture.ifds[lvl.image]
      band(b) == LET t == BandTile(ifd, x, y, b) IN Written(lvl.image, t.x, t.y, <<t.band>>)
  IN IF cog.tags.planar = "Separate"
       THEN [layout |-> "band-separate",
             bands |-> [k \in DOMAIN Bands |-> decode(band(Bands[k]), Meta(lvl, 1))]]
       ELSE [layout |-> "pixel-interleaved",
             data |-> decode(Written(lvl.image, x, y, Bands), Meta(lvl, Len(Bands)))]

\* A tile the mask has no bytes for has no mask.
decodeMask(lvl, x, y) ==
  IF lvl.mask = Absent THEN Absent
  ELSE LET ifd == picture.ifds[lvl.mask]
       IN IF ~Stored(ifd, x, y) THEN Absent
          ELSE decode(WrittenMask(lvl.mask, x, y), MaskMeta(ifd))

\* Mutant of clipRows: rows are read as if they had the clipped width.
clipRows_OneStride(src, tileWidth, width, height, n) ==
  [k \in 0..(width * n * height - 1) |-> src[k]]

clipRows(src, tileWidth, width, height, n) ==
  [k \in 0..(width * n * height - 1) |->
     src[(k \div (width * n)) * tileWidth * n + (k % (width * n))]]

clipToImageBounds(ifd, x, y, array) ==
  LET w == MinOf(ifd.tw, ifd.w - x * ifd.tw)
      h == MinOf(ifd.th, ifd.h - y * ifd.th)
      clip(src, n) == clipRows(src, ifd.tw, w, h, n)
      mask == IF array.mask = Absent THEN Absent ELSE clip(array.mask, 1)
      clipped == [array EXCEPT !.w = w, !.h = h, !.mask = mask]
  IN IF w = ifd.tw /\ h = ifd.th THEN array
     ELSE IF array.pixels.layout = "pixel-interleaved"
       THEN [clipped EXCEPT !.pixels.data = clip(@, array.count)]
       ELSE [clipped EXCEPT !.pixels.bands = [k \in DOMAIN @ |-> clip(@[k], 1)]]

LevelTransform(lvl) ==
  ImageTransform(picture.geo, picture.ifds[1], picture.ifds[lvl.image])

\* fetchTile, for one tile, and fetchTiles, for each of its tiles.
fetchTile(lvl, x, y, boundless) ==
  LET ifd == picture.ifds[lvl.image]
      array == [pixels |-> decodeTile(lvl, x, y), mask |-> decodeMask(lvl, x, y),
                count |-> cog.tags.samples, w |-> ifd.tw, h |-> ifd.th,
                transform |-> compose(LevelTransform(lvl), translation(x * ifd.tw, y * ifd.th))]
  IN IF \/ ~Fetched(lvl, x, y) \/ ~HasTransform(picture.geo)
        \/ ~Unique(cog.tags.bits) \/ ~Unique(cog.tags.format) \/ ~Decodable(Meta(lvl, 1))
       THEN Failed
     ELSE IF boundless THEN array ELSE clipToImageBounds(ifd, x, y, array)

-----------------------------------------------------------------------------
(* array.ts and assemble.ts                                                *)

toPixelInterleaved(array) ==
  IF array.pixels.layout = "pixel-interleaved" THEN array
  ELSE [array EXCEPT !.pixels = [layout |-> "pixel-interleaved",
          data |-> [k \in 0..(array.count * array.w * array.h - 1) |->
                      array.pixels.bands[(k % array.count) + 1][k \div array.count]]]]

\* copyRows of all tiles, seen from a pixel of the block: the tile it falls in
\* and its place there.
FromTile(tiles, block, k, n) ==
  LET pixel == k \div n
      c == pixel % block.w
      r == pixel \div block.w
  IN [tile |-> tiles[<<block.minCol + (c \div block.tw), block.minRow + (r \div block.th)>>],
      at   |-> ((r % block.th) * block.tw + (c % block.tw)) * n + (k % n)]

\* assembleTiles: a tile without a mask counts as valid where another has one.
assembleTiles(tiles, block) ==
  LET n == block.count
      topLeft == tiles[<<block.minCol, block.minRow>>]
      size == block.w * block.h
      data(m, of(_)) == [k \in 0..(m * size - 1) |->
        LET from == FromTile(tiles, block, k, m) IN of(from.tile)[from.at]]
      maskOf(t) == IF t.mask = Absent THEN [k \in 0..(t.w * t.h - 1) |-> 255] ELSE t.mask
  IN [topLeft EXCEPT
        !.w = block.w, !.h = block.h,
        !.mask = IF \A xy0 \in DOMAIN tiles : tiles[xy0].mask = Absent THEN Absent
                 ELSE data(1, maskOf),
        !.pixels = IF @.layout = "pixel-interleaved"
          THEN [@ EXCEPT !.data = data(n, LAMBDA t : t.pixels.data)]
          ELSE [@ EXCEPT !.bands = [b \in 1..n |-> data(1, LAMBDA t : t.pixels.bands[b])]]]

-----------------------------------------------------------------------------
(* geotiff.ts: opening a file.                                             *)

isMaskIfd(ifd) == ifd.subfile = "mask" /\ ifd.photometric = "Mask"

Size(ifd) == <<ifd.w, ifd.h>>
Others == DOMAIN picture.ifds \ {1}
MaskIfds == {i \in Others : isMaskIfd(picture.ifds[i])}
DataIfds == Others \ MaskIfds

\* A map by size keeps the last image of a size, at the place of the first.
LastOfSize(ifds, size) ==
  LET same == {i \in ifds : Size(picture.ifds[i]) = size}
  IN IF same = {} THEN Absent ELSE CHOOSE i \in same : \A k \in same : k <= i
FirstOfSize(ifds, size) ==
  CHOOSE i \in ifds : /\ Size(picture.ifds[i]) = size
                      /\ \A k \in ifds : Size(picture.ifds[k]) = size => i <= k

MaskOf(i) == LastOfSize(MaskIfds, Size(picture.ifds[i]))

\* Finest first, by the number of pixels; equals in the order of the file.
Overviews ==
  LET kept == {LastOfSize(DataIfds, Size(picture.ifds[i])) : i \in DataIfds}
      pixels(i) == picture.ifds[i].w * picture.ifds[i].h
      first(i) == FirstOfSize(DataIfds, Size(picture.ifds[i]))
  IN SetToSortSeq(kept, LAMBDA a, b :
       pixels(a) > pixels(b) \/ (pixels(a) = pixels(b) /\ first(a) < first(b)))

\* prefetchTags: tags that must be there, and defaults for those that may not.
Tagged == Absent \notin {picture.bits, picture.samples, picture.photometric}

Tags ==
  [bits |-> picture.bits, samples |-> picture.samples, photometric |-> picture.photometric,
   format |-> FormatOf(picture), nodata |-> picture.nodata, colorMap |-> picture.colorMap,
   planar |-> IF picture.planar = Absent THEN "Contig" ELSE picture.planar,
   predictor |-> picture.ifds[1].predictor]

Mod(name) == [module |-> name]

\* photometricInterpretationToRGB: three and four bands are taken for RGB.
Convertible(tags) ==
  \/ tags.samples \in {3, 4}
  \/ tags.photometric \in {"MinIsWhite", "MinIsBlack", "Rgb", "Separated", "Ycbcr", "Cielab"}
  \/ tags.photometric = "Palette" /\ tags.colorMap
toRGB(tags) ==
  IF tags.samples \in {3, 4} THEN <<>>
  ELSE CASE tags.photometric = "MinIsWhite" -> <<Mod("WhiteIsZero")>>
         [] tags.photometric = "MinIsBlack" -> <<Mod("BlackIsZero")>>
         [] tags.photometric = "Palette" -> <<Mod("Colormap")>>
         [] tags.photometric = "Separated" -> <<Mod("CMYKToRGB")>>
         [] tags.photometric = "Cielab" -> <<Mod("cieLabToRGB")>>
         [] OTHER -> <<>>

\* inferRenderPipeline and createUnormPipeline: the modules a tile is drawn with.
Pipeline(tags) ==
  IF tags.format[1] # "uint" \/ ~Convertible(tags) THEN Failed
  ELSE [modules |-> <<Mod("CreateTexture")>>
          \o (IF tags.nodata = Absent THEN <<>> ELSE <<Mod("FilterNoDataVal")>>)
          \o (IF MaskOf(1) = Absent THEN <<>> ELSE <<Mod("MaskTexture")>>)
          \o toRGB(tags)]

\* GeoTIFF.fromTiff, and what COGLayer infers from it.
OpenFile ==
  /\ cog = Nothing
  /\ cog' = IF ~Tagged THEN Failed
            ELSE [levels |-> [k \in 1..(Len(Overviews) + 1) |->
                    LET i == (<<1>> \o Overviews)[k] IN [image |-> i, mask |-> MaskOf(i)]],
                  tags |-> Tags, pipeline |-> Pipeline(Tags)]
  /\ UNCHANGED <<picture, drawn>>

\* geoTiffToDescriptor and generateTileMatrixSet: the images coarsest first, in
\* two grids.  The second is refused for a full image that is rotated.
ImageOf(z) == cog.levels[Len(cog.levels) - z]
Zs == 0..(Len(cog.levels) - 1)
geoTiffToDescriptor(z) ==
  AffineTilesetLevel(LevelTransform(ImageOf(z)), picture.ifds[ImageOf(z).image])
generateTileMatrixSet(z) ==
  IF Orthogonal(createTransform(picture.geo))
    THEN buildTileMatrix(LevelTransform(ImageOf(z)), picture.ifds[ImageOf(z).image])
    ELSE Failed

-----------------------------------------------------------------------------
(* render-pipeline.ts, texture.ts and the shader modules.                  *)

\* The formats there are for a number of channels, a kind of scalar and a width.
FORMAT_TABLE ==
  ({1, 2, 4} \X {"sint", "uint", "unorm"} \X {8, 16}) \cup ({1, 2, 4} \X {"float"} \X {16})
  \cup ({1, 2, 4} \X {"sint", "uint", "float"} \X {32})
  \cup {<<3, "uint", 16>>, <<3, "float", 32>>}

\* Throws for a format that is not in the table.
inferTextureFormat(samples, bits) == <<samples, "unorm", bits>> \in FORMAT_TABLE

\* A texture of three channels gets a fourth, opaque one.
addAlphaChannel(data, n, max) ==
  IF n # 3 THEN data
  ELSE [k \in 0..(4 * (Cardinality(DOMAIN data) \div 3) - 1) |->
          IF k % 4 = 3 THEN max ELSE data[3 * (k \div 4) + (k % 4)]]

Channels(n) == IF n = 3 THEN 4 ELSE n

\* getTileData: the textures of a tile.
getTileData(z, x, y) ==
  LET tags == cog.tags
      array == fetchTile(ImageOf(z), x, y, FALSE)
      whole == toPixelInterleaved(array)
  IN IF array = Failed \/ ~inferTextureFormat(Channels(tags.samples), tags.bits[1]) THEN Failed
     ELSE [texture |-> addAlphaChannel(whole.pixels.data, tags.samples, TypeMax(tags.bits[1])),
           channels |-> Channels(tags.samples), mask |-> whole.mask, w |-> whole.w, h |-> whole.h]

\* A texel; channels the texture has not are 0, and 1 for the last.
Texel(data, i) ==
  LET max == TypeMax(cog.tags.bits[1])
  IN [k \in 0..3 |-> IF k < data.channels THEN <<data.texture[i * data.channels + k], max>>
                     ELSE IF k = 3 THEN <<max, max>> ELSE <<0, max>>]

\* A fragment has four channels or is discarded.
Blank == [k \in 0..3 |-> <<0, 1>>]
Discarded == [k \in {} |-> Blank]

Rgb(f(_), color) == [k \in 0..3 |-> IF k = 3 THEN color[k] ELSE f(color[k])]
Between(n, d) == <<IF n < 0 THEN 0 ELSE MinOf(n, d), d>>

FilterNoDataVal(color) == IF color[0][1] = cog.tags.nodata THEN Discarded ELSE color

\* Without a texture the sampler reads what happens to be bound.
MaskTexture(data, i, bound, color) ==
  IF (IF data.mask = Absent THEN bound ELSE data.mask[i]) = 0 THEN Discarded ELSE color

WhiteIsZero(color) == Rgb(LAMBDA v : <<color[0][2] - color[0][1], color[0][2]>>, color)
BlackIsZero(color) == Rgb(LAMBDA v : color[0], color)

\* The upper half of the 16 bits of each colour, opaque.
parseColormap(entry) == [k \in 0..3 |-> <<IF k = 3 THEN 255 ELSE Entry(entry, k) \div 256, 255>>]

\* The texel nearest to the value.
Colormap(v) == parseColormap(MinOf((v[1] * (v[2] + 1)) \div v[2], v[2]))

\* From [min, max] of the range of the samples to [0, 1].
LinearRescale(min, max, color) ==
  LET typeMax == TypeMax(cog.tags.bits[1])
  IN Rgb(LAMBDA v : Between(v[1] * typeMax - min * v[2], (max - min) * v[2]), color)

\* One module on the colour of texel i.  (CMYKToRGB and cieLabToRGB are reached
\* with one or two bands only, which such colours do not have.)
Shaded(data, i, bound, color, m) ==
  CASE color = Discarded -> Discarded
    [] m.module = "CreateTexture" -> Texel(data, i)
    [] m.module = "FilterNoDataVal" -> FilterNoDataVal(color)
    [] m.module = "MaskTexture" -> MaskTexture(data, i, bound, color)
    [] m.module = "WhiteIsZero" -> WhiteIsZero(color)
    [] m.module = "BlackIsZero" -> BlackIsZero(color)
    [] m.module = "Colormap" -> Colormap(color[0])
    [] m.module = "LinearRescale" -> LinearRescale(m.min, m.max, color)

\* COGLayer._renderTileCallback: a domain that is not the whole range is one
\* more module.
renderTile(domain) ==
  LET max == TypeMax(cog.tags.bits[1])
  IN IF domain = Absent \/ domain = <<0, max>> THEN cog.pipeline.modules
     ELSE Append(cog.pipeline.modules, [module |-> "LinearRescale", min |-> domain[1], max |-> domain[2]])

\* A tile of level z is read and drawn.  A read leaves nothing behind that
\* another would see: it is enough to follow one.
DrawTile(z, x, y, domain, bound) ==
  /\ cog \notin {Nothing, Failed} /\ drawn = Nothing
  /\ cog.pipeline # Failed /\ HasTransform(picture.geo)
  /\ z \in Zs
  /\ x < geoTiffToDescriptor(z).matrixWidth /\ y < geoTiffToDescriptor(z).matrixHeight
  /\ \E data \in {getTileData(z, x, y)} :
       LET modules == renderTile(domain)
           color(i) ==
             LET after[m \in 0..Len(modules)] ==
                   IF m = 0 THEN Blank ELSE Shaded(data, i, bound, after[m - 1], modules[m])
             IN after[Len(modules)]
       IN drawn' = IF data = Failed THEN Failed
                   ELSE [kind |-> "tile", z |-> z, x |-> x, y |-> y, domain |-> domain,
                         w |-> data.w, h |-> data.h, masked |-> data.mask # Absent,
                         colors |-> [i \in 0..(data.w * data.h - 1) |-> color(i)]]
  /\ UNCHANGED <<picture, cog>>

\* The mesh of a RasterLayer is made for one column and row more than there are
\* pixels, so that texture coordinates from 0 to 1 run over all of them.
_generateMesh(width, height, uv) ==
  LET columns == width + 1
      rows == height + 1
  IN Point(uv.x * (columns - 1), uv.y * (rows - 1), uv.q)

\* RasterTileLayer puts the mesh of the data of a tile through the transform of
\* that tile: the place of the centre of a texel.
PlaceOf(c, r) ==
  LET centre == Point((2 * c + 1) * drawn.h, (2 * r + 1) * drawn.w, 2 * drawn.w * drawn.h)
  IN apply(forwardTransform(geoTiffToDescriptor(drawn.z), drawn.x, drawn.y),
           _generateMesh(drawn.w, drawn.h, centre))

\* The block of tiles minCol..maxCol, minRow..maxRow of level z is read and
\* assembled, for a band of a MultiCOGLayer or a caller of the library.
ReadBlock(z, minCol, maxCol, minRow, maxRow) ==
  /\ cog \notin {Nothing, Failed} /\ drawn = Nothing
  /\ z \in Zs
  /\ LET ifd == picture.ifds[ImageOf(z).image]
         tiles == [at \in (minCol..maxCol) \X (minRow..maxRow) |-> fetchTile(ImageOf(z), at[1], at[2], TRUE)]
         block == [w |-> (maxCol - minCol + 1) * ifd.tw, h |-> (maxRow - minRow + 1) * ifd.th,
                   tw |-> ifd.tw, th |-> ifd.th, minCol |-> minCol, minRow |-> minRow,
                   count |-> cog.tags.samples]
     IN /\ minCol <= maxCol /\ minRow <= maxRow
        /\ maxCol < Across(ifd) /\ maxRow < Down(ifd)
        /\ drawn' = IF \E at \in DOMAIN tiles : tiles[at] = Failed THEN Failed
                    ELSE [kind |-> "block", z |-> z, x |-> minCol, y |-> minRow,
                          array |-> assembleTiles(tiles, block)]
  /\ UNCHANGED <<picture, cog>>

PicturesInit ==
  /\ picture \in Pictures
  /\ cog = Nothing
  /\ drawn = Nothing

PicturesNext ==
  \/ OpenFile
  \/ \E z, x, y \in 0..2, domain \in Domains(picture), bound \in {0, 1} : DrawTile(z, x, y, domain, bound)
  \/ \E z, minCol, maxCol, minRow, maxRow \in 0..2 : ReadBlock(z, minCol, maxCol, minRow, maxRow)

-----------------------------------------------------------------------------
PicturesTypeOK ==
  /\ picture \in Pictures
  /\ cog \notin {Nothing, Failed} => cog.levels[1].image = 1
  /\ drawn \notin {Nothing, Failed} => drawn.z \in Zs

\* The masks of image i: those of its size.
Masks(i) == {m \in MaskIfds : Size(picture.ifds[m]) = Size(picture.ifds[i])}

\* The files the code is for: overviews written as the full image is, for their
\* own tags are not read (overview.ts:40), and with masks where it has one
\* (render-pipeline.ts:120), one per size, cut as their image is; tied at their
\* first pixel (transform.ts:40).
Regular ==
  /\ \A i \in DataIfds :
       /\ picture.ifds[i].predictor = picture.ifds[1].predictor
       /\ Masks(i) = {} <=> Masks(1) = {}
  /\ \A i \in {1} \cup DataIfds :
       /\ Cardinality(Masks(i)) <= 1
       /\ \A m \in Masks(i) : /\ picture.ifds[m].tw = picture.ifds[i].tw
                              /\ picture.ifds[m].th = picture.ifds[i].th

SameColor(one, other) ==
  IF Discarded \in {one, other} THEN one = other
  ELSE \A k \in 0..3 : IF one[k][2] = other[k][2] THEN one[k] = other[k]
                      ELSE one[k][1] * other[k][2] = other[k][1] * one[k][2]

\* What the file means by pixel c, r of image i: nothing where its mask or the
\* value for no data says so, or a colour.
Means(i, c, r, domain) ==
  LET max == TypeMax(picture.bits[1])
      v(b) == Content(picture, i, c, r, b)
      stretched(n) == IF domain \in {Absent, <<0, max>>} THEN <<n, max>>
                      ELSE Between(n - domain[1], domain[2] - domain[1])
      grey(n) == [k \in 0..3 |-> IF k = 3 THEN <<max, max>> ELSE stretched(n)]
      color(k) == IF k < picture.samples THEN v(k) ELSE max
  IN IF v(0) = picture.nodata \/ \E m \in Masks(i) : ~Valid(m, c, r) THEN Discarded
     ELSE CASE picture.samples > 2 ->
                 [k \in 0..3 |-> IF k < 3 THEN stretched(v(k)) ELSE <<color(k), max>>]
            [] picture.samples < 3 /\ picture.photometric = "MinIsBlack" -> grey(v(0))
            [] picture.samples < 3 /\ picture.photometric = "MinIsWhite" -> grey(max - v(0))
            [] picture.samples < 3 /\ picture.photometric = "Palette" ->
                 [k \in 0..3 |-> <<IF k = 3 THEN 255 ELSE Entry(v(0), k) \div 256, 255>>]

\* Where the file puts the centre of pixel c, r of image i: at is that place in
\* the pixels of the full image.
Lies(i, c, r) ==
  LET full == picture.ifds[1]
      ifd == picture.ifds[i]
      geo == picture.geo
      half == IF geo.rasterType = "PixelIsPoint" THEN 1 ELSE 0
      at == Point(((2 * c + 1) * full.w - half * ifd.w) * ifd.h,
                  ((2 * r + 1) * full.h - half * ifd.h) * ifd.w, 2 * ifd.w * ifd.h)
  IN IF geo.tiepoint # Absent
       THEN Point(geo.tiepoint[1] * at.q + geo.pixelScale[1] * at.x,
                  geo.tiepoint[2] * at.q - geo.pixelScale[2] * at.y, at.q)
       ELSE Point(geo.matrix[1] * at.x + geo.matrix[2] * at.y + geo.matrix[3] * at.q,
                  geo.matrix[4] * at.x + geo.matrix[5] * at.y + geo.matrix[6] * at.q, at.q)

\* A tile shows each pixel of the image with the colour and at the place the
\* file gives it, and no pixel besides; only where the file lacks the mask of
\* the tile the colour is open.
TileIsTrue ==
  LET i == ImageOf(drawn.z).image
      ifd == picture.ifds[i]
      col(k) == drawn.x * ifd.tw + (k % drawn.w)
      row(k) == drawn.y * ifd.th + (k \div drawn.w)
  IN /\ drawn.w = MinOf(ifd.tw, ifd.w - drawn.x * ifd.tw)
     /\ drawn.h = MinOf(ifd.th, ifd.h - drawn.y * ifd.th)
     /\ \A k \in DOMAIN drawn.colors :
          /\ drawn.masked \/ Masks(i) = {} =>
               SameColor(drawn.colors[k], Means(i, col(k), row(k), drawn.domain))
          /\ SamePoint(PlaceOf(k % drawn.w, k \div drawn.w), Lies(i, col(k), row(k)))

\* A block holds the samples of its pixels, and of its mask, where the file has
\* them, in their places, and zero beyond the image.
BlockIsTrue ==
  LET array == toPixelInterleaved(drawn.array)
      i == ImageOf(drawn.z).image
      ifd == picture.ifds[i]
      n == array.count
      col(k) == drawn.x * ifd.tw + (k % array.w)
      row(k) == drawn.y * ifd.th + (k \div array.w)
      sample(k, b) == Padded(i, col(k), row(k), b)
      read(k, b) == array.pixels.data[n * k + b]
  IN \A k \in 0..(array.w * array.h - 1) :
       /\ \A b \in 0..(n - 1) :
            CASE FormatOf(picture)[1] = "float" -> \A j \in 0..3 : read(k, b)[j] = ByteOf(sample(k, b), j)
              [] picture.bits[1] = 1 -> read(k, b) = 255 * sample(k, b)
              [] OTHER -> read(k, b) = sample(k, b)
       /\ \A m \in Masks(i) :
            LET stored == Stored(picture.ifds[m], col(k) \div ifd.tw, row(k) \div ifd.th)
            IN array.mask # Absent => (array.mask[k] # 0 <=> ~stored \/ Masking(m, col(k), row(k)))
       /\ SamePoint(apply(array.transform, Point(2 * (k % array.w) + 1, 2 * (k \div array.w) + 1, 2)),
                    Lies(i, col(k), row(k)))

\* The pixel of a place is found again from any point of it, and both ways to lay
\* tiles over an image agree where both can.
PlacesAgree ==
  \A z \in Zs :
    LET ifd == picture.ifds[ImageOf(z).image]
        t == LevelTransform(ImageOf(z))
    IN /\ \A c \in 0..(ifd.w - 1), r \in 0..(ifd.h - 1) :
            /\ index(t, xy(t, r, c, "center")) = <<r, c>>
            /\ index(t, xy(t, r, c, "ul")) = <<r, c>>
            /\ SamePoint(xy(t, r, c, "lr"), xy(t, r + 1, c + 1, "ul"))
            /\ SamePoint(xy(t, r, c, "ur"), xy(t, r, c + 1, "ul"))
            /\ SamePoint(xy(t, r, c, "ll"), xy(t, r + 1, c, "ul"))
       /\ generateTileMatrixSet(z) # Failed /\ t.a = -t.e =>
            \A col \in 0..(Across(ifd) - 1), row \in 0..(Down(ifd) - 1) :
              GridsAgree(geoTiffToDescriptor(z), generateTileMatrixSet(z), col, row)

\* geotiff.ts:186 and render-pipeline.ts:80: through the choice of levels and
\* masks, decoding, clipping, joining and shading, and through the transforms of
\* the file, its overviews and its tiles, each pixel keeps its colour and place.
PicturesAreTrue ==
  /\ PicturesTypeOK
  /\ cog \notin {Nothing, Failed} /\ drawn = Nothing /\ Regular /\ HasTransform(picture.geo) => PlacesAgree
  /\ drawn \notin {Nothing, Failed} /\ Regular =>
       IF drawn.kind = "tile" THEN TileIsTrue ELSE BlockIsTrue
=============================================================================
