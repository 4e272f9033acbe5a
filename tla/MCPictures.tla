------------------------------ MODULE MCPictures ------------------------------
(***************************************************************************)
(* The files that CogPixels is checked with: small images whose last tiles *)
(* are cut on both sides, in each way of storing pixels the code knows,    *)
(* with overviews that halve them, round up, or keep one side.             *)
(***************************************************************************)
EXTENDS CogPixels, TLC

\* Tiles of 8 by 2, so that a row of a mask fills whole bytes.
Ifd(w, h, subfile, bits) ==
  [w |-> w, h |-> h, tw |-> 8, th |-> 2, subfile |-> subfile,
   photometric |-> IF subfile = "mask" THEN "Mask" ELSE "MinIsBlack",
   bits |-> bits, predictor |-> "None", sparse |-> {}]

Image(w, h) == Ifd(w, h, "reduced", 8)
Mask(w, h) == Ifd(w, h, "mask", 1)
MaskBytes(w, h) == Ifd(w, h, "mask", 8)
Without(ifd, tiles) == [ifd EXCEPT !.sparse = tiles]

Tied(rasterType) ==
  [tiepoint |-> <<100, 50>>, pixelScale |-> <<3, 2>>, matrix |-> Absent, rasterType |-> rasterType]
Square == [Tied("PixelIsArea") EXCEPT !.pixelScale = <<2, 2>>]
ByMatrix(m) ==
  [tiepoint |-> Absent, pixelScale |-> Absent, matrix |-> m, rasterType |-> "PixelIsArea"]
Rotated == ByMatrix(<<2, 1, 100, 1, -3, 50>>)
SouthUp == ByMatrix(<<2, 0, 100, 0, 3, -50>>)
Nowhere == [Rotated EXCEPT !.matrix = Absent]

\* Grey, 8 bits, one image of ten by three.
Grey ==
  [name |-> "grey", ifds |-> <<Image(10, 3)>>, bits |-> <<8>>, samples |-> 1,
   photometric |-> "MinIsBlack", format |-> Absent, planar |-> Absent, nodata |-> 7,
   colorMap |-> FALSE, geo |-> Tied("PixelIsArea")]

Times(n, v) == [k \in 1..n |-> v]
Banded(file, n, bits) ==
  [file EXCEPT !.samples = n, !.bits = Times(n, bits), !.format = Times(n, "uint"),
               !.photometric = IF n > 2 THEN "Rgb" ELSE @]
Predicted(file, predictor) ==
  [file EXCEPT !.ifds = [k \in DOMAIN @ |->
     IF @[k].subfile = "mask" THEN @[k] ELSE [@[k] EXCEPT !.predictor = predictor]]]

Levels == <<Image(10, 3), Image(5, 2), Image(3, 1)>>
WithMasks == <<Image(10, 3), Mask(10, 3), Image(5, 2), Mask(5, 2)>>

Pictures0 ==
  {Grey,
   [Grey EXCEPT !.ifds = <<Image(10, 3), Image(3, 1), Image(5, 2)>>, !.geo = Tied("PixelIsPoint")],
   [Grey EXCEPT !.ifds = Levels, !.photometric = "MinIsWhite", !.geo = Square],
   [Grey EXCEPT !.photometric = "Palette", !.colorMap = TRUE, !.geo = SouthUp],
   [Grey EXCEPT !.photometric = "Palette"],
   [Grey EXCEPT !.samples = Absent],
   [Grey EXCEPT !.geo = Nowhere],
   [Grey EXCEPT !.ifds = <<[Image(10, 3) EXCEPT !.sparse = {<<1, 0>>}]>>],
   \* The same size twice: the later of the two is the overview.
   [Grey EXCEPT !.ifds = <<Image(10, 3), Image(5, 2), Image(5, 2), Mask(10, 3), Mask(5, 2)>>],
   [Banded(Grey, 1, 1) EXCEPT !.nodata = Absent],
   Banded(Grey, 2, 16),
   Predicted([Banded(Grey, 3, 8) EXCEPT !.ifds = WithMasks], "Horizontal"),
   [Banded(Grey, 3, 8) EXCEPT !.planar = "Separate", !.geo = Rotated,
      !.ifds = <<Image(10, 3), MaskBytes(10, 3)>>],
   [Predicted(Banded(Grey, 4, 16), "Horizontal") EXCEPT !.planar = "Contig", !.geo = Rotated],
   Predicted([Banded(Grey, 2, 8) EXCEPT !.planar = "Separate", !.ifds = Levels], "Horizontal"),
   \* One tile of the mask, or of the second band, is not in the file.
   [Grey EXCEPT !.ifds = <<Image(10, 3), Without(Mask(10, 3), {<<1, 0>>})>>],
   [Banded(Grey, 2, 8) EXCEPT !.bits = <<8, 16>>],
   [Predicted(Banded(Grey, 2, 32), "FloatingPoint") EXCEPT !.format = <<"float", "float">>],
   [Banded(Grey, 1, 32) EXCEPT !.format = <<"float">>, !.planar = "Contig"]}

\* Values that grow along rows and columns and differ between bands and images.
Content0(file, image, c, r, b) ==
  LET v == 7 + 29 * c + 41 * r + 83 * b + 11 * (image - 1)
  IN IF file.format # Absent /\ file.format[1] = "float" THEN 70001 * v
     ELSE (IF file.bits[1] = 16 THEN 257 * v ELSE v) % 2 ^ file.bits[1]

Valid0(image, c, r) == (c + 2 * r + image) % 3 # 0
Entry0(v, k) == (257 * v + 9000 * (k + 1)) % 65536

\* All of the range of 8 bits, and for grey and colours a part of it.
Domains0(file) ==
  {Absent}
    \cup {d \in {<<0, 255>>} : file.bits # Absent /\ file.bits[1] = 8}
    \cup {d \in {<<20, 220>>} : \/ file.bits = <<8>> /\ file.photometric = "MinIsBlack"
                               \/ file.bits = <<8, 8, 8>>}
=============================================================================
