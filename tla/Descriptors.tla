----------------------------- MODULE Descriptors -----------------------------
(***************************************************************************)
(* Discovery of the COGs of a collection by listing a bucket, and their    *)
(* projection to rows of the lake (app/api/descriptors.py).                *)
(*                                                                         *)
(* Of the key of an object only what discovery tells apart is kept:        *)
(*   bucket  the bucket it is in,                                          *)
(*   region  the state its path begins with,                               *)
(*   folder  the year its folder is named for, or None,                    *)
(*   name    the year in its file name, or None,                           *)
(*   cog     whether it is an image rather than a sidecar,                 *)
(*   header  what is found in the file: "cog", "striped", "unplaced".      *)
(* Collections are named for their descriptors: "naip", "kyfromabove",     *)
(* "nj-imagery" and "in-imagery"; any other is registered ad hoc.          *)
(***************************************************************************)
EXTENDS Integers, Sequences, FiniteSets, SequencesExt, FiniteSetsExt

CONSTANTS
  Bucket,  \* the objects of every bucket, in the order a listing has
  None     \* no year: every year is wanted, or none can be read

\* The Kentucky bucket names its files for the year of their folder, on which both the
\* narrowing to a year and the parser rely (ky_enumerate_prefixes, ky_key_parser).
ASSUME BucketAssumption ==
  /\ Bucket \in Seq({Bucket[i] : i \in DOMAIN Bucket}) /\ None \notin Int
  /\ \A i \in DOMAIN Bucket :
       /\ {Bucket[i].folder, Bucket[i].name} \subseteq Int \cup {None}
       /\ Bucket[i].bucket = "kyfromabove" /\ Bucket[i].name # None => Bucket[i].folder = Bucket[i].name

Objects == {Bucket[i] : i \in DOMAIN Bucket}

(* The years offered and the folders listed for a year (enumerate_prefixes). *)

ky_enumerate_prefixes(k, year) ==
  /\ k.bucket = "kyfromabove"
  /\ k.folder # None
  /\ year \in {None, k.folder}

\* Without a year: the folders of years that have images.
nj_enumerate_prefixes(k, year) ==
  /\ k.bucket = "njogis-imagery"
  /\ k.cog
  /\ IF year # None THEN k.folder = year ELSE k.folder # None

in_enumerate_prefixes(k, year) ==
  /\ k.bucket = "gisimageryingov"
  /\ IF year # None THEN k.folder = year ELSE k.folder # None

naip_enumerate_prefixes(k, region, year) ==
  /\ k.bucket = "naip-analytic"
  /\ k.region = region
  /\ IF year # None THEN k.folder = year ELSE k.folder # None

(* What a parser makes of a key: the empty set when it is rejected. *)

Row(k, region, year) == [object |-> k, region |-> region, year |-> year]

ky_key_parser(k) == {Row(k, "ky", y) : y \in {k.name} \ {None}}
nj_key_parser(k) == {Row(k, "nj", y) : y \in {k.folder} \ {None}}
in_key_parser(k) == {Row(k, "in", y) : y \in {k.folder} \ {None}}
naip_key_parser(k) == {Row(k, k.region, y) : y \in {k.folder} \ {None}}

\* An ad hoc collection is one region and one year, whatever its keys say.
AdhocYear(a) == IF a.years = {} THEN 2026 ELSE CHOOSE y \in a.years : TRUE

register_adhoc_collection(a, k) == {Row(k, r, AdhocYear(a)) : r \in a.regions}

Parsed(a, k) ==
  CASE a.collection = "naip" -> naip_key_parser(k)
    [] a.collection = "kyfromabove" -> ky_key_parser(k)
    [] a.collection = "nj-imagery" -> nj_key_parser(k)
    [] a.collection = "in-imagery" -> in_key_parser(k)
    [] OTHER -> register_adhoc_collection(a, k)

Listed(a, k, region, year) ==
  CASE a.collection = "naip" -> naip_enumerate_prefixes(k, region, year)
    [] a.collection = "kyfromabove" -> ky_enumerate_prefixes(k, year)
    [] a.collection = "nj-imagery" -> nj_enumerate_prefixes(k, year)
    [] a.collection = "in-imagery" -> in_enumerate_prefixes(k, year)
    [] OTHER -> k.bucket = a.bucket

\* The regions a collection covers; NAIP and ad hoc collections take those asked.
TargetRegions(a) ==
  CASE a.collection = "kyfromabove" -> a.regions \cap {"ky"}
    [] a.collection = "nj-imagery" -> a.regions \cap {"nj"}
    [] a.collection = "in-imagery" -> a.regions \cap {"in"}
    [] OTHER -> a.regions

\* The first images listed for a region and a year, up to the cap; without a
\* year the cap is for all the years of the region together.
Kept(a, region, year) ==
  LET usable == {i \in DOMAIN Bucket : /\ Bucket[i].cog /\ Listed(a, Bucket[i], region, year)
                                        /\ Parsed(a, Bucket[i]) # {}}
  IN UNION {Parsed(a, Bucket[i]) :
              i \in {i \in usable : a.cap = 0 \/ Cardinality({j \in usable : j <= i}) <= a.cap}}

Discovered(a) ==
  UNION {Kept(a, region, year) :
    region \in TargetRegions(a), year \in IF a.years = {} THEN {None} ELSE a.years}

LatestOf(rows, region) == Max({r.year : r \in {s \in rows : s.region = region}})

enumerate(a) ==
  LET rows == Discovered(a)
  IN IF a.latest THEN {r \in rows : r.year = LatestOf(rows, r.region)} ELSE rows
=============================================================================
