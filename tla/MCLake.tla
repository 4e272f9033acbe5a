------------------------------- MODULE MCLake -------------------------------
(***************************************************************************)
(* The programs of the lake and of its index, and the connection through   *)
(* which the API reads the lake, for TLC.  They share nothing but files     *)
(* that a reader finds whole, so each behaviour runs one family of them.    *)
(***************************************************************************)
EXTENDS Lake, TLC

VARIABLE family  \* which programs run

Key(bucket, region, folder, name, n) ==
  [bucket |-> bucket, region |-> region, folder |-> folder, name |-> name,
   cog |-> TRUE, header |-> "cog", n |-> n]

N1 == Key("naip-analytic", "de", 2019, 2019, 1)
N2 == Key("naip-analytic", "de", 2021, 2021, 2)
N3 == Key("naip-analytic", "md", 2021, 2021, 3)
Ky(folder, name, n) == Key("kyfromabove", "ky", folder, name, n)

\* Two years of one state with a sidecar, a statewide collection with a file whose
\* name has no year, one of an image and a file that is no COG, and one of two images.
Bucket0 ==
  <<N1, N2, [N2 EXCEPT !.cog = FALSE], N3, Ky(2020, 2020, 1), Ky(2022, 2022, 2), Ky(2022, None, 3),
    Key("njogis-imagery", "nj", 2020, None, 1),
    [Key("njogis-imagery", "nj", 2020, None, 2) EXCEPT !.header = "striped"],
    Key("gisimageryingov", "in", 2021, None, 1), Key("gisimageryingov", "in", 2021, None, 2)>>

\* EarthSearch lacks one image, dates that of 2019 to 2021, and has a malformed item.
Stac0 == (N1 :> [year |-> 2021, sound |-> TRUE]) @@ (N3 :> [year |-> 2021, sound |-> FALSE])
Sym == Permutations(Ingests) \cup Permutations(Queries)

BucketOf(collection) ==
  CASE collection = "naip" -> "naip-analytic"
    [] collection = "nj-imagery" -> "njogis-imagery"
    [] collection = "in-imagery" -> "gisimageryingov"
    [] OTHER -> "kyfromabove"
Ask(collection, region, years, latest, cap, headers, strict) ==
  [collection |-> collection, regions |-> {region}, years |-> years, latest |-> latest,
   cap |-> cap, headers |-> headers, strict |-> strict, bucket |-> BucketOf(collection)]
Requests0 ==
  {Ask("naip", "de", {}, FALSE, 0, FALSE, FALSE), Ask("naip", "de", {}, FALSE, 0, TRUE, TRUE),
   Ask("naip", "de", {2019}, FALSE, 0, FALSE, FALSE), Ask("naip", "md", {}, TRUE, 0, FALSE, FALSE),
   Ask("naip", "de", {}, TRUE, 0, TRUE, FALSE),
   Ask("kyfromabove", "ky", {}, TRUE, 0, TRUE, TRUE), Ask("kyfromabove", "ky", {}, FALSE, 1, TRUE, FALSE),
   Ask("nj-imagery", "nj", {}, FALSE, 0, TRUE, FALSE), Ask("in-imagery", "in", {2021}, FALSE, 0, TRUE, TRUE),
   Ask("county", "ky", {2020}, FALSE, 0, TRUE, FALSE)}
Old0 == {Row(N1, "de", 2019), Row(N2, "de", 2021)}

K(year, n) == [state |-> "de", year |-> year, n |-> n]
Live0 == {K(2019, 1), K(2022, 1), K(2022, 2), K(2023, 1)}
Known0 == {K(2018, 1), K(2019, 1), K(2022, 1), K(2023, 2)}
Published0 == {[rows |-> <<1, 2, 3, 4, 5>>, groups |-> 3], [rows |-> <<6, 7, 8>>, groups |-> 3]}

Files0 == <<"data_0", "data_1">>
Roots0 == <<"local", "s3">>

MCInit ==
  /\ family \in {"ingest", "refresh", "rewrite", "connection"}
  /\ LakeInit
  /\ family = "rewrite" \/ object = CHOOSE o \in Published : TRUE
MCNext ==
  \/ family = "ingest" /\ ProgramsNext /\ UNCHANGED <<family, indexVars, lakeVars>>
  \/ family = "refresh" /\ RefreshNext /\ UNCHANGED <<family, programVars, lakeVars>>
  \/ family = "rewrite" /\ RewriteNext /\ UNCHANGED <<family, programVars, lakeVars>>
  \/ family = "connection" /\ ConnectionNext /\ UNCHANGED <<family, programVars, indexVars>>
MCSpec == MCInit /\ [][MCNext]_<<programVars, family, indexVars, lakeVars>>
=============================================================================
