------------------------------ MODULE LakeIngest ------------------------------
(***************************************************************************)
(* The programs that write the imagery lake: ingests                       *)
(* (app/api/ingest_duckdb.py over app/api/ingest_manifest.py) and the      *)
(* migration from the former layout (app/api/migrate_lake_layout.py).      *)
(*                                                                         *)
(* The lake is a tree of partitions, one per collection, region and year,  *)
(* each a set of files; there is no lock and no transaction.  A program    *)
(* lists, deletes and writes one object at a time, several run side by     *)
(* side, and any may be killed between two steps.                          *)
(***************************************************************************)
EXTENDS Descriptors

CONSTANTS
  Ingests,   \* runs of the ingest program
  Requests,  \* the options a run may be given
  Stac,      \* EarthSearch: the items it has, by object
  OldLayout, \* rows of the lake in its former layout
  Migration, \* the run of the migration
  Files      \* the files one partition is written as, in order

VARIABLES
  lake,    \* lake[p][f]: the rows of file f of partition p, {} if there is none
  program  \* program[i]: how far run i is and what it holds; "disturbed" are its
           \* partitions that another run changed since it began to write (history)

programVars == <<lake, program>>

FileNames == ToSet(Files)
Runs == Ingests \cup {Migration}

Partition(collection, r) == [collection |-> collection, region |-> r.region, year |-> r.year]
PartitionsOf(collection, rows) == {Partition(collection, r) : r \in rows}

\* What can come into the lake: rows as discovered, as dated by EarthSearch, or old.
Discoverable(a) == UNION {Parsed(a, k) : k \in {k \in Objects : k.bucket = a.bucket}}
Dated == {Row(k, k.region, Stac[k].year) : k \in DOMAIN Stac}
Rows == (UNION {Discoverable(a) : a \in Requests}) \cup Dated \cup OldLayout

\* A request names the bucket of its collection, and one region for an ad hoc one.
ASSUME LakeAssumption ==
  /\ Migration \notin Ingests /\ IsFiniteSet(Rows)
  /\ Files \in Seq(STRING) /\ Len(Files) >= 2
  /\ \A m, n \in DOMAIN Files : Files[m] = Files[n] => m = n
  /\ \A a \in Requests :
       /\ a.years \subseteq Int /\ IsFiniteSet(a.years) /\ {a.latest, a.headers, a.strict} \subseteq BOOLEAN
       /\ a.bucket = CASE a.collection = "naip" -> "naip-analytic"
                        [] a.collection = "kyfromabove" -> "kyfromabove"
                        [] a.collection = "nj-imagery" -> "njogis-imagery"
                        [] a.collection = "in-imagery" -> "gisimageryingov"
                        [] OTHER -> a.bucket
       /\ \/ a.collection \in {"naip", "kyfromabove", "nj-imagery", "in-imagery"}
          \/ \A r, q \in a.regions : r = q
Partitions ==
  (UNION {PartitionsOf(a.collection, Discoverable(a)) : a \in Requests})
  \cup PartitionsOf("naip", Dated \cup OldLayout)

Of(collection, rows, p) == {r \in rows : Partition(collection, r) = p}

\* The rows a reader finds in the files of a partition, doubles included.
Readings(files) == UNION {{f} \X files[f] : f \in DOMAIN files}
SumRows(files) == Cardinality(Readings(files))

Idle == [at |-> "idle", asked |-> None, got |-> {},
         clear |-> {}, current |-> None, keys |-> {}, write |-> {},
         disturbed |-> {}]

Stages == {"idle", "clearing", "deleting", "copying", "verifying", "done", "failed"}

TypeOK ==
  /\ lake \in [Partitions -> [FileNames -> SUBSET Rows]]
  /\ \A i \in Runs :
       /\ program[i].at \in Stages
       /\ program[i].got \subseteq Rows
       /\ program[i].clear \subseteq Partitions
       /\ program[i].write \subseteq Partitions
       /\ program[i].current \in Partitions \cup {None}
       /\ program[i].keys \subseteq FileNames
       /\ program[i].disturbed \subseteq Partitions

ProgramsInit ==
  /\ lake = [p \in Partitions |-> [f \in FileNames |-> {}]]
  /\ program = [i \in Runs |-> Idle]

-----------------------------------------------------------------------------
(* Acquisition: nothing here is shared.                                     *)

(* EarthSearch.                                                            *)

\* The year it is asked for, None for every year.
YearAsked(a, rows, region) ==
  IF a.latest /\ \E r \in rows : r.region = region THEN LatestOf(rows, region)
  ELSE IF ~a.latest /\ Cardinality(a.years) = 1 THEN CHOOSE y \in a.years : TRUE
  ELSE None

\* Mutant of earthsearch_items_for_state: the year is not part of the query.
earthsearch_items_for_state_AnyYear(state, year) ==
  {k \in DOMAIN Stac : k.region = state}

\* All its pages, for one year of the item's own or for every year.
earthsearch_items_for_state(state, year) ==
  {k \in DOMAIN Stac : k.region = state /\ year \in {None, Stac[k].year}}

build_stac_index(a, rows) ==
  UNION {earthsearch_items_for_state(state, YearAsked(a, rows, state)) : state \in a.regions}

\* An item that does not parse stops the program.
Insertable(r) == r.object.name # None /\ Stac[r.object].sound

\* The item's own year decides the partition.
row_to_insertable(r) == [r EXCEPT !.year = Stac[r.object].year]

Joined(a, rows) ==
  IF a.collection # "naip" \/ a.headers THEN {}
  ELSE {r \in rows : r.object \in build_stac_index(a, rows)}

(* Headers: the payloads are any of the rows whose header can be used.     *)

\* An image is cut into tiles and has overviews.
_validate_cog_structure(k) == k.header # "striped"

\* It is placed by a known coordinate system.
_extract_cog_geo(k) == _validate_cog_structure(k) /\ k.header # "unplaced"

fetch_cog_metadata(k) == k.name # None /\ _extract_cog_geo(k)
fetch_cog_geo_generic(k) == _extract_cog_geo(k)

process_manifest_cog_headers(rows) == SUBSET {r \in rows : fetch_cog_metadata(r.object)}
process_cog_headers_generic(rows) == SUBSET {r \in rows : fetch_cog_geo_generic(r.object)}

HeadersRead(a, rows) ==
  IF a.collection = "naip" THEN process_manifest_cog_headers(rows)
  ELSE process_cog_headers_generic(rows)

\* The bucket and EarthSearch do not change, so both are asked once.
Discovery == [a \in Requests |-> enumerate(a)]
Matches == [a \in Requests |-> Joined(a, Discovery[a])]

(* The reconciliation and the export.                                      *)

CountIn(rows, region, year) == Cardinality({r \in rows : r.region = region /\ r.year = year})

\* Mutant of reconcile_completeness: only an empty partition is short.
reconcile_completeness_Empty(rows, got) ==
  \A r \in rows : CountIn(got, r.region, r.year) > 0

\* Every partition has as many payloads as rows were listed for it.
reconcile_completeness(rows, got) ==
  \A r \in rows : CountIn(got, r.region, r.year) = CountIn(rows, r.region, r.year)

Begin(i, a, got, at, clear) ==
  program' = [program EXCEPT ![i] =
    [at |-> at, asked |-> a, got |-> got, clear |-> clear,
     current |-> None, keys |-> {}, write |-> PartitionsOf(a.collection, got),
     disturbed |-> {}]]

\* Mutant of export: the partitions are not cleared.
export_NoClear(i, a, got) == Begin(i, a, got, "copying", {})

\* export: the partitions of the payloads are cleared, and only then written.
export(i, a, got) ==
  Begin(i, a, got, "clearing", PartitionsOf(a.collection, got))

End(i, how) == program' = [program EXCEPT ![i] = [Idle EXCEPT !.at = how]]

\* acquire_payloads: discovery, the join with EarthSearch, the headers of the
\* rest, of which only some can be read, and the reconciliation.
acquire_payloads(i, a) ==
  \E rows \in {Discovery[a]}, joined \in {Matches[a]} :
    \/ /\ \E r \in joined : ~Insertable(r)
       /\ End(i, "failed")
    \/ /\ \A r \in joined : Insertable(r)
       /\ \E read \in HeadersRead(a, rows \ joined) :
            \E got \in {read \cup {row_to_insertable(r) : r \in joined}} :
              IF a.strict /\ ~reconcile_completeness(rows, got) THEN End(i, "failed")
              ELSE IF got = {} THEN End(i, "done")
              ELSE export(i, a, got)

IngestStarts(i) ==
  /\ program[i].at = "idle"
  /\ \E a \in Requests : acquire_payloads(i, a)
  /\ UNCHANGED lake

-----------------------------------------------------------------------------
(* Writing: every step is seen by the other programs.                      *)

Writes(j, p) == p \in PartitionsOf(program[j].asked.collection, program[j].got)
AtWork(j) == program[j].at \in {"clearing", "deleting", "copying", "verifying"}

\* Run i changes the files of partition p and goes on as "next".
Change(i, p, files, next) ==
  /\ lake' = [lake EXCEPT ![p] = files]
  /\ program' = [j \in Runs |->
       IF j = i THEN next
       ELSE IF AtWork(j) /\ Writes(j, p) THEN [program[j] EXCEPT !.disturbed = @ \cup {p}]
       ELSE program[j]]

\* _delete_partition_prefixes lists the objects of a partition...
ListPartition(i) ==
  /\ program[i].at = "clearing"
  /\ \E p \in program[i].clear :
       program' = [program EXCEPT
         ![i].at = "deleting", ![i].clear = @ \ {p}, ![i].current = p,
         ![i].keys = {f \in FileNames : lake[p][f] # {}}]
  /\ UNCHANGED lake

Remaining(i) == program[i].clear

\* ... and deletes those it listed.
DeleteListed(i) ==
  /\ program[i].at = "deleting"
  /\ LET p == program[i].current
     IN Change(i, p, [f \in FileNames |-> IF f \in program[i].keys THEN {} ELSE lake[p][f]],
          [program[i] EXCEPT !.at = IF Remaining(i) = {} THEN "copying" ELSE "clearing",
             !.current = None, !.keys = {}])

\* COPY with overwrite_or_ignore: the rows of a partition become its first file
\* or its first two; a file of another name stays.
Copied(p, rows) ==
  {[f \in FileNames |-> IF \E n \in DOMAIN parts : Files[n] = f
                         THEN parts[CHOOSE n \in DOMAIN parts : Files[n] = f] ELSE lake[p][f]] :
     parts \in {<<rows>>} \cup {<<{r}, rows \ {r}>> : r \in {r \in rows : rows # {r}}}}

\* Partitions are written one after the other; an ingest ends with the last.
CopyPartition(i) ==
  /\ program[i].at = "copying"
  /\ \E p \in program[i].write :
       \E files \in Copied(p, Of(program[i].asked.collection, program[i].got, p)) :
         Change(i, p, files,
           IF program[i].write # {p} THEN [program[i] EXCEPT !.write = @ \ {p}]
           ELSE IF i = Migration THEN [program[i] EXCEPT !.write = {}, !.at = "verifying"]
           ELSE [Idle EXCEPT !.at = "done"])

\* A program is killed, or a request to the bucket fails.
Crash(i) ==
  /\ AtWork(i)
  /\ End(i, "failed")
  /\ UNCHANGED lake

-----------------------------------------------------------------------------
(* The migration.                                                          *)

Migrating == [collection |-> "naip"]

\* The rows of the old layout are counted and copied; it may be run again.
MigrationStarts ==
  /\ program[Migration].at \in {"idle", "failed"}
  /\ OldLayout # {}
  /\ Begin(Migration, Migrating, OldLayout, "copying", {})
  /\ UNCHANGED lake

\* The rows a reader of a collection counts: a row in two files counts twice.
Counted(collection) ==
  Cardinality(UNION {{p} \X Readings(lake[p]) : p \in {p \in Partitions : p.collection = collection}})

\* Mutant of RowCountsAgree: the counts are not compared.
RowCountsAgree_Always == TRUE

RowCountsAgree == Counted("naip") = Cardinality(OldLayout)

\* The old tree may be deleted only when the counts agree.
MigrationVerifies ==
  /\ program[Migration].at = "verifying"
  /\ End(Migration, IF RowCountsAgree THEN "done" ELSE "failed")
  /\ UNCHANGED lake

ProgramsNext ==
  \/ \E i \in Ingests : IngestStarts(i)
  \/ \E i \in Runs : ListPartition(i) \/ DeleteListed(i) \/ CopyPartition(i) \/ Crash(i)
  \/ MigrationStarts \/ MigrationVerifies

-----------------------------------------------------------------------------
(* Properties.                                                             *)

Held(files) == UNION Range(files)
Exactly(files, rows) == Held(files) = rows /\ SumRows(files) = Cardinality(rows)

\* Run i writes its last partition.
Ends(i) == program[i].at = "copying" /\ program'[i].at = "done"
Untroubled(i) == PartitionsOf(program[i].asked.collection, program[i].got) \ program[i].disturbed

\* "A re-ingest replaces rather than appends": whatever former, killed or other
\* runs left in a partition, an ingest that nobody disturbed there leaves its own
\* rows, each once.
IngestReplaces ==
  [][\A i \in Ingests : Ends(i) =>
       \A p \in Untroubled(i) :
         Exactly(lake'[p], Of(program[i].asked.collection, program[i].got, p))]_programVars

\* The images of a bucket that belong to a partition.
Images(a, p) ==
  {k \in Objects : k.cog /\ \E r \in Parsed(a, k) :
     Partition(a.collection, r) = p /\ Listed(a, k, r.region, r.year)}

\* "Completeness = correctness": where a strict ingest without a cap ends, readers
\* count as many rows as the bucket has images.
StrictIsComplete ==
  [][\A i \in Ingests : (Ends(i) /\ program[i].asked.strict /\ program[i].asked.cap = 0) =>
       \A p \in Untroubled(i) \cap PartitionsOf(program[i].asked.collection, Discovery[program[i].asked]) :
         SumRows(lake'[p]) = Cardinality(Images(program[i].asked, p))]_programVars

YearsOf(a, region) ==
  {r.year : r \in {r \in UNION {Parsed(a, k) : k \in {k \in Objects : k.cog /\ k.bucket = a.bucket}} :
                     r.region = region}}

\* The years an ingest may write: those asked for, and of those the newest.
YearsWanted(a, region) ==
  LET offered == IF a.years = {} THEN YearsOf(a, region) ELSE YearsOf(a, region) \cap a.years
  IN IF a.latest /\ a.cap = 0 THEN {Max(offered)} ELSE offered

\* The rows have the years of the bucket: headers are read, or EarthSearch is
\* asked for one year.
YearsTold(a) == a.collection # "naip" \/ a.headers \/ a.latest \/ Cardinality(a.years) = 1

\* "Re-ingesting one year leaves the other years intact": a partition changes only
\* by a run that was asked for its collection, region and year.
AskedOnly ==
  [][\A p \in Partitions : lake'[p] # lake[p] =>
       \E i \in Runs :
         /\ AtWork(i) /\ program[i].asked.collection = p.collection
         /\ i \in Ingests =>
              /\ p.region \in program[i].asked.regions
              /\ YearsTold(program[i].asked) =>
                   p.year \in YearsWanted(program[i].asked, p.region)]_programVars

\* When the migration says that the old tree may go, and nobody wrote its partitions
\* meanwhile, readers of the new layout see every old row once and nothing else.
MigrationVerified ==
  [][(/\ program[Migration].at = "verifying" /\ program'[Migration].at = "done"
      /\ program[Migration].disturbed = {}) =>
       \A p \in Partitions : p.collection = "naip" =>
         Exactly(lake[p], Of("naip", OldLayout, p))]_programVars
=============================================================================
