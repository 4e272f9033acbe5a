---------------------------- MODULE IngestService ----------------------------
(***************************************************************************)
(* The API process while imagery is ingested: the registry of background   *)
(* ingest jobs (app/api/ingest_jobs.py), the threads that run them, and    *)
(* the cache of the newest year per region that "Latest available"         *)
(* searches read (cached_latest_years and reset_latest_years_cache of      *)
(* app/api/lake.py).                                                       *)
(*                                                                         *)
(* Requests and jobs are threads.  What a lock covers is one action; a     *)
(* thread may be preempted everywhere else.  Of the lake only the newest   *)
(* year of one region matters, and every ingest that writes adds one.      *)
(***************************************************************************)
EXTENDS Integers, Sequences, FiniteSets, SequencesExt

CONSTANTS
  Jobs,      \* the ingests that users start
  Searches,  \* the requests that ask for the newest year
  MaxJobs,   \* records the registry keeps (20 in the code)
  Ttl,       \* LATEST_YEARS_TTL
  MaxTime,   \* bound on the clock
  None       \* no cache entry

ASSUME IngestAssumption ==
  /\ IsFiniteSet(Jobs)
  /\ MaxJobs \in Nat \ {0}
  /\ Ttl \in Nat
  /\ MaxTime \in Nat

VARIABLES
  now,       \* time.time()
  newest,    \* the newest year in the lake
  wroteAt,   \* wroteAt[y]: when year y appeared (history)
  registry,  \* _ingest_jobs, oldest first
  stage,     \* stage[j]: where the thread of job j stands
  yearOf,    \* yearOf[j]: the year job j added, 0 if none
  cache,     \* the entry of _latest_years
  search,    \* search[s]: where request s stands
  began,     \* began[s]: the time it read the clock
  announced, \* announced[s]: the years of the jobs completed by then (history)
  answer     \* answer[s]: the year it returns

jobVars == <<registry, stage, yearOf>>
lakeVars == <<newest, wroteAt>>
searchVars == <<search, began, announced, answer>>
vars == <<now, lakeVars, jobVars, cache, searchVars>>

JobStages ==
  {"idle", "starting", "running", "succeeded", "published", "failed", "completed", "gaveUp"}
Underway(j) == stage[j] \notin {"idle", "completed", "gaveUp"}
SearchStages == {"idle", "computing", "storing", "hit", "computed"}

\* A record that log lines alone brought back has no status.
Records == [job : Jobs, status : {"running", "completed", "failed", "absent"}]

TypeOK ==
  /\ now \in 0..MaxTime
  /\ newest \in Nat
  /\ wroteAt \in Seq(0..MaxTime) /\ Len(wroteAt) = newest
  /\ registry \in Seq(Records)
  /\ stage \in [Jobs -> JobStages]
  /\ yearOf \in [Jobs -> 0..newest]
  /\ cache = None \/ cache \in [year : 0..newest, expires : Nat]
  /\ search \in [Searches -> SearchStages]
  /\ began \in [Searches -> 0..MaxTime]
  /\ announced \in [Searches -> SUBSET (0..newest)]
  /\ answer \in [Searches -> 0..newest]

Init ==
  /\ now = 0
  /\ newest = 0
  /\ wroteAt = <<>>
  /\ registry = <<>>
  /\ stage = [j \in Jobs |-> "idle"]
  /\ yearOf = [j \in Jobs |-> 0]
  /\ cache = None
  /\ search = [s \in Searches |-> "idle"]
  /\ began = [s \in Searches |-> 0]
  /\ announced = [s \in Searches |-> {}]
  /\ answer = [s \in Searches |-> 0]

-----------------------------------------------------------------------------
(* The registry of jobs.                                                   *)

Registered(j) == \E i \in DOMAIN registry : registry[i].job = j

\* The records without that of job j.
Others(j) ==
  IF Registered(j)
    THEN RemoveAt(registry, CHOOSE i \in DOMAIN registry : registry[i].job = j)
    ELSE registry

\* Mutant of SetIngestJob: nothing is ever dropped.
SetIngestJob_KeepsAll(j, status) ==
  registry' = Append(Others(j), [job |-> j, status |-> status])

\* Mutant of SetIngestJob: an existing record wins over the update.
SetIngestJob_KeepsFirst(j, status) ==
  LET grown == IF Registered(j) THEN registry
               ELSE Append(registry, [job |-> j, status |-> status])
      excess == IF Len(grown) > MaxJobs THEN Len(grown) - MaxJobs ELSE 0
  IN registry' = SubSeq(grown, excess + 1, Len(grown))

\* set_ingest_job: the record moves to the young end, the oldest are dropped.
SetIngestJob(j, status) ==
  LET grown  == Append(Others(j), [job |-> j, status |-> status])
      excess == IF Len(grown) > MaxJobs THEN Len(grown) - MaxJobs ELSE 0
  IN registry' = SubSeq(grown, excess + 1, Len(grown))

\* append_ingest_log: setdefault, and no record is dropped.
AppendIngestLog(j) ==
  registry' = IF Registered(j) THEN registry
              ELSE Append(registry, [job |-> j, status |-> "absent"])

(* A job: POST /ingest/run and run_ingest_job.                             *)

JobStep(j, from, to) ==
  /\ stage[j] = from
  /\ stage' = [stage EXCEPT ![j] = to]
  /\ UNCHANGED <<now, searchVars>>

Launch(j) ==
  /\ JobStep(j, "idle", "starting")
  /\ SetIngestJob(j, "running")
  /\ UNCHANGED <<lakeVars, yearOf, cache>>

\* The command is logged and the subprocess started.
Spawn(j) ==
  /\ JobStep(j, "starting", "running")
  /\ AppendIngestLog(j)
  /\ UNCHANGED <<lakeVars, yearOf, cache>>

\* The subprocess prints a line.
Log(j) ==
  /\ stage[j] = "running"
  /\ AppendIngestLog(j)
  /\ UNCHANGED <<now, lakeVars, stage, yearOf, cache, searchVars>>

\* The subprocess writes the partitions of a newer year.
Write(j) ==
  /\ JobStep(j, "running", "running")
  /\ yearOf[j] = 0
  /\ newest' = newest + 1
  /\ wroteAt' = Append(wroteAt, now)
  /\ yearOf' = [yearOf EXCEPT ![j] = newest + 1]
  /\ UNCHANGED <<registry, cache>>

\* The subprocess exits; it may fail, and may have written before that.
Exit(j) ==
  /\ \/ JobStep(j, "running", "succeeded") /\ yearOf[j] # 0
     \/ JobStep(j, "running", "failed")
  /\ UNCHANGED <<lakeVars, registry, yearOf, cache>>

\* reset_latest_years_cache
ResetLatestYears(j) ==
  /\ JobStep(j, "succeeded", "published")
  /\ cache' = None
  /\ UNCHANGED <<lakeVars, registry, yearOf>>

Finish(j) ==
  /\ \/ JobStep(j, "published", "completed") /\ SetIngestJob(j, "completed")
     \/ JobStep(j, "failed", "gaveUp") /\ SetIngestJob(j, "failed")
  /\ UNCHANGED <<lakeVars, yearOf, cache>>

-----------------------------------------------------------------------------
(* A search: cached_latest_years.                                          *)

Completed == {j \in Jobs : \E i \in DOMAIN registry :
                registry[i] = [job |-> j, status |-> "completed"]}

\* The clock is read, then the entry looked up under the lock.
Lookup(s) ==
  /\ search[s] = "idle"
  /\ began' = [began EXCEPT ![s] = now]
  /\ announced' = [announced EXCEPT ![s] = {yearOf[j] : j \in Completed}]
  /\ IF cache # None /\ cache.expires > now
       THEN /\ answer' = [answer EXCEPT ![s] = cache.year]
            /\ search' = [search EXCEPT ![s] = "hit"]
       ELSE /\ search' = [search EXCEPT ![s] = "computing"]
            /\ UNCHANGED answer
  /\ UNCHANGED <<now, lakeVars, jobVars, cache>>

\* compute() lists the partitions of the lake.
Compute(s) ==
  /\ search[s] = "computing"
  /\ answer' = [answer EXCEPT ![s] = newest]
  /\ search' = [search EXCEPT ![s] = "storing"]
  /\ UNCHANGED <<now, lakeVars, jobVars, cache, began, announced>>

\* Mutant of Store: valid from the time it is stored.
Store_FromNow(s) ==
  /\ search[s] = "storing"
  /\ cache' = [year |-> answer[s], expires |-> now + Ttl]
  /\ search' = [search EXCEPT ![s] = "computed"]
  /\ UNCHANGED <<now, lakeVars, jobVars, began, announced, answer>>

\* The result is stored under the lock, valid from the time the search began.
Store(s) ==
  /\ search[s] = "storing"
  /\ cache' = [year |-> answer[s], expires |-> began[s] + Ttl]
  /\ search' = [search EXCEPT ![s] = "computed"]
  /\ UNCHANGED <<now, lakeVars, jobVars, began, announced, answer>>

Tick ==
  /\ now < MaxTime
  /\ now' = now + 1
  /\ UNCHANGED <<lakeVars, jobVars, cache, searchVars>>

Next ==
  \/ \E j \in Jobs : \/ Launch(j) \/ Spawn(j) \/ Log(j) \/ Write(j) \/ Exit(j)
                    \/ ResetLatestYears(j) \/ Finish(j)
  \/ \E s \in Searches : Lookup(s) \/ Compute(s) \/ Store(s)
  \/ Tick

Spec == Init /\ [][Next]_vars

-----------------------------------------------------------------------------
\* "the TTL is a staleness ceiling": a search answered from the cache misses no
\* year that has been in the lake for Ttl or longer, however long the listing
\* behind the entry took.
StalenessCeiling ==
  [][\A s \in Searches :
       (search[s] = "idle" /\ search'[s] = "hit") =>
          \A y \in 1..newest : wroteAt[y] + Ttl <= now => y <= answer'[s]]_vars

\* "so a freshly ingested year shows up without waiting on TTL": a search that
\* begins after an ingest was reported completed sees the year it added.
FreshAfterIngest ==
  \A s \in Searches : search[s] \in {"hit", "computed"} =>
    \A y \in announced[s] : y <= answer[s]

OneRecordEach ==
  \A i, k \in DOMAIN registry : registry[i].job = registry[k].job => i = k

\* The registry has one record per job, and more than MaxJobs only on account
\* of jobs still under way that their log lines brought back.
RegistryBounded ==
  /\ OneRecordEach
  /\ Len(registry) <= MaxJobs + Cardinality({j \in Jobs : Underway(j)})

\* A record of a finished job tells its outcome: no log line makes the job
\* running again, or blanks its status, after the last update.
OutcomeStands ==
  \A i \in DOMAIN registry :
    /\ stage[registry[i].job] = "completed" => registry[i].status = "completed"
    /\ stage[registry[i].job] = "gaveUp" => registry[i].status = "failed"
=============================================================================
