---------------------------- MODULE IngestProofs ----------------------------
(***************************************************************************)
(* Proofs about IngestService and IngestPanel: the types, the registry of  *)
(* jobs, the ceiling on the staleness of the newest-year cache, and that   *)
(* what an ingest added surfaces in the panel that started it.             *)
(***************************************************************************)
EXTENDS IngestPanel, SequenceTheorems, FiniteSetTheorems, TLAPS

\* The jobs that may have been brought back after they were dropped.
Revivable == {j \in Jobs : Underway(j) /\ Registered(j)}

FewRecords == Len(registry) <= MaxJobs + Cardinality(Revivable)

\* An entry that is still valid was listed at most Ttl ago, and knows every
\* year that is Ttl old before it expires.
EntryCovers ==
  cache # None =>
    /\ cache.expires <= now + Ttl
    /\ \A y \in 1..newest : wroteAt[y] + Ttl < cache.expires => y <= cache.year

\* A listing under way knows every year written before its search began.
ListingCovers ==
  \A s \in Searches : search[s] = "storing" =>
    \A y \in 1..newest : wroteAt[y] < began[s] => y <= answer[s]

\* No time lies in the future.
TimesPassed ==
  /\ \A y \in 1..newest : wroteAt[y] <= now
  /\ \A s \in Searches : began[s] <= now

RegistryInv == OneRecordEach /\ FewRecords /\ OutcomeStands
CacheInv == TimesPassed /\ EntryCovers /\ ListingCovers

-----------------------------------------------------------------------------
\* Without the record of job j: the other records, once each, in their order.
LEMMA OthersFacts ==
  ASSUME registry \in Seq(Records), OneRecordEach, NEW j \in Jobs
  PROVE  /\ Others(j) \in Seq(Records)
         /\ Len(Others(j)) <= Len(registry)
         /\ \A i \in 1..Len(Others(j)) :
              /\ Others(j)[i].job # j
              /\ \E k \in DOMAIN registry : Others(j)[i] = registry[k]
         /\ \A i, k \in 1..Len(Others(j)) :
              Others(j)[i].job = Others(j)[k].job => i = k
<1>1. CASE ~Registered(j)
  <2>1. Others(j) = registry
    BY <1>1 DEF Others
  <2>2. DOMAIN registry = 1..Len(registry) /\ Len(registry) \in Nat
    OBVIOUS
  <2>3. \A i \in 1..Len(registry) :
          registry[i].job # j /\ \E k \in DOMAIN registry : registry[i] = registry[k]
    BY <1>1, <2>2 DEF Registered
  <2>4. \A i, k \in 1..Len(registry) : registry[i].job = registry[k].job => i = k
    BY <2>2 DEF OneRecordEach
  <2> QED
    BY <2>1, <2>2, <2>3, <2>4
<1>2. CASE Registered(j)
  <2> DEFINE at == CHOOSE i \in DOMAIN registry : registry[i].job = j
             n == Len(registry)
             low == SubSeq(registry, 1, at - 1)
             high == SubSeq(registry, at + 1, n)
  <2>1. at \in 1..n /\ registry[at].job = j
    BY <1>2 DEF Registered
  <2>2. Others(j) = low \o high
    BY <1>2 DEF Others, RemoveAt
  <2> HIDE DEF at
  <2>3. /\ low \in Seq(Records) /\ Len(low) = at - 1
        /\ \A i \in 1..at - 1 : low[i] = registry[i]
    BY <2>1, SubSeqProperties
  <2>4. /\ high \in Seq(Records) /\ Len(high) = n - at
        /\ \A i \in 1..n - at : high[i] = registry[at + i]
    BY <2>1, SubSeqProperties
  <2> HIDE DEF low, high
  <2>5. /\ Others(j) \in Seq(Records) /\ Len(Others(j)) = n - 1
        /\ \A i \in 1..n - 1 :
             Others(j)[i] = IF i < at THEN registry[i] ELSE registry[i + 1]
    <3>1. /\ Others(j) \in Seq(Records) /\ Len(Others(j)) = (at - 1) + (n - at)
          /\ \A i \in 1..(at - 1) + (n - at) :
               Others(j)[i] = IF i <= at - 1 THEN low[i] ELSE high[i - (at - 1)]
      <4>1. /\ low \o high \in Seq(Records)
            /\ Len(low \o high) = Len(low) + Len(high)
            /\ \A i \in 1..Len(low) + Len(high) :
                 (low \o high)[i] = IF i <= Len(low) THEN low[i] ELSE high[i - Len(low)]
        BY <2>3, <2>4, ConcatProperties, Zenon
      <4> QED
        BY <4>1, <2>2, <2>3, <2>4, Zenon
    <3>2. at \in Int /\ n \in Nat
      BY <2>1
    <3>3. ASSUME NEW i \in 1..n - 1
          PROVE  Others(j)[i] = IF i < at THEN registry[i] ELSE registry[i + 1]
      <4>1. CASE i < at
        BY <4>1, <3>1, <3>2, <2>1, <2>3
      <4>2. CASE ~(i < at)
        <5>1. i - (at - 1) \in 1..n - at /\ at + (i - (at - 1)) = i + 1
          BY <4>2, <3>2, <2>1
        <5>2. high[i - (at - 1)] = registry[i + 1]
          BY <5>1, <2>4
        <5>3. Others(j)[i] = high[i - (at - 1)]
          <6>1. ~(i <= at - 1) /\ i \in 1..(at - 1) + (n - at)
            BY <4>2, <3>2
          <6> QED
            BY <6>1, <3>1
        <5> QED
          BY <5>2, <5>3, <4>2
      <4> QED
        BY <4>1, <4>2
    <3>4. (at - 1) + (n - at) = n - 1
      BY <3>2
    <3> QED
      BY <3>1, <3>3, <3>4, Zenon
  <2>6. \A i \in 1..n - 1 :
          Others(j)[i].job # j /\ \E k \in DOMAIN registry : Others(j)[i] = registry[k]
    <3> SUFFICES ASSUME NEW i \in 1..n - 1
                 PROVE  \E k \in DOMAIN registry :
                          Others(j)[i] = registry[k] /\ registry[k].job # j
      OBVIOUS
    <3> DEFINE k == IF i < at THEN i ELSE i + 1
    <3>1. k \in 1..n /\ k # at
      BY <2>1
    <3>2. Others(j)[i] = registry[k]
      BY <2>5
    <3> HIDE DEF k
    <3>3. k \in DOMAIN registry /\ at \in DOMAIN registry
      BY <2>1, <3>1
    <3>4. registry[k].job # j
      BY <2>1, <3>1, <3>3 DEF OneRecordEach
    <3> QED
      BY <3>2, <3>3, <3>4
  <2>7. \A i, k \in 1..n - 1 : Others(j)[i].job = Others(j)[k].job => i = k
    <3> SUFFICES ASSUME NEW i \in 1..n - 1, NEW k \in 1..n - 1,
                        Others(j)[i].job = Others(j)[k].job
                 PROVE  i = k
      OBVIOUS
    <3> DEFINE source(l) == IF l < at THEN l ELSE l + 1
    <3>1. /\ source(i) \in 1..n /\ Others(j)[i] = registry[source(i)]
          /\ source(k) \in 1..n /\ Others(j)[k] = registry[source(k)]
      BY <2>1, <2>5
    <3>2. source(i) = source(k)
      BY <3>1 DEF OneRecordEach
    <3> QED
      BY <3>2, <2>1
  <2> QED
    BY <2>5, <2>6, <2>7
<1> QED
  BY <1>1, <1>2

\* set_ingest_job leaves at most MaxJobs records, one for each job: the new
\* one of j, and others that were there before.
LEMMA SetFacts ==
  ASSUME registry \in Seq(Records), OneRecordEach, NEW j \in Jobs,
         NEW status \in {"running", "completed", "failed", "absent"},
         SetIngestJob(j, status)
  PROVE  /\ registry' \in Seq(Records)
         /\ OneRecordEach'
         /\ Len(registry') <= MaxJobs
         /\ \A i \in DOMAIN registry' :
              \/ registry'[i] = [job |-> j, status |-> status]
              \/ /\ registry'[i].job # j
                 /\ \E k \in DOMAIN registry : registry'[i] = registry[k]
<1> DEFINE rec == [job |-> j, status |-> status]
           m == Len(Others(j))
           grown == Append(Others(j), rec)
           excess == IF Len(grown) > MaxJobs THEN Len(grown) - MaxJobs ELSE 0
<1>1. rec \in Records /\ MaxJobs \in Nat \ {0}
  BY IngestAssumption DEF Records
<1>2. /\ grown \in Seq(Records) /\ Len(grown) = m + 1 /\ m \in Nat
      /\ \A i \in 1..m : grown[i] = Others(j)[i]
      /\ grown[m + 1] = rec
  BY <1>1, OthersFacts, AppendProperties
<1>3. /\ excess \in 0..m /\ Len(grown) - excess <= MaxJobs
  BY <1>1, <1>2
<1>4. registry' = SubSeq(grown, excess + 1, Len(grown))
  BY DEF SetIngestJob
<1> HIDE DEF grown, excess
<1>5. /\ registry' \in Seq(Records) /\ Len(registry') = (m + 1) - excess
      /\ \A i \in 1..(m + 1) - excess : registry'[i] = grown[excess + i]
  <2>1. \A i \in excess + 1..m + 1 : grown[i] \in Records
    BY <1>2, <1>3
  <2>2. /\ registry' \in Seq(Records)
        /\ Len(registry') = IF excess + 1 <= m + 1 THEN (m + 1) - (excess + 1) + 1 ELSE 0
        /\ \A i \in 1..(m + 1) - (excess + 1) + 1 :
             registry'[i] = grown[(excess + 1) + i - 1]
    BY <2>1, <1>2, <1>3, <1>4, SubSeqProperties
  <2>3. \A i \in Int : (excess + 1) + i - 1 = excess + i
    BY <1>3
  <2> QED
    BY <2>2, <2>3, <1>2, <1>3
<1>6. ASSUME NEW i \in 1..Len(registry')
      PROVE  \/ i = Len(registry') /\ registry'[i] = rec
             \/ /\ excess + i \in 1..m
                /\ registry'[i] = Others(j)[excess + i]
  <2>1. CASE i = (m + 1) - excess
    BY <2>1, <1>2, <1>3, <1>5
  <2>2. CASE i < (m + 1) - excess
    BY <2>2, <1>2, <1>3, <1>5
  <2> QED
    BY <2>1, <2>2, <1>2, <1>3, <1>5
<1>7. OneRecordEach'
  <2> SUFFICES ASSUME NEW i \in 1..Len(registry'), NEW k \in 1..Len(registry'),
                      registry'[i].job = registry'[k].job
               PROVE  i = k
    BY <1>5 DEF OneRecordEach
  <2>1. rec.job = j
    OBVIOUS
  <2> HIDE DEF rec
  <2>2. ASSUME NEW l \in 1..Len(registry'), excess + l \in 1..m,
               registry'[l] = Others(j)[excess + l]
        PROVE  registry'[l].job # j
    BY <2>2, OthersFacts
  <2>3. CASE registry'[i].job = j
    BY <2>1, <2>2, <2>3, <1>6
  <2>4. CASE registry'[i].job # j
    <3>1. /\ excess + i \in 1..m /\ registry'[i] = Others(j)[excess + i]
          /\ excess + k \in 1..m /\ registry'[k] = Others(j)[excess + k]
      BY <2>1, <2>4, <1>6
    <3>2. excess + i = excess + k
      BY <3>1, OthersFacts
    <3> QED
      BY <3>2, <1>3, <1>5, <1>2
  <2> QED
    BY <2>3, <2>4
<1>8. ASSUME NEW i \in 1..Len(registry')
      PROVE  \/ registry'[i] = rec
             \/ /\ registry'[i].job # j
                /\ \E k \in DOMAIN registry : registry'[i] = registry[k]
  <2>1. CASE registry'[i] = rec
    BY <2>1
  <2>2. CASE excess + i \in 1..m /\ registry'[i] = Others(j)[excess + i]
    BY <2>2, OthersFacts
  <2> QED
    BY <2>1, <2>2, <1>6
<1> QED
  BY <1>1, <1>2, <1>3, <1>5, <1>7, <1>8
\* append_ingest_log by a job under way brings back its own record at most.
LEMMA AppendFacts ==
  ASSUME registry \in Seq(Records), OneRecordEach, NEW j \in Jobs, AppendIngestLog(j)
  PROVE  /\ registry' \in Seq(Records)
         /\ OneRecordEach'
         /\ \A i \in DOMAIN registry' :
              \/ registry'[i].job = j
              \/ \E k \in DOMAIN registry : registry'[i] = registry[k]
         /\ \/ Registered(j) /\ registry' = registry
            \/ /\ ~Registered(j)
               /\ Len(registry') = Len(registry) + 1
               /\ \A k \in Jobs : Registered(k)' <=> Registered(k) \/ k = j
<1>1. CASE Registered(j)
  <2>1. registry' = registry
    BY <1>1 DEF AppendIngestLog
  <2> QED
    BY <1>1, <2>1 DEF OneRecordEach
<1>2. CASE ~Registered(j)
  <2> DEFINE rec == [job |-> j, status |-> "absent"]
             n == Len(registry)
  <2>1. rec \in Records /\ rec.job = j
    BY DEF Records
  <2>2. registry' = Append(registry, rec)
    BY <1>2 DEF AppendIngestLog
  <2> HIDE DEF rec
  <2>3. /\ registry' \in Seq(Records) /\ Len(registry') = n + 1 /\ n \in Nat
        /\ \A i \in 1..n : registry'[i] = registry[i]
        /\ registry'[n + 1] = rec
    BY <2>1, <2>2, AppendProperties
  <2>4. DOMAIN registry' = 1..n + 1 /\ DOMAIN registry = 1..n
    BY <2>3
  <2>5. \A i \in 1..n : registry[i].job # j
    BY <1>2, <2>4 DEF Registered
  <2>6. \A i \in 1..n + 1 :
          \/ i \in 1..n /\ registry'[i] = registry[i]
          \/ i = n + 1 /\ registry'[i].job = j
    BY <2>1, <2>3
  <2>7. OneRecordEach'
    BY <2>4, <2>5, <2>6 DEF OneRecordEach
  <2>8. \A k \in Jobs : Registered(k)' <=> Registered(k) \/ k = j
    <3> SUFFICES ASSUME NEW k \in Jobs
                 PROVE  (\E i \in 1..n + 1 : registry'[i].job = k)
                          <=> (\E i \in 1..n : registry[i].job = k) \/ k = j
      BY <2>4 DEF Registered
    <3>1. n + 1 \in 1..n + 1 /\ \A i \in 1..n : i \in 1..n + 1
      BY <2>3
    <3> QED
      BY <3>1, <2>1, <2>3, <2>6
  <2> QED
    BY <1>2, <2>3, <2>4, <2>6, <2>7, <2>8
<1> QED
  BY <1>1, <1>2

\* A job's step keeps the bound if it drops records, or leaves them alone, or
\* brings back the record of a job that stays under way.
LEMMA BoundAfterSet ==
  ASSUME Len(registry') <= MaxJobs, Len(registry') \in Nat
  PROVE  FewRecords'
<1>1. IsFiniteSet(Revivable')
  <2>1. Revivable' \subseteq Jobs
    BY DEF Revivable
  <2> QED
    BY <2>1, IngestAssumption, FS_Subset
<1>2. Cardinality(Revivable') \in Nat
  BY <1>1, FS_CardinalityType
<1> QED
  BY <1>2, IngestAssumption DEF FewRecords

LEMMA BoundAfterMove ==
  ASSUME FewRecords, registry' = registry, \A j \in Jobs : Underway(j)' <=> Underway(j)
  PROVE  FewRecords'
<1>1. Revivable' = Revivable
  BY DEF Revivable, Registered
<1> QED
  BY <1>1 DEF FewRecords

LEMMA BoundAfterLog ==
  ASSUME TypeOK, FewRecords, OneRecordEach, NEW j \in Jobs, Underway(j), AppendIngestLog(j),
         \A k \in Jobs : Underway(k)' <=> Underway(k)
  PROVE  FewRecords'
<1>1. CASE Registered(j)
  <2>1. registry' = registry
    BY <1>1 DEF AppendIngestLog
  <2> QED
    BY <2>1, BoundAfterMove
<1>2. CASE ~Registered(j)
  <2>1. registry \in Seq(Records)
    BY DEF TypeOK
  <2>2. /\ Len(registry') = Len(registry) + 1
        /\ \A k \in Jobs : Registered(k)' <=> Registered(k) \/ k = j
    BY <1>2, <2>1, AppendFacts
  <2>3. Revivable' = Revivable \cup {j} /\ j \notin Revivable
    BY <1>2, <2>2 DEF Revivable
  <2>4. IsFiniteSet(Revivable)
    <3>1. Revivable \subseteq Jobs
      BY DEF Revivable
    <3> QED
      BY <3>1, IngestAssumption, FS_Subset
  <2>5. Cardinality(Revivable') = Cardinality(Revivable) + 1 /\ Cardinality(Revivable) \in Nat
    BY <2>3, <2>4, FS_AddElement, FS_CardinalityType
  <2>6. Len(registry) \in Nat
    BY <2>1
  <2> QED
    BY <2>2, <2>5, <2>6, IngestAssumption DEF FewRecords
<1> QED
  BY <1>1, <1>2

-----------------------------------------------------------------------------
LEMMA InitTypeOK == Init => TypeOK
<1> SUFFICES ASSUME Init PROVE TypeOK
  OBVIOUS
<1>1. wroteAt \in Seq(0..MaxTime) /\ Len(wroteAt) = newest
  BY DEF Init
<1>2. registry \in Seq(Records)
  BY DEF Init
<1> QED
  BY <1>1, <1>2, IngestAssumption DEF Init, TypeOK, JobStages, SearchStages

\* The steps of a job that neither write to the lake nor touch the registry.
LEMMA JobStepType ==
  ASSUME TypeOK, NEW j \in Jobs, NEW from, NEW to \in JobStages, JobStep(j, from, to),
         registry' \in Seq(Records), cache' \in {cache, None}, UNCHANGED <<lakeVars, yearOf>>
  PROVE  TypeOK'
<1>1. stage' \in [Jobs -> JobStages]
  BY DEF TypeOK, JobStep
<1>2. /\ now' = now /\ newest' = newest /\ wroteAt' = wroteAt /\ yearOf' = yearOf
      /\ search' = search /\ began' = began /\ announced' = announced /\ answer' = answer
  BY DEF JobStep, lakeVars, searchVars
<1> QED
  BY <1>1, <1>2 DEF TypeOK

LEMMA WriteType ==
  ASSUME TypeOK, NEW j \in Jobs, Write(j)
  PROVE  TypeOK'
<1> USE DEF Write
<1>1. newest' = newest + 1 /\ newest \in Nat /\ now \in 0..MaxTime
  BY DEF TypeOK
<1>2. wroteAt' \in Seq(0..MaxTime) /\ Len(wroteAt') = newest'
  <2>1. wroteAt \in Seq(0..MaxTime) /\ Len(wroteAt) = newest /\ wroteAt' = Append(wroteAt, now)
    BY DEF TypeOK
  <2>2. /\ Append(wroteAt, now) \in Seq(0..MaxTime)
        /\ Len(Append(wroteAt, now)) = Len(wroteAt) + 1
    BY <1>1, <2>1, AppendProperties
  <2> QED
    BY <1>1, <2>1, <2>2
<1>3. 0..newest \subseteq 0..newest' /\ newest + 1 \in 0..newest'
  BY <1>1
<1>4. stage' \in [Jobs -> JobStages] /\ yearOf' \in [Jobs -> 0..newest']
  BY <1>3 DEF TypeOK, JobStep, JobStages
<1>5. announced' \in [Searches -> SUBSET (0..newest')] /\ answer' \in [Searches -> 0..newest']
  BY <1>3 DEF TypeOK, JobStep, searchVars
<1>6. cache' = None \/ cache' \in [year : 0..newest', expires : Nat]
  BY <1>3 DEF TypeOK
<1> QED
  BY <1>1, <1>2, <1>4, <1>5, <1>6 DEF TypeOK, JobStep, searchVars

LEMMA SearchStepType ==
  ASSUME TypeOK, NEW s \in Searches, Lookup(s) \/ Compute(s) \/ Store(s)
  PROVE  TypeOK'
<1>1. CASE Lookup(s)
  <2>1. \A j \in Jobs : yearOf[j] \in 0..newest
    BY DEF TypeOK
  <2>2. announced' \in [Searches -> SUBSET (0..newest)]
    BY <1>1, <2>1 DEF Lookup, TypeOK, Completed
  <2>3. answer' \in [Searches -> 0..newest] /\ search' \in [Searches -> SearchStages]
    BY <1>1 DEF Lookup, TypeOK, SearchStages
  <2>4. began' \in [Searches -> 0..MaxTime]
    BY <1>1 DEF Lookup, TypeOK
  <2> QED
    BY <1>1, <2>2, <2>3, <2>4 DEF Lookup, TypeOK, lakeVars, jobVars
<1>2. CASE Compute(s)
  <2>1. answer' \in [Searches -> 0..newest] /\ search' \in [Searches -> SearchStages]
    BY <1>2 DEF Compute, TypeOK, SearchStages
  <2> QED
    BY <1>2, <2>1 DEF Compute, TypeOK, lakeVars, jobVars
<1>3. CASE Store(s)
  <2>1. cache' \in [year : 0..newest, expires : Nat]
    BY <1>3, IngestAssumption DEF Store, TypeOK
  <2>2. search' \in [Searches -> SearchStages]
    BY <1>3 DEF Store, TypeOK, SearchStages
  <2> QED
    BY <1>3, <2>1, <2>2 DEF Store, TypeOK, lakeVars, jobVars
<1> QED
  BY <1>1, <1>2, <1>3

\* Types and the registry, over the steps of a job.
LEMMA JobStepKeeps ==
  ASSUME TypeOK, RegistryInv, NEW j \in Jobs,
         \/ Launch(j) \/ Spawn(j) \/ Log(j) \/ Write(j) \/ Exit(j)
         \/ ResetLatestYears(j) \/ Finish(j)
  PROVE  TypeOK' /\ RegistryInv'
<1>0. /\ registry \in Seq(Records) /\ stage \in [Jobs -> JobStages]
      /\ OneRecordEach /\ FewRecords /\ OutcomeStands
  BY DEF TypeOK, RegistryInv
<1>j. \A i \in DOMAIN registry : registry[i].job \in Jobs
  <2>1. \A i \in DOMAIN registry : registry[i] \in Records
    BY <1>0
  <2> QED
    BY <2>1 DEF Records
\* Steps that set the record of j along with its stage.
<1>s. ASSUME NEW from, NEW to \in JobStages,
             NEW status \in {"running", "completed", "failed", "absent"},
             JobStep(j, from, to), SetIngestJob(j, status),
             UNCHANGED <<lakeVars, yearOf, cache>>,
             to = "completed" => status = "completed",
             to = "gaveUp" => status = "failed"
      PROVE  TypeOK' /\ RegistryInv'
  <2>1. /\ registry' \in Seq(Records) /\ OneRecordEach' /\ Len(registry') <= MaxJobs
        /\ \A i \in DOMAIN registry' :
              \/ registry'[i] = [job |-> j, status |-> status]
              \/ /\ registry'[i].job # j
                 /\ \E k \in DOMAIN registry : registry'[i] = registry[k]
    BY <1>s, <1>0, SetFacts
  <2>2. TypeOK'
    BY <1>s, <2>1, JobStepType
  <2>3. FewRecords'
    BY <2>1, BoundAfterSet
  <2>4. stage'[j] = to /\ \A k \in Jobs \ {j} : stage'[k] = stage[k]
    BY <1>s, <1>0 DEF JobStep
  <2>5. OutcomeStands'
    <3> SUFFICES ASSUME NEW i \in DOMAIN registry'
                 PROVE  /\ stage'[registry'[i].job] = "completed" =>
                             registry'[i].status = "completed"
                        /\ stage'[registry'[i].job] = "gaveUp" =>
                             registry'[i].status = "failed"
      BY DEF OutcomeStands
    <3>1. CASE registry'[i] = [job |-> j, status |-> status]
      BY <3>1, <1>s, <2>4
    <3>2. CASE registry'[i].job # j /\ \E k \in DOMAIN registry : registry'[i] = registry[k]
      BY <3>2, <1>0, <1>j, <2>4 DEF OutcomeStands
    <3> QED
      BY <3>1, <3>2, <2>1
  <2> QED
    BY <2>2, <2>3, <2>5, <2>1 DEF RegistryInv
\* Steps of a job under way that log a line.
<1>l. ASSUME Underway(j), AppendIngestLog(j), TypeOK',
             stage' = stage \/ \E to \in {"running"} : stage' = [stage EXCEPT ![j] = to]
      PROVE  RegistryInv'
  <2>1. /\ stage[j] \notin {"completed", "gaveUp", "idle"}
        /\ stage'[j] \notin {"completed", "gaveUp", "idle"}
        /\ \A k \in Jobs \ {j} : stage'[k] = stage[k]
    BY <1>l, <1>0 DEF Underway
  <2>2. /\ OneRecordEach'
        /\ \A i \in DOMAIN registry' :
              \/ registry'[i].job = j
              \/ \E k \in DOMAIN registry : registry'[i] = registry[k]
    BY <1>l, <1>0, AppendFacts
  <2>3. \A k \in Jobs : Underway(k)' <=> Underway(k)
    BY <2>1 DEF Underway
  <2>4. FewRecords'
    BY <1>0, <1>l, <2>3, BoundAfterLog
  <2>5. OutcomeStands'
    <3> SUFFICES ASSUME NEW i \in DOMAIN registry'
                 PROVE  /\ stage'[registry'[i].job] = "completed" =>
                             registry'[i].status = "completed"
                        /\ stage'[registry'[i].job] = "gaveUp" =>
                             registry'[i].status = "failed"
      BY DEF OutcomeStands
    <3>1. CASE registry'[i].job = j
      BY <3>1, <2>1
    <3>2. CASE registry'[i].job # j /\ \E k \in DOMAIN registry : registry'[i] = registry[k]
      BY <3>2, <1>0, <1>j, <2>1 DEF OutcomeStands
    <3> QED
      BY <3>1, <3>2, <2>2
  <2> QED
    BY <2>2, <2>4, <2>5 DEF RegistryInv
\* Steps of a job under way that leave the registry alone.
<1>m. ASSUME registry' = registry, NEW to \in JobStages, Underway(j),
             stage' = [stage EXCEPT ![j] = to], to \notin {"completed", "gaveUp", "idle"}
      PROVE  RegistryInv'
  <2>1. /\ stage[j] \notin {"completed", "gaveUp", "idle"}
        /\ stage'[j] \notin {"completed", "gaveUp", "idle"}
        /\ \A k \in Jobs \ {j} : stage'[k] = stage[k]
    BY <1>m, <1>0 DEF Underway
  <2>2. \A k \in Jobs : Underway(k)' <=> Underway(k)
    BY <2>1 DEF Underway
  <2>3. FewRecords'
    BY <1>0, <1>m, <2>2, BoundAfterMove
  <2>4. OutcomeStands'
    BY <1>0, <1>j, <1>m, <2>1 DEF OutcomeStands
  <2>5. OneRecordEach'
    BY <1>0, <1>m DEF OneRecordEach
  <2> QED
    BY <2>3, <2>4, <2>5 DEF RegistryInv
<1>1. CASE Launch(j)
  <2>1. "starting" \in JobStages
    BY DEF JobStages
  <2> QED
    BY <1>1, <1>s, <2>1 DEF Launch
<1>2. CASE Spawn(j)
  <2>1. registry' \in Seq(Records)
    BY <1>2, <1>0, AppendFacts DEF Spawn
  <2>2. TypeOK'
    <3>1. "running" \in JobStages
      BY DEF JobStages
    <3> QED
      BY <1>2, <2>1, <3>1, JobStepType DEF Spawn
  <2>3. Underway(j) /\ stage' = [stage EXCEPT ![j] = "running"]
    BY <1>2 DEF Spawn, JobStep, Underway
  <2> QED
    BY <1>2, <1>l, <2>2, <2>3 DEF Spawn
<1>3. CASE Log(j)
  <2>1. registry' \in Seq(Records)
    BY <1>3, <1>0, AppendFacts DEF Log
  <2>2. TypeOK'
    BY <1>3, <2>1 DEF Log, TypeOK, lakeVars, searchVars
  <2>3. Underway(j) /\ stage' = stage
    BY <1>3 DEF Log, Underway
  <2> QED
    BY <1>3, <1>l, <2>2, <2>3 DEF Log
<1>4. CASE Write(j)
  <2>1. TypeOK'
    BY <1>4, WriteType
  <2>2. /\ registry' = registry /\ Underway(j) /\ "running" \in JobStages
        /\ stage' = [stage EXCEPT ![j] = "running"]
    BY <1>4 DEF Write, JobStep, Underway, JobStages
  <2> QED
    BY <1>m, <2>1, <2>2
<1>5. CASE Exit(j)
  <2>1. PICK to \in {"succeeded", "failed"} : JobStep(j, "running", to)
    BY <1>5 DEF Exit
  <2>2. to \in JobStages /\ to \notin {"completed", "gaveUp", "idle"}
    BY DEF JobStages
  <2>3. TypeOK'
    BY <1>5, <1>0, <2>1, <2>2, JobStepType DEF Exit
  <2>4. registry' = registry /\ Underway(j) /\ stage' = [stage EXCEPT ![j] = to]
    BY <1>5, <2>1 DEF Exit, JobStep, Underway
  <2> QED
    BY <1>m, <2>2, <2>3, <2>4
<1>6. CASE ResetLatestYears(j)
  <2>1. "published" \in JobStages
    BY DEF JobStages
  <2>2. TypeOK'
    BY <1>6, <1>0, <2>1, JobStepType DEF ResetLatestYears
  <2>3. /\ registry' = registry /\ Underway(j)
        /\ stage' = [stage EXCEPT ![j] = "published"]
    BY <1>6 DEF ResetLatestYears, JobStep, Underway
  <2> QED
    BY <1>m, <2>1, <2>2, <2>3
<1>7. CASE Finish(j)
  <2>1. "completed" \in JobStages /\ "gaveUp" \in JobStages
    BY DEF JobStages
  <2>2. CASE JobStep(j, "published", "completed") /\ SetIngestJob(j, "completed")
    BY <1>7, <1>s, <2>1, <2>2 DEF Finish
  <2>3. CASE JobStep(j, "failed", "gaveUp") /\ SetIngestJob(j, "failed")
    BY <1>7, <1>s, <2>1, <2>3 DEF Finish
  <2> QED
    BY <1>7, <2>2, <2>3 DEF Finish
<1> QED
  BY <1>1, <1>2, <1>3, <1>4, <1>5, <1>6, <1>7

LEMMA SearchAndClockKeep ==
  ASSUME TypeOK, RegistryInv,
         \/ \E s \in Searches : Lookup(s) \/ Compute(s) \/ Store(s)
         \/ Tick
         \/ UNCHANGED vars
  PROVE  TypeOK' /\ RegistryInv'
<1>1. TypeOK'
  <2>1. CASE \E s \in Searches : Lookup(s) \/ Compute(s) \/ Store(s)
    BY <2>1, SearchStepType
  <2>2. CASE Tick
    <3>1. now' \in 0..MaxTime
      BY <2>2, IngestAssumption DEF Tick, TypeOK
    <3> QED
      BY <2>2, <3>1 DEF Tick, TypeOK, lakeVars, jobVars, searchVars
  <2>3. CASE UNCHANGED vars
    BY <2>3 DEF vars, TypeOK, lakeVars, jobVars, searchVars
  <2> QED
    BY <2>1, <2>2, <2>3
<1>2. registry' = registry /\ stage' = stage
  BY DEF Lookup, Compute, Store, Tick, vars, jobVars
<1>3. FewRecords'
  BY <1>2, BoundAfterMove DEF RegistryInv, Underway
<1>4. OneRecordEach' /\ OutcomeStands'
  BY <1>2 DEF RegistryInv, OneRecordEach, OutcomeStands
<1> QED
  BY <1>1, <1>3, <1>4 DEF RegistryInv

-----------------------------------------------------------------------------
LEMMA TimesAreNaturals ==
  TypeOK =>
    /\ now \in Nat /\ newest \in Nat
    /\ \A y \in 1..newest : wroteAt[y] \in Nat
    /\ \A s \in Searches : began[s] \in Nat /\ answer[s] \in Nat
    /\ cache # None => cache.expires \in Nat
<1> SUFFICES ASSUME TypeOK
             PROVE  /\ now \in Nat /\ newest \in Nat
                    /\ \A y \in 1..newest : wroteAt[y] \in Nat
                    /\ \A s \in Searches : began[s] \in Nat /\ answer[s] \in Nat
                    /\ cache # None => cache.expires \in Nat
  OBVIOUS
<1>1. now \in Nat /\ newest \in Nat
  BY DEF TypeOK
<1>2. \A y \in 1..newest : wroteAt[y] \in Nat
  <2>1. wroteAt \in Seq(0..MaxTime) /\ Len(wroteAt) = newest
    BY DEF TypeOK
  <2>2. \A y \in 1..newest : wroteAt[y] \in 0..MaxTime
    BY <2>1, ElementOfSeq
  <2> QED
    BY <2>2
<1>3. \A s \in Searches : began[s] \in Nat /\ answer[s] \in Nat
  BY DEF TypeOK
<1>4. cache # None => cache.expires \in Nat
  BY DEF TypeOK
<1> QED
  BY <1>1, <1>2, <1>3, <1>4

\* A write comes now: no valid entry, and no listing under way, need know it.
LEMMA CacheAfterWrite ==
  ASSUME TypeOK, CacheInv, NEW j \in Jobs, Write(j)
  PROVE  CacheInv'
<1>1. /\ newest \in Nat /\ newest' = newest + 1 /\ now \in Nat /\ now' = now
      /\ cache' = cache /\ search' = search /\ began' = began /\ answer' = answer
  BY DEF Write, JobStep, searchVars, TypeOK
<1>2. /\ \A y \in 1..newest : wroteAt'[y] = wroteAt[y]
      /\ wroteAt'[newest + 1] = now
  <2>1. wroteAt \in Seq(0..MaxTime) /\ Len(wroteAt) = newest /\ wroteAt' = Append(wroteAt, now)
    BY DEF TypeOK, Write
  <2>2. now \in 0..MaxTime
    BY DEF TypeOK
  <2> QED
    BY <2>1, <2>2, AppendProperties
<1>3. \A y \in 1..newest' : y \in 1..newest \/ (y = newest + 1 /\ wroteAt'[y] = now)
  BY <1>1, <1>2
<1>4. TimesPassed'
  BY <1>1, <1>2, <1>3 DEF CacheInv, TimesPassed
<1>5. EntryCovers'
  <2> SUFFICES ASSUME cache # None
               PROVE  /\ cache.expires <= now + Ttl
                      /\ \A y \in 1..newest' : wroteAt'[y] + Ttl < cache.expires => y <= cache.year
    BY <1>1 DEF EntryCovers
  <2>1. cache.expires \in Nat /\ cache.expires <= now + Ttl
    BY DEF TypeOK, CacheInv, EntryCovers
  <2>2. \A y \in 1..newest : wroteAt'[y] + Ttl < cache.expires => y <= cache.year
    BY <1>2 DEF CacheInv, EntryCovers
  <2> QED
    BY <1>1, <1>3, <2>1, <2>2, IngestAssumption
<1>6. ListingCovers'
  <2> SUFFICES ASSUME NEW s \in Searches, search[s] = "storing",
                      NEW y \in 1..newest', wroteAt'[y] < began[s]
               PROVE  y <= answer[s]
    BY <1>1 DEF ListingCovers
  <2>1. began[s] \in Nat /\ began[s] <= now
    BY DEF TypeOK, CacheInv, TimesPassed
  <2>2. y \in 1..newest
    BY <1>1, <1>3, <2>1
  <2> QED
    BY <1>2, <2>2 DEF CacheInv, ListingCovers
<1> QED
  BY <1>4, <1>5, <1>6 DEF CacheInv

LEMMA CacheAfterSearch ==
  ASSUME TypeOK, CacheInv, NEW s \in Searches, Lookup(s) \/ Compute(s) \/ Store(s)
  PROVE  CacheInv'
<1>1. /\ now' = now /\ newest' = newest /\ wroteAt' = wroteAt
      /\ now \in Nat /\ newest \in Nat
      /\ \A y \in 1..newest : wroteAt[y] \in Nat
  BY TimesAreNaturals DEF Lookup, Compute, Store, lakeVars
<1>2. \A r \in Searches : began[r] \in Nat /\ began[r] <= now /\ answer[r] \in Nat
  BY DEF TypeOK, CacheInv, TimesPassed
<1>3. CASE Lookup(s)
  <2>1. cache' = cache /\ \A r \in Searches \ {s} :
          search'[r] = search[r] /\ began'[r] = began[r] /\ answer'[r] = answer[r]
    BY <1>3 DEF Lookup, TypeOK
  <2>2. began'[s] = now /\ search'[s] # "storing"
    BY <1>3 DEF Lookup, TypeOK
  <2>3. TimesPassed'
    BY <1>1, <2>1, <2>2 DEF CacheInv, TimesPassed
  <2>4. EntryCovers'
    BY <1>1, <2>1 DEF CacheInv, EntryCovers
  <2>5. ListingCovers'
    BY <1>1, <2>1, <2>2 DEF CacheInv, ListingCovers
  <2> QED
    BY <2>3, <2>4, <2>5 DEF CacheInv
<1>4. CASE Compute(s)
  <2>1. cache' = cache /\ began' = began /\ answer'[s] = newest
        /\ \A r \in Searches \ {s} : search'[r] = search[r] /\ answer'[r] = answer[r]
    BY <1>4 DEF Compute, TypeOK
  <2>2. TimesPassed' /\ EntryCovers'
    BY <1>1, <2>1 DEF CacheInv, TimesPassed, EntryCovers
  <2>3. ListingCovers'
    <3> SUFFICES ASSUME NEW r \in Searches, search'[r] = "storing",
                        NEW y \in 1..newest, wroteAt[y] < began[r]
                 PROVE  y <= answer'[r]
      BY <1>1, <2>1 DEF ListingCovers
    <3>1. CASE r = s
      BY <3>1, <1>1, <2>1
    <3>2. CASE r # s
      BY <3>2, <2>1 DEF CacheInv, ListingCovers
    <3> QED
      BY <3>1, <3>2
  <2> QED
    BY <2>2, <2>3 DEF CacheInv
<1>5. CASE Store(s)
  <2>1. /\ began' = began /\ answer' = answer
        /\ cache' = [year |-> answer[s], expires |-> began[s] + Ttl]
        /\ search[s] = "storing"
        /\ \A r \in Searches : search'[r] = "storing" => search[r] = "storing"
    BY <1>5 DEF Store, TypeOK
  <2>2. TimesPassed' /\ ListingCovers'
    BY <1>1, <2>1 DEF CacheInv, TimesPassed, ListingCovers
  <2>3. cache'.expires <= now + Ttl
    BY <1>1, <1>2, <2>1, IngestAssumption
  <2>4. \A y \in 1..newest : wroteAt[y] + Ttl < cache'.expires => y <= cache'.year
    <3> SUFFICES ASSUME NEW y \in 1..newest, wroteAt[y] + Ttl < began[s] + Ttl
                 PROVE  y <= answer[s]
      BY <2>1
    <3>1. wroteAt[y] < began[s]
      BY <1>1, <1>2, IngestAssumption
    <3> QED
      BY <3>1, <2>1 DEF CacheInv, ListingCovers
  <2>5. EntryCovers'
    BY <1>1, <2>3, <2>4 DEF EntryCovers
  <2> QED
    BY <2>2, <2>5 DEF CacheInv
<1> QED
  BY <1>3, <1>4, <1>5

LEMMA CacheStep == TypeOK /\ CacheInv /\ [Next]_vars => CacheInv'
<1> SUFFICES ASSUME TypeOK, CacheInv, [Next]_vars PROVE CacheInv'
  OBVIOUS
<1>1. ASSUME /\ newest' = newest /\ wroteAt' = wroteAt /\ now' \in {now, now + 1}
             /\ cache' \in {cache, None} /\ began' = began /\ answer' = answer
             /\ search' = search
      PROVE  CacheInv'
  <2>1. now \in Nat /\ (\A y \in 1..newest : wroteAt[y] \in Nat)
        /\ (\A s \in Searches : began[s] \in Nat) /\ (cache # None => cache.expires \in Nat)
    BY TimesAreNaturals
  <2>2. TimesPassed'
    BY <1>1, <2>1 DEF CacheInv, TimesPassed
  <2>3. EntryCovers'
    BY <1>1, <2>1, IngestAssumption DEF CacheInv, EntryCovers
  <2>4. ListingCovers'
    BY <1>1 DEF CacheInv, ListingCovers
  <2> QED
    BY <2>2, <2>3, <2>4 DEF CacheInv
<1>2. ASSUME NEW j \in Jobs,
             Launch(j) \/ Spawn(j) \/ Log(j) \/ Exit(j) \/ ResetLatestYears(j) \/ Finish(j)
      PROVE  CacheInv'
  BY <1>1, <1>2
     DEF Launch, Spawn, Log, Exit, ResetLatestYears, Finish, JobStep, lakeVars, searchVars
<1>3. CASE Tick
  BY <1>1, <1>3 DEF Tick, lakeVars, searchVars
<1>4. CASE UNCHANGED vars
  BY <1>1, <1>4 DEF vars, lakeVars, searchVars
<1> QED
  BY <1>2, <1>3, <1>4, CacheAfterWrite, CacheAfterSearch DEF Next

-----------------------------------------------------------------------------
LEMMA InitRegistry == Init => RegistryInv
<1> SUFFICES ASSUME Init PROVE RegistryInv
  OBVIOUS
<1>1. DOMAIN registry = {} /\ Len(registry) = 0
  BY DEF Init
<1>2. IsFiniteSet(Revivable)
  <2>1. Revivable \subseteq Jobs
    BY DEF Revivable
  <2> QED
    BY <2>1, IngestAssumption, FS_Subset
<1>3. FewRecords
  BY <1>1, <1>2, FS_CardinalityType, IngestAssumption DEF FewRecords
<1> QED
  BY <1>1, <1>3 DEF RegistryInv, OneRecordEach, OutcomeStands

LEMMA InitCache == Init => CacheInv
BY DEF Init, CacheInv, TimesPassed, EntryCovers, ListingCovers

LEMMA RegistryStep == TypeOK /\ RegistryInv /\ [Next]_vars => TypeOK' /\ RegistryInv'
BY JobStepKeeps, SearchAndClockKeep DEF Next

\* The registry of jobs, the cache, the lake and the searches keep their types.
THEOREM TypeCorrectness == Spec => []TypeOK
<1>1. Init => TypeOK /\ RegistryInv
  BY InitTypeOK, InitRegistry
<1> QED
  BY <1>1, RegistryStep, PTL DEF Spec

\* The inductive invariant: the types, what the registry keeps, and what the
\* newest-year cache has covered (ingest_jobs.py, lake.py).
THEOREM InvariantHolds == Spec => [](TypeOK /\ RegistryInv /\ CacheInv)
<1>1. Init => TypeOK /\ RegistryInv /\ CacheInv
  BY InitTypeOK, InitRegistry, InitCache
<1> QED
  BY <1>1, RegistryStep, CacheStep, PTL DEF Spec

\* However many ingests run, the registry has one record per job and exceeds
\* its limit only by jobs that are under way (set_ingest_job, append_ingest_log).
THEOREM RegistryStaysBounded == Spec => []RegistryBounded
<1>1. TypeOK /\ RegistryInv => RegistryBounded
  <2> SUFFICES ASSUME TypeOK, RegistryInv PROVE RegistryBounded
    OBVIOUS
  <2> DEFINE busy == {j \in Jobs : Underway(j)}
  <2>1. Revivable \subseteq busy /\ busy \subseteq Jobs
    BY DEF Revivable
  <2>2. IsFiniteSet(busy)
    BY <2>1, IngestAssumption, FS_Subset
  <2>3. /\ Cardinality(Revivable) <= Cardinality(busy) /\ Cardinality(busy) \in Nat
        /\ Cardinality(Revivable) \in Nat
    <3>1. IsFiniteSet(Revivable)
      BY <2>1, <2>2, FS_Subset
    <3> QED
      BY <2>1, <2>2, <3>1, FS_Subset, FS_CardinalityType
  <2>4. Len(registry) \in Nat
    BY DEF TypeOK
  <2> QED
    BY <2>3, <2>4, IngestAssumption DEF RegistryInv, FewRecords, RegistryBounded
<1> QED
  BY <1>1, InvariantHolds, PTL

\* What the registry says of a finished job is how it ended, whatever other
\* jobs and late log lines do (run_ingest_job, append_ingest_log).
THEOREM OutcomesStand == Spec => []OutcomeStands
<1>1. RegistryInv => OutcomeStands
  BY DEF RegistryInv
<1> QED
  BY <1>1, InvariantHolds, PTL

\* An answer from the newest-year cache is never more than Ttl behind the lake,
\* for any interleaving of slow listings, ingests and resets
\* (cached_latest_years, reset_latest_years_cache).
THEOREM StalenessIsBounded == Spec => StalenessCeiling
<1> DEFINE Fresh == \A s \in Searches :
             (search[s] = "idle" /\ search'[s] = "hit") =>
               \A y \in 1..newest : wroteAt[y] + Ttl <= now => y <= answer'[s]
<1>1. TypeOK /\ CacheInv /\ [Next]_vars => [Fresh]_vars
  <2> SUFFICES ASSUME TypeOK, CacheInv, Next,
                      NEW s \in Searches, search[s] = "idle", search'[s] = "hit",
                      NEW y \in 1..newest, wroteAt[y] + Ttl <= now
               PROVE  y <= answer'[s]
    OBVIOUS
  <2>1. search' # search
    OBVIOUS
  <2>2. PICK r \in Searches : Lookup(r) \/ Compute(r) \/ Store(r)
    BY <2>1 DEF Next, Launch, Spawn, Log, Write, Exit, ResetLatestYears, Finish, Tick,
                JobStep, searchVars
  <2>3. r = s /\ Lookup(s)
    BY <2>2 DEF Lookup, Compute, Store, TypeOK
  <2>4. cache # None /\ cache.expires > now /\ answer'[s] = cache.year
    BY <2>3 DEF Lookup, TypeOK
  <2>5. cache.expires \in Nat /\ now \in Nat /\ wroteAt[y] \in Nat
    BY <2>4, TimesAreNaturals
  <2>6. wroteAt[y] + Ttl < cache.expires
    BY <2>4, <2>5, IngestAssumption
  <2> QED
    BY <2>4, <2>6 DEF CacheInv, EntryCovers
<1> QED
  BY <1>1, InvariantHolds, PTL DEF Spec, StalenessCeiling

-----------------------------------------------------------------------------
(* The panel.                                                              *)

\* The registry has no running record of job j.
NotRunning(j) == ~\E i \in DOMAIN registry : registry[i] = [job |-> j, status |-> "running"]

\* A record that says so is of an ingest that completed.
RecordsTrue ==
  \A i \in DOMAIN registry :
    registry[i].status = "completed" => stage[registry[i].job] = "completed"

\* A chain knows no more of its ingest than the registry said.
ChainsFollow ==
  \A j \in Jobs :
    /\ told[j] # None => chain[j] = "polling"
    /\ chain[j] \in {"polling", "waiting", "over"} => stage[j] # "idle"
    /\ (told[j] # None /\ told[j] = "completed") => stage[j] = "completed"
    /\ (told[j] # None /\ told[j] \in {"failed", "absent"}) => NotRunning(j)
    /\ chain[j] = "over" => NotRunning(j)
    /\ chain[j] \in {"environment", "availability", "options", "done"} => stage[j] = "completed"

\* A chain awaits one availability, and every answer to a request as late as that one has its year.
CallsFollow ==
  \A c \in calls :
    c.who # None =>
      /\ chain[c.who] = "availability"
      /\ \A d \in calls :
           /\ d.who = c.who => d = c
           /\ (d.seq >= c.seq /\ d.year # None) => yearOf[c.who] <= d.year

\* What a chain has shown is shown still, and no answer that may yet come takes it away.
YearsShown ==
  ~excused => \A j \in Jobs : chain[j] \in {"options", "done"} =>
    /\ yearOf[j] <= available
    /\ chain[j] = "done" => yearOf[j] <= marked
    /\ \A c \in calls : (c.seq >= answered /\ c.year # None) => yearOf[j] <= c.year

PanelCounts == asked \in Nat /\ answered \in Nat

PanelInv == PanelTypeOK /\ PanelCounts /\ RecordsTrue /\ ChainsFollow /\ CallsFollow /\ YearsShown

\* What the panel may count on while the server goes on.
Onward ==
  /\ newest <= newest'
  /\ \A j \in Jobs :
       /\ stage[j] # "idle" => stage'[j] # "idle" /\ (NotRunning(j) => NotRunning(j)')
       /\ stage[j] = "completed" => stage'[j] = "completed" /\ yearOf'[j] = yearOf[j]

-----------------------------------------------------------------------------
\* A log line brings back a record without a status, and changes no other.
LEMMA LogAddsNoStatus ==
  ASSUME registry \in Seq(Records), NEW j \in Jobs, AppendIngestLog(j)
  PROVE  \A i \in DOMAIN registry' :
           \/ registry'[i] = [job |-> j, status |-> "absent"]
           \/ \E k \in DOMAIN registry : registry'[i] = registry[k]
<1>1. CASE Registered(j)
  <2>1. registry' = registry
    BY <1>1 DEF AppendIngestLog
  <2> QED
    BY <2>1
<1>2. CASE ~Registered(j)
  <2> DEFINE rec == [job |-> j, status |-> "absent"]
             n == Len(registry)
  <2>1. rec \in Records
    BY DEF Records
  <2>2. registry' = Append(registry, rec)
    BY <1>2 DEF AppendIngestLog
  <2> HIDE DEF rec
  <2>3. /\ registry' \in Seq(Records) /\ Len(registry') = n + 1 /\ n \in Nat
        /\ \A i \in 1..n : registry'[i] = registry[i]
        /\ registry'[n + 1] = rec
    BY <2>1, <2>2, AppendProperties
  <2>4. DOMAIN registry' = 1..n + 1 /\ DOMAIN registry = 1..n
    BY <2>3
  <2>5. \A i \in 1..n + 1 : i \in 1..n \/ i = n + 1
    BY <2>3
  <2>6. rec = [job |-> j, status |-> "absent"]
    BY DEF rec
  <2> QED
    BY <2>3, <2>4, <2>5, <2>6, Zenon
<1> QED
  BY <1>1, <1>2

\* An update writes the record of its job, and copies or drops the others.
LEMMA UpdateWritesOne ==
  ASSUME TypeOK, RegistryInv, NEW j \in Jobs, NEW to, NEW status \in {"running", "completed", "failed"},
         SetIngestJob(j, status), stage' = [stage EXCEPT ![j] = to],
         RecordsTrue, status = "completed" => to = "completed", stage[j] # "completed",
         status = "running" => stage[j] = "idle", to # "idle"
  PROVE  /\ RecordsTrue'
         /\ \A k \in Jobs : stage[k] # "idle" /\ NotRunning(k) => NotRunning(k)'
<1>1. /\ registry' \in Seq(Records)
      /\ \A i \in DOMAIN registry' :
           \/ registry'[i] = [job |-> j, status |-> status]
           \/ registry'[i].job # j /\ \E k \in DOMAIN registry : registry'[i] = registry[k]
  BY SetFacts DEF TypeOK, RegistryInv
<1>2. /\ stage'[j] = to /\ \A k \in Jobs \ {j} : stage'[k] = stage[k]
      /\ \A i \in DOMAIN registry : registry[i] \in Records
  <2>1. stage \in [Jobs -> JobStages] /\ registry \in Seq(Records)
    BY DEF TypeOK
  <2> QED
    BY <2>1, ElementOfSeq
<1>3. ASSUME NEW i \in DOMAIN registry', registry'[i].status = "completed"
      PROVE  stage'[registry'[i].job] = "completed"
  <2>1. CASE registry'[i] = [job |-> j, status |-> status]
    BY <1>2, <1>3, <2>1
  <2>2. CASE registry'[i].job # j /\ \E k \in DOMAIN registry : registry'[i] = registry[k]
    <3>1. PICK k \in DOMAIN registry : registry'[i] = registry[k]
      BY <2>2
    <3>2. registry[k].job \in Jobs \ {j}
      BY <1>2, <2>2, <3>1 DEF Records
    <3> QED
      BY <1>2, <1>3, <3>1, <3>2 DEF RecordsTrue
  <2> QED
    BY <1>1, <2>1, <2>2
<1>4. ASSUME NEW k \in Jobs, stage[k] # "idle", NotRunning(k),
             NEW i \in DOMAIN registry', registry'[i] = [job |-> k, status |-> "running"]
      PROVE  FALSE
  <2>1. registry'[i].job = k /\ registry'[i].status = "running"
    BY <1>4
  <2>2. CASE registry'[i] = [job |-> j, status |-> status]
    BY <1>4, <2>1, <2>2
  <2>3. CASE \E l \in DOMAIN registry : registry'[i] = registry[l]
    BY <1>4, <2>3 DEF NotRunning
  <2> QED
    BY <1>1, <2>2, <2>3
<1> QED
  BY <1>3, <1>4 DEF RecordsTrue, NotRunning

\* A log line of a job that runs says nothing of how any job stands.
LEMMA LogWritesNone ==
  ASSUME TypeOK, NEW j \in Jobs, AppendIngestLog(j), RecordsTrue,
         \A k \in Jobs : stage[k] = "completed" => stage'[k] = "completed"
  PROVE  RecordsTrue' /\ \A k \in Jobs : NotRunning(k) => NotRunning(k)'
<1>1. \A i \in DOMAIN registry' :
        \/ registry'[i] = [job |-> j, status |-> "absent"]
        \/ \E k \in DOMAIN registry : registry'[i] = registry[k]
  BY LogAddsNoStatus DEF TypeOK
<1>2. \A i \in DOMAIN registry : registry[i].job \in Jobs
  <2>1. registry \in Seq(Records)
    BY DEF TypeOK
  <2>2. \A i \in DOMAIN registry : registry[i] \in Records
    BY <2>1, ElementOfSeq
  <2> QED
    BY <2>2 DEF Records
<1>3. ASSUME NEW i \in DOMAIN registry', registry'[i].status = "completed"
      PROVE  stage'[registry'[i].job] = "completed"
  <2>1. PICK k \in DOMAIN registry : registry'[i] = registry[k]
    BY <1>1, <1>3
  <2> QED
    BY <1>2, <1>3, <2>1 DEF RecordsTrue
<1>4. ASSUME NEW k \in Jobs, NotRunning(k),
             NEW i \in DOMAIN registry', registry'[i] = [job |-> k, status |-> "running"]
      PROVE  FALSE
  <2>1. registry'[i].status = "running"
    BY <1>4
  <2>2. PICK l \in DOMAIN registry : registry'[i] = registry[l]
    BY <1>1, <2>1
  <2> QED
    BY <1>4, <2>2 DEF NotRunning
<1> QED
  BY <1>3, <1>4 DEF RecordsTrue, NotRunning

\* Whatever step a job takes: no year goes, no ingest begins again or is uncompleted.
LEMMA ServerGoesOnward ==
  ASSUME TypeOK, RegistryInv, RecordsTrue, NEW j \in Jobs,
         \/ Launch(j) \/ Spawn(j) \/ Log(j) \/ Write(j) \/ Exit(j)
         \/ ResetLatestYears(j) \/ Finish(j)
  PROVE  RecordsTrue' /\ Onward
<1>t. /\ stage \in [Jobs -> JobStages] /\ newest \in Nat /\ yearOf \in [Jobs -> 0..newest]
  BY DEF TypeOK
\* Steps that leave the registry and the lake alone.
<1>m. ASSUME NEW from, NEW to, JobStep(j, from, to), from \notin {"idle", "completed"}, to # "idle",
             registry' = registry, newest <= newest',
             \A k \in Jobs : stage[k] = "completed" => yearOf'[k] = yearOf[k]
      PROVE  RecordsTrue' /\ Onward
  <2>1. /\ stage[j] = from /\ stage'[j] = to /\ \A k \in Jobs \ {j} : stage'[k] = stage[k]
    BY <1>m, <1>t DEF JobStep
  <2>2. \A k \in Jobs : stage[k] = "completed" => stage'[k] = "completed"
    BY <1>m, <2>1
  <2>3. RecordsTrue'
    <3>1. \A i \in DOMAIN registry : registry[i] \in Records
      BY ElementOfSeq DEF TypeOK
    <3>2. \A i \in DOMAIN registry : registry[i].job \in Jobs
      BY <3>1 DEF Records
    <3> QED
      BY <1>m, <2>2, <3>2 DEF RecordsTrue
  <2>4. \A k \in Jobs : NotRunning(k) => NotRunning(k)'
    BY <1>m DEF NotRunning
  <2>5. \A k \in Jobs : stage[k] # "idle" => stage'[k] # "idle"
    BY <1>m, <2>1
  <2> QED
    BY <1>m, <2>2, <2>3, <2>4, <2>5 DEF Onward
<1>1. CASE Launch(j)
  <2>1. /\ stage' = [stage EXCEPT ![j] = "starting"] /\ stage[j] = "idle" /\ SetIngestJob(j, "running")
        /\ newest' = newest /\ yearOf' = yearOf
    BY <1>1 DEF Launch, JobStep, lakeVars
  <2>2. RecordsTrue' /\ \A k \in Jobs : stage[k] # "idle" /\ NotRunning(k) => NotRunning(k)'
    BY <2>1, UpdateWritesOne
  <2>3. stage'[j] = "starting" /\ \A k \in Jobs \ {j} : stage'[k] = stage[k]
    BY <1>t, <2>1
  <2> QED
    BY <1>t, <2>1, <2>2, <2>3 DEF Onward
<1>2. CASE Spawn(j) \/ Log(j)
  <2>1. /\ AppendIngestLog(j) /\ newest' = newest /\ yearOf' = yearOf
        /\ stage' = [stage EXCEPT ![j] = "running"] /\ stage[j] \in {"starting", "running"}
    <3>1. CASE Spawn(j)
      BY <3>1 DEF Spawn, JobStep, lakeVars
    <3>2. CASE Log(j)
      <4>1. stage' = stage /\ stage[j] = "running"
        BY <3>2 DEF Log
      <4>2. stage' = [stage EXCEPT ![j] = "running"]
        BY <1>t, <4>1
      <4> QED
        BY <3>2, <4>1, <4>2 DEF Log, lakeVars
    <3> QED
      BY <1>2, <3>1, <3>2
  <2>2. stage'[j] = "running" /\ \A k \in Jobs \ {j} : stage'[k] = stage[k]
    BY <1>t, <2>1
  <2>3. \A k \in Jobs : stage[k] = "completed" => stage'[k] = "completed"
    BY <2>1, <2>2
  <2>4. RecordsTrue' /\ \A k \in Jobs : NotRunning(k) => NotRunning(k)'
    BY <2>1, <2>3, LogWritesNone
  <2> QED
    BY <1>t, <2>1, <2>2, <2>3, <2>4 DEF Onward
<1>3. CASE Write(j)
  <2>1. /\ JobStep(j, "running", "running") /\ newest' = newest + 1 /\ registry' = registry
        /\ yearOf' = [yearOf EXCEPT ![j] = newest + 1] /\ stage[j] = "running"
    BY <1>3 DEF Write, JobStep
  <2>2. \A k \in Jobs : stage[k] = "completed" => yearOf'[k] = yearOf[k]
    BY <1>t, <2>1
  <2>3. newest <= newest'
    BY <1>t, <2>1
  <2> QED
    BY <1>m, <2>1, <2>2, <2>3
<1>4. CASE Exit(j)
  <2>1. PICK to \in {"succeeded", "failed"} : JobStep(j, "running", to)
    BY <1>4 DEF Exit
  <2>2. registry' = registry /\ newest' = newest /\ yearOf' = yearOf
    BY <1>4 DEF Exit, lakeVars
  <2> QED
    BY <1>m, <1>t, <2>1, <2>2
<1>5. CASE ResetLatestYears(j)
  <2>1. /\ JobStep(j, "succeeded", "published")
        /\ registry' = registry /\ newest' = newest /\ yearOf' = yearOf
    BY <1>5 DEF ResetLatestYears, lakeVars
  <2> QED
    BY <1>m, <1>t, <2>1
<1>6. CASE Finish(j)
  <2>1. PICK from \in {"published", "failed"}, to \in {"completed", "gaveUp"},
             status \in {"running", "completed", "failed"} :
          /\ JobStep(j, from, to) /\ SetIngestJob(j, status) /\ status # "running"
          /\ status = "completed" => to = "completed"
    BY <1>6 DEF Finish
  <2>2. /\ stage' = [stage EXCEPT ![j] = to] /\ stage[j] = from
        /\ newest' = newest /\ yearOf' = yearOf
    BY <1>6, <2>1 DEF Finish, JobStep, lakeVars
  <2>3. RecordsTrue' /\ \A k \in Jobs : stage[k] # "idle" /\ NotRunning(k) => NotRunning(k)'
    BY <2>1, <2>2, UpdateWritesOne
  <2>4. stage'[j] = to /\ \A k \in Jobs \ {j} : stage'[k] = stage[k]
    BY <1>t, <2>2
  <2> QED
    BY <1>t, <2>1, <2>2, <2>3, <2>4 DEF Onward
<1> QED
  BY <1>1, <1>2, <1>3, <1>4, <1>5, <1>6

\* The server goes on while the panel waits.
LEMMA PanelKeptByServer ==
  ASSUME TypeOK, TypeOK', PanelInv, RecordsTrue', Onward, UNCHANGED panelVars
  PROVE  PanelInv'
<1> USE DEF PanelInv
<1>1. /\ chain' = chain /\ told' = told /\ pollId' = pollId /\ calls' = calls /\ asked' = asked
      /\ available' = available /\ marked' = marked /\ answered' = answered /\ excused' = excused
  BY DEF panelVars
<1>2. newest \in Nat /\ newest' \in Nat /\ newest <= newest'
  BY DEF TypeOK, Onward
<1>3. 0..newest \subseteq 0..newest'
  BY <1>2
<1>4. PanelTypeOK'
  BY <1>1, <1>3 DEF PanelTypeOK
<1>5. PanelCounts'
  BY <1>1 DEF PanelCounts
<1>6. ChainsFollow'
  <2> SUFFICES ASSUME NEW j \in Jobs
               PROVE  /\ told[j] # None => chain[j] = "polling"
                      /\ chain[j] \in {"polling", "waiting", "over"} => stage'[j] # "idle"
                      /\ (told[j] # None /\ told[j] = "completed") => stage'[j] = "completed"
                      /\ (told[j] # None /\ told[j] \in {"failed", "absent"}) => NotRunning(j)'
                      /\ chain[j] = "over" => NotRunning(j)'
                      /\ chain[j] \in {"environment", "availability", "options", "done"} =>
                           stage'[j] = "completed"
    BY <1>1 DEF ChainsFollow
  <2>1. /\ told[j] # None => chain[j] = "polling"
        /\ chain[j] \in {"polling", "waiting", "over"} => stage[j] # "idle"
        /\ (told[j] # None /\ told[j] = "completed") => stage[j] = "completed"
        /\ (told[j] # None /\ told[j] \in {"failed", "absent"}) => NotRunning(j)
        /\ chain[j] = "over" => NotRunning(j)
        /\ chain[j] \in {"environment", "availability", "options", "done"} => stage[j] = "completed"
    BY DEF ChainsFollow
  <2>2. /\ stage[j] # "idle" => stage'[j] # "idle" /\ (NotRunning(j) => NotRunning(j)')
        /\ stage[j] = "completed" => stage'[j] = "completed"
    BY DEF Onward
  <2> QED
    BY <2>1, <2>2
<1>7. CallsFollow'
  <2> SUFFICES ASSUME NEW c \in calls, c.who # None
               PROVE  /\ chain[c.who] = "availability"
                      /\ \A d \in calls :
                           /\ d.who = c.who => d = c
                           /\ (d.seq >= c.seq /\ d.year # None) => yearOf'[c.who] <= d.year
    BY <1>1 DEF CallsFollow
  <2>1. c.who \in Jobs /\ chain[c.who] = "availability"
    BY DEF CallsFollow, PanelTypeOK
  <2>2. yearOf'[c.who] = yearOf[c.who]
    BY <2>1 DEF ChainsFollow, Onward
  <2> QED
    BY <2>1, <2>2 DEF CallsFollow
<1>8. YearsShown'
  <2> SUFFICES ASSUME ~excused, NEW j \in Jobs, chain[j] \in {"options", "done"}
               PROVE  /\ yearOf'[j] <= available
                      /\ chain[j] = "done" => yearOf'[j] <= marked
                      /\ \A c \in calls : (c.seq >= answered /\ c.year # None) => yearOf'[j] <= c.year
    BY <1>1 DEF YearsShown
  <2>1. yearOf'[j] = yearOf[j]
    BY DEF ChainsFollow, Onward
  <2> QED
    BY <2>1 DEF YearsShown
<1> QED
  BY <1>4, <1>5, <1>6, <1>7, <1>8

-----------------------------------------------------------------------------
(* The steps of the panel leave the server alone.  One of them moves one    *)
(* chain, or the requests of /availability.                                 *)

LEMMA StillServed ==
  ASSUME UNCHANGED vars
  PROVE  /\ newest' = newest /\ stage' = stage /\ yearOf' = yearOf /\ registry' = registry
         /\ (RecordsTrue => RecordsTrue') /\ \A j \in Jobs : NotRunning(j)' <=> NotRunning(j)
BY DEF vars, lakeVars, jobVars, RecordsTrue, NotRunning

\* Chain j moves on, and no request of /availability is sent or answered.
LEMMA ChainMoves ==
  ASSUME TypeOK, PanelInv, UNCHANGED <<vars, calls, asked, available, answered, excused>>,
         NEW j \in Jobs, NEW to \in Chains, chain[j] # "availability",
         chain' = [chain EXCEPT ![j] = to],
         told' \in [Jobs -> {"running", "completed", "failed", "absent", None}],
         \A k \in Jobs \ {j} : told'[k] = told[k],
         pollId' \in Jobs \cup {None},
         marked' \in {marked, available}, marked' = available \/ to # "done",
         told'[j] # None => to = "polling",
         to \in {"polling", "waiting", "over"} => stage[j] # "idle",
         (told'[j] # None /\ told'[j] = "completed") => stage[j] = "completed",
         (told'[j] # None /\ told'[j] \in {"failed", "absent"}) => NotRunning(j),
         to = "over" => NotRunning(j),
         to \in {"environment", "options", "done"} => stage[j] = "completed",
         to \in {"options", "done"} => chain[j] = "options",
         to # "availability"
  PROVE  PanelInv'
<1> USE DEF PanelInv
<1>1. /\ newest' = newest /\ stage' = stage /\ yearOf' = yearOf
      /\ RecordsTrue' /\ \A k \in Jobs : NotRunning(k)' <=> NotRunning(k)
      /\ calls' = calls /\ asked' = asked /\ available' = available /\ answered' = answered
      /\ excused' = excused
  BY StillServed
<1>2. chain \in [Jobs -> Chains] /\ chain'[j] = to /\ \A k \in Jobs \ {j} : chain'[k] = chain[k]
  BY DEF PanelTypeOK
<1>3. PanelTypeOK'
  BY <1>1, <1>2 DEF PanelTypeOK
<1>4. PanelCounts'
  BY <1>1 DEF PanelCounts
<1>5. ChainsFollow'
  <2> SUFFICES ASSUME NEW k \in Jobs
               PROVE  /\ told'[k] # None => chain'[k] = "polling"
                      /\ chain'[k] \in {"polling", "waiting", "over"} => stage[k] # "idle"
                      /\ (told'[k] # None /\ told'[k] = "completed") => stage[k] = "completed"
                      /\ (told'[k] # None /\ told'[k] \in {"failed", "absent"}) => NotRunning(k)
                      /\ chain'[k] = "over" => NotRunning(k)
                      /\ chain'[k] \in {"environment", "availability", "options", "done"} =>
                           stage[k] = "completed"
    BY <1>1 DEF ChainsFollow
  <2>1. CASE k = j
    BY <1>2, <2>1
  <2>2. CASE k # j
    BY <1>2, <2>2 DEF ChainsFollow
  <2> QED
    BY <2>1, <2>2
<1>6. CallsFollow'
  <2>1. \A c \in calls : c.who # None => c.who # j
    BY DEF CallsFollow
  <2>2. \A c \in calls : c.who \in Jobs \cup {None}
    BY DEF PanelTypeOK
  <2> QED
    BY <1>1, <1>2, <2>1, <2>2 DEF CallsFollow
<1>7. YearsShown'
  <2> SUFFICES ASSUME ~excused, NEW k \in Jobs, chain'[k] \in {"options", "done"}
               PROVE  /\ yearOf[k] <= available
                      /\ chain'[k] = "done" => yearOf[k] <= marked'
                      /\ \A c \in calls : (c.seq >= answered /\ c.year # None) => yearOf[k] <= c.year
    BY <1>1 DEF YearsShown
  <2>1. chain[k] \in {"options", "done"}
    BY <1>2
  <2>2. /\ yearOf[k] <= available
        /\ \A c \in calls : (c.seq >= answered /\ c.year # None) => yearOf[k] <= c.year
        /\ chain[k] = "done" => yearOf[k] <= marked
    BY <2>1 DEF YearsShown
  <2>3. ASSUME chain'[k] = "done" PROVE yearOf[k] <= marked'
    <3>1. CASE marked' = available
      BY <2>2, <3>1
    <3>2. CASE marked' # available
      BY <1>2, <2>2, <2>3, <3>2
    <3> QED
      BY <3>1, <3>2
  <2> QED
    BY <2>2, <2>3
<1> QED
  BY <1>1, <1>3, <1>4, <1>5, <1>6, <1>7

\* A new ingest: the chain whose timer is in the variable stops.
LEMMA PanelKeptByRun ==
  ASSUME TypeOK, PanelInv, NEW j \in Jobs, RunIngest(j)
  PROVE  PanelInv'
<1> USE DEF PanelInv
<1>1. /\ newest' = newest /\ stage' = stage /\ yearOf' = yearOf
      /\ RecordsTrue' /\ (\A k \in Jobs : NotRunning(k)' <=> NotRunning(k))
      /\ calls' = calls /\ asked' = asked /\ available' = available /\ answered' = answered
      /\ excused' = excused /\ marked' = marked /\ told' = told /\ pollId' = None
  BY StillServed DEF RunIngest, Rest
<1>2. \A k \in Jobs :
        \/ chain'[k] = chain[k]
        \/ chain[k] = "none" /\ chain'[k] = "config"
        \/ chain[k] = "waiting" /\ chain'[k] = "stopped"
  BY DEF RunIngest, PanelTypeOK
<1>3. chain' \in [Jobs -> Chains]
  <2>1. {"config", "stopped"} \subseteq Chains
    BY DEF Chains, Ended
  <2> QED
    BY <2>1 DEF RunIngest, PanelTypeOK
<1>4. PanelTypeOK'
  BY <1>1, <1>3 DEF PanelTypeOK
<1>5. PanelCounts'
  BY <1>1 DEF PanelCounts
<1>6. ChainsFollow'
  BY <1>1, <1>2 DEF ChainsFollow
<1>7. CallsFollow'
  <2>1. \A c \in calls : c.who \in Jobs \cup {None}
    BY DEF PanelTypeOK
  <2> QED
    BY <1>1, <1>2, <2>1 DEF CallsFollow
<1>8. YearsShown'
  <2>1. \A k \in Jobs : chain'[k] \in {"options", "done"} => chain'[k] = chain[k]
    BY <1>2
  <2> QED
    BY <1>1, <2>1 DEF YearsShown
<1> QED
  BY <1>1, <1>4, <1>5, <1>6, <1>7, <1>8

\* The lake is listed for a request: it has every year that was there when it was asked.
LEMMA PanelKeptByListing ==
  ASSUME TypeOK, PanelInv, NEW c \in calls, AvailabilityRead(c)
  PROVE  PanelInv'
<1> USE DEF PanelInv
<1> DEFINE read == [c EXCEPT !.year = newest]
<1>1. /\ newest' = newest /\ stage' = stage /\ yearOf' = yearOf
      /\ RecordsTrue' /\ (\A k \in Jobs : NotRunning(k)' <=> NotRunning(k))
      /\ asked' = asked /\ available' = available /\ answered' = answered /\ chain' = chain
      /\ excused' = excused /\ marked' = marked /\ told' = told /\ pollId' = pollId
      /\ calls' = (calls \ {c}) \cup {read} /\ c.year = None
  BY StillServed DEF AvailabilityRead
<1>2. newest \in Nat /\ \A k \in Jobs : yearOf[k] \in 0..newest
  BY DEF TypeOK
<1>3. /\ read.who = c.who /\ read.seq = c.seq /\ (read.year = newest \/ read.year = c.year)
  OBVIOUS
<1>4. \A d \in calls' : \E b \in calls :
        /\ d.who = b.who /\ d.seq = b.seq
        /\ (d = b /\ b # c) \/ (d = read /\ b = c)
  BY <1>1, <1>3
<1>5. \A d \in calls' : d.year # None => d.year = newest \/ d \in calls
  BY <1>1, <1>3
<1> HIDE DEF read
<1>6. PanelTypeOK'
  <2>1. \A d \in calls' : d.who \in Jobs \cup {None} /\ d.seq \in 1..asked /\ d.year \in 0..newest \cup {None}
    <3> SUFFICES ASSUME NEW d \in calls'
                 PROVE  d.who \in Jobs \cup {None} /\ d.seq \in 1..asked /\ d.year \in 0..newest \cup {None}
      OBVIOUS
    <3>1. PICK b \in calls : d.who = b.who /\ d.seq = b.seq /\ (d = b \/ d = read)
      BY <1>4
    <3>2. newest \in 0..newest
      BY <1>2
    <3>3. b.who \in Jobs \cup {None} /\ b.seq \in 1..asked
      BY DEF PanelTypeOK
    <3>4. d.year \in 0..newest \cup {None}
      BY <1>5, <3>2 DEF PanelTypeOK
    <3> QED
      BY <3>1, <3>3, <3>4
  <2> QED
    BY <1>1, <2>1 DEF PanelTypeOK
<1>7. PanelCounts' /\ ChainsFollow'
  BY <1>1 DEF PanelCounts, ChainsFollow
<1>8. CallsFollow'
  <2> SUFFICES ASSUME NEW a \in calls', a.who # None
               PROVE  /\ chain[a.who] = "availability"
                      /\ \A d \in calls' :
                           /\ d.who = a.who => d = a
                           /\ (d.seq >= a.seq /\ d.year # None) => yearOf[a.who] <= d.year
    BY <1>1 DEF CallsFollow
  <2>1. PICK b \in calls : /\ a.who = b.who /\ a.seq = b.seq
                           /\ (a = b /\ b # c) \/ (a = read /\ b = c)
    BY <1>4
  <2>2. /\ chain[a.who] = "availability" /\ a.who \in Jobs
        /\ \A d \in calls : /\ d.who = b.who => d = b
                            /\ (d.seq >= b.seq /\ d.year # None) => yearOf[b.who] <= d.year
    BY <2>1 DEF CallsFollow, PanelTypeOK
  <2>3. ASSUME NEW d \in calls', d.who = a.who PROVE d = a
    <3>1. PICK e \in calls : /\ d.who = e.who /\ d.seq = e.seq
                             /\ (d = e /\ e # c) \/ (d = read /\ e = c)
      BY <1>4
    <3>2. e = b
      BY <2>1, <2>2, <2>3, <3>1
    <3> QED
      BY <2>1, <3>1, <3>2
  <2>4. ASSUME NEW d \in calls', d.seq >= a.seq, d.year # None PROVE yearOf[a.who] <= d.year
    <3>1. CASE d.year = newest
      BY <1>2, <2>2, <3>1
    <3>2. CASE d \in calls
      BY <2>1, <2>2, <2>4, <3>2
    <3> QED
      BY <1>5, <2>4, <3>1, <3>2
  <2> QED
    BY <2>2, <2>3, <2>4
<1>9. YearsShown'
  <2> SUFFICES ASSUME ~excused, NEW k \in Jobs, chain[k] \in {"options", "done"}
               PROVE  /\ yearOf[k] <= available
                      /\ chain[k] = "done" => yearOf[k] <= marked
                      /\ \A d \in calls' : (d.seq >= answered /\ d.year # None) => yearOf[k] <= d.year
    BY <1>1 DEF YearsShown
  <2>1. \A d \in calls' : (d.seq >= answered /\ d.year # None) => yearOf[k] <= d.year
    BY <1>2, <1>5 DEF YearsShown
  <2> QED
    BY <2>1 DEF YearsShown
<1> QED
  BY <1>1, <1>6, <1>7, <1>8, <1>9

\* An availability is answered: the chain that waits for it asks for the options.
LEMMA RefreshKeeps ==
  ASSUME TypeOK, PanelInv, NEW c \in calls, NEW year \in 0..newest, Refreshed(c, year)
  PROVE  PanelTypeOK' /\ RecordsTrue' /\ ChainsFollow' /\ CallsFollow'
<1> USE DEF PanelInv
<1>1. /\ newest' = newest /\ stage' = stage /\ yearOf' = yearOf
      /\ RecordsTrue' /\ (\A k \in Jobs : NotRunning(k)' <=> NotRunning(k))
      /\ asked' = asked /\ available' = year /\ marked' = marked /\ told' = told
      /\ pollId' = pollId /\ calls' = calls \ {c}
  BY StillServed DEF Refreshed
<1>2. c.who \in Jobs \cup {None} /\ (c.who # None => chain[c.who] = "availability")
  BY DEF PanelTypeOK, CallsFollow
<1>3. /\ chain' \in [Jobs -> Chains]
      /\ \A k \in Jobs : \/ chain'[k] = chain[k] /\ (c.who = None \/ k # c.who)
                         \/ c.who # None /\ k = c.who /\ chain'[k] = "options"
  <2>1. "options" \in Chains /\ chain \in [Jobs -> Chains]
    BY DEF Chains, PanelTypeOK
  <2>2. CASE c.who = None
    BY <2>1, <2>2 DEF Refreshed
  <2>3. CASE c.who # None
    BY <1>2, <2>1, <2>3 DEF Refreshed
  <2> QED
    BY <2>2, <2>3
<1>4. PanelTypeOK'
  BY <1>1, <1>3 DEF PanelTypeOK
<1>5. ChainsFollow'
  <2> SUFFICES ASSUME NEW k \in Jobs
               PROVE  /\ told[k] # None => chain'[k] = "polling"
                      /\ chain'[k] \in {"polling", "waiting", "over"} => stage[k] # "idle"
                      /\ (told[k] # None /\ told[k] = "completed") => stage[k] = "completed"
                      /\ (told[k] # None /\ told[k] \in {"failed", "absent"}) => NotRunning(k)
                      /\ chain'[k] = "over" => NotRunning(k)
                      /\ chain'[k] \in {"environment", "availability", "options", "done"} =>
                           stage[k] = "completed"
    BY <1>1 DEF ChainsFollow
  <2>1. /\ told[k] # None => chain[k] = "polling"
        /\ chain[k] \in {"polling", "waiting", "over"} => stage[k] # "idle"
        /\ (told[k] # None /\ told[k] = "completed") => stage[k] = "completed"
        /\ (told[k] # None /\ told[k] \in {"failed", "absent"}) => NotRunning(k)
        /\ chain[k] = "over" => NotRunning(k)
        /\ chain[k] \in {"environment", "availability", "options", "done"} => stage[k] = "completed"
    BY DEF ChainsFollow
  <2>2. CASE chain'[k] = chain[k]
    BY <2>1, <2>2
  <2>3. CASE chain[k] = "availability" /\ chain'[k] = "options"
    BY <2>1, <2>3
  <2> QED
    BY <1>2, <1>3, <2>2, <2>3
<1>6. CallsFollow'
  <2> SUFFICES ASSUME NEW a \in calls \ {c}, a.who # None
               PROVE  /\ chain'[a.who] = "availability"
                      /\ \A d \in calls \ {c} :
                           /\ d.who = a.who => d = a
                           /\ (d.seq >= a.seq /\ d.year # None) => yearOf[a.who] <= d.year
    BY <1>1 DEF CallsFollow
  <2>1. a.who \in Jobs /\ chain[a.who] = "availability" /\ a.who # c.who
    BY DEF CallsFollow, PanelTypeOK
  <2> QED
    BY <1>3, <2>1 DEF CallsFollow
<1> QED
  BY <1>1, <1>4, <1>5, <1>6

LEMMA PanelKeptByAnswer ==
  ASSUME TypeOK, PanelInv, NEW c \in calls, AvailabilityAnswers(c)
  PROVE  PanelInv'
<1>1. c.year \in 0..newest /\ c.seq \in 1..asked /\ Refreshed(c, c.year)
  BY DEF PanelInv, PanelTypeOK, AvailabilityAnswers
<1>2. PanelTypeOK' /\ RecordsTrue' /\ ChainsFollow' /\ CallsFollow'
  BY <1>1, RefreshKeeps
<1>3. asked \in Nat /\ answered \in Nat /\ c.seq \in Nat /\ asked' = asked
  BY <1>1 DEF PanelInv, PanelCounts, Refreshed
<1>4. PanelCounts'
  BY <1>3 DEF PanelCounts, AvailabilityAnswers
<1>5. YearsShown'
  <2>1. /\ yearOf' = yearOf /\ available' = c.year /\ marked' = marked /\ calls' = calls \ {c}
    BY <1>1, StillServed DEF Refreshed
  <2> SUFFICES ASSUME ~excused', NEW k \in Jobs, chain'[k] \in {"options", "done"}
               PROVE  /\ yearOf[k] <= c.year
                      /\ chain'[k] = "done" => yearOf[k] <= marked
                      /\ \A d \in calls \ {c} : (d.seq >= answered' /\ d.year # None) => yearOf[k] <= d.year
    BY <2>1 DEF YearsShown
  <2>2. ~excused /\ c.seq >= answered /\ answered' = c.seq /\ c.year # None
    <3>1. ~excused /\ ~(c.seq < answered)
      BY Zenon DEF AvailabilityAnswers
    <3> QED
      BY <1>3, <3>1 DEF AvailabilityAnswers
  <2>3. /\ chain \in [Jobs -> Chains] /\ c.who \in Jobs \cup {None}
        /\ \A d \in calls : d.seq \in 1..asked
    BY DEF PanelInv, PanelTypeOK
  <2>4. \/ chain'[k] = chain[k]
        \/ c.who # None /\ k = c.who /\ chain'[k] = "options"
    BY <1>1, <2>3 DEF Refreshed
  <2>5. CASE chain'[k] = chain[k]
    <3>1. /\ chain[k] = "done" => yearOf[k] <= marked
          /\ \A d \in calls : (d.seq >= answered /\ d.year # None) => yearOf[k] <= d.year
      BY <2>2, <2>5 DEF PanelInv, YearsShown
    <3>2. \A d \in calls : d.seq >= answered' => d.seq >= answered
      BY <1>3, <2>2, <2>3
    <3> QED
      BY <2>2, <2>5, <3>1, <3>2
  <2>6. CASE c.who # None /\ k = c.who /\ chain'[k] = "options"
    <3>1. \A d \in calls : (d.seq >= c.seq /\ d.year # None) => yearOf[k] <= d.year
      BY <2>6 DEF PanelInv, CallsFollow
    <3>2. yearOf[k] <= c.year
      BY <1>3, <2>2, <3>1
    <3> QED
      BY <2>2, <2>6, <3>1, <3>2
  <2> QED
    BY <2>4, <2>5, <2>6
<1> QED
  BY <1>2, <1>4, <1>5 DEF PanelInv

LEMMA PanelKeptByFailure ==
  ASSUME TypeOK, PanelInv, NEW c \in calls, AvailabilityFails(c)
  PROVE  PanelInv'
<1>1. Refreshed(c, 0) /\ excused' = TRUE /\ answered' = answered /\ asked' = asked
  BY DEF AvailabilityFails, Refreshed
<1>2. 0 \in 0..newest
  BY DEF TypeOK
<1>3. PanelTypeOK' /\ RecordsTrue' /\ ChainsFollow' /\ CallsFollow'
  BY <1>1, <1>2, RefreshKeeps
<1>4. PanelCounts' /\ YearsShown'
  BY <1>1 DEF PanelInv, PanelCounts, YearsShown
<1> QED
  BY <1>3, <1>4 DEF PanelInv

\* A request of /availability is sent, for the page or for the chain of an ingest that completed.
LEMMA AskKeeps ==
  ASSUME TypeOK, PanelInv, NEW who \in Jobs \cup {None}, Asks(who),
         UNCHANGED <<vars, told, pollId, available, marked, answered, excused>>,
         \/ who = None /\ chain' = chain
         \/ who # None /\ Goes(who, "environment", "availability")
  PROVE  PanelInv'
<1> USE DEF PanelInv
<1> DEFINE sent == [who |-> who, seq |-> asked + 1, year |-> None]
<1>1. /\ newest' = newest /\ stage' = stage /\ yearOf' = yearOf
      /\ RecordsTrue' /\ (\A k \in Jobs : NotRunning(k)' <=> NotRunning(k))
      /\ asked' = asked + 1 /\ available' = available /\ answered' = answered
      /\ excused' = excused /\ marked' = marked /\ told' = told /\ pollId' = pollId
      /\ calls' = calls \cup {sent}
  BY StillServed DEF Asks
<1>2. sent.who = who /\ sent.seq = asked + 1 /\ sent.year = None
  OBVIOUS
<1> HIDE DEF sent
<1>3. /\ chain' \in [Jobs -> Chains]
      /\ \A k \in Jobs : \/ chain'[k] = chain[k] /\ k # who
                         \/ chain'[k] = chain[k] /\ who = None
                         \/ k = who /\ who # None /\ chain[k] = "environment" /\ chain'[k] = "availability"
  <2>1. "availability" \in Chains /\ chain \in [Jobs -> Chains]
    BY DEF Chains, PanelTypeOK
  <2>2. CASE who = None /\ chain' = chain
    BY <2>1, <2>2
  <2>3. CASE who # None /\ Goes(who, "environment", "availability")
    BY <2>1, <2>3 DEF Goes
  <2> QED
    BY <2>2, <2>3
<1>4. asked \in Nat /\ asked + 1 \in Nat /\ \A d \in calls : d.seq \in 1..asked
  BY DEF PanelCounts, PanelTypeOK
<1>5. \A d \in calls : d.seq \in 1..asked + 1 /\ ~(d.seq >= asked + 1)
  BY <1>4
<1>6. PanelTypeOK'
  <2>1. asked + 1 \in 1..asked + 1
    BY <1>4
  <2> QED
    BY <1>1, <1>2, <1>3, <1>5, <2>1 DEF PanelTypeOK
<1>7. PanelCounts'
  BY <1>1, <1>4 DEF PanelCounts
<1>8. ChainsFollow'
  <2> SUFFICES ASSUME NEW k \in Jobs
               PROVE  /\ told[k] # None => chain'[k] = "polling"
                      /\ chain'[k] \in {"polling", "waiting", "over"} => stage[k] # "idle"
                      /\ (told[k] # None /\ told[k] = "completed") => stage[k] = "completed"
                      /\ (told[k] # None /\ told[k] \in {"failed", "absent"}) => NotRunning(k)
                      /\ chain'[k] = "over" => NotRunning(k)
                      /\ chain'[k] \in {"environment", "availability", "options", "done"} =>
                           stage[k] = "completed"
    BY <1>1 DEF ChainsFollow
  <2>1. /\ told[k] # None => chain[k] = "polling"
        /\ chain[k] \in {"polling", "waiting", "over"} => stage[k] # "idle"
        /\ (told[k] # None /\ told[k] = "completed") => stage[k] = "completed"
        /\ (told[k] # None /\ told[k] \in {"failed", "absent"}) => NotRunning(k)
        /\ chain[k] = "over" => NotRunning(k)
        /\ chain[k] \in {"environment", "availability", "options", "done"} => stage[k] = "completed"
    BY DEF ChainsFollow
  <2>2. CASE chain'[k] = chain[k]
    BY <2>1, <2>2
  <2>3. CASE chain[k] = "environment" /\ chain'[k] = "availability"
    BY <2>1, <2>3
  <2> QED
    BY <1>3, <2>2, <2>3
<1>9. CallsFollow'
  <2>1. \A d \in calls : d.who \in Jobs \cup {None} /\ (d.who # None => chain[d.who] = "availability")
    BY DEF CallsFollow, PanelTypeOK
  <2>2. \A d \in calls : d.who # None => d.who # who /\ chain'[d.who] = "availability"
    BY <1>3, <2>1
  <2> SUFFICES ASSUME NEW a \in calls \cup {sent}, a.who # None
               PROVE  /\ chain'[a.who] = "availability"
                      /\ \A d \in calls \cup {sent} :
                           /\ d.who = a.who => d = a
                           /\ (d.seq >= a.seq /\ d.year # None) => yearOf[a.who] <= d.year
    BY <1>1 DEF CallsFollow
  <2>3. CASE a = sent
    <3>1. who # None /\ who \in Jobs /\ a.who = who /\ a.seq = asked + 1
      BY <1>2, <2>3
    <3>2. chain'[who] = "availability"
      BY <1>3, <3>1
    <3>3. \A d \in calls : d.who # who
      BY <2>2, <3>1
    <3> QED
      BY <1>2, <1>5, <2>3, <3>1, <3>2, <3>3
  <2>4. CASE a \in calls
    BY <1>2, <2>2, <2>4 DEF CallsFollow
  <2> QED
    BY <2>3, <2>4
<1>10. YearsShown'
  <2>1. \A k \in Jobs : chain'[k] \in {"options", "done"} => chain'[k] = chain[k]
    BY <1>3
  <2> QED
    BY <1>1, <1>2, <2>1 DEF YearsShown
<1> QED
  BY <1>1, <1>6, <1>7, <1>8, <1>9, <1>10

LEMMA PanelKeptByAsking ==
  ASSUME TypeOK, PanelInv, PageReloads \/ \E j \in Jobs : EnvironmentAnswers(j)
  PROVE  PanelInv'
<1>1. CASE PageReloads
  BY <1>1, AskKeeps DEF PageReloads
<1>2. ASSUME NEW j \in Jobs, EnvironmentAnswers(j) PROVE PanelInv'
  <2>1. j # None
    BY PanelAssumption
  <2> QED
    BY <1>2, <2>1, AskKeeps DEF EnvironmentAnswers
<1> QED
  BY <1>1, <1>2

\* The status that is read of job j tells how the job stands.
LEMMA StatusTold ==
  ASSUME TypeOK, RegistryInv, PanelInv, NEW j \in Jobs, StatusRead(j)
  PROVE  /\ told'[j] \in {"running", "completed", "failed", "absent"}
         /\ told'[j] = "completed" => stage[j] = "completed"
         /\ told'[j] \in {"failed", "absent"} => NotRunning(j)
         /\ \A k \in Jobs \ {j} : told'[k] = told[k]
         /\ told' \in [Jobs -> {"running", "completed", "failed", "absent", None}]
<1> DEFINE rec == registry[CHOOSE i \in DOMAIN registry : registry[i].job = j]
           status == IF Registered(j) THEN rec.status ELSE "absent"
<1>1. told' = [told EXCEPT ![j] = status]
  BY DEF StatusRead
<1>2. told \in [Jobs -> {"running", "completed", "failed", "absent", None}]
  BY DEF PanelInv, PanelTypeOK
<1>3. CASE Registered(j)
  <2>1. PICK i \in DOMAIN registry : registry[i].job = j /\ rec = registry[i]
    BY <1>3 DEF Registered
  <2>2. registry[i] \in Records
    <3>1. registry \in Seq(Records)
      BY DEF TypeOK
    <3> QED
      BY <3>1, ElementOfSeq
  <2>3. registry[i].status \in {"running", "completed", "failed", "absent"}
    BY <2>2 DEF Records
  <2>4. status = registry[i].status
    BY <1>3, <2>1
  <2>5. status = "completed" => stage[j] = "completed"
    BY <2>1, <2>4 DEF PanelInv, RecordsTrue
  <2>6. ASSUME status \in {"failed", "absent"}, NEW k \in DOMAIN registry,
               registry[k] = [job |-> j, status |-> "running"]
        PROVE  FALSE
    <3>1. registry[k].job = j /\ registry[k].status = "running"
      BY <2>6
    <3>2. k = i
      BY <2>1, <3>1 DEF RegistryInv, OneRecordEach
    <3> QED
      BY <2>4, <2>6, <3>1, <3>2
  <2>7. status \in {"failed", "absent"} => NotRunning(j)
    BY <2>6 DEF NotRunning
  <2> HIDE DEF status
  <2> QED
    BY <1>1, <1>2, <2>3, <2>4, <2>5, <2>7
<1>4. CASE ~Registered(j)
  <2>1. status = "absent"
    BY <1>4
  <2>2. ASSUME NEW k \in DOMAIN registry, registry[k] = [job |-> j, status |-> "running"]
        PROVE  FALSE
    <3>1. registry[k].job = j
      BY <2>2
    <3> QED
      BY <1>4, <3>1 DEF Registered
  <2>3. NotRunning(j)
    BY <2>2 DEF NotRunning
  <2> HIDE DEF status
  <2> QED
    BY <1>1, <1>2, <2>1, <2>3
<1> QED
  BY <1>3, <1>4

\* Any other step of a chain.
LEMMA PanelKeptByChain ==
  ASSUME TypeOK, RegistryInv, PanelInv, NEW j \in Jobs,
         \/ ConfigAnswers(j) \/ PostAnswers(j) \/ StatusRead(j) \/ Polled(j) \/ TimerFires(j)
         \/ OptionsAnswer(j) \/ OptionsFail(j) \/ RequestFails(j)
  PROVE  PanelInv'
<1>t. /\ chain \in [Jobs -> Chains] /\ pollId \in Jobs \cup {None}
      /\ told \in [Jobs -> {"running", "completed", "failed", "absent", None}]
      /\ (told[j] # None => chain[j] = "polling")
      /\ (chain[j] \in {"polling", "waiting", "over"} => stage[j] # "idle")
      /\ ((told[j] # None /\ told[j] = "completed") => stage[j] = "completed")
      /\ ((told[j] # None /\ told[j] \in {"failed", "absent"}) => NotRunning(j))
      /\ (chain[j] \in {"environment", "availability", "options", "done"} => stage[j] = "completed")
  BY DEF PanelInv, PanelTypeOK, ChainsFollow
<1>c. {"posting", "polling", "waiting", "environment", "over", "lost", "done"} \subseteq Chains
  BY DEF Chains, Ended
<1>1. CASE ConfigAnswers(j)
  BY <1>1, <1>t, <1>c, ChainMoves DEF ConfigAnswers, Goes, Rest
<1>2. CASE PostAnswers(j)
  BY <1>2, <1>t, <1>c, ChainMoves DEF PostAnswers, Goes, Rest
<1>3. CASE StatusRead(j)
  <2>1. /\ chain' = chain /\ chain[j] = "polling" /\ pollId' = pollId /\ marked' = marked
        /\ UNCHANGED <<vars, calls, asked, available, answered, excused>>
    BY <1>3 DEF StatusRead, Rest
  <2>2. chain' = [chain EXCEPT ![j] = "polling"]
    BY <1>t, <2>1
  <2>3. /\ told'[j] \in {"running", "completed", "failed", "absent"}
        /\ (told'[j] = "completed" => stage[j] = "completed")
        /\ (told'[j] \in {"failed", "absent"} => NotRunning(j))
        /\ (\A k \in Jobs \ {j} : told'[k] = told[k])
        /\ told' \in [Jobs -> {"running", "completed", "failed", "absent", None}]
    BY <1>3, StatusTold
  <2> QED
    BY <1>t, <1>c, <2>1, <2>2, <2>3, ChainMoves
<1>4. CASE Polled(j)
  <2>1. /\ UNCHANGED <<vars, calls, asked, available, answered, excused>> /\ marked' = marked
        /\ told[j] # None /\ told' = [told EXCEPT ![j] = None] /\ chain[j] = "polling"
        /\ pollId' \in Jobs \cup {None}
    BY <1>4 DEF Polled, Rest, Goes
  <2>2. /\ told' \in [Jobs -> {"running", "completed", "failed", "absent", None}]
        /\ told'[j] = None /\ \A k \in Jobs \ {j} : told'[k] = told[k]
    BY <1>t, <2>1
  <2>3. PICK to \in {"waiting", "environment", "over"} :
          /\ chain' = [chain EXCEPT ![j] = to]
          /\ to = "environment" => told[j] = "completed"
          /\ to = "over" => told[j] \in {"failed", "absent"}
    <3>1. told[j] \in {"running", "completed", "failed", "absent"}
      BY <1>t, <2>1
    <3> QED
      BY <1>4, <3>1 DEF Polled, Goes
  <2> QED
    BY <1>t, <1>c, <2>1, <2>2, <2>3, ChainMoves
<1>5. CASE TimerFires(j)
  BY <1>5, <1>t, <1>c, ChainMoves DEF TimerFires, Goes, Rest
<1>6. CASE OptionsAnswer(j)
  BY <1>6, <1>t, <1>c, ChainMoves DEF OptionsAnswer, Goes
<1>7. CASE OptionsFail(j)
  BY <1>7, <1>t, <1>c, ChainMoves DEF OptionsFail, Goes, Rest
<1>8. CASE RequestFails(j)
  <2>1. /\ told' \in [Jobs -> {"running", "completed", "failed", "absent", None}]
        /\ told'[j] = None /\ \A k \in Jobs \ {j} : told'[k] = told[k]
    BY <1>8, <1>t DEF RequestFails
  <2> QED
    BY <1>8, <1>t, <1>c, <2>1, ChainMoves DEF RequestFails, Rest
<1> QED
  BY <1>1, <1>2, <1>3, <1>4, <1>5, <1>6, <1>7, <1>8

\* A step of the panel or of the server beside it.
LEMMA PanelStep ==
  TypeOK /\ RegistryInv /\ PanelInv /\ [PanelNext]_<<vars, panelVars>> =>
    TypeOK' /\ RegistryInv' /\ PanelInv'
<1> SUFFICES ASSUME TypeOK, RegistryInv, PanelInv, [PanelNext]_<<vars, panelVars>>
             PROVE  TypeOK' /\ RegistryInv' /\ PanelInv'
  OBVIOUS
<1> DEFINE Works(j) == \/ Launch(j) \/ Spawn(j) \/ Log(j) \/ Write(j) \/ Exit(j)
                       \/ ResetLatestYears(j) \/ Finish(j)
<1>s. ASSUME NEW j \in Jobs, Works(j), UNCHANGED panelVars
      PROVE  TypeOK' /\ RegistryInv' /\ PanelInv'
  <2>1. TypeOK' /\ RegistryInv'
    BY <1>s, RegistryStep DEF Next
  <2>2. RecordsTrue' /\ Onward
    BY <1>s, ServerGoesOnward DEF PanelInv
  <2> QED
    BY <1>s, <2>1, <2>2, PanelKeptByServer
<1>p. UNCHANGED vars => TypeOK' /\ RegistryInv'
  BY RegistryStep
<1>1. ASSUME NEW j \in Jobs, RunIngest(j) PROVE TypeOK' /\ RegistryInv' /\ PanelInv'
  BY <1>1, <1>p, PanelKeptByRun DEF RunIngest
<1>2. ASSUME NEW j \in Jobs, Launched(j) PROVE TypeOK' /\ RegistryInv' /\ PanelInv'
  BY <1>2, <1>s DEF Launched
<1>3. ASSUME NEW j \in Jobs,
             \/ ConfigAnswers(j) \/ PostAnswers(j) \/ StatusRead(j) \/ Polled(j) \/ TimerFires(j)
             \/ OptionsAnswer(j) \/ OptionsFail(j) \/ RequestFails(j)
      PROVE  TypeOK' /\ RegistryInv' /\ PanelInv'
  <2>1. UNCHANGED vars
    BY <1>3 DEF ConfigAnswers, PostAnswers, StatusRead, Polled, TimerFires, OptionsAnswer,
                OptionsFail, RequestFails
  <2> QED
    BY <1>3, <1>p, <2>1, PanelKeptByChain
<1>4. ASSUME PageReloads \/ \E j \in Jobs : EnvironmentAnswers(j)
      PROVE  TypeOK' /\ RegistryInv' /\ PanelInv'
  BY <1>4, <1>p, PanelKeptByAsking DEF PageReloads, EnvironmentAnswers
<1>5. ASSUME NEW c \in calls, AvailabilityRead(c) \/ AvailabilityAnswers(c) \/ AvailabilityFails(c)
      PROVE  TypeOK' /\ RegistryInv' /\ PanelInv'
  <2>1. UNCHANGED vars
    BY <1>5 DEF AvailabilityRead, AvailabilityAnswers, AvailabilityFails, Refreshed
  <2> QED
    BY <1>5, <1>p, <2>1, PanelKeptByListing, PanelKeptByAnswer, PanelKeptByFailure
<1>6. CASE Server /\ UNCHANGED panelVars
  BY <1>6, <1>s DEF Server
<1>7. CASE UNCHANGED <<vars, panelVars>>
  <2>1. newest' = newest /\ \A j \in Jobs : NotRunning(j)' <=> NotRunning(j)
    BY <1>7, StillServed
  <2>2. newest \in Nat
    BY DEF TypeOK
  <2>3. RecordsTrue' /\ Onward
    BY <1>7, <2>1, <2>2, StillServed DEF Onward, PanelInv
  <2> QED
    BY <1>7, <1>p, <2>3, PanelKeptByServer
<1> QED
  BY <1>1, <1>2, <1>3, <1>4, <1>5, <1>6, <1>7 DEF PanelNext

LEMMA InitPanel == Init /\ PanelInit => PanelInv
<1> SUFFICES ASSUME Init, PanelInit PROVE PanelInv
  OBVIOUS
<1>1. /\ \A j \in Jobs : told[j] = None /\ chain[j] = "none"
      /\ newest = 0 /\ DOMAIN registry = {} /\ calls = {} /\ available = 0 /\ marked = 0
  BY DEF Init, PanelInit
<1>2. PanelTypeOK
  <2>1. "none" \in Chains
    BY DEF Chains
  <2> QED
    BY <1>1, <2>1 DEF PanelInit, PanelTypeOK
<1>3. PanelCounts /\ RecordsTrue /\ CallsFollow /\ YearsShown
  BY <1>1 DEF PanelInit, PanelCounts, RecordsTrue, CallsFollow, YearsShown
<1>4. ChainsFollow
  BY <1>1 DEF ChainsFollow
<1> QED
  BY <1>2, <1>3, <1>4 DEF PanelInv

\* However many ingests run beside each other, whatever the rest of the page asks and however
\* late the answers come: a chain that ended with its ingest completed has shown the year it
\* added, and one that gave up on an ingest under way did so for want of its record
\* (runIngest, pollIngestStatus, refreshAvailability in app.js; ingest_jobs.py).
THEOREM IngestsDoSurface == PanelSpec => []IngestsSurface
<1>1. Init /\ PanelInit => TypeOK /\ RegistryInv /\ PanelInv
  BY InitTypeOK, InitRegistry, InitPanel
<1>2. PanelInv => IngestsSurface
  <2> SUFFICES ASSUME PanelInv PROVE IngestsSurface
    OBVIOUS
  <2>1. ~excused => \A j \in Jobs :
          chain[j] = "done" => stage[j] = "completed" /\ yearOf[j] <= available /\ yearOf[j] <= marked
    BY DEF PanelInv, YearsShown, ChainsFollow
  <2>2. \A j \in Jobs : chain[j] = "over" =>
          ~\E i \in DOMAIN registry : registry[i] = [job |-> j, status |-> "running"]
    BY DEF PanelInv, ChainsFollow, NotRunning
  <2> QED
    BY <2>1, <2>2 DEF PanelInv, IngestsSurface
<1> QED
  BY <1>1, <1>2, PanelStep, PTL DEF PanelSpec
=============================================================================
