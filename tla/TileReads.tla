------------------------------ MODULE TileReads ------------------------------
(***************************************************************************)
(* Batched tile reads (packages/geotiff/src/fetch.ts): fetchTiles looks up *)
(* the byte ranges of the tiles and of their masks, merges nearby ranges   *)
(* (coalesce.ts), requests the merged ranges a few at a time, cuts the     *)
(* tiles out of what comes back and hands them to the pool of decoding     *)
(* workers (pool/pool.ts, pool/wrapper.ts, pool/worker.ts).                *)
(*                                                                         *)
(* Bytes are identified by their position: a buffer is the interval of the *)
(* file it was read from, and the pixels of a tile are the interval they   *)
(* were decoded from.  fetchTile is the special case of one tile, whose    *)
(* range is its own group.                                                 *)
(***************************************************************************)
EXTENDS Integers, Sequences, FiniteSets, SequencesExt

CONSTANTS
  Calls,     \* calls of fetchTiles that share the pool
  Files,     \* the layouts a file may have
  Requests,  \* Requests[c]: the tile lists that call c may ask for
  Size,      \* bytes in the file
  Coalesce,  \* largest gap that is merged (COALESCE_DEFAULT)
  MaxRange,  \* largest merged range (MAX_RANGE_SIZE_DEFAULT)
  Parallel,  \* requests in flight (COALESCE_PARALLEL)
  Workers,   \* number of workers in the pool
  None       \* no mask

ByteRange == [offset : Nat, length : Nat]

ASSUME TileReadsAssumption ==
  /\ IsFiniteSet(Calls)
  /\ {Size, Coalesce, MaxRange, Workers} \subseteq Nat
  /\ Parallel \in Nat \ {0}

\* A file has a number of bands stored apart, the ranges of the bands of each
\* tile, and perhaps the range of the mask of each tile.  Tiles that begin at the
\* same byte are the same bytes.
ASSUME FilesAssumption ==
  \A f \in Files :
    /\ f.bands \in Nat \ {0}
    /\ f.data \in Seq(Seq(ByteRange))
    /\ \A t \in DOMAIN f.data : Len(f.data[t]) = f.bands
    /\ \A t, u \in DOMAIN f.data : \A b, d \in 1..f.bands :
         f.data[t][b].offset = f.data[u][d].offset => f.data[t][b] = f.data[u][d]
    /\ f.mask # None =>
         /\ f.mask \in [DOMAIN f.data -> ByteRange]
         /\ \A t, u \in DOMAIN f.data : f.mask[t].offset = f.mask[u].offset => f.mask[t] = f.mask[u]
    /\ \A c \in Calls : Requests[c] \subseteq Seq(DOMAIN f.data)

VARIABLES
  file,      \* the layout of the file that is read
  xy,        \* xy[c]: the tiles call c asked for
  phase,     \* phase[c]: how far call c is
  reads,     \* reads[c][p]: the coalesced read of part p
  pixels,    \* pixels[c]: decoded so far, <<index, band>> -> interval
  pool,      \* the workers: pending jobs, posted messages, next job ids
  mainQueue, \* jobs decoded on the main thread
  destroyed  \* the pool was destroyed

vars == <<file, xy, phase, reads, pixels, pool, mainQueue, destroyed>>

Parts == {"data", "mask"}
WorkerIds == 1..Workers

-----------------------------------------------------------------------------
(* coalesce.ts                                                             *)

End(r) == r.offset + r.length
Sparse(r) == r.offset = 0 \/ r.length = 0
Later(a, b) == IF a >= b THEN a ELSE b

\* Mutant of AddRange: only the gap is looked at.
AddRange_AnySize(groups, r) ==
  LET current == Last(groups)
      mergedEnd == Later(End(current), End(r))
  IN IF groups # <<>> /\ r.offset - End(current) <= Coalesce
       THEN ReplaceAt(groups, Len(groups),
                      [current EXCEPT !.length = mergedEnd - current.offset])
       ELSE Append(groups, r)

\* One turn of the loop of mergeRanges.
AddRange(groups, r) ==
  LET current == Last(groups)
      mergedEnd == Later(End(current), End(r))
  IN IF /\ groups # <<>>
        /\ r.offset - End(current) <= Coalesce
        /\ mergedEnd - current.offset <= MaxRange
       THEN ReplaceAt(groups, Len(groups),
                      [current EXCEPT !.length = mergedEnd - current.offset])
       ELSE Append(groups, r)

\* Sorted ranges with one more in its place, after those of the same offset.
Inserted(sorted, r) ==
  [i \in 1..(Len(sorted) + 1) |->
     IF i <= Len(sorted) /\ sorted[i].offset <= r.offset THEN sorted[i]
     ELSE IF i = 1 \/ sorted[i - 1].offset <= r.offset THEN r
     ELSE sorted[i - 1]]

\* Array.sort by offset, which is stable.
Sorted(ranges) ==
  LET sorted[n \in 0..Len(ranges)] ==
        IF n = 0 THEN <<>> ELSE Inserted(sorted[n - 1], ranges[n])
  IN sorted[Len(ranges)]

mergeRanges(ranges) ==
  LET sorted == Sorted(ranges)
      merged[n \in 0..Len(ranges)] ==
        IF n = 0 THEN <<>> ELSE AddRange(merged[n - 1], sorted[n])
  IN merged[Len(ranges)]

\* One turn of the loop of a binary search.
Halved(groups, target, at) ==
  LET mid == (at.lo + at.hi + 1) \div 2
  IN IF at.lo >= at.hi THEN at
     ELSE IF groups[mid].offset <= target THEN [at EXCEPT !.lo = mid]
     ELSE [at EXCEPT !.hi = mid - 1]

\* The last group that does not begin after target, after as many turns as it
\* can take.
findGroupIndex(groups, target) ==
  LET turn[n \in 0..Len(groups)] ==
        IF n = 0 THEN [lo |-> 1, hi |-> Len(groups)] ELSE Halved(groups, target, turn[n - 1])
  IN turn[Len(groups)].lo

\* The groups of the batch that begins at group i.
Batch(groups, i) == {k \in DOMAIN groups : i <= k /\ k < i + Parallel}

\* The source cuts a range at the end of the file.
Fetched(g) ==
  [offset |-> g.offset, length |-> IF End(g) > Size THEN Size - g.offset ELSE g.length]

-----------------------------------------------------------------------------
(* The ranges of a call.                                                   *)

Ranges(c, p) ==
  IF p = "data" THEN FlattenSeq([i \in DOMAIN xy[c] |-> file.data[xy[c][i]]])
  ELSE [i \in DOMAIN xy[c] |-> file.mask[xy[c][i]]]

\* Those that are in the file, in the same order.
Real(ranges) ==
  LET kept[n \in 0..Len(ranges)] ==
        IF n = 0 THEN <<>>
        ELSE IF Sparse(ranges[n]) THEN kept[n - 1] ELSE Append(kept[n - 1], ranges[n])
  IN kept[Len(ranges)]

RealRanges(c, p) == Real(Ranges(c, p))

\* The bytes cut out of the group that range r falls in.
Slice(read, r) ==
  LET g == findGroupIndex(read.groups, r.offset)
  IN [offset |-> read.got[g].offset + (r.offset - read.groups[g].offset),
      length |-> r.length]

TooShort(read, r) ==
  LET g == findGroupIndex(read.groups, r.offset)
  IN (r.offset - read.groups[g].offset) + r.length > read.got[g].length

Unread == [stage |-> "none", groups |-> <<>>, flying |-> {}, got |-> <<>>]

TypeOK ==
  /\ file \in Files
  /\ \A c \in Calls :
       /\ xy[c] \in Requests[c] \cup {<<>>}
       /\ phase[c] \in {"idle", "reading", "decoding", "resolved", "rejected"}
       /\ \A p \in Parts :
            /\ reads[c][p].stage \in {"none", "sizes", "fetching", "done", "failed"}
            /\ reads[c][p].flying \subseteq DOMAIN reads[c][p].groups
            /\ DOMAIN reads[c][p].got \subseteq DOMAIN reads[c][p].groups
       /\ DOMAIN pixels[c] \subseteq (1..Len(xy[c])) \X (0..file.bands)
  /\ \A w \in WorkerIds :
       /\ pool.nextId[w] \in Nat
       /\ \A k \in pool.jobs[w] \cup pool.posted[w] : k.id < pool.nextId[w]
  /\ destroyed \in BOOLEAN

Init ==
  /\ file \in Files
  /\ xy = [c \in Calls |-> <<>>]
  /\ phase = [c \in Calls |-> "idle"]
  /\ reads = [c \in Calls |-> [p \in Parts |-> Unread]]
  /\ pixels = [c \in Calls |-> <<>>]
  /\ pool = [jobs   |-> [w \in WorkerIds |-> {}],
             posted |-> [w \in WorkerIds |-> {}],
             nextId |-> [w \in WorkerIds |-> 0]]
  /\ mainQueue = {}
  /\ destroyed = FALSE
-----------------------------------------------------------------------------
(* Reading.                                                                *)

SetRead(c, p, read) == reads' = [reads EXCEPT ![c][p] = read]

\* Mutant of Reject: a failure of a read is swallowed.
Reject_DecodingOnly(c) ==
  phase' = [phase EXCEPT ![c] = IF @ = "decoding" THEN "rejected" ELSE @]

\* The first failure of a part rejects the call; later ones change nothing.
Reject(c) ==
  phase' = [phase EXCEPT ![c] = IF @ = "reading" \/ @ = "decoding" THEN "rejected" ELSE @]

\* fetchTiles: both parts look up their ranges.
FetchTiles(c) ==
  /\ phase[c] = "idle"
  /\ \E q \in Requests[c] :
       /\ xy' = [xy EXCEPT ![c] = q]
       /\ phase' = [phase EXCEPT ![c] = IF q = <<>> THEN "resolved" ELSE "reading"]
       /\ reads' = [reads EXCEPT ![c] = [p \in Parts |->
            IF q = <<>> \/ (p = "mask" /\ file.mask = None)
              THEN Unread ELSE [Unread EXCEPT !.stage = "sizes"]]]
  /\ UNCHANGED <<file, pixels, pool, mainQueue, destroyed>>

\* A read of the tile offsets or byte counts fails.
SizesFail(c, p) ==
  /\ reads[c][p].stage = "sizes"
  /\ SetRead(c, p, [reads[c][p] EXCEPT !.stage = "failed"])
  /\ Reject(c)
  /\ UNCHANGED <<file, xy, pixels, pool, mainQueue, destroyed>>

\* A part has all its groups: a group that was cut short, or a tile that is
\* not in the file, fails the call; a tile without a mask does not.
Outcome(c, p, read) ==
  IF \/ \E r \in ToSet(RealRanges(c, p)) : TooShort(read, r)
     \/ p = "data" /\ \E r \in ToSet(Ranges(c, p)) : Sparse(r)
    THEN "failed" ELSE "done"

Conclude(c, p, read) ==
  LET outcome == Outcome(c, p, read)
  IN /\ SetRead(c, p, [read EXCEPT !.stage = outcome])
     /\ IF outcome = "failed" THEN Reject(c) ELSE UNCHANGED phase

\* The ranges are known: the sparse ones are left out, the others merged, and
\* the first batch is requested.
SizesKnown(c, p) ==
  /\ reads[c][p].stage = "sizes"
  /\ LET groups == mergeRanges(RealRanges(c, p))
         read == [stage |-> "fetching", groups |-> groups,
                  flying |-> Batch(groups, 1), got |-> <<>>]
     IN IF groups = <<>> THEN Conclude(c, p, read)
        ELSE SetRead(c, p, read) /\ UNCHANGED phase
  /\ UNCHANGED <<file, xy, pixels, pool, mainQueue, destroyed>>

\* Group g arrives.
Arrive(read, g) ==
  [read EXCEPT !.flying = @ \ {g},
               !.got = [k \in DOMAIN @ \cup {g} |-> IF k = g THEN Fetched(read.groups[g]) ELSE @[k]]]

\* dispatchMerged requests a batch when the one before is complete.
NextBatch(read) ==
  [read EXCEPT !.flying = Batch(read.groups, Cardinality(DOMAIN read.got) + 1)]

\* A merged range arrives; the batch, or the part, may be complete.
FetchAnswers(c, p, g) ==
  /\ g \in reads[c][p].flying
  /\ reads[c][p].groups[g].offset < Size
  /\ LET read == Arrive(reads[c][p], g)
     IN IF read.flying # {} THEN SetRead(c, p, read) /\ UNCHANGED phase
        ELSE LET next == NextBatch(read)
             IN IF next.flying # {} THEN SetRead(c, p, next) /\ UNCHANGED phase
                ELSE Conclude(c, p, next)
  /\ UNCHANGED <<file, xy, pixels, pool, mainQueue, destroyed>>

\* A request fails or is aborted: the rest of its batch is ignored and no
\* other batch follows.  The other part goes on.
FetchFails(c, p, g) ==
  /\ g \in reads[c][p].flying
  /\ SetRead(c, p, [reads[c][p] EXCEPT !.stage = "failed", !.flying = {}])
  /\ Reject(c)
  /\ UNCHANGED <<file, xy, pixels, pool, mainQueue, destroyed>>

-----------------------------------------------------------------------------
(* Decoding.                                                               *)

Masked(c, i) == file.mask # None /\ ~Sparse(file.mask[xy[c][i]])

\* The jobs of tile i of call c, in the order they are submitted: its bands,
\* then its mask (band 0) unless it has none.
TileJobs(c, i) ==
  LET data == reads[c]["data"]
      mask == reads[c]["mask"]
      band(b) == [job   |-> [call |-> c, tile |-> i, band |-> b],
                  bytes |-> Slice(data, Ranges(c, "data")[(i - 1) * file.bands + b])]
      bands == [b \in 1..file.bands |-> band(b)]
  IN IF Masked(c, i)
       THEN Append(bands, [job   |-> [call |-> c, tile |-> i, band |-> 0],
                           bytes |-> Slice(mask, file.mask[xy[c][i]])])
       ELSE bands

Jobs(c) == FlattenSeq([i \in DOMAIN xy[c] |-> TileJobs(c, i)])
Awaited(c) == {k \in (DOMAIN xy[c]) \X (0..file.bands) : k[2] > 0 \/ Masked(c, k[1])}

\* The first of the workers with the fewest pending jobs.
LeastLoaded(load) ==
  CHOOSE w \in WorkerIds : \A v \in WorkerIds :
    load[w] < load[v] \/ (load[w] = load[v] /\ w <= v)

\* How many of the jobs before the n-th went to worker w.
Before(n, assigned, w) == Cardinality({k \in 1..(n - 1) : assigned[k] = w})

\* DecoderPool.decode, for the n-th job: its worker is chosen by what is pending,
\* the jobs handed in just before included.
Chosen(n, assigned) ==
  assigned[n] = LeastLoaded([w \in WorkerIds |->
                  Cardinality(pool.jobs[w]) + Before(n, assigned, w)])

\* Mutant of JobId: the id is the number of pending jobs.
JobId_Pending(n, assigned) ==
  Cardinality(pool.jobs[assigned[n]]) + Before(n, assigned, assigned[n])

\* The id submitJob gives to the n-th job.
JobId(n, assigned) == pool.nextId[assigned[n]] + Before(n, assigned, assigned[n])

\* WorkerWrapper.submitJob for all of jobs, at the workers assigned.
SubmitAll(jobs, assigned) ==
  LET of(w) == {n \in DOMAIN jobs : assigned[n] = w}
  IN pool' =
       [jobs   |-> [w \in WorkerIds |-> pool.jobs[w] \cup
          {[id |-> JobId(n, assigned), job |-> jobs[n].job] : n \in of(w)}],
        posted |-> [w \in WorkerIds |-> pool.posted[w] \cup
          {[id |-> JobId(n, assigned), bytes |-> jobs[n].bytes] : n \in of(w)}],
        nextId |-> [w \in WorkerIds |-> pool.nextId[w] + Cardinality(of(w))]]

HasWorkers == Workers > 0 /\ ~destroyed

\* Both parts are read: every job of the call is submitted in one go.
Assemble(c) ==
  /\ phase[c] = "reading"
  /\ reads[c]["data"].stage = "done"
  /\ reads[c]["mask"].stage \in {"done", "none"}
  /\ phase' = [phase EXCEPT ![c] = "decoding"]
  /\ \E jobs \in {Jobs(c)} :
       \/ /\ HasWorkers
          /\ \E assigned \in [DOMAIN jobs -> WorkerIds] :
               /\ \A n \in DOMAIN jobs : Chosen(n, assigned)
               /\ SubmitAll(jobs, assigned)
          /\ UNCHANGED mainQueue
       \/ /\ ~HasWorkers
          /\ mainQueue' = mainQueue \cup ToSet(jobs)
          /\ UNCHANGED pool
  /\ UNCHANGED <<file, xy, reads, pixels, destroyed>>

\* The job is decoded; the call resolves with its last one.
Decoded(job, bytes) ==
  LET c == job.call
      at == <<job.tile, job.band>>
      all == [k \in DOMAIN pixels[c] \cup {at} |-> IF k = at THEN bytes ELSE pixels[c][k]]
  IN /\ pixels' = [pixels EXCEPT ![c] = all]
     /\ phase' = [phase EXCEPT ![c] =
          IF @ = "decoding" /\ DOMAIN all = Awaited(c) THEN "resolved" ELSE @]

NotDecoded(job) == Reject(job.call) /\ UNCHANGED pixels

\* WorkerWrapper.onMessage takes the job out of the map, whatever the answer.
Answered(w, m) ==
  pool' = [pool EXCEPT !.posted[w] = @ \ {m}, !.jobs[w] = {k \in @ : k.id # m.id}]

\* Worker w answers message m, in any order: its handler awaits the decoder.
WorkerAnswers(w, m) ==
  /\ m \in pool.posted[w]
  /\ \E k \in pool.jobs[w] :
       /\ k.id = m.id
       /\ NotDecoded(k.job) \/ Decoded(k.job, m.bytes)
  /\ Answered(w, m)
  /\ UNCHANGED <<file, xy, reads, mainQueue, destroyed>>

MainDecodes(m) ==
  /\ m \in mainQueue
  /\ mainQueue' = mainQueue \ {m}
  /\ NotDecoded(m.job) \/ Decoded(m.job, m.bytes)
  /\ UNCHANGED <<file, xy, reads, pool, destroyed>>

\* DecoderPool.destroy: the workers stop, with what they were doing.
Destroy ==
  /\ HasWorkers
  /\ destroyed' = TRUE
  /\ pool' = [pool EXCEPT !.jobs = [w \in WorkerIds |-> {}],
                          !.posted = [w \in WorkerIds |-> {}]]
  /\ UNCHANGED <<file, xy, phase, reads, pixels, mainQueue>>

Sizes(c, p) == SizesFail(c, p) \/ SizesKnown(c, p)
Answers(c, p) ==
  \E g \in reads[c][p].flying : FetchFails(c, p, g) \/ FetchAnswers(c, p, g)
Worker(w) == \E m \in pool.posted[w] : WorkerAnswers(w, m)
Main == \E m \in mainQueue : MainDecodes(m)

Next ==
  \/ \E c \in Calls : FetchTiles(c) \/ Assemble(c)
  \/ \E c \in Calls, p \in Parts : Sizes(c, p) \/ Answers(c, p)
  \/ \E w \in WorkerIds : Worker(w)
  \/ Main
  \/ Destroy

\* The header source and the data source answer or fail, workers answer what
\* they are sent, and what is ready to run on the main thread runs.
Fairness ==
  /\ \A c \in Calls : WF_vars(Assemble(c))
  /\ \A c \in Calls, p \in Parts : WF_vars(Sizes(c, p)) /\ WF_vars(Answers(c, p))
  /\ \A w \in WorkerIds : WF_vars(Worker(w))
  /\ WF_vars(Main)

Spec == Init /\ [][Next]_vars /\ Fairness

-----------------------------------------------------------------------------
\* A worker's load counts exactly the jobs it has yet to answer.
LoadIsPending ==
  \A w \in WorkerIds : {k.id : k \in pool.jobs[w]} = {m.id : m \in pool.posted[w]}

\* A call that resolves has for every tile, in the order asked, the pixels of
\* exactly that tile's bands and mask, whatever was merged, answered out of
\* order, or decoded for other calls meanwhile by workers whose loads are right.
OwnPixels ==
  /\ TypeOK
  /\ LoadIsPending
  /\ \A c \in Calls : phase[c] = "resolved" =>
       \A i \in DOMAIN xy[c] :
         /\ \A b \in 1..file.bands : pixels[c][<<i, b>>] = file.data[xy[c][i]][b]
         /\ <<i, 0>> \in DOMAIN pixels[c] =>
              pixels[c][<<i, 0>>] = file.mask[xy[c][i]]
         /\ Masked(c, i) => <<i, 0>> \in DOMAIN pixels[c]

\* What a part requests covers its ranges, joins what the gap and size limits
\* allow to be joined and nothing else, and is requested a batch at a time.
RequestsSound ==
  \A c \in Calls, p \in Parts :
    LET groups == reads[c][p].groups
        real == ToSet(RealRanges(c, p))
    IN /\ Cardinality(reads[c][p].flying) <= Parallel
       /\ \A g \in DOMAIN groups : groups[g].length <= MaxRange \/ groups[g] \in real
       /\ \A g \in DOMAIN groups \ {1} :
            \/ groups[g].offset - End(groups[g - 1]) > Coalesce
            \/ \E r \in real :
                 /\ r.offset = groups[g].offset
                 /\ Later(End(groups[g - 1]), End(r)) - groups[g - 1].offset > MaxRange
       /\ groups # <<>> => \A r \in real :
            LET g == groups[findGroupIndex(groups, r.offset)]
            IN g.offset <= r.offset /\ End(r) <= End(g)

\* A call that waits for a job of a worker that was terminated.
Stranded(c) == destroyed /\ phase[c] = "decoding" /\ \A m \in mainQueue : m.job.call # c

\* Every call settles, but for those whose jobs were at the workers when the
\* pool was destroyed.
CallsSettle ==
  \A c \in Calls :
    phase[c] = "reading" ~> (phase[c] \in {"resolved", "rejected"} \/ Stranded(c))

=============================================================================
