------------------------------ MODULE ChunkCache ------------------------------
(***************************************************************************)
(* ChunkCachedSource of packages/geotiff/src/chunk-cache.ts: byte reads of *)
(* one object, split into chunks of a fixed size that are looked up in an  *)
(* LRU memory, joined to a load already in flight, taken from a persistent *)
(* store, or fetched from the network, in that order.                      *)
(*                                                                         *)
(* One action is one turn of the event loop: a read is cut at each of its  *)
(* awaits, and so is a load, whose .then and .finally are turns of their   *)
(* own.  A load is named by the read that started it and runs under that   *)
(* read's signal.  The object's byte at position p is the number p itself, *)
(* so that a byte out of place shows.                                      *)
(***************************************************************************)
EXTENDS Integers, Sequences, FiniteSets, SequencesExt

CONSTANTS
  Reads,           \* the calls of fetch
  Signalled,       \* those that pass an AbortSignal
  Ranges,          \* Ranges[r]: the <<offset, length>> read r may ask for
  Chunks,          \* the indices of the chunks these ranges touch
  ChunkSize,
  FileSize,        \* length of the object behind the source
  MemoryMaxBytes,
  NetworkFails,    \* may a request to the network fail?
  StoreFails,      \* may the persistent store throw?
  None             \* no read

FirstChunk(w) == w[1] \div ChunkSize
LastChunk(w) == (w[1] + w[2] - 1) \div ChunkSize

ASSUME ChunkAssumption ==
  /\ Signalled \subseteq Reads
  /\ Ranges \in [Reads -> SUBSET (Nat \X Nat)]
  /\ Chunks \subseteq Nat
  /\ ChunkSize \in Nat \ {0}
  /\ \A r \in Reads : \A w \in Ranges[r] : FirstChunk(w)..LastChunk(w) \subseteq Chunks
  /\ FileSize \in Nat
  /\ MemoryMaxBytes \in Nat
  /\ NetworkFails \in BOOLEAN /\ StoreFails \in BOOLEAN
  /\ None \notin Reads

VARIABLES
  want,         \* want[r]: the range read r asks for
  aborted,      \* aborted[r]: its signal has aborted
  pc,           \* pc[r]: where its loop over the chunks stands
  at,           \* at[r]: the chunk index of the loop
  got,          \* got[r]: the chunks pushed so far
  on,           \* on[r]: the read whose load r awaits
  answer,       \* answer[r]: what the promise r awaits settles with
  stage,        \* stage[r]: where the load that r started stands
  inflight,     \* inflight[c]: the read whose load of chunk c is in the map
  memory,       \* the entries in memory, least recently used first
  memoryBytes,  \* their size, as the code counts it
  persisted     \* the chunks in the persistent store

readVars == <<want, aborted, pc, at, got, on, answer>>
loadVars == <<stage, inflight>>
memoryVars == <<memory, memoryBytes>>
vars == <<readVars, loadVars, memoryVars, persisted>>

-----------------------------------------------------------------------------
\* A request to the server for chunk c answers with what the object has of it;
\* past the end of the object it is an error.
Exists(c) == c * ChunkSize < FileSize
SizeOf(c) ==
  IF (c + 1) * ChunkSize <= FileSize THEN ChunkSize ELSE FileSize - c * ChunkSize
Content(c) == [k \in 1..SizeOf(c) |-> c * ChunkSize + k - 1]

Bytes(b) == [bytes |-> b, error |-> "none"]
Error(why) == [bytes |-> <<>>, error |-> why]
Answers == [bytes : Seq(Nat), error : {"none", "abort", "network"}]
Entries == [chunk : Chunks, bytes : Seq(Nat)]

\* A load is under way in every stage but "none".
Stages == {"none", "store", "network", "persist", "keep", "forget"}

TypeOK ==
  /\ want \in [Reads -> Nat \X Nat]
  /\ \A r \in Reads : want[r] \in Ranges[r]
  /\ aborted \in [Reads -> BOOLEAN]
  /\ pc \in [Reads -> {"idle", "waiting", "resume", "done", "failed"}]
  /\ at \in [Reads -> Nat]
  /\ got \in [Reads -> Seq(Seq(Nat))]
  /\ on \in [Reads -> Reads \cup {None}]
  /\ answer \in [Reads -> Answers]
  /\ stage \in [Reads -> Stages]
  /\ inflight \in [Chunks -> Reads \cup {None}]
  /\ memory \in Seq(Entries)
  /\ memoryBytes \in 0..MemoryMaxBytes
  /\ persisted \subseteq Chunks

Init ==
  /\ want \in {w \in [Reads -> UNION {Ranges[r] : r \in Reads}] :
                 \A r \in Reads : w[r] \in Ranges[r]}
  /\ aborted = [r \in Reads |-> FALSE]
  /\ pc = [r \in Reads |-> "idle"]
  /\ at = [r \in Reads |-> 0]
  /\ got = [r \in Reads |-> <<>>]
  /\ on = [r \in Reads |-> None]
  /\ answer = [r \in Reads |-> Error("none")]
  /\ stage = [r \in Reads |-> "none"]
  /\ inflight = [c \in Chunks |-> None]
  /\ memory = <<>>
  /\ memoryBytes = 0
  /\ persisted \in SUBSET {c \in Chunks : Exists(c)}

-----------------------------------------------------------------------------
(* The LRU memory.                                                         *)

InMemory(c) == \E e \in ToSet(memory) : e.chunk = c
Entry(c) == CHOOSE e \in ToSet(memory) : e.chunk = c
Without(q, c) ==
  IF \E i \in DOMAIN q : q[i].chunk = c
    THEN RemoveAt(q, CHOOSE i \in DOMAIN q : q[i].chunk = c)
    ELSE q
BytesIn(q) ==
  LET sum[n \in 0..Len(q)] == IF n = 0 THEN 0 ELSE sum[n - 1] + Len(q[n].bytes)
  IN sum[Len(q)]

\* memoryPut: replaces the entry of c, then evicts from the old end until the
\* count is within the cap.
MemoryPut(c, b) ==
  LET grown   == Append(Without(memory, c), [chunk |-> c, bytes |-> b])
      counted == memoryBytes + Len(b) - (IF InMemory(c) THEN Len(Entry(c).bytes) ELSE 0)
      left(n) == counted - BytesIn(SubSeq(grown, 1, n))
  IN IF MemoryMaxBytes <= 0 \/ Len(b) > MemoryMaxBytes
       THEN UNCHANGED memoryVars
       ELSE \E n \in 0..Len(grown) :
              /\ left(n) <= MemoryMaxBytes
              /\ \A m \in 0..n - 1 : left(m) > MemoryMaxBytes
              /\ memory' = SubSeq(grown, n + 1, Len(grown))
              /\ memoryBytes' = left(n)

\* Mutant of ClearMemory: resets the count only.
ClearMemory_KeepsEntries ==
  /\ memoryBytes > 0
  /\ memoryBytes' = 0
  /\ UNCHANGED <<readVars, loadVars, memory, persisted>>

ClearMemory ==
  /\ memory # <<>>
  /\ memory' = <<>>
  /\ memoryBytes' = 0
  /\ UNCHANGED <<readVars, loadVars, persisted>>

-----------------------------------------------------------------------------
(* fetchChunk, up to its first await.                                      *)

\* memoryGet moves the entry to the young end.
Hit(r, c) ==
  /\ InMemory(c)
  /\ memory' = Append(Without(memory, c), Entry(c))
  /\ answer' = [answer EXCEPT ![r] = Bytes(Entry(c).bytes)]
  /\ pc' = [pc EXCEPT ![r] = "resume"]
  /\ UNCHANGED <<on, loadVars, memoryBytes>>

Join(r, c) ==
  /\ ~InMemory(c)
  /\ inflight[c] # None
  /\ on' = [on EXCEPT ![r] = inflight[c]]
  /\ pc' = [pc EXCEPT ![r] = "waiting"]
  /\ UNCHANGED <<answer, loadVars, memoryVars>>

\* Mutant of Miss: the load is not entered in the map.
Miss_Unregistered(r, c) ==
  /\ ~InMemory(c)
  /\ inflight[c] = None
  /\ stage' = [stage EXCEPT ![r] = "store"]
  /\ on' = [on EXCEPT ![r] = r]
  /\ pc' = [pc EXCEPT ![r] = "waiting"]
  /\ UNCHANGED <<answer, inflight, memoryVars>>

\* The load's first step, store.get, is called at once.
Miss(r, c) ==
  /\ ~InMemory(c)
  /\ inflight[c] = None
  /\ inflight' = [inflight EXCEPT ![c] = r]
  /\ stage' = [stage EXCEPT ![r] = "store"]
  /\ on' = [on EXCEPT ![r] = r]
  /\ pc' = [pc EXCEPT ![r] = "waiting"]
  /\ UNCHANGED <<answer, memoryVars>>

FetchChunk(r, c) ==
  /\ at' = [at EXCEPT ![r] = c]
  /\ Hit(r, c) \/ Join(r, c) \/ Miss(r, c)

(* A read.                                                                 *)

\* fetch is called; an aborted signal and an empty range end it at once.
Start(r) ==
  /\ pc[r] = "idle"
  /\ UNCHANGED <<want, aborted, got, persisted>>
  /\ \/ /\ aborted[r]
        /\ pc' = [pc EXCEPT ![r] = "failed"]
        /\ answer' = [answer EXCEPT ![r] = Error("abort")]
        /\ UNCHANGED <<at, on, loadVars, memoryVars>>
     \/ /\ ~aborted[r]
        /\ want[r][2] = 0
        /\ pc' = [pc EXCEPT ![r] = "done"]
        /\ UNCHANGED <<at, on, answer, loadVars, memoryVars>>
     \/ /\ ~aborted[r]
        /\ want[r][2] > 0
        /\ FetchChunk(r, FirstChunk(want[r]))

\* The loop goes on with the chunk it awaited, or the await throws.
Resume(r) ==
  /\ pc[r] = "resume"
  /\ UNCHANGED <<want, aborted, persisted>>
  /\ \/ /\ answer[r].error # "none"
        /\ pc' = [pc EXCEPT ![r] = "failed"]
        /\ UNCHANGED <<at, got, on, answer, loadVars, memoryVars>>
     \/ /\ answer[r].error = "none"
        /\ got' = [got EXCEPT ![r] = Append(@, answer[r].bytes)]
        /\ \/ /\ at[r] = LastChunk(want[r])
              /\ pc' = [pc EXCEPT ![r] = "done"]
              /\ UNCHANGED <<at, on, answer, loadVars, memoryVars>>
           \/ /\ at[r] < LastChunk(want[r])
              /\ FetchChunk(r, at[r] + 1)

\* The caller aborts: nothing listens but the load this read may have started.
Abort(r) ==
  /\ r \in Signalled
  /\ ~aborted[r]
  /\ pc[r] \notin {"done", "failed"}
  /\ aborted' = [aborted EXCEPT ![r] = TRUE]
  /\ UNCHANGED <<want, pc, at, got, on, answer, loadVars, memoryVars, persisted>>

-----------------------------------------------------------------------------
(* A load: fetchChunkUncached and the two callbacks chained to it.         *)

LoadStep(r, from, to) ==
  /\ stage[r] = from
  /\ stage' = [stage EXCEPT ![r] = to]
  /\ UNCHANGED <<want, aborted, pc, at, got, on, inflight>>

StoreHas(r) ==
  /\ LoadStep(r, "store", "keep")
  /\ at[r] \in persisted
  /\ answer' = [answer EXCEPT ![r] = Bytes(Content(at[r]))]
  /\ UNCHANGED <<memoryVars, persisted>>

\* Mutant of StoreHasNot: what the store throws ends the load.
StoreHasNot_Rethrows(r) ==
  /\ stage[r] = "store"
  /\ \/ at[r] \notin persisted /\ LoadStep(r, "store", "network") /\ UNCHANGED answer
     \/ /\ StoreFails
        /\ LoadStep(r, "store", "forget")
        /\ answer' = [answer EXCEPT ![r] = Error("network")]
  /\ UNCHANGED <<memoryVars, persisted>>

\* The store has nothing, or it throws and that is ignored.
StoreHasNot(r) ==
  /\ LoadStep(r, "store", "network")
  /\ at[r] \notin persisted \/ StoreFails
  /\ UNCHANGED <<answer, memoryVars, persisted>>

NetworkAnswers(r) ==
  /\ LoadStep(r, "network", "persist")
  /\ ~aborted[r]
  /\ Exists(at[r])
  /\ answer' = [answer EXCEPT ![r] = Bytes(Content(at[r]))]
  /\ UNCHANGED <<memoryVars, persisted>>

\* The request carries the signal of the read that started the load.
NetworkRejects(r) ==
  /\ LoadStep(r, "network", "forget")
  /\ \/ /\ aborted[r]
        /\ answer' = [answer EXCEPT ![r] = Error("abort")]
     \/ /\ ~aborted[r]
        /\ NetworkFails \/ ~Exists(at[r])
        /\ answer' = [answer EXCEPT ![r] = Error("network")]
  /\ UNCHANGED <<memoryVars, persisted>>

StorePut(r) ==
  /\ LoadStep(r, "persist", "keep")
  /\ persisted' = persisted \cup {at[r]}
  /\ UNCHANGED <<answer, memoryVars>>

StorePutThrows(r) ==
  /\ LoadStep(r, "persist", "keep")
  /\ StoreFails
  /\ UNCHANGED <<answer, memoryVars, persisted>>

\* .then
Keep(r) ==
  /\ LoadStep(r, "keep", "forget")
  /\ MemoryPut(at[r], answer[r].bytes)
  /\ UNCHANGED <<answer, persisted>>

\* Mutant of Forget: the reads that joined are not told.
Forget_SettlesOwn(r) ==
  /\ stage[r] = "forget"
  /\ stage' = [stage EXCEPT ![r] = "none"]
  /\ inflight' = [inflight EXCEPT ![at[r]] = None]
  /\ on' = [on EXCEPT ![r] = None]
  /\ pc' = [pc EXCEPT ![r] = "resume"]
  /\ UNCHANGED <<want, aborted, at, got, answer, memoryVars, persisted>>

\* .finally; the promise settles for everybody who awaits it.
Forget(r) ==
  LET awaiting == {s \in Reads : on[s] = r} IN
    /\ stage[r] = "forget"
    /\ stage' = [stage EXCEPT ![r] = "none"]
    /\ inflight' = [inflight EXCEPT ![at[r]] = None]
    /\ on' = [s \in Reads |-> IF s \in awaiting THEN None ELSE on[s]]
    /\ answer' = [s \in Reads |-> IF s \in awaiting THEN answer[r] ELSE answer[s]]
    /\ pc' = [s \in Reads |-> IF s \in awaiting THEN "resume" ELSE pc[s]]
    /\ UNCHANGED <<want, aborted, at, got, memoryVars, persisted>>

Load(r) ==
  \/ StoreHas(r) \/ StoreHasNot(r) \/ NetworkAnswers(r) \/ NetworkRejects(r)
  \/ StorePut(r) \/ StorePutThrows(r) \/ Keep(r) \/ Forget(r)

Next == ClearMemory \/ \E r \in Reads : Start(r) \/ Resume(r) \/ Abort(r) \/ Load(r)

\* Promises that settled are continued; the store and the network answer.
Fairness == \A r \in Reads : WF_vars(Resume(r)) /\ WF_vars(Load(r))

Safety == Init /\ [][Next]_vars

Spec == Safety /\ Fairness

-----------------------------------------------------------------------------
\* assemble: the parts of the chunks that lie in the range, one after the other
\* in a buffer of zeros.
Zero == -1
\* Mutant of Part: skips the offset within the first chunk in every chunk.
Part_SkipsInEach(b, c, w) ==
  LET start == c * ChunkSize
      from  == w[1] % ChunkSize
      to    == IF w[1] + w[2] - start < Len(b) THEN w[1] + w[2] - start ELSE Len(b)
  IN IF to <= from THEN <<>> ELSE SubSeq(b, from + 1, to)

Part(b, c, w) ==
  LET start == c * ChunkSize
      from  == IF w[1] > start THEN w[1] - start ELSE 0
      to    == IF w[1] + w[2] - start < Len(b) THEN w[1] + w[2] - start ELSE Len(b)
  IN IF to <= from THEN <<>> ELSE SubSeq(b, from + 1, to)

Written(chunks, w) ==
  LET upTo[n \in 0..Len(chunks)] ==
        IF n = 0 THEN <<>> ELSE upTo[n - 1] \o Part(chunks[n], FirstChunk(w) + n - 1, w)
  IN upTo[Len(chunks)]

Assemble(chunks, w) ==
  [k \in 1..w[2] |-> IF k <= Len(Written(chunks, w)) THEN Written(chunks, w)[k] ELSE Zero]

\* A read that succeeds returns the bytes of its range, each in its place, with
\* zeros for those past the end of the object, whatever mixture of memory,
\* store, network and joined loads its chunks came from.
ExactBytes ==
  \A r \in Reads :
    pc[r] = "done" =>
      Assemble(got[r], want[r]) =
        [k \in 1..want[r][2] |->
           IF want[r][1] + k - 1 < FileSize THEN want[r][1] + k - 1 ELSE Zero]

\* "de-dupes concurrent overlapping chunk misses": two loads of a chunk are
\* never under way together, the map names exactly the loads under way, and a
\* chunk that is in memory is not being fetched.
NeverFetchedTwice ==
  /\ \A c \in Chunks, r \in Reads :
       inflight[c] = r <=> (stage[r] # "none" /\ at[r] = c)
  /\ \A r \in Reads :
       stage[r] \in {"store", "network", "persist", "keep"} => ~InMemory(at[r])

\* The count of bytes in memory is the size of its entries
\* through every put, touch, eviction and clear; no chunk is there twice.
MemoryAccounted ==
  /\ TypeOK
  /\ memoryBytes = BytesIn(memory)
  /\ \A i, j \in DOMAIN memory : memory[i].chunk = memory[j].chunk => i = j

\* "Persistent-cache reads/writes are best-effort ... must never fail a tile
\* read": a read fails only if something was aborted, the network may fail, or
\* it asks for a chunk past the end of the object.
StoreNeverFailsRead ==
  \A r \in Reads :
    pc[r] = "failed" =>
      \/ NetworkFails
      \/ \E s \in Reads : aborted[s]
      \/ ~Exists(LastChunk(want[r]))

\* "one caller's pan-abort must not cancel a resolve others are awaiting": a
\* read ends with an abort only if its own signal aborted.
AbortIsOwn ==
  \A r \in Reads :
    (pc[r] = "failed" /\ answer[r].error = "abort") => aborted[r]

\* A read that waits for a chunk returns or throws in the end: no joined load
\* goes away without settling.
EveryReadSettles ==
  \A r \in Reads : pc[r] = "waiting" ~> pc[r] \in {"done", "failed"}
=============================================================================
