------------------------------- MODULE Limiter -------------------------------
(***************************************************************************)
(* The concurrency limiter of packages/geotiff/src/limiter.ts: one         *)
(* Semaphore per URL origin (PerOriginSemaphore) and the LimitedSource     *)
(* reads that pass through it.                                             *)
(*                                                                         *)
(* JavaScript runs one turn at a time, so each synchronous stretch of code *)
(* is one action.  A read is cut where it awaits: the call of acquire, the *)
(* continuation after the slot was granted, and the settling of the        *)
(* wrapped source's fetch, whose finally block releases the slot.  Each    *)
(* read has a signal of its own; a signal shared by several reads runs     *)
(* their listeners one after the other, as separate aborts.  A Semaphore   *)
(* that was not minted yet is one with no active read and an empty queue.  *)
(***************************************************************************)
EXTENDS Priority

CONSTANTS
  Fetches,      \* the reads: one LimitedSource.fetch call at a time each
  Origins,      \* URL origins
  originOf,     \* originOf[f]: the origin of read f
  MaxRequests,  \* slots per origin
  Signalled,    \* the reads that pass an AbortSignal
  Repeating,    \* the reads whose caller issues another one afterwards
  Throwing,     \* the reads whose getPriority callback throws
  Views,        \* states of the world that priorities depend on (the viewport)
  PriorityOf    \* PriorityOf[v][f]: what getPriority of f returns in view v

ASSUME LimiterAssumption ==
  /\ IsFiniteSet(Fetches)
  /\ originOf \in [Fetches -> Origins]
  /\ MaxRequests \in Nat \ {0}
  /\ Signalled \subseteq Fetches
  /\ Repeating \subseteq Fetches
  /\ Throwing \subseteq Fetches
  /\ Views # {}
  /\ \A v \in Views, f \in Fetches : PriorityOf[v][f] \in PriorityType

VARIABLES
  view,      \* what the callbacks read when they are called
  pc,        \* pc[f]: where read f stands
  aborted,   \* aborted[f]: its signal has aborted
  released,  \* released[f]: the flag in the closure of _makeRelease given to f
  active,    \* active[o]: the slots the Semaphore of o counts as taken
  queue      \* queue[o]: the waiters of the Semaphore of o, in arrival order

vars == <<view, pc, aborted, released, active, queue>>

\* "granted": acquire's promise has resolved, the await has not continued yet.
States == {"idle", "queued", "granted", "fetching", "done", "rejected"}

TypeOK ==
  /\ view \in Views
  /\ pc \in [Fetches -> States]
  /\ aborted \in [Fetches -> BOOLEAN]
  /\ released \in [Fetches -> BOOLEAN]
  /\ active \in [Origins -> Nat]
  /\ queue \in [Origins -> Seq(Fetches)]

Init ==
  /\ view \in Views
  /\ pc = [f \in Fetches |-> "idle"]
  /\ aborted = [f \in Fetches |-> FALSE]
  /\ released = [f \in Fetches |-> FALSE]
  /\ active = [o \in Origins |-> 0]
  /\ queue = [o \in Origins |-> <<>>]

-----------------------------------------------------------------------------
\* Array.splice(i, 1): the waiters without the i-th.
Splice(q, i) == [j \in 1..Len(q) - 1 |-> IF j < i THEN q[j] ELSE q[j + 1]]

\* The read's caller asks again, with a fresh signal.
Again(f) ==
  /\ f \in Repeating
  /\ pc[f] \in {"done", "rejected"}
  /\ pc' = [pc EXCEPT ![f] = "idle"]
  /\ aborted' = [aborted EXCEPT ![f] = FALSE]
  /\ UNCHANGED <<view, released, active, queue>>

\* acquire with a signal that aborted before the call.
AcquireAborted(f) ==
  /\ pc[f] = "idle"
  /\ aborted[f]
  /\ pc' = [pc EXCEPT ![f] = "rejected"]
  /\ UNCHANGED <<view, aborted, released, active, queue>>

\* Mutant of AcquireFree: one slot too many.
AcquireFree_OneTooMany(f) ==
  /\ pc[f] = "idle"
  /\ ~aborted[f]
  /\ active[originOf[f]] <= MaxRequests
  /\ active' = [active EXCEPT ![originOf[f]] = @ + 1]
  /\ released' = [released EXCEPT ![f] = FALSE]
  /\ pc' = [pc EXCEPT ![f] = "granted"]
  /\ UNCHANGED <<view, aborted, queue>>

\* acquire while a slot is free.
AcquireFree(f) ==
  /\ pc[f] = "idle"
  /\ ~aborted[f]
  /\ active[originOf[f]] < MaxRequests
  /\ active' = [active EXCEPT ![originOf[f]] = @ + 1]
  /\ released' = [released EXCEPT ![f] = FALSE]
  /\ pc' = [pc EXCEPT ![f] = "granted"]
  /\ UNCHANGED <<view, aborted, queue>>

\* acquire while every slot is taken: the waiter is pushed.
AcquireQueued(f) ==
  /\ pc[f] = "idle"
  /\ ~aborted[f]
  /\ active[originOf[f]] >= MaxRequests
  /\ queue' = [queue EXCEPT ![originOf[f]] = Append(@, f)]
  /\ pc' = [pc EXCEPT ![f] = "queued"]
  /\ UNCHANGED <<view, aborted, released, active>>

\* Mutant of AbortQueued: no listener on the signal of a queued read.
AbortQueued_Unheard(f) ==
  /\ pc[f] = "queued"
  /\ f \in Signalled
  /\ ~aborted[f]
  /\ aborted' = [aborted EXCEPT ![f] = TRUE]
  /\ UNCHANGED <<view, pc, released, active, queue>>

\* The signal aborts while its read is queued: onAbort splices and rejects.
AbortQueued(f) ==
  /\ f \in Signalled
  /\ ~aborted[f]
  /\ aborted' = [aborted EXCEPT ![f] = TRUE]
  /\ \E i \in DOMAIN queue[originOf[f]] :
       /\ queue[originOf[f]][i] = f
       /\ queue' = [queue EXCEPT ![originOf[f]] = Splice(@, i)]
  /\ pc' = [pc EXCEPT ![f] = "rejected"]
  /\ UNCHANGED <<view, released, active>>

\* The signal aborts at any other time: the limiter has no listener on it.
AbortElsewhere(f) ==
  /\ f \in Signalled
  /\ ~aborted[f]
  /\ pc[f] \in {"idle", "granted", "fetching"}
  /\ aborted' = [aborted EXCEPT ![f] = TRUE]
  /\ UNCHANGED <<view, pc, released, active, queue>>

\* LimitedSource.fetch continues after its await and calls source.fetch.
Start(f) ==
  /\ pc[f] = "granted"
  /\ pc' = [pc EXCEPT ![f] = "fetching"]
  /\ UNCHANGED <<view, aborted, released, active, queue>>
-----------------------------------------------------------------------------
\* Mutant of Priorities: always those of one view, as if taken when queueing.
Priorities_Cached(q) ==
  LET first == CHOOSE v \in Views : TRUE
  IN [i \in DOMAIN q |-> PriorityOf[first][q[i]]]

\* What the waiters' callbacks return, re-evaluated by the scan of _releaseOne.
Priorities(q) == [i \in DOMAIN q |-> PriorityOf[view][q[i]]]

\* Mutant of FreeSlot: frees the slot whether anybody waits or not.
FreeSlot_IgnoresQueue(f, left) ==
  /\ active' = [active EXCEPT ![originOf[f]] = @ - 1]
  /\ released' = [released EXCEPT ![f] = TRUE]
  /\ pc' = left
  /\ UNCHANGED queue

\* _releaseOne with nobody waiting: the slot is freed.
FreeSlot(f, left) ==
  /\ queue[originOf[f]] = <<>>
  /\ active' = [active EXCEPT ![originOf[f]] = @ - 1]
  /\ released' = [released EXCEPT ![f] = TRUE]
  /\ pc' = left
  /\ UNCHANGED queue

\* Mutant of HandOff: counts the slot as freed although it is passed on.
HandOff_AlsoFrees(f, left) ==
  LET q == queue[originOf[f]] IN
    /\ \A i \in DOMAIN q : q[i] \notin Throwing
    /\ \E i \in DOMAIN q :
         /\ IsNext(Priorities(q), i)
         /\ queue' = [queue EXCEPT ![originOf[f]] = Splice(q, i)]
         /\ released' = [released EXCEPT ![f] = TRUE, ![q[i]] = FALSE]
         /\ pc' = [left EXCEPT ![q[i]] = "granted"]
    /\ active' = [active EXCEPT ![originOf[f]] = @ - 1]

\* _releaseOne with waiters: the slot passes to the chosen one, which gets a
\* release function of its own; active stays.
HandOff(f, left) ==
  LET q == queue[originOf[f]] IN
    /\ \A i \in DOMAIN q : q[i] \notin Throwing
    /\ \E i \in DOMAIN q :
         /\ IsNext(Priorities(q), i)
         /\ queue' = [queue EXCEPT ![originOf[f]] = Splice(q, i)]
         /\ released' = [released EXCEPT ![f] = TRUE, ![q[i]] = FALSE]
         /\ pc' = [left EXCEPT ![q[i]] = "granted"]
    /\ UNCHANGED active

\* _releaseOne when a waiter's callback throws during the scan: only the flag
\* of the release function was set.
ScanThrows(f, left) ==
  /\ \E i \in DOMAIN queue[originOf[f]] : queue[originOf[f]][i] \in Throwing
  /\ released' = [released EXCEPT ![f] = TRUE]
  /\ pc' = left
  /\ UNCHANGED <<active, queue>>

\* The release function given to f is called for the first time; left is pc
\* with the caller already moved on.
FirstRelease(f, left) ==
  /\ ~released[f]
  /\ FreeSlot(f, left) \/ HandOff(f, left) \/ ScanThrows(f, left)

\* A later call of the same function does nothing.
RepeatedRelease(f, left) ==
  /\ released[f]
  /\ pc' = left
  /\ UNCHANGED <<released, active, queue>>

CallRelease(f, left) == FirstRelease(f, left) \/ RepeatedRelease(f, left)

\* source.fetch resolves or rejects: the finally block releases the slot.
Settle(f) ==
  /\ pc[f] = "fetching"
  /\ CallRelease(f, [pc EXCEPT ![f] = "done"])
  /\ UNCHANGED <<view, aborted>>

\* A caller of acquire that keeps its release function calls it once more.
ReleaseAgain(f) ==
  /\ pc[f] = "done"
  /\ CallRelease(f, pc)
  /\ UNCHANGED <<view, aborted>>

\* The viewport moves: the callbacks will return other priorities.
Pan(v) ==
  /\ v # view
  /\ view' = v
  /\ UNCHANGED <<pc, aborted, released, active, queue>>

FetchStep(f) ==
  \/ Again(f) \/ AcquireAborted(f) \/ AcquireFree(f) \/ AcquireQueued(f)
  \/ AbortQueued(f) \/ AbortElsewhere(f)
  \/ Start(f) \/ Settle(f) \/ ReleaseAgain(f)

Next == (\E f \in Fetches : FetchStep(f)) \/ (\E v \in Views : Pan(v))

\* A resolved promise's continuation runs, and the wrapped source settles.
Fairness == \A f \in Fetches : WF_vars(Start(f)) /\ WF_vars(Settle(f))

Safety == Init /\ [][Next]_vars

Spec == Safety /\ Fairness
-----------------------------------------------------------------------------
\* The reads of origin o that own one of its slots.
Holders(o) == {f \in Fetches : originOf[f] = o /\ pc[f] \in {"granted", "fetching"}}

\* However reads are granted, handed over, aborted in any position, released
\* twice or failed by a throwing callback, every read that holds a slot is
\* counted, and no origin counts more than MaxRequests.
NoOversubscription ==
  \A o \in Origins : Cardinality(Holders(o)) <= active[o] /\ active[o] <= MaxRequests

\* "every fetch holds a ... slot for its duration ... releasing when it settles":
\* the slots a Semaphore counts as taken are exactly the reads that hold one, so
\* no slot stays with a read that has settled.
SlotsConserved == \A o \in Origins : active[o] = Cardinality(Holders(o))

\* A Semaphore's queue holds each waiting read of its origin once and nothing
\* else: no waiter is stranded by a splice, and none is answered twice.
QueueIsWaiters ==
  \A o \in Origins :
    /\ \A f \in Fetches :
         (originOf[f] = o /\ pc[f] = "queued")
           <=> \E i \in DOMAIN queue[o] : queue[o][i] = f
    /\ \A i, j \in DOMAIN queue[o] : queue[o][i] = queue[o][j] => i = j

\* "if signal aborts while waiting in the queue ... no slot is consumed": a read
\* whose signal aborted before a slot was granted is never granted one.
AbortedTakesNoSlot ==
  [][\A f \in Fetches :
       (aborted[f] /\ pc[f] \in {"idle", "queued"}) => pc'[f] # "granted"]_vars

\* A slot that opens goes to a waiter no other waiter of the origin precedes,
\* by the priorities of that very moment and by arrival among equals: waiters
\* that stay queued never change order, whatever is removed around them.
MostUrgentServed ==
  [][\A o \in Origins : \A i, j \in DOMAIN queue[o] :
       /\ (pc'[queue[o][i]] = "granted" /\ i # j) =>
            LET mine  == PriorityOf[view][queue[o][i]]
                other == PriorityOf[view][queue[o][j]]
            IN Before(mine, other) \/ (i < j /\ ~Before(other, mine))
       /\ i < j => \A m, n \in DOMAIN queue'[o] :
            (queue'[o][m] = queue[o][i] /\ queue'[o][n] = queue[o][j]) => m < n]_vars

\* Where a read stands for a caller that knows only ConcurrencyLimit.
PhaseOf(s) == CASE s = "idle" -> "idle"
                [] s = "queued" -> "waiting"
                [] s \in {"granted", "fetching"} -> "running"
                [] s \in {"done", "rejected"} -> "settled"

Promise == INSTANCE ConcurrencyLimit WITH phase <- [f \in Fetches |-> PhaseOf(pc[f])]

\* The promise of ConcurrencyLimiter: per origin at most MaxRequests reads run,
\* a read waits only while its origin is saturated, and a step moves one read or
\* passes a slot from a settling read to a waiting one.
KeepsPromise == Promise!Safety

\* Every read that waits for a slot is served or rejected in the end.
WaitersProgress == Promise!Progress
=============================================================================
