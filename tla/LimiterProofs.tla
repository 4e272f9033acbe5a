---------------------------- MODULE LimiterProofs ----------------------------
(***************************************************************************)
(* Proofs about Limiter: its types, the queue, the conservation of slots   *)
(* and that it keeps the promise of ConcurrencyLimit.                      *)
(***************************************************************************)
EXTENDS Limiter, FiniteSetTheorems, TLAPS

\* The release function of a read is unused while the read holds its slot and
\* used once it has settled.
ReleaseFlags ==
  \A f \in Fetches :
    /\ pc[f] \in {"granted", "fetching"} => ~released[f]
    /\ pc[f] = "done" => released[f]

\* A waiter exists only where every slot is taken.
NoIdleSlot == \A o \in Origins : queue[o] # <<>> => active[o] = MaxRequests

\* The slots counted cover the reads that hold one; without throwing callbacks
\* the two agree.
SlotsCounted ==
  \A o \in Origins :
    /\ Cardinality(Holders(o)) <= active[o]
    /\ active[o] <= MaxRequests
    /\ Throwing = {} => active[o] = Cardinality(Holders(o))

IInv == TypeOK /\ QueueIsWaiters /\ ReleaseFlags /\ NoIdleSlot /\ SlotsCounted

-----------------------------------------------------------------------------
\* Splice keeps the other elements, in their order.
LEMMA SpliceFacts ==
  ASSUME NEW S, NEW q \in Seq(S), NEW k \in DOMAIN q
  PROVE  /\ Splice(q, k) \in Seq(S)
         /\ DOMAIN Splice(q, k) = 1..Len(q) - 1
         /\ \A j \in 1..Len(q) - 1 :
              Splice(q, k)[j] = IF j < k THEN q[j] ELSE q[j + 1]
BY DEF Splice

\* The holders of a slot are finitely many.
LEMMA HoldersFinite ==
  \A o \in Origins : IsFiniteSet(Holders(o)) /\ Cardinality(Holders(o)) \in Nat
<1> TAKE o \in Origins
<1>1. Holders(o) \in SUBSET Fetches
  BY DEF Holders
<1>2. IsFiniteSet(Fetches)
  BY LimiterAssumption
<1> QED
  BY <1>1, <1>2, FS_Subset, FS_CardinalityType

\* What a splice of waiter f out of its origin's queue leaves of the queue
\* invariant, f having moved to another state.
LEMMA SpliceOfWaiter ==
  ASSUME TypeOK, QueueIsWaiters,
         NEW f \in Fetches, NEW k \in DOMAIN queue[originOf[f]],
         queue[originOf[f]][k] = f,
         queue' = [queue EXCEPT ![originOf[f]] = Splice(queue[originOf[f]], k)],
         pc' \in [Fetches -> States], pc'[f] # "queued",
         \A g \in Fetches \ {f} : pc[g] = "queued" <=> pc'[g] = "queued"
  PROVE  QueueIsWaiters' /\ queue' \in [Origins -> Seq(Fetches)]
<1> DEFINE o == originOf[f]
           q == queue[o]
<1>1. o \in Origins /\ q \in Seq(Fetches)
  BY LimiterAssumption DEF TypeOK
<1>2. queue' \in [Origins -> Seq(Fetches)]
  BY <1>1, SpliceFacts DEF TypeOK
<1>3. \A p \in Origins \ {o} : queue'[p] = queue[p]
  BY DEF TypeOK
<1>4. queue'[o] = Splice(q, k)
  BY <1>1 DEF TypeOK
<1>5. \A i, j \in DOMAIN q : q[i] = q[j] => i = j
  BY <1>1 DEF QueueIsWaiters
<1>6. /\ DOMAIN queue'[o] = 1..Len(q) - 1
      /\ \A j \in 1..Len(q) - 1 : queue'[o][j] = IF j < k THEN q[j] ELSE q[j + 1]
  BY <1>1, <1>4, SpliceFacts
<1>7. \A i, j \in DOMAIN queue'[o] : queue'[o][i] = queue'[o][j] => i = j
  BY <1>1, <1>5, <1>6
<1>8. \A g \in Fetches : (\E i \in DOMAIN queue'[o] : queue'[o][i] = g)
                           <=> (g # f /\ \E i \in DOMAIN q : q[i] = g)
  <2> SUFFICES ASSUME NEW g \in Fetches
               PROVE  (\E i \in DOMAIN queue'[o] : queue'[o][i] = g)
                        <=> (g # f /\ \E i \in DOMAIN q : q[i] = g)
    OBVIOUS
  <2>1. ASSUME NEW i \in DOMAIN queue'[o], queue'[o][i] = g
        PROVE  g # f /\ \E j \in DOMAIN q : q[j] = g
    BY <2>1, <1>1, <1>5, <1>6
  <2>2. ASSUME g # f, NEW j \in DOMAIN q, q[j] = g
        PROVE  \E i \in DOMAIN queue'[o] : queue'[o][i] = g
    <3>1. CASE j < k
      BY <3>1, <2>2, <1>1, <1>6
    <3>2. CASE j > k
      <4>1. j - 1 \in 1..Len(q) - 1 /\ ~(j - 1 < k) /\ (j - 1) + 1 = j
        BY <3>2, <2>2, <1>1
      <4> QED
        BY <4>1, <2>2, <1>6
    <3> QED
      BY <3>1, <3>2, <2>2, <1>1
  <2> QED
    BY <2>1, <2>2
<1>9. \A g \in Fetches : (originOf[g] = o /\ pc'[g] = "queued")
                           <=> \E i \in DOMAIN queue'[o] : queue'[o][i] = g
  BY <1>1, <1>8 DEF QueueIsWaiters, TypeOK
<1>10. \A p \in Origins \ {o}, g \in Fetches :
         (originOf[g] = p /\ pc'[g] = "queued")
           <=> \E i \in DOMAIN queue'[p] : queue'[p][i] = g
  BY <1>3 DEF QueueIsWaiters, TypeOK
<1> QED
  BY <1>2, <1>3, <1>7, <1>9, <1>10 DEF QueueIsWaiters

-----------------------------------------------------------------------------
\* Steps that move one read f and leave every queue and every other read alone.
\* Holders gains f, loses f or stays, and the counts follow.
LEMMA HoldersAfterMove ==
  ASSUME TypeOK, NEW f \in Fetches, NEW s \in States, pc' = [pc EXCEPT ![f] = s],
         NEW o \in Origins
  PROVE  /\ originOf[f] # o => Holders(o)' = Holders(o)
         /\ originOf[f] = o =>
              /\ s \in {"granted", "fetching"} => Holders(o)' = Holders(o) \cup {f}
              /\ s \notin {"granted", "fetching"} => Holders(o)' = Holders(o) \ {f}
BY DEF TypeOK, Holders

\* The origin of a read that is done loses it as a holder, the others nothing.
LEMMA HoldersAfterDone ==
  ASSUME TypeOK, NEW f \in Fetches, pc' = [pc EXCEPT ![f] = "done"]
  PROVE  /\ originOf[f] \in Origins
         /\ Holders(originOf[f])' = Holders(originOf[f]) \ {f}
         /\ \A p \in Origins \ {originOf[f]} : Holders(p)' = Holders(p)
<1>1. originOf[f] \in Origins /\ "done" \in States
  BY LimiterAssumption DEF States
<1>2. Holders(originOf[f])' = Holders(originOf[f]) \ {f}
  BY <1>1, HoldersAfterMove
<1>3. ASSUME NEW p \in Origins \ {originOf[f]}
      PROVE  Holders(p)' = Holders(p)
  BY <1>1, HoldersAfterMove
<1> QED
  BY <1>1, <1>2, <1>3

LEMMA InitIInv == Init => IInv
<1> SUFFICES ASSUME Init PROVE IInv
  OBVIOUS
<1>1. TypeOK
  BY DEF Init, TypeOK, States
<1>2. \A o \in Origins : Holders(o) = {}
  BY DEF Init, Holders
<1>3. SlotsCounted
  <2>1. \A o \in Origins : Cardinality(Holders(o)) = 0 /\ active[o] = 0
    BY <1>2, FS_EmptySet DEF Init
  <2> QED
    BY <2>1, LimiterAssumption DEF SlotsCounted
<1>4. QueueIsWaiters /\ ReleaseFlags /\ NoIdleSlot
  BY DEF Init, QueueIsWaiters, ReleaseFlags, NoIdleSlot
<1> QED
  BY <1>1, <1>3, <1>4 DEF IInv

\* A step of read f that neither queues nor serves anyone: it moves between
\* states outside the queue and keeps its slot, or never had one.
LEMMA QuietStep ==
  ASSUME IInv, NEW f \in Fetches, NEW s \in States,
         pc' = [pc EXCEPT ![f] = s], pc[f] # "queued", s # "queued",
         pc[f] \in {"granted", "fetching"} <=> s \in {"granted", "fetching"},
         s = "done" => pc[f] = "done",
         UNCHANGED <<released, active, queue>>
  PROVE  QueueIsWaiters' /\ ReleaseFlags' /\ NoIdleSlot' /\ SlotsCounted'
<1>1. \A o \in Origins : Holders(o)' = Holders(o)
  BY DEF IInv, TypeOK, Holders
<1>2. QueueIsWaiters'
  BY DEF IInv, TypeOK, QueueIsWaiters
<1>3. ReleaseFlags'
  BY DEF IInv, TypeOK, ReleaseFlags
<1>4. NoIdleSlot' /\ SlotsCounted'
  BY <1>1 DEF IInv, NoIdleSlot, SlotsCounted
<1> QED
  BY <1>2, <1>3, <1>4

\* A step that changes nothing the invariant reads beyond types.
LEMMA InertStep ==
  ASSUME IInv, UNCHANGED <<pc, released, active, queue>>
  PROVE  QueueIsWaiters' /\ ReleaseFlags' /\ NoIdleSlot' /\ SlotsCounted'
BY DEF IInv, QueueIsWaiters, ReleaseFlags, NoIdleSlot, SlotsCounted, Holders

LEMMA TakesFree ==
  ASSUME IInv, NEW f \in Fetches, AcquireFree(f)
  PROVE  IInv'
<1> DEFINE o == originOf[f]
<1>0. o \in Origins /\ active[o] \in Nat /\ MaxRequests \in Nat
  BY LimiterAssumption DEF IInv, TypeOK
<1>1. TypeOK'
  BY <1>0 DEF IInv, TypeOK, AcquireFree, States
<1>2. QueueIsWaiters'
  BY DEF IInv, TypeOK, QueueIsWaiters, AcquireFree
<1>3. ReleaseFlags'
  BY DEF IInv, TypeOK, ReleaseFlags, AcquireFree
<1>4. NoIdleSlot'
  BY <1>0 DEF IInv, TypeOK, NoIdleSlot, AcquireFree
<1>5. SlotsCounted'
  <2>1. /\ \A p \in Origins \ {o} : Holders(p)' = Holders(p) /\ active'[p] = active[p]
        /\ Holders(o)' = Holders(o) \cup {f}
        /\ active'[o] = active[o] + 1
    BY HoldersAfterMove, <1>0 DEF IInv, TypeOK, AcquireFree, States
  <2>2. f \notin Holders(o)
    BY DEF AcquireFree, Holders
  <2>3. Cardinality(Holders(o)') = Cardinality(Holders(o)) + 1
    BY <2>1, <2>2, <1>0, HoldersFinite, FS_AddElement
  <2>4. Cardinality(Holders(o)) \in Nat /\ active[o] < MaxRequests
    BY <1>0, HoldersFinite DEF AcquireFree
  <2> QED
    <3>1. /\ Cardinality(Holders(o)') <= active'[o]
          /\ active'[o] <= MaxRequests
          /\ Throwing = {} => active'[o] = Cardinality(Holders(o)')
      BY <2>1, <2>3, <2>4, <1>0 DEF IInv, SlotsCounted
    <3>2. \A p \in Origins \ {o} :
            /\ Cardinality(Holders(p)') <= active'[p]
            /\ active'[p] <= MaxRequests
            /\ Throwing = {} => active'[p] = Cardinality(Holders(p)')
      BY <2>1 DEF IInv, SlotsCounted
    <3> QED
      BY <3>1, <3>2 DEF SlotsCounted
<1> QED
  BY <1>1, <1>2, <1>3, <1>4, <1>5 DEF IInv

LEMMA Enqueues ==
  ASSUME IInv, NEW f \in Fetches, AcquireQueued(f)
  PROVE  IInv'
<1> DEFINE o == originOf[f]
           q == queue[o]
<1>0. /\ o \in Origins /\ q \in Seq(Fetches) /\ active[o] \in Nat
      /\ MaxRequests \in Nat /\ active[o] <= MaxRequests
  BY LimiterAssumption DEF IInv, TypeOK, SlotsCounted
<1>1. TypeOK'
  BY <1>0 DEF IInv, TypeOK, AcquireQueued, States
<1>2. QueueIsWaiters'
  <2>1. /\ queue'[o] = Append(q, f)
        /\ \A p \in Origins \ {o} : queue'[p] = queue[p]
        /\ pc'[f] = "queued" /\ \A g \in Fetches \ {f} : pc'[g] = pc[g]
        /\ pc[f] = "idle"
    BY <1>0 DEF IInv, TypeOK, AcquireQueued
  <2>2. \A i \in DOMAIN q : q[i] # f
    BY <1>0, <2>1 DEF IInv, QueueIsWaiters
  <2>3. /\ DOMAIN queue'[o] = 1..Len(q) + 1
        /\ \A i \in 1..Len(q) : queue'[o][i] = q[i]
        /\ queue'[o][Len(q) + 1] = f
    BY <2>1, <1>0
  <2>4. \A i, j \in DOMAIN queue'[o] : queue'[o][i] = queue'[o][j] => i = j
    BY <2>2, <2>3, <1>0 DEF IInv, QueueIsWaiters
  <2>5. \A g \in Fetches : (originOf[g] = o /\ pc'[g] = "queued")
                             <=> \E i \in DOMAIN queue'[o] : queue'[o][i] = g
    <3>1. \A g \in Fetches : (\E i \in DOMAIN queue'[o] : queue'[o][i] = g)
                               <=> (g = f \/ \E i \in DOMAIN q : q[i] = g)
      <4>1. DOMAIN q = 1..Len(q) /\ Len(q) \in Nat
        BY <1>0
      <4>2. Len(q) + 1 \in DOMAIN queue'[o] /\ DOMAIN q \subseteq DOMAIN queue'[o]
        BY <2>3, <4>1
      <4>3. \A i \in DOMAIN queue'[o] : i \in DOMAIN q \/ i = Len(q) + 1
        BY <2>3, <4>1
      <4> QED
        BY <2>3, <4>1, <4>2, <4>3
    <3>2. \A g \in Fetches : (originOf[g] = o /\ pc[g] = "queued")
                               <=> \E i \in DOMAIN q : q[i] = g
      BY <1>0 DEF IInv, QueueIsWaiters
    <3> QED
      BY <3>1, <3>2, <2>1
  <2>6. \A p \in Origins \ {o} :
          /\ \A g \in Fetches : (originOf[g] = p /\ pc'[g] = "queued")
                                 <=> \E i \in DOMAIN queue'[p] : queue'[p][i] = g
          /\ \A i, j \in DOMAIN queue'[p] : queue'[p][i] = queue'[p][j] => i = j
    <3>1. \A p \in Origins \ {o}, g \in Fetches :
            (originOf[g] = p /\ pc'[g] = "queued")
              <=> (originOf[g] = p /\ pc[g] = "queued")
      BY <2>1
    <3> QED
      BY <2>1, <3>1 DEF IInv, QueueIsWaiters
  <2> QED
    BY <2>4, <2>5, <2>6 DEF QueueIsWaiters
<1>3. ReleaseFlags'
  BY DEF IInv, TypeOK, ReleaseFlags, AcquireQueued
<1>4. NoIdleSlot'
  BY <1>0 DEF IInv, TypeOK, NoIdleSlot, AcquireQueued
<1>5. SlotsCounted'
  <2>1. \A p \in Origins : Holders(p)' = Holders(p) /\ active'[p] = active[p]
    BY DEF IInv, TypeOK, AcquireQueued, Holders
  <2> QED
    BY <2>1 DEF IInv, SlotsCounted
<1> QED
  BY <1>1, <1>2, <1>3, <1>4, <1>5 DEF IInv

LEMMA LeavesQueue ==
  ASSUME IInv, NEW f \in Fetches, AbortQueued(f)
  PROVE  IInv'
<1> DEFINE o == originOf[f]
           q == queue[o]
<1>1. PICK k \in DOMAIN q : q[k] = f /\ queue' = [queue EXCEPT ![o] = Splice(q, k)]
  BY DEF AbortQueued
<1>2. o \in Origins /\ q \in Seq(Fetches) /\ pc[f] = "queued"
  BY <1>1, LimiterAssumption DEF IInv, TypeOK, QueueIsWaiters
<1>3. pc' = [pc EXCEPT ![f] = "rejected"] /\ pc' \in [Fetches -> States]
  BY DEF AbortQueued, IInv, TypeOK, States
<1>4. QueueIsWaiters' /\ queue' \in [Origins -> Seq(Fetches)]
  BY <1>1, <1>2, <1>3, SpliceOfWaiter DEF IInv, TypeOK
<1>5. TypeOK'
  BY <1>3, <1>4 DEF AbortQueued, IInv, TypeOK
<1>6. ReleaseFlags'
  BY <1>3 DEF AbortQueued, IInv, TypeOK, ReleaseFlags
<1>7. NoIdleSlot'
  BY <1>1, <1>2 DEF AbortQueued, IInv, TypeOK, NoIdleSlot
<1>8. SlotsCounted'
  <2>1. \A p \in Origins : Holders(p)' = Holders(p) /\ active'[p] = active[p]
    BY <1>2, <1>3 DEF IInv, TypeOK, AbortQueued, Holders
  <2> QED
    BY <2>1 DEF IInv, SlotsCounted
<1> QED
  BY <1>4, <1>5, <1>6, <1>7, <1>8 DEF IInv

\* The steps of a release function used for the first time, by the read that
\* holds the slot, are the three ways Settle can go.
LEMMA SettleIsFirst ==
  ASSUME IInv, NEW f \in Fetches, Settle(f)
  PROVE  /\ pc[f] = "fetching"
         /\ UNCHANGED <<view, aborted>>
         /\ \/ FreeSlot(f, [pc EXCEPT ![f] = "done"])
            \/ HandOff(f, [pc EXCEPT ![f] = "done"])
            \/ ScanThrows(f, [pc EXCEPT ![f] = "done"])
BY DEF Settle, CallRelease, RepeatedRelease, FirstRelease, IInv, ReleaseFlags

LEMMA Frees ==
  ASSUME IInv, NEW f \in Fetches, pc[f] = "fetching", UNCHANGED <<view, aborted>>,
         FreeSlot(f, [pc EXCEPT ![f] = "done"])
  PROVE  IInv'
<1> DEFINE o == originOf[f]
<1>0. o \in Origins /\ active[o] \in Nat /\ MaxRequests \in Nat
  BY LimiterAssumption DEF IInv, TypeOK
<1>1. pc' = [pc EXCEPT ![f] = "done"] /\ "done" \in States
  BY DEF FreeSlot, States
<1>2. /\ \A p \in Origins \ {o} : Holders(p)' = Holders(p) /\ active'[p] = active[p]
      /\ Holders(o)' = Holders(o) \ {f}
      /\ active'[o] = active[o] - 1
  <2>1. /\ Holders(o)' = Holders(o) \ {f}
        /\ \A p \in Origins \ {o} : Holders(p)' = Holders(p)
    BY <1>1, HoldersAfterDone DEF IInv
  <2>2. active' = [active EXCEPT ![o] = active[o] - 1]
    BY DEF FreeSlot
  <2>3. active'[o] = active[o] - 1 /\ \A p \in Origins \ {o} : active'[p] = active[p]
    BY <1>0, <2>2 DEF IInv, TypeOK
  <2> QED
    BY <2>1, <2>3
<1>3. f \in Holders(o)
  BY DEF Holders
<1>4. /\ Cardinality(Holders(o)') = Cardinality(Holders(o)) - 1
      /\ Cardinality(Holders(o)) \in Nat
      /\ Cardinality(Holders(o)') \in Nat
  BY <1>0, <1>2, <1>3, HoldersFinite, FS_RemoveElement, FS_CardinalityType
<1>5. SlotsCounted' /\ active'[o] \in Nat
  <2>1. /\ Cardinality(Holders(o)') <= active'[o]
        /\ active'[o] <= MaxRequests
        /\ Throwing = {} => active'[o] = Cardinality(Holders(o)')
        /\ active'[o] \in Nat
    BY <1>0, <1>2, <1>4 DEF IInv, SlotsCounted
  <2>2. \A p \in Origins \ {o} :
          /\ Cardinality(Holders(p)') <= active'[p]
          /\ active'[p] <= MaxRequests
          /\ Throwing = {} => active'[p] = Cardinality(Holders(p)')
    BY <1>2 DEF IInv, SlotsCounted
  <2> QED
    BY <2>1, <2>2 DEF SlotsCounted
<1>6. TypeOK'
  BY <1>0, <1>1, <1>5 DEF IInv, TypeOK, FreeSlot
<1>7. QueueIsWaiters'
  BY <1>1 DEF IInv, TypeOK, QueueIsWaiters, FreeSlot
<1>8. ReleaseFlags'
  BY <1>1 DEF IInv, TypeOK, ReleaseFlags, FreeSlot
<1>9. NoIdleSlot'
  BY <1>0 DEF IInv, TypeOK, NoIdleSlot, FreeSlot
<1> QED
  BY <1>5, <1>6, <1>7, <1>8, <1>9 DEF IInv

LEMMA Hands ==
  ASSUME IInv, NEW f \in Fetches, pc[f] = "fetching", UNCHANGED <<view, aborted>>,
         HandOff(f, [pc EXCEPT ![f] = "done"])
  PROVE  IInv'
<1> DEFINE o == originOf[f]
           q == queue[o]
<1>0. o \in Origins /\ q \in Seq(Fetches)
  BY LimiterAssumption DEF IInv, TypeOK
<1>1. PICK k \in DOMAIN q :
        /\ queue' = [queue EXCEPT ![o] = Splice(q, k)]
        /\ released' = [released EXCEPT ![f] = TRUE, ![q[k]] = FALSE]
        /\ pc' = [[pc EXCEPT ![f] = "done"] EXCEPT ![q[k]] = "granted"]
  BY DEF HandOff
<1> DEFINE g == q[k]
<1>2. g \in Fetches /\ originOf[g] = o /\ pc[g] = "queued" /\ g # f /\ queue[originOf[g]][k] = g
  BY <1>0 DEF IInv, QueueIsWaiters
<1>3. /\ pc'[f] = "done" /\ pc'[g] = "granted"
      /\ \A h \in Fetches \ {f, g} : pc'[h] = pc[h]
      /\ pc' \in [Fetches -> States]
  BY <1>1, <1>2 DEF IInv, TypeOK, States
<1>4. /\ released'[f] = TRUE /\ released'[g] = FALSE
      /\ \A h \in Fetches \ {f, g} : released'[h] = released[h]
      /\ released' \in [Fetches -> BOOLEAN]
  BY <1>1, <1>2 DEF IInv, TypeOK
<1>5. QueueIsWaiters' /\ queue' \in [Origins -> Seq(Fetches)]
  <2>1. \A h \in Fetches \ {g} : pc[h] = "queued" <=> pc'[h] = "queued"
    BY <1>3
  <2>2. pc'[g] # "queued"
    BY <1>3
  <2> QED
    BY <1>1, <1>2, <1>3, <2>1, <2>2, SpliceOfWaiter DEF IInv
<1>6. UNCHANGED active
  BY DEF HandOff
<1>7. TypeOK'
  BY <1>3, <1>4, <1>5, <1>6 DEF IInv, TypeOK
<1>8. ReleaseFlags'
  BY <1>3, <1>4 DEF IInv, ReleaseFlags
<1>9. NoIdleSlot'
  BY <1>0, <1>1, <1>6 DEF IInv, TypeOK, NoIdleSlot
<1>10. SlotsCounted'
  <2>1. \A p \in Origins \ {o} : Holders(p)' = Holders(p)
    BY <1>2, <1>3 DEF Holders
  <2>2. Holders(o)' = (Holders(o) \ {f}) \cup {g}
    BY <1>2, <1>3 DEF Holders
  <2>3. f \in Holders(o) /\ g \notin Holders(o)
    BY <1>2 DEF Holders
  <2>4. Cardinality(Holders(o)') = Cardinality(Holders(o))
    <3>1. /\ IsFiniteSet(Holders(o) \ {f})
          /\ Cardinality(Holders(o) \ {f}) = Cardinality(Holders(o)) - 1
      BY <1>0, <2>3, HoldersFinite, FS_RemoveElement
    <3>2. Cardinality((Holders(o) \ {f}) \cup {g}) = Cardinality(Holders(o) \ {f}) + 1
      BY <2>3, <3>1, FS_AddElement
    <3> QED
      BY <1>0, <2>2, <3>1, <3>2, HoldersFinite
  <2>5. \A p \in Origins : Cardinality(Holders(p)') = Cardinality(Holders(p))
    BY <2>1, <2>4
  <2> QED
    BY <2>5, <1>6 DEF IInv, SlotsCounted
<1> QED
  BY <1>5, <1>7, <1>8, <1>9, <1>10 DEF IInv

LEMMA Loses ==
  ASSUME IInv, NEW f \in Fetches, pc[f] = "fetching", UNCHANGED <<view, aborted>>,
         ScanThrows(f, [pc EXCEPT ![f] = "done"])
  PROVE  IInv'
<1> DEFINE o == originOf[f]
<1>0. o \in Origins /\ active[o] \in Nat
  BY LimiterAssumption DEF IInv, TypeOK
<1>1. pc' = [pc EXCEPT ![f] = "done"] /\ "done" \in States
  BY DEF ScanThrows, States
<1>2. Throwing # {}
  BY DEF ScanThrows
<1>3. \A p \in Origins \ {o} : Holders(p)' = Holders(p)
  BY <1>1, HoldersAfterDone DEF IInv
<1>4. Cardinality(Holders(o)') <= Cardinality(Holders(o))
  <2>1. Holders(o)' \in SUBSET Holders(o)
    BY <1>1, HoldersAfterDone DEF IInv
  <2> QED
    BY <2>1, <1>0, HoldersFinite, FS_Subset
<1>5. Cardinality(Holders(o)') \in Nat /\ Cardinality(Holders(o)) \in Nat
  <2>1. Holders(o)' = Holders(o) \ {f}
    BY <1>1, HoldersAfterDone DEF IInv
  <2> QED
    BY <2>1, <1>0, HoldersFinite, FS_RemoveElement, FS_CardinalityType
<1>6. SlotsCounted'
  <2>1. Cardinality(Holders(o)') <= active'[o] /\ active'[o] <= MaxRequests
    BY <1>0, <1>4, <1>5 DEF IInv, SlotsCounted, ScanThrows
  <2>2. \A p \in Origins \ {o} :
          Cardinality(Holders(p)') <= active'[p] /\ active'[p] <= MaxRequests
    BY <1>3 DEF IInv, SlotsCounted, ScanThrows
  <2> QED
    BY <1>2, <2>1, <2>2 DEF SlotsCounted
<1>7. TypeOK'
  BY <1>1 DEF IInv, TypeOK, ScanThrows
<1>8. QueueIsWaiters' /\ NoIdleSlot'
  BY <1>1 DEF IInv, TypeOK, QueueIsWaiters, NoIdleSlot, ScanThrows
<1>9. ReleaseFlags'
  BY <1>1 DEF IInv, TypeOK, ReleaseFlags, ScanThrows
<1> QED
  BY <1>6, <1>7, <1>8, <1>9 DEF IInv

-----------------------------------------------------------------------------
LEMMA NextIInv == IInv /\ [Next]_vars => IInv'
<1> SUFFICES ASSUME IInv, [Next]_vars
             PROVE  IInv'
  OBVIOUS
<1>1. ASSUME NEW f \in Fetches, Again(f) PROVE IInv'
  <2>1. TypeOK'
    BY <1>1 DEF Again, IInv, TypeOK, States
  <2> QED
    BY <1>1, <2>1, QuietStep DEF Again, IInv, States
<1>2. ASSUME NEW f \in Fetches, AcquireAborted(f) PROVE IInv'
  <2>1. TypeOK'
    BY <1>2 DEF AcquireAborted, IInv, TypeOK, States
  <2> QED
    BY <1>2, <2>1, QuietStep DEF AcquireAborted, IInv, States
<1>3. ASSUME NEW f \in Fetches, AcquireFree(f) PROVE IInv'
  BY <1>3, TakesFree
<1>4. ASSUME NEW f \in Fetches, AcquireQueued(f) PROVE IInv'
  BY <1>4, Enqueues
<1>5. ASSUME NEW f \in Fetches, AbortQueued(f) PROVE IInv'
  BY <1>5, LeavesQueue
<1>6. ASSUME NEW f \in Fetches, AbortElsewhere(f) PROVE IInv'
  <2>1. TypeOK'
    BY <1>6 DEF AbortElsewhere, IInv, TypeOK
  <2> QED
    BY <1>6, <2>1, InertStep DEF AbortElsewhere, IInv
<1>7. ASSUME NEW f \in Fetches, Start(f) PROVE IInv'
  <2>1. TypeOK'
    BY <1>7 DEF Start, IInv, TypeOK, States
  <2> QED
    BY <1>7, <2>1, QuietStep DEF Start, IInv, States
<1>8. ASSUME NEW f \in Fetches, Settle(f) PROVE IInv'
  BY <1>8, SettleIsFirst, Frees, Hands, Loses
<1>9. ASSUME NEW f \in Fetches, ReleaseAgain(f) PROVE IInv'
  <2>1. UNCHANGED vars
    BY <1>9 DEF ReleaseAgain, CallRelease, FirstRelease, RepeatedRelease,
                IInv, ReleaseFlags, vars
  <2> QED
    BY <2>1, InertStep DEF IInv, TypeOK, vars
<1>10. ASSUME NEW v \in Views, Pan(v) PROVE IInv'
  <2>1. TypeOK'
    BY <1>10 DEF Pan, IInv, TypeOK
  <2> QED
    BY <1>10, <2>1, InertStep DEF Pan, IInv
<1>11. CASE UNCHANGED vars
  BY <1>11, InertStep DEF IInv, TypeOK, vars
<1> QED
  BY <1>1, <1>2, <1>3, <1>4, <1>5, <1>6, <1>7, <1>8, <1>9, <1>10, <1>11
     DEF Next, FetchStep

\* The inductive invariant holds throughout, with or without fairness.
THEOREM Invariance == Safety => []IInv
<1>1. Init => IInv
  BY InitIInv
<1>2. IInv /\ [Next]_vars => IInv'
  BY NextIInv
<1> QED
  BY <1>1, <1>2, PTL DEF Safety

\* The variables keep their types.
THEOREM TypeCorrectness == Safety => []TypeOK
BY Invariance, PTL DEF IInv

\* Each waiting read is in its Semaphore's queue, once, and nothing else is.
THEOREM QueueCorrectness == Safety => []QueueIsWaiters
BY Invariance, PTL DEF IInv

\* Whatever the callbacks do, no origin ever has more than MaxRequests reads
\* holding a slot, and every holder is counted.
THEOREM NeverOversubscribed == Safety => []NoOversubscription
<1>1. IInv => NoOversubscription
  BY DEF IInv, SlotsCounted, NoOversubscription
<1> QED
  BY <1>1, Invariance, PTL

\* While no getPriority callback throws, the slots counted are exactly the reads
\* that hold one: none is ever lost.
THEOREM SlotConservation ==
  ASSUME Throwing = {}
  PROVE  Safety => []SlotsConserved
<1>1. IInv => SlotsConserved
  BY DEF IInv, SlotsCounted, SlotsConserved
<1> QED
  BY <1>1, Invariance, PTL

-----------------------------------------------------------------------------
\* The only step that changes two reads: one settles, one of its origin is
\* granted.
HandsOver(f, g) ==
  /\ f # g /\ originOf[f] = originOf[g]
  /\ pc[f] = "fetching" /\ pc[g] = "queued"
  /\ pc' = [[pc EXCEPT ![f] = "done"] EXCEPT ![g] = "granted"]
  /\ UNCHANGED aborted

\* The moves a read makes alone.
SoloMoves ==
  {<<"idle", "rejected">>, <<"idle", "granted">>, <<"idle", "queued">>,
   <<"queued", "rejected">>, <<"granted", "fetching">>, <<"fetching", "done">>,
   <<"done", "idle">>, <<"rejected", "idle">>}

\* f moves alone, the others and their signals staying as they are; a read that
\* is queued or granted then has no aborted signal.
MovesAlone(f) ==
  /\ \E s \in States : pc' = [pc EXCEPT ![f] = s] /\ <<pc[f], s>> \in SoloMoves
  /\ \A g \in Fetches \ {f} : aborted'[g] = aborted[g]
  /\ (pc[f] = "idle" /\ pc'[f] \in {"queued", "granted"}) => ~aborted[f] /\ ~aborted'[f]

LEMMA StepShape ==
  ASSUME IInv, [Next]_vars
  PROVE  \/ UNCHANGED pc /\ \A g \in Fetches : pc[g] = "queued" => aborted'[g] = aborted[g]
         \/ \E f \in Fetches : MovesAlone(f)
         \/ \E f, g \in Fetches : HandsOver(f, g)
<1> USE DEF MovesAlone, SoloMoves, States
<1>1. ASSUME NEW f \in Fetches, Again(f) PROVE MovesAlone(f)
  BY <1>1 DEF Again, IInv, TypeOK
<1>2. ASSUME NEW f \in Fetches, AcquireAborted(f) PROVE MovesAlone(f)
  BY <1>2 DEF AcquireAborted, IInv, TypeOK
<1>3. ASSUME NEW f \in Fetches, AcquireFree(f) PROVE MovesAlone(f)
  BY <1>3 DEF AcquireFree, IInv, TypeOK
<1>4. ASSUME NEW f \in Fetches, AcquireQueued(f) PROVE MovesAlone(f)
  BY <1>4 DEF AcquireQueued, IInv, TypeOK
<1>5. ASSUME NEW f \in Fetches, AbortQueued(f) PROVE MovesAlone(f)
  <2>1. pc[f] = "queued"
    BY <1>5, LimiterAssumption DEF AbortQueued, IInv, QueueIsWaiters
  <2> QED
    BY <1>5, <2>1 DEF AbortQueued, IInv, TypeOK
<1>6. ASSUME NEW f \in Fetches, AbortElsewhere(f)
      PROVE  UNCHANGED pc /\ \A g \in Fetches : pc[g] = "queued" => aborted'[g] = aborted[g]
  BY <1>6 DEF AbortElsewhere, IInv, TypeOK
<1>7. ASSUME NEW f \in Fetches, Start(f) PROVE MovesAlone(f)
  BY <1>7 DEF Start, IInv, TypeOK
<1>8. ASSUME NEW f \in Fetches, Settle(f)
      PROVE  MovesAlone(f) \/ \E g \in Fetches : HandsOver(f, g)
  <2>1. CASE FreeSlot(f, [pc EXCEPT ![f] = "done"])
    BY <1>8, <2>1, SettleIsFirst DEF FreeSlot, IInv, TypeOK
  <2>2. CASE ScanThrows(f, [pc EXCEPT ![f] = "done"])
    BY <1>8, <2>2, SettleIsFirst DEF ScanThrows, IInv, TypeOK
  <2>3. CASE HandOff(f, [pc EXCEPT ![f] = "done"])
    <3>1. PICK k \in DOMAIN queue[originOf[f]] :
            pc' = [[pc EXCEPT ![f] = "done"] EXCEPT ![queue[originOf[f]][k]] = "granted"]
      BY <2>3 DEF HandOff
    <3>2. originOf[f] \in Origins /\ queue[originOf[f]] \in Seq(Fetches)
      BY LimiterAssumption DEF IInv, TypeOK
    <3>3. PICK g \in Fetches : g = queue[originOf[f]][k]
      BY <3>2
    <3>4. originOf[g] = originOf[f] /\ pc[g] = "queued"
      BY <3>2, <3>3 DEF IInv, QueueIsWaiters
    <3>5. pc[f] = "fetching" /\ UNCHANGED aborted
      BY <1>8, SettleIsFirst
    <3>6. HandsOver(f, g)
      BY <3>1, <3>3, <3>4, <3>5 DEF HandsOver
    <3> QED
      BY <3>6
  <2> QED
    BY <1>8, <2>1, <2>2, <2>3, SettleIsFirst
<1>9. ASSUME NEW f \in Fetches, ReleaseAgain(f) PROVE UNCHANGED <<pc, aborted>>
  BY <1>9 DEF ReleaseAgain, CallRelease, FirstRelease, RepeatedRelease, IInv, ReleaseFlags
<1>10. ASSUME NEW v \in Views, Pan(v) PROVE UNCHANGED <<pc, aborted>>
  BY <1>10 DEF Pan
<1> QED
  BY <1>1, <1>2, <1>3, <1>4, <1>5, <1>6, <1>7, <1>8, <1>9, <1>10
     DEF Next, FetchStep, vars

\* A signal that aborted before the grant costs no slot.
THEOREM AbortedStaysOut == Safety => AbortedTakesNoSlot
<1> DEFINE Clear == \A f \in Fetches : aborted[f] => pc[f] # "queued"
           OK == \A f \in Fetches :
                   (aborted[f] /\ pc[f] \in {"idle", "queued"}) => pc'[f] # "granted"
<1>1. Init => Clear
  BY DEF Init
<1>2. IInv /\ Clear /\ [Next]_vars => Clear' /\ [OK]_vars
  <2> SUFFICES ASSUME IInv, Clear, [Next]_vars
               PROVE  Clear' /\ OK
    OBVIOUS
  <2>1. CASE UNCHANGED pc /\ \A g \in Fetches : pc[g] = "queued" => aborted'[g] = aborted[g]
    BY <2>1
  <2>2. ASSUME NEW f \in Fetches, MovesAlone(f)
        PROVE  Clear' /\ OK
    BY <2>2 DEF MovesAlone, SoloMoves, IInv, TypeOK
  <2>3. ASSUME NEW f \in Fetches, NEW g \in Fetches, HandsOver(f, g)
        PROVE  Clear' /\ OK
    BY <2>3 DEF HandsOver, IInv, TypeOK
  <2> QED
    BY <2>1, <2>2, <2>3, StepShape
<1> QED
  BY <1>1, <1>2, Invariance, PTL DEF Safety, AbortedTakesNoSlot

-----------------------------------------------------------------------------
\* What a step may do to the queue of origin o.
Unserved(o) == \A i \in DOMAIN queue[o] : pc'[queue[o][i]] # "granted"

QueueMoves(o) ==
  \/ queue'[o] = queue[o] /\ Unserved(o)
  \/ \E f \in Fetches :
       pc[f] = "idle" /\ queue'[o] = Append(queue[o], f) /\ Unserved(o)
  \/ \E k \in DOMAIN queue[o] :
       /\ queue'[o] = Splice(queue[o], k)
       /\ \A i \in DOMAIN queue[o] :
            pc'[queue[o][i]] = "granted" => i = k /\ IsNext(Priorities(queue[o]), k)

LEMMA QueuedFacts ==
  ASSUME IInv, NEW o \in Origins, NEW i \in DOMAIN queue[o]
  PROVE  queue[o][i] \in Fetches /\ originOf[queue[o][i]] = o /\ pc[queue[o][i]] = "queued"
<1>1. queue[o] \in Seq(Fetches)
  BY DEF IInv, TypeOK
<1> QED
  BY <1>1 DEF IInv, QueueIsWaiters

\* A step in which no read leaves a queue for a slot and no queue changes.
LEMMA NoneServed ==
  ASSUME IInv, NEW o \in Origins, UNCHANGED queue,
         \A g \in Fetches : pc[g] = "queued" => pc'[g] # "granted"
  PROVE  QueueMoves(o)
BY QueuedFacts DEF QueueMoves, Unserved

LEMMA QueueStep ==
  ASSUME IInv, [Next]_vars, NEW o \in Origins
  PROVE  QueueMoves(o)
<1>1. ASSUME NEW f \in Fetches,
             Again(f) \/ AcquireAborted(f) \/ AcquireFree(f) \/ AbortElsewhere(f) \/ Start(f)
      PROVE  QueueMoves(o)
  <2>1. UNCHANGED queue /\ \A g \in Fetches : pc[g] = "queued" => pc'[g] # "granted"
    BY <1>1 DEF Again, AcquireAborted, AcquireFree, AbortElsewhere, Start, IInv, TypeOK
  <2> QED
    BY <2>1, NoneServed
<1>2. ASSUME NEW f \in Fetches, AcquireQueued(f) PROVE QueueMoves(o)
  <2>1. \A g \in Fetches : pc[g] = "queued" => pc'[g] # "granted"
    BY <1>2 DEF AcquireQueued, IInv, TypeOK
  <2>2. pc[f] = "idle" /\ (queue'[o] = queue[o] \/ queue'[o] = Append(queue[o], f))
    BY <1>2 DEF AcquireQueued, IInv, TypeOK
  <2> QED
    BY <2>1, <2>2, QueuedFacts DEF QueueMoves, Unserved
<1>3. ASSUME NEW f \in Fetches, AbortQueued(f) PROVE QueueMoves(o)
  <2>1. \A g \in Fetches : pc[g] = "queued" => pc'[g] # "granted"
    BY <1>3 DEF AbortQueued, IInv, TypeOK
  <2>2. queue'[o] = queue[o] \/ \E k \in DOMAIN queue[o] : queue'[o] = Splice(queue[o], k)
    BY <1>3 DEF AbortQueued, IInv, TypeOK
  <2> QED
    BY <2>1, <2>2, QueuedFacts DEF QueueMoves, Unserved
<1>4. ASSUME NEW f \in Fetches, Settle(f) PROVE QueueMoves(o)
  <2>1. CASE FreeSlot(f, [pc EXCEPT ![f] = "done"]) \/ ScanThrows(f, [pc EXCEPT ![f] = "done"])
    <3>1. UNCHANGED queue /\ \A g \in Fetches : pc[g] = "queued" => pc'[g] # "granted"
      BY <1>4, <2>1, SettleIsFirst DEF FreeSlot, ScanThrows, IInv, TypeOK
    <3> QED
      BY <3>1, NoneServed
  <2>2. CASE HandOff(f, [pc EXCEPT ![f] = "done"])
    <3> DEFINE p == originOf[f]
               q == queue[p]
    <3>1. PICK k \in DOMAIN q :
            /\ IsNext(Priorities(q), k)
            /\ queue' = [queue EXCEPT ![p] = Splice(q, k)]
            /\ pc' = [[pc EXCEPT ![f] = "done"] EXCEPT ![q[k]] = "granted"]
      BY <2>2 DEF HandOff
    <3>2. p \in Origins /\ q[k] \in Fetches /\ originOf[q[k]] = p
      BY QueuedFacts, LimiterAssumption
    <3>3. \A g \in Fetches : pc[g] = "queued" /\ pc'[g] = "granted" => g = q[k]
      BY <3>1 DEF IInv, TypeOK
    <3>4. CASE o = p
      <4>1. queue'[o] = Splice(queue[o], k)
        BY <3>1, <3>2, <3>4 DEF IInv, TypeOK
      <4>2. ASSUME NEW i \in DOMAIN queue[o], pc'[queue[o][i]] = "granted"
            PROVE  i = k
        <5>1. queue[o][i] = q[k]
          BY <3>3, <4>2, QueuedFacts
        <5> QED
          BY <3>2, <3>4, <5>1 DEF IInv, QueueIsWaiters
      <4> QED
        BY <3>1, <3>4, <4>1, <4>2 DEF QueueMoves
    <3>5. CASE o # p
      <4>1. queue'[o] = queue[o]
        BY <3>1, <3>5 DEF IInv, TypeOK
      <4>2. Unserved(o)
        BY <3>2, <3>3, <3>5, QueuedFacts DEF Unserved
      <4> QED
        BY <4>1, <4>2 DEF QueueMoves
    <3> QED
      BY <3>4, <3>5
  <2> QED
    BY <1>4, <2>1, <2>2, SettleIsFirst
<1>5. ASSUME NEW f \in Fetches, ReleaseAgain(f) PROVE QueueMoves(o)
  <2>1. UNCHANGED <<pc, queue>>
    BY <1>5 DEF ReleaseAgain, CallRelease, FirstRelease, RepeatedRelease, IInv, ReleaseFlags
  <2> QED
    BY <2>1, NoneServed
<1>6. ASSUME NEW v \in Views, Pan(v) PROVE QueueMoves(o)
  BY <1>6, NoneServed DEF Pan
<1>7. CASE UNCHANGED vars
  BY <1>7, NoneServed DEF vars
<1> QED
  BY <1>1, <1>2, <1>3, <1>4, <1>5, <1>6, <1>7 DEF Next, FetchStep

\* Elements that q and r share stand in the same order in both.
SameOrder(q, r) ==
  \A i, j \in DOMAIN q : i < j =>
    \A m, n \in DOMAIN r : r[m] = q[i] /\ r[n] = q[j] => m < n

LEMMA AppendKeepsOrder ==
  ASSUME NEW S, NEW q \in Seq(S), NEW e \in S,
         \A i, j \in DOMAIN q : q[i] = q[j] => i = j, \A i \in DOMAIN q : q[i] # e
  PROVE  SameOrder(q, Append(q, e))
<1>1. /\ DOMAIN Append(q, e) = 1..Len(q) + 1 /\ DOMAIN q = 1..Len(q) /\ Len(q) \in Nat
      /\ \A m \in 1..Len(q) : Append(q, e)[m] = q[m]
      /\ Append(q, e)[Len(q) + 1] = e
  OBVIOUS
<1>2. \A m \in 1..Len(q) + 1 : m \in 1..Len(q) \/ m = Len(q) + 1
  BY <1>1
<1> QED
  BY <1>1, <1>2 DEF SameOrder

LEMMA SpliceKeepsOrder ==
  ASSUME NEW S, NEW q \in Seq(S), NEW k \in DOMAIN q,
         \A i, j \in DOMAIN q : q[i] = q[j] => i = j
  PROVE  SameOrder(q, Splice(q, k))
<1> DEFINE from(m) == IF m < k THEN m ELSE m + 1
<1>1. /\ DOMAIN Splice(q, k) = 1..Len(q) - 1 /\ DOMAIN q = 1..Len(q) /\ Len(q) \in Nat
      /\ \A m \in 1..Len(q) - 1 : Splice(q, k)[m] = q[from(m)] /\ from(m) \in DOMAIN q
  <2>1. /\ DOMAIN Splice(q, k) = 1..Len(q) - 1
        /\ \A m \in 1..Len(q) - 1 : Splice(q, k)[m] = IF m < k THEN q[m] ELSE q[m + 1]
    BY SpliceFacts
  <2> QED
    BY <2>1
<1>2. ASSUME NEW i \in DOMAIN q, NEW j \in DOMAIN q, i < j,
             NEW m \in 1..Len(q) - 1, NEW n \in 1..Len(q) - 1,
             Splice(q, k)[m] = q[i], Splice(q, k)[n] = q[j]
      PROVE  m < n
  <2>1. from(m) = i /\ from(n) = j
    <3> HIDE DEF from
    <3> QED
      BY <1>1, <1>2
  <2> QED
    BY <1>1, <1>2, <2>1
<1> QED
  BY <1>1, <1>2 DEF SameOrder

\* Whoever gets a slot is the most urgent waiter of its origin at that moment,
\* the first to arrive among equals, and nobody overtakes in the queue.
THEOREM UrgentFirst == Safety => MostUrgentServed
<1> DEFINE served(o, i, j) ==
             (pc'[queue[o][i]] = "granted" /\ i # j) =>
               LET mine  == PriorityOf[view][queue[o][i]]
                   other == PriorityOf[view][queue[o][j]]
               IN Before(mine, other) \/ (i < j /\ ~Before(other, mine))
           ordered(o, i, j) ==
             i < j => \A m, n \in DOMAIN queue'[o] :
               (queue'[o][m] = queue[o][i] /\ queue'[o][n] = queue[o][j]) => m < n
           OK == \A o \in Origins : \A i, j \in DOMAIN queue[o] :
       /\ (pc'[queue[o][i]] = "granted" /\ i # j) =>
            LET mine  == PriorityOf[view][queue[o][i]]
                other == PriorityOf[view][queue[o][j]]
            IN Before(mine, other) \/ (i < j /\ ~Before(other, mine))
       /\ i < j => \A m, n \in DOMAIN queue'[o] :
            (queue'[o][m] = queue[o][i] /\ queue'[o][n] = queue[o][j]) => m < n
<1>1. IInv /\ [Next]_vars => [OK]_vars
  <2> SUFFICES ASSUME IInv, [Next]_vars,
                      NEW o \in Origins, NEW i \in DOMAIN queue[o], NEW j \in DOMAIN queue[o]
               PROVE  served(o, i, j) /\ ordered(o, i, j)
    OBVIOUS
  <2> DEFINE q == queue[o]
  <2>1. q \in Seq(Fetches) /\ \A a, b \in DOMAIN q : q[a] = q[b] => a = b
    BY DEF IInv, TypeOK, QueueIsWaiters
  <2>2. QueueMoves(o)
    BY QueueStep
  <2>3. served(o, i, j)
    <3> SUFFICES ASSUME pc'[q[i]] = "granted", i # j
                 PROVE  \/ Before(PriorityOf[view][q[i]], PriorityOf[view][q[j]])
                        \/ i < j /\ ~Before(PriorityOf[view][q[j]], PriorityOf[view][q[i]])
      OBVIOUS
    <3>1. IsNext(Priorities(q), i)
      BY <2>2 DEF QueueMoves, Unserved
    <3>2. DOMAIN Priorities(q) = DOMAIN q /\ \A a \in DOMAIN q : Priorities(q)[a] = PriorityOf[view][q[a]]
      BY DEF Priorities
    <3>3. i < j \/ j < i
      BY <2>1
    <3>4. /\ j < i => Before(PriorityOf[view][q[i]], PriorityOf[view][q[j]])
          /\ j > i => ~Before(PriorityOf[view][q[j]], PriorityOf[view][q[i]])
      BY <3>1, <3>2 DEF IsNext
    <3> QED
      BY <3>3, <3>4, <2>1
  <2>4. ordered(o, i, j)
    <3>1. CASE queue'[o] = q
      BY <2>1, <3>1
    <3>2. ASSUME NEW f \in Fetches, pc[f] = "idle", queue'[o] = Append(q, f)
          PROVE  ordered(o, i, j)
      <4>1. \A a \in DOMAIN q : q[a] # f
        BY <3>2, QueuedFacts
      <4>2. SameOrder(q, queue'[o])
        BY <2>1, <3>2, <4>1, AppendKeepsOrder
      <4> QED
        BY <4>2 DEF SameOrder
    <3>3. ASSUME NEW k \in DOMAIN q, queue'[o] = Splice(q, k)
          PROVE  ordered(o, i, j)
      <4>1. SameOrder(q, queue'[o])
        BY <2>1, <3>3, SpliceKeepsOrder
      <4> QED
        BY <4>1 DEF SameOrder
    <3> QED
      BY <2>2, <3>1, <3>2, <3>3 DEF QueueMoves
  <2> QED
    BY <2>3, <2>4
<1> QED
  BY <1>1, Invariance, PTL DEF Safety, MostUrgentServed

-----------------------------------------------------------------------------
\* The phases ConcurrencyLimit sees.
Phase == [f \in Fetches |-> PhaseOf(pc[f])]

\* Running reads are the holders of slots, waiting reads the queued ones.
LEMMA PhaseFacts ==
  ASSUME TypeOK
  PROVE  /\ Phase \in [Fetches -> Promise!Phases]
         /\ \A o \in Origins : Promise!Running(o) = Holders(o)
         /\ \A f \in Fetches : Phase[f] = "waiting" <=> pc[f] = "queued"
BY DEF TypeOK, States, Phase, PhaseOf, Promise!Phases, Promise!Running, Holders

\* ConcurrencyLimit counts with the same Cardinality.
LEMMA SameCardinality == \A S : Promise!Cardinality(S) = Cardinality(S)
BY DEF Promise!Cardinality, Cardinality

LEMMA PromisedState ==
  ASSUME IInv, Throwing = {}
  PROVE  Promise!Capped /\ Promise!WorkConserving
<1>1. \A o \in Origins : Promise!Running(o) = Holders(o)
  BY PhaseFacts DEF IInv
<1>2. Promise!Capped
  BY <1>1, SameCardinality, HoldersFinite, LimiterAssumption
     DEF IInv, TypeOK, SlotsCounted, Promise!Capped
<1>3. \A o \in Origins : Promise!Waiting(o) # {} => queue[o] # <<>>
  <2> SUFFICES ASSUME NEW o \in Origins, NEW f \in Promise!Waiting(o)
               PROVE  queue[o] # <<>>
    OBVIOUS
  <2>1. f \in Fetches /\ originOf[f] = o /\ pc[f] = "queued"
    BY PhaseFacts DEF IInv, Promise!Waiting, Phase
  <2>2. PICK i \in DOMAIN queue[o] : queue[o][i] = f
    BY <2>1 DEF IInv, QueueIsWaiters
  <2> QED
    BY <2>2
<1>4. Promise!WorkConserving
  BY <1>1, <1>3, SameCardinality DEF IInv, NoIdleSlot, SlotsCounted, Promise!WorkConserving
<1> QED
  BY <1>2, <1>4

\* What a state owes ConcurrencyLimit.
Promised ==
  Promise!Capped /\ Promise!WorkConserving /\ Phase \in [Fetches -> Promise!Phases]

\* The limiter implements ConcurrencyLimit, for any number of reads, origins and
\* slots and any priorities: while no getPriority callback throws, every step
\* serves, drops or hands over exactly as promised.
THEOREM LimiterKeepsPromise ==
  ASSUME Throwing = {}
  PROVE  Safety => KeepsPromise
<1>1. Init => Promise!Init
  BY DEF Init, Promise!Init, PhaseOf
<1>2. IInv => Promised
  BY PromisedState, PhaseFacts DEF IInv, Promised
<1>3. IInv' => Promised'
  BY <1>2, PTL
<1>4. IInv /\ IInv' /\ [Next]_vars => [Promise!Next]_Phase
  <2> SUFFICES ASSUME IInv, IInv', [Next]_vars
               PROVE  [Promise!Next]_Phase
    OBVIOUS
  <2>1. Promise!Capped' /\ Promise!WorkConserving'
    BY <1>3 DEF Promised
  <2>2. Phase' \in [Fetches -> Promise!Phases]
    BY <1>3 DEF Promised
  <2>3. CASE UNCHANGED pc
    BY <2>3 DEF Phase
  <2>4. ASSUME NEW f \in Fetches, MovesAlone(f)
        PROVE  [Promise!Next]_Phase
    <3>1. \A g \in Fetches \ {f} : Phase'[g] = Phase[g]
      BY <2>4 DEF MovesAlone, Phase, IInv, TypeOK
    <3>2. Phase'[f] # Phase[f] => <<Phase[f], Phase'[f]>> \in Promise!Moves
      BY <2>4 DEF MovesAlone, SoloMoves, Phase, PhaseOf, Promise!Moves, IInv, TypeOK
    <3> QED
      BY <3>1, <3>2, <2>1, <2>2 DEF Promise!Next, Phase
  <2>5. ASSUME NEW f \in Fetches, NEW g \in Fetches, HandsOver(f, g)
        PROVE  [Promise!Next]_Phase
    <3>1. \A h \in Fetches \ {f, g} : Phase'[h] = Phase[h]
      BY <2>5 DEF HandsOver, Phase, IInv, TypeOK
    <3>2. /\ Phase[f] = "running" /\ Phase'[f] = "settled"
          /\ Phase[g] = "waiting" /\ Phase'[g] = "running"
          /\ originOf[f] = originOf[g]
      BY <2>5 DEF HandsOver, Phase, PhaseOf, IInv, TypeOK
    <3>3. <<"running", "settled">> \in Promise!Moves /\ <<"waiting", "running">> \in Promise!Moves
      BY DEF Promise!Moves
    <3>4. \A h \in Fetches : Phase'[h] # Phase[h] => <<Phase[h], Phase'[h]>> \in Promise!Moves
      BY <3>1, <3>2, <3>3
    <3>5. \A h, k \in Fetches :
            (h # k /\ Phase'[h] # Phase[h] /\ Phase'[k] # Phase[k])
              => /\ originOf[h] = originOf[k]
                 /\ {Phase'[h], Phase'[k]} = {"running", "settled"}
      BY <3>1, <3>2
    <3> QED
      BY <3>4, <3>5, <2>1, <2>2 DEF Promise!Next, Phase
  <2> QED
    BY <2>3, <2>4, <2>5, StepShape
<1> QED
  BY <1>1, <1>4, Invariance, PTL DEF Safety, KeepsPromise, Promise!Safety, Phase
=============================================================================
