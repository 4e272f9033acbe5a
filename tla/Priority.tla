------------------------------ MODULE Priority ------------------------------
(***************************************************************************)
(* The order in which the waiters of a request limiter are served          *)
(* (packages/geotiff/src/limiter.ts).  A priority is a tuple of numbers,   *)
(* a plain number being the 1-tuple; lower is served sooner.               *)
(***************************************************************************)
EXTENDS Integers, Sequences, FiniteSets

CONSTANT NaN   \* JavaScript's not-a-number, as a degenerate viewport yields it

ASSUME NaNAssumption == NaN \notin Int

\* What a getPriority callback may return.
PriorityType == Seq(Int \cup {NaN})

\* normalizePriority: a missing or NaN element counts as 0.
normalizePriority(p, i) == IF i \in DOMAIN p /\ p[i] # NaN THEN p[i] ELSE 0

\* The positions comparePriorities visits: those of the longer tuple.
Positions(p, q) == DOMAIN p \cup DOMAIN q

\* Mutant of Before: a NaN ties with every number, as in JavaScript's < and >.
Before_NaNTies(p, q) ==
  LET Less(a, b, i) ==
        /\ i \in DOMAIN a => a[i] # NaN
        /\ i \in DOMAIN b => b[i] # NaN
        /\ normalizePriority(a, i) < normalizePriority(b, i)
  IN \E i \in Positions(p, q) :
       /\ Less(p, q, i)
       /\ \A j \in Positions(p, q) : j < i => ~Less(p, q, j) /\ ~Less(q, p, j)

\* comparePriorities(p, q) < 0: p is smaller at the first position that differs.
Before(p, q) ==
  \E i \in Positions(p, q) :
    /\ normalizePriority(p, i) < normalizePriority(q, i)
    /\ \A j \in Positions(p, q) :
         j < i => normalizePriority(p, j) = normalizePriority(q, j)

\* Mutant of IsNext: the latest arrival among equals.
IsNext_LastAmongEquals(prios, i) ==
  \A j \in DOMAIN prios :
    /\ j < i => ~Before(prios[j], prios[i])
    /\ j > i => Before(prios[i], prios[j])

\* The waiter to serve, given the priorities of all of them in arrival order:
\* below every earlier arrival, and not above any later one.
IsNext(prios, i) ==
  \A j \in DOMAIN prios :
    /\ j < i => Before(prios[i], prios[j])
    /\ j > i => ~Before(prios[j], prios[i])
=============================================================================
