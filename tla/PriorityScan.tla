---------------------------- MODULE PriorityScan ----------------------------
(***************************************************************************)
(* The search of Semaphore._releaseOne for the waiter that gets the slot:  *)
(* one pass over the queue that keeps the best index seen so far.          *)
(***************************************************************************)
EXTENDS Priority

CONSTANTS
  Returns,     \* the priorities a callback may return
  MaxWaiters   \* bound on the length of the queue

ASSUME ScanAssumption == Returns \subseteq PriorityType /\ MaxWaiters \in Nat

VARIABLES
  prios,    \* prios[j]: what getPriority of the j-th waiter returns
  i,        \* the last waiter looked at
  bestIdx   \* the best among the first i

vars == <<prios, i, bestIdx>>

TypeOK ==
  /\ prios \in Seq(Returns)
  /\ i \in 1..Len(prios)
  /\ bestIdx \in 1..i

Init ==
  /\ \E n \in 1..MaxWaiters : prios \in [1..n -> Returns]
  /\ i = 1
  /\ bestIdx = 1

\* One turn of the loop: only a strictly lower priority displaces the best.
Visit ==
  /\ i < Len(prios)
  /\ i' = i + 1
  /\ bestIdx' = IF Before(prios[i + 1], prios[bestIdx]) THEN i + 1 ELSE bestIdx
  /\ UNCHANGED prios

Next == Visit

Spec == Init /\ [][Next]_vars

-----------------------------------------------------------------------------
\* When the pass ends it has found the waiter with the lowest priority, the
\* earliest arrival among equals, whatever mixture of lengths, missing elements
\* and NaN the callbacks return ("Ties break by FIFO arrival order"; a NaN must
\* not "silently mis-sort").
ScanFindsNext == i = Len(prios) => IsNext(prios, bestIdx)
=============================================================================
