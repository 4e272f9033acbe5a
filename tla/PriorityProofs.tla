--------------------------- MODULE PriorityProofs ---------------------------
(***************************************************************************)
(* The order of priorities is a strict weak order, and one pass that only  *)
(* lets strictly lower priorities displace the best finds the waiter to    *)
(* serve, for queues of any length.                                        *)
(***************************************************************************)
EXTENDS PriorityScan, WellFoundedInduction, TLAPS

LEMMA LeastNatural ==
  ASSUME NEW T \in SUBSET Nat, T # {}
  PROVE  \E x \in T : \A y \in T : x <= y
<1>1. PICK x \in T : \A y \in T : <<y, x>> \notin OpToRel(<, Nat)
  BY WFMin, NatLessThanWellFounded
<1>2. \A y \in T : ~(y < x)
  BY <1>1 DEF OpToRel
<1> QED
  BY <1>2

LEMMA ElementType ==
  ASSUME NEW p \in PriorityType, NEW n
  PROVE  /\ normalizePriority(p, n) \in Int
         /\ n \notin DOMAIN p => normalizePriority(p, n) = 0
BY DEF normalizePriority, PriorityType

\* Positions are positive; where two tuples differ, one of them has an element.
LEMMA PositionFacts ==
  ASSUME NEW p \in PriorityType, NEW q \in PriorityType
  PROVE  /\ Positions(p, q) \subseteq Nat
         /\ \A n : normalizePriority(p, n) # normalizePriority(q, n)
                     => n \in Positions(p, q)
BY ElementType DEF Positions, PriorityType

\* Two tuples that first differ at k are ordered by their elements there.
LEMMA DecidedAt ==
  ASSUME NEW p \in PriorityType, NEW q \in PriorityType, NEW k \in Nat,
         normalizePriority(p, k) < normalizePriority(q, k),
         \A j \in Nat : j < k => normalizePriority(p, j) = normalizePriority(q, j)
  PROVE  Before(p, q)
<1>1. k \in Positions(p, q)
  BY PositionFacts, ElementType
<1> QED
  BY <1>1, PositionFacts DEF Before

\* The converse, with the position extended to all the naturals below it.
LEMMA DecidingPosition ==
  ASSUME NEW p \in PriorityType, NEW q \in PriorityType, Before(p, q)
  PROVE  \E k \in Nat :
           /\ normalizePriority(p, k) < normalizePriority(q, k)
           /\ \A j \in Nat : j < k => normalizePriority(p, j) = normalizePriority(q, j)
BY PositionFacts DEF Before

LEMMA Asymmetric ==
  ASSUME NEW p \in PriorityType, NEW q \in PriorityType, Before(p, q)
  PROVE  ~Before(q, p)
<1> SUFFICES ASSUME Before(q, p) PROVE FALSE
  OBVIOUS
<1>1. PICK k \in Nat :
        /\ normalizePriority(p, k) < normalizePriority(q, k)
        /\ \A j \in Nat : j < k => normalizePriority(p, j) = normalizePriority(q, j)
  BY DecidingPosition
<1>2. PICK l \in Nat :
        /\ normalizePriority(q, l) < normalizePriority(p, l)
        /\ \A j \in Nat : j < l => normalizePriority(q, j) = normalizePriority(p, j)
  BY DecidingPosition
<1>3. normalizePriority(p, k) \in Int /\ normalizePriority(q, k) \in Int
      /\ normalizePriority(p, l) \in Int /\ normalizePriority(q, l) \in Int
  BY ElementType
<1>4. k < l \/ k = l \/ l < k
  OBVIOUS
<1> QED
  BY <1>1, <1>2, <1>3, <1>4

\* A third priority falls on one side or the other of two ordered ones.
LEMMA WeaklyOrdered ==
  ASSUME NEW p \in PriorityType, NEW q \in PriorityType, NEW r \in PriorityType,
         Before(p, r)
  PROVE  Before(p, q) \/ Before(q, r)
<1>1. PICK m \in Nat :
        /\ normalizePriority(p, m) < normalizePriority(r, m)
        /\ \A j \in Nat : j < m => normalizePriority(p, j) = normalizePriority(r, j)
  BY DecidingPosition
<1> DEFINE T == {j \in Nat : \/ normalizePriority(q, j) # normalizePriority(p, j)
                             \/ normalizePriority(q, j) # normalizePriority(r, j)}
<1>2. \A j : /\ normalizePriority(p, j) \in Int
             /\ normalizePriority(q, j) \in Int
             /\ normalizePriority(r, j) \in Int
  BY ElementType
<1>3. m \in T
  BY <1>1, <1>2
<1>4. PICK k \in T : \A j \in T : k <= j
  BY <1>3, LeastNatural
<1>5. k \in Nat /\ k <= m
  BY <1>3, <1>4
<1>6. \A j \in Nat : j < k => /\ normalizePriority(q, j) = normalizePriority(p, j)
                              /\ normalizePriority(q, j) = normalizePriority(r, j)
  BY <1>4
<1>7. CASE normalizePriority(p, k) < normalizePriority(q, k)
  BY <1>5, <1>6, <1>7, DecidedAt
<1>8. CASE normalizePriority(q, k) < normalizePriority(r, k)
  BY <1>5, <1>6, <1>8, DecidedAt
<1>9. normalizePriority(p, k) < normalizePriority(q, k)
        \/ normalizePriority(q, k) < normalizePriority(r, k)
  <2>1. CASE k = m
    BY <2>1, <1>1, <1>2
  <2>2. CASE k < m
    <3>1. normalizePriority(p, k) = normalizePriority(r, k)
      BY <2>2, <1>1, <1>5
    <3>2. normalizePriority(q, k) # normalizePriority(p, k)
      BY <3>1, <1>4
    <3> QED
      BY <3>1, <3>2, <1>2
  <2> QED
    BY <2>1, <2>2, <1>5
<1> QED
  BY <1>7, <1>8, <1>9

LEMMA Transitive ==
  ASSUME NEW p \in PriorityType, NEW q \in PriorityType, NEW r \in PriorityType,
         Before(p, q), Before(q, r)
  PROVE  Before(p, r)
BY WeaklyOrdered, Asymmetric

-----------------------------------------------------------------------------
\* The best of the waiters looked at so far.
BestSoFar ==
  \A j \in 1..i :
    /\ j < bestIdx => Before(prios[bestIdx], prios[j])
    /\ j > bestIdx => ~Before(prios[j], prios[bestIdx])

IInv == TypeOK /\ BestSoFar

LEMMA InitIInv == Init => IInv
<1> SUFFICES ASSUME Init PROVE IInv
  OBVIOUS
<1>1. PICK n \in 1..MaxWaiters : prios \in [1..n -> Returns]
  BY DEF Init
<1>2. n \in Nat /\ prios \in Seq(Returns) /\ Len(prios) = n
  BY <1>1, ScanAssumption
<1> QED
  BY <1>2 DEF Init, IInv, TypeOK, BestSoFar

LEMMA NextIInv == IInv /\ [Next]_vars => IInv'
<1> SUFFICES ASSUME IInv, [Next]_vars PROVE IInv'
  OBVIOUS
<1>1. CASE Visit
  <2>1. TypeOK'
    BY <1>1 DEF IInv, TypeOK, Visit
  <2>2. \A j \in 1..Len(prios) : prios[j] \in PriorityType
    BY ScanAssumption DEF IInv, TypeOK
  <2>3. /\ i \in Nat /\ i' = i + 1 /\ i + 1 \in 1..Len(prios) /\ prios' = prios
        /\ bestIdx \in 1..i /\ 1..i \subseteq 1..Len(prios)
    BY <1>1 DEF IInv, TypeOK, Visit
  <2>4. CASE Before(prios[i + 1], prios[bestIdx])
    <3>1. bestIdx' = i + 1
      BY <1>1, <2>4 DEF Visit
    <3>2. ASSUME NEW j \in 1..i PROVE Before(prios[i + 1], prios[j])
      <4>1. CASE j = bestIdx
        BY <4>1, <2>4
      <4>2. CASE j < bestIdx
        BY <4>2, <2>2, <2>3, <2>4, Transitive DEF IInv, BestSoFar
      <4>3. CASE j > bestIdx
        BY <4>3, <2>2, <2>3, <2>4, WeaklyOrdered DEF IInv, BestSoFar
      <4> QED
        BY <4>1, <4>2, <4>3, <2>3
    <3> QED
      BY <3>1, <3>2, <2>1, <2>3 DEF IInv, BestSoFar
  <2>5. CASE ~Before(prios[i + 1], prios[bestIdx])
    BY <1>1, <2>1, <2>3, <2>5 DEF IInv, BestSoFar, Visit
  <2> QED
    BY <2>4, <2>5
<1>2. CASE UNCHANGED vars
  BY <1>2 DEF IInv, TypeOK, BestSoFar, vars
<1> QED
  BY <1>1, <1>2 DEF Next

\* However many waiters there are and whatever their callbacks return, the pass
\* ends on the waiter IsNext names: lowest priority, first come among equals.
THEOREM ScanServesNext == Spec => []ScanFindsNext
<1>1. IInv => ScanFindsNext
  <2> SUFFICES ASSUME IInv, i = Len(prios) PROVE IsNext(prios, bestIdx)
    BY DEF ScanFindsNext
  <2>1. DOMAIN prios = 1..i
    BY DEF IInv, TypeOK
  <2> QED
    BY <2>1 DEF IInv, BestSoFar, IsNext
<1> QED
  BY <1>1, InitIInv, NextIInv, PTL DEF Spec
=============================================================================
