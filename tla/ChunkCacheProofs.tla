-------------------------- MODULE ChunkCacheProofs --------------------------
(***************************************************************************)
(* Proofs about ChunkCache: its types, that no chunk is loaded twice at a  *)
(* time, that the count of bytes in memory is right, that the store fails  *)
(* no read, and that a read returns the bytes of its range.                *)
(***************************************************************************)
EXTENDS ChunkCache, FiniteSetTheorems, SequenceTheorems, TLAPS

-----------------------------------------------------------------------------
(* Induction and arithmetic.                                               *)

\* Every set of naturals that is not empty has a least element.
LEMMA LeastNat ==
  ASSUME NEW S \in SUBSET Nat, S # {}
  PROVE  \E m \in S : \A k \in S : m <= k
<1> DEFINE F == {0..n - 1 : n \in S}
           R == StrictSubsetOrdering(Nat)
<1>1. IsWellFoundedOn(R, FiniteSubsetsOf(Nat))
  BY FS_StrictSubsetOrderingWellFounded
<1>2. F \subseteq FiniteSubsetsOf(Nat)
  <2> SUFFICES ASSUME NEW n \in S PROVE 0..n - 1 \in FiniteSubsetsOf(Nat)
    OBVIOUS
  <2>1. n \in Nat /\ 0 \in Int /\ n - 1 \in Int
    OBVIOUS
  <2>2. IsFiniteSet(0..n - 1)
    BY <2>1, FS_Interval
  <2>3. 0..n - 1 \in SUBSET Nat
    OBVIOUS
  <2> QED
    BY <2>2, <2>3 DEF FiniteSubsetsOf
<1>3. F # {}
  OBVIOUS
<1>4. PICK T \in F : \A U \in F : <<U, T>> \notin R
  <2> HIDE DEF F, R
  <2> QED
    BY <1>1, <1>2, <1>3, WFMin
<1>5. PICK m \in S : T = 0..m - 1
  OBVIOUS
<1>6. ASSUME NEW k \in S, k < m PROVE FALSE
  <2>1. 0..k - 1 \subseteq 0..m - 1 /\ k \in 0..m - 1 /\ k \notin 0..k - 1
    BY <1>6
  <2>2. <<0..k - 1, 0..m - 1>> \in R
    BY <2>1 DEF StrictSubsetOrdering
  <2> QED
    BY <2>2, <1>4, <1>5
<1> QED
  BY <1>6

\* Induction up to a bound, for a property given by the set of those that have it.
LEMMA UpTo ==
  ASSUME NEW m \in Nat, NEW P, 0 \in P, \A n \in 1..m : n - 1 \in P => n \in P
  PROVE  0..m \subseteq P
<1> SUFFICES ASSUME (0..m) \ P # {} PROVE FALSE
  OBVIOUS
<1> DEFINE S == (0..m) \ P
<1>1. S \in SUBSET Nat /\ S # {}
  OBVIOUS
<1>2. PICK n \in S : \A k \in S : n <= k
  <2> HIDE DEF S
  <2> QED
    BY <1>1, LeastNat
<1> QED
  BY <1>2

-----------------------------------------------------------------------------
(* The size of a queue of entries.                                         *)

\* s counts the bytes of the first n entries of q, for each n.
Counts(s, q) ==
  /\ s \in [0..Len(q) -> Nat]
  /\ s[0] = 0
  /\ \A n \in 1..Len(q) : s[n] = s[n - 1] + Len(q[n].bytes)

LEMMA CountsExist ==
  ASSUME NEW q \in Seq(Entries)
  PROVE  \E s : Counts(s, q)
<1> DEFINE upTo(m, s) == /\ s \in [0..m -> Nat]
                         /\ s[0] = 0
                         /\ \A n \in 1..m : s[n] = s[n - 1] + Len(q[n].bytes)
           P == {m \in 0..Len(q) : \E s : upTo(m, s)}
<1>1. 0 \in P
  <2>1. upTo(0, [n \in 0..0 |-> 0])
    OBVIOUS
  <2> HIDE DEF upTo
  <2> QED
    BY <2>1
<1>2. \A m \in 1..Len(q) : m - 1 \in P => m \in P
  <2> SUFFICES ASSUME NEW m \in 1..Len(q), m - 1 \in P
               PROVE  m \in P
    OBVIOUS
  <2>1. PICK s : upTo(m - 1, s)
    OBVIOUS
  <2> DEFINE t == [n \in 0..m |-> IF n = m THEN s[m - 1] + Len(q[m].bytes) ELSE s[n]]
  <2>2. Len(q[m].bytes) \in Nat
    BY DEF Entries
  <2>3. upTo(m, t)
    <3>1. t \in [0..m -> Nat] /\ t[0] = 0
      BY <2>1, <2>2
    <3>2. \A n \in 1..m : t[n] = t[n - 1] + Len(q[n].bytes)
      BY <2>1
    <3> QED
      BY <3>1, <3>2
  <2> HIDE DEF upTo, t
  <2> QED
    BY <2>3
<1>3. 0..Len(q) \subseteq P
  <2> HIDE DEF P
  <2> QED
    BY <1>1, <1>2, UpTo, Len(q) \in Nat
<1>4. PICK s : upTo(Len(q), s)
  BY <1>3
<1> QED
  BY <1>4 DEF Counts

\* The count of all is what BytesIn computes.
LEMMA CountsAll ==
  ASSUME NEW q \in Seq(Entries), NEW s, Counts(s, q)
  PROVE  BytesIn(q) = s[Len(q)] /\ BytesIn(q) \in Nat
<1> DEFINE isSum(g) ==
             g = [n \in 0..Len(q) |-> IF n = 0 THEN 0 ELSE g[n - 1] + Len(q[n].bytes)]
           sum == CHOOSE g : isSum(g)
<1>1. isSum(s)
  BY DEF Counts
<1>2. isSum(sum)
  <2> HIDE DEF isSum
  <2> QED
    BY <1>1
<1>3. \A n \in 0..Len(q) : sum[n] = IF n = 0 THEN 0 ELSE sum[n - 1] + Len(q[n].bytes)
  <2> HIDE DEF sum
  <2> QED
    BY <1>2
<1> DEFINE P == {n \in 0..Len(q) : sum[n] = s[n]}
<1>4. 0 \in P
  <2> HIDE DEF sum
  <2> QED
    BY <1>3 DEF Counts
<1>5. \A n \in 1..Len(q) : n - 1 \in P => n \in P
  <2> HIDE DEF sum
  <2> QED
    BY <1>3 DEF Counts
<1>6. 0..Len(q) \subseteq P
  <2> HIDE DEF P
  <2> QED
    BY <1>4, <1>5, UpTo, Len(q) \in Nat
<1>7. sum[Len(q)] = s[Len(q)]
  BY <1>6
<1>8. BytesIn(q) = sum[Len(q)]
  BY DEF BytesIn
<1> QED
  BY <1>7, <1>8 DEF Counts

LEMMA CountsFacts ==
  ASSUME NEW q \in Seq(Entries), NEW s, Counts(s, q)
  PROVE  /\ s[0] = 0
         /\ \A n \in 0..Len(q) : s[n] \in Nat
         /\ \A n \in 1..Len(q) : s[n] = s[n - 1] + Len(q[n].bytes) /\ Len(q[n].bytes) \in Nat
<1>1. s[0] = 0 /\ \A n \in 0..Len(q) : s[n] \in Nat
  BY DEF Counts
<1>2. ASSUME NEW n \in 1..Len(q)
      PROVE  s[n] = s[n - 1] + Len(q[n].bytes) /\ Len(q[n].bytes) \in Nat
  <2>1. q[n] \in Entries
    OBVIOUS
  <2>2. Len(q[n].bytes) \in Nat
    BY <2>1 DEF Entries
  <2> QED
    BY <2>2 DEF Counts
<1> QED
  BY <1>1, <1>2

LEMMA CountsGrow ==
  ASSUME NEW q \in Seq(Entries), NEW s, Counts(s, q),
         NEW i \in 0..Len(q), NEW j \in 0..Len(q), i <= j
  PROVE  s[i] <= s[j]
<1> DEFINE P == {n \in 0..Len(q) : i <= n => s[i] <= s[n]}
<1>1. 0 \in P
  BY CountsFacts
<1>2. \A n \in 1..Len(q) : n - 1 \in P => n \in P
  <2> SUFFICES ASSUME NEW n \in 1..Len(q), n - 1 \in P, i <= n
               PROVE  s[i] <= s[n]
    OBVIOUS
  <2>1. s[n] = s[n - 1] + Len(q[n].bytes) /\ Len(q[n].bytes) \in Nat /\ {s[i], s[n - 1]} \subseteq Nat
    BY CountsFacts
  <2> QED
    BY <2>1
<1>3. 0..Len(q) \subseteq P
  <2> HIDE DEF P
  <2> QED
    BY <1>1, <1>2, UpTo, Len(q) \in Nat
<1> QED
  BY <1>3

LEMMA BytesInEmpty == BytesIn(<<>>) = 0
<1>1. <<>> \in Seq(Entries) /\ Counts([n \in 0..0 |-> 0], <<>>)
  BY DEF Counts
<1> QED
  BY <1>1, CountsAll

LEMMA BytesInAppend ==
  ASSUME NEW q \in Seq(Entries), NEW e \in Entries
  PROVE  BytesIn(Append(q, e)) = BytesIn(q) + Len(e.bytes)
<1>1. PICK s : Counts(s, q)
  BY CountsExist
<1> DEFINE p == Append(q, e)
           t == [n \in 0..Len(q) + 1 |-> IF n <= Len(q) THEN s[n] ELSE s[Len(q)] + Len(e.bytes)]
<1>2. /\ p \in Seq(Entries) /\ Len(p) = Len(q) + 1 /\ Len(e.bytes) \in Nat
      /\ \A n \in 1..Len(q) : p[n] = q[n]
      /\ p[Len(q) + 1] = e
  BY DEF Entries
<1>3. Counts(t, p)
  <2>1. \A n \in 0..Len(q) : s[n] \in Nat
    BY <1>1, CountsFacts
  <2>2. t \in [0..Len(q) + 1 -> Nat] /\ t[0] = 0
    BY <1>1, <1>2, <2>1, CountsFacts
  <2>3. \A n \in 1..Len(p) : t[n] = t[n - 1] + Len(p[n].bytes)
    BY <1>1, <1>2, CountsFacts
  <2> QED
    BY <1>2, <2>2, <2>3 DEF Counts
<1>4. t[Len(p)] = s[Len(q)] + Len(e.bytes)
  BY <1>2
<1> QED
  BY <1>1, <1>2, <1>3, <1>4, CountsAll

\* What is left of a queue when one element goes.
LEMMA RemoveAtFacts ==
  ASSUME NEW S, NEW q \in Seq(S), NEW k \in DOMAIN q
  PROVE  /\ RemoveAt(q, k) \in Seq(S)
         /\ Len(RemoveAt(q, k)) = Len(q) - 1
         /\ \A j \in 1..Len(q) - 1 : RemoveAt(q, k)[j] = IF j < k THEN q[j] ELSE q[j + 1]
<1> DEFINE a == SubSeq(q, 1, k - 1)
           b == SubSeq(q, k + 1, Len(q))
<1>1. /\ a \in Seq(S) /\ Len(a) = k - 1 /\ \A j \in 1..k - 1 : a[j] = q[j]
      /\ b \in Seq(S) /\ Len(b) = Len(q) - k /\ \A j \in 1..Len(q) - k : b[j] = q[k + j]
  OBVIOUS
<1> HIDE DEF a, b
<1>2. /\ a \o b \in Seq(S)
      /\ Len(a \o b) = Len(q) - 1
      /\ \A j \in 1..Len(q) - 1 : (a \o b)[j] = IF j < k THEN a[j] ELSE b[j - (k - 1)]
  BY <1>1
<1>3. ASSUME NEW j \in 1..Len(q) - 1
      PROVE  (a \o b)[j] = IF j < k THEN q[j] ELSE q[j + 1]
  <2>1. CASE j < k
    BY <2>1, <1>1, <1>2
  <2>2. CASE ~(j < k)
    <3>1. j - (k - 1) \in 1..Len(q) - k /\ k + (j - (k - 1)) = j + 1
      BY <2>2
    <3>2. (a \o b)[j] = b[j - (k - 1)]
      BY <2>2, <1>2
    <3>3. b[j - (k - 1)] = q[k + (j - (k - 1))]
      BY <3>1, <1>1
    <3> QED
      BY <2>2, <3>1, <3>2, <3>3
  <2> QED
    BY <2>1, <2>2
<1>4. RemoveAt(q, k) = a \o b
  BY DEF RemoveAt, a, b
<1> QED
  BY <1>2, <1>3, <1>4

LEMMA BytesInRemoveAt ==
  ASSUME NEW q \in Seq(Entries), NEW k \in DOMAIN q
  PROVE  BytesIn(RemoveAt(q, k)) = BytesIn(q) - Len(q[k].bytes)
<1>1. PICK s : Counts(s, q)
  BY CountsExist
<1> DEFINE p == RemoveAt(q, k)
           size == Len(q[k].bytes)
           t == [n \in 0..Len(q) - 1 |-> IF n < k THEN s[n] ELSE s[n + 1] - size]
<1>2. /\ p \in Seq(Entries) /\ Len(p) = Len(q) - 1 /\ size \in Nat
      /\ \A j \in 1..Len(q) - 1 : p[j] = IF j < k THEN q[j] ELSE q[j + 1]
  BY RemoveAtFacts DEF Entries
<1>3. s[k] = s[k - 1] + size /\ \A n \in 0..Len(q) : s[n] \in Nat
  BY <1>1, CountsFacts
<1>4. ASSUME NEW n \in k..Len(q)
      PROVE  s[n] >= size
  <2>1. s[k] <= s[n]
    BY <1>1, CountsGrow
  <2> QED
    BY <2>1, <1>2, <1>3, n \in 0..Len(q), k - 1 \in 0..Len(q)
<1>5. Counts(t, p)
  <2>1. t \in [0..Len(p) -> Nat]
    <3> SUFFICES ASSUME NEW n \in 0..Len(q) - 1 PROVE t[n] \in Nat
      BY <1>2
    <3> QED
      BY <1>2, <1>3, <1>4
  <2>2. t[0] = 0
    BY <1>1 DEF Counts
  <2>3. ASSUME NEW n \in 1..Len(p)
        PROVE  t[n] = t[n - 1] + Len(p[n].bytes)
    <3>1. CASE n < k
      <4>1. s[n] = s[n - 1] + Len(q[n].bytes)
        <5>1. n \in 1..Len(q)
          BY <1>2
        <5> QED
          BY <5>1, <1>1, CountsFacts
      <4>2. t[n] = s[n] /\ t[n - 1] = s[n - 1] /\ p[n] = q[n]
        BY <3>1, <1>2
      <4> QED
        BY <4>1, <4>2
    <3>2. CASE n >= k
      <4>1. s[n + 1] = s[n] + Len(q[n + 1].bytes) /\ Len(q[n + 1].bytes) \in Nat
        BY <1>1, <1>2 DEF Counts, Entries
      <4>2. t[n] = s[n + 1] - size /\ p[n] = q[n + 1]
        BY <3>2, <1>2
      <4>3. t[n - 1] = s[n] - size
        BY <3>2, <1>2, <1>3
      <4> QED
        BY <4>1, <4>2, <4>3, <1>2, <1>3
    <3> QED
      BY <3>1, <3>2, <1>2
  <2> QED
    BY <2>1, <2>2, <2>3 DEF Counts
<1>6. t[Len(p)] = s[Len(q)] - size
  BY <1>2, <1>3
<1> QED
  BY <1>1, <1>2, <1>5, <1>6, CountsAll

LEMMA BytesInSuffix ==
  ASSUME NEW q \in Seq(Entries), NEW n \in 0..Len(q)
  PROVE  /\ SubSeq(q, n + 1, Len(q)) \in Seq(Entries)
         /\ BytesIn(SubSeq(q, n + 1, Len(q))) = BytesIn(q) - BytesIn(SubSeq(q, 1, n))
         /\ BytesIn(SubSeq(q, 1, n)) \in Nat
<1>1. PICK s : Counts(s, q)
  BY CountsExist
<1> DEFINE a == SubSeq(q, 1, n)
           b == SubSeq(q, n + 1, Len(q))
           sa == [m \in 0..n |-> s[m]]
           sb == [m \in 0..Len(q) - n |-> s[n + m] - s[n]]
<1>2. /\ a \in Seq(Entries) /\ Len(a) = n /\ \A j \in 1..n : a[j] = q[j]
      /\ b \in Seq(Entries) /\ Len(b) = Len(q) - n /\ \A j \in 1..Len(q) - n : b[j] = q[n + j]
  OBVIOUS
<1> HIDE DEF a, b
<1>3. \A m \in 0..Len(q) : s[m] \in Nat
  BY <1>1 DEF Counts
<1>4. Counts(sa, a)
  <2>1. sa \in [0..Len(a) -> Nat] /\ sa[0] = 0
    BY <1>1, <1>2, <1>3, CountsFacts
  <2>2. ASSUME NEW m \in 1..Len(a)
        PROVE  sa[m] = sa[m - 1] + Len(a[m].bytes)
    <3>1. m \in 1..Len(q) /\ sa[m] = s[m] /\ sa[m - 1] = s[m - 1] /\ a[m] = q[m]
      BY <1>2
    <3>2. s[m] = s[m - 1] + Len(q[m].bytes)
      BY <3>1, <1>1, CountsFacts
    <3> HIDE DEF sa
    <3> QED
      BY <3>1, <3>2
  <2> QED
    BY <2>1, <2>2 DEF Counts
<1>5. ASSUME NEW m \in 0..Len(q) - n
      PROVE  s[n + m] >= s[n] /\ s[n + m] \in Nat /\ s[n] \in Nat
  <2>1. n + m \in 0..Len(q) /\ n <= n + m
    OBVIOUS
  <2> QED
    BY <2>1, <1>1, <1>3, CountsGrow
<1>6. Counts(sb, b)
  <2>1. sb \in [0..Len(q) - n -> Nat] /\ sb[0] = 0
    <3>1. ASSUME NEW m \in 0..Len(q) - n
          PROVE  s[n + m] - s[n] \in Nat
      <4>1. s[n + m] >= s[n] /\ s[n + m] \in Nat /\ s[n] \in Nat
        BY <1>5
      <4> QED
        BY <4>1
    <3>2. s[n] \in Nat /\ 0 \in 0..Len(q) - n /\ n + 0 = n
      BY <1>3
    <3>3. sb[0] = s[n + 0] - s[n]
      BY <3>2
    <3>4. sb[0] = 0
      BY <3>2, <3>3
    <3> QED
      BY <3>1, <3>4
  <2>2. ASSUME NEW m \in 1..Len(b)
        PROVE  sb[m] = sb[m - 1] + Len(b[m].bytes)
    <3>1. m \in 1..Len(q) - n /\ n + m \in 1..Len(q) /\ n + (m - 1) = n + m - 1
      BY <1>2
    <3>2. s[n + m] = s[n + m - 1] + Len(q[n + m].bytes) /\ Len(q[n + m].bytes) \in Nat
      BY <1>1, <3>1, CountsFacts
    <3>3. sb[m] = s[n + m] - s[n] /\ sb[m - 1] = s[n + m - 1] - s[n] /\ b[m] = q[n + m]
      BY <1>2, <3>1
    <3>4. s[n] \in Nat /\ s[n + m] \in Nat /\ s[n + m - 1] \in Nat
      BY <1>3, <3>1
    <3>5. s[n + m] - s[n] = (s[n + m - 1] - s[n]) + Len(q[n + m].bytes)
      BY <3>1, <3>2, <3>4
    <3> HIDE DEF sb
    <3> QED
      BY <3>3, <3>5
  <2> QED
    BY <1>2, <2>1, <2>2 DEF Counts
<1>7. sa[Len(a)] = s[n] /\ sb[Len(b)] = s[Len(q)] - s[n]
  BY <1>2
<1>8. BytesIn(a) = s[n] /\ BytesIn(b) = s[Len(q)] - s[n] /\ BytesIn(q) = s[Len(q)]
  BY <1>1, <1>2, <1>4, <1>6, <1>7, CountsAll
<1> QED
  BY <1>2, <1>3, <1>8 DEF a, b

-----------------------------------------------------------------------------
(* The memory.                                                             *)

OneEach(q) == \A i, j \in DOMAIN q : q[i].chunk = q[j].chunk => i = j

\* What is held of a chunk is what the object has of it.
Genuine(q) == \A i \in DOMAIN q : Exists(q[i].chunk) /\ q[i].bytes = Content(q[i].chunk)

MemoryInv ==
  /\ memory \in Seq(Entries) /\ OneEach(memory) /\ Genuine(memory)
  /\ memoryBytes \in 0..MemoryMaxBytes
  /\ memoryBytes = BytesIn(memory)

LEMMA ContentType ==
  ASSUME NEW c \in Chunks, Exists(c)
  PROVE  /\ SizeOf(c) \in Nat /\ Content(c) \in Seq(Nat) /\ Len(Content(c)) = SizeOf(c)
         /\ c * ChunkSize \in Nat
<1>1. c \in Nat /\ ChunkSize \in Nat \ {0} /\ FileSize \in Nat
  BY ChunkAssumption
<1>2. c * ChunkSize \in Nat /\ (c + 1) * ChunkSize \in Nat
  BY <1>1
<1>3. SizeOf(c) \in Nat
  BY <1>1, <1>2 DEF Exists, SizeOf
<1>4. \A k \in 1..SizeOf(c) : c * ChunkSize + k - 1 \in Nat
  BY <1>2, <1>3
<1> DEFINE size == SizeOf(c)
           start == c * ChunkSize
<1>5. [k \in 1..size |-> start + k - 1] \in Seq(Nat) /\ Len([k \in 1..size |-> start + k - 1]) = size
  <2> HIDE DEF size, start
  <2>1. size \in Nat /\ start \in Nat
    BY <1>2, <1>3 DEF size, start
  <2> QED
    BY <2>1
<1> QED
  BY <1>2, <1>3, <1>5 DEF Content

LEMMA InMemoryIs ==
  \A c : InMemory(c) <=> \E i \in DOMAIN memory : memory[i].chunk = c
BY DEF InMemory, ToSet

LEMMA WithoutFacts ==
  ASSUME NEW q \in Seq(Entries), OneEach(q), Genuine(q), NEW c
  PROVE  /\ Without(q, c) \in Seq(Entries) /\ OneEach(Without(q, c)) /\ Genuine(Without(q, c))
         /\ \A i \in DOMAIN Without(q, c) :
              Without(q, c)[i].chunk # c /\ \E j \in DOMAIN q : Without(q, c)[i] = q[j]
         /\ \A k \in DOMAIN q : q[k].chunk = c =>
              BytesIn(Without(q, c)) = BytesIn(q) - Len(q[k].bytes)
         /\ (\A k \in DOMAIN q : q[k].chunk # c) => Without(q, c) = q
<1>1. CASE \A k \in DOMAIN q : q[k].chunk # c
  BY <1>1 DEF Without
<1>2. CASE \E k \in DOMAIN q : q[k].chunk = c
  <2> DEFINE k == CHOOSE i \in DOMAIN q : q[i].chunk = c
             p == RemoveAt(q, k)
  <2>1. k \in DOMAIN q /\ q[k].chunk = c
    BY <1>2
  <2>2. Without(q, c) = p
    BY <1>2 DEF Without
  <2> HIDE DEF k
  <2>3. /\ p \in Seq(Entries) /\ Len(p) = Len(q) - 1
        /\ \A j \in 1..Len(q) - 1 : p[j] = IF j < k THEN q[j] ELSE q[j + 1]
    BY <2>1, RemoveAtFacts
  <2>4. BytesIn(p) = BytesIn(q) - Len(q[k].bytes)
    BY <2>1, BytesInRemoveAt
  <2> HIDE DEF p
  <2> DEFINE from(i) == IF i < k THEN i ELSE i + 1
  <2>5. ASSUME NEW i \in DOMAIN p
        PROVE  from(i) \in DOMAIN q /\ p[i] = q[from(i)] /\ from(i) # k
    BY <2>1, <2>3
  <2>6. ASSUME NEW i \in DOMAIN p
        PROVE  p[i].chunk # c /\ \E j \in DOMAIN q : p[i] = q[j]
    <3>1. from(i) \in DOMAIN q /\ p[i] = q[from(i)] /\ from(i) # k
      BY <2>5
    <3> HIDE DEF from
    <3> QED
      BY <3>1, <2>1 DEF OneEach
  <2>7. OneEach(p)
    <3> SUFFICES ASSUME NEW i \in DOMAIN p, NEW j \in DOMAIN p, p[i].chunk = p[j].chunk
                 PROVE  i = j
      BY DEF OneEach
    <3>1. from(i) = from(j)
      <4>1. /\ from(i) \in DOMAIN q /\ p[i] = q[from(i)]
            /\ from(j) \in DOMAIN q /\ p[j] = q[from(j)]
        BY <2>5
      <4> HIDE DEF from
      <4> QED
        BY <4>1 DEF OneEach
    <3>2. i \in Int /\ j \in Int /\ k \in Int
      BY <2>1, <2>3
    <3> QED
      BY <3>1, <3>2
  <2>8. Genuine(p)
    BY <2>6 DEF Genuine
  <2>9. \A m \in DOMAIN q : q[m].chunk = c => m = k
    BY <2>1 DEF OneEach
  <2> QED
    BY <1>2, <2>2, <2>3, <2>4, <2>6, <2>7, <2>8, <2>9
<1> QED
  BY <1>1, <1>2

\* A genuine entry of a chunk that is not there may be put at the young end.
LEMMA AppendFacts ==
  ASSUME NEW q \in Seq(Entries), OneEach(q), Genuine(q),
         NEW e \in Entries, Exists(e.chunk), e.bytes = Content(e.chunk),
         \A i \in DOMAIN q : q[i].chunk # e.chunk
  PROVE  /\ Append(q, e) \in Seq(Entries) /\ OneEach(Append(q, e)) /\ Genuine(Append(q, e))
         /\ BytesIn(Append(q, e)) = BytesIn(q) + Len(e.bytes)
         /\ \A i \in DOMAIN Append(q, e) :
              Append(q, e)[i] = e \/ \E j \in DOMAIN q : Append(q, e)[i] = q[j]
<1> DEFINE p == Append(q, e)
<1>1. /\ p \in Seq(Entries) /\ DOMAIN p = 1..Len(q) + 1
      /\ \A i \in 1..Len(q) : p[i] = q[i]
      /\ p[Len(q) + 1] = e /\ DOMAIN q = 1..Len(q) /\ Len(q) \in Nat
  OBVIOUS
<1>2. BytesIn(p) = BytesIn(q) + Len(e.bytes)
  BY BytesInAppend
<1> HIDE DEF p
<1>3. \A i \in 1..Len(q) + 1 : i \in 1..Len(q) \/ i = Len(q) + 1
  BY <1>1
<1>4. OneEach(p)
  <2> SUFFICES ASSUME NEW i \in DOMAIN p, NEW j \in DOMAIN p, p[i].chunk = p[j].chunk
               PROVE  i = j
    BY DEF OneEach
  <2> QED
    BY <1>1, <1>3 DEF OneEach
<1>5. Genuine(p)
  BY <1>1, <1>3 DEF Genuine
<1> QED
  BY <1>1, <1>2, <1>3, <1>4, <1>5 DEF p

\* memoryGet keeps the memory as it should be.
LEMMA TouchMemory ==
  ASSUME MemoryInv, NEW c, InMemory(c),
         memory' = Append(Without(memory, c), Entry(c)), memoryBytes' = memoryBytes
  PROVE  /\ MemoryInv' /\ \A d : InMemory(d)' => InMemory(d)
         /\ Exists(c) /\ Entry(c).bytes = Content(c)
<1> DEFINE q == memory
           w == Without(q, c)
<1>0. q \in Seq(Entries) /\ OneEach(q) /\ Genuine(q)
  BY DEF MemoryInv
<1>1. PICK k \in DOMAIN q : q[k] = Entry(c) /\ q[k].chunk = c
  BY DEF InMemory, Entry, ToSet
<1>2. /\ w \in Seq(Entries) /\ OneEach(w) /\ Genuine(w)
      /\ \A i \in DOMAIN w : w[i].chunk # c /\ \E j \in DOMAIN q : w[i] = q[j]
      /\ BytesIn(w) = BytesIn(q) - Len(q[k].bytes)
  BY <1>0, <1>1, WithoutFacts
<1>3. q[k] \in Entries /\ Exists(c) /\ q[k].bytes = Content(c) /\ Len(q[k].bytes) \in Nat
  <2>1. q[k] \in Entries
    BY <1>0, <1>1
  <2> QED
    BY <2>1, <1>0, <1>1 DEF Genuine, Entries
<1>4. /\ memory' \in Seq(Entries) /\ OneEach(memory') /\ Genuine(memory')
      /\ BytesIn(memory') = BytesIn(w) + Len(q[k].bytes)
      /\ \A i \in DOMAIN memory' : memory'[i] = q[k] \/ \E j \in DOMAIN w : memory'[i] = w[j]
  BY <1>1, <1>2, <1>3, AppendFacts
<1>5. BytesIn(q) \in Nat
  BY DEF MemoryInv
<1>6. BytesIn(memory') = BytesIn(q)
  BY <1>2, <1>3, <1>4, <1>5
<1>7. MemoryInv'
  BY <1>4, <1>6 DEF MemoryInv
<1>8. \A i \in DOMAIN memory' : \E j \in DOMAIN q : memory'[i] = q[j]
  BY <1>1, <1>2, <1>4
<1>9. \A d : InMemory(d)' => InMemory(d)
  BY <1>8 DEF InMemory, ToSet
<1> QED
  BY <1>1, <1>3, <1>7, <1>9

\* memoryPut keeps it so, and brings in no chunk but its own.
LEMMA PutMemory ==
  ASSUME MemoryInv, NEW c \in Chunks, Exists(c), NEW b, b = Content(c), MemoryPut(c, b)
  PROVE  MemoryInv' /\ \A d : InMemory(d)' => InMemory(d) \/ d = c
<1>1. CASE UNCHANGED memoryVars
  BY <1>1 DEF memoryVars, MemoryInv, InMemory
<1>2. CASE ~UNCHANGED memoryVars
  <2> DEFINE q == memory
             w == Without(q, c)
             e == [chunk |-> c, bytes |-> b]
             g == Append(w, e)
             counted == memoryBytes + Len(b) - (IF InMemory(c) THEN Len(Entry(c).bytes) ELSE 0)
             left(n) == counted - BytesIn(SubSeq(g, 1, n))
  <2>1. PICK n \in 0..Len(g) :
          /\ left(n) <= MemoryMaxBytes
          /\ memory' = SubSeq(g, n + 1, Len(g))
          /\ memoryBytes' = left(n)
    BY <1>2 DEF MemoryPut
  <2>2. q \in Seq(Entries) /\ OneEach(q) /\ Genuine(q) /\ BytesIn(q) = memoryBytes /\ memoryBytes \in Nat
    BY ChunkAssumption DEF MemoryInv
  <2>3. e \in Entries /\ Len(b) \in Nat
    BY ContentType DEF Entries
  <2>4. /\ w \in Seq(Entries) /\ OneEach(w) /\ Genuine(w)
        /\ \A i \in DOMAIN w : w[i].chunk # c /\ \E j \in DOMAIN q : w[i] = q[j]
        /\ \A k \in DOMAIN q : q[k].chunk = c => BytesIn(w) = BytesIn(q) - Len(q[k].bytes)
        /\ (\A k \in DOMAIN q : q[k].chunk # c) => w = q
    BY <2>2, WithoutFacts
  <2> HIDE DEF w
  <2>5. /\ g \in Seq(Entries) /\ OneEach(g) /\ Genuine(g)
        /\ BytesIn(g) = BytesIn(w) + Len(b)
        /\ \A i \in DOMAIN g : g[i] = e \/ \E j \in DOMAIN w : g[i] = w[j]
    <3>1. e.chunk = c /\ e.bytes = b
      OBVIOUS
    <3> HIDE DEF e
    <3> QED
      BY <2>3, <2>4, <3>1, AppendFacts
  <2>6. BytesIn(g) = counted
    <3>1. CASE InMemory(c)
      <4>1. PICK k \in DOMAIN q : q[k] = Entry(c) /\ q[k].chunk = c
        BY <3>1 DEF InMemory, Entry, ToSet
      <4>2. q[k] \in Entries
        BY <2>2, <4>1
      <4>3. Len(q[k].bytes) \in Nat
        BY <4>2 DEF Entries
      <4>4. counted = memoryBytes + Len(b) - Len(q[k].bytes)
        BY <3>1, <4>1
      <4>5. BytesIn(w) = memoryBytes - Len(q[k].bytes)
        BY <4>1, <2>2, <2>4
      <4> HIDE DEF counted, g
      <4> QED
        BY <4>3, <4>4, <4>5, <2>2, <2>3, <2>5
    <3>2. CASE ~InMemory(c)
      <4>1. w = q
        BY <3>2, <2>4, InMemoryIs
      <4> QED
        BY <3>2, <4>1, <2>2, <2>3, <2>5
    <3> QED
      BY <3>1, <3>2
  <2> HIDE DEF g, counted
  <2>7. /\ memory' \in Seq(Entries)
        /\ BytesIn(memory') = BytesIn(g) - BytesIn(SubSeq(g, 1, n))
    BY <2>1, <2>5, BytesInSuffix
  <2>8. \A i \in DOMAIN memory' : n + i \in DOMAIN g /\ memory'[i] = g[n + i]
    BY <2>1, <2>5
  <2>9. memoryBytes' = BytesIn(memory') /\ memoryBytes' \in 0..MemoryMaxBytes
    <3>1. BytesIn(memory') \in Nat
      <4>1. PICK s : Counts(s, memory')
        BY <2>7, CountsExist
      <4> QED
        BY <2>7, <4>1, CountsAll
    <3> QED
      BY <2>1, <2>6, <2>7, <3>1, ChunkAssumption
  <2>10. OneEach(memory') /\ Genuine(memory')
    <3>1. Genuine(memory')
      BY <2>5, <2>8 DEF Genuine
    <3>2. ASSUME NEW i \in DOMAIN memory', NEW j \in DOMAIN memory',
                 memory'[i].chunk = memory'[j].chunk
          PROVE  i = j
      <4>1. n + i = n + j
        BY <2>5, <2>8, <3>2 DEF OneEach
      <4>2. i \in Int /\ j \in Int /\ n \in Int
        BY <2>7
      <4> QED
        BY <4>1, <4>2
    <3> QED
      BY <3>1, <3>2 DEF OneEach
  <2>11. \A i \in DOMAIN memory' : memory'[i] = e \/ \E j \in DOMAIN q : memory'[i] = q[j]
    BY <2>4, <2>5, <2>8
  <2>12. \A d : InMemory(d)' => InMemory(d) \/ d = c
    BY <2>11 DEF InMemory, ToSet
  <2> QED
    BY <2>7, <2>9, <2>10, <2>12 DEF MemoryInv
<1> QED
  BY <1>1, <1>2

-----------------------------------------------------------------------------
(* The inductive invariant.                                                *)

\* A read waits on a load under way of the chunk it is at; a load keeps the
\* read that started it waiting.
Joined ==
  /\ \A r \in Reads : pc[r] = "waiting" <=> on[r] # None
  /\ \A r \in Reads : stage[r] # "none" => on[r] = r
  /\ \A r, s \in Reads : on[s] = r => stage[r] # "none" /\ at[s] = at[r]

\* What may make the load of chunk c fail.
Blamed(c) == NetworkFails \/ (\E s \in Reads : aborted[s]) \/ ~Exists(c)

Settled(r) ==
  \/ answer[r] = Bytes(Content(at[r])) /\ Exists(at[r])
  \/ answer[r].error # "none" /\ Blamed(at[r])

\* Only what the object has is stored, and a promise settles with it or with
\* an error that has a reason.
Contents ==
  /\ \A c \in persisted : Exists(c)
  /\ \A r \in Reads :
       /\ stage[r] \in {"persist", "keep"} =>
            answer[r] = Bytes(Content(at[r])) /\ Exists(at[r])
       /\ stage[r] = "forget" \/ pc[r] = "resume" => Settled(r)

\* g holds the first n chunks of the range w.
Collected(w, g, n) ==
  /\ Len(g) = n
  /\ \A i \in 1..n : g[i] = Content(FirstChunk(w) + i - 1) /\ Exists(FirstChunk(w) + i - 1)

\* What a read at p in its loop has collected in g, when it is at chunk c of w.
Holds(p, w, c, g) ==
  /\ p = "idle" => g = <<>>
  /\ p \in {"waiting", "resume"} =>
       /\ w[2] > 0
       /\ c \in FirstChunk(w)..LastChunk(w)
       /\ Collected(w, g, c - FirstChunk(w))
  /\ p = "done" /\ w[2] > 0 => Collected(w, g, LastChunk(w) - FirstChunk(w) + 1)
  /\ p = "done" /\ w[2] = 0 => g = <<>>

Progress == \A r \in Reads : Holds(pc[r], want[r], at[r], got[r])

Inv ==
  /\ TypeOK /\ MemoryInv /\ Joined /\ NeverFetchedTwice /\ Contents /\ Progress
  /\ StoreNeverFailsRead

LEMMA RangeFacts ==
  ASSUME TypeOK, NEW r \in Reads
  PROVE  /\ want[r][1] \in Nat /\ want[r][2] \in Nat
         /\ FirstChunk(want[r]) \in Nat /\ LastChunk(want[r]) \in Int
         /\ FirstChunk(want[r])..LastChunk(want[r]) \subseteq Chunks
         /\ want[r][2] > 0 => FirstChunk(want[r]) <= LastChunk(want[r])
<1>1. want[r] \in Nat \X Nat /\ want[r] \in Ranges[r] /\ ChunkSize \in Nat \ {0}
  BY ChunkAssumption DEF TypeOK
<1>2. FirstChunk(want[r])..LastChunk(want[r]) \subseteq Chunks
  BY <1>1, ChunkAssumption
<1> DEFINE x == want[r][1]
           n == want[r][2]
<1>3. x \in Nat /\ n \in Nat
  BY <1>1
<1>4. FirstChunk(want[r]) = x \div ChunkSize /\ LastChunk(want[r]) = (x + n - 1) \div ChunkSize
  BY DEF FirstChunk, LastChunk
<1> HIDE DEF x, n
<1>5. x \div ChunkSize \in Nat /\ (x + n - 1) \div ChunkSize \in Int
  BY <1>1, <1>3
<1>6. n > 0 => x \div ChunkSize <= (x + n - 1) \div ChunkSize
  BY <1>1, <1>3
<1> QED
  BY <1>2, <1>3, <1>4, <1>5, <1>6 DEF x, n

LEMMA ExistsBelow ==
  ASSUME NEW c \in Nat, NEW d \in Nat, c <= d, Exists(d)
  PROVE  Exists(c)
<1>1. c * ChunkSize <= d * ChunkSize /\ d * ChunkSize < FileSize
      /\ c * ChunkSize \in Nat /\ d * ChunkSize \in Nat /\ FileSize \in Nat
  BY ChunkAssumption DEF Exists
<1> QED
  BY <1>1 DEF Exists

LEMMA InitInv == Init => Inv
<1> SUFFICES ASSUME Init PROVE Inv
  OBVIOUS
<1>1. TypeOK
  <2>1. \A r \in Reads : want[r] \in Ranges[r]
    BY DEF Init
  <2>2. want \in [Reads -> Nat \X Nat]
    BY <2>1, ChunkAssumption DEF Init
  <2>3. \A r \in Reads : Error("none") \in Answers
    BY DEF Error, Answers
  <2> QED
    BY <2>1, <2>2, <2>3, ChunkAssumption DEF Init, TypeOK, Stages
<1>2. MemoryInv
  BY BytesInEmpty, ChunkAssumption DEF Init, MemoryInv, OneEach, Genuine
<1>3. Joined /\ Contents /\ NeverFetchedTwice /\ StoreNeverFailsRead
  BY ChunkAssumption DEF Init, Joined, Contents, NeverFetchedTwice, StoreNeverFailsRead
<1>4. Progress
  BY DEF Init, Progress, Holds
<1> QED
  BY <1>1, <1>2, <1>3, <1>4 DEF Inv

\* A read turns to the next chunk: found, joined or missed.
LEMMA FetchChunkInv ==
  ASSUME Inv, NEW r \in Reads, pc[r] \in {"idle", "resume"}, want[r][2] > 0,
         NEW c \in FirstChunk(want[r])..LastChunk(want[r]),
         FetchChunk(r, c), UNCHANGED <<want, aborted, persisted>>,
         got' \in [Reads -> Seq(Seq(Nat))],
         \A s \in Reads \ {r} : got'[s] = got[s],
         Collected(want[r], got'[r], c - FirstChunk(want[r]))
  PROVE  Inv'
<1> USE DEF Inv
<1>1. c \in Chunks /\ c \in Nat /\ FirstChunk(want[r]) \in Nat /\ LastChunk(want[r]) \in Int
  BY RangeFacts, ChunkAssumption
<1>2. at' = [at EXCEPT ![r] = c] /\ at' \in [Reads -> Nat]
  BY <1>1 DEF FetchChunk, TypeOK
<1>3. on[r] = None /\ stage[r] = "none" /\ \A s \in Reads : on[s] # r
  BY ChunkAssumption DEF Joined
<1>4. /\ \A s \in Reads \ {r} : at'[s] = at[s] /\ pc'[s] = pc[s]
      /\ at'[r] = c /\ pc'[r] \in {"waiting", "resume"}
  BY <1>2 DEF FetchChunk, Hit, Join, Miss, TypeOK
<1>5. Progress'
  <2>1. Holds(pc'[r], want[r], at'[r], got'[r])
    BY <1>4 DEF Holds
  <2> QED
    BY <1>4, <2>1 DEF Progress
<1>6. StoreNeverFailsRead'
  BY <1>4 DEF StoreNeverFailsRead
<1>7. CASE Hit(r, c)
  <2> USE <1>7 DEF Hit
  <2>1. /\ MemoryInv' /\ \A d : InMemory(d)' => InMemory(d)
        /\ Exists(c) /\ Entry(c).bytes = Content(c)
    BY TouchMemory
  <2>2. answer' = [answer EXCEPT ![r] = Bytes(Content(c))] /\ Bytes(Content(c)) \in Answers
    BY <1>1, <2>1, ContentType DEF Bytes, Answers
  <2>3. TypeOK'
    BY <1>2, <2>1, <2>2 DEF TypeOK, MemoryInv, loadVars
  <2>4. Joined'
    <3>1. pc'[r] = "resume" /\ on' = on /\ stage' = stage
      BY DEF TypeOK, loadVars
    <3> QED
      BY <1>3, <1>4, <3>1, ChunkAssumption DEF Joined
  <2>5. NeverFetchedTwice'
    BY <1>2, <1>3, <2>1 DEF NeverFetchedTwice, TypeOK, loadVars
  <2>6. Contents'
    <3>1. \A s \in Reads \ {r} : answer'[s] = answer[s] /\ at'[s] = at[s] /\ pc'[s] = pc[s]
      BY <1>2, <2>2 DEF TypeOK
    <3>2. answer'[r] = Bytes(Content(c)) /\ at'[r] = c
      BY <1>2, <2>2 DEF TypeOK
    <3> QED
      BY <1>3, <2>1, <3>1, <3>2 DEF Contents, Settled, Blamed, loadVars
  <2> QED
    BY <1>5, <1>6, <2>1, <2>3, <2>4, <2>5, <2>6
<1>8. CASE Join(r, c)
  <2> USE <1>8 DEF Join
  <2> DEFINE s0 == inflight[c]
  <2>1. s0 \in Reads /\ stage[s0] # "none" /\ at[s0] = c
    BY <1>1 DEF TypeOK, NeverFetchedTwice
  <2>2. s0 # r
    BY <1>3, <2>1
  <2>3. on' = [on EXCEPT ![r] = s0]
    OBVIOUS
  <2> HIDE DEF s0
  <2>4. TypeOK'
    BY <1>2, <2>1, <2>3 DEF TypeOK, loadVars, memoryVars
  <2>5. Joined'
    <3>1. /\ pc'[r] = "waiting" /\ on'[r] = s0 /\ stage' = stage
          /\ \A s \in Reads \ {r} : on'[s] = on[s]
      BY <2>3 DEF TypeOK, loadVars
    <3> QED
      BY <1>3, <1>4, <2>1, <2>2, <3>1, ChunkAssumption DEF Joined
  <2>6. NeverFetchedTwice'
    <3>1. stage' = stage /\ inflight' = inflight /\ memory' = memory
      BY DEF loadVars, memoryVars
    <3>2. \A s \in Reads : stage[s] # "none" => at'[s] = at[s]
      BY <1>3, <1>4
    <3>3. ASSUME NEW d \in Chunks, NEW s \in Reads
          PROVE  (inflight[d] = s <=> stage[s] # "none" /\ at[s] = d)'
      <4>1. inflight[d] = s <=> stage[s] # "none" /\ at[s] = d
        BY DEF NeverFetchedTwice
      <4> QED
        BY <4>1, <3>1, <3>2
    <3>4. \A s \in Reads :
            stage'[s] \in {"store", "network", "persist", "keep"} => ~InMemory(at[s])'
      BY <3>1, <3>2 DEF NeverFetchedTwice, InMemory
    <3> QED
      BY <3>3, <3>4 DEF NeverFetchedTwice
  <2>7. Contents'
    BY <1>2, <1>3 DEF Contents, TypeOK, loadVars, Settled, Blamed
  <2>8. MemoryInv'
    BY DEF MemoryInv, memoryVars
  <2> QED
    BY <1>5, <1>6, <2>4, <2>5, <2>6, <2>7, <2>8
<1>9. CASE Miss(r, c)
  <2> USE <1>9 DEF Miss
  <2>1. TypeOK'
    BY <1>2 DEF TypeOK, memoryVars, Stages
  <2>2. Joined'
    <3>1. /\ pc'[r] = "waiting" /\ on'[r] = r /\ stage'[r] = "store"
          /\ \A s \in Reads \ {r} : on'[s] = on[s] /\ stage'[s] = stage[s]
      BY DEF TypeOK
    <3> QED
      BY <1>3, <1>4, <3>1, ChunkAssumption DEF Joined
  <2>3. NeverFetchedTwice'
    <3>1. /\ stage'[r] = "store" /\ inflight'[c] = r
          /\ \A s \in Reads \ {r} : stage'[s] = stage[s]
          /\ \A d \in Chunks \ {c} : inflight'[d] = inflight[d]
      BY <1>1 DEF TypeOK
    <3>2. \A d : InMemory(d)' <=> InMemory(d)
      BY DEF memoryVars, InMemory
    <3>3. \A s \in Reads : inflight[c] # s
      BY ChunkAssumption
    <3> QED
      BY <1>1, <1>3, <1>4, <3>1, <3>2, <3>3 DEF NeverFetchedTwice
  <2>4. Contents'
    BY <1>2, <1>3 DEF Contents, TypeOK, Settled, Blamed
  <2>5. MemoryInv'
    BY DEF MemoryInv, memoryVars
  <2> QED
    BY <1>5, <1>6, <2>1, <2>2, <2>3, <2>4, <2>5
<1> QED
  BY <1>7, <1>8, <1>9 DEF FetchChunk

\* What a turn of a load leaves alone.
LEMMA LoadStepFacts ==
  ASSUME Inv, NEW r \in Reads, NEW from \in Stages \ {"none"}, NEW to \in Stages \ {"none"},
         LoadStep(r, from, to)
  PROVE  /\ Joined' /\ Progress' /\ StoreNeverFailsRead'
         /\ stage' \in [Reads -> Stages] /\ stage'[r] = to
         /\ \A s \in Reads \ {r} : stage'[s] = stage[s]
         /\ \A c \in Chunks, s \in Reads : (inflight[c] = s <=> stage[s] # "none" /\ at[s] = c)'
         /\ pc[r] = "waiting" /\ at[r] \in Chunks
         /\ \A s \in Reads : at[s] = at[r] /\ stage[s] # "none" => s = r
<1> USE DEF Inv, LoadStep
<1>1. /\ stage' \in [Reads -> Stages] /\ stage'[r] = to
      /\ \A s \in Reads \ {r} : stage'[s] = stage[s]
  BY DEF TypeOK
<1>2. pc[r] = "waiting" /\ at[r] \in Chunks
  <2>1. pc[r] = "waiting"
    BY ChunkAssumption DEF Joined
  <2>2. at[r] \in FirstChunk(want[r])..LastChunk(want[r])
    BY <2>1 DEF Progress, Holds
  <2> QED
    BY <2>1, <2>2, RangeFacts
<1>3. Joined'
  BY <1>1 DEF Joined
<1>4. Progress'
  BY DEF Progress
<1>5. StoreNeverFailsRead'
  BY DEF StoreNeverFailsRead
<1>6. ASSUME NEW c \in Chunks, NEW s \in Reads
      PROVE  (inflight[c] = s <=> stage[s] # "none" /\ at[s] = c)'
  <2>1. inflight[c] = s <=> stage[s] # "none" /\ at[s] = c
    BY DEF NeverFetchedTwice
  <2>2. stage'[s] # "none" <=> stage[s] # "none"
    BY <1>1
  <2> QED
    BY <2>1, <2>2
<1>7. ASSUME NEW s \in Reads, at[s] = at[r], stage[s] # "none"
      PROVE  s = r
  <2>1. inflight[at[r]] = s /\ inflight[at[r]] = r
    BY <1>2, <1>7 DEF NeverFetchedTwice
  <2> QED
    BY <2>1
<1> QED
  BY <1>1, <1>2, <1>3, <1>4, <1>5, <1>6, <1>7

\* The turns of a load that leave the memory alone.
LEMMA FetchStepInv ==
  ASSUME Inv, NEW r \in Reads, NEW to \in Stages \ {"none"},
         NEW from \in {"store", "network", "persist"}, LoadStep(r, from, to),
         UNCHANGED memoryVars,
         persisted' \subseteq Chunks, \A c \in persisted' : Exists(c),
         answer' \in [Reads -> Answers],
         \A s \in Reads \ {r} : answer'[s] = answer[s],
         to \in {"persist", "keep"} => answer'[r] = Bytes(Content(at[r])) /\ Exists(at[r]),
         to = "forget" =>
           \/ answer'[r] = Bytes(Content(at[r])) /\ Exists(at[r])
           \/ answer'[r].error # "none" /\ Blamed(at[r])
  PROVE  Inv'
<1> from \in Stages \ {"none"}
  BY DEF Stages
<1>1. /\ Joined' /\ Progress' /\ StoreNeverFailsRead'
      /\ stage' \in [Reads -> Stages] /\ stage'[r] = to
      /\ \A s \in Reads \ {r} : stage'[s] = stage[s]
      /\ \A c \in Chunks, s \in Reads : (inflight[c] = s <=> stage[s] # "none" /\ at[s] = c)'
      /\ pc[r] = "waiting"
  BY LoadStepFacts
<1> USE DEF Inv, LoadStep
<1>2. TypeOK' /\ MemoryInv'
  BY <1>1 DEF TypeOK, memoryVars, MemoryInv
<1>3. NeverFetchedTwice'
  <2>1. ASSUME NEW s \in Reads, stage'[s] \in {"store", "network", "persist", "keep"}
        PROVE  ~InMemory(at[s])'
    <3>1. stage[s] \in {"store", "network", "persist", "keep"}
      BY <1>1, <2>1
    <3>2. ~InMemory(at[s])
      BY <3>1 DEF NeverFetchedTwice
    <3> QED
      BY <3>2 DEF InMemory, memoryVars
  <2> QED
    BY <1>1, <2>1 DEF NeverFetchedTwice
<1>4. Contents'
  <2>1. \A s \in Reads \ {r} :
          (/\ stage[s] \in {"persist", "keep"} =>
                answer[s] = Bytes(Content(at[s])) /\ Exists(at[s])
           /\ stage[s] = "forget" \/ pc[s] = "resume" => Settled(s))'
    BY <1>1 DEF Contents, Settled, Blamed
  <2>2. (/\ stage[r] \in {"persist", "keep"} =>
              answer[r] = Bytes(Content(at[r])) /\ Exists(at[r])
         /\ stage[r] = "forget" \/ pc[r] = "resume" => Settled(r))'
    BY <1>1 DEF Settled, Blamed
  <2> QED
    BY <2>1, <2>2 DEF Contents
<1> QED
  BY <1>1, <1>2, <1>3, <1>4

LEMMA KeepInv ==
  ASSUME Inv, NEW r \in Reads, Keep(r)
  PROVE  Inv'
<1> USE DEF Inv, Keep
<1>0. "keep" \in Stages \ {"none"} /\ "forget" \in Stages \ {"none"}
  BY DEF Stages
<1>1. /\ Joined' /\ Progress' /\ StoreNeverFailsRead'
      /\ stage' \in [Reads -> Stages] /\ stage'[r] = "forget"
      /\ \A s \in Reads \ {r} : stage'[s] = stage[s]
      /\ \A c \in Chunks, s \in Reads : (inflight[c] = s <=> stage[s] # "none" /\ at[s] = c)'
      /\ at[r] \in Chunks
      /\ \A s \in Reads : at[s] = at[r] /\ stage[s] # "none" => s = r
  BY <1>0, LoadStepFacts
<1>2. answer[r] = Bytes(Content(at[r])) /\ Exists(at[r]) /\ answer[r].bytes = Content(at[r])
  BY DEF LoadStep, Contents, Bytes
<1>3. MemoryInv' /\ \A d : InMemory(d)' => InMemory(d) \/ d = at[r]
  BY <1>1, <1>2, PutMemory
<1>4. TypeOK'
  BY <1>1, <1>3 DEF TypeOK, LoadStep, MemoryInv
<1>5. NeverFetchedTwice'
  <2>1. ASSUME NEW s \in Reads, stage'[s] \in {"store", "network", "persist", "keep"}
        PROVE  ~InMemory(at[s])'
    <3>1. s # r /\ stage[s] \in {"store", "network", "persist", "keep"} /\ at'[s] = at[s]
      BY <1>1, <2>1 DEF LoadStep
    <3>2. ~InMemory(at[s]) /\ at[s] # at[r]
      BY <1>1, <3>1 DEF NeverFetchedTwice
    <3> QED
      BY <1>3, <3>1, <3>2 DEF InMemory
  <2> QED
    BY <1>1, <2>1 DEF NeverFetchedTwice
<1>6. Contents'
  <2>1. \A s \in Reads \ {r} : stage'[s] = stage[s]
    BY <1>1
  <2> QED
    BY <1>1, <1>2, <2>1 DEF Contents, Settled, Blamed, LoadStep
<1> QED
  BY <1>1, <1>3, <1>4, <1>5, <1>6

\* The promise settles for the load's own read and for all that joined.
LEMMA ForgetInv ==
  ASSUME Inv, NEW r \in Reads, Forget(r)
  PROVE  Inv'
<1> USE DEF Inv, Forget
<1>1. at[r] \in Chunks /\ on[r] = r /\ Settled(r)
  <2>1. pc[r] = "waiting" /\ on[r] = r
    BY ChunkAssumption DEF Joined
  <2>2. at[r] \in FirstChunk(want[r])..LastChunk(want[r])
    BY <2>1 DEF Progress, Holds
  <2> QED
    BY <2>1, <2>2, RangeFacts DEF Contents
<1>2. /\ stage'[r] = "none" /\ \A s \in Reads \ {r} : stage'[s] = stage[s]
      /\ inflight'[at[r]] = None /\ \A c \in Chunks \ {at[r]} : inflight'[c] = inflight[c]
      /\ \A s \in Reads : on[s] = r => on'[s] = None /\ answer'[s] = answer[r] /\ pc'[s] = "resume"
      /\ \A s \in Reads : on[s] # r => on'[s] = on[s] /\ answer'[s] = answer[s] /\ pc'[s] = pc[s]
  BY <1>1 DEF TypeOK
<1>3. TypeOK'
  BY <1>1 DEF TypeOK, Stages, memoryVars
<1>4. MemoryInv'
  BY DEF MemoryInv, memoryVars
<1>5. Joined'
  BY <1>2, ChunkAssumption DEF Joined
<1>6. NeverFetchedTwice'
  <2>1. ASSUME NEW c \in Chunks, NEW s \in Reads
        PROVE  (inflight[c] = s <=> stage[s] # "none" /\ at[s] = c)'
    <3>1. inflight[c] = s <=> stage[s] # "none" /\ at[s] = c
      BY DEF NeverFetchedTwice
    <3>2. inflight[at[r]] = r
      BY <1>1 DEF NeverFetchedTwice
    <3> QED
      BY <3>1, <3>2, <1>2, ChunkAssumption
  <2>2. ASSUME NEW s \in Reads, stage'[s] \in {"store", "network", "persist", "keep"}
        PROVE  ~InMemory(at[s])'
    <3>1. stage[s] = stage'[s]
      BY <1>2, <2>2
    <3>2. ~InMemory(at[s])
      BY <2>2, <3>1 DEF NeverFetchedTwice
    <3> QED
      BY <3>2 DEF InMemory, memoryVars
  <2> QED
    BY <2>1, <2>2 DEF NeverFetchedTwice
<1>7. Contents'
  <2>1. \A s \in Reads : on[s] = r => at[s] = at[r] /\ Settled(s)'
    BY <1>1, <1>2 DEF Settled, Blamed, Joined
  <2>2. ASSUME NEW s \in Reads
        PROVE  (/\ stage[s] \in {"persist", "keep"} =>
                     answer[s] = Bytes(Content(at[s])) /\ Exists(at[s])
                /\ stage[s] = "forget" \/ pc[s] = "resume" => Settled(s))'
    <3>1. CASE on[s] = r
      <4>1. stage'[s] = "none"
        BY <1>2, <3>1 DEF Joined
      <4> QED
        BY <2>1, <3>1, <4>1
    <3>2. CASE on[s] # r
      <4>1. stage'[s] = stage[s] /\ answer'[s] = answer[s] /\ pc'[s] = pc[s] /\ at' = at
        BY <1>1, <1>2, <3>2
      <4> QED
        BY <4>1 DEF Contents, Settled, Blamed
    <3> QED
      BY <3>1, <3>2
  <2> QED
    BY <2>2 DEF Contents
<1>8. Progress' /\ StoreNeverFailsRead'
  <2>1. \A s \in Reads : on[s] = r => pc[s] = "waiting"
    BY ChunkAssumption DEF Joined
  <2>2. \A s \in Reads : on[s] = r => Holds("resume", want[s], at[s], got[s])
    BY <2>1 DEF Progress, Holds
  <2> QED
    BY <1>2, <2>2 DEF Progress, StoreNeverFailsRead
<1> QED
  BY <1>3, <1>4, <1>5, <1>6, <1>7, <1>8

LEMMA LoadInv ==
  ASSUME Inv, NEW r \in Reads, Load(r)
  PROVE  Inv'
<1> USE DEF Inv
<1>1. at[r] \in Nat /\ persisted \subseteq Chunks /\ answer \in [Reads -> Answers]
      /\ \A c \in persisted : Exists(c)
  BY DEF TypeOK, Contents
<1>2. stage[r] # "none" => at[r] \in Chunks
  <2>1. stage[r] # "none" => pc[r] = "waiting"
    BY ChunkAssumption DEF Joined
  <2> QED
    BY <2>1, RangeFacts DEF Progress, Holds
<1>3. at[r] \in Chunks /\ Exists(at[r]) => Bytes(Content(at[r])) \in Answers
  BY ContentType DEF Bytes, Answers
<1>4. \A why \in {"none", "abort", "network"} :
        Error(why) \in Answers /\ Error(why).error = why
  BY DEF Error, Answers
<1>5. {"store", "network", "persist", "keep", "forget"} \subseteq Stages \ {"none"}
  BY DEF Stages
<1>6. CASE StoreHas(r)
  BY <1>1, <1>2, <1>3, <1>5, <1>6, FetchStepInv DEF StoreHas, LoadStep
<1>7. CASE StoreHasNot(r)
  BY <1>1, <1>5, <1>7, FetchStepInv DEF StoreHasNot
<1>8. CASE NetworkAnswers(r)
  BY <1>1, <1>2, <1>3, <1>5, <1>8, FetchStepInv DEF NetworkAnswers, LoadStep
<1>9. CASE NetworkRejects(r)
  <2>1. PICK why \in {"abort", "network"} :
          answer' = [answer EXCEPT ![r] = Error(why)] /\ Blamed(at[r])
    BY <1>9 DEF NetworkRejects, Blamed
  <2>2. answer'[r].error # "none" /\ answer' \in [Reads -> Answers]
        /\ \A s \in Reads \ {r} : answer'[s] = answer[s]
    BY <1>1, <1>4, <2>1
  <2> QED
    BY <1>1, <1>5, <1>9, <2>1, <2>2, FetchStepInv DEF NetworkRejects
<1>10. CASE StorePut(r) \/ StorePutThrows(r)
  <2>1. LoadStep(r, "persist", "keep") /\ stage[r] = "persist"
    BY <1>10 DEF StorePut, StorePutThrows, LoadStep
  <2>2. answer[r] = Bytes(Content(at[r])) /\ Exists(at[r]) /\ at[r] \in Chunks
    BY <2>1, <1>2 DEF Contents
  <2>3. persisted' \subseteq Chunks /\ \A c \in persisted' : Exists(c)
    BY <1>1, <1>10, <2>2 DEF StorePut, StorePutThrows
  <2>4. UNCHANGED <<answer, memoryVars>>
    BY <1>10 DEF StorePut, StorePutThrows
  <2> QED
    BY <1>1, <1>5, <2>1, <2>2, <2>3, <2>4, FetchStepInv
<1>11. CASE Keep(r)
  BY <1>11, KeepInv
<1>12. CASE Forget(r)
  BY <1>12, ForgetInv
<1> QED
  BY <1>6, <1>7, <1>8, <1>9, <1>10, <1>11, <1>12 DEF Load

LEMMA StartInv ==
  ASSUME Inv, NEW r \in Reads, Start(r)
  PROVE  Inv'
<1> USE DEF Inv
<1>1. pc[r] = "idle" /\ on[r] = None /\ stage[r] = "none" /\ (\A s \in Reads : on[s] # r)
      /\ got[r] = <<>> /\ UNCHANGED <<want, aborted, got, persisted>>
  BY ChunkAssumption DEF Start, Joined, Progress, Holds
<1>2. CASE want[r][2] > 0 /\ FetchChunk(r, FirstChunk(want[r]))
  <2>1. FirstChunk(want[r]) \in FirstChunk(want[r])..LastChunk(want[r])
    BY <1>2, RangeFacts
  <2>2. Collected(want[r], got'[r], FirstChunk(want[r]) - FirstChunk(want[r]))
    <3>1. FirstChunk(want[r]) \in Nat
      BY RangeFacts
    <3> QED
      BY <1>1, <3>1 DEF Collected
  <2>3. got' \in [Reads -> Seq(Seq(Nat))]
    BY <1>1 DEF TypeOK
  <2> QED
    BY <1>1, <1>2, <2>1, <2>2, <2>3, FetchChunkInv
<1>3. CASE ~(want[r][2] > 0 /\ FetchChunk(r, FirstChunk(want[r])))
  <2>1. /\ UNCHANGED <<at, on, loadVars, memoryVars>>
        /\ \A s \in Reads \ {r} : pc'[s] = pc[s] /\ answer'[s] = answer[s]
        /\ pc \in [Reads -> {"idle", "waiting", "resume", "done", "failed"}]
        /\ pc' \in [Reads -> {"idle", "waiting", "resume", "done", "failed"}]
        /\ answer' \in [Reads -> Answers]
        /\ \/ pc'[r] = "failed" /\ aborted[r]
           \/ pc'[r] = "done" /\ want[r][2] = 0
    <3>1. Error("abort") \in Answers
      BY DEF Error, Answers
    <3>2. \/ /\ aborted[r]
             /\ pc' = [pc EXCEPT ![r] = "failed"]
             /\ answer' = [answer EXCEPT ![r] = Error("abort")]
             /\ UNCHANGED <<at, on, loadVars, memoryVars>>
          \/ /\ want[r][2] = 0
             /\ pc' = [pc EXCEPT ![r] = "done"]
             /\ UNCHANGED <<at, on, answer, loadVars, memoryVars>>
      BY <1>3 DEF Start
    <3>3. /\ pc \in [Reads -> {"idle", "waiting", "resume", "done", "failed"}]
          /\ answer \in [Reads -> Answers]
      BY DEF TypeOK
    <3> QED
      BY <3>1, <3>2, <3>3
  <2>2. TypeOK' /\ MemoryInv'
    BY <1>1, <2>1 DEF TypeOK, MemoryInv, loadVars, memoryVars
  <2>3. Joined'
    BY <1>1, <2>1 DEF Joined, loadVars
  <2>4. NeverFetchedTwice'
    BY <1>1, <2>1 DEF NeverFetchedTwice, loadVars, memoryVars, InMemory
  <2>5. Contents'
    BY <1>1, <2>1 DEF Contents, Settled, Blamed, loadVars
  <2>6. Progress'
    <3>1. Holds(pc'[r], want[r], at[r], got[r])
      BY <1>1, <2>1 DEF Holds
    <3> QED
      BY <1>1, <2>1, <3>1 DEF Progress
  <2>7. StoreNeverFailsRead'
    BY <1>1, <2>1 DEF StoreNeverFailsRead
  <2> QED
    BY <2>2, <2>3, <2>4, <2>5, <2>6, <2>7
<1> QED
  BY <1>2, <1>3

LEMMA ResumeInv ==
  ASSUME Inv, NEW r \in Reads, Resume(r)
  PROVE  Inv'
<1> USE DEF Inv
<1> DEFINE first == FirstChunk(want[r])
           last == LastChunk(want[r])
<1>1. /\ pc[r] = "resume" /\ on[r] = None /\ stage[r] = "none" /\ (\A s \in Reads : on[s] # r)
      /\ UNCHANGED <<want, aborted, persisted>>
  BY ChunkAssumption DEF Resume, Joined
<1>2. Settled(r)
  BY <1>1 DEF Contents
<1>3. /\ want[r][2] > 0 /\ at[r] \in first..last /\ Collected(want[r], got[r], at[r] - first)
  BY <1>1 DEF Progress, Holds
<1>4. first \in Nat /\ last \in Int /\ at[r] \in Chunks /\ at[r] \in Nat /\ last \in Nat
  BY <1>3, RangeFacts, ChunkAssumption
<1>5. CASE answer[r].error # "none"
  <2>1. /\ UNCHANGED <<at, got, on, answer, loadVars, memoryVars>>
        /\ pc' = [pc EXCEPT ![r] = "failed"]
    BY <1>5 DEF Resume
  <2>2. /\ \A s \in Reads \ {r} : pc'[s] = pc[s]
        /\ pc'[r] = "failed"
        /\ pc' \in [Reads -> {"idle", "waiting", "resume", "done", "failed"}]
    BY <2>1 DEF TypeOK
  <2>3. Blamed(at[r])
    BY <1>2, <1>5 DEF Settled, Bytes
  <2>4. ~Exists(at[r]) => ~Exists(last)
    BY <1>3, <1>4, ExistsBelow
  <2>5. TypeOK' /\ MemoryInv'
    BY <1>1, <2>1, <2>2 DEF TypeOK, MemoryInv, loadVars, memoryVars
  <2>6. Joined' /\ NeverFetchedTwice'
    BY <1>1, <2>1, <2>2 DEF Joined, NeverFetchedTwice, loadVars, memoryVars, InMemory
  <2>7. Contents' /\ StoreNeverFailsRead'
    BY <1>1, <2>1, <2>2, <2>3, <2>4
    DEF Contents, StoreNeverFailsRead, Settled, Blamed, loadVars
  <2>8. Progress'
    <3>1. Holds(pc'[r], want[r], at[r], got[r])
      BY <2>2 DEF Holds
    <3> QED
      BY <1>1, <2>1, <2>2, <3>1 DEF Progress
  <2> QED
    BY <2>5, <2>6, <2>7, <2>8
<1>6. CASE answer[r].error = "none"
  <2>1. Exists(at[r]) /\ answer[r].bytes = Content(at[r])
    BY <1>2, <1>6 DEF Settled, Bytes
  <2>2. got' = [got EXCEPT ![r] = Append(@, Content(at[r]))]
    BY <1>6, <2>1 DEF Resume
  <2>3. /\ got' \in [Reads -> Seq(Seq(Nat))]
        /\ got'[r] = Append(got[r], Content(at[r]))
        /\ \A s \in Reads \ {r} : got'[s] = got[s]
    <3>1. Content(at[r]) \in Seq(Nat)
      BY <1>4, <2>1, ContentType
    <3> QED
      BY <2>2, <3>1 DEF TypeOK
  <2>4. Collected(want[r], got'[r], at[r] - first + 1)
    <3> DEFINE g == got[r]
               x == Content(at[r])
               n == at[r] - first
    <3>1. g \in Seq(Seq(Nat)) /\ Len(g) = n /\ n \in Nat
      BY <1>3, <1>4 DEF TypeOK, Collected
    <3>2. \A i \in 1..n : g[i] = Content(first + i - 1) /\ Exists(first + i - 1)
      BY <1>3 DEF Collected
    <3>3. x = Content(first + (n + 1) - 1) /\ Exists(first + (n + 1) - 1)
      <4>1. first + (n + 1) - 1 = at[r]
        BY <1>4
      <4> QED
        BY <2>1, <4>1
    <3> HIDE DEF g, x, n, first
    <3>4. Len(Append(g, x)) = n + 1
          /\ \A i \in 1..n + 1 : Append(g, x)[i] = IF i = n + 1 THEN x ELSE g[i]
      BY <3>1
    <3>5. \A i \in 1..n + 1 : i \in 1..n \/ i = n + 1
      BY <3>1
    <3>6. \A i \in 1..n + 1 :
            Append(g, x)[i] = Content(first + i - 1) /\ Exists(first + i - 1)
      BY <3>1, <3>2, <3>3, <3>4, <3>5
    <3> QED
      BY <2>3, <3>4, <3>6 DEF Collected, g, x, n, first
  <2>5. CASE at[r] = last
    <3>1. /\ UNCHANGED <<at, on, answer, loadVars, memoryVars>>
          /\ pc' = [pc EXCEPT ![r] = "done"]
      BY <1>4, <1>6, <2>5 DEF Resume
    <3>2. /\ \A s \in Reads \ {r} : pc'[s] = pc[s]
          /\ pc'[r] = "done"
          /\ pc' \in [Reads -> {"idle", "waiting", "resume", "done", "failed"}]
      BY <3>1 DEF TypeOK
    <3>3. TypeOK' /\ MemoryInv'
      BY <1>1, <2>3, <3>1, <3>2 DEF TypeOK, MemoryInv, loadVars, memoryVars
    <3>4. Joined' /\ NeverFetchedTwice'
      BY <1>1, <3>1, <3>2 DEF Joined, NeverFetchedTwice, loadVars, memoryVars, InMemory
    <3>5. Contents' /\ StoreNeverFailsRead'
      BY <1>1, <3>1, <3>2 DEF Contents, StoreNeverFailsRead, Settled, Blamed, loadVars
    <3>6. Progress'
      <4>1. Holds(pc'[r], want[r], at[r], got'[r])
        BY <1>3, <2>4, <2>5, <3>2 DEF Holds
      <4> QED
        BY <1>1, <2>3, <3>1, <3>2, <4>1 DEF Progress
    <3> QED
      BY <3>3, <3>4, <3>5, <3>6
  <2>6. CASE at[r] # last
    <3>1. at[r] + 1 \in first..last /\ FetchChunk(r, at[r] + 1)
      BY <1>3, <1>4, <1>6, <2>6 DEF Resume
    <3>2. Collected(want[r], got'[r], (at[r] + 1) - first)
      <4>1. (at[r] + 1) - first = at[r] - first + 1
        BY <1>4
      <4> QED
        BY <2>4, <4>1
    <3> QED
      BY <1>1, <1>3, <2>3, <3>1, <3>2, FetchChunkInv
  <2> QED
    BY <2>5, <2>6
<1> QED
  BY <1>5, <1>6

LEMMA NextInv == Inv /\ [Next]_vars => Inv'
<1> SUFFICES ASSUME Inv, [Next]_vars PROVE Inv'
  OBVIOUS
<1> USE DEF Inv
<1>1. CASE ClearMemory
  <2> USE <1>1 DEF ClearMemory, readVars, loadVars
  <2>1. MemoryInv' /\ \A d : ~InMemory(d)'
    BY BytesInEmpty, ChunkAssumption DEF MemoryInv, OneEach, Genuine, InMemory, ToSet
  <2>2. TypeOK'
    BY <2>1 DEF TypeOK, MemoryInv
  <2>3. NeverFetchedTwice'
    BY <2>1 DEF NeverFetchedTwice, InMemory
  <2>4. Joined' /\ Contents' /\ Progress' /\ StoreNeverFailsRead'
    BY DEF Joined, Contents, Progress, StoreNeverFailsRead, Settled, Blamed
  <2> QED
    BY <2>1, <2>2, <2>3, <2>4
<1>2. ASSUME NEW r \in Reads, Abort(r) PROVE Inv'
  <2> USE <1>2 DEF Abort, loadVars, memoryVars
  <2>1. aborted' \in [Reads -> BOOLEAN] /\ \A s \in Reads : aborted[s] => aborted'[s]
    BY DEF TypeOK
  <2>2. TypeOK' /\ MemoryInv'
    BY <2>1 DEF TypeOK, MemoryInv
  <2>3. Joined' /\ NeverFetchedTwice' /\ Progress'
    BY DEF Joined, NeverFetchedTwice, InMemory, Progress
  <2>4. Contents' /\ StoreNeverFailsRead'
    BY <2>1 DEF Contents, StoreNeverFailsRead, Settled, Blamed
  <2> QED
    BY <2>2, <2>3, <2>4
<1>3. CASE UNCHANGED vars
  <2> USE <1>3 DEF vars, readVars, loadVars, memoryVars
  <2>1. TypeOK' /\ MemoryInv' /\ Joined' /\ NeverFetchedTwice'
    BY DEF TypeOK, MemoryInv, Joined, NeverFetchedTwice, InMemory
  <2>2. Contents' /\ Progress' /\ StoreNeverFailsRead'
    BY DEF Contents, Progress, StoreNeverFailsRead, Settled, Blamed
  <2> QED
    BY <2>1, <2>2
<1> QED
  BY <1>1, <1>2, <1>3, StartInv, ResumeInv, LoadInv DEF Next

LEMMA SpecInv == Spec => []Inv
<1>1. Inv /\ [Next]_vars => Inv'
  BY NextInv
<1> QED
  BY InitInv, <1>1, PTL DEF Spec, Safety

-----------------------------------------------------------------------------
\* The types, the count of bytes in memory, and one entry for a chunk, in every
\* execution and for every choice of reads, ranges, sizes and failures.
THEOREM MemoryIsAccounted == Spec => []MemoryAccounted
<1>1. Inv => MemoryAccounted
  BY DEF Inv, MemoryInv, MemoryAccounted, OneEach
<1> QED
  BY SpecInv, <1>1, PTL

\* Two loads of a chunk are never under way together.
THEOREM ChunksFetchedOnce == Spec => []NeverFetchedTwice
<1>1. Inv => NeverFetchedTwice
  BY DEF Inv
<1> QED
  BY SpecInv, <1>1, PTL

\* The persistent store fails no read, whatever it throws.
THEOREM StoreIsBestEffort == Spec => []StoreNeverFailsRead
<1>1. Inv => StoreNeverFailsRead
  BY DEF Inv
<1> QED
  BY SpecInv, <1>1, PTL

-----------------------------------------------------------------------------
(* The bytes of a read that is done.                                       *)

LEMMA SameSequence ==
  ASSUME NEW S, NEW p \in Seq(S), NEW q \in Seq(S), Len(p) = Len(q),
         \A k \in 1..Len(p) : p[k] = q[k]
  PROVE  p = q
OBVIOUS

\* The object's bytes from position x up to y.
Run(x, y) == [k \in 1..y - x |-> x + k - 1]

LEMMA RunType ==
  ASSUME NEW x \in Nat, NEW y \in Nat, x <= y
  PROVE  /\ Run(x, y) \in Seq(Nat) /\ Len(Run(x, y)) = y - x
         /\ \A k \in 1..y - x : Run(x, y)[k] = x + k - 1
BY DEF Run

LEMMA RunEmpty ==
  ASSUME NEW x \in Nat
  PROVE  Run(x, x) = <<>>
<1>1. Run(x, x) \in Seq(Nat) /\ Len(Run(x, x)) = 0
  BY RunType
<1> QED
  BY <1>1

LEMMA RunsJoin ==
  ASSUME NEW x \in Nat, NEW y \in Nat, NEW z \in Nat, x <= y, y <= z
  PROVE  Run(x, y) \o Run(y, z) = Run(x, z)
<1> DEFINE a == Run(x, y)
           b == Run(y, z)
           d == Run(x, z)
<1>1. /\ a \in Seq(Nat) /\ Len(a) = y - x /\ \A k \in 1..y - x : a[k] = x + k - 1
      /\ b \in Seq(Nat) /\ Len(b) = z - y /\ \A k \in 1..z - y : b[k] = y + k - 1
      /\ d \in Seq(Nat) /\ Len(d) = z - x /\ \A k \in 1..z - x : d[k] = x + k - 1
  <2> x <= z
    OBVIOUS
  <2> QED
    BY RunType
<1> HIDE DEF a, b, d
<1>2. a \o b \in Seq(Nat) /\ Len(a \o b) = z - x
      /\ \A k \in 1..z - x : (a \o b)[k] = IF k <= y - x THEN a[k] ELSE b[k - (y - x)]
  <2>1. a \o b \in Seq(Nat) /\ Len(a \o b) = Len(a) + Len(b)
        /\ \A k \in 1..Len(a) + Len(b) :
             (a \o b)[k] = IF k <= Len(a) THEN a[k] ELSE b[k - Len(a)]
    BY <1>1, ConcatProperties
  <2>2. Len(a) + Len(b) = z - x
    BY <1>1
  <2> QED
    BY <1>1, <2>1, <2>2
<1>3. ASSUME NEW k \in 1..z - x
      PROVE  (a \o b)[k] = d[k]
  <2>1. CASE k <= y - x
    BY <1>1, <1>2, <2>1
  <2>2. CASE ~(k <= y - x)
    <3>1. k - (y - x) \in 1..z - y /\ y + (k - (y - x)) - 1 = x + k - 1
      BY <2>2
    <3>2. b[k - (y - x)] = y + (k - (y - x)) - 1
      BY <1>1, <3>1
    <3> QED
      BY <1>1, <1>2, <2>2, <3>1, <3>2
  <2> QED
    BY <2>1, <2>2
<1>4. a \o b = d
  BY <1>1, <1>2, <1>3, SameSequence
<1> QED
  BY <1>4 DEF a, b, d

\* Where the bytes of the range w end that lie below chunk c.
EndBelow(w, c) ==
  LET all   == w[1] + w[2]
      below == IF c * ChunkSize < all THEN c * ChunkSize ELSE all
      there == IF FileSize < below THEN FileSize ELSE below
  IN IF there < w[1] THEN w[1] ELSE there

LEMMA PartIs ==
  ASSUME NEW w \in Nat \X Nat, NEW c \in Chunks, Exists(c),
         c * ChunkSize < w[1] + w[2], w[1] < (c + 1) * ChunkSize
  PROVE  /\ EndBelow(w, c) \in Nat /\ EndBelow(w, c + 1) \in Nat
         /\ w[1] <= EndBelow(w, c) /\ EndBelow(w, c) <= EndBelow(w, c + 1)
         /\ Part(Content(c), c, w) = Run(EndBelow(w, c), EndBelow(w, c + 1))
<1> DEFINE x == w[1]
           n == w[2]
           s == c * ChunkSize
           t == (c + 1) * ChunkSize
           b == Content(c)
           from == IF x > s THEN x - s ELSE 0
           to == IF x + n - s < Len(b) THEN x + n - s ELSE Len(b)
           lo == EndBelow(w, c)
           hi == EndBelow(w, c + 1)
<1>1. /\ x \in Nat /\ n \in Nat /\ s \in Nat /\ t \in Nat /\ t = s + ChunkSize
      /\ s < FileSize /\ FileSize \in Nat /\ ChunkSize \in Nat \ {0}
      /\ s < x + n /\ x < t
  BY ChunkAssumption DEF Exists
<1>2. /\ b \in Seq(Nat) /\ Len(b) = (IF t <= FileSize THEN ChunkSize ELSE FileSize - s)
      /\ \A k \in 1..Len(b) : b[k] = s + k - 1
  <2>1. b \in Seq(Nat) /\ Len(b) = SizeOf(c)
    BY ContentType
  <2>2. \A k \in 1..SizeOf(c) : b[k] = s + k - 1
    BY DEF Content
  <2>3. SizeOf(c) = IF t <= FileSize THEN ChunkSize ELSE FileSize - s
    BY DEF SizeOf
  <2> HIDE DEF b, s, t
  <2> QED
    BY <2>1, <2>2, <2>3
<1>3. /\ lo = (IF s < x THEN x ELSE s)
      /\ hi = LET below == IF t < x + n THEN t ELSE x + n
                  there == IF FileSize < below THEN FileSize ELSE below
              IN  IF there < x THEN x ELSE there
  <2>1. lo = LET below == IF s < x + n THEN s ELSE x + n
                 there == IF FileSize < below THEN FileSize ELSE below
             IN  IF there < x THEN x ELSE there
    BY DEF EndBelow
  <2>2. hi = LET below == IF t < x + n THEN t ELSE x + n
                 there == IF FileSize < below THEN FileSize ELSE below
             IN  IF there < x THEN x ELSE there
    BY DEF EndBelow
  <2> HIDE DEF lo, hi, x, n, s, t
  <2> QED
    BY <1>1, <2>1, <2>2
<1>4. Part(b, c, w) = IF to <= from THEN <<>> ELSE SubSeq(b, from + 1, to)
  BY DEF Part
<1> HIDE DEF lo, hi, x, n, s, t, b
<1>5. Len(b) \in Nat /\ Len(b) = (IF t <= FileSize THEN ChunkSize ELSE FileSize - s)
  BY <1>2
<1>6. lo \in Nat /\ hi \in Nat /\ x <= lo /\ lo <= hi
  BY <1>1, <1>3
<1>7. from \in Nat /\ to \in Int /\ to <= Len(b) /\ s + from = lo
  BY <1>1, <1>3, <1>5
<1>8. CASE to <= from
  <2>1. hi = lo
    BY <1>1, <1>3, <1>8, <1>5
  <2>2. Run(lo, hi) = <<>>
    BY <1>6, <2>1, RunType
  <2> QED
    BY <1>4, <1>6, <1>8, <2>2 DEF lo, hi, x, b
<1>9. CASE ~(to <= from)
  <2>1. hi = s + to /\ to - from = hi - lo
    BY <1>1, <1>3, <1>9, <1>5
  <2> HIDE DEF from, to
  <2>2. /\ SubSeq(b, from + 1, to) \in Seq(Nat) /\ Len(SubSeq(b, from + 1, to)) = to - from
        /\ \A k \in 1..to - from : SubSeq(b, from + 1, to)[k] = b[from + k]
    BY <1>2, <1>7, <1>9
  <2>3. /\ Run(lo, hi) \in Seq(Nat) /\ Len(Run(lo, hi)) = to - from
        /\ \A k \in 1..to - from : Run(lo, hi)[k] = lo + k - 1
    <3>1. /\ Run(lo, hi) \in Seq(Nat) /\ Len(Run(lo, hi)) = hi - lo
          /\ \A k \in 1..hi - lo : Run(lo, hi)[k] = lo + k - 1
      BY <1>6, RunType
    <3> QED
      BY <2>1, <3>1
  <2>4. ASSUME NEW k \in 1..to - from
        PROVE  SubSeq(b, from + 1, to)[k] = Run(lo, hi)[k]
    <3>1. from + k \in 1..Len(b)
      BY <1>2, <1>7, <1>9
    <3>2. b[from + k] = s + (from + k) - 1
      BY <1>2, <3>1
    <3>3. s + (from + k) - 1 = lo + k - 1
      BY <1>1, <1>7
    <3>4. SubSeq(b, from + 1, to)[k] = b[from + k] /\ Run(lo, hi)[k] = lo + k - 1
      BY <2>2, <2>3
    <3> QED
      BY <3>2, <3>3, <3>4
  <2>5. SubSeq(b, from + 1, to) = Run(lo, hi)
    BY <2>2, <2>3, <2>4, SameSequence
  <2> QED
    BY <1>4, <1>6, <1>9, <2>5 DEF lo, hi, x, b
<1> QED
  BY <1>8, <1>9

\* The chunks of a range, collected in order, write the bytes of the range that
\* the object has.
LEMMA WrittenIs ==
  ASSUME TypeOK, NEW r \in Reads, want[r][2] > 0,
         Collected(want[r], got[r], LastChunk(want[r]) - FirstChunk(want[r]) + 1)
  PROVE  LET w == want[r]
             x == w[1]
             all == IF FileSize < x + w[2] THEN FileSize ELSE x + w[2]
             y == IF all < x THEN x ELSE all
         IN Written(got[r], w) = Run(x, y)
<1> DEFINE w == want[r]
           x == w[1]
           n == w[2]
           g == got[r]
           first == FirstChunk(w)
           last == LastChunk(w)
           all == IF FileSize < x + n THEN FileSize ELSE x + n
           y == IF all < x THEN x ELSE all
           N == last - first + 1
           end(j) == IF j = 0 THEN x ELSE EndBelow(w, first + j)
           part(j) == Part(g[j], first + j - 1, w)
           isWritten(f) == f = [j \in 0..Len(g) |-> IF j = 0 THEN <<>> ELSE f[j - 1] \o part(j)]
           h == [j \in 0..Len(g) |-> Run(x, end(j))]
<1>1. /\ w \in Nat \X Nat /\ x \in Nat /\ n \in Nat /\ n > 0
      /\ first \in Nat /\ last \in Nat /\ first <= last /\ first..last \subseteq Chunks
      /\ ChunkSize \in Nat \ {0} /\ FileSize \in Nat
  <2>1. w \in Nat \X Nat
    BY DEF TypeOK
  <2>2. first \in Nat /\ last \in Int /\ first <= last /\ first..last \subseteq Chunks
    BY RangeFacts
  <2> QED
    BY <2>1, <2>2, ChunkAssumption
<1>2. /\ first * ChunkSize <= x /\ x < (first + 1) * ChunkSize
      /\ last * ChunkSize < x + n /\ x + n <= (last + 1) * ChunkSize
  <2>1. first = x \div ChunkSize /\ last = (x + n - 1) \div ChunkSize
    BY DEF FirstChunk, LastChunk
  <2> HIDE DEF first, last, x, n
  <2>2. first * ChunkSize <= x /\ x < (first + 1) * ChunkSize
    BY <1>1, <2>1
  <2>3. last * ChunkSize <= x + n - 1 /\ x + n - 1 < (last + 1) * ChunkSize
    BY <1>1, <2>1
  <2> QED
    BY <1>1, <2>2, <2>3
<1>3. /\ Len(g) = N /\ N \in Nat \ {0}
      /\ \A j \in 1..N : g[j] = Content(first + j - 1) /\ Exists(first + j - 1)
  BY <1>1 DEF Collected
<1> HIDE DEF w, first, last, g
<1>4. \A c \in first..last : c * ChunkSize < x + n /\ x < (c + 1) * ChunkSize
  <2> SUFFICES ASSUME NEW c \in first..last
               PROVE  c * ChunkSize < x + n /\ x < (c + 1) * ChunkSize
    OBVIOUS
  <2> c \in Nat /\ first <= c /\ c <= last
    BY <1>1
  <2>1. c * ChunkSize <= last * ChunkSize
    BY <1>1
  <2>2. (first + 1) * ChunkSize <= (c + 1) * ChunkSize
    BY <1>1
  <2> QED
    BY <1>1, <1>2, <2>1, <2>2
<1>5. ASSUME NEW j \in 1..N
      PROVE  /\ end(j - 1) \in Nat /\ end(j) \in Nat
             /\ x <= end(j - 1) /\ end(j - 1) <= end(j)
             /\ part(j) = Run(end(j - 1), end(j))
  <2> DEFINE c == first + j - 1
  <2>1. c \in first..last /\ c \in Chunks /\ c + 1 = first + j /\ Exists(c) /\ g[j] = Content(c)
    BY <1>1, <1>3
  <2>2. /\ EndBelow(w, c) \in Nat /\ EndBelow(w, c + 1) \in Nat
        /\ w[1] <= EndBelow(w, c) /\ EndBelow(w, c) <= EndBelow(w, c + 1)
        /\ Part(Content(c), c, w) = Run(EndBelow(w, c), EndBelow(w, c + 1))
    <3> HIDE DEF c
    <3> QED
      BY <1>1, <1>4, <2>1, PartIs
  <2>3. end(j) = EndBelow(w, c + 1)
    BY <2>1
  <2>4. end(j - 1) = EndBelow(w, c)
    <3>1. CASE j = 1
      <4>1. c = first /\ end(j - 1) = x
        BY <1>1, <3>1
      <4>2. first * ChunkSize \in Nat
        BY <1>1
      <4>3. EndBelow(w, first) = x
        BY <1>1, <1>2, <4>2 DEF EndBelow
      <4> QED
        BY <4>1, <4>3
    <3>2. CASE j # 1
      <4>1. first + (j - 1) = c /\ j - 1 # 0
        BY <1>1, <3>2
      <4> QED
        BY <4>1
    <3> QED
      BY <3>1, <3>2
  <2> QED
    BY <2>1, <2>2, <2>3, <2>4
<1>6. isWritten(h)
  <2>1. h[0] = <<>>
    <3>1. 0 \in 0..Len(g) /\ end(0) = x
      BY <1>3
    <3>2. Run(x, x) = <<>>
      BY <1>1, RunEmpty
    <3> HIDE DEF end
    <3> QED
      BY <3>1, <3>2
  <2>2. ASSUME NEW j \in 1..N
        PROVE  h[j] = h[j - 1] \o part(j)
    <3>1. j \in 0..Len(g) /\ j - 1 \in 0..Len(g)
      BY <1>3
    <3>2. h[j] = Run(x, end(j)) /\ h[j - 1] = Run(x, end(j - 1))
      BY <3>1
    <3> HIDE DEF end, part, h
    <3>3. /\ end(j - 1) \in Nat /\ end(j) \in Nat
          /\ x <= end(j - 1) /\ end(j - 1) <= end(j)
          /\ part(j) = Run(end(j - 1), end(j))
      BY <1>5
    <3>4. Run(x, end(j - 1)) \o Run(end(j - 1), end(j)) = Run(x, end(j))
      BY <1>1, <3>3, RunsJoin
    <3> QED
      BY <3>2, <3>3, <3>4
  <2>3. \A j \in 0..Len(g) : h[j] = IF j = 0 THEN <<>> ELSE h[j - 1] \o part(j)
    <3> SUFFICES ASSUME NEW j \in 0..Len(g)
                 PROVE  h[j] = IF j = 0 THEN <<>> ELSE h[j - 1] \o part(j)
      OBVIOUS
    <3>1. j # 0 => j \in 1..N
      BY <1>3
    <3> HIDE DEF h, part
    <3> QED
      BY <2>1, <2>2, <3>1
  <2>4. h = [j \in 0..Len(g) |-> h[j]]
    OBVIOUS
  <2> HIDE DEF h, part
  <2> QED
    BY <2>3, <2>4
<1> DEFINE upTo == CHOOSE f : isWritten(f)
<1>7. isWritten(upTo)
  <2> HIDE DEF isWritten, h
  <2> QED
    BY <1>6
<1>8. \A j \in 0..Len(g) : upTo[j] = IF j = 0 THEN <<>> ELSE upTo[j - 1] \o part(j)
  <2> HIDE DEF upTo, part
  <2> QED
    BY <1>7
<1>9. \A j \in 0..Len(g) : h[j] = IF j = 0 THEN <<>> ELSE h[j - 1] \o part(j)
  <2> HIDE DEF h, part
  <2> QED
    BY <1>6
<1> DEFINE P == {j \in 0..Len(g) : upTo[j] = h[j]}
<1>10. 0..Len(g) \subseteq P
  <2> HIDE DEF upTo, h, part, isWritten
  <2>1. 0 \in P
    BY <1>3, <1>8, <1>9
  <2>2. \A j \in 1..Len(g) : j - 1 \in P => j \in P
    BY <1>3, <1>8, <1>9
  <2> HIDE DEF P
  <2> QED
    BY <1>3, <2>1, <2>2, UpTo
<1>11. Written(g, w) = upTo[Len(g)]
  BY DEF Written, first
<1>12. upTo[Len(g)] = h[Len(g)]
  <2> HIDE DEF upTo, h
  <2> QED
    BY <1>3, <1>10
<1>13. h[Len(g)] = Run(x, end(N))
  BY <1>3
<1>14. end(N) = y
  <2>1. end(N) = EndBelow(w, last + 1)
    <3>1. first + N = last + 1 /\ N # 0
      BY <1>1, <1>3
    <3> QED
      BY <3>1
  <2>2. (last + 1) * ChunkSize \in Nat
    BY <1>1
  <2>3. EndBelow(w, last + 1) = y
    BY <1>1, <1>2, <2>2 DEF EndBelow
  <2> QED
    BY <2>1, <2>3
<1> HIDE DEF upTo, h, end
<1> QED
  BY <1>11, <1>12, <1>13, <1>14 DEF w, g

\* A read that is done returns the bytes of its range, each in its place.
THEOREM BytesAreExact == Spec => []ExactBytes
<1>1. Inv => ExactBytes
  <2> SUFFICES ASSUME Inv, NEW r \in Reads, pc[r] = "done"
               PROVE  Assemble(got[r], want[r]) =
                        [k \in 1..want[r][2] |->
                           IF want[r][1] + k - 1 < FileSize THEN want[r][1] + k - 1 ELSE Zero]
    BY DEF ExactBytes
  <2> DEFINE x == want[r][1]
             n == want[r][2]
             all == IF FileSize < x + n THEN FileSize ELSE x + n
             y == IF all < x THEN x ELSE all
             b == Written(got[r], want[r])
  <2>1. x \in Nat /\ n \in Nat /\ FileSize \in Nat
    BY RangeFacts, ChunkAssumption DEF Inv
  <2>2. CASE n = 0
    BY <2>2 DEF Assemble
  <2>3. CASE n > 0
    <3>1. Collected(want[r], got[r], LastChunk(want[r]) - FirstChunk(want[r]) + 1)
      BY <2>3 DEF Inv, Progress, Holds
    <3>2. b = Run(x, y)
      BY <2>3, <3>1, WrittenIs DEF Inv
    <3>3. Assemble(got[r], want[r]) = [k \in 1..n |-> IF k <= Len(b) THEN b[k] ELSE Zero]
      BY DEF Assemble
    <3> HIDE DEF b, x, n
    <3>4. /\ y \in Nat /\ Len(b) = y - x /\ \A k \in 1..y - x : b[k] = x + k - 1
      <4>1. y \in Nat /\ x <= y
        BY <2>1
      <4> HIDE DEF y
      <4> QED
        BY <2>1, <3>2, <4>1, RunType
    <3>5. \A k \in 1..n : (k <= Len(b) <=> x + k - 1 < FileSize)
                          /\ (k <= Len(b) => b[k] = x + k - 1)
      BY <2>1, <3>4
    <3>6. [k \in 1..n |-> IF k <= Len(b) THEN b[k] ELSE Zero] =
            [k \in 1..n |-> IF x + k - 1 < FileSize THEN x + k - 1 ELSE Zero]
      BY <3>5
    <3> QED
      BY <3>3, <3>6 DEF x, n
  <2> QED
    BY <2>1, <2>2, <2>3
<1> QED
  BY SpecInv, <1>1, PTL

=============================================================================
