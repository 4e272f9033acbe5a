--------------------------- MODULE TileReadsProofs ---------------------------
(***************************************************************************)
(* Proofs about TileReads: what merging, its binary search and the cutting *)
(* out of tiles compute, whatever the ranges; that what is requested is    *)
(* sound; and that every call gets the pixels of its own tiles.            *)
(***************************************************************************)
EXTENDS TileReads, FiniteSetTheorems, SequenceTheorems, TLAPS

-----------------------------------------------------------------------------
(* Induction and recursion.                                                *)

\* Every set of naturals that is not empty has a least element.
LEMMA LeastNat ==
  ASSUME NEW S \in SUBSET Nat, S # {}
  PROVE  \E m \in S : \A k \in S : m <= k
<1> DEFINE F == {0..n - 1 : n \in S}
           R == StrictSubsetOrdering(Nat)
<1>1. IsWellFoundedOn(R, FiniteSubsetsOf(Nat))
  BY FS_StrictSubsetOrderingWellFounded
<1>2. F \subseteq FiniteSubsetsOf(Nat)
  <2> SUFFICES ASSUME NEW n \in S PROVE 0..n - 1 \in FiniteSubsetsOf(Nat)
    OBVIOUS
  <2>1. n \in Nat /\ 0 \in Int /\ n - 1 \in Int
    OBVIOUS
  <2>2. IsFiniteSet(0..n - 1)
    BY <2>1, FS_Interval
  <2>3. 0..n - 1 \in SUBSET Nat
    OBVIOUS
  <2> QED
    BY <2>2, <2>3 DEF FiniteSubsetsOf
<1>3. F # {}
  OBVIOUS
<1>4. PICK T \in F : \A U \in F : <<U, T>> \notin R
  <2> HIDE DEF F, R
  <2> QED
    BY <1>1, <1>2, <1>3, WFMin
<1>5. PICK m \in S : T = 0..m - 1
  OBVIOUS
<1>6. ASSUME NEW k \in S, k < m PROVE FALSE
  <2>1. 0..k - 1 \subseteq 0..m - 1 /\ k \in 0..m - 1 /\ k \notin 0..k - 1
    BY <1>6
  <2>2. <<0..k - 1, 0..m - 1>> \in R
    BY <2>1 DEF StrictSubsetOrdering
  <2> QED
    BY <2>2, <1>4, <1>5
<1> QED
  BY <1>6

\* Induction up to a bound, for a property given by the set of those that have it.
LEMMA UpTo ==
  ASSUME NEW m \in Nat, NEW P, 0 \in P, \A n \in 1..m : n - 1 \in P => n \in P
  PROVE  0..m \subseteq P
<1> SUFFICES ASSUME (0..m) \ P # {} PROVE FALSE
  OBVIOUS
<1> DEFINE S == (0..m) \ P
<1>1. S \in SUBSET Nat /\ S # {}
  OBVIOUS
<1>2. PICK n \in S : \A k \in S : n <= k
  <2> HIDE DEF S
  <2> QED
    BY <1>1, LeastNat
<1> QED
  BY <1>2

\* f is defined by recursion up to m, from base by steps within S.
Recurses(f, m, S, base, step) ==
  /\ f \in [0..m -> S]
  /\ f[0] = base
  /\ \A n \in 1..m : f[n] = step[n][f[n - 1]]

\* There is such a function.
LEMMA Recursion ==
  ASSUME NEW m \in Nat, NEW S, NEW base \in S, NEW step \in [1..m -> [S -> S]]
  PROVE  \E f : Recurses(f, m, S, base, step)
<1> DEFINE upTo(k, f) == /\ f \in [0..k -> S]
                         /\ f[0] = base
                         /\ \A n \in 1..k : f[n] = step[n][f[n - 1]]
           P == {k \in 0..m : \E f : upTo(k, f)}
<1>1. 0 \in P
  <2>1. upTo(0, [n \in 0..0 |-> base])
    OBVIOUS
  <2> HIDE DEF upTo
  <2> QED
    BY <2>1
<1>2. \A k \in 1..m : k - 1 \in P => k \in P
  <2> SUFFICES ASSUME NEW k \in 1..m, k - 1 \in P PROVE k \in P
    OBVIOUS
  <2>1. PICK f : upTo(k - 1, f)
    OBVIOUS
  <2> DEFINE g == [n \in 0..k |-> IF n = k THEN step[k][f[k - 1]] ELSE f[n]]
  <2>2. upTo(k, g)
    <3>1. f[k - 1] \in S /\ step[k] \in [S -> S]
      BY <2>1
    <3>2. g \in [0..k -> S] /\ g[0] = base
      BY <2>1, <3>1
    <3>3. \A n \in 1..k : g[n] = step[n][g[n - 1]]
      BY <2>1
    <3> QED
      BY <3>2, <3>3
  <2> HIDE DEF upTo, g
  <2> QED
    BY <2>2
<1>3. 0..m \subseteq P
  <2> HIDE DEF P
  <2> QED
    BY <1>1, <1>2, UpTo
<1>4. PICK f : upTo(m, f)
  BY <1>3
<1> QED
  BY <1>4 DEF Recurses

-----------------------------------------------------------------------------
(* Filtering, sorting and merging, a range at a time.                      *)

Ranged == Seq(ByteRange)

LEMMA RealIs ==
  ASSUME NEW ranges \in Ranged
  PROVE  \E kept \in [0..Len(ranges) -> Ranged] :
           /\ kept[0] = <<>>
           /\ \A n \in 1..Len(ranges) :
                kept[n] = IF Sparse(ranges[n]) THEN kept[n - 1] ELSE Append(kept[n - 1], ranges[n])
           /\ Real(ranges) = kept[Len(ranges)]
<1> DEFINE m == Len(ranges)
           more(n, s) == IF Sparse(ranges[n]) THEN s ELSE Append(s, ranges[n])
           step == [n \in 1..m |-> [s \in Ranged |-> more(n, s)]]
           isKept(g) == g = [n \in 0..m |-> IF n = 0 THEN <<>> ELSE more(n, g[n - 1])]
           kept == CHOOSE g : isKept(g)
<1>1. m \in Nat /\ <<>> \in Ranged
  BY DEF Ranged
<1>2. step \in [1..m -> [Ranged -> Ranged]]
  BY DEF Ranged
<1>3. PICK f : Recurses(f, m, Ranged, <<>>, step)
  <2> HIDE DEF m, step
  <2> QED
    BY <1>1, <1>2, Recursion
<1>4. /\ f \in [0..m -> Ranged]
      /\ f[0] = <<>>
      /\ \A n \in 1..m : f[n] = more(n, f[n - 1])
  <2>1. f \in [0..m -> Ranged] /\ f[0] = <<>>
    BY <1>3 DEF Recurses
  <2> SUFFICES ASSUME NEW n \in 1..m PROVE f[n] = more(n, f[n - 1])
    BY <2>1
  <2>2. f[n - 1] \in Ranged
    BY <1>1, <2>1
  <2>3. step[n] = [s \in Ranged |-> more(n, s)]
    OBVIOUS
  <2>4. f[n] = step[n][f[n - 1]]
    BY <1>3 DEF Recurses
  <2> HIDE DEF step, more
  <2> QED
    BY <2>2, <2>3, <2>4
<1>5. isKept(f)
  <2> HIDE DEF m, more
  <2> QED
    BY <1>1, <1>4
<1>6. isKept(kept)
  <2> HIDE DEF isKept
  <2> QED
    BY <1>5
<1>7. kept[0] = <<>> /\ \A n \in 1..m : kept[n] = more(n, kept[n - 1])
  <2> HIDE DEF kept, more, m
  <2> QED
    BY <1>1, <1>6
<1> DEFINE P == {n \in 0..m : kept[n] = f[n]}
<1>8. 0..m \subseteq P
  <2>1. 0 \in P
    <3> HIDE DEF kept, more, m
    <3> QED
      BY <1>1, <1>4, <1>7
  <2>2. \A n \in 1..m : n - 1 \in P => n \in P
    <3> HIDE DEF kept, more, m
    <3> QED
      BY <1>1, <1>4, <1>7
  <2> HIDE DEF P
  <2> QED
    BY <1>1, <2>1, <2>2, UpTo
<1>9. Real(ranges) = kept[m]
  BY DEF Real
<1>10. f[m] = kept[m]
  BY <1>8, <1>1
<1> HIDE DEF kept
<1> QED
  BY <1>4, <1>7, <1>8, <1>9, <1>10

\* A sequence with one more element holds that element and the former ones.
LEMMA AppendedSet ==
  ASSUME NEW S, NEW s \in Seq(S), NEW e \in S
  PROVE  ToSet(Append(s, e)) = ToSet(s) \cup {e}
<1>1. Len(s) \in Nat /\ DOMAIN s = 1..Len(s)
  OBVIOUS
<1>2. DOMAIN Append(s, e) = 1..(Len(s) + 1)
  OBVIOUS
<1>3. /\ \A i \in 1..Len(s) : Append(s, e)[i] = s[i]
      /\ Append(s, e)[Len(s) + 1] = e
  OBVIOUS
<1>4. ToSet(Append(s, e)) \subseteq ToSet(s) \cup {e}
  <2> SUFFICES ASSUME NEW i \in 1..(Len(s) + 1) PROVE Append(s, e)[i] \in ToSet(s) \cup {e}
    BY <1>2 DEF ToSet
  <2>1. CASE i = Len(s) + 1
    BY <2>1, <1>3
  <2>2. CASE i \in 1..Len(s)
    BY <2>2, <1>1, <1>3 DEF ToSet
  <2> QED
    BY <1>1, <2>1, <2>2
<1>5. ToSet(s) \cup {e} \subseteq ToSet(Append(s, e))
  <2>1. e \in ToSet(Append(s, e))
    BY <1>1, <1>2, <1>3 DEF ToSet
  <2>2. ASSUME NEW i \in 1..Len(s) PROVE s[i] \in ToSet(Append(s, e))
    <3>1. i \in 1..(Len(s) + 1)
      BY <1>1
    <3> QED
      BY <3>1, <1>2, <1>3 DEF ToSet
  <2> QED
    BY <2>1, <2>2, <1>1 DEF ToSet
<1> QED
  BY <1>4, <1>5

\* The filter keeps the ranges that are in the file, and them alone.
LEMMA RealFacts ==
  ASSUME NEW ranges \in Ranged
  PROVE  /\ Real(ranges) \in Ranged
         /\ ToSet(Real(ranges)) = {r \in ToSet(ranges) : ~Sparse(r)}
<1> DEFINE m == Len(ranges)
           seen(n) == {ranges[i] : i \in {j \in 1..n : ~Sparse(ranges[j])}}
<1>1. PICK kept \in [0..m -> Ranged] :
        /\ kept[0] = <<>>
        /\ \A n \in 1..m :
             kept[n] = IF Sparse(ranges[n]) THEN kept[n - 1] ELSE Append(kept[n - 1], ranges[n])
        /\ Real(ranges) = kept[m]
  BY RealIs
<1>2. m \in Nat /\ DOMAIN ranges = 1..m /\ \A n \in 1..m : ranges[n] \in ByteRange
  BY DEF Ranged
<1> DEFINE P == {n \in 0..m : ToSet(kept[n]) = seen(n)}
<1>3. 0 \in P
  <2>1. ToSet(<<>>) = {}
    BY DEF ToSet
  <2>2. seen(0) = {}
    OBVIOUS
  <2>3. ToSet(kept[0]) = seen(0)
    BY <1>1, <2>1, <2>2
  <2> HIDE DEF seen, m
  <2> QED
    BY <1>2, <2>3
<1>4. \A n \in 1..m : n - 1 \in P => n \in P
  <2> SUFFICES ASSUME NEW n \in 1..m, n - 1 \in P PROVE ToSet(kept[n]) = seen(n)
    <3> HIDE DEF seen, m
    <3> QED
      BY <1>2
  <2>1. ToSet(kept[n - 1]) = seen(n - 1) /\ kept[n - 1] \in Ranged
    BY <1>1, <1>2
  <2>2. CASE Sparse(ranges[n])
    <3>1. seen(n) = seen(n - 1)
      <4>1. {j \in 1..n : ~Sparse(ranges[j])} = {j \in 1..(n - 1) : ~Sparse(ranges[j])}
        BY <2>2, <1>2
      <4> QED
        BY <4>1
    <3> HIDE DEF seen
    <3> QED
      BY <3>1, <2>1, <2>2, <1>1
  <2>3. CASE ~Sparse(ranges[n])
    <3>1. seen(n) = seen(n - 1) \cup {ranges[n]}
      <4>1. {j \in 1..n : ~Sparse(ranges[j])} = {j \in 1..(n - 1) : ~Sparse(ranges[j])} \cup {n}
        BY <2>3, <1>2
      <4> QED
        BY <4>1
    <3>2. ToSet(Append(kept[n - 1], ranges[n])) = ToSet(kept[n - 1]) \cup {ranges[n]}
      BY <2>1, <1>2, AppendedSet DEF Ranged
    <3> HIDE DEF seen
    <3> QED
      BY <3>1, <3>2, <2>1, <2>3, <1>1
  <2> QED
    BY <2>2, <2>3
<1>5. 0..m \subseteq P
  <2> HIDE DEF P
  <2> QED
    BY <1>2, <1>3, <1>4, UpTo
<1>6. ToSet(Real(ranges)) = seen(m)
  <2> HIDE DEF seen
  <2> QED
    BY <1>1, <1>2, <1>5
<1>7. seen(m) = {r \in ToSet(ranges) : ~Sparse(r)}
  BY <1>2 DEF ToSet
<1> QED
  BY <1>1, <1>2, <1>6, <1>7

\* Ranges in the order of their offsets.
Ordered(s) == \A i, k \in 1..Len(s) : i <= k => s[i].offset <= s[k].offset

\* Insertion keeps the order and adds the one range.
LEMMA InsertedFacts ==
  ASSUME NEW s \in Ranged, Ordered(s), NEW r \in ByteRange
  PROVE  /\ Inserted(s, r) \in Ranged
         /\ Len(Inserted(s, r)) = Len(s) + 1
         /\ Ordered(Inserted(s, r))
         /\ ToSet(Inserted(s, r)) = ToSet(s) \cup {r}
<1> DEFINE t == Inserted(s, r)
           n == Len(s)
<1>1. n \in Nat /\ DOMAIN s = 1..n /\ (\A i \in 1..n : s[i] \in ByteRange /\ s[i].offset \in Nat) /\ r.offset \in Nat
  <2>1. n \in Nat /\ DOMAIN s = 1..n /\ \A i \in 1..n : s[i] \in ByteRange
    BY DEF Ranged
  <2>2. \A x \in ByteRange : x.offset \in Nat
    BY DEF ByteRange
  <2> QED
    BY <2>1, <2>2
<1>2. \A i \in 1..(n + 1) :
        t[i] = IF i <= n /\ s[i].offset <= r.offset THEN s[i]
               ELSE IF i = 1 \/ s[i - 1].offset <= r.offset THEN r ELSE s[i - 1]
  BY DEF Inserted
<1>3. \A i \in 1..(n + 1) : t[i] \in ByteRange
  BY <1>1, <1>2
<1>4. t \in Ranged /\ Len(t) = n + 1
  <2>1. t = [i \in 1..(n + 1) |-> t[i]]
    BY DEF Inserted
  <2> HIDE DEF t, n
  <2> QED
    BY <2>1, <1>1, <1>3 DEF Ranged
<1>5. Ordered(t)
  <2> SUFFICES ASSUME NEW i \in 1..(n + 1), NEW k \in 1..(n + 1), i <= k PROVE t[i].offset <= t[k].offset
    BY <1>4 DEF Ordered
  <2>1. \A x, y \in 1..n : x <= y => s[x].offset <= s[y].offset
    BY DEF Ordered
  <2> HIDE DEF t, n
  <2>2. CASE i = k
    BY <2>2, <1>3, <1>1 DEF ByteRange
  <2>3. CASE i < k
    <3>1. i \in 1..n /\ k - 1 \in 1..n /\ i <= k - 1
      BY <2>3, <1>1
    <3>2. CASE s[i].offset <= r.offset
      <4>1. t[i] = s[i]
        BY <3>1, <3>2, <1>2
      <4>2. t[k] \in {r, s[k - 1]} \/ (k \in 1..n /\ t[k] = s[k])
        BY <1>1, <1>2
      <4>3. CASE t[k] = r
        BY <4>1, <4>3, <3>2
      <4>4. CASE t[k] = s[k - 1]
        BY <4>1, <4>4, <3>1, <2>1
      <4>5. CASE k \in 1..n /\ t[k] = s[k]
        BY <4>1, <4>5, <3>1, <2>1, <2>3
      <4> QED
        BY <4>2, <4>3, <4>4, <4>5
    <3>3. CASE s[i].offset > r.offset
      <4>1. s[i].offset <= s[k - 1].offset
        BY <3>1, <2>1
      <4>2. s[k - 1].offset > r.offset /\ (k \in 1..n => s[k].offset > r.offset)
        <5>1. k \in 1..n => s[i].offset <= s[k].offset
          BY <3>1, <2>1, <2>3
        <5> QED
          BY <4>1, <5>1, <3>1, <3>3, <1>1
      <4>3. t[k] = s[k - 1]
        BY <4>2, <3>1, <1>1, <1>2
      <4>4. t[i] = r \/ (i - 1 \in 1..n /\ t[i] = s[i - 1])
        BY <3>1, <3>3, <1>1, <1>2
      <4>5. CASE t[i] = r
        BY <4>2, <4>3, <4>5, <1>1, <3>1
      <4>6. CASE i - 1 \in 1..n /\ t[i] = s[i - 1]
        BY <4>3, <4>6, <3>1, <2>1
      <4> QED
        BY <4>4, <4>5, <4>6
    <3> QED
      BY <3>1, <3>2, <3>3, <1>1
  <2> QED
    BY <2>2, <2>3, <1>1
<1>6. ToSet(t) \subseteq ToSet(s) \cup {r}
  <2> SUFFICES ASSUME NEW i \in 1..(n + 1) PROVE t[i] \in ToSet(s) \cup {r}
    <3>1. DOMAIN t = 1..(n + 1)
      BY <1>4 DEF Ranged
    <3> QED
      BY <3>1 DEF ToSet
  <2>1. t[i] = r \/ (\E k \in 1..n : t[i] = s[k])
    <3> HIDE DEF t, n
    <3> QED
      BY <1>1, <1>2
  <2> QED
    BY <2>1, <1>1 DEF ToSet
<1>7. \A i \in 1..(n + 1) : t[i] \in ToSet(t)
  BY <1>4 DEF ToSet, Ranged
<1>8. r \in ToSet(t)
  <2> DEFINE after == {i \in 1..(n + 1) : i = n + 1 \/ s[i].offset > r.offset}
  <2>1. after \in SUBSET Nat /\ n + 1 \in after
    BY <1>1
  <2>2. PICK i \in after : \A k \in after : i <= k
    <3> HIDE DEF after
    <3> QED
      BY <2>1, LeastNat
  <2>3. i = 1 \/ (i - 1 \in 1..n /\ s[i - 1].offset <= r.offset)
    BY <2>2, <1>1
  <2>4. t[i] = r
    BY <2>2, <2>3, <1>1, <1>2
  <2> QED
    BY <2>4, <1>7
<1>9. ToSet(s) \subseteq ToSet(t)
  <2> SUFFICES ASSUME NEW i \in 1..n PROVE s[i] \in ToSet(t)
    BY <1>1 DEF ToSet
  <2>1. CASE s[i].offset <= r.offset
    BY <2>1, <1>1, <1>2, <1>7
  <2>2. CASE s[i].offset > r.offset
    <3>1. i + 1 \in 1..n => s[i + 1].offset > r.offset
      BY <2>2, <1>1 DEF Ordered
    <3>2. i + 1 \in 1..(n + 1) /\ i + 1 # 1
      BY <1>1
    <3>3. t[i + 1] = s[i]
      BY <3>1, <3>2, <2>2, <1>1, <1>2
    <3> QED
      BY <3>2, <3>3, <1>7
  <2> QED
    BY <2>1, <2>2, <1>1
<1> QED
  BY <1>4, <1>5, <1>6, <1>8, <1>9

Sorts == {s \in Ranged : Ordered(s)}

\* Sorting, one range after the other.
LEMMA SortedIs ==
  ASSUME NEW ranges \in Ranged
  PROVE  \E sorted \in [0..Len(ranges) -> Sorts] :
           /\ sorted[0] = <<>>
           /\ \A n \in 1..Len(ranges) : sorted[n] = Inserted(sorted[n - 1], ranges[n])
           /\ Sorted(ranges) = sorted[Len(ranges)]
<1> DEFINE m == Len(ranges)
           more(n, s) == Inserted(s, ranges[n])
           step == [n \in 1..m |-> [s \in Sorts |-> more(n, s)]]
           isOne(g) == g = [n \in 0..m |-> IF n = 0 THEN <<>> ELSE more(n, g[n - 1])]
           sorted == CHOOSE g : isOne(g)
<1>1. m \in Nat /\ <<>> \in Sorts
  BY DEF Ranged, Sorts, Ordered
<1>2. step \in [1..m -> [Sorts -> Sorts]]
  <2> SUFFICES ASSUME NEW n \in 1..m, NEW s \in Sorts PROVE Inserted(s, ranges[n]) \in Sorts
    OBVIOUS
  <2>1. ranges[n] \in ByteRange
    BY DEF Ranged
  <2> QED
    BY <2>1, InsertedFacts DEF Sorts
<1>3. PICK f : Recurses(f, m, Sorts, <<>>, step)
  <2> HIDE DEF m, step
  <2> QED
    BY <1>1, <1>2, Recursion
<1>4. /\ f \in [0..m -> Sorts]
      /\ f[0] = <<>>
      /\ \A n \in 1..m : f[n] = more(n, f[n - 1])
  <2>1. f \in [0..m -> Sorts] /\ f[0] = <<>>
    BY <1>3 DEF Recurses
  <2> SUFFICES ASSUME NEW n \in 1..m PROVE f[n] = more(n, f[n - 1])
    BY <2>1
  <2>2. f[n - 1] \in Sorts
    BY <1>1, <2>1
  <2>3. step[n] = [s \in Sorts |-> more(n, s)]
    OBVIOUS
  <2>4. f[n] = step[n][f[n - 1]]
    BY <1>3 DEF Recurses
  <2> HIDE DEF step, more
  <2> QED
    BY <2>2, <2>3, <2>4
<1>5. isOne(f)
  <2> HIDE DEF m, more
  <2> QED
    BY <1>1, <1>4
<1>6. isOne(sorted)
  <2> HIDE DEF isOne
  <2> QED
    BY <1>5
<1>7. sorted[0] = <<>> /\ \A n \in 1..m : sorted[n] = more(n, sorted[n - 1])
  <2> HIDE DEF sorted, more, m
  <2> QED
    BY <1>1, <1>6
<1>8. sorted \in [0..m -> Sorts]
  <2> DEFINE P == {n \in 0..m : sorted[n] = f[n]}
  <2>1. 0 \in P
    <3> HIDE DEF sorted, more, m
    <3> QED
      BY <1>1, <1>4, <1>7
  <2>2. \A n \in 1..m : n - 1 \in P => n \in P
    <3> HIDE DEF sorted, more, m
    <3> QED
      BY <1>1, <1>4, <1>7
  <2>3. 0..m \subseteq P
    <3> HIDE DEF P
    <3> QED
      BY <1>1, <2>1, <2>2, UpTo
  <2> HIDE DEF more
  <2> QED
    BY <2>3, <1>4, <1>6
<1>9. Sorted(ranges) = sorted[m]
  BY DEF Sorted
<1> HIDE DEF sorted
<1> QED
  BY <1>7, <1>8, <1>9

\* Sorting orders the ranges, and loses and adds none.
LEMMA SortedFacts ==
  ASSUME NEW ranges \in Ranged
  PROVE  /\ Sorted(ranges) \in Ranged
         /\ Len(Sorted(ranges)) = Len(ranges)
         /\ Ordered(Sorted(ranges))
         /\ ToSet(Sorted(ranges)) = ToSet(ranges)
<1> DEFINE m == Len(ranges)
           seen(n) == {ranges[i] : i \in 1..n}
<1>1. PICK sorted \in [0..m -> Sorts] :
        /\ sorted[0] = <<>>
        /\ \A n \in 1..m : sorted[n] = Inserted(sorted[n - 1], ranges[n])
        /\ Sorted(ranges) = sorted[m]
  BY SortedIs
<1>2. m \in Nat /\ DOMAIN ranges = 1..m /\ \A n \in 1..m : ranges[n] \in ByteRange
  BY DEF Ranged
<1> DEFINE P == {n \in 0..m : Len(sorted[n]) = n /\ ToSet(sorted[n]) = seen(n)}
<1>3. 0 \in P
  <2>1. Len(<<>>) = 0 /\ ToSet(<<>>) = {} /\ seen(0) = {}
    BY DEF ToSet
  <2>2. Len(sorted[0]) = 0 /\ ToSet(sorted[0]) = seen(0)
    BY <1>1, <2>1
  <2> HIDE DEF seen, m
  <2> QED
    BY <1>2, <2>2
<1>4. \A n \in 1..m : n - 1 \in P => n \in P
  <2> SUFFICES ASSUME NEW n \in 1..m, n - 1 \in P PROVE Len(sorted[n]) = n /\ ToSet(sorted[n]) = seen(n)
    <3> HIDE DEF seen, m
    <3> QED
      BY <1>2
  <2>1. Len(sorted[n - 1]) = n - 1 /\ ToSet(sorted[n - 1]) = seen(n - 1)
    BY <1>2
  <2>2. sorted[n - 1] \in Ranged /\ Ordered(sorted[n - 1]) /\ ranges[n] \in ByteRange
    <3>1. sorted[n - 1] \in Sorts
      BY <1>1, <1>2
    <3> QED
      BY <3>1, <1>2 DEF Sorts
  <2>3. /\ Len(Inserted(sorted[n - 1], ranges[n])) = Len(sorted[n - 1]) + 1
        /\ ToSet(Inserted(sorted[n - 1], ranges[n])) = ToSet(sorted[n - 1]) \cup {ranges[n]}
    BY <2>2, InsertedFacts
  <2>4. seen(n) = seen(n - 1) \cup {ranges[n]}
    <3>1. 1..n = 1..(n - 1) \cup {n}
      BY <1>2
    <3> QED
      BY <3>1
  <2> HIDE DEF seen
  <2> QED
    BY <1>1, <1>2, <2>1, <2>3, <2>4
<1>5. 0..m \subseteq P
  <2> HIDE DEF P
  <2> QED
    BY <1>2, <1>3, <1>4, UpTo
<1>6. Len(sorted[m]) = m /\ ToSet(sorted[m]) = seen(m)
  <2> HIDE DEF seen
  <2> QED
    BY <1>2, <1>5
<1>7. seen(m) = ToSet(ranges)
  BY <1>2 DEF ToSet
<1>8. sorted[m] \in Sorts
  BY <1>1, <1>2
<1> QED
  BY <1>1, <1>6, <1>7, <1>8 DEF Sorts

\* What one turn of merging does: the last group grows, or there is one more.
LEMMA AddRangeIs ==
  ASSUME NEW groups \in Ranged, NEW r \in ByteRange
  PROVE  /\ AddRange(groups, r) \in Ranged
         /\ \/ /\ groups # <<>>
               /\ r.offset - End(groups[Len(groups)]) <= Coalesce
               /\ Later(End(groups[Len(groups)]), End(r)) - groups[Len(groups)].offset <= MaxRange
               /\ Len(AddRange(groups, r)) = Len(groups)
               /\ \A g \in 1..(Len(groups) - 1) : AddRange(groups, r)[g] = groups[g]
               /\ AddRange(groups, r)[Len(groups)].offset = groups[Len(groups)].offset
               /\ End(AddRange(groups, r)[Len(groups)]) = Later(End(groups[Len(groups)]), End(r))
               /\ AddRange(groups, r)[Len(groups)].length <= MaxRange
            \/ /\ \/ groups = <<>>
                  \/ r.offset - End(groups[Len(groups)]) > Coalesce
                  \/ Later(End(groups[Len(groups)]), End(r)) - groups[Len(groups)].offset > MaxRange
               /\ AddRange(groups, r) = Append(groups, r)
<1> DEFINE n == Len(groups)
           last == groups[n]
           end == Later(End(last), End(r))
           grown == [last EXCEPT !.length = end - last.offset]
           joins == /\ groups # <<>>
                    /\ r.offset - End(last) <= Coalesce
                    /\ end - last.offset <= MaxRange
           added == AddRange(groups, r)
<1>1. AddRange(groups, r) = IF joins THEN [groups EXCEPT ![n] = grown] ELSE Append(groups, r)
  BY DEF AddRange, Last, ReplaceAt
<1>2. {Coalesce, MaxRange} \subseteq Nat
  BY TileReadsAssumption
<1>3. CASE joins
  <2>1. n \in Nat /\ n >= 1 /\ DOMAIN groups = 1..n /\ last \in ByteRange
    BY <1>3 DEF Ranged
  <2>2. /\ last.offset \in Nat /\ last.length \in Nat /\ r.offset \in Nat /\ r.length \in Nat
        /\ last = [offset |-> last.offset, length |-> last.length]
    BY <2>1 DEF ByteRange
  <2>3. end \in Nat /\ end >= End(last) /\ End(last) = last.offset + last.length
    BY <2>2 DEF Later, End
  <2>4. grown = [offset |-> last.offset, length |-> end - last.offset]
    <3> HIDE DEF last, end
    <3> QED
      BY <2>2
  <2>5. end - last.offset \in Nat
    <3> HIDE DEF last, end
    <3> QED
      BY <2>2, <2>3
  <2>6. grown \in ByteRange /\ grown.offset = last.offset /\ grown.length = end - last.offset
    <3> HIDE DEF last, end, grown
    <3> QED
      BY <2>2, <2>4, <2>5 DEF ByteRange
  <2>7. End(grown) = end
    <3> HIDE DEF last, end, grown
    <3> QED
      BY <2>2, <2>3, <2>6 DEF End
  <2> DEFINE joined == [groups EXCEPT ![n] = grown]
  <2>8. joined \in Ranged /\ Len(joined) = n /\ joined[n] = grown /\ \A g \in 1..(n - 1) : joined[g] = groups[g]
    <3>1. joined = [g \in 1..n |-> IF g = n THEN grown ELSE groups[g]]
      BY <2>1
    <3>2. \A g \in 1..n : groups[g] \in ByteRange
      BY DEF Ranged
    <3> HIDE DEF grown, last, n, joined
    <3>3. joined \in [1..n -> ByteRange] /\ joined[n] = grown /\ \A g \in 1..(n - 1) : joined[g] = groups[g]
      BY <2>1, <2>6, <3>1, <3>2
    <3>4. joined \in Seq(ByteRange) /\ Len(joined) = n
      BY <2>1, <3>3
    <3> QED
      BY <3>3, <3>4 DEF Ranged
  <2>9. AddRange(groups, r) = joined
    BY <1>1, <1>3
  <2> HIDE DEF joined, grown
  <2> QED
    BY <1>3, <2>6, <2>7, <2>8, <2>9
<1>4. CASE ~joins
  <2>1. AddRange(groups, r) = Append(groups, r) /\ Append(groups, r) \in Ranged
    BY <1>1, <1>4 DEF Ranged
  <2>2. \/ groups = <<>>
        \/ r.offset - End(last) > Coalesce
        \/ end - last.offset > MaxRange
    <3>1. CASE groups = <<>>
      BY <3>1
    <3>2. CASE groups # <<>>
      <4>1. last \in ByteRange
        BY <3>2 DEF Ranged
      <4>2. /\ last.offset \in Nat /\ r.offset \in Nat /\ End(last) \in Nat /\ End(r) \in Nat
        BY <4>1 DEF ByteRange, End
      <4>3. end \in Nat
        <5> HIDE DEF last
        <5> QED
          BY <4>2 DEF Later
      <4> HIDE DEF last, end
      <4> QED
        BY <1>2, <1>4, <3>2, <4>2, <4>3
    <3> QED
      BY <3>1, <3>2
  <2> QED
    BY <2>1, <2>2
<1> QED
  BY <1>3, <1>4

\* Merging, one range after the other.
LEMMA MergedIs ==
  ASSUME NEW ranges \in Ranged
  PROVE  \E merged \in [0..Len(ranges) -> Ranged] :
           /\ merged[0] = <<>>
           /\ \A n \in 1..Len(ranges) : merged[n] = AddRange(merged[n - 1], Sorted(ranges)[n])
           /\ mergeRanges(ranges) = merged[Len(ranges)]
<1> DEFINE m == Len(ranges)
           more(n, s) == AddRange(s, Sorted(ranges)[n])
           step == [n \in 1..m |-> [s \in Ranged |-> more(n, s)]]
           isOne(g) == g = [n \in 0..m |-> IF n = 0 THEN <<>> ELSE more(n, g[n - 1])]
           merged == CHOOSE g : isOne(g)
<1>1. m \in Nat /\ <<>> \in Ranged
  BY DEF Ranged
<1>2. step \in [1..m -> [Ranged -> Ranged]]
  <2> SUFFICES ASSUME NEW n \in 1..m, NEW s \in Ranged PROVE AddRange(s, Sorted(ranges)[n]) \in Ranged
    OBVIOUS
  <2>1. Sorted(ranges) \in Ranged /\ Len(Sorted(ranges)) = m
    BY SortedFacts
  <2>2. Sorted(ranges)[n] \in ByteRange
    BY <2>1 DEF Ranged
  <2> QED
    BY <2>2, AddRangeIs
<1>3. PICK f : Recurses(f, m, Ranged, <<>>, step)
  <2> HIDE DEF m, step
  <2> QED
    BY <1>1, <1>2, Recursion
<1>4. /\ f \in [0..m -> Ranged]
      /\ f[0] = <<>>
      /\ \A n \in 1..m : f[n] = more(n, f[n - 1])
  <2>1. f \in [0..m -> Ranged] /\ f[0] = <<>>
    BY <1>3 DEF Recurses
  <2> SUFFICES ASSUME NEW n \in 1..m PROVE f[n] = more(n, f[n - 1])
    BY <2>1
  <2>2. f[n - 1] \in Ranged
    BY <1>1, <2>1
  <2>3. step[n] = [s \in Ranged |-> more(n, s)]
    OBVIOUS
  <2>4. f[n] = step[n][f[n - 1]]
    BY <1>3 DEF Recurses
  <2> HIDE DEF step, more
  <2> QED
    BY <2>2, <2>3, <2>4
<1>5. isOne(f)
  <2> HIDE DEF m, more
  <2> QED
    BY <1>1, <1>4
<1>6. isOne(merged)
  <2> HIDE DEF isOne
  <2> QED
    BY <1>5
<1>7. merged[0] = <<>> /\ \A n \in 1..m : merged[n] = more(n, merged[n - 1])
  <2> HIDE DEF merged, more, m
  <2> QED
    BY <1>1, <1>6
<1>8. merged \in [0..m -> Ranged]
  <2> DEFINE P == {n \in 0..m : merged[n] = f[n]}
  <2>1. 0 \in P
    <3> HIDE DEF merged, more, m
    <3> QED
      BY <1>1, <1>4, <1>7
  <2>2. \A n \in 1..m : n - 1 \in P => n \in P
    <3> HIDE DEF merged, more, m
    <3> QED
      BY <1>1, <1>4, <1>7
  <2>3. 0..m \subseteq P
    <3> HIDE DEF P
    <3> QED
      BY <1>1, <2>1, <2>2, UpTo
  <2> HIDE DEF more
  <2> QED
    BY <2>3, <1>4, <1>6
<1>9. mergeRanges(ranges) = merged[m]
  BY DEF mergeRanges
<1> HIDE DEF merged
<1> QED
  BY <1>7, <1>8, <1>9

-----------------------------------------------------------------------------
(* What merging computes.                                                  *)

\* Ranges that begin at one place are one.
Alike(s) == \A i, k \in 1..Len(s) : s[i].offset = s[k].offset => s[i] = s[k]

\* A group is no longer than allowed, or is one range.
SizedGroups(groups, s, n) ==
  \A g \in 1..Len(groups) : groups[g].length <= MaxRange \/ \E i \in 1..n : s[i] = groups[g]

\* A group begins where a range does, which the group before could not take.
PartedGroups(groups, s, n) ==
  \A g \in 2..Len(groups) :
    \/ groups[g].offset - End(groups[g - 1]) > Coalesce
    \/ \E i \in 1..n :
         /\ s[i].offset = groups[g].offset
         /\ Later(End(groups[g - 1]), End(s[i])) - groups[g - 1].offset > MaxRange

\* A range ends within the last group that does not begin after it.
CoveringGroups(groups, s, n) ==
  \A i \in 1..n : \A g \in 1..Len(groups) :
    /\ groups[g].offset <= s[i].offset
    /\ g = Len(groups) \/ groups[g + 1].offset > s[i].offset
    => End(s[i]) <= End(groups[g])

\* The groups of the first n ranges of s.
Grouped(groups, s, n) ==
  /\ groups \in Ranged
  /\ n = 0 => groups = <<>>
  /\ n > 0 => /\ Len(groups) >= 1
              /\ groups[1].offset = s[1].offset
              /\ groups[Len(groups)].offset <= s[n].offset
  /\ Ordered(groups)
  /\ SizedGroups(groups, s, n)
  /\ PartedGroups(groups, s, n)
  /\ CoveringGroups(groups, s, n)

LEMMA AddRangeGroups ==
  ASSUME NEW s \in Ranged, Ordered(s), Alike(s), NEW n \in 1..Len(s),
         NEW groups, Grouped(groups, s, n - 1)
  PROVE  Grouped(AddRange(groups, s[n]), s, n)
<1> DEFINE r == s[n]
           len == Len(groups)
           added == AddRange(groups, r)
           last == groups[len]
<1>1. /\ groups \in Ranged /\ len \in Nat
      /\ \A g \in 1..len : groups[g] \in ByteRange
      /\ Len(s) \in Nat /\ \A i \in 1..Len(s) : s[i] \in ByteRange
  BY DEF Grouped, Ranged
<1>2. \A x \in ByteRange : x.offset \in Nat /\ x.length \in Nat /\ End(x) = x.offset + x.length /\ End(x) \in Nat
  BY DEF ByteRange, End
<1>3. r \in ByteRange /\ \A i \in 1..n : s[i] \in ByteRange /\ s[i].offset <= r.offset
  BY <1>1 DEF Ordered
<1>4. groups # <<>> => n > 1 /\ len >= 1 /\ groups[1].offset = s[1].offset /\ last.offset <= r.offset
  <2> SUFFICES ASSUME groups # <<>>
               PROVE  n > 1 /\ len >= 1 /\ groups[1].offset = s[1].offset /\ last.offset <= r.offset
    OBVIOUS
  <2>1. n > 1
    BY DEF Grouped
  <2>2. len >= 1 /\ groups[1].offset = s[1].offset /\ last.offset <= s[n - 1].offset
    BY <2>1 DEF Grouped
  <2>3. s[n - 1] \in ByteRange /\ s[n - 1].offset <= r.offset
    BY <1>3, <2>1
  <2>4. last \in ByteRange
    BY <1>1, <2>2
  <2>5. last.offset \in Nat /\ s[n - 1].offset \in Nat /\ r.offset \in Nat
    BY ONLY <2>3, <2>4, <1>2, <1>3
  <2> HIDE DEF last, r, len
  <2> QED
    BY ONLY <2>1, <2>2, <2>3, <2>5
<1>5. groups = <<>> => n = 1 /\ len = 0
  BY <1>1 DEF Grouped
<1>6. \A i, k \in 1..len : i <= k => groups[i].offset <= groups[k].offset
  BY DEF Grouped, Ordered
<1>7. CASE /\ groups # <<>>
           /\ Later(End(last), End(r)) - last.offset <= MaxRange
           /\ added \in Ranged
           /\ Len(added) = len
           /\ \A g \in 1..(len - 1) : added[g] = groups[g]
           /\ added[len].offset = last.offset
           /\ End(added[len]) = Later(End(last), End(r))
           /\ added[len].length <= MaxRange
  <2>1. /\ last \in ByteRange /\ added[len] \in ByteRange
        /\ \A g \in 1..len : added[g] \in ByteRange /\ added[g].offset = groups[g].offset
    <3>1. \A g \in 1..len : added[g] \in ByteRange
      BY <1>7 DEF Ranged
    <3> HIDE DEF added
    <3> QED
      BY <3>1, <1>1, <1>4, <1>7
  <2>2. End(added[len]) >= End(last) /\ End(added[len]) >= End(r)
    BY <2>1, <1>2, <1>3, <1>7 DEF Later
  <2> HIDE DEF added
  <2>3. Ordered(added)
    <3>1. \A i, k \in 1..len : i <= k => groups[i].offset <= groups[k].offset
      BY DEF Grouped, Ordered
    <3> HIDE DEF len
    <3> QED
      BY <2>1, <3>1, <1>7 DEF Ordered
  <2>4. SizedGroups(added, s, n)
    <3> SUFFICES ASSUME NEW g \in 1..len
                 PROVE  added[g].length <= MaxRange \/ \E i \in 1..n : s[i] = added[g]
      BY <1>7 DEF SizedGroups
    <3>1. CASE g = len
      BY <3>1, <1>7
    <3>2. CASE g \in 1..(len - 1)
      <4>1. groups[g].length <= MaxRange \/ \E i \in 1..(n - 1) : s[i] = groups[g]
        BY DEF Grouped, SizedGroups
      <4>2. 1..(n - 1) \subseteq 1..n
        BY <1>1
      <4> QED
        BY <3>2, <4>1, <4>2, <1>7
    <3> QED
      BY <3>1, <3>2, <1>1
  <2>5. PartedGroups(added, s, n)
    <3> SUFFICES ASSUME NEW g \in 2..len
                 PROVE  \/ added[g].offset - End(added[g - 1]) > Coalesce
                        \/ \E i \in 1..n :
                             /\ s[i].offset = added[g].offset
                             /\ Later(End(added[g - 1]), End(s[i])) - added[g - 1].offset > MaxRange
      BY <1>7 DEF PartedGroups
    <3>1. \/ groups[g].offset - End(groups[g - 1]) > Coalesce
          \/ \E i \in 1..(n - 1) :
               /\ s[i].offset = groups[g].offset
               /\ Later(End(groups[g - 1]), End(s[i])) - groups[g - 1].offset > MaxRange
      BY DEF Grouped, PartedGroups
    <3>2. added[g - 1] = groups[g - 1] /\ added[g].offset = groups[g].offset
      BY <1>1, <1>7, <2>1
    <3>3. 1..(n - 1) \subseteq 1..n
      BY <1>1
    <3> QED
      BY <3>1, <3>2, <3>3
  <2>6. CoveringGroups(added, s, n)
    <3> SUFFICES ASSUME NEW i \in 1..n, NEW g \in 1..len,
                        added[g].offset <= s[i].offset,
                        g = len \/ added[g + 1].offset > s[i].offset
                 PROVE  End(s[i]) <= End(added[g])
      BY <1>7 DEF CoveringGroups
    <3>1. groups[g].offset <= s[i].offset /\ (g = len \/ groups[g + 1].offset > s[i].offset)
      BY <1>1, <2>1
    <3>2. CASE i \in 1..(n - 1)
      <4>1. End(s[i]) <= End(groups[g])
        BY <3>1, <3>2 DEF Grouped, CoveringGroups
      <4>2. CASE g = len
        BY <4>1, <4>2, <2>1, <2>2, <1>2, <1>3
      <4>3. CASE g \in 1..(len - 1)
        BY <4>1, <4>3, <1>7
      <4> QED
        BY <4>2, <4>3, <1>1
    <3>3. CASE i = n
      <4>1. CASE g = len
        BY <4>1, <3>3, <2>2
      <4>2. CASE g \in 1..(len - 1)
        <5>1. groups[g + 1].offset <= last.offset
          <6>1. g + 1 \in 1..len /\ len \in 1..len /\ g + 1 <= len
            BY <4>2, <1>1
          <6> HIDE DEF len
          <6> QED
            BY <6>1, <1>6
        <5>2. groups[g + 1] \in ByteRange /\ groups[g + 1].offset > r.offset
          BY <3>1, <3>3, <4>2, <1>1
        <5>3. last.offset <= r.offset /\ last.offset \in Nat /\ r.offset \in Nat
          BY <1>2, <1>3, <1>4, <1>7, <2>1
        <5>4. groups[g + 1].offset \in Nat
          BY <5>2, <1>2
        <5> HIDE DEF r, len, last
        <5> QED
          BY <5>1, <5>2, <5>3, <5>4
      <4> QED
        BY <4>1, <4>2, <1>1
    <3> QED
      BY <3>2, <3>3
  <2>7. len >= 1 /\ added[1].offset = s[1].offset /\ added[len].offset <= s[n].offset
    <3>1. 1 \in 1..len
      BY <1>1, <1>4, <1>7
    <3> QED
      BY <3>1, <1>4, <1>7, <2>1
  <2>8. Grouped(added, s, n)
    BY <1>7, <2>3, <2>4, <2>5, <2>6, <2>7 DEF Grouped
  <2> QED
    BY <2>8 DEF added
<1>8. CASE /\ \/ groups = <<>>
              \/ r.offset - End(last) > Coalesce
              \/ Later(End(last), End(r)) - last.offset > MaxRange
           /\ added \in Ranged
           /\ added = Append(groups, r)
  <2>1. /\ Len(added) = len + 1 /\ added[len + 1] = r
        /\ \A g \in 1..len : added[g] = groups[g]
    BY <1>1, <1>3, <1>8 DEF Ranged
  <2> HIDE DEF added
  <2>2. Ordered(added)
    <3> SUFFICES ASSUME NEW i \in 1..(len + 1), NEW k \in 1..(len + 1), i <= k
                 PROVE  added[i].offset <= added[k].offset
      BY <2>1 DEF Ordered
    <3>1. \A x, y \in 1..len : x <= y => groups[x].offset <= groups[y].offset
      BY DEF Grouped, Ordered
    <3>2. CASE k \in 1..len
      BY <3>1, <3>2, <2>1, <1>1
    <3>3. CASE k = len + 1 /\ i \in 1..len
      <4>1. groups[i].offset <= last.offset /\ last \in ByteRange /\ groups[i] \in ByteRange /\ groups # <<>>
        BY <3>1, <3>3, <1>1, <1>5
      <4>2. last.offset <= r.offset /\ added[i] = groups[i] /\ added[k] = r
        BY <4>1, <3>3, <2>1, <1>4
      <4>3. groups[i].offset \in Nat /\ last.offset \in Nat /\ r.offset \in Nat
        BY <4>1, <1>2, <1>3
      <4> HIDE DEF last, r
      <4> QED
        BY ONLY <4>1, <4>2, <4>3
    <3>4. CASE k = len + 1 /\ i = len + 1
      BY <3>4, <2>1, <1>2, <1>3
    <3> QED
      BY <3>2, <3>3, <3>4, <1>1
  <2>3. SizedGroups(added, s, n)
    <3> SUFFICES ASSUME NEW g \in 1..(len + 1)
                 PROVE  added[g].length <= MaxRange \/ \E i \in 1..n : s[i] = added[g]
      BY <2>1 DEF SizedGroups
    <3>1. CASE g = len + 1
      BY <3>1, <2>1
    <3>2. CASE g \in 1..len
      <4>1. groups[g].length <= MaxRange \/ \E i \in 1..(n - 1) : s[i] = groups[g]
        BY <3>2 DEF Grouped, SizedGroups
      <4>2. 1..(n - 1) \subseteq 1..n
        BY <1>1
      <4> QED
        BY <3>2, <4>1, <4>2, <2>1
    <3>3. len \in Nat
      BY <1>1
    <3> HIDE DEF len
    <3>4. g = len + 1 \/ g \in 1..len
      BY ONLY <3>3, g \in 1..(len + 1)
    <3> QED
      BY ONLY <3>1, <3>2, <3>4
  <2>4. PartedGroups(added, s, n)
    <3> SUFFICES ASSUME NEW g \in 2..(len + 1)
                 PROVE  \/ added[g].offset - End(added[g - 1]) > Coalesce
                        \/ \E i \in 1..n :
                             /\ s[i].offset = added[g].offset
                             /\ Later(End(added[g - 1]), End(s[i])) - added[g - 1].offset > MaxRange
      BY <2>1 DEF PartedGroups
    <3>1. CASE g = len + 1
      <4>1. g - 1 = len /\ len \in 1..len /\ groups # <<>>
        BY <3>1, <1>1, <1>5
      <4>2. added[g] = r /\ added[g - 1] = last
        BY <3>1, <4>1, <2>1
      <4> QED
        BY <4>1, <4>2, <1>8
    <3>2. CASE g \in 2..len
      <4>1. \/ groups[g].offset - End(groups[g - 1]) > Coalesce
            \/ \E i \in 1..(n - 1) :
                 /\ s[i].offset = groups[g].offset
                 /\ Later(End(groups[g - 1]), End(s[i])) - groups[g - 1].offset > MaxRange
        BY <3>2 DEF Grouped, PartedGroups
      <4>2. added[g - 1] = groups[g - 1] /\ added[g] = groups[g]
        BY <3>2, <1>1, <2>1
      <4>3. 1..(n - 1) \subseteq 1..n
        BY <1>1
      <4> QED
        BY <4>1, <4>2, <4>3
    <3> QED
      BY <3>1, <3>2, <1>1
  <2>5. CoveringGroups(added, s, n)
    <3> SUFFICES ASSUME NEW i \in 1..n, NEW g \in 1..(len + 1),
                        added[g].offset <= s[i].offset,
                        g = len + 1 \/ added[g + 1].offset > s[i].offset
                 PROVE  End(s[i]) <= End(added[g])
      BY <2>1 DEF CoveringGroups
    <3>1. s[i] \in ByteRange /\ s[i].offset <= r.offset
      BY <1>3
    <3>2. CASE g = len + 1
      <4>1. s[i].offset = r.offset
        BY <3>1, <3>2, <2>1, <1>2, <1>3
      <4>2. s[i] = r
        BY <4>1, <1>1 DEF Alike
      <4> QED
        BY <4>2, <3>2, <2>1, <1>2, <1>3
    <3>3. CASE g \in 1..len
      <4>1. CASE i = n
        <5>1. added[g + 1].offset > r.offset
          BY <3>3, <4>1, <1>1
        <5>2. g + 1 \in 1..(len + 1) /\ added[g + 1].offset <= added[len + 1].offset
          BY <2>1, <2>2, <3>3, <1>1 DEF Ordered
        <5>3. added[g + 1] \in ByteRange
          BY <5>2, <1>8, <2>1 DEF Ranged
        <5>4. /\ added[len + 1].offset = r.offset
              /\ added[g + 1].offset \in Nat /\ r.offset \in Nat
          BY <5>3, <2>1, <1>2, <1>3
        <5> HIDE DEF r, len
        <5> QED
          BY ONLY <5>1, <5>2, <5>4
      <4>2. CASE i \in 1..(n - 1)
        <5>1. groups[g].offset <= s[i].offset /\ (g = len \/ groups[g + 1].offset > s[i].offset)
          BY <3>3, <2>1, <1>1
        <5>2. End(s[i]) <= End(groups[g])
          BY <5>1, <4>2, <3>3 DEF Grouped, CoveringGroups
        <5> QED
          BY <5>2, <3>3, <2>1
      <4> QED
        BY <4>1, <4>2, <1>1
    <3> QED
      BY <3>2, <3>3, <1>1
  <2>6. /\ len + 1 >= 1 /\ added[1].offset = s[1].offset /\ added[len + 1].offset <= s[n].offset
    <3>1. added[len + 1].offset <= s[n].offset
      BY <2>1, <1>2, <1>3
    <3>2. CASE groups = <<>>
      BY <3>1, <3>2, <1>5, <2>1
    <3>3. CASE groups # <<>>
      BY <3>1, <3>3, <1>1, <1>4, <2>1
    <3> QED
      BY <3>2, <3>3
  <2>7. Grouped(added, s, n)
    BY <1>8, <2>1, <2>2, <2>3, <2>4, <2>5, <2>6, <1>1 DEF Grouped
  <2> QED
    BY <2>7 DEF added
<1>9. added \in Ranged
  BY <1>1, <1>3, AddRangeIs
<1> QED
  <2>1. \/ /\ groups # <<>>
           /\ Later(End(last), End(r)) - last.offset <= MaxRange
           /\ Len(added) = len
           /\ \A g \in 1..(len - 1) : added[g] = groups[g]
           /\ added[len].offset = last.offset
           /\ End(added[len]) = Later(End(last), End(r))
           /\ added[len].length <= MaxRange
        \/ /\ \/ groups = <<>>
              \/ r.offset - End(last) > Coalesce
              \/ Later(End(last), End(r)) - last.offset > MaxRange
           /\ added = Append(groups, r)
    BY <1>1, <1>3, AddRangeIs
  <2> QED
    BY <2>1, <1>7, <1>8, <1>9

\* Merging groups all the ranges.
LEMMA MergeFacts ==
  ASSUME NEW ranges \in Ranged,
         \A r, q \in ToSet(ranges) : r.offset = q.offset => r = q
  PROVE  /\ Sorted(ranges) \in Ranged
         /\ Len(Sorted(ranges)) = Len(ranges)
         /\ ToSet(Sorted(ranges)) = ToSet(ranges)
         /\ Ordered(Sorted(ranges))
         /\ Grouped(mergeRanges(ranges), Sorted(ranges), Len(ranges))
<1> DEFINE m == Len(ranges)
           s == Sorted(ranges)
<1>1. s \in Ranged /\ Len(s) = m /\ Ordered(s) /\ ToSet(s) = ToSet(ranges)
  BY SortedFacts
<1>2. Alike(s)
  <2>1. \A i \in 1..Len(s) : s[i] \in ToSet(ranges)
    <3>1. DOMAIN s = 1..Len(s)
      BY <1>1 DEF Ranged
    <3>2. \A i \in DOMAIN s : s[i] \in ToSet(s)
      BY DEF ToSet
    <3> HIDE DEF s
    <3> QED
      BY <3>1, <3>2, <1>1
  <2> QED
    BY <2>1 DEF Alike
<1>3. PICK merged \in [0..m -> Ranged] :
        /\ merged[0] = <<>>
        /\ \A n \in 1..m : merged[n] = AddRange(merged[n - 1], s[n])
        /\ mergeRanges(ranges) = merged[m]
  BY MergedIs
<1>4. m \in Nat
  BY DEF Ranged
<1> DEFINE P == {n \in 0..m : Grouped(merged[n], s, n)}
<1>5. 0 \in P
  <2>1. Grouped(<<>>, s, 0)
    <3>1. <<>> \in Ranged /\ Len(<<>>) = 0
      BY DEF Ranged
    <3> QED
      BY <3>1 DEF Grouped, Ordered, SizedGroups, PartedGroups, CoveringGroups
  <2>2. Grouped(merged[0], s, 0)
    BY <2>1, <1>3
  <2> HIDE DEF m, s
  <2> QED
    BY <2>2, <1>4
<1>6. \A n \in 1..m : n - 1 \in P => n \in P
  <2> SUFFICES ASSUME NEW n \in 1..m, n - 1 \in P PROVE Grouped(merged[n], s, n)
    <3> HIDE DEF m, s
    <3> QED
      BY <1>4
  <2>1. Grouped(merged[n - 1], s, n - 1)
    OBVIOUS
  <2> HIDE DEF m, s
  <2>2. Grouped(AddRange(merged[n - 1], s[n]), s, n)
    BY <2>1, <1>1, <1>2, AddRangeGroups
  <2> QED
    BY <2>2, <1>3
<1>7. 0..m \subseteq P
  <2> HIDE DEF P
  <2> QED
    BY <1>4, <1>5, <1>6, UpTo
<1>8. Grouped(merged[m], s, m)
  BY <1>4, <1>7
<1> QED
  BY <1>1, <1>3, <1>8

-----------------------------------------------------------------------------
(* The binary search.                                                      *)

\* Where it may be after some turns: the last group that does not begin after
\* target, if there is one, is between lo and hi.
Between(groups, target) ==
  {at \in [lo : 1..Len(groups), hi : 1..Len(groups)] :
     /\ at.lo <= at.hi
     /\ groups[1].offset <= target => groups[at.lo].offset <= target
     /\ at.hi = Len(groups) \/ groups[at.hi + 1].offset > target}

\* A turn keeps it so, and comes nearer.
LEMMA HalvedFacts ==
  ASSUME NEW groups \in Ranged, NEW target \in Nat, NEW at \in Between(groups, target)
  PROVE  /\ Halved(groups, target, at) \in Between(groups, target)
         /\ LET next == Halved(groups, target, at)
            IN next.lo = next.hi \/ next.hi - next.lo < at.hi - at.lo
<1> DEFINE mid == (at.lo + at.hi + 1) \div 2
           next == Halved(groups, target, at)
<1>1. /\ Len(groups) \in Nat /\ \A g \in 1..Len(groups) : groups[g] \in ByteRange /\ groups[g].offset \in Nat
      /\ at \in [lo : 1..Len(groups), hi : 1..Len(groups)] /\ at.lo <= at.hi
  <2>1. Len(groups) \in Nat /\ \A g \in 1..Len(groups) : groups[g] \in ByteRange
    BY DEF Ranged
  <2>2. \A x \in ByteRange : x.offset \in Nat
    BY DEF ByteRange
  <2> QED
    BY <2>1, <2>2 DEF Between
<1>2. CASE at.lo >= at.hi
  BY <1>1, <1>2 DEF Halved
<1>3. CASE at.lo < at.hi
  <2>1. mid \in 1..Len(groups) /\ at.lo < mid /\ mid <= at.hi
    BY <1>1, <1>3
  <2>2. CASE groups[mid].offset <= target
    <3>1. next = [lo |-> mid, hi |-> at.hi]
      BY <1>1, <1>3, <2>2 DEF Halved
    <3> HIDE DEF next, mid
    <3> QED
      BY <1>1, <1>3, <2>1, <2>2, <3>1 DEF Between, next
  <2>3. CASE groups[mid].offset > target
    <3>1. next = [lo |-> at.lo, hi |-> mid - 1]
      BY <1>1, <1>3, <2>1, <2>3 DEF Halved
    <3>2. mid - 1 \in 1..Len(groups) /\ mid - 1 + 1 = mid /\ at.lo <= mid - 1
      BY <1>1, <2>1
    <3> HIDE DEF next, mid
    <3> QED
      BY <1>1, <1>3, <2>1, <2>3, <3>1, <3>2 DEF Between, next
  <2> QED
    BY <2>1, <2>2, <2>3, <1>1
<1> QED
  BY <1>1, <1>2, <1>3

\* The turns of the search.
LEMMA TurnsAre ==
  ASSUME NEW groups \in Ranged, groups # <<>>, NEW target \in Nat
  PROVE  \E turn \in [0..Len(groups) -> Between(groups, target)] :
           /\ turn[0] = [lo |-> 1, hi |-> Len(groups)]
           /\ \A n \in 1..Len(groups) : turn[n] = Halved(groups, target, turn[n - 1])
           /\ findGroupIndex(groups, target) = turn[Len(groups)].lo
<1> DEFINE m == Len(groups)
           more(n, s) == Halved(groups, target, s)
           step == [n \in 1..m |-> [s \in Between(groups, target) |-> more(n, s)]]
           isOne(g) == g = [n \in 0..m |-> IF n = 0 THEN [lo |-> 1, hi |-> Len(groups)] ELSE more(n, g[n - 1])]
           turn == CHOOSE g : isOne(g)
<1>1. m \in Nat /\ [lo |-> 1, hi |-> Len(groups)] \in Between(groups, target)
  BY DEF Ranged, Between
<1>2. step \in [1..m -> [Between(groups, target) -> Between(groups, target)]]
  BY HalvedFacts
<1>3. PICK f : Recurses(f, m, Between(groups, target), [lo |-> 1, hi |-> Len(groups)], step)
  <2> HIDE DEF m, step
  <2> QED
    BY <1>1, <1>2, Recursion
<1>4. /\ f \in [0..m -> Between(groups, target)]
      /\ f[0] = [lo |-> 1, hi |-> Len(groups)]
      /\ \A n \in 1..m : f[n] = more(n, f[n - 1])
  <2>1. f \in [0..m -> Between(groups, target)] /\ f[0] = [lo |-> 1, hi |-> Len(groups)]
    BY <1>3 DEF Recurses
  <2> SUFFICES ASSUME NEW n \in 1..m PROVE f[n] = more(n, f[n - 1])
    BY <2>1
  <2>2. f[n - 1] \in Between(groups, target)
    BY <1>1, <2>1
  <2>3. step[n] = [s \in Between(groups, target) |-> more(n, s)]
    OBVIOUS
  <2>4. f[n] = step[n][f[n - 1]]
    BY <1>3 DEF Recurses
  <2> HIDE DEF step, more
  <2> QED
    BY <2>2, <2>3, <2>4
<1>5. isOne(f)
  <2> HIDE DEF m, more
  <2> QED
    BY <1>1, <1>4
<1>6. isOne(turn)
  <2> HIDE DEF isOne
  <2> QED
    BY <1>5
<1>7. turn[0] = [lo |-> 1, hi |-> Len(groups)] /\ \A n \in 1..m : turn[n] = more(n, turn[n - 1])
  <2> HIDE DEF turn, more, m
  <2> QED
    BY <1>1, <1>6
<1>8. turn \in [0..m -> Between(groups, target)]
  <2> DEFINE P == {n \in 0..m : turn[n] = f[n]}
  <2>1. 0 \in P
    <3> HIDE DEF turn, more, m
    <3> QED
      BY <1>1, <1>4, <1>7
  <2>2. \A n \in 1..m : n - 1 \in P => n \in P
    <3> HIDE DEF turn, more, m
    <3> QED
      BY <1>1, <1>4, <1>7
  <2>3. 0..m \subseteq P
    <3> HIDE DEF P
    <3> QED
      BY <1>1, <2>1, <2>2, UpTo
  <2> HIDE DEF more
  <2> QED
    BY <2>3, <1>4, <1>6
<1>9. findGroupIndex(groups, target) = turn[m].lo
  BY DEF findGroupIndex
<1> HIDE DEF turn
<1> QED
  BY <1>7, <1>8, <1>9

\* The search finds the last group that does not begin after target.
LEMMA FindFacts ==
  ASSUME NEW groups \in Ranged, groups # <<>>, NEW target \in Nat
  PROVE  /\ findGroupIndex(groups, target) \in 1..Len(groups)
         /\ groups[1].offset <= target =>
              LET g == findGroupIndex(groups, target)
              IN /\ groups[g].offset <= target
                 /\ g = Len(groups) \/ groups[g + 1].offset > target
<1> DEFINE m == Len(groups)
<1>1. m \in Nat /\ m >= 1
  BY DEF Ranged
<1>2. PICK turn \in [0..m -> Between(groups, target)] :
        /\ turn[0] = [lo |-> 1, hi |-> m]
        /\ \A n \in 1..m : turn[n] = Halved(groups, target, turn[n - 1])
        /\ findGroupIndex(groups, target) = turn[m].lo
  BY TurnsAre
<1>3. \A at \in Between(groups, target) : at.lo \in 1..m /\ at.hi \in 1..m /\ at.lo <= at.hi
  BY DEF Between
<1> DEFINE P == {n \in 0..m : turn[n].lo = turn[n].hi \/ turn[n].hi - turn[n].lo <= m - 1 - n}
<1>4. 0 \in P
  <2>1. turn[0].lo = 1 /\ turn[0].hi = m
    BY <1>2
  <2> HIDE DEF m
  <2> QED
    BY <1>1, <2>1
<1>5. \A n \in 1..m : n - 1 \in P => n \in P
  <2> SUFFICES ASSUME NEW n \in 1..m, n - 1 \in P
               PROVE  turn[n].lo = turn[n].hi \/ turn[n].hi - turn[n].lo <= m - 1 - n
    <3> HIDE DEF m
    <3> QED
      BY <1>1
  <2> DEFINE at == turn[n - 1]
             next == turn[n]
  <2>1. at \in Between(groups, target) /\ next = Halved(groups, target, at) /\ next \in Between(groups, target)
    <3>1. n - 1 \in 0..m /\ n \in 0..m
      BY <1>1
    <3> HIDE DEF m
    <3> QED
      BY <3>1, <1>2
  <2>2. at.lo = at.hi \/ at.hi - at.lo <= m - 1 - (n - 1)
    <3> HIDE DEF m
    <3> QED
      OBVIOUS
  <2>3. next.lo = next.hi \/ next.hi - next.lo < at.hi - at.lo
    <3> HIDE DEF at, next
    <3> QED
      BY <2>1, HalvedFacts
  <2>4. /\ at.lo \in 1..m /\ at.hi \in 1..m /\ at.lo <= at.hi
        /\ next.lo \in 1..m /\ next.hi \in 1..m /\ next.lo <= next.hi
    BY <2>1, <1>3
  <2> HIDE DEF at, next, m
  <2>5. next.lo = next.hi \/ next.hi - next.lo <= m - 1 - n
    BY <2>2, <2>3, <2>4, <1>1
  <2> QED
    BY <2>5 DEF next
<1>6. 0..m \subseteq P
  <2> HIDE DEF P
  <2> QED
    BY <1>1, <1>4, <1>5, UpTo
<1> DEFINE at == turn[m]
<1>7. at \in Between(groups, target)
  <2> HIDE DEF m
  <2> QED
    BY <1>1, <1>2
<1>8. at.lo = at.hi \/ at.hi - at.lo <= m - 1 - m
  <2> HIDE DEF m
  <2> QED
    BY <1>1, <1>6
<1>9. at.lo = at.hi
  <2>1. at.lo \in 1..m /\ at.hi \in 1..m /\ at.lo <= at.hi
    BY <1>3, <1>7
  <2> HIDE DEF m, at
  <2> QED
    BY <2>1, <1>1, <1>8
<1>10. findGroupIndex(groups, target) = at.lo
  BY <1>2
<1> HIDE DEF at
<1> QED
  BY <1>3, <1>7, <1>9, <1>10 DEF Between

\* Every range is found in a group it lies in.
LEMMA RangesFound ==
  ASSUME NEW ranges \in Ranged,
         \A r, q \in ToSet(ranges) : r.offset = q.offset => r = q,
         NEW r \in ToSet(ranges)
  PROVE  LET groups == mergeRanges(ranges)
             g == findGroupIndex(groups, r.offset)
         IN /\ groups # <<>>
            /\ g \in 1..Len(groups)
            /\ groups[g].offset <= r.offset
            /\ End(r) <= End(groups[g])
<1> DEFINE groups == mergeRanges(ranges)
           s == Sorted(ranges)
           n == Len(ranges)
           g == findGroupIndex(groups, r.offset)
<1>1. /\ s \in Ranged /\ Len(s) = n /\ ToSet(s) = ToSet(ranges) /\ Ordered(s)
      /\ Grouped(groups, s, n)
  BY MergeFacts
<1>2. PICK i \in 1..n : s[i] = r
  <2>1. DOMAIN s = 1..n
    BY <1>1 DEF Ranged
  <2> HIDE DEF s
  <2> QED
    BY <2>1, <1>1 DEF ToSet
<1>3. n \in Nat /\ n > 0 /\ 1 \in 1..n
  BY <1>2 DEF Ranged
<1>4. /\ groups \in Ranged /\ Len(groups) >= 1 /\ groups[1].offset = s[1].offset
      /\ CoveringGroups(groups, s, n)
  <2> HIDE DEF groups, s, n
  <2> QED
    BY <1>1, <1>3 DEF Grouped
<1>5. groups # <<>>
  BY <1>4
<1>6. groups[1].offset <= r.offset
  <2>1. s[1].offset <= s[i].offset
    <3>1. 1 <= i /\ i \in 1..Len(s) /\ 1 \in 1..Len(s)
      BY <1>1, <1>2, <1>3
    <3> HIDE DEF s
    <3> QED
      BY <3>1, <1>1 DEF Ordered
  <2> HIDE DEF s, groups
  <2> QED
    BY <2>1, <1>2, <1>4
<1>7. r.offset \in Nat
  <2>1. \A x \in ToSet(ranges) : x \in ByteRange
    BY DEF ToSet, Ranged
  <2> QED
    BY <2>1 DEF ByteRange
<1>8. /\ g \in 1..Len(groups)
      /\ groups[g].offset <= r.offset
      /\ g = Len(groups) \/ groups[g + 1].offset > r.offset
  <2> HIDE DEF groups
  <2> QED
    BY <1>4, <1>5, <1>6, <1>7, FindFacts
<1>9. End(s[i]) <= End(groups[g])
  <2> HIDE DEF groups, s, n, g
  <2> QED
    BY <1>2, <1>4, <1>8 DEF CoveringGroups
<1> QED
  BY <1>2, <1>5, <1>8, <1>9

-----------------------------------------------------------------------------
(* Flattening sequences of sequences.                                      *)

LEMMA FlattenIs ==
  ASSUME NEW S, NEW q \in Seq(Seq(S)), q # <<>>
  PROVE  \E flat \in [0..Len(q) -> Seq(S)] :
           /\ flat[0] = <<>>
           /\ \A n \in 1..Len(q) : flat[n] = flat[n - 1] \o q[n]
           /\ FlattenSeq(q) = flat[Len(q)]
<1> DEFINE m == Len(q)
           step == [n \in 1..m |-> [s \in Seq(S) |-> s \o q[n]]]
           isOne(g) == g = [i \in 1..m |-> IF i = 1 THEN q[i] ELSE g[i - 1] \o q[i]]
           flatten == CHOOSE g : isOne(g)
<1>1. m \in Nat /\ m >= 1 /\ <<>> \in Seq(S) /\ \A n \in 1..m : q[n] \in Seq(S)
  OBVIOUS
<1>2. step \in [1..m -> [Seq(S) -> Seq(S)]]
  <2> SUFFICES ASSUME NEW n \in 1..m, NEW s \in Seq(S) PROVE s \o q[n] \in Seq(S)
    OBVIOUS
  <2>1. q[n] \in Seq(S)
    BY <1>1
  <2> QED
    BY <2>1
<1>3. PICK f : Recurses(f, m, Seq(S), <<>>, step)
  <2> HIDE DEF m, step
  <2> QED
    BY <1>1, <1>2, Recursion
<1>4. /\ f \in [0..m -> Seq(S)]
      /\ f[0] = <<>>
      /\ \A n \in 1..m : f[n] = f[n - 1] \o q[n]
  <2>1. f \in [0..m -> Seq(S)] /\ f[0] = <<>>
    BY <1>3 DEF Recurses
  <2> SUFFICES ASSUME NEW n \in 1..m PROVE f[n] = f[n - 1] \o q[n]
    BY <2>1
  <2>2. f[n - 1] \in Seq(S)
    <3> DEFINE T == Seq(S)
    <3>1. f \in [0..m -> T] /\ n - 1 \in 0..m
      BY <1>1, <2>1
    <3> HIDE DEF T
    <3>2. f[n - 1] \in T
      BY <3>1
    <3> QED
      BY <3>2 DEF T
  <2>3. step[n] = [s \in Seq(S) |-> s \o q[n]]
    OBVIOUS
  <2>4. f[n] = step[n][f[n - 1]]
    BY <1>3 DEF Recurses
  <2> HIDE DEF step
  <2> QED
    BY <2>2, <2>3, <2>4
<1>first. f[1] = q[1]
  <2>1. 1 \in 1..m /\ 1 - 1 = 0
    BY <1>1
  <2>2. f[1] = <<>> \o q[1]
    <3> HIDE DEF m
    <3> QED
      BY <2>1, <1>4
  <2>3. q[1] \in Seq(S)
    BY <2>1, <1>1
  <2> HIDE DEF m
  <2> QED
    BY <2>2, <2>3
<1> DEFINE g == [i \in 1..m |-> f[i]]
<1>5. isOne(g)
  <2>1. f[1] = q[1]
    BY <1>first
  <2>2. \A i \in 1..m : g[i] = IF i = 1 THEN q[i] ELSE g[i - 1] \o q[i]
    <3> SUFFICES ASSUME NEW i \in 1..m PROVE g[i] = IF i = 1 THEN q[i] ELSE g[i - 1] \o q[i]
      OBVIOUS
    <3>1. i # 1 => i - 1 \in 1..m /\ g[i - 1] = f[i - 1]
      <4> HIDE DEF m
      <4> QED
        BY <1>1
    <3> HIDE DEF m
    <3> QED
      BY <2>1, <3>1, <1>4
  <2> DEFINE h == [i \in 1..m |-> IF i = 1 THEN q[i] ELSE g[i - 1] \o q[i]]
  <2>3. \A i \in 1..m : g[i] = h[i]
    <3> HIDE DEF g
    <3> QED
      BY <2>2
  <2>4. g = h
    <3> HIDE DEF m
    <3> QED
      BY <2>3
  <2> HIDE DEF g
  <2> QED
    BY <2>4
<1>6. isOne(flatten)
  <2> HIDE DEF isOne, g
  <2> QED
    BY <1>5
<1>7. \A i \in 1..m : flatten[i] = IF i = 1 THEN q[i] ELSE flatten[i - 1] \o q[i]
  <2> HIDE DEF flatten, m
  <2> QED
    BY <1>6
<1> DEFINE P == {n \in 0..m : n = 0 \/ flatten[n] = f[n]}
<1>8. 0 \in P
  <2> HIDE DEF flatten, m
  <2> QED
    BY <1>1
<1>9. \A n \in 1..m : n - 1 \in P => n \in P
  <2> SUFFICES ASSUME NEW n \in 1..m, n - 1 \in P PROVE flatten[n] = f[n]
    <3> HIDE DEF flatten, m
    <3> QED
      BY <1>1
  <2>1. CASE n = 1
    <3> HIDE DEF flatten, m
    <3> QED
      BY <2>1, <1>first, <1>7
  <2>2. CASE n # 1
    <3>1. n - 1 \in 1..m /\ n - 1 # 0 /\ flatten[n - 1] = f[n - 1]
      <4> HIDE DEF flatten, m
      <4> QED
        BY <2>2, <1>1
    <3> HIDE DEF flatten, m
    <3> QED
      BY <2>2, <3>1, <1>4, <1>7
  <2> QED
    BY <2>1, <2>2
<1>10. 0..m \subseteq P
  <2> HIDE DEF P
  <2> QED
    BY <1>1, <1>8, <1>9, UpTo
<1>11. flatten[m] = f[m]
  <2> HIDE DEF flatten, m
  <2> QED
    BY <1>1, <1>10
<1>12. FlattenSeq(q) = flatten[m]
  BY <1>1 DEF FlattenSeq
<1>13. FlattenSeq(q) = f[m]
  <2> HIDE DEF flatten, m
  <2> QED
    BY <1>11, <1>12
<1> QED
  BY <1>4, <1>13

\* The elements come from the sequences.
LEMMA FlattenType ==
  ASSUME NEW S, NEW q \in Seq(Seq(S))
  PROVE  FlattenSeq(q) \in Seq(S)
<1>1. CASE q = <<>>
  BY <1>1 DEF FlattenSeq
<1>2. CASE q # <<>>
  <2>1. PICK flat \in [0..Len(q) -> Seq(S)] : FlattenSeq(q) = flat[Len(q)]
    BY <1>2, FlattenIs
  <2>2. Len(q) \in 0..Len(q)
    OBVIOUS
  <2> QED
    BY <2>1, <2>2
<1> QED
  BY <1>1, <1>2

\* Products are monotone.
LEMMA Multiples ==
  ASSUME NEW b \in Nat, NEW i \in Nat, NEW k \in Nat, i <= k
  PROVE  i * b \in Nat /\ k * b \in Nat /\ i * b <= k * b /\ (k + 1) * b = k * b + b
<1>1. i * b \in Nat /\ k * b \in Nat /\ (k - i) * b \in Nat
  OBVIOUS
<1>2. k * b = i * b + (k - i) * b
  OBVIOUS
<1>3. (k + 1) * b = k * b + b
  OBVIOUS
<1> QED
  BY <1>1, <1>2, <1>3

Joined(u, s, t) ==
  /\ Len(u) = Len(s) + Len(t)
  /\ \A j \in 1..Len(s) : u[j] = s[j]
  /\ \A j \in 1..Len(t) : u[Len(s) + j] = t[j]

\* The elements of a concatenation.
LEMMA Concatenated ==
  ASSUME NEW S, NEW s \in Seq(S), NEW t \in Seq(S)
  PROVE  Joined(s \o t, s, t)
<1>1. \A j \in 1..Len(t) : Len(s) + j \in (Len(s) + 1)..(Len(s) + Len(t))
  OBVIOUS
<1>2. Len(s \o t) = Len(s) + Len(t)
  OBVIOUS
<1>3. \A j \in 1..Len(s) : (s \o t)[j] = s[j]
  OBVIOUS
<1>4. ASSUME NEW j \in 1..Len(t) PROVE (s \o t)[Len(s) + j] = t[j]
  <2>1. Len(s) \in Nat /\ Len(t) \in Nat
    OBVIOUS
  <2> QED
    BY <2>1
<1> QED
  BY <1>2, <1>3, <1>4 DEF Joined

\* The sequences of q are of length b, and lie side by side in s.
Even(q, b) == \A i \in 1..Len(q) : Len(q[i]) = b
Laid(s, q, b) ==
  /\ Len(s) = Len(q) * b
  /\ \A i \in 1..Len(q), k \in 1..b : s[(i - 1) * b + k] = q[i][k]

\* Sequences of one length lie side by side.
LEMMA FlattenIndex ==
  ASSUME NEW S, NEW q \in Seq(Seq(S)), NEW b \in Nat, Even(q, b)
  PROVE  Laid(FlattenSeq(q), q, b)
<1> SUFFICES ASSUME \A i \in 1..Len(q) : Len(q[i]) = b
             PROVE  /\ Len(FlattenSeq(q)) = Len(q) * b
                    /\ \A i \in 1..Len(q), k \in 1..b : FlattenSeq(q)[(i - 1) * b + k] = q[i][k]
  BY DEF Even, Laid
<1> DEFINE m == Len(q)
<1>1. m \in Nat /\ \A n \in 1..m : q[n] \in Seq(S)
  OBVIOUS
<1>2. CASE q = <<>>
  <2>1. FlattenSeq(q) = q /\ m = 0
    BY <1>2 DEF FlattenSeq
  <2> QED
    BY <2>1
<1>3. CASE q # <<>>
  <2>1. PICK flat \in [0..m -> Seq(S)] :
          /\ flat[0] = <<>>
          /\ \A n \in 1..m : flat[n] = flat[n - 1] \o q[n]
          /\ FlattenSeq(q) = flat[m]
    BY <1>3, FlattenIs
  <2> DEFINE laid(n) == /\ Len(flat[n]) = n * b
                        /\ \A i \in 1..n, k \in 1..b : flat[n][(i - 1) * b + k] = q[i][k]
             P == {n \in 0..m : laid(n)}
  <2>2. 0 \in P
    <3>1. laid(0)
      BY <2>1
    <3> HIDE DEF laid, m
    <3> QED
      BY <1>1, <3>1
  <2>3. \A n \in 1..m : n - 1 \in P => n \in P
    <3> SUFFICES ASSUME NEW n \in 1..m, laid(n - 1) PROVE laid(n)
      <4> HIDE DEF laid, m
      <4> QED
        BY <1>1
    <3>0. flat[n - 1] \in Seq(S) /\ q[n] \in Seq(S)
      <4>1. n - 1 \in 0..m
        BY <1>1
      <4> QED
        BY <1>1, <2>1, <4>1
    <3> SUFFICES ASSUME NEW s \in Seq(S), NEW t \in Seq(S), s = flat[n - 1], t = q[n]
                 PROVE  laid(n)
      <4> HIDE DEF laid, m
      <4> QED
        BY <3>0
    <3>1. s \in Seq(S) /\ t \in Seq(S) /\ flat[n] = s \o t /\ Len(t) = b /\ Len(s) = (n - 1) * b
      <4>1. n - 1 \in 0..m
        BY <1>1
      <4> QED
        BY <1>1, <2>1, <4>1
    <3>2. n - 1 \in Nat /\ (n - 1) * b \in Nat /\ n * b = (n - 1) * b + b
      <4>1. n - 1 \in Nat /\ n - 1 + 1 = n
        BY <1>1
      <4> QED
        BY <4>1, Multiples
    <3> DEFINE len == (n - 1) * b
    <3>len. /\ Len(s \o t) = len + b
            /\ \A j \in 1..len : (s \o t)[j] = s[j]
            /\ \A j \in 1..b : (s \o t)[len + j] = t[j]
      <4>1. len \in Nat /\ Len(s) = len
        BY <3>1, <3>2
      <4>2. s \in Seq(S) /\ t \in Seq(S) /\ Len(t) = b
        BY <3>1
      <4>3. Joined(s \o t, s, t)
        BY <4>2, Concatenated
      <4> HIDE DEF len
      <4> QED
        BY <4>1, <4>2, <4>3 DEF Joined
    <3>3. Len(flat[n]) = n * b
      BY <3>1, <3>2, <3>len
    <3>4. ASSUME NEW i \in 1..n, NEW k \in 1..b
          PROVE  flat[n][(i - 1) * b + k] = q[i][k]
      <4>1. CASE i = n
        <5>2. (s \o t)[len + k] = t[k]
          <6> HIDE DEF len
          <6> QED
            BY <3>len
        <5> QED
          BY <5>2, <3>1, <4>1
      <4>2. CASE i \in 1..(n - 1)
        <5>1. i - 1 \in Nat /\ i - 1 <= n - 2 /\ n - 2 \in Nat
          <6>1. n \in Int
            BY <1>1
          <6> QED
            BY ONLY <6>1, <4>2
        <5>2. (i - 1) * b \in Nat /\ (i - 1) * b <= (n - 2) * b /\ (n - 1) * b = (n - 2) * b + b
          <6>1. n - 2 + 1 = n - 1
            BY <1>1
          <6> QED
            BY <5>1, <6>1, Multiples
        <5> DEFINE last == (n - 2) * b
                   first == (i - 1) * b
                   at == first + k
        <5>3. at \in 1..len
          <6>1. first \in Nat /\ len \in Nat /\ last \in Nat /\ first <= last /\ len = last + b
            BY <3>2, <5>1, <5>2, Multiples
          <6> HIDE DEF first, last, len
          <6> QED
            BY <6>1
        <5>4. (s \o t)[at] = s[at]
          <6> HIDE DEF at, len
          <6> QED
            BY <3>len, <5>3
        <5>5. s[at] = q[i][k]
          BY <4>2
        <5> QED
          BY <3>1, <5>4, <5>5
      <4> QED
        BY <4>1, <4>2, <1>1
    <3> QED
      BY <3>3, <3>4
  <2>4. 0..m \subseteq P
    <3> HIDE DEF P
    <3> QED
      BY <1>1, <2>2, <2>3, UpTo
  <2>5. laid(m)
    <3> HIDE DEF laid, m
    <3> QED
      BY <1>1, <2>4
  <2> QED
    BY <2>1, <2>5
<1> QED
  BY <1>2, <1>3

-----------------------------------------------------------------------------
(* The inductive invariant.                                                *)

Phases == {"idle", "reading", "decoding", "resolved", "rejected"}
Stages == {"none", "sizes", "fetching", "done", "failed"}

IsRead(r) == DOMAIN r = {"stage", "groups", "flying", "got"}

\* What has arrived of a read is of the groups it was requested for.
GotIsFetched(r) == \A g \in DOMAIN r.got : r.got[g].offset = r.groups[g].offset

\* All groups of the ranges have arrived.
Whole(r, ranges) ==
  /\ IsRead(r)
  /\ r.groups \in Ranged
  /\ r.groups = mergeRanges(Real(ranges))
  /\ r.flying = {}
  /\ DOMAIN r.got = 1..Len(r.groups)
  /\ GotIsFetched(r)

\* The groups are the merged ranges; while they are fetched, those that have
\* arrived and those in flight are the first ones, and no others.
ReadSound(r, ranges) ==
  /\ IsRead(r)
  /\ r.stage \in Stages
  /\ r.groups \in Ranged
  /\ r.groups = <<>> \/ r.groups = mergeRanges(Real(ranges))
  /\ r.stage \in {"none", "sizes"} => r.groups = <<>>
  /\ r.stage = "done" => Whole(r, ranges)
  /\ DOMAIN r.got \subseteq 1..Len(r.groups)
  /\ GotIsFetched(r)
  /\ r.stage # "fetching" => r.flying = {}
  /\ r.stage = "fetching" =>
       /\ r.flying # {}
       /\ r.flying \cap DOMAIN r.got = {}
       /\ \E top \in 0..Len(r.groups) : r.flying \cup DOMAIN r.got = 1..top
  /\ \E i \in Nat : r.flying \subseteq i..(i + Parallel - 1)

Job == [call : Calls, tile : Nat, band : Nat]

Typed ==
  /\ file \in Files
  /\ xy \in [Calls -> Seq(DOMAIN file.data)]
  /\ \A c \in Calls : xy[c] \in Requests[c] \cup {<<>>}
  /\ phase \in [Calls -> Phases]
  /\ DOMAIN reads = Calls /\ \A c \in Calls : DOMAIN reads[c] = Parts
  /\ DOMAIN pixels = Calls
  /\ pool \in [jobs   : [WorkerIds -> SUBSET [id : Nat, job : Job]],
               posted : [WorkerIds -> SUBSET [id : Nat, bytes : ByteRange]],
               nextId : [WorkerIds -> Nat]]
  /\ mainQueue \subseteq [job : Job, bytes : ByteRange]
  /\ destroyed \in BOOLEAN

\* A part that is read has its groups, and no tile is missing from the data.
ReadsInv ==
  \A c \in Calls :
    /\ \A p \in Parts : ReadSound(reads[c][p], Ranges(c, p))
    /\ file.mask = None => reads[c]["mask"].stage = "none"
    /\ phase[c] = "reading" /\ file.mask # None => reads[c]["mask"].stage # "none"
    /\ reads[c]["data"].stage = "done" => \A r \in ToSet(Ranges(c, "data")) : ~Sparse(r)

\* The bytes of band b of tile i of call c, or of its mask.
Content(c, i, b) == IF b = 0 THEN file.mask[xy[c][i]] ELSE file.data[xy[c][i]][b]

\* A job of a call that awaits it.
JobSound(job) ==
  /\ phase[job.call] \in {"decoding", "resolved", "rejected"}
  /\ <<job.tile, job.band>> \in Awaited(job.call)

\* A worker's jobs and messages pair up, and each message has the bytes of its job.
PoolInv ==
  \A w \in WorkerIds :
    /\ \A k \in pool.jobs[w] :
         /\ k.id < pool.nextId[w]
         /\ JobSound(k.job)
         /\ \E m \in pool.posted[w] : m.id = k.id
         /\ \A m \in pool.posted[w] :
              m.id = k.id => m.bytes = Content(k.job.call, k.job.tile, k.job.band)
    /\ \A m \in pool.posted[w] :
         /\ m.id < pool.nextId[w]
         /\ \E k \in pool.jobs[w] : k.id = m.id

QueueInv ==
  \A m \in mainQueue :
    /\ JobSound(m.job)
    /\ m.bytes = Content(m.job.call, m.job.tile, m.job.band)

PixelsInv ==
  \A c \in Calls :
    /\ DOMAIN pixels[c] \subseteq Awaited(c)
    /\ \A k \in DOMAIN pixels[c] : pixels[c][k] = Content(c, k[1], k[2])
    /\ phase[c] = "idle" => DOMAIN pixels[c] = {} /\ xy[c] = <<>>
    /\ phase[c] = "resolved" => DOMAIN pixels[c] = Awaited(c)

IInv == Typed /\ ReadsInv /\ PoolInv /\ QueueInv /\ PixelsInv

-----------------------------------------------------------------------------
(* Steps of a read.                                                        *)

LEMMA UnreadSound ==
  ASSUME NEW ranges
  PROVE  ReadSound(Unread, ranges) /\ ReadSound([Unread EXCEPT !.stage = "sizes"], ranges)
<1>1. <<>> \in Ranged /\ DOMAIN <<>> = {} /\ Len(<<>>) = 0
  BY DEF Ranged
<1>2. \E i \in Nat : {} \subseteq i..(i + Parallel - 1)
  OBVIOUS
<1> DEFINE s == [Unread EXCEPT !.stage = "sizes"]
<1>3. /\ IsRead(s) /\ IsRead(Unread)
      /\ s.stage = "sizes" /\ s.groups = <<>> /\ s.flying = {} /\ s.got = <<>>
  BY DEF Unread, IsRead
<1>4. ReadSound(s, ranges)
  <2> HIDE DEF s
  <2> QED
    BY <1>1, <1>2, <1>3 DEF ReadSound, GotIsFetched, Stages
<1> QED
  BY <1>1, <1>2, <1>3, <1>4 DEF ReadSound, IsRead, GotIsFetched, Unread, Stages

\* A read that fails.
Failed(r) == [r EXCEPT !.stage = "failed", !.flying = {}]

LEMMA FailedSound ==
  ASSUME NEW ranges, NEW r, ReadSound(r, ranges)
  PROVE  ReadSound(Failed(r), ranges) /\ Failed(r).stage = "failed"
<1> DEFINE s == [r EXCEPT !.stage = "failed", !.flying = {}]
<1>1. /\ IsRead(s)
      /\ s.stage = "failed" /\ s.groups = r.groups /\ s.flying = {} /\ s.got = r.got
  BY DEF ReadSound, IsRead
<1>2. \E i \in Nat : {} \subseteq i..(i + Parallel - 1)
  OBVIOUS
<1>3. Failed(r) = s
  BY DEF Failed
<1> HIDE DEF s
<1> QED
  BY <1>1, <1>2, <1>3 DEF ReadSound, IsRead, GotIsFetched, Stages

\* A read that has all its groups, whatever they amount to.
LEMMA WholeSound ==
  ASSUME NEW ranges, NEW r, Whole(r, ranges), NEW outcome \in {"failed", "done"}
  PROVE  ReadSound([r EXCEPT !.stage = outcome], ranges)
<1> DEFINE s == [r EXCEPT !.stage = outcome]
<1>1. /\ IsRead(s)
      /\ s.stage = outcome /\ s.groups = r.groups /\ s.flying = {} /\ s.got = r.got
  BY DEF Whole, IsRead
<1>2. \E i \in Nat : {} \subseteq i..(i + Parallel - 1)
  OBVIOUS
<1>3. Whole(s, ranges)
  <2> HIDE DEF s
  <2> QED
    BY <1>1 DEF Whole, GotIsFetched
<1>4. ReadSound(s, ranges)
  <2> HIDE DEF s
  <2> QED
    BY <1>1, <1>2, <1>3 DEF ReadSound, Whole, Stages
<1> QED
  BY <1>4

\* The groups of a batch lie side by side.
LEMMA BatchIs ==
  ASSUME NEW groups \in Ranged, NEW top \in 0..Len(groups)
  PROVE  /\ Batch(groups, top + 1) \subseteq (top + 1)..(top + 1 + Parallel - 1)
         /\ Batch(groups, top + 1) \subseteq 1..Len(groups)
         /\ Batch(groups, top + 1) \cap 1..top = {}
         /\ Batch(groups, top + 1) = {} => top = Len(groups)
         /\ \E more \in 0..Len(groups) : Batch(groups, top + 1) \cup 1..top = 1..more
<1> DEFINE len == Len(groups)
<1>1. len \in Nat /\ Parallel \in Nat /\ Parallel >= 1 /\ top \in Nat /\ top <= len
  BY TileReadsAssumption DEF Ranged
<1>2. Batch(groups, top + 1) = {k \in 1..len : top + 1 <= k /\ k < top + 1 + Parallel}
  BY DEF Batch, Ranged
<1>3. top < len => top + 1 \in Batch(groups, top + 1)
  <2> HIDE DEF len
  <2> QED
    BY <1>1, <1>2
<1>4. \E more \in 0..len : Batch(groups, top + 1) \cup 1..top = 1..more
  <2> DEFINE more == IF top + Parallel <= len THEN top + Parallel ELSE len
  <2>1. more \in 0..len /\ Batch(groups, top + 1) \cup 1..top = 1..more
    <3>1. more \in 0..len
      <4> HIDE DEF len
      <4> QED
        BY <1>1
    <3>2. \A k \in Int : k \in Batch(groups, top + 1) \/ k \in 1..top <=> k \in 1..more
      <4> HIDE DEF len
      <4> QED
        BY <1>1, <1>2
    <3>3. Batch(groups, top + 1) \subseteq Int
      <4> HIDE DEF len
      <4> QED
        BY <1>1, <1>2
    <3> HIDE DEF more, len
    <3> QED
      BY <3>1, <3>2, <3>3
  <2> HIDE DEF more
  <2> QED
    BY <2>1
<1>5. /\ Batch(groups, top + 1) \subseteq (top + 1)..(top + 1 + Parallel - 1)
      /\ Batch(groups, top + 1) \subseteq 1..len
      /\ Batch(groups, top + 1) \cap 1..top = {}
  <2> HIDE DEF len
  <2> QED
    BY <1>1, <1>2
<1>6. Batch(groups, top + 1) = {} => top = len
  <2> HIDE DEF len
  <2> QED
    BY <1>1, <1>3
<1> QED
  BY <1>4, <1>5, <1>6

\* The first batch of the groups.
LEMMA FirstSound ==
  ASSUME NEW ranges, Real(ranges) \in Ranged, NEW groups \in Ranged,
         groups = mergeRanges(Real(ranges))
  PROVE  LET read == [stage |-> "fetching", groups |-> groups,
                      flying |-> Batch(groups, 1), got |-> <<>>]
         IN IF groups = <<>> THEN Whole(read, ranges) ELSE ReadSound(read, ranges)
<1> DEFINE read == [stage |-> "fetching", groups |-> groups,
                    flying |-> Batch(groups, 1), got |-> <<>>]
<1>1. DOMAIN <<>> = {} /\ 0 \in 0..Len(groups) /\ 0 + 1 = 1 /\ 1..0 = {}
  BY DEF Ranged
<1>2. /\ Batch(groups, 1) \subseteq 1..(1 + Parallel - 1)
      /\ Batch(groups, 1) \subseteq 1..Len(groups)
      /\ Batch(groups, 1) = {} => 0 = Len(groups)
      /\ \E more \in 0..Len(groups) : Batch(groups, 1) = 1..more
  <2> DEFINE top == 0
             batch == Batch(groups, top + 1)
  <2>1. top \in 0..Len(groups)
    BY <1>1
  <2>2. /\ batch \subseteq (top + 1)..(top + 1 + Parallel - 1)
        /\ batch \subseteq 1..Len(groups)
        /\ batch = {} => top = Len(groups)
        /\ \E more \in 0..Len(groups) : batch \cup 1..top = 1..more
    <3> HIDE DEF top
    <3> QED
      BY <2>1, BatchIs
  <2>3. batch = Batch(groups, 1) /\ top = 0 /\ top + 1 = 1 /\ 1..top = {}
    OBVIOUS
  <2> HIDE DEF batch, top
  <2> QED
    BY <2>2, <2>3, <1>1
<1>3. CASE groups = <<>>
  <2>1. Batch(groups, 1) = {} /\ Len(groups) = 0
    BY <1>2, <1>3
  <2> QED
    BY <1>1, <1>3, <2>1 DEF Whole, IsRead, GotIsFetched
<1>4. CASE groups # <<>>
  <2>1. Batch(groups, 1) # {}
    BY <1>2, <1>4 DEF Ranged
  <2>2. \E i \in Nat : Batch(groups, 1) \subseteq i..(i + Parallel - 1)
    BY <1>2
  <2>3. \E top \in 0..Len(groups) : Batch(groups, 1) \cup DOMAIN <<>> = 1..top
    BY <1>1, <1>2
  <2>4. ReadSound(read, ranges)
    BY <1>1, <2>1, <2>2, <2>3 DEF ReadSound, IsRead, GotIsFetched, Stages
  <2> QED
    BY <1>4, <2>4
<1> QED
  BY <1>3, <1>4

\* What a group's arrival leaves of a read.
LEMMA ArrivedIs ==
  ASSUME NEW ranges, NEW r, ReadSound(r, ranges), NEW g \in r.flying
  PROVE  LET read == Arrive(r, g)
         IN /\ IsRead(read)
            /\ read.stage = "fetching"
            /\ read.groups = r.groups
            /\ r.groups \in Ranged
            /\ r.groups = mergeRanges(Real(ranges))
            /\ read.flying = r.flying \ {g}
            /\ DOMAIN read.got = DOMAIN r.got \cup {g}
            /\ GotIsFetched(read)
            /\ \E top \in 0..Len(r.groups) : r.flying \cup DOMAIN r.got = 1..top
            /\ r.flying \cap DOMAIN r.got = {}
<1> DEFINE read == Arrive(r, g)
           got == [k \in DOMAIN r.got \cup {g} |-> IF k = g THEN Fetched(r.groups[g]) ELSE r.got[k]]
<1>1. r.stage = "fetching"
  BY DEF ReadSound
<1>2. /\ IsRead(read) /\ read.stage = r.stage /\ read.groups = r.groups
      /\ read.flying = r.flying \ {g} /\ read.got = got
  BY DEF Arrive, ReadSound, IsRead
<1>3. \A k \in DOMAIN got : got[k].offset = r.groups[k].offset
  BY DEF ReadSound, GotIsFetched, Fetched
<1>4. r.groups # <<>>
  <2>1. PICK top \in 0..Len(r.groups) : r.flying \cup DOMAIN r.got = 1..top
    BY <1>1 DEF ReadSound
  <2>2. g \in 1..top
    BY <2>1
  <2>3. Len(r.groups) > 0
    BY <2>2 DEF ReadSound, Ranged
  <2> QED
    BY <2>3
<1>5. DOMAIN got = DOMAIN r.got \cup {g}
  OBVIOUS
<1> HIDE DEF read, got
<1>6. GotIsFetched(read)
  BY <1>2, <1>3 DEF GotIsFetched
<1>7. /\ IsRead(read) /\ read.stage = "fetching" /\ read.groups = r.groups
      /\ r.groups \in Ranged /\ r.groups = mergeRanges(Real(ranges))
      /\ read.flying = r.flying \ {g} /\ DOMAIN read.got = DOMAIN r.got \cup {g}
      /\ GotIsFetched(read)
      /\ \E top \in 0..Len(r.groups) : r.flying \cup DOMAIN r.got = 1..top
      /\ r.flying \cap DOMAIN r.got = {}
  BY <1>1, <1>2, <1>4, <1>5, <1>6 DEF ReadSound
<1> QED
  BY <1>7 DEF read

\* The batch goes on without the group.
LEMMA ArrivedSound ==
  ASSUME NEW ranges, NEW r, ReadSound(r, ranges), NEW g \in r.flying,
         Arrive(r, g).flying # {}
  PROVE  ReadSound(Arrive(r, g), ranges)
<1> DEFINE read == Arrive(r, g)
<1>1. /\ IsRead(read) /\ read.stage = "fetching" /\ read.groups = r.groups
      /\ r.groups \in Ranged /\ r.groups = mergeRanges(Real(ranges))
      /\ read.flying = r.flying \ {g} /\ DOMAIN read.got = DOMAIN r.got \cup {g}
      /\ GotIsFetched(read)
      /\ \E top \in 0..Len(r.groups) : r.flying \cup DOMAIN r.got = 1..top
      /\ r.flying \cap DOMAIN r.got = {}
  BY ArrivedIs
<1>2. PICK i \in Nat : r.flying \subseteq i..(i + Parallel - 1)
  BY DEF ReadSound
<1>3. PICK top \in 0..Len(r.groups) : r.flying \cup DOMAIN r.got = 1..top
  BY <1>1
<1>4. read.flying \cup DOMAIN read.got = 1..top /\ read.flying \cap DOMAIN read.got = {}
  BY <1>1, <1>3
<1>5. DOMAIN read.got \subseteq 1..Len(r.groups)
  <2>1. Len(r.groups) \in Nat
    BY <1>1 DEF Ranged
  <2> QED
    BY <2>1, <1>4
<1>6. read.flying # {} /\ read.flying \subseteq i..(i + Parallel - 1)
  BY <1>1, <1>2
<1> HIDE DEF read
<1>7. ReadSound(read, ranges)
  BY <1>1, <1>4, <1>5, <1>6 DEF ReadSound, Stages
<1> QED
  BY <1>7 DEF read

\* The batch is complete: the next one is requested, or there is none.
LEMMA NextBatchSound ==
  ASSUME NEW ranges, NEW r, ReadSound(r, ranges), NEW g \in r.flying,
         Arrive(r, g).flying = {}
  PROVE  LET next == NextBatch(Arrive(r, g))
         IN IF next.flying = {} THEN Whole(next, ranges) ELSE ReadSound(next, ranges)
<1> DEFINE read == Arrive(r, g)
           next == NextBatch(read)
<1>1. /\ IsRead(read) /\ read.stage = "fetching" /\ read.groups = r.groups
      /\ r.groups \in Ranged /\ r.groups = mergeRanges(Real(ranges))
      /\ read.flying = r.flying \ {g} /\ DOMAIN read.got = DOMAIN r.got \cup {g}
      /\ GotIsFetched(read)
      /\ \E top \in 0..Len(r.groups) : r.flying \cup DOMAIN r.got = 1..top
      /\ r.flying \cap DOMAIN r.got = {}
  BY ArrivedIs
<1>2. PICK top \in 0..Len(r.groups) : DOMAIN read.got = 1..top
  BY <1>1
<1>3. Cardinality(DOMAIN read.got) = top
  <2>1. top \in Nat
    BY <1>1 DEF Ranged
  <2>2. Cardinality(1..top) = top
    BY <2>1, FS_Interval
  <2> QED
    BY <1>2, <2>2
<1> DEFINE batch == Batch(read.groups, Cardinality(DOMAIN read.got) + 1)
<1>4. /\ IsRead(next) /\ next.stage = "fetching" /\ next.groups = r.groups
      /\ next.flying = batch /\ next.got = read.got
  <2> HIDE DEF read
  <2> QED
    BY <1>1 DEF NextBatch, IsRead
<1>5. batch = Batch(r.groups, top + 1)
  BY <1>1, <1>3
<1>6. /\ batch \subseteq (top + 1)..(top + 1 + Parallel - 1)
      /\ batch \cap 1..top = {}
      /\ batch = {} => top = Len(r.groups)
      /\ \E more \in 0..Len(r.groups) : batch \cup 1..top = 1..more
  <2> HIDE DEF batch
  <2> QED
    BY <1>1, <1>5, BatchIs
<1>7. top + 1 \in Nat /\ 1..top \subseteq 1..Len(r.groups)
  BY <1>1 DEF Ranged
<1>8. GotIsFetched(next)
  <2> HIDE DEF next, read
  <2> QED
    BY <1>1, <1>4 DEF GotIsFetched
<1> HIDE DEF read, next, batch
<1>9. CASE next.flying = {}
  <2>1. Whole(next, ranges)
    BY <1>1, <1>2, <1>4, <1>6, <1>8, <1>9 DEF Whole
  <2> QED
    BY <2>1, <1>9 DEF next, read
<1>10. CASE next.flying # {}
  <2>1. ReadSound(next, ranges)
    BY <1>1, <1>2, <1>4, <1>6, <1>7, <1>8, <1>10 DEF ReadSound, Stages
  <2> QED
    BY <2>1, <1>10 DEF next, read
<1> QED
  BY <1>9, <1>10

-----------------------------------------------------------------------------
(* The ranges of a call.                                                   *)

\* Ranges that begin at the same byte are the same.
Same(ranges) == \A r, s \in ToSet(ranges) : r.offset = s.offset => r = s

LEMMA SubSequences ==
  ASSUME NEW S, NEW s \in Seq(S)
  PROVE  ToSet(s) \subseteq S /\ \A i \in 1..Len(s) : s[i] \in ToSet(s)
BY DEF ToSet

\* The ranges of the bands of the tiles q of file f, in their order.
DataLaid(ranges, f, q) ==
  /\ ranges \in Ranged
  /\ Same(ranges)
  /\ \A i \in DOMAIN q, b \in 1..f.bands :
       /\ ranges[(i - 1) * f.bands + b] = f.data[q[i]][b]
       /\ f.data[q[i]][b] \in ToSet(ranges)

DataOf(f, q) == FlattenSeq([i \in DOMAIN q |-> f.data[q[i]]])

LEMMA DataRanges ==
  ASSUME NEW f \in Files, NEW q \in Seq(DOMAIN f.data)
  PROVE  DataLaid(DataOf(f, q), f, q)
<1> DEFINE bands == f.bands
           S == {f.data[t][b] : t \in DOMAIN f.data, b \in 1..bands}
           lists == [i \in DOMAIN q |-> f.data[q[i]]]
           ranges == FlattenSeq(lists)
<1>1. /\ bands \in Nat /\ f.data \in Seq(Ranged)
      /\ \A t \in DOMAIN f.data : Len(f.data[t]) = bands
      /\ \A t, u \in DOMAIN f.data : \A b, d \in 1..bands :
           f.data[t][b].offset = f.data[u][d].offset => f.data[t][b] = f.data[u][d]
  BY FilesAssumption DEF Ranged
<1>2. \A t \in DOMAIN f.data : f.data[t] \in Ranged
  BY <1>1
<1>3. \A t \in DOMAIN f.data : f.data[t] \in Seq(S)
  <2> SUFFICES ASSUME NEW t \in DOMAIN f.data PROVE f.data[t] \in Seq(S)
    <3> HIDE DEF S
    <3> QED
      OBVIOUS
  <2>1. f.data[t] \in Ranged /\ Len(f.data[t]) = bands
    BY <1>1, <1>2
  <2>2. \A b \in 1..bands : f.data[t][b] \in S
    OBVIOUS
  <2> HIDE DEF S, bands
  <2> QED
    BY <2>1, <2>2 DEF Ranged
<1>4. S \subseteq ByteRange
  <2> SUFFICES ASSUME NEW t \in DOMAIN f.data, NEW b \in 1..bands PROVE f.data[t][b] \in ByteRange
    OBVIOUS
  <2>1. f.data[t] \in Seq(ByteRange) /\ Len(f.data[t]) = bands
    BY <1>1, <1>2 DEF Ranged
  <2> HIDE DEF bands
  <2> QED
    BY <2>1
<1>5. /\ DOMAIN q = 1..Len(q) /\ Len(q) \in Nat
      /\ \A i \in DOMAIN q : q[i] \in DOMAIN f.data
  OBVIOUS
<1>6. lists \in Seq(Seq(S)) /\ Len(lists) = Len(q) /\ \A i \in 1..Len(lists) : Len(lists[i]) = bands
  <2> DEFINE T == Seq(S)
  <2>1. \A i \in 1..Len(q) : lists[i] \in T /\ Len(lists[i]) = bands
    <3>1. \A t \in DOMAIN f.data : f.data[t] \in T /\ Len(f.data[t]) = bands
      <4> HIDE DEF S, bands
      <4> QED
        BY <1>1, <1>3
    <3> HIDE DEF T, bands
    <3> QED
      BY <1>5, <3>1
  <2>2. lists = [i \in 1..Len(q) |-> lists[i]]
    BY <1>5
  <2>3. lists \in Seq(T) /\ Len(lists) = Len(q)
    <3> HIDE DEF T, lists
    <3> QED
      BY <1>5, <2>1, <2>2
  <2>4. \A i \in 1..Len(lists) : Len(lists[i]) = bands
    <3> HIDE DEF lists, T, bands
    <3> QED
      BY <2>1, <2>3
  <2> HIDE DEF lists, S, bands
  <2> QED
    BY <2>3, <2>4
<1>7. /\ ranges \in Seq(S)
      /\ Len(ranges) = Len(q) * bands
      /\ \A i \in 1..Len(q), b \in 1..bands : ranges[(i - 1) * bands + b] = lists[i][b]
  <2>1. ranges \in Seq(S)
    <3> HIDE DEF lists, S
    <3> QED
      BY <1>6, FlattenType
  <2>2. /\ Len(ranges) = Len(lists) * bands
        /\ \A i \in 1..Len(lists), b \in 1..bands : ranges[(i - 1) * bands + b] = lists[i][b]
    <3>1. Even(lists, bands)
      <4> HIDE DEF lists, bands
      <4> QED
        BY <1>6 DEF Even
    <3>2. Laid(ranges, lists, bands)
      <4> HIDE DEF lists, S, bands
      <4> QED
        BY <1>1, <1>6, <3>1, FlattenIndex
    <3> HIDE DEF ranges, lists, bands
    <3> QED
      BY <3>2 DEF Laid
  <2> HIDE DEF lists, ranges, S, bands
  <2> QED
    BY <1>6, <2>1, <2>2
<1>8. ranges \in Ranged
  <2> HIDE DEF ranges, S
  <2> QED
    BY <1>4, <1>7 DEF Ranged
<1>9. Same(ranges)
  <2>1. ToSet(ranges) \subseteq S
    <3> HIDE DEF ranges, S
    <3> QED
      BY <1>7, SubSequences
  <2>2. ASSUME NEW r \in S, NEW s \in S, r.offset = s.offset PROVE r = s
    <3>1. PICK t \in DOMAIN f.data, b \in 1..bands : r = f.data[t][b]
      OBVIOUS
    <3>2. PICK u \in DOMAIN f.data, d \in 1..bands : s = f.data[u][d]
      OBVIOUS
    <3> HIDE DEF bands, S
    <3> QED
      BY <1>1, <2>2, <3>1, <3>2
  <2> HIDE DEF ranges, S
  <2> QED
    BY <2>1, <2>2 DEF Same
<1>10. ASSUME NEW i \in DOMAIN q, NEW b \in 1..bands
       PROVE  /\ ranges[(i - 1) * bands + b] = f.data[q[i]][b]
              /\ f.data[q[i]][b] \in ToSet(ranges)
  <2> DEFINE at == (i - 1) * bands + b
  <2>1. ranges[at] = f.data[q[i]][b]
    <3>1. lists[i] = f.data[q[i]]
      OBVIOUS
    <3> HIDE DEF lists, ranges
    <3> QED
      BY <1>5, <1>7, <3>1
  <2>2. at \in 1..Len(ranges)
    <3> DEFINE first == (i - 1) * bands
               len == Len(q) * bands
               last == (Len(q) - 1) * bands
    <3>1. i - 1 \in Nat /\ Len(q) - 1 \in Nat /\ i - 1 <= Len(q) - 1 /\ Len(q) - 1 + 1 = Len(q)
      BY <1>5
    <3>2. first \in Nat /\ last \in Nat /\ first <= last /\ len = last + bands
      BY <1>1, <3>1, Multiples
    <3>3. Len(ranges) = len /\ b \in 1..bands /\ at = first + b
      <4> HIDE DEF ranges
      <4> QED
        BY <1>7
    <3> HIDE DEF first, len, last, at, ranges, bands
    <3> QED
      BY <1>1, <3>2, <3>3
  <2>3. ranges[at] \in ToSet(ranges)
    <3> HIDE DEF ranges, S, at
    <3> QED
      BY <1>7, <2>2, SubSequences
  <2> HIDE DEF ranges, at
  <2> QED
    BY <2>1, <2>3 DEF at
<1>11. DataOf(f, q) = ranges
  BY DEF DataOf
<1> HIDE DEF ranges
<1> QED
  BY <1>8, <1>9, <1>10, <1>11 DEF DataLaid

LEMMA MaskRanges ==
  ASSUME NEW f \in Files, f.mask # None, NEW q \in Seq(DOMAIN f.data)
  PROVE  LET ranges == [i \in DOMAIN q |-> f.mask[q[i]]]
         IN /\ ranges \in Ranged
            /\ Same(ranges)
            /\ \A i \in DOMAIN q : ranges[i] = f.mask[q[i]] /\ f.mask[q[i]] \in ToSet(ranges)
<1> DEFINE S == {f.mask[t] : t \in DOMAIN f.data}
           ranges == [i \in DOMAIN q |-> f.mask[q[i]]]
<1>1. /\ f.mask \in [DOMAIN f.data -> ByteRange]
      /\ \A t, u \in DOMAIN f.data : f.mask[t].offset = f.mask[u].offset => f.mask[t] = f.mask[u]
  BY FilesAssumption
<1>2. /\ DOMAIN q = 1..Len(q) /\ Len(q) \in Nat
      /\ \A i \in DOMAIN q : q[i] \in DOMAIN f.data
  OBVIOUS
<1>3. S \subseteq ByteRange
  BY <1>1
<1>4. ranges \in Seq(S) /\ Len(ranges) = Len(q)
  BY <1>2
<1>5. ranges \in Ranged
  <2> HIDE DEF ranges, S
  <2> QED
    BY <1>3, <1>4 DEF Ranged
<1>6. ToSet(ranges) \subseteq S /\ \A i \in 1..Len(ranges) : ranges[i] \in ToSet(ranges)
  <2> HIDE DEF ranges, S
  <2> QED
    BY <1>4, SubSequences
<1>7. Same(ranges)
  <2>1. \A r, s \in S : r.offset = s.offset => r = s
    BY <1>1
  <2> HIDE DEF ranges, S
  <2> QED
    BY <1>6, <2>1 DEF Same
<1>8. ASSUME NEW i \in DOMAIN q PROVE ranges[i] = f.mask[q[i]] /\ f.mask[q[i]] \in ToSet(ranges)
  BY <1>2, <1>4, <1>6
<1> QED
  BY <1>5, <1>7, <1>8

LEMMA RealSame ==
  ASSUME NEW ranges \in Ranged, Same(ranges)
  PROVE  /\ Real(ranges) \in Ranged
         /\ ToSet(Real(ranges)) = {r \in ToSet(ranges) : ~Sparse(r)}
         /\ \A r, q \in ToSet(Real(ranges)) : r.offset = q.offset => r = q
         /\ mergeRanges(Real(ranges)) \in Ranged
<1>1. Real(ranges) \in Ranged /\ ToSet(Real(ranges)) = {r \in ToSet(ranges) : ~Sparse(r)}
  BY RealFacts
<1>2. \A r, q \in ToSet(Real(ranges)) : r.offset = q.offset => r = q
  BY <1>1 DEF Same
<1>3. mergeRanges(Real(ranges)) \in Ranged
  BY <1>1, <1>2, MergeFacts DEF Grouped
<1> QED
  BY <1>1, <1>2, <1>3

\* What is cut out for a range, once all groups have arrived, is the range.
LEMMA SliceIs ==
  ASSUME NEW ranges \in Ranged, Same(ranges), NEW read, Whole(read, ranges),
         NEW r \in ToSet(ranges), ~Sparse(r)
  PROVE  Slice(read, r) = r
<1> DEFINE real == Real(ranges)
           groups == read.groups
           g == findGroupIndex(groups, r.offset)
<1>1. /\ real \in Ranged /\ r \in ToSet(real)
      /\ \A s, q \in ToSet(real) : s.offset = q.offset => s = q
  BY RealSame
<1>2. groups = mergeRanges(real) /\ groups \in Ranged
      /\ DOMAIN read.got = 1..Len(groups) /\ GotIsFetched(read)
  BY DEF Whole
<1>3. g \in 1..Len(groups)
  <2> HIDE DEF real
  <2> QED
    BY <1>1, <1>2, RangesFound
<1>4. read.got[g].offset = groups[g].offset
  <2> HIDE DEF g
  <2> QED
    BY <1>2, <1>3 DEF GotIsFetched
<1>5. groups[g].offset \in Nat /\ r \in ByteRange
  <2>1. groups[g] \in ByteRange
    <3> HIDE DEF g, groups
    <3> QED
      BY <1>2, <1>3 DEF Ranged
  <2>2. r \in ByteRange
    <3>1. ToSet(ranges) \subseteq ByteRange
      BY SubSequences DEF Ranged
    <3> QED
      BY <3>1
  <2> HIDE DEF g, groups
  <2> QED
    BY <2>1, <2>2 DEF ByteRange
<1>6. r.offset \in Nat /\ r = [offset |-> r.offset, length |-> r.length]
  BY <1>5 DEF ByteRange
<1>7. Slice(read, r) = [offset |-> read.got[g].offset + (r.offset - groups[g].offset),
                        length |-> r.length]
  BY DEF Slice
<1>8. read.got[g].offset + (r.offset - groups[g].offset) = r.offset
  <2> HIDE DEF g, groups
  <2> QED
    BY <1>4, <1>5, <1>6
<1> QED
  BY <1>6, <1>7, <1>8

\* What RequestsSound says of the groups of a read.
GroupsSound(groups, real) ==
  /\ \A g \in DOMAIN groups : groups[g].length <= MaxRange \/ groups[g] \in real
  /\ \A g \in DOMAIN groups \ {1} :
       \/ groups[g].offset - End(groups[g - 1]) > Coalesce
       \/ \E r \in real :
            /\ r.offset = groups[g].offset
            /\ Later(End(groups[g - 1]), End(r)) - groups[g - 1].offset > MaxRange
  /\ groups # <<>> => \A r \in real :
       LET g == groups[findGroupIndex(groups, r.offset)]
       IN g.offset <= r.offset /\ End(r) <= End(g)

LEMMA MergedSound ==
  ASSUME NEW ranges \in Ranged, Same(ranges)
  PROVE  GroupsSound(mergeRanges(Real(ranges)), ToSet(Real(ranges)))
<1> DEFINE real == Real(ranges)
           s == Sorted(real)
           n == Len(real)
           groups == mergeRanges(real)
<1>1. /\ real \in Ranged /\ groups \in Ranged
      /\ \A r, q \in ToSet(real) : r.offset = q.offset => r = q
  BY RealSame
<1>2. /\ s \in Ranged /\ Len(s) = n /\ ToSet(s) = ToSet(real)
      /\ Grouped(groups, s, n)
  <2> HIDE DEF real
  <2> QED
    BY <1>1, MergeFacts
<1>3. DOMAIN groups = 1..Len(groups) /\ Len(groups) \in Nat
  <2> HIDE DEF groups
  <2> QED
    BY <1>1 DEF Ranged
<1>4. \A i \in 1..n : s[i] \in ToSet(real)
  <2>1. \A i \in 1..Len(s) : s[i] \in ToSet(s)
    <3> HIDE DEF s
    <3> QED
      BY <1>2, SubSequences DEF Ranged
  <2> HIDE DEF s, real, n
  <2> QED
    BY <1>2, <2>1
<1>5. \A g \in 1..Len(groups) : groups[g].length <= MaxRange \/ groups[g] \in ToSet(real)
  <2> HIDE DEF s, real, n, groups
  <2> QED
    BY <1>2, <1>4 DEF Grouped, SizedGroups
<1>6. \A g \in 2..Len(groups) :
        \/ groups[g].offset - End(groups[g - 1]) > Coalesce
        \/ \E r \in ToSet(real) :
             /\ r.offset = groups[g].offset
             /\ Later(End(groups[g - 1]), End(r)) - groups[g - 1].offset > MaxRange
  <2> HIDE DEF s, real, n, groups
  <2> QED
    BY <1>2, <1>4 DEF Grouped, PartedGroups
<1>7. \A r \in ToSet(real) :
        LET g == groups[findGroupIndex(groups, r.offset)]
        IN g.offset <= r.offset /\ End(r) <= End(g)
  <2> HIDE DEF real
  <2> QED
    BY <1>1, RangesFound
<1>8. \A g \in (1..Len(groups)) \ {1} : g \in 2..Len(groups)
  <2> HIDE DEF groups
  <2> QED
    BY <1>3
<1> HIDE DEF groups, real
<1>9. GroupsSound(groups, ToSet(real))
  BY <1>3, <1>5, <1>6, <1>7, <1>8 DEF GroupsSound
<1> QED
  BY <1>9 DEF groups, real

-----------------------------------------------------------------------------
(* The invariant gives the properties.                                     *)

LEMMA CallRanges ==
  ASSUME Typed, NEW c \in Calls
  PROVE  /\ Ranges(c, "data") \in Ranged
         /\ Same(Ranges(c, "data"))
         /\ \A i \in DOMAIN xy[c], b \in 1..file.bands :
              /\ Ranges(c, "data")[(i - 1) * file.bands + b] = file.data[xy[c][i]][b]
              /\ file.data[xy[c][i]][b] \in ToSet(Ranges(c, "data"))
         /\ file.mask # None =>
              /\ Ranges(c, "mask") \in Ranged
              /\ Same(Ranges(c, "mask"))
              /\ \A i \in DOMAIN xy[c] : file.mask[xy[c][i]] \in ToSet(Ranges(c, "mask"))
<1>1. file \in Files /\ xy[c] \in Seq(DOMAIN file.data)
  BY DEF Typed
<1>2. Ranges(c, "data") = DataOf(file, xy[c])
  BY DEF Ranges, DataOf
<1>3. Ranges(c, "mask") = [i \in DOMAIN xy[c] |-> file.mask[xy[c][i]]]
  BY DEF Ranges
<1>4. /\ Ranges(c, "data") \in Ranged
      /\ Same(Ranges(c, "data"))
      /\ \A i \in DOMAIN xy[c], b \in 1..file.bands :
           /\ Ranges(c, "data")[(i - 1) * file.bands + b] = file.data[xy[c][i]][b]
           /\ file.data[xy[c][i]][b] \in ToSet(Ranges(c, "data"))
  <2>1. DataLaid(DataOf(file, xy[c]), file, xy[c])
    BY <1>1, DataRanges
  <2> QED
    BY <1>2, <2>1 DEF DataLaid
<1>5. file.mask # None =>
        /\ Ranges(c, "mask") \in Ranged
        /\ Same(Ranges(c, "mask"))
        /\ \A i \in DOMAIN xy[c] : file.mask[xy[c][i]] \in ToSet(Ranges(c, "mask"))
  BY <1>1, <1>3, MaskRanges
<1> QED
  BY <1>4, <1>5

\* A batch is no larger than allowed.
LEMMA FlyingBounded ==
  ASSUME NEW i \in Nat, NEW flying, flying \subseteq i..(i + Parallel - 1)
  PROVE  Cardinality(flying) <= Parallel
<1> DEFINE last == i + Parallel - 1
<1>1. Parallel \in Nat /\ last \in Int /\ last - i + 1 = Parallel
  BY TileReadsAssumption
<1>2. IsFiniteSet(i..last) /\ Cardinality(i..last) <= Parallel
  <2> HIDE DEF last
  <2>1. IsFiniteSet(i..last) /\ Cardinality(i..last) = IF i > last THEN 0 ELSE last - i + 1
    BY <1>1, FS_Interval
  <2> QED
    BY <1>1, <2>1
<1>3. Cardinality(flying) <= Cardinality(i..(i + Parallel - 1))
  BY <1>2, FS_Subset
<1>4. Cardinality(flying) \in Nat /\ Cardinality(i..(i + Parallel - 1)) \in Nat
  BY <1>2, FS_Subset, FS_CardinalityType
<1> QED
  BY <1>1, <1>2, <1>3, <1>4

LEMMA InvRequestsSound ==
  IInv => RequestsSound
<1> SUFFICES ASSUME Typed, ReadsInv, NEW c \in Calls, NEW p \in Parts
             PROVE  /\ Cardinality(reads[c][p].flying) <= Parallel
                    /\ GroupsSound(reads[c][p].groups, ToSet(RealRanges(c, p)))
  BY DEF IInv, RequestsSound, GroupsSound
<1> DEFINE read == reads[c][p]
<1>1. ReadSound(read, Ranges(c, p)) /\ (file.mask = None /\ p = "mask" => read.stage = "none")
  BY DEF ReadsInv
<1>2. Cardinality(read.flying) <= Parallel
  <2>1. PICK i \in Nat : read.flying \subseteq i..(i + Parallel - 1)
    BY <1>1 DEF ReadSound
  <2> QED
    BY <2>1, FlyingBounded
<1>3. CASE read.groups = <<>>
  BY <1>2, <1>3 DEF GroupsSound
<1>4. CASE read.groups # <<>>
  <2>1. read.groups = mergeRanges(Real(Ranges(c, p))) /\ read.stage # "none"
    BY <1>1, <1>4 DEF ReadSound
  <2>2. Ranges(c, p) \in Ranged /\ Same(Ranges(c, p))
    BY <1>1, <2>1, CallRanges DEF Parts
  <2>3. GroupsSound(read.groups, ToSet(Real(Ranges(c, p))))
    BY <2>1, <2>2, MergedSound
  <2> QED
    BY <1>2, <2>3 DEF RealRanges
<1> QED
  BY <1>3, <1>4

LEMMA InvOwnPixels ==
  IInv => OwnPixels
<1> SUFFICES ASSUME Typed, ReadsInv, PoolInv, PixelsInv PROVE OwnPixels
  BY DEF IInv
<1>1. TypeOK
  <2>1. ASSUME NEW c \in Calls
        PROVE  /\ xy[c] \in Requests[c] \cup {<<>>}
               /\ phase[c] \in Phases
               /\ DOMAIN pixels[c] \subseteq (1..Len(xy[c])) \X (0..file.bands)
    <3>1. DOMAIN xy[c] = 1..Len(xy[c])
      BY DEF Typed
    <3> QED
      BY <3>1 DEF Typed, PixelsInv, Awaited
  <2>2. ASSUME NEW c \in Calls, NEW p \in Parts
        PROVE  /\ reads[c][p].stage \in Stages
               /\ reads[c][p].flying \subseteq DOMAIN reads[c][p].groups
               /\ DOMAIN reads[c][p].got \subseteq DOMAIN reads[c][p].groups
    <3> DEFINE r == reads[c][p]
    <3>1. ReadSound(r, Ranges(c, p))
      BY DEF ReadsInv
    <3>2. DOMAIN r.groups = 1..Len(r.groups) /\ Len(r.groups) \in Nat
      BY <3>1 DEF ReadSound, Ranged
    <3>3. r.flying \subseteq 1..Len(r.groups)
      <4>1. CASE r.stage = "fetching"
        <5>1. PICK top \in 0..Len(r.groups) : r.flying \cup DOMAIN r.got = 1..top
          BY <3>1, <4>1 DEF ReadSound
        <5> HIDE DEF r
        <5> QED
          BY <5>1, <3>2
      <4>2. CASE r.stage # "fetching"
        BY <3>1, <4>2 DEF ReadSound
      <4> QED
        BY <4>1, <4>2
    <3> HIDE DEF r
    <3>4. r.stage \in Stages /\ r.flying \subseteq DOMAIN r.groups /\ DOMAIN r.got \subseteq DOMAIN r.groups
      BY <3>1, <3>2, <3>3 DEF ReadSound
    <3> QED
      BY <3>4 DEF r
  <2>3. \A w \in WorkerIds :
          /\ pool.nextId[w] \in Nat
          /\ \A k \in pool.jobs[w] \cup pool.posted[w] : k.id < pool.nextId[w]
    BY DEF Typed, PoolInv
  <2> QED
    BY <2>1, <2>2, <2>3 DEF TypeOK, Typed, Phases, Stages
<1>2. LoadIsPending
  <2> SUFFICES ASSUME NEW w \in WorkerIds
               PROVE  {k.id : k \in pool.jobs[w]} = {m.id : m \in pool.posted[w]}
    BY DEF LoadIsPending
  <2> QED
    BY DEF PoolInv
<1>3. ASSUME NEW c \in Calls, phase[c] = "resolved", NEW i \in DOMAIN xy[c]
      PROVE  /\ \A b \in 1..file.bands : pixels[c][<<i, b>>] = file.data[xy[c][i]][b]
             /\ <<i, 0>> \in DOMAIN pixels[c] => pixels[c][<<i, 0>>] = file.mask[xy[c][i]]
             /\ Masked(c, i) => <<i, 0>> \in DOMAIN pixels[c]
  <2>1. /\ DOMAIN pixels[c] = Awaited(c)
        /\ \A k \in Awaited(c) : pixels[c][k] = Content(c, k[1], k[2])
    BY <1>3 DEF PixelsInv
  <2>2. file.bands \in Nat
    BY FilesAssumption DEF Typed
  <2>3. ASSUME NEW b \in 1..file.bands PROVE pixels[c][<<i, b>>] = file.data[xy[c][i]][b]
    <3>1. b > 0 /\ b \in 0..file.bands
      BY <2>2
    <3>2. <<i, b>> \in Awaited(c)
      BY <3>1 DEF Awaited
    <3>3. pixels[c][<<i, b>>] = Content(c, i, b)
      BY <2>1, <3>2
    <3> QED
      BY <3>1, <3>3 DEF Content
  <2>4. <<i, 0>> \in Awaited(c) => pixels[c][<<i, 0>>] = file.mask[xy[c][i]]
    BY <2>1 DEF Content
  <2>5. Masked(c, i) => <<i, 0>> \in Awaited(c)
    BY <2>2 DEF Awaited
  <2> QED
    BY <2>1, <2>3, <2>4, <2>5
<1> QED
  BY <1>1, <1>2, <1>3 DEF OwnPixels

-----------------------------------------------------------------------------
(* The invariant holds at first, and the steps of a read keep it.          *)

LEMMA InitInv ==
  Init => IInv
<1> SUFFICES ASSUME Init PROVE IInv
  OBVIOUS
<1>1. Typed
  <2>1. xy \in [Calls -> Seq(DOMAIN file.data)] /\ \A c \in Calls : xy[c] = <<>>
    BY DEF Init
  <2>2. pool \in [jobs   : [WorkerIds -> SUBSET [id : Nat, job : Job]],
                  posted : [WorkerIds -> SUBSET [id : Nat, bytes : ByteRange]],
                  nextId : [WorkerIds -> Nat]]
    BY DEF Init
  <2> QED
    BY <2>1, <2>2 DEF Init, Typed, Phases
<1>2. ReadsInv
  <2> SUFFICES ASSUME NEW c \in Calls
               PROVE  /\ \A p \in Parts : ReadSound(reads[c][p], Ranges(c, p)) /\ reads[c][p].stage = "none"
                      /\ phase[c] = "idle"
    BY DEF ReadsInv, Parts
  <2>1. phase[c] = "idle" /\ \A p \in Parts : reads[c][p] = Unread
    BY DEF Init
  <2>2. Unread.stage = "none"
    BY DEF Unread
  <2> QED
    BY <2>1, <2>2, UnreadSound
<1>3. PoolInv /\ QueueInv
  BY DEF Init, PoolInv, QueueInv
<1>4. PixelsInv
  <2> SUFFICES ASSUME NEW c \in Calls
               PROVE  DOMAIN pixels[c] = {} /\ xy[c] = <<>> /\ phase[c] = "idle"
    BY DEF PixelsInv
  <2> QED
    BY DEF Init
<1> QED
  BY <1>1, <1>2, <1>3, <1>4 DEF IInv

\* What a call reads and awaits depends on the file and on the tiles it asked for.
LEMMA Framed ==
  ASSUME file' = file, NEW c, xy'[c] = xy[c]
  PROVE  /\ \A p : Ranges(c, p)' = Ranges(c, p)
         /\ Awaited(c)' = Awaited(c)
         /\ \A i, b : Content(c, i, b)' = Content(c, i, b)
<1>1. \A p : Ranges(c, p)' = Ranges(c, p)
  BY DEF Ranges
<1>2. Awaited(c)' = Awaited(c)
  BY DEF Awaited, Masked
<1>3. \A i, b : Content(c, i, b)' = Content(c, i, b)
  BY DEF Content
<1> QED
  BY <1>1, <1>2, <1>3

\* Whether a read is sound after a step depends on the read and its ranges.
LEMMA ReadSoundNext ==
  ASSUME NEW d, NEW p, NEW read, reads'[d][p] = read, NEW ranges, Ranges(d, p)' = ranges
  PROVE  ReadSound(reads[d][p], Ranges(d, p))' <=> ReadSound(read, ranges)
<1>1. IsRead(reads[d][p])' <=> IsRead(read)
  BY DEF IsRead
<1>2. GotIsFetched(reads[d][p])' <=> GotIsFetched(read)
  BY DEF GotIsFetched
<1>3. Whole(reads[d][p], Ranges(d, p))' <=> Whole(read, ranges)
  BY <1>1, <1>2 DEF Whole
<1> QED
  BY <1>1, <1>2, <1>3 DEF ReadSound

LEMMA ReadsKept ==
  ASSUME reads' = reads, \A d \in Calls : \A p : Ranges(d, p)' = Ranges(d, p)
  PROVE  \A d \in Calls, p \in Parts :
           ReadSound(reads[d][p], Ranges(d, p))' <=> ReadSound(reads[d][p], Ranges(d, p))
BY ReadSoundNext

LEMMA SetReadIs ==
  ASSUME Typed, NEW c \in Calls, NEW p \in Parts, NEW read, SetRead(c, p, read)
  PROVE  /\ DOMAIN reads' = Calls
         /\ \A d \in Calls : DOMAIN reads'[d] = Parts
         /\ reads'[c][p] = read
         /\ \A d \in Calls, q \in Parts : d # c \/ q # p => reads'[d][q] = reads[d][q]
BY DEF Typed, SetRead

\* Jobs, messages and pixels stay as they are while what is awaited does, for
\* calls that decode.
LEMMA JobsKept ==
  ASSUME Typed, PoolInv, QueueInv, file' = file, pool' = pool, mainQueue' = mainQueue,
         \A c \in Calls : phase[c] \in {"decoding", "resolved", "rejected"} =>
           xy'[c] = xy[c] /\ phase'[c] \in {"decoding", "resolved", "rejected"}
  PROVE  PoolInv' /\ QueueInv'
<1>1. ASSUME NEW job \in Job, JobSound(job)
      PROVE  /\ JobSound(job)'
             /\ Content(job.call, job.tile, job.band)' = Content(job.call, job.tile, job.band)
  <2>1. job.call \in Calls /\ phase[job.call] \in {"decoding", "resolved", "rejected"}
    BY <1>1 DEF Job, JobSound
  <2> DEFINE c == job.call
  <2>2. /\ xy'[c] = xy[c] /\ phase'[c] \in {"decoding", "resolved", "rejected"}
    BY <2>1
  <2>3. Awaited(c)' = Awaited(c) /\ \A i, b : Content(c, i, b)' = Content(c, i, b)
    <3> HIDE DEF c
    <3> QED
      BY <2>2, Framed
  <2> QED
    BY <1>1, <2>2, <2>3 DEF JobSound
<1>2. PoolInv'
  <2>1. \A w \in WorkerIds : \A k \in pool.jobs[w] : k.job \in Job
    BY DEF Typed
  <2> QED
    BY <1>1, <2>1 DEF PoolInv
<1>3. QueueInv'
  <2>1. \A m \in mainQueue : m.job \in Job
    BY DEF Typed
  <2> QED
    BY <1>1, <2>1 DEF QueueInv
<1> QED
  BY <1>2, <1>3

\* A step of part p of call c, to a read that is sound.
ReadStep(c, p, read) ==
  /\ reads[c][p].stage # "none"
  /\ SetRead(c, p, read)
  /\ ReadSound(read, Ranges(c, p))
  /\ read.stage # "none"
  /\ p = "data" /\ read.stage = "done" => \A r \in ToSet(Ranges(c, "data")) : ~Sparse(r)
  /\ Reject(c) \/ UNCHANGED phase
  /\ UNCHANGED <<file, xy, pixels, pool, mainQueue, destroyed>>

LEMMA ReadStepInv ==
  ASSUME IInv, NEW c \in Calls, NEW p \in Parts, NEW read, ReadStep(c, p, read)
  PROVE  IInv'
<1>1. Typed /\ ReadsInv /\ PoolInv /\ QueueInv /\ PixelsInv
  BY DEF IInv
<1>2. /\ DOMAIN reads' = Calls
      /\ \A d \in Calls : DOMAIN reads'[d] = Parts
      /\ reads'[c][p] = read
      /\ \A d \in Calls, q \in Parts : d # c \/ q # p => reads'[d][q] = reads[d][q]
  BY <1>1, SetReadIs DEF ReadStep
<1>3. /\ phase' \in [Calls -> Phases]
      /\ \A d \in Calls : \/ phase'[d] = phase[d]
                          \/ phase[d] \in {"reading", "decoding"} /\ phase'[d] = "rejected"
  <2>1. phase \in [Calls -> Phases]
    BY <1>1 DEF Typed
  <2>2. CASE Reject(c)
    BY <2>1, <2>2 DEF Reject, Phases
  <2>3. CASE UNCHANGED phase
    BY <2>1, <2>3
  <2> QED
    BY <2>2, <2>3 DEF ReadStep
<1>4. /\ file' = file /\ xy' = xy /\ pixels' = pixels /\ pool' = pool
      /\ mainQueue' = mainQueue /\ destroyed' = destroyed
  BY DEF ReadStep
<1>5. \A d \in Calls : /\ \A q : Ranges(d, q)' = Ranges(d, q)
                       /\ Awaited(d)' = Awaited(d)
                       /\ \A i, b : Content(d, i, b)' = Content(d, i, b)
  BY <1>4, Framed
<1>6. Typed'
  BY <1>1, <1>2, <1>3, <1>4 DEF Typed
<1>7. ReadsInv'
  <2> SUFFICES ASSUME NEW d \in Calls
               PROVE  /\ \A q \in Parts : ReadSound(reads'[d][q], Ranges(d, q))
                      /\ file.mask = None => reads'[d]["mask"].stage = "none"
                      /\ phase'[d] = "reading" /\ file.mask # None => reads'[d]["mask"].stage # "none"
                      /\ reads'[d]["data"].stage = "done" => \A r \in ToSet(Ranges(d, "data")) : ~Sparse(r)
    <3>1. \A e \in Calls, q \in Parts : ReadSound(reads[e][q], Ranges(e, q))' <=> ReadSound(reads'[e][q], Ranges(e, q))
      BY ONLY <1>5, ReadSoundNext
    <3> QED
      BY <1>4, <1>5, <3>1 DEF ReadsInv
  <2>1. /\ \A q \in Parts : ReadSound(reads[d][q], Ranges(d, q))
        /\ file.mask = None => reads[d]["mask"].stage = "none"
        /\ phase[d] = "reading" /\ file.mask # None => reads[d]["mask"].stage # "none"
        /\ reads[d]["data"].stage = "done" => \A r \in ToSet(Ranges(d, "data")) : ~Sparse(r)
    BY <1>1 DEF ReadsInv
  <2>2. /\ reads[c][p].stage # "none" /\ read.stage # "none"
        /\ ReadSound(read, Ranges(c, p))
        /\ p = "data" /\ read.stage = "done" => \A r \in ToSet(Ranges(c, "data")) : ~Sparse(r)
    BY DEF ReadStep
  <2>3. phase'[d] = "reading" => phase[d] = "reading"
    BY <1>3
  <2>4. "data" \in Parts /\ "mask" \in Parts
    BY DEF Parts
  <2> QED
    BY <1>2, <2>1, <2>2, <2>3, <2>4
<1>8. PoolInv' /\ QueueInv'
  BY <1>1, <1>3, <1>4, JobsKept
<1>9. PixelsInv'
  <2> SUFFICES ASSUME NEW d \in Calls
               PROVE  /\ DOMAIN pixels[d] \subseteq Awaited(d)
                      /\ \A k \in DOMAIN pixels[d] : pixels[d][k] = Content(d, k[1], k[2])
                      /\ phase'[d] = "idle" => DOMAIN pixels[d] = {} /\ xy[d] = <<>>
                      /\ phase'[d] = "resolved" => DOMAIN pixels[d] = Awaited(d)
    BY <1>4, <1>5 DEF PixelsInv
  <2> QED
    BY <1>1, <1>3 DEF PixelsInv
<1> QED
  BY <1>6, <1>7, <1>8, <1>9 DEF IInv

LEMMA SizesFailInv ==
  ASSUME IInv, NEW c \in Calls, NEW p \in Parts, SizesFail(c, p)
  PROVE  IInv'
<1> DEFINE r == reads[c][p]
           read == [r EXCEPT !.stage = "failed"]
<1>1. ReadSound(r, Ranges(c, p)) /\ r.stage = "sizes"
  BY DEF IInv, ReadsInv, SizesFail
<1>2. ReadSound(read, Ranges(c, p)) /\ read.stage = "failed"
  <2> HIDE DEF r
  <2>1. /\ IsRead(read) /\ read.stage = "failed" /\ read.groups = r.groups
        /\ read.flying = r.flying /\ read.got = r.got
    BY <1>1 DEF ReadSound, IsRead
  <2>2. r.flying = {}
    BY <1>1 DEF ReadSound
  <2>3. GotIsFetched(read)
    BY <1>1, <2>1 DEF ReadSound, GotIsFetched
  <2> HIDE DEF read
  <2> QED
    BY <1>1, <2>1, <2>2, <2>3 DEF ReadSound, Stages
<1>3. ReadStep(c, p, read)
  <2> HIDE DEF read
  <2> QED
    BY <1>1, <1>2 DEF SizesFail, ReadStep, read
<1> HIDE DEF read
<1> QED
  BY <1>3, ReadStepInv

LEMMA FetchFailsInv ==
  ASSUME IInv, NEW c \in Calls, NEW p \in Parts, NEW g \in reads[c][p].flying, FetchFails(c, p, g)
  PROVE  IInv'
<1> DEFINE r == reads[c][p]
           read == Failed(r)
<1>1. ReadSound(r, Ranges(c, p)) /\ r.flying # {}
  BY DEF IInv, ReadsInv
<1>2. r.stage = "fetching"
  BY <1>1 DEF ReadSound
<1>3. ReadSound(read, Ranges(c, p)) /\ read.stage = "failed"
  BY <1>1, FailedSound
<1>4. SetRead(c, p, read) /\ Reject(c) /\ UNCHANGED <<file, xy, pixels, pool, mainQueue, destroyed>>
  BY DEF FetchFails, Failed
<1>5. ReadStep(c, p, read)
  <2> HIDE DEF read
  <2> QED
    BY <1>2, <1>3, <1>4 DEF ReadStep
<1> HIDE DEF read
<1> QED
  BY <1>5, ReadStepInv

\* A part that has all its groups is done or fails.
LEMMA ConcludeInv ==
  ASSUME IInv, NEW c \in Calls, NEW p \in Parts, NEW read, Whole(read, Ranges(c, p)),
         reads[c][p].stage # "none", Conclude(c, p, read),
         UNCHANGED <<file, xy, pixels, pool, mainQueue, destroyed>>
  PROVE  IInv'
<1> DEFINE outcome == Outcome(c, p, read)
           next == [read EXCEPT !.stage = outcome]
<1>1. outcome \in {"failed", "done"}
  BY DEF Outcome
<1>2. ReadSound(next, Ranges(c, p))
  <2> HIDE DEF outcome
  <2> QED
    BY <1>1, WholeSound
<1>3. next.stage = outcome
  <2> HIDE DEF outcome
  <2> QED
    BY DEF Whole, IsRead
<1>4. p = "data" /\ outcome = "done" => \A r \in ToSet(Ranges(c, "data")) : ~Sparse(r)
  BY DEF Outcome
<1>5. SetRead(c, p, next) /\ (Reject(c) \/ UNCHANGED phase)
  BY DEF Conclude
<1>6. ReadStep(c, p, next)
  <2> HIDE DEF next, outcome
  <2> QED
    BY <1>1, <1>2, <1>3, <1>4, <1>5 DEF ReadStep
<1> HIDE DEF next
<1> QED
  BY <1>6, ReadStepInv

LEMMA SizesKnownInv ==
  ASSUME IInv, NEW c \in Calls, NEW p \in Parts, SizesKnown(c, p)
  PROVE  IInv'
<1> DEFINE ranges == Ranges(c, p)
           groups == mergeRanges(RealRanges(c, p))
           read == [stage |-> "fetching", groups |-> groups,
                    flying |-> Batch(groups, 1), got |-> <<>>]
<1>1. reads[c][p].stage = "sizes"
  BY DEF SizesKnown
<1>2. ranges \in Ranged /\ Same(ranges)
  <2>1. file.mask = None => p # "mask"
    BY <1>1 DEF IInv, ReadsInv
  <2> QED
    BY <2>1, CallRanges DEF IInv, Parts
<1>3. Real(ranges) \in Ranged /\ groups = mergeRanges(Real(ranges)) /\ groups \in Ranged
  <2>1. Real(ranges) \in Ranged /\ mergeRanges(Real(ranges)) \in Ranged
    <3> HIDE DEF ranges
    <3> QED
      BY <1>2, RealSame
  <2> QED
    BY <2>1 DEF RealRanges
<1>4. IF groups = <<>> THEN Whole(read, ranges) ELSE ReadSound(read, ranges)
  <2> HIDE DEF groups, ranges
  <2> QED
    BY <1>3, FirstSound
<1>5. /\ IF groups = <<>> THEN Conclude(c, p, read) ELSE SetRead(c, p, read) /\ UNCHANGED phase
      /\ UNCHANGED <<file, xy, pixels, pool, mainQueue, destroyed>>
  BY DEF SizesKnown
<1>6. read.stage = "fetching"
  OBVIOUS
<1> HIDE DEF groups, read
<1>7. CASE groups = <<>>
  BY <1>1, <1>4, <1>5, <1>7, ConcludeInv
<1>8. CASE groups # <<>>
  <2>1. ReadStep(c, p, read)
    BY <1>1, <1>4, <1>5, <1>6, <1>8 DEF ReadStep
  <2> QED
    BY <2>1, ReadStepInv
<1> QED
  BY <1>7, <1>8

LEMMA FetchAnswersInv ==
  ASSUME IInv, NEW c \in Calls, NEW p \in Parts, NEW g \in reads[c][p].flying, FetchAnswers(c, p, g)
  PROVE  IInv'
<1> DEFINE r == reads[c][p]
           ranges == Ranges(c, p)
           read == Arrive(r, g)
           next == NextBatch(read)
<1>1. ReadSound(r, ranges) /\ r.stage = "fetching"
  <2>1. ReadSound(r, ranges) /\ r.flying # {}
    BY DEF IInv, ReadsInv
  <2> QED
    BY <2>1 DEF ReadSound
<1>2. /\ IF read.flying # {} THEN SetRead(c, p, read) /\ UNCHANGED phase
         ELSE IF next.flying # {} THEN SetRead(c, p, next) /\ UNCHANGED phase
              ELSE Conclude(c, p, next)
      /\ UNCHANGED <<file, xy, pixels, pool, mainQueue, destroyed>>
  BY DEF FetchAnswers
<1>3. read.flying # {} => ReadSound(read, ranges)
  <2> HIDE DEF ranges
  <2> QED
    BY <1>1, ArrivedSound
<1>4. read.flying = {} => IF next.flying = {} THEN Whole(next, ranges) ELSE ReadSound(next, ranges)
  <2> HIDE DEF ranges
  <2> QED
    BY <1>1, NextBatchSound
<1> HIDE DEF read, next
<1>5. \A s : ReadSound(s, ranges) /\ s.flying # {} => s.stage = "fetching"
  BY DEF ReadSound
<1>6. CASE read.flying # {}
  <2>1. ReadStep(c, p, read)
    BY <1>1, <1>2, <1>3, <1>5, <1>6 DEF ReadStep
  <2> QED
    BY <2>1, ReadStepInv
<1>7. CASE read.flying = {} /\ next.flying # {}
  <2>1. ReadStep(c, p, next)
    BY <1>1, <1>2, <1>4, <1>5, <1>7 DEF ReadStep
  <2> QED
    BY <2>1, ReadStepInv
<1>8. CASE read.flying = {} /\ next.flying = {}
  BY <1>1, <1>2, <1>4, <1>8, ConcludeInv
<1> QED
  BY <1>6, <1>7, <1>8

LEMMA FetchTilesInv ==
  ASSUME IInv, NEW c \in Calls, FetchTiles(c)
  PROVE  IInv'
<1>1. Typed /\ ReadsInv /\ PoolInv /\ QueueInv /\ PixelsInv
  BY DEF IInv
<1>2. PICK q \in Requests[c] :
        /\ xy' = [xy EXCEPT ![c] = q]
        /\ phase' = [phase EXCEPT ![c] = IF q = <<>> THEN "resolved" ELSE "reading"]
        /\ reads' = [reads EXCEPT ![c] = [p \in Parts |->
             IF q = <<>> \/ (p = "mask" /\ file.mask = None)
               THEN Unread ELSE [Unread EXCEPT !.stage = "sizes"]]]
  BY DEF FetchTiles
<1>3. /\ phase[c] = "idle" /\ file' = file /\ pixels' = pixels /\ pool' = pool
      /\ mainQueue' = mainQueue /\ destroyed' = destroyed
  BY DEF FetchTiles
<1>4. q \in Seq(DOMAIN file.data)
  BY <1>1, FilesAssumption DEF Typed
<1>5. /\ xy'[c] = q /\ \A d \in Calls \ {c} : xy'[d] = xy[d]
      /\ phase'[c] = (IF q = <<>> THEN "resolved" ELSE "reading")
      /\ \A d \in Calls \ {c} : phase'[d] = phase[d]
      /\ \A p \in Parts : reads'[c][p] = IF q = <<>> \/ (p = "mask" /\ file.mask = None)
                                         THEN Unread ELSE [Unread EXCEPT !.stage = "sizes"]
      /\ \A d \in Calls \ {c} : reads'[d] = reads[d]
      /\ DOMAIN reads' = Calls /\ \A d \in Calls : DOMAIN reads'[d] = Parts
  BY <1>1, <1>2 DEF Typed
<1>6. \A d \in Calls \ {c} : /\ \A p : Ranges(d, p)' = Ranges(d, p)
                             /\ Awaited(d)' = Awaited(d)
                             /\ \A i, b : Content(d, i, b)' = Content(d, i, b)
  BY <1>3, <1>5, Framed
<1>7. Typed'
  <2>1. xy' \in [Calls -> Seq(DOMAIN file.data)] /\ phase' \in [Calls -> Phases]
    <3>1. xy \in [Calls -> Seq(DOMAIN file.data)] /\ phase \in [Calls -> Phases]
      BY <1>1 DEF Typed
    <3> QED
      BY <1>2, <1>4, <3>1 DEF Phases
  <2>2. \A d \in Calls : xy'[d] \in Requests[d] \cup {<<>>}
    BY <1>1, <1>5 DEF Typed
  <2> QED
    BY <1>1, <1>3, <1>5, <2>1, <2>2 DEF Typed
<1>8. ReadsInv'
  <2> SUFFICES ASSUME NEW d \in Calls
               PROVE  /\ \A p \in Parts : ReadSound(reads[d][p], Ranges(d, p))'
                      /\ file.mask = None => reads'[d]["mask"].stage = "none"
                      /\ phase'[d] = "reading" /\ file.mask # None => reads'[d]["mask"].stage # "none"
                      /\ reads'[d]["data"].stage = "done" =>
                           \A r \in ToSet(Ranges(d, "data")') : ~Sparse(r)
    BY <1>3 DEF ReadsInv
  <2>1. CASE d = c
    <3>1. Unread.stage = "none" /\ [Unread EXCEPT !.stage = "sizes"].stage = "sizes"
      BY DEF Unread
    <3>2. \A p \in Parts : reads'[c][p] = Unread \/ reads'[c][p] = [Unread EXCEPT !.stage = "sizes"]
      BY <1>5
    <3>3. \A p \in Parts : ReadSound(reads'[c][p], Ranges(c, p)')
      BY <3>2, UnreadSound
    <3>4. \A p \in Parts : ReadSound(reads[c][p], Ranges(c, p))' <=> ReadSound(reads'[c][p], Ranges(c, p)')
      BY ONLY ReadSoundNext
    <3>5. "data" \in Parts /\ "mask" \in Parts
      BY DEF Parts
    <3> QED
      BY <1>5, <2>1, <3>1, <3>2, <3>3, <3>4, <3>5
  <2>2. CASE d # c
    <3>1. reads'[d] = reads[d] /\ \A p \in Parts : Ranges(d, p)' = Ranges(d, p)
      BY <1>5, <1>6, <2>2
    <3>2. \A p \in Parts : ReadSound(reads[d][p], Ranges(d, p))' <=> ReadSound(reads[d][p], Ranges(d, p))
      BY ONLY <3>1, ReadSoundNext
    <3> QED
      BY <1>1, <1>5, <1>6, <2>2, <3>1, <3>2 DEF ReadsInv
  <2> QED
    BY <2>1, <2>2
<1>9. PoolInv' /\ QueueInv'
  <2>1. \A d \in Calls : phase[d] \in {"decoding", "resolved", "rejected"} =>
          xy'[d] = xy[d] /\ phase'[d] \in {"decoding", "resolved", "rejected"}
    BY <1>3, <1>5
  <2> QED
    BY <1>1, <1>3, <2>1, JobsKept
<1>10. PixelsInv'
  <2> SUFFICES ASSUME NEW d \in Calls
               PROVE  /\ DOMAIN pixels[d] \subseteq Awaited(d)'
                      /\ \A k \in DOMAIN pixels[d] : pixels[d][k] = Content(d, k[1], k[2])'
                      /\ phase'[d] = "idle" => DOMAIN pixels[d] = {} /\ xy'[d] = <<>>
                      /\ phase'[d] = "resolved" => DOMAIN pixels[d] = Awaited(d)'
    BY <1>3 DEF PixelsInv
  <2>1. CASE d = c
    <3>1. DOMAIN pixels[c] = {} /\ phase'[c] # "idle"
      BY <1>1, <1>3, <1>5 DEF PixelsInv
    <3>2. q = <<>> => Awaited(c)' = {}
      BY <1>5 DEF Awaited
    <3> QED
      BY <1>5, <2>1, <3>1, <3>2
  <2>2. CASE d # c
    BY <1>1, <1>5, <1>6, <2>2 DEF PixelsInv
  <2> QED
    BY <2>1, <2>2
<1> QED
  BY <1>7, <1>8, <1>9, <1>10 DEF IInv

-----------------------------------------------------------------------------
(* Submitting the jobs of a call.                                          *)

\* The jobs of call c, with the bytes of their bands and masks.
JobsOf(c) == {[job   |-> [call |-> c, tile |-> k[1], band |-> k[2]],
               bytes |-> Content(c, k[1], k[2])] : k \in Awaited(c)}

IsJob(c, j) ==
  /\ j \in [job : Job, bytes : ByteRange]
  /\ j.job.call = c
  /\ <<j.job.tile, j.job.band>> \in Awaited(c)
  /\ j.bytes = Content(j.job.call, j.job.tile, j.job.band)

LEMMA JobsOfSound ==
  ASSUME Typed, NEW c \in Calls
  PROVE  \A j \in JobsOf(c) : IsJob(c, j)
<1> SUFFICES ASSUME NEW j \in JobsOf(c) PROVE IsJob(c, j)
  OBVIOUS
<1>1. PICK k \in Awaited(c) :
        j = [job   |-> [call |-> c, tile |-> k[1], band |-> k[2]],
             bytes |-> Content(c, k[1], k[2])]
  BY DEF JobsOf
<1>2. /\ k[1] \in DOMAIN xy[c] /\ k[2] \in 0..file.bands /\ k = <<k[1], k[2]>>
      /\ k[2] > 0 \/ Masked(c, k[1])
  BY DEF Awaited
<1>3. file.bands \in Nat /\ xy[c] \in Seq(DOMAIN file.data) /\ file \in Files
  BY FilesAssumption DEF Typed
<1>4. k[1] \in Nat /\ k[2] \in Nat /\ xy[c][k[1]] \in DOMAIN file.data
  BY <1>2, <1>3
<1>5. Content(c, k[1], k[2]) \in ByteRange
  <2>1. CASE k[2] = 0
    <3>1. file.mask # None
      BY <1>2, <2>1 DEF Masked
    <3>2. file.mask \in [DOMAIN file.data -> ByteRange]
      BY <1>3, <3>1, FilesAssumption
    <3> QED
      BY <1>4, <2>1, <3>2 DEF Content
  <2>2. CASE k[2] # 0
    <3>1. k[2] \in 1..file.bands
      BY <1>2, <1>3, <2>2
    <3>2. ToSet(Ranges(c, "data")) \subseteq ByteRange
      BY CallRanges, SubSequences DEF Ranged
    <3>3. file.data[xy[c][k[1]]][k[2]] \in ToSet(Ranges(c, "data"))
      BY <1>2, <3>1, CallRanges
    <3> QED
      BY <2>2, <3>2, <3>3 DEF Content
  <2> QED
    BY <2>1, <2>2
<1> QED
  BY <1>1, <1>2, <1>4, <1>5 DEF Job, IsJob

LEMMA TileJobsAre ==
  ASSUME Typed, ReadsInv, NEW c \in Calls, NEW i \in DOMAIN xy[c],
         reads[c]["data"].stage = "done",
         file.mask # None => reads[c]["mask"].stage = "done"
  PROVE  TileJobs(c, i) \in Seq(JobsOf(c))
<1> DEFINE data == reads[c]["data"]
           mask == reads[c]["mask"]
           ranges == Ranges(c, "data")
           band(b) == [job   |-> [call |-> c, tile |-> i, band |-> b],
                       bytes |-> Slice(data, ranges[(i - 1) * file.bands + b])]
           last == [job   |-> [call |-> c, tile |-> i, band |-> 0],
                    bytes |-> Slice(mask, file.mask[xy[c][i]])]
           bands == [b \in 1..file.bands |-> band(b)]
<1>1. file.bands \in Nat
  BY FilesAssumption DEF Typed
<1>2. /\ ranges \in Ranged /\ Same(ranges)
      /\ Whole(data, ranges) /\ \A r \in ToSet(ranges) : ~Sparse(r)
  <2>1. Whole(data, ranges) /\ \A r \in ToSet(ranges) : ~Sparse(r)
    BY DEF ReadsInv, ReadSound, Parts
  <2> QED
    BY <2>1, CallRanges
<1>3. ASSUME NEW b \in 1..file.bands PROVE band(b) \in JobsOf(c)
  <2> DEFINE r == file.data[xy[c][i]][b]
  <2>1. ranges[(i - 1) * file.bands + b] = r /\ r \in ToSet(ranges)
    BY CallRanges
  <2>2. Slice(data, r) = r
    <3> HIDE DEF ranges, data, r
    <3> QED
      BY <1>2, <2>1, SliceIs
  <2>3. b > 0 /\ b \in 0..file.bands
    BY <1>1
  <2>4. Content(c, i, b) = r
    BY <2>3 DEF Content
  <2>5. <<i, b>> \in Awaited(c)
    BY <2>3 DEF Awaited
  <2>6. band(b) = [job |-> [call |-> c, tile |-> i, band |-> b], bytes |-> Content(c, i, b)]
    BY <2>1, <2>2, <2>4
  <2> HIDE DEF band
  <2> QED
    BY <2>5, <2>6 DEF JobsOf
<1>4. bands \in Seq(JobsOf(c))
  <2> HIDE DEF band
  <2> QED
    BY <1>1, <1>3
<1>5. CASE Masked(c, i)
  <2> DEFINE r == file.mask[xy[c][i]]
  <2>1. file.mask # None /\ ~Sparse(r)
    BY <1>5 DEF Masked
  <2>2. Whole(mask, Ranges(c, "mask"))
    BY <2>1 DEF ReadsInv, ReadSound, Parts
  <2>3. Ranges(c, "mask") \in Ranged /\ Same(Ranges(c, "mask")) /\ r \in ToSet(Ranges(c, "mask"))
    BY <2>1, CallRanges
  <2>4. Slice(mask, r) = r
    <3> HIDE DEF mask, r
    <3> QED
      BY <2>1, <2>2, <2>3, SliceIs
  <2>5. Content(c, i, 0) = r
    BY DEF Content
  <2>6. <<i, 0>> \in Awaited(c)
    BY <1>1, <1>5 DEF Awaited
  <2>7. last = [job |-> [call |-> c, tile |-> i, band |-> 0], bytes |-> Content(c, i, 0)]
    BY <2>4, <2>5
  <2>8. last \in JobsOf(c)
    <3> HIDE DEF last
    <3> QED
      BY <2>6, <2>7 DEF JobsOf
  <2>9. TileJobs(c, i) = Append(bands, last)
    BY <1>5 DEF TileJobs
  <2> HIDE DEF bands, last
  <2> QED
    BY <1>4, <2>8, <2>9
<1>6. CASE ~Masked(c, i)
  <2>1. TileJobs(c, i) = bands
    BY <1>6 DEF TileJobs
  <2> HIDE DEF bands
  <2> QED
    BY <1>4, <2>1
<1> QED
  BY <1>5, <1>6

LEMMA JobsAre ==
  ASSUME Typed, ReadsInv, NEW c \in Calls,
         reads[c]["data"].stage = "done",
         file.mask # None => reads[c]["mask"].stage = "done"
  PROVE  Jobs(c) \in Seq(JobsOf(c))
<1> DEFINE S == JobsOf(c)
           lists == [i \in DOMAIN xy[c] |-> TileJobs(c, i)]
<1>1. DOMAIN xy[c] = 1..Len(xy[c]) /\ Len(xy[c]) \in Nat
  BY DEF Typed
<1>2. \A i \in DOMAIN xy[c] : TileJobs(c, i) \in Seq(S)
  BY TileJobsAre
<1>3. lists \in Seq(Seq(S))
  <2> DEFINE T == Seq(S)
  <2> HIDE DEF T
  <2>1. lists \in Seq(T)
    BY <1>1, <1>2 DEF T
  <2> QED
    BY <2>1 DEF T
<1>4. Jobs(c) = FlattenSeq(lists)
  BY DEF Jobs
<1> HIDE DEF lists, S
<1>5. Jobs(c) \in Seq(S)
  BY <1>3, <1>4, FlattenType
<1> QED
  BY <1>5 DEF S

\* The jobs that are handed to worker w.
HandedTo(len, assigned, w) == {k \in 1..len : assigned[k] = w}

\* They are counted in their order.
LEMMA BeforeGrows ==
  ASSUME NEW len \in Nat, NEW assigned, NEW w
  PROVE  /\ \A n \in 1..len : Before(n, assigned, w) \in Nat
         /\ \A n, k \in 1..len : n < k /\ assigned[n] = w =>
              Before(n, assigned, w) < Before(k, assigned, w)
         /\ \A n \in 1..len : assigned[n] = w =>
              Before(n, assigned, w) < Cardinality(HandedTo(len, assigned, w))
         /\ Cardinality(HandedTo(len, assigned, w)) \in Nat
<1> DEFINE first(n) == {k \in 1..(n - 1) : assigned[k] = w}
<1>1. ASSUME NEW n \in 1..(len + 1)
      PROVE  IsFiniteSet(first(n)) /\ Cardinality(first(n)) \in Nat
  <2>1. n - 1 \in Int /\ 1 \in Int
    OBVIOUS
  <2>2. IsFiniteSet(1..(n - 1))
    BY <2>1, FS_Interval
  <2>3. IsFiniteSet(first(n))
    BY <2>2, FS_Subset
  <2> QED
    BY <2>3, FS_CardinalityType
<1>2. ASSUME NEW n \in 1..(len + 1), NEW k \in 1..(len + 1), n < k, assigned[n] = w
      PROVE  Cardinality(first(n)) < Cardinality(first(k))
  <2>1. first(n) \subseteq first(k) /\ n \in first(k) /\ n \notin first(n)
    BY <1>2
  <2>2. /\ Cardinality(first(n)) <= Cardinality(first(k))
        /\ Cardinality(first(n)) = Cardinality(first(k)) => first(n) = first(k)
    <3>1. IsFiniteSet(first(k)) /\ first(n) \in SUBSET first(k)
      BY <1>1, <2>1
    <3> HIDE DEF first
    <3> QED
      BY <3>1, FS_Subset
  <2>3. Cardinality(first(n)) \in Nat /\ Cardinality(first(k)) \in Nat
    BY <1>1
  <2> HIDE DEF first
  <2> QED
    BY <2>1, <2>2, <2>3
<1>3. len + 1 \in 1..(len + 1) /\ (len + 1) - 1 = len
      /\ \A n \in 1..len : n \in 1..(len + 1) /\ n < len + 1
  OBVIOUS
<1>4. first(len + 1) = HandedTo(len, assigned, w)
  BY <1>3 DEF HandedTo
<1>5. \A n : Before(n, assigned, w) = Cardinality(first(n))
  BY DEF Before
<1> HIDE DEF first
<1> QED
  BY <1>1, <1>2, <1>3, <1>4, <1>5

\* A worker's jobs and messages still pair up when more are handed to it.
LEMMA SubmitInv ==
  ASSUME Typed, PoolInv, NEW c \in Calls, NEW jobs \in Seq(JobsOf(c)),
         NEW assigned \in [DOMAIN jobs -> WorkerIds], SubmitAll(jobs, assigned),
         file' = file, xy' = xy, phase' = [phase EXCEPT ![c] = "decoding"],
         phase[c] = "reading"
  PROVE  /\ PoolInv'
         /\ pool' \in [jobs   : [WorkerIds -> SUBSET [id : Nat, job : Job]],
                       posted : [WorkerIds -> SUBSET [id : Nat, bytes : ByteRange]],
                       nextId : [WorkerIds -> Nat]]
<1> DEFINE len == Len(jobs)
           of(w) == {n \in DOMAIN jobs : assigned[n] = w}
           newJobs(w) == {[id |-> JobId(n, assigned), job |-> jobs[n].job] : n \in of(w)}
           newPosted(w) == {[id |-> JobId(n, assigned), bytes |-> jobs[n].bytes] : n \in of(w)}
<1>1. len \in Nat /\ DOMAIN jobs = 1..len /\ \A n \in 1..len : jobs[n] \in JobsOf(c)
  OBVIOUS
<1>2. /\ \A n \in 1..len : jobs[n].job \in Job /\ jobs[n].bytes \in ByteRange
      /\ \A n \in 1..len : /\ jobs[n].job.call = c
                           /\ <<jobs[n].job.tile, jobs[n].job.band>> \in Awaited(c)
                           /\ jobs[n].bytes = Content(jobs[n].job.call, jobs[n].job.tile, jobs[n].job.band)
  <2> SUFFICES ASSUME NEW n \in 1..len
               PROVE  /\ jobs[n].job \in Job /\ jobs[n].bytes \in ByteRange
                      /\ jobs[n].job.call = c
                      /\ <<jobs[n].job.tile, jobs[n].job.band>> \in Awaited(c)
                      /\ jobs[n].bytes = Content(jobs[n].job.call, jobs[n].job.tile, jobs[n].job.band)
    OBVIOUS
  <2> DEFINE j == jobs[n]
  <2>1. j \in JobsOf(c)
    BY <1>1
  <2> HIDE DEF j
  <2>2. /\ j \in [job : Job, bytes : ByteRange]
        /\ j.job.call = c
        /\ <<j.job.tile, j.job.band>> \in Awaited(c)
        /\ j.bytes = Content(j.job.call, j.job.tile, j.job.band)
    BY <2>1, JobsOfSound DEF IsJob
  <2> QED
    BY <2>2 DEF j
<1>3. \A w \in WorkerIds :
        /\ pool.nextId[w] \in Nat
        /\ pool.jobs[w] \subseteq [id : Nat, job : Job]
        /\ pool.posted[w] \subseteq [id : Nat, bytes : ByteRange]
  BY DEF Typed
<1>4. \A w \in WorkerIds : pool'.jobs[w] = pool.jobs[w] \cup newJobs(w)
  BY DEF SubmitAll
<1>5. \A w \in WorkerIds : pool'.posted[w] = pool.posted[w] \cup newPosted(w)
  BY DEF SubmitAll
<1>6. \A w \in WorkerIds : pool'.nextId[w] = pool.nextId[w] + Cardinality(of(w))
  BY DEF SubmitAll
<1>7. ASSUME NEW w \in WorkerIds
      PROVE  /\ of(w) = {n \in 1..len : assigned[n] = w}
             /\ Cardinality(of(w)) \in Nat
             /\ \A n \in of(w) : /\ n \in 1..len
                                 /\ JobId(n, assigned) \in Nat
                                 /\ JobId(n, assigned) >= pool.nextId[w]
                                 /\ JobId(n, assigned) < pool.nextId[w] + Cardinality(of(w))
             /\ \A n, k \in of(w) : JobId(n, assigned) = JobId(k, assigned) => n = k
  <2>1. of(w) = {n \in 1..len : assigned[n] = w}
    BY <1>1
  <2>2. \A n \in of(w) : n \in 1..len /\ assigned[n] = w
    BY <1>1
  <2>3. \A n \in of(w) : JobId(n, assigned) = pool.nextId[w] + Before(n, assigned, w)
    BY <2>2 DEF JobId
  <2>4. /\ \A n \in 1..len : Before(n, assigned, w) \in Nat
        /\ \A n, k \in 1..len : n < k /\ assigned[n] = w =>
             Before(n, assigned, w) < Before(k, assigned, w)
        /\ \A n \in 1..len : assigned[n] = w =>
             Before(n, assigned, w) < Cardinality(of(w))
        /\ Cardinality(of(w)) \in Nat
    <3>1. of(w) = HandedTo(len, assigned, w)
      BY <2>1 DEF HandedTo
    <3> HIDE DEF of, len
    <3> QED
      BY <1>1, <3>1, BeforeGrows
  <2>5. \A n, k \in of(w) : n < k \/ k < n \/ n = k
    <3> HIDE DEF of, len
    <3> QED
      BY <1>1, <2>2
  <2> HIDE DEF of, len
  <2>6. \A n \in of(w) : /\ JobId(n, assigned) \in Nat
                         /\ JobId(n, assigned) >= pool.nextId[w]
                         /\ JobId(n, assigned) < pool.nextId[w] + Cardinality(of(w))
    <3> SUFFICES ASSUME NEW n \in of(w)
                 PROVE  /\ JobId(n, assigned) \in Nat
                        /\ JobId(n, assigned) >= pool.nextId[w]
                        /\ JobId(n, assigned) < pool.nextId[w] + Cardinality(of(w))
      OBVIOUS
    <3> DEFINE next == pool.nextId[w]
               more == Cardinality(of(w))
               before == Before(n, assigned, w)
    <3>1. /\ next \in Nat /\ more \in Nat /\ before \in Nat /\ before < more
          /\ JobId(n, assigned) = next + before
      BY <1>3, <2>2, <2>3, <2>4
    <3> HIDE DEF next, more, before
    <3>2. next + before \in Nat /\ next + before >= next /\ next + before < next + more
      BY <3>1
    <3> QED
      BY <3>1, <3>2 DEF next, more
  <2>7. \A n, k \in of(w) : JobId(n, assigned) = JobId(k, assigned) => n = k
    <3> SUFFICES ASSUME NEW n \in of(w), NEW k \in of(w), JobId(n, assigned) = JobId(k, assigned)
                 PROVE  n = k
      OBVIOUS
    <3>1. Before(n, assigned, w) = Before(k, assigned, w)
      <4> DEFINE next == pool.nextId[w]
                 one == Before(n, assigned, w)
                 other == Before(k, assigned, w)
      <4>1. /\ next \in Nat /\ one \in Nat /\ other \in Nat
            /\ next + one = next + other
        BY <1>3, <2>2, <2>3, <2>4
      <4> HIDE DEF next, one, other
      <4>2. one = other
        BY <4>1
      <4> QED
        BY <4>2 DEF one, other
    <3>2. Before(n, assigned, w) \in Nat
      BY <2>2, <2>4
    <3> QED
      BY <2>2, <2>4, <2>5, <3>1, <3>2
  <2> QED
    BY <2>1, <2>2, <2>4, <2>6, <2>7
<1>8. \A d \in Calls : Awaited(d)' = Awaited(d) /\ \A i, b : Content(d, i, b)' = Content(d, i, b)
  BY Framed
<1>9. \A d \in Calls : phase[d] \in {"decoding", "resolved", "rejected"} =>
        phase'[d] \in {"decoding", "resolved", "rejected"}
  BY DEF Typed
<1>10. \A job \in Job : JobSound(job) => JobSound(job)'
  BY <1>8, <1>9 DEF JobSound, Job
<1>11. \A n \in 1..len : JobSound(jobs[n].job)'
  <2>1. phase'[c] = "decoding"
    BY DEF Typed
  <2> HIDE DEF len
  <2> QED
    BY <1>2, <1>8, <2>1 DEF JobSound
<1>12. \A job \in Job : Content(job.call, job.tile, job.band)' = Content(job.call, job.tile, job.band)
  BY <1>8 DEF Job
<1>13. PoolInv'
  <2> SUFFICES ASSUME NEW w \in WorkerIds
      PROVE  /\ \A k \in pool'.jobs[w] :
                  /\ k.id < pool'.nextId[w]
                  /\ JobSound(k.job)'
                  /\ \E m \in pool'.posted[w] : m.id = k.id
                  /\ \A m \in pool'.posted[w] :
                       m.id = k.id => m.bytes = Content(k.job.call, k.job.tile, k.job.band)'
             /\ \A m \in pool'.posted[w] :
                  /\ m.id < pool'.nextId[w]
                  /\ \E k \in pool'.jobs[w] : k.id = m.id
    BY DEF PoolInv
  <2> DEFINE next == pool.nextId[w]
             more == Cardinality(of(w))
             id(n) == JobId(n, assigned)
  <2>1. /\ next \in Nat /\ more \in Nat /\ pool'.nextId[w] = next + more
        /\ \A n \in of(w) : /\ n \in 1..len /\ id(n) \in Nat /\ id(n) >= next /\ id(n) < next + more
        /\ \A n, k \in of(w) : id(n) = id(k) => n = k
    BY <1>3, <1>6, <1>7
  <2>2. /\ \A k \in pool.jobs[w] :
             /\ k \in [id : Nat, job : Job]
             /\ k.id < next
             /\ JobSound(k.job)
             /\ \E m \in pool.posted[w] : m.id = k.id
             /\ \A m \in pool.posted[w] :
                  m.id = k.id => m.bytes = Content(k.job.call, k.job.tile, k.job.band)
        /\ \A m \in pool.posted[w] :
             /\ m \in [id : Nat, bytes : ByteRange]
             /\ m.id < next
             /\ \E k \in pool.jobs[w] : k.id = m.id
    BY <1>3 DEF PoolInv
  <2>3. /\ pool'.jobs[w] = pool.jobs[w] \cup newJobs(w)
        /\ pool'.posted[w] = pool.posted[w] \cup newPosted(w)
    BY <1>4, <1>5
  <2>4. /\ \A k \in newJobs(w) : \E n \in of(w) : k.id = id(n) /\ k.job = jobs[n].job
        /\ \A n \in of(w) : \E k \in newJobs(w) : k.id = id(n)
    <3> DEFINE new(n) == [id |-> id(n), job |-> jobs[n].job]
    <3>1. \A n : new(n).id = id(n) /\ new(n).job = jobs[n].job
      OBVIOUS
    <3>2. newJobs(w) = {new(n) : n \in of(w)}
      OBVIOUS
    <3> HIDE DEF new, id, of, newJobs
    <3> QED
      BY <3>1, <3>2
  <2>5. /\ \A m \in newPosted(w) : \E n \in of(w) : m.id = id(n) /\ m.bytes = jobs[n].bytes
        /\ \A n \in of(w) : \E m \in newPosted(w) : m.id = id(n)
    <3> DEFINE new(n) == [id |-> id(n), bytes |-> jobs[n].bytes]
    <3>1. \A n : new(n).id = id(n) /\ new(n).bytes = jobs[n].bytes
      OBVIOUS
    <3>2. newPosted(w) = {new(n) : n \in of(w)}
      OBVIOUS
    <3> HIDE DEF new, id, of, newPosted
    <3> QED
      BY <3>1, <3>2
  <2> HIDE DEF next, more, id, of, newJobs, newPosted, len
  <2>6. ASSUME NEW k \in pool.jobs[w]
        PROVE  /\ k.id < next + more
               /\ JobSound(k.job)'
               /\ \E m \in pool'.posted[w] : m.id = k.id
               /\ \A m \in pool'.posted[w] :
                    m.id = k.id => m.bytes = Content(k.job.call, k.job.tile, k.job.band)'
    <3>1. k.id \in Nat /\ k.job \in Job /\ k.id < next /\ JobSound(k.job)
      BY <2>2
    <3>2. \A m \in newPosted(w) : m.id # k.id
      BY <2>1, <2>5, <3>1
    <3> QED
      BY <1>10, <1>12, <2>1, <2>2, <2>3, <3>1, <3>2
  <2>7. ASSUME NEW k \in newJobs(w)
        PROVE  /\ k.id < next + more
               /\ JobSound(k.job)'
               /\ \E m \in pool'.posted[w] : m.id = k.id
               /\ \A m \in pool'.posted[w] :
                    m.id = k.id => m.bytes = Content(k.job.call, k.job.tile, k.job.band)'
    <3>1. PICK n \in of(w) : k.id = id(n) /\ k.job = jobs[n].job
      BY <2>4
    <3>2. n \in 1..len /\ id(n) \in Nat /\ id(n) >= next /\ id(n) < next + more
      BY <2>1
    <3>3. \A m \in pool.posted[w] : m.id \in Nat /\ m.id < next
      BY <2>2
    <3>4. \A m \in pool.posted[w] : m.id # k.id
      BY <2>1, <3>1, <3>2, <3>3
    <3>5. \A m \in newPosted(w) : m.id = k.id => m.bytes = jobs[n].bytes
      <4> SUFFICES ASSUME NEW m \in newPosted(w), m.id = k.id PROVE m.bytes = jobs[n].bytes
        OBVIOUS
      <4>1. PICK l \in of(w) : m.id = id(l) /\ m.bytes = jobs[l].bytes
        BY <2>5
      <4>2. l = n
        BY <2>1, <3>1, <4>1
      <4> QED
        BY <4>1, <4>2
    <3>6. jobs[n].bytes = Content(k.job.call, k.job.tile, k.job.band)'
      BY <1>2, <1>12, <3>1, <3>2
    <3>7. JobSound(k.job)'
      BY <1>11, <3>1, <3>2
    <3> QED
      BY <2>3, <2>5, <3>1, <3>2, <3>4, <3>5, <3>6, <3>7
  <2>8. ASSUME NEW m \in pool.posted[w]
        PROVE  m.id < next + more /\ \E k \in pool'.jobs[w] : k.id = m.id
    <3>1. m.id \in Nat /\ m.id < next
      BY <2>2
    <3> QED
      BY <2>1, <2>2, <2>3, <3>1
  <2>9. ASSUME NEW m \in newPosted(w)
        PROVE  m.id < next + more /\ \E k \in pool'.jobs[w] : k.id = m.id
    <3>1. PICK n \in of(w) : m.id = id(n)
      BY <2>5
    <3>2. PICK k \in newJobs(w) : k.id = id(n)
      BY <2>4
    <3>3. k \in pool'.jobs[w]
      BY <2>3
    <3> QED
      BY <2>1, <3>1, <3>2, <3>3
  <2> QED
    BY <2>1, <2>3, <2>6, <2>7, <2>8, <2>9
<1>14. \A w \in WorkerIds :
         /\ newJobs(w) \subseteq [id : Nat, job : Job]
         /\ newPosted(w) \subseteq [id : Nat, bytes : ByteRange]
  <2> SUFFICES ASSUME NEW w \in WorkerIds, NEW n \in of(w)
               PROVE  /\ [id |-> JobId(n, assigned), job |-> jobs[n].job] \in [id : Nat, job : Job]
                      /\ [id |-> JobId(n, assigned), bytes |-> jobs[n].bytes] \in [id : Nat, bytes : ByteRange]
    OBVIOUS
  <2> HIDE DEF of, len
  <2> QED
    BY <1>2, <1>7
<1>15. pool' = [jobs   |-> [w \in WorkerIds |-> pool.jobs[w] \cup newJobs(w)],
                posted |-> [w \in WorkerIds |-> pool.posted[w] \cup newPosted(w)],
                nextId |-> [w \in WorkerIds |-> pool.nextId[w] + Cardinality(of(w))]]
  BY DEF SubmitAll
<1>16. \A w \in WorkerIds : pool.nextId[w] + Cardinality(of(w)) \in Nat
  <2> HIDE DEF of
  <2> QED
    BY <1>3, <1>7
<1>17. pool' \in [jobs   : [WorkerIds -> SUBSET [id : Nat, job : Job]],
                  posted : [WorkerIds -> SUBSET [id : Nat, bytes : ByteRange]],
                  nextId : [WorkerIds -> Nat]]
  <2> HIDE DEF newJobs, newPosted, of
  <2> QED
    BY <1>3, <1>14, <1>15, <1>16
<1> QED
  BY <1>13, <1>17

LEMMA AssembleInv ==
  ASSUME IInv, NEW c \in Calls, Assemble(c)
  PROVE  IInv'
<1>1. Typed /\ ReadsInv /\ PoolInv /\ QueueInv /\ PixelsInv
  BY DEF IInv
<1> DEFINE jobs == Jobs(c)
<1>2. /\ phase[c] = "reading" /\ phase' = [phase EXCEPT ![c] = "decoding"]
      /\ file' = file /\ xy' = xy /\ reads' = reads /\ pixels' = pixels /\ destroyed' = destroyed
      /\ \/ /\ mainQueue' = mainQueue
            /\ \E assigned \in [DOMAIN jobs -> WorkerIds] : SubmitAll(jobs, assigned)
         \/ /\ mainQueue' = mainQueue \cup ToSet(jobs)
            /\ pool' = pool
  BY DEF Assemble
<1>3. jobs \in Seq(JobsOf(c))
  <2>1. file.mask # None => reads[c]["mask"].stage = "done"
    BY <1>1, <1>2 DEF Assemble, ReadsInv
  <2> QED
    BY <1>1, <2>1, JobsAre DEF Assemble
<1> HIDE DEF jobs
<1>4. \A d \in Calls : /\ \A p : Ranges(d, p)' = Ranges(d, p)
                       /\ Awaited(d)' = Awaited(d)
                       /\ \A i, b : Content(d, i, b)' = Content(d, i, b)
  BY <1>2, Framed
<1>5. /\ phase' \in [Calls -> Phases] /\ phase'[c] = "decoding"
      /\ \A d \in Calls \ {c} : phase'[d] = phase[d]
  BY <1>1, <1>2 DEF Typed, Phases
<1>6. \A job \in Job : /\ JobSound(job) => JobSound(job)'
                       /\ Content(job.call, job.tile, job.band)' = Content(job.call, job.tile, job.band)
  <2> SUFFICES ASSUME NEW job \in Job
               PROVE  /\ JobSound(job) => JobSound(job)'
                      /\ Content(job.call, job.tile, job.band)' = Content(job.call, job.tile, job.band)
    OBVIOUS
  <2>1. job.call \in Calls
    BY DEF Job
  <2> QED
    BY <1>2, <1>4, <1>5, <2>1 DEF JobSound
<1>7. /\ PoolInv' /\ QueueInv'
      /\ pool' \in [jobs   : [WorkerIds -> SUBSET [id : Nat, job : Job]],
                    posted : [WorkerIds -> SUBSET [id : Nat, bytes : ByteRange]],
                    nextId : [WorkerIds -> Nat]]
      /\ mainQueue' \subseteq [job : Job, bytes : ByteRange]
  <2>0. \A m \in mainQueue : m.job \in Job
    BY <1>1 DEF Typed
  <2>1. CASE mainQueue' = mainQueue /\ \E assigned \in [DOMAIN jobs -> WorkerIds] : SubmitAll(jobs, assigned)
    <3>1. PICK assigned \in [DOMAIN jobs -> WorkerIds] : SubmitAll(jobs, assigned)
      BY <2>1
    <3>2. /\ PoolInv'
          /\ pool' \in [jobs   : [WorkerIds -> SUBSET [id : Nat, job : Job]],
                        posted : [WorkerIds -> SUBSET [id : Nat, bytes : ByteRange]],
                        nextId : [WorkerIds -> Nat]]
      BY <1>1, <1>2, <1>3, <3>1, SubmitInv
    <3>3. QueueInv'
      BY <1>1, <1>6, <2>0, <2>1 DEF QueueInv
    <3> QED
      BY <1>1, <2>1, <3>2, <3>3 DEF Typed
  <2>2. CASE mainQueue' = mainQueue \cup ToSet(jobs) /\ pool' = pool
    <3>1. ToSet(jobs) \subseteq JobsOf(c)
      BY <1>3, SubSequences
    <3>2. \A j \in JobsOf(c) : IsJob(c, j)
      BY <1>1, JobsOfSound
    <3>3. \A j \in ToSet(jobs) : /\ j.job \in Job
                                 /\ JobSound(j.job)'
                                 /\ j.bytes = Content(j.job.call, j.job.tile, j.job.band)'
      <4> SUFFICES ASSUME NEW j \in ToSet(jobs)
                   PROVE  /\ j.job \in Job
                          /\ JobSound(j.job)'
                          /\ j.bytes = Content(j.job.call, j.job.tile, j.job.band)'
        OBVIOUS
      <4>1. /\ j.job \in Job /\ j.job.call = c
            /\ <<j.job.tile, j.job.band>> \in Awaited(c)
            /\ j.bytes = Content(j.job.call, j.job.tile, j.job.band)
        BY <3>1, <3>2 DEF IsJob
      <4> QED
        BY <1>4, <1>5, <1>6, <4>1 DEF JobSound
    <3>4. QueueInv'
      BY <1>1, <1>6, <2>0, <2>2, <3>3 DEF QueueInv
    <3>5. PoolInv'
      <4>1. \A w \in WorkerIds : \A k \in pool.jobs[w] : k.job \in Job
        BY <1>1 DEF Typed
      <4> QED
        BY <1>1, <1>6, <2>2, <4>1 DEF PoolInv
    <3>6. mainQueue' \subseteq [job : Job, bytes : ByteRange]
      BY <1>1, <2>2, <3>1, <3>2 DEF Typed, IsJob
    <3> QED
      BY <1>1, <2>2, <3>4, <3>5, <3>6 DEF Typed
  <2> QED
    BY <1>2, <2>1, <2>2
<1>8. Typed'
  BY <1>1, <1>2, <1>5, <1>7 DEF Typed
<1>9. ReadsInv'
  <2> SUFFICES ASSUME NEW d \in Calls
               PROVE  /\ \A p \in Parts : ReadSound(reads[d][p], Ranges(d, p))
                      /\ file.mask = None => reads[d]["mask"].stage = "none"
                      /\ phase'[d] = "reading" /\ file.mask # None => reads[d]["mask"].stage # "none"
                      /\ reads[d]["data"].stage = "done" => \A r \in ToSet(Ranges(d, "data")) : ~Sparse(r)
    BY <1>2, <1>4, ReadsKept DEF ReadsInv
  <2> QED
    BY <1>1, <1>5 DEF ReadsInv
<1>10. PixelsInv'
  <2> SUFFICES ASSUME NEW d \in Calls
               PROVE  /\ DOMAIN pixels[d] \subseteq Awaited(d)
                      /\ \A k \in DOMAIN pixels[d] : pixels[d][k] = Content(d, k[1], k[2])
                      /\ phase'[d] = "idle" => DOMAIN pixels[d] = {} /\ xy[d] = <<>>
                      /\ phase'[d] = "resolved" => DOMAIN pixels[d] = Awaited(d)
    BY <1>2, <1>4 DEF PixelsInv
  <2> QED
    BY <1>1, <1>5 DEF PixelsInv
<1> QED
  BY <1>7, <1>8, <1>9, <1>10 DEF IInv

-----------------------------------------------------------------------------
(* Decoding.                                                               *)

\* A sound job is decoded to its own bytes, or is not; others are as before.
LEMMA DecodeStep ==
  ASSUME IInv, NEW job \in Job, JobSound(job),
         NEW bytes, bytes = Content(job.call, job.tile, job.band),
         NotDecoded(job) \/ Decoded(job, bytes),
         file' = file, xy' = xy, reads' = reads
  PROVE  /\ phase' \in [Calls -> Phases]
         /\ DOMAIN pixels' = Calls
         /\ ReadsInv'
         /\ PixelsInv'
         /\ \A j \in Job : /\ JobSound(j) => JobSound(j)'
                           /\ Content(j.call, j.tile, j.band)' = Content(j.call, j.tile, j.band)
<1>1. Typed /\ ReadsInv /\ PixelsInv
  BY DEF IInv
<1> DEFINE c == job.call
           at == <<job.tile, job.band>>
           all == [k \in DOMAIN pixels[c] \cup {at} |-> IF k = at THEN bytes ELSE pixels[c][k]]
<1>2. /\ c \in Calls /\ phase[c] \in {"decoding", "resolved", "rejected"} /\ at \in Awaited(c)
      /\ bytes = Content(c, at[1], at[2])
  BY DEF Job, JobSound
<1>3. \A d \in Calls : /\ \A p : Ranges(d, p)' = Ranges(d, p)
                       /\ Awaited(d)' = Awaited(d)
                       /\ \A i, b : Content(d, i, b)' = Content(d, i, b)
  BY Framed
<1>4. /\ phase' \in [Calls -> Phases] /\ DOMAIN pixels' = Calls
      /\ \A d \in Calls \ {c} : phase'[d] = phase[d] /\ pixels'[d] = pixels[d]
      /\ phase'[c] \in {"decoding", "resolved", "rejected"}
      /\ \/ pixels'[c] = pixels[c] /\ phase'[c] # "resolved"
         \/ pixels'[c] = pixels[c] /\ phase'[c] = phase[c]
         \/ pixels'[c] = all /\ (phase'[c] = phase[c] \/ DOMAIN all = Awaited(c))
  <2>1. phase \in [Calls -> Phases] /\ DOMAIN pixels = Calls
    BY <1>1 DEF Typed
  <2>2. CASE NotDecoded(job)
    <3>1. phase' = [phase EXCEPT ![c] = IF @ = "reading" \/ @ = "decoding" THEN "rejected" ELSE @]
          /\ pixels' = pixels
      BY <2>2 DEF NotDecoded, Reject
    <3> HIDE DEF c, at, all
    <3> QED
      BY <1>2, <2>1, <3>1 DEF Phases
  <2>3. CASE Decoded(job, bytes)
    <3>1. /\ pixels' = [pixels EXCEPT ![c] = all]
          /\ phase' = [phase EXCEPT ![c] =
               IF @ = "decoding" /\ DOMAIN all = Awaited(c) THEN "resolved" ELSE @]
      BY <2>3 DEF Decoded
    <3> HIDE DEF c, at, all
    <3> QED
      BY <1>2, <2>1, <3>1 DEF Phases
  <2> QED
    BY <2>2, <2>3
<1>5. /\ DOMAIN all = DOMAIN pixels[c] \cup {at}
      /\ \A k \in DOMAIN all : all[k] = IF k = at THEN bytes ELSE pixels[c][k]
  OBVIOUS
<1> HIDE DEF c, at, all
<1>6. ReadsInv'
  <2> SUFFICES ASSUME NEW d \in Calls
               PROVE  /\ \A p \in Parts : ReadSound(reads[d][p], Ranges(d, p))
                      /\ file.mask = None => reads[d]["mask"].stage = "none"
                      /\ phase'[d] = "reading" /\ file.mask # None => reads[d]["mask"].stage # "none"
                      /\ reads[d]["data"].stage = "done" => \A r \in ToSet(Ranges(d, "data")) : ~Sparse(r)
    BY <1>3, ReadsKept DEF ReadsInv
  <2> QED
    BY <1>1, <1>2, <1>4 DEF ReadsInv
<1>7. PixelsInv'
  <2> SUFFICES ASSUME NEW d \in Calls
               PROVE  /\ DOMAIN pixels'[d] \subseteq Awaited(d)
                      /\ \A k \in DOMAIN pixels'[d] : pixels'[d][k] = Content(d, k[1], k[2])
                      /\ phase'[d] = "idle" => DOMAIN pixels'[d] = {} /\ xy[d] = <<>>
                      /\ phase'[d] = "resolved" => DOMAIN pixels'[d] = Awaited(d)
    BY <1>3 DEF PixelsInv
  <2>1. /\ DOMAIN pixels[d] \subseteq Awaited(d)
        /\ \A k \in DOMAIN pixels[d] : pixels[d][k] = Content(d, k[1], k[2])
        /\ phase[d] = "idle" => DOMAIN pixels[d] = {} /\ xy[d] = <<>>
        /\ phase[d] = "resolved" => DOMAIN pixels[d] = Awaited(d)
    BY <1>1 DEF PixelsInv
  <2>2. CASE d # c
    BY <1>4, <2>1, <2>2
  <2>3. CASE d = c
    <3>1. phase'[c] # "idle"
      BY <1>4
    <3>2. CASE pixels'[c] = pixels[c] /\ (phase'[c] # "resolved" \/ phase'[c] = phase[c])
      BY <2>1, <2>3, <3>1, <3>2
    <3>3. CASE pixels'[c] = all /\ (phase'[c] = phase[c] \/ DOMAIN all = Awaited(c))
      <4>1. DOMAIN all \subseteq Awaited(c)
        BY <1>2, <1>5, <2>1, <2>3
      <4>2. \A k \in DOMAIN all : all[k] = Content(c, k[1], k[2])
        BY <1>2, <1>5, <2>1, <2>3
      <4>3. phase'[c] = "resolved" => DOMAIN all = Awaited(c)
        BY <1>2, <1>5, <2>1, <2>3, <3>3
      <4> QED
        BY <2>3, <3>1, <3>3, <4>1, <4>2, <4>3
    <3> QED
      BY <1>4, <3>2, <3>3
  <2> QED
    BY <2>2, <2>3
<1>8. \A j \in Job : /\ JobSound(j) => JobSound(j)'
                     /\ Content(j.call, j.tile, j.band)' = Content(j.call, j.tile, j.band)
  <2> SUFFICES ASSUME NEW j \in Job
               PROVE  /\ JobSound(j) => JobSound(j)'
                      /\ Content(j.call, j.tile, j.band)' = Content(j.call, j.tile, j.band)
    OBVIOUS
  <2>1. j.call \in Calls
    BY DEF Job
  <2> QED
    BY <1>3, <1>4, <2>1 DEF JobSound
<1> QED
  BY <1>4, <1>6, <1>7, <1>8

LEMMA WorkerAnswersInv ==
  ASSUME IInv, NEW w \in WorkerIds, NEW m \in pool.posted[w], WorkerAnswers(w, m)
  PROVE  IInv'
<1>1. Typed /\ PoolInv /\ QueueInv
  BY DEF IInv
<1>2. PICK k \in pool.jobs[w] : k.id = m.id /\ (NotDecoded(k.job) \/ Decoded(k.job, m.bytes))
  BY DEF WorkerAnswers
<1>3. file' = file /\ xy' = xy /\ reads' = reads /\ mainQueue' = mainQueue /\ destroyed' = destroyed
  BY DEF WorkerAnswers
<1>4. /\ k.job \in Job /\ JobSound(k.job)
      /\ m.bytes = Content(k.job.call, k.job.tile, k.job.band)
  BY <1>1, <1>2 DEF Typed, PoolInv
<1>5. /\ phase' \in [Calls -> Phases]
      /\ DOMAIN pixels' = Calls
      /\ ReadsInv'
      /\ PixelsInv'
      /\ \A j \in Job : /\ JobSound(j) => JobSound(j)'
                        /\ Content(j.call, j.tile, j.band)' = Content(j.call, j.tile, j.band)
  BY <1>2, <1>3, <1>4, DecodeStep
<1>6. /\ pool' = [pool EXCEPT !.posted[w] = @ \ {m}, !.jobs[w] = {j \in @ : j.id # m.id}]
  BY DEF WorkerAnswers, Answered
<1>7. /\ pool' \in [jobs   : [WorkerIds -> SUBSET [id : Nat, job : Job]],
                    posted : [WorkerIds -> SUBSET [id : Nat, bytes : ByteRange]],
                    nextId : [WorkerIds -> Nat]]
      /\ pool'.nextId = pool.nextId
      /\ pool'.posted[w] = pool.posted[w] \ {m}
      /\ pool'.jobs[w] = {j \in pool.jobs[w] : j.id # m.id}
      /\ \A v \in WorkerIds \ {w} : pool'.posted[v] = pool.posted[v] /\ pool'.jobs[v] = pool.jobs[v]
  <2> DEFINE jobsLeft == [pool.jobs EXCEPT ![w] = {j \in pool.jobs[w] : j.id # m.id}]
             postedLeft == [pool.posted EXCEPT ![w] = pool.posted[w] \ {m}]
  <2>1. pool \in [jobs   : [WorkerIds -> SUBSET [id : Nat, job : Job]],
                 posted : [WorkerIds -> SUBSET [id : Nat, bytes : ByteRange]],
                 nextId : [WorkerIds -> Nat]]
    BY <1>1 DEF Typed
  <2>2. pool' = [jobs |-> jobsLeft, posted |-> postedLeft, nextId |-> pool.nextId]
    BY ONLY <1>6, <2>1
  <2>3. jobsLeft \in [WorkerIds -> SUBSET [id : Nat, job : Job]]
    BY ONLY <2>1, w \in WorkerIds
  <2>4. postedLeft \in [WorkerIds -> SUBSET [id : Nat, bytes : ByteRange]]
    BY ONLY <2>1, w \in WorkerIds
  <2>5. /\ postedLeft[w] = pool.posted[w] \ {m}
        /\ jobsLeft[w] = {j \in pool.jobs[w] : j.id # m.id}
        /\ \A v \in WorkerIds \ {w} : postedLeft[v] = pool.posted[v] /\ jobsLeft[v] = pool.jobs[v]
    BY ONLY <2>1, w \in WorkerIds
  <2> HIDE DEF jobsLeft, postedLeft
  <2>6. pool'.jobs = jobsLeft /\ pool'.posted = postedLeft /\ pool'.nextId = pool.nextId
    BY ONLY <2>2
  <2>7. pool.nextId \in [WorkerIds -> Nat]
    BY ONLY <2>1
  <2>8. pool' \in [jobs   : [WorkerIds -> SUBSET [id : Nat, job : Job]],
                  posted : [WorkerIds -> SUBSET [id : Nat, bytes : ByteRange]],
                  nextId : [WorkerIds -> Nat]]
    BY ONLY <2>2, <2>3, <2>4, <2>7
  <2> QED
    BY ONLY <2>5, <2>6, <2>8
<1>8. PoolInv'
  <2> SUFFICES ASSUME NEW v \in WorkerIds
      PROVE  /\ \A j \in pool'.jobs[v] :
                  /\ j.id < pool.nextId[v]
                  /\ JobSound(j.job)'
                  /\ \E n \in pool'.posted[v] : n.id = j.id
                  /\ \A n \in pool'.posted[v] :
                       n.id = j.id => n.bytes = Content(j.job.call, j.job.tile, j.job.band)'
             /\ \A n \in pool'.posted[v] :
                  /\ n.id < pool.nextId[v]
                  /\ \E j \in pool'.jobs[v] : j.id = n.id
    BY <1>7 DEF PoolInv
  <2>1. /\ \A j \in pool.jobs[v] :
             /\ j.job \in Job
             /\ j.id < pool.nextId[v]
             /\ JobSound(j.job)
             /\ \E n \in pool.posted[v] : n.id = j.id
             /\ \A n \in pool.posted[v] :
                  n.id = j.id => n.bytes = Content(j.job.call, j.job.tile, j.job.band)
        /\ \A n \in pool.posted[v] :
             /\ n \in [id : Nat, bytes : ByteRange]
             /\ n.id < pool.nextId[v]
             /\ \E j \in pool.jobs[v] : j.id = n.id
    BY <1>1 DEF Typed, PoolInv
  <2>2. CASE v # w
    BY <1>5, <1>7, <2>1, <2>2
  <2>3. CASE v = w
    <3>1. \A n \in pool.posted[w] : n.id = m.id => n = m
      <4> SUFFICES ASSUME NEW n \in pool.posted[w], n.id = m.id PROVE n = m
        OBVIOUS
      <4>1. n \in [id : Nat, bytes : ByteRange] /\ m \in [id : Nat, bytes : ByteRange]
        BY <2>1, <2>3
      <4>2. n.bytes = m.bytes
        BY <1>2, <1>4, <2>1, <2>3
      <4> QED
        BY <4>1, <4>2
    <3> QED
      BY <1>5, <1>7, <2>1, <2>3, <3>1
  <2> QED
    BY <2>2, <2>3
<1>9. QueueInv'
  <2>1. \A n \in mainQueue : n.job \in Job
    BY <1>1 DEF Typed
  <2> QED
    BY <1>1, <1>3, <1>5, <2>1 DEF QueueInv
<1>10. Typed'
  BY <1>1, <1>3, <1>5, <1>7 DEF Typed
<1> QED
  BY <1>5, <1>8, <1>9, <1>10 DEF IInv

LEMMA MainDecodesInv ==
  ASSUME IInv, NEW m \in mainQueue, MainDecodes(m)
  PROVE  IInv'
<1>1. Typed /\ PoolInv /\ QueueInv
  BY DEF IInv
<1>2. /\ NotDecoded(m.job) \/ Decoded(m.job, m.bytes)
      /\ mainQueue' = mainQueue \ {m}
      /\ file' = file /\ xy' = xy /\ reads' = reads /\ pool' = pool /\ destroyed' = destroyed
  BY DEF MainDecodes
<1>3. /\ m.job \in Job /\ JobSound(m.job)
      /\ m.bytes = Content(m.job.call, m.job.tile, m.job.band)
  BY <1>1 DEF Typed, QueueInv
<1>4. /\ phase' \in [Calls -> Phases]
      /\ DOMAIN pixels' = Calls
      /\ ReadsInv'
      /\ PixelsInv'
      /\ \A j \in Job : /\ JobSound(j) => JobSound(j)'
                        /\ Content(j.call, j.tile, j.band)' = Content(j.call, j.tile, j.band)
  BY <1>2, <1>3, DecodeStep
<1>5. PoolInv'
  <2>1. \A w \in WorkerIds : \A k \in pool.jobs[w] : k.job \in Job
    BY <1>1 DEF Typed
  <2> QED
    BY <1>1, <1>2, <1>4, <2>1 DEF PoolInv
<1>6. QueueInv'
  <2>1. \A n \in mainQueue : n.job \in Job
    BY <1>1 DEF Typed
  <2> QED
    BY <1>1, <1>2, <1>4, <2>1 DEF QueueInv
<1>7. Typed'
  BY <1>1, <1>2, <1>4 DEF Typed
<1> QED
  BY <1>4, <1>5, <1>6, <1>7 DEF IInv

LEMMA DestroyInv ==
  ASSUME IInv, Destroy
  PROVE  IInv'
<1>1. Typed /\ ReadsInv /\ PoolInv /\ QueueInv /\ PixelsInv
  BY DEF IInv
<1>2. /\ destroyed' = TRUE
      /\ file' = file /\ xy' = xy /\ phase' = phase /\ reads' = reads
      /\ pixels' = pixels /\ mainQueue' = mainQueue
      /\ pool' = [pool EXCEPT !.jobs = [w \in WorkerIds |-> {}],
                              !.posted = [w \in WorkerIds |-> {}]]
  BY DEF Destroy
<1>3. /\ pool' \in [jobs   : [WorkerIds -> SUBSET [id : Nat, job : Job]],
                    posted : [WorkerIds -> SUBSET [id : Nat, bytes : ByteRange]],
                    nextId : [WorkerIds -> Nat]]
      /\ \A w \in WorkerIds : pool'.jobs[w] = {} /\ pool'.posted[w] = {}
  BY <1>1, <1>2 DEF Typed
<1>4. PoolInv'
  BY <1>3 DEF PoolInv
<1>5. Typed'
  BY <1>1, <1>2, <1>3 DEF Typed
<1>6. \A d \in Calls : /\ \A p : Ranges(d, p)' = Ranges(d, p)
                       /\ Awaited(d)' = Awaited(d)
                       /\ \A i, b : Content(d, i, b)' = Content(d, i, b)
  BY <1>2, Framed
<1>7. ReadsInv'
  BY <1>1, <1>2, <1>6, ReadsKept DEF ReadsInv
<1>8. PixelsInv'
  BY <1>1, <1>2, <1>6 DEF PixelsInv
<1>9. QueueInv'
  <2> SUFFICES ASSUME NEW m \in mainQueue
               PROVE  JobSound(m.job)' /\ m.bytes = Content(m.job.call, m.job.tile, m.job.band)'
    BY <1>2 DEF QueueInv
  <2>1. /\ m.job.call \in Calls
        /\ JobSound(m.job)
        /\ m.bytes = Content(m.job.call, m.job.tile, m.job.band)
    BY <1>1 DEF Typed, Job, QueueInv
  <2>2. phase' = phase
    BY <1>2
  <2> QED
    BY ONLY <1>6, <2>1, <2>2 DEF JobSound
<1> QED
  BY <1>4, <1>5, <1>7, <1>8, <1>9 DEF IInv

-----------------------------------------------------------------------------
(* The invariant, and what follows from it.                                *)

\* A step that changes nothing.
LEMMA Unmoved ==
  ASSUME IInv, file' = file, xy' = xy, phase' = phase, reads' = reads, pixels' = pixels,
         pool' = pool, mainQueue' = mainQueue, destroyed' = destroyed
  PROVE  IInv'
<1>1. Typed /\ ReadsInv /\ PoolInv /\ QueueInv /\ PixelsInv
  BY DEF IInv
<1>2. Typed'
  BY <1>1 DEF Typed
<1>3. \A d \in Calls : /\ \A p : Ranges(d, p)' = Ranges(d, p)
                       /\ Awaited(d)' = Awaited(d)
                       /\ \A i, b : Content(d, i, b)' = Content(d, i, b)
  BY Framed
<1>4. ReadsInv'
  BY <1>1, <1>3, ReadsKept DEF ReadsInv
<1>5. PoolInv' /\ QueueInv'
  BY <1>1, JobsKept
<1>6. PixelsInv'
  BY <1>1, <1>3 DEF PixelsInv
<1> QED
  BY <1>2, <1>4, <1>5, <1>6 DEF IInv

LEMMA NextInv ==
  ASSUME IInv, [Next]_vars
  PROVE  IInv'
<1>1. ASSUME NEW c \in Calls, FetchTiles(c) PROVE IInv'
  BY <1>1, FetchTilesInv
<1>2. ASSUME NEW c \in Calls, Assemble(c) PROVE IInv'
  BY <1>2, AssembleInv
<1>3. ASSUME NEW c \in Calls, NEW p \in Parts, Sizes(c, p) PROVE IInv'
  BY <1>3, SizesFailInv, SizesKnownInv DEF Sizes
<1>4. ASSUME NEW c \in Calls, NEW p \in Parts, Answers(c, p) PROVE IInv'
  <2>1. PICK g \in reads[c][p].flying : FetchFails(c, p, g) \/ FetchAnswers(c, p, g)
    BY <1>4 DEF Answers
  <2> QED
    BY <2>1, FetchFailsInv, FetchAnswersInv
<1>5. ASSUME NEW w \in WorkerIds, Worker(w) PROVE IInv'
  BY <1>5, WorkerAnswersInv DEF Worker
<1>6. CASE Main
  BY <1>6, MainDecodesInv DEF Main
<1>7. CASE Destroy
  BY <1>7, DestroyInv
<1>8. CASE UNCHANGED vars
  <2>1. /\ file' = file /\ xy' = xy /\ phase' = phase /\ reads' = reads /\ pixels' = pixels
        /\ pool' = pool /\ mainQueue' = mainQueue /\ destroyed' = destroyed
    BY <1>8 DEF vars
  <2> QED
    BY <2>1, Unmoved
<1> QED
  BY <1>1, <1>2, <1>3, <1>4, <1>5, <1>6, <1>7, <1>8 DEF Next

\* Whatever was merged, answered out of order or decoded for other calls, a
\* call that resolves has the pixels of exactly the tiles it asked for
\* (fetchTiles of fetch.ts with the decoder pool of pool/pool.ts).
THEOREM PixelsAreOwn == Spec => []OwnPixels
<1>1. Init => IInv
  BY InitInv
<1>2. IInv /\ [Next]_vars => IInv'
  BY NextInv
<1>3. IInv => OwnPixels
  BY InvOwnPixels
<1> QED
  BY <1>1, <1>2, <1>3, PTL DEF Spec

\* For every file and all limits, the merged requests of a read cover its tiles,
\* stay within the limits, join all that may be joined, and are in flight a batch
\* at a time (mergeRanges, findGroupIndex and dispatchMerged of coalesce.ts).
THEOREM RequestsAreSound == Spec => []RequestsSound
<1>1. Init => IInv
  BY InitInv
<1>2. IInv /\ [Next]_vars => IInv'
  BY NextInv
<1>3. IInv => RequestsSound
  BY InvRequestsSound
<1> QED
  BY <1>1, <1>2, <1>3, PTL DEF Spec
=============================================================================
