--------------------------- MODULE MemPoolsProofs ---------------------------
(***************************************************************************)
(* Proofs about the memory pools and the mapping under them (MemPools,     *)
(* Mmap).  The first part is about lists of ranges: sorting, merging,      *)
(* cutting and inserting, whatever the ranges are.                         *)
(***************************************************************************)
EXTENDS MemPools, FiniteSetTheorems, WellFoundedInduction, TLAPS

-----------------------------------------------------------------------------
(* Loops over a list.                                                        *)

(* Induction over the naturals, for a set: what the library states for a     *)
(* predicate.                                                                *)
LEMMA Induction ==
    ASSUME NEW S \in SUBSET Nat, 0 \in S, \A k \in S : k + 1 \in S
    PROVE  S = Nat
<1> SUFFICES ASSUME Nat \ S # {} PROVE FALSE
  OBVIOUS
<1> DEFINE R == OpToRel(<, Nat)
<1>1. IsWellFoundedOn(R, Nat)
  BY NatLessThanWellFounded
<1>2. \A x, y \in Nat : <<x, y>> \in R <=> x < y
  BY DEF OpToRel
<1> HIDE DEF R
<1>3. PICK x \in Nat \ S : \A y \in Nat \ S : ~(<<y, x>> \in R)
  BY <1>1, WFMin
<1>4. x # 0 /\ x - 1 \in Nat /\ x - 1 < x
  BY <1>3
<1>5. x - 1 \in S
  BY <1>2, <1>3, <1>4
<1> QED
  BY <1>3, <1>4, <1>5

-----------------------------------------------------------------------------
(* Lists of ranges.                                                          *)
Ranges == Seq(Int \X Int)
Whole(s) == s \in Ranges /\ \A i \in DOMAIN s : s[i][1] < s[i][2]
Separated(s) == \A i, j \in DOMAIN s : i < j => s[i][2] < s[j][1]
Ascending(s) == \A i, j \in DOMAIN s : i < j => s[i][1] <= s[j][1]
In(s, x) == \E i \in DOMAIN s : s[i][1] <= x /\ x < s[i][2]
Has(s, r) == \E i \in DOMAIN s : s[i] = r

(* A loop that builds a list from n items has a result after every item. *)
LEMMA LoopRuns ==
    ASSUME NEW n \in Nat, NEW st \in [1..n -> [Ranges -> Ranges]]
    PROVE  \E f \in [0..n -> Ranges] : f[0] = << >> /\ \A k \in 1..n : f[k] = st[k][f[k - 1]]
<1> DEFINE Run1(m, f) == f \in [0..m -> Ranges] /\ f[0] = << >> /\ \A k \in 1..m : f[k] = st[k][f[k - 1]]
           S == {m \in Nat : m <= n => \E f : Run1(m, f)}
<1>0. << >> \in Ranges
  BY DEF Ranges
<1>1. 0 \in S
  <2> DEFINE f == [k \in 0..0 |-> << >>]
  <2>1. Run1(0, f)
    <3>1. 0 \in 0..0 /\ 1..0 = {}
      OBVIOUS
    <3>2. f[0] = << >>
      BY <3>1
    <3> QED BY <1>0, <3>1, <3>2
  <2> HIDE DEF f, Run1
  <2> QED BY <2>1
<1>2. ASSUME NEW m \in S PROVE m + 1 \in S
  <2>0. m \in Nat
    OBVIOUS
  <2> SUFFICES ASSUME m + 1 <= n PROVE \E f : Run1(m + 1, f)
    <3> HIDE DEF Run1
    <3> QED BY <2>0
  <2>1. PICK f : Run1(m, f)
    <3> HIDE DEF Run1
    <3> QED BY <2>0
  <2> DEFINE g == [k \in 0..(m + 1) |-> IF k <= m THEN f[k] ELSE st[m + 1][f[m]]]
  <2>2. m + 1 \in 1..n /\ f[m] \in Ranges
    BY <2>0, <2>1
  <2>3. st[m + 1][f[m]] \in Ranges
    BY <2>2
  <2>4. g \in [0..(m + 1) -> Ranges]
    BY <2>0, <2>1, <2>3
  <2>5. g[0] = << >>
    BY <2>0, <2>1
  <2>6. ASSUME NEW k \in 1..(m + 1) PROVE g[k] = st[k][g[k - 1]]
    <3>1. k - 1 \in 0..(m + 1) /\ k - 1 <= m /\ k \in 0..(m + 1)
      BY <2>0
    <3>2. g[k - 1] = f[k - 1]
      BY <3>1
    <3>3. CASE k = m + 1
      <4>1. k - 1 = m /\ ~(k <= m)
        BY <2>0, <3>3
      <4> QED BY <3>1, <3>2, <3>3, <4>1
    <3>4. CASE k # m + 1
      <4>1. k \in 1..m
        BY <2>0, <3>4
      <4> QED BY <2>1, <3>1, <3>2, <4>1
    <3> QED BY <3>3, <3>4
  <2>7. Run1(m + 1, g)
    BY <2>4, <2>5, <2>6
  <2> HIDE DEF g, Run1
  <2> QED BY <2>7
<1>3. S = Nat
  <2> HIDE DEF S
  <2>1. S \in SUBSET Nat
    BY DEF S
  <2> QED BY <1>1, <1>2, <2>1, Induction
<1>4. PICK f : Run1(n, f)
  <2> HIDE DEF Run1
  <2> QED BY <1>3
<1> QED
  BY <1>4

LEMMA ListTyped ==
    ASSUME NEW s, Whole(s), NEW i \in DOMAIN s
    PROVE  /\ Len(s) \in Nat /\ DOMAIN s = 1..Len(s) /\ i \in 1..Len(s) /\ Len(s) > 0
           /\ s[i] \in Int \X Int /\ s[i][1] \in Int /\ s[i][2] \in Int /\ s[i][1] < s[i][2]
           /\ s[i] = <<s[i][1], s[i][2]>>
BY DEF Whole, Ranges

(* What a range is, apart from where it stands in the list. *)
LEMMA HasTyped ==
    ASSUME NEW s, Whole(s), NEW r, Has(s, r)
    PROVE  r \in Int \X Int /\ r[1] \in Int /\ r[2] \in Int /\ r[1] < r[2] /\ r = <<r[1], r[2]>>
BY ListTyped DEF Has

LEMMA InHas ==
    ASSUME NEW s, NEW x
    PROVE  In(s, x) <=> \E r : Has(s, r) /\ r[1] <= x /\ x < r[2]
BY DEF In, Has

(* Two lists, one behind the other. *)
LEMMA Concat ==
    ASSUME NEW s, NEW t, Whole(s), Whole(t)
    PROVE  /\ Whole(s \o t)
           /\ \A r : Has(s \o t, r) <=> Has(s, r) \/ Has(t, r)
           /\ Separated(s) /\ Separated(t) /\ (\A r, q : Has(s, r) /\ Has(t, q) => r[2] < q[1])
              => Separated(s \o t)
<1> DEFINE u == s \o t
<1>1. s \in Ranges /\ t \in Ranges /\ Len(s) \in Nat /\ Len(t) \in Nat
      /\ DOMAIN s = 1..Len(s) /\ DOMAIN t = 1..Len(t)
  BY DEF Whole, Ranges
<1>2. u \in Ranges /\ Len(u) = Len(s) + Len(t) /\ DOMAIN u = 1..Len(u)
  BY <1>1 DEF Ranges
<1>3. ASSUME NEW i \in DOMAIN u
      PROVE  \/ i \in DOMAIN s /\ u[i] = s[i]
             \/ i > Len(s) /\ i - Len(s) \in DOMAIN t /\ u[i] = t[i - Len(s)]
  BY <1>1, <1>2 DEF Ranges
<1>4. \A i \in DOMAIN s : i \in DOMAIN u /\ u[i] = s[i]
  BY <1>1, <1>2 DEF Ranges
<1>5. \A i \in DOMAIN t : i + Len(s) \in DOMAIN u /\ u[i + Len(s)] = t[i]
  BY <1>1, <1>2 DEF Ranges
<1>6. Whole(u)
  BY <1>1, <1>2, <1>3 DEF Whole
<1> HIDE DEF u
<1>7. ASSUME NEW r PROVE Has(u, r) <=> Has(s, r) \/ Has(t, r)
  BY <1>3, <1>4, <1>5 DEF Has
<1>8. ASSUME Separated(s), Separated(t), \A r, q : Has(s, r) /\ Has(t, q) => r[2] < q[1]
      PROVE  Separated(u)
  <2> SUFFICES ASSUME NEW i \in DOMAIN u, NEW j \in DOMAIN u, i < j PROVE u[i][2] < u[j][1]
    BY DEF Separated
  <2>1. CASE i \in DOMAIN s /\ u[i] = s[i] /\ j \in DOMAIN s /\ u[j] = s[j]
    BY <2>1, <1>8 DEF Separated
  <2>2. CASE i \in DOMAIN s /\ u[i] = s[i] /\ j - Len(s) \in DOMAIN t /\ u[j] = t[j - Len(s)]
    BY <2>2, <1>8 DEF Has
  <2>3. CASE /\ i > Len(s) /\ i - Len(s) \in DOMAIN t /\ u[i] = t[i - Len(s)]
             /\ j - Len(s) \in DOMAIN t /\ u[j] = t[j - Len(s)]
    <3>1. i - Len(s) < j - Len(s)
      BY <1>1, <1>2
    <3> QED BY <2>3, <3>1, <1>8 DEF Separated
  <2>4. ~(i > Len(s) /\ j \in DOMAIN s)
    BY <1>1, <1>2
  <2> QED BY <1>3, <2>1, <2>2, <2>3, <2>4
<1> QED
  BY <1>6, <1>7, <1>8 DEF u

LEMMA EmptyList ==
    Whole(<< >>) /\ Separated(<< >>) /\ (\A r : ~Has(<< >>, r)) /\ (\A x : ~In(<< >>, x))
BY DEF Whole, Separated, Has, In, Ranges

LEMMA OneRange ==
    ASSUME NEW r \in Int \X Int, r[1] < r[2]
    PROVE  Whole(<<r>>) /\ Separated(<<r>>) /\ (\A q : Has(<<r>>, q) <=> q = r)
BY DEF Whole, Separated, Has, Ranges

(* The part of a list that NonEmpty() keeps. *)
LEMMA KeptRange ==
    ASSUME NEW a \in Int, NEW b \in Int
    PROVE  /\ Whole(NonEmpty(<<a, b>>)) /\ Separated(NonEmpty(<<a, b>>))
           /\ \A q : Has(NonEmpty(<<a, b>>), q) <=> a < b /\ q = <<a, b>>
<1>1. CASE a < b
  BY <1>1, OneRange, <<a, b>> \in Int \X Int DEF NonEmpty
<1>2. CASE ~(a < b)
  BY <1>2, EmptyList DEF NonEmpty
<1> QED BY <1>1, <1>2

LEMMA FunctionIsList ==
    ASSUME NEW X, NEW n \in Nat, NEW u \in [1..n -> X]
    PROVE  u \in Seq(X) /\ Len(u) = n /\ DOMAIN u = 1..n
OBVIOUS

(* A piece of a list. *)
LEMMA Piece ==
    ASSUME NEW s, Whole(s), NEW a \in 1..(Len(s) + 1), NEW b \in 0..Len(s)
    PROVE  /\ Whole(SubSeq(s, a, b))
           /\ \A r : Has(SubSeq(s, a, b), r) <=> \E i \in DOMAIN s : a <= i /\ i <= b /\ s[i] = r
           /\ Separated(s) => Separated(SubSeq(s, a, b))
<1> DEFINE u == SubSeq(s, a, b)
<1>1. s \in Ranges /\ Len(s) \in Nat /\ DOMAIN s = 1..Len(s)
  BY DEF Whole, Ranges
<1>2. u \in Ranges /\ DOMAIN u = 1..(IF a <= b THEN b - a + 1 ELSE 0)
      /\ \A k \in DOMAIN u : k + a - 1 \in DOMAIN s /\ u[k] = s[k + a - 1]
  <2> DEFINE n == IF a <= b THEN b - a + 1 ELSE 0
  <2>1. n \in Nat /\ u = [k \in 1..n |-> s[k + a - 1]]
    BY <1>1 DEF Ranges
  <2>2. \A k \in 1..n : k + a - 1 \in DOMAIN s
    BY <1>1
  <2>3. \A k \in DOMAIN s : s[k] \in Int \X Int
    BY <1>1 DEF Ranges
  <2> HIDE DEF u, n
  <2>4. u \in [1..n -> Int \X Int]
    BY <2>1, <2>2, <2>3
  <2>5. u \in Ranges
    BY <2>1, <2>4, FunctionIsList DEF Ranges
  <2> QED BY <2>1, <2>2, <2>4, <2>5 DEF n
<1> HIDE DEF u
<1>3. Whole(u)
  BY <1>2 DEF Whole
<1>4. ASSUME NEW i \in DOMAIN s, a <= i, i <= b PROVE i - a + 1 \in DOMAIN u /\ u[i - a + 1] = s[i]
  <2>1. i - a + 1 \in DOMAIN u
    BY <1>1, <1>2, <1>4
  <2>2. (i - a + 1) + a - 1 = i
    BY <1>1
  <2> QED BY <2>1, <2>2, <1>2
<1>5. ASSUME NEW r PROVE Has(u, r) <=> \E i \in DOMAIN s : a <= i /\ i <= b /\ s[i] = r
  <2>1. ASSUME NEW k \in DOMAIN u, u[k] = r PROVE \E i \in DOMAIN s : a <= i /\ i <= b /\ s[i] = r
    <3>1. k + a - 1 \in DOMAIN s /\ a <= k + a - 1 /\ k + a - 1 <= b
      BY <1>1, <1>2
    <3> QED BY <3>1, <2>1, <1>2
  <2> QED BY <1>4, <2>1 DEF Has
<1>6. ASSUME Separated(s), NEW k \in DOMAIN u, NEW l \in DOMAIN u, k < l PROVE u[k][2] < u[l][1]
  <2>1. k + a - 1 \in DOMAIN s /\ l + a - 1 \in DOMAIN s /\ k + a - 1 < l + a - 1
    BY <1>2, <1>6
  <2> QED BY <2>1, <1>2, <1>6 DEF Separated
<1> QED
  BY <1>3, <1>5, <1>6 DEF u, Separated

(* Lists one behind the other: FlattenSeq() is a loop that appends them. *)
LEMMA FlattenLoop ==
    ASSUME NEW p \in Seq(Ranges), Len(p) > 0
    PROVE  \E f \in [1..Len(p) -> Ranges] :
              /\ FlattenSeq(p) = f[Len(p)] /\ f[1] = p[1]
              /\ \A k \in 2..Len(p) : f[k] = f[k - 1] \o p[k]
<1> DEFINE n == Len(p)
           st == [k \in 1..n |-> [s \in Ranges |-> s \o p[k]]]
<1>1. n \in Nat /\ \A k \in 1..n : p[k] \in Ranges
  OBVIOUS
<1>2. st \in [1..n -> [Ranges -> Ranges]]
  BY <1>1 DEF Ranges
<1>3. << >> \in Ranges
  BY DEF Ranges
<1>4. PICK f \in [0..n -> Ranges] : f[0] = << >> /\ \A k \in 1..n : f[k] = st[k][f[k - 1]]
  <2> HIDE DEF n, st
  <2> QED BY <1>1, <1>2, LoopRuns
<1>5. ASSUME NEW k \in 1..n PROVE f[k - 1] \in Ranges /\ f[k] = f[k - 1] \o p[k]
  <2>1. k - 1 \in 0..n
    BY <1>1
  <2> QED BY <2>1, <1>4
<1>6. f[1] = p[1]
  <2>1. 1 \in 1..n /\ 1 - 1 = 0 /\ p[1] \in Ranges
    BY <1>1
  <2>2. f[1] = << >> \o p[1]
    BY <1>4, <1>5, <2>1
  <2> QED BY <2>1, <2>2 DEF Ranges
<1> DEFINE g == [k \in 1..n |-> f[k]]
<1>7. \A k \in 1..n : k # 1 => k - 1 \in 1..n /\ g[k] = g[k - 1] \o p[k]
  BY <1>1, <1>5
<1>8. g = [i \in 1..Len(p) |-> IF i = 1 THEN p[i] ELSE g[i - 1] \o p[i]]
  BY <1>1, <1>6, <1>7
<1> DEFINE h == CHOOSE h : h = [i \in 1..Len(p) |-> IF i = 1 THEN p[i] ELSE h[i - 1] \o p[i]]
<1>9. h = [i \in 1..Len(p) |-> IF i = 1 THEN p[i] ELSE h[i - 1] \o p[i]]
  <2> HIDE DEF g
  <2> QED BY <1>8
<1>10. FlattenSeq(p) = h[Len(p)]
  BY <1>1 DEF FlattenSeq
<1> HIDE DEF h
<1>11. h \in [1..n -> Ranges]
  <2> DEFINE S == {k \in Nat : k + 1 \in 1..n => h[k + 1] \in Ranges}
  <2>1. 0 \in S
    BY <1>1, <1>9
  <2>2. ASSUME NEW k \in S PROVE k + 1 \in S
    <3>1. SUFFICES ASSUME k + 2 \in 1..n PROVE h[k + 2] \in Ranges
      OBVIOUS
    <3>2. k \in Nat /\ k + 1 \in 1..n /\ k + 2 # 1 /\ (k + 2) - 1 = k + 1
      BY <1>1, <3>1
    <3>3. h[k + 2] = h[k + 1] \o p[k + 2]
      BY <1>9, <3>1, <3>2
    <3>4. h[k + 1] \in Ranges /\ p[k + 2] \in Ranges
      BY <1>1, <3>1, <3>2
    <3> QED BY <3>3, <3>4 DEF Ranges
  <2>3. S = Nat
    <3> HIDE DEF S
    <3>1. S \in SUBSET Nat
      BY DEF S
    <3> QED BY <2>1, <2>2, <3>1, Induction
  <2>4. ASSUME NEW k \in 1..n PROVE h[k] \in Ranges
    <3>1. k - 1 \in Nat /\ (k - 1) + 1 = k
      BY <1>1
    <3>2. k - 1 \in S
      BY <2>3, <3>1
    <3> QED BY <3>1, <3>2
  <2> QED BY <1>9, <2>4
<1>12. h[1] = p[1] /\ \A k \in 2..n : h[k] = h[k - 1] \o p[k]
  BY <1>1, <1>9
<1> QED
  BY <1>10, <1>11, <1>12

LEMMA Flattened ==
    ASSUME NEW p \in Seq(Ranges), \A k \in 1..Len(p) : Whole(p[k]) /\ Separated(p[k]),
           \A k, l \in 1..Len(p) : \A r, q :
               k < l /\ Has(p[k], r) /\ Has(p[l], q) => r[2] < q[1]
    PROVE  /\ Whole(FlattenSeq(p)) /\ Separated(FlattenSeq(p))
           /\ \A r : Has(FlattenSeq(p), r) <=> \E k \in 1..Len(p) : Has(p[k], r)
<1>1. CASE Len(p) = 0
  <2>1. FlattenSeq(p) = << >>
    BY <1>1 DEF FlattenSeq
  <2> QED BY <1>1, <2>1, EmptyList
<1>2. CASE Len(p) > 0
  <2>1. PICK f \in [1..Len(p) -> Ranges] :
              /\ FlattenSeq(p) = f[Len(p)] /\ f[1] = p[1]
              /\ \A k \in 2..Len(p) : f[k] = f[k - 1] \o p[k]
    BY <1>2, FlattenLoop
  <2> DEFINE n == Len(p)
             Upto(k) == /\ Whole(f[k]) /\ Separated(f[k])
                        /\ \A r : Has(f[k], r) <=> \E i \in 1..k : Has(p[i], r)
             S == {k \in Nat : k + 1 \in 1..n => Upto(k + 1)}
  <2>2. n \in Nat /\ n > 0
    BY <1>2
  <2>3. 0 \in S
    <3>1. 1..1 = {1} /\ 1 \in 1..n /\ 0 + 1 = 1
      BY <2>2
    <3>2. Upto(1)
      BY <2>1, <3>1
    <3> HIDE DEF Upto
    <3> QED BY <3>1, <3>2
  <2>4. ASSUME NEW k \in S PROVE k + 1 \in S
    <3>0. k \in Nat
      OBVIOUS
    <3>1. SUFFICES ASSUME k + 2 \in 1..n PROVE Upto(k + 2)
      <4> HIDE DEF Upto
      <4>1. (k + 1) + 1 = k + 2
        BY <3>0
      <4> QED BY <3>0, <4>1
    <3>2. k + 1 \in 1..n /\ k + 2 \in 2..n /\ (k + 2) - 1 = k + 1 /\ 1..(k + 2) = 1..(k + 1) \cup {k + 2}
          /\ (\A i \in 1..(k + 1) : i \in 1..n /\ i < k + 2)
      BY <2>2, <3>0, <3>1
    <3>3. Upto(k + 1)
      <4> HIDE DEF Upto
      <4> QED BY <3>2
    <3>4. f[k + 2] = f[k + 1] \o p[k + 2]
      BY <2>1, <3>2
    <3>5. Whole(p[k + 2]) /\ Separated(p[k + 2])
      BY <3>1
    <3>6. \A r, q : Has(f[k + 1], r) /\ Has(p[k + 2], q) => r[2] < q[1]
      BY <3>1, <3>2, <3>3
    <3>7. /\ Whole(f[k + 2]) /\ Separated(f[k + 2])
          /\ \A r : Has(f[k + 2], r) <=> Has(f[k + 1], r) \/ Has(p[k + 2], r)
      BY <3>3, <3>4, <3>5, <3>6, Concat
    <3> QED BY <3>2, <3>3, <3>7
  <2>5. S = Nat
    <3> HIDE DEF S
    <3>1. S \in SUBSET Nat
      BY DEF S
    <3> QED BY <2>3, <2>4, <3>1, Induction
  <2>6. Upto(n)
    <3> HIDE DEF Upto
    <3>1. n - 1 \in Nat /\ (n - 1) + 1 = n /\ n \in 1..n
      BY <2>2
    <3>2. n - 1 \in S
      BY <2>5, <3>1
    <3> QED BY <3>1, <3>2
  <2> QED BY <2>1, <2>6
<1> QED BY <1>1, <1>2

(* SortRanges() has the same ranges, in the order of their first granule:    *)
(* the ranges before each one are counted, and no two counts are the same.   *)
LEMMA Sorted ==
    ASSUME NEW s, Whole(s)
    PROVE  /\ Whole(SortRanges(s)) /\ Ascending(SortRanges(s))
           /\ \A r : Has(SortRanges(s), r) <=> Has(s, r)
<1> DEFINE n == Len(s)
           Before(i) == {j \in DOMAIN s : s[j][1] < s[i][1] \/ (s[j][1] = s[i][1] /\ j < i)}
           place == [i \in 1..n |-> Cardinality(Before(i))]
           At(k) == CHOOSE i \in DOMAIN s : Cardinality(Before(i)) = k - 1
           t == SortRanges(s)
<1>1. n \in Nat /\ DOMAIN s = 1..n /\ \A i \in 1..n : s[i][1] \in Int /\ s[i] \in Int \X Int
  BY DEF Whole, Ranges
<1>2. t = [k \in DOMAIN s |-> s[At(k)]]
  BY DEF SortRanges
<1> HIDE DEF n, t
<1>3. IsFiniteSet(1..n) /\ Cardinality(1..n) = n /\ IsFiniteSet(0..(n - 1)) /\ Cardinality(0..(n - 1)) = n
  <2>1. IsFiniteSet(1..n) /\ Cardinality(1..n) = IF 1 > n THEN 0 ELSE n - 1 + 1
    BY <1>1, FS_Interval
  <2>2. n - 1 \in Int
    BY <1>1
  <2>3. IsFiniteSet(0..(n - 1)) /\ Cardinality(0..(n - 1)) = IF 0 > n - 1 THEN 0 ELSE (n - 1) - 0 + 1
    BY <2>2, FS_Interval
  <2> QED BY <1>1, <2>1, <2>3
<1>4. ASSUME NEW i \in 1..n
      PROVE  IsFiniteSet(Before(i)) /\ Cardinality(Before(i)) \in 0..(n - 1)
  <2>1. Before(i) \in SUBSET ((1..n) \ {i})
    BY <1>1
  <2>2. IsFiniteSet((1..n) \ {i}) /\ Cardinality((1..n) \ {i}) = n - 1
    BY <1>3, FS_RemoveElement
  <2> HIDE DEF Before
  <2>3. IsFiniteSet(Before(i)) /\ Cardinality(Before(i)) <= n - 1 /\ Cardinality(Before(i)) \in Nat
    BY <2>1, <2>2, FS_Subset, FS_CardinalityType
  <2> QED BY <1>1, <2>3
<1>5. ASSUME NEW i \in 1..n, NEW j \in 1..n, j \in Before(i)
      PROVE  Cardinality(Before(j)) < Cardinality(Before(i))
  <2>1. j \notin Before(j) /\ Before(j) \cup {j} \in SUBSET Before(i)
    BY SMTT(30), <1>1, <1>5
  <2> HIDE DEF Before
  <2>2. Cardinality(Before(j) \cup {j}) = Cardinality(Before(j)) + 1
    BY <2>1, <1>4, FS_AddElement
  <2>3. Cardinality(Before(j) \cup {j}) <= Cardinality(Before(i))
    BY <2>1, <1>4, FS_Subset
  <2> QED BY <2>2, <2>3, <1>4
<1>6. \A i, j \in 1..n : i = j \/ j \in Before(i) \/ i \in Before(j)
  BY <1>1
<1>7. \A i, j \in 1..n : Cardinality(Before(i)) = Cardinality(Before(j)) => i = j
  <2> HIDE DEF Before
  <2>1. \A i \in 1..n : Cardinality(Before(i)) \in Int
    BY <1>4
  <2> QED BY <1>5, <1>6, <2>1
<1>8. ASSUME NEW k \in 1..n PROVE At(k) \in 1..n /\ Cardinality(Before(At(k))) = k - 1
  <2> HIDE DEF Before
  <2>1. place \in Injection(1..n, 0..(n - 1))
    BY <1>4, <1>7 DEF Injection, IsInjective
  <2>2. place \in Surjection(1..n, 0..(n - 1))
    <3> HIDE DEF place
    <3> QED BY <1>3, <2>1, FS_Injection
  <2>3. k - 1 \in 0..(n - 1)
    BY <1>1
  <2>4. \E i \in 1..n : place[i] = k - 1
    BY <2>2, <2>3 DEF Surjection
  <2> QED BY <1>1, <2>4
<1>9. DOMAIN t = 1..n /\ \A k \in 1..n : t[k] = s[At(k)]
  BY <1>1, <1>2
<1>10. t \in Ranges
  <2>1. t \in [1..n -> Int \X Int]
    <3> HIDE DEF At
    <3> QED BY <1>1, <1>2, <1>8
  <2> QED BY <1>1, <2>1, FunctionIsList DEF Ranges
<1>11. Whole(t)
  <2> HIDE DEF At
  <2> QED BY <1>1, <1>8, <1>9, <1>10 DEF Whole
<1>12. ASSUME NEW k \in 1..n, NEW l \in 1..n, k < l PROVE t[k][1] <= t[l][1]
  <2>1. At(k) \in 1..n /\ At(l) \in 1..n
    BY <1>8
  <2>2. Cardinality(Before(At(k))) < Cardinality(Before(At(l)))
    <3> HIDE DEF At, Before
    <3> QED BY <1>1, <1>8, <1>12
  <2> HIDE DEF At
  <2>3. At(l) \notin Before(At(k))
    <3>1. At(l) \in Before(At(k)) => Cardinality(Before(At(l))) < Cardinality(Before(At(k)))
      BY <1>5, <2>1
    <3>2. Cardinality(Before(At(k))) \in Int /\ Cardinality(Before(At(l))) \in Int
      <4> HIDE DEF Before
      <4> QED BY <1>4, <2>1
    <3> HIDE DEF Before
    <3> QED BY <2>2, <3>1, <3>2
  <2>4. s[At(k)][1] <= s[At(l)][1]
    BY <1>1, <2>1, <2>3
  <2> QED BY <1>9, <2>4
<1>13. ASSUME NEW i \in 1..n PROVE \E k \in 1..n : t[k] = s[i]
  <2> DEFINE k == Cardinality(Before(i)) + 1
  <2>1. k \in 1..n /\ k - 1 = Cardinality(Before(i))
    <3> HIDE DEF Before
    <3> QED BY SMTT(30), <1>1, <1>4
  <2>2. At(k) = i
    <3> HIDE DEF At, Before, k
    <3> QED BY <1>7, <1>8, <2>1
  <2> HIDE DEF At, k
  <2> QED BY <1>9, <2>1, <2>2
<1>14. ASSUME NEW r PROVE Has(t, r) <=> Has(s, r)
  <2> HIDE DEF At
  <2>1. \A k \in 1..n : At(k) \in 1..n /\ t[k] = s[At(k)]
    BY <1>8, <1>9
  <2>2. Has(t, r) => Has(s, r)
    BY <1>1, <1>9, <2>1 DEF Has
  <2>3. Has(s, r) => Has(t, r)
    BY <1>1, <1>9, <1>13 DEF Has
  <2> QED BY <2>2, <2>3
<1> HIDE DEF At
<1> QED
  BY <1>9, <1>11, <1>12, <1>14 DEF t, Ascending

(* The loop of normalizeRanges(). *)
LEMMA MergeLoop ==
    ASSUME NEW t \in Ranges
    PROVE  \E f \in [0..Len(t) -> Ranges] :
              /\ MergeSorted(t) = f[Len(t)] /\ f[0] = << >>
              /\ \A k \in 1..Len(t) : f[k] = MergeInto(f[k - 1], t[k])
<1> DEFINE n == Len(t)
           st == [k \in 1..n |-> [s \in Ranges |-> MergeInto(s, t[k])]]
<1>1. n \in Nat /\ \A k \in 1..n : t[k] \in Int \X Int
  BY DEF Ranges
<1>2. ASSUME NEW s \in Ranges, NEW r \in Int \X Int PROVE MergeInto(s, r) \in Ranges
  <2>1. Append(s, r) \in Ranges
    BY DEF Ranges
  <2>2. ASSUME s # << >> PROVE ReplaceAt(s, Len(s), Merged(s[Len(s)], r)) \in Ranges
    <3>1. Len(s) \in Nat /\ Len(s) \in DOMAIN s /\ DOMAIN s = 1..Len(s)
          /\ \A j \in 1..Len(s) : s[j] \in Int \X Int
      BY <2>2 DEF Ranges
    <3>2. s[Len(s)][1] \in Int /\ s[Len(s)][2] \in Int /\ r[1] \in Int /\ r[2] \in Int
      BY <3>1
    <3>3. Merged(s[Len(s)], r) \in Int \X Int
      BY <3>2 DEF Merged
    <3> DEFINE m == Merged(s[Len(s)], r)
    <3> HIDE DEF m
    <3>4. ReplaceAt(s, Len(s), m) = [j \in 1..Len(s) |-> IF j = Len(s) THEN m ELSE s[j]]
      BY DEF ReplaceAt
    <3>5. ReplaceAt(s, Len(s), m) \in [1..Len(s) -> Int \X Int]
      BY <3>1, <3>3, <3>4 DEF m
    <3> QED BY <3>1, <3>5, FunctionIsList DEF m, Ranges
  <2> QED BY <2>1, <2>2 DEF MergeInto
<1>3. st \in [1..n -> [Ranges -> Ranges]]
  BY <1>1, <1>2
<1>4. PICK f \in [0..n -> Ranges] : f[0] = << >> /\ \A k \in 1..n : f[k] = st[k][f[k - 1]]
  <2> HIDE DEF n, st
  <2> QED BY <1>1, <1>3, LoopRuns
<1>5. ASSUME NEW k \in 1..n PROVE f[k - 1] \in Ranges /\ f[k] = MergeInto(f[k - 1], t[k])
  <2>1. k - 1 \in 0..n
    BY <1>1
  <2> QED BY <2>1, <1>4
<1>6. f = [k \in 0..Len(t) |-> IF k = 0 THEN << >> ELSE MergeInto(f[k - 1], t[k])]
  <2>1. \A k \in 0..n : k # 0 => k \in 1..n
    BY <1>1
  <2> QED BY <1>4, <1>5, <2>1
<1> DEFINE h == CHOOSE h : h = [k \in 0..Len(t) |-> IF k = 0 THEN << >> ELSE MergeInto(h[k - 1], t[k])]
<1>7. h = [k \in 0..Len(t) |-> IF k = 0 THEN << >> ELSE MergeInto(h[k - 1], t[k])]
  BY <1>6
<1>8. MergeSorted(t) = h[Len(t)]
  BY DEF MergeSorted
<1> HIDE DEF h
<1>9. h[0] = << >> /\ \A k \in 1..n : h[k] = MergeInto(h[k - 1], t[k])
  <2>1. 0 \in 0..n /\ \A k \in 1..n : k \in 0..n /\ k # 0
    BY <1>1
  <2> QED BY <1>7, <2>1
<1>10. h \in [0..n -> Ranges]
  <2> DEFINE S == {k \in Nat : k \in 0..n => h[k] \in Ranges}
  <2>1. 0 \in S
    <3>1. << >> \in Ranges
      BY DEF Ranges
    <3> QED BY <1>9, <3>1
  <2>2. ASSUME NEW k \in S PROVE k + 1 \in S
    <3>1. SUFFICES ASSUME k + 1 \in 0..n PROVE h[k + 1] \in Ranges
      OBVIOUS
    <3>2. k \in Nat /\ k \in 0..n /\ k + 1 \in 1..n /\ (k + 1) - 1 = k
      BY <1>1, <3>1
    <3>3. h[k + 1] = MergeInto(h[k], t[k + 1])
      BY <1>9, <3>2
    <3>4. h[k] \in Ranges /\ t[k + 1] \in Int \X Int
      BY <1>1, <3>2
    <3> QED BY <3>3, <3>4, <1>2
  <2>3. S = Nat
    <3> HIDE DEF S
    <3>1. S \in SUBSET Nat
      BY DEF S
    <3> QED BY <2>1, <2>2, <3>1, Induction
  <2>4. \A k \in 0..n : h[k] \in Ranges
    BY <2>3
  <2> QED BY <1>7, <2>4
<1> QED
  BY <1>8, <1>9, <1>10

(* One step of it: the range behind the others joins the last, or follows it.*)
LEMMA MergeStep ==
    ASSUME NEW s, Whole(s), Separated(s), NEW r \in Int \X Int, r[1] < r[2],
           \A i \in DOMAIN s : s[i][1] <= r[1]
    PROVE  /\ Whole(MergeInto(s, r)) /\ Separated(MergeInto(s, r))
           /\ \A i \in DOMAIN MergeInto(s, r) : MergeInto(s, r)[i][1] <= r[1]
           /\ \A x \in Int : In(MergeInto(s, r), x) <=> In(s, x) \/ (r[1] <= x /\ x < r[2])
<1> DEFINE n == Len(s)
           last == s[n]
<1>0. n \in Nat
  BY DEF Whole, Ranges
<1>1. n \in Nat /\ DOMAIN s = 1..n /\ r[1] \in Int /\ r[2] \in Int
      /\ \A i \in 1..n : s[i] \in Int \X Int /\ s[i][1] \in Int /\ s[i][2] \in Int /\ s[i][1] < s[i][2]
  BY DEF Whole, Ranges
<1>2. CASE s # << >> /\ Mergeable(last, r)
  <2>1. n \in 1..n /\ last \in Int \X Int /\ last[1] \in Int /\ last[2] \in Int /\ last[1] < last[2]
    <3>1. n # 0
      BY <1>2 DEF Whole, Ranges
    <3> QED BY <3>1, <1>1
  <2>2. last[1] <= r[1] /\ r[1] <= last[2]
    <3>1. last[1] <= r[1]
      BY <2>1, <1>1
    <3> HIDE DEF last
    <3> QED BY <3>1, <2>1, <1>1, <1>2 DEF Mergeable, Overlaps
  <2> DEFINE e == IF last[2] > r[2] THEN last[2] ELSE r[2]
             u == MergeInto(s, r)
  <2>3. Merged(last, r) = <<last[1], e>>
    <3> HIDE DEF last
    <3> QED BY <2>1, <2>2, <1>1 DEF Merged
  <2>4. e \in Int /\ e >= last[2] /\ e >= r[2] /\ (e = last[2] \/ e = r[2])
    <3> HIDE DEF last
    <3> QED BY <2>1, <1>1
  <2>5. u = [j \in 1..n |-> IF j = n THEN <<last[1], e>> ELSE s[j]]
    <3> HIDE DEF e
    <3> QED BY SMTT(30), <1>2, <2>3 DEF MergeInto, ReplaceAt
  <2> HIDE DEF last, e, u
  <2>6. DOMAIN u = 1..n /\ \A j \in 1..n : u[j][1] = s[j][1] /\ (j # n => u[j] = s[j])
    BY <2>1, <2>5 DEF last
  <2>7. u[n][1] = last[1] /\ u[n][2] = e /\ u[n] = <<last[1], e>>
    BY <2>1, <2>5
  <2>8. u \in Ranges
    <3>1. <<last[1], e>> \in Int \X Int
      BY <2>1, <2>4
    <3>2. u \in [1..n -> Int \X Int]
      BY <1>1, <2>5, <3>1
    <3> QED BY <1>1, <3>2, FunctionIsList DEF Ranges
  <2>9. Whole(u)
    <3>1. ASSUME NEW j \in 1..n PROVE u[j][1] < u[j][2]
      <4>1. CASE j = n
        BY <4>1, <2>1, <2>4, <2>7
      <4>2. CASE j # n
        BY <4>2, <2>6, <1>1
      <4> QED BY <4>1, <4>2
    <3> QED BY <2>6, <2>8, <3>1 DEF Whole
  <2>10. ASSUME NEW i \in 1..n, NEW j \in 1..n, i < j PROVE u[i][2] < u[j][1]
    <3>1. i # n
      <4> HIDE DEF n
      <4> QED BY <1>0, <2>10
    <3> QED BY <3>1, <2>6, <2>10, <1>1 DEF Separated
  <2>11. \A i \in 1..n : u[i][1] <= r[1]
    BY <2>6, <1>1
  <2>12. ASSUME NEW x \in Int PROVE In(u, x) <=> In(s, x) \/ (r[1] <= x /\ x < r[2])
    <3>1. ASSUME In(u, x) PROVE In(s, x) \/ (r[1] <= x /\ x < r[2])
      <4>1. PICK j \in 1..n : u[j][1] <= x /\ x < u[j][2]
        BY <3>1, <2>6 DEF In
      <4>2. CASE j # n
        BY <4>1, <4>2, <2>6, <1>1 DEF In
      <4>3. CASE j = n
        <5>1. last[1] <= x /\ x < e
          BY <4>1, <4>3, <2>7
        <5>2. (last[1] <= x /\ x < last[2]) \/ (r[1] <= x /\ x < r[2])
          BY <5>1, <2>1, <2>2, <2>4, <1>1
        <5> QED BY <5>2, <2>1, <1>1 DEF In, last
      <4> QED BY <4>2, <4>3
    <3>2. ASSUME In(s, x) PROVE In(u, x)
      <4>1. PICK j \in 1..n : s[j][1] <= x /\ x < s[j][2]
        BY <3>2, <1>1 DEF In
      <4>2. CASE j # n
        BY <4>1, <4>2, <2>6 DEF In
      <4>3. CASE j = n
        <5>1. u[n][1] <= x /\ x < u[n][2]
          BY <4>1, <4>3, <2>1, <2>4, <2>7, <1>1 DEF last
        <5> QED BY <5>1, <2>1, <2>6 DEF In
      <4> QED BY <4>2, <4>3
    <3>3. ASSUME r[1] <= x, x < r[2] PROVE In(u, x)
      <4>1. u[n][1] <= x /\ x < u[n][2]
        BY <3>3, <2>1, <2>2, <2>4, <2>7, <1>1
      <4> QED BY <4>1, <2>1, <2>6 DEF In
    <3> QED BY <3>1, <3>2, <3>3
  <2> QED BY <2>6, <2>9, <2>10, <2>11, <2>12 DEF u, Separated
<1>3. CASE ~(s # << >> /\ Mergeable(last, r))
  <2>1. MergeInto(s, r) = s \o <<r>>
    <3>1. MergeInto(s, r) = Append(s, r)
      BY <1>3 DEF MergeInto
    <3> QED BY <3>1 DEF Whole, Ranges
  <2>2. Whole(<<r>>) /\ Separated(<<r>>) /\ \A q : Has(<<r>>, q) <=> q = r
    BY OneRange
  <2>3. ASSUME NEW i \in 1..n PROVE s[i][2] < r[1]
    <3>1. n \in 1..n /\ s # << >>
      BY <1>1 DEF Whole, Ranges
    <3>2. last[2] < r[1]
      <4>1. ~Mergeable(last, r) /\ last[1] <= r[1] /\ last[1] \in Int /\ last[2] \in Int
        BY <1>1, <1>3, <3>1
      <4> HIDE DEF last
      <4> QED BY <4>1, <1>1 DEF Mergeable, Overlaps
    <3>3. CASE i = n
      BY <3>2, <3>3
    <3>4. CASE i # n
      <4>1. s[i][2] < last[1]
        <5>1. i < n
          <6> HIDE DEF n
          <6> QED BY <1>0, <3>4
        <5> QED BY <3>1, <5>1, <1>1 DEF Separated
      <4> QED BY <4>1, <3>1, <3>2, <1>1
    <3> QED BY <3>3, <3>4
  <2>4. \A q, p : Has(s, q) /\ Has(<<r>>, p) => q[2] < p[1]
    BY <1>1, <2>2, <2>3 DEF Has
  <2> DEFINE u == s \o <<r>>
  <2>5. Whole(u) /\ Separated(u) /\ \A q : Has(u, q) <=> Has(s, q) \/ q = r
    BY <2>2, <2>4, Concat
  <2> HIDE DEF u
  <2>6. ASSUME NEW i \in DOMAIN u PROVE u[i][1] <= r[1]
    <3>1. Has(u, u[i])
      BY DEF Has
    <3>2. CASE u[i] = r
      BY <3>2, <1>1
    <3>3. CASE Has(s, u[i])
      BY <3>3 DEF Has
    <3> QED BY <2>5, <3>1, <3>2, <3>3
  <2>7. \A x \in Int : In(u, x) <=> In(s, x) \/ (r[1] <= x /\ x < r[2])
    BY <2>5, InHas
  <2> QED BY <2>1, <2>5, <2>6, <2>7 DEF u
<1> QED BY <1>2, <1>3

(* normalizeRanges(): the same granules, in ranges with gaps between them. *)
LEMMA Normalized ==
    ASSUME NEW s, Whole(s)
    PROVE  /\ Whole(NormalizeRanges(s)) /\ Separated(NormalizeRanges(s))
           /\ \A x \in Int : In(NormalizeRanges(s), x) <=> In(s, x)
<1> DEFINE t == SortRanges(s)
           n == Len(t)
<1>1. Whole(t) /\ Ascending(t) /\ \A r : Has(t, r) <=> Has(s, r)
  BY Sorted
<1> HIDE DEF t
<1>2. n \in Nat /\ DOMAIN t = 1..n /\ t \in Ranges
  BY <1>1 DEF Whole, Ranges
<1>3. \A x : In(t, x) <=> In(s, x)
  BY <1>1, InHas
<1>4. PICK f \in [0..n -> Ranges] :
         /\ MergeSorted(t) = f[n] /\ f[0] = << >>
         /\ \A k \in 1..n : f[k] = MergeInto(f[k - 1], t[k])
  BY <1>2, MergeLoop
<1> DEFINE Upto(k) == /\ Whole(f[k]) /\ Separated(f[k])
                      /\ \A i \in DOMAIN f[k] : \A j \in 1..n : k < j => f[k][i][1] <= t[j][1]
                      /\ \A x \in Int : In(f[k], x) <=> \E j \in 1..k : t[j][1] <= x /\ x < t[j][2]
           S == {k \in Nat : k \in 0..n => Upto(k)}
<1> HIDE DEF n
<1>5. 0 \in S
  <2>1. DOMAIN << >> = {} /\ 1..0 = {}
    OBVIOUS
  <2>2. Upto(0)
    BY <1>4, <2>1, EmptyList
  <2> HIDE DEF Upto
  <2> QED BY <2>2
<1>6. ASSUME NEW k \in S PROVE k + 1 \in S
  <2>0. k \in Nat
    OBVIOUS
  <2>1. SUFFICES ASSUME k + 1 \in 0..n PROVE Upto(k + 1)
    <3> HIDE DEF Upto
    <3> QED BY <2>0
  <2>2. k \in 0..n /\ k + 1 \in 1..n /\ (k + 1) - 1 = k /\ 1..(k + 1) = 1..k \cup {k + 1} /\ k < k + 1
    BY <1>2, <2>0, <2>1
  <2>3. Upto(k)
    <3> HIDE DEF Upto
    <3> QED BY <2>2
  <2>4. f[k + 1] = MergeInto(f[k], t[k + 1])
    BY <1>4, <2>2
  <2>5. t[k + 1] \in Int \X Int /\ t[k + 1][1] < t[k + 1][2] /\ t[k + 1][1] \in Int
    BY <1>1, <1>2, <2>2, ListTyped
  <2>6. \A i \in DOMAIN f[k] : f[k][i][1] <= t[k + 1][1]
    BY <2>2, <2>3
  <2>7. /\ Whole(f[k + 1]) /\ Separated(f[k + 1])
        /\ \A i \in DOMAIN f[k + 1] : f[k + 1][i][1] <= t[k + 1][1]
        /\ \A x \in Int : In(f[k + 1], x) <=> In(f[k], x) \/ (t[k + 1][1] <= x /\ x < t[k + 1][2])
    BY <2>3, <2>4, <2>5, <2>6, MergeStep
  <2>8. ASSUME NEW i \in DOMAIN f[k + 1], NEW j \in 1..n, k + 1 < j
        PROVE  f[k + 1][i][1] <= t[j][1]
    <3>1. t[k + 1][1] <= t[j][1] /\ t[j][1] \in Int
      BY <1>1, <1>2, <2>2, <2>8, ListTyped DEF Ascending
    <3>2. f[k + 1][i][1] \in Int
      BY <2>7, ListTyped
    <3> QED BY <2>5, <2>7, <3>1, <3>2
  <2>9. ASSUME NEW x \in Int
        PROVE  In(f[k + 1], x) <=> \E j \in 1..(k + 1) : t[j][1] <= x /\ x < t[j][2]
    BY <2>2, <2>3, <2>7
  <2> QED BY <2>7, <2>8, <2>9
<1>7. S = Nat
  <2> HIDE DEF S
  <2>1. S \in SUBSET Nat
    BY DEF S
  <2> QED BY <1>5, <1>6, <2>1, Induction
<1>8. Upto(n)
  <2> HIDE DEF Upto
  <2> QED BY <1>2, <1>7
<1>9. NormalizeRanges(s) = f[n]
  BY <1>4 DEF NormalizeRanges, t
<1> QED
  BY <1>2, <1>3, <1>8, <1>9 DEF In

(* Where a range starts in a list with gaps: at a granule that is in the     *)
(* list and the one before it is not.                                        *)
LEMMA Starts ==
    ASSUME NEW s, Whole(s), Separated(s), NEW i \in DOMAIN s
    PROVE  In(s, s[i][1]) /\ ~In(s, s[i][1] - 1) /\ In(s, s[i][2] - 1)
<1>1. s[i][1] \in Int /\ s[i][2] \in Int /\ s[i][1] < s[i][2] /\ i \in Int
  BY ListTyped
<1>2. In(s, s[i][1]) /\ In(s, s[i][2] - 1)
  BY <1>1 DEF In
<1>3. ASSUME NEW j \in DOMAIN s, s[j][1] <= s[i][1] - 1, s[i][1] - 1 < s[j][2] PROVE FALSE
  <2>1. s[j][1] \in Int /\ s[j][2] \in Int /\ s[j][1] < s[j][2] /\ j \in Int
    BY ListTyped
  <2>2. CASE i = j
    BY <1>1, <1>3, <2>2
  <2>3. CASE i < j
    <3>1. s[i][2] < s[j][1]
      BY <2>3 DEF Separated
    <3> QED BY <3>1, <1>1, <1>3, <2>1
  <2>4. CASE j < i
    <3>1. s[j][2] < s[i][1]
      BY <2>4 DEF Separated
    <3> QED BY <3>1, <1>1, <1>3, <2>1
  <2> QED BY <1>1, <2>1, <2>2, <2>3, <2>4
<1> QED BY <1>2, <1>3 DEF In

(* subtractRange(), removeLockedRange(): the granules of q are gone. *)
LEMMA Cut ==
    ASSUME NEW s, Whole(s), Separated(s), NEW q \in Int \X Int, q[1] < q[2]
    PROVE  /\ Whole(Remainder(s, q)) /\ Separated(Remainder(s, q))
           /\ \A x \in Int : In(Remainder(s, q), x) <=> In(s, x) /\ ~(q[1] <= x /\ x < q[2])
<1> DEFINE n == Len(s)
           p == [i \in DOMAIN s |-> LeftOf(s[i], q)]
<1>1. n \in Nat /\ DOMAIN s = 1..n /\ q[1] \in Int /\ q[2] \in Int
  BY DEF Whole, Ranges
<1>2. \A i \in 1..n : s[i] \in Int \X Int /\ s[i][1] \in Int /\ s[i][2] \in Int /\ s[i][1] < s[i][2]
  BY <1>1, ListTyped
<1>3. ASSUME NEW i \in 1..n
      PROVE  /\ Whole(LeftOf(s[i], q)) /\ Separated(LeftOf(s[i], q))
             /\ \A r : Has(LeftOf(s[i], q), r) => s[i][1] <= r[1] /\ r[2] <= s[i][2]
             /\ \A x \in Int : In(LeftOf(s[i], q), x)
                                 <=> s[i][1] <= x /\ x < s[i][2] /\ ~(q[1] <= x /\ x < q[2])
  <2> DEFINE r1 == s[i][1]
             r2 == s[i][2]
             a == NonEmpty(<<r1, q[1]>>)
             b == NonEmpty(<<q[2], r2>>)
  <2>1. r1 \in Int /\ r2 \in Int /\ r1 < r2 /\ s[i] \in Int \X Int
    BY <1>2
  <2>2. /\ Whole(a) /\ Separated(a) /\ \A r : Has(a, r) <=> r1 < q[1] /\ r = <<r1, q[1]>>
        /\ Whole(b) /\ Separated(b) /\ \A r : Has(b, r) <=> q[2] < r2 /\ r = <<q[2], r2>>
    <3> HIDE DEF r1, r2
    <3> QED BY <1>1, <2>1, KeptRange
  <2>3. CASE Overlaps(s[i], q)
    <3>1. r1 < q[2] /\ q[1] < r2
      BY <2>3 DEF Overlaps
    <3>2. LeftOf(s[i], q) = a \o b
      BY <2>3 DEF LeftOf
    <3> HIDE DEF r1, r2, a, b
    <3>3. \A r, t : Has(a, r) /\ Has(b, t) => r[2] < t[1]
      BY <1>1, <2>2
    <3>4. Whole(a \o b) /\ Separated(a \o b) /\ \A r : Has(a \o b, r) <=> Has(a, r) \/ Has(b, r)
      BY <2>2, <3>3, Concat
    <3>5. \A r : Has(a \o b, r) => r1 <= r[1] /\ r[2] <= r2
      BY <1>1, <2>1, <2>2, <3>1, <3>4
    <3>6. ASSUME NEW x \in Int
          PROVE  In(a \o b, x) <=> r1 <= x /\ x < r2 /\ ~(q[1] <= x /\ x < q[2])
      <4>1. In(a \o b, x) <=> \E r : Has(a \o b, r) /\ r[1] <= x /\ x < r[2]
        BY InHas
      <4>2. In(a \o b, x) <=> (r1 < q[1] /\ r1 <= x /\ x < q[1]) \/ (q[2] < r2 /\ q[2] <= x /\ x < r2)
        <5>1. \A r : Has(a \o b, r)
                      <=> (r1 < q[1] /\ r = <<r1, q[1]>>) \/ (q[2] < r2 /\ r = <<q[2], r2>>)
          BY <2>2, <3>4
        <5>2. /\ \A y, z : <<y, z>>[1] = y /\ <<y, z>>[2] = z
          OBVIOUS
        <5>3. ASSUME In(a \o b, x)
              PROVE  (r1 < q[1] /\ r1 <= x /\ x < q[1]) \/ (q[2] < r2 /\ q[2] <= x /\ x < r2)
          BY <4>1, <5>1, <5>2, <5>3
        <5>4. ASSUME r1 < q[1], r1 <= x, x < q[1] PROVE In(a \o b, x)
          <6>1. Has(a \o b, <<r1, q[1]>>)
            BY <5>1, <5>4
          <6> QED BY <4>1, <5>2, <5>4, <6>1
        <5>5. ASSUME q[2] < r2, q[2] <= x, x < r2 PROVE In(a \o b, x)
          <6>1. Has(a \o b, <<q[2], r2>>)
            BY <5>1, <5>5
          <6> QED BY <4>1, <5>2, <5>5, <6>1
        <5> QED BY <5>3, <5>4, <5>5
      <4> QED BY <4>2, <1>1, <2>1, <3>1
    <3> QED BY <3>2, <3>4, <3>5, <3>6 DEF r1, r2
  <2>4. CASE ~Overlaps(s[i], q)
    <3>1. ~(r1 < q[2] /\ q[1] < r2)
      BY <2>4 DEF Overlaps
    <3>2. LeftOf(s[i], q) = <<s[i]>>
      BY <2>4 DEF LeftOf
    <3>3. Whole(<<s[i]>>) /\ Separated(<<s[i]>>) /\ \A r : Has(<<s[i]>>, r) <=> r = s[i]
      BY <2>1, OneRange
    <3>4. ASSUME NEW x \in Int
          PROVE  In(<<s[i]>>, x) <=> r1 <= x /\ x < r2 /\ ~(q[1] <= x /\ x < q[2])
      <4>1. In(<<s[i]>>, x) <=> r1 <= x /\ x < r2
        BY <3>3, InHas
      <4> HIDE DEF r1, r2
      <4> QED BY <4>1, <1>1, <2>1, <3>1
    <3> QED BY <2>1, <3>2, <3>3, <3>4
  <2> QED BY <2>3, <2>4
<1>4. \A i \in 1..n : p[i] = LeftOf(s[i], q)
  BY <1>1
<1>5. DOMAIN p = 1..n
  BY <1>1
<1> HIDE DEF n, p
<1>6. p \in Seq(Ranges) /\ Len(p) = n
  <2>1. p \in [1..n -> Ranges]
    BY <1>3, <1>4, <1>5 DEF Whole, p
  <2> QED BY <1>1, <2>1, FunctionIsList
<1>7. ASSUME NEW k \in 1..n, NEW l \in 1..n, NEW r, NEW t, k < l, Has(p[k], r), Has(p[l], t)
      PROVE  r[2] < t[1]
  <2>1. r[2] <= s[k][2] /\ s[l][1] <= t[1] /\ Whole(p[k]) /\ Whole(p[l])
    BY <1>3, <1>4, <1>7
  <2>2. s[k][2] < s[l][1]
    BY <1>1, <1>7 DEF Separated
  <2>3. r[2] \in Int /\ t[1] \in Int
    BY <1>7, <2>1, HasTyped
  <2> QED BY <1>2, <2>1, <2>2, <2>3
<1>8. /\ Whole(FlattenSeq(p)) /\ Separated(FlattenSeq(p))
      /\ \A r : Has(FlattenSeq(p), r) <=> \E k \in 1..n : Has(p[k], r)
  BY <1>3, <1>4, <1>6, <1>7, Flattened
<1>9. Remainder(s, q) = FlattenSeq(p)
  BY DEF Remainder, p
<1>10. ASSUME NEW x \in Int
       PROVE  In(FlattenSeq(p), x) <=> In(s, x) /\ ~(q[1] <= x /\ x < q[2])
  <2>1. In(FlattenSeq(p), x) <=> \E r : Has(FlattenSeq(p), r) /\ r[1] <= x /\ x < r[2]
    BY InHas
  <2>2. In(FlattenSeq(p), x) <=> \E k \in 1..n : \E r : Has(p[k], r) /\ r[1] <= x /\ x < r[2]
    BY <1>8, <2>1
  <2>3. In(FlattenSeq(p), x) <=> \E k \in 1..n : In(p[k], x)
    BY <2>2, InHas
  <2> QED BY <1>1, <1>3, <1>4, <2>3 DEF In
<1> QED
  BY <1>8, <1>9, <1>10

(* Extremes of a set of natural numbers. *)
LEMMA Least ==
    ASSUME NEW A \in SUBSET Nat, A # {}
    PROVE  Min(A) \in A /\ \A y \in A : Min(A) <= y
<1> DEFINE R == OpToRel(<, Nat)
<1>1. IsWellFoundedOn(R, Nat)
  BY NatLessThanWellFounded
<1>2. \A x, y \in Nat : <<x, y>> \in R <=> x < y
  BY DEF OpToRel
<1> HIDE DEF R
<1>3. PICK x \in A : \A y \in A : ~(<<y, x>> \in R)
  BY <1>1, WFMin
<1>4. ASSUME NEW y \in A PROVE x <= y
  <2>1. x \in Nat /\ y \in Nat
    OBVIOUS
  <2>2. ~(y < x)
    BY <1>2, <1>3, <2>1
  <2> QED BY <2>1, <2>2
<1> QED
  BY <1>3, <1>4 DEF Min

LEMMA Greatest ==
    ASSUME NEW n \in Nat, NEW A \in SUBSET (0..n), A # {}
    PROVE  Max(A) \in A /\ \A y \in A : y <= Max(A)
<1> DEFINE B == {n - y : y \in A}
           m == Min(B)
<1>0. \A y \in A : y \in Int /\ n - y \in Nat
  OBVIOUS
<1>1. B \in SUBSET Nat /\ B # {}
  BY <1>0
<1>2. m \in B /\ \A y \in B : m <= y
  <2> HIDE DEF B
  <2> QED BY <1>1, Least
<1> HIDE DEF m
<1>3. PICK x \in A : m = n - x
  BY <1>2
<1>4. ASSUME NEW y \in A PROVE y <= x
  <2>1. n - y \in B
    OBVIOUS
  <2>2. n - x <= n - y
    BY <1>2, <1>3, <2>1
  <2> QED BY <2>2
<1>5. \A y \in A : x >= y
  BY <1>4
<1> HIDE DEF B
<1>6. Max(A) \in A /\ \A y \in A : Max(A) >= y
  BY <1>5 DEF Max
<1>7. \A y \in A : y \in Int /\ Max(A) \in Int
  BY <1>0, <1>6
<1> QED BY <1>6, <1>7

(* addLockedRange(): the granules of q are added. *)
LEMMA Added ==
    ASSUME NEW s, Whole(s), Separated(s), NEW q \in Int \X Int, q[1] < q[2]
    PROVE  /\ Whole(AddLockedRange(s, q)) /\ Separated(AddLockedRange(s, q))
           /\ \A x \in Int : In(AddLockedRange(s, q), x) <=> In(s, x) \/ (q[1] <= x /\ x < q[2])
<1> DEFINE n == Len(s)
           A == {0} \cup {i \in DOMAIN s : s[i][2] < q[1]}
           B == {Len(s) + 1} \cup {i \in DOMAIN s : q[2] < s[i][1]}
           lo == Max(A)
           hi == Min(B)
           new == IF lo + 1 < hi THEN Merged(q, Merged(s[lo + 1], s[hi - 1])) ELSE q
<1>1. n \in Nat /\ DOMAIN s = 1..n /\ q[1] \in Int /\ q[2] \in Int
  BY DEF Whole, Ranges
<1>2. \A i \in 1..n : s[i] \in Int \X Int /\ s[i][1] \in Int /\ s[i][2] \in Int /\ s[i][1] < s[i][2]
  BY <1>1, ListTyped
<1>3. AddLockedRange(s, q) = SubSeq(s, 1, lo) \o <<new>> \o SubSeq(s, hi, n)
  BY DEF AddLockedRange
<1> HIDE DEF n
<1>4. lo \in A /\ \A y \in A : y <= lo
  <2>1. A \in SUBSET (0..n) /\ A # {}
    BY <1>1
  <2> HIDE DEF A
  <2> QED BY <1>1, <2>1, Greatest
<1>5. hi \in B /\ \A y \in B : hi <= y
  <2>1. B \in SUBSET Nat /\ B # {}
    BY <1>1 DEF n
  <2> HIDE DEF B
  <2> QED BY <2>1, Least
<1> HIDE DEF lo, hi
<1>6. lo \in 0..n /\ hi \in 1..(n + 1)
  BY <1>1, <1>4, <1>5 DEF n
<1>7. ASSUME NEW i \in 1..n PROVE s[i][2] < q[1] <=> i <= lo
  <2>1. s[i][2] < q[1] => i <= lo
    BY <1>1, <1>4
  <2>2. ASSUME i <= lo PROVE s[i][2] < q[1]
    <3>1. lo \in 1..n /\ s[lo][2] < q[1]
      BY <1>1, <1>4, <1>6, <2>2
    <3>2. CASE i = lo
      BY <3>1, <3>2
    <3>3. CASE i # lo
      <4>1. i < lo
        BY <1>6, <2>2, <3>3
      <4>2. s[i][2] < s[lo][1]
        BY <1>1, <3>1, <4>1 DEF Separated
      <4> QED BY <1>1, <1>2, <3>1, <4>2
    <3> QED BY <3>2, <3>3
  <2> QED BY <2>1, <2>2
<1>8. ASSUME NEW i \in 1..n PROVE q[2] < s[i][1] <=> hi <= i
  <2>1. q[2] < s[i][1] => hi <= i
    BY <1>1, <1>5
  <2>2. ASSUME hi <= i PROVE q[2] < s[i][1]
    <3>1. hi \in 1..n /\ q[2] < s[hi][1]
      BY <1>1, <1>5, <1>6, <2>2 DEF n
    <3>2. CASE i = hi
      BY <3>1, <3>2
    <3>3. CASE i # hi
      <4>1. hi < i
        BY <1>6, <2>2, <3>3
      <4>2. s[hi][2] < s[i][1]
        BY <1>1, <3>1, <4>1 DEF Separated
      <4> QED BY <1>1, <1>2, <3>1, <4>2
    <3> QED BY <3>2, <3>3
  <2> QED BY <2>1, <2>2
<1>9. lo < hi
  <2> SUFFICES ASSUME hi <= lo PROVE FALSE
    BY <1>6
  <2>1. lo \in 1..n
    BY <1>6
  <2>2. s[lo][2] < q[1] /\ q[2] < s[lo][1]
    BY <1>6, <1>7, <1>8, <2>1
  <2> QED BY <1>1, <1>2, <2>1, <2>2
<1>10. /\ new \in Int \X Int /\ new[1] < new[2]
       /\ new[1] <= q[1] /\ q[2] <= new[2]
       /\ \A i \in 1..n : i <= lo => s[i][2] < new[1]
       /\ \A i \in 1..n : hi <= i => new[2] < s[i][1]
       /\ \A i \in 1..n : lo < i /\ i < hi => new[1] <= s[i][1] /\ s[i][2] <= new[2]
       /\ \A x \in Int : new[1] <= x /\ x < new[2] /\ ~(q[1] <= x /\ x < q[2]) =>
             \E i \in 1..n : s[i][1] <= x /\ x < s[i][2]
  <2>1. CASE lo + 1 < hi
    <3> DEFINE l == s[lo + 1]
               h == s[hi - 1]
    <3>1. lo + 1 \in 1..n /\ hi - 1 \in 1..n /\ ~(lo + 1 <= lo) /\ ~(hi <= lo + 1) /\ ~(hi - 1 <= lo) /\ ~(hi <= hi - 1)
      BY <1>1, <1>6, <2>1
    <3>2. /\ l[1] \in Int /\ l[2] \in Int /\ l[1] < l[2] /\ h[1] \in Int /\ h[2] \in Int /\ h[1] < h[2]
          /\ q[1] <= l[2] /\ l[1] <= q[2] /\ q[1] <= h[2] /\ h[1] <= q[2]
      BY <1>1, <1>2, <1>7, <1>8, <3>1
    <3>3. l[1] <= h[1] /\ l[2] <= h[2]
      <4>1. CASE lo + 1 = hi - 1
        BY <3>2, <4>1
      <4>2. CASE lo + 1 # hi - 1
        <5>1. lo + 1 < hi - 1
          BY <1>6, <2>1, <4>2
        <5>2. l[2] < h[1]
          BY <1>1, <3>1, <5>1 DEF Separated
        <5> HIDE DEF l, h
        <5> QED BY <3>2, <5>2
      <4> QED BY <4>1, <4>2
    <3>4. new = Merged(q, Merged(l, h))
      BY <2>1
    <3> HIDE DEF new, l, h
    <3>5. Merged(l, h) = <<l[1], h[2]>>
      BY <3>2, <3>3 DEF Merged
    <3>6. /\ new[1] \in Int /\ new[2] \in Int /\ new \in Int \X Int
          /\ new[1] = IF q[1] < l[1] THEN q[1] ELSE l[1]
          /\ new[2] = IF q[2] > h[2] THEN q[2] ELSE h[2]
      BY <1>1, <3>2, <3>4, <3>5 DEF Merged
    <3>7. new[1] < new[2] /\ new[1] <= q[1] /\ q[2] <= new[2]
      BY <1>1, <3>2, <3>3, <3>6
    <3>8. ASSUME NEW i \in 1..n, i <= lo PROVE s[i][2] < new[1]
      <4>1. i < lo + 1 /\ s[i][2] < q[1]
        BY <1>6, <1>7, <3>8
      <4>2. s[i][2] < l[1]
        BY <1>1, <3>1, <4>1 DEF Separated, l
      <4> QED BY <3>6, <4>1, <4>2
    <3>9. ASSUME NEW i \in 1..n, hi <= i PROVE new[2] < s[i][1]
      <4>1. hi - 1 < i /\ q[2] < s[i][1]
        BY <1>6, <1>8, <3>9
      <4>2. h[2] < s[i][1]
        BY <1>1, <3>1, <4>1 DEF Separated, h
      <4> QED BY <3>6, <4>1, <4>2
    <3>10. ASSUME NEW i \in 1..n, lo < i, i < hi PROVE new[1] <= s[i][1] /\ s[i][2] <= new[2]
      <4>1. l[1] <= s[i][1]
        <5>1. CASE i = lo + 1
          BY <5>1, <3>2 DEF l
        <5>2. CASE i # lo + 1
          <6>1. lo + 1 < i
            BY <1>6, <3>10, <5>2
          <6>2. l[2] < s[i][1]
            BY <1>1, <3>1, <6>1 DEF Separated, l
          <6> QED BY <1>2, <3>2, <6>2
        <5> QED BY <5>1, <5>2
      <4>2. s[i][2] <= h[2]
        <5>1. CASE i = hi - 1
          BY <5>1, <3>2 DEF h
        <5>2. CASE i # hi - 1
          <6>1. i < hi - 1
            BY <1>6, <3>10, <5>2
          <6>2. s[i][2] < h[1]
            BY <1>1, <3>1, <6>1 DEF Separated, h
          <6> QED BY <1>2, <3>2, <6>2
        <5> QED BY <5>1, <5>2
      <4> QED BY <1>1, <1>2, <3>2, <3>6, <4>1, <4>2
    <3>11. ASSUME NEW x \in Int, new[1] <= x, x < new[2], ~(q[1] <= x /\ x < q[2])
           PROVE  \E i \in 1..n : s[i][1] <= x /\ x < s[i][2]
      <4>1. (l[1] <= x /\ x < l[2]) \/ (h[1] <= x /\ x < h[2])
        BY <1>1, <3>2, <3>6, <3>11
      <4> QED BY <3>1, <4>1 DEF l, h
    <3> QED BY <3>6, <3>7, <3>8, <3>9, <3>10, <3>11
  <2>2. CASE ~(lo + 1 < hi)
    <3>1. new = q /\ hi = lo + 1
      BY <1>6, <1>9, <2>2
    <3> HIDE DEF new
    <3>2. \A i \in 1..n : ~(lo < i /\ i < hi)
      BY <1>6, <3>1
    <3> QED BY <1>1, <1>7, <1>8, <3>1, <3>2
  <2> QED BY <2>1, <2>2
<1> HIDE DEF new
<1> DEFINE a == SubSeq(s, 1, lo)
           c == SubSeq(s, hi, n)
<1>11. /\ Whole(a) /\ Separated(a) /\ \A r : Has(a, r) <=> \E i \in 1..n : i <= lo /\ s[i] = r
       /\ Whole(c) /\ Separated(c) /\ \A r : Has(c, r) <=> \E i \in 1..n : hi <= i /\ s[i] = r
  <2>1. 1 \in 1..(Len(s) + 1) /\ lo \in 0..Len(s) /\ hi \in 1..(Len(s) + 1) /\ n \in 0..Len(s)
    BY <1>1, <1>6 DEF n
  <2>2. \A i \in DOMAIN s : 1 <= i /\ i <= n
    BY <1>1
  <2>3. /\ Whole(a) /\ Separated(a)
        /\ \A r : Has(a, r) <=> \E i \in DOMAIN s : 1 <= i /\ i <= lo /\ s[i] = r
    BY <2>1, Piece
  <2>4. /\ Whole(c) /\ Separated(c)
        /\ \A r : Has(c, r) <=> \E i \in DOMAIN s : hi <= i /\ i <= n /\ s[i] = r
    BY <2>1, Piece
  <2> HIDE DEF a, c
  <2> QED BY <1>1, <2>2, <2>3, <2>4
<1>12. Whole(<<new>>) /\ Separated(<<new>>) /\ \A r : Has(<<new>>, r) <=> r = new
  BY <1>10, OneRange
<1> HIDE DEF a, c
<1>13. \A r, t : Has(a, r) /\ Has(<<new>>, t) => r[2] < t[1]
  BY <1>10, <1>11, <1>12
<1>14. Whole(a \o <<new>>) /\ Separated(a \o <<new>>) /\ \A r : Has(a \o <<new>>, r) <=> Has(a, r) \/ r = new
  BY <1>11, <1>12, <1>13, Concat
<1>15. ASSUME NEW r, NEW t, Has(a \o <<new>>, r), Has(c, t) PROVE r[2] < t[1]
  <2>1. PICK i \in 1..n : hi <= i /\ s[i] = t
    BY <1>11, <1>15
  <2>2. new[2] < t[1] /\ new[1] < new[2] /\ new[1] \in Int /\ new[2] \in Int
    BY <1>10, <2>1
  <2>3. CASE r = new
    BY <2>2, <2>3
  <2>4. CASE Has(a, r)
    <3>1. r[2] < new[1]
      BY <1>10, <1>11, <2>4
    <3>2. r[2] \in Int /\ t[1] \in Int
      BY <1>2, <1>11, <2>1, <2>4, HasTyped
    <3> QED BY <2>2, <3>1, <3>2
  <2> QED BY <1>14, <1>15, <2>3, <2>4
<1> DEFINE u == a \o <<new>> \o c
<1>16. Whole(u) /\ Separated(u) /\ \A r : Has(u, r) <=> Has(a, r) \/ r = new \/ Has(c, r)
  BY <1>11, <1>14, <1>15, Concat
<1>17. AddLockedRange(s, q) = u
  BY <1>3 DEF a, c
<1> HIDE DEF u
<1>18. ASSUME NEW x \in Int PROVE In(u, x) <=> In(s, x) \/ (q[1] <= x /\ x < q[2])
  <2>1. In(u, x) <=> \E r : Has(u, r) /\ r[1] <= x /\ x < r[2]
    BY InHas
  <2>2. ASSUME In(u, x) PROVE In(s, x) \/ (q[1] <= x /\ x < q[2])
    <3>1. PICK r : Has(u, r) /\ r[1] <= x /\ x < r[2]
      BY <2>1, <2>2
    <3>2. CASE r = new
      BY <1>1, <1>10, <3>1, <3>2 DEF In
    <3>3. CASE r # new
      BY <1>1, <1>11, <1>16, <3>1, <3>3 DEF In
    <3> QED BY <3>2, <3>3
  <2>3. ASSUME In(s, x) PROVE In(u, x)
    <3>1. PICK i \in 1..n : s[i][1] <= x /\ x < s[i][2]
      BY <1>1, <2>3 DEF In
    <3>2. CASE i <= lo \/ hi <= i
      BY <1>11, <1>16, <2>1, <3>1, <3>2
    <3>3. CASE lo < i /\ i < hi
      <4>1. new[1] <= s[i][1] /\ s[i][2] <= new[2] /\ new[1] \in Int /\ new[2] \in Int
        BY <1>10, <3>3
      <4>2. new[1] <= x /\ x < new[2]
        BY <1>2, <3>1, <4>1
      <4> QED BY <1>16, <2>1, <4>2
    <3> QED BY <1>6, <3>2, <3>3
  <2>4. ASSUME q[1] <= x, x < q[2] PROVE In(u, x)
    <3>1. new[1] <= x /\ x < new[2]
      BY <1>1, <1>10, <2>4
    <3> QED BY <1>16, <2>1, <3>1
  <2> QED BY <2>2, <2>3, <2>4
<1> QED
  BY <1>16, <1>17, <1>18

(* release(): the ranges of K stay, in their order. *)
LEMMA Kept ==
    ASSUME NEW s, Whole(s), Separated(s), NEW K, NEW u,
           u = FlattenSeq([i \in DOMAIN s |-> IF s[i] \in K THEN <<s[i]>> ELSE << >>])
    PROVE  Whole(u) /\ Separated(u) /\ \A r : Has(u, r) <=> Has(s, r) /\ r \in K
<1> DEFINE n == Len(s)
           p == [i \in DOMAIN s |-> IF s[i] \in K THEN <<s[i]>> ELSE << >>]
<1>1. n \in Nat /\ DOMAIN s = 1..n
  BY DEF Whole, Ranges
<1>2. \A i \in 1..n : s[i] \in Int \X Int /\ s[i][1] < s[i][2]
  BY <1>1, ListTyped
<1>3. DOMAIN p = 1..n /\ \A i \in 1..n : p[i] = IF s[i] \in K THEN <<s[i]>> ELSE << >>
  BY <1>1
<1>4. u = FlattenSeq(p)
  OBVIOUS
<1> HIDE DEF n
<1>5. ASSUME NEW i \in 1..n
      PROVE  Whole(p[i]) /\ Separated(p[i]) /\ \A r : Has(p[i], r) <=> r = s[i] /\ r \in K
  <2> HIDE DEF p
  <2>1. CASE s[i] \in K
    <3>1. p[i] = <<s[i]>>
      BY <1>3, <2>1
    <3> QED BY <1>2, <2>1, <3>1, OneRange
  <2>2. CASE s[i] \notin K
    <3>1. p[i] = << >>
      BY <1>3, <2>2
    <3> QED BY <2>2, <3>1, EmptyList
  <2> QED BY <2>1, <2>2
<1>6. p \in Seq(Ranges) /\ Len(p) = n
  <2>1. \A i \in 1..n : p[i] \in Ranges
    BY <1>5 DEF Whole
  <2>2. p \in [1..n -> Ranges]
    BY <1>3, <2>1
  <2> HIDE DEF p
  <2> QED BY <1>1, <2>2, FunctionIsList
<1> HIDE DEF p
<1>7. \A k, l \in 1..n : \A r, t : k < l /\ Has(p[k], r) /\ Has(p[l], t) => r[2] < t[1]
  <2>1. \A k, l \in 1..n : k < l => s[k][2] < s[l][1]
    BY <1>1 DEF Separated
  <2> QED BY <1>5, <2>1
<1>8. /\ Whole(FlattenSeq(p)) /\ Separated(FlattenSeq(p))
      /\ \A r : Has(FlattenSeq(p), r) <=> \E k \in 1..n : Has(p[k], r)
  BY <1>5, <1>6, <1>7, Flattened
<1>9. ASSUME NEW r PROVE Has(u, r) <=> Has(s, r) /\ r \in K
  <2>1. Has(s, r) <=> \E k \in 1..n : s[k] = r
    BY <1>1 DEF Has
  <2>2. Has(u, r) <=> \E k \in 1..n : Has(p[k], r)
    BY <1>4, <1>8
  <2> QED BY <1>5, <2>1, <2>2
<1> QED
  BY <1>4, <1>8, <1>9

(* A range of the list gives way to what is left of it. *)
LEMMA Replaced ==
    ASSUME NEW s, Whole(s), Separated(s), NEW k \in DOMAIN s, NEW f \in Int, NEW g \in Int,
           s[k][1] <= f, f < g, g <= s[k][2], NEW u,
           u = SubSeq(s, 1, k - 1) \o NonEmpty(<<s[k][1], f>>) \o NonEmpty(<<g, s[k][2]>>)
                   \o SubSeq(s, k + 1, Len(s))
    PROVE  /\ Whole(u) /\ Separated(u)
           /\ \A x \in Int : In(u, x) <=> In(s, x) /\ ~(f <= x /\ x < g)
<1> DEFINE n == Len(s)
           r1 == s[k][1]
           r2 == s[k][2]
           a == SubSeq(s, 1, k - 1)
           b == NonEmpty(<<r1, f>>)
           c == NonEmpty(<<g, r2>>)
           d == SubSeq(s, k + 1, n)
<1>1. n \in Nat /\ DOMAIN s = 1..n
  BY DEF Whole, Ranges
<1>2. \A i \in 1..n : s[i] \in Int \X Int /\ s[i][1] \in Int /\ s[i][2] \in Int /\ s[i][1] < s[i][2]
  BY <1>1, ListTyped
<1>3. k \in 1..n /\ r1 \in Int /\ r2 \in Int /\ r1 <= f /\ f < g /\ g <= r2
  BY <1>1, <1>2
<1> DEFINE v == a \o b \o c \o d
<1>4. u = v
  OBVIOUS
<1>5. /\ Whole(a) /\ Separated(a)
      /\ \A r : Has(a, r) <=> \E i \in 1..n : i < k /\ s[i] = r
  <2>1. 1 \in 1..(Len(s) + 1) /\ k - 1 \in 0..Len(s)
    BY SMTT(30), <1>1, <1>3
  <2>2. \A i \in DOMAIN s : 1 <= i /\ (i <= k - 1 <=> i < k)
    BY SMTT(30), <1>1, <1>3
  <2>3. /\ Whole(a) /\ Separated(a)
        /\ \A r : Has(a, r) <=> \E i \in DOMAIN s : 1 <= i /\ i <= k - 1 /\ s[i] = r
    BY <2>1, Piece
  <2> HIDE DEF a
  <2> QED BY <1>1, <2>2, <2>3
<1>6. /\ Whole(d) /\ Separated(d)
      /\ \A r : Has(d, r) <=> \E i \in 1..n : k < i /\ s[i] = r
  <2>1. k + 1 \in 1..(Len(s) + 1) /\ n \in 0..Len(s)
    BY SMTT(30), <1>1, <1>3
  <2>2. \A i \in DOMAIN s : i <= n /\ (k + 1 <= i <=> k < i)
    BY SMTT(30), <1>1, <1>3
  <2>3. /\ Whole(d) /\ Separated(d)
        /\ \A r : Has(d, r) <=> \E i \in DOMAIN s : k + 1 <= i /\ i <= n /\ s[i] = r
    BY <2>1, Piece
  <2> HIDE DEF d
  <2> QED BY <1>1, <2>2, <2>3
<1> HIDE DEF r1, r2
<1>7. /\ Whole(b) /\ Separated(b) /\ \A r : Has(b, r) <=> r1 < f /\ r = <<r1, f>>
      /\ Whole(c) /\ Separated(c) /\ \A r : Has(c, r) <=> g < r2 /\ r = <<g, r2>>
  BY <1>3, KeptRange
<1> HIDE DEF a, b, c, d, n
<1>8. ASSUME NEW r, Has(a, r) PROVE r[2] < r1 /\ r[2] \in Int
  BY <1>1, <1>2, <1>3, <1>5, <1>8 DEF Separated, r1
<1>9. ASSUME NEW r, Has(d, r) PROVE r2 < r[1] /\ r[1] \in Int
  BY <1>1, <1>2, <1>3, <1>6, <1>9 DEF Separated, r2
<1>10. \A y, z : <<y, z>>[1] = y /\ <<y, z>>[2] = z
  OBVIOUS
<1>11. Whole(a \o b) /\ Separated(a \o b) /\ \A r : Has(a \o b, r) <=> Has(a, r) \/ Has(b, r)
  <2>1. \A r, t : Has(a, r) /\ Has(b, t) => r[2] < t[1]
    BY <1>7, <1>8, <1>10
  <2> QED BY <1>5, <1>7, <2>1, Concat
<1>12. /\ Whole(a \o b \o c) /\ Separated(a \o b \o c)
       /\ \A r : Has(a \o b \o c, r) <=> Has(a, r) \/ Has(b, r) \/ Has(c, r)
  <2>1. ASSUME NEW r, NEW t, Has(a \o b, r), Has(c, t) PROVE r[2] < t[1]
    <3>1. t[1] = g
      BY <1>7, <1>10, <2>1
    <3>2. CASE Has(a, r)
      BY SMTT(30), <1>3, <1>8, <3>1, <3>2
    <3>3. CASE Has(b, r)
      BY <1>3, <1>7, <1>10, <3>1, <3>3
    <3> QED BY <1>11, <2>1, <3>2, <3>3
  <2> QED BY <1>7, <1>11, <2>1, Concat
<1>13. /\ Whole(v) /\ Separated(v)
       /\ \A r : Has(v, r) <=> Has(a, r) \/ Has(b, r) \/ Has(c, r) \/ Has(d, r)
  <2>1. ASSUME NEW r, NEW t, Has(a \o b \o c, r), Has(d, t) PROVE r[2] < t[1]
    <3>1. r2 < t[1] /\ t[1] \in Int
      BY <1>9, <2>1
    <3>2. CASE Has(a, r)
      BY SMTT(30), <1>3, <1>8, <3>1, <3>2
    <3>3. CASE Has(b, r)
      BY <1>3, <1>7, <1>10, <3>1, <3>3
    <3>4. CASE Has(c, r)
      BY <1>3, <1>7, <1>10, <3>1, <3>4
    <3> QED BY <1>12, <2>1, <3>2, <3>3, <3>4
  <2> QED BY <1>6, <1>12, <2>1, Concat
<1> HIDE DEF v
<1>14. ASSUME NEW x \in Int PROVE In(v, x) <=> In(s, x) /\ ~(f <= x /\ x < g)
  <2>1. In(v, x) <=> \E r : Has(v, r) /\ r[1] <= x /\ x < r[2]
    BY InHas
  <2>2. ASSUME In(v, x) PROVE In(s, x) /\ ~(f <= x /\ x < g)
    <3>1. PICK r : Has(v, r) /\ r[1] <= x /\ x < r[2]
      BY <2>1, <2>2
    <3>2. CASE Has(a, r)
      <4>1. In(s, x)
        BY <1>1, <1>5, <3>1, <3>2 DEF In
      <4> QED BY <1>3, <1>8, <3>1, <3>2, <4>1
    <3>3. CASE Has(b, r)
      <4>1. r1 <= x /\ x < f
        BY <1>7, <1>10, <3>1, <3>3
      <4>2. s[k][1] <= x /\ x < s[k][2]
        BY <1>3, <4>1 DEF r1, r2
      <4> QED BY <1>3, <4>1, <4>2 DEF In
    <3>4. CASE Has(c, r)
      <4>1. g <= x /\ x < r2
        BY <1>7, <1>10, <3>1, <3>4
      <4>2. s[k][1] <= x /\ x < s[k][2]
        BY <1>3, <4>1 DEF r1, r2
      <4> QED BY <1>3, <4>1, <4>2 DEF In
    <3>5. CASE Has(d, r)
      <4>1. In(s, x)
        BY <1>1, <1>6, <3>1, <3>5 DEF In
      <4> QED BY <1>3, <1>9, <3>1, <3>5, <4>1
    <3> QED BY <1>13, <3>1, <3>2, <3>3, <3>4, <3>5
  <2>3. ASSUME In(s, x), ~(f <= x /\ x < g) PROVE In(v, x)
    <3>1. PICK i \in 1..n : s[i][1] <= x /\ x < s[i][2]
      BY <1>1, <2>3 DEF In
    <3>2. CASE i # k
      <4>1. i < k \/ k < i
        BY <1>3, <3>2
      <4>2. Has(v, s[i])
        BY <1>5, <1>6, <1>13, <4>1
      <4> QED BY <2>1, <3>1, <4>2
    <3>3. CASE i = k
      <4>1. r1 <= x /\ x < r2
        BY <3>1, <3>3 DEF r1, r2
      <4>2. CASE x < f
        <5>1. Has(v, <<r1, f>>)
          BY <1>3, <1>7, <1>13, <4>1, <4>2
        <5>2. <<r1, f>>[1] <= x /\ x < <<r1, f>>[2]
          BY <1>10, <4>1, <4>2
        <5> QED BY <2>1, <5>1, <5>2
      <4>3. CASE g <= x
        <5>1. Has(v, <<g, r2>>)
          BY <1>3, <1>7, <1>13, <4>1, <4>3
        <5>2. <<g, r2>>[1] <= x /\ x < <<g, r2>>[2]
          BY <1>10, <4>1, <4>3
        <5> QED BY <2>1, <5>1, <5>2
      <4> QED BY <1>3, <2>3, <4>2, <4>3
    <3> QED BY <3>2, <3>3
  <2> QED BY <2>2, <2>3
<1> QED
  BY <1>4, <1>13, <1>14

-----------------------------------------------------------------------------
(* Alignment.                                                                *)
LEMMA Monotone ==
    ASSUME NEW a \in Nat \ {0}, NEW j \in Int, NEW k \in Int
    PROVE  /\ j <= k => a * j <= a * k
           /\ j < k => a * j + a <= a * k
           /\ a * j < a * k => j < k
           /\ a * j = a * k => j = k
           /\ a * j \in Int /\ j * a = a * j
<1>1. a * j \in Int /\ j * a = a * j /\ a * k \in Int
  OBVIOUS
<1>2. j <= k => a * j <= a * k
  OBVIOUS
<1>3. j < k => a * j + a <= a * k
  <2> SUFFICES ASSUME j < k PROVE a * j + a <= a * k
    OBVIOUS
  <2>1. j + 1 <= k /\ j + 1 \in Int
    OBVIOUS
  <2>2. a * (j + 1) <= a * k
    BY <2>1
  <2>3. a * (j + 1) = a * j + a
    OBVIOUS
  <2> QED BY <2>2, <2>3
<1>4. k < j => a * k + a <= a * j
  <2> SUFFICES ASSUME k < j PROVE a * k + a <= a * j
    OBVIOUS
  <2>1. k + 1 <= j /\ k + 1 \in Int
    OBVIOUS
  <2>2. a * (k + 1) <= a * j
    BY <2>1
  <2>3. a * (k + 1) = a * k + a
    OBVIOUS
  <2> QED BY <2>2, <2>3
<1> QED BY <1>1, <1>2, <1>3, <1>4

LEMMA Division ==
    ASSUME NEW a \in Nat \ {0}, NEW x \in Int
    PROVE  /\ x \div a \in Int /\ x % a \in 0..(a - 1)
           /\ a * (x \div a) \in Int /\ x = a * (x \div a) + (x % a)
           /\ a * (x \div a) <= x /\ x < a * (x \div a) + a
<1>1. x \div a \in Int /\ x % a \in 0..(a - 1)
  OBVIOUS
<1>2. x = a * (x \div a) + (x % a)
  OBVIOUS
<1> DEFINE q == x \div a
           m == x % a
<1> HIDE DEF q, m
<1>3. q \in Int /\ m \in 0..(a - 1) /\ x = a * q + m
  BY <1>1, <1>2 DEF q, m
<1>4. a * q \in Int
  BY <1>3
<1>5. a * q <= x /\ x < a * q + a
  BY <1>3, <1>4
<1> QED BY <1>3, <1>4, <1>5 DEF q, m

(* The multiple of a at or below x is the only one within a of it. *)
LEMMA Quotient ==
    ASSUME NEW a \in Nat \ {0}, NEW x \in Int, NEW k \in Int, a * k <= x, x < a * k + a
    PROVE  x \div a = k /\ x % a = x - a * k
<1>1. /\ x \div a \in Int /\ x % a \in 0..(a - 1)
      /\ a * (x \div a) \in Int /\ x = a * (x \div a) + (x % a)
      /\ a * (x \div a) <= x /\ x < a * (x \div a) + a
  BY Division
<1> DEFINE q == x \div a
<1> HIDE DEF q
<1>2. q \in Int /\ a * q <= x /\ x < a * q + a /\ a * q \in Int /\ a * k \in Int
  BY <1>1 DEF q
<1>3. ~(q < k)
  <2>1. q < k => a * q + a <= a * k
    BY <1>2, Monotone
  <2> QED BY <1>2, <2>1
<1>4. ~(k < q)
  <2>1. k < q => a * k + a <= a * q
    BY <1>2, Monotone
  <2> QED BY <1>2, <2>1
<1>5. q = k
  BY <1>2, <1>3, <1>4
<1> QED BY <1>1, <1>5 DEF q

LEMMA Multiple ==
    ASSUME NEW a \in Nat \ {0}, NEW x \in Int
    PROVE  /\ x % a = 0 <=> x = a * (x \div a)
           /\ x % a = 0 <=> \E k \in Int : x = a * k
           /\ \A k \in Int : (a * k) % a = 0 /\ (a * k) \div a = k
<1>1. x \div a \in Int /\ a * (x \div a) \in Int /\ x % a \in Int /\ x = a * (x \div a) + (x % a)
  BY Division
<1>2. x % a = 0 <=> x = a * (x \div a)
  BY <1>1
<1>3. ASSUME NEW k \in Int PROVE (a * k) % a = 0 /\ (a * k) \div a = k
  <2>1. a * k \in Int /\ a * k <= a * k /\ a * k < a * k + a
    BY Monotone
  <2>2. (a * k) \div a = k /\ (a * k) % a = a * k - a * k
    BY <2>1, Quotient
  <2> QED BY <2>1, <2>2
<1> QED BY <1>1, <1>2, <1>3

(* AlignDown() and AlignUp(): the nearest multiples. *)
LEMMA Aligning ==
    ASSUME NEW a \in Nat \ {0}, NEW x \in Int
    PROVE  /\ AlignDown(x, a) \in Int /\ AlignUp(x, a) \in Int
           /\ AlignDown(x, a) % a = 0 /\ AlignUp(x, a) % a = 0
           /\ AlignDown(x, a) <= x /\ x < AlignDown(x, a) + a
           /\ x <= AlignUp(x, a) /\ AlignUp(x, a) < x + a
<1>1. ASSUME NEW y \in Int
      PROVE  /\ AlignDown(y, a) \in Int /\ AlignDown(y, a) % a = 0
             /\ AlignDown(y, a) <= y /\ y < AlignDown(y, a) + a
  <2>1. y \div a \in Int /\ a * (y \div a) \in Int /\ a * (y \div a) <= y /\ y < a * (y \div a) + a
    BY Division
  <2>2. AlignDown(y, a) = a * (y \div a)
    BY <2>1, Monotone DEF AlignDown
  <2>3. (a * (y \div a)) % a = 0
    BY <2>1, Multiple
  <2> QED BY <2>1, <2>2, <2>3
<1>2. AlignUp(x, a) = AlignDown(x + a - 1, a) /\ x + a - 1 \in Int
  BY DEF AlignUp
<1> QED BY <1>1, <1>2

LEMMA AlignedFixed ==
    ASSUME NEW a \in Nat \ {0}, NEW x \in Int, NEW m \in Int, m % a = 0
    PROVE  /\ x <= m => AlignUp(x, a) <= m
           /\ m <= x => m <= AlignDown(x, a)
           /\ AlignUp(m, a) = m /\ AlignDown(m, a) = m
<1>1. PICK k \in Int : m = a * k
  BY Multiple
<1>2. ASSUME NEW y \in Int, y % a = 0, y < m + a PROVE y <= m
  <2>1. PICK j \in Int : y = a * j
    BY <1>2, Multiple
  <2>2. ~(k < j)
    <3>1. k < j => a * k + a <= a * j
      BY Monotone
    <3> QED BY <1>1, <1>2, <2>1, <3>1
  <2>3. j <= k => a * j <= a * k
    BY Monotone
  <2> QED BY <1>1, <2>1, <2>2, <2>3
<1>3. ASSUME NEW y \in Int, y % a = 0, m - a < y PROVE m <= y
  <2>1. PICK j \in Int : y = a * j
    BY <1>3, Multiple
  <2>2. ~(j < k)
    <3>1. j < k => a * j + a <= a * k
      BY Monotone
    <3>2. a * j \in Int /\ a * k \in Int
      BY Monotone
    <3> QED BY <1>1, <1>3, <2>1, <3>1, <3>2
  <2>3. k <= j => a * k <= a * j
    BY Monotone
  <2> QED BY <1>1, <2>1, <2>2, <2>3
<1>4. /\ AlignUp(x, a) \in Int /\ AlignUp(x, a) % a = 0 /\ x <= AlignUp(x, a) /\ AlignUp(x, a) < x + a
      /\ AlignDown(x, a) \in Int /\ AlignDown(x, a) % a = 0 /\ AlignDown(x, a) <= x /\ x < AlignDown(x, a) + a
      /\ AlignUp(m, a) \in Int /\ AlignUp(m, a) % a = 0 /\ m <= AlignUp(m, a) /\ AlignUp(m, a) < m + a
      /\ AlignDown(m, a) \in Int /\ AlignDown(m, a) % a = 0 /\ AlignDown(m, a) <= m /\ m < AlignDown(m, a) + a
  BY Aligning
<1>5. x <= m => AlignUp(x, a) <= m
  BY <1>2, <1>4
<1>6. m <= x => m <= AlignDown(x, a)
  BY <1>3, <1>4
<1>7. AlignUp(m, a) <= m /\ m <= AlignDown(m, a)
  BY <1>2, <1>3, <1>4
<1> QED BY <1>4, <1>5, <1>6, <1>7

-----------------------------------------------------------------------------
(* Ranges and pages.                                                         *)
Aligned(s) == \A i \in DOMAIN s : s[i][1] % PageSize = 0
Within(s, n) == \A i \in DOMAIN s : 0 <= s[i][1] /\ s[i][2] <= n

(* What mappedRanges() and lockedRanges() are in a mapping of length n. *)
Listed(s, n) == Whole(s) /\ Separated(s) /\ Aligned(s) /\ Within(s, n)

LEMMA PageSizePositive == PageSize \in Nat \ {0}
BY MmapAssumption

LEMMA PagesAre ==
    ASSUME NEW r, r[1] \in Int, r[2] \in Int, r[1] < r[2], r[1] % PageSize = 0
    PROVE  \A p : p \in Pages(r) <=> p \in Int /\ r[1] <= PageSize * p /\ PageSize * p < r[2]
<1> DEFINE P == PageSize
           k == r[1] \div P
           m == (r[2] - 1) \div P
<1>1. P \in Nat \ {0}
  BY PageSizePositive
<1>2. k \in Int /\ r[1] = P * k
  BY <1>1, Multiple, Division
<1>3. r[2] - 1 \in Int
  OBVIOUS
<1>4. m \in Int /\ P * m \in Int /\ P * m <= r[2] - 1 /\ r[2] - 1 < P * m + P
  BY <1>1, <1>3, Division
<1>5. Pages(r) = k..m
  BY DEF Pages, IsEmpty
<1> HIDE DEF P, k, m
<1>6. ASSUME NEW p \in Int PROVE p \in k..m <=> r[1] <= P * p /\ P * p < r[2]
  <2>1. k <= p <=> P * k <= P * p
    <3>1. k <= p => P * k <= P * p
      BY <1>1, <1>2, Monotone
    <3>2. P * p < P * k \/ P * k <= P * p
      BY <1>1, <1>2, Monotone
    <3>3. p < k => P * p + P <= P * k
      BY <1>1, <1>2, Monotone
    <3>4. P * p \in Int /\ P * k \in Int
      BY <1>1, <1>2
    <3> QED BY <1>1, <1>2, <3>1, <3>3, <3>4
  <2>2. p <= m => P * p <= P * m
    BY <1>1, <1>4, Monotone
  <2>3. m < p => P * m + P <= P * p
    BY <1>1, <1>4, Monotone
  <2>4. P * p \in Int
    BY <1>1
  <2>5. p <= m <=> P * p < r[2]
    BY <1>1, <1>4, <2>2, <2>3, <2>4
  <2> QED BY <1>2, <1>4, <2>1, <2>5
<1>7. \A p \in k..m : p \in Int
  BY <1>2, <1>4
<1> QED
  BY <1>5, <1>6, <1>7 DEF P

LEMMA PagesOfAre ==
    ASSUME NEW s, Whole(s), Aligned(s)
    PROVE  \A p : p \in PagesOf(s) <=> p \in Int /\ In(s, PageSize * p)
<1>1. ASSUME NEW i \in DOMAIN s
      PROVE  \A p : p \in Pages(s[i]) <=> p \in Int /\ s[i][1] <= PageSize * p /\ PageSize * p < s[i][2]
  BY ListTyped, PagesAre DEF Aligned
<1> QED
  BY <1>1 DEF PagesOf, In

LEMMA ListedIn ==
    ASSUME NEW s, NEW n \in Int, Listed(s, n), NEW x \in Int, In(s, x)
    PROVE  0 <= x /\ x < n /\ (~In(s, x - 1) => x % PageSize = 0)
<1>1. PICK i \in DOMAIN s : s[i][1] <= x /\ x < s[i][2]
  BY DEF In
<1>2. s[i][1] \in Int /\ s[i][2] \in Int /\ 0 <= s[i][1] /\ s[i][2] <= n /\ s[i][1] % PageSize = 0
  BY ListTyped DEF Listed, Within, Aligned
<1>3. ASSUME ~In(s, x - 1) PROVE x = s[i][1]
  <2>1. ~(s[i][1] <= x - 1 /\ x - 1 < s[i][2])
    BY <1>3 DEF In
  <2> QED BY <1>1, <1>2, <2>1
<1> QED BY <1>1, <1>2, <1>3

LEMMA Relisted ==
    ASSUME NEW u, Whole(u), Separated(u), NEW n \in Int,
           \A x \in Int : In(u, x) => 0 <= x /\ x < n /\ (~In(u, x - 1) => x % PageSize = 0)
    PROVE  Listed(u, n)
<1>1. ASSUME NEW i \in DOMAIN u PROVE 0 <= u[i][1] /\ u[i][2] <= n /\ u[i][1] % PageSize = 0
  <2>1. u[i][1] \in Int /\ u[i][2] \in Int /\ u[i][2] - 1 \in Int
    BY ListTyped
  <2>2. In(u, u[i][1]) /\ ~In(u, u[i][1] - 1) /\ In(u, u[i][2] - 1)
    BY Starts
  <2>3. 0 <= u[i][1] /\ u[i][1] % PageSize = 0
    BY <2>1, <2>2
  <2>4. u[i][2] - 1 < n
    BY <2>1, <2>2
  <2> QED BY <2>1, <2>3, <2>4
<1> QED BY <1>1 DEF Listed, Aligned, Within

(* lock(): the record and the kernel gain the same pages. *)
LEMMA AddedListed ==
    ASSUME NEW s, NEW n \in Int, Listed(s, n), NEW q \in Int \X Int,
           0 <= q[1], q[1] < q[2], q[2] <= n, q[1] % PageSize = 0
    PROVE  /\ Listed(AddLockedRange(s, q), n)
           /\ PagesOf(AddLockedRange(s, q)) = PagesOf(s) \cup Pages(q)
<1> DEFINE u == AddLockedRange(s, q)
<1>0. q[1] \in Int /\ q[2] \in Int
  OBVIOUS
<1>1. /\ Whole(u) /\ Separated(u)
      /\ \A x \in Int : In(u, x) <=> In(s, x) \/ (q[1] <= x /\ x < q[2])
  BY Added DEF Listed
<1> HIDE DEF u
<1>2. ASSUME NEW x \in Int, In(u, x) PROVE 0 <= x /\ x < n /\ (~In(u, x - 1) => x % PageSize = 0)
  <2>1. x - 1 \in Int
    OBVIOUS
  <2>2. CASE In(s, x)
    BY <1>1, <2>1, <2>2, ListedIn
  <2>3. CASE q[1] <= x /\ x < q[2]
    <3>1. 0 <= x /\ x < n
      BY <1>0, <2>3
    <3>2. ASSUME ~In(u, x - 1) PROVE x = q[1]
      <4>1. ~(q[1] <= x - 1 /\ x - 1 < q[2])
        BY <1>1, <2>1, <3>2
      <4> QED BY <1>0, <2>1, <2>3, <4>1
    <3> QED BY <3>1, <3>2
  <2> QED BY <1>1, <1>2, <2>2, <2>3
<1>3. Listed(u, n)
  BY <1>1, <1>2, Relisted
<1>4. \A p : p \in PagesOf(u) <=> p \in Int /\ In(u, PageSize * p)
  BY <1>3, PagesOfAre DEF Listed
<1>5. \A p : p \in PagesOf(s) <=> p \in Int /\ In(s, PageSize * p)
  BY PagesOfAre DEF Listed
<1>6. \A p : p \in Pages(q) <=> p \in Int /\ q[1] <= PageSize * p /\ PageSize * p < q[2]
  BY <1>0, PagesAre
<1>7. \A p \in Int : PageSize * p \in Int
  BY PageSizePositive
<1>8. \A p : p \in PagesOf(u) <=> p \in PagesOf(s) \cup Pages(q)
  BY <1>1, <1>4, <1>5, <1>6, <1>7
<1> QED
  BY <1>3, <1>8 DEF u

(* unlock(), unmap(): they lose the same pages. *)
LEMMA CutListed ==
    ASSUME NEW s, NEW n \in Int, Listed(s, n), NEW q \in Int \X Int, NEW u,
           0 <= q[1], q[1] < q[2], q[1] % PageSize = 0, q[2] % PageSize = 0 \/ n <= q[2],
           u \in {Remainder(s, q), SubtractRange(s, q)}
    PROVE  Listed(u, n) /\ PagesOf(u) = PagesOf(s) \ Pages(q)
<1> DEFINE t == Remainder(s, q)
<1>0. q[1] \in Int /\ q[2] \in Int
  OBVIOUS
<1>1. /\ Whole(t) /\ Separated(t)
      /\ \A x \in Int : In(t, x) <=> In(s, x) /\ ~(q[1] <= x /\ x < q[2])
  BY Cut DEF Listed
<1>2. u = t \/ u = NormalizeRanges(t)
  BY DEF SubtractRange
<1> HIDE DEF t
<1>3. /\ Whole(u) /\ Separated(u)
      /\ \A x \in Int : In(u, x) <=> In(s, x) /\ ~(q[1] <= x /\ x < q[2])
  BY <1>1, <1>2, Normalized
<1>4. ASSUME NEW x \in Int, In(u, x) PROVE 0 <= x /\ x < n /\ (~In(u, x - 1) => x % PageSize = 0)
  <2>1. x - 1 \in Int /\ In(s, x) /\ ~(q[1] <= x /\ x < q[2])
    BY <1>3, <1>4
  <2>2. 0 <= x /\ x < n /\ (~In(s, x - 1) => x % PageSize = 0)
    BY <2>1, ListedIn
  <2>3. ASSUME ~In(u, x - 1), In(s, x - 1) PROVE x % PageSize = 0
    <3>1. q[1] <= x - 1 /\ x - 1 < q[2]
      BY <1>3, <2>1, <2>3
    <3>2. x = q[2]
      BY <1>0, <2>1, <3>1
    <3> QED BY <1>0, <2>2, <3>2
  <2> QED BY <2>2, <2>3
<1>5. Listed(u, n)
  BY <1>3, <1>4, Relisted
<1>6. \A p : p \in PagesOf(u) <=> p \in Int /\ In(u, PageSize * p)
  BY <1>5, PagesOfAre DEF Listed
<1>7. \A p : p \in PagesOf(s) <=> p \in Int /\ In(s, PageSize * p)
  BY PagesOfAre DEF Listed
<1>8. \A p : p \in Pages(q) <=> p \in Int /\ q[1] <= PageSize * p /\ PageSize * p < q[2]
  BY <1>0, PagesAre
<1>9. \A p \in Int : PageSize * p \in Int
  BY PageSizePositive
<1>10. \A p : p \in PagesOf(u) <=> p \in PagesOf(s) \ Pages(q)
  BY <1>3, <1>6, <1>7, <1>8, <1>9
<1> QED
  BY <1>5, <1>10

(* Nothing to unlock: none of the pages is recorded. *)
LEMMA Untouched ==
    ASSUME NEW s, NEW n \in Int, Listed(s, n), NEW q \in Int \X Int,
           q[1] < q[2], q[1] % PageSize = 0, \A i \in DOMAIN s : ~Overlaps(s[i], q)
    PROVE  PagesOf(s) \cap Pages(q) = {}
<1>0. q[1] \in Int /\ q[2] \in Int
  OBVIOUS
<1>1. \A p : p \in PagesOf(s) <=> p \in Int /\ In(s, PageSize * p)
  BY PagesOfAre DEF Listed
<1>2. \A p : p \in Pages(q) <=> p \in Int /\ q[1] <= PageSize * p /\ PageSize * p < q[2]
  BY <1>0, PagesAre
<1>3. ASSUME NEW x \in Int, In(s, x), q[1] <= x, x < q[2] PROVE FALSE
  <2>1. PICK i \in DOMAIN s : s[i][1] <= x /\ x < s[i][2]
    BY <1>3 DEF In
  <2>2. s[i][1] \in Int /\ s[i][2] \in Int /\ ~(s[i][1] < q[2] /\ q[1] < s[i][2])
    BY ListTyped DEF Listed, Overlaps
  <2> QED BY <1>0, <1>3, <2>1, <2>2
<1>4. \A p \in Int : PageSize * p \in Int
  BY PageSizePositive
<1> QED BY <1>1, <1>2, <1>3, <1>4

(* release(): the ranges that stay are the pages that stay. *)
LEMMA KeptListed ==
    ASSUME NEW s, NEW n \in Int, Listed(s, n), NEW K, NEW u,
           u = FlattenSeq([i \in DOMAIN s |-> IF s[i] \in K THEN <<s[i]>> ELSE << >>])
    PROVE  Listed(u, n) /\ PagesOf(u) = UNION {Pages(r) : r \in {r \in K : Has(s, r)}}
<1>1. Whole(u) /\ Separated(u) /\ \A r : Has(u, r) <=> Has(s, r) /\ r \in K
  BY Kept DEF Listed
<1>2. ASSUME NEW i \in DOMAIN u PROVE 0 <= u[i][1] /\ u[i][2] <= n /\ u[i][1] % PageSize = 0
  <2>1. Has(u, u[i])
    BY DEF Has
  <2>2. PICK j \in DOMAIN s : s[j] = u[i]
    BY <1>1, <2>1 DEF Has
  <2> QED BY <2>2 DEF Listed, Within, Aligned
<1>3. Listed(u, n)
  BY <1>1, <1>2 DEF Listed, Within, Aligned
<1>4. \A p : p \in PagesOf(u) <=> \E r : Has(u, r) /\ p \in Pages(r)
  BY DEF PagesOf, Has
<1>5. \A p : p \in PagesOf(u) <=> \E r : Has(s, r) /\ r \in K /\ p \in Pages(r)
  BY <1>1, <1>4
<1> QED BY <1>3, <1>5

LEMMA FreshListed ==
    ASSUME NEW n \in Nat \ {0}
    PROVE  Listed(<< <<0, n>> >>, n) /\ PagesOf(<< <<0, n>> >>) = Pages(<<0, n>>)
<1>1. <<0, n>> \in Int \X Int /\ <<0, n>>[1] = 0 /\ <<0, n>>[2] = n
  OBVIOUS
<1> DEFINE r == <<0, n>>
<1> HIDE DEF r
<1>2. Whole(<<r>>) /\ Separated(<<r>>)
  BY <1>1, OneRange DEF r
<1>3. DOMAIN <<r>> = {1} /\ <<r>>[1] = r
  OBVIOUS
<1>4. 0 % PageSize = 0
  <2>1. PageSize * 0 = 0 /\ PageSize \in Nat \ {0} /\ 0 \in Int
    BY PageSizePositive
  <2>2. (PageSize * 0) % PageSize = 0
    BY <2>1, Multiple
  <2> QED BY <2>1, <2>2
<1>5. Listed(<<r>>, n)
  BY <1>1, <1>2, <1>3, <1>4 DEF Listed, Aligned, Within, r
<1>6. PagesOf(<<r>>) = Pages(r)
  BY <1>3 DEF PagesOf
<1> QED BY <1>5, <1>6 DEF r

LEMMA EmptyListed ==
    ASSUME NEW n \in Int
    PROVE  Listed(<< >>, n) /\ PagesOf(<< >>) = {}
BY EmptyList DEF Listed, Aligned, Within, PagesOf

-----------------------------------------------------------------------------
(* The mapping.  Its lists are sorted, have gaps, start on pages and lie in  *)
(* it; the lock record is that of the mapping while there is one; and the    *)
(* lists are what the kernel holds.                                          *)
MapInv ==
    /\ m_addr \in Bases \cup {0} /\ m_mapLength \in Nat \ {0} /\ lockSize \in Nat
    /\ Listed(m_mappedRanges, m_mapLength) /\ Listed(m_lockedRanges, m_mapLength)
    /\ m_lockedRanges # << >> => lockSize = m_mapLength
    /\ m_addr # 0 =>
          /\ lockAddr = m_addr /\ lockSize = m_mapLength
          /\ osMapped = PagesOf(m_mappedRanges) /\ osLocked = PagesOf(m_lockedRanges)
          /\ osLocked \subseteq osMapped
    /\ m_addr = 0 => m_mappedRanges = << >> /\ osMapped = {}

(* The range JobMemLock works on: whole pages, or to the end of the mapping. *)
LEMMA LockRange ==
    ASSUME MapInv, NEW r, r[1] \in Nat, r[2] \in Nat, r[1] < r[2], r[2] <= lockSize
    PROVE  LET q == LockRangeOf(r) IN
           /\ q \in Int \X Int /\ 0 <= q[1] /\ q[1] < q[2] /\ q[2] <= lockSize
           /\ q[1] % PageSize = 0 /\ (q[2] % PageSize = 0 \/ q[2] = lockSize)
           /\ r[1] % PageSize = 0 /\ r[2] % PageSize = 0 => q[1] = r[1] /\ q[2] = r[2]
<1> DEFINE d == AlignDown(r[1], PageSize)
           l == AlignUp(r[2], PageSize)
           e == IF l < lockSize THEN l ELSE lockSize
           q == LockRangeOf(r)
<1>1. lockSize \in Nat
  BY DEF MapInv
<1>2. /\ d \in Int /\ d % PageSize = 0 /\ d <= r[1]
      /\ l \in Int /\ l % PageSize = 0 /\ r[2] <= l
  <2>1. r[1] \in Int /\ r[2] \in Int
    OBVIOUS
  <2>2. d \in Int /\ d % PageSize = 0 /\ d <= r[1]
    BY <2>1, PageSizePositive, Aligning
  <2>3. l \in Int /\ l % PageSize = 0 /\ r[2] <= l
    BY <2>1, PageSizePositive, Aligning
  <2> QED BY <2>2, <2>3
<1>3. 0 <= d
  <2>1. 0 % PageSize = 0
    <3>1. PageSize * 0 = 0 /\ 0 \in Int
      BY PageSizePositive
    <3>2. (PageSize * 0) % PageSize = 0
      BY <3>1, PageSizePositive, Multiple
    <3> QED BY <3>1, <3>2
  <2> QED BY <2>1, PageSizePositive, AlignedFixed
<1>4. r[1] % PageSize = 0 /\ r[2] % PageSize = 0 => d = r[1] /\ l = r[2]
  BY PageSizePositive, AlignedFixed
<1>5. q = <<d, e>>
  BY DEF LockRangeOf
<1> HIDE DEF d, l, q
<1>6. e \in Int /\ r[2] <= e /\ e <= lockSize /\ (e = l \/ e = lockSize) /\ (l = r[2] => e = r[2])
  BY <1>1, <1>2
<1> HIDE DEF e
<1>7. q[1] = d /\ q[2] = e /\ q \in Int \X Int
  BY <1>2, <1>5, <1>6
<1> QED
  BY <1>1, <1>2, <1>3, <1>4, <1>6, <1>7 DEF q

(* The range unmap() works on: whole pages within what it was asked for. *)
LEMMA Inward ==
    ASSUME NEW r, r[1] \in Nat, r[2] \in Nat, r[1] < r[2], ~IsEmpty(AlignedInward(r))
    PROVE  LET q == AlignedInward(r) IN
           /\ q \in Int \X Int /\ r[1] <= q[1] /\ q[1] < q[2] /\ q[2] <= r[2]
           /\ q[1] \in Nat /\ q[2] \in Nat
           /\ q[1] % PageSize = 0 /\ q[2] % PageSize = 0
<1> DEFINE f == AlignUp(r[1], PageSize)
           l == AlignDown(r[2], PageSize)
           q == AlignedInward(r)
<1>1. /\ f \in Int /\ f % PageSize = 0 /\ r[1] <= f
      /\ l \in Int /\ l % PageSize = 0 /\ l <= r[2]
  <2>1. r[1] \in Int /\ r[2] \in Int
    OBVIOUS
  <2>2. f \in Int /\ f % PageSize = 0 /\ r[1] <= f
    BY <2>1, PageSizePositive, Aligning
  <2>3. l \in Int /\ l % PageSize = 0 /\ l <= r[2]
    BY <2>1, PageSizePositive, Aligning
  <2> QED BY <2>2, <2>3
<1>2. q = IF f >= l THEN <<l, l>> ELSE <<f, l>>
  BY DEF AlignedInward
<1>3. ~IsEmpty(q)
  OBVIOUS
<1> HIDE DEF f, l, q
<1>4. ~(f >= l)
  BY <1>2, <1>3 DEF IsEmpty
<1>5. q = <<f, l>> /\ q[1] = f /\ q[2] = l
  BY <1>2, <1>4
<1> QED
  BY <1>1, <1>4, <1>5 DEF q

(* One step of each operation. *)
LEMMA MemLockStep ==
    ASSUME MapInv, NEW r, r[1] \in Nat, r[2] \in Nat, r[1] < r[2], m_addr # 0, MemLock(r),
           UNCHANGED <<mapVars, lockAddr, lockSize, osMapped>>
    PROVE  MapInv'
<1> DEFINE q == LockRangeOf(r)
<1>1. /\ lockSize = m_mapLength /\ m_mapLength \in Nat \ {0} /\ Listed(m_lockedRanges, m_mapLength)
      /\ osMapped = PagesOf(m_mappedRanges) /\ osLocked = PagesOf(m_lockedRanges)
      /\ osLocked \subseteq osMapped
  BY DEF MapInv
<1>2. r[2] <= lockSize /\ Pages(q) \subseteq osMapped
      /\ m_lockedRanges' = AddLockedRange(m_lockedRanges, q) /\ osLocked' = osLocked \cup Pages(q)
  BY DEF MemLock
<1>3. /\ q \in Int \X Int /\ 0 <= q[1] /\ q[1] < q[2] /\ q[2] <= lockSize
      /\ q[1] % PageSize = 0
  BY <1>2, LockRange
<1> HIDE DEF q
<1>4. /\ Listed(m_lockedRanges', m_mapLength)
      /\ PagesOf(m_lockedRanges') = PagesOf(m_lockedRanges) \cup Pages(q)
  BY <1>1, <1>2, <1>3, AddedListed
<1>5. UNCHANGED <<m_addr, m_mapLength, m_mappedRanges, lockAddr, lockSize, osMapped>>
  BY DEF mapVars
<1>6. Listed(m_mappedRanges, m_mapLength)' /\ Listed(m_lockedRanges, m_mapLength)'
  BY <1>4, <1>5 DEF MapInv, Listed, Within
<1>7. PagesOf(m_lockedRanges)' = osLocked' /\ PagesOf(m_mappedRanges)' = osMapped'
  BY <1>1, <1>2, <1>4, <1>5 DEF PagesOf
<1> QED
  BY <1>1, <1>2, <1>5, <1>6, <1>7 DEF MapInv

(* JobMemLock::unlock(): the locked list and the kernel stay in step, and    *)
(* the pages of the range are no longer locked.                              *)
LEMMA UnlockedStep ==
    ASSUME MapInv, NEW r, r[1] \in Nat, r[2] \in Nat, r[1] < r[2], Unlocked(r)
    PROVE  /\ Listed(m_lockedRanges', m_mapLength)
           /\ m_lockedRanges' # << >> => m_lockedRanges # << >>
           /\ m_addr # 0 =>
                 /\ osLocked' = PagesOf(m_lockedRanges') /\ osLocked' \subseteq osLocked
                 /\ osLocked' \cap Pages(LockRangeOf(r)) = {}
<1> DEFINE q == LockRangeOf(r)
<1>1. m_mapLength \in Nat \ {0} /\ Listed(m_lockedRanges, m_mapLength) /\ r[2] <= lockSize
  BY DEF MapInv, Unlocked
<1>2. /\ q \in Int \X Int /\ 0 <= q[1] /\ q[1] < q[2] /\ q[2] <= lockSize
      /\ q[1] % PageSize = 0 /\ (q[2] % PageSize = 0 \/ q[2] = lockSize)
  BY <1>1, LockRange
<1>3. m_addr # 0 => osLocked = PagesOf(m_lockedRanges)
  BY DEF MapInv
<1>4. \/ /\ \E i \in DOMAIN m_lockedRanges : Overlaps(m_lockedRanges[i], q)
         /\ m_lockedRanges' = Remainder(m_lockedRanges, q) /\ osLocked' = osLocked \ Pages(q)
      \/ /\ \A i \in DOMAIN m_lockedRanges : ~Overlaps(m_lockedRanges[i], q)
         /\ m_lockedRanges' = m_lockedRanges /\ osLocked' = osLocked
  BY DEF Unlocked, LocksWithout
<1> HIDE DEF q
<1>5. CASE /\ \E i \in DOMAIN m_lockedRanges : Overlaps(m_lockedRanges[i], q)
           /\ m_lockedRanges' = Remainder(m_lockedRanges, q) /\ osLocked' = osLocked \ Pages(q)
  <2>1. m_lockedRanges # << >>
    BY <1>5
  <2>2. lockSize = m_mapLength
    BY <2>1 DEF MapInv
  <2>3. /\ Listed(m_lockedRanges', m_mapLength)
        /\ PagesOf(m_lockedRanges') = PagesOf(m_lockedRanges) \ Pages(q)
    <3>1. Remainder(m_lockedRanges, q) \in {Remainder(m_lockedRanges, q), SubtractRange(m_lockedRanges, q)}
      OBVIOUS
    <3>2. q[2] % PageSize = 0 \/ m_mapLength <= q[2]
      BY <1>1, <1>2, <2>2
    <3> QED BY <1>1, <1>2, <1>5, <3>1, <3>2, CutListed
  <2> QED BY <1>3, <1>5, <2>1, <2>3 DEF q
<1>6. CASE /\ \A i \in DOMAIN m_lockedRanges : ~Overlaps(m_lockedRanges[i], q)
           /\ m_lockedRanges' = m_lockedRanges /\ osLocked' = osLocked
  <2>1. PagesOf(m_lockedRanges) \cap Pages(q) = {}
    BY <1>1, <1>2, <1>6, Untouched
  <2> QED BY <1>1, <1>3, <1>6, <2>1 DEF q
<1> QED BY <1>4, <1>5, <1>6

LEMMA UnlockStep ==
    ASSUME MapInv, NEW r \in ClientRanges, Unlock(r)
    PROVE  MapInv'
<1>1. r[1] \in Nat /\ r[2] \in Nat /\ r[1] < r[2]
  BY MmapAssumption
<1>2. Unlocked(r) /\ UNCHANGED <<m_addr, m_mapLength, m_mappedRanges, lockAddr, lockSize, osMapped>>
  BY DEF Unlock, mapVars
<1>3. /\ Listed(m_lockedRanges', m_mapLength)
      /\ m_lockedRanges' # << >> => m_lockedRanges # << >>
      /\ m_addr # 0 => osLocked' = PagesOf(m_lockedRanges') /\ osLocked' \subseteq osLocked
  BY <1>1, <1>2, UnlockedStep
<1>4. Listed(m_mappedRanges, m_mapLength)' /\ Listed(m_lockedRanges, m_mapLength)'
  BY <1>2, <1>3 DEF MapInv, Listed, Within
<1>5. PagesOf(m_mappedRanges)' = PagesOf(m_mappedRanges) /\ PagesOf(m_lockedRanges)' = PagesOf(m_lockedRanges')
  BY <1>2 DEF PagesOf
<1> QED
  BY <1>2, <1>3, <1>4, <1>5 DEF MapInv

LEMMA UnmapRangeStep ==
    ASSUME MapInv, NEW r \in ClientRanges, UnmapRange(r)
    PROVE  MapInv'
<1> DEFINE q == AlignedInward(r)
<1>1. r[1] \in Nat /\ r[2] \in Nat /\ r[1] < r[2]
  BY MmapAssumption
<1>2. /\ m_addr # 0 /\ ~IsEmpty(q) /\ Unlocked(q)
      /\ \/ /\ osMapped' = osMapped \ Pages(q)
            /\ m_mappedRanges' = SubtractRange(m_mappedRanges, q)
         \/ UNCHANGED <<osMapped, m_mappedRanges>>
      /\ UNCHANGED <<m_addr, m_mapLength, lockAddr, lockSize>>
  BY DEF UnmapRange, IsValid
<1>3. /\ q \in Int \X Int /\ 0 <= q[1] /\ q[1] < q[2] /\ q[1] \in Nat /\ q[2] \in Nat
      /\ q[1] % PageSize = 0 /\ q[2] % PageSize = 0
  BY <1>1, <1>2, Inward
<1> HIDE DEF q
<1>4. LockRangeOf(q) = q
  <2>1. q[2] <= lockSize
    BY <1>2 DEF Unlocked
  <2>2. LockRangeOf(q) \in Int \X Int /\ LockRangeOf(q)[1] = q[1] /\ LockRangeOf(q)[2] = q[2]
    BY <1>3, <2>1, LockRange
  <2> DEFINE z == LockRangeOf(q)
  <2> HIDE DEF z
  <2>3. z = <<z[1], z[2]>> /\ q = <<q[1], q[2]>>
    BY <1>3, <2>2 DEF z
  <2> QED BY <2>2, <2>3 DEF z
<1>5. /\ Listed(m_lockedRanges', m_mapLength)
      /\ osLocked' = PagesOf(m_lockedRanges') /\ osLocked' \subseteq osLocked
      /\ osLocked' \cap Pages(q) = {}
  BY <1>2, <1>3, <1>4, UnlockedStep
<1>6. /\ m_mapLength \in Nat \ {0} /\ Listed(m_mappedRanges, m_mapLength)
      /\ osMapped = PagesOf(m_mappedRanges) /\ osLocked \subseteq osMapped
      /\ lockAddr = m_addr /\ lockSize = m_mapLength
  BY <1>2 DEF MapInv
<1>7. /\ Listed(m_mappedRanges', m_mapLength) /\ osMapped' = PagesOf(m_mappedRanges')
      /\ osLocked' \subseteq osMapped'
  <2>1. CASE /\ osMapped' = osMapped \ Pages(q)
             /\ m_mappedRanges' = SubtractRange(m_mappedRanges, q)
    <3>1. /\ Listed(m_mappedRanges', m_mapLength)
          /\ PagesOf(m_mappedRanges') = PagesOf(m_mappedRanges) \ Pages(q)
      BY <1>3, <1>6, <2>1, CutListed
    <3> QED BY <1>5, <1>6, <2>1, <3>1
  <2>2. CASE UNCHANGED <<osMapped, m_mappedRanges>>
    BY <1>5, <1>6, <2>2
  <2> QED BY <1>2, <2>1, <2>2
<1>8. Listed(m_mappedRanges, m_mapLength)' /\ Listed(m_lockedRanges, m_mapLength)'
  BY <1>2, <1>5, <1>7 DEF Listed, Within
<1>9. PagesOf(m_mappedRanges)' = PagesOf(m_mappedRanges') /\ PagesOf(m_lockedRanges)' = PagesOf(m_lockedRanges')
  OBVIOUS
<1> QED
  BY <1>2, <1>5, <1>6, <1>7, <1>8, <1>9 DEF MapInv

(* The ranges munlock() refused are still recorded, and nothing else. *)
LEMMA ReleasedStep ==
    ASSUME MapInv, NEW refused, Released(refused)
    PROVE  /\ Listed(m_lockedRanges', m_mapLength)
           /\ PagesOf(m_lockedRanges') = UNION {Pages(r) : r \in refused}
           /\ UNION {Pages(r) : r \in refused} \subseteq PagesOf(m_lockedRanges)
           /\ m_lockedRanges' # << >> => m_lockedRanges # << >>
           /\ refused = {} => m_lockedRanges' = << >>
<1> DEFINE s == m_lockedRanges
           u == FlattenSeq([i \in DOMAIN s |-> IF s[i] \in refused THEN <<s[i]>> ELSE << >>])
<1>1. refused \subseteq ToSet(m_lockedRanges) /\ m_lockedRanges' = u
  BY DEF Released
<1>2. m_mapLength \in Int /\ Listed(s, m_mapLength)
  BY DEF MapInv
<1>3. Listed(u, m_mapLength) /\ PagesOf(u) = UNION {Pages(r) : r \in {r \in refused : Has(s, r)}}
  BY <1>2, KeptListed
<1>4. Whole(u) /\ \A r : Has(u, r) <=> Has(s, r) /\ r \in refused
  <2>1. Whole(s) /\ Separated(s)
    BY <1>2 DEF Listed
  <2> HIDE DEF s
  <2> QED BY <2>1, Kept
<1> HIDE DEF u
<1>5. \A r \in refused : \E i \in DOMAIN s : s[i] = r
  BY <1>1 DEF ToSet
<1>6. {r \in refused : Has(s, r)} = refused
  BY <1>5 DEF Has
<1>7. UNION {Pages(r) : r \in refused} \subseteq PagesOf(s)
  BY <1>5 DEF PagesOf
<1>8. ASSUME u # << >> PROVE refused # {} /\ s # << >>
  <2>1. 1 \in DOMAIN u
    BY <1>4, <1>8 DEF Whole, Ranges
  <2>2. Has(u, u[1])
    BY <2>1 DEF Has
  <2>3. Has(s, u[1]) /\ u[1] \in refused
    BY <1>4, <2>2
  <2> QED BY <2>3 DEF Has
<1> QED
  BY <1>1, <1>3, <1>6, <1>7, <1>8

LEMMA UnlockAllStep ==
    ASSUME MapInv, UnlockAll
    PROVE  MapInv'
<1>1. PICK refused \in SUBSET ToSet(m_lockedRanges) :
         /\ LockValid /\ lockAddr = m_addr /\ Released(refused)
         /\ osLocked' = osLocked \cap UNION {Pages(r) : r \in refused}
         /\ UNCHANGED <<mapVars, lockAddr, lockSize, osMapped>>
  BY DEF UnlockAll
<1>2. UNCHANGED <<m_addr, m_mapLength, m_mappedRanges, lockAddr, lockSize, osMapped>>
  BY <1>1 DEF mapVars
<1>3. /\ Listed(m_lockedRanges', m_mapLength)
      /\ PagesOf(m_lockedRanges') = UNION {Pages(r) : r \in refused}
      /\ UNION {Pages(r) : r \in refused} \subseteq PagesOf(m_lockedRanges)
      /\ m_lockedRanges' # << >> => m_lockedRanges # << >>
  BY <1>1, ReleasedStep
<1>4. m_addr # 0
  BY <1>1 DEF LockValid
<1>5. osLocked' = PagesOf(m_lockedRanges') /\ osLocked' \subseteq osLocked
  BY <1>1, <1>3, <1>4 DEF MapInv
<1>6. Listed(m_mappedRanges, m_mapLength)' /\ Listed(m_lockedRanges, m_mapLength)'
  BY <1>2, <1>3 DEF MapInv, Listed, Within
<1>7. PagesOf(m_mappedRanges)' = PagesOf(m_mappedRanges) /\ PagesOf(m_lockedRanges)' = PagesOf(m_lockedRanges')
  BY <1>2 DEF PagesOf
<1> QED
  BY <1>2, <1>3, <1>4, <1>5, <1>6, <1>7 DEF MapInv

LEMMA CloseDeviceStep ==
    ASSUME MapInv, CloseDevice
    PROVE  MapInv'
<1>1. PICK refused \in SUBSET ToSet(m_lockedRanges) :
         /\ Released(refused)
         /\ IF refused = {} THEN lockAddr' = 0 /\ lockSize' = 0 ELSE UNCHANGED <<lockAddr, lockSize>>
  BY DEF CloseDevice
<1>2. m_addr # 0 /\ m_addr' = 0 /\ m_mappedRanges' = << >> /\ osMapped' = {} /\ m_mapLength' = m_mapLength
  BY DEF CloseDevice
<1>3. /\ Listed(m_lockedRanges', m_mapLength)
      /\ m_lockedRanges' # << >> => m_lockedRanges # << >>
      /\ refused = {} => m_lockedRanges' = << >>
  BY <1>1, ReleasedStep
<1>4. m_mapLength \in Nat \ {0} /\ lockSize \in Nat /\ lockSize = m_mapLength
  BY <1>2 DEF MapInv
<1>5. Listed(m_mappedRanges, m_mapLength)' /\ Listed(m_lockedRanges, m_mapLength)'
  <2>1. Listed(<< >>, m_mapLength)
    BY <1>4, EmptyListed
  <2> QED BY <1>2, <1>3, <2>1 DEF Listed, Within
<1> QED
  BY <1>1, <1>2, <1>3, <1>4, <1>5 DEF MapInv

LEMMA FreshMapping ==
    ASSUME m_addr' \in Bases, m_mapLength' \in Nat \ {0}, m_mappedRanges' = << <<0, m_mapLength'>> >>,
           m_lockedRanges' = << >>, lockAddr' = m_addr', lockSize' = m_mapLength',
           osMapped' = Pages(<<0, m_mapLength'>>), osLocked' = {}
    PROVE  MapInv'
<1> DEFINE n == m_mapLength'
<1> HIDE DEF n
<1>1. n \in Nat \ {0} /\ n = m_mapLength'
  BY DEF n
<1>2. Listed(<< <<0, n>> >>, n) /\ PagesOf(<< <<0, n>> >>) = Pages(<<0, n>>)
  BY <1>1, FreshListed
<1>3. Listed(<< >>, n) /\ PagesOf(<< >>) = {}
  BY <1>1, EmptyListed
<1>4. Listed(m_mappedRanges, m_mapLength)' /\ Listed(m_lockedRanges, m_mapLength)'
  BY <1>1, <1>2, <1>3 DEF Listed, Within
<1>5. PagesOf(m_mappedRanges)' = Pages(<<0, n>>) /\ PagesOf(m_lockedRanges)' = {}
  BY <1>1, <1>2, <1>3 DEF PagesOf
<1>6. m_addr' # 0
  BY MmapAssumption
<1> QED
  BY <1>1, <1>4, <1>5, <1>6 DEF MapInv

LEMMA MmapStep ==
    ASSUME MapInv, MmapNext
    PROVE  MapInv'
<1>1. CASE \E r \in ClientRanges : UnmapRange(r)
  BY <1>1, UnmapRangeStep
<1>2. ASSUME NEW r \in ClientRanges, Lock(r) PROVE MapInv'
  <2>1. r[1] \in Nat /\ r[2] \in Nat /\ r[1] < r[2]
    BY MmapAssumption
  <2>2. m_addr # 0 /\ MemLock(r) /\ UNCHANGED <<mapVars, lockAddr, lockSize, osMapped>>
    BY <1>2 DEF Lock, IsValid
  <2> QED BY <2>1, <2>2, MemLockStep
<1>3. CASE \E r \in ClientRanges : Unlock(r)
  BY <1>3, UnlockStep
<1>4. ASSUME LockAll PROVE MapInv'
  <2> DEFINE r == <<0, lockSize>>
  <2>1. m_addr # 0 /\ MemLock(r) /\ UNCHANGED <<mapVars, lockAddr, lockSize, osMapped>>
    BY <1>4 DEF LockAll, IsValid
  <2>2. r[1] = 0 /\ r[2] = lockSize
    OBVIOUS
  <2>3. lockSize \in Nat /\ 0 < lockSize
    BY <2>1 DEF MapInv
  <2> HIDE DEF r
  <2>4. r[1] \in Nat /\ r[2] \in Nat /\ r[1] < r[2]
    BY <2>2, <2>3
  <2> QED BY <2>1, <2>4, MemLockStep
<1>5. CASE UnlockAll
  BY <1>5, UnlockAllStep
<1>6. CASE CloseDevice
  BY <1>6, CloseDeviceStep
<1>7. ASSUME NEW b \in Bases, OpenDevice(b) PROVE MapInv'
  BY <1>7, FreshMapping DEF OpenDevice, MapInv
<1>8. ASSUME NEW b \in Bases, NEW n \in Growths, Grow(n, b) PROVE MapInv'
  <2>1. m_addr # 0 /\ m_lockedRanges = << >>
    BY <1>8 DEF Grow, IsValid
  <2>2. osLocked = {}
    <3>1. osLocked = PagesOf(m_lockedRanges)
      BY <2>1 DEF MapInv
    <3> QED BY <2>1, <3>1 DEF PagesOf
  <2>3. n \in Nat \ {0}
    BY <1>8, MmapAssumption DEF Grow, MapInv
  <2>4. /\ m_addr' = b /\ m_mapLength' = n /\ m_mappedRanges' = << <<0, n>> >>
        /\ lockAddr' = b /\ lockSize' = n /\ osMapped' = Pages(<<0, n>>)
        /\ m_lockedRanges' = m_lockedRanges /\ osLocked' = osLocked
    BY <1>8 DEF Grow
  <2> QED BY <2>1, <2>2, <2>3, <2>4, FreshMapping
<1> QED
  BY <1>1, <1>2, <1>3, <1>4, <1>5, <1>6, <1>7, <1>8 DEF MmapNext

LEMMA MapStutter ==
    ASSUME MapInv, UNCHANGED mmapVars
    PROVE  MapInv'
BY DEF MapInv, mmapVars, mapVars, lockVars, osVars, Listed, Within, PagesOf

LEMMA MapStarts == Init => MapInv
<1> SUFFICES ASSUME Init PROVE MapInv
  OBVIOUS
<1>1. PICK c \in Configs : MapInit(c.len)
  BY DEF Init
<1>2. c.len \in Nat \ {0}
  BY PoolAssumption, MmapAssumption
<1> DEFINE n == c.len
<1> HIDE DEF n
<1>3. /\ n \in Nat \ {0} /\ m_addr \in Bases /\ m_mapLength = n /\ m_mappedRanges = << <<0, n>> >>
      /\ m_lockedRanges = << >> /\ lockAddr = m_addr /\ lockSize = n
      /\ osMapped = Pages(<<0, n>>) /\ osLocked = {}
  BY <1>1, <1>2 DEF MapInit, n
<1>4. Listed(<< <<0, n>> >>, n) /\ PagesOf(<< <<0, n>> >>) = Pages(<<0, n>>)
  BY <1>3, FreshListed
<1>5. Listed(<< >>, n) /\ PagesOf(<< >>) = {}
  BY <1>3, EmptyListed
<1>6. m_addr # 0
  BY <1>3, MmapAssumption
<1> QED
  BY <1>3, <1>4, <1>5, <1>6 DEF MapInv

(* While there is a mapping, mappedRanges() is what the kernel has mapped    *)
(* and lockedRanges() what it has pinned, whatever munmap(), mlock() and     *)
(* munlock() refuse (job_mmap.cpp, job_mem_lock.cpp).                        *)
THEOREM RecordsAreTrue == Spec => []RecordsMatchKernel
<1>1. Init => MapInv
  BY MapStarts
<1>2. MapInv /\ [Next]_vars => MapInv'
  <2> SUFFICES ASSUME MapInv, [Next]_vars PROVE MapInv'
    OBVIOUS
  <2>1. MmapNext \/ UNCHANGED mmapVars
    BY DEF Next, vars
  <2> QED BY <2>1, MmapStep, MapStutter
<1>3. MapInv => RecordsMatchKernel
  BY DEF MapInv, RecordsMatchKernel
<1> QED
  BY <1>1, <1>2, <1>3, PTL DEF Spec

-----------------------------------------------------------------------------
(* The free list and the map of the allocations.                             *)
PoolShape ==
    /\ kind \in {"page", "size", "range", "arena"}
    /\ ext \in Nat \X Nat /\ ext[1] < ext[2]
    /\ kind \in {"page", "size"} => ext[1] % PageSize = 0 /\ ext[2] % PageSize = 0
    /\ kind = "range" => ext[1] = 0

LEMMA UnitPositive == Unit \in Nat \ {0}
BY PageSizePositive DEF Unit

LEMMA PlaceTyped ==
    ASSUME MapInv, PoolShape
    PROVE  /\ m_addr \in Nat /\ ext[1] \in Nat /\ ext[2] \in Nat /\ Base \in Nat
           /\ m_addr # 0 => Base > 0
           /\ \A u \in Int : Addr(u) \in Int /\ Addr(u) = Base + Unit * u
<1>1. m_addr \in Nat /\ ext[1] \in Nat /\ ext[2] \in Nat
  BY MmapAssumption DEF MapInv, PoolShape
<1>2. Base \in Nat /\ (m_addr # 0 => Base > 0)
  BY <1>1 DEF Base
<1>3. ASSUME NEW u \in Int PROVE Addr(u) \in Int /\ Addr(u) = Base + Unit * u
  <2>1. Unit * u \in Int /\ u * Unit = Unit * u
    BY UnitPositive, Monotone
  <2> QED BY <1>2, <2>1 DEF Addr
<1> QED BY <1>1, <1>2, <1>3

(* Where an aligned block may start in a free run. *)
LEMMA FitsAre ==
    ASSUME MapInv, PoolShape, NEW r \in Int \X Int, NEW n \in Nat \ {0}, NEW a \in Nat \ {0}
    PROVE  /\ Candidate(r, a) \in Int /\ Unit * r[1] <= Candidate(r, a)
           /\ (Base + Candidate(r, a)) % a = 0
           /\ Fits(r, n, a) =>
                LET f == Candidate(r, a) \div Unit IN
                f \in Int /\ Candidate(r, a) = Unit * f /\ r[1] <= f /\ f + n <= r[2]
<1> DEFINE c == Candidate(r, a)
           f == c \div Unit
<1>1. r[1] \in Int /\ r[2] \in Int
  OBVIOUS
<1>2. Addr(r[1]) \in Int /\ Addr(r[1]) = Base + Unit * r[1] /\ Base \in Nat
  BY <1>1, PlaceTyped
<1>3. AlignUp(Addr(r[1]), a) \in Int /\ Addr(r[1]) <= AlignUp(Addr(r[1]), a) /\ AlignUp(Addr(r[1]), a) % a = 0
  BY <1>2, Aligning
<1>4. Unit * r[1] \in Int
  BY <1>1, UnitPositive, Monotone
<1>5. c = AlignUp(Addr(r[1]), a) - Base
  BY DEF Candidate
<1> HIDE DEF c
<1>6. c \in Int /\ Unit * r[1] <= c /\ Base + c = AlignUp(Addr(r[1]), a)
  BY <1>2, <1>3, <1>4, <1>5
<1>7. ASSUME Fits(r, n, a) PROVE f \in Int /\ c = Unit * f /\ r[1] <= f /\ f + n <= r[2]
  <2>1. c % Unit = 0 /\ f < r[2] /\ n <= r[2] - f
    BY <1>7 DEF Fits, c
  <2>2. f \in Int /\ c = Unit * f
    BY <1>6, <2>1, UnitPositive, Multiple, Division
  <2> HIDE DEF f
  <2>3. ~(f < r[1])
    <3>1. f < r[1] => Unit * f + Unit <= Unit * r[1]
      BY <1>1, <2>2, UnitPositive, Monotone
    <3> QED BY <1>4, <1>6, <2>2, <3>1, UnitPositive
  <2> QED BY <1>1, <2>1, <2>2, <2>3
<1> QED
  BY <1>3, <1>6, <1>7 DEF c

(* findFreeSpan(): the first run that fits, if any. *)
LEMMA Found ==
    ASSUME Whole(m_freeSpans), NEW n, NEW a
    PROVE  LET i == FindFreeSpan(n, a) IN
           /\ i # 0 => /\ i \in DOMAIN m_freeSpans /\ Fits(m_freeSpans[i], n, a)
                       /\ \A j \in DOMAIN m_freeSpans : Fits(m_freeSpans[j], n, a) => i <= j
           /\ i = 0 => \A j \in DOMAIN m_freeSpans : ~Fits(m_freeSpans[j], n, a)
<1> DEFINE I == {j \in 1..Len(m_freeSpans) : Fits(m_freeSpans[j], n, a)}
           i == FindFreeSpan(n, a)
<1>1. Len(m_freeSpans) \in Nat /\ DOMAIN m_freeSpans = 1..Len(m_freeSpans)
  BY DEF Whole, Ranges
<1>2. i = IF I # {} THEN Min(I) ELSE 0
  BY DEF FindFreeSpan, SelectInSeq
<1>3. I \in SUBSET Nat /\ \A j \in I : j # 0
  BY <1>1
<1>4. I # {} => Min(I) \in I /\ \A j \in I : Min(I) <= j
  <2> HIDE DEF I
  <2> QED BY <1>3, Least
<1> HIDE DEF i
<1>5. CASE I # {}
  <2>1. i \in I /\ \A j \in I : i <= j
    BY <1>2, <1>4, <1>5
  <2> QED BY <1>1, <1>3, <2>1 DEF i
<1>6. CASE I = {}
  BY <1>1, <1>2, <1>6 DEF i
<1> QED BY <1>5, <1>6

(* The allocations: which units are in one. *)
Taken(x) == \E f \in DOMAIN m_allocations : f <= x /\ x < f + m_allocations[f]
AllocInv ==
    /\ \A f \in DOMAIN m_allocations : f \in Nat /\ m_allocations[f] \in Nat \ {0}
    /\ \A f, g \in DOMAIN m_allocations : f < g => f + m_allocations[f] <= g
    /\ IsFiniteSet(UsedUnits)

LEMMA UsedAre ==
    ASSUME AllocInv
    PROVE  /\ \A x : x \in UsedUnits <=> x \in Int /\ Taken(x)
           /\ \A f, g \in DOMAIN m_allocations : f # g => Run(f) \cap Run(g) = {}
<1>1. ASSUME NEW f \in DOMAIN m_allocations
      PROVE  \A x : x \in Run(f) <=> x \in Int /\ f <= x /\ x < f + m_allocations[f]
  <2>1. f \in Nat /\ m_allocations[f] \in Nat
    BY DEF AllocInv
  <2> QED BY <2>1 DEF Run
<1>2. \A x : x \in UsedUnits <=> x \in Int /\ Taken(x)
  BY <1>1 DEF UsedUnits, Taken
<1>3. ASSUME NEW f \in DOMAIN m_allocations, NEW g \in DOMAIN m_allocations, f # g
      PROVE  Run(f) \cap Run(g) = {}
  <2>1. f \in Nat /\ g \in Nat /\ m_allocations[f] \in Nat /\ m_allocations[g] \in Nat
    BY DEF AllocInv
  <2>2. f + m_allocations[f] <= g \/ g + m_allocations[g] <= f
    BY <1>3, <2>1 DEF AllocInv
  <2> QED BY <1>1, <2>1, <2>2
<1> QED BY <1>2, <1>3

LEMMA FreeAre ==
    ASSUME Whole(m_freeSpans)
    PROVE  \A x : x \in FreeUnits <=> x \in Int /\ In(m_freeSpans, x)
<1>1. ASSUME NEW i \in DOMAIN m_freeSpans
      PROVE  \A x : x \in m_freeSpans[i][1]..(m_freeSpans[i][2] - 1)
                      <=> x \in Int /\ m_freeSpans[i][1] <= x /\ x < m_freeSpans[i][2]
  <2>1. m_freeSpans[i][1] \in Int /\ m_freeSpans[i][2] \in Int
    BY ListTyped
  <2> DEFINE b == m_freeSpans[i][1]
             e == m_freeSpans[i][2]
  <2> HIDE DEF b, e
  <2>2. b \in Int /\ e \in Int
    BY <2>1 DEF b, e
  <2>3. \A x : x \in b..(e - 1) <=> x \in Int /\ b <= x /\ x < e
    BY <2>2
  <2> QED BY <2>3 DEF b, e
<1> QED
  BY <1>1 DEF FreeUnits, In

(* A block is allocated where none was. *)
LEMMA AllocAdds ==
    ASSUME AllocInv, NEW f \in Nat, NEW n \in Nat \ {0},
           \A x \in Int : f <= x /\ x < f + n => ~Taken(x),
           m_allocations' = [u \in DOMAIN m_allocations \cup {f} |->
                                IF u = f THEN n ELSE m_allocations[u]]
    PROVE  /\ AllocInv' /\ f \notin DOMAIN m_allocations
           /\ \A x \in Int : Taken(x)' <=> Taken(x) \/ (f <= x /\ x < f + n)
           /\ Cardinality(UsedUnits') = Cardinality(UsedUnits) + n
<1> DEFINE D == DOMAIN m_allocations
<1>1. \A g \in D : g \in Nat /\ m_allocations[g] \in Nat \ {0}
  BY DEF AllocInv
<1>2. f \notin D
  BY <1>1 DEF Taken
<1>3. DOMAIN m_allocations' = D \cup {f} /\ m_allocations'[f] = n /\ \A g \in D : m_allocations'[g] = m_allocations[g]
  BY <1>2
<1>4. \A x \in Int : Taken(x)' <=> Taken(x) \/ (f <= x /\ x < f + n)
  BY <1>3 DEF Taken
<1>5. ASSUME NEW g \in D PROVE (g < f => g + m_allocations[g] <= f) /\ (f < g => f + n <= g)
  <2>1. g \in Nat /\ m_allocations[g] \in Nat \ {0}
    BY <1>1
  <2>2. ~(g <= f /\ f < g + m_allocations[g])
    BY DEF Taken
  <2>3. ~(f <= g /\ g < f + n)
    <3>1. Taken(g)
      BY <2>1 DEF Taken
    <3> QED BY <2>1, <3>1
  <2> QED BY <2>1, <2>2, <2>3
<1>6. \A g \in D \cup {f} : g \in Nat /\ m_allocations'[g] \in Nat \ {0}
  BY <1>1, <1>3
<1>7. \A g, h \in D \cup {f} : g < h => g + m_allocations'[g] <= h
  BY <1>3, <1>5 DEF AllocInv
<1>8. /\ \A x : x \in UsedUnits <=> x \in Int /\ Taken(x)
      /\ IsFiniteSet(UsedUnits)
  BY UsedAre DEF AllocInv
<1> DEFINE R == f..(f + n - 1)
<1>9. \A x : x \in R <=> x \in Int /\ f <= x /\ x < f + n
  OBVIOUS
<1>10. \A x : x \in UsedUnits' <=> x \in Int /\ Taken(x)'
  <2>1. ASSUME NEW g \in D \cup {f}
        PROVE  \A x : x \in Run(g)' <=> x \in Int /\ g <= x /\ x < g + m_allocations'[g]
    <3>1. g \in Nat /\ m_allocations'[g] \in Nat
      BY <1>6
    <3>2. Run(g)' = g..(g + m_allocations'[g] - 1)
      BY DEF Run
    <3> DEFINE k == m_allocations'[g]
    <3> HIDE DEF k
    <3>3. k \in Nat
      BY <3>1 DEF k
    <3>4. \A x : x \in g..(g + k - 1) <=> x \in Int /\ g <= x /\ x < g + k
      BY <3>1, <3>3
    <3> QED BY <3>2, <3>4 DEF k
  <2>2. UsedUnits' = UNION {Run(g)' : g \in D \cup {f}}
    BY <1>3 DEF UsedUnits, Run
  <2>3. ASSUME NEW x PROVE Taken(x)' <=> \E g \in D \cup {f} : g <= x /\ x < g + m_allocations'[g]
    BY <1>3 DEF Taken
  <2>4. ASSUME NEW x PROVE x \in UsedUnits' <=> \E g \in D \cup {f} : x \in Run(g)'
    BY <2>2
  <2> QED BY <2>1, <2>3, <2>4
<1>11. UsedUnits' = UsedUnits \cup R /\ UsedUnits \cap R = {}
  BY <1>4, <1>8, <1>9, <1>10
<1>12. IsFiniteSet(R) /\ Cardinality(R) = n
  <2>1. f \in Int /\ f + n - 1 \in Int /\ ~(f > f + n - 1)
    OBVIOUS
  <2>2. IsFiniteSet(R) /\ Cardinality(R) = (f + n - 1) - f + 1
    BY <2>1, FS_Interval
  <2> QED BY <2>2
<1> HIDE DEF R
<1>13. /\ IsFiniteSet(UsedUnits \cup R)
       /\ Cardinality(UsedUnits \cup R) = Cardinality(UsedUnits) + Cardinality(R) - Cardinality(UsedUnits \cap R)
  BY <1>8, <1>12, FS_Union
<1>14. Cardinality(UsedUnits \cap R) = 0 /\ Cardinality(UsedUnits) \in Nat
  BY <1>8, <1>11, FS_EmptySet, FS_CardinalityType
<1>15. IsFiniteSet(UsedUnits') /\ Cardinality(UsedUnits') = Cardinality(UsedUnits) + n
  BY <1>11, <1>12, <1>13, <1>14
<1>16. AllocInv'
  <2>1. /\ \A g \in DOMAIN m_allocations' : g \in Nat /\ m_allocations'[g] \in Nat \ {0}
        /\ \A g, h \in DOMAIN m_allocations' : g < h => g + m_allocations'[g] <= h
    BY <1>3, <1>6, <1>7
  <2> QED BY <1>15, <2>1 DEF AllocInv
<1> QED
  BY <1>2, <1>4, <1>15, <1>16

(* A block is given back. *)
LEMMA AllocRemoves ==
    ASSUME AllocInv, NEW u \in DOMAIN m_allocations,
           m_allocations' = [v \in DOMAIN m_allocations \ {u} |-> m_allocations[v]]
    PROVE  /\ AllocInv'
           /\ \A x \in Int : Taken(x)' <=> Taken(x) /\ ~(u <= x /\ x < u + m_allocations[u])
           /\ Cardinality(UsedUnits') = Cardinality(UsedUnits) - m_allocations[u]
<1> DEFINE D == DOMAIN m_allocations
           n == m_allocations[u]
<1>1. \A g \in D : g \in Nat /\ m_allocations[g] \in Nat \ {0}
  BY DEF AllocInv
<1>2. DOMAIN m_allocations' = D \ {u} /\ \A g \in D \ {u} : m_allocations'[g] = m_allocations[g]
  OBVIOUS
<1>3. ASSUME NEW x \in Int
      PROVE  Taken(x)' <=> Taken(x) /\ ~(u <= x /\ x < u + m_allocations[u])
  <2>1. Taken(x)' <=> \E g \in D \ {u} : g <= x /\ x < g + m_allocations[g]
    BY <1>2 DEF Taken
  <2>2. ASSUME NEW g \in D \ {u}, g <= x, x < g + m_allocations[g]
        PROVE  ~(u <= x /\ x < u + m_allocations[u])
    <3>1. g \in Nat /\ u \in Nat /\ m_allocations[g] \in Nat /\ m_allocations[u] \in Nat
      BY <1>1
    <3>2. g + m_allocations[g] <= u \/ u + m_allocations[u] <= g
      BY <3>1 DEF AllocInv
    <3> QED BY <2>2, <3>1, <3>2
  <2> QED BY <2>1, <2>2 DEF Taken
<1>4. /\ \A g \in D \ {u} : g \in Nat /\ m_allocations'[g] \in Nat \ {0}
      /\ \A g, h \in D \ {u} : g < h => g + m_allocations'[g] <= h
  BY <1>1, <1>2 DEF AllocInv
<1>5. /\ \A x : x \in UsedUnits <=> x \in Int /\ Taken(x)
      /\ IsFiniteSet(UsedUnits)
  BY UsedAre DEF AllocInv
<1>6. u \in Nat /\ n \in Nat \ {0}
  BY <1>1
<1> HIDE DEF n
<1> DEFINE R == u..(u + n - 1)
<1>7. \A x : x \in R <=> x \in Int /\ u <= x /\ x < u + n
  BY <1>6
<1>8. UsedUnits' = UNION {Run(g)' : g \in D \ {u}}
  BY <1>2 DEF UsedUnits, Run
<1>9. ASSUME NEW g \in D \ {u} PROVE Run(g)' = Run(g)
  BY <1>2 DEF Run
<1>10. ASSUME NEW g \in D
       PROVE  \A x : x \in Run(g) <=> x \in Int /\ g <= x /\ x < g + m_allocations[g]
  <2>1. g \in Nat /\ m_allocations[g] \in Nat
    BY <1>1
  <2> QED BY <2>1 DEF Run
<1>11. ASSUME NEW x PROVE x \in UsedUnits' <=> x \in Int /\ Taken(x)'
  <2>1. Taken(x)' <=> \E g \in D \ {u} : g <= x /\ x < g + m_allocations[g]
    BY <1>2 DEF Taken
  <2>2. x \in UsedUnits' <=> \E g \in D \ {u} : x \in Run(g)
    BY <1>8, <1>9
  <2> QED BY <1>10, <2>1, <2>2
<1>12. \A x \in R : Taken(x)
  BY <1>7 DEF Taken, n
<1>13. UsedUnits = UsedUnits' \cup R /\ UsedUnits' \cap R = {}
  BY <1>3, <1>5, <1>7, <1>11, <1>12 DEF n
<1>14. IsFiniteSet(R) /\ Cardinality(R) = n
  <2>1. u \in Int /\ u + n - 1 \in Int /\ ~(u > u + n - 1)
    BY <1>6
  <2>2. IsFiniteSet(R) /\ Cardinality(R) = (u + n - 1) - u + 1
    BY <2>1, FS_Interval
  <2> QED BY <1>6, <2>2
<1> HIDE DEF R
<1>15. IsFiniteSet(UsedUnits')
  BY <1>5, <1>13, FS_Subset
<1> DEFINE V == UsedUnits'
<1> HIDE DEF V
<1>16. IsFiniteSet(V) /\ UsedUnits = V \cup R /\ V \cap R = {}
  BY <1>13, <1>15 DEF V
<1>17. Cardinality(V \cup R) = Cardinality(V) + Cardinality(R) - Cardinality(V \cap R)
  BY <1>14, <1>16, FS_Union
<1>18. Cardinality(V \cap R) = 0 /\ Cardinality(V) \in Nat
  BY <1>16, FS_EmptySet, FS_CardinalityType
<1>19. Cardinality(V) = Cardinality(UsedUnits) - n
  BY <1>6, <1>14, <1>16, <1>17, <1>18
<1>20. AllocInv'
  <2>1. /\ \A g \in DOMAIN m_allocations' : g \in Nat /\ m_allocations'[g] \in Nat \ {0}
        /\ \A g, h \in DOMAIN m_allocations' : g < h => g + m_allocations'[g] <= h
    BY <1>2, <1>4
  <2> QED BY <1>15, <2>1 DEF AllocInv
<1> QED
  BY <1>3, <1>19, <1>20 DEF V, n

LEMMA NoAllocations ==
    m_allocations = << >> => AllocInv /\ UsedUnits = {} /\ Cardinality(UsedUnits) = 0 /\ \A x : ~Taken(x)
<1> SUFFICES ASSUME m_allocations = << >>
             PROVE  AllocInv /\ UsedUnits = {} /\ Cardinality(UsedUnits) = 0 /\ \A x : ~Taken(x)
  OBVIOUS
<1>1. DOMAIN m_allocations = {}
  OBVIOUS
<1>2. UsedUnits = {} /\ \A x : ~Taken(x)
  BY <1>1 DEF UsedUnits, Taken
<1> QED BY <1>1, <1>2, FS_EmptySet DEF AllocInv

(* Every unit of the pool is free or in one allocation. *)
FreeInv ==
    /\ total \in Nat /\ Whole(m_freeSpans) /\ Separated(m_freeSpans)
    /\ \A x \in Int : In(m_freeSpans, x) \/ Taken(x) <=> 0 <= x /\ x < total
    /\ \A x \in Int : ~(In(m_freeSpans, x) /\ Taken(x))
    /\ m_allocated = Cardinality(UsedUnits)
    /\ kind \in {"page", "size"} => PageSize * total <= ext[2] - ext[1]

(* What an arena has handed out lies below its offset. *)
ArenaInv ==
    /\ m_offset \in Nat /\ m_paddingBytes \in Nat /\ m_offset <= ext[2] - ext[1]
    /\ \A x \in Int : Taken(x) => 0 <= x /\ x < m_offset
    /\ m_offset = Cardinality(UsedUnits) + m_paddingBytes

PoolInv ==
    /\ PoolShape /\ AllocInv
    /\ kind # "arena" => FreeInv
    /\ kind = "arena" => ArenaInv

(* allocPages(), alloc(): where the block comes to lie. *)
LEMMA TakePlace ==
    ASSUME MapInv, PoolInv, kind # "arena", NEW n \in Nat \ {0}, NEW a \in Nat \ {0}, Take(n, a)
    PROVE  LET i == FindFreeSpan(n, a)
               f == Candidate(m_freeSpans[i], a) \div Unit
           IN  /\ i \in DOMAIN m_freeSpans /\ f \in Nat
               /\ m_freeSpans[i][1] <= f /\ f + n <= m_freeSpans[i][2]
               /\ Candidate(m_freeSpans[i], a) = Unit * f
<1> DEFINE i == FindFreeSpan(n, a)
           r == m_freeSpans[i]
           c == Candidate(r, a)
           f == c \div Unit
<1>1. Whole(m_freeSpans) /\ PoolShape /\ total \in Nat
      /\ \A x \in Int : In(m_freeSpans, x) => 0 <= x
  BY DEF PoolInv, FreeInv
<1>2. i # 0
  BY DEF Take
<1>3. i \in DOMAIN m_freeSpans /\ Fits(r, n, a)
  BY <1>1, <1>2, Found
<1> HIDE DEF i
<1>4. r \in Int \X Int /\ r[1] \in Int /\ r[2] \in Int /\ r[1] < r[2]
  BY <1>1, <1>3, ListTyped
<1>5. In(m_freeSpans, r[1])
  BY <1>3, <1>4 DEF In
<1>6. 0 <= r[1]
  BY <1>1, <1>4, <1>5
<1> HIDE DEF r
<1>7. f \in Int /\ c = Unit * f /\ r[1] <= f /\ f + n <= r[2]
  BY <1>1, <1>3, <1>4, FitsAre
<1> HIDE DEF f, c
<1>8. f \in Nat
  BY <1>4, <1>6, <1>7
<1> QED
  BY <1>3, <1>7, <1>8 DEF i, r, f, c

LEMMA TakeStep ==
    ASSUME MapInv, PoolInv, kind # "arena", NEW n \in Nat \ {0}, NEW a \in Nat \ {0}, Take(n, a),
           kind' = kind, ext' = ext
    PROVE  PoolInv'
<1> DEFINE i == FindFreeSpan(n, a)
           f == Candidate(m_freeSpans[i], a) \div Unit
<1>1. /\ PoolShape /\ AllocInv /\ total \in Nat /\ Whole(m_freeSpans) /\ Separated(m_freeSpans)
      /\ \A x \in Int : In(m_freeSpans, x) \/ Taken(x) <=> 0 <= x /\ x < total
      /\ \A x \in Int : ~(In(m_freeSpans, x) /\ Taken(x))
      /\ m_allocated = Cardinality(UsedUnits)
      /\ kind \in {"page", "size"} => PageSize * total <= ext[2] - ext[1]
  BY DEF PoolInv, FreeInv
<1>2. i \in DOMAIN m_freeSpans /\ f \in Nat /\ m_freeSpans[i][1] <= f /\ f + n <= m_freeSpans[i][2]
  BY TakePlace
<1>3. /\ m_allocations' = [u \in DOMAIN m_allocations \cup {f} |->
                               IF u = f THEN n ELSE m_allocations[u]]
      /\ m_freeSpans' = SplitSpan(i, f, n)
      /\ m_allocated' = m_allocated + n /\ total' = total
  BY DEF Take
<1> HIDE DEF i, f
<1>4. \A x \in Int : f <= x /\ x < f + n => In(m_freeSpans, x)
  <2>1. m_freeSpans[i][1] \in Int /\ m_freeSpans[i][2] \in Int
    BY <1>1, <1>2, ListTyped
  <2> QED BY <1>2, <2>1 DEF In
<1>5. \A x \in Int : f <= x /\ x < f + n => ~Taken(x)
  BY <1>1, <1>4
<1>6. /\ AllocInv'
      /\ \A x \in Int : Taken(x)' <=> Taken(x) \/ (f <= x /\ x < f + n)
      /\ Cardinality(UsedUnits') = Cardinality(UsedUnits) + n
  BY <1>1, <1>2, <1>3, <1>5, AllocAdds
<1>7. /\ Whole(m_freeSpans') /\ Separated(m_freeSpans')
      /\ \A x \in Int : In(m_freeSpans', x) <=> In(m_freeSpans, x) /\ ~(f <= x /\ x < f + n)
  <2>1. SplitSpan(i, f, n) =
            SubSeq(m_freeSpans, 1, i - 1) \o NonEmpty(<<m_freeSpans[i][1], f>>)
                \o NonEmpty(<<f + n, m_freeSpans[i][2]>>) \o SubSeq(m_freeSpans, i + 1, Len(m_freeSpans))
    BY DEF SplitSpan
  <2>2. f \in Int /\ f + n \in Int /\ f < f + n
    BY <1>2
  <2> QED BY <1>1, <1>2, <1>3, <2>1, <2>2, Replaced
<1>8. PoolShape'
  BY <1>1 DEF PoolShape
<1>9. FreeInv'
  <2>1. \A x \in Int : In(m_freeSpans', x) \/ Taken(x)' <=> 0 <= x /\ x < total
    BY <1>1, <1>4, <1>6, <1>7
  <2>2. \A x \in Int : ~(In(m_freeSpans', x) /\ Taken(x)')
    BY <1>1, <1>6, <1>7
  <2>3. m_allocated' = Cardinality(UsedUnits')
    BY <1>1, <1>3, <1>6
  <2> QED BY <1>1, <1>3, <1>7, <2>1, <2>2, <2>3 DEF FreeInv
<1> QED
  BY <1>6, <1>8, <1>9 DEF PoolInv

(* free(), freePages(): the block joins the free runs beside it. *)
LEMMA GiveBackStep ==
    ASSUME PoolInv, kind # "arena", NEW p, (p - Base) \div Unit \in DOMAIN m_allocations,
           GiveBack(p), kind' = kind, ext' = ext
    PROVE  PoolInv'
<1> DEFINE u == (p - Base) \div Unit
           n == m_allocations[u]
           r == <<u, u + n>>
<1>1. /\ PoolShape /\ AllocInv /\ total \in Nat /\ Whole(m_freeSpans) /\ Separated(m_freeSpans)
      /\ \A x \in Int : In(m_freeSpans, x) \/ Taken(x) <=> 0 <= x /\ x < total
      /\ \A x \in Int : ~(In(m_freeSpans, x) /\ Taken(x))
      /\ m_allocated = Cardinality(UsedUnits)
      /\ kind \in {"page", "size"} => PageSize * total <= ext[2] - ext[1]
  BY DEF PoolInv, FreeInv
<1>2. u \in Nat /\ n \in Nat \ {0} /\ u \in DOMAIN m_allocations
  BY <1>1 DEF AllocInv
<1>3. /\ m_freeSpans' = NormalizeRanges(Append(m_freeSpans, r))
      /\ m_allocations' = [v \in DOMAIN m_allocations \ {u} |-> m_allocations[v]]
      /\ m_allocated' = m_allocated - n /\ total' = total
  BY DEF GiveBack, InsertFreeSpan
<1> HIDE DEF u
<1>4. /\ AllocInv'
      /\ \A x \in Int : Taken(x)' <=> Taken(x) /\ ~(u <= x /\ x < u + n)
      /\ Cardinality(UsedUnits') = Cardinality(UsedUnits) - n
  BY <1>1, <1>2, <1>3, AllocRemoves
<1>5. \A x \in Int : u <= x /\ x < u + n => Taken(x)
  BY <1>2 DEF Taken
<1> HIDE DEF n
<1>6. r \in Int \X Int /\ r[1] = u /\ r[2] = u + n /\ r[1] < r[2]
  BY <1>2
<1> HIDE DEF r
<1> DEFINE t == m_freeSpans \o <<r>>
<1>7. Append(m_freeSpans, r) = t
  BY <1>1 DEF Whole, Ranges
<1>8. Whole(<<r>>) /\ \A q : Has(<<r>>, q) <=> q = r
  BY <1>6, OneRange
<1>9. Whole(t) /\ \A q : Has(t, q) <=> Has(m_freeSpans, q) \/ q = r
  BY <1>1, <1>8, Concat
<1> HIDE DEF t
<1>10. ASSUME NEW x \in Int PROVE In(t, x) <=> In(m_freeSpans, x) \/ (u <= x /\ x < u + n)
  BY <1>6, <1>9, InHas
<1>11. /\ Whole(m_freeSpans') /\ Separated(m_freeSpans')
       /\ \A x \in Int : In(m_freeSpans', x) <=> In(m_freeSpans, x) \/ (u <= x /\ x < u + n)
  BY <1>3, <1>7, <1>9, <1>10, Normalized
<1>12. PoolShape'
  BY <1>1 DEF PoolShape
<1>13. FreeInv'
  <2>1. \A x \in Int : In(m_freeSpans', x) \/ Taken(x)' <=> 0 <= x /\ x < total
    BY <1>1, <1>4, <1>5, <1>11
  <2>2. \A x \in Int : ~(In(m_freeSpans', x) /\ Taken(x)')
    BY <1>1, <1>4, <1>11
  <2>3. m_allocated' = Cardinality(UsedUnits')
    BY <1>1, <1>3, <1>4
  <2> QED BY <1>1, <1>3, <1>11, <2>1, <2>2, <2>3 DEF FreeInv
<1> QED
  BY <1>4, <1>12, <1>13 DEF PoolInv

(* A free list that is one run, or none. *)
LEMMA OneRun ==
    ASSUME NEW n \in Nat \ {0}
    PROVE  /\ Whole(<< <<0, n>> >>) /\ Separated(<< <<0, n>> >>)
           /\ \A x \in Int : In(<< <<0, n>> >>, x) <=> 0 <= x /\ x < n
<1> DEFINE r == <<0, n>>
<1>1. r \in Int \X Int /\ r[1] = 0 /\ r[2] = n
  OBVIOUS
<1> HIDE DEF r
<1>2. Whole(<<r>>) /\ Separated(<<r>>) /\ \A q : Has(<<r>>, q) <=> q = r
  BY <1>1, OneRange
<1>3. \A x \in Int : In(<<r>>, x) <=> 0 <= x /\ x < n
  BY <1>1, <1>2, InHas
<1> QED BY <1>2, <1>3 DEF r

LEMMA ExtentPages ==
    ASSUME PoolShape
    PROVE  /\ (ext[2] - ext[1]) \div Unit \in Nat
           /\ kind # "arena" => (ext[2] - ext[1]) \div Unit \in Nat \ {0}
           /\ Unit * ((ext[2] - ext[1]) \div Unit) <= ext[2] - ext[1]
<1> DEFINE e == ext[2] - ext[1]
           k == e \div Unit
<1>1. e \in Nat \ {0} /\ ext[1] \in Int /\ ext[2] \in Int
  BY DEF PoolShape
<1> HIDE DEF e
<1>2. k \in Int /\ Unit * k \in Int /\ Unit * k <= e /\ e < Unit * k + Unit
  <2>1. e \in Int
    BY <1>1
  <2> QED BY <2>1, UnitPositive, Division
<1> HIDE DEF k
<1>3. k \in Nat
  <2>1. k < 0 => Unit * k + Unit <= Unit * 0
    BY <1>2, UnitPositive, Monotone
  <2>2. Unit * 0 = 0
    BY UnitPositive
  <2> QED BY <1>1, <1>2, <2>1, <2>2, UnitPositive
<1>4. ASSUME kind # "arena" PROVE k # 0
  <2>1. CASE kind = "range"
    <3>1. Unit = 1
      BY <2>1 DEF Unit
    <3> QED BY <1>1, <1>2, <3>1
  <2>2. CASE kind \in {"page", "size"}
    <3>1. Unit = PageSize /\ ext[1] % Unit = 0 /\ ext[2] % Unit = 0
      BY <2>2 DEF Unit, PoolShape
    <3>2. PICK i \in Int : ext[1] = Unit * i
      BY <1>1, <3>1, UnitPositive, Multiple
    <3>3. PICK j \in Int : ext[2] = Unit * j
      BY <1>1, <3>1, UnitPositive, Multiple
    <3>4. i < j
      <4>1. Unit * i < Unit * j
        BY <3>2, <3>3 DEF PoolShape
      <4> QED BY <4>1, UnitPositive, Monotone
    <3>5. Unit * i + Unit <= Unit * j
      BY <3>4, UnitPositive, Monotone
    <3>6. Unit <= e
      <4>1. Unit * i \in Int /\ Unit * j \in Int
        BY <1>1, <3>2, <3>3
      <4> QED BY <3>2, <3>3, <3>5, <4>1, UnitPositive DEF e
    <3>7. Unit * 0 = 0
      BY UnitPositive
    <3> QED BY <1>1, <1>2, <3>6, <3>7, UnitPositive
  <2> QED BY <1>4, <2>1, <2>2 DEF PoolShape
<1> QED BY <1>2, <1>3, <1>4 DEF k, e

LEMMA ClearStep ==
    ASSUME MapInv, PoolInv, Clear, kind' = kind, ext' = ext
    PROVE  PoolInv'
<1> DEFINE whole == IF kind = "range" THEN IsValid /\ Complete ELSE ExtentMapped
           size  == IF kind = "range" THEN m_mapLength ELSE (ext[2] - ext[1]) \div PageSize
<1>1. /\ kind # "arena" /\ m_allocations' = << >> /\ m_allocated' = 0
      /\ m_freeSpans' = IF whole THEN << <<0, size>> >> ELSE << >>
      /\ total' = IF whole THEN size ELSE 0
  BY DEF Clear
<1>2. PoolShape /\ PoolShape' /\ kind \in {"page", "size", "range"}
  BY <1>1 DEF PoolInv, PoolShape
<1>3. AllocInv' /\ Cardinality(UsedUnits') = 0 /\ \A x : ~Taken(x)'
  <2>1. (m_allocations = << >> => AllocInv /\ UsedUnits = {} /\ Cardinality(UsedUnits) = 0 /\ \A x : ~Taken(x))'
    BY NoAllocations, PTL
  <2> QED BY <1>1, <2>1
<1>4. size \in Nat \ {0} /\ (kind \in {"page", "size"} => PageSize * size <= ext[2] - ext[1])
  <2>1. CASE kind = "range"
    BY <2>1 DEF MapInv
  <2>2. CASE kind \in {"page", "size"}
    <3>1. Unit = PageSize /\ kind # "range"
      BY <2>2 DEF Unit
    <3> QED BY <1>1, <1>2, <3>1, ExtentPages
  <2> QED BY <1>2, <2>1, <2>2
<1> HIDE DEF size, whole
<1>5. CASE whole
  <2>1. m_freeSpans' = << <<0, size>> >> /\ total' = size
    BY <1>1, <1>5
  <2>2. /\ Whole(m_freeSpans') /\ Separated(m_freeSpans')
        /\ \A x \in Int : In(m_freeSpans', x) <=> 0 <= x /\ x < total'
    BY <1>4, <2>1, OneRun
  <2>3. FreeInv'
    BY <1>1, <1>3, <1>4, <2>1, <2>2 DEF FreeInv
  <2> QED BY <1>1, <1>2, <1>3, <2>3 DEF PoolInv
<1>6. CASE ~whole
  <2>1. m_freeSpans' = << >> /\ total' = 0
    BY <1>1, <1>6
  <2>2. PageSize * 0 = 0 /\ ext[1] \in Nat /\ ext[2] \in Nat /\ ext[1] < ext[2]
    BY <1>2, PageSizePositive DEF PoolShape
  <2>3. /\ Whole(m_freeSpans') /\ Separated(m_freeSpans')
        /\ \A x \in Int : ~In(m_freeSpans', x)
    BY <2>1, EmptyList
  <2>4. FreeInv'
    BY <1>1, <1>3, <2>1, <2>2, <2>3 DEF FreeInv
  <2> QED BY <1>1, <1>2, <1>3, <2>4 DEF PoolInv
<1> QED BY <1>5, <1>6

LEMMA ArenaAllocStep ==
    ASSUME MapInv, PoolInv, NEW n \in Nat \ {0}, NEW a \in Nat \ {0}, ArenaAlloc(n, a),
           kind' = kind, ext' = ext
    PROVE  PoolInv'
<1> DEFINE b == Base + m_offset
           padding == AlignUp(b, a) - b
           f == m_offset + padding
<1>1. /\ kind = "arena" /\ padding + n <= ext[2] - ext[1] - m_offset
      /\ m_offset' = m_offset + padding + n /\ m_paddingBytes' = m_paddingBytes + padding
      /\ m_allocations' = [u \in DOMAIN m_allocations \cup {f} |->
                               IF u = f THEN n ELSE m_allocations[u]]
  BY DEF ArenaAlloc
<1>2. /\ PoolShape /\ AllocInv /\ m_offset \in Nat /\ m_paddingBytes \in Nat
      /\ \A x \in Int : Taken(x) => 0 <= x /\ x < m_offset
      /\ m_offset = Cardinality(UsedUnits) + m_paddingBytes
  BY <1>1 DEF PoolInv, ArenaInv
<1>3. ext[1] \in Nat /\ ext[2] \in Nat /\ b \in Int
  <2>1. Base \in Nat /\ ext[1] \in Nat /\ ext[2] \in Nat
    BY <1>2, PlaceTyped
  <2> QED BY <1>2, <2>1
<1> HIDE DEF b
<1>4. padding \in Nat
  <2>1. AlignUp(b, a) \in Int /\ b <= AlignUp(b, a)
    BY <1>3, Aligning
  <2> QED BY <1>3, <2>1
<1> HIDE DEF padding
<1>5. f \in Nat
  BY <1>2, <1>4
<1>6. \A x \in Int : f <= x /\ x < f + n => ~Taken(x)
  BY <1>2, <1>4
<1> HIDE DEF f
<1>7. /\ AllocInv'
      /\ \A x \in Int : Taken(x)' <=> Taken(x) \/ (f <= x /\ x < f + n)
      /\ Cardinality(UsedUnits') = Cardinality(UsedUnits) + n
  BY <1>1, <1>2, <1>5, <1>6, AllocAdds
<1>8. Cardinality(UsedUnits) \in Nat
  BY <1>2, FS_CardinalityType DEF AllocInv
<1>9. ArenaInv'
  <2>1. m_offset' = f + n /\ m_offset' \in Nat /\ m_paddingBytes' \in Nat
        /\ m_offset' <= ext[2] - ext[1]
    BY <1>1, <1>2, <1>3, <1>4 DEF f
  <2>2. \A x \in Int : Taken(x)' => 0 <= x /\ x < f + n
    BY <1>2, <1>4, <1>5, <1>7 DEF f
  <2>3. m_offset' = Cardinality(UsedUnits') + m_paddingBytes'
    <3> DEFINE cu == Cardinality(UsedUnits')
               c0 == Cardinality(UsedUnits)
    <3> HIDE DEF cu, c0
    <3>1. c0 \in Nat /\ cu = c0 + n /\ m_offset = c0 + m_paddingBytes
      BY <1>2, <1>7, <1>8 DEF cu, c0
    <3> QED BY <1>1, <1>2, <1>4, <3>1 DEF cu
  <2> QED BY <2>1, <2>2, <2>3 DEF ArenaInv
<1>10. PoolShape' /\ kind' = "arena"
  BY <1>1, <1>2 DEF PoolShape
<1> QED
  BY <1>7, <1>9, <1>10 DEF PoolInv

LEMMA ArenaClearStep ==
    ASSUME PoolInv, ArenaClear, kind' = kind, ext' = ext
    PROVE  PoolInv'
<1>1. kind = "arena" /\ m_offset' = 0 /\ m_paddingBytes' = 0 /\ m_allocations' = << >>
  BY DEF ArenaClear
<1>2. PoolShape /\ PoolShape' /\ ext[1] \in Nat /\ ext[2] \in Nat /\ ext[1] < ext[2]
  BY DEF PoolInv, PoolShape
<1>3. AllocInv' /\ Cardinality(UsedUnits') = 0 /\ \A x : ~Taken(x)'
  <2>1. (m_allocations = << >> => AllocInv /\ UsedUnits = {} /\ Cardinality(UsedUnits) = 0 /\ \A x : ~Taken(x))'
    BY NoAllocations, PTL
  <2> QED BY <1>1, <2>1
<1>4. ArenaInv'
  BY <1>1, <1>2, <1>3 DEF ArenaInv
<1> QED
  BY <1>1, <1>2, <1>3, <1>4 DEF PoolInv

LEMMA PoolStutter ==
    ASSUME PoolInv, UNCHANGED poolVars, UNCHANGED arenaVars, kind' = kind, ext' = ext
    PROVE  PoolInv'
BY DEF PoolInv, PoolShape, AllocInv, FreeInv, ArenaInv, poolVars, arenaVars, Taken, UsedUnits, Run

(* What a size pool keeps, and that only one over a page pool is ever busy. *)
SizeShape ==
    /\ sp \in [pc : {"idle", "grow", "clear"}, addr : Int, todo : SUBSET Int,
               m_pageAllocations : SUBSET Int, m_freeObjects : SUBSET Int,
               m_allocations : SUBSET Int, m_objectCapacity : Int, m_allocatedObjects : Int]
    /\ sp.pc # "idle" => kind = "size"

PoolsInv == MapInv /\ PoolInv /\ SizeShape

LEMMA PagesNeeded ==
    ASSUME NEW n \in Nat \ {0}
    PROVE  PagesForSize(n) \in Nat \ {0}
<1> DEFINE t == AlignUp(n, Unit)
           k == t \div Unit
<1>1. t \in Int /\ t % Unit = 0 /\ n <= t
  BY UnitPositive, Aligning
<1> HIDE DEF t
<1>2. k \in Int /\ t = Unit * k
  <2>1. t = Unit * (t \div Unit)
    BY <1>1, UnitPositive, Multiple
  <2>2. t \div Unit \in Int
    BY <1>1, UnitPositive, Division
  <2> QED BY <2>1, <2>2
<1> HIDE DEF k
<1>3. ~(k <= 0)
  <2>1. k <= 0 => Unit * k <= Unit * 0
    BY <1>2, UnitPositive, Monotone
  <2>2. Unit * 0 = 0
    BY UnitPositive
  <2> QED BY <1>1, <1>2, <2>1, <2>2
<1> QED BY <1>2, <1>3 DEF PagesForSize, k, t

LEMMA PoolStarts == Init => PoolInv /\ SizeShape
<1> SUFFICES ASSUME Init PROVE PoolInv /\ SizeShape
  OBVIOUS
<1>1. PICK c \in Configs : kind = c.kind /\ ext = c.ext
  BY DEF Init
<1>2. PoolShape
  BY <1>1, PoolAssumption DEF PoolShape
<1>3. /\ total = (ext[2] - ext[1]) \div Unit
      /\ m_freeSpans = IF kind = "arena" THEN << >> ELSE << <<0, total>> >>
      /\ m_allocations = << >> /\ m_allocated = 0
      /\ m_offset = 0 /\ m_paddingBytes = 0 /\ sp = EmptySizePool
  BY DEF Init
<1>4. AllocInv /\ Cardinality(UsedUnits) = 0 /\ \A x : ~Taken(x)
  BY <1>3, NoAllocations
<1>5. ASSUME kind # "arena" PROVE FreeInv
  <2>1. total \in Nat \ {0} /\ (kind \in {"page", "size"} => PageSize * total <= ext[2] - ext[1])
    <3>1. kind \in {"page", "size"} => Unit = PageSize
      BY DEF Unit
    <3> QED BY <1>2, <1>3, <1>5, <3>1, ExtentPages
  <2>2. /\ Whole(m_freeSpans) /\ Separated(m_freeSpans)
        /\ \A x \in Int : In(m_freeSpans, x) <=> 0 <= x /\ x < total
    BY <1>3, <1>5, <2>1, OneRun
  <2> QED BY <1>3, <1>4, <2>1, <2>2 DEF FreeInv
<1>6. ASSUME kind = "arena" PROVE ArenaInv
  BY <1>2, <1>3, <1>4 DEF ArenaInv, PoolShape
<1>7. SizeShape
  BY <1>3 DEF SizeShape, EmptySizePool
<1> QED BY <1>2, <1>4, <1>5, <1>6, <1>7 DEF PoolInv

(* grow(): the span the size pool is given. *)
LEMMA GrowPlace ==
    ASSUME MapInv, PoolInv, SizeShape, SizeGrow
    PROVE  \E f \in Nat :
              /\ f \notin DOMAIN m_allocations /\ Addr(f) \in Int /\ Addr(f) > 0
              /\ sp' = [sp EXCEPT !.pc = "grow", !.addr = Addr(f)]
              /\ m_allocations' = [u \in DOMAIN m_allocations \cup {f} |->
                                       IF u = f THEN SpanPages ELSE m_allocations[u]]
<1> DEFINE i == FindFreeSpan(SpanPages, PageSize)
           f == Candidate(m_freeSpans[i], PageSize) \div Unit
<1>1. kind # "arena" /\ Take(SpanPages, PageSize)
  BY DEF SizeGrow
<1>2. SpanPages \in Nat \ {0}
  BY PoolAssumption
<1>3. f \in Nat
  BY <1>1, <1>2, PageSizePositive, TakePlace
<1>4. f \notin DOMAIN m_allocations
      /\ m_allocations' = [u \in DOMAIN m_allocations \cup {f} |->
                               IF u = f THEN SpanPages ELSE m_allocations[u]]
  BY <1>1 DEF Take
<1> HIDE DEF f
<1>5. (CHOOSE u \in DOMAIN m_allocations' : u \notin DOMAIN m_allocations) = f
  <2>1. DOMAIN m_allocations' = DOMAIN m_allocations \cup {f}
    BY <1>4
  <2> QED BY <1>4, <2>1
<1>6. sp' = [sp EXCEPT !.pc = "grow", !.addr = Addr(f)]
  BY <1>5 DEF SizeGrow
<1>7. Addr(f) \in Int /\ Addr(f) > 0
  <2>1. m_addr # 0
    BY <1>1 DEF SizeGrow, Take, Ready, ExtentMapped
  <2>2. Base \in Nat /\ Base > 0 /\ Addr(f) = Base + Unit * f
    BY <1>3, <2>1, PlaceTyped DEF PoolInv
  <2>3. Unit * 0 <= Unit * f /\ Unit * 0 = 0 /\ Unit * f \in Int
    BY <1>3, UnitPositive, Monotone
  <2> QED BY <2>2, <2>3
<1> QED BY <1>3, <1>4, <1>6, <1>7

LEMMA ObjectsTyped ==
    ASSUME NEW a \in Int
    PROVE  /\ ObjectsPerSpan \in Nat \ {0} /\ ObjectSize * ObjectsPerSpan <= SpanPages * PageSize
           /\ Objects(a) \in SUBSET Int
           /\ \A o \in Objects(a) : a <= o /\ o < a + SpanPages * PageSize
<1> DEFINE z == SpanPages * PageSize
           k == ObjectsPerSpan
<1>1. z \in Nat /\ ObjectSize \in 1..z
  BY PageSizePositive, PoolAssumption
<1>2. k = z \div ObjectSize
  BY DEF ObjectsPerSpan
<1> HIDE DEF z, k
<1>3. ObjectSize \in Nat \ {0} /\ ObjectSize <= z
  BY <1>1
<1>4. k \in Int /\ ObjectSize * k \in Int /\ ObjectSize * k <= z /\ z < ObjectSize * k + ObjectSize
  <2>1. z \in Int
    BY <1>1
  <2> QED BY <1>2, <1>3, <2>1, Division
<1>5. ~(k <= 0)
  <2>1. k <= 0 => ObjectSize * k <= ObjectSize * 0
    BY <1>3, <1>4, Monotone
  <2>2. ObjectSize * 0 = 0
    BY <1>3
  <2> QED BY <1>1, <1>3, <1>4, <2>1, <2>2
<1>6. ASSUME NEW i \in 0..(k - 1)
      PROVE  i * ObjectSize \in Int /\ 0 <= i * ObjectSize /\ i * ObjectSize < z
  <2>1. i \in Int /\ 0 <= i /\ i < k
    BY <1>4
  <2>2. ObjectSize * 0 <= ObjectSize * i
    BY <1>3, <2>1, Monotone
  <2>3. ObjectSize * i + ObjectSize <= ObjectSize * k
    BY <1>3, <1>4, <2>1, Monotone
  <2>4. ObjectSize * 0 = 0 /\ ObjectSize * i \in Int /\ i * ObjectSize = ObjectSize * i
    BY <1>3, <2>1, Monotone
  <2> QED BY <1>1, <1>3, <1>4, <2>2, <2>3, <2>4
<1>7. Objects(a) = {a + i * ObjectSize : i \in 0..(k - 1)}
  BY DEF Objects, k
<1>8. \A o \in Objects(a) : o \in Int /\ a <= o /\ o < a + z
  <2> SUFFICES ASSUME NEW i \in 0..(k - 1)
               PROVE  a + i * ObjectSize \in Int /\ a <= a + i * ObjectSize /\ a + i * ObjectSize < a + z
    BY <1>7
  <2> DEFINE w == i * ObjectSize
  <2>1. w \in Int /\ 0 <= w /\ w < z
    BY <1>6
  <2> HIDE DEF w
  <2>2. a + w \in Int /\ a <= a + w /\ a + w < a + z
    BY <1>1, <2>1
  <2> QED BY <2>2 DEF w
<1> QED BY <1>4, <1>5, <1>8 DEF z, k

(* The steps of the size pool that leave the page pool alone. *)
LEMMA SizeShapeStep ==
    ASSUME SizeShape, kind' = kind,
           \/ \E o \in sp.m_freeObjects : SizeAlloc(o)
           \/ \E o \in Objects(sp.addr) : SizeGrown(o)
           \/ \E o \in sp.m_allocations : SizeFree(o)
           \/ SizeClear \/ SizeCleared
    PROVE  SizeShape' /\ UNCHANGED poolVars /\ UNCHANGED arenaVars
<1>1. ASSUME NEW o \in sp.m_freeObjects, SizeAlloc(o) PROVE SizeShape' /\ UNCHANGED poolVars /\ UNCHANGED arenaVars
  <2> DEFINE F == sp.m_freeObjects \ {o}
             A == sp.m_allocations \cup {o}
             k == sp.m_allocatedObjects + 1
  <2>1. F \in SUBSET Int /\ A \in SUBSET Int /\ k \in Int
    BY DEF SizeShape
  <2>2. sp' = [sp EXCEPT !.m_freeObjects = F, !.m_allocations = A, !.m_allocatedObjects = k]
    BY <1>1 DEF SizeAlloc
  <2> HIDE DEF F, A, k
  <2> QED BY <1>1, <2>1, <2>2 DEF SizeAlloc, SizeShape
<1>2. ASSUME NEW o \in Objects(sp.addr), SizeGrown(o) PROVE SizeShape' /\ UNCHANGED poolVars /\ UNCHANGED arenaVars
  <2>1. sp.addr \in Int
    BY DEF SizeShape
  <2>2. ObjectsPerSpan \in Int /\ Objects(sp.addr) \in SUBSET Int
    BY <2>1, ObjectsTyped
  <2> DEFINE P == sp.m_pageAllocations \cup {sp.addr}
             F == Objects(sp.addr) \ {o}
             c == sp.m_objectCapacity + ObjectsPerSpan
             A == sp.m_allocations \cup {o}
             k == sp.m_allocatedObjects + 1
  <2>3. P \in SUBSET Int /\ F \in SUBSET Int /\ c \in Int /\ A \in SUBSET Int /\ k \in Int
    BY <2>1, <2>2 DEF SizeShape
  <2>4. sp' = [sp EXCEPT !.pc = "idle", !.addr = 0, !.m_pageAllocations = P, !.m_freeObjects = F,
                         !.m_objectCapacity = c, !.m_allocations = A, !.m_allocatedObjects = k]
    BY <1>2 DEF SizeGrown
  <2> HIDE DEF P, F, c, A, k
  <2>5. SizeShape'
    <3>1. 0 \in Int /\ "idle" \in {"idle", "grow", "clear"}
      OBVIOUS
    <3>2. sp' \in [pc : {"idle", "grow", "clear"}, addr : Int, todo : SUBSET Int,
                   m_pageAllocations : SUBSET Int, m_freeObjects : SUBSET Int,
                   m_allocations : SUBSET Int, m_objectCapacity : Int, m_allocatedObjects : Int]
      BY <2>3, <2>4, <3>1 DEF SizeShape
    <3>3. sp'.pc = "idle"
      BY <2>4 DEF SizeShape
    <3> QED BY <3>2, <3>3 DEF SizeShape
  <2> QED BY <1>2, <2>5 DEF SizeGrown
<1>3. ASSUME NEW o \in sp.m_allocations, SizeFree(o) PROVE SizeShape' /\ UNCHANGED poolVars /\ UNCHANGED arenaVars
  <2> DEFINE F == sp.m_freeObjects \cup {o}
             A == sp.m_allocations \ {o}
             k == sp.m_allocatedObjects - 1
  <2>1. F \in SUBSET Int /\ A \in SUBSET Int /\ k \in Int
    BY DEF SizeShape
  <2>2. sp' = [sp EXCEPT !.m_freeObjects = F, !.m_allocations = A, !.m_allocatedObjects = k]
    BY <1>3 DEF SizeFree
  <2> HIDE DEF F, A, k
  <2> QED BY <1>3, <2>1, <2>2 DEF SizeFree, SizeShape
<1>4. CASE SizeClear
  BY <1>4 DEF SizeClear, SizeShape
<1>5. CASE SizeCleared
  BY <1>5 DEF SizeCleared, SizeShape, EmptySizePool
<1> QED BY <1>1, <1>2, <1>3, <1>4, <1>5

LEMMA PoolStep ==
    ASSUME MapInv, PoolInv, SizeShape, PoolNext, kind' = kind, ext' = ext
    PROVE  PoolInv' /\ SizeShape'
<1>1. ASSUME NEW n \in Requests, NEW a \in Alignments, Alloc(n, a) PROVE PoolInv' /\ SizeShape'
  <2>1. PagesForSize(n) \in Nat \ {0} /\ a \in Nat \ {0}
    BY PagesNeeded, PoolAssumption
  <2>2. kind # "arena" /\ Take(PagesForSize(n), a) /\ sp' = sp
    BY <1>1 DEF Alloc
  <2>3. PoolInv'
    BY <2>1, <2>2, TakeStep
  <2> QED BY <2>2, <2>3 DEF SizeShape
<1>2. ASSUME NEW n \in Requests, NEW a \in Alignments, ArenaAlloc(n, a) PROVE PoolInv' /\ SizeShape'
  <2>1. n \in Nat \ {0} /\ a \in Nat \ {0}
    BY PoolAssumption
  <2>2. PoolInv'
    BY <1>2, <2>1, ArenaAllocStep
  <2>3. sp' = sp
    BY <1>2 DEF ArenaAlloc
  <2> QED BY <2>2, <2>3 DEF SizeShape
<1>3. ASSUME NEW u \in DOMAIN m_allocations, Free(u) PROVE PoolInv' /\ SizeShape'
  <2>1. kind # "arena" /\ (Addr(u) - Base) \div Unit \in DOMAIN m_allocations /\ GiveBack(Addr(u)) /\ sp' = sp
    BY <1>3 DEF Free, Freeable
  <2>2. PoolInv'
    BY <2>1, GiveBackStep
  <2> QED BY <2>1, <2>2 DEF SizeShape
<1>4. CASE Clear
  <2>1. PoolInv' /\ sp' = sp
    BY <1>4, ClearStep DEF Clear
  <2> QED BY <2>1 DEF SizeShape
<1>5. CASE ArenaClear
  <2>1. PoolInv' /\ sp' = sp
    BY <1>5, ArenaClearStep DEF ArenaClear
  <2> QED BY <2>1 DEF SizeShape
<1>6. CASE \/ \E o \in sp.m_freeObjects : SizeAlloc(o)
           \/ \E o \in Objects(sp.addr) : SizeGrown(o)
           \/ \E o \in sp.m_allocations : SizeFree(o)
           \/ SizeClear \/ SizeCleared
  <2>1. SizeShape' /\ UNCHANGED poolVars /\ UNCHANGED arenaVars
    BY <1>6, SizeShapeStep
  <2> QED BY <2>1, PoolStutter
<1>7. CASE SizeGrow
  <2>1. kind = "size" /\ Take(SpanPages, PageSize)
    BY <1>7 DEF SizeGrow
  <2>2. PoolInv'
    BY <2>1, TakeStep, PageSizePositive, PoolAssumption
  <2>3. \E w \in Int : sp' = [sp EXCEPT !.pc = "grow", !.addr = w]
    BY <1>7, GrowPlace
  <2> QED BY <2>1, <2>2, <2>3 DEF SizeShape
<1>8. ASSUME NEW p, sp.pc # "idle", IF Freeable(p) THEN GiveBack(p) ELSE UNCHANGED poolVars,
             UNCHANGED arenaVars
      PROVE  PoolInv'
  <2>1. kind # "arena"
    BY <1>8 DEF SizeShape
  <2>2. CASE Freeable(p)
    <3>1. (p - Base) \div Unit \in DOMAIN m_allocations /\ GiveBack(p)
      BY <1>8, <2>2 DEF Freeable
    <3> QED BY <2>1, <3>1, GiveBackStep
  <2>3. CASE ~Freeable(p)
    BY <1>8, <2>3, PoolStutter
  <2> QED BY <2>2, <2>3
<1>9. CASE SizeGrowThrows
  <2>1. /\ sp.pc # "idle" /\ (IF Freeable(sp.addr) THEN GiveBack(sp.addr) ELSE UNCHANGED poolVars)
        /\ UNCHANGED arenaVars /\ sp' = [sp EXCEPT !.pc = "idle", !.addr = 0]
    BY <1>9 DEF SizeGrowThrows
  <2>2. PoolInv'
    BY <1>8, <2>1
  <2>3. sp' = [sp EXCEPT !.pc = "idle", !.addr = 0]
    BY <2>1
  <2>4. SizeShape'
    <3>1. 0 \in Int
      OBVIOUS
    <3> QED BY <2>3, <3>1 DEF SizeShape
  <2> QED BY <2>2, <2>4
<1>10. ASSUME NEW a \in sp.todo, SizeClearSpan(a) PROVE PoolInv' /\ SizeShape'
  <2>1. /\ sp.pc # "idle" /\ (IF Freeable(a) THEN GiveBack(a) ELSE UNCHANGED poolVars)
        /\ UNCHANGED arenaVars /\ sp' = [sp EXCEPT !.todo = sp.todo \ {a}]
    BY <1>10 DEF SizeClearSpan
  <2>2. PoolInv'
    BY <1>8, <2>1
  <2> DEFINE T == sp.todo \ {a}
  <2>3. T \in SUBSET Int /\ sp' = [sp EXCEPT !.todo = T]
    BY <2>1 DEF SizeShape
  <2> HIDE DEF T
  <2>4. SizeShape'
    BY <2>3 DEF SizeShape
  <2> QED BY <2>2, <2>4
<1> QED
  BY <1>1, <1>2, <1>3, <1>4, <1>5, <1>6, <1>7, <1>9, <1>10 DEF PoolNext

(* What the pools hold, whatever their callers and the owner of the mapping do. *)
LEMMA PoolsAlways == Spec => []PoolsInv
<1>1. Init => PoolsInv
  BY MapStarts, PoolStarts DEF PoolsInv
<1>2. PoolsInv /\ [Next]_vars => PoolsInv'
  <2> SUFFICES ASSUME PoolsInv, [Next]_vars PROVE PoolsInv'
    OBVIOUS
  <2>1. MapInv /\ PoolInv /\ SizeShape
    BY DEF PoolsInv
  <2>2. CASE PoolNext /\ UNCHANGED mmapVars /\ UNCHANGED <<kind, ext>>
    BY <2>1, <2>2, MapStutter, PoolStep DEF PoolsInv
  <2>3. CASE MmapNext /\ UNCHANGED <<poolVars, arenaVars, sp>> /\ UNCHANGED <<kind, ext>>
    <3>1. PoolInv'
      BY <2>1, <2>3, PoolStutter
    <3>2. SizeShape'
      BY <2>1, <2>3 DEF SizeShape
    <3> QED BY <2>1, <2>3, <3>1, <3>2, MmapStep DEF PoolsInv
  <2>4. CASE UNCHANGED vars
    <3>1. UNCHANGED mmapVars /\ UNCHANGED poolVars /\ UNCHANGED arenaVars /\ sp' = sp /\ UNCHANGED <<kind, ext>>
      BY <2>4 DEF vars
    <3>2. SizeShape'
      BY <2>1, <3>1 DEF SizeShape
    <3> QED BY <2>1, <3>1, <3>2, PoolStutter, MapStutter DEF PoolsInv
  <2> QED BY <2>2, <2>3, <2>4 DEF Next
<1> QED
  BY <1>1, <1>2, PTL DEF Spec

(* Every unit of a page or range pool is free or in exactly one allocation,  *)
(* the free runs are sorted and coalesced and the counter is exact; what an  *)
(* arena handed out is disjoint and below its offset: alloc(), free(),       *)
(* clear() and the size pool's use of the page pool never lose or double a   *)
(* page (job_page_pool.cpp, job_range_pool.cpp, job_arena_pool.cpp).         *)
THEOREM NothingLostOrShared == Spec => []Partition
<1>1. PoolsInv => Partition
  <2> SUFFICES ASSUME PoolsInv PROVE Partition
    OBVIOUS
  <2>1. PoolShape /\ AllocInv
    BY DEF PoolsInv, PoolInv
  <2>2. /\ \A x : x \in UsedUnits <=> x \in Int /\ Taken(x)
        /\ \A f, g \in DOMAIN m_allocations : f # g => Run(f) \cap Run(g) = {}
    BY <2>1, UsedAre
  <2>3. ASSUME kind # "arena"
        PROVE  /\ FreeUnits \cap UsedUnits = {} /\ FreeUnits \cup UsedUnits = 0..(total - 1)
               /\ \A i \in 1..(Len(m_freeSpans) - 1) : m_freeSpans[i][2] < m_freeSpans[i + 1][1]
               /\ m_allocated = Cardinality(UsedUnits)
    <3>1. FreeInv
      BY <2>3 DEF PoolsInv, PoolInv
    <3>2. \A x : x \in FreeUnits <=> x \in Int /\ In(m_freeSpans, x)
      BY <3>1, FreeAre DEF FreeInv
    <3>3. total \in Nat /\ \A x : x \in 0..(total - 1) <=> x \in Int /\ 0 <= x /\ x < total
      BY <3>1 DEF FreeInv
    <3>4. FreeUnits \cap UsedUnits = {}
      BY <2>2, <3>1, <3>2 DEF FreeInv
    <3>5. FreeUnits \cup UsedUnits = 0..(total - 1)
      BY <2>2, <3>1, <3>2, <3>3 DEF FreeInv
    <3>6. ASSUME NEW i \in 1..(Len(m_freeSpans) - 1) PROVE m_freeSpans[i][2] < m_freeSpans[i + 1][1]
      <4>1. Len(m_freeSpans) \in Nat /\ DOMAIN m_freeSpans = 1..Len(m_freeSpans)
        BY <3>1 DEF FreeInv, Whole, Ranges
      <4>2. i \in DOMAIN m_freeSpans /\ i + 1 \in DOMAIN m_freeSpans /\ i < i + 1
        BY <4>1
      <4> QED BY <3>1, <4>2 DEF FreeInv, Separated
    <3> QED BY <3>1, <3>4, <3>5, <3>6 DEF FreeInv
  <2>4. ASSUME kind = "arena"
        PROVE  /\ UsedUnits \subseteq 0..(m_offset - 1) /\ m_offset <= ext[2] - ext[1]
               /\ m_offset = Cardinality(UsedUnits) + m_paddingBytes
    BY <2>2, <2>4 DEF PoolsInv, PoolInv, ArenaInv
  <2> QED BY <2>2, <2>3, <2>4 DEF Partition
<1> QED
  BY <1>1, PoolsAlways, PTL

(* A run that fits lies in the pool, and the block in the run. *)
LEMMA BlockPlace ==
    ASSUME MapInv, PoolInv, kind # "arena", NEW n \in Nat \ {0}, NEW a \in Nat \ {0},
           NEW i \in DOMAIN m_freeSpans, Fits(m_freeSpans[i], n, a)
    PROVE  LET c == Candidate(m_freeSpans[i], a)
               f == c \div Unit
           IN  /\ f \in Nat /\ c = Unit * f /\ (Base + c) % a = 0
               /\ m_freeSpans[i][1] <= f /\ f + n <= m_freeSpans[i][2]
               /\ m_freeSpans[i][1] \in Nat /\ m_freeSpans[i][2] \in Nat /\ m_freeSpans[i][2] <= total
<1> DEFINE r == m_freeSpans[i]
           c == Candidate(r, a)
           f == c \div Unit
<1>1. Whole(m_freeSpans) /\ PoolShape /\ total \in Nat
      /\ \A x \in Int : In(m_freeSpans, x) => 0 <= x /\ x < total
  BY DEF PoolInv, FreeInv
<1>2. r \in Int \X Int /\ r[1] \in Int /\ r[2] \in Int /\ r[1] < r[2]
  BY <1>1, ListTyped
<1>3. r[2] - 1 \in Int /\ In(m_freeSpans, r[1]) /\ In(m_freeSpans, r[2] - 1)
  BY <1>2 DEF In
<1>4. 0 <= r[1] /\ r[2] - 1 < total
  BY <1>1, <1>2, <1>3
<1> HIDE DEF r
<1>5. Fits(r, n, a)
  BY DEF r
<1>6. f \in Int /\ c = Unit * f /\ r[1] <= f /\ f + n <= r[2] /\ (Base + c) % a = 0
  BY <1>1, <1>2, <1>5, FitsAre
<1> HIDE DEF f, c
<1>7. f \in Nat /\ r[1] \in Nat /\ r[2] \in Nat /\ r[2] <= total
  BY <1>1, <1>2, <1>4, <1>6
<1> QED BY <1>6, <1>7 DEF r, f, c

(* Whole pages within a mapped range are mapped. *)
LEMMA PagesWithin ==
    ASSUME NEW r, NEW q, r[1] \in Int, r[2] \in Int, q[1] \in Int, q[2] \in Int, q[1] < q[2],
           r[1] <= q[1], q[2] <= r[2], r[1] % PageSize = 0, q[1] % PageSize = 0
    PROVE  Pages(q) \subseteq Pages(r)
<1>1. \A p : p \in Pages(q) <=> p \in Int /\ q[1] <= PageSize * p /\ PageSize * p < q[2]
  BY PagesAre
<1>2. r[1] < r[2]
  OBVIOUS
<1>3. \A p : p \in Pages(r) <=> p \in Int /\ r[1] <= PageSize * p /\ PageSize * p < r[2]
  BY <1>2, PagesAre
<1>4. ASSUME NEW p \in Int, q[1] <= PageSize * p, PageSize * p < q[2]
      PROVE  r[1] <= PageSize * p /\ PageSize * p < r[2]
  <2>1. PageSize * p \in Int
    BY PageSizePositive
  <2> QED BY <1>4, <2>1
<1> QED BY <1>1, <1>3, <1>4

(* What the next alloc() of a page pool hands out is mapped: a pool whose    *)
(* extent lost a page to unmap() or a close refuses instead, whatever was    *)
(* unmapped, locked or refused by the kernel before (job_page_pool.cpp,      *)
(* job_mem_extent.h, job_mmap.cpp).                                          *)
THEOREM PagesHandedOutAreMapped == Spec => []HandsOutMapped
<1>1. PoolsInv => HandsOutMapped
  <2> SUFFICES ASSUME PoolsInv, kind \in {"page", "size"}, NEW n \in {PagesForSize(q) : q \in Requests},
                      NEW a \in Alignments, Ready, FindFreeSpan(n, a) # 0
               PROVE  LET o == ext[1] + Candidate(m_freeSpans[FindFreeSpan(n, a)], a)
                      IN  Pages(<<o, o + n * Unit>>) \subseteq osMapped
    BY DEF HandsOutMapped, TargetMapped
  <2> DEFINE i == FindFreeSpan(n, a)
             c == Candidate(m_freeSpans[i], a)
             f == c \div Unit
             o == ext[1] + c
             q == <<o, o + n * Unit>>
  <2>1. MapInv /\ PoolInv /\ kind # "arena" /\ PoolShape /\ FreeInv
    BY DEF PoolsInv, PoolInv
  <2>2. n \in Nat \ {0} /\ a \in Nat \ {0}
    BY PagesNeeded, PoolAssumption
  <2>3. i \in DOMAIN m_freeSpans /\ Fits(m_freeSpans[i], n, a)
    BY <2>1, Found DEF FreeInv
  <2>4. f \in Nat /\ c = Unit * f /\ f + n <= m_freeSpans[i][2]
        /\ m_freeSpans[i][2] \in Nat /\ m_freeSpans[i][2] <= total /\ total \in Nat
    BY <2>1, <2>2, <2>3, BlockPlace DEF FreeInv
  <2> HIDE DEF i, c, f
  <2>5. /\ Unit = PageSize /\ PageSize * total <= ext[2] - ext[1]
        /\ ext[1] \in Nat /\ ext[2] \in Nat /\ ext[1] % PageSize = 0
    BY <2>1 DEF Unit, FreeInv, PoolShape
  <2>6. /\ PageSize * f \in Int /\ 0 <= PageSize * f /\ PageSize * n \in Int /\ n * PageSize = PageSize * n
        /\ PageSize * 0 < PageSize * n /\ PageSize * (f + n) = PageSize * f + PageSize * n
        /\ PageSize * (f + n) <= PageSize * total /\ PageSize * total \in Int
    <3>1. PageSize * 0 <= PageSize * f /\ PageSize * 0 = 0 /\ PageSize * f \in Int
      BY <2>4, PageSizePositive, Monotone
    <3>2. PageSize * 0 + PageSize <= PageSize * n /\ PageSize * n \in Int /\ n * PageSize = PageSize * n
      BY <2>2, PageSizePositive, Monotone
    <3>3. f + n \in Int /\ f + n <= total /\ total \in Int
      BY <2>2, <2>4
    <3>4. PageSize * (f + n) <= PageSize * total /\ PageSize * total \in Int
      BY <3>3, PageSizePositive, Monotone
    <3>5. PageSize * (f + n) = PageSize * f + PageSize * n
      BY <2>2, <2>4, PageSizePositive
    <3> QED BY <3>1, <3>2, <3>4, <3>5, PageSizePositive
  <2>7. /\ q[1] = ext[1] + PageSize * f /\ q[2] = ext[1] + PageSize * f + PageSize * n
    BY <2>4, <2>5, <2>6
  <2>8. PICK k \in Int : ext[1] = PageSize * k
    <3> DEFINE e == ext[1]
    <3>1. e \in Int /\ e % PageSize = 0
      BY <2>5
    <3> HIDE DEF e
    <3>2. \E k \in Int : e = PageSize * k
      BY <3>1, PageSizePositive, Multiple
    <3> QED BY <3>2 DEF e
  <2>9. q[1] % PageSize = 0
    <3>1. q[1] = PageSize * (k + f) /\ k + f \in Int
      BY <2>4, <2>7, <2>8, PageSizePositive
    <3> QED BY <3>1, PageSizePositive, Multiple
  <2>10. m_addr # 0 /\ \E j \in DOMAIN m_mappedRanges : RangeContains(m_mappedRanges[j], ext)
    <3>1. ExtentMapped
      BY DEF Ready
    <3> QED BY <3>1 DEF ExtentMapped, MappedRange
  <2>11. PICK j \in DOMAIN m_mappedRanges : m_mappedRanges[j][1] <= ext[1] /\ ext[2] <= m_mappedRanges[j][2]
    <3>1. PICK j \in DOMAIN m_mappedRanges : RangeContains(m_mappedRanges[j], ext)
      BY <2>10
    <3>2. m_mappedRanges[j][1] \in Int /\ m_mappedRanges[j][2] \in Int
      BY <2>1, ListTyped DEF MapInv, Listed
    <3> QED BY <2>5, <3>1, <3>2 DEF RangeContains
  <2>12. /\ m_mappedRanges[j][1] \in Int /\ m_mappedRanges[j][2] \in Int
         /\ m_mappedRanges[j][1] % PageSize = 0
    BY <2>1, ListTyped DEF MapInv, Listed, Aligned
  <2>13. Pages(m_mappedRanges[j]) \subseteq osMapped
    BY <2>1, <2>10 DEF MapInv, PagesOf
  <2> DEFINE r == m_mappedRanges[j]
  <2> HIDE DEF r, q
  <2>14. /\ r[1] \in Int /\ r[2] \in Int /\ r[1] % PageSize = 0 /\ q[1] \in Int /\ q[2] \in Int /\ q[1] < q[2]
         /\ r[1] <= q[1] /\ q[2] <= r[2]
    <3> DEFINE x == PageSize * f
               y == PageSize * n
               z == PageSize * total
    <3>1. /\ x \in Int /\ 0 <= x /\ y \in Int /\ 0 < y /\ x + y <= z /\ z \in Int /\ z <= ext[2] - ext[1]
          /\ q[1] = ext[1] + x /\ q[2] = ext[1] + x + y
      BY <2>5, <2>6, <2>7, PageSizePositive
    <3>2. r[1] \in Int /\ r[2] \in Int /\ r[1] % PageSize = 0 /\ r[1] <= ext[1] /\ ext[2] <= r[2]
      BY <2>11, <2>12 DEF r
    <3> HIDE DEF x, y, z
    <3> QED BY <2>5, <3>1, <3>2
  <2>15. Pages(q) \subseteq Pages(r)
    BY <2>9, <2>14, PagesWithin
  <2>16. Pages(q) \subseteq osMapped
    BY <2>13, <2>15 DEF r
  <2> QED BY <2>16 DEF q, c, i
<1> QED
  BY <1>1, PoolsAlways, PTL

(* Dividing and being divided. *)
LEMMA Divides ==
    ASSUME NEW a \in Nat \ {0}, NEW x \in Int, NEW y \in Int, y % a = 0
    PROVE  /\ x % a = 0 => (x + y) % a = 0 /\ (x - y) % a = 0
           /\ y \in Nat \ {0} /\ x % y = 0 => x % a = 0
<1>1. PICK k \in Int : y = a * k
  BY Multiple
<1>2. ASSUME x % a = 0 PROVE (x + y) % a = 0 /\ (x - y) % a = 0
  <2>1. PICK j \in Int : x = a * j
    BY <1>2, Multiple
  <2>2. x + y = a * (j + k) /\ x - y = a * (j - k) /\ j + k \in Int /\ j - k \in Int
    BY <1>1, <2>1
  <2>3. \A m \in Int : (a * m) % a = 0
    BY Multiple
  <2> QED BY <2>2, <2>3
<1>3. ASSUME y \in Nat \ {0}, x % y = 0 PROVE x % a = 0
  <2>1. PICK j \in Int : x = y * j
    BY <1>3, Multiple
  <2>2. k * j \in Int /\ (a * k) * j = a * (k * j)
    OBVIOUS
  <2>3. x = a * (k * j)
    BY <1>1, <2>1, <2>2
  <2> QED BY <2>2, <2>3, Multiple
<1> QED BY <1>2, <1>3

(* Neighbouring units that are all free are in one run. *)
LEMMA Contiguous ==
    ASSUME NEW s, Whole(s), Separated(s), NEW u \in Int, NEW n \in Nat \ {0},
           \A x \in Int : u <= x /\ x < u + n => In(s, x)
    PROVE  \E i \in DOMAIN s : s[i][1] <= u /\ u + n <= s[i][2]
<1>1. PICK i \in DOMAIN s : s[i][1] <= u /\ u < s[i][2]
  BY DEF In
<1>2. s[i][1] \in Int /\ s[i][2] \in Int
  BY ListTyped
<1>3. ASSUME s[i][2] < u + n PROVE FALSE
  <2>1. In(s, s[i][2])
    BY <1>1, <1>2, <1>3
  <2>2. PICK j \in DOMAIN s : s[j][1] <= s[i][2] /\ s[i][2] < s[j][2]
    BY <2>1 DEF In
  <2>3. s[j][1] \in Int /\ s[j][2] \in Int /\ i \in Int /\ j \in Int
    BY ListTyped
  <2>4. ~(i < j)
    BY <1>2, <2>2, <2>3 DEF Separated
  <2>5. ~(j < i)
    BY <1>1, <1>2, <2>2, <2>3 DEF Separated
  <2>6. i # j
    BY <1>2, <2>2
  <2> QED BY <2>3, <2>4, <2>5, <2>6
<1> QED BY <1>1, <1>2, <1>3

(* A page pool starts on a page, so its aligned addresses are pages'. *)
LEMMA AlignedPlace ==
    ASSUME MapInv, PoolShape, NEW a \in Alignments, NEW r \in Int \X Int
    PROVE  Candidate(r, a) % Unit = 0
<1> DEFINE x == Addr(r[1])
           t == AlignUp(x, a)
<1>1. r[1] \in Int /\ a \in Nat \ {0}
  BY PoolAssumption
<1>2. x \in Int /\ x = Base + Unit * r[1] /\ Base \in Nat /\ m_addr \in Nat /\ ext[1] \in Nat
  BY <1>1, PlaceTyped
<1>3. Unit * r[1] \in Int /\ (Unit * r[1]) % Unit = 0
  <2>1. Unit * r[1] \in Int
    BY <1>1, UnitPositive, Monotone
  <2>2. 0 \in Int
    OBVIOUS
  <2> QED BY <1>1, <2>1, <2>2, UnitPositive, Multiple
<1> HIDE DEF x
<1>4. t \in Int /\ t % a = 0
  BY <1>1, <1>2, Aligning
<1>5. Candidate(r, a) = t - Base
  BY DEF Candidate, x
<1> HIDE DEF t
<1>6. CASE kind \notin {"page", "size"}
  <2>1. Unit = 1
    BY <1>6 DEF Unit
  <2> DEFINE c == t - Base
  <2>2. c \in Int
    BY <1>2, <1>4
  <2> HIDE DEF c
  <2>3. c % 1 = 0
    BY <2>2
  <2> QED BY <1>5, <2>1, <2>3 DEF c
<1>7. CASE kind \in {"page", "size"}
  <2>1. Unit = PageSize /\ ext[1] % Unit = 0
    BY <1>7 DEF Unit, PoolShape
  <2>2. m_addr % Unit = 0
    <3>1. m_addr = 0 => m_addr % Unit = 0
      <4>1. Unit * 0 = 0 /\ 0 \in Int
        BY UnitPositive
      <4>2. (Unit * 0) % Unit = 0
        BY <4>1, UnitPositive, Multiple
      <4> QED BY <4>1, <4>2
    <3> QED BY <2>1, <3>1, MmapAssumption DEF MapInv
  <2>3. Base % Unit = 0
    <3>1. m_addr \in Int /\ ext[1] \in Int
      BY <1>2
    <3>2. (m_addr + ext[1]) % Unit = 0
      BY <2>1, <2>2, <3>1, UnitPositive, Divides
    <3> QED BY <3>2 DEF Base
  <2>4. t % Unit = 0
    <3>1. CASE a % PageSize = 0
      <4>1. a \in Int
        BY <1>1
      <4> QED BY <1>1, <1>4, <2>1, <3>1, <4>1, UnitPositive, Divides
    <3>2. CASE PageSize % a = 0
      <4>1. x % Unit = 0
        <5>1. Base \in Int
          BY <1>2
        <5>2. (Base + Unit * r[1]) % Unit = 0
          BY <1>3, <2>3, <5>1, UnitPositive, Divides
        <5> QED BY <1>2, <5>2
      <4>2. x % a = 0
        <5>1. Unit \in Int
          BY UnitPositive
        <5> QED BY <1>1, <1>2, <2>1, <3>2, <4>1, <5>1, UnitPositive, Divides
      <4>3. t = x
        BY <1>1, <1>2, <4>2, AlignedFixed DEF t
      <4> QED BY <4>1, <4>3
    <3> QED BY <3>1, <3>2, PoolAssumption
  <2>5. Base \in Int
    BY <1>2
  <2>6. (t - Base) % Unit = 0
    BY <1>4, <2>3, <2>4, <2>5, UnitPositive, Divides
  <2> QED BY <1>5, <2>6
<1> QED BY <1>6, <1>7

(* findFreeSpan() looks at the lowest aligned block of a run. *)
LEMMA FirstAligned ==
    ASSUME MapInv, PoolShape, NEW n \in Nat \ {0}, NEW a \in Alignments, NEW r \in Int \X Int,
           NEW u \in Int, r[1] <= u, u + n <= r[2], Addr(u) % a = 0
    PROVE  Fits(r, n, a) /\ Candidate(r, a) \div Unit \in Int /\ Candidate(r, a) \div Unit <= u
<1> DEFINE x == Addr(r[1])
           y == Addr(u)
           t == AlignUp(x, a)
           c == Candidate(r, a)
           f == c \div Unit
<1>1. r[1] \in Int /\ r[2] \in Int /\ a \in Nat \ {0}
  BY PoolAssumption
<1>2. /\ x \in Int /\ x = Base + Unit * r[1] /\ Base \in Nat
      /\ y \in Int /\ y = Base + Unit * u
  BY <1>1, PlaceTyped
<1>3. Unit * r[1] \in Int /\ Unit * u \in Int /\ Unit * r[1] <= Unit * u
  BY <1>1, UnitPositive, Monotone
<1>4. c % Unit = 0
  BY AlignedPlace
<1>5. y % a = 0 /\ c = t - Base
  BY DEF Candidate
<1> HIDE DEF x, y
<1>6. t \in Int /\ t <= y
  <2>1. x <= y
    BY <1>2, <1>3
  <2>2. t \in Int
    BY <1>1, <1>2, Aligning
  <2>3. y % a = 0 /\ x \in Int /\ y \in Int
    BY <1>2, <1>5
  <2>4. x <= y => AlignUp(x, a) <= y
    BY <1>1, <2>3, AlignedFixed
  <2> QED BY <2>1, <2>2, <2>4
<1> HIDE DEF c, t
<1>7. c \in Int /\ c <= Unit * u
  BY <1>2, <1>3, <1>5, <1>6
<1>8. f \in Int /\ c = Unit * f
  <2>1. c = Unit * (c \div Unit)
    BY <1>4, <1>7, UnitPositive, Multiple
  <2>2. c \div Unit \in Int
    BY <1>7, UnitPositive, Division
  <2> QED BY <2>1, <2>2
<1> HIDE DEF f
<1>9. f <= u
  <2>1. u < f => Unit * u + Unit <= Unit * f
    BY <1>8, UnitPositive, Monotone
  <2> QED BY <1>3, <1>7, <1>8, <2>1, UnitPositive
<1>10. f < r[2] /\ n <= r[2] - f
  BY <1>1, <1>8, <1>9
<1> QED BY <1>4, <1>8, <1>9, <1>10 DEF Fits, f, c

(* alloc() of a page or range pool fails only when no run of free memory     *)
(* holds an aligned block of that size, and otherwise finds the lowest one:  *)
(* the free list never hides a block between two runs (findFreeSpan(),       *)
(* findFreeRange()).                                                         *)
THEOREM FirstFitFinds == Spec => []FindsIfFits
<1>1. PoolsInv => FindsIfFits
  <2> SUFFICES ASSUME PoolsInv, kind # "arena", NEW n \in {PagesForSize(q) : q \in Requests},
                      NEW a \in Alignments
               PROVE  LET i == FindFreeSpan(n, a)
                          found == {u \in 0..(total - 1) : Addr(u) % a = 0 /\ u..(u + n - 1) \subseteq FreeUnits}
                      IN  IF i = 0 THEN found = {}
                          ELSE Candidate(m_freeSpans[i], a) \div Unit = Min(found)
    BY DEF FindsIfFits
  <2> DEFINE i == FindFreeSpan(n, a)
             found == {u \in 0..(total - 1) : Addr(u) % a = 0 /\ u..(u + n - 1) \subseteq FreeUnits}
             c == Candidate(m_freeSpans[i], a)
             f == c \div Unit
  <2>1. MapInv /\ PoolInv /\ PoolShape /\ FreeInv
    BY DEF PoolsInv, PoolInv
  <2>2. n \in Nat \ {0} /\ a \in Nat \ {0}
    BY PagesNeeded, PoolAssumption
  <2>3. total \in Nat /\ Whole(m_freeSpans) /\ Separated(m_freeSpans)
    BY <2>1 DEF FreeInv
  <2>4. \A x : x \in FreeUnits <=> x \in Int /\ In(m_freeSpans, x)
    BY <2>3, FreeAre
  <2>5. ASSUME NEW u \in found
        PROVE  \E j \in DOMAIN m_freeSpans :
                  /\ m_freeSpans[j][1] <= u /\ u + n <= m_freeSpans[j][2]
                  /\ Fits(m_freeSpans[j], n, a) /\ Candidate(m_freeSpans[j], a) \div Unit <= u
    <3>1. u \in Int /\ Addr(u) % a = 0 /\ u..(u + n - 1) \subseteq FreeUnits
      BY <2>3
    <3>2. \A x \in Int : u <= x /\ x < u + n => In(m_freeSpans, x)
      <4>1. \A x \in Int : u <= x /\ x < u + n => x \in u..(u + n - 1)
        BY <2>2, <3>1
      <4> QED BY <2>4, <3>1, <4>1
    <3>3. PICK j \in DOMAIN m_freeSpans : m_freeSpans[j][1] <= u /\ u + n <= m_freeSpans[j][2]
      BY <2>2, <2>3, <3>1, <3>2, Contiguous
    <3>4. m_freeSpans[j] \in Int \X Int
      BY <2>3, ListTyped
    <3> QED BY <2>1, <2>2, <3>1, <3>3, <3>4, FirstAligned
  <2>6. CASE i = 0
    <3>1. \A j \in DOMAIN m_freeSpans : ~Fits(m_freeSpans[j], n, a)
      BY <2>3, <2>6, Found
    <3>2. found = {}
      <4> HIDE DEF found
      <4> QED BY <2>5, <3>1
    <3> QED BY <2>6, <3>2
  <2>7. CASE i # 0
    <3>1. /\ i \in DOMAIN m_freeSpans /\ Fits(m_freeSpans[i], n, a)
          /\ \A j \in DOMAIN m_freeSpans : Fits(m_freeSpans[j], n, a) => i <= j
      BY <2>3, <2>7, Found
    <3>2. /\ f \in Nat /\ c = Unit * f /\ (Base + c) % a = 0
          /\ m_freeSpans[i][1] <= f /\ f + n <= m_freeSpans[i][2]
          /\ m_freeSpans[i][1] \in Nat /\ m_freeSpans[i][2] \in Nat /\ m_freeSpans[i][2] <= total
      BY <2>1, <2>2, <3>1, BlockPlace
    <3> HIDE DEF i, c
    <3>3. Addr(f) % a = 0
      <4>1. Addr(f) = Base + Unit * f
        BY <2>1, <3>2, PlaceTyped
      <4> QED BY <3>2, <4>1
    <3>4. f \in found
      <4> HIDE DEF f
      <4>1. \A x \in f..(f + n - 1) : x \in Int /\ m_freeSpans[i][1] <= x /\ x < m_freeSpans[i][2]
        BY <2>2, <3>2
      <4>2. f..(f + n - 1) \subseteq FreeUnits
        BY <2>4, <3>1, <4>1 DEF In, i
      <4>3. f \in 0..(total - 1)
        BY <2>2, <2>3, <3>2
      <4> QED BY <3>3, <4>2, <4>3
    <3>5. ASSUME NEW u \in found PROVE f <= u
      <4>1. PICK j \in DOMAIN m_freeSpans :
                /\ m_freeSpans[j][1] <= u /\ u + n <= m_freeSpans[j][2]
                /\ Fits(m_freeSpans[j], n, a) /\ Candidate(m_freeSpans[j], a) \div Unit <= u
        BY <2>5
      <4>2. i <= j /\ i \in Int /\ j \in Int /\ m_freeSpans[j][1] \in Int
        BY <2>3, <3>1, <4>1, ListTyped DEF i
      <4>3. u \in Int
        BY <2>3
      <4>4. CASE i = j
        BY <4>1, <4>4 DEF c
      <4>5. CASE i < j
        <5>1. m_freeSpans[i][2] < m_freeSpans[j][1]
          BY <2>3, <3>1, <4>5 DEF Separated, i
        <5> HIDE DEF f, found
        <5> QED BY <2>2, <3>2, <4>1, <4>2, <4>3, <5>1
      <4> QED BY <4>2, <4>4, <4>5
    <3>6. found \in SUBSET Nat
      BY <2>3
    <3> HIDE DEF f, found
    <3>7. Min(found) \in found /\ \A u \in found : Min(found) <= u
      BY <3>4, <3>6, Least
    <3>8. f = Min(found)
      <4>1. Min(found) \in Nat /\ f <= Min(found) /\ Min(found) <= f
        BY <3>4, <3>5, <3>6, <3>7
      <4> DEFINE v == Min(found)
      <4> HIDE DEF v
      <4>2. v \in Nat /\ f <= v /\ v <= f
        BY <4>1 DEF v
      <4>3. f = v
        BY <3>2, <4>2
      <4> QED BY <4>3 DEF v
    <3> QED BY <2>7, <3>8 DEF f, c, found, i
  <2> QED BY <2>6, <2>7
<1> QED
  BY <1>1, PoolsAlways, PTL

-----------------------------------------------------------------------------
(* The size pool.                                                            *)
LEMMA ObjectCount ==
    ASSUME NEW a \in Int
    PROVE  IsFiniteSet(Objects(a)) /\ Cardinality(Objects(a)) = ObjectsPerSpan
<1> DEFINE k == ObjectsPerSpan
           I == 0..(k - 1)
           f == [i \in I |-> a + i * ObjectSize]
<1>1. k \in Nat \ {0} /\ ObjectSize \in Nat \ {0}
  <2>1. ObjectSize \in 1..(SpanPages * PageSize) /\ SpanPages * PageSize \in Nat
    BY PageSizePositive, PoolAssumption
  <2> QED BY <2>1, ObjectsTyped
<1>2. Objects(a) = {a + i * ObjectSize : i \in I}
  BY DEF Objects
<1> HIDE DEF k
<1>3. IsFiniteSet(I) /\ Cardinality(I) = k
  <2>1. 0 \in Int /\ k - 1 \in Int /\ ~(0 > k - 1)
    BY <1>1
  <2>2. IsFiniteSet(I) /\ Cardinality(I) = (k - 1) - 0 + 1
    BY <2>1, FS_Interval
  <2> QED BY <1>1, <2>2
<1>4. \A i \in I : i \in Int
  BY <1>1
<1> HIDE DEF I
<1>5. ASSUME NEW i \in I, NEW j \in I, a + i * ObjectSize = a + j * ObjectSize PROVE i = j
  <2>1. i \in Int /\ j \in Int
    BY <1>4
  <2>2. /\ i * ObjectSize = ObjectSize * i /\ j * ObjectSize = ObjectSize * j
        /\ ObjectSize * i \in Int /\ ObjectSize * j \in Int
    BY <1>1, <2>1, Monotone
  <2>3. ObjectSize * i = ObjectSize * j
    BY <1>5, <2>2
  <2> QED BY <1>1, <2>1, <2>3, Monotone
<1>6. f \in Bijection(I, Objects(a))
  <2>1. f \in [I -> Objects(a)] /\ \A o \in Objects(a) : \E i \in I : f[i] = o
    BY <1>2
  <2>2. \A i, j \in I : f[i] = f[j] => i = j
    BY <1>5
  <2> HIDE DEF f
  <2> QED BY <2>1, <2>2 DEF Bijection, Injection, Surjection, IsInjective
<1>7. ExistsBijection(I, Objects(a))
  <2> HIDE DEF f
  <2> QED BY <1>6 DEF ExistsBijection
<1>8. IsFiniteSet(Objects(a)) /\ Cardinality(Objects(a)) = Cardinality(I)
  BY <1>3, <1>7, FS_Bijection
<1> QED BY <1>3, <1>8 DEF k

LEMMA AddrOnce ==
    ASSUME MapInv, PoolShape, NEW u \in Int, NEW v \in Int, Addr(u) = Addr(v)
    PROVE  u = v
<1>1. Addr(u) = Base + Unit * u /\ Addr(v) = Base + Unit * v /\ Base \in Nat
  BY PlaceTyped
<1>2. Unit * u \in Int /\ Unit * v \in Int
  BY UnitPositive, Monotone
<1>3. Unit * u = Unit * v
  <2> DEFINE x == Unit * u
             y == Unit * v
  <2>1. x \in Int /\ y \in Int /\ Base + x = Base + y
    BY <1>1, <1>2
  <2> HIDE DEF x, y
  <2>2. x = y
    BY <1>1, <2>1
  <2> QED BY <2>2 DEF x, y
<1> QED BY <1>3, UnitPositive, Monotone

(* Two spans of the page pool have no object in common. *)
LEMMA SpansApart ==
    ASSUME MapInv, PoolInv, kind = "size", NEW u \in DOMAIN m_allocations, NEW v \in DOMAIN m_allocations,
           m_allocations[u] = SpanPages, m_allocations[v] = SpanPages, u < v
    PROVE  Objects(Addr(u)) \cap Objects(Addr(v)) = {}
<1> DEFINE a == Addr(u)
           b == Addr(v)
           z == SpanPages * PageSize
<1>1. u \in Nat /\ v \in Nat /\ u + SpanPages <= v /\ SpanPages \in Nat \ {0}
  BY PoolAssumption DEF PoolInv, AllocInv
<1>2. a \in Int /\ b \in Int /\ a = Base + Unit * u /\ b = Base + Unit * v /\ Base \in Nat
  BY <1>1, PlaceTyped DEF PoolInv
<1>3. Unit = PageSize
  BY DEF Unit
<1>4. PageSize * (u + SpanPages) <= PageSize * v
  <2>1. u + SpanPages \in Int /\ v \in Int
    BY <1>1
  <2> QED BY <1>1, <2>1, PageSizePositive, Monotone
<1>5. /\ PageSize * (u + SpanPages) = PageSize * u + z /\ z \in Int
      /\ PageSize * u \in Int /\ PageSize * v \in Int
  BY <1>1, PageSizePositive
<1> HIDE DEF z
<1>6. a + z <= b
  <2> DEFINE x == PageSize * u
             y == PageSize * v
  <2>1. x \in Int /\ y \in Int /\ z \in Int /\ x + z <= y
    BY <1>4, <1>5
  <2>2. a = Base + x /\ b = Base + y
    BY <1>2, <1>3
  <2> HIDE DEF x, y, a, b
  <2> QED BY <1>2, <2>1, <2>2
<1> HIDE DEF a, b
<1>7. /\ \A o \in Objects(a) : o \in Int /\ o < a + z
      /\ \A o \in Objects(b) : o \in Int /\ b <= o
  BY <1>2, ObjectsTyped DEF z
<1>8. Objects(a) \cap Objects(b) = {}
  BY <1>2, <1>5, <1>6, <1>7
<1> QED BY <1>8 DEF a, b

(* What the size pool records, apart from the page pool. *)
SizeFields ==
    /\ HasSpans => kind = "size"
    /\ 0 \notin sp.m_pageAllocations
    /\ sp.pc = "grow" => sp.m_freeObjects = {} /\ sp.addr # 0
    /\ sp.pc # "grow" => sp.addr = 0
    /\ sp.pc = "clear" => sp.m_pageAllocations # {}
    /\ sp.m_pageAllocations = {} =>
          /\ sp.m_freeObjects = {} /\ sp.m_allocations = {}
          /\ sp.m_objectCapacity = 0 /\ sp.m_allocatedObjects = 0

(* While its memory is left alone: every span is an allocation of the page   *)
(* pool that no other caller frees, and every object is free or handed out.  *)
Held == (sp.m_pageAllocations \cup {sp.addr}) \ {0}
Owns == \A a \in Held : \E u \in spanUnits : Addr(u) = a /\ m_allocations[u] = SpanPages
Books ==
    /\ IsFiniteSet(sp.m_freeObjects) /\ IsFiniteSet(sp.m_allocations)
    /\ sp.m_freeObjects \cap sp.m_allocations = {}
    /\ sp.m_freeObjects \cup sp.m_allocations = UNION {Objects(a) : a \in sp.m_pageAllocations}
    /\ sp.m_objectCapacity = Cardinality(sp.m_freeObjects) + sp.m_allocatedObjects
    /\ sp.m_allocatedObjects = Cardinality(sp.m_allocations)

SizeInv ==
    /\ spanUnits \subseteq DOMAIN m_allocations /\ (pulled => HasSpans) /\ SizeFields
    /\ ~pulled /\ sp.pc # "clear" =>
          Owns /\ Books /\ (sp.pc = "grow" => sp.addr \notin sp.m_pageAllocations)

LEMMA SizeFieldsStep ==
    ASSUME PoolsInv, SizeFields, PoolNext, kind' = kind
    PROVE  SizeFields'
<1>1. SizeShape /\ MapInv /\ PoolInv
  BY DEF PoolsInv
<1>2. CASE sp' = sp
  BY <1>2 DEF SizeFields, HasSpans
<1>3. ASSUME NEW o \in sp.m_freeObjects, SizeAlloc(o) PROVE SizeFields'
  <2>1. /\ sp'.pc = "idle" /\ sp'.addr = sp.addr /\ sp'.m_pageAllocations = sp.m_pageAllocations
        /\ sp.pc = "idle"
    BY <1>1, <1>3 DEF SizeAlloc, SizeShape
  <2>2. sp.m_pageAllocations # {}
    BY DEF SizeFields
  <2> QED BY <2>1, <2>2 DEF SizeFields, HasSpans
<1>4. ASSUME NEW o \in sp.m_allocations, SizeFree(o) PROVE SizeFields'
  <2>1. /\ sp'.pc = "idle" /\ sp'.addr = sp.addr /\ sp'.m_pageAllocations = sp.m_pageAllocations
        /\ sp.pc = "idle"
    BY <1>1, <1>4 DEF SizeFree, SizeShape
  <2>2. sp.m_pageAllocations # {}
    BY DEF SizeFields
  <2> QED BY <2>1, <2>2 DEF SizeFields, HasSpans
<1>5. ASSUME NEW o \in Objects(sp.addr), SizeGrown(o) PROVE SizeFields'
  <2>1. /\ sp'.pc = "idle" /\ sp'.addr = 0 /\ sp'.m_pageAllocations = sp.m_pageAllocations \cup {sp.addr}
        /\ sp.pc = "grow"
    BY <1>1, <1>5 DEF SizeGrown, SizeShape
  <2>2. kind = "size"
    BY <1>1, <2>1 DEF SizeShape
  <2> QED BY <2>1, <2>2 DEF SizeFields, HasSpans
<1>6. CASE SizeGrow
  <2>1. PICK w \in Int : w > 0 /\ sp' = [sp EXCEPT !.pc = "grow", !.addr = w]
    BY <1>1, <1>6, GrowPlace
  <2>2. /\ sp'.pc = "grow" /\ sp'.addr # 0 /\ sp'.m_pageAllocations = sp.m_pageAllocations
        /\ sp'.m_freeObjects = sp.m_freeObjects /\ sp'.m_allocations = sp.m_allocations
        /\ sp'.m_objectCapacity = sp.m_objectCapacity /\ sp'.m_allocatedObjects = sp.m_allocatedObjects
    BY <1>1, <2>1 DEF SizeShape
  <2>3. kind = "size" /\ sp.m_freeObjects = {}
    BY <1>6 DEF SizeGrow
  <2> QED BY <2>2, <2>3 DEF SizeFields, HasSpans
<1>7. CASE SizeGrowThrows
  <2>1. sp' = [sp EXCEPT !.pc = "idle", !.addr = 0] /\ sp.pc = "grow"
    BY <1>7 DEF SizeGrowThrows
  <2>2. /\ sp'.pc = "idle" /\ sp'.addr = 0 /\ sp'.m_pageAllocations = sp.m_pageAllocations
        /\ sp'.m_freeObjects = sp.m_freeObjects /\ sp'.m_allocations = sp.m_allocations
        /\ sp'.m_objectCapacity = sp.m_objectCapacity /\ sp'.m_allocatedObjects = sp.m_allocatedObjects
    BY <1>1, <2>1 DEF SizeShape
  <2> QED BY <2>1, <2>2 DEF SizeFields, HasSpans
<1>8. CASE SizeClear
  <2>1. /\ sp'.pc = "clear" /\ sp'.addr = sp.addr /\ sp'.m_pageAllocations = sp.m_pageAllocations
        /\ sp.pc = "idle" /\ sp.m_pageAllocations # {}
    BY <1>1, <1>8 DEF SizeClear, SizeShape
  <2> QED BY <2>1 DEF SizeFields, HasSpans
<1>9. ASSUME NEW a \in sp.todo, SizeClearSpan(a) PROVE SizeFields'
  <2>1. sp' = [sp EXCEPT !.todo = @ \ {a}] /\ sp.pc = "clear"
    BY <1>9 DEF SizeClearSpan
  <2>2. /\ sp'.pc = "clear" /\ sp'.addr = sp.addr /\ sp'.m_pageAllocations = sp.m_pageAllocations
    BY <1>1, <2>1 DEF SizeShape
  <2> QED BY <2>1, <2>2 DEF SizeFields, HasSpans
<1>10. CASE SizeCleared
  BY <1>10 DEF SizeCleared, EmptySizePool, SizeFields, HasSpans
<1>11. CASE \/ \E n \in Requests, a \in Alignments : Alloc(n, a) \/ ArenaAlloc(n, a)
            \/ \E u \in DOMAIN m_allocations : Free(u)
            \/ Clear \/ ArenaClear
  <2>1. sp' = sp
    BY <1>11 DEF Alloc, ArenaAlloc, Free, Clear, ArenaClear
  <2> QED BY <1>2, <2>1
<1> QED
  BY <1>3, <1>4, <1>5, <1>6, <1>7, <1>8, <1>9, <1>10, <1>11 DEF PoolNext

(* Without spans there is nothing to own and nothing to count. *)
LEMMA NoSpans ==
    SizeFields /\ ~HasSpans => Owns /\ Books /\ (sp.pc = "grow" => sp.addr \notin sp.m_pageAllocations)
<1> SUFFICES ASSUME SizeFields, ~HasSpans
             PROVE  Owns /\ Books /\ (sp.pc = "grow" => sp.addr \notin sp.m_pageAllocations)
  OBVIOUS
<1>1. sp.m_pageAllocations = {} /\ sp.pc # "grow" /\ sp.addr = 0
  BY DEF SizeFields, HasSpans
<1>2. Held = {}
  BY <1>1 DEF Held
<1>3. /\ sp.m_freeObjects = {} /\ sp.m_allocations = {}
      /\ sp.m_objectCapacity = 0 /\ sp.m_allocatedObjects = 0
  BY <1>1 DEF SizeFields
<1>4. Books
  BY <1>1, <1>3, FS_EmptySet DEF Books
<1> QED BY <1>1, <1>2, <1>4 DEF Owns

(* A span stays owned while it is neither freed nor moved. *)
LEMMA OwnsKept ==
    ASSUME Owns, m_addr' = m_addr, kind' = kind, ext' = ext, Held' \subseteq Held,
           \A u \in spanUnits : Addr(u) \in Held' => u \in spanUnits' /\ m_allocations'[u] = m_allocations[u]
    PROVE  Owns'
<1>1. ASSUME NEW u PROVE Addr(u)' = Addr(u)
  BY DEF Addr, Base, Unit
<1>2. ASSUME NEW a \in Held' PROVE \E u \in spanUnits' : Addr(u)' = a /\ m_allocations'[u] = SpanPages
  <2>1. PICK u \in spanUnits : Addr(u) = a /\ m_allocations[u] = SpanPages
    BY DEF Owns
  <2> QED BY <1>1, <2>1
<1> QED BY <1>2 DEF Owns

(* An object is taken off the free list, or put back. *)
LEMMA SizeAllocBooks ==
    ASSUME SizeShape, Books, NEW o \in sp.m_freeObjects, SizeAlloc(o)
    PROVE  Books'
<1> DEFINE F == sp.m_freeObjects
           A == sp.m_allocations
<1>1. /\ sp'.m_freeObjects = F \ {o} /\ sp'.m_allocations = A \cup {o}
      /\ sp'.m_allocatedObjects = sp.m_allocatedObjects + 1 /\ sp'.m_objectCapacity = sp.m_objectCapacity
      /\ sp'.m_pageAllocations = sp.m_pageAllocations
  BY DEF SizeAlloc, SizeShape
<1>2. /\ IsFiniteSet(F) /\ IsFiniteSet(A) /\ o \notin A /\ o \in F
      /\ sp.m_objectCapacity = Cardinality(F) + sp.m_allocatedObjects /\ sp.m_allocatedObjects = Cardinality(A)
  BY DEF Books
<1>3. /\ IsFiniteSet(F \ {o}) /\ Cardinality(F \ {o}) = Cardinality(F) - 1
      /\ IsFiniteSet(A \cup {o}) /\ Cardinality(A \cup {o}) = Cardinality(A) + 1
      /\ Cardinality(F) \in Nat /\ Cardinality(A) \in Nat
  BY <1>2, FS_AddElement, FS_RemoveElement, FS_CardinalityType
<1>4. (F \ {o}) \cap (A \cup {o}) = {} /\ (F \ {o}) \cup (A \cup {o}) = F \cup A
  BY DEF Books
<1>5. (F \ {o}) \cup (A \cup {o}) = UNION {Objects(a) : a \in sp.m_pageAllocations}
  BY <1>4 DEF Books
<1>6. /\ sp'.m_objectCapacity = Cardinality(sp'.m_freeObjects) + sp'.m_allocatedObjects
      /\ sp'.m_allocatedObjects = Cardinality(sp'.m_allocations)
  <2> DEFINE x == Cardinality(F)
             y == Cardinality(A)
             k == sp'.m_allocatedObjects
             c == sp'.m_objectCapacity
  <2> HIDE DEF x, y, k, c
  <2>1. x \in Nat /\ y \in Nat /\ k = y + 1 /\ c = x + y
    BY <1>1, <1>2, <1>3 DEF x, y, k, c
  <2>2. Cardinality(sp'.m_freeObjects) = x - 1 /\ Cardinality(sp'.m_allocations) = y + 1
    BY <1>1, <1>3 DEF x, y
  <2>3. c = (x - 1) + k
    BY <2>1
  <2> QED BY <2>1, <2>2, <2>3 DEF k, c
<1> QED BY <1>1, <1>3, <1>4, <1>5, <1>6 DEF Books

LEMMA SizeFreeBooks ==
    ASSUME SizeShape, Books, NEW o \in sp.m_allocations, SizeFree(o)
    PROVE  Books'
<1> DEFINE F == sp.m_freeObjects
           A == sp.m_allocations
<1>1. /\ sp'.m_freeObjects = F \cup {o} /\ sp'.m_allocations = A \ {o}
      /\ sp'.m_allocatedObjects = sp.m_allocatedObjects - 1 /\ sp'.m_objectCapacity = sp.m_objectCapacity
      /\ sp'.m_pageAllocations = sp.m_pageAllocations
  BY DEF SizeFree, SizeShape
<1>2. /\ IsFiniteSet(F) /\ IsFiniteSet(A) /\ o \in A /\ o \notin F
      /\ sp.m_objectCapacity = Cardinality(F) + sp.m_allocatedObjects /\ sp.m_allocatedObjects = Cardinality(A)
  BY DEF Books
<1>3. /\ IsFiniteSet(F \cup {o}) /\ Cardinality(F \cup {o}) = Cardinality(F) + 1
      /\ IsFiniteSet(A \ {o}) /\ Cardinality(A \ {o}) = Cardinality(A) - 1
      /\ Cardinality(F) \in Nat /\ Cardinality(A) \in Nat
  BY <1>2, FS_AddElement, FS_RemoveElement, FS_CardinalityType
<1>4. (F \cup {o}) \cap (A \ {o}) = {} /\ (F \cup {o}) \cup (A \ {o}) = F \cup A
  BY DEF Books
<1>5. (F \cup {o}) \cup (A \ {o}) = UNION {Objects(a) : a \in sp.m_pageAllocations}
  BY <1>4 DEF Books
<1>6. /\ sp'.m_objectCapacity = Cardinality(sp'.m_freeObjects) + sp'.m_allocatedObjects
      /\ sp'.m_allocatedObjects = Cardinality(sp'.m_allocations)
  <2> DEFINE x == Cardinality(F)
             y == Cardinality(A)
             k == sp'.m_allocatedObjects
             c == sp'.m_objectCapacity
  <2> HIDE DEF x, y, k, c
  <2>1. x \in Nat /\ y \in Nat /\ k = y - 1 /\ c = x + y
    BY <1>1, <1>2, <1>3 DEF x, y, k, c
  <2>2. Cardinality(sp'.m_freeObjects) = x + 1 /\ Cardinality(sp'.m_allocations) = y - 1
    BY <1>1, <1>3 DEF x, y
  <2>3. c = (x + 1) + k
    BY <2>1
  <2> QED BY <2>1, <2>2, <2>3 DEF k, c
<1> QED BY <1>1, <1>3, <1>4, <1>5, <1>6 DEF Books

(* A new span is cut up; its first object is handed out. *)
LEMMA SizeGrownBooks ==
    ASSUME PoolsInv, SizeFields, Owns, Books, spanUnits \subseteq DOMAIN m_allocations,
           sp.addr \notin sp.m_pageAllocations, NEW o \in Objects(sp.addr), SizeGrown(o)
    PROVE  Books'
<1> DEFINE A == sp.m_allocations
           P == sp.m_pageAllocations
           w == sp.addr
           N == Objects(w)
<1>1. SizeShape /\ MapInv /\ PoolInv /\ PoolShape
  BY DEF PoolsInv, PoolInv
<1>2. sp.pc = "grow" /\ kind = "size" /\ sp.m_freeObjects = {} /\ w # 0 /\ 0 \notin P
  BY <1>1 DEF SizeGrown, SizeShape, SizeFields
<1>3. w \in Int
  BY <1>1 DEF SizeShape
<1>4. /\ sp'.m_freeObjects = N \ {o} /\ sp'.m_allocations = A \cup {o}
      /\ sp'.m_allocatedObjects = sp.m_allocatedObjects + 1
      /\ sp'.m_objectCapacity = sp.m_objectCapacity + ObjectsPerSpan
      /\ sp'.m_pageAllocations = P \cup {w}
  BY <1>1 DEF SizeGrown, SizeShape
<1>5. A = UNION {Objects(a) : a \in P} /\ IsFiniteSet(A)
      /\ sp.m_allocatedObjects = Cardinality(A)
      /\ sp.m_objectCapacity = Cardinality({}) + sp.m_allocatedObjects
  BY <1>2 DEF Books
<1>6. IsFiniteSet(N) /\ Cardinality(N) = ObjectsPerSpan /\ ObjectsPerSpan \in Nat
  BY <1>3, ObjectCount, ObjectsTyped
<1>7. ASSUME NEW a \in P PROVE Objects(a) \cap N = {}
  <2>1. a \in Held /\ w \in Held /\ a # w
    BY <1>2 DEF Held
  <2>2. PICK u \in spanUnits : Addr(u) = a /\ m_allocations[u] = SpanPages
    BY <2>1 DEF Owns
  <2>3. PICK v \in spanUnits : Addr(v) = w /\ m_allocations[v] = SpanPages
    BY <2>1 DEF Owns
  <2>4. u \in DOMAIN m_allocations /\ v \in DOMAIN m_allocations /\ u \in Nat /\ v \in Nat
    BY <1>1 DEF PoolInv, AllocInv
  <2>5. u < v \/ v < u
    BY <2>1, <2>2, <2>3, <2>4
  <2>6. Objects(Addr(u)) \cap Objects(Addr(v)) = {}
    BY <1>1, <1>2, <2>2, <2>3, <2>4, <2>5, SpansApart
  <2> QED BY <2>2, <2>3, <2>6
<1>8. A \cap N = {}
  BY <1>5, <1>7
<1> HIDE DEF N
<1>9. o \in N
  BY DEF N
<1>10. /\ IsFiniteSet(N \ {o}) /\ Cardinality(N \ {o}) = Cardinality(N) - 1
       /\ IsFiniteSet(A \cup {o}) /\ Cardinality(A \cup {o}) = Cardinality(A) + 1
       /\ Cardinality(A) \in Nat /\ Cardinality({}) = 0
  BY <1>5, <1>6, <1>8, <1>9, FS_AddElement, FS_RemoveElement, FS_CardinalityType, FS_EmptySet
<1>11. (N \ {o}) \cap (A \cup {o}) = {} /\ (N \ {o}) \cup (A \cup {o}) = A \cup N
  BY <1>8, <1>9
<1>12. UNION {Objects(a) : a \in P \cup {w}} = A \cup N
  BY <1>5 DEF N
<1>13. /\ sp'.m_objectCapacity = Cardinality(sp'.m_freeObjects) + sp'.m_allocatedObjects
       /\ sp'.m_allocatedObjects = Cardinality(sp'.m_allocations)
  <2> DEFINE y == Cardinality(A)
             n == ObjectsPerSpan
             k == sp'.m_allocatedObjects
             c == sp'.m_objectCapacity
  <2> HIDE DEF y, n, k, c
  <2>1. y \in Nat /\ n \in Nat /\ k = y + 1 /\ c = 0 + y + n
    BY <1>4, <1>5, <1>6, <1>10 DEF y, n, k, c
  <2>2. Cardinality(sp'.m_freeObjects) = n - 1 /\ Cardinality(sp'.m_allocations) = y + 1
    BY <1>4, <1>6, <1>10 DEF y, n
  <2>3. c = (n - 1) + k
    BY <2>1
  <2> QED BY <2>1, <2>2, <2>3 DEF k, c
<1> QED BY <1>4, <1>10, <1>11, <1>12, <1>13 DEF Books

SpanSound == Owns /\ Books /\ (sp.pc = "grow" => sp.addr \notin sp.m_pageAllocations)

(* The page pool, or the owner of the mapping, moves; the size pool does not. *)
LEMMA OthersStep ==
    ASSUME SizeShape, SpanSound, sp' = sp, m_addr' = m_addr, kind' = kind, ext' = ext,
           spanUnits' = DOMAIN m_allocations' \cap spanUnits,
           \A u \in spanUnits : u \in DOMAIN m_allocations' /\ m_allocations'[u] = m_allocations[u]
    PROVE  SpanSound'
<1>1. Held' = Held
  BY DEF Held
<1>2. Owns'
  BY <1>1, OwnsKept DEF SpanSound
<1>3. Books'
  BY DEF SpanSound, Books
<1> QED BY <1>2, <1>3 DEF SpanSound

LEMMA SizeGrowSound ==
    ASSUME PoolsInv, SizeFields, SpanSound, SizeGrow, spanUnits \subseteq DOMAIN m_allocations,
           m_addr' = m_addr, kind' = kind, ext' = ext,
           spanUnits' = DOMAIN m_allocations' \cap
                            (IF sp.pc = "idle" /\ sp'.pc = "grow"
                             THEN spanUnits \cup (DOMAIN m_allocations' \ DOMAIN m_allocations) ELSE spanUnits)
    PROVE  SpanSound'
<1>1. SizeShape /\ MapInv /\ PoolInv /\ PoolShape
  BY DEF PoolsInv, PoolInv
<1>2. PICK f \in Nat :
          /\ f \notin DOMAIN m_allocations /\ Addr(f) \in Int /\ Addr(f) > 0
          /\ sp' = [sp EXCEPT !.pc = "grow", !.addr = Addr(f)]
          /\ m_allocations' = [u \in DOMAIN m_allocations \cup {f} |->
                                   IF u = f THEN SpanPages ELSE m_allocations[u]]
  BY <1>1, GrowPlace
<1>3. /\ sp'.pc = "grow" /\ sp'.addr = Addr(f) /\ sp'.m_pageAllocations = sp.m_pageAllocations
      /\ sp'.m_freeObjects = sp.m_freeObjects /\ sp'.m_allocations = sp.m_allocations
      /\ sp'.m_objectCapacity = sp.m_objectCapacity /\ sp'.m_allocatedObjects = sp.m_allocatedObjects
  BY <1>1, <1>2 DEF SizeShape
<1>4. sp.pc = "idle"
  BY DEF SizeGrow
<1>5. spanUnits' = spanUnits \cup {f}
  <2>1. DOMAIN m_allocations' = DOMAIN m_allocations \cup {f}
    BY <1>2
  <2> QED BY <1>2, <1>3, <1>4, <2>1
<1>6. m_allocations'[f] = SpanPages /\ \A u \in spanUnits : m_allocations'[u] = m_allocations[u]
  BY <1>2
<1>7. \A a \in sp.m_pageAllocations : \E u \in spanUnits : Addr(u) = a /\ m_allocations[u] = SpanPages
  BY DEF SpanSound, Owns, Held, SizeFields
<1>8. ASSUME NEW u PROVE Addr(u)' = Addr(u)
  BY DEF Addr, Base, Unit
<1>9. Owns'
  <2> SUFFICES ASSUME NEW a \in Held'
               PROVE  \E u \in spanUnits' : Addr(u)' = a /\ m_allocations'[u] = SpanPages
    BY DEF Owns
  <2>1. a \in sp.m_pageAllocations \/ a = Addr(f)
    BY <1>3 DEF Held
  <2>2. CASE a \in sp.m_pageAllocations
    BY <1>5, <1>6, <1>7, <1>8, <2>2
  <2>3. CASE a = Addr(f)
    BY <1>5, <1>6, <1>8, <2>3
  <2> QED BY <2>1, <2>2, <2>3
<1>10. Addr(f) \notin sp.m_pageAllocations
  <2> SUFFICES ASSUME Addr(f) \in sp.m_pageAllocations PROVE FALSE
    OBVIOUS
  <2>1. PICK u \in spanUnits : Addr(u) = Addr(f)
    BY <1>7
  <2>2. u \in DOMAIN m_allocations /\ u \in Int /\ f \in Int
    BY <1>1 DEF PoolInv, AllocInv
  <2>3. u = f
    BY <1>1, <2>1, <2>2, AddrOnce
  <2> QED BY <1>2, <2>2, <2>3
<1>11. Books'
  BY <1>3 DEF SpanSound, Books
<1> QED BY <1>3, <1>9, <1>10, <1>11 DEF SpanSound

LEMMA SizeGrowThrowsSound ==
    ASSUME PoolsInv, SizeFields, SpanSound, SizeGrowThrows, spanUnits \subseteq DOMAIN m_allocations,
           m_addr' = m_addr, kind' = kind, ext' = ext,
           spanUnits' = DOMAIN m_allocations' \cap spanUnits
    PROVE  SpanSound'
<1>1. SizeShape /\ MapInv /\ PoolInv /\ PoolShape
  BY DEF PoolsInv, PoolInv
<1>2. sp.pc = "grow" /\ sp' = [sp EXCEPT !.pc = "idle", !.addr = 0]
  BY DEF SizeGrowThrows
<1>3. /\ sp'.pc = "idle" /\ sp'.addr = 0 /\ sp'.m_pageAllocations = sp.m_pageAllocations
      /\ sp'.m_freeObjects = sp.m_freeObjects /\ sp'.m_allocations = sp.m_allocations
      /\ sp'.m_objectCapacity = sp.m_objectCapacity /\ sp'.m_allocatedObjects = sp.m_allocatedObjects
  BY <1>1, <1>2 DEF SizeShape
<1>4. sp.addr \notin sp.m_pageAllocations /\ 0 \notin sp.m_pageAllocations /\ sp.addr # 0 /\ sp.addr \in Int
  BY <1>1, <1>2 DEF SpanSound, SizeFields, SizeShape
<1>5. Held' = sp.m_pageAllocations /\ Held' \subseteq Held
  BY <1>3, <1>4 DEF Held
<1>6. ASSUME NEW u \in spanUnits, Addr(u) \in Held'
      PROVE  u \in DOMAIN m_allocations' /\ m_allocations'[u] = m_allocations[u]
  <2> DEFINE v == (sp.addr - Base) \div Unit
  <2>1. u \in DOMAIN m_allocations
    OBVIOUS
  <2>2. CASE Freeable(sp.addr)
    <3>1. (sp.addr - Base) % Unit = 0
          /\ m_allocations' = [x \in DOMAIN m_allocations \ {v} |-> m_allocations[x]]
      BY <2>2 DEF SizeGrowThrows, Freeable, GiveBack
    <3> DEFINE d == sp.addr - Base
    <3>2. Base \in Nat /\ d \in Int /\ sp.addr = Base + d /\ d % Unit = 0
      BY <1>1, <1>4, <3>1, PlaceTyped
    <3>3. v = d \div Unit
      OBVIOUS
    <3> HIDE DEF d, v
    <3>4. d = Unit * v /\ v \in Int
      <4>1. d = Unit * (d \div Unit)
        BY <3>2, UnitPositive, Multiple
      <4>2. d \div Unit \in Int
        BY <3>2, UnitPositive, Division
      <4> QED BY <3>3, <4>1, <4>2
    <3>5. Addr(v) = sp.addr
      <4>1. Addr(v) = Base + Unit * v
        BY <1>1, <3>4, PlaceTyped
      <4> QED BY <3>2, <3>4, <4>1
    <3>6. u # v
      BY <1>4, <1>5, <1>6, <3>5
    <3> QED BY <2>1, <3>1, <3>6
  <2>3. CASE ~Freeable(sp.addr)
    BY <2>1, <2>3 DEF SizeGrowThrows, poolVars
  <2> QED BY <2>2, <2>3
<1>7. Owns'
  <2>1. \A u \in spanUnits : Addr(u) \in Held' => u \in spanUnits' /\ m_allocations'[u] = m_allocations[u]
    BY <1>6
  <2> QED BY <1>5, <2>1, OwnsKept DEF SpanSound
<1>8. Books'
  BY <1>3 DEF SpanSound, Books
<1> QED BY <1>3, <1>7, <1>8 DEF SpanSound

LEMMA SizeStep ==
    ASSUME PoolsInv, SizeInv, Next
    PROVE  SizeInv'
<1>1. SizeShape /\ MapInv /\ PoolInv /\ PoolShape /\ SizeFields /\ spanUnits \subseteq DOMAIN m_allocations
  BY DEF PoolsInv, PoolInv, SizeInv
<1>2. /\ kind' = kind /\ ext' = ext
      /\ spanUnits' = DOMAIN m_allocations' \cap
                        (IF sp.pc = "idle" /\ sp'.pc = "grow"
                         THEN spanUnits \cup (DOMAIN m_allocations' \ DOMAIN m_allocations) ELSE spanUnits)
      /\ pulled' = (HasSpans' /\ (pulled \/ ~ExtentMapped' \/ m_addr' # m_addr))
  BY DEF Next
<1>3. SizeFields'
  <2>1. CASE PoolNext
    BY <1>1, <1>2, <2>1, SizeFieldsStep
  <2>2. CASE sp' = sp
    BY <1>1, <1>2, <2>2 DEF SizeFields, HasSpans
  <2> QED BY <2>1, <2>2 DEF Next
<1>4. spanUnits' \subseteq DOMAIN m_allocations' /\ (pulled' => HasSpans')
  BY <1>2
<1>5. ASSUME ~pulled', sp'.pc # "clear" PROVE SpanSound'
  <2>1. CASE ~HasSpans'
    <3>1. (SizeFields /\ ~HasSpans => Owns /\ Books /\ (sp.pc = "grow" => sp.addr \notin sp.m_pageAllocations))'
      BY NoSpans, PTL
    <3> QED BY <1>3, <2>1, <3>1 DEF SpanSound
  <2>2. ASSUME HasSpans' PROVE SpanSound'
    <3>1. ~pulled /\ m_addr' = m_addr
      BY <1>2, <1>5, <2>2
    <3>2. sp.pc # "clear" => SpanSound
      BY <3>1 DEF SizeInv, SpanSound
    <3>3. ASSUME sp' = sp,
                 \A u \in spanUnits : u \in DOMAIN m_allocations' /\ m_allocations'[u] = m_allocations[u]
          PROVE  SpanSound'
      <4>1. spanUnits' = DOMAIN m_allocations' \cap spanUnits /\ SpanSound
        BY <1>2, <1>5, <3>2, <3>3
      <4> QED BY <1>1, <1>2, <3>1, <3>3, <4>1, OthersStep
    <3>4. CASE m_allocations' = m_allocations /\ sp' = sp
      BY <1>1, <3>3, <3>4
    <3>5. ASSUME NEW n, NEW a, Alloc(n, a) PROVE SpanSound'
      <4>1. sp' = sp /\ \E f : /\ f \notin DOMAIN m_allocations
                               /\ m_allocations' = [u \in DOMAIN m_allocations \cup {f} |->
                                      IF u = f THEN PagesForSize(n) ELSE m_allocations[u]]
        BY <3>5 DEF Alloc, Take
      <4>2. \A u \in spanUnits : u \in DOMAIN m_allocations' /\ m_allocations'[u] = m_allocations[u]
        BY <1>1, <4>1
      <4> QED BY <3>3, <4>1, <4>2
    <3>6. ASSUME NEW v \in DOMAIN m_allocations, Free(v) PROVE SpanSound'
      <4>1. sp' = sp /\ v \notin spanUnits /\ GiveBack(Addr(v))
        BY <3>6 DEF Free
      <4>2. (Addr(v) - Base) \div Unit = v
        <5>1. v \in Int
          BY <1>1 DEF PoolInv, AllocInv
        <5>2. Addr(v) = Base + Unit * v /\ Base \in Nat /\ Unit * v \in Int
          <6>1. Unit * v \in Int
            BY <5>1, UnitPositive, Monotone
          <6> QED BY <1>1, <5>1, <6>1, PlaceTyped
        <5>3. Addr(v) - Base = Unit * v
          BY <5>2
        <5>4. (Unit * v) \div Unit = v
          BY <5>1, UnitPositive, Multiple
        <5> QED BY <5>3, <5>4
      <4>3. m_allocations' = [x \in DOMAIN m_allocations \ {v} |-> m_allocations[x]]
        BY <4>1, <4>2 DEF GiveBack
      <4>4. \A u \in spanUnits : u \in DOMAIN m_allocations' /\ m_allocations'[u] = m_allocations[u]
        BY <1>1, <4>1, <4>3
      <4> QED BY <3>3, <4>1, <4>4
    <3>7. CASE Clear
      BY <2>2, <3>7 DEF Clear, HasSpans
    <3>8. ASSUME NEW n, NEW a, ArenaAlloc(n, a) PROVE SpanSound'
      BY <1>3, <1>2, <2>2, <3>8 DEF ArenaAlloc, SizeFields
    <3>9. CASE ArenaClear
      BY <1>3, <1>2, <2>2, <3>9 DEF ArenaClear, SizeFields
    <3>10. ASSUME NEW o \in sp.m_freeObjects, SizeAlloc(o) PROVE SpanSound'
      <4>1. /\ sp'.pc = "idle" /\ sp.pc = "idle" /\ sp'.addr = sp.addr
            /\ sp'.m_pageAllocations = sp.m_pageAllocations /\ m_allocations' = m_allocations
        BY <1>1, <3>10 DEF SizeAlloc, SizeShape, poolVars
      <4>2. Books' /\ Owns /\ Held' = Held
        BY <1>1, <3>2, <3>10, <4>1, SizeAllocBooks DEF SpanSound, Held
      <4>3. \A u \in spanUnits : u \in spanUnits' /\ m_allocations'[u] = m_allocations[u]
        BY <1>1, <1>2, <4>1
      <4>4. Owns'
        BY <1>2, <3>1, <4>2, <4>3, OwnsKept
      <4> QED BY <4>1, <4>2, <4>4 DEF SpanSound
    <3>11. ASSUME NEW o \in sp.m_allocations, SizeFree(o) PROVE SpanSound'
      <4>1. /\ sp'.pc = "idle" /\ sp.pc = "idle" /\ sp'.addr = sp.addr
            /\ sp'.m_pageAllocations = sp.m_pageAllocations /\ m_allocations' = m_allocations
        BY <1>1, <3>11 DEF SizeFree, SizeShape, poolVars
      <4>2. Books' /\ Owns /\ Held' = Held
        BY <1>1, <3>2, <3>11, <4>1, SizeFreeBooks DEF SpanSound, Held
      <4>3. \A u \in spanUnits : u \in spanUnits' /\ m_allocations'[u] = m_allocations[u]
        BY <1>1, <1>2, <4>1
      <4>4. Owns'
        BY <1>2, <3>1, <4>2, <4>3, OwnsKept
      <4> QED BY <4>1, <4>2, <4>4 DEF SpanSound
    <3>12. ASSUME NEW o \in Objects(sp.addr), SizeGrown(o) PROVE SpanSound'
      <4>1. /\ sp'.pc = "idle" /\ sp.pc = "grow" /\ sp'.addr = 0
            /\ sp'.m_pageAllocations = sp.m_pageAllocations \cup {sp.addr} /\ m_allocations' = m_allocations
        BY <1>1, <3>12 DEF SizeGrown, SizeShape, poolVars
      <4>2. SpanSound
        BY <3>2, <4>1
      <4>3. Books'
        BY <1>1, <3>12, <4>1, <4>2, SizeGrownBooks DEF SpanSound
      <4>4. Held' = Held
        BY <4>1 DEF Held
      <4>5. \A u \in spanUnits : u \in spanUnits' /\ m_allocations'[u] = m_allocations[u]
        BY <1>1, <1>2, <4>1
      <4>6. Owns'
        BY <1>2, <3>1, <4>2, <4>4, <4>5, OwnsKept DEF SpanSound
      <4> QED BY <4>1, <4>3, <4>6 DEF SpanSound
    <3>13. CASE SizeGrow
      <4>1. SpanSound
        BY <3>2, <3>13 DEF SizeGrow
      <4> QED BY <1>1, <1>2, <3>1, <3>13, <4>1, SizeGrowSound
    <3>14. CASE SizeGrowThrows
      <4>1. SpanSound /\ spanUnits' = DOMAIN m_allocations' \cap spanUnits
        BY <1>2, <3>2, <3>14 DEF SizeGrowThrows
      <4> QED BY <1>1, <1>2, <3>1, <3>14, <4>1, SizeGrowThrowsSound
    <3>15. CASE SizeClear
      <4>1. sp' = [sp EXCEPT !.pc = "clear", !.todo = sp.m_pageAllocations]
        BY <3>15 DEF SizeClear
      <4>2. sp'.pc = "clear"
        BY <1>1, <4>1 DEF SizeShape
      <4> QED BY <1>5, <4>2
    <3>16. CASE SizeCleared
      BY <2>2, <3>16 DEF SizeCleared, EmptySizePool, HasSpans
    <3>17. ASSUME NEW a \in sp.todo, SizeClearSpan(a) PROVE SpanSound'
      <4>1. sp.pc = "clear" /\ sp' = [sp EXCEPT !.todo = @ \ {a}]
        BY <3>17 DEF SizeClearSpan
      <4>2. sp'.pc = "clear"
        BY <1>1, <4>1 DEF SizeShape
      <4> QED BY <1>5, <4>2
    <3>18. CASE PoolNext
      BY <3>5, <3>6, <3>7, <3>8, <3>9, <3>10, <3>11, <3>12, <3>13, <3>14, <3>15, <3>16, <3>17, <3>18
         DEF PoolNext
    <3>19. CASE UNCHANGED <<poolVars, arenaVars, sp>>
      BY <3>4, <3>19 DEF poolVars
    <3> QED BY <3>18, <3>19 DEF Next
  <2> QED BY <2>1, <2>2
<1> QED BY <1>3, <1>4, <1>5 DEF SizeInv, SpanSound

(* While nobody unmaps, moves or grows the memory under it, a size pool owns *)
(* its spans in the page pool, and each object of a span is either on the    *)
(* free list or handed out, once, with both counters exact: not even an      *)
(* alloc() that throws after its span was taken leaves a trace               *)
(* (job_size_pool.cpp, job_page_pool.cpp).                                   *)
THEOREM ObjectsAccountedFor == Spec => []SizePoolSound
<1>1. Init => PoolsInv /\ SizeInv
  <2> SUFFICES ASSUME Init PROVE PoolsInv /\ SizeInv
    OBVIOUS
  <2>1. sp = EmptySizePool /\ spanUnits = {} /\ pulled = FALSE
    BY DEF Init
  <2>2. SizeFields /\ ~HasSpans
    BY <2>1 DEF SizeFields, HasSpans, EmptySizePool
  <2>3. Owns /\ Books /\ (sp.pc = "grow" => sp.addr \notin sp.m_pageAllocations)
    BY <2>2, NoSpans
  <2> QED BY <2>1, <2>2, <2>3, MapStarts, PoolStarts DEF PoolsInv, SizeInv
<1>2. PoolsInv /\ SizeInv /\ [Next]_vars => SizeInv'
  <2> SUFFICES ASSUME PoolsInv, SizeInv, [Next]_vars PROVE SizeInv'
    OBVIOUS
  <2>1. CASE UNCHANGED vars
    <3>1. UNCHANGED <<sp, spanUnits, pulled, m_allocations, m_addr, kind, ext>>
      BY <2>1 DEF vars, poolVars, mmapVars, mapVars
    <3> QED BY <3>1 DEF SizeInv, SizeFields, HasSpans, Owns, Held, Addr, Base, Unit, Books
  <2> QED BY <2>1, SizeStep
<1>3. PoolsInv /\ SizeInv => SizePoolSound
  <2> SUFFICES ASSUME SizeInv, ~pulled, sp.pc # "clear"
               PROVE  /\ \A a \in (sp.m_pageAllocations \cup {sp.addr}) \ {0} :
                            \E u \in DOMAIN m_allocations : Addr(u) = a /\ m_allocations[u] = SpanPages
                      /\ sp.m_freeObjects \cap sp.m_allocations = {}
                      /\ sp.m_freeObjects \cup sp.m_allocations = UNION {Objects(a) : a \in sp.m_pageAllocations}
                      /\ sp.m_objectCapacity = Cardinality(sp.m_freeObjects) + sp.m_allocatedObjects
                      /\ sp.m_allocatedObjects = Cardinality(sp.m_allocations)
    BY DEF SizePoolSound
  <2>1. Owns /\ Books /\ spanUnits \subseteq DOMAIN m_allocations
    BY DEF SizeInv
  <2>2. \A a \in (sp.m_pageAllocations \cup {sp.addr}) \ {0} :
            \E u \in DOMAIN m_allocations : Addr(u) = a /\ m_allocations[u] = SpanPages
    BY <2>1 DEF Owns, Held
  <2> QED BY <2>1, <2>2 DEF Books
<1> QED
  BY <1>1, <1>2, <1>3, PoolsAlways, PTL DEF Spec

=============================================================================
