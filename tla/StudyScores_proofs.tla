--------------------------- MODULE StudyScores_proofs --------------------------
(***************************************************************************)
(* What the scores of the study are made of: sums, ratios, the common part *)
(* of two lists, a matching of facts and predictions, and the reference of *)
(* an application, for every list, application and scan.                   *)
(***************************************************************************)
EXTENDS Study, TLAPS, FiniteSetTheorems, WellFoundedInduction

-----------------------------------------------------------------------------
(* Numbers                                                                 *)

\* A set of naturals that is not empty has a least element.
LEMMA LeastExists ==
  ASSUME NEW S \in SUBSET Nat, S # {}
  PROVE  \E i \in S : \A j \in S : i <= j
  <1> DEFINE R == {ss \in Nat \X Nat : ss[1] < ss[2]}
  <1>1. IsWellFoundedOn(R, Nat)
    BY NatLessThanWellFounded, Zenon DEF OpToRel
  <1>2. \A i, j \in Nat : <<j, i>> \notin R => i <= j
    OBVIOUS
  <1>3. \E i \in S : \A j \in S : <<j, i>> \notin R
    <2> HIDE DEF R
    <2> QED BY <1>1, WFMin, Zenon
  <1> HIDE DEF R
  <1> QED BY <1>2, <1>3

\* What holds of 0 and of k whenever it holds of k - 1 holds up to n: the set is of those for
\* which it holds.
LEMMA Steps0 ==
  ASSUME NEW n \in Nat, NEW S, 0 \in S, \A k \in 1..n : k - 1 \in S => k \in S
  PROVE  0..n \subseteq S
  <1> SUFFICES ASSUME ~(0..n \subseteq S)
               PROVE  FALSE
    OBVIOUS
  <1> DEFINE B == (0..n) \ S
  <1>1. PICK m \in B : \A j \in B : m <= j
    <2>1. B \in SUBSET Nat /\ B # {}
      OBVIOUS
    <2> HIDE DEF B
    <2> QED BY <2>1, LeastExists
  <1>2. m \in 1..n /\ m - 1 \notin B
    BY <1>1
  <1> QED BY <1>1, <1>2

\* The sums of the first k numbers of a list.
PartialSums(list, n, f) ==
  /\ DOMAIN f = 0..n /\ f[0] = 0
  /\ \A k \in 1..n : f[k] = f[k - 1] + list[k]

LEMMA SumIsPartial ==
  ASSUME NEW n \in Nat, NEW list, Len(list) = n
  PROVE  \E f : PartialSums(list, n, f) /\ Sum(list) = f[n]
  <1> DEFINE Partly(f, m) == f = [k \in 0..m |-> IF k = 0 THEN 0 ELSE f[k - 1] + list[k]]
             S == {m \in 0..n : \E f : Partly(f, m)}
  <1>1. 0 \in S
    <2>1. Partly([k \in 0..0 |-> 0], 0)
      OBVIOUS
    <2> HIDE DEF Partly
    <2> QED BY <2>1
  <1>2. ASSUME NEW m \in 1..n, m - 1 \in S
        PROVE  m \in S
    <2>1. PICK f : Partly(f, m - 1)
      BY <1>2
    <2> DEFINE g == [k \in 0..m |-> IF k = m THEN f[m - 1] + list[m] ELSE f[k]]
    <2>2. ASSUME NEW k \in 0..m
          PROVE  g[k] = IF k = 0 THEN 0 ELSE g[k - 1] + list[k]
      <3>1. CASE k = m
        <4>1. m - 1 \in 0..m /\ m - 1 # m
          OBVIOUS
        <4> QED BY <3>1, <4>1
      <3>2. CASE k # m
        <4>1. k \in 0..(m - 1)
          BY <3>2
        <4>2. f[k] = IF k = 0 THEN 0 ELSE f[k - 1] + list[k]
          BY <2>1, <4>1
        <4>3. k # 0 => k - 1 \in 0..m /\ k - 1 # m
          BY <4>1
        <4> QED BY <3>2, <4>2, <4>3
      <3> QED BY <3>1, <3>2
    <2>3. DOMAIN g = 0..m /\ g = [k \in DOMAIN g |-> g[k]]
      OBVIOUS
    <2> HIDE DEF g
    <2>4. Partly(g, m)
      BY <2>2, <2>3
    <2> HIDE DEF Partly
    <2> QED BY <2>4
  <1>3. n \in S
    <2> HIDE DEF S
    <2>1. 0..n \subseteq S
      BY <1>1, <1>2, Steps0
    <2> QED BY <2>1
  <1> DEFINE f == CHOOSE f : Partly(f, n)
  <1>4. Partly(f, n)
    <2>1. \E g : Partly(g, n)
      BY <1>3
    <2> HIDE DEF Partly
    <2> QED BY <2>1
  <1>5. Sum(list) = f[n]
    BY DEF Sum
  <1> HIDE DEF f
  <1>6. PartialSums(list, n, f)
    BY <1>4 DEF PartialSums
  <1> QED BY <1>5, <1>6

\* A sum of naturals is one.
LEMMA SumType ==
  ASSUME NEW n \in Nat, NEW list, Len(list) = n, \A k \in 1..n : list[k] \in Nat
  PROVE  Sum(list) \in Nat
  <1>1. PICK f : PartialSums(list, n, f) /\ Sum(list) = f[n]
    BY SumIsPartial
  <1> DEFINE S == {k \in 0..n : f[k] \in Nat}
  <1>2. 0 \in S /\ \A k \in 1..n : k - 1 \in S => k \in S
    BY <1>1 DEF PartialSums
  <1> HIDE DEF S
  <1>3. 0..n \subseteq S
    BY <1>2, Steps0
  <1>4. n \in S
    BY <1>3
  <1> QED BY <1>1, <1>4 DEF S

\* Entry by entry, a sum grows with its entries, strictly when one of them does.
LEMMA SumMonotone ==
  ASSUME NEW n \in Nat, NEW a, NEW b, Len(a) = n, Len(b) = n,
         \A k \in 1..n : a[k] \in Nat /\ b[k] \in Nat /\ a[k] <= b[k]
  PROVE  /\ Sum(a) <= Sum(b)
         /\ (\E k \in 1..n : a[k] < b[k]) => Sum(a) < Sum(b)
  <1>1. PICK f : PartialSums(a, n, f) /\ Sum(a) = f[n]
    BY SumIsPartial
  <1>2. PICK g : PartialSums(b, n, g) /\ Sum(b) = g[n]
    BY SumIsPartial
  <1> DEFINE S == {k \in 0..n : /\ f[k] \in Nat /\ g[k] \in Nat /\ f[k] <= g[k]
                                /\ (\E j \in 1..k : a[j] < b[j]) => f[k] < g[k]}
  <1>3. 0 \in S
    BY <1>1, <1>2 DEF PartialSums
  <1>4. ASSUME NEW k \in 1..n, k - 1 \in S
        PROVE  k \in S
    <2>1. /\ f[k - 1] \in Nat /\ g[k - 1] \in Nat /\ f[k - 1] <= g[k - 1]
          /\ (\E j \in 1..(k - 1) : a[j] < b[j]) => f[k - 1] < g[k - 1]
      BY <1>4
    <2>2. f[k] = f[k - 1] + a[k] /\ g[k] = g[k - 1] + b[k] /\ a[k] \in Nat /\ b[k] \in Nat
          /\ a[k] <= b[k]
      BY <1>1, <1>2 DEF PartialSums
    <2>3. f[k] \in Nat /\ g[k] \in Nat /\ f[k] <= g[k]
      <3>1. \A u, v, x, y \in Nat : u <= v /\ x <= y =>
              u + x \in Nat /\ v + y \in Nat /\ u + x <= v + y
        OBVIOUS
      <3>2. /\ f[k - 1] + a[k] \in Nat /\ g[k - 1] + b[k] \in Nat
            /\ f[k - 1] + a[k] <= g[k - 1] + b[k]
        <4> QED BY ONLY <2>1, <2>2, <3>1
      <3> QED BY ONLY <2>2, <3>2
    <2>4. ASSUME NEW j \in 1..k, a[j] < b[j]
          PROVE  f[k] < g[k]
      <3>1. CASE j = k
        BY <2>1, <2>2, <2>4, <3>1
      <3>2. CASE j # k
        <4>1. j \in 1..(k - 1)
          BY <3>2
        <4> QED BY <2>1, <2>2, <2>4, <4>1
      <3> QED BY <3>1, <3>2
    <2> QED BY <2>3, <2>4
  <1> HIDE DEF S
  <1>5. 0..n \subseteq S
    BY <1>3, <1>4, Steps0
  <1>6. n \in S
    BY <1>5
  <1> QED BY <1>1, <1>2, <1>6 DEF S

\* Sums of lists that add up do.
LEMMA SumAdds ==
  ASSUME NEW n \in Nat, NEW a, NEW b, NEW c, Len(a) = n, Len(b) = n, Len(c) = n,
         \A k \in 1..n : a[k] \in Nat /\ b[k] \in Nat /\ c[k] = a[k] + b[k]
  PROVE  Sum(c) = Sum(a) + Sum(b)
  <1>1. PICK f : PartialSums(a, n, f) /\ Sum(a) = f[n]
    BY SumIsPartial
  <1>2. PICK g : PartialSums(b, n, g) /\ Sum(b) = g[n]
    BY SumIsPartial
  <1>3. PICK h : PartialSums(c, n, h) /\ Sum(c) = h[n]
    BY SumIsPartial
  <1> DEFINE S == {k \in 0..n : f[k] \in Nat /\ g[k] \in Nat /\ h[k] = f[k] + g[k]}
  <1>4. 0 \in S
    BY <1>1, <1>2, <1>3 DEF PartialSums
  <1>5. ASSUME NEW k \in 1..n, k - 1 \in S
        PROVE  k \in S
    <2>1. f[k - 1] \in Nat /\ g[k - 1] \in Nat /\ h[k - 1] = f[k - 1] + g[k - 1]
      BY <1>5
    <2>2. /\ f[k] = f[k - 1] + a[k] /\ g[k] = g[k - 1] + b[k] /\ h[k] = h[k - 1] + c[k]
          /\ a[k] \in Nat /\ b[k] \in Nat /\ c[k] = a[k] + b[k]
      BY <1>1, <1>2, <1>3 DEF PartialSums
    <2>3. \A u, v, x, y \in Nat : /\ u + x \in Nat /\ v + y \in Nat
                                  /\ (u + v) + (x + y) = (u + x) + (v + y)
      OBVIOUS
    <2>4. /\ f[k - 1] + a[k] \in Nat /\ g[k - 1] + b[k] \in Nat
          /\ (f[k - 1] + g[k - 1]) + (a[k] + b[k]) = (f[k - 1] + a[k]) + (g[k - 1] + b[k])
      BY ONLY <2>1, <2>2, <2>3
    <2>5. f[k] \in Nat /\ g[k] \in Nat /\ h[k] = f[k] + g[k]
      BY ONLY <2>1, <2>2, <2>4
    <2> QED BY <2>5
  <1> HIDE DEF S
  <1>6. 0..n \subseteq S
    BY <1>4, <1>5, Steps0
  <1>7. n \in S
    BY <1>6
  <1> QED BY <1>1, <1>2, <1>3, <1>7 DEF S

\* A ratio of four digits differs from the quotient by half of the last digit at most, and the
\* quotient of 10000 is what it is.
LEMMA RatioIsNear ==
  ASSUME NEW num \in Nat, NEW den \in Nat, den # 0
  PROVE  /\ Ratio(num, den) \in Nat
         /\ (2 * den) * Ratio(num, den) <= 20000 * num + den
         /\ 20000 * num <= (2 * den) * Ratio(num, den) + den
         /\ den = 10000 => Ratio(num, den) = num
  <1> DEFINE x == 10000 * num
             q == x \div den
             r == x % den
             up == 2 * r > den \/ (2 * r = den /\ q % 2 = 1)
  <1>1. Ratio(num, den) = IF up THEN q + 1 ELSE q
    BY DEF Ratio
  <1>2. x \in Nat /\ q \in Nat /\ r \in Nat /\ x = den * q + r /\ r < den
    <2>1. ASSUME NEW y \in Nat
          PROVE  /\ y \div den \in Nat /\ y % den \in Nat
                 /\ y = den * (y \div den) + (y % den) /\ (y % den) < den
      OBVIOUS
    <2>2. x \in Nat
      OBVIOUS
    <2> QED BY <2>1, <2>2
  <1>3. up => 2 * r >= den
    BY <1>2
  <1>4. ~up => 2 * r <= den
    BY <1>2
  <1>5. den = 10000 => q = num /\ r = 0
    BY <1>2
  <1>6. 20000 * num = 2 * x
    OBVIOUS
  <1> HIDE DEF x, q, r
  <1>7. (2 * den) * q = 2 * (den * q) /\ (2 * den) * (q + 1) = 2 * (den * q) + 2 * den
        /\ den * q \in Nat
    BY <1>2
  <1>8. CASE up
    <2>1. den # 10000
      BY <1>3, <1>5, <1>8
    <2>2. Ratio(num, den) = q + 1
      BY <1>1, <1>8
    <2> HIDE DEF up
    <2> QED BY <1>2, <1>3, <1>6, <1>7, <1>8, <2>1, <2>2
  <1>9. CASE ~up
    <2>1. Ratio(num, den) = q
      BY <1>1, <1>9
    <2> HIDE DEF up
    <2> QED BY <1>2, <1>4, <1>5, <1>6, <1>7, <1>9, <2>1
  <1> QED BY <1>8, <1>9

\* A ratio of four digits falls when what is counted falls and what it is counted of does not,
\* as long as that is 10000 at most.
LEMMA RatioFalls ==
  ASSUME NEW a \in Nat, NEW d \in Nat, NEW b \in Nat, NEW e \in Nat,
         b < a, a <= d, d <= e, d <= 10000
  PROVE  /\ Ratio(a, d) \in Nat /\ Ratio(b, e) \in Nat
         /\ Ratio(b, e) < Ratio(a, d)
  <1> DEFINE q == Ratio(a, d)
             r == Ratio(b, e)
  <1>1. d # 0 /\ e # 0
    OBVIOUS
  <1>2. q \in Nat /\ 20000 * a <= (2 * d) * q + d /\ (d = 10000 => q = a)
    BY <1>1, RatioIsNear
  <1>3. r \in Nat /\ (2 * e) * r <= 20000 * b + e
    BY <1>1, RatioIsNear
  <1> HIDE DEF q, r
  <1>4. ASSUME r >= q
        PROVE  FALSE
    <2>1. CASE r = 0
      <3>1. q = 0
        BY <1>2, <1>3, <1>4, <2>1
      <3>2. 20000 * a <= d
        BY <1>2, <3>1
      <3> QED BY <3>2
    <2>2. CASE r # 0
      <3>1. 2 * r - 1 \in Nat
        BY <1>3, <2>2
      <3>2. d * (2 * r - 1) <= e * (2 * r - 1)
        BY <3>1
      <3>3. e * (2 * r - 1) = (2 * e) * r - e /\ d * (2 * r - 1) = (2 * d) * r - d
        BY <1>3
      <3>4. (2 * d) * r <= 20000 * a - 20000 + d
        <4>1. (2 * d) * r \in Nat /\ (2 * e) * r \in Nat
          BY <1>3
        <4> QED BY <1>3, <3>2, <3>3, <4>1
      <3>5. (2 * d) * q <= (2 * d) * r
        BY <1>2, <1>3, <1>4
      <3>6. (2 * d) * q <= 20000 * a - 20000 + d /\ (2 * d) * q \in Nat
        <4>1. (2 * d) * q \in Nat /\ (2 * d) * r \in Nat
          BY <1>2, <1>3
        <4> QED BY <3>4, <3>5, <4>1
      <3>7. d >= 10000
        BY <1>2, <3>6
      <3>8. d = 10000 /\ q = a
        BY <1>2, <3>7
      <3> QED BY <3>6, <3>8
    <2> QED BY <2>1, <2>2
  <1> QED BY <1>2, <1>3, <1>4 DEF q, r

\* A ratio that reaches a share.
LEMMA RatioReaches ==
  ASSUME NEW a \in Nat, NEW d \in Nat, NEW share \in Nat,
         Ratio(a, d) # None, Ratio(a, d) >= share
  PROVE  20000 * a + d >= 2 * share * d
  <1> DEFINE q == Ratio(a, d)
  <1>1. d # 0
    BY DEF Ratio
  <1>2. q \in Nat /\ (2 * d) * q <= 20000 * a + d
    BY <1>1, RatioIsNear
  <1> HIDE DEF q
  <1>3. (2 * d) * share <= (2 * d) * q
    BY <1>1, <1>2 DEF q
  <1>4. (2 * d) * share = 2 * share * d
    OBVIOUS
  <1> QED BY <1>2, <1>3, <1>4

-----------------------------------------------------------------------------
(* Lists                                                                   *)

\* A strict order of all of a set.
Orders(before, set) ==
  /\ \A x \in set : <<x, x>> \notin before
  /\ \A x, y \in set : x # y => <<x, y>> \in before \/ <<y, x>> \in before
  /\ \A x, y, z \in set : <<x, y>> \in before /\ <<y, z>> \in before => <<x, z>> \in before

Preceding(set, before, x) == {y \in set : <<y, x>> \in before}

\* Of the n elements of an ordered set each has another number of elements before it, of 0 to
\* n - 1.
LEMMA PlacesDiffer ==
  ASSUME NEW set, NEW before, IsFiniteSet(set), Orders(before, set)
  PROVE  LET place == [x \in set |-> Cardinality(Preceding(set, before, x))] IN
         place \in Bijection(set, 0..(Cardinality(set) - 1))
  <1> DEFINE n == Cardinality(set)
             P(x) == Preceding(set, before, x)
             place == [x \in set |-> Cardinality(P(x))]
  <1>1. n \in Nat
    BY FS_CardinalityType
  <1>2. \A x \in set : IsFiniteSet(P(x)) /\ Cardinality(P(x)) \in Nat
    <2>1. \A x \in set : P(x) \in SUBSET set
      BY DEF Preceding
    <2> HIDE DEF P
    <2> QED BY <2>1, FS_Subset, FS_CardinalityType
  <1>3. ASSUME NEW x \in set, NEW y \in set, <<x, y>> \in before
        PROVE  Cardinality(P(x)) < Cardinality(P(y))
    <2>1. P(x) \in SUBSET P(y) /\ x \in P(y) /\ x \notin P(x)
      BY <1>3 DEF Orders, Preceding
    <2>2. Cardinality(P(x)) <= Cardinality(P(y)) /\ Cardinality(P(x)) # Cardinality(P(y))
      BY <1>2, <2>1, FS_Subset
    <2> HIDE DEF P
    <2> QED BY <1>2, <2>2
  <1>4. ASSUME NEW x \in set
        PROVE  Cardinality(P(x)) \in 0..(n - 1)
    <2>1. P(x) \in SUBSET set /\ x \notin P(x)
      BY DEF Orders, Preceding
    <2>2. Cardinality(P(x)) <= n /\ Cardinality(P(x)) # n
      BY <2>1, FS_Subset
    <2> HIDE DEF P, n
    <2> QED BY <1>1, <1>2, <2>2
  <1>5. place \in [set -> 0..(n - 1)]
    BY <1>4
  <1>6. ASSUME NEW x \in set, NEW y \in set, place[x] = place[y]
        PROVE  x = y
    <2>1. Cardinality(P(x)) = Cardinality(P(y)) /\ Cardinality(P(x)) \in Nat
      BY <1>2, <1>6
    <2>2. <<x, y>> \notin before /\ <<y, x>> \notin before
      <3> HIDE DEF P
      <3> QED BY <1>3, <2>1
    <2> QED BY <2>2 DEF Orders
  <1>7. place \in Injection(set, 0..(n - 1))
    <2> HIDE DEF place
    <2> QED BY <1>5, <1>6 DEF Injection, IsInjective
  <1>8. IsFiniteSet(0..(n - 1)) /\ Cardinality(0..(n - 1)) = n
    <2> HIDE DEF n
    <2> QED BY <1>1, FS_Interval
  <1>9. place \in Surjection(set, 0..(n - 1))
    <2> HIDE DEF place
    <2> QED BY <1>7, <1>8, FS_Injection
  <1>10. place \in Bijection(set, 0..(n - 1))
    <2> HIDE DEF place, n
    <2> QED BY <1>7, <1>9 DEF Bijection
  <1> QED BY <1>10

\* Putting a finite set in order loses and adds nothing.
LEMMA OrderedIsAll ==
  ASSUME NEW set, NEW before, IsFiniteSet(set), Orders(before, set),
         NEW list, list = Ordered(set, before)
  PROVE  /\ IsList(list) /\ Len(list) = Cardinality(set)
         /\ \A n \in DOMAIN list : /\ list[n] \in set
                                   /\ Cardinality(Preceding(set, before, list[n])) = n - 1
         /\ \A x \in set : \E n \in DOMAIN list : list[n] = x
  <1> DEFINE c == Cardinality(set)
             place == [x \in set |-> Cardinality(Preceding(set, before, x))]
  <1>1. c \in Nat
    BY FS_CardinalityType
  <1>2. place \in Bijection(set, 0..(c - 1))
    BY PlacesDiffer
  <1>3. list = [n \in 1..c |-> CHOOSE x \in set : Cardinality(Preceding(set, before, x)) = n - 1]
    BY DEF Ordered, Preceding
  <1>4. IsList(list) /\ Len(list) = c /\ DOMAIN list = 1..c
    <2>1. DOMAIN list = 1..c
      BY <1>3
    <2>2. Len(list) = c
      BY <1>1, <1>3
    <2> QED BY <1>1, <2>1, <2>2 DEF IsList
  <1>5. ASSUME NEW n \in 1..c
        PROVE  list[n] \in set /\ Cardinality(Preceding(set, before, list[n])) = n - 1
    <2>1. n - 1 \in 0..(c - 1)
      BY <1>1
    <2>2. PICK x \in set : place[x] = n - 1
      <3> HIDE DEF place, c
      <3> QED BY <1>2, <2>1 DEF Bijection, Surjection
    <2>3. \E y \in set : Cardinality(Preceding(set, before, y)) = n - 1
      BY <2>2
    <2> QED BY <1>3, <2>3
  <1>6. ASSUME NEW x \in set
        PROVE  \E n \in 1..c : list[n] = x
    <2>1. place[x] \in 0..(c - 1)
      <3> HIDE DEF place, c
      <3> QED BY <1>2 DEF Bijection, Injection, IsInjective
    <2> DEFINE n == place[x] + 1
    <2>2. n \in 1..c /\ n - 1 = place[x]
      BY <1>1, <2>1
    <2>3. list[n] \in set /\ place[list[n]] = place[x]
      BY <1>5, <2>2
    <2>4. list[n] = x
      <3> HIDE DEF place, n
      <3> QED BY <1>2, <2>3 DEF Bijection, Injection, IsInjective
    <2> QED BY <2>2, <2>4
  <1> HIDE DEF c
  <1> QED BY <1>4, <1>5, <1>6 DEF c

\* The entries that two lists have in common are not more than those of one of them.
LEMMA CommonBound ==
  ASSUME NEW expected, NEW predicted, IsFiniteSet(DOMAIN expected), IsFiniteSet(DOMAIN predicted)
  PROVE  /\ Common(expected, predicted) \in Nat
         /\ Common(expected, predicted) <= Cardinality(DOMAIN expected)
         /\ Common(expected, predicted) <= Cardinality(DOMAIN predicted)
  <1> DEFINE At(list, v) == {i \in DOMAIN list : list[i] = v}
             A == {a \in Range(expected) \X (1..Cardinality(DOMAIN expected)) :
                     /\ a[2] <= Occurrences(expected, a[1])
                     /\ a[2] <= Occurrences(predicted, a[1])}
  <1>1. Common(expected, predicted) = Cardinality(A)
    BY DEF Common
  <1>2. ASSUME NEW list, IsFiniteSet(DOMAIN list), list \in {expected, predicted}
        PROVE  IsFiniteSet(A) /\ Cardinality(A) \in Nat /\ Cardinality(A) <= Cardinality(DOMAIN list)
    <2> DEFINE Nth(v) == CHOOSE h : h \in Bijection(1..Occurrences(list, v), At(list, v))
               place == [a \in A |-> Nth(a[1])[a[2]]]
    <2>1. ASSUME NEW v
          PROVE  /\ Nth(v) \in Bijection(1..Occurrences(list, v), At(list, v))
                 /\ Occurrences(list, v) \in Nat
      <3>1. IsFiniteSet(At(list, v))
        <4>1. At(list, v) \in SUBSET DOMAIN list
          OBVIOUS
        <4> QED BY <1>2, <4>1, FS_Subset
      <3>2. Occurrences(list, v) = Cardinality(At(list, v))
        BY DEF Occurrences
      <3>3. /\ Occurrences(list, v) \in Nat
            /\ ExistsBijection(1..Occurrences(list, v), At(list, v))
        BY <3>1, <3>2, FS_CardinalityType
      <3>4. \E h : h \in Bijection(1..Occurrences(list, v), At(list, v))
        BY <3>3 DEF ExistsBijection
      <3> HIDE DEF At
      <3> QED BY <3>3, <3>4
    <2>2. ASSUME NEW a \in A
          PROVE  a[2] \in 1..Occurrences(list, a[1]) /\ a = <<a[1], a[2]>>
      <3>1. a[2] \in Int /\ 1 <= a[2] /\ a[2] <= Occurrences(list, a[1]) /\ a = <<a[1], a[2]>>
        BY <1>2
      <3> QED BY <2>1, <3>1
    <2>3. ASSUME NEW a \in A
          PROVE  place[a] \in DOMAIN list /\ list[place[a]] = a[1]
      <3>1. place[a] = Nth(a[1])[a[2]]
        OBVIOUS
      <3>2. Nth(a[1])[a[2]] \in At(list, a[1])
        <4> HIDE DEF Nth, At, A
        <4> QED BY <2>1, <2>2 DEF Bijection, Injection, IsInjective
      <3> QED BY <3>1, <3>2
    <2>4. ASSUME NEW a \in A, NEW b \in A, place[a] = place[b]
          PROVE  a = b
      <3>1. a[1] = b[1]
        <4> HIDE DEF place, A
        <4> QED BY <2>3, <2>4
      <3>2. Nth(a[1])[a[2]] = Nth(a[1])[b[2]]
        BY <2>4, <3>1
      <3>3. a[2] = b[2]
        <4>1. a[2] \in 1..Occurrences(list, a[1]) /\ b[2] \in 1..Occurrences(list, a[1])
          BY <2>2, <3>1
        <4> HIDE DEF Nth, At, A
        <4> QED BY <2>1, <3>2, <4>1 DEF Bijection, Injection, IsInjective
      <3> QED BY <2>2, <3>1, <3>3
    <2>5. place \in Injection(A, DOMAIN list)
      <3>1. place \in [A -> DOMAIN list]
        BY <2>3
      <3> HIDE DEF place, A
      <3> QED BY <2>4, <3>1 DEF Injection, IsInjective
    <2> HIDE DEF place, A
    <2> QED BY <1>2, <2>5, FS_Injection, FS_CardinalityType
  <1> HIDE DEF A
  <1> QED BY <1>1, <1>2

-----------------------------------------------------------------------------
(* The matching of facts and predictions                                   *)

\* The step of a pass for one fact.
Takes(answers, sofar, t) ==
  LET free == {a[2] : a \in {a \in answers : a[1] = t /\ \A b \in sofar : b[2] # a[2]}}
  IN IF free = {} \/ \E b \in sofar : b[1] = t THEN sofar ELSE sofar \cup {<<t, Min(free)>>}

PartialPass(answers, n, taken, f) ==
  /\ DOMAIN f = 0..n /\ f[0] = taken
  /\ \A t \in 1..n : f[t] = Takes(answers, f[t - 1], t)

LEMMA PassIsPartial ==
  ASSUME NEW n \in Nat, NEW answers, NEW taken
  PROVE  \E f : PartialPass(answers, n, taken, f) /\ Pass(answers, n, taken) = f[n]
  <1> DEFINE Partly(f, m) == f = [t \in 0..m |-> IF t = 0 THEN taken ELSE Takes(answers, f[t - 1], t)]
             S == {m \in 0..n : \E f : Partly(f, m)}
  <1>1. 0 \in S
    <2>1. Partly([k \in 0..0 |-> taken], 0)
      OBVIOUS
    <2> HIDE DEF Partly
    <2> QED BY <2>1
  <1>2. ASSUME NEW m \in 1..n, m - 1 \in S
        PROVE  m \in S
    <2>1. PICK f : Partly(f, m - 1)
      BY <1>2
    <2> DEFINE g == [k \in 0..m |-> IF k = m THEN Takes(answers, f[m - 1], m) ELSE f[k]]
    <2>2. ASSUME NEW k \in 0..m
          PROVE  g[k] = IF k = 0 THEN taken ELSE Takes(answers, g[k - 1], k)
      <3>1. CASE k = m
        <4>1. m - 1 \in 0..m /\ m - 1 # m
          OBVIOUS
        <4>2. g[m - 1] = f[m - 1] /\ g[m] = Takes(answers, f[m - 1], m)
          BY <4>1
        <4> QED BY <3>1, <4>2
      <3>2. CASE k # m
        <4>1. k \in 0..(m - 1)
          BY <3>2
        <4>2. f[k] = IF k = 0 THEN taken ELSE Takes(answers, f[k - 1], k)
          BY <2>1, <4>1
        <4>3. k # 0 => k - 1 \in 0..m /\ k - 1 # m
          BY <4>1
        <4>4. g[k] = f[k] /\ (k # 0 => g[k - 1] = f[k - 1])
          BY <3>2, <4>3
        <4> QED BY <4>2, <4>4
      <3> QED BY <3>1, <3>2
    <2>3. DOMAIN g = 0..m /\ g = [k \in DOMAIN g |-> g[k]]
      OBVIOUS
    <2> HIDE DEF g
    <2>4. Partly(g, m)
      BY <2>2, <2>3
    <2> HIDE DEF Partly
    <2> QED BY <2>4
  <1>3. n \in S
    <2> HIDE DEF S
    <2>1. 0..n \subseteq S
      BY <1>1, <1>2, Steps0
    <2> QED BY <2>1
  <1> DEFINE f == CHOOSE f : Partly(f, n)
  <1>4. Partly(f, n)
    <2>1. \E g : Partly(g, n)
      BY <1>3
    <2> HIDE DEF Partly
    <2> QED BY <2>1
  <1>5. Pass(answers, n, taken) = f[n]
    BY DEF Pass, Takes
  <1> HIDE DEF f
  <1>6. PartialPass(answers, n, taken, f)
    BY <1>4 DEF PartialPass
  <1> QED BY <1>5, <1>6

\* A set of naturals that is not empty has its Min.
LEMMA MinIsLeast ==
  ASSUME NEW S \in SUBSET Nat, S # {}
  PROVE  Min(S) \in S /\ \A j \in S : Min(S) <= j
  BY LeastExists DEF Min

\* A pass keeps what was taken and adds answers only.  After it, whatever answers a fact is
\* taken, or the fact has taken something else.
LEMMA PassAnswers ==
  ASSUME NEW n \in Nat, NEW answers, NEW taken,
         \A a \in answers : a = <<a[1], a[2]>> /\ a[2] \in Nat
  PROVE  LET matched == Pass(answers, n, taken) IN
         /\ taken \subseteq matched /\ matched \subseteq taken \cup answers
         /\ \A a \in answers : a[1] \in 1..n => \E b \in matched : b[1] = a[1] \/ b[2] = a[2]
  <1>1. PICK f : PartialPass(answers, n, taken, f) /\ Pass(answers, n, taken) = f[n]
    BY PassIsPartial
  <1>2. ASSUME NEW sofar, NEW t
        PROVE  /\ sofar \subseteq Takes(answers, sofar, t)
               /\ Takes(answers, sofar, t) \subseteq sofar \cup answers
               /\ \A a \in answers : a[1] = t =>
                    \E b \in Takes(answers, sofar, t) : b[1] = a[1] \/ b[2] = a[2]
    <2> DEFINE free == {a[2] : a \in {a \in answers : a[1] = t /\ \A b \in sofar : b[2] # a[2]}}
    <2>1. CASE \E b \in sofar : b[1] = t
      BY <2>1 DEF Takes
    <2>2. CASE free = {}
      <3>1. Takes(answers, sofar, t) = sofar
        BY <2>2 DEF Takes
      <3>2. \A a \in answers : a[1] = t => \E b \in sofar : b[2] = a[2]
        BY <2>2
      <3> QED BY <3>1, <3>2
    <2>3. CASE free # {} /\ ~\E b \in sofar : b[1] = t
      <3>1. Takes(answers, sofar, t) = sofar \cup {<<t, Min(free)>>}
        BY <2>3 DEF Takes
      <3>2. Min(free) \in free
        <4>1. free \in SUBSET Nat
          OBVIOUS
        <4> HIDE DEF free
        <4> QED BY <2>3, <4>1, MinIsLeast
      <3>3. PICK a \in answers : a[1] = t /\ Min(free) = a[2]
        BY <3>2
      <3> HIDE DEF free
      <3>4. <<t, Min(free)>> \in answers /\ <<t, Min(free)>>[1] = t
        BY <3>3
      <3> QED BY <3>1, <3>4
    <2> QED BY <2>1, <2>2, <2>3
  <1> DEFINE S == {t \in 0..n : /\ taken \subseteq f[t] /\ f[t] \subseteq taken \cup answers
                                /\ \A a \in answers : a[1] \in 1..t =>
                                     \E b \in f[t] : b[1] = a[1] \/ b[2] = a[2]}
  <1>3. 0 \in S
    BY <1>1 DEF PartialPass
  <1>4. ASSUME NEW t \in 1..n, t - 1 \in S
        PROVE  t \in S
    <2>1. f[t] = Takes(answers, f[t - 1], t)
      BY <1>1 DEF PartialPass
    <2>2. f[t - 1] \subseteq f[t] /\ f[t] \subseteq f[t - 1] \cup answers
      BY <1>2, <2>1
    <2>3. taken \subseteq f[t - 1] /\ f[t - 1] \subseteq taken \cup answers
      BY <1>4
    <2>4. ASSUME NEW a \in answers, a[1] \in 1..t
          PROVE  \E b \in f[t] : b[1] = a[1] \/ b[2] = a[2]
      <3>1. CASE a[1] = t
        BY <1>2, <2>1, <3>1
      <3>2. CASE a[1] # t
        <4>1. a[1] \in 1..(t - 1)
          BY <2>4, <3>2
        <4>2. \E b \in f[t - 1] : b[1] = a[1] \/ b[2] = a[2]
          BY <1>4, <4>1
        <4> QED BY <2>2, <4>2
      <3> QED BY <3>1, <3>2
    <2> QED BY <2>2, <2>3, <2>4
  <1> HIDE DEF S
  <1>5. 0..n \subseteq S
    BY <1>3, <1>4, Steps0
  <1>6. n \in S
    BY <1>5
  <1> QED BY <1>1, <1>6 DEF S

-----------------------------------------------------------------------------
(* The reference of an application                                         *)

\* What a function makes of a finite set is finite.
LEMMA ImageFinite ==
  ASSUME NEW S, IsFiniteSet(S), NEW g, DOMAIN g = S
  PROVE  /\ IsFiniteSet({g[x] : x \in S})
         /\ Cardinality({g[x] : x \in S}) \in Nat
         /\ Cardinality({g[x] : x \in S}) <= Cardinality(S)
  <1> DEFINE T == {g[x] : x \in S}
             h == [x \in S |-> g[x]]
  <1>1. h \in Surjection(S, T)
    BY DEF Surjection
  <1> HIDE DEF T, h
  <1>2. IsFiniteSet(T) /\ Cardinality(T) <= Cardinality(S)
    BY <1>1, FS_Surjection
  <1>3. Cardinality(T) \in Nat
    BY <1>2, FS_CardinalityType
  <1> QED BY <1>2, <1>3 DEF T

LEMMA UnionFinite ==
  ASSUME NEW S, IsFiniteSet(S), NEW g, DOMAIN g = S, \A x \in S : IsFiniteSet(g[x])
  PROVE  IsFiniteSet(UNION {g[x] : x \in S})
  <1> DEFINE T == {g[x] : x \in S}
  <1>1. IsFiniteSet(T) /\ \A t \in T : IsFiniteSet(t)
    BY ImageFinite
  <1> HIDE DEF T
  <1>2. IsFiniteSet(UNION T)
    BY <1>1, FS_UNION
  <1> QED BY <1>2 DEF T

LEMMA ListFinite ==
  ASSUME NEW list, IsList(list)
  PROVE  /\ Len(list) \in Nat /\ DOMAIN list = 1..Len(list)
         /\ IsFiniteSet(DOMAIN list) /\ Cardinality(DOMAIN list) = Len(list)
         /\ IsFiniteSet(ToSet(list))
  <1>1. Len(list) \in Nat /\ DOMAIN list = 1..Len(list)
    BY DEF IsList
  <1>2. IsFiniteSet(DOMAIN list) /\ Cardinality(DOMAIN list) = Len(list)
    <2>1. \A n \in Nat : IsFiniteSet(1..n) /\ Cardinality(1..n) = n
      BY FS_Interval
    <2> QED BY <1>1, <2>1
  <1>3. IsFiniteSet({list[i] : i \in DOMAIN list})
    BY <1>2, ImageFinite
  <1> QED BY <1>1, <1>2, <1>3 DEF ToSet

\* A fact of file i of an application, which is f.
IsFactOf(a, i, f) ==
  /\ IsName(a.name) /\ IsName(a.owner) /\ a.line \in Nat
  /\ a.file = i /\ a.path = f.path

LEMMA FactIs ==
  ASSUME NEW i, NEW f, NEW name, NEW var, NEW owner, NEW line,
         IsName(name), IsName(owner), line \in Nat
  PROVE  IsFactOf(Fact(i, f, name, var, owner, line), i, f)
  BY DEF IsFactOf, Fact

LEMMA OfFinite ==
  ASSUME NEW f, IsFile(f), NEW kinds
  PROVE  /\ IsFiniteSet(Of(f, kinds))
         /\ \A k \in Of(f, kinds) : /\ k \in Nat /\ f.decls[k] \in ToSet(f.decls)
                                    /\ IsDeclaration(f.decls[k])
  <1>1. IsFiniteSet(DOMAIN f.decls) /\ DOMAIN f.decls \subseteq Nat
    BY ListFinite DEF IsFile
  <1>2. Of(f, kinds) \in SUBSET DOMAIN f.decls
    BY DEF Of
  <1>3. \A k \in DOMAIN f.decls : f.decls[k] \in ToSet(f.decls)
    BY DEF ToSet
  <1> QED BY <1>1, <1>2, <1>3, FS_Subset DEF IsFile

LEMMA NoNameIs == IsName(NoName)
  BY DEF IsName, NoName

\* The facts of a file are finitely many.
LEMMA FileFacts ==
  ASSUME NEW i, NEW f, IsFile(f),
         NEW S, S \in {TreeAgents(i, f), TreeTools(i, f), TreeServers(i, f),
                       TextAgents(i, f), TextTools(i, f), TextServers(i, f)}
  PROVE  IsFiniteSet(S) /\ \A a \in S : IsFactOf(a, i, f)
  <1> USE DEF IsFactOf
  <1>1. ASSUME NEW g, NEW kinds, DOMAIN g = Of(f, kinds),
               \A k \in Of(f, kinds) : IsFactOf(g[k], i, f)
        PROVE  /\ IsFiniteSet({g[k] : k \in Of(f, kinds)})
               /\ \A a \in {g[k] : k \in Of(f, kinds)} : IsFactOf(a, i, f)
    BY <1>1, OfFinite, ImageFinite
  <1> DEFINE d(k) == f.decls[k]
  <1>d. ASSUME NEW kinds, NEW k \in Of(f, kinds)
        PROVE  /\ IsName(d(k).name) /\ IsName(d(k).var) /\ IsName(d(k).owner) /\ d(k).line \in Nat
               /\ IsList(d(k).tools) /\ \A t \in ToSet(d(k).tools) : IsName(t)
    BY OfFinite DEF IsDeclaration
  <1>2. CASE S = TreeAgents(i, f)
    <2> DEFINE g == [k \in Of(f, AgentKinds) |-> Fact(i, f, d(k).name, d(k).var, NoName, d(k).line)]
               h == [k \in Of(f, {"node"}) |-> Fact(i, f, d(k).name, d(k).name, NoName, d(k).line)]
               G == {g[k] : k \in Of(f, AgentKinds)}
               H == {h[k] : k \in Of(f, {"node"})}
    <2>1. \A k \in Of(f, AgentKinds) : IsFactOf(g[k], i, f)
      BY <1>d, NoNameIs, FactIs
    <2>2. \A k \in Of(f, {"node"}) : IsFactOf(h[k], i, f)
      BY <1>d, NoNameIs, FactIs
    <2>3. S = G \cup H
      BY <1>2 DEF TreeAgents
    <2>4. DOMAIN g = Of(f, AgentKinds) /\ DOMAIN h = Of(f, {"node"})
      OBVIOUS
    <2> HIDE DEF g, h
    <2>5. IsFiniteSet(G) /\ IsFiniteSet(H) /\ \A a \in G \cup H : IsFactOf(a, i, f)
      BY <1>1, <2>1, <2>2, <2>4
    <2> HIDE DEF G, H
    <2> QED BY <2>3, <2>5, FS_Union
  <1>3. CASE S = TreeTools(i, f)
    <2> DEFINE g == [k \in Of(f, {"tool"}) |-> Fact(i, f, d(k).name, NoName, d(k).owner, d(k).line)]
               With(k, t) == Fact(i, f, t, NoName, d(k).var, d(k).line)
               h == [k \in Of(f, {"agent"}) |-> {With(k, t) : t \in ToSet(d(k).tools)}]
               G == {g[k] : k \in Of(f, {"tool"})}
               H == UNION {h[k] : k \in Of(f, {"agent"})}
    <2>1. \A k \in Of(f, {"tool"}) : IsFactOf(g[k], i, f)
      BY <1>d, FactIs
    <2>2. ASSUME NEW k \in Of(f, {"agent"})
          PROVE  IsFiniteSet(h[k]) /\ \A a \in h[k] : IsFactOf(a, i, f)
      <3>1. IsFiniteSet(ToSet(d(k).tools))
        BY <1>d, ListFinite
      <3> DEFINE T == ToSet(d(k).tools)
                 w == [t \in T |-> With(k, t)]
      <3>2. \A t \in T : IsFactOf(w[t], i, f)
        BY <1>d, FactIs
      <3>3. h[k] = {w[t] : t \in T} /\ DOMAIN w = T
        OBVIOUS
      <3> HIDE DEF w, T, h
      <3>4. IsFiniteSet({w[t] : t \in T})
        BY <3>1, <3>3, ImageFinite DEF T
      <3> QED BY <3>2, <3>3, <3>4
    <2>3. S = G \cup H
      BY <1>3 DEF TreeTools
    <2>4. DOMAIN g = Of(f, {"tool"}) /\ DOMAIN h = Of(f, {"agent"})
      OBVIOUS
    <2> HIDE DEF g, h
    <2>5. IsFiniteSet(G) /\ \A a \in G : IsFactOf(a, i, f)
      BY <1>1, <2>1, <2>4
    <2>6. IsFiniteSet(H)
      BY <2>2, <2>4, OfFinite, UnionFinite
    <2>7. \A a \in H : IsFactOf(a, i, f)
      BY <2>2
    <2> HIDE DEF G, H
    <2> QED BY <2>3, <2>5, <2>6, <2>7, FS_Union
  <1>4. CASE S = TreeServers(i, f)
    <2> DEFINE g == [k \in Of(f, TreeServerKinds) |-> Fact(i, f, d(k).name, d(k).var, NoName, d(k).line)]
    <2>1. \A k \in Of(f, TreeServerKinds) : IsFactOf(g[k], i, f)
      BY <1>d, NoNameIs, FactIs
    <2>2. S = {g[k] : k \in Of(f, TreeServerKinds)} /\ DOMAIN g = Of(f, TreeServerKinds)
      BY <1>4 DEF TreeServers
    <2> HIDE DEF g
    <2> QED BY <1>1, <2>1, <2>2
  <1>5. CASE S = TextAgents(i, f)
    <2> DEFINE g == [k \in Of(f, {"agent"}) |-> Fact(i, f, d(k).var, d(k).var, NoName, d(k).line)]
               T == ToSet(f.ghosts)
               h == [t \in T |-> Fact(i, f, t.name, t.name, NoName, t.line)]
               G == {g[k] : k \in Of(f, {"agent"})}
               H == {h[t] : t \in T}
    <2>1. \A k \in Of(f, {"agent"}) : IsFactOf(g[k], i, f)
      BY <1>d, NoNameIs, FactIs
    <2>2. \A t \in T : IsFactOf(h[t], i, f)
      <3>1. \A t \in T : IsName(t.name) /\ t.line \in Nat
        BY DEF IsFile
      <3> QED BY <3>1, NoNameIs, FactIs
    <2>3. S = G \cup H
      BY <1>5 DEF TextAgents
    <2>4. DOMAIN g = Of(f, {"agent"}) /\ DOMAIN h = T
      OBVIOUS
    <2>5. IsFiniteSet(T)
      BY ListFinite DEF IsFile
    <2> HIDE DEF g, h, T
    <2>6. IsFiniteSet(G) /\ IsFiniteSet(H)
      BY <1>1, <2>1, <2>4, <2>5, ImageFinite
    <2>7. \A a \in G \cup H : IsFactOf(a, i, f)
      BY <2>1, <2>2
    <2> HIDE DEF G, H
    <2> QED BY <2>3, <2>6, <2>7, FS_Union
  <1>6. CASE S = TextTools(i, f)
    <2> DEFINE D == {k \in Of(f, {"tool"}) : f.lang = "py"}
               g == [k \in D |-> Fact(i, f, d(k).name, NoName, NoName, d(k).line)]
    <2>1. \A k \in D : IsFactOf(g[k], i, f)
      BY <1>d, NoNameIs, FactIs
    <2>2. S = {g[k] : k \in D} /\ DOMAIN g = D
      BY <1>6 DEF TextTools
    <2>3. IsFiniteSet(D)
      <3>1. D \in SUBSET Of(f, {"tool"})
        OBVIOUS
      <3> HIDE DEF D
      <3> QED BY <3>1, OfFinite, FS_Subset
    <2> HIDE DEF g, D
    <2> QED BY <2>1, <2>2, <2>3, ImageFinite
  <1>7. CASE S = TextServers(i, f)
    <2> DEFINE g == [k \in Of(f, TextServerKinds) |-> Fact(i, f, d(k).var, d(k).var, NoName, d(k).line)]
    <2>1. \A k \in Of(f, TextServerKinds) : IsFactOf(g[k], i, f)
      BY <1>d, NoNameIs, FactIs
    <2>2. S = {g[k] : k \in Of(f, TextServerKinds)} /\ DOMAIN g = Of(f, TextServerKinds)
      BY <1>7 DEF TextServers
    <2> HIDE DEF g
    <2> QED BY <1>1, <2>1, <2>2
  <1> QED BY <1>2, <1>3, <1>4, <1>5, <1>6, <1>7

\* The facts of some files.
FactsAre(facts, files) ==
  /\ IsFiniteSet(facts)
  /\ \A a \in facts : a.file \in DOMAIN files /\ IsFactOf(a, a.file, files[a.file])

\* Earlier is an order of facts that differ in their ranks.
LEMMA EarlierOrders ==
  ASSUME NEW facts, \A a \in facts : Rank(a) \in [1..6 -> Nat],
         \A a, b \in facts : Rank(a) = Rank(b) => a = b
  PROVE  Orders({p \in facts \X facts : Earlier(p[1], p[2])}, facts)
  <1> DEFINE before == {p \in facts \X facts : Earlier(p[1], p[2])}
  <1>1. \A a, b \in facts : <<a, b>> \in before <=> Earlier(a, b)
    OBVIOUS
  <1>2. \A a \in facts : \A n \in 1..6 : Rank(a)[n] \in Nat
    OBVIOUS
  <1>3. \A a \in facts : ~Earlier(a, a)
    BY <1>2 DEF Earlier
  <1>4. ASSUME NEW a \in facts, NEW b \in facts, a # b
        PROVE  Earlier(a, b) \/ Earlier(b, a)
    <2> DEFINE D == {n \in 1..6 : Rank(a)[n] # Rank(b)[n]}
    <2>1. D # {}
      <3>1. Rank(a) # Rank(b)
        BY <1>4
      <3> QED BY <3>1
    <2>2. PICK n \in D : \A m \in D : n <= m
      <3>1. D \in SUBSET Nat
        OBVIOUS
      <3> HIDE DEF D
      <3> QED BY <2>1, <3>1, LeastExists
    <2>3. n \in 1..6 /\ \A m \in 1..(n - 1) : Rank(a)[m] = Rank(b)[m] /\ Rank(b)[m] = Rank(a)[m]
      BY <2>2
    <2>4. Rank(a)[n] < Rank(b)[n] \/ Rank(b)[n] < Rank(a)[n]
      BY <1>2, <2>2
    <2> QED BY <2>3, <2>4 DEF Earlier
  <1>5. ASSUME NEW a \in facts, NEW b \in facts, NEW c \in facts, Earlier(a, b), Earlier(b, c)
        PROVE  Earlier(a, c)
    <2>1. PICK n \in 1..6 : Rank(a)[n] < Rank(b)[n] /\ \A m \in 1..(n - 1) : Rank(a)[m] = Rank(b)[m]
      BY <1>5 DEF Earlier
    <2>2. PICK l \in 1..6 : Rank(b)[l] < Rank(c)[l] /\ \A m \in 1..(l - 1) : Rank(b)[m] = Rank(c)[m]
      BY <1>5 DEF Earlier
    <2> DEFINE k == IF n <= l THEN n ELSE l
    <2>3. k \in 1..6 /\ \A m \in 1..(k - 1) : m \in 1..(n - 1) /\ m \in 1..(l - 1)
      OBVIOUS
    <2>4. \A m \in 1..(k - 1) : Rank(a)[m] = Rank(c)[m]
      <3> HIDE DEF k
      <3> QED BY <2>1, <2>2, <2>3
    <2>5. Rank(a)[k] < Rank(c)[k]
      <3>1. Rank(a)[k] \in Nat /\ Rank(b)[k] \in Nat /\ Rank(c)[k] \in Nat
        BY <1>2, <2>3
      <3>2. CASE n = l
        BY <2>1, <2>2, <3>1, <3>2
      <3>3. CASE n < l
        <4>1. k = n /\ n \in 1..(l - 1)
          BY <3>3
        <4> QED BY <2>1, <2>2, <3>1, <4>1
      <3>4. CASE l < n
        <4>1. k = l /\ l \in 1..(n - 1)
          BY <3>4
        <4> QED BY <2>1, <2>2, <3>1, <4>1
      <3> QED BY <3>2, <3>3, <3>4
    <2> HIDE DEF k
    <2> QED BY <2>3, <2>4, <2>5 DEF Earlier
  <1> HIDE DEF before
  <1> QED BY <1>1, <1>3, <1>4, <1>5 DEF Orders, before

KeyOf(a) == <<a.name, a.path, a.line, a.owner>>

\* Without doubles, a set of facts is a list in which each fact has its like.
LEMMA DedupedIs ==
  ASSUME NEW files, IsList(files), NEW facts, FactsAre(facts, files)
  PROVE  LET list == Deduped(facts) IN
         /\ IsList(list)
         /\ \A n \in DOMAIN list : list[n] \in facts
         /\ \A a \in facts : \E n \in DOMAIN list : KeyOf(list[n]) = KeyOf(a)
  <1> DEFINE keys == {KeyOf(a) : a \in facts}
             Rep(k) == CHOOSE a \in facts : KeyOf(a) = k
             first == {Rep(k) : k \in keys}
             before == {p \in first \X first : Earlier(p[1], p[2])}
  <1>1. Deduped(facts) = Ordered(first, before)
    BY DEF Deduped, KeyOf
  <1>2. \A k \in keys : Rep(k) \in facts /\ KeyOf(Rep(k)) = k
    OBVIOUS
  <1>3. first \in SUBSET facts
    BY <1>2
  <1>4. IsFiniteSet(first)
    BY <1>3, FS_Subset DEF FactsAre
  <1>5. \A a, b \in first : KeyOf(a) = KeyOf(b) => a = b
    <2> HIDE DEF Rep
    <2> QED BY <1>2
  <1>6. ASSUME NEW a \in first
        PROVE  Rank(a) \in [1..6 -> Nat]
    <2>1. /\ a.file \in Nat /\ a.line \in Nat /\ a.name \in Nat \X Nat /\ a.owner \in Nat \X Nat
      BY <1>3 DEF FactsAre, IsFactOf, IsName, IsList
    <2>2. a.name[1] \in Nat /\ a.name[2] \in Nat /\ a.owner[1] \in Nat /\ a.owner[2] \in Nat
      BY <2>1
    <2>3. Rank(a) = <<a.file, a.line, a.name[1], a.name[2], a.owner[1], a.owner[2]>>
      BY DEF Rank
    <2> QED BY <2>1, <2>2, <2>3
  <1>7. ASSUME NEW a \in first, NEW b \in first, Rank(a) = Rank(b)
        PROVE  a = b
    <2>1. /\ a.file = b.file /\ a.line = b.line /\ a.name[1] = b.name[1] /\ a.name[2] = b.name[2]
          /\ a.owner[1] = b.owner[1] /\ a.owner[2] = b.owner[2]
      BY <1>7 DEF Rank
    <2>2. \A x \in first : x.name \in Nat \X Nat /\ x.owner \in Nat \X Nat /\ x.path = files[x.file].path
      BY <1>3 DEF FactsAre, IsFactOf, IsName
    <2>3. a.name = b.name /\ a.owner = b.owner /\ a.path = b.path
      BY <2>1, <2>2
    <2>4. KeyOf(a) = KeyOf(b)
      BY <2>1, <2>3 DEF KeyOf
    <2> QED BY <1>5, <2>4
  <1> HIDE DEF first, before
  <1>8. Orders(before, first)
    BY <1>6, <1>7, EarlierOrders DEF before
  <1> DEFINE list == Ordered(first, before)
  <1>9. /\ IsList(list)
        /\ \A n \in DOMAIN list : list[n] \in first
        /\ \A x \in first : \E n \in DOMAIN list : list[n] = x
    <2>1. list = Ordered(first, before)
      OBVIOUS
    <2> HIDE DEF list
    <2> QED BY <1>4, <1>8, <2>1, OrderedIsAll
  <1>10. \A a \in facts : \E x \in first : KeyOf(x) = KeyOf(a)
    <2>1. \A a \in facts : KeyOf(a) \in keys /\ Rep(KeyOf(a)) \in first
      BY DEF first
    <2> HIDE DEF Rep, keys
    <2> QED BY <1>2, <2>1
  <1> QED BY <1>1, <1>3, <1>9, <1>10

FilesAre(files) == IsList(files) /\ \A i \in DOMAIN files : IsFile(files[i])

\* The facts of several files are together.
LEMMA Gathered ==
  ASSUME NEW files, FilesAre(files), NEW some \in SUBSET DOMAIN files, NEW g, DOMAIN g = some,
         \A i \in some : IsFiniteSet(g[i]) /\ \A a \in g[i] : IsFactOf(a, i, files[i])
  PROVE  FactsAre(UNION {g[i] : i \in some}, files)
  <1>1. IsFiniteSet(some)
    BY ListFinite, FS_Subset DEF FilesAre
  <1>2. IsFiniteSet(UNION {g[i] : i \in some})
    BY <1>1, UnionFinite
  <1>3. ASSUME NEW a \in UNION {g[i] : i \in some}
        PROVE  a.file \in DOMAIN files /\ IsFactOf(a, a.file, files[a.file])
    <2>1. PICK i \in some : a \in g[i]
      OBVIOUS
    <2>2. IsFactOf(a, i, files[i]) /\ a.file = i
      BY <2>1 DEF IsFactOf
    <2> QED BY <2>2
  <1> QED BY <1>2, <1>3 DEF FactsAre

\* The facts found in the syntax trees, and those found in the text besides: the like of a fact
\* of a tree is of a tree.
LEMMA TogetherIs ==
  ASSUME NEW files, FilesAre(files), NEW tree0, FactsAre(tree0, files),
         NEW text, FactsAre(text, files)
  PROVE  /\ IsList(Together(tree0, text))
         /\ \A a \in tree0 : \E n \in DOMAIN Together(tree0, text) :
              KeyOf(Together(tree0, text)[n]) = KeyOf(a) /\ Together(tree0, text)[n] \in tree0
  <1>1. Unmatched(text, tree0) \in SUBSET text
    BY DEF Unmatched
  <1>2. FactsAre(tree0 \cup Unmatched(text, tree0), files)
    <2>1. IsFiniteSet(Unmatched(text, tree0))
      BY <1>1, FS_Subset DEF FactsAre
    <2>2. IsFiniteSet(tree0 \cup Unmatched(text, tree0))
      BY <2>1, FS_Union DEF FactsAre
    <2> QED BY <1>1, <2>2 DEF FactsAre
  <1> DEFINE all == tree0 \cup Unmatched(text, tree0)
             list == Deduped(all)
  <1>3. /\ IsList(list)
        /\ \A n \in DOMAIN list : list[n] \in all
        /\ \A a \in all : \E n \in DOMAIN list : KeyOf(list[n]) = KeyOf(a)
    <2> HIDE DEF all
    <2> QED BY <1>2, DedupedIs DEF FilesAre, all
  <1>4. Together(tree0, text) = list
    BY DEF Together
  <1> HIDE DEF list
  <1>5. ASSUME NEW a \in tree0, NEW t \in Unmatched(text, tree0), KeyOf(t) = KeyOf(a)
        PROVE  FALSE
    <2>1. t.name = a.name /\ t.path = a.path /\ t.line = a.line
      BY <1>5 DEF KeyOf
    <2>2. a.line \in Nat
      BY DEF FactsAre, IsFactOf
    <2>3. FactsMatch(t, a)
      BY <2>1, <2>2 DEF FactsMatch, Near
    <2> QED BY <2>3 DEF Unmatched
  <1>6. \A a \in tree0 : \E n \in DOMAIN list : KeyOf(list[n]) = KeyOf(a) /\ list[n] \in tree0
    BY <1>3, <1>5
  <1> QED BY <1>3, <1>4, <1>6

\* What scores are made of: lists of facts and finitely many delegations.
IsReference(ref) ==
  /\ IsList(ref.agents) /\ IsList(ref.tools) /\ IsList(ref.servers)
  /\ IsFiniteSet(DOMAIN ref.edges)

LEMMA EdgesFinite ==
  ASSUME NEW files, FilesAre(files), NEW parsed \in SUBSET DOMAIN files
  PROVE  IsFiniteSet(DOMAIN Edges(files, parsed))
  <1> DEFINE parent == [i \in parsed |-> {i} \X Of(files[i], {"agent"})]
             parents == UNION {{i} \X Of(files[i], {"agent"}) : i \in parsed}
             At(p) == {<<p[1], p[2], e>> : e \in DOMAIN Targets(files[p[1]], p[2])}
             place == [p \in parents |-> At(p)]
             places == UNION {At(p) : p \in parents}
  <1>1. IsFiniteSet(parsed)
    BY ListFinite, FS_Subset DEF FilesAre
  <1>2. IsFiniteSet(parents)
    <2>1. ASSUME NEW i \in parsed
          PROVE  IsFiniteSet(parent[i])
      <3>1. IsFiniteSet(Of(files[i], {"agent"})) /\ IsFiniteSet({i})
        BY OfFinite, FS_Singleton DEF FilesAre
      <3>2. IsFiniteSet({i} \X Of(files[i], {"agent"}))
        BY <3>1, FS_Product
      <3> QED BY <3>2
    <2>2. parents = UNION {parent[i] : i \in parsed} /\ DOMAIN parent = parsed
      OBVIOUS
    <2> HIDE DEF parents, parent
    <2> QED BY <1>1, <2>1, <2>2, UnionFinite
  <1>3. ASSUME NEW p \in parents
        PROVE  IsFiniteSet(place[p])
    <2> DEFINE f == files[p[1]]
               D == DOMAIN Targets(f, p[2])
    <2>1. IsFile(f) /\ p[2] \in Of(f, {"agent"})
      BY DEF FilesAre
    <2> HIDE DEF f
    <2>2. IsList(f.decls[p[2]].tools) /\ IsList(f.decls[p[2]].subs)
      BY <2>1, OfFinite DEF IsDeclaration
    <2>3. PICK T \in SUBSET DOMAIN f.decls[p[2]].tools :
            D = ({"sub"} \X DOMAIN f.decls[p[2]].subs) \cup ({"tool"} \X T)
      BY DEF Targets
    <2>4. IsFiniteSet(T) /\ IsFiniteSet(DOMAIN f.decls[p[2]].subs)
      BY <2>2, ListFinite, FS_Subset
    <2>5. IsFiniteSet({"sub"}) /\ IsFiniteSet({"tool"})
      BY FS_Singleton
    <2>6. IsFiniteSet({"sub"} \X DOMAIN f.decls[p[2]].subs) /\ IsFiniteSet({"tool"} \X T)
      BY <2>4, <2>5, FS_Product
    <2>7. IsFiniteSet(D)
      <3> DEFINE U == {"sub"} \X DOMAIN f.decls[p[2]].subs
                 V == {"tool"} \X T
      <3>1. D = U \cup V /\ IsFiniteSet(U) /\ IsFiniteSet(V)
        BY <2>3, <2>6
      <3> HIDE DEF D, U, V
      <3>2. IsFiniteSet(U \cup V)
        BY <3>1, FS_Union
      <3> QED BY <3>1, <3>2
    <2> DEFINE w == [e \in D |-> <<p[1], p[2], e>>]
    <2>8. place[p] = {w[e] : e \in D} /\ DOMAIN w = D
      BY DEF f
    <2> HIDE DEF w, D, place
    <2> QED BY <2>7, <2>8, ImageFinite
  <1>4. IsFiniteSet(places)
    <2>1. places = UNION {place[p] : p \in parents} /\ DOMAIN place = parents
      <3> HIDE DEF At, parents
      <3> QED OBVIOUS
    <2> HIDE DEF places, place, parents
    <2> QED BY <1>2, <1>3, <2>1, UnionFinite
  <1>5. DOMAIN Edges(files, parsed) = places
    BY DEF Edges
  <1> HIDE DEF places, At
  <1> QED BY <1>4, <1>5

EntityDims == {"agent_entities", "tools", "mcp_servers"}

\* The facts of a dimension in the syntax trees of some files.
TreesOf(dim, files, some) ==
  UNION {CASE dim = "agent_entities" -> TreeAgents(i, files[i])
           [] dim = "tools" -> TreeTools(i, files[i])
           [] OTHER -> TreeServers(i, files[i]) : i \in some}

\* The reference that the files that were read give, and among them those with a syntax tree.
LEMMA ReferenceIs ==
  ASSUME NEW files, FilesAre(files), NEW read \in SUBSET DOMAIN files, NEW parsed \in SUBSET read,
         NEW diagnostics
  PROVE  LET ref == ReferenceFrom(files, read, parsed, diagnostics) IN
         /\ IsReference(ref)
         /\ \A dim \in EntityDims : \A a \in TreesOf(dim, files, parsed) :
              \E n \in DOMAIN FactsOf(ref, dim) :
                KeyOf(FactsOf(ref, dim)[n]) = KeyOf(a) /\ FactsOf(ref, dim)[n] \in TreesOf(dim, files, parsed)
  <1> DEFINE ref == ReferenceFrom(files, read, parsed, diagnostics)
             All(g, some) == UNION {g[i] : i \in some}
             ta == [i \in parsed |-> TreeAgents(i, files[i])]
             tt == [i \in parsed |-> TreeTools(i, files[i])]
             ts == [i \in parsed |-> TreeServers(i, files[i])]
             xa == [i \in read |-> TextAgents(i, files[i])]
             xt == [i \in read |-> TextTools(i, files[i])]
             xs == [i \in read |-> TextServers(i, files[i])]
  <1>1. ref.agents = Together(All(ta, parsed), All(xa, read))
    BY DEF ReferenceFrom
  <1>2. ref.tools = Together(All(tt, parsed), All(xt, read))
    BY DEF ReferenceFrom
  <1>3. ref.servers = Together(All(ts, parsed), All(xs, read))
    BY DEF ReferenceFrom
  <1>4. ref.edges = Edges(files, parsed)
    BY DEF ReferenceFrom
  <1>5. \A i \in DOMAIN files : IsFile(files[i])
    BY DEF FilesAre
  <1>6. /\ FactsAre(All(ta, parsed), files) /\ FactsAre(All(tt, parsed), files)
        /\ FactsAre(All(ts, parsed), files)
    <2>1. \A i \in parsed : /\ IsFiniteSet(ta[i]) /\ \A a \in ta[i] : IsFactOf(a, i, files[i])
                            /\ IsFiniteSet(tt[i]) /\ \A a \in tt[i] : IsFactOf(a, i, files[i])
                            /\ IsFiniteSet(ts[i]) /\ \A a \in ts[i] : IsFactOf(a, i, files[i])
      BY <1>5, FileFacts
    <2>2. DOMAIN ta = parsed /\ DOMAIN tt = parsed /\ DOMAIN ts = parsed /\ parsed \in SUBSET DOMAIN files
      OBVIOUS
    <2> HIDE DEF ta, tt, ts
    <2> QED BY <2>1, <2>2, Gathered
  <1>7. /\ FactsAre(All(xa, read), files) /\ FactsAre(All(xt, read), files)
        /\ FactsAre(All(xs, read), files)
    <2>1. \A i \in read : /\ IsFiniteSet(xa[i]) /\ \A a \in xa[i] : IsFactOf(a, i, files[i])
                          /\ IsFiniteSet(xt[i]) /\ \A a \in xt[i] : IsFactOf(a, i, files[i])
                          /\ IsFiniteSet(xs[i]) /\ \A a \in xs[i] : IsFactOf(a, i, files[i])
      BY <1>5, FileFacts
    <2>2. DOMAIN xa = read /\ DOMAIN xt = read /\ DOMAIN xs = read /\ read \in SUBSET DOMAIN files
      OBVIOUS
    <2> HIDE DEF xa, xt, xs
    <2> QED BY <2>1, <2>2, Gathered
  <1>8. IsFiniteSet(DOMAIN ref.edges)
    BY <1>4, EdgesFinite
  <1>9. /\ TreesOf("agent_entities", files, parsed) = All(ta, parsed)
        /\ TreesOf("tools", files, parsed) = All(tt, parsed)
        /\ TreesOf("mcp_servers", files, parsed) = All(ts, parsed)
    BY DEF TreesOf
  <1> HIDE DEF ref, All, ta, tt, ts, xa, xt, xs
  <1>10. IsReference(ref)
    BY <1>1, <1>2, <1>3, <1>6, <1>7, <1>8, TogetherIs DEF IsReference
  <1>11. ASSUME NEW dim \in EntityDims
         PROVE  \A a \in TreesOf(dim, files, parsed) : \E n \in DOMAIN FactsOf(ref, dim) :
                  KeyOf(FactsOf(ref, dim)[n]) = KeyOf(a) /\ FactsOf(ref, dim)[n] \in TreesOf(dim, files, parsed)
    <2>1. CASE dim = "agent_entities"
      <3>1. FactsOf(ref, dim) = ref.agents
        BY <2>1 DEF FactsOf
      <3>2. \A a \in All(ta, parsed) : \E n \in DOMAIN ref.agents :
              KeyOf(ref.agents[n]) = KeyOf(a) /\ ref.agents[n] \in All(ta, parsed)
        BY <1>1, <1>6, <1>7, TogetherIs
      <3> QED BY <1>9, <2>1, <3>1, <3>2
    <2>2. CASE dim = "tools"
      <3>1. FactsOf(ref, dim) = ref.tools
        BY <2>2 DEF FactsOf
      <3>2. \A a \in All(tt, parsed) : \E n \in DOMAIN ref.tools :
              KeyOf(ref.tools[n]) = KeyOf(a) /\ ref.tools[n] \in All(tt, parsed)
        BY <1>2, <1>6, <1>7, TogetherIs
      <3> QED BY <1>9, <2>2, <3>1, <3>2
    <2>3. CASE dim = "mcp_servers"
      <3>1. FactsOf(ref, dim) = ref.servers
        BY <2>3 DEF FactsOf
      <3>2. \A a \in All(ts, parsed) : \E n \in DOMAIN ref.servers :
              KeyOf(ref.servers[n]) = KeyOf(a) /\ ref.servers[n] \in All(ts, parsed)
        BY <1>3, <1>6, <1>7, TogetherIs
      <3> QED BY <1>9, <2>3, <3>1, <3>2
    <2> QED BY <2>1, <2>2, <2>3 DEF EntityDims
  <1> QED BY <1>10, <1>11 DEF ref

\* A truth that can be scored against.
IsTruth(t) == IsReference(t.reference) /\ (t.tierB # None => IsFiniteSet(DOMAIN t.tierB))

\* What the truth's workflow writes can be scored against.
LEMMA BuiltIsTruth ==
  ASSUME NEW case, NEW app, IsApp(app), NEW error, NEW inB, NEW inC
  PROVE  IsTruth(BuildTruth(case, app, error, inB, inC))
  <1> DEFINE files == IF error # "none" THEN <<>> ELSE app.files
             diagnostics == IF error # "none" THEN {error} ELSE ScopeDiagnostics(app.files)
             read == Sources(files)
             parsed == {i \in read : files[i].lang \in TreeLangs /\ files[i].parses}
             ref == ReferenceFrom(files, read, parsed, diagnostics)
             t == BuildTruth(case, app, error, inB, inC)
  <1>1. FilesAre(files)
    <2>1. FilesAre(<<>>)
      BY DEF FilesAre, IsList
    <2>2. FilesAre(app.files)
      BY DEF FilesAre, IsApp, ToSet
    <2> QED BY <2>1, <2>2
  <1>2. read \in SUBSET DOMAIN files
    BY DEF Sources, InScope
  <1>3. parsed \in SUBSET read
    OBVIOUS
  <1>4. t.reference = ref /\ t.tierB = IF inB THEN Relations(ref) ELSE None
    BY DEF BuildTruth, WithTiers, Reference
  <1> HIDE DEF files, diagnostics, read, parsed
  <1>5. IsReference(ref)
    BY <1>1, <1>2, <1>3, ReferenceIs
  <1> HIDE DEF ref, t
  <1>6. IsFiniteSet(DOMAIN Relations(ref))
    <2>1. DOMAIN Relations(ref) \in SUBSET DOMAIN ref.tools
      BY DEF Relations
    <2> QED BY <1>5, <2>1, ListFinite, FS_Subset DEF IsReference
  <1>7. IsTruth(t)
    BY <1>4, <1>5, <1>6 DEF IsTruth
  <1> QED BY <1>7 DEF t

-----------------------------------------------------------------------------
(* Counts                                                                  *)

SameName(fact, node) == Norm(node.name) \in Aliases(fact)

\* A matching pairs facts with predictions; a prediction that has the name of a fact is taken
\* for its name, or the fact has taken another one of its name.
LEMMA MatchingIs ==
  ASSUME NEW facts, IsList(facts), NEW nodes, IsList(nodes), NEW predicted \in SUBSET DOMAIN nodes
  PROVE  LET matched == Matching(facts, nodes, predicted) IN
         /\ matched \subseteq (DOMAIN facts) \X predicted
         /\ \A t \in DOMAIN facts, k \in predicted : SameName(facts[t], nodes[k]) =>
              \E b \in matched : SameName(facts[b[1]], nodes[b[2]]) /\ (b[1] = t \/ b[2] = k)
  <1> DEFINE names == {a \in (DOMAIN facts) \X predicted : SameName(facts[a[1]], nodes[a[2]])}
             places == {a \in (DOMAIN facts) \X predicted : Places(facts[a[1]], nodes[a[2]])}
             byName == Pass(names, Len(facts), {})
             matched == Pass(places, Len(facts), byName)
  <1>1. Matching(facts, nodes, predicted) = matched
    BY DEF Matching, SameName
  <1>2. Len(facts) \in Nat /\ DOMAIN facts = 1..Len(facts) /\ predicted \subseteq Nat
    BY DEF IsList
  <1>3. /\ \A a \in names : a = <<a[1], a[2]>> /\ a[2] \in Nat /\ a[1] \in 1..Len(facts)
        /\ \A a \in places : a = <<a[1], a[2]>> /\ a[2] \in Nat
    BY <1>2
  <1>4. names \subseteq (DOMAIN facts) \X predicted /\ places \subseteq (DOMAIN facts) \X predicted
    OBVIOUS
  <1>5. \A a \in names : SameName(facts[a[1]], nodes[a[2]])
    OBVIOUS
  <1>6. ASSUME NEW t \in DOMAIN facts, NEW k \in predicted, SameName(facts[t], nodes[k])
        PROVE  <<t, k>> \in names /\ <<t, k>>[1] = t /\ <<t, k>>[2] = k
    BY <1>6
  <1> HIDE DEF names, places
  <1>7. /\ byName \subseteq names
        /\ \A a \in names : \E b \in byName : b[1] = a[1] \/ b[2] = a[2]
    BY <1>2, <1>3, PassAnswers
  <1> HIDE DEF byName
  <1>8. byName \subseteq matched /\ matched \subseteq byName \cup places
    BY <1>2, <1>3, PassAnswers
  <1> HIDE DEF matched
  <1>9. matched \subseteq (DOMAIN facts) \X predicted
    BY <1>4, <1>7, <1>8
  <1>10. ASSUME NEW t \in DOMAIN facts, NEW k \in predicted, SameName(facts[t], nodes[k])
         PROVE  \E b \in matched : SameName(facts[b[1]], nodes[b[2]]) /\ (b[1] = t \/ b[2] = k)
    <2>1. PICK b \in byName : b[1] = t \/ b[2] = k
      BY <1>6, <1>7, <1>10
    <2> QED BY <1>5, <1>7, <1>8, <2>1
  <1> QED BY <1>1, <1>9, <1>10

LEMMA CountsAre ==
  ASSUME NEW truth \in Nat, NEW predicted \in Nat, NEW tp \in Nat, NEW right \in Nat, NEW eligible,
         tp <= truth, right <= predicted
  PROVE  LET n == Counts(truth, predicted, tp, right, eligible) IN
         /\ IsCounts(n) /\ n.truth = truth /\ n.predicted = predicted
         /\ n.fp = IF eligible THEN predicted - right ELSE 0
  <1> DEFINE n == Counts(truth, predicted, tp, right, eligible)
  <1>1. /\ n.truth = truth /\ n.predicted = predicted /\ n.tp = tp /\ n.fn = truth - tp
        /\ n.precisionTp = IF eligible THEN right ELSE 0
        /\ n.fp = IF eligible THEN predicted - right ELSE 0
        /\ n.unadjudicated = IF eligible THEN 0 ELSE predicted - right
    BY DEF Counts
  <1>2. truth - tp \in Nat /\ predicted - right \in Nat /\ truth = tp + (truth - tp) /\ 0 \in Nat
    OBVIOUS
  <1> HIDE DEF n
  <1>3. IsCounts(n)
    BY <1>1, <1>2 DEF IsCounts
  <1> QED BY <1>1, <1>3 DEF n

Firsts(matched) == {a[1] : a \in matched}
Seconds(matched) == {a[2] : a \in matched}

\* The facts and the predictions of a matching are some of those there are.
LEMMA MatchedBound ==
  ASSUME NEW facts, IsList(facts), NEW predicted, IsFiniteSet(predicted),
         NEW matched \in SUBSET ((DOMAIN facts) \X predicted)
  PROVE  /\ Cardinality(Firsts(matched)) \in Nat /\ Cardinality(Firsts(matched)) <= Len(facts)
         /\ Cardinality(Seconds(matched)) \in Nat
         /\ Cardinality(Seconds(matched)) <= Cardinality(predicted)
         /\ Cardinality(predicted) \in Nat /\ IsFiniteSet(Seconds(matched))
  <1>1. Firsts(matched) \in SUBSET DOMAIN facts /\ Seconds(matched) \in SUBSET predicted
    BY DEF Firsts, Seconds
  <1> QED BY <1>1, ListFinite, FS_Subset, FS_CardinalityType

PredictedAre(scan, dim) == IsFiniteSet(PredictedOf(scan, dim)) /\ PredictedOf(scan, dim) \in SUBSET DOMAIN scan.nodes

LEMMA PredictedFinite ==
  ASSUME NEW scan, IsScan(scan), NEW dim
  PROVE  PredictedAre(scan, dim)
  <1>1. PredictedOf(scan, dim) \in SUBSET DOMAIN scan.nodes
    BY DEF PredictedOf
  <1> QED BY <1>1, ListFinite, FS_Subset DEF IsScan, PredictedAre

LEMMA FactsAreListed ==
  ASSUME NEW ref, IsReference(ref), NEW dim
  PROVE  IsList(FactsOf(ref, dim))
  BY DEF FactsOf, IsReference

\* Agents, tools and servers.
LEMMA EntityCountsAre ==
  ASSUME NEW ref, IsReference(ref), NEW scan, IsScan(scan), NEW dim
  PROVE  LET n == EntityCounts(ref, scan, dim)
             matched == Matching(FactsOf(ref, dim), scan.nodes, PredictedOf(scan, dim))
         IN /\ IsCounts(n) /\ n.truth = Len(FactsOf(ref, dim))
            /\ n.predicted = Cardinality(PredictedOf(scan, dim))
            /\ n.fp = IF ref.complete[dim] THEN n.predicted - Cardinality(Seconds(matched)) ELSE 0
  <1> DEFINE facts == FactsOf(ref, dim)
             predicted == PredictedOf(scan, dim)
             matched == Matching(facts, scan.nodes, predicted)
             tp == Cardinality(Firsts(matched))
             right == Cardinality(Seconds(matched))
  <1>1. EntityCounts(ref, scan, dim) = Counts(Len(facts), Cardinality(predicted), tp, right, ref.complete[dim])
    BY DEF EntityCounts, Firsts, Seconds
  <1>2. IsList(facts) /\ IsList(scan.nodes) /\ IsFiniteSet(predicted) /\ predicted \in SUBSET DOMAIN scan.nodes
    BY FactsAreListed, PredictedFinite DEF IsScan, PredictedAre
  <1> HIDE DEF facts, predicted
  <1>3. matched \in SUBSET ((DOMAIN facts) \X predicted)
    BY <1>2, MatchingIs
  <1> HIDE DEF matched
  <1>4. /\ tp \in Nat /\ tp <= Len(facts) /\ right \in Nat /\ right <= Cardinality(predicted)
        /\ Cardinality(predicted) \in Nat /\ Len(facts) \in Nat
    BY <1>2, <1>3, MatchedBound, ListFinite
  <1> HIDE DEF tp, right
  <1>5. LET n == Counts(Len(facts), Cardinality(predicted), tp, right, ref.complete[dim]) IN
        /\ IsCounts(n) /\ n.truth = Len(facts) /\ n.predicted = Cardinality(predicted)
        /\ n.fp = IF ref.complete[dim] THEN Cardinality(predicted) - right ELSE 0
    BY <1>4, CountsAre
  <1>6. /\ IsCounts(EntityCounts(ref, scan, dim)) /\ EntityCounts(ref, scan, dim).truth = Len(facts)
        /\ EntityCounts(ref, scan, dim).predicted = Cardinality(predicted)
        /\ EntityCounts(ref, scan, dim).fp = IF ref.complete[dim] THEN Cardinality(predicted) - right ELSE 0
    BY <1>1, <1>5
  <1> QED BY <1>6 DEF facts, predicted, matched, right

LEMMA DelegationCountsAre ==
  ASSUME NEW ref, IsReference(ref), NEW scan, IsScan(scan)
  PROVE  IsCounts(DelegationCounts(ref, scan))
  <1> DEFINE expected == [i \in DOMAIN ref.edges |->
                            <<Canonical(ref, ref.edges[i][1]), Canonical(ref, ref.edges[i][2])>>]
             inGraph == {i \in DOMAIN scan.edges :
                           {scan.edges[i][1], scan.edges[i][2]} \subseteq DOMAIN scan.nodes}
             pairs == [i \in inGraph |-> <<Canonical(ref, scan.nodes[scan.edges[i][1]].name),
                                           Canonical(ref, scan.nodes[scan.edges[i][2]].name)>>]
             tp == Common(expected, pairs)
             n == Counts(Cardinality(DOMAIN expected), Cardinality(inGraph), tp, tp,
                         ref.complete["delegation_edges"])
  <1>1. DelegationCounts(ref, scan) = [n EXCEPT !.predicted = Len(scan.edges)]
    BY DEF DelegationCounts
  <1>2. DOMAIN expected = DOMAIN ref.edges /\ DOMAIN pairs = inGraph /\ inGraph \in SUBSET DOMAIN scan.edges
    OBVIOUS
  <1> HIDE DEF expected, inGraph, pairs
  <1>3. IsFiniteSet(DOMAIN expected) /\ IsFiniteSet(DOMAIN pairs)
    BY <1>2, ListFinite, FS_Subset DEF IsReference, IsScan
  <1>4. /\ tp \in Nat /\ tp <= Cardinality(DOMAIN expected) /\ tp <= Cardinality(DOMAIN pairs)
        /\ Cardinality(DOMAIN expected) \in Nat /\ Cardinality(DOMAIN pairs) \in Nat
    BY <1>3, CommonBound, FS_CardinalityType
  <1> HIDE DEF tp
  <1>5. IsCounts(n)
    BY <1>2, <1>4, CountsAre
  <1>6. LET m == [n EXCEPT !.predicted = Len(scan.edges)] IN
        /\ m.truth = n.truth /\ m.tp = n.tp /\ m.fn = n.fn /\ m.fp = n.fp
        /\ m.precisionTp = n.precisionTp /\ m.unadjudicated = n.unadjudicated
    BY DEF Counts
  <1> HIDE DEF n
  <1> QED BY <1>1, <1>5, <1>6 DEF IsCounts

LEMMA AuthorityCountsAre ==
  ASSUME NEW truth, IsTruth(truth), truth.tierB # None, NEW scan, IsScan(scan)
  PROVE  IsCounts(AuthorityCounts(truth, scan))
  <1> DEFINE ref == truth.reference
             Key(r) == <<Canonical(ref, r[1]), r[2], Norm(r[3])>>
             expected == [i \in DOMAIN truth.tierB |-> Key(truth.tierB[i])]
             predicted == [i \in DOMAIN scan.relations |-> Key(scan.relations[i])]
             tp == Common(expected, predicted)
             complete == \A d \in {"agent_entities", "tools", "mcp_servers"} : ref.complete[d]
  <1>1. AuthorityCounts(truth, scan)
          = Counts(Cardinality(DOMAIN expected), Len(scan.relations), tp, tp, complete)
    BY DEF AuthorityCounts
  <1>2. DOMAIN expected = DOMAIN truth.tierB /\ DOMAIN predicted = DOMAIN scan.relations
    OBVIOUS
  <1> HIDE DEF expected, predicted, complete
  <1>3. /\ IsFiniteSet(DOMAIN expected) /\ IsFiniteSet(DOMAIN predicted)
        /\ Cardinality(DOMAIN predicted) = Len(scan.relations)
    BY <1>2, ListFinite DEF IsTruth, IsScan
  <1>4. /\ tp \in Nat /\ tp <= Cardinality(DOMAIN expected) /\ tp <= Len(scan.relations)
        /\ Cardinality(DOMAIN expected) \in Nat /\ Len(scan.relations) \in Nat
    BY <1>3, CommonBound, FS_CardinalityType
  <1> HIDE DEF tp
  <1> QED BY <1>1, <1>4, CountsAre

\* The result of a case that was scanned.
LEMMA ScoredIs ==
  ASSUME NEW case, NEW truth, IsTruth(truth), NEW scan, IsScan(scan)
  PROVE  LET c == Scored(case, truth, scan) IN
         /\ c.id = case.id /\ c.stratum = case.stratum /\ c.status = "success"
         /\ DOMAIN c.comparisons = ComparedWith(truth)
         /\ \A d \in ComparedWith(truth) : c.comparisons[d] = Comparison(truth, scan, d)
         /\ IsResult(c)
  <1> DEFINE c == Scored(case, truth, scan)
  <1>1. /\ c.id = case.id /\ c.stratum = case.stratum /\ c.status = "success"
        /\ c.comparisons = [d \in ComparedWith(truth) |-> Comparison(truth, scan, d)]
    BY DEF Scored
  <1> HIDE DEF c
  <1>2. ASSUME NEW d \in ComparedWith(truth)
        PROVE  IsCounts(Comparison(truth, scan, d))
    <2>1. CASE d = "delegation_edges"
      BY <2>1, DelegationCountsAre DEF Comparison, IsTruth
    <2>2. CASE d = "effective_authority"
      <3>1. truth.tierB # None
        BY <2>2 DEF ComparedWith, Dims
      <3> QED BY <2>2, <3>1, AuthorityCountsAre DEF Comparison
    <2>3. CASE d \notin {"delegation_edges", "effective_authority"}
      BY <2>3, EntityCountsAre DEF Comparison, IsTruth
    <2> QED BY <2>1, <2>2, <2>3
  <1>3. IsResult(c)
    BY <1>1, <1>2 DEF IsResult
  <1> QED BY <1>1, <1>3 DEF c

-----------------------------------------------------------------------------
(* Reports                                                                 *)

\* Where the values of a key are as many as the entries no two entries share one.
LEMMA DistinctMeans ==
  ASSUME NEW list, IsList(list), NEW key, DistinctBy(list, key)
  PROVE  \A i, j \in DOMAIN list : list[i][key] = list[j][key] => i = j
  <1> DEFINE D == DOMAIN list
             f == [i \in D |-> list[i][key]]
  <1>1. IsFiniteSet(D) /\ Cardinality(D) = Len(list)
    BY ListFinite
  <1>2. f \in Surjection(D, IdsOf(list, key))
    BY DEF Surjection, IdsOf, ToSet
  <1>3. Cardinality(IdsOf(list, key)) = Cardinality(D)
    BY <1>1 DEF DistinctBy
  <1>4. f \in Injection(D, IdsOf(list, key))
    <2> HIDE DEF f, D
    <2> QED BY <1>1, <1>2, <1>3, FS_Surjection
  <1>5. \A i, j \in D : f[i] = f[j] => i = j
    BY <1>4 DEF Injection, IsInjective
  <1> QED BY <1>5

\* Conversely, entries with different values have as many of them.
LEMMA MeansDistinct ==
  ASSUME NEW list, IsList(list), NEW key,
         \A i, j \in DOMAIN list : list[i][key] = list[j][key] => i = j
  PROVE  DistinctBy(list, key)
  <1> DEFINE D == DOMAIN list
             f == [i \in D |-> list[i][key]]
  <1>1. IsFiniteSet(D) /\ Cardinality(D) = Len(list)
    BY ListFinite
  <1>2. f \in Surjection(D, IdsOf(list, key))
    BY DEF Surjection, IdsOf, ToSet
  <1>3. f \in Injection(D, IdsOf(list, key))
    BY <1>2 DEF Injection, IsInjective, Surjection
  <1>4. Cardinality(IdsOf(list, key)) = Cardinality(D)
    <2> HIDE DEF f, D
    <2> QED BY <1>1, <1>2, <1>3, FS_Surjection
  <1> QED BY <1>1, <1>4 DEF DistinctBy

Results(cases) == IsList(cases) /\ \A i \in DOMAIN cases : IsResult(cases[i])

\* What a metric adds up.
Entry(cases, chosen, dim, field, i) ==
  IF i \in chosen /\ dim \in DOMAIN cases[i].comparisons
  THEN cases[i].comparisons[dim][field] ELSE 0
Entries(cases, chosen, dim, field) == [i \in DOMAIN cases |-> Entry(cases, chosen, dim, field, i)]

Total(cases, chosen, dim, field) == Sum(Entries(cases, chosen, dim, field))

NumberFields == {"truth", "tp", "fn", "fp", "precisionTp", "unadjudicated"}

LEMMA EntriesAre ==
  ASSUME NEW cases, Results(cases), NEW chosen \in SUBSET Successes(cases), NEW dim
  PROVE  /\ \A field \in NumberFields :
              LET list == Entries(cases, chosen, dim, field) IN
              /\ Len(list) = Len(cases) /\ DOMAIN list = 1..Len(cases) /\ Len(cases) \in Nat
              /\ \A i \in 1..Len(cases) : /\ list[i] = Entry(cases, chosen, dim, field, i)
                                          /\ list[i] \in Nat
         /\ \A i \in 1..Len(cases) :
              Entry(cases, chosen, dim, "truth", i)
                = Entry(cases, chosen, dim, "tp", i) + Entry(cases, chosen, dim, "fn", i)
  <1>1. Len(cases) \in Nat /\ DOMAIN cases = 1..Len(cases)
    BY DEF Results, IsList
  <1>2. ASSUME NEW i \in 1..Len(cases)
        PROVE  /\ \A field \in NumberFields : Entry(cases, chosen, dim, field, i) \in Nat
               /\ Entry(cases, chosen, dim, "truth", i)
                    = Entry(cases, chosen, dim, "tp", i) + Entry(cases, chosen, dim, "fn", i)
    <2>1. CASE i \in chosen /\ dim \in DOMAIN cases[i].comparisons
      <3> DEFINE n == cases[i].comparisons[dim]
      <3>1. cases[i].status = "success"
        BY <2>1 DEF Successes
      <3>2. IsCounts(n)
        BY <1>1, <2>1, <3>1 DEF Results, IsResult
      <3>3. \A field : Entry(cases, chosen, dim, field, i) = n[field]
        BY <2>1 DEF Entry
      <3> HIDE DEF n
      <3>4. \A field \in NumberFields : n[field] \in Nat
        BY <3>2 DEF IsCounts, NumberFields
      <3>5. n["truth"] = n["tp"] + n["fn"]
        BY <3>2 DEF IsCounts
      <3> QED BY <3>3, <3>4, <3>5
    <2>2. CASE ~(i \in chosen /\ dim \in DOMAIN cases[i].comparisons)
      <3>1. \A field : Entry(cases, chosen, dim, field, i) = 0
        BY <2>2 DEF Entry
      <3> QED BY <3>1
    <2> QED BY <2>1, <2>2
  <1>3. ASSUME NEW field
        PROVE  LET list == Entries(cases, chosen, dim, field) IN
               /\ DOMAIN list = 1..Len(cases) /\ Len(list) = Len(cases)
               /\ \A i \in 1..Len(cases) : list[i] = Entry(cases, chosen, dim, field, i)
    <2> DEFINE list == Entries(cases, chosen, dim, field)
    <2>1. list = [i \in 1..Len(cases) |-> Entry(cases, chosen, dim, field, i)]
      BY <1>1 DEF Entries
    <2>2. Len(list) = Len(cases)
      BY <1>1, <2>1
    <2> QED BY <2>1, <2>2
  <1> QED BY <1>1, <1>2, <1>3

\* A metric is of natural numbers, and what the reference has is found or missed.
LEMMA MetricIs ==
  ASSUME NEW cases, Results(cases), NEW chosen \in SUBSET Successes(cases), NEW dim
  PROVE  LET m == Metric(cases, chosen, dim) IN
         /\ m.truth \in Nat /\ m.tp \in Nat /\ m.fn \in Nat /\ m.fp \in Nat /\ m.unadjudicated \in Nat
         /\ m.truth = m.tp + m.fn
         /\ m.truth = Total(cases, chosen, dim, "truth")
         /\ m.tp = Total(cases, chosen, dim, "tp")
         /\ m.recall = Ratio(m.tp, m.truth)
  <1> DEFINE T(field) == Total(cases, chosen, dim, field)
             m == Metric(cases, chosen, dim)
  <1>1. /\ m.truth = T("truth") /\ m.tp = T("tp") /\ m.fn = T("fn") /\ m.fp = T("fp")
        /\ m.unadjudicated = T("unadjudicated")
        /\ m.recall = Ratio(T("tp"), T("tp") + T("fn"))
    BY DEF Metric, Total, Entries, Entry
  <1>2. \A field \in NumberFields : T(field) \in Nat
    <2> TAKE field \in NumberFields
    <2> DEFINE list == Entries(cases, chosen, dim, field)
    <2>1. Len(list) = Len(cases) /\ Len(cases) \in Nat /\ \A k \in 1..Len(cases) : list[k] \in Nat
      BY EntriesAre
    <2> HIDE DEF list
    <2>2. Sum(list) \in Nat
      BY <2>1, SumType
    <2> QED BY <2>2 DEF list, Total
  <1>3. T("truth") = T("tp") + T("fn")
    <2> DEFINE a == Entries(cases, chosen, dim, "tp")
               b == Entries(cases, chosen, dim, "fn")
               c == Entries(cases, chosen, dim, "truth")
    <2> DEFINE E(field, k) == Entry(cases, chosen, dim, field, k)
    <2>3. /\ Len(cases) \in Nat
          /\ Len(a) = Len(cases) /\ \A k \in 1..Len(cases) : a[k] = E("tp", k) /\ a[k] \in Nat
      BY EntriesAre DEF NumberFields
    <2>4. Len(b) = Len(cases) /\ \A k \in 1..Len(cases) : b[k] = E("fn", k) /\ b[k] \in Nat
      BY EntriesAre DEF NumberFields
    <2>5. Len(c) = Len(cases) /\ \A k \in 1..Len(cases) : c[k] = E("truth", k)
      BY EntriesAre DEF NumberFields
    <2>6. \A k \in 1..Len(cases) : E("truth", k) = E("tp", k) + E("fn", k)
      BY EntriesAre
    <2> HIDE DEF a, b, c, E
    <2>1. /\ Len(a) = Len(cases) /\ Len(b) = Len(cases) /\ Len(c) = Len(cases) /\ Len(cases) \in Nat
          /\ \A k \in 1..Len(cases) : a[k] \in Nat /\ b[k] \in Nat /\ c[k] = a[k] + b[k]
      BY <2>3, <2>4, <2>5, <2>6
    <2>2. Sum(c) = Sum(a) + Sum(b)
      BY <2>1, SumAdds
    <2> QED BY <2>2 DEF a, b, c, Total
  <1> HIDE DEF T, m
  <1>4. /\ T("truth") \in Nat /\ T("tp") \in Nat /\ T("fn") \in Nat /\ T("fp") \in Nat
        /\ T("unadjudicated") \in Nat
    BY <1>2 DEF NumberFields
  <1>5. /\ m.truth \in Nat /\ m.tp \in Nat /\ m.fn \in Nat /\ m.fp \in Nat /\ m.unadjudicated \in Nat
        /\ m.truth = m.tp + m.fn /\ m.truth = T("truth") /\ m.tp = T("tp")
        /\ m.recall = Ratio(m.tp, m.truth)
    BY <1>1, <1>3, <1>4
  <1> QED BY <1>5 DEF T, m

\* The fields of a report.
LEMMA AggregateIs ==
  ASSUME NEW cases, NEW scanner, NEW mode
  PROVE  LET r == Aggregate(cases, scanner, mode)
             scanned == Successes(cases)
         IN /\ r.cases = cases /\ r.scanner = scanner /\ r.mode = mode /\ r.cohortCases = Len(cases)
            /\ r.successful = Cardinality(scanned)
            /\ r.failures = {[id |-> cases[i].id, status |-> cases[i].status] : i \in (DOMAIN cases) \ scanned}
            /\ \A d \in AllDims : r.metrics[d] = Metric(cases, scanned, d)
            /\ DOMAIN r.frameworks = IdsOf(cases, "stratum")
            /\ \A s \in IdsOf(cases, "stratum"), d \in AllDims :
                 r.frameworks[s][d] = Metric(cases, {i \in scanned : cases[i].stratum = s}, d)
  BY DEF Aggregate, Metrics

\* Every case of a report was scanned or failed.
LEMMA CasesAddUp ==
  ASSUME NEW cases, IsList(cases), DistinctBy(cases, "id"), NEW scanner, NEW mode
  PROVE  LET r == Aggregate(cases, scanner, mode) IN
         r.successful + Cardinality(r.failures) = r.cohortCases
  <1> DEFINE D == DOMAIN cases
             S == Successes(cases)
             R == D \ S
             g == [i \in R |-> [id |-> cases[i].id, status |-> cases[i].status]]
             F == {[id |-> cases[i].id, status |-> cases[i].status] : i \in R}
  <1>1. IsFiniteSet(D) /\ Cardinality(D) = Len(cases) /\ Len(cases) \in Nat
    BY ListFinite
  <1>2. S \in SUBSET D
    BY DEF Successes
  <1>3. \A i, j \in D : cases[i].id = cases[j].id => i = j
    <2>1. \A i, j \in D : cases[i]["id"] = cases[j]["id"] => i = j
      BY DistinctMeans
    <2> QED BY <2>1
  <1>4. g \in Surjection(R, F)
    BY DEF Surjection
  <1>5. g \in Injection(R, F)
    <2>1. \A i, j \in R : g[i] = g[j] => i = j
      <3>1. \A i \in R : g[i].id = cases[i].id
        OBVIOUS
      <3> HIDE DEF g
      <3> QED BY <1>3, <3>1
    <2>2. g \in [R -> F]
      OBVIOUS
    <2> HIDE DEF g, R, F
    <2> QED BY <2>1, <2>2 DEF Injection, IsInjective
  <1>6. IsFiniteSet(R) /\ Cardinality(R) = Cardinality(D) - Cardinality(S)
    <2>1. D \cap S = S
      BY <1>2
    <2>2. IsFiniteSet(D \ S) /\ Cardinality(D \ S) = Cardinality(D) - Cardinality(D \cap S)
      <3> HIDE DEF D, S
      <3> QED BY <1>1, FS_Difference
    <2> QED BY <2>1, <2>2
  <1>7. Cardinality(F) = Cardinality(R)
    <2> HIDE DEF g, R, F
    <2> QED BY <1>4, <1>5, <1>6, FS_Surjection
  <1>8. Cardinality(S) \in Nat
    BY <1>1, <1>2, FS_Subset, FS_CardinalityType
  <1>9. LET r == Aggregate(cases, scanner, mode) IN
        r.successful = Cardinality(S) /\ r.failures = F /\ r.cohortCases = Len(cases)
    BY AggregateIs
  <1> HIDE DEF D, S, R, F
  <1>10. Cardinality(S) + Cardinality(F) = Len(cases)
    BY <1>1, <1>6, <1>7, <1>8
  <1> QED BY <1>9, <1>10

FailedIn(report) == {f.id : f \in report.failures}

\* Whose cases failed according to a report.
LEMMA FailedAre ==
  ASSUME NEW cases, NEW scanner, NEW mode
  PROVE  FailedIn(Aggregate(cases, scanner, mode)) = {cases[i].id : i \in (DOMAIN cases) \ Successes(cases)}
  <1> DEFINE R == (DOMAIN cases) \ Successes(cases)
             r == Aggregate(cases, scanner, mode)
  <1>1. r.failures = {[id |-> cases[i].id, status |-> cases[i].status] : i \in R}
    BY AggregateIs
  <1> HIDE DEF R, r
  <1>2. \A x : x \in FailedIn(r) <=> \E f \in r.failures : x = f.id
    BY DEF FailedIn
  <1>3. \A i \in R : \E f \in r.failures : f.id = cases[i].id
    BY <1>1
  <1>4. \A f \in r.failures : \E i \in R : f.id = cases[i].id
    BY <1>1
  <1>5. FailedIn(r) = {cases[i].id : i \in R}
    BY <1>2, <1>3, <1>4
  <1> QED BY <1>5 DEF R, r

LEMMA EntryIs ==
  ASSUME NEW cases, Results(cases), NEW chosen \in SUBSET Successes(cases), NEW dim,
         NEW field \in NumberFields
  PROVE  /\ Len(Entries(cases, chosen, dim, field)) = Len(cases) /\ Len(cases) \in Nat
         /\ \A i \in 1..Len(cases) :
              /\ Entries(cases, chosen, dim, field)[i] = Entry(cases, chosen, dim, field, i)
              /\ Entries(cases, chosen, dim, field)[i] \in Nat
              /\ Entry(cases, chosen, dim, field, i) \in Nat
  <1> DEFINE list == Entries(cases, chosen, dim, field)
             E(i) == Entry(cases, chosen, dim, field, i)
  <1>1. /\ Len(list) = Len(cases) /\ Len(cases) \in Nat
        /\ \A i \in 1..Len(cases) : list[i] = E(i) /\ list[i] \in Nat
    BY EntriesAre
  <1> HIDE DEF list, E
  <1>2. \A i \in 1..Len(cases) : list[i] = E(i) /\ list[i] \in Nat /\ E(i) \in Nat
    BY <1>1
  <1> QED BY <1>1, <1>2 DEF list, E

\* The entries of two lists of results that are measured alike, when the second has no case
\* that failed in it alone.
LEMMA EntriesCompare ==
  ASSUME NEW b, Results(b), NEW a, Results(a), Len(a) = Len(b), NEW d \in AllDims,
         Successes(b) \subseteq Successes(a),
         \A i \in DOMAIN b : b[i].status = "success" /\ a[i].status = "success" =>
           /\ (d \in DOMAIN b[i].comparisons) = (d \in DOMAIN a[i].comparisons)
           /\ d \in DOMAIN b[i].comparisons => b[i].comparisons[d].truth = a[i].comparisons[d].truth
  PROVE  \A i \in 1..Len(b) :
           /\ Entry(b, Successes(b), d, "truth", i) <= Entry(a, Successes(a), d, "truth", i)
           /\ Entry(a, Successes(a), d, "tp", i) = FoundOf(a[i], d)
           /\ Entry(b, Successes(b), d, "tp", i) = FoundOf(b[i], d)
  <1> SUFFICES ASSUME NEW i \in 1..Len(b)
               PROVE  /\ Entry(b, Successes(b), d, "truth", i) <= Entry(a, Successes(a), d, "truth", i)
                      /\ Entry(a, Successes(a), d, "tp", i) = FoundOf(a[i], d)
                      /\ Entry(b, Successes(b), d, "tp", i) = FoundOf(b[i], d)
    OBVIOUS
  <1>1. i \in DOMAIN b /\ i \in DOMAIN a
    BY DEF Results, IsList
  <1>2. /\ Entry(b, Successes(b), d, "truth", i) \in Nat
        /\ Entry(a, Successes(a), d, "truth", i) \in Nat
    <2>1. "truth" \in NumberFields /\ Successes(a) \in SUBSET Successes(a)
          /\ Successes(b) \in SUBSET Successes(b)
      BY DEF NumberFields
    <2>2. Entry(b, Successes(b), d, "truth", i) \in Nat
      BY <2>1, EntryIs
    <2>3. Entry(a, Successes(a), d, "truth", i) \in Nat
      BY <2>1, EntryIs
    <2> QED BY <2>2, <2>3
  <1>3. /\ i \in Successes(b) <=> b[i].status = "success"
        /\ i \in Successes(a) <=> a[i].status = "success"
    BY <1>1 DEF Successes
  <1>4. /\ Entry(a, Successes(a), d, "tp", i) = FoundOf(a[i], d)
        /\ Entry(b, Successes(b), d, "tp", i) = FoundOf(b[i], d)
    BY <1>3 DEF Entry, FoundOf
  <1>5. Entry(b, Successes(b), d, "truth", i) <= Entry(a, Successes(a), d, "truth", i)
    <2>1. CASE i \in Successes(b) /\ d \in DOMAIN b[i].comparisons
      <3>1. /\ i \in Successes(a) /\ d \in DOMAIN a[i].comparisons
            /\ b[i].comparisons[d].truth = a[i].comparisons[d].truth
        BY <1>1, <1>3, <2>1
      <3>2. Entry(b, Successes(b), d, "truth", i) = b[i].comparisons[d].truth
        BY <2>1 DEF Entry
      <3>3. Entry(a, Successes(a), d, "truth", i) = a[i].comparisons[d].truth
        BY <3>1 DEF Entry
      <3> QED BY <1>2, <3>1, <3>2, <3>3
    <2>2. CASE ~(i \in Successes(b) /\ d \in DOMAIN b[i].comparisons)
      <3>1. Entry(b, Successes(b), d, "truth", i) = 0
        BY <2>2 DEF Entry
      <3> QED BY <1>2, <3>1
    <2> QED BY <2>1, <2>2
  <1> QED BY <1>4, <1>5

\* A report that finds less than another in some case and more in none has a lower recall, or a
\* failure that the other did not have.
LEMMA LossShows ==
  ASSUME NEW b, Results(b), NEW a, Results(a), Len(a) = Len(b), DistinctBy(b, "id"),
         NEW scanner, NEW mode, NEW scanner2, NEW mode2,
         SameYardstick(Aggregate(b, scanner, mode), Aggregate(a, scanner2, mode2)),
         \A d \in AllDims : Aggregate(b, scanner, mode).metrics[d].truth <= 10000,
         \A i \in DOMAIN a, d \in AllDims : FoundOf(a[i], d) <= FoundOf(b[i], d),
         \E i \in DOMAIN a, d \in AllDims : FoundOf(a[i], d) < FoundOf(b[i], d)
  PROVE  LET r == Compare(Aggregate(b, scanner, mode), Aggregate(a, scanner2, mode2)) IN
         r.regressions # {} \/ r.newFailures # {}
  <1> DEFINE before == Aggregate(b, scanner, mode)
             after == Aggregate(a, scanner2, mode2)
  <1> SUFFICES Compare(before, after).regressions # {} \/ Compare(before, after).newFailures # {}
    OBVIOUS
  <1>1. before.cases = b /\ after.cases = a
    BY AggregateIs
  <1>2. DOMAIN a = DOMAIN b /\ DOMAIN b = 1..Len(b) /\ Len(b) \in Nat
    BY DEF Results, IsList
  <1>3. \A i \in DOMAIN b :
          /\ b[i].id = a[i].id
          /\ b[i].status = "success" /\ a[i].status = "success" =>
               \A d \in AllDims :
                 /\ (d \in DOMAIN b[i].comparisons) = (d \in DOMAIN a[i].comparisons)
                 /\ d \in DOMAIN b[i].comparisons =>
                      b[i].comparisons[d].truth = a[i].comparisons[d].truth
    <2> HIDE DEF before, after
    <2>1. SameYardstick(before, after)
      BY DEF before, after
    <2> QED BY <1>1, <2>1 DEF SameYardstick
  <1>4. /\ Compare(before, after).regressions = Regressions(before, after)
        /\ Compare(before, after).newFailures = FailedIn(after) \ FailedIn(before)
    BY DEF Compare, FailedIn
  <1>5. CASE \E i \in DOMAIN b : b[i].status = "success" /\ a[i].status # "success"
    <2>1. PICK i \in DOMAIN b : b[i].status = "success" /\ a[i].status # "success"
      BY <1>5
    <2>2. a[i].id \in FailedIn(after)
      <3>1. i \in (DOMAIN a) \ Successes(a)
        BY <1>2, <2>1 DEF Successes
      <3>2. FailedIn(after) = {a[k].id : k \in (DOMAIN a) \ Successes(a)}
        BY FailedAre
      <3> QED BY <3>1, <3>2
    <2>3. ASSUME a[i].id \in FailedIn(before)
          PROVE  FALSE
      <3>1. FailedIn(before) = {b[k].id : k \in (DOMAIN b) \ Successes(b)}
        BY FailedAre
      <3>2. PICK j \in (DOMAIN b) \ Successes(b) : a[i].id = b[j].id
        BY <2>3, <3>1
      <3>3. \A x, y \in DOMAIN b : b[x]["id"] = b[y]["id"] => x = y
        BY DistinctMeans DEF Results
      <3>4. i = j
        BY <1>3, <3>2, <3>3
      <3> QED BY <2>1, <3>2, <3>4 DEF Successes
    <2> HIDE DEF before, after
    <2> QED BY <1>4, <2>2, <2>3
  <1>6. CASE ~ \E i \in DOMAIN b : b[i].status = "success" /\ a[i].status # "success"
    <2>1. PICK i0 \in DOMAIN a, d \in AllDims : FoundOf(a[i0], d) < FoundOf(b[i0], d)
      OBVIOUS
    <2>2. Successes(b) \subseteq Successes(a)
      BY <1>2, <1>6 DEF Successes
    <2> DEFINE ta == Entries(a, Successes(a), d, "tp")
               tb == Entries(b, Successes(b), d, "tp")
               ra == Entries(a, Successes(a), d, "truth")
               rb == Entries(b, Successes(b), d, "truth")
               n == Len(b)
    <2>3. \A i \in 1..n :
           /\ Entry(b, Successes(b), d, "truth", i) <= Entry(a, Successes(a), d, "truth", i)
           /\ Entry(a, Successes(a), d, "tp", i) = FoundOf(a[i], d)
           /\ Entry(b, Successes(b), d, "tp", i) = FoundOf(b[i], d)
      BY <1>3, <2>2, EntriesCompare
    <2>4. Successes(a) \in SUBSET Successes(a) /\ Successes(b) \in SUBSET Successes(b)
          /\ "tp" \in NumberFields /\ "truth" \in NumberFields
      BY DEF NumberFields
    <2>5. /\ Len(ta) = n /\ \A i \in 1..n : ta[i] = Entry(a, Successes(a), d, "tp", i) /\ ta[i] \in Nat
          /\ Len(ra) = n /\ \A i \in 1..n : ra[i] = Entry(a, Successes(a), d, "truth", i) /\ ra[i] \in Nat
      BY <2>4, EntryIs
    <2>6. /\ Len(tb) = n /\ \A i \in 1..n : tb[i] = Entry(b, Successes(b), d, "tp", i) /\ tb[i] \in Nat
          /\ Len(rb) = n /\ \A i \in 1..n : rb[i] = Entry(b, Successes(b), d, "truth", i) /\ rb[i] \in Nat
      BY <2>4, EntryIs
    <2> HIDE DEF ta, tb, ra, rb
    <2>7. Sum(ta) < Sum(tb)
      <3>1. \A i \in 1..n : ta[i] \in Nat /\ tb[i] \in Nat /\ ta[i] <= tb[i]
        BY <1>2, <2>1, <2>3, <2>5, <2>6
      <3>2. \E i \in 1..n : ta[i] < tb[i]
        <4>1. i0 \in 1..n
          BY <1>2, <2>1
        <4>2. ta[i0] = FoundOf(a[i0], d) /\ tb[i0] = FoundOf(b[i0], d)
          BY <2>3, <2>5, <2>6, <4>1
        <4> QED BY <2>1, <4>1, <4>2
      <3>3. n \in Nat /\ Len(ta) = n /\ Len(tb) = n
        BY <1>2, <2>5, <2>6
      <3> HIDE DEF n
      <3>4. Sum(ta) <= Sum(tb) /\ ((\E i \in 1..n : ta[i] < tb[i]) => Sum(ta) < Sum(tb))
        BY ONLY <3>1, <3>3, SumMonotone
      <3> QED BY <3>2, <3>4
    <2>8. Sum(rb) <= Sum(ra)
      <3>1. \A i \in 1..n : rb[i] \in Nat /\ ra[i] \in Nat /\ rb[i] <= ra[i]
        BY <2>3, <2>5, <2>6
      <3>2. n \in Nat /\ Len(ra) = n /\ Len(rb) = n
        BY <1>2, <2>5, <2>6
      <3> HIDE DEF n
      <3> QED BY ONLY <3>1, <3>2, SumMonotone
    <2> DEFINE mb == before.metrics[d]
               ma == after.metrics[d]
    <2>9. /\ mb = Metric(b, Successes(b), d) /\ ma = Metric(a, Successes(a), d)
      BY AggregateIs
    <2>10. /\ mb.truth \in Nat /\ mb.tp \in Nat /\ mb.fn \in Nat /\ mb.truth = mb.tp + mb.fn
           /\ mb.truth = Sum(rb) /\ mb.tp = Sum(tb) /\ mb.recall = Ratio(mb.tp, mb.truth)
      <3> HIDE DEF mb
      <3> QED BY <2>4, <2>9, MetricIs DEF Total, tb, rb
    <2>11. /\ ma.truth \in Nat /\ ma.tp \in Nat
           /\ ma.truth = Sum(ra) /\ ma.tp = Sum(ta) /\ ma.recall = Ratio(ma.tp, ma.truth)
      <3> HIDE DEF ma
      <3> QED BY <2>4, <2>9, MetricIs DEF Total, ta, ra
    <2>12. mb.truth <= 10000
      OBVIOUS
    <2>13. before.metrics[d]["recall"] = mb.recall /\ after.metrics[d]["recall"] = ma.recall
      OBVIOUS
    <2> HIDE DEF ma, mb
    <2>14. Ratio(mb.tp, mb.truth) \in Nat /\ Ratio(ma.tp, ma.truth) \in Nat
           /\ Ratio(ma.tp, ma.truth) < Ratio(mb.tp, mb.truth)
      <3>1. ma.tp < mb.tp /\ mb.tp <= mb.truth /\ mb.truth <= ma.truth
        BY <2>7, <2>8, <2>10, <2>11
      <3>2. mb.tp \in Nat /\ mb.truth \in Nat /\ ma.tp \in Nat /\ ma.truth \in Nat
        BY <2>10, <2>11
      <3> QED BY ONLY <2>12, <3>1, <3>2, RatioFalls
    <2>15. Fell(mb.recall, ma.recall)
      BY <2>10, <2>11, <2>14, NumbersAssumption DEF Fell
    <2> DEFINE x == <<"overall", d, "recall">>
    <2>16. x \in {"overall"} \X AllDims \X Measures /\ x[2] = d /\ x[3] = "recall"
      BY DEF Measures
    <2> HIDE DEF before, after, x
    <2>17. x \in Regressions(before, after)
      BY <2>13, <2>15, <2>16 DEF Regressions
    <2> QED BY <1>4, <2>17
  <1> QED BY <1>5, <1>6

-----------------------------------------------------------------------------
(* Gates                                                                   *)

\* A successful result is the score of the case, scanned from its repository.
IsScoreOf(c, case, truths, scans) ==
  c.status = "success" =>
    /\ IsTruth(truths[case.truth]) /\ IsScan(scans[case.repo])
    /\ c = Scored(case, truths[case.truth], scans[case.repo])

IsScores(cases, base, scans) ==
  /\ IsList(cases)
  /\ \A i \in DOMAIN cases : IsScoreOf(cases[i], base.cohort.cases[i], base.truth, scans)

LEMMA ScoresAreResults ==
  ASSUME NEW cases, NEW base, NEW scans, IsScores(cases, base, scans)
  PROVE  Results(cases)
  <1> SUFFICES ASSUME NEW i \in DOMAIN cases
               PROVE  IsResult(cases[i])
    BY DEF Results, IsScores
  <1>1. CASE cases[i].status = "success"
    <2> DEFINE case == base.cohort.cases[i]
    <2>1. /\ IsTruth(base.truth[case.truth]) /\ IsScan(scans[case.repo])
          /\ cases[i] = Scored(case, base.truth[case.truth], scans[case.repo])
      BY <1>1 DEF IsScores, IsScoreOf
    <2> HIDE DEF case
    <2> QED BY <2>1, ScoredIs
  <1>2. CASE cases[i].status # "success"
    BY <1>2 DEF IsResult
  <1> QED BY <1>1, <1>2

\* What a score says of an entity's dimension.
LEMMA EntityScoreIs ==
  ASSUME NEW case, NEW truth, IsTruth(truth), NEW scan, IsScan(scan),
         NEW d \in {"agent_entities", "tools", "mcp_servers"}
  PROVE  /\ d \in DOMAIN Scored(case, truth, scan).comparisons
         /\ Scored(case, truth, scan).comparisons[d] = EntityCounts(truth.reference, scan, d)
         /\ Scored(case, truth, scan).comparisons[d].truth = Len(FactsOf(truth.reference, d))
  <1> DEFINE c == Scored(case, truth, scan)
             n == EntityCounts(truth.reference, scan, d)
  <1>1. d \in ComparedWith(truth)
    BY DEF ComparedWith, Dims
  <1>2. DOMAIN c.comparisons = ComparedWith(truth) /\ c.comparisons[d] = Comparison(truth, scan, d)
    <2>1. c.comparisons = [e \in ComparedWith(truth) |-> Comparison(truth, scan, e)]
      BY DEF Scored
    <2> HIDE DEF c
    <2> QED BY <1>1, <2>1
  <1>3. Comparison(truth, scan, d) = n
    BY DEF Comparison
  <1>4. IsReference(truth.reference)
    BY DEF IsTruth
  <1>5. n.truth = Len(FactsOf(truth.reference, d))
    BY <1>4, EntityCountsAre
  <1> HIDE DEF c, n
  <1>6. d \in DOMAIN c.comparisons /\ c.comparisons[d] = n /\ c.comparisons[d].truth = n.truth
    BY <1>1, <1>2, <1>3
  <1> QED BY <1>5, <1>6 DEF c, n

\* The recall of a framework of which every case was scanned.
LEMMA FrameworkReaches ==
  ASSUME NEW cases, NEW base, NEW scans, IsScores(cases, base, scans), NEW s, NEW share \in Nat,
         NEW d \in {"agent_entities", "tools", "mcp_servers"},
         Successes(cases) = DOMAIN cases,
         NEW value, value = Metric(cases, OfStratum(cases, s), d).recall,
         value # None, value >= share
  PROVE  Reaches(base, cases, s, d, share)
  <1> DEFINE chosen == OfStratum(cases, s)
             m == Metric(cases, chosen, d)
  <1>1. chosen = OfStratum(cases, s) /\ chosen \in SUBSET Successes(cases)
    BY DEF OfStratum
  <1>2. Results(cases)
    BY ScoresAreResults
  <1>3. /\ m.truth \in Nat /\ m.tp \in Nat /\ m.recall = Ratio(m.tp, m.truth)
        /\ m.truth = Total(cases, chosen, d, "truth") /\ m.tp = Total(cases, chosen, d, "tp")
    <2> HIDE DEF chosen
    <2> QED BY <1>1, <1>2, MetricIs
  <1>4. value = m.recall
    OBVIOUS
  <1> HIDE DEF m, chosen
  <1>5. 20000 * m.tp + m.truth >= 2 * share * m.truth
    <2>1. m.tp \in Nat /\ m.truth \in Nat /\ Ratio(m.tp, m.truth) # None /\ Ratio(m.tp, m.truth) >= share
      BY <1>3, <1>4
    <2> QED BY ONLY <2>1, share \in Nat, RatioReaches
  <1>6. ASSUME NEW i \in DOMAIN cases, i \in chosen
        PROVE  /\ Entry(cases, chosen, d, "tp", i) = FoundOf(cases[i], d)
               /\ Entry(cases, chosen, d, "truth", i)
                    = Len(FactsOf(base.truth[base.cohort.cases[i].truth].reference, d))
    <2> DEFINE case == base.cohort.cases[i]
               truth == base.truth[case.truth]
               scan == scans[case.repo]
    <2>1. cases[i].status = "success"
      BY DEF Successes
    <2>2. IsTruth(truth) /\ IsScan(scan) /\ cases[i] = Scored(case, truth, scan)
      BY <2>1 DEF IsScores, IsScoreOf
    <2> HIDE DEF case, truth, scan
    <2>3. /\ d \in DOMAIN cases[i].comparisons
          /\ cases[i].comparisons[d].truth = Len(FactsOf(truth.reference, d))
      BY <2>2, EntityScoreIs
    <2>4. Entry(cases, chosen, d, "truth", i) = cases[i].comparisons[d].truth
          /\ Entry(cases, chosen, d, "tp", i) = cases[i].comparisons[d].tp
      BY <1>6, <2>3 DEF Entry
    <2>5. FoundOf(cases[i], d) = cases[i].comparisons[d].tp
      BY <2>1, <2>3 DEF FoundOf
    <2> QED BY <2>3, <2>4, <2>5 DEF case, truth
  <1>7. ASSUME NEW i \in DOMAIN cases, i \notin chosen
        PROVE  Entry(cases, chosen, d, "tp", i) = 0 /\ Entry(cases, chosen, d, "truth", i) = 0
    BY <1>7 DEF Entry
  <1>8. Entries(cases, chosen, d, "tp")
          = [i \in DOMAIN cases |-> IF i \in OfStratum(cases, s) THEN FoundOf(cases[i], d) ELSE 0]
    BY <1>1, <1>6, <1>7 DEF Entries
  <1>9. Entries(cases, chosen, d, "truth")
          = [i \in DOMAIN cases |->
               IF i \in OfStratum(cases, s)
               THEN Len(FactsOf(base.truth[base.cohort.cases[i].truth].reference, d)) ELSE 0]
    BY <1>1, <1>6, <1>7 DEF Entries
  <1>10. m.tp = FoundIn(cases, s, d) /\ m.truth = FactsIn(base, cases, s, d)
    BY <1>3, <1>8, <1>9 DEF Total, FoundIn, FactsIn
  <1> QED BY <1>5, <1>10 DEF Reaches

\* A share of 10000 is all of a number that is not zero.
LEMMA AllOf ==
  ASSUME NEW n \in Nat, NEW all \in Nat, all # 0, n <= all, (10000 * n) \div all >= 10000
  PROVE  n = all
  <1> DEFINE q == (10000 * n) \div all
  <1>1. q \in Nat /\ all * q <= 10000 * n
    <2>1. ASSUME NEW x \in Nat, NEW y \in Nat, y > 0
          PROVE  x \div y \in Nat /\ y * (x \div y) <= x
      BY <2>1
    <2>2. 10000 * n \in Nat /\ all > 0
      OBVIOUS
    <2> QED BY <2>1, <2>2
  <1>2. q >= 10000
    OBVIOUS
  <1> HIDE DEF q
  <1>3. all * q >= all * 10000
    BY <1>1, <1>2
  <1> QED BY <1>1, <1>3

\* Gates that are met: every case was scanned, and the recall of the two frameworks is of all of
\* their cases.
LEMMA GatesAreOfAll ==
  ASSUME NEW cases, NEW base, NEW scans, IsScores(cases, base, scans), NEW scanner, NEW mode,
         GatesMet(Aggregate(cases, scanner, mode))
  PROVE  /\ \A i \in DOMAIN cases : cases[i].status = "success"
         /\ Reaches(base, cases, "langgraph", "agent_entities", 8000)
         /\ Reaches(base, cases, "langgraph", "tools", 7000)
         /\ Reaches(base, cases, "mcp-custom", "agent_entities", 6000)
         /\ Reaches(base, cases, "mcp-custom", "tools", 6000)
  <1> DEFINE r == Aggregate(cases, scanner, mode)
             values == GateValues(r)
             S == Successes(cases)
  <1>1. /\ r.cohortCases = Len(cases) /\ r.successful = Cardinality(S)
        /\ DOMAIN r.frameworks = IdsOf(cases, "stratum")
        /\ \A s \in IdsOf(cases, "stratum"), d \in AllDims :
             r.frameworks[s][d] = Metric(cases, {i \in S : cases[i].stratum = s}, d)
    BY AggregateIs
  <1> HIDE DEF r, S
  <1>2. /\ values.langgraphAgents = OfFramework(r, "langgraph", "agent_entities")
        /\ values.langgraphTools = OfFramework(r, "langgraph", "tools")
        /\ values.customAgents = OfFramework(r, "mcp-custom", "agent_entities")
        /\ values.customTools = OfFramework(r, "mcp-custom", "tools")
        /\ values.execution = (10000 * r.successful) \div r.cohortCases
        /\ {"langgraphAgents", "langgraphTools", "customAgents", "customTools", "execution"}
             \subseteq DOMAIN values
    BY DEF GateValues
  <1>3. \A g \in DOMAIN values : values[g] # None /\ values[g] >= Required09[g]
    <2> HIDE DEF values
    <2>1. GatesMet(r)
      BY DEF r
    <2> QED BY <2>1 DEF GatesMet, values
  <1> HIDE DEF values
  <1>4. /\ values.langgraphAgents # None /\ values.langgraphAgents >= 8000
        /\ values.langgraphTools # None /\ values.langgraphTools >= 7000
        /\ values.customAgents # None /\ values.customAgents >= 6000
        /\ values.customTools # None /\ values.customTools >= 6000
        /\ values.execution >= 10000
    BY <1>2, <1>3 DEF Required09
  <1>5. /\ IsFiniteSet(DOMAIN cases) /\ Cardinality(DOMAIN cases) = Len(cases) /\ Len(cases) \in Nat
        /\ DOMAIN cases = 1..Len(cases)
    BY ListFinite DEF IsScores
  <1>6. Len(cases) # 0
    <2>1. "langgraph" \in IdsOf(cases, "stratum")
      BY <1>1, <1>2, <1>4 DEF OfFramework
    <2> QED BY <1>5, <2>1 DEF IdsOf, ToSet
  <1>7. S = DOMAIN cases
    <2>1. S \in SUBSET DOMAIN cases
      BY DEF S, Successes
    <2>2. Cardinality(S) \in Nat /\ Cardinality(S) <= Len(cases)
          /\ (Cardinality(S) = Cardinality(DOMAIN cases) => S = DOMAIN cases)
      BY <1>5, <2>1, FS_Subset, FS_CardinalityType
    <2>3. (10000 * Cardinality(S)) \div Len(cases) >= 10000
      BY <1>1, <1>2, <1>4
    <2>4. Cardinality(S) = Len(cases)
      BY <1>5, <1>6, <2>2, <2>3, AllOf
    <2> QED BY <1>5, <2>2, <2>4
  <1>8. ASSUME NEW s, NEW d \in {"agent_entities", "tools"}, NEW share \in Nat, NEW value,
               value = OfFramework(r, s, d), value # None, value >= share
        PROVE  Reaches(base, cases, s, d, share)
    <2>1. s \in IdsOf(cases, "stratum") /\ value = r.frameworks[s][d].recall
      BY <1>1, <1>8 DEF OfFramework
    <2>2. d \in AllDims /\ d \in {"agent_entities", "tools", "mcp_servers"}
      BY DEF AllDims, Dims
    <2>3. value = Metric(cases, OfStratum(cases, s), d).recall
      <3>1. {i \in S : cases[i].stratum = s} = OfStratum(cases, s)
        BY <1>7 DEF OfStratum
      <3>2. value = Metric(cases, {i \in S : cases[i].stratum = s}, d).recall
        BY <1>1, <2>1, <2>2
      <3> QED BY <3>1, <3>2
    <2>4. Successes(cases) = DOMAIN cases
      BY <1>7 DEF S
    <2> QED BY ONLY <1>8, <2>2, <2>3, <2>4, IsScores(cases, base, scans), FrameworkReaches
  <1>9. \A i \in DOMAIN cases : cases[i].status = "success"
    BY <1>7 DEF S, Successes
  <1>10. Reaches(base, cases, "langgraph", "agent_entities", 8000)
    BY <1>2, <1>4, <1>8
  <1>11. Reaches(base, cases, "langgraph", "tools", 7000)
    BY <1>2, <1>4, <1>8
  <1>12. Reaches(base, cases, "mcp-custom", "agent_entities", 6000)
    BY <1>2, <1>4, <1>8
  <1>13. Reaches(base, cases, "mcp-custom", "tools", 6000)
    BY <1>2, <1>4, <1>8
  <1> QED BY <1>9, <1>10, <1>11, <1>12, <1>13

-----------------------------------------------------------------------------
(* Fairness of the scores                                                  *)

\* The groups of names that some predictions go by are at most as many as these predictions.
LEMMA NamedBound ==
  ASSUME NEW groups, Distinguishable(groups), NEW named \in SUBSET groups,
         NEW S, IsFiniteSet(S), NEW nodes,
         \A g \in named : \E k \in S : Norm(nodes[k].name) \in g
  PROVE  Cardinality(named) \in Nat /\ Cardinality(named) <= Cardinality(S)
  <1> DEFINE f == [g \in named |-> CHOOSE k \in S : Norm(nodes[k].name) \in g]
  <1>1. \A g \in named : f[g] \in S /\ Norm(nodes[f[g]].name) \in g
    OBVIOUS
  <1>2. DOMAIN f = named
    OBVIOUS
  <1> HIDE DEF f
  <1>3. \A g, h \in named : f[g] = f[h] => g = h
    BY <1>1 DEF Distinguishable
  <1>4. f = [g \in named |-> f[g]]
    <2>1. f = [g \in named |-> f[g]]
      BY DEF f
    <2> QED BY <2>1
  <1>5. f \in Injection(named, S)
    BY <1>1, <1>3, <1>4 DEF Injection, IsInjective
  <1> QED BY <1>5, FS_Injection, FS_CardinalityType

\* Of an application within the limits that can be read every file is read.
LEMMA AllIsRead ==
  ASSUME NEW files, FilesAre(files),
         ScopeDiagnostics(files) \cap {"read_failed", "file_limit", "byte_limit"} = {}
  PROVE  Sources(files) = DOMAIN files
  <1>1. DOMAIN files = 1..Len(files) /\ Len(files) \in Nat
    BY DEF FilesAre, IsList
  <1>6. /\ "file_limit" \notin ScopeDiagnostics(files) /\ "byte_limit" \notin ScopeDiagnostics(files)
        /\ "read_failed" \notin ScopeDiagnostics(files)
    OBVIOUS
  <1>2. Len(files) <= MaxFiles
    <2>1. Len(files) > MaxFiles => "file_limit" \in ScopeDiagnostics(files)
      BY DEF ScopeDiagnostics
    <2> QED BY <1>1, <1>6, <2>1, LimitsAssumption
  <1>3. ASSUME NEW i \in DOMAIN files
        PROVE  Upto(files, i) <= MaxBytes
    <2> DEFINE sizes == [j \in 1..i |-> IF files[j].readable THEN files[j].size ELSE 0]
    <2>1. i \in Nat /\ Len(sizes) = i
      BY <1>1
    <2>2. \A j \in 1..i : sizes[j] \in Nat
      BY <1>1 DEF FilesAre, IsFile
    <2>3. Upto(files, i) = Sum(sizes)
      BY DEF Upto
    <2> HIDE DEF sizes
    <2>4. Upto(files, i) \in Nat
      BY <2>1, <2>2, <2>3, SumType
    <2>5. ~(Upto(files, i) > MaxBytes)
      <3>1. i <= MaxFiles
        BY <1>1, <1>2, LimitsAssumption
      <3>2. (\E j \in DOMAIN files : j <= MaxFiles /\ Upto(files, j) > MaxBytes)
              => "byte_limit" \in ScopeDiagnostics(files)
        BY DEF ScopeDiagnostics
      <3> QED BY <1>6, <3>1, <3>2
    <2> QED BY <2>4, <2>5, LimitsAssumption
  <1>4. InScope(files) = DOMAIN files
    BY <1>1, <1>2, <1>3, LimitsAssumption DEF InScope
  <1>5. InScope(files) = Sources(files)
    <2>1. InScope(files) # Sources(files) => "read_failed" \in ScopeDiagnostics(files)
      BY DEF ScopeDiagnostics
    <2> QED BY <1>6, <2>1
  <1> QED BY <1>4, <1>5

Letters(d) == {Norm(d.name), Norm(d.var)} \ {Norm(NoName)}
DeclsOf(files, kinds) == UNION {{files[i].decls[k] : k \in Of(files[i], kinds)} : i \in DOMAIN files}

\* What an application declares is what is in its syntax trees when they are all there.
LEMMA GroupsAreOfTrees ==
  ASSUME NEW app, FilesAre(app.files), NEW dim \in EntityDims
  PROVE  /\ \A a \in TreesOf(dim, app.files, DOMAIN app.files) :
              Aliases(a) \in DeclaredIn(app, dim) /\ Norm(a.name) \in Aliases(a)
         /\ \A g \in DeclaredIn(app, dim) :
              \E a \in TreesOf(dim, app.files, DOMAIN app.files) : Aliases(a) = g
  <1> DEFINE files == app.files
             All(kinds) == DeclsOf(files, kinds)
  <1> USE DEF EntityDims
  <1>1. ASSUME NEW i \in DOMAIN files, NEW kinds, NEW k \in Of(files[i], kinds)
        PROVE  files[i].decls[k] \in All(kinds) /\ files[i].decls[k].kind \in kinds
               /\ IsDeclaration(files[i].decls[k])
    <2>1. files[i].decls[k] \in All(kinds) /\ files[i].decls[k].kind \in kinds
      BY DEF DeclsOf, Of
    <2>2. IsFile(files[i])
      BY DEF FilesAre
    <2>3. IsDeclaration(files[i].decls[k])
      BY <2>2, OfFinite
    <2> QED BY <2>1, <2>3
  <1>2. ASSUME NEW kinds, NEW d \in All(kinds)
        PROVE  \E i \in DOMAIN files : \E k \in Of(files[i], kinds) : d = files[i].decls[k]
    BY DEF DeclsOf
  <1>3. ASSUME NEW d, IsDeclaration(d)
        PROVE  /\ Norm(d.name) \in Letters(d)
               /\ d.kind \in {"tool", "node"} => Letters(d) = {Norm(d.name)}
    BY <1>3 DEF IsDeclaration, Letters
  <1>4. ASSUME NEW i, NEW f, NEW name, NEW var, NEW owner, NEW line
        PROVE  /\ Aliases(Fact(i, f, name, var, owner, line)) = {Norm(name), Norm(var)} \ {Norm(NoName)}
               /\ Fact(i, f, name, var, owner, line).name = name
    BY DEF Aliases, Fact
  <1>5. CASE dim = "agent_entities"
    <2>1. DeclaredIn(app, dim) = {Letters(d) : d \in All(AgentKinds \cup {"node"})}
      BY <1>5 DEF DeclaredIn, Letters, DeclsOf
    <2>2. \A a : a \in TreesOf(dim, files, DOMAIN files) <=>
            \E i \in DOMAIN files : a \in TreeAgents(i, files[i])
      BY <1>5 DEF TreesOf
    <2> HIDE DEF All
    <2>3. ASSUME NEW i \in DOMAIN files, NEW a \in TreeAgents(i, files[i])
          PROVE  Aliases(a) \in DeclaredIn(app, dim) /\ Norm(a.name) \in Aliases(a)
      <3> DEFINE f == files[i]
      <3>1. CASE \E k \in Of(f, AgentKinds) :
                   a = Fact(i, f, f.decls[k].name, f.decls[k].var, NoName, f.decls[k].line)
        <4>1. PICK k \in Of(f, AgentKinds) :
                   a = Fact(i, f, f.decls[k].name, f.decls[k].var, NoName, f.decls[k].line)
          BY <3>1
        <4>2. k \in Of(f, AgentKinds \cup {"node"})
          BY DEF Of
        <4> DEFINE d == f.decls[k]
        <4>3. d \in All(AgentKinds \cup {"node"}) /\ IsDeclaration(d)
          BY <1>1, <4>2
        <4>4. Aliases(a) = Letters(d) /\ a.name = d.name
          BY <1>4, <4>1 DEF Letters
        <4> HIDE DEF d
        <4> QED BY <1>3, <2>1, <4>3, <4>4
      <3>2. CASE \E k \in Of(f, {"node"}) :
                   a = Fact(i, f, f.decls[k].name, f.decls[k].name, NoName, f.decls[k].line)
        <4>1. PICK k \in Of(f, {"node"}) :
                   a = Fact(i, f, f.decls[k].name, f.decls[k].name, NoName, f.decls[k].line)
          BY <3>2
        <4>2. k \in Of(f, AgentKinds \cup {"node"}) /\ f.decls[k].kind = "node"
          BY DEF Of
        <4> DEFINE d == f.decls[k]
        <4>3. d \in All(AgentKinds \cup {"node"}) /\ IsDeclaration(d)
          BY <1>1, <4>2
        <4>4. Letters(d) = {Norm(d.name)} /\ Norm(d.name) # Norm(NoName)
          BY <1>3, <4>2, <4>3 DEF IsDeclaration
        <4>5. Aliases(a) = {Norm(d.name), Norm(d.name)} \ {Norm(NoName)} /\ a.name = d.name
          BY <1>4, <4>1
        <4> HIDE DEF d
        <4>6. Aliases(a) = Letters(d)
          BY <4>4, <4>5
        <4> QED BY <1>3, <2>1, <4>3, <4>5, <4>6
      <3> QED BY <3>1, <3>2 DEF TreeAgents
    <2>4. ASSUME NEW g \in DeclaredIn(app, dim)
          PROVE  \E i \in DOMAIN files : \E a \in TreeAgents(i, files[i]) : Aliases(a) = g
      <3>1. PICK d \in All(AgentKinds \cup {"node"}) : g = Letters(d)
        BY <2>1
      <3>2. PICK i \in DOMAIN files : \E k \in Of(files[i], AgentKinds \cup {"node"}) : d = files[i].decls[k]
        BY <1>2
      <3>3. PICK k \in Of(files[i], AgentKinds \cup {"node"}) : d = files[i].decls[k]
        BY <3>2
      <3>4. IsDeclaration(d) /\ d.kind \in AgentKinds \cup {"node"}
        BY <1>1, <3>3
      <3>5. CASE d.kind \in AgentKinds
        <4> DEFINE a == Fact(i, files[i], d.name, d.var, NoName, d.line)
        <4>1. k \in Of(files[i], AgentKinds)
          BY <3>3, <3>5 DEF Of
        <4>2. a \in TreeAgents(i, files[i])
          BY <3>3, <4>1 DEF TreeAgents
        <4>3. Aliases(a) = g
          BY <1>4, <3>1 DEF Letters
        <4> QED BY <4>2, <4>3
      <3>6. CASE d.kind = "node"
        <4> DEFINE a == Fact(i, files[i], d.name, d.name, NoName, d.line)
        <4>1. k \in Of(files[i], {"node"})
          BY <3>3, <3>6 DEF Of
        <4>2. a \in TreeAgents(i, files[i])
          BY <3>3, <4>1 DEF TreeAgents
        <4>3. Letters(d) = {Norm(d.name)} /\ Norm(d.name) # Norm(NoName)
          BY <1>3, <3>4, <3>6 DEF IsDeclaration
        <4>4. Aliases(a) = g
          BY <1>4, <3>1, <4>3
        <4> QED BY <4>2, <4>4
      <3> QED BY <3>4, <3>5, <3>6
    <2> QED BY <2>2, <2>3, <2>4
  <1>6. CASE dim = "tools"
    <2>1. DeclaredIn(app, dim)
            = {Letters(d) : d \in All({"tool"})}
              \cup {{Norm(t)} : t \in UNION {ToSet(d.tools) : d \in All({"agent"})}}
      BY <1>6 DEF DeclaredIn, Letters, DeclsOf
    <2>2. \A a : a \in TreesOf(dim, files, DOMAIN files) <=>
            \E i \in DOMAIN files : a \in TreeTools(i, files[i])
      BY <1>6 DEF TreesOf
    <2> HIDE DEF All
    <2>3. ASSUME NEW i \in DOMAIN files, NEW a \in TreeTools(i, files[i])
          PROVE  Aliases(a) \in DeclaredIn(app, dim) /\ Norm(a.name) \in Aliases(a)
      <3> DEFINE f == files[i]
      <3>1. CASE \E k \in Of(f, {"tool"}) :
                   a = Fact(i, f, f.decls[k].name, NoName, f.decls[k].owner, f.decls[k].line)
        <4>1. PICK k \in Of(f, {"tool"}) :
                   a = Fact(i, f, f.decls[k].name, NoName, f.decls[k].owner, f.decls[k].line)
          BY <3>1
        <4> DEFINE d == f.decls[k]
        <4>2. d \in All({"tool"}) /\ IsDeclaration(d) /\ d.kind = "tool"
          BY <1>1
        <4>3. Letters(d) = {Norm(d.name)} /\ Norm(d.name) # Norm(NoName)
          BY <1>3, <4>2 DEF IsDeclaration
        <4>4. Aliases(a) = {Norm(d.name), Norm(NoName)} \ {Norm(NoName)} /\ a.name = d.name
          BY <1>4, <4>1
        <4> HIDE DEF d
        <4>5. Aliases(a) = Letters(d)
          BY <4>3, <4>4
        <4> QED BY <1>3, <2>1, <4>2, <4>4, <4>5
      <3>2. CASE \E k \in Of(f, {"agent"}) : \E t \in ToSet(f.decls[k].tools) :
                   a = Fact(i, f, t, NoName, f.decls[k].var, f.decls[k].line)
        <4>1. PICK k \in Of(f, {"agent"}) : \E t \in ToSet(f.decls[k].tools) :
                   a = Fact(i, f, t, NoName, f.decls[k].var, f.decls[k].line)
          BY <3>2
        <4>2. PICK t \in ToSet(f.decls[k].tools) :
                   a = Fact(i, f, t, NoName, f.decls[k].var, f.decls[k].line)
          BY <4>1
        <4> DEFINE d == f.decls[k]
        <4>3. d \in All({"agent"}) /\ IsDeclaration(d)
          BY <1>1
        <4>4. Norm(t) # Norm(NoName)
          BY <4>3 DEF IsDeclaration
        <4>5. Aliases(a) = {Norm(t)} /\ a.name = t
          BY <1>4, <4>2, <4>4
        <4>6. {Norm(t)} \in DeclaredIn(app, dim)
          <5>1. t \in ToSet(d.tools)
            OBVIOUS
          <5> HIDE DEF d
          <5> QED BY <2>1, <4>3, <5>1
        <4> QED BY <4>5, <4>6
      <3> QED BY <3>1, <3>2 DEF TreeTools
    <2>4. ASSUME NEW g \in DeclaredIn(app, dim)
          PROVE  \E i \in DOMAIN files : \E a \in TreeTools(i, files[i]) : Aliases(a) = g
      <3>1. CASE \E d \in All({"tool"}) : g = Letters(d)
        <4>1. PICK d \in All({"tool"}) : g = Letters(d)
          BY <3>1
        <4>2. PICK i \in DOMAIN files : \E k \in Of(files[i], {"tool"}) : d = files[i].decls[k]
          BY <1>2
        <4>3. PICK k \in Of(files[i], {"tool"}) : d = files[i].decls[k]
          BY <4>2
        <4>4. IsDeclaration(d) /\ d.kind = "tool"
          BY <1>1, <4>3
        <4> DEFINE a == Fact(i, files[i], d.name, NoName, d.owner, d.line)
        <4>5. a \in TreeTools(i, files[i])
          BY <4>3 DEF TreeTools
        <4>6. Letters(d) = {Norm(d.name)} /\ Norm(d.name) # Norm(NoName)
          BY <1>3, <4>4 DEF IsDeclaration
        <4>7. Aliases(a) = g
          BY <1>4, <4>1, <4>6
        <4> QED BY <4>5, <4>7
      <3>2. CASE \E d \in All({"agent"}) : \E t \in ToSet(d.tools) : g = {Norm(t)}
        <4>1. PICK d \in All({"agent"}) : \E t \in ToSet(d.tools) : g = {Norm(t)}
          BY <3>2
        <4>2. PICK t \in ToSet(d.tools) : g = {Norm(t)}
          BY <4>1
        <4>3. PICK i \in DOMAIN files : \E k \in Of(files[i], {"agent"}) : d = files[i].decls[k]
          BY <1>2
        <4>4. PICK k \in Of(files[i], {"agent"}) : d = files[i].decls[k]
          BY <4>3
        <4>5. Norm(t) # Norm(NoName)
          BY <1>1, <4>4 DEF IsDeclaration
        <4> DEFINE a == Fact(i, files[i], t, NoName, d.var, d.line)
        <4>6. a \in TreeTools(i, files[i])
          BY <4>4 DEF TreeTools
        <4>7. Aliases(a) = g
          BY <1>4, <4>2, <4>5
        <4> QED BY <4>6, <4>7
      <3> QED BY <2>1, <3>1, <3>2
    <2> QED BY <2>2, <2>3, <2>4
  <1>7. CASE dim = "mcp_servers"
    <2>1. DeclaredIn(app, dim) = {Letters(d) : d \in All(TreeServerKinds)}
      BY <1>7 DEF DeclaredIn, Letters, DeclsOf
    <2>2. \A a : a \in TreesOf(dim, files, DOMAIN files) <=>
            \E i \in DOMAIN files : a \in TreeServers(i, files[i])
      BY <1>7 DEF TreesOf
    <2> HIDE DEF All
    <2>3. ASSUME NEW i \in DOMAIN files, NEW a \in TreeServers(i, files[i])
          PROVE  Aliases(a) \in DeclaredIn(app, dim) /\ Norm(a.name) \in Aliases(a)
      <3> DEFINE f == files[i]
      <3>1. PICK k \in Of(f, TreeServerKinds) :
              a = Fact(i, f, f.decls[k].name, f.decls[k].var, NoName, f.decls[k].line)
        BY DEF TreeServers
      <3> DEFINE d == f.decls[k]
      <3>2. d \in All(TreeServerKinds) /\ IsDeclaration(d)
        BY <1>1
      <3>3. Aliases(a) = Letters(d) /\ a.name = d.name
        BY <1>4, <3>1 DEF Letters
      <3> HIDE DEF d
      <3> QED BY <1>3, <2>1, <3>2, <3>3
    <2>4. ASSUME NEW g \in DeclaredIn(app, dim)
          PROVE  \E i \in DOMAIN files : \E a \in TreeServers(i, files[i]) : Aliases(a) = g
      <3>1. PICK d \in All(TreeServerKinds) : g = Letters(d)
        BY <2>1
      <3>2. PICK i \in DOMAIN files : \E k \in Of(files[i], TreeServerKinds) : d = files[i].decls[k]
        BY <1>2
      <3>3. PICK k \in Of(files[i], TreeServerKinds) : d = files[i].decls[k]
        BY <3>2
      <3> DEFINE a == Fact(i, files[i], d.name, d.var, NoName, d.line)
      <3>4. a \in TreeServers(i, files[i])
        BY <3>3 DEF TreeServers
      <3>5. Aliases(a) = g
        BY <1>4, <3>1 DEF Letters
      <3> QED BY <3>4, <3>5
    <2> QED BY <2>2, <2>3, <2>4
  <1> QED BY <1>5, <1>6, <1>7

\* What is cut off from the source that a dimension is scored against.
CutOff(app, d) ==
  ScopeDiagnostics(app.files) \cap (IF d = "tools" THEN {"read_failed"}
                                    ELSE {"read_failed", "file_limit", "byte_limit"})

\* A truth that is complete for a dimension had the whole source to read.
LEMMA CompleteMeansRead ==
  ASSUME NEW case, NEW app, IsApp(app), NEW error, NEW inB, NEW inC, NEW d \in EntityDims,
         CutOff(app, d) = {}, BuildTruth(case, app, error, inB, inC).reference.complete[d]
  PROVE  \E diagnostics : BuildTruth(case, app, error, inB, inC).reference
           = ReferenceFrom(app.files, DOMAIN app.files, DOMAIN app.files, diagnostics)
  <1> DEFINE files == IF error # "none" THEN <<>> ELSE app.files
             diagnostics == IF error # "none" THEN {error} ELSE ScopeDiagnostics(app.files)
             read == Sources(files)
             parsed == {i \in read : files[i].lang \in TreeLangs /\ files[i].parses}
             ref == ReferenceFrom(files, read, parsed, diagnostics)
  <1>1. BuildTruth(case, app, error, inB, inC).reference = ref
    BY DEF BuildTruth, WithTiers, Reference
  <1>2. /\ read # {} /\ read = parsed
        /\ d = "tools" => diagnostics \cap {"file_limit", "byte_limit"} = {}
    <2>1. d \in Dims
      BY DEF EntityDims, Dims
    <2>2. ref.complete[d]
      BY <1>1
    <2> HIDE DEF files, diagnostics, read, parsed
    <2> QED BY <2>1, <2>2 DEF ReferenceFrom
  <1>3. error = "none"
    <2>1. CASE error # "none"
      <3>1. files = <<>>
        BY <2>1
      <3>2. read = {}
        BY <3>1 DEF Sources, InScope
      <3> QED BY <1>2, <3>2
    <2> QED BY <2>1
  <1>4. FilesAre(app.files)
    BY DEF FilesAre, IsApp, ToSet
  <1>5. ScopeDiagnostics(app.files) \cap {"read_failed", "file_limit", "byte_limit"} = {}
    BY <1>2, <1>3 DEF CutOff
  <1>6. read = DOMAIN app.files /\ parsed = DOMAIN app.files /\ files = app.files
    BY <1>2, <1>3, <1>4, <1>5, AllIsRead
  <1> HIDE DEF files, read, parsed, diagnostics
  <1> QED BY <1>1, <1>6

\* A scanner is not charged with what it reports of the source under its name.
LEMMA ScoreIsFair ==
  ASSUME NEW case, NEW app, IsApp(app), NEW error, NEW inB, NEW inC, NEW scan, IsScan(scan),
         NEW d \in EntityDims, Distinguishable(DeclaredIn(app, d)), CutOff(app, d) = {}
  PROVE  LET n == EntityCounts(BuildTruth(case, app, error, inB, inC).reference, scan, d) IN
         n.fp <= n.predicted - Cardinality(Named(DeclaredIn(app, d), scan, d))
  <1> DEFINE ref == BuildTruth(case, app, error, inB, inC).reference
             facts == FactsOf(ref, d)
             predicted == PredictedOf(scan, d)
             matched == Matching(facts, scan.nodes, predicted)
             groups == DeclaredIn(app, d)
             named == Named(groups, scan, d)
             n == EntityCounts(ref, scan, d)
  <1>1. IsReference(ref)
    BY BuiltIsTruth DEF IsTruth
  <1>2. /\ n.predicted = Cardinality(predicted)
        /\ n.fp = IF ref.complete[d] THEN n.predicted - Cardinality(Seconds(matched)) ELSE 0
    <2> HIDE DEF ref
    <2> QED BY <1>1, EntityCountsAre
  <1>3. /\ IsList(facts) /\ IsList(scan.nodes) /\ IsFiniteSet(predicted)
        /\ predicted \in SUBSET DOMAIN scan.nodes
    <2> HIDE DEF ref
    <2> QED BY <1>1, FactsAreListed, PredictedFinite DEF IsScan, PredictedAre
  <1>4. /\ named \in SUBSET groups
        /\ \A g \in named : \E k \in predicted : Norm(scan.nodes[k].name) \in g
    BY DEF Named
  <1>5. Distinguishable(groups)
    OBVIOUS
  <1>6. CASE ~ref.complete[d]
    <2> HIDE DEF ref, predicted, groups, named, n, matched
    <2>1. Cardinality(named) \in Nat /\ Cardinality(named) <= Cardinality(predicted)
      BY <1>3, <1>4, <1>5, NamedBound
    <2>2. Cardinality(predicted) \in Nat
      BY <1>3, FS_CardinalityType
    <2>3. n.fp <= n.predicted - Cardinality(named)
      BY <1>2, <1>6, <2>1, <2>2
    <2> QED BY <2>3 DEF ref, groups, named, n
  <1>7. CASE ref.complete[d]
    <2> DEFINE trees == TreesOf(d, app.files, DOMAIN app.files)
    <2>1. FilesAre(app.files)
      BY DEF FilesAre, IsApp, ToSet
    <2>2. PICK diagnostics : ref = ReferenceFrom(app.files, DOMAIN app.files, DOMAIN app.files, diagnostics)
      BY <1>7, CompleteMeansRead
    <2> HIDE DEF ref
    <2>3. \A a \in trees : \E t \in DOMAIN facts : KeyOf(facts[t]) = KeyOf(a) /\ facts[t] \in trees
      <3>1. DOMAIN app.files \in SUBSET DOMAIN app.files
        OBVIOUS
      <3> QED BY <2>1, <2>2, <3>1, ReferenceIs
    <2>4. /\ \A a \in trees : Aliases(a) \in groups /\ Norm(a.name) \in Aliases(a)
          /\ \A g \in groups : \E a \in trees : Aliases(a) = g
      BY <2>1, GroupsAreOfTrees
    <2> HIDE DEF trees, facts, groups, predicted, matched, named, n
    <2>5. ASSUME NEW g \in groups
          PROVE  \E t \in DOMAIN facts : Aliases(facts[t]) = g
      <3>1. PICK a \in trees : Aliases(a) = g
        BY <2>4
      <3>2. PICK t \in DOMAIN facts : KeyOf(facts[t]) = KeyOf(a) /\ facts[t] \in trees
        BY <2>3
      <3>3. facts[t].name = a.name
        BY <3>2 DEF KeyOf
      <3>4. Norm(a.name) \in g /\ Norm(a.name) \in Aliases(facts[t]) /\ Aliases(facts[t]) \in groups
        BY <2>4, <3>1, <3>2, <3>3
      <3> QED BY <1>5, <3>4 DEF Distinguishable
    <2>6. /\ matched \subseteq (DOMAIN facts) \X predicted
          /\ \A t \in DOMAIN facts, k \in predicted : SameName(facts[t], scan.nodes[k]) =>
               \E b \in matched : SameName(facts[b[1]], scan.nodes[b[2]]) /\ (b[1] = t \/ b[2] = k)
      BY <1>3, MatchingIs DEF matched
    <2>7. ASSUME NEW g \in named
          PROVE  \E k \in Seconds(matched) : Norm(scan.nodes[k].name) \in g
      <3>1. PICK k \in predicted : Norm(scan.nodes[k].name) \in g
        BY <1>4
      <3>2. PICK t \in DOMAIN facts : Aliases(facts[t]) = g
        BY <1>4, <2>5
      <3>3. SameName(facts[t], scan.nodes[k])
        BY <3>1, <3>2 DEF SameName
      <3>4. PICK b \in matched : SameName(facts[b[1]], scan.nodes[b[2]]) /\ (b[1] = t \/ b[2] = k)
        BY <2>6, <3>3
      <3>5. Norm(scan.nodes[b[2]].name) \in g
        BY <3>1, <3>2, <3>4 DEF SameName
      <3>6. b[2] \in Seconds(matched)
        BY DEF Seconds
      <3> QED BY <3>5, <3>6
    <2>8. IsFiniteSet(Seconds(matched)) /\ Cardinality(Seconds(matched)) \in Nat
          /\ Cardinality(predicted) \in Nat
      BY <1>3, <2>6, MatchedBound
    <2>9. Cardinality(named) \in Nat /\ Cardinality(named) <= Cardinality(Seconds(matched))
      BY <1>4, <1>5, <2>7, <2>8, NamedBound
    <2>10. n.fp <= n.predicted - Cardinality(named)
      BY <1>2, <1>7, <2>8, <2>9
    <2> QED BY <2>10 DEF ref, groups, named, n
  <1> QED BY <1>6, <1>7

-----------------------------------------------------------------------------
(* The order of results                                                    *)

LEMMA OnlyOneIsMax ==
  ASSUME NEW x \in Nat
  PROVE  Max({x}) = x
  BY DEF Max

\* Results of different cases, one of each, are put in the order of the cases.
LEMMA InOrderIs ==
  ASSUME NEW cases, IsList(cases), NEW results, IsList(results),
         NEW at \in [DOMAIN results -> DOMAIN cases],
         \A k, l \in DOMAIN results : at[k] = at[l] => k = l,
         \A i \in DOMAIN cases : \E k \in DOMAIN results : at[k] = i,
         \A k \in DOMAIN results, i \in DOMAIN cases : cases[i].id = results[k].id <=> i = at[k],
         NEW list, list = InOrder(results, cases)
  PROVE  /\ IsList(list) /\ Len(list) = Len(cases)
         /\ \A i \in DOMAIN cases : \E k \in DOMAIN results : at[k] = i /\ list[i] = results[k]
  <1> DEFINE D == DOMAIN results
             At(k) == Max({i \in DOMAIN cases : cases[i].id = results[k].id})
             sooner == {p \in D \X D : At(p[1]) < At(p[2]) \/ (At(p[1]) = At(p[2]) /\ p[1] < p[2])}
             order == Ordered(D, sooner)
  <1>1. list = [n \in D |-> results[order[n]]]
    BY DEF InOrder
  <1>2. /\ DOMAIN cases = 1..Len(cases) /\ Len(cases) \in Nat
        /\ D = 1..Len(results) /\ Len(results) \in Nat /\ IsFiniteSet(D) /\ Cardinality(D) = Len(results)
        /\ IsFiniteSet(DOMAIN cases) /\ Cardinality(DOMAIN cases) = Len(cases)
    BY ListFinite
  <1>3. ASSUME NEW k \in D
        PROVE  At(k) = at[k] /\ at[k] \in 1..Len(cases)
    <2>1. {i \in DOMAIN cases : cases[i].id = results[k].id} = {at[k]}
      OBVIOUS
    <2>2. at[k] \in Nat /\ at[k] \in 1..Len(cases)
      BY <1>2
    <2> QED BY <2>1, <2>2, OnlyOneIsMax
  <1>4. \A x, y \in D : <<x, y>> \in sooner <=> at[x] < at[y]
    <2> HIDE DEF At
    <2>1. ASSUME NEW x \in D, NEW y \in D
          PROVE  <<x, y>> \in sooner <=> at[x] < at[y]
      <3>1. <<x, y>> \in sooner <=> At(x) < At(y) \/ (At(x) = At(y) /\ x < y)
        OBVIOUS
      <3>2. At(x) = at[x] /\ At(y) = at[y] /\ at[x] \in Nat /\ at[y] \in Nat
        BY <1>3
      <3>3. at[x] = at[y] => x = y
        OBVIOUS
      <3> QED BY <1>2, <3>1, <3>2, <3>3
    <2> QED BY <2>1
  <1>5. \A k \in D : at[k] \in 1..Len(cases)
    BY <1>3
  <1>6. Cardinality(D) = Cardinality(DOMAIN cases)
    <2>1. at \in Bijection(D, DOMAIN cases)
      BY DEF Bijection, Injection, IsInjective, Surjection
    <2>2. ExistsBijection(D, DOMAIN cases)
      BY <2>1 DEF ExistsBijection
    <2> HIDE DEF D
    <2> QED BY <1>2, <2>2, FS_Bijection
  <1> HIDE DEF D, At, sooner
  <1>7. Orders(sooner, D)
    <2>1. \A x \in D : <<x, x>> \notin sooner
      BY <1>4, <1>5
    <2>2. \A x, y \in D : x # y => <<x, y>> \in sooner \/ <<y, x>> \in sooner
      <3>1. \A x, y \in D : x # y => at[x] # at[y]
        BY DEF D
      <3> QED BY <1>4, <1>5, <3>1
    <2>3. \A x, y, z \in D : <<x, y>> \in sooner /\ <<y, z>> \in sooner => <<x, z>> \in sooner
      BY <1>4, <1>5
    <2> QED BY <2>1, <2>2, <2>3 DEF Orders
  <1>8. /\ IsList(order) /\ Len(order) = Cardinality(D)
        /\ \A n \in DOMAIN order : /\ order[n] \in D
                                   /\ Cardinality(Preceding(D, sooner, order[n])) = n - 1
    <2>1. order = Ordered(D, sooner)
      OBVIOUS
    <2> HIDE DEF order
    <2>2. IsFiniteSet(D)
      BY <1>2
    <2>3. IsList(order) /\ Len(order) = Cardinality(D)
      BY <1>7, <2>1, <2>2, OrderedIsAll
    <2>4. \A n \in DOMAIN order : order[n] \in D
      BY <1>7, <2>1, <2>2, OrderedIsAll
    <2>5. \A n \in DOMAIN order : Cardinality(Preceding(D, sooner, order[n])) = n - 1
      BY <1>7, <2>1, <2>2, OrderedIsAll
    <2> QED BY <2>3, <2>4, <2>5
  <1> HIDE DEF order
  <1>9. ASSUME NEW k \in D
        PROVE  Cardinality(Preceding(D, sooner, k)) = at[k] - 1
    <2> DEFINE P == Preceding(D, sooner, k)
               f == [x \in P |-> at[x]]
    <2>1. P \subseteq D /\ \A x \in D : x \in P <=> at[x] < at[k]
      BY <1>4, <1>9 DEF Preceding
    <2>2. at[k] - 1 \in Nat /\ at[k] \in 1..Len(cases)
      BY <1>5
    <2>3. f \in Bijection(P, 1..(at[k] - 1))
      <3>1. \A x \in P : f[x] \in 1..(at[k] - 1)
        BY <1>5, <2>1, <2>2
      <3>2. \A x, y \in P : f[x] = f[y] => x = y
        BY <2>1 DEF D
      <3>3. \A j \in 1..(at[k] - 1) : \E x \in P : f[x] = j
        <4>1. \A j \in 1..(at[k] - 1) : j \in DOMAIN cases
          BY <1>2, <2>2
        <4>2. \A j \in 1..(at[k] - 1) : \E x \in D : at[x] = j
          BY <4>1 DEF D
        <4>3. \A x \in D : at[x] \in 1..(at[k] - 1) => x \in P
          BY <1>5, <2>1, <2>2
        <4> QED BY <4>2, <4>3
      <3> HIDE DEF P
      <3> QED BY <3>1, <3>2, <3>3 DEF Bijection, Injection, IsInjective, Surjection
    <2> HIDE DEF P, f
    <2>4. IsFiniteSet(P)
      BY <1>2, <2>1, FS_Subset
    <2>5. IsFiniteSet(1..(at[k] - 1)) /\ Cardinality(1..(at[k] - 1)) = at[k] - 1
      <3>1. 1 \in Int /\ at[k] - 1 \in Int
        BY <2>2
      <3>2. IsFiniteSet(1..(at[k] - 1))
             /\ Cardinality(1..(at[k] - 1)) = IF 1 > at[k] - 1 THEN 0 ELSE (at[k] - 1) - 1 + 1
        BY <3>1, FS_Interval
      <3> QED BY <2>2, <3>2
    <2>6. Cardinality(P) = at[k] - 1
      <3>1. ExistsBijection(P, 1..(at[k] - 1))
        BY <2>3 DEF ExistsBijection
      <3> QED BY <2>4, <2>5, <3>1, FS_Bijection
    <2> QED BY <2>6 DEF P
  <1>10. IsList(list) /\ Len(list) = Len(cases)
    <2>1. Len(list) = Len(results) /\ DOMAIN list = 1..Len(results)
      <3>1. list = [n \in 1..Len(results) |-> results[order[n]]]
        BY <1>1, <1>2
      <3> QED BY <1>2, <3>1
    <2>2. Len(results) = Len(cases)
      BY <1>2, <1>6
    <2> QED BY <1>2, <2>1, <2>2 DEF IsList
  <1>11. ASSUME NEW i \in DOMAIN cases
         PROVE  \E k \in DOMAIN results : at[k] = i /\ list[i] = results[k]
    <2>1. i \in D /\ i \in DOMAIN order /\ i \in Nat
      BY <1>2, <1>6, <1>8 DEF IsList
    <2>2. order[i] \in D /\ at[order[i]] - 1 = i - 1
      BY <1>8, <1>9, <2>1
    <2>3. at[order[i]] = i
      BY <1>5, <2>1, <2>2
    <2>4. list[i] = results[order[i]]
      BY <1>1, <2>1
    <2> QED BY <2>2, <2>3, <2>4 DEF D
  <1> QED BY <1>10, <1>11
===============================================================================
