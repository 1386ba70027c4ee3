----------------------------- MODULE Sums_proofs -----------------------------
(***************************************************************************)
(* Induction, and what follows from it for sums.                           *)
(***************************************************************************)
EXTENDS Sums, WellFoundedInduction, TLAPS

Less == {ss \in Nat \X Nat : ss[1] < ss[2]}

\* Every set of numbers that is not empty has a least element.
LEMMA Least ==
  ASSUME NEW S, S \subseteq Nat, S # {}
  PROVE  \E x \in S : \A y \in S : x <= y
<1>1. IsWellFoundedOn(Less, Nat)
  BY NatLessThanWellFounded DEF OpToRel, Less
<1>2. PICK x \in S : \A y \in S : ~(<<y, x>> \in Less)
  BY <1>1, WFMin
<1>3. ASSUME NEW y \in S PROVE x <= y
  <2>1. x \in Nat /\ y \in Nat
    OBVIOUS
  <2>2. ~(<<y, x>> \in Less)
    BY <1>2
  <2>3. ~(y < x)
    BY <2>1, <2>2 DEF Less
  <2> QED BY <2>1, <2>3
<1> QED BY <1>3

\* Induction over an interval, as a statement about sets: a set that holds its
\* first number, and with a number the next, holds them all.
LEMMA IntervalInduction ==
  ASSUME NEW a \in Int, NEW b \in Int, NEW S, a \in S,
         \A k \in a..(b - 1) : k \in S => k + 1 \in S
  PROVE  a..b \subseteq S
<1> SUFFICES ASSUME NEW c \in a..b, c \notin S PROVE FALSE
  OBVIOUS
<1> DEFINE Bad == {i \in Nat : a + i \in a..b /\ a + i \notin S}
<1>1. c - a \in Bad
  OBVIOUS
<1>2. PICK i \in Bad : \A j \in Bad : i <= j
  BY <1>1, Least
<1>3. i # 0 /\ a + i \in a..b /\ a + i \notin S /\ i \in Nat
  OBVIOUS
<1>4. i - 1 \in Nat /\ i - 1 \notin Bad
  BY <1>2, <1>3
<1>5. a + (i - 1) \in a..(b - 1) /\ a + (i - 1) \in S
  BY <1>3, <1>4
<1>6. (a + (i - 1)) + 1 \in S
  BY <1>5
<1>7. (a + (i - 1)) + 1 = a + i
  BY <1>3
<1> QED BY <1>3, <1>6, <1>7

\* The recursion Sum is defined by has a solution.
LEMMA SumExists ==
  ASSUME NEW s, NEW m \in Int, NEW n \in Int, m - 1 <= n
  PROVE  \E g : g = [k \in (m - 1)..n |-> IF k = m - 1 THEN 0 ELSE g[k - 1] + s[k]]
<1> DEFINE Next(g, j) == [k \in (m - 1)..j |-> IF k = m - 1 THEN 0 ELSE g[k - 1] + s[k]]
           S == {j \in (m - 1)..n : \E g : g = Next(g, j)}
<1>1. m - 1 \in S
  <2> DEFINE g == [k \in (m - 1)..(m - 1) |-> 0]
  <2>1. g = Next(g, m - 1)
    OBVIOUS
  <2>2. m - 1 \in (m - 1)..n
    OBVIOUS
  <2> HIDE DEF g, Next
  <2> QED BY <2>1, <2>2
<1>2. ASSUME NEW j \in (m - 1)..(n - 1), j \in S PROVE j + 1 \in S
  <2>1. PICK g : g = Next(g, j)
    BY <1>2
  <2> DEFINE h == [k \in (m - 1)..(j + 1) |-> IF k = j + 1 THEN g[j] + s[j + 1] ELSE g[k]]
  <2>2. ASSUME NEW k \in (m - 1)..(j + 1)
        PROVE  h[k] = IF k = m - 1 THEN 0 ELSE h[k - 1] + s[k]
    <3>1. CASE k = m - 1
      BY <2>1, <3>1
    <3>2. CASE k # m - 1 /\ k # j + 1
      <4>1. k - 1 \in (m - 1)..(j + 1) /\ k - 1 # j + 1 /\ k \in (m - 1)..j
        BY <3>2
      <4>2. g[k] = g[k - 1] + s[k]
        BY <2>1, <3>2, <4>1
      <4> QED BY <3>2, <4>1, <4>2
    <3>3. CASE k # m - 1 /\ k = j + 1
      BY <3>3
    <3> QED BY <3>1, <3>2, <3>3
  <2>3. h = Next(h, j + 1)
    BY <2>2
  <2>4. j + 1 \in (m - 1)..n
    OBVIOUS
  <2> HIDE DEF h, Next
  <2> QED BY <2>3, <2>4
<1> HIDE DEF S
<1>3. (m - 1)..n \subseteq S
  BY <1>1, <1>2, IntervalInduction
<1> USE DEF S
<1> QED BY <1>3

\* Sum is the last value of such a solution.
LEMMA SumRecursion ==
  ASSUME NEW s, NEW m \in Int, NEW n \in Int, m - 1 <= n
  PROVE  \E g : /\ g = [k \in (m - 1)..n |-> IF k = m - 1 THEN 0 ELSE g[k - 1] + s[k]]
                /\ Sum(s, m, n) = g[n]
BY SumExists, ZenonT(30) DEF Sum

\* Any function with the sums so far as its values ends in Sum.
LEMMA SumUnique ==
  ASSUME NEW s, NEW m \in Int, NEW n \in Int, m - 1 <= n,
         NEW g, g[m - 1] = 0, \A k \in m..n : g[k] = g[k - 1] + s[k]
  PROVE  Sum(s, m, n) = g[n]
<1>1. PICK h : /\ h = [k \in (m - 1)..n |-> IF k = m - 1 THEN 0 ELSE h[k - 1] + s[k]]
               /\ Sum(s, m, n) = h[n]
  BY SumRecursion
<1> DEFINE S == {k \in (m - 1)..n : g[k] = h[k]}
<1>2. m - 1 \in S
  BY <1>1
<1>3. ASSUME NEW k \in (m - 1)..(n - 1), k \in S PROVE k + 1 \in S
  <2>1. k + 1 \in m..n /\ k + 1 \in (m - 1)..n /\ k + 1 # m - 1 /\ (k + 1) - 1 = k
    OBVIOUS
  <2>2. g[k + 1] = g[k] + s[k + 1]
    BY <2>1
  <2>3. h[k + 1] = h[k] + s[k + 1]
    BY <1>1, <2>1
  <2> QED BY <1>3, <2>1, <2>2, <2>3
<1> HIDE DEF S
<1>4. (m - 1)..n \subseteq S
  BY <1>2, <1>3, IntervalInduction
<1> USE DEF S
<1> QED BY <1>1, <1>4

\* No entries add up to 0.
LEMMA SumEmpty == ASSUME NEW s, NEW m \in Int PROVE Sum(s, m, m - 1) = 0
<1>1. m - 1 \in Int /\ m - 1 <= m - 1 /\ m - 1 \in (m - 1)..(m - 1)
  OBVIOUS
<1> QED BY <1>1, SumRecursion

\* One entry more.
LEMMA SumNext ==
  ASSUME NEW s, NEW m \in Int, NEW n \in Int, m <= n
  PROVE  Sum(s, m, n) = Sum(s, m, n - 1) + s[n]
<1>0. m - 1 <= n
  OBVIOUS
<1>1. PICK h : /\ h = [k \in (m - 1)..n |-> IF k = m - 1 THEN 0 ELSE h[k - 1] + s[k]]
               /\ Sum(s, m, n) = h[n]
  BY <1>0, SumRecursion
<1>2. h[n] = h[n - 1] + s[n]
  BY <1>1
<1>3. Sum(s, m, n - 1) = h[n - 1]
  <2>1. n - 1 \in Int /\ m - 1 <= n - 1
    OBVIOUS
  <2>2. h[m - 1] = 0
    BY <1>1
  <2>3. \A k \in m..(n - 1) : h[k] = h[k - 1] + s[k]
    BY <1>1
  <2> HIDE DEF Sum
  <2> QED BY <2>1, <2>2, <2>3, SumUnique
<1> QED BY <1>1, <1>2, <1>3

\* Equal entries have the same sum.
LEMMA SumSame ==
  ASSUME NEW s, NEW t, NEW m \in Int, NEW n \in Int, m - 1 <= n,
         \A k \in m..n : s[k] = t[k]
  PROVE  Sum(s, m, n) = Sum(t, m, n)
<1>1. PICK g : /\ g = [k \in (m - 1)..n |-> IF k = m - 1 THEN 0 ELSE g[k - 1] + t[k]]
               /\ Sum(t, m, n) = g[n]
  BY SumRecursion
<1>2. g[m - 1] = 0 /\ \A k \in m..n : g[k] = g[k - 1] + s[k]
  BY <1>1
<1> QED BY <1>1, <1>2, SumUnique

\* Sums of numbers are numbers.
LEMMA SumNat ==
  ASSUME NEW s, NEW m \in Int, NEW n \in Int, m - 1 <= n,
         \A k \in m..n : s[k] \in Nat
  PROVE  \A k \in (m - 1)..n : Sum(s, m, k) \in Nat
<1> DEFINE S == {k \in (m - 1)..n : Sum(s, m, k) \in Nat}
<1>1. m - 1 \in S
  BY SumEmpty
<1>2. ASSUME NEW k \in (m - 1)..(n - 1), k \in S PROVE k + 1 \in S
  <2>1. k + 1 \in Int /\ m <= k + 1 /\ (k + 1) - 1 = k /\ k + 1 \in (m - 1)..n
    OBVIOUS
  <2>2. Sum(s, m, k + 1) = Sum(s, m, k) + s[k + 1]
    BY <2>1, SumNext
  <2>3. Sum(s, m, k) \in Nat /\ s[k + 1] \in Nat
    BY <1>2
  <2> QED BY <2>1, <2>2, <2>3
<1> HIDE DEF S
<1>3. (m - 1)..n \subseteq S
  BY <1>1, <1>2, IntervalInduction
<1> QED BY <1>3 DEF S

\* Entries that are 0 do not change a sum.
LEMMA SumStops ==
  ASSUME NEW s, NEW m \in Int, NEW j \in Int, NEW n \in Int, m - 1 <= j, j <= n,
         Sum(s, m, j) \in Int, \A k \in (j + 1)..n : s[k] = 0
  PROVE  Sum(s, m, n) = Sum(s, m, j)
<1> DEFINE S == {k \in j..n : Sum(s, m, k) = Sum(s, m, j)}
<1>1. j \in S
  OBVIOUS
<1>2. ASSUME NEW k \in j..(n - 1), k \in S PROVE k + 1 \in S
  <2>1. k + 1 \in Int /\ m <= k + 1 /\ (k + 1) - 1 = k /\ k + 1 \in j..n
        /\ k + 1 \in (j + 1)..n
    OBVIOUS
  <2>2. Sum(s, m, k + 1) = Sum(s, m, k) + s[k + 1]
    BY <2>1, SumNext
  <2>3. Sum(s, m, k) = Sum(s, m, j) /\ s[k + 1] = 0
    BY <1>2, <2>1
  <2> QED BY <2>1, <2>2, <2>3
<1> HIDE DEF S
<1>3. j..n \subseteq S
  BY <1>1, <1>2, IntervalInduction
<1> USE DEF S
<1> QED BY <1>3

\* A sum is that of its first entries and that of the others.
LEMMA SumSplits ==
  ASSUME NEW s, NEW m \in Int, NEW n \in Int, NEW j \in (m - 1)..n,
         \A k \in m..n : s[k] \in Nat
  PROVE  Sum(s, m, n) = Sum(s, m, j) + Sum(s, j + 1, n)
<1> DEFINE S == {k \in j..n : Sum(s, m, k) = Sum(s, m, j) + Sum(s, j + 1, k)}
<1>0. Sum(s, m, j) \in Nat
  BY SumNat, SMTT(30)
<1>1. j \in S
  <2>1. j + 1 \in Int /\ (j + 1) - 1 = j
    OBVIOUS
  <2>2. Sum(s, j + 1, j) = 0
    BY <2>1, SumEmpty
  <2> QED BY <1>0, <2>2
<1>2. ASSUME NEW k \in j..(n - 1), k \in S PROVE k + 1 \in S
  <2>1. k + 1 \in Int /\ m <= k + 1 /\ j + 1 <= k + 1 /\ (k + 1) - 1 = k /\ j + 1 \in Int
    OBVIOUS
  <2>2. Sum(s, m, k + 1) = Sum(s, m, k) + s[k + 1]
    BY <2>1, SumNext
  <2>3. Sum(s, j + 1, k + 1) = Sum(s, j + 1, k) + s[k + 1]
    BY <2>1, SumNext
  <2>4. Sum(s, j + 1, k) \in Nat
    <3>1. (j + 1) - 1 <= n /\ k \in ((j + 1) - 1)..n /\ \A l \in (j + 1)..n : s[l] \in Nat
      OBVIOUS
    <3> QED BY <2>1, <3>1, SumNat
  <2>5. s[k + 1] \in Nat /\ k + 1 \in j..n
    OBVIOUS
  <2>6. Sum(s, m, k) = Sum(s, m, j) + Sum(s, j + 1, k)
    BY <1>2
  <2> QED BY <1>0, <2>2, <2>3, <2>4, <2>5, <2>6
<1> HIDE DEF S
<1>3. j..n \subseteq S
  BY <1>1, <1>2, IntervalInduction
<1> QED BY <1>3 DEF S

\* The sum of a part of t that has the entries of s.
LEMMA SumShifts ==
  ASSUME NEW s, NEW t, NEW l \in Int, NEW n \in Nat, \A k \in 1..n : t[l + k] = s[k]
  PROVE  Sum(t, l + 1, l + n) = Sum(s, 1, n)
<1>1. PICK g : /\ g = [k \in (1 - 1)..n |-> IF k = 1 - 1 THEN 0 ELSE g[k - 1] + s[k]]
               /\ Sum(s, 1, n) = g[n]
  <2>1. 1 \in Int /\ n \in Int /\ 1 - 1 <= n
    OBVIOUS
  <2> HIDE DEF Sum
  <2> QED BY <2>1, SumRecursion
<1> DEFINE h == [k \in l..(l + n) |-> g[k - l]]
<1>2. h[(l + 1) - 1] = 0 /\ h[l + n] = g[n]
  BY <1>1
<1>3. ASSUME NEW k \in (l + 1)..(l + n) PROVE h[k] = h[k - 1] + t[k]
  <2>1. k - l \in 1..n /\ l + (k - l) = k /\ (k - 1) - l = (k - l) - 1 /\ k - 1 \in l..(l + n)
    OBVIOUS
  <2>2. g[k - l] = g[(k - l) - 1] + s[k - l]
    BY <1>1, <2>1
  <2>3. t[k] = s[k - l]
    BY <2>1
  <2> QED BY <2>1, <2>2, <2>3
<1>4. l + 1 \in Int /\ l + n \in Int /\ (l + 1) - 1 <= l + n
  OBVIOUS
<1> HIDE DEF h
<1>5. Sum(t, l + 1, l + n) = h[l + n]
  BY <1>2, <1>3, <1>4, SumUnique
<1> QED BY <1>1, <1>2, <1>5
=============================================================================
