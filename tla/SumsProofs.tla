----------------------------- MODULE SumsProofs -----------------------------
(***************************************************************************)
(* What the partial sums of a function satisfy.  The lemmas are proved by   *)
(* induction over an interval, itself obtained from the least element of a  *)
(* set of naturals: the sets stand where an induction theorem would take a  *)
(* predicate.                                                               *)
(***************************************************************************)
EXTENDS Sums, WellFoundedInduction, FiniteSetTheorems, TLAPS

(* Every non-empty set of naturals has a least element. *)
LEMMA LeastNatural ==
  ASSUME NEW S \in SUBSET Nat, NEW x \in S
  PROVE  \E m \in S : \A k \in S : m <= k
<1>0. OpToRel(<, Nat) = {ss \in Nat \X Nat : ss[1] < ss[2]}
  BY Zenon DEF OpToRel
<1>1. \E m \in S : \A k \in S : ~(<<k, m>> \in OpToRel(<, Nat))
  BY NatLessThanWellFounded, WFMin, Zenon
<1>2. \E R : /\ R = {ss \in Nat \X Nat : ss[1] < ss[2]}
             /\ \E m \in S : \A k \in S : ~(<<k, m>> \in R)
  BY <1>0, <1>1, Zenon
<1>3. PICK R : /\ R = {ss \in Nat \X Nat : ss[1] < ss[2]}
               /\ \E m \in S : \A k \in S : ~(<<k, m>> \in R)
  BY <1>2
<1>4. PICK m \in S : \A k \in S : ~(<<k, m>> \in R)
  BY <1>3
<1>5. ASSUME NEW k \in S PROVE m <= k
  BY <1>3, <1>4, <<k, m>> \in Nat \X Nat
<1> QED BY <1>4, <1>5

(* A set that holds 0 and, below n, the successor of each of its members,   *)
(* holds the whole of 0..n.                                                 *)
LEMMA IntervalInduction ==
  ASSUME NEW n \in Nat, NEW S, 0 \in S,
         \A i \in 0..n : i \in S /\ i < n => i + 1 \in S
  PROVE  \A i \in 0..n : i \in S
<1> DEFINE Missing == {i \in 0..n : i \notin S}
<1>1. SUFFICES ASSUME NEW x \in Missing PROVE FALSE
  OBVIOUS
<1>2. Missing \in SUBSET Nat
  OBVIOUS
<1>3. PICK m \in Missing : \A k \in Missing : m <= k
  <2> HIDE DEF Missing
  <2> QED BY <1>1, <1>2, LeastNatural
<1>4. m # 0 /\ m - 1 \in 0..n /\ m - 1 < n
  OBVIOUS
<1>5. m - 1 \in S
  BY <1>3, <1>4
<1> QED BY <1>4, <1>5

(* The recursive definition of PartialSums has a solution, so its values    *)
(* obey the recurrence it is written with.                                  *)
LEMMA PartialSumsRecurrence ==
  ASSUME NEW n \in Nat, NEW f \in [1..n -> Nat]
  PROVE  /\ PartialSums(f, n) \in [0..n -> Nat]
         /\ PartialSums(f, n)[0] = 0
         /\ \A i \in 1..n : PartialSums(f, n)[i] = PartialSums(f, n)[i - 1] + f[i]
<1> DEFINE Solves(g, k) == g[0] = 0 /\ \A i \in 1..k : g[i] = g[i - 1] + f[i]
           Solved == {k \in 0..n : \E g \in [0..k -> Nat] : Solves(g, k)}
<1>1. 0 \in Solved
  <2>1. [i \in 0..0 |-> 0] \in [0..0 -> Nat] /\ Solves([i \in 0..0 |-> 0], 0)
    OBVIOUS
  <2> HIDE DEF Solves
  <2> QED BY <2>1
<1>2. \A k \in 0..n : k \in Solved /\ k < n => k + 1 \in Solved
  <2> SUFFICES ASSUME NEW k \in 0..n, k \in Solved, k < n
               PROVE  k + 1 \in Solved
    OBVIOUS
  <2>1. PICK g \in [0..k -> Nat] : Solves(g, k)
    OBVIOUS
  <2> DEFINE h == [i \in 0..(k + 1) |-> IF i = k + 1 THEN g[k] + f[k + 1] ELSE g[i]]
  <2>2. f[k + 1] \in Nat /\ g[k] \in Nat
    OBVIOUS
  <2>3. h \in [0..(k + 1) -> Nat] /\ h[0] = 0
    BY <2>1, <2>2
  <2>4. ASSUME NEW i \in 1..(k + 1) PROVE h[i] = h[i - 1] + f[i]
    <3>1. CASE i = k + 1
      BY <3>1
    <3>2. CASE i \in 1..k
      <4>1. i \in 0..(k + 1) /\ i - 1 \in 0..(k + 1) /\ i # k + 1 /\ i - 1 # k + 1
        BY <3>2
      <4>2. h[i] = g[i] /\ h[i - 1] = g[i - 1]
        BY <4>1
      <4> QED BY <2>1, <3>2, <4>2
    <3> QED BY <3>1, <3>2
  <2>5. Solves(h, k + 1)
    BY <2>3, <2>4
  <2> HIDE DEF h, Solves
  <2> QED BY <2>3, <2>5, k + 1 \in 0..n
<1>3. n \in Solved
  <2> HIDE DEF Solved
  <2>1. \A k \in 0..n : k \in Solved
    BY <1>1, <1>2, IntervalInduction
  <2> QED BY <2>1
<1>4. PICK g \in [0..n -> Nat] : Solves(g, n)
  BY <1>3
<1> DEFINE Defines(s) == s = [i \in 0..n |-> IF i = 0 THEN 0 ELSE s[i - 1] + f[i]]
<1>5. Defines(g)
  BY <1>4
<1>6. PartialSums(f, n) = CHOOSE s : Defines(s)
  BY DEF PartialSums
<1>7. Defines(PartialSums(f, n))
  <2> HIDE DEF Defines
  <2> QED BY <1>5, <1>6
<1> DEFINE p == PartialSums(f, n)
<1>8. /\ p[0] = 0
      /\ \A i \in 1..n : p[i] = p[i - 1] + f[i]
      /\ p = [i \in 0..n |-> p[i]]
  <2> HIDE DEF p
  <2>1. p = [i \in 0..n |-> IF i = 0 THEN 0 ELSE p[i - 1] + f[i]]
    BY <1>7 DEF p
  <2> QED BY <2>1
<1> DEFINE Natural == {i \in 0..n : p[i] \in Nat}
<1>9. 0 \in Natural
  <2> HIDE DEF p
  <2> QED BY <1>8
<1>10. \A i \in 0..n : i \in Natural /\ i < n => i + 1 \in Natural
  <2> HIDE DEF p
  <2> SUFFICES ASSUME NEW i \in 0..n, i \in Natural, i < n
               PROVE  i + 1 \in Natural
    OBVIOUS
  <2>1. p[i + 1] = p[i] + f[i + 1]
    BY <1>8, i + 1 \in 1..n, (i + 1) - 1 = i
  <2> QED BY <2>1
<1>11. \A i \in 0..n : i \in Natural
  <2> HIDE DEF Natural
  <2> QED BY <1>9, <1>10, IntervalInduction
<1>12. p \in [0..n -> Nat]
  <2> HIDE DEF p
  <2> QED BY <1>8, <1>11
<1> QED BY <1>8, <1>12

(* A sum of naturals is a natural. *)
LEMMA SumNatural ==
  ASSUME NEW n \in Nat, NEW f \in [1..n -> Nat]
  PROVE  SumTo(f, n) \in Nat
<1>1. PartialSums(f, n) \in [0..n -> Nat]
  BY PartialSumsRecurrence
<1> QED BY <1>1 DEF SumTo

(* A sum with only zero terms is zero. *)
LEMMA SumOfZeros ==
  ASSUME NEW n \in Nat, NEW f \in [1..n -> Nat], \A i \in 1..n : f[i] = 0
  PROVE  SumTo(f, n) = 0
<1> DEFINE p == PartialSums(f, n)
           Zero == {i \in 0..n : p[i] = 0}
<1> HIDE DEF p
<1>1. p[0] = 0 /\ \A i \in 1..n : p[i] = p[i - 1] + f[i]
  BY PartialSumsRecurrence DEF p
<1>2. 0 \in Zero
  BY <1>1
<1>3. \A i \in 0..n : i \in Zero /\ i < n => i + 1 \in Zero
  BY <1>1, \A i \in 0..n : i < n => i + 1 \in 1..n /\ (i + 1) - 1 = i
<1>4. \A i \in 0..n : i \in Zero
  <2> HIDE DEF Zero
  <2> QED BY <1>2, <1>3, IntervalInduction
<1> QED BY <1>4 DEF SumTo, p

(* Replacing one term moves the sum by the difference of the two terms. *)
LEMMA SumUpdate ==
  ASSUME NEW n \in Nat, NEW f \in [1..n -> Nat], NEW j \in 1..n, NEW x \in Nat
  PROVE  SumTo([f EXCEPT ![j] = x], n) = SumTo(f, n) - f[j] + x
<1> DEFINE h == [f EXCEPT ![j] = x]
           p == PartialSums(f, n)
           q == PartialSums(h, n)
           Moved == {i \in 0..n : q[i] = IF i < j THEN p[i] ELSE p[i] - f[j] + x}
<1>1. h \in [1..n -> Nat]
  OBVIOUS
<1> HIDE DEF p, q
<1>2. p \in [0..n -> Nat] /\ p[0] = 0 /\ \A i \in 1..n : p[i] = p[i - 1] + f[i]
  BY PartialSumsRecurrence DEF p
<1>3. q \in [0..n -> Nat] /\ q[0] = 0 /\ \A i \in 1..n : q[i] = q[i - 1] + h[i]
  <2> HIDE DEF h
  <2> QED BY <1>1, PartialSumsRecurrence DEF q
<1>4. 0 \in Moved
  BY <1>2, <1>3
<1>5. \A i \in 0..n : i \in Moved /\ i < n => i + 1 \in Moved
  <2> SUFFICES ASSUME NEW i \in 0..n, i \in Moved, i < n PROVE i + 1 \in Moved
    OBVIOUS
  <2>1. i + 1 \in 1..n /\ (i + 1) - 1 = i
    OBVIOUS
  <2>2. p[i + 1] = p[i] + f[i + 1] /\ q[i + 1] = q[i] + h[i + 1]
    BY <2>1, <1>2, <1>3
  <2>3. p[i] \in Nat /\ q[i] \in Nat /\ f[i + 1] \in Nat /\ f[j] \in Nat
    BY <2>1, <1>2, <1>3
  <2>4. h[i + 1] = IF i + 1 = j THEN x ELSE f[i + 1]
    BY <2>1
  <2>5. q[i] = IF i < j THEN p[i] ELSE p[i] - f[j] + x
    OBVIOUS
  <2>6. q[i + 1] = IF i + 1 < j THEN p[i + 1] ELSE p[i + 1] - f[j] + x
    <3>1. CASE i + 1 < j
      BY <3>1, <2>1, <2>2, <2>3, <2>4, <2>5
    <3>2. CASE i + 1 = j
      BY <3>2, <2>1, <2>2, <2>3, <2>4, <2>5
    <3>3. CASE i + 1 > j
      BY <3>3, <2>1, <2>2, <2>3, <2>4, <2>5
    <3> QED BY <3>1, <3>2, <3>3
  <2> QED BY <2>1, <2>6
<1>6. \A i \in 0..n : i \in Moved
  <2> HIDE DEF Moved
  <2> QED BY <1>4, <1>5, IntervalInduction
<1>7. q[n] = p[n] - f[j] + x
  BY <1>6
<1> QED BY <1>7 DEF SumTo, p, q

(* The step of SumScaled: two inequalities between products add up.        *)
LEMMA ScaledTerms ==
  ASSUME NEW t \in Nat, NEW d \in Nat, NEW a \in Nat, NEW b \in Nat,
         NEW x \in Nat, NEW y \in Nat, t * a <= d * x, t * b <= d * y
  PROVE  t * (a + b) <= d * (x + y)
<1>1. t * (a + b) = t * a + t * b /\ d * (x + y) = d * x + d * y
  OBVIOUS
<1>2. t * a \in Nat /\ t * b \in Nat /\ d * x \in Nat /\ d * y \in Nat
  OBVIOUS
<1> QED BY <1>1, <1>2

(* If every term of g, times t, is at most d times the term of f beside it, *)
(* then so are the sums.                                                    *)
LEMMA SumScaled ==
  ASSUME NEW n \in Nat, NEW f \in [1..n -> Nat], NEW g \in [1..n -> Nat],
         NEW t \in Nat, NEW d \in Nat, \A i \in 1..n : t * g[i] <= d * f[i]
  PROVE  t * SumTo(g, n) <= d * SumTo(f, n)
<1> DEFINE p == PartialSums(f, n)
           q == PartialSums(g, n)
           Below == {i \in 0..n : t * q[i] <= d * p[i]}
<1> HIDE DEF p, q
<1>1. p \in [0..n -> Nat] /\ p[0] = 0 /\ \A i \in 1..n : p[i] = p[i - 1] + f[i]
  BY PartialSumsRecurrence DEF p
<1>2. q \in [0..n -> Nat] /\ q[0] = 0 /\ \A i \in 1..n : q[i] = q[i - 1] + g[i]
  BY PartialSumsRecurrence DEF q
<1>3. 0 \in Below
  BY <1>1, <1>2
<1>4. \A i \in 0..n : i \in Below /\ i < n => i + 1 \in Below
  <2> SUFFICES ASSUME NEW i \in 0..n, i \in Below, i < n PROVE i + 1 \in Below
    OBVIOUS
  <2>1. i + 1 \in 1..n /\ (i + 1) - 1 = i
    OBVIOUS
  <2>2. p[i + 1] = p[i] + f[i + 1] /\ q[i + 1] = q[i] + g[i + 1]
    BY <2>1, <1>1, <1>2
  <2>3. p[i] \in Nat /\ q[i] \in Nat /\ f[i + 1] \in Nat /\ g[i + 1] \in Nat
    BY <2>1, <1>1, <1>2
  <2>4. t * q[i] <= d * p[i] /\ t * g[i + 1] <= d * f[i + 1]
    BY <2>1
  <2>5. t * (q[i] + g[i + 1]) <= d * (p[i] + f[i + 1])
    BY <2>3, <2>4, ScaledTerms
  <2> QED BY <2>1, <2>2, <2>5
<1>5. \A i \in 0..n : i \in Below
  <2> HIDE DEF Below
  <2> QED BY <1>3, <1>4, IntervalInduction
<1> QED BY <1>5 DEF SumTo, p, q

(* Sums keep the order of their terms. *)
LEMMA SumMonotone ==
  ASSUME NEW n \in Nat, NEW f \in [1..n -> Nat], NEW g \in [1..n -> Nat],
         \A i \in 1..n : g[i] <= f[i]
  PROVE  SumTo(g, n) <= SumTo(f, n)
<1>1. \A i \in 1..n : 1 * g[i] <= 1 * f[i]
  OBVIOUS
<1>2. 1 * SumTo(g, n) <= 1 * SumTo(f, n)
  BY <1>1, SumScaled
<1> QED BY <1>2, SumNatural

(* No term exceeds the sum. *)
LEMMA TermAtMostSum ==
  ASSUME NEW n \in Nat, NEW f \in [1..n -> Nat], NEW j \in 1..n
  PROVE  f[j] <= SumTo(f, n)
<1> DEFINE h == [f EXCEPT ![j] = 0]
<1>1. SumTo(h, n) = SumTo(f, n) - f[j] + 0
  BY SumUpdate
<1>2. SumTo(h, n) \in Nat /\ SumTo(f, n) \in Nat /\ f[j] \in Nat
  <2>1. h \in [1..n -> Nat]
    OBVIOUS
  <2> HIDE DEF h
  <2> QED BY <2>1, SumNatural
<1> HIDE DEF h
<1> QED BY <1>1, <1>2

(* The sum of the sums is the sum of the termwise sums. *)
LEMMA SumAdd ==
  ASSUME NEW n \in Nat, NEW f \in [1..n -> Nat], NEW g \in [1..n -> Nat],
         NEW h \in [1..n -> Nat], \A i \in 1..n : h[i] = f[i] + g[i]
  PROVE  SumTo(h, n) = SumTo(f, n) + SumTo(g, n)
<1> DEFINE p == PartialSums(f, n)
           q == PartialSums(g, n)
           r == PartialSums(h, n)
           Equal == {i \in 0..n : r[i] = p[i] + q[i]}
<1> HIDE DEF p, q, r
<1>1. p \in [0..n -> Nat] /\ p[0] = 0 /\ \A i \in 1..n : p[i] = p[i - 1] + f[i]
  BY PartialSumsRecurrence DEF p
<1>2. q \in [0..n -> Nat] /\ q[0] = 0 /\ \A i \in 1..n : q[i] = q[i - 1] + g[i]
  BY PartialSumsRecurrence DEF q
<1>3. r \in [0..n -> Nat] /\ r[0] = 0 /\ \A i \in 1..n : r[i] = r[i - 1] + h[i]
  BY PartialSumsRecurrence DEF r
<1>4. 0 \in Equal
  BY <1>1, <1>2, <1>3
<1>5. \A i \in 0..n : i \in Equal /\ i < n => i + 1 \in Equal
  <2> SUFFICES ASSUME NEW i \in 0..n, i \in Equal, i < n PROVE i + 1 \in Equal
    OBVIOUS
  <2>1. i + 1 \in 1..n /\ (i + 1) - 1 = i
    OBVIOUS
  <2>2. /\ p[i + 1] = p[i] + f[i + 1] /\ q[i + 1] = q[i] + g[i + 1]
        /\ r[i + 1] = r[i] + h[i + 1] /\ h[i + 1] = f[i + 1] + g[i + 1]
    BY <2>1, <1>1, <1>2, <1>3
  <2>3. /\ p[i] \in Nat /\ q[i] \in Nat /\ f[i + 1] \in Nat /\ g[i + 1] \in Nat
        /\ r[i] = p[i] + q[i]
    BY <2>1, <1>1, <1>2
  <2> QED BY <2>1, <2>2, <2>3
<1>6. \A i \in 0..n : i \in Equal
  <2> HIDE DEF Equal
  <2> QED BY <1>4, <1>5, IntervalInduction
<1> QED BY <1>6 DEF SumTo, p, q, r

(* The step of SumDominated. *)
LEMMA DominatedTerms ==
  ASSUME NEW t \in Nat, NEW d \in Nat, NEW u \in Nat,
         NEW a \in Nat, NEW b \in Nat, NEW x \in Nat, NEW y \in Nat,
         NEW v \in Nat, NEW w \in Nat,
         d * x <= t * a + u * v, d * y <= t * b + u * w
  PROVE  d * (x + y) <= t * (a + b) + u * (v + w)
<1>1. /\ t * (a + b) = t * a + t * b /\ d * (x + y) = d * x + d * y
      /\ u * (v + w) = u * v + u * w
  OBVIOUS
<1>2. /\ t * a \in Nat /\ t * b \in Nat /\ d * x \in Nat /\ d * y \in Nat
      /\ u * v \in Nat /\ u * w \in Nat
  OBVIOUS
<1> QED BY <1>1, <1>2

(* If every term of f, times d, is at most t times the term of g and u      *)
(* times the term of h, then so is the sum.                                 *)
LEMMA SumDominated ==
  ASSUME NEW n \in Nat, NEW f \in [1..n -> Nat], NEW g \in [1..n -> Nat],
         NEW h \in [1..n -> Nat], NEW t \in Nat, NEW d \in Nat, NEW u \in Nat,
         \A i \in 1..n : d * f[i] <= t * g[i] + u * h[i]
  PROVE  d * SumTo(f, n) <= t * SumTo(g, n) + u * SumTo(h, n)
<1> DEFINE p == PartialSums(f, n)
           q == PartialSums(g, n)
           r == PartialSums(h, n)
           Below == {i \in 0..n : d * p[i] <= t * q[i] + u * r[i]}
<1> HIDE DEF p, q, r
<1>1. p \in [0..n -> Nat] /\ p[0] = 0 /\ \A i \in 1..n : p[i] = p[i - 1] + f[i]
  BY PartialSumsRecurrence DEF p
<1>2. q \in [0..n -> Nat] /\ q[0] = 0 /\ \A i \in 1..n : q[i] = q[i - 1] + g[i]
  BY PartialSumsRecurrence DEF q
<1>3. r \in [0..n -> Nat] /\ r[0] = 0 /\ \A i \in 1..n : r[i] = r[i - 1] + h[i]
  BY PartialSumsRecurrence DEF r
<1>4. 0 \in Below
  BY <1>1, <1>2, <1>3
<1>5. \A i \in 0..n : i \in Below /\ i < n => i + 1 \in Below
  <2> SUFFICES ASSUME NEW i \in 0..n, i \in Below, i < n PROVE i + 1 \in Below
    OBVIOUS
  <2>1. i + 1 \in 1..n /\ (i + 1) - 1 = i
    OBVIOUS
  <2>2. /\ p[i + 1] = p[i] + f[i + 1] /\ q[i + 1] = q[i] + g[i + 1]
        /\ r[i + 1] = r[i] + h[i + 1]
    BY <2>1, <1>1, <1>2, <1>3
  <2>3. /\ p[i] \in Nat /\ q[i] \in Nat /\ r[i] \in Nat
        /\ f[i + 1] \in Nat /\ g[i + 1] \in Nat /\ h[i + 1] \in Nat
    BY <2>1, <1>1, <1>2, <1>3
  <2>4. /\ d * p[i] <= t * q[i] + u * r[i]
        /\ d * f[i + 1] <= t * g[i + 1] + u * h[i + 1]
    BY <2>1
  <2>5. d * (p[i] + f[i + 1]) <= t * (q[i] + g[i + 1]) + u * (r[i] + h[i + 1])
    BY <2>3, <2>4, DominatedTerms
  <2> QED BY <2>1, <2>2, <2>5
<1>6. \A i \in 0..n : i \in Below
  <2> HIDE DEF Below
  <2> QED BY <1>4, <1>5, IntervalInduction
<1> QED BY <1>6 DEF SumTo, p, q, r

(* The members of S up to k + 1 are those up to k and, if it is one, k + 1.  *)
LEMMA PrefixNext ==
  ASSUME NEW S \in SUBSET Int, NEW k \in Int
  PROVE  {i \in S : i <= k + 1}
           = {i \in S : i <= k} \cup (IF k + 1 \in S THEN {k + 1} ELSE {})
<1>1. \A i \in S : i \in Int
  OBVIOUS
<1>2. CASE k + 1 \in S
  <2>1. \A i \in S : i <= k + 1 <=> i <= k \/ i = k + 1
    BY <1>1
  <2> QED BY <1>2, <2>1, Zenon
<1>3. CASE k + 1 \notin S
  <2>1. \A i \in S : i <= k + 1 <=> i <= k
    BY <1>1, <1>3
  <2> QED BY <1>3, <2>1, Zenon
<1> QED BY <1>2, <1>3

(* The sum of an indicator is the number of the elements it marks.          *)
LEMMA SumCounts ==
  ASSUME NEW n \in Nat, NEW S \in SUBSET (1..n), NEW f \in [1..n -> Nat],
         \A i \in 1..n : f[i] = IF i \in S THEN 1 ELSE 0
  PROVE  Cardinality(S) = SumTo(f, n)
<1> DEFINE p == PartialSums(f, n)
           Upto(k) == {i \in S : i <= k}
           Counted == {k \in 0..n :
                         IsFiniteSet(Upto(k)) /\ Cardinality(Upto(k)) = p[k]}
<1> HIDE DEF p
<1>1. p \in [0..n -> Nat] /\ p[0] = 0 /\ \A i \in 1..n : p[i] = p[i - 1] + f[i]
  BY PartialSumsRecurrence DEF p
<1>2. Upto(0) = {} /\ Upto(n) = S
  <2>1. \A i \in S : ~(i <= 0) /\ i <= n
    OBVIOUS
  <2> QED BY <2>1, Zenon
<1>3. \A k \in 0..n : Upto(k + 1) = Upto(k) \cup (IF k + 1 \in S THEN {k + 1} ELSE {})
  <2> TAKE k \in 0..n
  <2>1. S \in SUBSET Int /\ k \in Int
    OBVIOUS
  <2> QED BY <2>1, PrefixNext, Zenon
<1>4. \A k \in 0..n : k + 1 \notin Upto(k)
  OBVIOUS
<1> HIDE DEF Upto
<1>5. 0 \in Counted
  <2>1. IsFiniteSet({}) /\ Cardinality({}) = 0
    BY FS_EmptySet, Zenon
  <2>2. IsFiniteSet(Upto(0)) /\ Cardinality(Upto(0)) = p[0]
    BY <1>1, <1>2, <2>1, Zenon
  <2>3. 0 \in 0..n
    OBVIOUS
  <2> QED BY <2>2, <2>3, Zenon
<1>6. \A k \in 0..n : k \in Counted /\ k < n => k + 1 \in Counted
  <2> SUFFICES ASSUME NEW k \in 0..n, k \in Counted, k < n PROVE k + 1 \in Counted
    OBVIOUS
  <2>1. k + 1 \in 1..n /\ k + 1 \in 0..n /\ (k + 1) - 1 = k
    OBVIOUS
  <2>2. p[k + 1] = p[k] + f[k + 1] /\ p[k] \in Nat
    BY <2>1, <1>1
  <2>3. IsFiniteSet(Upto(k)) /\ Cardinality(Upto(k)) = p[k]
    OBVIOUS
  <2>4. CASE k + 1 \in S
    <3>1. /\ IsFiniteSet(Upto(k) \cup {k + 1})
          /\ Cardinality(Upto(k) \cup {k + 1}) = Cardinality(Upto(k)) + 1
      BY <2>3, <1>4, FS_AddElement
    <3>2. Upto(k + 1) = Upto(k) \cup {k + 1}
      BY <1>3, <2>4
    <3>3. f[k + 1] = 1
      BY <2>1, <2>4
    <3> QED BY <2>1, <2>2, <2>3, <3>1, <3>2, <3>3
  <2>5. CASE k + 1 \notin S
    <3>1. Upto(k + 1) = Upto(k)
      BY <1>3, <2>5
    <3>2. f[k + 1] = 0
      BY <2>1, <2>5
    <3> QED BY <2>1, <2>2, <2>3, <3>1, <3>2
  <2> QED BY <2>4, <2>5
<1>7. \A k \in 0..n : k \in Counted
  <2> HIDE DEF Counted
  <2> QED BY <1>5, <1>6, IntervalInduction
<1>8. Cardinality(S) = p[n]
  BY <1>2, <1>7
<1> QED BY <1>8 DEF SumTo, p
=============================================================================
