--------------------------- MODULE MoneyTheorems ---------------------------
(***************************************************************************)
(* Facts about the arithmetic of Money: sums over an interval change by    *)
(* what one summand changes, are never below one of their summands when    *)
(* none is negative, and a rounded share lies between nothing and the      *)
(* whole.  The proofs about Escrow cite these by name.                     *)
(*                                                                         *)
(* Total is a recursive function.  The library's induction theorems take   *)
(* an operator as parameter; induction is used here in the form that needs *)
(* none: a set of numbers that holds 0 and, with every number, the next.   *)
(***************************************************************************)
EXTENDS Money, WellFoundedInduction, TLAPS

(* Every non-empty set of natural numbers has a least element.             *)
LEMMA LeastElement ==
  ASSUME NEW S \in SUBSET Nat, S # {}
  PROVE  \E m \in S : \A k \in S : m <= k
<1> DEFINE R == OpToRel(<, Nat)
<1>1. PICK m \in S : \A k \in S : ~ (<<k, m>> \in R)
  <2>1. IsWellFoundedOn(R, Nat) BY NatLessThanWellFounded
  <2> HIDE DEF R
  <2> QED BY <2>1, WFMin
<1>2. ASSUME NEW k \in S, k < m PROVE FALSE
  <2>1. <<k, m>> \in R BY <1>2 DEF OpToRel
  <2> QED BY <1>1, <2>1
<1> QED BY <1>2

(* A set that holds 0 and, with every number below n, the next number,     *)
(* holds all of 0..n.                                                      *)
LEMMA IntervalInduction ==
  ASSUME NEW n \in Nat, NEW S,
         0 \in S,
         \A k \in 0..(n-1) : k \in S => k + 1 \in S
  PROVE  \A k \in 0..n : k \in S
<1> DEFINE Missing == {k \in 0..n : k \notin S}
<1>1. SUFFICES ASSUME Missing # {} PROVE FALSE
  OBVIOUS
<1>2. Missing \in SUBSET Nat
  OBVIOUS
<1>3. PICK m \in Missing : \A k \in Missing : m <= k
  <2> HIDE DEF Missing
  <2> QED BY <1>1, <1>2, LeastElement
<1>4. m # 0 /\ m \in 0..n /\ m \notin S
  BY <1>3
<1>5. m - 1 \in 0..(n-1) /\ m - 1 \in 0..n /\ (m - 1) + 1 = m
  BY <1>4
<1>6. m - 1 \in S
  BY <1>3, <1>5
<1> QED BY <1>4, <1>5, <1>6

-----------------------------------------------------------------------------
(* Sums.                                                                   *)

(* The recursion of Total is satisfied by some function into the integers. *)
LEMMA PartialExists ==
  ASSUME NEW n \in Nat, NEW f \in [1..n -> Int]
  PROVE  \E s \in [0..n -> Int] :
           s = [k \in 0..n |-> IF k = 0 THEN 0 ELSE s[k-1] + f[k]]
<1> DEFINE Solves(s, m) == s = [k \in 0..m |-> IF k = 0 THEN 0 ELSE s[k-1] + f[k]]
           Solvable == {m \in 0..n : \E s \in [0..m -> Int] : Solves(s, m)}
<1>1. 0 \in Solvable
  <2> DEFINE s == [k \in 0..0 |-> 0]
  <2>1. s \in [0..0 -> Int] /\ Solves(s, 0)
    OBVIOUS
  <2>2. 0 \in 0..n
    OBVIOUS
  <2> HIDE DEF s, Solves
  <2> QED BY <2>1, <2>2
<1>2. ASSUME NEW m \in 0..(n-1), m \in Solvable PROVE m + 1 \in Solvable
  <2>1. PICK s \in [0..m -> Int] : Solves(s, m)
    BY <1>2
  <2> DEFINE t == [k \in 0..(m+1) |-> IF k = m+1 THEN s[m] + f[m+1] ELSE s[k]]
  <2>2. t \in [0..(m+1) -> Int]
    BY <2>1
  <2>3. ASSUME NEW k \in 0..(m+1)
        PROVE  t[k] = IF k = 0 THEN 0 ELSE t[k-1] + f[k]
    <3>1. CASE k = m + 1
      BY <3>1, <2>1
    <3>2. CASE k # m + 1
      <4>1. k \in 0..m
        BY <3>2
      <4>2. s[k] = IF k = 0 THEN 0 ELSE s[k-1] + f[k]
        BY <4>1, <2>1
      <4> QED BY <4>1, <4>2
    <3> QED BY <3>1, <3>2
  <2>4. t = [k \in 0..(m+1) |-> IF k = 0 THEN 0 ELSE t[k-1] + f[k]]
    BY <2>3
  <2>5. m + 1 \in 0..n
    OBVIOUS
  <2> HIDE DEF t
  <2> QED BY <2>2, <2>4, <2>5
<1>3. n \in Solvable
  <2> HIDE DEF Solvable
  <2>1. \A m \in 0..(n-1) : m \in Solvable => m + 1 \in Solvable
    BY <1>2
  <2>2. \A m \in 0..n : m \in Solvable
    BY <1>1, <2>1, IntervalInduction
  <2> QED BY <2>2
<1> QED BY <1>3

(* Total(f, n) is the last of the partial sums of f.                       *)
LEMMA PartialSums ==
  ASSUME NEW n \in Nat, NEW f \in [1..n -> Int]
  PROVE  \E s \in [0..n -> Int] :
           /\ s[0] = 0
           /\ \A k \in 1..n : s[k] = s[k-1] + f[k]
           /\ Total(f, n) = s[n]
<1> DEFINE s == CHOOSE s : s = [k \in 0..n |-> IF k = 0 THEN 0 ELSE s[k-1] + f[k]]
<1>1. s = [k \in 0..n |-> IF k = 0 THEN 0 ELSE s[k-1] + f[k]]
  <2> HIDE DEF s
  <2>1. \E r : r = [k \in 0..n |-> IF k = 0 THEN 0 ELSE r[k-1] + f[k]]
    BY PartialExists, Zenon
  <2> USE DEF s
  <2> QED BY <2>1, Zenon
<1>2. Total(f, n) = s[n]
  BY Zenon DEF Total
<1> HIDE DEF s
<1>3. s[0] = 0 /\ \A k \in 1..n : s[k] = s[k-1] + f[k]
  BY <1>1
<1>4. \A k \in 0..n : s[k] \in Int
  <2> DEFINE Integral == {k \in 0..n : s[k] \in Int}
  <2>1. 0 \in Integral
    BY <1>3
  <2>2. ASSUME NEW k \in 0..(n-1), k \in Integral PROVE k + 1 \in Integral
    <3>1. k + 1 \in 1..n /\ s[k+1] = s[k] + f[k+1]
      BY <1>3
    <3> QED BY <2>2, <3>1
  <2>3. \A k \in 0..n : k \in Integral
    <3> HIDE DEF Integral
    <3> QED BY <2>1, <2>2, IntervalInduction
  <2> QED BY <2>3
<1>5. s \in [0..n -> Int]
  BY <1>1, <1>4
<1> QED BY <1>2, <1>3, <1>5

(* A sum of integers is an integer.                                        *)
LEMMA TotalType ==
  ASSUME NEW n \in Nat, NEW f \in [1..n -> Int]
  PROVE  Total(f, n) \in Int
BY PartialSums

(* When one summand changes, the sum changes by as much.                   *)
LEMMA TotalUpdate ==
  ASSUME NEW n \in Nat, NEW f \in [1..n -> Int], NEW g \in [1..n -> Int],
         NEW d \in 1..n, \A k \in 1..n : k # d => g[k] = f[k]
  PROVE  Total(g, n) = Total(f, n) + (g[d] - f[d])
<1>1. PICK s \in [0..n -> Int] : /\ s[0] = 0
                                 /\ \A k \in 1..n : s[k] = s[k-1] + f[k]
                                 /\ Total(f, n) = s[n]
  BY PartialSums
<1>2. PICK t \in [0..n -> Int] : /\ t[0] = 0
                                 /\ \A k \in 1..n : t[k] = t[k-1] + g[k]
                                 /\ Total(g, n) = t[n]
  BY PartialSums
<1> DEFINE delta == g[d] - f[d]
<1>3. delta \in Int /\ g[d] = f[d] + delta
  BY f[d] \in Int, g[d] \in Int
<1> HIDE DEF delta
<1> DEFINE Shifted == {k \in 0..n : /\ k >= d => t[k] = s[k] + delta
                                    /\ k < d => t[k] = s[k]}
<1>4. 0 \in Shifted
  BY <1>1, <1>2
<1>5. ASSUME NEW k \in 0..(n-1), k \in Shifted PROVE k + 1 \in Shifted
  <2>1. PICK l \in 1..n : l = k + 1
    OBVIOUS
  <2>2. /\ s[l] = s[k] + f[l]
        /\ t[l] = t[k] + g[l]
    BY <2>1, <1>1, <1>2
  <2>3. s[k] \in Int /\ t[k] \in Int /\ f[l] \in Int
    BY <2>1
  <2>4. CASE l = d
    <3>1. t[k] = s[k]
      BY <2>1, <2>4, <1>5
    <3>2. t[l] = s[l] + delta
      BY <2>2, <2>3, <2>4, <3>1, <1>3
    <3> QED BY <2>1, <2>4, <3>2
  <2>5. CASE l # d
    <3>1. g[l] = f[l]
      BY <2>1, <2>5
    <3>2. CASE k >= d
      <4>1. t[k] = s[k] + delta
        BY <3>2, <1>5
      <4>2. t[l] = s[l] + delta
        BY <2>2, <2>3, <3>1, <4>1, <1>3
      <4> QED BY <2>1, <3>2, <4>2
    <3>3. CASE k < d
      <4>1. t[k] = s[k] /\ l < d
        BY <3>3, <2>1, <2>5, <1>5
      <4>2. t[l] = s[l]
        BY <2>2, <2>3, <3>1, <4>1
      <4> QED BY <2>1, <4>1, <4>2
    <3> QED BY <3>2, <3>3
  <2> QED BY <2>4, <2>5
<1>6. n \in Shifted
  <2> HIDE DEF Shifted
  <2>1. \A k \in 0..(n-1) : k \in Shifted => k + 1 \in Shifted
    BY <1>5
  <2>2. \A k \in 0..n : k \in Shifted
    BY <1>4, <2>1, IntervalInduction
  <2> QED BY <2>2
<1>7. Total(g, n) = Total(f, n) + delta
  BY <1>1, <1>2, <1>6
<1> QED BY <1>7 DEF delta

(* When no summand changes, the sum does not.                              *)
LEMMA TotalSame ==
  ASSUME NEW n \in Nat, NEW f \in [1..n -> Int], NEW g \in [1..n -> Int],
         \A k \in 1..n : g[k] = f[k]
  PROVE  Total(g, n) = Total(f, n)
<1>1. g = f
  OBVIOUS
<1> QED BY <1>1

(* A sum of nothing but zeros is zero.                                     *)
LEMMA TotalZero ==
  ASSUME NEW n \in Nat, NEW f \in [1..n -> Int], \A k \in 1..n : f[k] = 0
  PROVE  Total(f, n) = 0
<1>1. PICK s \in [0..n -> Int] : /\ s[0] = 0
                                 /\ \A k \in 1..n : s[k] = s[k-1] + f[k]
                                 /\ Total(f, n) = s[n]
  BY PartialSums
<1> DEFINE Zero == {k \in 0..n : s[k] = 0}
<1>2. 0 \in Zero
  BY <1>1
<1>3. ASSUME NEW k \in 0..(n-1), k \in Zero PROVE k + 1 \in Zero
  <2>1. k + 1 \in 1..n /\ s[k+1] = s[k] + f[k+1]
    BY <1>1
  <2> QED BY <2>1, <1>3
<1>4. n \in Zero
  <2> HIDE DEF Zero
  <2>1. \A k \in 0..(n-1) : k \in Zero => k + 1 \in Zero
    BY <1>3
  <2>2. \A k \in 0..n : k \in Zero
    BY <1>2, <2>1, IntervalInduction
  <2> QED BY <2>2
<1> QED BY <1>1, <1>4

(* No summand exceeds a sum of natural numbers.                            *)
LEMMA TotalCovers ==
  ASSUME NEW n \in Nat, NEW f \in [1..n -> Nat]
  PROVE  /\ Total(f, n) \in Nat
         /\ \A d \in 1..n : f[d] <= Total(f, n)
<1>0. f \in [1..n -> Int]
  OBVIOUS
<1>1. PICK s \in [0..n -> Int] : /\ s[0] = 0
                                 /\ \A k \in 1..n : s[k] = s[k-1] + f[k]
                                 /\ Total(f, n) = s[n]
  BY <1>0, PartialSums
<1> DEFINE Above == {k \in 0..n : s[k] >= 0 /\ \A d \in 1..k : f[d] <= s[k]}
<1>2. 0 \in Above
  BY <1>1
<1>3. ASSUME NEW k \in 0..(n-1), k \in Above PROVE k + 1 \in Above
  <2>1. k + 1 \in 1..n /\ s[k+1] = s[k] + f[k+1]
    BY <1>1
  <2>2. s[k] \in Int /\ f[k+1] \in Nat /\ s[k] >= 0
    BY <2>1, <1>3
  <2>3. ASSUME NEW d \in 1..(k+1) PROVE f[d] <= s[k+1]
    <3>1. CASE d = k + 1
      BY <3>1, <2>1, <2>2
    <3>2. CASE d # k + 1
      <4>1. d \in 1..k /\ f[d] \in Nat /\ f[d] <= s[k]
        BY <3>2, <1>3
      <4> QED BY <4>1, <2>1, <2>2
    <3> QED BY <3>1, <3>2
  <2> QED BY <2>1, <2>2, <2>3
<1>4. n \in Above
  <2> HIDE DEF Above
  <2>1. \A k \in 0..(n-1) : k \in Above => k + 1 \in Above
    BY <1>3
  <2>2. \A k \in 0..n : k \in Above
    BY <1>2, <2>1, IntervalInduction
  <2> QED BY <2>2
<1> QED BY <1>1, <1>4

(* The sum of two functions' sums is the sum of their pointwise sum.        *)
LEMMA TotalPlus ==
  ASSUME NEW n \in Nat, NEW f \in [1..n -> Int], NEW g \in [1..n -> Int],
         NEW h \in [1..n -> Int], \A k \in 1..n : h[k] = f[k] + g[k]
  PROVE  Total(h, n) = Total(f, n) + Total(g, n)
<1>1. PICK s \in [0..n -> Int] : /\ s[0] = 0
                                 /\ \A k \in 1..n : s[k] = s[k-1] + f[k]
                                 /\ Total(f, n) = s[n]
  BY PartialSums
<1>2. PICK t \in [0..n -> Int] : /\ t[0] = 0
                                 /\ \A k \in 1..n : t[k] = t[k-1] + g[k]
                                 /\ Total(g, n) = t[n]
  BY PartialSums
<1>3. PICK r \in [0..n -> Int] : /\ r[0] = 0
                                 /\ \A k \in 1..n : r[k] = r[k-1] + h[k]
                                 /\ Total(h, n) = r[n]
  BY PartialSums
<1> DEFINE Added == {k \in 0..n : r[k] = s[k] + t[k]}
<1>4. 0 \in Added
  BY <1>1, <1>2, <1>3
<1>5. ASSUME NEW k \in 0..(n-1), k \in Added PROVE k + 1 \in Added
  <2>1. PICK l \in 1..n : l = k + 1
    OBVIOUS
  <2>2. s[l] = s[k] + f[l] /\ t[l] = t[k] + g[l] /\ r[l] = r[k] + h[l]
    <3>1. l - 1 = k
      BY <2>1
    <3>2. s[l] = s[k] + f[l]
      BY <3>1, <1>1
    <3>3. t[l] = t[k] + g[l]
      BY <3>1, <1>2
    <3>4. r[l] = r[k] + h[l]
      BY <3>1, <1>3
    <3> QED BY <3>2, <3>3, <3>4
  <2>3. s[k] \in Int /\ t[k] \in Int /\ f[l] \in Int /\ g[l] \in Int
    BY <2>1
  <2>4. r[l] = s[l] + t[l]
    BY <1>5, <2>2, <2>3
  <2> QED BY <2>1, <2>4
<1>6. n \in Added
  <2> HIDE DEF Added
  <2>1. \A k \in 0..(n-1) : k \in Added => k + 1 \in Added
    BY <1>5
  <2>2. \A k \in 0..n : k \in Added
    BY <1>4, <2>1, IntervalInduction
  <2> QED BY <2>2
<1> QED BY <1>1, <1>2, <1>3, <1>6

-----------------------------------------------------------------------------
(* Rounding.                                                               *)

(* The sums of the beginnings of a sequence of summands.                   *)
LEMMA TotalPrefixes ==
  ASSUME NEW n \in Nat, NEW f \in [1..n -> Nat]
  PROVE  \E s \in [0..n -> Nat] :
           /\ s[0] = 0
           /\ \A k \in 1..n : s[k] = s[k-1] + f[k]
           /\ \A m \in 0..n : Total([k \in 1..m |-> f[k]], m) = s[m]
<1>1. PICK s \in [0..n -> Int] : /\ s[0] = 0
                                 /\ \A k \in 1..n : s[k] = s[k-1] + f[k]
  <2>1. f \in [1..n -> Int]
    OBVIOUS
  <2> QED
    BY <2>1, PartialSums
<1>2. ASSUME NEW m \in 0..n PROVE Total([k \in 1..m |-> f[k]], m) = s[m]
  <2> DEFINE g == [k \in 1..m |-> f[k]]
  <2>1. m \in Nat /\ g \in [1..m -> Int] /\ \A k \in 1..m : g[k] = f[k] /\ k \in 1..n
    OBVIOUS
  <2> HIDE DEF g
  <2>2. PICK t \in [0..m -> Int] : /\ t[0] = 0
                                   /\ \A k \in 1..m : t[k] = t[k-1] + g[k]
                                   /\ Total(g, m) = t[m]
    BY <2>1, PartialSums
  <2> DEFINE Same == {k \in 0..m : t[k] = s[k]}
  <2>3. 0 \in Same
    BY <1>1, <2>2
  <2>4. ASSUME NEW k \in 0..(m - 1), k \in Same PROVE k + 1 \in Same
    <3>1. k + 1 \in 1..m /\ (k + 1) - 1 = k
      BY <2>1
    <3>2. t[k + 1] = t[k] + g[k + 1] /\ s[k + 1] = s[k] + f[k + 1] /\ g[k + 1] = f[k + 1]
      BY <1>1, <2>1, <2>2, <3>1
    <3> QED
      BY <2>4, <3>1, <3>2
  <2> HIDE DEF Same
  <2>5. \A k \in 0..m : k \in Same
    BY <2>1, <2>3, <2>4, IntervalInduction
  <2> QED
    BY <2>1, <2>2, <2>5 DEF Same, g
<1>3. \A k \in 0..n : s[k] \in Nat
  <2> DEFINE Natural == {k \in 0..n : s[k] \in Nat}
  <2>1. 0 \in Natural
    BY <1>1
  <2>2. ASSUME NEW k \in 0..(n - 1), k \in Natural PROVE k + 1 \in Natural
    <3>1. k + 1 \in 1..n /\ (k + 1) - 1 = k
      OBVIOUS
    <3>2. s[k + 1] = s[k] + f[k + 1] /\ f[k + 1] \in Nat
      BY <1>1, <3>1
    <3> QED
      BY <2>2, <3>1, <3>2
  <2> HIDE DEF Natural
  <2>3. \A k \in 0..n : k \in Natural
    BY <2>1, <2>2, IntervalInduction
  <2> QED
    BY <2>3 DEF Natural
<1> QED
  BY <1>1, <1>2, <1>3

(* A sum of summands that have a bound.                                    *)
LEMMA TotalBounded ==
  ASSUME NEW n \in Nat, NEW f \in [1..n -> Nat], NEW b \in Nat, \A k \in 1..n : f[k] <= b
  PROVE  Total(f, n) <= n * b
<1>1. PICK s \in [0..n -> Int] : /\ s[0] = 0
                                 /\ \A k \in 1..n : s[k] = s[k-1] + f[k]
                                 /\ Total(f, n) = s[n]
  <2>1. f \in [1..n -> Int]
    OBVIOUS
  <2> QED
    BY <2>1, PartialSums
<1> DEFINE Below == {k \in 0..n : s[k] <= k * b}
<1>2. 0 \in Below
  BY <1>1
<1>3. ASSUME NEW k \in 0..(n - 1), k \in Below PROVE k + 1 \in Below
  <2>1. k + 1 \in 1..n /\ (k + 1) - 1 = k /\ k \in 0..n
    OBVIOUS
  <2>2. s[k + 1] = s[k] + f[k + 1] /\ f[k + 1] <= b /\ f[k + 1] \in Nat /\ s[k] \in Int
    BY <1>1, <2>1
  <2>3. s[k] <= k * b
    BY <1>3
  <2>4. PICK c \in Int : c = k * b
    OBVIOUS
  <2>5. (k + 1) * b = c + b
    BY <2>4
  <2>6. s[k + 1] <= c + b
    BY <2>2, <2>3, <2>4
  <2> QED
    BY <2>1, <2>5, <2>6
<1> HIDE DEF Below
<1>4. \A k \in 0..n : k \in Below
  BY <1>2, <1>3, IntervalInduction
<1> QED
  BY <1>1, <1>4 DEF Below

(* Rounding to an integer moves a fraction by less than one and never past *)
(* an integer bound.                                                       *)
LEMMA RoundHalfEvenBounds ==
  ASSUME NEW num \in Nat, NEW den \in Nat \ {0}, NEW bound \in Nat,
         num <= bound * den
  PROVE  /\ RoundHalfEven(num, den) \in Nat
         /\ RoundHalfEven(num, den) <= bound
<1> DEFINE quot == num \div den
           rest == num % den
<1>1. /\ quot \in Nat /\ rest \in 0..(den-1)
      /\ num = den * quot + rest
  OBVIOUS
<1> HIDE DEF quot, rest
<1>2. quot <= bound
  BY <1>1
<1>3. quot = bound => rest = 0
  BY <1>1
<1>4. RoundHalfEven(num, den) \in {quot, quot + 1}
  BY DEF RoundHalfEven, quot, rest
<1>5. rest = 0 => RoundHalfEven(num, den) = quot
  BY DEF RoundHalfEven, quot, rest
<1> QED BY <1>1, <1>2, <1>3, <1>4, <1>5

(* A share of an amount lies between nothing and the whole amount.         *)
LEMMA PercentOfBounds ==
  ASSUME NEW amt \in Nat, NEW percent \in 0..100
  PROVE  PercentOf(amt, percent) \in 0..amt
<1>1. amt * percent \in Nat /\ amt * percent <= amt * 100
  OBVIOUS
<1>2. /\ RoundHalfEven(amt * percent, 100) \in Nat
      /\ RoundHalfEven(amt * percent, 100) <= amt
  BY <1>1, RoundHalfEvenBounds
<1> QED BY <1>2 DEF PercentOf
=============================================================================
