----------------------------- MODULE Induction ------------------------------
(***************************************************************************)
(* Induction on the natural numbers, over sets in the place of predicates, *)
(* so that a first-order prover can use it, and what is needed of          *)
(* quotients and remainders.                                               *)
(***************************************************************************)
EXTENDS Integers, WellFoundedInduction, TLAPS

\* A set of natural numbers that is not empty has a least element.
LEMMA LeastNumber ==
  ASSUME NEW S \in SUBSET Nat, S # {}
  PROVE  \E n \in S : \A m \in S : n <= m
<1> DEFINE R == OpToRel(<, Nat)
<1>1. IsWellFoundedOn(R, Nat)
  BY NatLessThanWellFounded
<1>2. PICK n \in S : \A m \in S : <<m, n>> \notin R
  <2> HIDE DEF R
  <2> QED BY <1>1, WFMin
<1>3. \A m \in S : ~ (m < n)
  BY <1>2 DEF OpToRel
<1> QED BY <1>3

\* A set that holds lo, and i + 1 with each i below hi, holds the whole interval.
LEMMA IntervalInduction ==
  ASSUME NEW lo \in Nat, NEW hi \in Nat, NEW S,
         lo <= hi => lo \in S,
         \A i \in lo .. hi - 1 : i \in S => i + 1 \in S
  PROVE  lo .. hi \subseteq S
<1> DEFINE T == {i \in lo .. hi : i \notin S}
<1> SUFFICES ASSUME T # {} PROVE FALSE
  OBVIOUS
<1>1. PICK n \in T : \A m \in T : n <= m
  <2>1. T \in SUBSET Nat
    OBVIOUS
  <2> HIDE DEF T
  <2> QED BY <2>1, LeastNumber
<1>2. n # lo
  BY <1>1
<1>3. n - 1 \in lo .. hi - 1 /\ n - 1 \notin T
  BY <1>1, <1>2
<1> QED BY <1>1, <1>3

\* The same downwards.
LEMMA DownwardInduction ==
  ASSUME NEW lo \in Nat, NEW hi \in Nat, NEW S,
         lo <= hi => hi \in S,
         \A i \in lo + 1 .. hi : i \in S => i - 1 \in S
  PROVE  lo .. hi \subseteq S
<1> DEFINE T == {i \in lo .. hi : hi + lo - i \in S}
<1>1. lo <= hi => lo \in T
  OBVIOUS
<1>2. \A i \in lo .. hi - 1 : i \in T => i + 1 \in T
  <2> SUFFICES ASSUME NEW i \in lo .. hi - 1, hi + lo - i \in S
               PROVE  hi + lo - (i + 1) \in S
    OBVIOUS
  <2>1. hi + lo - i \in lo + 1 .. hi
    OBVIOUS
  <2>2. hi + lo - (i + 1) = (hi + lo - i) - 1
    OBVIOUS
  <2> QED BY <2>1, <2>2
<1>3. lo .. hi \subseteq T
  <2> HIDE DEF T
  <2> QED BY <1>1, <1>2, IntervalInduction
<1> SUFFICES ASSUME NEW i \in lo .. hi PROVE i \in S
  OBVIOUS
<1>4. hi + lo - i \in T /\ hi + lo - (hi + lo - i) = i
  BY <1>3
<1> QED BY <1>4

-----------------------------------------------------------------------------
(* Remainders.                                                             *)

\* What the remainder of a division is.
LEMMA ModDef ==
  ASSUME NEW n \in Nat, NEW k \in Nat \ {0}
  PROVE  /\ n = k * (n \div k) + (n % k)
         /\ n \div k \in Nat
         /\ n % k \in 0 .. k - 1
  OBVIOUS

\* A number below the divisor is its own remainder.
LEMMA ModSmall ==
  ASSUME NEW k \in Nat \ {0}, NEW n \in 0 .. k - 1
  PROVE  n % k = n
  OBVIOUS

\* No multiple of k but 0 lies between -k and k.
LEMMA Gap ==
  ASSUME NEW k \in Nat \ {0}, NEW d \in Int, NEW r \in Int,
         - k < r, r < k, k * d = r
  PROVE  r = 0
<1>1. CASE d = 0 BY <1>1
<1>2. CASE d >= 1
  <2>1. k * d >= k BY <1>2
  <2> QED BY <2>1
<1>3. CASE d <= -1
  <2>1. k * d <= - k BY <1>3
  <2> QED BY <2>1
<1> QED BY <1>1, <1>2, <1>3

\* k less leaves the same remainder.
LEMMA ModBack ==
  ASSUME NEW k \in Nat \ {0}, NEW n \in Nat, n - k \in Nat
  PROVE  (n - k) % k = n % k
<1> DEFINE m == n - k
           d == (n \div k) - 1 - (m \div k)
           r == (m % k) - (n % k)
<1>1. /\ n = k * (n \div k) + (n % k)
      /\ n \div k \in Nat /\ n % k \in 0 .. k - 1
  BY ModDef
<1>2. /\ m = k * (m \div k) + (m % k)
      /\ m \div k \in Nat /\ m % k \in 0 .. k - 1
  BY ModDef
<1>3. d \in Int /\ r \in Int /\ - k < r /\ r < k BY <1>1, <1>2
<1>4. k * d = k * (n \div k) - k - k * (m \div k) BY <1>1, <1>2
<1>5. k * d = r BY <1>1, <1>2, <1>4
<1>6. r = 0
  <2> HIDE DEF d, r
  <2> QED BY <1>3, <1>5, Gap
<1> QED BY <1>1, <1>2, <1>6

\* Of a number below 2 * k.
LEMMA ModOnce ==
  ASSUME NEW k \in Nat \ {0}, NEW n \in Nat, n < 2 * k
  PROVE  n % k = IF n < k THEN n ELSE n - k
<1>1. CASE n < k BY <1>1, ModSmall
<1>2. CASE ~ (n < k)
  <2>1. n - k \in 0 .. k - 1 BY <1>2
  <2>2. n - k \in Nat BY <2>1
  <2>3. (n - k) % k = n % k BY <2>2, ModBack
  <2>4. (n - k) % k = n - k BY <2>1, ModSmall
  <2> QED BY <1>2, <2>3, <2>4
<1> QED BY <1>1, <1>2

-----------------------------------------------------------------------------
(* Quotients.                                                              *)

\* A product of natural numbers is one, and grows with its factors.
LEMMA ProductGrows ==
  ASSUME NEW k \in Nat, NEW m \in Nat, NEW q \in Nat, m <= q
  PROVE  k * m \in Nat /\ k * q \in Nat /\ k * m <= k * q
<1> DEFINE e == q - m
<1>1. e \in Nat /\ q = m + e
  OBVIOUS
<1>2. k * e \in Nat /\ k * m \in Nat
  <2> HIDE DEF e
  <2> QED BY <1>1
<1>3. k * q = k * m + k * e
  <2> HIDE DEF e
  <2> QED BY <1>1
<1> QED BY <1>2, <1>3

\* A number below m multiples of k is in one of the first m of them.
LEMMA DivBelow ==
  ASSUME NEW k \in Nat \ {0}, NEW n \in Nat, NEW m \in Nat, n < k * m
  PROVE  n \div k < m
<1>1. n = k * (n \div k) + (n % k) /\ n \div k \in Nat /\ n % k \in 0 .. k - 1
  BY ModDef
<1>2. SUFFICES ASSUME m <= n \div k PROVE FALSE
  BY <1>1
<1>3. k * m <= k * (n \div k) /\ k * (n \div k) \in Nat /\ k * m \in Nat
  BY <1>1, <1>2, ProductGrows
<1> QED BY <1>1, <1>3

\* The quotient of a number between two multiples.
LEMMA DivIs ==
  ASSUME NEW k \in Nat \ {0}, NEW q \in Nat, NEW r \in 0 .. k - 1
  PROVE  k * q + r \in Nat /\ (k * q + r) \div k = q /\ (k * q + r) % k = r
<1> DEFINE n == k * q + r
           d == q - (n \div k)
           e == (n % k) - r
<1>1. k * q \in Nat
  OBVIOUS
<1>2. n \in Nat
  BY <1>1
<1>3. n = k * (n \div k) + (n % k) /\ n \div k \in Nat /\ n % k \in 0 .. k - 1
  <2> HIDE DEF n
  <2> QED BY <1>2, ModDef
<1>4. d \in Int /\ e \in Int /\ - k < e /\ e < k
  <2> HIDE DEF n
  <2> QED BY <1>3
<1>5. k * d = k * q - k * (n \div k)
  <2> HIDE DEF n
  <2> QED BY <1>3
<1>6. k * d = e
  BY <1>1, <1>3, <1>5
<1>7. e = 0
  <2> HIDE DEF d, e
  <2> QED BY <1>4, <1>6, Gap
<1>8. d = 0
  <2>1. k * d = 0
    BY <1>6, <1>7
  <2> HIDE DEF d, e
  <2>2. ~ (d >= 1)
    <3> SUFFICES ASSUME d >= 1 PROVE FALSE
      OBVIOUS
    <3>1. k * d >= k
      BY <1>4
    <3> QED BY <2>1, <3>1
  <2>3. ~ (d <= -1)
    <3> SUFFICES ASSUME d <= -1 PROVE FALSE
      OBVIOUS
    <3>1. k * d <= - k
      BY <1>4
    <3> QED BY <2>1, <3>1
  <2> QED BY <1>4, <2>2, <2>3
<1> QED BY <1>2, <1>3, <1>7, <1>8

\* The quotient grows with the number.
LEMMA DivGrows ==
  ASSUME NEW k \in Nat \ {0}, NEW n \in Nat, NEW m \in Nat, n <= m
  PROVE  n \div k <= m \div k
<1>1. m = k * (m \div k) + (m % k) /\ m \div k \in Nat /\ m % k \in 0 .. k - 1
  BY ModDef
<1>2. k * (m \div k + 1) = k * (m \div k) + k /\ k * (m \div k) \in Nat
  BY <1>1
<1>3. n < k * (m \div k + 1)
  BY <1>1, <1>2
<1>4. n \div k < m \div k + 1
  BY <1>1, <1>3, DivBelow
<1>5. n \div k \in Nat
  BY ModDef
<1> QED BY <1>1, <1>4, <1>5
=============================================================================
