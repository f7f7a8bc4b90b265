------------------------- MODULE Algorithms_proofs --------------------------
(***************************************************************************)
(* What the operators that several modules share compute: the filtered     *)
(* sequences of Subsequences, the paths of Paths, and the places that a    *)
(* sort assigns.  Numbers: quotients, powers of two, digits.               *)
(***************************************************************************)
EXTENDS Subsequences, Paths, SequencesExt, FiniteSetTheorems, SequenceTheorems,
        WellFoundedInduction, TLAPS

(* A set of natural numbers that is not empty has a least element.         *)
LEMMA LeastNumber ==
  ASSUME NEW S \in SUBSET Nat, S # {}
  PROVE  \E a \in S : \A b \in S : a <= b
<1>1. PICK a \in S : \A b \in S : ~ (<<b, a>> \in OpToRel(<, Nat))
  BY NatLessThanWellFounded, WFMin
<1>2. \A b \in S : ~ (b < a)
  BY <1>1 DEF OpToRel
<1> QED BY <1>2

LEMMA LeastIsIn ==
  ASSUME NEW S \in SUBSET Nat, S # {}
  PROVE  Min(S) \in S /\ \A b \in S : Min(S) <= b
BY LeastNumber DEF Min

LEMMA GreatestIsIn ==
  ASSUME NEW N \in Nat, NEW S \in SUBSET (0 .. N), S # {}
  PROVE  Max(S) \in S /\ \A b \in S : Max(S) >= b
<1> DEFINE mirrored == {k \in 0 .. N : N - k \in S}
<1>1. mirrored \in SUBSET Nat
  OBVIOUS
<1>2. PICK s \in S : TRUE
  OBVIOUS
<1>3. N - s \in mirrored
  <2>1. s \in 0 .. N /\ N - s \in 0 .. N /\ N - (N - s) = s
    OBVIOUS
  <2> QED BY <2>1
<1>4. PICK k \in mirrored : \A j \in mirrored : k <= j
  BY <1>1, <1>3, LeastNumber
<1>5. \A b \in S : N - b \in mirrored /\ N - b \in Nat
  <2>1. \A b \in 0 .. N : N - b \in 0 .. N /\ N - (N - b) = b
    OBVIOUS
  <2> QED BY <2>1
<1>6. N - k \in S /\ k \in 0 .. N
  OBVIOUS
<1> HIDE DEF mirrored
<1>7. \A b \in S : N - k >= b
  BY <1>4, <1>5, <1>6
<1> QED BY <1>6, <1>7 DEF Max

(* A finite set of numbers has a bound.                                    *)
LEMMA FiniteBounded ==
  ASSUME NEW S \in SUBSET Nat, IsFiniteSet(S)
  PROVE  \E u \in Nat : \A s \in S : s <= u
<1> DEFINE Sized(n) == {R \in SUBSET Nat : IsFiniteSet(R) /\ Cardinality(R) = n}
           Bounded(R) == \E u \in Nat : \A s \in R : s <= u
           bad == {n \in Nat : \E R \in Sized(n) : ~ Bounded(R)}
<1>1. Cardinality(S) \in Nat /\ S \in Sized(Cardinality(S))
  BY FS_CardinalityType
<1>2. SUFFICES ASSUME bad # {} PROVE FALSE
  <2>1. bad = {} => Bounded(S)
    BY <1>1
  <2> QED BY <2>1
<1>3. PICK n \in bad : \A m \in bad : n <= m
  <2>1. bad \in SUBSET Nat
    OBVIOUS
  <2> HIDE DEF bad
  <2> QED BY <1>2, <2>1, LeastNumber
<1>4. n \in Nat
  OBVIOUS
<1>5. PICK R \in Sized(n) : ~ Bounded(R)
  OBVIOUS
<1>6. R # {}
  <2>1. Bounded({})
    BY 0 \in Nat
  <2> QED BY <1>5, <2>1
<1>7. PICK x \in R : TRUE
  BY <1>6
<1>8. /\ R \ {x} \in Sized(Cardinality(R \ {x})) /\ Cardinality(R \ {x}) = n - 1
      /\ Cardinality(R \ {x}) \in Nat
  BY <1>7, FS_RemoveElement, FS_CardinalityType
<1>9. n - 1 \notin bad /\ n - 1 \in Nat
  <2> HIDE DEF bad
  <2> QED BY <1>3, <1>4, <1>8
<1>10. PICK u \in Nat : \A s \in R \ {x} : s <= u
  BY <1>8, <1>9
<1>11. x \in Nat
  BY <1>7
<1>12. CASE x <= u
  <2>1. \A s \in R : s <= u
    BY <1>10, <1>12
  <2> QED BY <2>1, <1>5
<1>13. CASE ~ (x <= u)
  <2>1. \A s \in R : s <= x
    <3>1. TAKE s \in R
    <3>2. CASE s = x
      BY <3>2, <1>11
    <3>3. CASE s # x
      BY <3>3, <1>10, <1>11, <1>13
    <3> QED BY <3>2, <3>3
  <2> QED BY <2>1, <1>5, <1>11
<1> QED BY <1>12, <1>13

(* 2^n counts the subsets of n things. *)
LEMMA PowerPositive ==
  ASSUME NEW n \in Nat
  PROVE  2 ^ n \in Nat \ {0}
<1>1. IsFiniteSet(1 .. n) /\ Cardinality(1 .. n) = n
  BY FS_Interval
<1>2. IsFiniteSet(SUBSET (1 .. n)) /\ Cardinality(SUBSET (1 .. n)) = 2 ^ n
  BY <1>1, FS_SUBSET
<1>3. SUBSET (1 .. n) # {}
  OBVIOUS
<1>4. Cardinality(SUBSET (1 .. n)) \in Nat /\ Cardinality(SUBSET (1 .. n)) # 0
  BY <1>2, <1>3, FS_CardinalityType, FS_EmptySet
<1> QED BY <1>2, <1>4

LEMMA MultipleDivides ==
  ASSUME NEW n \in Nat, NEW size \in Nat \ {0}
  PROVE  (n * size) % size = 0
OBVIOUS

(* What is left when the remainder is taken away. *)
LEMMA RoundedDown ==
  ASSUME NEW n \in Nat, NEW size \in Nat \ {0}
  PROVE  n - (n % size) \in 0 .. n /\ (n - (n % size)) % size = 0
<1>1. /\ n = size * (n \div size) + (n % size)
      /\ n \div size \in Nat /\ n % size \in Nat
  OBVIOUS
<1>2. n - (n % size) = (n \div size) * size
  BY <1>1
<1>3. n - (n % size) \in 0 .. n
  BY <1>1
<1> QED BY <1>1, <1>2, <1>3, MultipleDivides

(* Quotients and remainders. *)
LEMMA Divided ==
  ASSUME NEW n \in Nat, NEW s \in Nat \ {0}
  PROVE  /\ n \div s \in Nat /\ n % s \in 0 .. s - 1
         /\ n = s * (n \div s) + (n % s)
         /\ n - (n % s) = s * (n \div s)
OBVIOUS

LEMMA QuotientUnique ==
  ASSUME NEW s \in Nat \ {0}, NEW q \in Nat, NEW r \in 0 .. s - 1
  PROVE  (s * q + r) \div s = q /\ (s * q + r) % s = r
OBVIOUS

LEMMA RemainderAdds ==
  ASSUME NEW m \in Nat \ {0}, NEW a \in Nat, NEW u \in Nat
  PROVE  ((a % m) + u) % m = (a + u) % m
<1> DEFINE q == a \div m
           r == a % m
           x == (r + u) \div m
           y == (r + u) % m
<1>1. q \in Nat /\ r \in 0 .. m - 1 /\ a = m * q + r
  BY Divided
<1>2. q = a \div m /\ r = a % m
  OBVIOUS
<1> HIDE DEF q, r
<1>3. r + u \in Nat
  BY <1>1
<1>4. x \in Nat /\ y \in 0 .. m - 1 /\ r + u = m * x + y
  BY <1>3, Divided
<1>5. y = (r + u) % m
  OBVIOUS
<1> HIDE DEF x, y
<1>6. a + u = m * (q + x) + y /\ q + x \in Nat
  <2>1. m * (q + x) = m * q + m * x /\ m * q \in Nat /\ m * x \in Nat
    BY <1>1, <1>4
  <2> QED BY <2>1, <1>1, <1>4
<1>7. (m * (q + x) + y) % m = y
  BY <1>4, <1>6, QuotientUnique
<1>8. (a + u) % m = y
  BY <1>6, <1>7
<1> QED BY <1>2, <1>5, <1>8

LEMMA FactorCancels ==
  ASSUME NEW s \in Nat \ {0}, NEW p \in Nat, NEW q \in Nat, s * p = s * q
  PROVE  p = q
OBVIOUS

(* Two numbers are in one block of s numbers iff they have one quotient.   *)
LEMMA SameBlock ==
  ASSUME NEW n \in Nat, NEW m \in Nat, NEW s \in Nat \ {0}
  PROVE  n - (n % s) = m - (m % s) <=> n \div s = m \div s
<1>1. /\ n \div s \in Nat /\ m \div s \in Nat
      /\ n - (n % s) = s * (n \div s) /\ m - (m % s) = s * (m \div s)
  BY Divided
<1> QED BY <1>1, FactorCancels

LEMMA BlockSpan ==
  ASSUME NEW n \in Nat, NEW m \in Nat, NEW s \in Nat \ {0}, m % s = 0
  PROVE  n \in m .. m + s - 1 <=> n - (n % s) = m
<1>1. /\ n \div s \in Nat /\ m \div s \in Nat /\ n % s \in 0 .. s - 1
      /\ n = s * (n \div s) + (n % s) /\ m = s * (m \div s)
      /\ n - (n % s) = s * (n \div s)
  BY Divided
<1>2. ASSUME n \in m .. m + s - 1 PROVE n - (n % s) = m
  <2>1. n = s * (m \div s) + (n - m) /\ n - m \in 0 .. s - 1
    BY <1>1, <1>2
  <2>2. (s * (m \div s) + (n - m)) \div s = m \div s
    BY <1>1, <2>1, QuotientUnique
  <2>3. n \div s = m \div s
    BY <2>1, <2>2
  <2> QED BY <1>1, <2>3
<1>3. ASSUME n - (n % s) = m PROVE n \in m .. m + s - 1
  BY <1>1, <1>3
<1> QED BY <1>2, <1>3

LEMMA DividedTwice ==
  ASSUME NEW n \in Nat, NEW s \in Nat \ {0}, NEW t \in Nat \ {0}
  PROVE  (n \div s) \div t = n \div (s * t) /\ s * t \in Nat \ {0}
<1> DEFINE q == n \div s
           p == q \div t
           r == s * (q % t) + (n % s)
<1>1. /\ q \in Nat /\ n % s \in 0 .. s - 1 /\ n = s * q + (n % s)
      /\ p \in Nat /\ q % t \in 0 .. t - 1 /\ q = t * p + (q % t)
  BY Divided
<1> HIDE DEF q, p
<1>2. s * (q % t) \in Nat /\ s * (q % t) <= s * t - s
  <2>1. \A x \in Nat : x <= t - 1 => s * x <= s * (t - 1)
    OBVIOUS
  <2>2. s * (t - 1) = s * t - s
    OBVIOUS
  <2> QED BY <1>1, <2>1, <2>2
<1>3. s * t \in Nat \ {0}
  OBVIOUS
<1>4. r \in 0 .. (s * t) - 1
  BY <1>1, <1>2, <1>3
<1>5. s * q = (s * t) * p + s * (q % t)
  BY <1>1
<1>6. n = (s * t) * p + r
  BY <1>1, <1>5
<1> DEFINE d == s * t
<1> HIDE DEF r, d
<1>7. d \in Nat \ {0} /\ p \in Nat /\ r \in 0 .. d - 1 /\ n = d * p + r
  BY <1>1, <1>3, <1>4, <1>6 DEF d
<1>8. (d * p + r) \div d = p
  BY <1>7, QuotientUnique
<1> QED BY <1>3, <1>7, <1>8 DEF p, q, d

(* 2^a and 2^b count the parts of two sets, 2^(a+b) those of their union.  *)
LEMMA PowerSum ==
  ASSUME NEW a \in Nat, NEW b \in Nat
  PROVE  2 ^ (a + b) = 2 ^ a * 2 ^ b
<1> DEFINE A == 1 .. a
           B == a + 1 .. a + b
           S == (SUBSET A) \X (SUBSET B)
           T == SUBSET (1 .. a + b)
           f == [p \in S |-> p[1] \cup p[2]]
<1>1. /\ IsFiniteSet(A) /\ Cardinality(A) = a /\ IsFiniteSet(B) /\ Cardinality(B) = b
      /\ IsFiniteSet(1 .. a + b) /\ Cardinality(1 .. a + b) = a + b
  <2>1. IsFiniteSet(A) /\ Cardinality(A) = a
    BY FS_Interval
  <2>2. IsFiniteSet(B) /\ Cardinality(B) = IF a + 1 > a + b THEN 0 ELSE (a + b) - (a + 1) + 1
    BY FS_Interval
  <2>3. IsFiniteSet(1 .. a + b) /\ Cardinality(1 .. a + b) = IF 1 > a + b THEN 0 ELSE a + b - 1 + 1
    BY FS_Interval
  <2> HIDE DEF A, B
  <2>4. Cardinality(B) = b /\ Cardinality(1 .. a + b) = a + b
    BY <2>2, <2>3
  <2> QED BY <2>1, <2>2, <2>3, <2>4
<1>2. A \cap B = {} /\ A \cup B = 1 .. a + b
  OBVIOUS
<1>3. /\ IsFiniteSet(SUBSET A) /\ Cardinality(SUBSET A) = 2 ^ a
      /\ IsFiniteSet(SUBSET B) /\ Cardinality(SUBSET B) = 2 ^ b
      /\ Cardinality(T) = 2 ^ (a + b)
  BY <1>1, FS_SUBSET
<1> HIDE DEF A, B
<1>4. f \in Bijection(S, T)
  <2>1. f \in [S -> T]
    BY <1>2
  <2>2. ASSUME NEW p \in S, NEW q \in S, f[p] = f[q]
        PROVE  p = q
    <3>1. p[1] \cup p[2] = q[1] \cup q[2]
      BY <2>2
    <3>2. p[1] = q[1] /\ p[2] = q[2]
      BY <3>1, <1>2
    <3> QED BY <3>2
  <2>3. ASSUME NEW t \in T
        PROVE  \E p \in S : f[p] = t
    <3>1. <<t \cap A, t \cap B>> \in S
      OBVIOUS
    <3>2. f[<<t \cap A, t \cap B>>] = t
      BY <3>1, <1>2
    <3> QED BY <3>1, <3>2
  <2> HIDE DEF f, S, T
  <2> QED BY <2>1, <2>2, <2>3 DEF Bijection, Injection, Surjection, IsInjective
<1>5. IsFiniteSet(S) /\ Cardinality(S) = 2 ^ a * 2 ^ b
  BY <1>3, FS_Product
<1>6. ExistsBijection(S, T)
  BY <1>4 DEF ExistsBijection
<1> HIDE DEF S, T
<1> QED BY <1>3, <1>5, <1>6, FS_Bijection

LEMMA PowerExceeds ==
  ASSUME NEW n \in Nat
  PROVE  2 ^ n >= n
<1> DEFINE bad == {m \in 0 .. n : ~ (2 ^ m >= m)}
<1>1. SUFFICES ASSUME bad # {} PROVE FALSE
  OBVIOUS
<1>2. bad \in SUBSET Nat
  OBVIOUS
<1>3. PICK m \in bad : \A k \in bad : m <= k
  BY <1>1, <1>2, LeastNumber
<1>4. m \in 0 .. n /\ ~ (2 ^ m >= m)
  OBVIOUS
<1>5. 2 ^ 0 = 1 /\ 2 ^ 1 = 2
  BY SMT
<1>6. m # 0
  <2>1. SUFFICES ASSUME m = 0 PROVE FALSE
    OBVIOUS
  <2>2. 2 ^ m = 1
    BY <2>1, <1>5
  <2> QED BY <2>1, <2>2, <1>4
<1>7. m - 1 \in 0 .. n /\ ~ (m <= m - 1) /\ (m - 1) + 1 = m /\ m - 1 \in Nat
  BY <1>4, <1>6
<1>8. 2 ^ (m - 1) >= m - 1
  BY <1>3, <1>7
<1>9. 2 ^ ((m - 1) + 1) = 2 ^ (m - 1) * 2 ^ 1
  BY <1>7, PowerSum
<1> DEFINE p == 2 ^ (m - 1)
<1>10. p \in Nat \ {0} /\ 2 ^ m = p * 2
  BY <1>5, <1>7, <1>9, PowerPositive
<1> HIDE DEF p, bad
<1>11. p >= m - 1
  BY <1>8 DEF p
<1>12. p * 2 >= m
  BY <1>7, <1>10, <1>11
<1> QED BY <1>4, <1>10, <1>12

(* A number's digits in base two. *)
LEMMA NextDigit ==
  ASSUME NEW n \in Nat, NEW i \in Nat
  PROVE  /\ n \div 2 ^ i \in Nat
         /\ n \div 2 ^ i = 2 * (n \div 2 ^ (i + 1)) + ((n \div 2 ^ i) % 2)
<1>1. 2 ^ i \in Nat \ {0}
  BY PowerPositive
<1>2. 2 ^ (i + 1) = 2 ^ i * 2
  <2>1. 2 ^ (i + 1) = 2 ^ i * 2 ^ 1
    BY PowerSum
  <2>2. 2 ^ 1 = 2
    BY SMT
  <2> QED BY <2>1, <2>2
<1>3. (n \div 2 ^ i) \div 2 = n \div (2 ^ i * 2)
  <2> DEFINE s == 2 ^ i
  <2>1. s \in Nat \ {0}
    BY <1>1
  <2> HIDE DEF s
  <2>2. (n \div s) \div 2 = n \div (s * 2)
    BY <2>1, DividedTwice
  <2> QED BY <2>2 DEF s
<1> DEFINE q == n \div 2 ^ i
<1>4. q \in Nat
  BY <1>1, Divided
<1> DEFINE p == n \div 2 ^ (i + 1)
<1> SUFFICES q \in Nat /\ q = 2 * p + (q % 2)
  OBVIOUS
<1> HIDE DEF q, p
<1>5. q = 2 * (q \div 2) + (q % 2)
  BY <1>4, Divided
<1>6. q \div 2 = p
  BY <1>2, <1>3 DEF q, p
<1> QED BY <1>4, <1>5, <1>6

(* Two numbers are in the same block of 2^k iff they have the same digits  *)
(* from the k-th on.                                                       *)
LEMMA HighDigits ==
  ASSUME NEW W \in Nat, NEW n \in 0 .. 2 ^ W - 1, NEW m \in 0 .. 2 ^ W - 1, NEW k \in 0 .. W
  PROVE  n \div 2 ^ k = m \div 2 ^ k <=>
           \A i \in k .. W - 1 : (n \div 2 ^ i) % 2 = (m \div 2 ^ i) % 2
<1> DEFINE qn(i) == n \div 2 ^ i
           qm(i) == m \div 2 ^ i
<1>1. n \in Nat /\ m \in Nat
  <2>1. 2 ^ W \in Nat \ {0}
    BY PowerPositive
  <2> QED BY <2>1
<1>2. \A i \in Nat : /\ qn(i) \in Nat /\ qn(i) = 2 * qn(i + 1) + (qn(i) % 2)
                     /\ qm(i) \in Nat /\ qm(i) = 2 * qm(i + 1) + (qm(i) % 2)
  BY <1>1, NextDigit
<1>3. qn(W) = 0 /\ qm(W) = 0
  <2> DEFINE all == 2 ^ W
  <2>1. all \in Nat \ {0}
    BY PowerPositive
  <2> HIDE DEF all
  <2>2. \A x \in 0 .. all - 1 : x \div all = 0
    BY <2>1
  <2> QED BY <2>2 DEF all
<1> HIDE DEF qn, qm
<1>4. ASSUME \A i \in k .. W - 1 : qn(i) % 2 = qm(i) % 2
      PROVE  qn(k) = qm(k)
  <2> DEFINE bad == {d \in 0 .. W - k : qn(W - d) # qm(W - d)}
  <2>1. W - k \in 0 .. W - k /\ W - (W - k) = k
    OBVIOUS
  <2>2. SUFFICES ASSUME bad # {} PROVE FALSE
    BY <2>1
  <2>3. PICK d \in bad : \A e \in bad : d <= e
    <3>1. bad \in SUBSET Nat
      OBVIOUS
    <3> QED BY <3>1, <2>2, LeastNumber
  <2>4. d # 0
    BY <1>3
  <2>5. d - 1 \in 0 .. W - k /\ ~ (d <= d - 1) /\ W - (d - 1) = (W - d) + 1
    BY <2>4
  <2>6. d - 1 \notin bad
    BY <2>3, <2>5
  <2>7. qn((W - d) + 1) = qm((W - d) + 1)
    BY <2>5, <2>6
  <2>8. W - d \in k .. W - 1 /\ W - d \in Nat
    BY <2>4
  <2>9. qn(W - d) # qm(W - d)
    OBVIOUS
  <2> HIDE DEF bad
  <2> QED BY <2>7, <2>8, <2>9, <1>2, <1>4
<1>5. ASSUME qn(k) = qm(k)
      PROVE  \A i \in k .. W - 1 : qn(i) = qm(i)
  <2>1. TAKE i \in k .. W - 1
  <2>2. k \in Nat /\ i - k \in Nat /\ k + (i - k) = i
    OBVIOUS
  <2>3. 2 ^ i = 2 ^ k * 2 ^ (i - k)
    <3>1. 2 ^ (k + (i - k)) = 2 ^ k * 2 ^ (i - k)
      BY <2>2, PowerSum
    <3> QED BY <3>1, <2>2
  <2>4. 2 ^ k \in Nat \ {0} /\ 2 ^ (i - k) \in Nat \ {0}
    BY <2>2, PowerPositive
  <2>5. /\ (n \div 2 ^ k) \div 2 ^ (i - k) = n \div (2 ^ k * 2 ^ (i - k))
        /\ (m \div 2 ^ k) \div 2 ^ (i - k) = m \div (2 ^ k * 2 ^ (i - k))
    <3> DEFINE s == 2 ^ k
               t == 2 ^ (i - k)
    <3>1. s \in Nat \ {0} /\ t \in Nat \ {0}
      BY <2>4
    <3> HIDE DEF s, t
    <3>2. (n \div s) \div t = n \div (s * t) /\ (m \div s) \div t = m \div (s * t)
      BY <1>1, <3>1, DividedTwice
    <3> QED BY <3>2 DEF s, t
  <2> QED BY <2>3, <2>5, <1>5 DEF qn, qm
<1>6. qn(k) = qm(k) <=> \A i \in k .. W - 1 : qn(i) % 2 = qm(i) % 2
  BY <1>4, <1>5
<1> QED BY <1>6 DEF qn, qm

-----------------------------------------------------------------------------
(* Ranks count the positions one by one. *)
LEMMA RankCounts ==
  ASSUME NEW n \in Nat, NEW S \in SUBSET (1 .. n)
  PROVE  /\ IsFiniteSet(S) /\ Cardinality(S) \in Nat
         /\ RankIn(S, 0) = 0 /\ RankIn(S, n) = Cardinality(S)
         /\ \A i \in 0 .. n : RankIn(S, i) \in 0 .. Cardinality(S)
         /\ \A i \in 1 .. n : RankIn(S, i) = IF i \in S THEN RankIn(S, i - 1) + 1
                                             ELSE RankIn(S, i - 1)
<1>0. \A j \in S : j \in 1 .. n /\ j \in Nat
  OBVIOUS
<1>1. IsFiniteSet(S) /\ Cardinality(S) \in Nat
  <2>1. IsFiniteSet(1 .. n)
    BY FS_Interval
  <2> QED BY <2>1, FS_Subset, FS_CardinalityType
<1>2. RankIn(S, 0) = 0
  <2>1. (S \cap (1 .. 0)) = {}
    BY <1>0
  <2> QED BY <2>1, FS_EmptySet DEF RankIn
<1>3. RankIn(S, n) = Cardinality(S)
  <2>1. (S \cap (1 .. n)) = S
    BY <1>0
  <2> QED BY <2>1 DEF RankIn
<1>4. ASSUME NEW i \in 0 .. n PROVE IsFiniteSet((S \cap (1 .. i))) /\ RankIn(S, i) \in 0 .. Cardinality(S)
  <2>1. (S \cap (1 .. i)) \in SUBSET S
    OBVIOUS
  <2> QED BY <1>1, <2>1, FS_Subset, FS_CardinalityType DEF RankIn
<1>5. ASSUME NEW i \in 1 .. n
      PROVE  RankIn(S, i) = IF i \in S THEN RankIn(S, i - 1) + 1 ELSE RankIn(S, i - 1)
  <2>1. i - 1 \in 0 .. n /\ i \notin (S \cap (1 .. i - 1))
    OBVIOUS
  <2>2. CASE i \in S
    <3>1. (S \cap (1 .. i)) = (S \cap (1 .. i - 1)) \cup {i}
      BY <1>0, <2>2
    <3> QED BY <1>4, <2>1, <2>2, <3>1, FS_AddElement DEF RankIn
  <2>3. CASE i \notin S
    <3>1. (S \cap (1 .. i)) = (S \cap (1 .. i - 1))
      BY <1>0, <2>3
    <3> QED BY <2>3, <3>1 DEF RankIn
  <2> QED BY <2>2, <2>3
<1> QED BY <1>1, <1>2, <1>3, <1>4, <1>5

(* Each number of elements is the rank of one of them: the first position  *)
(* that has so many up to it.                                              *)
LEMMA NthExists ==
  ASSUME NEW n \in Nat, NEW S \in SUBSET (1 .. n), NEW k \in 1 .. Cardinality(S)
  PROVE  NthOf(S, k) \in S /\ RankIn(S, NthOf(S, k)) = k
<1> DEFINE reached == {i \in 0 .. n : RankIn(S, i) >= k}
<1>1. n \in reached
  BY RankCounts
<1>2. PICK i \in reached : \A j \in reached : i <= j
  <2>1. reached \in SUBSET Nat /\ reached # {}
    BY <1>1
  <2> HIDE DEF reached
  <2> QED BY <2>1, LeastNumber
<1>3. i # 0 /\ i \in 1 .. n /\ i - 1 \in 0 .. n /\ i - 1 \notin reached
  BY <1>2, RankCounts
<1>4. RankIn(S, i) \in Nat /\ RankIn(S, i - 1) \in Nat /\ RankIn(S, i) >= k /\ RankIn(S, i - 1) < k
  BY <1>2, <1>3, RankCounts
<1>5. i \in S /\ RankIn(S, i) = RankIn(S, i - 1) + 1
  <2>1. \A j \in 1 .. n : RankIn(S, j) = IF j \in S THEN RankIn(S, j - 1) + 1
                                          ELSE RankIn(S, j - 1)
    BY RankCounts
  <2> QED BY <1>3, <1>4, <2>1
<1>6. RankIn(S, i) = k
  BY <1>4, <1>5
<1> QED BY <1>5, <1>6 DEF NthOf

(* Ranks follow the order of the positions. *)
LEMMA RankOrders ==
  ASSUME NEW n \in Nat, NEW S \in SUBSET (1 .. n), NEW i \in S, NEW j \in S, i < j
  PROVE  RankIn(S, i) < RankIn(S, j)
<1> DEFINE I == S \cap (1 .. i)
           J == S \cap (1 .. j)
<1>1. I \in SUBSET J /\ I \in SUBSET S /\ J \in SUBSET S /\ j \in J /\ j \notin I
  <2>1. \A m \in S : m \in 1 .. n /\ m \in Nat
    OBVIOUS
  <2> QED BY <2>1
<1>2. IsFiniteSet(J) /\ IsFiniteSet(I) /\ Cardinality(I) \in Nat /\ Cardinality(J) \in Nat
  BY <1>1, RankCounts, FS_Subset, FS_CardinalityType
<1>3. Cardinality(I) <= Cardinality(J) /\ Cardinality(I) # Cardinality(J)
  BY <1>1, <1>2, FS_Subset
<1> QED BY <1>2, <1>3 DEF RankIn

(* What is picked is a sequence of the elements at the positions in S, in  *)
(* their order, and all of them.                                           *)
LEMMA PickedElements ==
  ASSUME NEW T, NEW s \in Seq(T), NEW S \in SUBSET DOMAIN s
  PROVE  /\ Picked(s, S) \in Seq(T) /\ Cardinality(S) \in Nat
         /\ Len(Picked(s, S)) = Cardinality(S)
         /\ \A k \in 1 .. Cardinality(S) :
              NthOf(S, k) \in S /\ Picked(s, S)[k] = s[NthOf(S, k)]
         /\ \A k, l \in 1 .. Cardinality(S) : k < l => NthOf(S, k) < NthOf(S, l)
         /\ \A i \in S : \E k \in 1 .. Cardinality(S) : NthOf(S, k) = i
<1>1. Len(s) \in Nat /\ DOMAIN s = 1 .. Len(s) /\ S \in SUBSET (1 .. Len(s))
  OBVIOUS
<1>2. Cardinality(S) \in Nat
  BY <1>1, RankCounts
<1>3. \A k \in 1 .. Cardinality(S) : NthOf(S, k) \in S /\ RankIn(S, NthOf(S, k)) = k
  BY <1>1, NthExists
<1>4. \A k \in 1 .. Cardinality(S) : s[NthOf(S, k)] \in T
  BY <1>1, <1>3
<1>5. Picked(s, S) \in Seq(T) /\ Len(Picked(s, S)) = Cardinality(S)
  BY <1>2, <1>4 DEF Picked
<1>6. \A k \in 1 .. Cardinality(S) : Picked(s, S)[k] = s[NthOf(S, k)]
  BY DEF Picked
<1>7. ASSUME NEW k \in 1 .. Cardinality(S), NEW l \in 1 .. Cardinality(S), k < l
      PROVE  NthOf(S, k) < NthOf(S, l)
  <2>1. NthOf(S, k) # NthOf(S, l)
    BY <1>3, <1>7
  <2>2. ~ (NthOf(S, l) < NthOf(S, k))
    <3>1. \A a, b \in S : a < b => RankIn(S, a) < RankIn(S, b)
      BY <1>1, RankOrders
    <3> QED BY <1>2, <1>3, <1>7, <3>1
  <2>3. NthOf(S, k) \in Nat /\ NthOf(S, l) \in Nat
    BY <1>1, <1>3
  <2> QED BY <2>1, <2>2, <2>3
<1>8. ASSUME NEW i \in S PROVE \E k \in 1 .. Cardinality(S) : NthOf(S, k) = i
  <2> DEFINE k == RankIn(S, i)
  <2>1. i \in 1 .. Len(s) /\ i - 1 \in 0 .. Len(s)
    BY <1>1
  <2>2. k \in 1 .. Cardinality(S)
    BY <1>1, <1>2, <2>1, RankCounts
  <2> HIDE DEF k
  <2>3. NthOf(S, k) \in S /\ RankIn(S, NthOf(S, k)) = RankIn(S, i)
    BY <1>3, <2>2 DEF k
  <2>4. ~ (NthOf(S, k) < i) /\ ~ (i < NthOf(S, k))
    <3>1. \A a, b \in S : a < b => RankIn(S, a) < RankIn(S, b)
      BY <1>1, RankOrders
    <3>2. RankIn(S, i) \in Nat
      BY <1>1, <1>2, <2>1, RankCounts
    <3> QED BY <2>3, <3>1, <3>2
  <2>5. NthOf(S, k) = i
    BY <1>1, <2>3, <2>4
  <2> QED BY <2>2, <2>5
<1> QED BY <1>2, <1>3, <1>5, <1>6, <1>7, <1>8

-----------------------------------------------------------------------------
LEMMA RemoveAtElements ==
  ASSUME NEW T, NEW s \in Seq(T), NEW i \in 1 .. Len(s)
  PROVE  /\ RemoveAt(s, i) \in Seq(T)
         /\ Len(s) \in Nat /\ Len(RemoveAt(s, i)) = Len(s) - 1
         /\ \A j \in 1 .. Len(s) - 1 : RemoveAt(s, i)[j] = IF j < i THEN s[j] ELSE s[j + 1]
<1> DEFINE a == SubSeq(s, 1, i - 1)
           b == SubSeq(s, i + 1, Len(s))
<1>1. Len(s) \in Nat /\ \A j \in 1 .. Len(s) : s[j] \in T
  OBVIOUS
<1>2. /\ a \in Seq(T) /\ Len(a) = i - 1
      /\ \A j \in 1 .. i - 1 : a[j] = s[j]
  <2>1. \A j \in 1 .. i - 1 : s[j] \in T
    BY <1>1
  <2> QED BY <1>1, <2>1, SubSeqProperties
<1>3. /\ b \in Seq(T) /\ Len(b) = Len(s) - i
      /\ \A j \in 1 .. Len(s) - i : b[j] = s[i + j]
  <2>1. \A j \in i + 1 .. Len(s) : s[j] \in T
    BY <1>1
  <2>2. /\ b \in Seq(T) /\ Len(b) = IF i + 1 <= Len(s) THEN Len(s) - (i + 1) + 1 ELSE 0
        /\ \A j \in 1 .. Len(s) - (i + 1) + 1 : b[j] = s[(i + 1) + j - 1]
    BY <1>1, <2>1, SubSeqProperties
  <2> QED BY <1>1, <2>2
<1> HIDE DEF a, b
<1>4. RemoveAt(s, i) = a \o b
  BY DEF RemoveAt, a, b
<1>5. /\ a \o b \in Seq(T) /\ Len(a \o b) = Len(a) + Len(b)
      /\ \A j \in 1 .. Len(a) + Len(b) : (a \o b)[j] = IF j <= Len(a) THEN a[j] ELSE b[j - Len(a)]
  BY <1>2, <1>3, ConcatProperties
<1> QED BY <1>1, <1>2, <1>3, <1>4, <1>5

LEMMA ReplaceAtElements ==
  ASSUME NEW T, NEW s \in Seq(T), NEW e \in T, NEW i \in 1 .. Len(s)
  PROVE  /\ ReplaceAt(s, i, e) \in Seq(T)
         /\ Len(ReplaceAt(s, i, e)) = Len(s)
         /\ \A j \in 1 .. Len(s) : ReplaceAt(s, i, e)[j] = IF j = i THEN e ELSE s[j]
  BY DEF ReplaceAt

-----------------------------------------------------------------------------
(* A path turned round. *)
LEMMA TurnedPath ==
  ASSUME NEW S, NEW p \in Seq(S), Len(p) > 0
  PROVE  /\ Turned(p) \in Seq(S) /\ Len(Turned(p)) = Len(p)
         /\ Turned(p)[1] = p[Len(p)] /\ Turned(p)[Len(p)] = p[1]
<1>1. Len(p) \in Nat
  OBVIOUS
<1>2. \A i \in 1 .. Len(p) : Len(p) + 1 - i \in 1 .. Len(p)
  BY <1>1
<1>3. \A i \in 1 .. Len(p) : p[Len(p) + 1 - i] \in S
  BY <1>2
<1>4. Turned(p) = [i \in 1 .. Len(p) |-> p[Len(p) + 1 - i]]
  BY DEF Turned
<1> QED BY <1>1, <1>3, <1>4

(* bfsPath: a path it returns leads over devices of the graph, from the    *)
(* source to the destination.  The paths of each length are those of the   *)
(* length before, each with one more device, so the first length at which  *)
(* this would fail is looked at.                                           *)
LEMMA PathsFound ==
  ASSUME NEW nodes, NEW W, IsFiniteSet(W), \A w \in W : w \subseteq nodes,
         NEW src \in nodes, NEW dst, NEW p \in ShortestPaths(src, dst, W)
  PROVE  /\ p \in Seq(nodes) /\ Len(p) \in Nat \ {0}
         /\ p[1] = src /\ p[Len(p)] = dst
<1> DEFINE N == Cardinality(W)
           Visited(q) == {q[i] : i \in 1 .. Len(q)}
           Longer(S, k) == UNION {{Append(q, n) : n \in Adjacent(W, q[k]) \ Visited(q)} : q \in S}
           Upto(f, m) == f = [k \in 0 .. m |-> IF k = 0 THEN {<<src>>} ELSE Longer(f[k - 1], k)]
           Simple == CHOOSE f : Upto(f, N)
           Ending(k) == {q \in Simple[k] : q[k + 1] = dst}
           Lengths == {k \in 0 .. N : Ending(k) # {}}
<1>1. N \in Nat
  BY FS_CardinalityType
<1>2. \E f : Upto(f, N)
  <2> DEFINE bad == {m \in 0 .. N : ~ \E f : Upto(f, m)}
  <2> HIDE DEF N, Longer
  <2>1. CASE bad = {}
    <3>1. N \notin bad /\ N \in 0 .. N
      BY <1>1, <2>1
    <3> QED BY <3>1
  <2>2. CASE bad # {}
    <3>1. PICK m \in bad : \A b \in bad : m <= b
      <4>1. bad \in SUBSET Nat
        BY <1>1
      <4> QED BY <4>1, <2>2, LeastNumber
    <3>2. CASE m = 0
      <4> DEFINE f == [k \in 0 .. 0 |-> {<<src>>}]
      <4>1. Upto(f, 0)
        OBVIOUS
      <4> QED BY <4>1, <3>1, <3>2
    <3>3. CASE m # 0
      <4>1. m - 1 \in 0 .. N /\ m - 1 \notin bad
        <5>1. m \in 0 .. N
          BY <3>1
        <5> HIDE DEF bad
        <5> QED BY <5>1, <3>1, <3>3, <1>1
      <4>2. PICK f : Upto(f, m - 1)
        BY <4>1
      <4> DEFINE g == [k \in 0 .. m |-> IF k = m THEN Longer(f[m - 1], m) ELSE f[k]]
      <4>3. Upto(g, m)
        <5>1. m \in 0 .. N
          BY <3>1
        <5>2. f = [k \in 0 .. m - 1 |-> IF k = 0 THEN {<<src>>} ELSE Longer(f[k - 1], k)]
          BY <4>2
        <5>3. \A k \in 0 .. m : g[k] = IF k = 0 THEN {<<src>>} ELSE Longer(g[k - 1], k)
          <6>1. TAKE k \in 0 .. m
          <6> HIDE DEF Longer, N
          <6>2. CASE k = m
            <7>1. g[k] = Longer(f[m - 1], m) /\ g[k - 1] = f[k - 1]
              BY <6>2, <5>1, <3>3, <1>1
            <7> QED BY <7>1, <6>2, <3>3
          <6>3. CASE k # m
            <7>1. k \in 0 .. m - 1 /\ g[k] = f[k] /\ (k # 0 => g[k - 1] = f[k - 1])
              BY <6>3, <5>1, <3>3, <1>1
            <7> QED BY <7>1, <5>2
          <6> QED BY <6>2, <6>3
        <5>4. g = [k \in 0 .. m |-> g[k]]
          OBVIOUS
        <5> HIDE DEF g
        <5> QED BY <5>3, <5>4
      <4> QED BY <4>3, <3>1
    <3> QED BY <3>2, <3>3
  <2> QED BY <2>1, <2>2
<1>3. Simple = [k \in 0 .. N |-> IF k = 0 THEN {<<src>>} ELSE Longer(Simple[k - 1], k)]
  BY <1>2
<1>4. \A k \in 0 .. N : Simple[k] = IF k = 0 THEN {<<src>>} ELSE Longer(Simple[k - 1], k)
  <2> HIDE DEF N, Simple, Longer
  <2> QED BY <1>3
<1>5. \A k \in 0 .. N : \A q \in Simple[k] : q \in Seq(nodes) /\ Len(q) = k + 1 /\ q[1] = src
  <2> DEFINE Good(k) == \A q \in Simple[k] : q \in Seq(nodes) /\ Len(q) = k + 1 /\ q[1] = src
             bad == {k \in 0 .. N : ~ Good(k)}
  <2>1. ASSUME bad # {} PROVE FALSE
    <3>1. PICK m \in bad : \A b \in bad : m <= b
      <4> HIDE DEF N, Good
      <4>1. bad \in SUBSET Nat
        BY <1>1
      <4> QED BY <4>1, <2>1, LeastNumber
    <3>2. m # 0
      <4> HIDE DEF N, Simple, Longer
      <4>1. Simple[0] = {<<src>>}
        BY <1>1, <1>4
      <4>2. Good(0)
        <5>1. <<src>> \in Seq(nodes) /\ Len(<<src>>) = 0 + 1 /\ <<src>>[1] = src
          OBVIOUS
        <5>2. \A q \in Simple[0] : q = <<src>>
          BY <4>1
        <5> QED BY <5>1, <5>2
      <4> HIDE DEF Good
      <4> QED BY <4>2, <3>1
    <3>3. m \in 1 .. N /\ m - 1 \in 0 .. N /\ Good(m - 1)
      <4> HIDE DEF N, Good
      <4> QED BY <3>1, <3>2, <1>1
    <3>4. Simple[m] = Longer(Simple[m - 1], m)
      <4> HIDE DEF N, Simple, Longer
      <4>1. m \in 0 .. N /\ m # 0
        BY <3>3, <1>1
      <4> QED BY <4>1, <1>4
    <3>5. ASSUME NEW q \in Simple[m]
          PROVE  q \in Seq(nodes) /\ Len(q) = m + 1 /\ q[1] = src
      <4> HIDE DEF N, Simple
      <4>1. PICK r \in Simple[m - 1] : \E n \in Adjacent(W, r[m]) \ Visited(r) : q = Append(r, n)
        BY <3>4, <3>5
      <4>2. PICK n \in Adjacent(W, r[m]) : q = Append(r, n)
        BY <4>1
      <4>3. n \in nodes
        BY DEF Adjacent
      <4>4. r \in Seq(nodes) /\ Len(r) = m /\ r[1] = src
        BY <3>3
      <4> QED BY <4>2, <4>3, <4>4, <3>3
    <3>6. Good(m)
      BY <3>5
    <3> QED BY <3>6, <3>1
  <2> QED BY <2>1
<1>6. PICK k \in 0 .. N : p \in Ending(k)
  <2>1. p \in IF Lengths = {} THEN {} ELSE Ending(CHOOSE k \in Lengths : \A j \in Lengths : k <= j)
    BY DEF ShortestPaths
  <2>2. \E k \in Lengths : \A j \in Lengths : k <= j
    <3> HIDE DEF N, Ending
    <3>1. Lengths \in SUBSET Nat /\ Lengths # {}
      BY <2>1, <1>1
    <3> QED BY <3>1, LeastNumber
  <2> HIDE DEF N, Ending
  <2> QED BY <2>1, <2>2
<1>7. p \in Simple[k] /\ p[k + 1] = dst
  BY <1>6
<1> HIDE DEF N, Simple
<1> QED BY <1>5, <1>6, <1>7, <1>1

-----------------------------------------------------------------------------
(* reachableFrom: the rounds of a breadth-first search. *)
Round(W, found) == found \cup UNION {Adjacent(W, n) : n \in found}
RoundsOf(W, s) ==
  CHOOSE f : f = [k \in 0 .. Cardinality(W) |-> IF k = 0 THEN {s} ELSE Round(W, f[k - 1])]
NoWireLeaves(W, A) == \A n \in A : Adjacent(W, n) \subseteq A

LEMMA SearchRounds ==
  ASSUME NEW W, IsFiniteSet(W), NEW s
  PROVE  /\ Cardinality(W) \in Nat
         /\ RoundsOf(W, s)[0] = {s}
         /\ \A k \in 1 .. Cardinality(W) : RoundsOf(W, s)[k] = Round(W, RoundsOf(W, s)[k - 1])
<1> DEFINE N == Cardinality(W)
           Next(S) == Round(W, S)
           Upto(f, m) == f = [k \in 0 .. m |-> IF k = 0 THEN {s} ELSE Next(f[k - 1])]
<1>1. N \in Nat
  BY FS_CardinalityType
<1>2. \E f : Upto(f, N)
  <2> DEFINE bad == {m \in 0 .. N : ~ \E f : Upto(f, m)}
  <2> HIDE DEF N, Next
  <2>1. ASSUME bad # {} PROVE FALSE
    <3>1. PICK m \in bad : \A b \in bad : m <= b
      <4>1. bad \in SUBSET Nat
        BY <1>1
      <4> QED BY <4>1, <2>1, LeastNumber
    <3>2. CASE m = 0
      <4> DEFINE f == [k \in 0 .. 0 |-> {s}]
      <4>1. Upto(f, 0)
        OBVIOUS
      <4> QED BY <4>1, <3>1, <3>2
    <3>3. CASE m # 0
      <4>1. m \in 0 .. N
        BY <3>1
      <4>2. m - 1 \in 0 .. N /\ m - 1 \notin bad
        <5> HIDE DEF bad
        <5> QED BY <4>1, <3>1, <3>3, <1>1
      <4>3. PICK f : Upto(f, m - 1)
        BY <4>2
      <4> DEFINE g == [k \in 0 .. m |-> IF k = m THEN Next(f[m - 1]) ELSE f[k]]
      <4>4. \A k \in 0 .. m : g[k] = IF k = 0 THEN {s} ELSE Next(g[k - 1])
        <5>1. TAKE k \in 0 .. m
        <5>2. CASE k = m
          <6>1. g[k] = Next(f[m - 1]) /\ g[k - 1] = f[k - 1]
            BY <5>2, <4>1, <3>3, <1>1
          <6> QED BY <6>1, <5>2, <3>3
        <5>3. CASE k # m
          <6>1. k \in 0 .. m - 1 /\ g[k] = f[k] /\ (k # 0 => g[k - 1] = f[k - 1])
            BY <5>3, <4>1, <3>3, <1>1
          <6> QED BY <6>1, <4>3
        <5> QED BY <5>2, <5>3
      <4>5. g = [k \in 0 .. m |-> g[k]]
        OBVIOUS
      <4> HIDE DEF g
      <4>6. Upto(g, m)
        BY <4>4, <4>5
      <4> QED BY <4>6, <3>1
    <3> QED BY <3>2, <3>3
  <2>2. N \in 0 .. N
    BY <1>1
  <2>3. N \notin bad
    BY <2>1
  <2> QED BY <2>2, <2>3
<1> DEFINE f == RoundsOf(W, s)
<1>3. f = [k \in 0 .. N |-> IF k = 0 THEN {s} ELSE Next(f[k - 1])]
  BY <1>2 DEF RoundsOf
<1> HIDE DEF f, N, Next
<1>4. \A k \in 0 .. N : f[k] = IF k = 0 THEN {s} ELSE Next(f[k - 1])
  BY <1>3
<1>5. 0 \in 0 .. N /\ \A k \in 1 .. N : k \in 0 .. N /\ k # 0
  BY <1>1
<1>6. f[0] = {s} /\ \A k \in 1 .. N : f[k] = Next(f[k - 1])
  BY <1>4, <1>5
<1> QED BY <1>1, <1>6 DEF f, N, Next

(* The rounds grow, and stay within whatever the wires do not leave. *)
LEMMA RoundsGrow ==
  ASSUME NEW W, IsFiniteSet(W), NEW s, NEW j \in 0 .. Cardinality(W), NEW i \in 0 .. j
  PROVE  RoundsOf(W, s)[i] \subseteq RoundsOf(W, s)[j]
<1> DEFINE N == Cardinality(W)
           f == RoundsOf(W, s)
           bad == {k \in i .. N : ~ f[i] \subseteq f[k]}
<1>1. N \in Nat /\ \A k \in 1 .. N : f[k - 1] \subseteq f[k]
  BY SearchRounds DEF Round
<1>2. i \in 0 .. N /\ j \in i .. N
  BY <1>1
<1> HIDE DEF N, f
<1>3. ASSUME bad # {} PROVE FALSE
  <2>1. PICK m \in bad : \A b \in bad : m <= b
    <3>1. bad \in SUBSET Nat
      BY <1>1, <1>2
    <3> QED BY <3>1, <1>3, LeastNumber
  <2>2. m # i /\ m \in i .. N /\ ~ f[i] \subseteq f[m]
    BY <2>1
  <2>3. m - 1 \in i .. N /\ m \in 1 .. N /\ ~ (m <= m - 1)
    BY <1>1, <1>2, <2>2
  <2>4. f[i] \subseteq f[m - 1]
    BY <2>1, <2>3
  <2> QED BY <1>1, <2>2, <2>3, <2>4
<1>4. j \notin bad
  BY <1>3
<1> QED BY <1>2, <1>4 DEF f

LEMMA RoundsWithin ==
  ASSUME NEW W, IsFiniteSet(W), NEW s, NEW A, s \in A, NoWireLeaves(W, A), NEW j \in 0 .. Cardinality(W)
  PROVE  RoundsOf(W, s)[j] \subseteq A
<1> DEFINE N == Cardinality(W)
           f == RoundsOf(W, s)
           bad == {k \in 0 .. N : ~ f[k] \subseteq A}
<1>1. N \in Nat /\ f[0] = {s} /\ \A k \in 1 .. N : f[k] = Round(W, f[k - 1])
  BY SearchRounds
<1> HIDE DEF N, f
<1>2. ASSUME bad # {} PROVE FALSE
  <2>1. PICK m \in bad : \A b \in bad : m <= b
    <3>1. bad \in SUBSET Nat
      BY <1>1
    <3> QED BY <3>1, <1>2, LeastNumber
  <2>2. m \in 0 .. N /\ ~ f[m] \subseteq A
    BY <2>1
  <2>3. m # 0
    BY <1>1, <2>2
  <2>4. m - 1 \in 0 .. N /\ m \in 1 .. N /\ ~ (m <= m - 1)
    BY <1>1, <2>2, <2>3
  <2>5. f[m - 1] \subseteq A /\ f[m] = Round(W, f[m - 1])
    BY <1>1, <2>1, <2>4
  <2> QED BY <2>2, <2>5 DEF Round, NoWireLeaves
<1>3. j \notin bad
  BY <1>2
<1> QED BY <1>3 DEF f, N

(* Every round that is not the last one takes in another wire, so there    *)
(* are enough of them: the search ends only where no wire leads on.        *)
LEMMA RoundsEnough ==
  ASSUME NEW W, IsFiniteSet(W), NEW s
  PROVE  NoWireLeaves(W, RoundsOf(W, s)[Cardinality(W)])
<1> DEFINE N == Cardinality(W)
           f == RoundsOf(W, s)
           E(k) == {w \in W : w \subseteq f[k]}
           Good(k) == NoWireLeaves(W, f[k]) \/ Cardinality(E(k)) >= k
           bad == {k \in 0 .. N : ~ Good(k)}
<1>1. N \in Nat /\ \A k \in 1 .. N : f[k] = Round(W, f[k - 1])
  BY SearchRounds
<1>2. \A k : IsFiniteSet(E(k)) /\ Cardinality(E(k)) \in Nat /\ E(k) \subseteq W
  BY FS_Subset, FS_CardinalityType
<1> HIDE DEF N, f
<1>3. ASSUME bad # {} PROVE FALSE
  <2>1. PICK m \in bad : \A b \in bad : m <= b
    <3> HIDE DEF Good
    <3>1. bad \in SUBSET Nat
      BY <1>1
    <3> QED BY <3>1, <1>3, LeastNumber
  <2>2. m \in 0 .. N /\ ~ NoWireLeaves(W, f[m]) /\ ~ Cardinality(E(m)) >= m
    BY <2>1
  <2>3. m # 0
    <3> HIDE DEF E
    <3> QED BY <1>2, <2>2
  <2>4. m - 1 \in 0 .. N /\ m \in 1 .. N /\ ~ (m <= m - 1)
    BY <1>1, <2>2, <2>3
  <2>5. Good(m - 1)
    <3> HIDE DEF Good
    <3> QED BY <2>1, <2>4
  <2>6. f[m] = Round(W, f[m - 1])
    BY <1>1, <2>4
  <2>7. CASE NoWireLeaves(W, f[m - 1])
    <3>1. f[m] = f[m - 1]
      BY <2>6, <2>7 DEF Round, NoWireLeaves
    <3> QED BY <3>1, <2>7, <2>2
  <2>8. CASE ~ NoWireLeaves(W, f[m - 1]) /\ Cardinality(E(m - 1)) >= m - 1
    <3>1. PICK n \in f[m - 1] : \E x \in Adjacent(W, n) : x \notin f[m - 1]
      BY <2>8 DEF NoWireLeaves
    <3>2. PICK w \in W : n \in w /\ ~ w \subseteq f[m - 1]
      BY <3>1 DEF Adjacent
    <3>3. w \subseteq f[m]
      BY <2>6, <3>1, <3>2 DEF Round, Adjacent
    <3>4. w \in E(m) /\ w \notin E(m - 1) /\ E(m - 1) \subseteq E(m)
      BY <2>6, <3>2, <3>3 DEF Round
    <3>5. IsFiniteSet(E(m)) /\ Cardinality(E(m)) \in Nat /\ Cardinality(E(m - 1)) \in Nat
      BY <1>2
    <3>6. Cardinality(E(m - 1)) < Cardinality(E(m))
      <4> DEFINE S == E(m - 1)
                 T == E(m)
      <4>1. S \subseteq T /\ S # T /\ IsFiniteSet(T)
        BY <3>4, <3>5
      <4> HIDE DEF S, T
      <4>2. Cardinality(S) <= Cardinality(T) /\ Cardinality(S) # Cardinality(T)
        BY <4>1, FS_Subset
      <4>3. Cardinality(S) \in Nat /\ Cardinality(T) \in Nat
        BY <3>5 DEF S, T
      <4>4. Cardinality(S) < Cardinality(T)
        BY <4>2, <4>3
      <4> QED BY <4>4 DEF S, T
    <3> HIDE DEF E
    <3> QED BY <3>5, <3>6, <2>8, <2>2, <2>4, <1>1
  <2> QED BY <2>5, <2>7, <2>8
<1>4. Good(N)
  <2> HIDE DEF Good
  <2>1. N \in 0 .. N
    BY <1>1
  <2> QED BY <2>1, <1>3
<1>5. CASE NoWireLeaves(W, f[N])
  BY <1>5 DEF f, N
<1>6. CASE Cardinality(E(N)) >= N
  <2> DEFINE S == E(N)
  <2>1. S \subseteq W /\ Cardinality(S) \in Nat /\ Cardinality(S) >= Cardinality(W)
    BY <1>2, <1>6 DEF N
  <2> HIDE DEF S
  <2>2. S = W
    BY <2>1, <1>1, FS_Subset DEF N
  <2>3. \A w \in W : w \subseteq f[N]
    BY <2>2 DEF S
  <2>4. NoWireLeaves(W, f[N])
    BY <2>3 DEF NoWireLeaves, Adjacent
  <2> QED BY <2>4 DEF f, N
<1> QED BY <1>4, <1>5, <1>6

(* reachableFrom finds the component of its start: all of it, since no     *)
(* wire leads out of what was found, and nothing else.                     *)
LEMMA ReachableIsComponent ==
  ASSUME NEW W, IsFiniteSet(W), NEW s
  PROVE  /\ s \in Reachable(s, W)
         /\ NoWireLeaves(W, Reachable(s, W))
         /\ \A A : s \in A /\ NoWireLeaves(W, A) => Reachable(s, W) \subseteq A
<1> DEFINE N == Cardinality(W)
<1>1. Reachable(s, W) = RoundsOf(W, s)[N]
  BY DEF Reachable, RoundsOf, Round
<1>2. N \in Nat /\ RoundsOf(W, s)[0] = {s}
  BY SearchRounds
<1>3. 0 \in 0 .. N /\ N \in 0 .. N
  BY <1>2
<1>4. s \in RoundsOf(W, s)[N]
  BY <1>2, <1>3, RoundsGrow
<1> QED BY <1>1, <1>3, <1>4, RoundsEnough, RoundsWithin

LEMMA AdjacentMutual ==
  ASSUME NEW W, NEW m, NEW n \in Adjacent(W, m)
  PROVE  m \in Adjacent(W, n)
BY DEF Adjacent

(* Two nodes of one component find the same nodes. *)
LEMMA OneComponent ==
  ASSUME NEW W, IsFiniteSet(W), NEW m, NEW n \in Reachable(m, W)
  PROVE  Reachable(n, W) = Reachable(m, W)
<1> DEFINE A == {x \in Reachable(m, W) : m \in Reachable(x, W)}
<1>1. \A x \in Reachable(m, W) : Reachable(x, W) \subseteq Reachable(m, W)
  BY ReachableIsComponent
<1>2. m \in A
  BY ReachableIsComponent
<1>3. ASSUME NEW x \in A, NEW y \in Adjacent(W, x) PROVE y \in A
  <2>1. y \in Reachable(m, W)
    BY <1>3, ReachableIsComponent DEF NoWireLeaves
  <2>2. x \in Reachable(y, W)
    BY <1>3, ReachableIsComponent, AdjacentMutual DEF NoWireLeaves
  <2>3. Reachable(x, W) \subseteq Reachable(y, W)
    BY <2>2, ReachableIsComponent
  <2> QED BY <1>3, <2>1, <2>3
<1>4. n \in A
  <2>1. NoWireLeaves(W, A)
    BY <1>3 DEF NoWireLeaves
  <2> HIDE DEF A
  <2> QED BY <1>2, <2>1, ReachableIsComponent
<1>5. Reachable(m, W) \subseteq Reachable(n, W)
  BY <1>4, ReachableIsComponent
<1> QED BY <1>1, <1>5

-----------------------------------------------------------------------------
(* Places in the order of a strict total order R on 1 .. n. *)
Beneath(n, R, i) == {j \in 1 .. n : <<j, i>> \in R}
PlaceIn(n, R, i) == 1 + Cardinality(Beneath(n, R, i))

IsOrder(n, R) ==
  /\ \A i \in 1 .. n : <<i, i>> \notin R
  /\ \A i, j, k \in 1 .. n : <<i, j>> \in R /\ <<j, k>> \in R => <<i, k>> \in R
  /\ \A i, j \in 1 .. n : i = j \/ <<i, j>> \in R \/ <<j, i>> \in R

(* Fewer than n elements are below another one. *)
LEMMA UnderSubset ==
  ASSUME NEW n \in Nat, NEW R, IsOrder(n, R), NEW i \in 1 .. n
  PROVE  IsFiniteSet(Beneath(n, R, i)) /\ Cardinality(Beneath(n, R, i)) \in 0 .. n - 1
<1>1. IsFiniteSet(1 .. n) /\ Cardinality(1 .. n) = n
  BY FS_Interval
<1>2. Beneath(n, R, i) \in SUBSET ((1 .. n) \ {i})
  BY DEF Beneath, IsOrder
<1>3. IsFiniteSet((1 .. n) \ {i}) /\ Cardinality((1 .. n) \ {i}) = n - 1
  BY <1>1, FS_RemoveElement
<1>4. IsFiniteSet(Beneath(n, R, i)) /\ Cardinality(Beneath(n, R, i)) <= n - 1
  BY <1>2, <1>3, FS_Subset
<1>5. Cardinality(Beneath(n, R, i)) \in Nat
  BY <1>4, FS_CardinalityType
<1> QED BY <1>4, <1>5

(* Counting what is below an element numbers all n of them in order. *)
LEMMA Ranking ==
  ASSUME NEW n \in Nat, NEW R, IsOrder(n, R)
  PROVE  /\ \A i \in 1 .. n : PlaceIn(n, R, i) \in 1 .. n
         /\ \A i, j \in 1 .. n : <<i, j>> \in R <=> PlaceIn(n, R, i) < PlaceIn(n, R, j)
         /\ \A i, j \in 1 .. n : PlaceIn(n, R, i) = PlaceIn(n, R, j) => i = j
         /\ \A k \in 1 .. n : \E i \in 1 .. n : PlaceIn(n, R, i) = k
<1>1. \A i \in 1 .. n : PlaceIn(n, R, i) \in 1 .. n /\ PlaceIn(n, R, i) \in Nat
  BY UnderSubset DEF PlaceIn
<1>2. ASSUME NEW i \in 1 .. n, NEW j \in 1 .. n, <<i, j>> \in R
      PROVE  PlaceIn(n, R, i) < PlaceIn(n, R, j)
  <2>1. Beneath(n, R, i) \in SUBSET Beneath(n, R, j) /\ i \in Beneath(n, R, j) /\ i \notin Beneath(n, R, i)
    BY <1>2 DEF Beneath, IsOrder
  <2>2. /\ IsFiniteSet(Beneath(n, R, j))
        /\ Cardinality(Beneath(n, R, i)) \in Nat /\ Cardinality(Beneath(n, R, j)) \in Nat
    BY UnderSubset
  <2>3. Cardinality(Beneath(n, R, i)) <= Cardinality(Beneath(n, R, j))
    BY <2>1, <2>2, FS_Subset
  <2>4. Cardinality(Beneath(n, R, i)) # Cardinality(Beneath(n, R, j))
    BY <2>1, <2>2, FS_Subset
  <2> QED BY <2>2, <2>3, <2>4 DEF PlaceIn
<1>3. \A i, j \in 1 .. n : <<i, j>> \in R \/ <<j, i>> \in R \/ i = j
  BY DEF IsOrder
<1>4. \A i, j \in 1 .. n : PlaceIn(n, R, i) = PlaceIn(n, R, j) => i = j
  <2> SUFFICES ASSUME NEW i \in 1 .. n, NEW j \in 1 .. n,
                      PlaceIn(n, R, i) = PlaceIn(n, R, j), i # j
               PROVE  FALSE
    OBVIOUS
  <2>1. CASE <<i, j>> \in R
    BY <2>1, <1>1, <1>2
  <2>2. CASE <<j, i>> \in R
    BY <2>2, <1>1, <1>2
  <2> QED BY <2>1, <2>2, <1>3
<1>5. \A i, j \in 1 .. n : <<i, j>> \in R <=> PlaceIn(n, R, i) < PlaceIn(n, R, j)
  <2> SUFFICES ASSUME NEW i \in 1 .. n, NEW j \in 1 .. n,
                      PlaceIn(n, R, i) < PlaceIn(n, R, j), <<i, j>> \notin R
               PROVE  FALSE
    BY <1>2
  <2>1. CASE i = j
    BY <2>1, <1>1
  <2>2. CASE <<j, i>> \in R
    BY <2>2, <1>1, <1>2
  <2> QED BY <2>1, <2>2, <1>3
<1>6. ASSUME NEW k \in 1 .. n, \A i \in 1 .. n : PlaceIn(n, R, i) # k
      PROVE  FALSE
  <2> DEFINE f == [i \in 1 .. n |-> PlaceIn(n, R, i)]
             T == (1 .. n) \ {k}
  <2>1. IsFiniteSet(1 .. n) /\ Cardinality(1 .. n) = n
    BY FS_Interval
  <2>2. IsFiniteSet(T) /\ Cardinality(T) = n - 1
    BY <2>1, FS_RemoveElement
  <2>3. f \in [1 .. n -> T]
    BY <1>1, <1>6
  <2>4. Cardinality(T) < Cardinality(1 .. n)
    BY <2>1, <2>2
  <2>5. \E i, j \in 1 .. n : i # j /\ f[i] = f[j]
    <3> HIDE DEF f, T
    <3> QED BY <2>1, <2>2, <2>3, <2>4, FS_PigeonHole
  <2> QED BY <2>5, <1>4
<1> QED BY <1>1, <1>4, <1>5, <1>6

-----------------------------------------------------------------------------
(* Recursive functions, and sorting. *)
(* Taking one step after the other, from s0 on, leads to one sequence of     *)
(* values: a recursive function over 0 .. n has the values it says.          *)
Iteration(S, n, s0, step) ==
  \E f \in [0 .. n -> S] :
    /\ f[0] = s0 /\ \A k \in 1 .. n : f[k] = step[k][f[k - 1]]
    /\ \A g : g[0] = s0 /\ (\A k \in 1 .. n : g[k - 1] \in S => g[k] = step[k][g[k - 1]])
                => \A k \in 0 .. n : g[k] = f[k]

LEMMA Iterates ==
  ASSUME NEW S, NEW n \in Nat, NEW s0 \in S, NEW step \in [1 .. n -> [S -> S]]
  PROVE  Iteration(S, n, s0, step)
<1> DEFINE Upto(f, m) == /\ f \in [0 .. m -> S] /\ f[0] = s0
                         /\ \A k \in 1 .. m : f[k] = step[k][f[k - 1]]
           bad == {m \in 0 .. n : ~ \E f : Upto(f, m)}
<1>1. \E f : Upto(f, n)
  <2>1. CASE bad = {}
    BY <2>1
  <2>2. CASE bad # {}
    <3>1. PICK m \in bad : \A b \in bad : m <= b
      <4>1. bad \in SUBSET Nat
        OBVIOUS
      <4> HIDE DEF bad
      <4> QED BY <4>1, <2>2, LeastNumber
    <3>2. CASE m = 0
      <4> DEFINE f == [k \in 0 .. 0 |-> s0]
      <4>1. Upto(f, 0)
        OBVIOUS
      <4> QED BY <4>1, <3>1, <3>2
    <3>3. CASE m # 0
      <4>1. m \in 1 .. n /\ m - 1 \in 0 .. n /\ ~ (m <= m - 1)
        BY <3>1, <3>3
      <4>2. m - 1 \notin bad
        <5> HIDE DEF bad
        <5> QED BY <3>1, <4>1
      <4>3. PICK f : Upto(f, m - 1)
        BY <4>1, <4>2
      <4> DEFINE g == [k \in 0 .. m |-> IF k = m THEN step[m][f[m - 1]] ELSE f[k]]
      <4>4. g \in [0 .. m -> S]
        <5>1. m - 1 \in 0 .. m - 1 /\ \A k \in 0 .. m : k = m \/ k \in 0 .. m - 1
          BY <4>1
        <5>2. step[m][f[m - 1]] \in S
          BY <4>1, <4>3, <5>1
        <5> QED BY <4>3, <5>1, <5>2
      <4>5. g[0] = s0
        BY <4>1, <4>3
      <4>6. \A k \in 1 .. m : g[k] = step[k][g[k - 1]]
        <5>1. TAKE k \in 1 .. m
        <5>2. CASE k = m
          <6>1. g[k] = step[m][f[m - 1]] /\ g[k - 1] = f[m - 1]
            BY <5>2, <4>1
          <6> QED BY <6>1, <5>2
        <5>3. CASE k # m
          <6>1. k \in 1 .. m - 1 /\ g[k] = f[k] /\ g[k - 1] = f[k - 1]
            BY <5>3, <4>1
          <6> QED BY <6>1, <4>3
        <5> QED BY <5>2, <5>3
      <4> HIDE DEF g
      <4>7. Upto(g, m)
        BY <4>4, <4>5, <4>6
      <4> QED BY <4>7, <3>1
    <3> QED BY <3>2, <3>3
  <2> QED BY <2>1, <2>2
<1>2. PICK f : Upto(f, n)
  BY <1>1
<1>3. ASSUME NEW g, g[0] = s0, \A k \in 1 .. n : g[k - 1] \in S => g[k] = step[k][g[k - 1]],
             NEW i \in 0 .. n, g[i] # f[i]
      PROVE  FALSE
  <2> DEFINE off == {k \in 0 .. n : g[k] # f[k]}
  <2>1. PICK m \in off : \A b \in off : m <= b
    <3>1. off \in SUBSET Nat /\ off # {}
      BY <1>3
    <3> HIDE DEF off
    <3> QED BY <3>1, LeastNumber
  <2>2. m \in 1 .. n /\ m - 1 \in 0 .. n /\ ~ (m <= m - 1) /\ g[m] # f[m]
    BY <2>1, <1>2, <1>3
  <2>3. m - 1 \notin off
    <3> HIDE DEF off
    <3> QED BY <2>1, <2>2
  <2>4. g[m - 1] = f[m - 1] /\ f[m - 1] \in S
    BY <2>2, <2>3, <1>2
  <2> QED BY <2>2, <2>4, <1>2, <1>3
<1> QED BY <1>2, <1>3 DEF Iteration

(* What grows with every step is greater the later.                        *)
LEMMA Ascending ==
  ASSUME NEW n \in Nat, NEW f \in [0 .. n -> Nat], \A k \in 1 .. n : f[k - 1] < f[k],
         NEW i \in 0 .. n, NEW j \in 0 .. n, i < j
  PROVE  f[i] < f[j]
<1> DEFINE bad == {m \in 0 .. n : i < m /\ ~ (f[i] < f[m])}
<1>1. ASSUME bad # {} PROVE FALSE
  <2>1. PICK m \in bad : \A b \in bad : m <= b
    <3>1. bad \in SUBSET Nat
      OBVIOUS
    <3> HIDE DEF bad
    <3> QED BY <3>1, <1>1, LeastNumber
  <2>2. m \in 1 .. n /\ m - 1 \in 0 .. n /\ ~ (m <= m - 1) /\ i < m /\ ~ (f[i] < f[m])
    BY <2>1
  <2>3. m - 1 \notin bad
    <3> HIDE DEF bad
    <3> QED BY <2>1, <2>2
  <2>4. f[m - 1] < f[m] /\ f[m] \in Nat /\ f[m - 1] \in Nat /\ f[i] \in Nat
    BY <2>2
  <2>5. CASE i = m - 1
    BY <2>2, <2>4, <2>5
  <2>6. CASE i # m - 1
    <3>1. f[i] < f[m - 1]
      BY <2>2, <2>3, <2>6
    <3> QED BY <3>1, <2>2, <2>4
  <2> QED BY <2>5, <2>6
<1> QED BY <1>1

(* A list of n things is a sequence. *)
LEMMA ListedSequence ==
  ASSUME NEW T, NEW n \in Nat, NEW t, t = [k \in 1 .. n |-> t[k]], \A k \in 1 .. n : t[k] \in T
  PROVE  t \in Seq(T) /\ Len(t) = n
OBVIOUS

(* A stable sort by a number is a permutation, in the order of the numbers.  *)
Sorts(T, e, key, t) ==
  /\ t \in Seq(T) /\ Len(e) \in Nat /\ Len(t) = Len(e)
  /\ \E f \in [1 .. Len(e) -> 1 .. Len(e)] :
       /\ \A i \in 1 .. Len(e) : t[f[i]] = e[i]
       /\ \A k \in 1 .. Len(e) : \E i \in 1 .. Len(e) : f[i] = k
       /\ \A i, j \in 1 .. Len(e) : f[i] < f[j] => key[i] <= key[j]

LEMMA SortPlaces ==
  ASSUME NEW T, NEW e \in Seq(T), NEW key \in [1 .. Len(e) -> Int],
         NEW t, t = [k \in 1 .. Len(e) |->
                       e[CHOOSE i \in 1 .. Len(e) :
                           1 + Cardinality({j \in 1 .. Len(e) :
                                              \/ key[j] < key[i]
                                              \/ key[j] = key[i] /\ j < i}) = k]]
  PROVE  Sorts(T, e, key, t)
<1> DEFINE n == Len(e)
           Before(i, j) == key[i] < key[j] \/ (key[i] = key[j] /\ i < j)
           R == {p \in (1 .. n) \X (1 .. n) : Before(p[1], p[2])}
           Place(i) == PlaceIn(n, R, i)
           Chosen(k) == CHOOSE i \in 1 .. n : Place(i) = k
<1>1. n \in Nat /\ \A i \in 1 .. n : e[i] \in T /\ key[i] \in Int
  OBVIOUS
<1>2. \A i, j \in 1 .. n : <<i, j>> \in R <=> Before(i, j)
  OBVIOUS
<1>3. \A i \in 1 .. n : {j \in 1 .. n : Before(j, i)} = Beneath(n, R, i)
  <2> HIDE DEF Before, R, n
  <2> QED BY <1>2 DEF Beneath
<1>4. \A k : Chosen(k) = CHOOSE i \in 1 .. n : 1 + Cardinality({j \in 1 .. n : Before(j, i)}) = k
  <2>1. \A i \in 1 .. n : 1 + Cardinality({j \in 1 .. n : Before(j, i)}) = Place(i)
    <3> HIDE DEF Before, R, n
    <3> QED BY <1>3 DEF PlaceIn
  <2> HIDE DEF Before, R, n, Place
  <2> QED BY <2>1
<1>5. t = [k \in 1 .. n |-> e[Chosen(k)]]
  <2> DEFINE First(k) == CHOOSE i \in 1 .. n : 1 + Cardinality({j \in 1 .. n : Before(j, i)}) = k
  <2>1. t = [k \in 1 .. n |-> e[First(k)]]
    OBVIOUS
  <2>2. \A k : Chosen(k) = First(k)
    BY <1>4
  <2> HIDE DEF Chosen, First, n
  <2> QED BY <2>1, <2>2
<1>6. IsOrder(n, R)
  <2>1. /\ \A i \in 1 .. n : ~ Before(i, i)
        /\ \A i, j, k \in 1 .. n : Before(i, j) /\ Before(j, k) => Before(i, k)
        /\ \A i, j \in 1 .. n : i = j \/ Before(i, j) \/ Before(j, i)
    <3> HIDE DEF n
    <3> QED BY <1>1
  <2> HIDE DEF Before, R, n
  <2> QED BY <2>1, <1>2 DEF IsOrder
<1>7. /\ \A i \in 1 .. n : Place(i) \in 1 .. n
      /\ \A i, j \in 1 .. n : <<i, j>> \in R <=> Place(i) < Place(j)
      /\ \A i, j \in 1 .. n : Place(i) = Place(j) => i = j
      /\ \A k \in 1 .. n : \E i \in 1 .. n : Place(i) = k
  <2> HIDE DEF R, n
  <2> QED BY <1>1, <1>6, Ranking
<1>8. \A i, j \in 1 .. n : Before(i, j) => key[i] <= key[j]
  <2> HIDE DEF n
  <2> QED BY <1>1
<1> HIDE DEF R, n, Place, Before
<1>9. \A k \in 1 .. n : Chosen(k) \in 1 .. n
  BY <1>7
<1>10. t \in Seq(T) /\ Len(t) = n
  <2> HIDE DEF Chosen
  <2>1. \A k \in 1 .. n : t[k] \in T
    BY <1>1, <1>5, <1>9
  <2>2. t = [k \in 1 .. n |-> t[k]]
    BY <1>5
  <2>3. n \in Nat
    BY <1>1
  <2> QED BY ONLY <2>1, <2>2, <2>3, ListedSequence
<1>11. \A i \in 1 .. n : t[Place(i)] = e[i]
  <2> SUFFICES ASSUME NEW i \in 1 .. n PROVE t[Place(i)] = e[i]
    OBVIOUS
  <2>1. Chosen(Place(i)) = i
    BY <1>7
  <2> HIDE DEF Chosen
  <2>2. t[Place(i)] = e[Chosen(Place(i))]
    BY <1>5, <1>7
  <2> QED BY <2>1, <2>2
<1> DEFINE place == [i \in 1 .. n |-> Place(i)]
<1>12. /\ place \in [1 .. n -> 1 .. n]
       /\ \A i \in 1 .. n : t[place[i]] = e[i]
       /\ \A k \in 1 .. n : \E i \in 1 .. n : place[i] = k
       /\ \A i, j \in 1 .. n : place[i] < place[j] => key[i] <= key[j]
  BY <1>2, <1>7, <1>8, <1>11
<1> HIDE DEF place
<1> QED BY <1>1, <1>10, <1>12 DEF n, Sorts

(* Sums of lists of numbers, as recursive functions have them. *)
Sums(n, w, f) ==
  /\ f \in [0 .. n -> Nat] /\ f[0] = 0
  /\ \A k \in 1 .. n : f[k] = f[k - 1] + w[k]

LEMMA SumsExist ==
  ASSUME NEW n \in Nat, NEW w \in [1 .. n -> Nat]
  PROVE  \E f : Sums(n, w, f)
<1> DEFINE step == [k \in 1 .. n |-> [t \in Nat |-> t + w[k]]]
<1>1. step \in [1 .. n -> [Nat -> Nat]]
  OBVIOUS
<1>2. \A k \in 1 .. n : \A t \in Nat : step[k][t] = t + w[k]
  OBVIOUS
<1> HIDE DEF step
<1>3. 0 \in Nat
  OBVIOUS
<1>4. Iteration(Nat, n, 0, step)
  BY <1>1, <1>3, Iterates
<1>5. PICK f \in [0 .. n -> Nat] : f[0] = 0 /\ \A k \in 1 .. n : f[k] = step[k][f[k - 1]]
  BY <1>4 DEF Iteration
<1>6. \A k \in 1 .. n : f[k] = f[k - 1] + w[k]
  <2> SUFFICES ASSUME NEW k \in 1 .. n PROVE f[k] = f[k - 1] + w[k]
    OBVIOUS
  <2>1. f[k - 1] \in Nat
    OBVIOUS
  <2> QED BY <2>1, <1>2, <1>5
<1> QED BY <1>5, <1>6 DEF Sums

LEMMA SumsOnly ==
  ASSUME NEW n \in Nat, NEW w \in [1 .. n -> Nat], NEW g, g = [k \in 0 .. n |-> g[k]],
         g[0] = 0, \A k \in 1 .. n : g[k] = g[k - 1] + w[k]
  PROVE  Sums(n, w, g)
<1>1. PICK f : Sums(n, w, f)
  BY SumsExist
<1>2. f \in [0 .. n -> Nat] /\ f[0] = 0 /\ \A k \in 1 .. n : f[k] = f[k - 1] + w[k]
  BY <1>1 DEF Sums
<1> DEFINE off == {k \in 0 .. n : g[k] # f[k]}
<1>3. ASSUME off # {} PROVE FALSE
  <2>1. PICK m \in off : \A b \in off : m <= b
    <3>1. off \in SUBSET Nat
      OBVIOUS
    <3> HIDE DEF off
    <3> QED BY <3>1, <1>3, LeastNumber
  <2>2. m \in 1 .. n /\ m - 1 \in 0 .. n /\ ~ (m <= m - 1) /\ g[m] # f[m]
    BY <2>1, <1>2
  <2>3. m - 1 \notin off
    <3> HIDE DEF off
    <3> QED BY <2>1, <2>2
  <2>4. g[m - 1] = f[m - 1]
    BY <2>2, <2>3
  <2> QED BY <2>2, <2>4, <1>2
<1>4. \A k \in 0 .. n : g[k] = f[k]
  BY <1>3
<1>5. g = f
  <2>1. f = [k \in 0 .. n |-> f[k]]
    BY <1>2
  <2> QED BY <2>1, <1>4
<1> QED BY <1>1, <1>5

(* Lists that are equal from a place on, and how their sums differ there.   *)
Apart(f, g, d, k) == f[k] = g[k] + d
EqualAfter(v, w, m, n) == \A k \in m + 1 .. n : v[k] = w[k]

LEMMA SumsDiffer ==
  ASSUME NEW n \in Nat, NEW v \in [1 .. n -> Nat], NEW w \in [1 .. n -> Nat],
         NEW f, Sums(n, v, f), NEW g, Sums(n, w, g),
         NEW m \in 0 .. n, NEW d \in Int, NEW h \in m .. n,
         Apart(f, g, d, m), EqualAfter(v, w, m, n)
  PROVE  Apart(f, g, d, h)
<1> DEFINE bad == {k \in m .. n : ~ (f[k] = g[k] + d)}
<1>1. /\ f \in [0 .. n -> Nat] /\ \A k \in 1 .. n : f[k] = f[k - 1] + v[k]
      /\ g \in [0 .. n -> Nat] /\ \A k \in 1 .. n : g[k] = g[k - 1] + w[k]
  BY DEF Sums
<1>2. ASSUME bad # {} PROVE FALSE
  <2>1. PICK k \in bad : \A b \in bad : k <= b
    <3>1. bad \in SUBSET Nat
      OBVIOUS
    <3> HIDE DEF bad
    <3> QED BY <3>1, <1>2, LeastNumber
  <2>2. k \in m .. n /\ k # m /\ ~ (f[k] = g[k] + d)
    BY <2>1 DEF Apart
  <2>3. k - 1 \in m .. n /\ ~ (k <= k - 1) /\ k \in m + 1 .. n /\ k \in 1 .. n /\ k - 1 \in 0 .. n
    BY <2>2
  <2>4. k - 1 \notin bad
    <3> HIDE DEF bad
    <3> QED BY <2>1, <2>3
  <2>5. f[k - 1] = g[k - 1] + d
    BY <2>3, <2>4
  <2>6. v[k] = w[k] /\ v[k] \in Nat
    BY <2>3 DEF EqualAfter
  <2>7. f[k] = f[k - 1] + v[k] /\ g[k] = g[k - 1] + w[k]
    BY <1>1, <2>3
  <2>8. f[k - 1] \in Nat /\ g[k - 1] \in Nat
    BY <1>1, <2>3
  <2> QED BY <2>2, <2>5, <2>6, <2>7, <2>8
<1> QED BY <1>2 DEF Apart

=============================================================================
