---------------------------- MODULE Binary_proofs ----------------------------
(***************************************************************************)
(* Numbers and their binary digits: powers of two, quotients by them and   *)
(* the digits of sums, shifts and remainders.  The operators of            *)
(* include/operators.hpp and the byte accesses of hart.hpp are defined by  *)
(* such arithmetic; what they mean bit by bit rests on these lemmas.       *)
(*                                                                         *)
(* The provers do not know 2^n.  Its laws follow from the number of        *)
(* subsets of 1 .. n, and induction is an appeal to the least element of   *)
(* a set of naturals.                                                      *)
(***************************************************************************)
EXTENDS Integers, FiniteSetsExt, FiniteSetTheorems, WellFoundedInduction, TLAPS

Below == {p \in Nat \X Nat : p[1] < p[2]}

\* Induction over the naturals, for a set of them.
LEMMA Induction ==
  ASSUME NEW S \in SUBSET Nat, 0 \in S, \A n \in S : n + 1 \in S
  PROVE  \A n \in Nat : n \in S
<1>1. IsWellFoundedOn(Below, Nat)
  BY NatLessThanWellFounded DEF OpToRel, Below
<1>2. SUFFICES ASSUME Nat \ S # {}
               PROVE  FALSE
  OBVIOUS
<1>3. PICK x \in Nat \ S : \A y \in Nat \ S : <<y, x>> \notin Below
  BY <1>1, <1>2, WFMin
<1>4. x - 1 \in Nat \ S
  OBVIOUS
<1>5. <<x - 1, x>> \in Below
  BY <1>4 DEF Below
<1> QED
  BY <1>3, <1>4, <1>5

-----------------------------------------------------------------------------
(***************************************************************************)
(* Powers of two.                                                          *)
(***************************************************************************)
LEMMA PowerCounts ==
  ASSUME NEW n \in Nat
  PROVE  IsFiniteSet(SUBSET (1 .. n)) /\ Cardinality(SUBSET (1 .. n)) = 2^n
<1>1. IsFiniteSet(1 .. n) /\ Cardinality(1 .. n) = n
  BY FS_Interval
<1> QED
  BY <1>1, FS_SUBSET

LEMMA PowerPositive == \A n \in Nat : 2^n \in Nat /\ 2^n >= 1
<1> TAKE n \in Nat
<1> DEFINE S == SUBSET (1 .. n)
<1>1. IsFiniteSet(S) /\ Cardinality(S) = 2^n /\ S # {}
  BY PowerCounts
<1> HIDE DEF S
<1>2. Cardinality(S) \in Nat /\ Cardinality(S) # 0
  BY <1>1, FS_CardinalityType, FS_EmptySet
<1> QED
  BY <1>1, <1>2

\* The subsets of 1 .. n+1 are those without n+1 and as many with it.
LEMMA PowerSuccessor == \A n \in Nat : 2^(n + 1) = 2 * 2^n
<1> TAKE n \in Nat
<1> DEFINE S == SUBSET (1 .. n)
           T == (SUBSET (1 .. (n + 1))) \ S
           f == [A \in S |-> A \cup {n + 1}]
<1>1. IsFiniteSet(S) /\ Cardinality(S) = 2^n
  BY PowerCounts
<1>2. IsFiniteSet(SUBSET (1 .. (n + 1))) /\ Cardinality(SUBSET (1 .. (n + 1))) = 2^(n + 1)
  BY PowerCounts
<1>3. f \in Bijection(S, T)
  <2>1. f \in [S -> T]
    OBVIOUS
  <2>2. \A A, B \in S : f[A] = f[B] => A = B
    OBVIOUS
  <2>3. \A B \in T : \E A \in S : f[A] = B
    <3> TAKE B \in T
    <3>1. B \ {n + 1} \in S /\ n + 1 \in B
      OBVIOUS
    <3>2. f[B \ {n + 1}] = B
      BY <3>1
    <3> QED
      BY <3>1, <3>2
  <2> HIDE DEF f, S, T
  <2> QED
    BY <2>1, <2>2, <2>3 DEF Bijection, Injection, Surjection, IsInjective
<1>4. Cardinality(T) = 2^n /\ IsFiniteSet(T)
  BY <1>1, <1>3, FS_Bijection DEF ExistsBijection
<1>5. S \cup T = SUBSET (1 .. (n + 1)) /\ S \cap T = {}
  OBVIOUS
<1>6. Cardinality(S \cup T) = 2^n + 2^n - Cardinality({})
  <2> HIDE DEF S, T
  <2> QED
  BY <1>1, <1>4, <1>5, FS_Union
<1>7. Cardinality({}) = 0
  BY FS_EmptySet
<1>8. Cardinality(S \cup T) = 2^(n + 1)
  BY <1>2, <1>5
<1> QED
  BY <1>6, <1>7, <1>8, PowerPositive

LEMMA PowerZero == 2^0 = 1 /\ 2^1 = 2
<1>1. 2^0 = 1
  OBVIOUS
<1> QED
  BY <1>1, PowerSuccessor

LEMMA PowerSum == \A m, n \in Nat : 2^(m + n) = 2^m * 2^n
<1> TAKE m \in Nat
<1> DEFINE S == {n \in Nat : 2^(m + n) = 2^m * 2^n}
<1>1. 0 \in S
  BY PowerZero, PowerPositive
<1>2. ASSUME NEW n \in S
      PROVE  n + 1 \in S
  <2>1. 2^(m + n) = 2^m * 2^n /\ 2^(m + (n + 1)) = 2^((m + n) + 1)
    OBVIOUS
  <2>2. 2^((m + n) + 1) = 2 * 2^(m + n) /\ 2^(n + 1) = 2 * 2^n
    BY PowerSuccessor
  <2>3. 2^m \in Nat /\ 2^n \in Nat
    BY PowerPositive
  <2> QED
    BY <2>1, <2>2, <2>3
<1>3. \A n \in Nat : n \in S
  <2> HIDE DEF S
  <2>1. S \in SUBSET Nat
    BY DEF S
  <2> QED
    BY <1>1, <1>2, <2>1, Induction
<1> QED
  BY <1>3

LEMMA PowerMonotone == \A m, n \in Nat : m <= n => 2^m <= 2^n
<1> SUFFICES ASSUME NEW m \in Nat, NEW n \in Nat, m <= n
             PROVE  2^m <= 2^n
  OBVIOUS
<1>1. n - m \in Nat /\ n = m + (n - m)
  OBVIOUS
<1>2. 2^n = 2^m * 2^(n - m)
  BY <1>1, PowerSum
<1>3. 2^m \in Nat /\ 2^(n - m) \in Nat /\ 2^(n - m) >= 1
  BY <1>1, PowerPositive
<1> QED
  BY <1>2, <1>3

-----------------------------------------------------------------------------
(***************************************************************************)
(* Quotients and remainders.                                               *)
(***************************************************************************)
LEMMA DivisionUnique ==
  \A q, r \in Int, d \in Nat :
    0 <= r /\ r < d => (q * d + r) \div d = q /\ (q * d + r) % d = r
OBVIOUS

LEMMA Division ==
  \A a \in Int, d \in Nat :
    d >= 1 => /\ a \div d \in Int /\ a % d \in 0 .. (d - 1)
              /\ a = (a \div d) * d + (a % d)
OBVIOUS

LEMMA DivisionTwice ==
  ASSUME NEW a \in Int, NEW c \in Nat, NEW d \in Nat, c >= 1, d >= 1
  PROVE  (a \div c) \div d = a \div (c * d)
<1> DEFINE q == a \div c
           r == a % c
           p == q \div d
           s == q % d
<1>1. q \in Int /\ r \in 0 .. (c - 1) /\ a = q * c + r
  BY Division
<1>2. p \in Int /\ s \in 0 .. (d - 1) /\ q = p * d + s
  BY <1>1, Division
<1> HIDE DEF q, r, p, s
<1>3. a = p * (c * d) + (s * c + r)
  <2>1. a = (p * d + s) * c + r
    BY <1>1, <1>2
  <2> QED
    BY <1>1, <1>2, <2>1
<1>4. 0 <= s * c + r /\ s * c + r < c * d
  <2>1. s * c <= (d - 1) * c /\ 0 <= s * c
    BY <1>2
  <2>2. (d - 1) * c = c * d - c
    OBVIOUS
  <2> QED
    BY <1>1, <1>2, <2>1, <2>2
<1>5. s * c + r \in Int /\ c * d \in Nat
  BY <1>1, <1>2
<1>6. a \div (c * d) = p
  BY <1>2, <1>3, <1>4, <1>5, DivisionUnique
<1> QED
  BY <1>6 DEF p, q

\* A multiple of the divisor passes through.
LEMMA DivisionOfSum ==
  ASSUME NEW a \in Int, NEW k \in Int, NEW d \in Nat, d >= 1
  PROVE  (k * d + a) \div d = k + (a \div d) /\ (k * d + a) % d = a % d
<1>1. /\ a \div d \in Int /\ a % d \in 0 .. (d - 1)
      /\ a = (a \div d) * d + (a % d)
  BY Division
<1> DEFINE q == a \div d
           r == a % d
<1> HIDE DEF q, r
<1>2. q \in Int /\ r \in 0 .. (d - 1) /\ a = q * d + r
  BY <1>1 DEF q, r
<1>3. k * d + a = (k + q) * d + r
  BY <1>2
<1>4. (k * d + a) \div d = k + q /\ (k * d + a) % d = r
  BY <1>2, <1>3, DivisionUnique
<1> QED
  BY <1>4 DEF q, r

-----------------------------------------------------------------------------
(***************************************************************************)
(* Digit i of a number.  A negative number has infinitely many ones, as in *)
(* two's complement.                                                       *)
(***************************************************************************)
Digit(a, i) == (a \div 2^i) % 2

LEMMA DigitType == \A a \in Int, i \in Nat : Digit(a, i) \in {0, 1}
<1> TAKE a \in Int, i \in Nat
<1>1. a \div 2^i \in Int
  BY PowerPositive, Division
<1> QED
  BY <1>1, Division DEF Digit

LEMMA DigitShiftRight ==
  \A a \in Int, n, i \in Nat : Digit(a \div 2^n, i) = Digit(a, n + i)
<1> TAKE a \in Int, n, i \in Nat
<1>1. 2^n \in Nat /\ 2^n >= 1 /\ 2^i \in Nat /\ 2^i >= 1
  BY PowerPositive
<1>2. (a \div 2^n) \div 2^i = a \div (2^n * 2^i)
  BY <1>1, DivisionTwice
<1>3. 2^n * 2^i = 2^(n + i)
  BY PowerSum
<1> QED
  BY <1>2, <1>3 DEF Digit

LEMMA DigitShiftLeft ==
  \A a \in Int, n, i \in Nat :
    Digit(a * 2^n, i) = IF n <= i THEN Digit(a, i - n) ELSE 0
<1> TAKE a \in Int, n, i \in Nat
<1>1. 2^n \in Nat /\ 2^n >= 1 /\ 2^i \in Nat /\ 2^i >= 1
  BY PowerPositive
<1>2. CASE n <= i
  <2>1. (a * 2^n) \div 2^n = a
    BY <1>1, DivisionUnique
  <2>2. i - n \in Nat /\ n + (i - n) = i /\ a * 2^n \in Int
    BY <1>1, <1>2
  <2>3. Digit((a * 2^n) \div 2^n, i - n) = Digit(a * 2^n, n + (i - n))
    BY <2>2, DigitShiftRight
  <2> QED
    BY <1>2, <2>1, <2>2, <2>3
<1>3. CASE ~(n <= i)
  <2> DEFINE k == n - i - 1
  <2>1. k \in Nat /\ n = (k + 1) + i
    BY <1>3
  <2> HIDE DEF k
  <2>2. 2^n = 2^(k + 1) * 2^i /\ 2^(k + 1) = 2 * 2^k /\ 2^k \in Nat
    BY <2>1, PowerSum, PowerSuccessor, PowerPositive
  <2> DEFINE m == 2^k
             c == 2^i
  <2>3. m \in Nat /\ c \in Nat /\ c >= 1 /\ a * 2^n = a * ((2 * m) * c)
    BY <1>1, <2>2
  <2> HIDE DEF m, c
  <2>4. a * ((2 * m) * c) = ((a * m) * 2) * c + 0 /\ (a * m) * 2 \in Int
    BY <2>3
  <2>5. (a * 2^n) \div c = (a * m) * 2
    BY <2>3, <2>4, DivisionUnique
  <2>6. ((a * m) * 2) % 2 = 0
    <3>1. a * m \in Int
      BY <2>3
    <3> QED
      BY <3>1
  <2> QED
    BY <1>3, <2>5, <2>6 DEF Digit, c
<1> QED
  BY <1>2, <1>3

LEMMA DigitSmall ==
  \A a \in Nat, i \in Nat : a < 2^i => Digit(a, i) = 0
<1> SUFFICES ASSUME NEW a \in Nat, NEW i \in Nat, a < 2^i
             PROVE  Digit(a, i) = 0
  OBVIOUS
<1>1. 2^i \in Nat /\ a = 0 * 2^i + a
  BY PowerPositive
<1>2. a \div 2^i = 0
  BY <1>1, DivisionUnique
<1> QED
  BY <1>2 DEF Digit

LEMMA DigitNegative ==
  \A a \in Int, i \in Nat : a < 0 /\ -(2^i) <= a => Digit(a, i) = 1
<1> SUFFICES ASSUME NEW a \in Int, NEW i \in Nat, a < 0, -(2^i) <= a
             PROVE  Digit(a, i) = 1
  OBVIOUS
<1>1. 2^i \in Nat /\ a = (-1) * 2^i + (a + 2^i) /\ a + 2^i \in 0 .. (2^i - 1)
  BY PowerPositive
<1> DEFINE q == a \div 2^i
<1>2. q \in Int /\ q + 1 = 0
  BY <1>1, DivisionUnique
<1> HIDE DEF q
<1>3. q * 2 + 1 = q
  BY <1>2
<1>4. q % 2 = 1
  BY <1>2, <1>3, DivisionUnique
<1> QED
  BY <1>4 DEF Digit, q

LEMMA DigitModulo ==
  \A a \in Int, n, i \in Nat :
    Digit(a % 2^n, i) = IF i < n THEN Digit(a, i) ELSE 0
<1> TAKE a \in Int, n, i \in Nat
<1> DEFINE q == a \div 2^n
           r == a % 2^n
<1>1. 2^n \in Nat /\ 2^n >= 1 /\ 2^i \in Nat /\ 2^i >= 1
  BY PowerPositive
<1>2. q \in Int /\ r \in 0 .. (2^n - 1) /\ a = q * 2^n + r
  BY <1>1, Division
<1> HIDE DEF q, r
<1>3. CASE i < n
  <2> DEFINE k == n - i - 1
  <2>1. k \in Nat /\ n = (k + 1) + i
    BY <1>3
  <2> HIDE DEF k
  <2>2. 2^n = 2^(k + 1) * 2^i /\ 2^(k + 1) = 2 * 2^k /\ 2^k \in Nat
    BY <2>1, PowerSum, PowerSuccessor, PowerPositive
  <2> DEFINE m == 2^k
             c == 2^i
  <2>3. m \in Nat /\ c \in Nat /\ c >= 1 /\ a = q * ((2 * m) * c) + r
    BY <1>1, <1>2, <2>2
  <2> HIDE DEF m, c
  <2> DEFINE j == q * m
             t == j * 2
             s == r \div c
  <2>4. a = t * c + r /\ j \in Int /\ t \in Int /\ r \in Int /\ s \in Int
    BY <1>2, <2>3, Division
  <2>5. a \div c = j * 2 + s
    <3> HIDE DEF j, t
    <3>1. (t * c + r) \div c = t + (r \div c)
      BY <2>3, <2>4, DivisionOfSum
    <3>2. a \div c = t + s
      BY <2>4, <3>1
    <3> QED
      BY <3>2 DEF t
  <2>6. (a \div c) % 2 = (r \div c) % 2
    <3> HIDE DEF j, s
    <3>1. (j * 2 + s) % 2 = s % 2
      BY <2>4, DivisionOfSum
    <3> QED
      BY <2>5, <3>1 DEF s
  <2> QED
    BY <1>3, <2>6 DEF Digit, c, r
<1>4. CASE ~(i < n)
  <2>1. r < 2^i /\ r \in Nat
    <3>1. 2^n <= 2^i
      BY <1>4, PowerMonotone
    <3> QED
      BY <1>1, <1>2, <3>1
  <2> QED
    BY <1>4, <2>1, DigitSmall DEF r
<1> QED
  BY <1>3, <1>4

\* The last digit, and the others.
LEMMA DigitHalf ==
  \A a \in Int :
    /\ Digit(a, 0) = a % 2 /\ a \div 2 \in Int /\ a = 2 * (a \div 2) + Digit(a, 0)
    /\ \A i \in Nat : Digit(a, i + 1) = Digit(a \div 2, i)
<1> TAKE a \in Int
<1>1. a \div 1 = a
  OBVIOUS
<1>2. Digit(a, 0) = a % 2
  BY <1>1, PowerZero DEF Digit
<1>3. a \div 2 \in Int /\ a = 2 * (a \div 2) + (a % 2)
  OBVIOUS
<1>4. ASSUME NEW i \in Nat
      PROVE  Digit(a, i + 1) = Digit(a \div 2, i)
  <2>1. 1 \in Nat /\ 1 + i = i + 1
    OBVIOUS
  <2>2. Digit(a \div 2^1, i) = Digit(a, 1 + i)
    BY <2>1, DigitShiftRight, Zenon
  <2> QED
    BY <2>1, <2>2, PowerZero
<1> QED
  BY <1>2, <1>3, <1>4

LEMMA DigitPower ==
  \A n, i \in Nat : Digit(2^n, i) = IF i = n THEN 1 ELSE 0
<1> TAKE n, i \in Nat
<1>1. 1 * 2^n = 2^n
  BY PowerPositive
<1>2. Digit(2^n, i) = IF n <= i THEN Digit(1, i - n) ELSE 0
  BY <1>1, DigitShiftLeft
<1>3. Digit(1, 0) = 1
  <2>1. 1 % 2 = 1
    OBVIOUS
  <2> QED
    BY <2>1, DigitHalf
<1>4. ASSUME NEW k \in Nat, k >= 1
      PROVE  Digit(1, k) = 0
  <2>1. 2^1 <= 2^k /\ 2^k \in Nat
    BY <1>4, PowerMonotone, PowerPositive
  <2> QED
    BY <2>1, PowerZero, DigitSmall
<1> QED
  BY <1>2, <1>3, <1>4

\* Numbers without a common one add without carries.
LEMMA DigitDisjointSum ==
  \A i \in Nat : \A a, b \in Int :
    (\A k \in Nat : Digit(a, k) + Digit(b, k) <= 1)
      => Digit(a + b, i) = Digit(a, i) + Digit(b, i)
<1> DEFINE Disjoint(a, b) == \A k \in Nat : Digit(a, k) + Digit(b, k) <= 1
           S == {i \in Nat : \A a, b \in Int :
                   Disjoint(a, b) => Digit(a + b, i) = Digit(a, i) + Digit(b, i)}
<1>1. ASSUME NEW a \in Int, NEW b \in Int, Disjoint(a, b)
      PROVE  /\ Digit(a + b, 0) = Digit(a, 0) + Digit(b, 0)
             /\ (a + b) \div 2 = (a \div 2) + (b \div 2)
             /\ Disjoint(a \div 2, b \div 2)
  <2> DEFINE p == a \div 2
             q == b \div 2
             r == Digit(a, 0)
             s == Digit(b, 0)
  <2>1. p \in Int /\ q \in Int /\ a = 2 * p + r /\ b = 2 * q + s
    BY DigitHalf
  <2>2. r \in {0, 1} /\ s \in {0, 1} /\ r + s <= 1
    BY <1>1, DigitType
  <2>3. Disjoint(p, q)
    <3> SUFFICES ASSUME NEW k \in Nat
                 PROVE  Digit(p, k) + Digit(q, k) <= 1
      OBVIOUS
    <3>1. Digit(p, k) = Digit(a, k + 1) /\ Digit(q, k) = Digit(b, k + 1)
      BY DigitHalf
    <3>2. k + 1 \in Nat
      OBVIOUS
    <3> QED
      BY <1>1, <3>1, <3>2
  <2> HIDE DEF p, q, r, s
  <2>4. a + b = (p + q) * 2 + (r + s) /\ p + q \in Int /\ r + s \in 0 .. 1
    BY <2>1, <2>2
  <2>5. (a + b) \div 2 = p + q /\ (a + b) % 2 = r + s
    <3> DEFINE c == a + b
               u == p + q
               v == r + s
    <3>1. c = u * 2 + v /\ c \in Int /\ u \in Int /\ v \in 0 .. 1
      BY <2>4
    <3> HIDE DEF c, u, v
    <3>2. c \div 2 = u /\ c % 2 = v
      BY <3>1
    <3> QED
      BY <3>2 DEF c, u, v
  <2>6. Digit(a + b, 0) = r + s
    BY <2>5, DigitHalf
  <2> QED
    BY <2>3, <2>5, <2>6 DEF p, q, r, s
<1>2. 0 \in S
  BY <1>1
<1>3. ASSUME NEW i \in S
      PROVE  i + 1 \in S
  <2> SUFFICES ASSUME NEW a \in Int, NEW b \in Int, Disjoint(a, b)
               PROVE  Digit(a + b, i + 1) = Digit(a, i + 1) + Digit(b, i + 1)
    OBVIOUS
  <2>1. /\ Digit(a, i + 1) = Digit(a \div 2, i) /\ Digit(b, i + 1) = Digit(b \div 2, i)
        /\ Digit(a + b, i + 1) = Digit((a + b) \div 2, i)
        /\ a \div 2 \in Int /\ b \div 2 \in Int
    <3>1. a + b \in Int /\ i \in Nat
      OBVIOUS
    <3> QED
      BY <3>1, DigitHalf, Zenon
  <2>2. (a + b) \div 2 = (a \div 2) + (b \div 2) /\ Disjoint(a \div 2, b \div 2)
    BY <1>1
  <2> HIDE DEF Disjoint
  <2> QED
    BY <2>1, <2>2
<1>4. \A i \in Nat : i \in S
  <2> HIDE DEF S
  <2>1. S \in SUBSET Nat
    BY DEF S
  <2> QED
    BY <1>2, <1>3, <2>1, Induction
<1> QED
  BY <1>4

\* A number below 2^n is known by its first n digits.
LEMMA DigitsDetermine ==
  \A n \in Nat : \A a, b \in 0 .. (2^n - 1) :
    (\A i \in 0 .. (n - 1) : Digit(a, i) = Digit(b, i)) => a = b
<1> DEFINE Same(a, b, n) == \A i \in 0 .. (n - 1) : Digit(a, i) = Digit(b, i)
           S == {n \in Nat : \A a, b \in 0 .. (2^n - 1) : Same(a, b, n) => a = b}
<1>1. 0 \in S
  BY PowerZero
<1>2. ASSUME NEW n \in S
      PROVE  n + 1 \in S
  <2> SUFFICES ASSUME NEW a \in 0 .. (2^(n + 1) - 1), NEW b \in 0 .. (2^(n + 1) - 1),
                      Same(a, b, n + 1)
               PROVE  a = b
    OBVIOUS
  <2>1. 2^(n + 1) = 2 * 2^n /\ 2^n \in Nat /\ a \in Int /\ b \in Int
    BY PowerSuccessor, PowerPositive
  <2>2. /\ a = 2 * (a \div 2) + Digit(a, 0) /\ a \div 2 \in Int
        /\ b = 2 * (b \div 2) + Digit(b, 0) /\ b \div 2 \in Int
        /\ Digit(a, 0) \in {0, 1} /\ Digit(b, 0) \in {0, 1}
    BY <2>1, DigitHalf, DigitType
  <2>3. a \div 2 \in 0 .. (2^n - 1) /\ b \div 2 \in 0 .. (2^n - 1)
    BY <2>1, <2>2
  <2>4. Digit(a, 0) = Digit(b, 0)
    OBVIOUS
  <2>5. Same(a \div 2, b \div 2, n)
    <3> SUFFICES ASSUME NEW i \in 0 .. (n - 1)
                 PROVE  Digit(a \div 2, i) = Digit(b \div 2, i)
      OBVIOUS
    <3>1. Digit(a, i + 1) = Digit(a \div 2, i) /\ Digit(b, i + 1) = Digit(b \div 2, i)
      <4>1. i \in Nat
        OBVIOUS
      <4> QED
        BY <2>1, <4>1, DigitHalf, Zenon
    <3>2. i + 1 \in 0 .. ((n + 1) - 1)
      OBVIOUS
    <3> QED
      BY <3>1, <3>2
  <2>6. a \div 2 = b \div 2
    BY <2>3, <2>5
  <2> QED
    BY <2>2, <2>4, <2>6
<1>3. \A n \in Nat : n \in S
  <2> HIDE DEF S
  <2>1. S \in SUBSET Nat
    BY DEF S
  <2> QED
    BY <1>1, <1>2, <2>1, Induction
<1> QED
  BY <1>3

\* One digit more of a number.
LEMMA ModuloDigit ==
  \A a \in Int, k \in Nat : a % 2^(k + 1) = (a % 2^k) + Digit(a, k) * 2^k
<1> TAKE a \in Int, k \in Nat
<1> DEFINE c == 2^k
           q == a \div c
           r == a % c
           h == q \div 2
           d == q % 2
<1>1. c \in Nat /\ c >= 1 /\ 2^(k + 1) = 2 * c
  BY PowerPositive, PowerSuccessor
<1> HIDE DEF c
<1>2. q \in Int /\ r \in 0 .. (c - 1) /\ a = q * c + r
  BY <1>1, Division
<1> HIDE DEF q, r
<1>3. h \in Int /\ d \in {0, 1} /\ q = 2 * h + d
  BY <1>2
<1>4. Digit(a, k) = d
  BY DEF Digit, q, c
<1> HIDE DEF h, d
<1> DEFINE e == 2 * c
           t == r + d * c
<1>5. e \in Nat /\ t \in Int /\ 0 <= t /\ t < e
  BY <1>1, <1>2, <1>3
<1>6. a = h * e + t
  <2>1. q * c = h * (2 * c) + d * c
    <3>1. (2 * h + d) * c = (2 * h) * c + d * c
      BY <1>1, <1>3
    <3>2. (2 * h) * c = h * (2 * c)
      BY <1>1, <1>3
    <3> QED
      BY <1>3, <3>1, <3>2
  <2>2. h * (2 * c) \in Int /\ d * c \in Int
    BY <1>1, <1>3
  <2> QED
    BY <1>2, <2>1, <2>2
<1> HIDE DEF e, t
<1>7. a % e = t
  BY <1>3, <1>5, <1>6, DivisionUnique
<1>8. a % 2^(k + 1) = r + d * c
  BY <1>1, <1>7 DEF e, t
<1> QED
  BY <1>4, <1>8 DEF r, c

LEMMA PowerExceeds == \A n \in Nat : n < 2^n
<1> DEFINE S == {n \in Nat : n < 2^n}
<1>1. 0 \in S
  BY PowerZero
<1>2. ASSUME NEW n \in S
      PROVE  n + 1 \in S
  BY PowerSuccessor, PowerPositive
<1>3. \A n \in Nat : n \in S
  <2> HIDE DEF S
  <2>1. S \in SUBSET Nat
    BY DEF S
  <2> QED
    BY <1>1, <1>2, <2>1, Induction
<1> QED
  BY <1>3

\* A number without digits from n on is below 2^n.
LEMMA DigitsBound ==
  ASSUME NEW a \in Nat, NEW n \in Nat,
         \A i \in Nat : n <= i => Digit(a, i) = 0
  PROVE  a < 2^n
<1> DEFINE b == a \div 2^n
<1>1. 2^n \in Nat /\ 2^n >= 1 /\ a \in Int
  BY PowerPositive
<1>2. b \in Int /\ a % 2^n \in 0 .. (2^n - 1) /\ a = b * 2^n + (a % 2^n)
  BY <1>1, Division, Zenon
<1>3. b \in Nat
  BY <1>1
<1>4. \A i \in Nat : Digit(b, i) = 0
  <2> TAKE i \in Nat
  <2>1. Digit(b, i) = Digit(a, n + i)
    <3>1. a \in Int
      OBVIOUS
    <3> QED
      BY <3>1, DigitShiftRight, Zenon
  <2> QED
    BY <2>1
<1> HIDE DEF b
<1>5. b = 0
  <2>1. b \in 0 .. (2^b - 1) /\ 0 \in 0 .. (2^b - 1)
    BY <1>3, PowerExceeds, PowerPositive
  <2>2. \A i \in 0 .. (b - 1) : Digit(b, i) = Digit(0, i)
    <3> TAKE i \in 0 .. (b - 1)
    <3>1. Digit(0, i) = 0
      BY PowerPositive, DigitSmall
    <3> QED
      BY <1>4, <3>1
  <2> QED
    BY <1>3, <2>1, <2>2, DigitsDetermine
<1> QED
  BY <1>1, <1>2, <1>5

\* Of two numbers, the one with a one at the last difference is greater.
LEMMA DigitsOrder ==
  ASSUME NEW a \in Nat, NEW b \in Nat, NEW i \in Nat,
         Digit(a, i) = 0, Digit(b, i) = 1,
         \A j \in Nat : i < j => Digit(a, j) = Digit(b, j)
  PROVE  a < b
<1> DEFINE c == 2^i
           p == a \div c
           q == b \div c
           A == p \div 2
           B == q \div 2
<1>1. c \in Nat /\ c >= 1 /\ a \in Int /\ b \in Int /\ i + 1 \in Nat
  BY PowerPositive
<1>2. /\ p \in Int /\ a % c \in 0 .. (c - 1) /\ a = p * c + (a % c)
      /\ q \in Int /\ b % c \in 0 .. (c - 1) /\ b = q * c + (b % c)
  <2> HIDE DEF c
  <2> QED
    BY <1>1, Division
<1>3. p \in Nat /\ q \in Nat
  <2> HIDE DEF c
  <2> QED
    BY <1>1
<1>4. p = 2 * A + 0 /\ q = 2 * B + 1 /\ A \in Nat /\ B \in Nat
  <2>1. p % 2 = 0 /\ q % 2 = 1
    BY DEF Digit
  <2> HIDE DEF p, q
  <2> QED
    BY <1>3, <2>1
<1>5. \A j \in Nat : Digit(A, j) = Digit(B, j)
  <2> TAKE j \in Nat
  <2>1. /\ Digit(p, j + 1) = Digit(A, j) /\ Digit(q, j + 1) = Digit(B, j)
        /\ Digit(p, j + 1) = Digit(a, i + (j + 1))
        /\ Digit(q, j + 1) = Digit(b, i + (j + 1))
    <3>1. j + 1 \in Nat
      OBVIOUS
    <3>2. Digit(p, j + 1) = Digit(A, j) /\ Digit(q, j + 1) = Digit(B, j)
      <4> HIDE DEF p, q
      <4> QED
        BY <1>2, DigitHalf
    <3>3. /\ Digit(p, j + 1) = Digit(a, i + (j + 1))
          /\ Digit(q, j + 1) = Digit(b, i + (j + 1))
      <4>1. a \in Int /\ b \in Int /\ i \in Nat /\ j + 1 \in Nat
        BY <1>1, <3>1
      <4> QED
        BY <4>1, DigitShiftRight
    <3> QED
      BY <3>2, <3>3
  <2>2. i + (j + 1) \in Nat /\ i < i + (j + 1)
    OBVIOUS
  <2> QED
    BY <2>1, <2>2
<1>6. A = B
  <2> HIDE DEF A, B
  <2>1. A + B \in Nat /\ A < 2^A /\ B < 2^B
    BY <1>4, PowerExceeds
  <2>2. 2^A <= 2^(A + B) /\ 2^B <= 2^(A + B)
    BY <1>4, <2>1, PowerMonotone
  <2>3. 2^A \in Nat /\ 2^B \in Nat /\ 2^(A + B) \in Nat
    BY <1>4, <2>1, PowerPositive
  <2>4. A \in 0 .. (2^(A + B) - 1) /\ B \in 0 .. (2^(A + B) - 1)
    BY <1>4, <2>1, <2>2, <2>3
  <2>5. \A j \in 0 .. ((A + B) - 1) : Digit(A, j) = Digit(B, j)
    BY <1>5, <2>1
  <2> QED
    BY <2>1, <2>4, <2>5, DigitsDetermine
<1>7. q = p + 1
  <2> HIDE DEF p, q, A, B
  <2> QED
    BY <1>4, <1>6
<1> HIDE DEF p, q, c
<1>8. (p + 1) * c = p * c + c /\ p * c \in Int
  BY <1>1, <1>2
<1> QED
  BY <1>1, <1>2, <1>7, <1>8

\* A set of numbers below a bound has a greatest one.
LEMMA GreatestExists ==
  \A n \in Nat : \A D \in SUBSET (0 .. (n - 1)) :
    D # {} => \E m \in D : \A p \in D : p <= m
<1> DEFINE Has(D) == D # {} => \E m \in D : \A p \in D : p <= m
           N == {n \in Nat : \A D \in SUBSET (0 .. (n - 1)) : Has(D)}
<1>1. 0 \in N
  <2>1. 0 .. (0 - 1) = {}
    OBVIOUS
  <2> QED
    BY <2>1
<1>2. ASSUME NEW n \in N
      PROVE  n + 1 \in N
  <2> SUFFICES ASSUME NEW D \in SUBSET (0 .. ((n + 1) - 1)) PROVE Has(D)
    OBVIOUS
  <2>1. CASE n \in D
    BY <2>1
  <2>2. CASE n \notin D
    <3>1. D \in SUBSET (0 .. (n - 1))
      BY <2>2
    <3> QED
      BY <3>1
  <2> QED
    BY <2>1, <2>2
<1>3. \A n \in Nat : n \in N
  <2> HIDE DEF N
  <2>1. N \in SUBSET Nat
    BY Zenon DEF N
  <2> QED
    BY <1>1, <1>2, <2>1, Induction
<1> QED
  BY <1>3

-----------------------------------------------------------------------------
(***************************************************************************)
(* Sums over a finite set: the function that the folds of the community    *)
(* modules choose exists, and the sum of numbers without a common one has  *)
(* the ones of all of them.                                                *)
(***************************************************************************)
Pick(T) == CHOOSE x \in T : TRUE

Sums(S, F, g) ==
  g = [T \in SUBSET S |-> IF T = {} THEN 0 ELSE F[Pick(T)] + g[T \ {Pick(T)}]]

LEMMA PickRemoves ==
  ASSUME NEW S, IsFiniteSet(S), NEW T \in SUBSET S, T # {}
  PROVE  /\ Pick(T) \in T /\ T \ {Pick(T)} \in SUBSET S
         /\ Cardinality(T) \in Nat
         /\ Cardinality(T \ {Pick(T)}) = Cardinality(T) - 1
<1>1. Pick(T) \in T
  BY DEF Pick
<1>2. IsFiniteSet(T)
  BY FS_Subset
<1> QED
  BY <1>1, <1>2, FS_RemoveElement, FS_CardinalityType

LEMMA SumsExist ==
  ASSUME NEW S, IsFiniteSet(S), NEW F
  PROVE  \E g : Sums(S, F, g)
<1> DEFINE Part(n, g) ==
             \A T \in SUBSET S : Cardinality(T) <= n =>
               g[T] = IF T = {} THEN 0 ELSE F[Pick(T)] + g[T \ {Pick(T)}]
           N == {n \in Nat : \E g : Part(n, g)}
<1>1. \A T \in SUBSET S : Cardinality(T) \in Nat /\ Cardinality(T) <= Cardinality(S)
  BY FS_Subset, FS_CardinalityType
<1>2. 0 \in N
  <2> DEFINE g == [T \in SUBSET S |-> 0]
  <2>1. \A T \in SUBSET S : Cardinality(T) <= 0 => T = {}
    BY FS_Subset, FS_EmptySet, <1>1
  <2>2. Part(0, g)
    BY <2>1
  <2> QED
    BY <2>2
<1>3. ASSUME NEW n \in N
      PROVE  n + 1 \in N
  <2>1. PICK g : Part(n, g)
    OBVIOUS
  <2> DEFINE f == [T \in SUBSET S |->
                     IF T = {} THEN 0
                     ELSE F[Pick(T)] + g[T \ {Pick(T)}]]
  <2>2. \A T \in SUBSET S : Cardinality(T) <= n => f[T] = g[T]
    BY <2>1
  <2>3. Part(n + 1, f)
    <3> SUFFICES ASSUME NEW T \in SUBSET S, Cardinality(T) <= n + 1, T # {}
                 PROVE  f[T] = F[Pick(T)] + f[T \ {Pick(T)}]
      OBVIOUS
    <3>1. T \ {Pick(T)} \in SUBSET S /\ Cardinality(T \ {Pick(T)}) <= n
      BY PickRemoves
    <3>2. f[T \ {Pick(T)}] = g[T \ {Pick(T)}]
      BY <2>2, <3>1
    <3>3. f[T] = F[Pick(T)] + g[T \ {Pick(T)}]
      OBVIOUS
    <3> QED
      BY <3>2, <3>3
  <2> HIDE DEF Part, f
  <2> QED
    BY <2>3
<1>4. Cardinality(S) \in N
  <2>1. \A n \in Nat : n \in N
    <3> HIDE DEF N
    <3>1. N \in SUBSET Nat
      BY DEF N
    <3> QED
      BY <1>2, <1>3, <3>1, Induction
  <2> HIDE DEF N
  <2> QED
    BY <1>1, <2>1, FS_CardinalityType
<1>5. PICK g : Part(Cardinality(S), g)
  BY <1>4
<1> DEFINE f == [T \in SUBSET S |-> g[T]]
<1>6. \A T \in SUBSET S :
        f[T] = IF T = {} THEN 0 ELSE F[Pick(T)] + f[T \ {Pick(T)}]
  <2> TAKE T \in SUBSET S
  <2>1. T \ {Pick(T)} \in SUBSET S
    OBVIOUS
  <2> QED
    BY <1>1, <1>5, <2>1
<1>7. f = [T \in SUBSET S |-> IF T = {} THEN 0 ELSE F[Pick(T)] + f[T \ {Pick(T)}]]
  <2>1. f = [T \in SUBSET S |-> f[T]]
    OBVIOUS
  <2> HIDE DEF f
  <2> QED
    BY <1>6, <2>1
<1> HIDE DEF f
<1> QED
  BY <1>7 DEF Sums

\* The function a sum is folded with.
LEMMA SumsUnfold ==
  ASSUME NEW S, IsFiniteSet(S), NEW F, NEW g, Sums(S, F, g)
  PROVE  /\ g[{}] = 0
         /\ \A T \in SUBSET S : T # {} => g[T] = F[Pick(T)] + g[T \ {Pick(T)}]
<1>1. \A T \in SUBSET S :
        g[T] = IF T = {} THEN 0 ELSE F[Pick(T)] + g[T \ {Pick(T)}]
  <2> DEFINE e == [T \in SUBSET S |-> IF T = {} THEN 0 ELSE F[Pick(T)] + g[T \ {Pick(T)}]]
  <2>1. g = e
    BY DEF Sums
  <2>2. \A T \in SUBSET S :
          e[T] = IF T = {} THEN 0 ELSE F[Pick(T)] + g[T \ {Pick(T)}]
    OBVIOUS
  <2> HIDE DEF e
  <2> QED
    BY <2>1, <2>2
<1> QED
  BY <1>1

Summand(F, T, i) == IF \E x \in T : Digit(F[x], i) = 1 THEN 1 ELSE 0

LEMMA DigitsOfSum ==
  ASSUME NEW S, IsFiniteSet(S), NEW F, NEW g, Sums(S, F, g),
         \A x \in S : F[x] \in Nat,
         \A x, y \in S : x # y => \A k \in Nat : Digit(F[x], k) + Digit(F[y], k) <= 1
  PROVE  g[S] \in Nat /\ \A i \in Nat : Digit(g[S], i) = Summand(F, S, i)
<1> DEFINE Right(T) == g[T] \in Nat /\ \A i \in Nat : Digit(g[T], i) = Summand(F, T, i)
           N == {n \in Nat : \A T \in SUBSET S : Cardinality(T) = n => Right(T)}
<1>1. \A T \in SUBSET S :
        IsFiniteSet(T) /\ Cardinality(T) \in Nat /\ (Cardinality(T) = 0 => T = {})
  BY FS_Subset, FS_CardinalityType, FS_EmptySet
<1>2. 0 \in N
  <2>1. \A i \in Nat : Digit(0, i) = 0
    BY PowerPositive, DigitSmall
  <2>2. Right({})
    BY <2>1, SumsUnfold DEF Summand
  <2> HIDE DEF Right
  <2> QED
    BY <1>1, <2>2
<1>3. ASSUME NEW n \in N
      PROVE  n + 1 \in N
  <2> SUFFICES ASSUME NEW T \in SUBSET S, Cardinality(T) = n + 1
               PROVE  Right(T)
    OBVIOUS
  <2> DEFINE x == Pick(T)
             U == T \ {x}
  <2> n \in Nat
    OBVIOUS
  <2>1. T # {}
    <3> HIDE DEF N
    <3> QED
      BY FS_EmptySet
  <2>2. x \in T /\ x \in S /\ U \in SUBSET S /\ Cardinality(U) = n
    <3> HIDE DEF N, Right
    <3> QED
      BY <2>1, PickRemoves
  <2>3. g[T] = F[x] + g[U]
    BY <2>1, SumsUnfold
  <2>4. Right(U)
    BY <2>2
  <2>5. T = U \cup {x} /\ x \notin U
    BY <2>2
  <2> HIDE DEF x, U
  <2>6. F[x] \in Nat /\ g[U] \in Nat
    BY <2>2, <2>4
  <2>7. \A k \in Nat : Digit(F[x], k) + Digit(g[U], k) <= 1
    <3> TAKE k \in Nat
    <3>1. Digit(F[x], k) \in {0, 1}
      BY <2>6, DigitType
    <3>2. CASE \E y \in U : Digit(F[y], k) = 1
      <4>1. PICK y \in U : Digit(F[y], k) = 1
        BY <3>2
      <4>2. Digit(F[x], k) + Digit(F[y], k) <= 1
        BY <2>2, <2>5, <4>1
      <4>3. Digit(g[U], k) = 1
        BY <2>4, <3>2 DEF Summand
      <4> QED
        BY <4>1, <4>2, <4>3
    <3>3. CASE ~ \E y \in U : Digit(F[y], k) = 1
      BY <2>4, <3>1, <3>3 DEF Summand
    <3> QED
      BY <3>2, <3>3
  <2>8. \A i \in Nat : Digit(g[T], i) = Summand(F, T, i)
    <3> TAKE i \in Nat
    <3>1. Digit(F[x] + g[U], i) = Digit(F[x], i) + Digit(g[U], i)
      <4>1. F[x] \in Int /\ g[U] \in Int
        BY <2>6
      <4> QED
        BY <4>1, <2>7, DigitDisjointSum
    <3>2. Digit(g[U], i) = Summand(F, U, i)
      BY <2>4
    <3>3. Digit(F[x], i) \in {0, 1}
      BY <2>6, DigitType
    <3>4. Digit(F[x], i) + Digit(g[U], i) <= 1
      BY <2>7
    <3>5. CASE Digit(F[x], i) = 1
      <4>1. Summand(F, U, i) = 0 /\ Summand(F, T, i) = 1
        BY <2>5, <3>2, <3>4, <3>5 DEF Summand
      <4> QED
        BY <2>3, <3>1, <3>2, <3>5, <4>1
    <3>6. CASE Digit(F[x], i) = 0
      <4>1. Summand(F, U, i) = Summand(F, T, i) /\ Summand(F, U, i) \in {0, 1}
        BY <2>5, <3>6 DEF Summand
      <4> QED
        BY <2>3, <3>1, <3>2, <3>6, <4>1
    <3> QED
      BY <3>3, <3>5, <3>6
  <2> QED
    BY <2>3, <2>6, <2>8
<1>4. \A n \in Nat : n \in N
  <2> HIDE DEF N
  <2>1. N \in SUBSET Nat
    BY DEF N
  <2> QED
    BY <1>2, <1>3, <2>1, Induction
<1> QED
  BY <1>1, <1>4

-----------------------------------------------------------------------------
(***************************************************************************)
(* A number of n digits read in two's complement repeats its last digit.   *)
(***************************************************************************)
LEMMA DigitsTwosComplement ==
  ASSUME NEW n \in Nat, n >= 1, NEW v \in Nat, v < 2^n, NEW u \in Int,
         u = IF v < 2^(n - 1) THEN v ELSE v - 2^n,
         NEW j \in Nat
  PROVE  Digit(u, j) = Digit(v, IF j < n THEN j ELSE n - 1)
<1> DEFINE h == 2^(n - 1)
<1>1. /\ n - 1 \in Nat /\ h \in Nat /\ h >= 1 /\ 2^n \in Nat /\ 2^n = 2 * h
      /\ 2^j \in Nat /\ v \in Int
  <2>1. n - 1 \in Nat /\ (n - 1) + 1 = n
    OBVIOUS
  <2>2. 2^((n - 1) + 1) = 2 * 2^(n - 1)
    BY <2>1, PowerSuccessor
  <2> QED
    BY <2>1, <2>2, PowerPositive
<1>2. CASE j < n
  <2> DEFINE k == IF v < h THEN 0 ELSE 0 - 1
  <2>1. k \in Int /\ u = k * 2^n + v /\ 0 <= v
    BY <1>1
  <2> HIDE DEF k
  <2>2. u % 2^n = v
    BY <1>1, <2>1, DivisionUnique
  <2>3. Digit(u % 2^n, j) = Digit(u, j)
    BY <1>2, DigitModulo
  <2> QED
    BY <1>2, <2>2, <2>3
<1>3. CASE n <= j
  <2>1. 2^n <= 2^j
    BY <1>3, PowerMonotone
  <2>2. CASE v < h
    <3>1. u = v /\ v < 2^j
      BY <1>1, <2>1, <2>2
    <3>2. Digit(v, j) = 0
      BY <3>1, DigitSmall
    <3>3. Digit(v, n - 1) = 0
      BY <1>1, <2>2, DigitSmall
    <3> QED
      BY <1>3, <3>1, <3>2, <3>3
  <2>3. CASE h <= v
    <3>1. u < 0 /\ -(2^j) <= u
      BY <1>1, <2>1, <2>3
    <3>2. Digit(u, j) = 1
      BY <3>1, DigitNegative
    <3>3. Digit(v, n - 1) = 1
      <4> DEFINE w == v - h
      <4>1. w \in Int /\ 0 <= w /\ w < h /\ v = 1 * h + w
        BY <1>1, <2>3
      <4> HIDE DEF w
      <4>2. (1 * h + w) \div h = 1
        BY <1>1, <4>1, DivisionUnique
      <4>3. v \div h = 1
        BY <4>1, <4>2
      <4> QED
        <5>1. Digit(v, n - 1) = (v \div h) % 2
          BY DEF Digit
        <5>2. 1 % 2 = 1
          OBVIOUS
        <5> QED
          BY <4>3, <5>1, <5>2, Zenon
    <3> QED
      BY <1>3, <3>2, <3>3
  <2> QED
    BY <1>1, <2>2, <2>3
<1> QED
  BY <1>2, <1>3
=============================================================================
