-------------------------- MODULE Operators_proofs --------------------------
(***************************************************************************)
(* Proofs about Operators, for every register width: what each operator of *)
(* include/operators.hpp yields is a word and, but for the deviations that *)
(* Operators names, the result of the RISC-V manual.                       *)
(***************************************************************************)
EXTENDS Operators, Binary_proofs

(***************************************************************************)
(* Words and signed numbers.                                               *)
(***************************************************************************)
LEMMA Widths ==
  /\ XLEN \in Nat /\ XLEN >= 4 /\ XLEN - 1 \in Nat
  /\ Modulus \in Nat /\ Modulus >= 16 /\ Modulus = 2^XLEN
  /\ MostNegative \in Nat /\ Modulus = 2 * MostNegative /\ MostNegative = 2^(XLEN - 1)
  /\ XLEN_MIN = 8 /\ MinusOne = Modulus - 1
<1>1. XLEN \in Nat /\ XLEN >= 4 /\ XLEN - 1 \in Nat
  BY XlenAssumption
<1>2. 2^((XLEN - 1) + 1) = 2 * 2^(XLEN - 1) /\ (XLEN - 1) + 1 = XLEN
  BY <1>1, PowerSuccessor
<1>3. 2^(XLEN - 1) \in Nat /\ Modulus = 2 * 2^(XLEN - 1)
  BY <1>1, <1>2, PowerPositive DEF Modulus
<1>4. MostNegative = 2^(XLEN - 1)
  BY <1>3 DEF MostNegative
<1>5. 2^4 <= 2^XLEN
  BY <1>1, PowerMonotone
<1>6. 2^4 = 16 /\ 2^3 = 8
  OBVIOUS
<1> QED
  BY <1>1, <1>3, <1>4, <1>5, <1>6 DEF XLEN_MIN, XLEN_BYTE, MinusOne, Modulus

LEMMA WordType ==
  /\ \A a \in Word : a \in Nat /\ a < Modulus
  /\ \A a \in Nat : a < Modulus => a \in Word
  /\ 0 \in Word /\ 1 \in Word /\ MinusOne \in Word /\ XLEN_MIN \in Word
  /\ MostNegative \in Word
BY Widths DEF Word

LEMMA WordInt == Modulus \in Int /\ \A a \in Word : a \in Int
BY Widths DEF Word

LEMMA WrapUnique ==
  ASSUME NEW n \in Int, NEW k \in Int, NEW a \in Word, n = k * Modulus + a
  PROVE  Wrap(n) = a
<1>1. Modulus \in Nat /\ a \in Int /\ 0 <= a /\ a < Modulus
  BY Widths, WordType
<1>2. (k * Modulus + a) % Modulus = a
  BY <1>1, DivisionUnique, Zenon
<1> QED
  BY <1>2, Zenon DEF Wrap

LEMMA WrapOf ==
  ASSUME NEW n \in Int
  PROVE  /\ Wrap(n) \in Word
         /\ n \div Modulus \in Int /\ n = (n \div Modulus) * Modulus + Wrap(n)
<1>1. Modulus \in Nat /\ Modulus >= 1
  BY Widths
<1> QED
  BY <1>1, Division, Zenon DEF Wrap, Word

LEMMA SignedOf ==
  ASSUME NEW a \in Word
  PROVE  /\ Signed(a) \in (-MostNegative) .. (MostNegative - 1)
         /\ Signed(a) = IF a < MostNegative THEN a ELSE a - Modulus
BY Widths, WordType DEF Signed

LEMMA SignedWrap ==
  ASSUME NEW n \in (-MostNegative) .. (MostNegative - 1)
  PROVE  Wrap(n) \in Word /\ Signed(Wrap(n)) = n
<1>1. CASE n >= 0
  <2>1. n \in Word /\ n = 0 * Modulus + n
    BY <1>1, Widths, WordType
  <2>2. Wrap(n) = n
    BY <2>1, WrapUnique
  <2> QED
    BY <2>1, <2>2, <1>1, SignedOf, Widths
<1>2. CASE n < 0
  <2> DEFINE k == 0 - 1
  <2>1. n + Modulus \in Word /\ n = k * Modulus + (n + Modulus) /\ k \in Int
    BY <1>2, Widths, WordType
  <2> HIDE DEF k
  <2>2. Wrap(n) = n + Modulus
    BY <2>1, WrapUnique
  <2> QED
    BY <2>1, <2>2, <1>2, SignedOf, Widths
<1> QED
  BY <1>1, <1>2, Widths

-----------------------------------------------------------------------------
(***************************************************************************)
(* The digits of words, and the number of a set of positions.              *)
(***************************************************************************)
Positions == 0 .. (XLEN - 1)

LEMMA BitDigit ==
  \A a \in Int, i \in Positions : Bit(a, i) <=> Digit(a, i) = 1
BY DEF Bit, Bits, Digit, Positions

LEMMA WordDigits ==
  ASSUME NEW a \in Word, NEW i \in Nat, XLEN <= i
  PROVE  Digit(a, i) = 0
<1>1. Modulus <= 2^i /\ 2^i \in Nat
  BY Widths, PowerMonotone, PowerPositive
<1> QED
  BY <1>1, Widths, WordType, DigitSmall

LEMMA BitsDetermine ==
  ASSUME NEW a \in Word, NEW b \in Word, Bits(a) = Bits(b)
  PROVE  a = b
<1>1. ASSUME NEW i \in Positions
      PROVE  Digit(a, i) = Digit(b, i)
  <2>1. Bit(a, i) <=> Bit(b, i)
    BY DEF Bit
  <2>2. a \in Int /\ b \in Int /\ i \in Nat
    BY WordType, Widths DEF Positions
  <2> QED
    BY <2>1, <2>2, BitDigit, DigitType
<1>2. a \in 0 .. (2^XLEN - 1) /\ b \in 0 .. (2^XLEN - 1) /\ XLEN \in Nat
  BY Widths, WordType
<1> QED
  BY <1>1, <1>2, DigitsDetermine DEF Positions

\* SumSet is a sum in the sense of Sums.
LEMMA SumSetSums ==
  ASSUME NEW S, IsFiniteSet(S)
  PROVE  \E g : Sums(S, [x \in S |-> x], g) /\ SumSet(S) = g[S]
<1> DEFINE Fold(g) == g = [s \in SUBSET S |->
                             IF s = {} THEN 0
                             ELSE LET x == CHOOSE y \in s : TRUE IN x + g[s \ {x}]]
           F == [x \in S |-> x]
<1>1. \A g : Sums(S, F, g) <=> Fold(g)
  <2> TAKE g
  <2>1. \A T \in SUBSET S : T # {} => F[Pick(T)] = Pick(T)
    BY DEF Pick
  <2> QED
    BY <2>1 DEF Sums, Pick
<1>2. \E g : Sums(S, F, g)
  <2> HIDE DEF F
  <2> QED
    BY SumsExist
<1>3. Fold(CHOOSE g : Fold(g))
  <2> HIDE DEF Fold, F
  <2> QED
    BY <1>1, <1>2
<1>4. SumSet(S) = (CHOOSE g : Fold(g))[S]
  BY DEF SumSet, FoldSet, MapThenFoldSet
<1> QED
  BY <1>1, <1>3, <1>4

\* The number with given ones.
LEMMA NumberOf ==
  ASSUME NEW S \in SUBSET Positions
  PROVE  /\ Number(S) \in Word
         /\ \A i \in Positions : Bit(Number(S), i) <=> i \in S
<1> DEFINE P == {2^i : i \in S}
           F == [x \in P |-> x]
<1>1. S \in SUBSET Nat
  BY Widths DEF Positions
<1>2. IsFiniteSet(P)
  <2>1. ASSUME NEW i \in S
        PROVE  2^i \in Nat /\ 2^i <= Modulus
    <3>1. i \in Nat /\ i <= XLEN
      BY Widths DEF Positions
    <3>2. 2^i <= 2^XLEN
      BY <3>1, Widths, PowerMonotone
    <3> QED
      BY <3>1, <3>2, Widths, PowerPositive
  <2>2. P \in SUBSET Nat /\ \A s \in P : s <= Modulus
    BY <2>1
  <2> HIDE DEF P
  <2> QED
    BY <2>2, Widths, FS_BoundedSetOfNaturals
<1>3. PICK g : Sums(P, F, g) /\ Number(S) = g[P]
  <2> HIDE DEF P
  <2>1. \E g : Sums(P, F, g) /\ SumSet(P) = g[P]
    BY <1>2, SumSetSums
  <2> QED
    BY <2>1 DEF Number, P
<1>4. \A x \in P : F[x] \in Nat
  BY <1>1, PowerPositive
<1>5. \A x, y \in P : x # y => \A k \in Nat : Digit(F[x], k) + Digit(F[y], k) <= 1
  <2> SUFFICES ASSUME NEW i \in S, NEW j \in S, 2^i # 2^j, NEW k \in Nat
               PROVE  Digit(2^i, k) + Digit(2^j, k) <= 1
    OBVIOUS
  <2>1. i \in Nat /\ j \in Nat /\ i # j
    BY <1>1
  <2> QED
    BY <2>1, DigitPower
<1>6. /\ g[P] \in Nat
      /\ \A k \in Nat : Digit(g[P], k) = Summand(F, P, k)
  <2> HIDE DEF P, F
  <2> QED
    BY <1>2, <1>3, <1>4, <1>5, DigitsOfSum
<1>7. \A k \in Nat : Summand(F, P, k) = IF k \in S THEN 1 ELSE 0
  <2> TAKE k \in Nat
  <2>1. (\E x \in P : Digit(F[x], k) = 1) <=> \E i \in S : Digit(2^i, k) = 1
    OBVIOUS
  <2>2. \A i \in S : Digit(2^i, k) = IF k = i THEN 1 ELSE 0
    BY <1>1, DigitPower
  <2> QED
    BY <2>1, <2>2 DEF Summand
<1>8. Number(S) < Modulus
  <2> HIDE DEF P, F
  <2>1. \A i \in Nat : XLEN <= i => Digit(Number(S), i) = 0
    BY <1>3, <1>6, <1>7, Widths DEF Positions
  <2> QED
    BY <1>3, <1>6, <2>1, DigitsBound, Widths
<1> HIDE DEF P, F
<1>9. Number(S) \in Word
  BY <1>3, <1>6, <1>8, WordType
<1>10. \A i \in Positions : Digit(Number(S), i) = IF i \in S THEN 1 ELSE 0
  BY <1>3, <1>6, <1>7, Widths DEF Positions
<1> QED
  BY <1>9, <1>10, BitDigit, WordType

-----------------------------------------------------------------------------
(***************************************************************************)
(* Sums, differences and comparisons.                                      *)
(***************************************************************************)
LEMMA AddAsManual ==
  ASSUME NEW a \in Word, NEW b \in Word
  PROVE  Wrap(a + b) \in Word /\ Wrap(Wrap(a + b) - a) = b
<1> DEFINE r == Wrap(a + b)
           k == (a + b) \div Modulus
<1>1. a \in Int /\ b \in Int /\ Modulus \in Nat /\ a + b \in Int
  BY WordType, Widths
<1>2. r \in Word /\ k \in Int /\ a + b = k * Modulus + r
  BY <1>1, WrapOf
<1> HIDE DEF r, k
<1>3. r - a = (-k) * Modulus + b /\ r - a \in Int /\ -k \in Int
  BY <1>1, <1>2, WordType
<1>4. Wrap(r - a) = b
  BY <1>3, WrapUnique
<1> QED
  BY <1>2, <1>4 DEF r

LEMMA SubAsManual ==
  ASSUME NEW a \in Word, NEW b \in Word
  PROVE  Wrap(a - b) \in Word /\ Wrap(Wrap(a - b) + b) = a
<1> DEFINE r == Wrap(a - b)
           k == (a - b) \div Modulus
<1>1. a \in Int /\ b \in Int /\ Modulus \in Nat /\ a - b \in Int
  BY WordType, Widths
<1>2. r \in Word /\ k \in Int /\ a - b = k * Modulus + r
  BY <1>1, WrapOf
<1> HIDE DEF r, k
<1>3. r + b = (-k) * Modulus + a /\ r + b \in Int /\ -k \in Int
  BY <1>1, <1>2, WordType
<1>4. Wrap(r + b) = a
  BY <1>3, WrapUnique
<1> QED
  BY <1>2, <1>4 DEF r

\* The sign bit tells the words that Signed reads as negative.
LEMMA SignOf ==
  ASSUME NEW a \in Word
  PROVE  Sign(a) <=> MostNegative <= a
<1>1. a \in Nat /\ MostNegative \in Nat /\ a < 2 * MostNegative
  BY Widths, WordType
<1>2. Sign(a) <=> (a \div MostNegative) % 2 = 1
  BY Widths DEF Sign, Bit, Bits
<1>3. CASE a < MostNegative
  <2>1. (0 * MostNegative + a) \div MostNegative = 0
    BY <1>1, <1>3, DivisionUnique
  <2> QED
    BY <2>1, <1>1, <1>2, <1>3
<1>4. CASE MostNegative <= a
  <2> DEFINE c == a - MostNegative
  <2>1. c \in Int /\ 0 <= c /\ c < MostNegative /\ a = 1 * MostNegative + c
    BY <1>1, <1>4
  <2> HIDE DEF c
  <2>2. (1 * MostNegative + c) \div MostNegative = 1
    BY <1>1, <2>1, DivisionUnique
  <2> QED
    BY <2>1, <2>2, <1>2, <1>4
<1> QED
  BY <1>1, <1>3, <1>4

LEMMA LessSignedIsOrder ==
  ASSUME NEW a \in Word, NEW b \in Word
  PROVE  LessSigned(a, b) <=> Signed(a) < Signed(b)
<1>1. a \in Nat /\ b \in Nat /\ Modulus \in Nat /\ MostNegative \in Nat
      /\ a < Modulus /\ b < Modulus /\ Modulus = 2 * MostNegative
  BY WordType, Widths
<1>2. (Sign(a) <=> MostNegative <= a) /\ (Sign(b) <=> MostNegative <= b)
  BY SignOf
<1>3. /\ Signed(a) = IF a < MostNegative THEN a ELSE a - Modulus
      /\ Signed(b) = IF b < MostNegative THEN b ELSE b - Modulus
  BY SignedOf
<1>4. (Sign(a) = Sign(b)) <=> (Sign(a) <=> Sign(b))
  BY DEF Sign, Bit
<1>5. CASE MostNegative <= a <=> MostNegative <= b
  BY <1>1, <1>2, <1>3, <1>4, <1>5 DEF LessSigned
<1>6. CASE ~(MostNegative <= a <=> MostNegative <= b)
  BY <1>1, <1>2, <1>3, <1>4, <1>6 DEF LessSigned
<1> QED
  BY <1>5, <1>6

-----------------------------------------------------------------------------
(***************************************************************************)
(* Shifts, by any amount up to XLEN.                                       *)
(***************************************************************************)
LEMMA WrapBit ==
  ASSUME NEW n \in Int, NEW i \in Positions
  PROVE  Bit(Wrap(n), i) <=> Digit(n, i) = 1
<1>1. i \in Nat /\ i < XLEN /\ XLEN \in Nat
  BY Widths DEF Positions
<1>2. Digit(n % 2^XLEN, i) = Digit(n, i)
  BY <1>1, DigitModulo
<1>3. Wrap(n) = n % 2^XLEN /\ Wrap(n) \in Int
  BY WrapOf, WordType DEF Wrap, Modulus
<1> QED
  BY <1>2, <1>3, BitDigit

LEMMA BitOutside == \A a, i : Bit(a, i) => i \in Positions
BY DEF Bit, Bits, Positions

LEMMA ShiftLeftBits ==
  ASSUME NEW a \in Word, NEW n \in Nat
  PROVE  /\ ShiftLeft(a, n) \in Word
         /\ \A i \in Positions : Bit(ShiftLeft(a, n), i) = (i >= n /\ Bit(a, i - n))
<1>1. a \in Int /\ 2^n \in Nat /\ a * 2^n \in Int
  BY WordType, PowerPositive
<1>2. ASSUME NEW i \in Positions
      PROVE  Bit(ShiftLeft(a, n), i) = (i >= n /\ Bit(a, i - n))
  <2>1. i \in Nat
    BY Widths DEF Positions
  <2>2. Digit(a * 2^n, i) = IF n <= i THEN Digit(a, i - n) ELSE 0
    BY <1>1, <2>1, DigitShiftLeft, Zenon
  <2>3. Bit(ShiftLeft(a, n), i) <=> Digit(a * 2^n, i) = 1
    BY <1>1, WrapBit DEF ShiftLeft
  <2>4. CASE n <= i
    <3>1. i - n \in Positions
      BY <2>4, Widths DEF Positions
    <3> QED
      BY <3>1, <2>1, <2>2, <2>3, <2>4, <1>1, BitDigit DEF Bit
  <2>5. CASE i < n
    BY <2>1, <2>2, <2>3, <2>5 DEF Bit
  <2> QED
    BY <2>1, <2>4, <2>5
<1> QED
  BY <1>1, <1>2, WrapOf DEF ShiftLeft

LEMMA QuotientSmaller ==
  ASSUME NEW a \in Nat, NEW d \in Nat, d >= 1
  PROVE  a \div d \in Nat /\ a \div d <= a
OBVIOUS

LEMMA ShiftRightBits ==
  ASSUME NEW a \in Word, NEW n \in Nat
  PROVE  /\ ShiftRight(a, n) \in Word
         /\ \A i \in Positions : Bit(ShiftRight(a, n), i) = Bit(a, i + n)
<1>1. a \in Nat /\ 2^n \in Nat /\ 2^n >= 1
  BY WordType, PowerPositive
<1>2. a \div 2^n \in Nat /\ a \div 2^n <= a
  BY <1>1, QuotientSmaller
<1>3. ShiftRight(a, n) \in Word
  <2> DEFINE r == a \div 2^n
  <2>1. r \in Nat /\ r < Modulus
    BY <1>1, <1>2, WordType, Widths
  <2> HIDE DEF r
  <2>2. r \in Word
    BY <2>1, WordType
  <2> QED
    BY <2>2 DEF ShiftRight, r
<1>4. ASSUME NEW i \in Positions
      PROVE  Bit(ShiftRight(a, n), i) = Bit(a, i + n)
  <2>1. i \in Nat /\ n + i = i + n /\ n + i \in Nat
    BY Widths DEF Positions
  <2>2. Digit(a \div 2^n, i) = Digit(a, n + i)
    BY <1>1, <2>1, DigitShiftRight
  <2>3. Bit(ShiftRight(a, n), i) <=> Digit(a, n + i) = 1
    BY <1>3, <2>2, BitDigit, WordType DEF ShiftRight
  <2>4. CASE n + i < XLEN
    <3>1. n + i \in Positions
      BY <2>1, <2>4, Widths DEF Positions
    <3> QED
      BY <3>1, <2>1, <2>3, <1>1, BitDigit DEF Bit
  <2>5. CASE XLEN <= n + i
    <3>1. Digit(a, n + i) = 0
      BY <2>1, <2>5, WordDigits
    <3>2. ~Bit(a, i + n)
      BY <2>1, <2>5, BitOutside, Widths DEF Positions
    <3> QED
      BY <3>1, <3>2, <2>3 DEF Bit
  <2> QED
    BY <2>1, <2>4, <2>5, Widths
<1> QED
  BY <1>3, <1>4

\* In two's complement a signed number repeats its sign bit without end.
LEMMA SignedDigits ==
  ASSUME NEW a \in Word, NEW j \in Nat
  PROVE  Digit(Signed(a), j) = 1 <=> Bit(a, IF j < XLEN THEN j ELSE XLEN - 1)
<1>1. /\ Signed(a) \in Int /\ a \in Nat /\ a < Modulus /\ Modulus \in Nat
      /\ XLEN \in Nat
  BY SignedOf, WordType, Widths
<1>2. Wrap(Signed(a)) = a
  <2> DEFINE k == IF a < MostNegative THEN 0 ELSE 0 - 1
  <2>1. k \in Int /\ Signed(a) = k * Modulus + a
    BY <1>1, SignedOf
  <2> HIDE DEF k
  <2> QED
    BY <1>1, <2>1, WrapUnique
<1>3. CASE j < XLEN
  <2>1. j \in Positions
    BY <1>3, Widths DEF Positions
  <2> QED
    BY <2>1, <1>1, <1>2, <1>3, WrapBit
<1>4. CASE XLEN <= j
  <2>1. Modulus <= 2^j /\ 2^j \in Nat
    BY <1>4, Widths, PowerMonotone, PowerPositive
  <2>2. CASE a < MostNegative
    <3>1. Digit(Signed(a), j) = 0
      BY <2>1, <2>2, <1>1, SignedOf, DigitSmall
    <3> QED
      BY <3>1, <2>2, <1>1, <1>4, SignOf, Widths DEF Sign
  <2>3. CASE MostNegative <= a
    <3>1. Signed(a) < 0 /\ -(2^j) <= Signed(a)
      BY <2>1, <2>3, <1>1, SignedOf, Widths
    <3>2. Digit(Signed(a), j) = 1
      BY <3>1, <1>1, DigitNegative
    <3> QED
      BY <3>2, <2>3, <1>1, <1>4, SignOf, Widths DEF Sign
  <2> QED
    BY <2>2, <2>3, <1>1, Widths
<1> QED
  BY <1>3, <1>4, <1>1

LEMMA ShiftRightSignedBits ==
  ASSUME NEW a \in Word, NEW n \in Nat
  PROVE  /\ ShiftRightSigned(a, n) \in Word
         /\ \A i \in Positions :
              Bit(ShiftRightSigned(a, n), i)
                = Bit(a, IF i + n < XLEN THEN i + n ELSE XLEN - 1)
<1>1. 2^n \in Nat /\ 2^n >= 1 /\ Signed(a) \in Int
  BY PowerPositive, SignedOf, Widths
<1>2. Signed(a) \div 2^n \in Int
  BY <1>1, Division
<1>3. ASSUME NEW i \in Positions
      PROVE  Bit(ShiftRightSigned(a, n), i)
               = Bit(a, IF i + n < XLEN THEN i + n ELSE XLEN - 1)
  <2>1. i \in Nat /\ n + i = i + n /\ n + i \in Nat
    BY Widths DEF Positions
  <2>2. Bit(ShiftRightSigned(a, n), i) <=> Digit(Signed(a) \div 2^n, i) = 1
    BY <1>2, WrapBit DEF ShiftRightSigned
  <2>3. Digit(Signed(a) \div 2^n, i) = Digit(Signed(a), n + i)
    BY <1>1, <2>1, DigitShiftRight, Zenon
  <2> QED
    BY <2>1, <2>2, <2>3, SignedDigits DEF Bit
<1> QED
  BY <1>2, <1>3, WrapOf DEF ShiftRightSigned

-----------------------------------------------------------------------------
(***************************************************************************)
(* Products.                                                               *)
(***************************************************************************)
\* The number that Signed takes off a word.
LEMMA SignedOffset ==
  ASSUME NEW a \in Word
  PROVE  \E e \in {0, 1} : a = Signed(a) + e * Modulus
<1>1. a \in Int /\ Signed(a) \in Int /\ Modulus \in Int /\ MostNegative \in Int
  BY SignedOf, WordType, Widths
<1>2. CASE a < MostNegative
  <2>1. a = Signed(a) + 0 * Modulus
    BY <1>1, <1>2, SignedOf
  <2> QED
    BY <2>1
<1>3. CASE ~(a < MostNegative)
  <2>1. a = Signed(a) + 1 * Modulus
    BY <1>1, <1>3, SignedOf
  <2> QED
    BY <2>1
<1> QED
  BY <1>2, <1>3

LEMMA ProductOfOffsets ==
  ASSUME NEW s \in Int, NEW t \in Int, NEW e \in {0, 1}, NEW f \in {0, 1},
         NEW m \in Int, NEW k \in Int, NEW r \in Int, s * t = k * m + r
  PROVE  (s + e * m) * (t + f * m) - r = (k + f * s + e * (t + f * m)) * m
<1>1. CASE e = 0 /\ f = 0
  BY <1>1
<1>2. CASE e = 1 /\ f = 0
  BY <1>2
<1>3. CASE e = 0 /\ f = 1
  BY <1>3
<1>4. CASE e = 1 /\ f = 1
  <2>1. (s + m) * (t + m) = s * t + s * m + m * t + m * m
    OBVIOUS
  <2>2. (k + s + (t + m)) * m = k * m + s * m + m * t + m * m
    OBVIOUS
  <2> QED
    BY <1>4, <2>1, <2>2
<1> QED
  BY <1>1, <1>2, <1>3, <1>4

LEMMA MulAsManual ==
  ASSUME NEW a \in Word, NEW b \in Word
  PROVE  /\ Wrap(Signed(a) * Signed(b)) \in Word
         /\ (a * b - Wrap(Signed(a) * Signed(b))) % Modulus = 0
<1> DEFINE s == Signed(a)
           t == Signed(b)
           r == Wrap(s * t)
           k == (s * t) \div Modulus
<1>1. /\ s \in Int /\ t \in Int /\ Modulus \in Nat /\ Modulus >= 1
      /\ a \in Int /\ b \in Int
  BY SignedOf, WordType, Widths
<1>2. s * t \in Int
  BY <1>1
<1>3. r \in Word /\ k \in Int /\ s * t = k * Modulus + r
  BY <1>2, WrapOf
<1>4. PICK e \in {0, 1} : a = s + e * Modulus
  BY SignedOffset
<1>5. PICK f \in {0, 1} : b = t + f * Modulus
  BY SignedOffset
<1> HIDE DEF s, t, r, k
<1> DEFINE q == k + f * s + e * b
<1>6. q \in Int
  BY <1>1, <1>3
<1>7. a * b - r = q * Modulus + 0
  BY <1>1, <1>3, <1>4, <1>5, WordType, ProductOfOffsets
<1> HIDE DEF q
<1>8. (a * b - r) % Modulus = 0
  <2>1. 0 \in Int /\ 0 <= 0 /\ 0 < Modulus
    BY <1>1
  <2>2. (q * Modulus + 0) % Modulus = 0
    BY <2>1, <1>1, <1>6, DivisionUnique, Zenon
  <2> QED
    BY <2>2, <1>7
<1> QED
  BY <1>3, <1>8 DEF r, s, t

\* The upper half of a product that fits twice the width.
LEMMA HighOf ==
  ASSUME NEW p \in Int, p \div Modulus \in (-MostNegative) .. (MostNegative - 1)
  PROVE  High(p) \in Word /\ p - Modulus * Signed(High(p)) \in Word
<1> DEFINE q == p \div Modulus
<1>1. q \in Int /\ p = q * Modulus + Wrap(p) /\ Wrap(p) \in Word
  BY WrapOf
<1>2. High(p) \in Word /\ Signed(High(p)) = q
  BY SignedWrap DEF High
<1> HIDE DEF q
<1>3. p - Modulus * q = Wrap(p)
  <2> DEFINE w == Wrap(p)
  <2>1. Modulus \in Int /\ w \in Int
    BY <1>1, WordInt, Zenon
  <2> HIDE DEF w
  <2>2. Modulus * q = q * Modulus
    BY <2>1, <1>1
  <2>3. p - Modulus * q = w
    BY <2>1, <2>2, <1>1 DEF w
  <2> QED
    BY <2>3 DEF w
<1> QED
  BY <1>1, <1>2, <1>3

LEMMA QuotientBounds ==
  ASSUME NEW p \in Int, NEW d \in Nat, d >= 1, NEW lo \in Int, NEW hi \in Int,
         lo * d <= p, p < hi * d
  PROVE  p \div d \in lo .. (hi - 1)
<1> DEFINE q == p \div d
           r == p % d
<1>1. q \in Int /\ r \in 0 .. (d - 1) /\ p = q * d + r
  BY Division
<1> HIDE DEF q, r
<1>2. lo <= q
  <2> SUFFICES ASSUME q <= lo - 1 PROVE FALSE
    BY <1>1
  <2>1. q * d <= (lo - 1) * d
    BY <1>1
  <2> QED
    BY <2>1, <1>1
<1>3. q <= hi - 1
  <2> SUFFICES ASSUME hi <= q PROVE FALSE
    BY <1>1
  <2>1. hi * d <= q * d
    BY <1>1
  <2> QED
    BY <2>1, <1>1
<1> QED
  BY <1>1, <1>2, <1>3 DEF q

LEMMA ProductBounds ==
  ASSUME NEW m \in Nat, NEW s \in (-m) .. m, NEW t \in Nat, NEW u \in Nat, t <= u
  PROVE  -(m * u) <= s * t /\ s * t <= m * u
<1>1. m * t <= m * u
  OBVIOUS
<1>2. s * t <= m * t
  OBVIOUS
<1>3. -(m * t) <= s * t
  <2>1. (-m) * t <= s * t
    OBVIOUS
  <2> QED
    BY <2>1
<1> QED
  BY <1>1, <1>2, <1>3

LEMMA MulhAsManual ==
  ASSUME NEW a \in Word, NEW b \in Word
  PROVE  LET r == High(Signed(a) * Signed(b))
         IN r \in Word /\ Signed(a) * Signed(b) - Modulus * Signed(r) \in Word
<1> DEFINE s == Signed(a)
           t == Signed(b)
           m == MostNegative
<1>1. /\ s \in (-m) .. (m - 1) /\ t \in (-m) .. (m - 1)
      /\ m \in Nat /\ m >= 8 /\ Modulus = 2 * m
  BY SignedOf, Widths
<1> HIDE DEF s, t, m
<1>2. -(m * m) <= s * t /\ s * t <= m * m
  <2>1. CASE t >= 0
    BY <2>1, <1>1, ProductBounds
  <2>2. CASE t < 0
    <3>1. -t \in Nat /\ -t <= m /\ s \in (-m) .. m
      BY <2>2, <1>1
    <3>2. -(m * m) <= s * (-t) /\ s * (-t) <= m * m
      BY <3>1, <1>1, ProductBounds
    <3> QED
      BY <3>2, <1>1
  <2> QED
    BY <2>1, <2>2, <1>1
<1>3. /\ s * t \in Int /\ Modulus \in Nat /\ Modulus >= 1 /\ -m \in Int
      /\ (-m) * Modulus <= s * t /\ s * t < m * Modulus
  <2>1. m * Modulus = m * m + m * m /\ m * m > 0 /\ (-m) * Modulus = -(m * Modulus)
    BY <1>1
  <2> QED
    BY <2>1, <1>1, <1>2
<1>4. (s * t) \div Modulus \in (-m) .. (m - 1)
  BY <1>1, <1>3, QuotientBounds
<1> QED
  BY <1>3, <1>4, HighOf DEF s, t, m

LEMMA MulhsuAsManual ==
  ASSUME NEW a \in Word, NEW b \in Word
  PROVE  LET r == High(Signed(a) * b)
         IN r \in Word /\ Signed(a) * b - Modulus * Signed(r) \in Word
<1> DEFINE s == Signed(a)
           m == MostNegative
<1>1. /\ s \in (-m) .. (m - 1) /\ b \in Nat /\ b < Modulus
      /\ m \in Nat /\ m >= 8 /\ Modulus \in Nat /\ Modulus >= 1
  BY SignedOf, Widths, WordType
<1> HIDE DEF s, m
<1>2. -(m * b) <= s * b /\ s * b <= (m - 1) * b
  <2>1. -(m * b) <= s * b
    <3>1. (-m) * b <= s * b
      BY <1>1
    <3> QED
      BY <3>1, <1>1
  <2> QED
    BY <2>1, <1>1
<1>3. /\ s * b \in Int /\ -m \in Int
      /\ (-m) * Modulus <= s * b /\ s * b < m * Modulus
  <2>1. m * b <= m * Modulus /\ (m - 1) * b <= (m - 1) * Modulus
    BY <1>1
  <2>2. (m - 1) * Modulus < m * Modulus /\ (-m) * Modulus = -(m * Modulus)
    BY <1>1
  <2> QED
    BY <2>1, <2>2, <1>1, <1>2
<1>4. (s * b) \div Modulus \in (-m) .. (m - 1)
  <2>1. m \in Int
    BY <1>1
  <2> QED
    BY <2>1, <1>1, <1>3, QuotientBounds, Zenon
<1> QED
  BY <1>3, <1>4, HighOf DEF s, m

LEMMA MulhuAsManual ==
  ASSUME NEW a \in Word, NEW b \in Word
  PROVE  High(a * b) \in Word /\ a * b - Modulus * High(a * b) \in Word
<1> DEFINE p == a * b
           q == p \div Modulus
<1>1. /\ a \in Nat /\ b \in Nat /\ a < Modulus /\ b < Modulus
      /\ Modulus \in Nat /\ Modulus >= 1
  BY Widths, WordType
<1>2. p \in Int /\ 0 * Modulus <= p /\ p < Modulus * Modulus
  <2>1. a * b <= (Modulus - 1) * b /\ (Modulus - 1) * b <= (Modulus - 1) * Modulus
    BY <1>1
  <2>2. (Modulus - 1) * Modulus < Modulus * Modulus
    BY <1>1
  <2> QED
    BY <2>1, <2>2, <1>1
<1> HIDE DEF p
<1>3. q \in 0 .. (Modulus - 1)
  <2>1. 0 \in Int /\ Modulus \in Int
    BY <1>1
  <2> QED
    BY <2>1, <1>1, <1>2, QuotientBounds, Zenon
<1>4. q \in Int /\ p = q * Modulus + Wrap(p) /\ Wrap(p) \in Word
  BY <1>2, WrapOf
<1> HIDE DEF q
<1>5. q \in Word /\ q = 0 * Modulus + q /\ 0 \in Int
  BY <1>1, <1>3 DEF Word
<1>6. Wrap(q) = q
  BY <1>4, <1>5, WrapUnique
<1>7. p - Modulus * q = Wrap(p)
  <2> DEFINE w == Wrap(p)
  <2>1. Modulus \in Int /\ w \in Int
    BY <1>1, <1>4, WordInt, Zenon
  <2> HIDE DEF w
  <2>2. Modulus * q = q * Modulus
    BY <2>1, <1>1, <1>4
  <2>3. p - Modulus * q = w
    BY <2>1, <2>2, <1>1, <1>4 DEF w
  <2> QED
    BY <2>3 DEF w
<1> QED
  BY <1>4, <1>5, <1>6, <1>7 DEF High, p, q

-----------------------------------------------------------------------------
(***************************************************************************)
(* Quotients and remainders.                                               *)
(***************************************************************************)
LEMMA MagnitudeOf ==
  ASSUME NEW n \in Int
  PROVE  Magnitude(n) \in Nat /\ (n >= 0 => Magnitude(n) = n)
                              /\ (n < 0 => Magnitude(n) = -n)
BY DEF Magnitude

LEMMA QuotientDivides ==
  ASSUME NEW n \in Int, NEW d \in Int, d # 0
  PROVE  /\ Quotient(n, d) \in Int
         /\ Divides(n, d, Quotient(n, d), n - d * Quotient(n, d))
         /\ Magnitude(Quotient(n, d)) <= Magnitude(n)
         /\ n < 0 /\ d < -1 => 2 * Quotient(n, d) <= -n
<1> DEFINE m == Magnitude(n)
           c == Magnitude(d)
           q == m \div c
           r == m % c
           Q == Quotient(n, d)
<1>1. m \in Nat /\ c \in Nat /\ c >= 1
  BY MagnitudeOf
<1>2. q \in Nat /\ q <= m /\ r \in 0 .. (c - 1) /\ m = q * c + r
  <2>1. m \in Int
    BY <1>1
  <2> HIDE DEF m, c
  <2>2. q \in Nat /\ q <= m
    BY <1>1, QuotientSmaller, Zenon
  <2>3. r \in 0 .. (c - 1) /\ m = q * c + r
    BY <2>1, <1>1, Division, Zenon
  <2> QED
    BY <2>2, <2>3
<1>3. Q = IF (n < 0) = (d < 0) THEN q ELSE -q
  BY DEF Quotient
<1> HIDE DEF q, r, Q, m, c
<1>4. Q \in Int /\ n - d * Q = IF n < 0 THEN -r ELSE r
  <2>1. CASE n >= 0 /\ d >= 0
    <3>1. Q = q /\ m = n /\ c = d
      BY <2>1, <1>3, MagnitudeOf DEF m, c
    <3> QED
      BY <2>1, <3>1, <1>2
  <2>2. CASE n >= 0 /\ d < 0
    <3>1. Q = -q /\ m = n /\ c = -d
      BY <2>2, <1>3, MagnitudeOf DEF m, c
    <3> QED
      BY <2>2, <3>1, <1>2
  <2>3. CASE n < 0 /\ d >= 0
    <3>1. Q = -q /\ m = -n /\ c = d
      BY <2>3, <1>3, MagnitudeOf DEF m, c
    <3> QED
      BY <2>3, <3>1, <1>2
  <2>4. CASE n < 0 /\ d < 0
    <3>1. Q = q /\ m = -n /\ c = -d
      BY <2>4, <1>3, MagnitudeOf DEF m, c
    <3> QED
      BY <2>4, <3>1, <1>2
  <2> QED
    BY <2>1, <2>2, <2>3, <2>4
<1>5. Divides(n, d, Q, n - d * Q)
  <2> DEFINE e == n - d * Q
  <2>1. e = (IF n < 0 THEN -r ELSE r) /\ n = d * Q + e /\ e \in Int
    BY <1>2, <1>4
  <2> HIDE DEF e
  <2>2. Magnitude(e) < c /\ (e # 0 => (e < 0) = (n < 0))
    BY <2>1, <1>1, <1>2, MagnitudeOf
  <2> QED
    BY <2>1, <2>2 DEF Divides, c, e
<1>6. Magnitude(Q) <= m
  BY <1>1, <1>2, <1>3, MagnitudeOf
<1>7. ASSUME n < 0, d < -1
      PROVE  2 * Q <= -n
  <2>1. Q = q /\ m = -n /\ c = -d /\ c >= 2
    BY <1>7, <1>3, MagnitudeOf DEF m, c
  <2>2. 2 * q <= q * c
    BY <2>1, <1>1, <1>2
  <2> QED
    BY <2>1, <2>2, <1>1, <1>2
<1> QED
  BY <1>4, <1>5, <1>6, <1>7 DEF Q, m

\* Signed reads minus one, and zero, from one word each.
LEMMA SignedSpecial ==
  ASSUME NEW a \in Word
  PROVE  /\ Signed(MinusOne) = 0 - 1
         /\ Signed(a) = 0 => a = 0
         /\ Signed(a) = 0 - 1 => a = MinusOne
         /\ Signed(a) = 0 - MostNegative => a = MostNegative
<1>1. a \in Nat /\ a < Modulus /\ MinusOne \in Word
  BY WordType
<1> QED
  BY <1>1, SignedOf, Widths

\* The one quotient that does not fit aside, quotients fit.
LEMMA QuotientFits ==
  ASSUME NEW a \in Word, NEW b \in Word, b # 0,
         ~(a = MostNegative /\ b = MinusOne)
  PROVE  Quotient(Signed(a), Signed(b)) \in (-MostNegative) .. (MostNegative - 1)
<1> DEFINE s == Signed(a)
           t == Signed(b)
           m == MostNegative
           q == Quotient(s, t)
<1>1. /\ s \in (-m) .. (m - 1) /\ t \in (-m) .. (m - 1) /\ m \in Nat /\ m >= 8
      /\ t # 0 /\ (t = 0 - 1 => s # 0 - m)
  BY SignedOf, SignedSpecial, Widths
<1>2. /\ q \in Int /\ Magnitude(q) <= Magnitude(s)
      /\ (s < 0 /\ t < -1 => 2 * q <= -s)
      /\ Divides(s, t, q, s - t * q)
  <2>1. s \in Int /\ t \in Int
    BY <1>1
  <2> QED
    BY <2>1, <1>1, QuotientDivides, Zenon
<1> HIDE DEF q, s, t, m
<1>3. -m <= q /\ q <= m
  BY <1>1, <1>2, MagnitudeOf
<1>4. q # m
  <2> SUFFICES ASSUME q = m PROVE FALSE
    OBVIOUS
  <2>1. s = 0 - m
    BY <1>1, <1>2, MagnitudeOf
  <2>2. CASE t = 0 - 1
    BY <2>1, <2>2, <1>1
  <2>3. CASE t < -1
    BY <2>1, <2>3, <1>1, <1>2
  <2>4. CASE t > 0
    <3> DEFINE e == s - t * q
    <3>1. e \in Int /\ Magnitude(e) < Magnitude(t)
      BY <1>1, <1>2 DEF Divides
    <3>2. t * q >= q
      BY <2>4, <1>1
    <3>3. e <= 0 - t * q - m
      BY <2>1, <1>1, <1>2
    <3>4. e < 0 /\ Magnitude(t) = t /\ Magnitude(e) = -e /\ t < m
      BY <3>1, <3>2, <3>3, <2>4, <1>1, MagnitudeOf
    <3> QED
      BY <3>1, <3>2, <3>3, <3>4, <1>1
  <2> QED
    BY <2>2, <2>3, <2>4, <1>1
<1> QED
  BY <1>1, <1>2, <1>3, <1>4 DEF q, s, t, m

\* AsManual for the signed divisions.
LEMMA AsManualDivision ==
  ASSUME NEW a \in Word, NEW b \in Word, NEW r \in Word
  PROVE  /\ b = 0 /\ r = MinusOne => AsManual("DIV", a, b, r)
         /\ b = 0 /\ r = a => AsManual("REM", a, b, r)
         /\ a = MostNegative /\ b = MinusOne =>
              /\ r = a => AsManual("DIV", a, b, r)
              /\ r = 0 => AsManual("REM", a, b, r)
         /\ b # 0 /\ ~(a = MostNegative /\ b = MinusOne) =>
              /\ Divides(Signed(a), Signed(b), Signed(r),
                         Signed(a) - Signed(b) * Signed(r))
                   => AsManual("DIV", a, b, r)
              /\ (\E q \in (-Modulus) .. Modulus :
                    Divides(Signed(a), Signed(b), q, Signed(r)))
                   => AsManual("REM", a, b, r)
<1>1. MinusOne # 0 /\ Signed(MinusOne) = -1
  BY SignedSpecial, Widths
<1>2. b = 0 /\ r = MinusOne => AsManual("DIV", a, b, r)
  BY <1>1 DEF AsManual
<1>3. ASSUME b = 0, r = a
      PROVE  AsManual("REM", a, b, r)
  BY <1>1, <1>3 DEF AsManual
<1>4. a = MostNegative /\ b = MinusOne =>
        /\ r = a => AsManual("DIV", a, b, r)
        /\ r = 0 => AsManual("REM", a, b, r)
  BY <1>1 DEF AsManual
<1>5. b # 0 /\ ~(a = MostNegative /\ b = MinusOne) =>
        /\ Divides(Signed(a), Signed(b), Signed(r),
                   Signed(a) - Signed(b) * Signed(r))
             => AsManual("DIV", a, b, r)
        /\ (\E q \in (-Modulus) .. Modulus :
              Divides(Signed(a), Signed(b), q, Signed(r)))
             => AsManual("REM", a, b, r)
  <2>1. SUFFICES ASSUME b # 0, ~(a = MostNegative /\ b = MinusOne)
        PROVE  /\ Divides(Signed(a), Signed(b), Signed(r),
                          Signed(a) - Signed(b) * Signed(r))
                    => AsManual("DIV", a, b, r)
               /\ (\E q \in (-Modulus) .. Modulus :
                     Divides(Signed(a), Signed(b), q, Signed(r)))
                    => AsManual("REM", a, b, r)
    OBVIOUS
  <2>2. Divides(Signed(a), Signed(b), Signed(r),
                Signed(a) - Signed(b) * Signed(r)) => AsManual("DIV", a, b, r)
    BY <2>1 DEF AsManual
  <2>3. (\E q \in (-Modulus) .. Modulus :
           Divides(Signed(a), Signed(b), q, Signed(r))) => AsManual("REM", a, b, r)
    BY <2>1 DEF AsManual
  <2> QED
    BY <2>2, <2>3
<1> QED
  BY <1>2, <1>3, <1>4, <1>5

LEMMA DivAsManual ==
  ASSUME NEW a \in Word, NEW b \in Word
  PROVE  /\ Div(a, b) \in Word
         /\ Deviates("DIV", a, b) \/ AsManual("DIV", a, b, Div(a, b))
<1> DEFINE s == Signed(a)
           t == Signed(b)
           q == Quotient(s, t)
<1>1. s \in Int /\ t \in Int /\ MostNegative \in Nat /\ MostNegative >= 8
  BY SignedOf, Widths
<1>2. CASE b = 0
  <2>1. Div(a, b) = MinusOne
    BY <1>2 DEF Div
  <2> QED
    BY <2>1, <1>2, SignedSpecial, WordType, AsManualDivision
<1>3. CASE b # 0 /\ a = XLEN_MIN /\ b = MinusOne
  <2>1. Div(a, b) = a
    BY <1>3 DEF Div
  <2>2. a = MostNegative => AsManual("DIV", a, b, a)
    BY <1>3, AsManualDivision
  <2> QED
    BY <2>1, <2>2, <1>3 DEF Deviates
<1>4. CASE b # 0 /\ ~(a = XLEN_MIN /\ b = MinusOne)
  <2>1. Div(a, b) = Wrap(q)
    BY <1>4 DEF Div
  <2>2. t # 0
    BY <1>4, SignedSpecial
  <2>3. q \in Int /\ Divides(s, t, q, s - t * q)
    BY <1>1, <2>2, QuotientDivides
  <2>4. CASE a = MostNegative /\ b = MinusOne
    <3>1. s = 0 - MostNegative /\ t = 0 - 1
      BY <2>4, SignedOf, SignedSpecial, Widths
    <3>2. q = MostNegative \div 1
      BY <3>1, <1>1 DEF Quotient, Magnitude
    <3>3. q = MostNegative
      BY <3>2, <1>1
    <3>4. MostNegative = 0 * Modulus + MostNegative /\ MostNegative \in Word
      BY Widths, WordType
    <3>5. Wrap(MostNegative) = MostNegative
      BY <3>4, <1>1, WrapUnique
    <3> HIDE DEF q, s, t
    <3> QED
      BY <2>1, <2>4, <1>4, <3>3, <3>4, <3>5, AsManualDivision
  <2>5. CASE ~(a = MostNegative /\ b = MinusOne)
    <3>1. q \in (-MostNegative) .. (MostNegative - 1)
      BY <1>4, <2>5, QuotientFits
    <3>2. Wrap(q) \in Word /\ Signed(Wrap(q)) = q
      BY <3>1, SignedWrap
    <3> HIDE DEF q
    <3>3. Divides(s, t, Signed(Div(a, b)), s - t * Signed(Div(a, b)))
      BY <2>1, <2>3, <3>2
    <3> QED
      BY <2>1, <2>5, <1>4, <3>2, <3>3, AsManualDivision
  <2> QED
    BY <2>4, <2>5
<1> QED
  BY <1>2, <1>3, <1>4

LEMMA RemAsManual ==
  ASSUME NEW a \in Word, NEW b \in Word
  PROVE  /\ Rem(a, b) \in Word
         /\ AsManual("REM", a, b, Rem(a, b))
<1> DEFINE s == Signed(a)
           t == Signed(b)
           m == MostNegative
           q == Quotient(s, t)
           e == s - t * q
<1>1. /\ s \in (-m) .. (m - 1) /\ t \in (-m) .. (m - 1)
      /\ m \in Nat /\ m >= 8 /\ Modulus = 2 * m
  BY SignedOf, Widths
<1>2. CASE b = 0
  <2>1. Rem(a, b) = a
    BY <1>2 DEF Rem
  <2> QED
    BY <2>1, <1>2, AsManualDivision
<1>3. ~(a = XLEN_MIN /\ b = MinusOne) /\ b # 0 => Rem(a, b) = Wrap(e)
  BY DEF Rem, Remainder
<1>4. CASE b # 0
  <2>1. t # 0 /\ (b = MinusOne => t = 0 - 1)
    BY <1>4, SignedSpecial
  <2>2. q \in Int /\ Divides(s, t, q, e) /\ Magnitude(q) <= Magnitude(s)
    <3>1. s \in Int /\ t \in Int
      BY <1>1
    <3> QED
      BY <3>1, <2>1, QuotientDivides, Zenon
  <2>3. e \in Int
    BY <1>1, <2>2
  <2> HIDE DEF e, q, s, t, m
  <2>4. e \in (-m) .. (m - 1) /\ q \in (-Modulus) .. Modulus
        /\ (t = 0 - 1 => e = 0)
    BY <1>1, <2>2, <2>3, MagnitudeOf DEF Divides
  <2>5. Wrap(e) \in Word /\ Signed(Wrap(e)) = e
    BY <2>4, SignedWrap DEF m
  \* the case the code takes out has no remainder either
  <2>6. Rem(a, b) = Wrap(e)
    <3>1. CASE a = XLEN_MIN /\ b = MinusOne
      <4>1. Rem(a, b) = 0 /\ e = 0
        BY <1>4, <2>1, <2>4, <3>1 DEF Rem
      <4>2. Wrap(0) = 0
        BY <1>1 DEF Wrap
      <4> QED
        BY <4>1, <4>2
    <3> QED
      BY <1>3, <1>4, <3>1 DEF e, s, t, q
  <2>7. CASE a = MostNegative /\ b = MinusOne
    <3>1. Signed(Wrap(e)) = 0
      BY <2>1, <2>4, <2>5, <2>7
    <3>2. Wrap(e) = 0
      BY <3>1, <2>5, SignedSpecial
    <3> QED
      BY <2>6, <2>5, <2>7, <1>4, <3>2, AsManualDivision
  <2>8. CASE ~(a = MostNegative /\ b = MinusOne)
    <3>1. \E p \in (-Modulus) .. Modulus : Divides(s, t, p, Signed(Rem(a, b)))
      BY <2>6, <2>2, <2>4, <2>5
    <3> QED
      BY <2>6, <2>5, <2>8, <1>4, <3>1, AsManualDivision DEF s, t
  <2> QED
    BY <2>7, <2>8
<1> QED
  BY <1>2, <1>4

LEMMA UnsignedDivision ==
  ASSUME NEW a \in Word, NEW b \in Word, b # 0
  PROVE  /\ a \div b \in Word /\ a - b * (a \div b) \in 0 .. (b - 1)
         /\ a % b \in Word /\ Divides(a, b, a \div b, a % b)
<1> DEFINE q == a \div b
           r == a % b
<1>1. a \in Nat /\ b \in Nat /\ b >= 1 /\ a < Modulus /\ b < Modulus /\ Modulus \in Nat
  BY WordType, Widths
<1>2. q \in Nat /\ q <= a /\ r \in 0 .. (b - 1) /\ a = q * b + r
  <2>1. a \in Int
    BY <1>1
  <2>2. q \in Nat /\ q <= a
    BY <1>1, QuotientSmaller, Zenon
  <2>3. r \in 0 .. (b - 1) /\ a = q * b + r
    BY <2>1, <1>1, Division, Zenon
  <2> QED
    BY <2>2, <2>3
<1> HIDE DEF q, r
<1>3. q \in Word /\ r \in Word
  BY <1>1, <1>2, WordType
<1>4. a - b * q = r /\ a = b * q + r
  BY <1>1, <1>2
<1>5. Divides(a, b, q, r)
  BY <1>1, <1>2, <1>4, MagnitudeOf DEF Divides
<1> QED
  BY <1>2, <1>3, <1>4, <1>5 DEF q, r

-----------------------------------------------------------------------------
AluOps ==
  {"ADD", "SUB", "SLT", "SLTU", "XOR", "OR", "AND", "SLL", "SRL", "SRA", "MUL",
   "MULH", "MULHSU", "MULHU", "DIV", "DIVU", "REM", "REMU"}

BranchOps == {"EQ", "NE", "LT", "GE", "LTU", "GEU"}

(***************************************************************************)
(* Whatever an operator yields is a word, and the result that the manual   *)
(* asks for unless the operator deviates as Operators says: a shift by the *)
(* whole width or more, and in DIV XLEN_MIN in the place of the most       *)
(* negative number.  For every width, and for every outcome that C++       *)
(* leaves open.                                                            *)
(***************************************************************************)
THEOREM OperatorsAsManual ==
  ASSUME NEW op \in AluOps, NEW a \in Word, NEW b \in Word, NEW r \in Results(op, a, b)
  PROVE  r \in Word /\ (Deviates(op, a, b) \/ AsManual(op, a, b, r))
<1>1. /\ a \in Nat /\ b \in Nat /\ a < Modulus /\ b < Modulus /\ Modulus \in Nat
      /\ a \in Int /\ b \in Int
      /\ 0 \in Word /\ 1 \in Word /\ XLEN \in Nat /\ XLEN >= 4
  BY WordType, Widths
<1>2. CASE op = "ADD"
  <2>1. r = Wrap(a + b)
    BY <1>2 DEF Results
  <2> QED
    BY <1>2, <2>1, AddAsManual DEF AsManual
<1>3. CASE op = "SUB"
  <2>1. r = Wrap(a - b)
    BY <1>3 DEF Results
  <2> QED
    BY <1>3, <2>1, SubAsManual DEF AsManual
<1>4. CASE op = "SLT"
  <2>1. r = Truth(Signed(a) < Signed(b))
    BY <1>4 DEF Results
  <2>2. Truth(LessSigned(a, b)) = Truth(Signed(a) < Signed(b)) /\ r \in Word
    BY <2>1, <1>1, LessSignedIsOrder DEF Truth
  <2> QED
    BY <1>4, <2>1, <2>2 DEF AsManual
<1>5. CASE op = "SLTU"
  <2>1. r = Truth(a < b)
    BY <1>5 DEF Results
  <2>2. ((r = 1) = (a - b < 0)) /\ r \in {0, 1} /\ r \in Word
    BY <2>1, <1>1 DEF Truth
  <2> QED
    BY <1>5, <2>2 DEF AsManual
<1> DEFINE X == (Bits(a) \ Bits(b)) \cup (Bits(b) \ Bits(a))
           O == Bits(a) \cup Bits(b)
           A == Bits(a) \cap Bits(b)
<1>6. X \in SUBSET Positions /\ O \in SUBSET Positions /\ A \in SUBSET Positions
  BY DEF Bits, Positions
<1>7. CASE op = "XOR"
  <2>1. r = Number(X)
    BY <1>7 DEF Results
  <2>2. r \in Word /\ \A i \in Positions : Bit(r, i) <=> i \in X
    BY <1>6, <2>1, NumberOf
  <2>3. \A i \in 0 .. (XLEN - 1) : Bit(r, i) = (Bit(a, i) # Bit(b, i))
    BY <2>2 DEF Positions, Bit
  <2> QED
    BY <1>7, <2>2, <2>3 DEF AsManual
<1>8. CASE op = "OR"
  <2>1. r = Number(O)
    BY <1>8 DEF Results
  <2>2. r \in Word /\ \A i \in Positions : Bit(r, i) <=> i \in O
    BY <1>6, <2>1, NumberOf
  <2>3. \A i \in 0 .. (XLEN - 1) : Bit(r, i) = (Bit(a, i) \/ Bit(b, i))
    BY <2>2 DEF Positions, Bit
  <2> QED
    BY <1>8, <2>2, <2>3 DEF AsManual
<1>9. CASE op = "AND"
  <2>1. r = Number(A)
    BY <1>9 DEF Results
  <2>2. r \in Word /\ \A i \in Positions : Bit(r, i) <=> i \in A
    BY <1>6, <2>1, NumberOf
  <2>3. \A i \in 0 .. (XLEN - 1) : Bit(r, i) = (Bit(a, i) /\ Bit(b, i))
    BY <2>2 DEF Positions, Bit
  <2> QED
    BY <1>9, <2>2, <2>3 DEF AsManual
<1> HIDE DEF X, O, A
<1>10. \A n \in Amounts(b) : n \in Nat /\ (b < XLEN => n = b % XLEN)
  <2>1. b % XLEN \in Nat
    BY <1>1
  <2>2. b < XLEN => (0 * XLEN + b) % XLEN = b
    BY <1>1, DivisionUnique
  <2> QED
    BY <1>1, <2>1, <2>2 DEF Amounts
<1>11. CASE op = "SLL"
  <2>1. PICK n \in Amounts(b) : r = ShiftLeft(a, n)
    BY <1>11 DEF Results
  <2>2. r \in Word /\ \A i \in 0 .. (XLEN - 1) : Bit(r, i) = (i >= n /\ Bit(a, i - n))
    BY <2>1, <1>10, ShiftLeftBits DEF Positions
  <2>3. CASE XLEN <= b
    BY <2>2, <2>3, <1>1, <1>11 DEF Deviates
  <2>4. CASE b < XLEN
    <3>1. AsManual(op, a, b, r)
      BY <2>1, <2>2, <2>4, <1>10, <1>11 DEF AsManual
    <3> QED
      BY <3>1, <2>2
  <2> QED
    BY <1>1, <2>3, <2>4
<1>12. CASE op = "SRL"
  <2>1. PICK n \in Amounts(b) : r = ShiftRight(a, n)
    BY <1>12 DEF Results
  <2>2. r \in Word /\ \A i \in 0 .. (XLEN - 1) : Bit(r, i) = Bit(a, i + n)
    BY <2>1, <1>10, ShiftRightBits DEF Positions
  <2>3. CASE XLEN <= b
    BY <2>2, <2>3, <1>1, <1>12 DEF Deviates
  <2>4. CASE b < XLEN
    <3>1. AsManual(op, a, b, r)
      BY <2>1, <2>2, <2>4, <1>10, <1>12 DEF AsManual
    <3> QED
      BY <3>1, <2>2
  <2> QED
    BY <1>1, <2>3, <2>4
<1>13. CASE op = "SRA"
  <2>1. PICK n \in Amounts(b) : r = ShiftRightSigned(a, n)
    BY <1>13 DEF Results
  <2>2. /\ r \in Word
        /\ \A i \in 0 .. (XLEN - 1) :
             Bit(r, i) = Bit(a, IF i + n < XLEN THEN i + n ELSE XLEN - 1)
    BY <2>1, <1>10, ShiftRightSignedBits DEF Positions
  <2>3. CASE XLEN <= b
    BY <2>2, <2>3, <1>1, <1>13 DEF Deviates
  <2>4. CASE b < XLEN
    <3>1. AsManual(op, a, b, r)
      BY <2>1, <2>2, <2>4, <1>10, <1>13 DEF AsManual
    <3> QED
      BY <3>1, <2>2
  <2> QED
    BY <1>1, <2>3, <2>4
<1>14. CASE op = "MUL"
  <2>1. r = Wrap(Signed(a) * Signed(b))
    BY <1>14 DEF Results
  <2> QED
    BY <1>14, <2>1, MulAsManual DEF AsManual
<1>15. CASE op = "MULH"
  <2>1. r = High(Signed(a) * Signed(b))
    BY <1>15 DEF Results
  <2> QED
    BY <1>15, <2>1, MulhAsManual DEF AsManual
<1>16. CASE op = "MULHSU"
  <2>1. r = High(Signed(a) * b)
    BY <1>16 DEF Results
  <2> QED
    BY <1>16, <2>1, MulhsuAsManual DEF AsManual
<1>17. CASE op = "MULHU"
  <2>1. r = High(a * b)
    BY <1>17 DEF Results
  <2> QED
    BY <1>17, <2>1, MulhuAsManual DEF AsManual
<1>18. CASE op = "DIV"
  <2>1. r = Div(a, b)
    BY <1>18 DEF Results
  <2> QED
    BY <1>18, <2>1, DivAsManual
<1>19. CASE op = "DIVU"
  <2>1. r = IF b = 0 THEN MinusOne ELSE a \div b
    BY <1>19 DEF Results
  <2>2. CASE b = 0
    <3>1. r \in Word /\ Signed(r) = -1
      BY <2>1, <2>2, <1>1, SignedSpecial, WordType
    <3> QED
      BY <1>19, <2>2, <3>1 DEF AsManual
  <2>3. CASE b # 0
    <3>1. r \in Word /\ a - b * r \in 0 .. (b - 1)
      BY <2>1, <2>3, UnsignedDivision
    <3> QED
      BY <1>19, <2>3, <3>1 DEF AsManual
  <2> QED
    BY <2>2, <2>3
<1>20. CASE op = "REM"
  <2>1. r = Rem(a, b)
    BY <1>20 DEF Results
  <2> QED
    BY <1>20, <2>1, RemAsManual
<1>21. CASE op = "REMU"
  <2>1. r = IF b = 0 THEN a ELSE a % b
    BY <1>21 DEF Results
  <2>2. CASE b = 0
    BY <1>21, <2>1, <2>2 DEF AsManual
  <2>3. CASE b # 0
    <3>1. r \in Word /\ \E q \in Word : Divides(a, b, q, r)
      BY <2>1, <2>3, UnsignedDivision
    <3> QED
      BY <1>21, <2>3, <3>1 DEF AsManual
  <2> QED
    BY <2>2, <2>3
<1> QED
  BY <1>2, <1>3, <1>4, <1>5, <1>7, <1>8, <1>9, <1>11, <1>12, <1>13, <1>14,
     <1>15, <1>16, <1>17, <1>18, <1>19, <1>20, <1>21 DEF AluOps

(***************************************************************************)
(* A conditional branch is taken exactly when the manual says so, where    *)
(* the manual's order of signed numbers compares the sign bits first.      *)
(***************************************************************************)
THEOREM BranchesAsManual ==
  ASSUME NEW op \in BranchOps, NEW a \in Word, NEW b \in Word
  PROVE  Taken(op, a, b) <=> TakenAsManual(op, a, b)
<1>1. a \in Nat /\ b \in Nat /\ Signed(a) \in Int /\ Signed(b) \in Int
  BY WordType, SignedOf, Widths
<1>2. CASE op \in {"EQ", "NE"}
  <2>1. (Bits(a) = Bits(b)) <=> a = b
    BY BitsDetermine
  <2> QED
    BY <1>2, <2>1 DEF Taken, TakenAsManual
<1>3. CASE op \in {"LT", "GE"}
  <2>1. LessSigned(a, b) <=> Signed(a) < Signed(b)
    BY LessSignedIsOrder
  <2>2. CASE op = "LT"
    <3>1. Taken(op, a, b) <=> Signed(a) < Signed(b)
      BY <2>2 DEF Taken
    <3>2. TakenAsManual(op, a, b) <=> LessSigned(a, b)
      BY <2>2 DEF TakenAsManual, LessSigned, Sign, Bit
    <3> QED
      BY <2>1, <3>1, <3>2
  <2>3. CASE op = "GE"
    <3>1. Taken(op, a, b) <=> Signed(a) >= Signed(b)
      BY <2>3 DEF Taken
    <3>2. TakenAsManual(op, a, b) <=> ~LessSigned(a, b)
      BY <2>3 DEF TakenAsManual, LessSigned, Sign, Bit
    <3> QED
      BY <1>1, <2>1, <3>1, <3>2
  <2> QED
    BY <1>3, <2>2, <2>3
<1>4. CASE op \in {"LTU", "GEU"}
  <2>1. CASE op = "LTU"
    BY <1>1, <2>1 DEF Taken, TakenAsManual
  <2>2. CASE op = "GEU"
    BY <1>1, <2>2 DEF Taken, TakenAsManual
  <2> QED
    BY <1>4, <2>1, <2>2
<1> QED
  BY <1>2, <1>3, <1>4 DEF BranchOps
=============================================================================
