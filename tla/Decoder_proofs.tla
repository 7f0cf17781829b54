--------------------------- MODULE Decoder_proofs ---------------------------
(***************************************************************************)
(* For every word of 32 bits, not only those of a run: what the visitor    *)
(* calls, what dyn_cast says and what the constructors write agree, and    *)
(* the 16-bit words go where the manual sends them, but for the exceptions *)
(* the properties of Decoder name.                                         *)
(***************************************************************************)
EXTENDS Decoder, Binary_proofs, FunctionTheorems

-----------------------------------------------------------------------------
(***************************************************************************)
(* Keys and fields.                                                        *)
(***************************************************************************)
LEMMA PowersUsed ==
  /\ 2^2 = 4 /\ 2^3 = 8 /\ 2^4 = 16 /\ 2^5 = 32 /\ 2^6 = 64 /\ 2^7 = 128
  /\ 2^10 = 1024 /\ 2^11 = 2048
<1>1. \A n \in Nat : 2^(n + 1) = 2 * 2^n
  BY PowerSuccessor
<1>2. 2^(1 + 1) = 2 * 2^1 /\ 2^(2 + 1) = 2 * 2^2 /\ 2^(3 + 1) = 2 * 2^3
  BY <1>1
<1>3. 2^(4 + 1) = 2 * 2^4 /\ 2^(5 + 1) = 2 * 2^5 /\ 2^(6 + 1) = 2 * 2^6
  BY <1>1
<1>4. 2^(7 + 1) = 2 * 2^7 /\ 2^(8 + 1) = 2 * 2^8 /\ 2^(9 + 1) = 2 * 2^9 /\ 2^(10 + 1) = 2 * 2^10
  BY <1>1
<1>5. 1 + 1 = 2 /\ 2 + 1 = 3 /\ 3 + 1 = 4 /\ 4 + 1 = 5 /\ 5 + 1 = 6 /\ 6 + 1 = 7
      /\ 7 + 1 = 8 /\ 8 + 1 = 9 /\ 9 + 1 = 10 /\ 10 + 1 = 11
  OBVIOUS
<1> QED
  BY <1>2, <1>3, <1>4, <1>5, PowerZero

KeyNumbers == 0 .. 1024

\* The bits of a key are its digits.
LEMMA BitsDigit ==
  \A n \in KeyNumbers :
    Bits[n] \subseteq 0 .. 10 /\ \A i \in 0 .. 10 : i \in Bits[n] <=> Digit(n, i) = 1
BY ZenonT(30) DEF Bits, Digit, KeyNumbers

\* Different numbers have different bits.
LEMMA BitsDistinct ==
  ASSUME NEW m \in KeyNumbers, NEW n \in KeyNumbers, Bits[m] = Bits[n]
  PROVE  m = n
<1>1. m \in 0 .. (2^11 - 1) /\ n \in 0 .. (2^11 - 1) /\ 11 \in Nat
  BY PowersUsed DEF KeyNumbers
<1>2. ASSUME NEW i \in 0 .. (11 - 1)
      PROVE  Digit(m, i) = Digit(n, i)
  <2>1. i \in 0 .. 10 /\ i \in Nat /\ m \in Int /\ n \in Int
    BY DEF KeyNumbers
  <2>2. Digit(m, i) \in {0, 1} /\ Digit(n, i) \in {0, 1}
    BY <2>1, DigitType
  <2>3. (i \in Bits[m] <=> Digit(m, i) = 1) /\ (i \in Bits[n] <=> Digit(n, i) = 1)
    BY <2>1, BitsDigit, Zenon
  <2> QED
    BY <2>2, <2>3, Bits[m] = Bits[n]
<1> QED
  BY <1>1, <1>2, DigitsDetermine

\* A key of k bits.
LEMMA BitsWithin ==
  ASSUME NEW n \in KeyNumbers, NEW k \in 0 .. 11, n < 2^k
  PROVE  Bits[n] \subseteq 0 .. (k - 1)
<1>1. Bits[n] \subseteq 0 .. 10 /\ \A i \in 0 .. 10 : i \in Bits[n] <=> Digit(n, i) = 1
  BY BitsDigit, Zenon
<1> SUFFICES ASSUME NEW i \in 0 .. 10, k <= i
             PROVE  Digit(n, i) # 1
  BY <1>1
<1>2. 2^k \in Nat /\ 2^i \in Nat /\ 2^k <= 2^i
  BY PowerPositive, PowerMonotone
<1>3. n \in Nat /\ i \in Nat /\ n < 2^i
  BY <1>2 DEF KeyNumbers
<1> QED
  BY <1>3, DigitSmall

\* A key with one bit.
LEMMA BitsPower ==
  /\ Bits[0] = {} /\ Bits[1] = {0} /\ Bits[2] = {1} /\ Bits[4] = {2} /\ Bits[1024] = {10}
<1>1. ASSUME NEW k \in 0 .. 10, NEW n \in KeyNumbers, n = 2^k
      PROVE  Bits[n] = {k}
  <2>1. \A i \in 0 .. 10 : Digit(n, i) = IF i = k THEN 1 ELSE 0
    BY <1>1, DigitPower
  <2>2. Bits[n] \subseteq 0 .. 10 /\ \A i \in 0 .. 10 : i \in Bits[n] <=> Digit(n, i) = 1
    BY BitsDigit, Zenon
  <2> QED
    BY <2>1, <2>2
<1>2. Bits[0] = {}
  <2>1. \A i \in 0 .. 10 : Digit(0, i) = 0
    <3> SUFFICES ASSUME NEW i \in 0 .. 10 PROVE Digit(0, i) = 0
      OBVIOUS
    <3>1. 0 < 2^i /\ i \in Nat /\ 0 \in Nat
      BY PowerPositive
    <3> QED
      BY <3>1, DigitSmall
  <2>2. 0 \in KeyNumbers
    BY DEF KeyNumbers
  <2>3. Bits[0] \subseteq 0 .. 10 /\ \A i \in 0 .. 10 : i \in Bits[0] <=> Digit(0, i) = 1
    BY <2>2, BitsDigit, Zenon
  <2> QED
    BY <2>1, <2>3
<1>3. 1 = 2^0 /\ 2 = 2^1 /\ 4 = 2^2 /\ 1024 = 2^10
  BY PowersUsed, PowerZero
<1>4. {1, 2, 4, 1024} \subseteq KeyNumbers /\ {0, 1, 2, 10} \subseteq 0 .. 10
  BY DEF KeyNumbers
<1>5. Bits[1] = {0} /\ Bits[2] = {1} /\ Bits[4] = {2}
  BY <1>1, <1>3, <1>4
<1>6. Bits[1024] = {10}
  BY <1>1, <1>3, <1>4
<1> QED
  BY <1>2, <1>5, <1>6

\* A field holds the bits between its ends.
LEMMA FieldBits ==
  ASSUME NEW v \in SUBSET Int, NEW e \in Int, NEW b \in Int, NEW o \in Int
  PROVE  GetBits(v, e, b, o) = {i \in o .. (o + e - b - 1) : i - o + b \in v}
BY DEF GetBits

(***************************************************************************)
(* The formats: which bits a constructor sets, and the fields of a word.   *)
(***************************************************************************)
\* Bit b of a word is bit b - 25 of its funct7, bit b - 20 of rs2, ...
AssembledR(v, op, rd, funct3, rs1, rs2, funct7) ==
  /\ v \subseteq 0 .. 31
  /\ \A b \in 0 .. 31 :
       b \in v <=> CASE b \in 0 .. 1   -> TRUE
                     [] b \in 2 .. 6   -> b - 2 \in op
                     [] b \in 7 .. 11  -> b - 7 \in rd
                     [] b \in 12 .. 14 -> b - 12 \in funct3
                     [] b \in 15 .. 19 -> b - 15 \in rs1
                     [] b \in 20 .. 24 -> b - 20 \in rs2
                     [] b \in 25 .. 31 -> b - 25 \in funct7

LEMMA TypeRAssembled ==
  ASSUME NEW op, NEW funct3, NEW a, NEW rs2, NEW funct7,
         op \subseteq 0 .. 4, funct3 \subseteq 0 .. 2, a.rd \subseteq 0 .. 4,
         a.rs1 \subseteq 0 .. 4, rs2 \subseteq 0 .. 4, funct7 \subseteq 0 .. 6
  PROVE  AssembledR(TypeR(op, funct3, a, rs2, funct7),
                    op, a.rd, funct3, a.rs1, rs2, funct7)
BY FieldBits DEF AssembledR, TypeR, Fields, RdBits, Rs1Bits, GetBits

HasFieldsR(v, op, rd, funct3, rs1, rs2, funct7) ==
  /\ {0, 1} \subseteq v /\ v \subseteq 0 .. 31 /\ OpField(v) = op /\ Rd(v) = rd
  /\ Funct3(v) = funct3 /\ Rs1(v) = rs1 /\ Rs2(v) = rs2 /\ Funct7(v) = funct7

LEMMA AssembledRFields ==
  ASSUME NEW v, NEW op, NEW rd, NEW funct3, NEW rs1, NEW rs2, NEW funct7,
         op \subseteq 0 .. 4, funct3 \subseteq 0 .. 2, rd \subseteq 0 .. 4,
         rs1 \subseteq 0 .. 4, rs2 \subseteq 0 .. 4, funct7 \subseteq 0 .. 6,
         AssembledR(v, op, rd, funct3, rs1, rs2, funct7)
  PROVE  HasFieldsR(v, op, rd, funct3, rs1, rs2, funct7)
<1>1. v \in SUBSET Int
  BY DEF AssembledR
<1>2. /\ OpField(v) = {i \in 0 .. 4 : i + 2 \in v}
      /\ Rd(v) = {i \in 0 .. 4 : i + 7 \in v}
      /\ Funct3(v) = {i \in 0 .. 2 : i + 12 \in v}
      /\ Rs1(v) = {i \in 0 .. 4 : i + 15 \in v}
      /\ Rs2(v) = {i \in 0 .. 4 : i + 20 \in v}
      /\ Funct7(v) = {i \in 0 .. 6 : i + 25 \in v}
  BY <1>1 DEF OpField, Rd, Funct3, Rs1, Rs2, Funct7, GetBits
<1> QED
  BY <1>2 DEF AssembledR, HasFieldsR

\* An arithmetic shift by 20 brings the sign to bit 11 and above.
LEMMA ShiftedBits ==
  \A v : v \subseteq 0 .. 31 =>
    ShiftRight(v, 20) = {b \in 0 .. 31 : IF b <= 11 THEN b + 20 \in v ELSE 31 \in v}
BY DEF ShiftRight

HasFieldsI(v, op, rd, funct3, rs1, imm) ==
  /\ {0, 1} \subseteq v /\ v \subseteq 0 .. 31 /\ OpField(v) = op /\ Rd(v) = rd
  /\ Funct3(v) = funct3 /\ Rs1(v) = rs1
  /\ ImmI(v) = Signed(imm, 0, 11)
  /\ GetBits(v, 25, 20, 0) = imm \cap (0 .. 4)
  /\ GetBits(v, 32, 20, 0) = imm \cap (0 .. 11)
  /\ FunctShift(v) = imm \cap (5 .. 11)

LEMMA TypeIFields ==
  ASSUME NEW op, NEW funct3, NEW a, NEW imm,
         op \subseteq 0 .. 4, funct3 \subseteq 0 .. 2, a.rd \subseteq 0 .. 4,
         a.rs1 \subseteq 0 .. 4, imm \subseteq 0 .. 31
  PROVE  HasFieldsI(TypeI(op, funct3, a, imm), op, a.rd, funct3, a.rs1, imm)
<1> DEFINE v == TypeI(op, funct3, a, imm)
<1>1. /\ v \subseteq 0 .. 31
      /\ \A b \in 0 .. 31 :
           b \in v <=> CASE b \in 0 .. 1   -> TRUE
                         [] b \in 2 .. 6   -> b - 2 \in op
                         [] b \in 7 .. 11  -> b - 7 \in a.rd
                         [] b \in 12 .. 14 -> b - 12 \in funct3
                         [] b \in 15 .. 19 -> b - 15 \in a.rs1
                         [] b \in 20 .. 31 -> b - 20 \in imm
  BY DEF TypeI, Fields, RdBits, Rs1Bits, GetBits
<1> HIDE DEF v
<1>2. /\ OpField(v) = {i \in 0 .. 4 : i + 2 \in v}
      /\ Rd(v) = {i \in 0 .. 4 : i + 7 \in v}
      /\ Funct3(v) = {i \in 0 .. 2 : i + 12 \in v}
      /\ Rs1(v) = {i \in 0 .. 4 : i + 15 \in v}
      /\ GetBits(v, 25, 20, 0) = {i \in 0 .. 4 : i + 20 \in v}
      /\ GetBits(v, 32, 20, 0) = {i \in 0 .. 11 : i + 20 \in v}
      /\ FunctShift(v) = {i \in 5 .. 11 : i + 20 \in v}
  BY <1>1 DEF OpField, Rd, Funct3, Rs1, FunctShift, GetBits
<1>3. ImmI(v) = Signed(imm, 0, 11)
  <2>1. ShiftRight(v, 20) = {b \in 0 .. 31 : IF b <= 11 THEN b + 20 \in v ELSE 31 \in v}
    BY <1>1, ShiftedBits, Zenon
  <2>2. Signed(imm, 0, 11) =
          {b \in 0 .. 31 : (b \in 0 .. 11 /\ b \in imm) \/ (b > 11 /\ 11 \in imm)}
    BY DEF Signed
  <2> QED
    BY <1>1, <2>1, <2>2, SMTT(20) DEF ImmI
<1> QED
  BY <1>1, <1>2, <1>3 DEF v, HasFieldsI

LEMMA TypeSFields ==
  ASSUME NEW op, NEW funct3, NEW a,
         op \subseteq 0 .. 4, funct3 \subseteq 0 .. 2, a.rs1 \subseteq 0 .. 4,
         a.rs2 \subseteq 0 .. 4, a.imm \subseteq 0 .. 31
  PROVE  LET v == TypeS(op, funct3, a)
         IN /\ {0, 1} \subseteq v /\ v \subseteq 0 .. 31 /\ OpField(v) = op
            /\ Funct3(v) = funct3 /\ Rs1(v) = a.rs1 /\ Rs2(v) = a.rs2
            /\ ImmS(v) = Signed(a.imm, 0, 11)
<1> DEFINE v == TypeS(op, funct3, a)
<1>1. /\ v \subseteq 0 .. 31
      /\ \A b \in 0 .. 31 :
           b \in v <=> CASE b \in 0 .. 1   -> TRUE
                         [] b \in 2 .. 6   -> b - 2 \in op
                         [] b \in 7 .. 11  -> b - 7 \in a.imm
                         [] b \in 12 .. 14 -> b - 12 \in funct3
                         [] b \in 15 .. 19 -> b - 15 \in a.rs1
                         [] b \in 20 .. 24 -> b - 20 \in a.rs2
                         [] b \in 25 .. 31 -> b - 20 \in a.imm
  BY DEF TypeS, Fields, Rs1Bits, Rs2Bits, GetBits
<1> HIDE DEF v
<1>2. /\ OpField(v) = {i \in 0 .. 4 : i + 2 \in v}
      /\ Funct3(v) = {i \in 0 .. 2 : i + 12 \in v}
      /\ Rs1(v) = {i \in 0 .. 4 : i + 15 \in v}
      /\ Rs2(v) = {i \in 0 .. 4 : i + 20 \in v}
      /\ GetBits(v, 12, 7, 0) = {i \in 0 .. 4 : i + 7 \in v}
  BY <1>1 DEF OpField, Funct3, Rs1, Rs2, GetBits
<1>3. ImmS(v) = Signed(a.imm, 0, 11)
  <2>1. ShiftRight(v, 20) = {b \in 0 .. 31 : IF b <= 11 THEN b + 20 \in v ELSE 31 \in v}
    BY <1>1, ShiftedBits, Zenon
  <2>2. Signed(a.imm, 0, 11) =
          {b \in 0 .. 31 : (b \in 0 .. 11 /\ b \in a.imm) \/ (b > 11 /\ 11 \in a.imm)}
    BY DEF Signed
  <2> QED
    BY <1>1, <1>2, <2>1, <2>2 DEF ImmS
<1> QED
  BY <1>1, <1>2, <1>3 DEF v

LEMMA TypeBFields ==
  ASSUME NEW op, NEW funct3, NEW a,
         op \subseteq 0 .. 4, funct3 \subseteq 0 .. 2, a.rs1 \subseteq 0 .. 4,
         a.rs2 \subseteq 0 .. 4, a.imm \subseteq 0 .. 31
  PROVE  LET v == TypeB(op, funct3, a)
         IN /\ {0, 1} \subseteq v /\ v \subseteq 0 .. 31 /\ OpField(v) = op
            /\ Funct3(v) = funct3 /\ Rs1(v) = a.rs1 /\ Rs2(v) = a.rs2
            /\ ImmB(v) = Signed(a.imm, 1, 12)
<1> DEFINE v == TypeB(op, funct3, a)
<1>1. /\ v \subseteq 0 .. 31
      /\ \A b \in 0 .. 31 :
           b \in v <=> CASE b \in 0 .. 1   -> TRUE
                         [] b \in 2 .. 6   -> b - 2 \in op
                         [] b = 7          -> 11 \in a.imm
                         [] b \in 8 .. 11  -> b - 7 \in a.imm
                         [] b \in 12 .. 14 -> b - 12 \in funct3
                         [] b \in 15 .. 19 -> b - 15 \in a.rs1
                         [] b \in 20 .. 24 -> b - 20 \in a.rs2
                         [] b \in 25 .. 30 -> b - 20 \in a.imm
                         [] b = 31         -> 12 \in a.imm
  BY DEF TypeB, Fields, Rs1Bits, Rs2Bits, GetBits
<1> HIDE DEF v
<1>2. /\ OpField(v) = {i \in 0 .. 4 : i + 2 \in v}
      /\ Funct3(v) = {i \in 0 .. 2 : i + 12 \in v}
      /\ Rs1(v) = {i \in 0 .. 4 : i + 15 \in v}
      /\ Rs2(v) = {i \in 0 .. 4 : i + 20 \in v}
      /\ GetBits(v, 8, 7, 11) = {i \in {11} : 7 \in v}
      /\ GetBits(v, 12, 8, 1) = {i \in 1 .. 4 : i + 7 \in v}
  BY <1>1 DEF OpField, Funct3, Rs1, Rs2, GetBits
<1>3. ImmB(v) = Signed(a.imm, 1, 12)
  <2>1. ShiftRight(v, 20) = {b \in 0 .. 31 : IF b <= 11 THEN b + 20 \in v ELSE 31 \in v}
    BY <1>1, ShiftedBits, Zenon
  <2>2. Signed(a.imm, 1, 12) =
          {b \in 0 .. 31 : (b \in 1 .. 12 /\ b \in a.imm) \/ (b > 12 /\ 12 \in a.imm)}
    BY DEF Signed
  <2> QED
    BY <1>1, <1>2, <2>1, <2>2 DEF ImmB
<1> QED
  BY <1>1, <1>2, <1>3 DEF v

LEMMA TypeUFields ==
  ASSUME NEW op, NEW a, op \subseteq 0 .. 4, a.rd \subseteq 0 .. 4, a.imm \subseteq 0 .. 31
  PROVE  LET v == TypeU(op, a)
         IN /\ {0, 1} \subseteq v /\ v \subseteq 0 .. 31 /\ OpField(v) = op /\ Rd(v) = a.rd
            /\ ImmU(v) = a.imm \cap (12 .. 31)
<1> DEFINE v == TypeU(op, a)
<1>1. /\ v \subseteq 0 .. 31
      /\ \A b \in 0 .. 31 :
           b \in v <=> CASE b \in 0 .. 1   -> TRUE
                         [] b \in 2 .. 6   -> b - 2 \in op
                         [] b \in 7 .. 11  -> b - 7 \in a.rd
                         [] b \in 12 .. 31 -> b \in a.imm
  BY DEF TypeU, Fields, RdBits, GetBits
<1> HIDE DEF v
<1>2. /\ OpField(v) = {i \in 0 .. 4 : i + 2 \in v}
      /\ Rd(v) = {i \in 0 .. 4 : i + 7 \in v}
      /\ ImmU(v) = {i \in 12 .. 31 : i \in v}
  BY <1>1 DEF OpField, Rd, ImmU, GetBits
<1> QED
  BY <1>1, <1>2 DEF v

LEMMA TypeJFields ==
  ASSUME NEW op, NEW a, op \subseteq 0 .. 4, a.rd \subseteq 0 .. 4, a.imm \subseteq 0 .. 31
  PROVE  LET v == TypeJ(op, a)
         IN /\ {0, 1} \subseteq v /\ v \subseteq 0 .. 31 /\ OpField(v) = op /\ Rd(v) = a.rd
            /\ ImmJ(v) = Signed(a.imm, 1, 20)
<1> DEFINE v == TypeJ(op, a)
<1>1. /\ v \subseteq 0 .. 31
      /\ \A b \in 0 .. 31 :
           b \in v <=> CASE b \in 0 .. 1   -> TRUE
                         [] b \in 2 .. 6   -> b - 2 \in op
                         [] b \in 7 .. 11  -> b - 7 \in a.rd
                         [] b \in 12 .. 19 -> b \in a.imm
                         [] b = 20         -> 11 \in a.imm
                         [] b \in 21 .. 30 -> b - 20 \in a.imm
                         [] b = 31         -> 20 \in a.imm
  BY DEF TypeJ, Fields, RdBits, GetBits
<1> HIDE DEF v
<1>2. /\ OpField(v) = {i \in 0 .. 4 : i + 2 \in v}
      /\ Rd(v) = {i \in 0 .. 4 : i + 7 \in v}
      /\ GetBits(v, 20, 12, 12) = {i \in 12 .. 19 : i \in v}
      /\ GetBits(v, 21, 20, 11) = {i \in {11} : 20 \in v}
  BY <1>1 DEF OpField, Rd, GetBits
<1>3. ImmJ(v) = Signed(a.imm, 1, 20)
  <2>1. ShiftRight(v, 20) = {b \in 0 .. 31 : IF b <= 11 THEN b + 20 \in v ELSE 31 \in v}
    BY <1>1, ShiftedBits, Zenon
  <2>2. Signed(a.imm, 1, 20) =
          {b \in 0 .. 31 : (b \in 1 .. 20 /\ b \in a.imm) \/ (b > 20 /\ 20 \in a.imm)}
    BY DEF Signed
  <2> QED
    BY <1>1, <1>2, <2>1, <2>2 DEF ImmJ
<1> QED
  BY <1>1, <1>2, <1>3 DEF v

-----------------------------------------------------------------------------
(***************************************************************************)
(* Switches.  The keys of a table tell its classes apart.                  *)
(***************************************************************************)
Keys(table, width) ==
  \A c, d \in DOMAIN table :
    /\ table[c] \in KeyNumbers /\ table[c] < width
    /\ table[c] = table[d] => c = d

LEMMA Tables ==
  /\ Keys(OpCode, 32) /\ Keys(AtomicW, 32)
  /\ Keys(Branch, 8) /\ Keys(Load, 8) /\ Keys(Store, 8) /\ Keys(ArithImm, 8)
  /\ Keys(IntegerReg, 8) /\ Keys(IntegerRegMod, 8) /\ Keys(MulDiv, 8) /\ Keys(CsrInsts, 8)
  /\ Keys(ShiftLeftImm, 2^11) /\ Keys(ShiftRightImm, 2^11)
<1> USE DEF Keys, KeyNumbers
<1>1. Keys(OpCode, 32) /\ Keys(AtomicW, 32)
  BY DEF OpCode, AtomicW
<1>2. Keys(Branch, 8)
  BY DEF Branch
<1>3. Keys(Load, 8) /\ Keys(Store, 8)
  BY DEF Load, Store
<1>4. Keys(ArithImm, 8)
  BY DEF ArithImm
<1>5. Keys(IntegerReg, 8)
  BY DEF IntegerReg
<1>6. Keys(IntegerRegMod, 8)
  BY DEF IntegerRegMod
<1>7. Keys(MulDiv, 8)
  BY DEF MulDiv
<1>8. Keys(CsrInsts, 8)
  BY DEF CsrInsts
<1>9. Keys(ShiftLeftImm, 2^11) /\ Keys(ShiftRightImm, 2^11)
  BY PowersUsed DEF ShiftLeftImm, ShiftRightImm
<1> HIDE DEF Keys, KeyNumbers
<1> QED
  BY <1>1, <1>2, <1>3, <1>4, <1>5, <1>6, <1>7, <1>8, <1>9

\* A switch finds the class whose key it is given ...
LEMMA SelectFinds ==
  ASSUME NEW table, NEW width, Keys(table, width), NEW c \in DOMAIN table
  PROVE  Select(table, Bits[table[c]]) = c
<1> DEFINE cases == {d \in DOMAIN table : Bits[table[d]] = Bits[table[c]]}
<1>1. ASSUME NEW d \in cases
      PROVE  d = c
  <2>1. d \in DOMAIN table /\ Bits[table[d]] = Bits[table[c]]
    BY <1>1
  <2>2. table[d] \in KeyNumbers /\ table[c] \in KeyNumbers
    BY <2>1, Zenon DEF Keys
  <2>3. table[d] = table[c]
    BY <2>1, <2>2, BitsDistinct, Zenon
  <2> QED
    BY <2>1, <2>3, Zenon DEF Keys
<1>2. cases = {c}
  BY <1>1
<1> QED
  BY <1>2 DEF Select

\* ... and no other.
LEMMA SelectIs ==
  ASSUME NEW table, NEW key, Select(table, key) # Illegal
  PROVE  Select(table, key) \in DOMAIN table /\ key = Bits[table[Select(table, key)]]
<1> DEFINE cases == {d \in DOMAIN table : Bits[table[d]] = key}
<1>1. cases # {}
  BY DEF Select
<1>2. Select(table, key) = CHOOSE d \in cases : TRUE
  BY <1>1 DEF Select
<1>3. Select(table, key) \in cases
  BY <1>1, <1>2
<1> QED
  BY <1>3

\* No op code of a 32-bit class is that of a longer instruction.
LEMMA OpCodes ==
  ASSUME NEW set \in DOMAIN OpCode
  PROVE  Bits[OpCode[set]] \subseteq 0 .. 4 /\ ~({0, 1, 2} \subseteq Bits[OpCode[set]])
<1> DEFINE n == OpCode[set]
<1>1. n \in {13, 5, 27, 25, 24, 0, 8, 4, 12, 3, 28, 11}
  BY DEF OpCode
<1> HIDE DEF n
<1>2. n \in KeyNumbers /\ n < 2^5 /\ 5 \in 0 .. 11
  BY <1>1, PowersUsed DEF KeyNumbers
<1>3. Bits[n] \subseteq 0 .. (5 - 1)
  BY <1>2, BitsWithin
<1>4. ~({0, 1, 2} \subseteq Bits[n])
  <2>1. Bits[n] = {i \in 0 .. 10 : (n \div 2^i) % 2 = 1}
    BY <1>2 DEF Bits, KeyNumbers
  <2>2. 2^0 = 1 /\ 2^1 = 2 /\ 2^2 = 4
    BY PowersUsed, PowerZero
  <2>3. (0 \in Bits[n] <=> (n \div 1) % 2 = 1) /\ (1 \in Bits[n] <=> (n \div 2) % 2 = 1)
        /\ (2 \in Bits[n] <=> (n \div 4) % 2 = 1)
    BY <2>1, <2>2
  <2> QED
    BY <1>1, <2>3
<1> QED
  BY <1>3, <1>4 DEF n

LEMMA LongWord ==
  ASSUME NEW v, v \subseteq 0 .. 31, {0, 1} \subseteq v, NEW set \in DOMAIN OpCode,
         OpField(v) = Bits[OpCode[set]]
  PROVE  IsInstruction32(v) /\ ~IsInstruction16(v) /\ IsSet(set, v)
<1>1. OpField(v) = {i \in 0 .. 4 : i + 2 \in v}
  BY DEF OpField, GetBits
<1>2. ~({0, 1, 2} \subseteq OpField(v))
  BY OpCodes
<1>3. ~({2, 3, 4} \subseteq v)
  BY <1>1, <1>2
<1> QED
  BY <1>3 DEF IsInstruction32, IsInstruction16, IsSet

-----------------------------------------------------------------------------
(***************************************************************************)
(* The visitor of a class gets every word that dyn_cast takes for it.      *)
(***************************************************************************)
LEMMA VisitSet ==
  ASSUME NEW v, v \subseteq 0 .. 31, NEW ext, NEW set \in DOMAIN OpCode, IsSet(set, v)
  PROVE  VisitInMemory(v, 4, ext) = Visit32(v, ext) /\ Select(OpCode, OpField(v)) = set
<1>1. IsInstruction32(v) /\ ~IsInstruction16(v) /\ OpField(v) = Bits[OpCode[set]]
  BY DEF IsSet, IsInstruction32, IsInstruction16
<1>2. Select(OpCode, Bits[OpCode[set]]) = set
  BY SelectFinds, Tables, Zenon
<1> QED
  BY <1>1, <1>2 DEF VisitInMemory

LEMMA KeysUsed ==
  /\ {} # Bits[1] /\ {} # Bits[8] /\ {} # Bits[9] /\ {} # Bits[24] /\ {} # Bits[32]
  /\ Bits[1] # Bits[5] /\ Bits[1] # Bits[32] /\ Bits[8] # Bits[9] /\ Bits[8] # Bits[24]
  /\ Bits[9] # Bits[24] /\ Bits[0] # Bits[1]
  /\ \A n \in {0, 2, 3, 4, 6, 7} : Bits[n] # Bits[1] /\ Bits[n] # Bits[5]
<1>1. \A m, n \in KeyNumbers : m # n => Bits[m] # Bits[n]
  BY BitsDistinct, Zenon
<1>2. Bits[0] = {}
  BY BitsPower
<1>3. {0, 1, 2, 3, 4, 5, 6, 7, 8, 9, 24, 32} \subseteq KeyNumbers
  BY DEF KeyNumbers
<1>4. \A n \in {1, 8, 9, 24, 32} : Bits[n] # Bits[0]
  BY <1>1, <1>3
<1>5. \A n \in {0, 2, 3, 4, 6, 7} : Bits[n] # Bits[1] /\ Bits[n] # Bits[5]
  BY <1>1, <1>3
<1>6. Bits[1] # Bits[5] /\ Bits[1] # Bits[32]
  BY <1>1, <1>3
<1>7. Bits[8] # Bits[9] /\ Bits[8] # Bits[24] /\ Bits[9] # Bits[24]
  BY <1>1, <1>3
<1> QED
  BY <1>2, <1>4, <1>5, <1>6, <1>7

LEMMA CastArithImm ==
  ASSUME NEW v, NEW c, IsArithImm(c, v)
  PROVE  VisitArithImmSet(v) = c
<1>1. CASE HasFunct3(ArithImm, c, v)
  <2>1. c \in DOMAIN ArithImm /\ Funct3(v) = Bits[ArithImm[c]]
    BY <1>1 DEF HasFunct3
  <2>2. Select(ArithImm, Bits[ArithImm[c]]) = c
    BY <2>1, SelectFinds, Tables, Zenon
  <2>3. ArithImm[c] \in {0, 2, 3, 4, 6, 7}
    BY <2>1 DEF ArithImm
  <2>4. Funct3(v) # Bits[1] /\ Funct3(v) # Bits[5]
    BY <2>1, <2>3, KeysUsed, Zenon
  <2> QED
    BY <2>1, <2>2, <2>4 DEF VisitArithImmSet
<1>2. CASE IsShift(ShiftLeftImm, 1, c, v)
  <2>1. c \in DOMAIN ShiftLeftImm /\ Funct3(v) = Bits[1] /\ FunctShift(v) = Bits[ShiftLeftImm[c]]
    BY <1>2 DEF IsShift
  <2>2. Select(ShiftLeftImm, Bits[ShiftLeftImm[c]]) = c
    BY <2>1, SelectFinds, Tables, Zenon
  <2> QED
    BY <2>1, <2>2, KeysUsed DEF VisitArithImmSet
<1>3. CASE IsShift(ShiftRightImm, 5, c, v)
  <2>1. c \in DOMAIN ShiftRightImm /\ Funct3(v) = Bits[5] /\ FunctShift(v) = Bits[ShiftRightImm[c]]
    BY <1>3 DEF IsShift
  <2>2. Select(ShiftRightImm, Bits[ShiftRightImm[c]]) = c
    BY <2>1, SelectFinds, Tables, Zenon
  <2> QED
    BY <2>1, <2>2, KeysUsed DEF VisitArithImmSet
<1> QED
  BY <1>1, <1>2, <1>3 DEF IsArithImm

LEMMA CastArithReg ==
  ASSUME NEW v, NEW ext, NEW c, IsArithReg(c, v), c \notin DOMAIN MulDiv
  PROVE  VisitArithRegSet(v, ext) = c
<1>1. CASE HasFunct3(IntegerReg, c, v) /\ Funct7(v) = {}
  <2>1. c \in DOMAIN IntegerReg /\ Funct3(v) = Bits[IntegerReg[c]]
    BY <1>1 DEF HasFunct3
  <2>2. Select(IntegerReg, Bits[IntegerReg[c]]) = c
    BY <2>1, SelectFinds, Tables, Zenon
  <2> QED
    BY <1>1, <2>1, <2>2, KeysUsed DEF VisitArithRegSet
<1>2. CASE HasFunct3(IntegerRegMod, c, v) /\ Funct7(v) = Bits[\b0100000]
  <2>1. c \in DOMAIN IntegerRegMod /\ Funct3(v) = Bits[IntegerRegMod[c]]
    BY <1>2 DEF HasFunct3
  <2>2. Select(IntegerRegMod, Bits[IntegerRegMod[c]]) = c
    BY <2>1, SelectFinds, Tables, Zenon
  <2> QED
    BY <1>2, <2>1, <2>2, KeysUsed DEF VisitArithRegSet
<1> QED
  BY <1>1, <1>2 DEF IsArithReg

LEMMA TypeRFields ==
  ASSUME NEW op, NEW funct3, NEW a, NEW rs2, NEW funct7,
         op \subseteq 0 .. 4, funct3 \subseteq 0 .. 2, a.rd \subseteq 0 .. 4,
         a.rs1 \subseteq 0 .. 4, rs2 \subseteq 0 .. 4, funct7 \subseteq 0 .. 6
  PROVE  HasFieldsR(TypeR(op, funct3, a, rs2, funct7), op, a.rd, funct3, a.rs1, rs2, funct7)
<1> DEFINE v == TypeR(op, funct3, a, rs2, funct7)
<1>1. AssembledR(v, op, a.rd, funct3, a.rs1, rs2, funct7)
  BY TypeRAssembled
<1> HIDE DEF v
<1>2. HasFieldsR(v, op, a.rd, funct3, a.rs1, rs2, funct7)
  BY <1>1, AssembledRFields
<1> QED
  BY <1>2 DEF v

LEMMA PrivilegedFields ==
  ASSUME NEW c \in DOMAIN Privileged
  PROVE  LET v == TypePrivileged(c)
         IN /\ {0, 1} \subseteq v /\ v \subseteq 0 .. 31
            /\ OpField(v) = Bits[OpCode.System] /\ Rd(v) = {} /\ Funct3(v) = {} /\ Rs1(v) = {}
            /\ Rs2(v) = Bits[Privileged[c][2]] /\ Funct7(v) = Bits[Privileged[c][1]]
<1> DEFINE m == Privileged[c][1]
           n == Privileged[c][2]
<1>1. m \in {0, 8, 24} /\ n \in {0, 1, 2, 5}
  BY DEF Privileged
<1> HIDE DEF m, n
<1>2. m \in KeyNumbers /\ n \in KeyNumbers /\ m < 2^7 /\ n < 2^5
      /\ 7 \in 0 .. 11 /\ 5 \in 0 .. 11
  BY <1>1, PowersUsed DEF KeyNumbers
<1>3. Bits[m] \subseteq 0 .. 6 /\ Bits[n] \subseteq 0 .. 4
  <2>1. Bits[m] \subseteq 0 .. (7 - 1) /\ Bits[n] \subseteq 0 .. (5 - 1)
    BY <1>2, BitsWithin, Zenon
  <2> QED
    BY <2>1
<1>4. Bits[OpCode.System] \subseteq 0 .. 4
  <2>1. "System" \in DOMAIN OpCode
    BY DEF OpCode
  <2> QED
    BY <2>1, OpCodes
<1>5. NoRegisters.rd = {} /\ NoRegisters.rs1 = {}
  BY DEF NoRegisters
<1>6. TypePrivileged(c) = TypeR(Bits[OpCode.System], {}, NoRegisters, Bits[n], Bits[m])
  BY DEF TypePrivileged, m, n
<1> QED
  <2>1. HasFieldsR(TypePrivileged(c), Bits[OpCode.System], NoRegisters.rd, {},
                   NoRegisters.rs1, Bits[n], Bits[m])
    <3>1. {} \subseteq 0 .. 2 /\ NoRegisters.rd \subseteq 0 .. 4 /\ NoRegisters.rs1 \subseteq 0 .. 4
      BY <1>5
    <3> QED
      BY <1>3, <1>4, <1>6, <3>1, TypeRFields
  <2> QED
    BY <1>5, <2>1 DEF HasFieldsR, m, n

LEMMA CastSystem ==
  ASSUME NEW v, NEW ext, NEW c, IsSystem(c, v), c \notin DOMAIN CsrInsts,
         c \in {"SRET", "SFENCEVAM"} => "S" \in ext
  PROVE  VisitSystemSet(v, ext) = c
<1>1. CASE c \in DOMAIN Privileged /\ v = TypePrivileged(c)
  <2>1. /\ Rd(v) = {} /\ Funct3(v) = {} /\ Rs1(v) = {}
        /\ Rs2(v) = Bits[Privileged[c][2]] /\ Funct7(v) = Bits[Privileged[c][1]]
    BY <1>1, PrivilegedFields
  <2>2. VisitSystemSet(v, ext) = VisitPrivilegeSet(v, ext)
    BY <2>1 DEF VisitSystemSet
  <2> DEFINE calls == [ECALL |-> 0, EBREAK |-> 1]
             returns == [SRET |-> 2, WFI |-> 5]
             waits == [WFI |-> 5]
  <2>3. Keys(calls, 8) /\ Keys(returns, 8) /\ Keys(waits, 8)
    BY DEF Keys, KeyNumbers
  <2>4. CASE c \in {"ECALL", "EBREAK"}
    <3>1. c \in DOMAIN calls /\ Privileged[c][1] = 0 /\ Privileged[c][2] = calls[c]
      BY <2>4 DEF Privileged
    <3> HIDE DEF calls
    <3>2. Select(calls, Bits[calls[c]]) = c
      BY <2>3, <3>1, SelectFinds, Zenon
    <3>3. Funct7(v) = {}
      BY <2>1, <3>1, BitsPower
    <3>4. VisitPrivilegeSet(v, ext) = Select(calls, Rs2(v))
      BY <2>1, <3>3, KeysUsed DEF VisitPrivilegeSet, calls
    <3> QED
      BY <2>1, <2>2, <3>1, <3>2, <3>4
  <2>5. CASE c \in {"SRET", "WFI"}
    <3> DEFINE table == IF "S" \in ext THEN returns ELSE waits
    <3>1. c \in DOMAIN table /\ Privileged[c][1] = 8 /\ Privileged[c][2] = table[c]
      BY <2>5 DEF Privileged
    <3>2. Keys(table, 8)
      BY <2>3
    <3> HIDE DEF table
    <3>3. Select(table, Bits[table[c]]) = c
      BY <3>1, <3>2, SelectFinds, Zenon
    <3>4. Funct7(v) = Bits[\b0001000]
      BY <2>1, <3>1
    <3>5. VisitPrivilegeSet(v, ext) = Select(table, Rs2(v))
      BY <2>1, <3>4, KeysUsed DEF VisitPrivilegeSet, table
    <3> QED
      BY <2>1, <2>2, <3>1, <3>3, <3>5
  <2>6. CASE c = "MRET"
    <3>1. Funct7(v) = Bits[\b0011000]
      BY <2>1, <2>6 DEF Privileged
    <3> QED
      BY <2>1, <2>2, <2>6, <3>1, KeysUsed DEF VisitPrivilegeSet
  <2> QED
    BY <1>1, <2>4, <2>5, <2>6 DEF Privileged
<1>2. CASE c = "SFENCEVAM" /\ Funct3(v) = {} /\ Funct7(v) = Bits[\b0001001] /\ Rd(v) = {}
  <2>1. VisitSystemSet(v, ext) = VisitPrivilegeSet(v, ext)
    BY <1>2 DEF VisitSystemSet
  <2> QED
    BY <1>2, <2>1, KeysUsed DEF VisitPrivilegeSet
<1> QED
  BY <1>1, <1>2 DEF IsSystem

\* A word that dyn_cast takes for a base or privileged class reaches its visitor.
LEMMA CastVisits ==
  ASSUME NEW v, v \subseteq 0 .. 31, NEW ext, NEW c, c \in InstructionMap(ext),
         c \in Base \cup {"SRET", "SFENCEVAM"}, IsType(c, v)
  PROVE  VisitInMemory(v, 4, ext) = c
<1>1. \A set \in DOMAIN OpCode : IsSet(set, v) =>
        VisitInMemory(v, 4, ext) = Visit32(v, ext) /\ Select(OpCode, OpField(v)) = set
  BY VisitSet
<1>2. /\ c \notin DOMAIN MulDiv /\ c \notin DOMAIN CsrInsts /\ c \notin DOMAIN AtomicW
      /\ c \notin Compressed
      /\ c \in {"SRET", "SFENCEVAM"} => "S" \in ext
  <2> USE DEF Base, Branch, Load, Store, ArithImm, ShiftImm, ShiftLeftImm, ShiftRightImm,
              IntegerReg, IntegerRegMod
  <2>1. c \notin DOMAIN MulDiv /\ c \notin DOMAIN CsrInsts
    BY DEF MulDiv, CsrInsts
  <2>2. c \notin DOMAIN AtomicW
    BY DEF AtomicW
  <2>3. c \notin Compressed
    BY DEF Compressed
  <2>4. c \in {"SRET", "SFENCEVAM"} => "S" \in ext
    BY DEF InstructionMap, MulDiv, AtomicW, Compressed, CsrInsts
  <2> QED
    BY <2>1, <2>2, <2>3, <2>4
<1>3. DOMAIN OpCode = {"LUI", "AUIPC", "JAL", "JALR", "Branch", "Load", "Store", "ArithImm",
                       "ArithReg", "Fence", "System", "Atomic"}
  BY DEF OpCode
<1>4. CASE c \in {"LUI", "AUIPC", "JAL"} /\ IsSet(c, v)
  BY <1>1, <1>3, <1>4 DEF Visit32
<1>5. CASE c = "JALR" /\ IsSet("JALR", v) /\ Funct3(v) = {}
  BY <1>1, <1>3, <1>5 DEF Visit32
<1>6. CASE HasFunct3(Branch, c, v) /\ IsSet("Branch", v)
  <2>1. VisitInMemory(v, 4, ext) = VisitBranchSet(v)
    BY <1>1, <1>3, <1>6 DEF Visit32
  <2>2. c \in DOMAIN Branch /\ Funct3(v) = Bits[Branch[c]]
    BY <1>6 DEF HasFunct3
  <2>3. Select(Branch, Bits[Branch[c]]) = c
    BY <2>2, SelectFinds, Tables, Zenon
  <2> QED
    BY <2>1, <2>2, <2>3 DEF VisitBranchSet
<1>7. CASE HasFunct3(Load, c, v) /\ IsSet("Load", v)
  <2>1. VisitInMemory(v, 4, ext) = VisitLoadSet(v)
    BY <1>1, <1>3, <1>7 DEF Visit32
  <2>2. c \in DOMAIN Load /\ Funct3(v) = Bits[Load[c]]
    BY <1>7 DEF HasFunct3
  <2>3. Select(Load, Bits[Load[c]]) = c
    BY <2>2, SelectFinds, Tables, Zenon
  <2> QED
    BY <2>1, <2>2, <2>3 DEF VisitLoadSet
<1>8. CASE HasFunct3(Store, c, v) /\ IsSet("Store", v)
  <2>1. VisitInMemory(v, 4, ext) = VisitStoreSet(v)
    BY <1>1, <1>3, <1>8 DEF Visit32
  <2>2. c \in DOMAIN Store /\ Funct3(v) = Bits[Store[c]]
    BY <1>8 DEF HasFunct3
  <2>3. Select(Store, Bits[Store[c]]) = c
    BY <2>2, SelectFinds, Tables, Zenon
  <2> QED
    BY <2>1, <2>2, <2>3 DEF VisitStoreSet
<1>9. CASE IsArithImm(c, v) /\ IsSet("ArithImm", v)
  <2>1. VisitInMemory(v, 4, ext) = VisitArithImmSet(v)
    BY <1>1, <1>3, <1>9 DEF Visit32
  <2> QED
    BY <1>9, <2>1, CastArithImm
<1>10. CASE IsArithReg(c, v) /\ IsSet("ArithReg", v)
  <2>1. VisitInMemory(v, 4, ext) = VisitArithRegSet(v, ext)
    BY <1>1, <1>3, <1>10 DEF Visit32
  <2> QED
    BY <1>2, <1>10, <2>1, CastArithReg
<1>11. CASE c = "FENCE" /\ Funct3(v) = {} /\ IsSet("Fence", v)
  <2>1. VisitInMemory(v, 4, ext) = Select([FENCE |-> 0], Funct3(v))
    BY <1>1, <1>3, <1>11 DEF Visit32, VisitFenceSet
  <2> DEFINE table == [FENCE |-> 0]
  <2>2. Keys(table, 8) /\ "FENCE" \in DOMAIN table /\ table["FENCE"] = 0
    BY DEF Keys, KeyNumbers
  <2> HIDE DEF table
  <2>3. Select(table, Bits[table["FENCE"]]) = "FENCE"
    BY <2>2, SelectFinds, Zenon
  <2> QED
    BY <1>11, <2>1, <2>2, <2>3, BitsPower DEF table
<1>12. CASE IsSystem(c, v) /\ IsSet("System", v)
  <2>1. VisitInMemory(v, 4, ext) = VisitSystemSet(v, ext)
    BY <1>1, <1>3, <1>12 DEF Visit32
  <2> QED
    BY <1>2, <1>12, <2>1, CastSystem
<1> QED
  BY <1>2, <1>4, <1>5, <1>6, <1>7, <1>8, <1>9, <1>10, <1>11, <1>12 DEF IsType

-----------------------------------------------------------------------------
(***************************************************************************)
(* The visitor that is called is that of a class of the word.              *)
(***************************************************************************)
LEMMA ArithImmIsType ==
  ASSUME NEW v, NEW c, VisitArithImmSet(v) = c, c # Illegal
  PROVE  IsArithImm(c, v)
<1>1. CASE Funct3(v) = Bits[1]
  <2>1. c = Select(ShiftLeftImm, FunctShift(v))
    BY <1>1, KeysUsed DEF VisitArithImmSet
  <2>2. c \in DOMAIN ShiftLeftImm /\ FunctShift(v) = Bits[ShiftLeftImm[c]]
    BY <2>1, SelectIs
  <2> QED
    BY <1>1, <2>2 DEF IsArithImm, IsShift
<1>2. CASE Funct3(v) = Bits[5]
  <2>1. c = Select(ShiftRightImm, FunctShift(v))
    BY <1>2, KeysUsed DEF VisitArithImmSet
  <2>2. c \in DOMAIN ShiftRightImm /\ FunctShift(v) = Bits[ShiftRightImm[c]]
    BY <2>1, SelectIs
  <2> QED
    BY <1>2, <2>2 DEF IsArithImm, IsShift
<1>3. CASE Funct3(v) # Bits[1] /\ Funct3(v) # Bits[5]
  <2>1. c = Select(ArithImm, Funct3(v))
    BY <1>3 DEF VisitArithImmSet
  <2>2. c \in DOMAIN ArithImm /\ Funct3(v) = Bits[ArithImm[c]]
    BY <2>1, SelectIs
  <2> QED
    BY <2>2 DEF IsArithImm, HasFunct3
<1> QED
  BY <1>1, <1>2, <1>3

LEMMA ArithRegIsType ==
  ASSUME NEW v, NEW ext, NEW c, VisitArithRegSet(v, ext) = c, c # Illegal
  PROVE  IsArithReg(c, v)
<1>1. CASE Funct7(v) = {}
  <2>1. c = Select(IntegerReg, Funct3(v))
    BY <1>1, KeysUsed DEF VisitArithRegSet
  <2>2. c \in DOMAIN IntegerReg /\ Funct3(v) = Bits[IntegerReg[c]]
    BY <2>1, SelectIs
  <2> QED
    BY <1>1, <2>2 DEF IsArithReg, HasFunct3
<1>2. CASE Funct7(v) = Bits[\b0100000]
  <2>1. c = Select(IntegerRegMod, Funct3(v))
    BY <1>2, KeysUsed DEF VisitArithRegSet
  <2>2. c \in DOMAIN IntegerRegMod /\ Funct3(v) = Bits[IntegerRegMod[c]]
    BY <2>1, SelectIs
  <2> QED
    BY <1>2, <2>2 DEF IsArithReg, HasFunct3
<1>3. CASE Funct7(v) # {} /\ Funct7(v) # Bits[\b0100000]
  <2>1. c = Select(MulDiv, Funct3(v))
    BY <1>3 DEF VisitArithRegSet
  <2>2. c \in DOMAIN MulDiv
    BY <2>1, SelectIs
  <2> QED
    BY <2>2 DEF IsArithReg
<1> QED
  BY <1>1, <1>2, <1>3

\* The fields of a 32-bit word make it up.
LEMMA FieldsDetermine ==
  ASSUME NEW v, NEW w, v \subseteq 0 .. 31, w \subseteq 0 .. 31, {0, 1} \subseteq v,
         {0, 1} \subseteq w, OpField(v) = OpField(w), Rd(v) = Rd(w), Funct3(v) = Funct3(w),
         Rs1(v) = Rs1(w), Rs2(v) = Rs2(w), Funct7(v) = Funct7(w)
  PROVE  v = w
<1>1. /\ OpField(v) = {i \in 0 .. 4 : i + 2 \in v}
      /\ Rd(v) = {i \in 0 .. 4 : i + 7 \in v}
      /\ Funct3(v) = {i \in 0 .. 2 : i + 12 \in v}
      /\ Rs1(v) = {i \in 0 .. 4 : i + 15 \in v}
      /\ Rs2(v) = {i \in 0 .. 4 : i + 20 \in v}
      /\ Funct7(v) = {i \in 0 .. 6 : i + 25 \in v}
  BY DEF OpField, Rd, Funct3, Rs1, Rs2, Funct7, GetBits
<1>2. /\ OpField(w) = {i \in 0 .. 4 : i + 2 \in w}
      /\ Rd(w) = {i \in 0 .. 4 : i + 7 \in w}
      /\ Funct3(w) = {i \in 0 .. 2 : i + 12 \in w}
      /\ Rs1(w) = {i \in 0 .. 4 : i + 15 \in w}
      /\ Rs2(w) = {i \in 0 .. 4 : i + 20 \in w}
      /\ Funct7(w) = {i \in 0 .. 6 : i + 25 \in w}
  BY DEF OpField, Rd, Funct3, Rs1, Rs2, Funct7, GetBits
<1>3. ASSUME NEW b \in 0 .. 31
      PROVE  b \in v <=> b \in w
  <2>1. CASE b \in 0 .. 1
    BY <2>1
  <2>2. CASE b \in 2 .. 6
    <3>1. b - 2 \in 0 .. 4 /\ (b - 2) + 2 = b
      BY <2>2
    <3>2. b - 2 \in OpField(v) <=> b \in v
      BY <1>1, <3>1
    <3>3. b - 2 \in OpField(w) <=> b \in w
      BY <1>2, <3>1
    <3> QED
      BY <3>2, <3>3
  <2>3. CASE b \in 7 .. 11
    <3>1. b - 7 \in 0 .. 4 /\ (b - 7) + 7 = b
      BY <2>3
    <3>2. b - 7 \in Rd(v) <=> b \in v
      BY <1>1, <3>1
    <3>3. b - 7 \in Rd(w) <=> b \in w
      BY <1>2, <3>1
    <3> QED
      BY <3>2, <3>3
  <2>4. CASE b \in 12 .. 14
    <3>1. b - 12 \in 0 .. 2 /\ (b - 12) + 12 = b
      BY <2>4
    <3>2. b - 12 \in Funct3(v) <=> b \in v
      BY <1>1, <3>1
    <3>3. b - 12 \in Funct3(w) <=> b \in w
      BY <1>2, <3>1
    <3> QED
      BY <3>2, <3>3
  <2>5. CASE b \in 15 .. 19
    <3>1. b - 15 \in 0 .. 4 /\ (b - 15) + 15 = b
      BY <2>5
    <3>2. b - 15 \in Rs1(v) <=> b \in v
      BY <1>1, <3>1
    <3>3. b - 15 \in Rs1(w) <=> b \in w
      BY <1>2, <3>1
    <3> QED
      BY <3>2, <3>3
  <2>6. CASE b \in 20 .. 24
    <3>1. b - 20 \in 0 .. 4 /\ (b - 20) + 20 = b
      BY <2>6
    <3>2. b - 20 \in Rs2(v) <=> b \in v
      BY <1>1, <3>1
    <3>3. b - 20 \in Rs2(w) <=> b \in w
      BY <1>2, <3>1
    <3> QED
      BY <3>2, <3>3
  <2>7. CASE b \in 25 .. 31
    <3>1. b - 25 \in 0 .. 6 /\ (b - 25) + 25 = b
      BY <2>7
    <3>2. b - 25 \in Funct7(v) <=> b \in v
      BY <1>1, <3>1
    <3>3. b - 25 \in Funct7(w) <=> b \in w
      BY <1>2, <3>1
    <3> QED
      BY <3>2, <3>3
  <2> QED
    BY <2>1, <2>2, <2>3, <2>4, <2>5, <2>6, <2>7
<1> QED
  BY <1>3

LEMMA SystemIsType ==
  ASSUME NEW v, v \subseteq 0 .. 31, NEW ext, IsSet("System", v), NEW c,
         VisitSystemSet(v, ext) = c, c # Illegal, c # "MRET"
  PROVE  IsSystem(c, v)
<1>1. CASE Funct3(v) # {}
  <2>1. c = Select(CsrInsts, Funct3(v))
    BY <1>1 DEF VisitSystemSet
  <2>2. c \in DOMAIN CsrInsts
    BY <2>1, SelectIs
  <2> QED
    BY <2>2 DEF IsSystem
<1>2. CASE Funct3(v) = {}
  <2> DEFINE calls == [ECALL |-> 0, EBREAK |-> 1]
             returns == IF "S" \in ext THEN [SRET |-> 2, WFI |-> 5] ELSE [WFI |-> 5]
             plain == Rd(v) = {} /\ Rs1(v) = {}
  <2>1. VisitPrivilegeSet(v, ext) = c
    BY <1>2 DEF VisitSystemSet
  <2>2. \/ Funct7(v) = {} /\ plain /\ c = Select(calls, Rs2(v))
        \/ Funct7(v) = Bits[\b0001000] /\ plain /\ c = Select(returns, Rs2(v))
        \/ Funct7(v) = Bits[\b0001001] /\ Rd(v) = {} /\ c = "SFENCEVAM"
    BY <2>1, KeysUsed DEF VisitPrivilegeSet
  <2>3. ASSUME c \in DOMAIN Privileged, plain, Funct7(v) = Bits[Privileged[c][1]],
               Rs2(v) = Bits[Privileged[c][2]]
        PROVE  IsSystem(c, v)
    <3>1. /\ {0, 1} \subseteq v /\ OpField(v) = Bits[OpCode.System]
      BY DEF IsSet, IsInstruction32
    <3>2. v = TypePrivileged(c)
      <4> DEFINE w == TypePrivileged(c)
      <4>1. /\ {0, 1} \subseteq w /\ w \subseteq 0 .. 31
            /\ OpField(w) = Bits[OpCode.System] /\ Rd(w) = {} /\ Funct3(w) = {} /\ Rs1(w) = {}
            /\ Rs2(w) = Bits[Privileged[c][2]] /\ Funct7(w) = Bits[Privileged[c][1]]
        BY <2>3, PrivilegedFields
      <4> HIDE DEF w
      <4>2. /\ OpField(v) = OpField(w) /\ Rd(v) = Rd(w) /\ Funct3(v) = Funct3(w)
            /\ Rs1(v) = Rs1(w) /\ Rs2(v) = Rs2(w) /\ Funct7(v) = Funct7(w)
        BY <1>2, <2>3, <3>1, <4>1
      <4>3. v = w
        BY <3>1, <4>1, <4>2, FieldsDetermine
      <4> QED
        BY <4>3 DEF w
    <3> QED
      BY <2>3, <3>2 DEF IsSystem
  <2>4. CASE Funct7(v) = {} /\ plain /\ c = Select(calls, Rs2(v))
    <3> HIDE DEF calls
    <3>1. c \in DOMAIN calls /\ Rs2(v) = Bits[calls[c]]
      BY <2>4, SelectIs
    <3>2. c \in DOMAIN Privileged /\ Privileged[c][1] = 0 /\ Privileged[c][2] = calls[c]
      BY <3>1 DEF Privileged, calls
    <3>3. Funct7(v) = Bits[0]
      BY <2>4, BitsPower
    <3> QED
      BY <2>3, <2>4, <3>1, <3>2, <3>3
  <2>5. CASE Funct7(v) = Bits[\b0001000] /\ plain /\ c = Select(returns, Rs2(v))
    <3> HIDE DEF returns
    <3>1. c \in DOMAIN returns /\ Rs2(v) = Bits[returns[c]]
      BY <2>5, SelectIs
    <3>2. c \in DOMAIN Privileged /\ Privileged[c][1] = 8 /\ Privileged[c][2] = returns[c]
      BY <3>1 DEF Privileged, returns
    <3> QED
      BY <2>3, <2>5, <3>1, <3>2
  <2>6. CASE Funct7(v) = Bits[\b0001001] /\ Rd(v) = {} /\ c = "SFENCEVAM"
    BY <1>2, <2>6 DEF IsSystem
  <2> QED
    BY <2>2, <2>4, <2>5, <2>6
<1> QED
  BY <1>1, <1>2

LEMMA Called32IsType ==
  ASSUME NEW v, v \subseteq 0 .. 31, IsInstruction32(v), NEW ext, NEW c,
         Visit32(v, ext) = c, c # Illegal, c # "MRET"
  PROVE  IsType(c, v)
<1> DEFINE set == Select(OpCode, OpField(v))
<1>1. CASE set = Illegal
  <2>1. c = Illegal
    BY <1>1 DEF Visit32, Illegal
  <2> QED
    BY <2>1
<1>2. CASE set # Illegal
  <2>1. set \in DOMAIN OpCode /\ OpField(v) = Bits[OpCode[set]]
    BY <1>2, SelectIs, Zenon
  <2>2. IsSet(set, v)
    BY <2>1 DEF IsSet
  <2>3. set \in {"LUI", "AUIPC", "JAL", "JALR", "Branch", "Load", "Store", "ArithImm",
                 "ArithReg", "Fence", "System", "Atomic"}
    BY <2>1 DEF OpCode
  <2> HIDE DEF set
  <2>4. CASE set \in {"LUI", "AUIPC", "JAL"}
    <3>1. c = set
      BY <2>4 DEF Visit32, set
    <3> QED
      BY <3>1, <2>2, <2>4 DEF IsType
  <2>5. CASE set = "JALR"
    <3>1. c = "JALR" /\ Funct3(v) = {}
      BY <2>5 DEF Visit32, set
    <3> QED
      BY <3>1, <2>2, <2>5 DEF IsType
  <2>6. CASE set = "Branch"
    <3>1. c = Select(Branch, Funct3(v))
      BY <2>6 DEF Visit32, VisitBranchSet, set
    <3>2. HasFunct3(Branch, c, v)
      BY <3>1, SelectIs DEF HasFunct3
    <3> QED
      BY <3>2, <2>2, <2>6 DEF IsType
  <2>7. CASE set = "Load"
    <3>1. c = Select(Load, Funct3(v))
      BY <2>7 DEF Visit32, VisitLoadSet, set
    <3>2. HasFunct3(Load, c, v)
      BY <3>1, SelectIs DEF HasFunct3
    <3> QED
      BY <3>2, <2>2, <2>7 DEF IsType
  <2>8. CASE set = "Store"
    <3>1. c = Select(Store, Funct3(v))
      BY <2>8 DEF Visit32, VisitStoreSet, set
    <3>2. HasFunct3(Store, c, v)
      BY <3>1, SelectIs DEF HasFunct3
    <3> QED
      BY <3>2, <2>2, <2>8 DEF IsType
  <2>9. CASE set = "ArithImm"
    <3>1. VisitArithImmSet(v) = c
      BY <2>9 DEF Visit32, set
    <3>2. IsArithImm(c, v)
      BY <3>1, ArithImmIsType
    <3> QED
      BY <3>2, <2>2, <2>9 DEF IsType
  <2>10. CASE set = "ArithReg"
    <3>1. VisitArithRegSet(v, ext) = c
      BY <2>10 DEF Visit32, set
    <3>2. IsArithReg(c, v)
      BY <3>1, ArithRegIsType
    <3> QED
      BY <3>2, <2>2, <2>10 DEF IsType
  <2>11. CASE set = "Fence"
    <3>1. c = Select([FENCE |-> 0], Funct3(v))
      BY <2>11 DEF Visit32, VisitFenceSet, set
    <3>2. c \in DOMAIN [FENCE |-> 0] /\ Funct3(v) = Bits[[FENCE |-> 0][c]]
      BY <3>1, SelectIs, ZenonT(30)
    <3>3. c = "FENCE" /\ Funct3(v) = {}
      BY <3>2, BitsPower
    <3> QED
      BY <3>3, <2>2, <2>11 DEF IsType
  <2>12. CASE set = "System"
    <3>1. VisitSystemSet(v, ext) = c
      BY <2>12 DEF Visit32, set
    <3>2. IsSystem(c, v)
      BY <3>1, <2>2, <2>12, SystemIsType
    <3> QED
      BY <3>2, <2>2, <2>12 DEF IsType
  <2>13. CASE set = "Atomic"
    <3>1. c = Select(AtomicW, FunctAtomic(v))
      BY <2>13 DEF Visit32, VisitAtomicSet, set
    <3>2. c \in DOMAIN AtomicW
      BY <3>1, SelectIs
    <3> QED
      BY <3>2 DEF IsType
  <2> QED
    BY <2>3, <2>4, <2>5, <2>6, <2>7, <2>8, <2>9, <2>10, <2>11, <2>12, <2>13
<1> QED
  BY <1>1, <1>2

(***************************************************************************)
(* The 16-bit words.                                                       *)
(***************************************************************************)
LEMMA Quadrants ==
  ASSUME NEW v, IsInstruction16(v)
  PROVE  /\ Op16(v) \in {Bits[0], Bits[1], Bits[2]}
         /\ Bits[0] = {} /\ Bits[1] = {0} /\ Bits[2] = {1}
<1>1. Op16(v) = {i \in 0 .. 1 : i \in v}
  BY DEF Op16, GetBits
<1>2. ~(0 \in v /\ 1 \in v)
  BY DEF IsInstruction16
<1>3. Op16(v) = {} \/ Op16(v) = {0} \/ Op16(v) = {1}
  BY <1>1, <1>2
<1> QED
  BY <1>3, BitsPower

\* In quadrant 1 the label is that of CJAL.
LEMMA OnlyJumps ==
  ASSUME NEW v, Op16(v) = Bits[1]
  PROVE  VisitOp1(v) = "CJAL"
<1>1. Bits[1] # Bits[3] /\ Bits[1] # Bits[4]
  BY KeysUsed
<1>2. VisitOp1(v) = Select(Quadrant1, Bits[1])
  BY <1>1 DEF VisitOp1
<1>3. Select(Quadrant1, Bits[1]) \in DOMAIN Quadrant1
      /\ Bits[1] = Bits[Quadrant1[Select(Quadrant1, Bits[1])]]
  <2>1. "CJAL" \in {c \in DOMAIN Quadrant1 : Bits[Quadrant1[c]] = Bits[1]}
    BY DEF Quadrant1
  <2>2. Select(Quadrant1, Bits[1])
          = CHOOSE c \in {d \in DOMAIN Quadrant1 : Bits[Quadrant1[d]] = Bits[1]} : TRUE
    BY <2>1 DEF Select
  <2>3. Select(Quadrant1, Bits[1]) \in {d \in DOMAIN Quadrant1 : Bits[Quadrant1[d]] = Bits[1]}
    BY <2>1, <2>2
  <2> QED
    BY <2>3
<1>4. \A c \in DOMAIN Quadrant1 : c # "CJAL" => Quadrant1[c] \in {0, 2, 3, 4, 5, 6, 7}
  BY DEF Quadrant1
<1>5. \A n \in {0, 2, 3, 4, 5, 6, 7} : Bits[n] # Bits[1]
  BY KeysUsed
<1> QED
  BY <1>2, <1>3, <1>4, <1>5

LEMMA Called16IsCompressed ==
  ASSUME NEW v, IsInstruction16(v)
  PROVE  Visit16(v) \in Compressed \cup {Illegal}
<1> USE DEF Illegal, Compressed
<1>1. \A key : /\ Select(Quadrant0, key) \in {"CADDI4SPN", "CLW", "CSW", Illegal}
               /\ Select(Quadrant2, key) \in {"CSLLI", "CLWSP", "CSWSP", Illegal}
  BY SelectIs DEF Quadrant0, Quadrant2
<1>2. VisitOp0(v) \in Compressed \cup {Illegal}
  BY <1>1 DEF VisitOp0
<1>3. VisitCrType(v) \in Compressed \cup {Illegal}
  BY DEF VisitCrType
<1>4. VisitOp2(v) \in Compressed \cup {Illegal}
  BY <1>1, <1>3 DEF VisitOp2
<1>5. Op16(v) = Bits[1] => VisitOp1(v) = "CJAL"
  BY OnlyJumps
<1> HIDE DEF Illegal, Compressed
<1>6. "CJAL" \in Compressed
  BY DEF Compressed
<1>7. Bits[0] # Bits[1] /\ Bits[0] # Bits[2] /\ Bits[1] # Bits[2]
  BY Quadrants
<1> QED
  BY <1>2, <1>4, <1>5, <1>6, <1>7, Quadrants DEF Visit16

\* The class whose visitor is called is a class of the word, but for MRET.
LEMMA CalledIsType ==
  ASSUME NEW v, v \subseteq 0 .. 31, NEW n, NEW ext, NEW c,
         VisitInMemory(v, n, ext) = c, c # Illegal
  PROVE  IsType(c, v) \/ c = "MRET"
<1>1. CASE "C" \in ext /\ n >= 2 /\ IsInstruction16(v)
  <2>1. c = Visit16(v)
    BY <1>1 DEF VisitInMemory, IsInstruction16, IsInstruction32
  <2>2. c \in Compressed
    BY <1>1, <2>1, Called16IsCompressed
  <2> QED
    BY <1>1, <2>2 DEF IsType
<1>2. CASE ~("C" \in ext /\ n >= 2 /\ IsInstruction16(v))
  <2>1. c = Visit32(v, ext) /\ IsInstruction32(v)
    BY <1>2 DEF VisitInMemory
  <2> QED
    BY <2>1, Called32IsType
<1> QED
  BY <1>1, <1>2

-----------------------------------------------------------------------------
(***************************************************************************)
(* Constructors: the fields of what Encode writes are those of its class   *)
(* and of its arguments, one lemma per format.                             *)
(***************************************************************************)
LEMMA Widths ==
  /\ \A n \in 0 .. 7 : Bits[n] \subseteq 0 .. 2
  /\ \A n \in 0 .. 31 : Bits[n] \subseteq 0 .. 4
  /\ \A n \in 0 .. 127 : Bits[n] \subseteq 0 .. 6
<1>1. ASSUME NEW n \in 0 .. 7
      PROVE  Bits[n] \subseteq 0 .. (3 - 1)
  <2>1. n \in KeyNumbers /\ 3 \in 0 .. 11 /\ n < 2^3
    BY PowersUsed DEF KeyNumbers
  <2> QED
    BY <2>1, BitsWithin, Zenon
<1>2. ASSUME NEW n \in 0 .. 31
      PROVE  Bits[n] \subseteq 0 .. (5 - 1)
  <2>1. n \in KeyNumbers /\ 5 \in 0 .. 11 /\ n < 2^5
    BY PowersUsed DEF KeyNumbers
  <2> QED
    BY <2>1, BitsWithin, Zenon
<1>3. ASSUME NEW n \in 0 .. 127
      PROVE  Bits[n] \subseteq 0 .. (7 - 1)
  <2>1. n \in KeyNumbers /\ 7 \in 0 .. 11 /\ n < 2^7
    BY PowersUsed DEF KeyNumbers
  <2> QED
    BY <2>1, BitsWithin, Zenon
<1> QED
  BY <1>1, <1>2, <1>3

\* Arguments that fit their fields.
Narrow ==
  [rd : SUBSET (0 .. 4), rs1 : SUBSET (0 .. 4), rs2 : SUBSET (0 .. 4),
   imm : SUBSET (0 .. 31), aq : BOOLEAN, rl : BOOLEAN]

LEMMA ConstructedU ==
  ASSUME NEW c \in {"LUI", "AUIPC"}, NEW a \in Narrow
  PROVE  LET v == Encode(c, a)
         IN v \subseteq 0 .. 31 /\ IsType(c, v) /\ Getters(c, v) = Carried(c, a)
<1> DEFINE v == TypeU(Bits[OpCode[c]], a)
<1>1. Encode(c, a) = v
  BY DEF Encode, Branch, Load, Store, ArithImm, ShiftLeftImm, ShiftRightImm,
         IntegerReg, IntegerRegMod, Privileged, AtomicW
<1>2. c \in DOMAIN OpCode
  BY DEF OpCode
<1>3. Bits[OpCode[c]] \subseteq 0 .. 4
  BY <1>2, OpCodes
<1>4. /\ {0, 1} \subseteq v /\ v \subseteq 0 .. 31 /\ OpField(v) = Bits[OpCode[c]]
      /\ Rd(v) = a.rd /\ ImmU(v) = a.imm \cap (12 .. 31)
  BY <1>3, TypeUFields DEF Narrow
<1> HIDE DEF v
<1>5. IsType(c, v)
  BY <1>2, <1>4, LongWord DEF IsType
<1>6. Getters(c, v) = [rd |-> Rd(v), imm |-> ImmU(v)]
  BY DEF Getters, ClassesI, ClassesR, ShiftImm, Branch, Load, Store, ArithImm,
         ShiftLeftImm, ShiftRightImm, IntegerReg, IntegerRegMod, Privileged, AtomicW
<1>7. Carried(c, a) = [rd |-> a.rd, imm |-> a.imm \cap (12 .. 31)]
  BY DEF Carried, ClassesI, ShiftImm, Branch, Load, Store, ArithImm, ShiftLeftImm, ShiftRightImm,
         IntegerReg, IntegerRegMod, Privileged, AtomicW
<1> QED
  BY <1>1, <1>4, <1>5, <1>6, <1>7

LEMMA ConstructedJ ==
  ASSUME NEW c \in {"JAL"}, NEW a \in Narrow
  PROVE  LET v == Encode(c, a)
         IN v \subseteq 0 .. 31 /\ IsType(c, v) /\ Getters(c, v) = Carried(c, a)
<1> DEFINE v == TypeJ(Bits[OpCode[c]], a)
<1>1. Encode(c, a) = v
  BY DEF Encode, Branch, Load, Store, ArithImm, ShiftLeftImm, ShiftRightImm,
         IntegerReg, IntegerRegMod, Privileged, AtomicW
<1>2. c \in DOMAIN OpCode
  BY DEF OpCode
<1>3. Bits[OpCode[c]] \subseteq 0 .. 4
  BY <1>2, OpCodes
<1>4. /\ {0, 1} \subseteq v /\ v \subseteq 0 .. 31 /\ OpField(v) = Bits[OpCode[c]]
      /\ Rd(v) = a.rd /\ ImmJ(v) = Signed(a.imm, 1, 20)
  BY <1>3, TypeJFields DEF Narrow
<1> HIDE DEF v
<1>5. IsType(c, v)
  BY <1>2, <1>4, LongWord DEF IsType
<1>6. Getters(c, v) = [rd |-> Rd(v), imm |-> ImmJ(v)]
  BY DEF Getters, ClassesI, ClassesR, ShiftImm, Branch, Load, Store, ArithImm,
         ShiftLeftImm, ShiftRightImm, IntegerReg, IntegerRegMod, Privileged, AtomicW
<1>7. Carried(c, a) = [rd |-> a.rd, imm |-> Signed(a.imm, 1, 20)]
  BY DEF Carried, ClassesI, ShiftImm, Branch, Load, Store, ArithImm, ShiftLeftImm, ShiftRightImm,
         IntegerReg, IntegerRegMod, Privileged, AtomicW
<1> QED
  BY <1>1, <1>4, <1>5, <1>6, <1>7

LEMMA ConstructedJALR ==
  ASSUME NEW c \in {"JALR"}, NEW a \in Narrow
  PROVE  LET v == Encode(c, a)
         IN v \subseteq 0 .. 31 /\ IsType(c, v) /\ Getters(c, v) = Carried(c, a)
<1> DEFINE v == TypeI(Bits[OpCode[c]], {}, a, a.imm)
<1>1. Encode(c, a) = v
  BY DEF Encode, Branch, Load, Store, ArithImm, ShiftLeftImm, ShiftRightImm,
         IntegerReg, IntegerRegMod, Privileged, AtomicW
<1>2. c \in DOMAIN OpCode
  BY DEF OpCode
<1>3. Bits[OpCode[c]] \subseteq 0 .. 4
  BY <1>2, OpCodes
<1>4. /\ {0, 1} \subseteq v /\ v \subseteq 0 .. 31 /\ OpField(v) = Bits[OpCode[c]]
      /\ Rd(v) = a.rd /\ Funct3(v) = {} /\ Rs1(v) = a.rs1
      /\ ImmI(v) = Signed(a.imm, 0, 11)
  <2>1. /\ Bits[OpCode[c]] \subseteq 0 .. 4 /\ {} \subseteq 0 .. 2
        /\ a.rd \subseteq 0 .. 4 /\ a.rs1 \subseteq 0 .. 4
        /\ a.imm \subseteq 0 .. 31
    BY <1>3 DEF Narrow
  <2>2. HasFieldsI(v, Bits[OpCode[c]], a.rd, {}, a.rs1, a.imm)
    BY <2>1, TypeIFields
  <2> QED
    BY <2>2 DEF HasFieldsI
<1> HIDE DEF v
<1>5. IsType(c, v)
  BY <1>2, <1>4, LongWord DEF IsType
<1>6. Getters(c, v) = [rd |-> Rd(v), rs1 |-> Rs1(v), imm |-> ImmI(v)]
  BY DEF Getters, ClassesI, ClassesR, ShiftImm, Branch, Load, Store, ArithImm,
         ShiftLeftImm, ShiftRightImm, IntegerReg, IntegerRegMod, Privileged, AtomicW
<1>7. Carried(c, a) = [rd |-> a.rd, rs1 |-> a.rs1, imm |-> Signed(a.imm, 0, 11)]
  BY DEF Carried, ClassesI, ShiftImm, Branch, Load, Store, ArithImm, ShiftLeftImm, ShiftRightImm,
         IntegerReg, IntegerRegMod, Privileged, AtomicW
<1> QED
  BY <1>1, <1>4, <1>5, <1>6, <1>7

LEMMA ConstructedLoad ==
  ASSUME NEW c \in DOMAIN Load, NEW a \in Narrow
  PROVE  LET v == Encode(c, a)
         IN v \subseteq 0 .. 31 /\ IsType(c, v) /\ Getters(c, v) = Carried(c, a)
<1> DEFINE v == TypeI(Bits[OpCode.Load], Bits[Load[c]], a, a.imm)
<1>1. Encode(c, a) = v
  BY DEF Encode, Branch, Load, Store, ArithImm, ShiftLeftImm, ShiftRightImm,
         IntegerReg, IntegerRegMod, Privileged, AtomicW
<1>2. "Load" \in DOMAIN OpCode /\ Load[c] \in 0 .. 7
  BY DEF OpCode, Load
<1>3. Bits[OpCode.Load] \subseteq 0 .. 4 /\ Bits[Load[c]] \subseteq 0 .. 2
  BY <1>2, OpCodes, Widths
<1>4. /\ {0, 1} \subseteq v /\ v \subseteq 0 .. 31 /\ OpField(v) = Bits[OpCode.Load]
      /\ Rd(v) = a.rd /\ Funct3(v) = Bits[Load[c]] /\ Rs1(v) = a.rs1
      /\ ImmI(v) = Signed(a.imm, 0, 11)
  <2>1. /\ Bits[OpCode.Load] \subseteq 0 .. 4 /\ Bits[Load[c]] \subseteq 0 .. 2
        /\ a.rd \subseteq 0 .. 4 /\ a.rs1 \subseteq 0 .. 4
        /\ a.imm \subseteq 0 .. 31
    BY <1>3 DEF Narrow
  <2>2. HasFieldsI(v, Bits[OpCode.Load], a.rd, Bits[Load[c]], a.rs1, a.imm)
    BY <2>1, TypeIFields
  <2> QED
    BY <2>2 DEF HasFieldsI
<1> HIDE DEF v
<1>5. IsType(c, v)
  BY <1>2, <1>4, LongWord DEF IsType, HasFunct3
<1>6. Getters(c, v) = [rd |-> Rd(v), rs1 |-> Rs1(v), imm |-> ImmI(v)]
  BY DEF Getters, ClassesI, ClassesR, ShiftImm, Branch, Load, Store, ArithImm,
         ShiftLeftImm, ShiftRightImm, IntegerReg, IntegerRegMod, Privileged, AtomicW
<1>7. Carried(c, a) = [rd |-> a.rd, rs1 |-> a.rs1, imm |-> Signed(a.imm, 0, 11)]
  BY DEF Carried, ClassesI, ShiftImm, Branch, Load, Store, ArithImm, ShiftLeftImm, ShiftRightImm,
         IntegerReg, IntegerRegMod, Privileged, AtomicW
<1> QED
  BY <1>1, <1>4, <1>5, <1>6, <1>7

LEMMA ConstructedArithImm ==
  ASSUME NEW c \in DOMAIN ArithImm, NEW a \in Narrow
  PROVE  LET v == Encode(c, a)
         IN v \subseteq 0 .. 31 /\ IsType(c, v) /\ Getters(c, v) = Carried(c, a)
<1> DEFINE v == TypeI(Bits[OpCode.ArithImm], Bits[ArithImm[c]], a, a.imm)
<1>1. Encode(c, a) = v
  BY DEF Encode, Branch, Load, Store, ArithImm, ShiftLeftImm, ShiftRightImm,
         IntegerReg, IntegerRegMod, Privileged, AtomicW
<1>2. "ArithImm" \in DOMAIN OpCode /\ ArithImm[c] \in 0 .. 7
  BY DEF OpCode, ArithImm
<1>3. Bits[OpCode.ArithImm] \subseteq 0 .. 4 /\ Bits[ArithImm[c]] \subseteq 0 .. 2
  BY <1>2, OpCodes, Widths
<1>4. /\ {0, 1} \subseteq v /\ v \subseteq 0 .. 31 /\ OpField(v) = Bits[OpCode.ArithImm]
      /\ Rd(v) = a.rd /\ Funct3(v) = Bits[ArithImm[c]] /\ Rs1(v) = a.rs1
      /\ ImmI(v) = Signed(a.imm, 0, 11)
  <2>1. /\ Bits[OpCode.ArithImm] \subseteq 0 .. 4 /\ Bits[ArithImm[c]] \subseteq 0 .. 2
        /\ a.rd \subseteq 0 .. 4 /\ a.rs1 \subseteq 0 .. 4
        /\ a.imm \subseteq 0 .. 31
    BY <1>3 DEF Narrow
  <2>2. HasFieldsI(v, Bits[OpCode.ArithImm], a.rd, Bits[ArithImm[c]], a.rs1, a.imm)
    BY <2>1, TypeIFields
  <2> QED
    BY <2>2 DEF HasFieldsI
<1> HIDE DEF v
<1>5. IsType(c, v)
  BY <1>2, <1>4, LongWord DEF IsType, IsArithImm, HasFunct3
<1>6. Getters(c, v) = [rd |-> Rd(v), rs1 |-> Rs1(v), imm |-> ImmI(v)]
  BY DEF Getters, ClassesI, ClassesR, ShiftImm, Branch, Load, Store, ArithImm,
         ShiftLeftImm, ShiftRightImm, IntegerReg, IntegerRegMod, Privileged, AtomicW
<1>7. Carried(c, a) = [rd |-> a.rd, rs1 |-> a.rs1, imm |-> Signed(a.imm, 0, 11)]
  BY DEF Carried, ClassesI, ShiftImm, Branch, Load, Store, ArithImm, ShiftLeftImm, ShiftRightImm,
         IntegerReg, IntegerRegMod, Privileged, AtomicW
<1> QED
  BY <1>1, <1>4, <1>5, <1>6, <1>7

LEMMA ConstructedBranch ==
  ASSUME NEW c \in DOMAIN Branch, NEW a \in Narrow
  PROVE  LET v == Encode(c, a)
         IN v \subseteq 0 .. 31 /\ IsType(c, v) /\ Getters(c, v) = Carried(c, a)
<1> DEFINE v == TypeB(Bits[OpCode.Branch], Bits[Branch[c]], a)
<1>1. Encode(c, a) = v
  BY DEF Encode, Branch, Load, Store, ArithImm, ShiftLeftImm, ShiftRightImm,
         IntegerReg, IntegerRegMod, Privileged, AtomicW
<1>2. "Branch" \in DOMAIN OpCode /\ Branch[c] \in 0 .. 7
  BY DEF OpCode, Branch
<1>3. Bits[OpCode.Branch] \subseteq 0 .. 4 /\ Bits[Branch[c]] \subseteq 0 .. 2
  BY <1>2, OpCodes, Widths
<1>4. /\ {0, 1} \subseteq v /\ v \subseteq 0 .. 31 /\ OpField(v) = Bits[OpCode.Branch]
      /\ Funct3(v) = Bits[Branch[c]] /\ Rs1(v) = a.rs1 /\ Rs2(v) = a.rs2
      /\ ImmB(v) = Signed(a.imm, 1, 12)
  BY <1>3, TypeBFields DEF Narrow
<1> HIDE DEF v
<1>5. IsType(c, v)
  BY <1>2, <1>4, LongWord DEF IsType, HasFunct3
<1>6. Getters(c, v) = [rs1 |-> Rs1(v), rs2 |-> Rs2(v), imm |-> ImmB(v)]
  BY DEF Getters, ClassesI, ClassesR, ShiftImm, Branch, Load, Store, ArithImm,
         ShiftLeftImm, ShiftRightImm, IntegerReg, IntegerRegMod, Privileged, AtomicW
<1>7. Carried(c, a) = [rs1 |-> a.rs1, rs2 |-> a.rs2, imm |-> Signed(a.imm, 1, 12)]
  BY DEF Carried, ClassesI, ShiftImm, Branch, Load, Store, ArithImm, ShiftLeftImm, ShiftRightImm,
         IntegerReg, IntegerRegMod, Privileged, AtomicW
<1> QED
  BY <1>1, <1>4, <1>5, <1>6, <1>7

LEMMA ConstructedStore ==
  ASSUME NEW c \in DOMAIN Store, NEW a \in Narrow
  PROVE  LET v == Encode(c, a)
         IN v \subseteq 0 .. 31 /\ IsType(c, v) /\ Getters(c, v) = Carried(c, a)
<1> DEFINE v == TypeS(Bits[OpCode.Store], Bits[Store[c]], a)
<1>1. Encode(c, a) = v
  BY DEF Encode, Branch, Load, Store, ArithImm, ShiftLeftImm, ShiftRightImm,
         IntegerReg, IntegerRegMod, Privileged, AtomicW
<1>2. "Store" \in DOMAIN OpCode /\ Store[c] \in 0 .. 7
  BY DEF OpCode, Store
<1>3. Bits[OpCode.Store] \subseteq 0 .. 4 /\ Bits[Store[c]] \subseteq 0 .. 2
  BY <1>2, OpCodes, Widths
<1>4. /\ {0, 1} \subseteq v /\ v \subseteq 0 .. 31 /\ OpField(v) = Bits[OpCode.Store]
      /\ Funct3(v) = Bits[Store[c]] /\ Rs1(v) = a.rs1 /\ Rs2(v) = a.rs2
      /\ ImmS(v) = Signed(a.imm, 0, 11)
  BY <1>3, TypeSFields DEF Narrow
<1> HIDE DEF v
<1>5. IsType(c, v)
  BY <1>2, <1>4, LongWord DEF IsType, HasFunct3
<1>6. Getters(c, v) = [rs1 |-> Rs1(v), rs2 |-> Rs2(v), imm |-> ImmS(v)]
  BY DEF Getters, ClassesI, ClassesR, ShiftImm, Branch, Load, Store, ArithImm,
         ShiftLeftImm, ShiftRightImm, IntegerReg, IntegerRegMod, Privileged, AtomicW
<1>7. Carried(c, a) = [rs1 |-> a.rs1, rs2 |-> a.rs2, imm |-> Signed(a.imm, 0, 11)]
  BY DEF Carried, ClassesI, ShiftImm, Branch, Load, Store, ArithImm, ShiftLeftImm, ShiftRightImm,
         IntegerReg, IntegerRegMod, Privileged, AtomicW
<1> QED
  BY <1>1, <1>4, <1>5, <1>6, <1>7

LEMMA ConstructedIntegerReg ==
  ASSUME NEW c \in DOMAIN IntegerReg, NEW a \in Narrow
  PROVE  LET v == Encode(c, a)
         IN v \subseteq 0 .. 31 /\ IsType(c, v) /\ Getters(c, v) = Carried(c, a)
<1> DEFINE v == TypeR(Bits[OpCode.ArithReg], Bits[IntegerReg[c]], a, a.rs2, {})
<1>1. Encode(c, a) = v
  BY DEF Encode, Branch, Load, Store, ArithImm, ShiftLeftImm, ShiftRightImm,
         IntegerReg, IntegerRegMod, Privileged, AtomicW
<1>2. "ArithReg" \in DOMAIN OpCode /\ IntegerReg[c] \in 0 .. 7
  BY DEF OpCode, IntegerReg
<1>3. /\ Bits[OpCode.ArithReg] \subseteq 0 .. 4 /\ Bits[IntegerReg[c]] \subseteq 0 .. 2
      /\ {} \subseteq 0 .. 6
  BY <1>2, OpCodes, Widths
<1>4. /\ {0, 1} \subseteq v /\ v \subseteq 0 .. 31 /\ OpField(v) = Bits[OpCode.ArithReg]
      /\ Rd(v) = a.rd /\ Funct3(v) = Bits[IntegerReg[c]] /\ Rs1(v) = a.rs1 /\ Rs2(v) = a.rs2
      /\ Funct7(v) = {}
  <2>1. /\ Bits[OpCode.ArithReg] \subseteq 0 .. 4 /\ Bits[IntegerReg[c]] \subseteq 0 .. 2
        /\ a.rd \subseteq 0 .. 4 /\ a.rs1 \subseteq 0 .. 4
        /\ a.rs2 \subseteq 0 .. 4 /\ {} \subseteq 0 .. 6
    BY <1>3 DEF Narrow
  <2>2. HasFieldsR(v, Bits[OpCode.ArithReg], a.rd, Bits[IntegerReg[c]], a.rs1, a.rs2,
                   {})
    BY <2>1, TypeRFields
  <2> QED
    BY <2>2 DEF HasFieldsR
<1> HIDE DEF v
<1>5. IsType(c, v)
  BY <1>2, <1>4, LongWord DEF IsType, IsArithReg, HasFunct3
<1>6. Getters(c, v) = [rd |-> Rd(v), rs1 |-> Rs1(v), rs2 |-> Rs2(v)]
  BY DEF Getters, ClassesI, ClassesR, ShiftImm, Branch, Load, Store, ArithImm,
         ShiftLeftImm, ShiftRightImm, IntegerReg, IntegerRegMod, Privileged, AtomicW, Registers3
<1>7. Carried(c, a) = [rd |-> a.rd, rs1 |-> a.rs1, rs2 |-> a.rs2]
  BY DEF Carried, ClassesI, ShiftImm, Branch, Load, Store, ArithImm, ShiftLeftImm, ShiftRightImm,
         IntegerReg, IntegerRegMod, Privileged, AtomicW
<1> QED
  BY <1>1, <1>4, <1>5, <1>6, <1>7

LEMMA ConstructedIntegerRegMod ==
  ASSUME NEW c \in DOMAIN IntegerRegMod, NEW a \in Narrow
  PROVE  LET v == Encode(c, a)
         IN v \subseteq 0 .. 31 /\ IsType(c, v) /\ Getters(c, v) = Carried(c, a)
<1> DEFINE v == TypeR(Bits[OpCode.ArithReg], Bits[IntegerRegMod[c]], a, a.rs2, Bits[\b0100000])
<1>1. Encode(c, a) = v
  BY DEF Encode, Branch, Load, Store, ArithImm, ShiftLeftImm, ShiftRightImm,
         IntegerReg, IntegerRegMod, Privileged, AtomicW
<1>2. "ArithReg" \in DOMAIN OpCode /\ IntegerRegMod[c] \in 0 .. 7
  BY DEF OpCode, IntegerRegMod
<1>3. /\ Bits[OpCode.ArithReg] \subseteq 0 .. 4 /\ Bits[IntegerRegMod[c]] \subseteq 0 .. 2
      /\ Bits[\b0100000] \subseteq 0 .. 6
  BY <1>2, OpCodes, Widths
<1>4. /\ {0, 1} \subseteq v /\ v \subseteq 0 .. 31 /\ OpField(v) = Bits[OpCode.ArithReg]
      /\ Rd(v) = a.rd /\ Funct3(v) = Bits[IntegerRegMod[c]] /\ Rs1(v) = a.rs1 /\ Rs2(v) = a.rs2
      /\ Funct7(v) = Bits[\b0100000]
  <2>1. /\ Bits[OpCode.ArithReg] \subseteq 0 .. 4 /\ Bits[IntegerRegMod[c]] \subseteq 0 .. 2
        /\ a.rd \subseteq 0 .. 4 /\ a.rs1 \subseteq 0 .. 4
        /\ a.rs2 \subseteq 0 .. 4 /\ Bits[\b0100000] \subseteq 0 .. 6
    BY <1>3 DEF Narrow
  <2>2. HasFieldsR(v, Bits[OpCode.ArithReg], a.rd, Bits[IntegerRegMod[c]], a.rs1, a.rs2,
                   Bits[\b0100000])
    BY <2>1, TypeRFields
  <2> QED
    BY <2>2 DEF HasFieldsR
<1> HIDE DEF v
<1>5. IsType(c, v)
  BY <1>2, <1>4, LongWord DEF IsType, IsArithReg, HasFunct3
<1>6. Getters(c, v) = [rd |-> Rd(v), rs1 |-> Rs1(v), rs2 |-> Rs2(v)]
  BY DEF Getters, ClassesI, ClassesR, ShiftImm, Branch, Load, Store, ArithImm,
         ShiftLeftImm, ShiftRightImm, IntegerReg, IntegerRegMod, Privileged, AtomicW, Registers3
<1>7. Carried(c, a) = [rd |-> a.rd, rs1 |-> a.rs1, rs2 |-> a.rs2]
  BY DEF Carried, ClassesI, ShiftImm, Branch, Load, Store, ArithImm, ShiftLeftImm, ShiftRightImm,
         IntegerReg, IntegerRegMod, Privileged, AtomicW
<1> QED
  BY <1>1, <1>4, <1>5, <1>6, <1>7

LEMMA ConstructedShiftLeft ==
  ASSUME NEW c \in DOMAIN ShiftLeftImm, NEW a \in Narrow
  PROVE  LET v == Encode(c, a)
         IN v \subseteq 0 .. 31 /\ IsType(c, v) /\ Getters(c, v) = Carried(c, a)
<1> DEFINE bits == GetBits(a.imm, 5, 0, 0) \cup Bits[ShiftLeftImm[c]]
           set == Bits[OpCode.ArithImm]
           key == Bits[1]
           v == TypeI(set, key, a, bits)
<1>1. Encode(c, a) = v
  BY DEF Encode, TypeShift, Branch, Load, Store, ArithImm, ShiftLeftImm, ShiftRightImm,
         IntegerReg, IntegerRegMod, Privileged, AtomicW
<1>2. "ArithImm" \in DOMAIN OpCode /\ ShiftLeftImm[c] \in {0, 1024}
  BY DEF OpCode, ShiftLeftImm
<1>3. /\ set \subseteq 0 .. 4 /\ key \subseteq 0 .. 2
      /\ Bits[ShiftLeftImm[c]] \subseteq {10} /\ a.rd \subseteq 0 .. 4 /\ a.rs1 \subseteq 0 .. 4
  BY <1>2, OpCodes, Widths, BitsPower DEF Narrow
<1>4. /\ bits \subseteq 0 .. 31 /\ bits \cap (0 .. 4) = a.imm \cap (0 .. 4)
      /\ bits \cap (5 .. 11) = Bits[ShiftLeftImm[c]]
  BY <1>3 DEF Narrow, GetBits
<1> HIDE DEF bits, set, key
<1>5. /\ {0, 1} \subseteq v /\ v \subseteq 0 .. 31 /\ OpField(v) = set
      /\ Rd(v) = a.rd /\ Funct3(v) = key /\ Rs1(v) = a.rs1
      /\ GetBits(v, 25, 20, 0) = bits \cap (0 .. 4) /\ FunctShift(v) = bits \cap (5 .. 11)
  <2>1. /\ set \subseteq 0 .. 4 /\ key \subseteq 0 .. 2
        /\ a.rd \subseteq 0 .. 4 /\ a.rs1 \subseteq 0 .. 4
        /\ bits \subseteq 0 .. 31
    BY <1>3, <1>4
  <2>2. HasFieldsI(v, set, a.rd, key, a.rs1, bits)
    BY <2>1, TypeIFields
  <2> QED
    BY <2>2 DEF HasFieldsI
<1> HIDE DEF v
<1>6. IsType(c, v)
  <2>1. IsSet("ArithImm", v)
    BY <1>2, <1>5, LongWord, ZenonT(30) DEF set
  <2>2. IsShift(ShiftLeftImm, 1, c, v)
    BY <1>4, <1>5 DEF IsShift, key
  <2> QED
    BY <2>1, <2>2 DEF IsType, IsArithImm
<1>7. Getters(c, v) = [rd |-> Rd(v), rs1 |-> Rs1(v), imm |-> GetBits(v, 25, 20, 0)]
  BY DEF Getters, ClassesI, ClassesR, ShiftImm, Branch, Load, Store, ArithImm,
         ShiftLeftImm, ShiftRightImm, IntegerReg, IntegerRegMod, Privileged, AtomicW
<1>8. Carried(c, a) = [rd |-> a.rd, rs1 |-> a.rs1, imm |-> a.imm \cap (0 .. 4)]
  BY DEF Carried, ClassesI, ShiftImm, Branch, Load, Store, ArithImm, ShiftLeftImm, ShiftRightImm,
         IntegerReg, IntegerRegMod, Privileged, AtomicW
<1> QED
  BY <1>1, <1>4, <1>5, <1>6, <1>7, <1>8

LEMMA ConstructedShiftRight ==
  ASSUME NEW c \in DOMAIN ShiftRightImm, NEW a \in Narrow
  PROVE  LET v == Encode(c, a)
         IN v \subseteq 0 .. 31 /\ IsType(c, v) /\ Getters(c, v) = Carried(c, a)
<1> DEFINE bits == GetBits(a.imm, 5, 0, 0) \cup Bits[ShiftRightImm[c]]
           set == Bits[OpCode.ArithImm]
           key == Bits[5]
           v == TypeI(set, key, a, bits)
<1>1. Encode(c, a) = v
  BY DEF Encode, TypeShift, Branch, Load, Store, ArithImm, ShiftLeftImm, ShiftRightImm,
         IntegerReg, IntegerRegMod, Privileged, AtomicW
<1>2. "ArithImm" \in DOMAIN OpCode /\ ShiftRightImm[c] \in {0, 1024}
  BY DEF OpCode, ShiftRightImm
<1>3. /\ set \subseteq 0 .. 4 /\ key \subseteq 0 .. 2
      /\ Bits[ShiftRightImm[c]] \subseteq {10} /\ a.rd \subseteq 0 .. 4 /\ a.rs1 \subseteq 0 .. 4
  BY <1>2, OpCodes, Widths, BitsPower DEF Narrow
<1>4. /\ bits \subseteq 0 .. 31 /\ bits \cap (0 .. 4) = a.imm \cap (0 .. 4)
      /\ bits \cap (5 .. 11) = Bits[ShiftRightImm[c]]
  BY <1>3 DEF Narrow, GetBits
<1> HIDE DEF bits, set, key
<1>5. /\ {0, 1} \subseteq v /\ v \subseteq 0 .. 31 /\ OpField(v) = set
      /\ Rd(v) = a.rd /\ Funct3(v) = key /\ Rs1(v) = a.rs1
      /\ GetBits(v, 25, 20, 0) = bits \cap (0 .. 4) /\ FunctShift(v) = bits \cap (5 .. 11)
  <2>1. /\ set \subseteq 0 .. 4 /\ key \subseteq 0 .. 2
        /\ a.rd \subseteq 0 .. 4 /\ a.rs1 \subseteq 0 .. 4
        /\ bits \subseteq 0 .. 31
    BY <1>3, <1>4
  <2>2. HasFieldsI(v, set, a.rd, key, a.rs1, bits)
    BY <2>1, TypeIFields
  <2> QED
    BY <2>2 DEF HasFieldsI
<1> HIDE DEF v
<1>6. IsType(c, v)
  <2>1. IsSet("ArithImm", v)
    BY <1>2, <1>5, LongWord, ZenonT(30) DEF set
  <2>2. IsShift(ShiftRightImm, 5, c, v)
    BY <1>4, <1>5 DEF IsShift, key
  <2> QED
    BY <2>1, <2>2 DEF IsType, IsArithImm
<1>7. Getters(c, v) = [rd |-> Rd(v), rs1 |-> Rs1(v), imm |-> GetBits(v, 25, 20, 0)]
  BY DEF Getters, ClassesI, ClassesR, ShiftImm, Branch, Load, Store, ArithImm,
         ShiftLeftImm, ShiftRightImm, IntegerReg, IntegerRegMod, Privileged, AtomicW
<1>8. Carried(c, a) = [rd |-> a.rd, rs1 |-> a.rs1, imm |-> a.imm \cap (0 .. 4)]
  BY DEF Carried, ClassesI, ShiftImm, Branch, Load, Store, ArithImm, ShiftLeftImm, ShiftRightImm,
         IntegerReg, IntegerRegMod, Privileged, AtomicW
<1> QED
  BY <1>1, <1>4, <1>5, <1>6, <1>7, <1>8

LEMMA ConstructedFENCE ==
  ASSUME NEW c \in {"FENCE"}, NEW a \in Narrow
  PROVE  LET v == Encode(c, a)
         IN v \subseteq 0 .. 31 /\ IsType(c, v) /\ Getters(c, v) = Carried(c, a)
<1> DEFINE v == TypeI(Bits[OpCode.Fence], {}, NoRegisters, a.imm)
<1>1. Encode(c, a) = v
  BY DEF Encode, Branch, Load, Store, ArithImm, ShiftLeftImm, ShiftRightImm,
         IntegerReg, IntegerRegMod, Privileged, AtomicW
<1>2. "Fence" \in DOMAIN OpCode
  BY DEF OpCode
<1>3. /\ Bits[OpCode.Fence] \subseteq 0 .. 4
      /\ NoRegisters.rd \subseteq 0 .. 4 /\ NoRegisters.rs1 \subseteq 0 .. 4
  BY <1>2, OpCodes DEF NoRegisters
<1>4. /\ {0, 1} \subseteq v /\ v \subseteq 0 .. 31 /\ OpField(v) = Bits[OpCode.Fence]
      /\ Funct3(v) = {} /\ GetBits(v, 32, 20, 0) = a.imm \cap (0 .. 11)
  <2>1. /\ Bits[OpCode.Fence] \subseteq 0 .. 4 /\ {} \subseteq 0 .. 2
        /\ NoRegisters.rd \subseteq 0 .. 4 /\ NoRegisters.rs1 \subseteq 0 .. 4
        /\ a.imm \subseteq 0 .. 31
    BY <1>3 DEF Narrow
  <2>2. HasFieldsI(v, Bits[OpCode.Fence], NoRegisters.rd, {}, NoRegisters.rs1, a.imm)
    BY <2>1, TypeIFields
  <2> QED
    BY <2>2 DEF HasFieldsI
<1> HIDE DEF v
<1>5. IsType(c, v)
  BY <1>2, <1>4, LongWord DEF IsType
<1>6. Getters(c, v) = [imm |-> GetBits(v, 32, 20, 0)]
  BY DEF Getters, ClassesI, ClassesR, ShiftImm, Branch, Load, Store, ArithImm,
         ShiftLeftImm, ShiftRightImm, IntegerReg, IntegerRegMod, Privileged, AtomicW
<1>7. Carried(c, a) = [imm |-> a.imm \cap (0 .. 11)]
  BY DEF Carried, ClassesI, ShiftImm, Branch, Load, Store, ArithImm, ShiftLeftImm, ShiftRightImm,
         IntegerReg, IntegerRegMod, Privileged, AtomicW
<1> QED
  BY <1>1, <1>4, <1>5, <1>6, <1>7

LEMMA ConstructedPrivileged ==
  ASSUME NEW c \in DOMAIN Privileged, NEW a \in Narrow
  PROVE  LET v == Encode(c, a)
         IN v \subseteq 0 .. 31 /\ IsType(c, v) /\ Getters(c, v) = Carried(c, a)
<1> DEFINE v == TypePrivileged(c)
<1>1. Encode(c, a) = v
  BY DEF Encode, Branch, Load, Store, ArithImm, ShiftLeftImm, ShiftRightImm,
         IntegerReg, IntegerRegMod, Privileged, AtomicW
<1>2. "System" \in DOMAIN OpCode
  BY DEF OpCode
<1>3. /\ {0, 1} \subseteq v /\ v \subseteq 0 .. 31 /\ OpField(v) = Bits[OpCode.System]
      /\ Rd(v) = {} /\ Rs1(v) = {} /\ Rs2(v) = Bits[Privileged[c][2]]
  BY PrivilegedFields
<1>4. IsType(c, v)
  BY <1>2, <1>3, LongWord DEF IsType, IsSystem
<1> HIDE DEF v
<1>5. Getters(c, v) = [rd |-> Rd(v), rs1 |-> Rs1(v), rs2 |-> Rs2(v)]
  BY DEF Getters, ClassesI, ClassesR, ShiftImm, Branch, Load, Store, ArithImm,
         ShiftLeftImm, ShiftRightImm, IntegerReg, IntegerRegMod, Privileged, AtomicW, Registers3
<1>6. Carried(c, a) = [rd |-> {}, rs1 |-> {}, rs2 |-> Bits[Privileged[c][2]]]
  BY DEF Carried, ClassesI, ShiftImm, Branch, Load, Store, ArithImm, ShiftLeftImm, ShiftRightImm,
         IntegerReg, IntegerRegMod, Privileged, AtomicW
<1> QED
  BY <1>1, <1>3, <1>4, <1>5, <1>6

LEMMA ConstructedSFENCEVAM ==
  ASSUME NEW c \in {"SFENCEVAM"}, NEW a \in Narrow
  PROVE  LET v == Encode(c, a)
         IN v \subseteq 0 .. 31 /\ IsType(c, v) /\ Getters(c, v) = Carried(c, a)
<1> DEFINE b == [a EXCEPT !.rd = {}]
           v == TypeR(Bits[OpCode.System], {}, b, a.rs2, Bits[\b0001001])
<1>1. Encode(c, a) = v
  BY DEF Encode, Branch, Load, Store, ArithImm, ShiftLeftImm, ShiftRightImm,
         IntegerReg, IntegerRegMod, Privileged, AtomicW
<1>2. "System" \in DOMAIN OpCode /\ b.rd = {} /\ b.rs1 = a.rs1
  BY DEF OpCode, Narrow
<1>3. /\ Bits[OpCode.System] \subseteq 0 .. 4 /\ Bits[\b0001001] \subseteq 0 .. 6
      /\ b.rd \subseteq 0 .. 4 /\ b.rs1 \subseteq 0 .. 4 /\ a.rs2 \subseteq 0 .. 4
  BY <1>2, OpCodes, Widths DEF Narrow
<1> HIDE DEF b
<1>4. /\ {0, 1} \subseteq v /\ v \subseteq 0 .. 31 /\ OpField(v) = Bits[OpCode.System]
      /\ Rd(v) = {} /\ Funct3(v) = {} /\ Rs1(v) = a.rs1 /\ Rs2(v) = a.rs2
      /\ Funct7(v) = Bits[\b0001001]
  <2>1. /\ Bits[OpCode.System] \subseteq 0 .. 4 /\ {} \subseteq 0 .. 2
        /\ b.rd \subseteq 0 .. 4 /\ b.rs1 \subseteq 0 .. 4
        /\ a.rs2 \subseteq 0 .. 4 /\ Bits[\b0001001] \subseteq 0 .. 6
    BY <1>2, <1>3 DEF Narrow
  <2>2. HasFieldsR(v, Bits[OpCode.System], b.rd, {}, b.rs1, a.rs2,
                   Bits[\b0001001])
    BY <2>1, TypeRFields
  <2> QED
    BY <1>2, <2>2 DEF HasFieldsR
<1> HIDE DEF v
<1>5. IsType(c, v)
  BY <1>2, <1>4, LongWord DEF IsType, IsSystem
<1>6. Getters(c, v) = [rd |-> Rd(v), rs1 |-> Rs1(v), rs2 |-> Rs2(v)]
  BY DEF Getters, ClassesI, ClassesR, ShiftImm, Branch, Load, Store, ArithImm,
         ShiftLeftImm, ShiftRightImm, IntegerReg, IntegerRegMod, Privileged, AtomicW, Registers3
<1>7. Carried(c, a) = [rd |-> {}, rs1 |-> a.rs1, rs2 |-> a.rs2]
  BY DEF Carried, ClassesI, ShiftImm, Branch, Load, Store, ArithImm, ShiftLeftImm, ShiftRightImm,
         IntegerReg, IntegerRegMod, Privileged, AtomicW
<1> QED
  BY <1>1, <1>4, <1>5, <1>6, <1>7

LEMMA ConstructedAtomic ==
  ASSUME NEW c \in DOMAIN AtomicW, NEW a \in Narrow, NEW ext, "A" \in ext
  PROVE  LET v == Encode(c, a)
         IN /\ v \subseteq 0 .. 31 /\ VisitInMemory(v, 4, ext) = c
            /\ Getters(c, v) = Carried(c, a)
<1> DEFINE key == Bits[AtomicW[c]]
           second == IF c = "LRW" THEN {} ELSE a.rs2
           flagged == {b \in {0} : a.aq} \cup {b \in {1} : a.rl} \cup GetBits(key, 5, 0, 2)
           set == Bits[OpCode.Atomic]
           width == Bits[2]
           v == TypeR(set, width, a, second, flagged)
<1>1. Encode(c, a) = v
  BY DEF Encode, TypeAtomic, Branch, Load, Store, ArithImm, ShiftLeftImm, ShiftRightImm,
         IntegerReg, IntegerRegMod, Privileged, AtomicW
<1>2. "Atomic" \in DOMAIN OpCode /\ AtomicW[c] \in 0 .. 31
  BY DEF OpCode, AtomicW
<1>3. /\ set \subseteq 0 .. 4 /\ width \subseteq 0 .. 2
      /\ key \subseteq 0 .. 4 /\ second \subseteq 0 .. 4
      /\ a.rd \subseteq 0 .. 4 /\ a.rs1 \subseteq 0 .. 4
  BY <1>2, OpCodes, Widths DEF Narrow
<1> HIDE DEF key
<1>4. /\ flagged \subseteq 0 .. 6 /\ \A i \in 0 .. 4 : i + 2 \in flagged <=> i \in key
      /\ (0 \in flagged <=> a.aq) /\ (1 \in flagged <=> a.rl)
  <2>1. GetBits(key, 5, 0, 2) = {i \in 2 .. 6 : i - 2 \in key}
    BY <1>3 DEF GetBits
  <2>2. \A i \in 0 .. 4 : (i + 2) - 2 = i
    OBVIOUS
  <2> QED
    BY <2>1, <2>2 DEF Narrow
<1> HIDE DEF second, flagged, set, width
<1>5. /\ {0, 1} \subseteq v /\ v \subseteq 0 .. 31 /\ OpField(v) = set
      /\ Rd(v) = a.rd /\ Funct3(v) = width /\ Rs1(v) = a.rs1 /\ Rs2(v) = second
      /\ Funct7(v) = flagged
  <2>1. /\ set \subseteq 0 .. 4 /\ width \subseteq 0 .. 2
        /\ a.rd \subseteq 0 .. 4 /\ a.rs1 \subseteq 0 .. 4
        /\ second \subseteq 0 .. 4 /\ flagged \subseteq 0 .. 6
    BY <1>3, <1>4
  <2>2. HasFieldsR(v, set, a.rd, width, a.rs1, second,
                   flagged)
    BY <2>1, TypeRFields
  <2> QED
    BY <2>2 DEF HasFieldsR
<1> HIDE DEF v
<1>6. /\ FunctAtomic(v) = key
      /\ (25 \in v <=> a.aq) /\ (26 \in v <=> a.rl)
  <2>1. Funct7(v) = {i \in 0 .. 6 : i + 25 \in v}
    BY <1>5 DEF Funct7, GetBits
  <2>2. FunctAtomic(v) = {i \in 0 .. 4 : i + 27 \in v}
    BY <1>5 DEF FunctAtomic, GetBits
  <2>3. \A i \in 0 .. 6 : i \in flagged <=> i + 25 \in v
    BY <1>5, <2>1
  <2>4. (0 \in flagged <=> 25 \in v) /\ (1 \in flagged <=> 26 \in v)
    BY <2>3
  <2>5. \A i \in 0 .. 4 : i + 2 \in flagged <=> i + 27 \in v
    BY <2>3
  <2>6. FunctAtomic(v) = {i \in 0 .. 4 : i \in key}
    BY <1>4, <2>2, <2>5
  <2> QED
    BY <1>3, <1>4, <2>4, <2>6
<1>7. VisitInMemory(v, 4, ext) = c
  <2>1. IsSet("Atomic", v)
    BY <1>2, <1>5, LongWord DEF set
  <2>2. VisitInMemory(v, 4, ext) = Visit32(v, ext) /\ Select(OpCode, OpField(v)) = "Atomic"
    BY <1>2, <1>5, <2>1, VisitSet
  <2>3. Visit32(v, ext) = Select(AtomicW, FunctAtomic(v))
    BY <1>5, <2>2 DEF Visit32, VisitAtomicSet, width
  <2>4. Select(AtomicW, key) = c
    BY SelectFinds, Tables, Zenon DEF key
  <2> QED
    BY <1>6, <2>2, <2>3, <2>4
<1>8. Getters(c, v) = Carried(c, a)
  <2> DEFINE registers == [rd |-> Rd(v), rs1 |-> Rs1(v), rs2 |-> Rs2(v)]
             flags == [aq |-> 26 \in v, rl |-> 25 \in v]
             plain == [rd |-> a.rd, rs1 |-> a.rs1, rs2 |-> a.rs2]
             given == [plain EXCEPT !.rs2 = IF c = "LRW" THEN {} ELSE @]
  <2>1. registers = given
    BY <1>5 DEF second
  <2>2. flags = [aq |-> a.rl, rl |-> a.aq]
    BY <1>6 DEF Narrow
  <2>3. Getters(c, v) = registers @@ flags
    BY DEF Getters, ClassesI, ClassesR, ShiftImm, Branch, Load, Store, ArithImm,
           ShiftLeftImm, ShiftRightImm, IntegerReg, IntegerRegMod, Privileged, AtomicW, Registers3
  <2>4. Carried(c, a) = given @@ [aq |-> a.rl, rl |-> a.aq]
    BY DEF Carried, ClassesI, ShiftImm, Branch, Load, Store, ArithImm, ShiftLeftImm, ShiftRightImm,
         IntegerReg, IntegerRegMod, Privileged, AtomicW
  <2> QED
    BY <2>1, <2>2, <2>3, <2>4, Zenon
<1> QED
  BY <1>1, <1>5, <1>7, <1>8

\* A class constructs words of its own.
LEMMA ConstructedIsVisited ==
  ASSUME NEW ext, NEW c \in Constructible(ext), NEW a \in Narrow
  PROVE  LET v == Encode(c, a)
         IN /\ v \subseteq 0 .. 31 /\ VisitInMemory(v, 4, ext) = c
            /\ Getters(c, v) = Carried(c, a)
<1>1. c \in InstructionMap(ext) /\ c \notin DOMAIN MulDiv /\ c \notin DOMAIN CsrInsts
      /\ c \notin Compressed
  BY DEF Constructible
<1>2. \/ c \in Base \cup {"SRET", "SFENCEVAM"}
      \/ c \in DOMAIN AtomicW /\ "A" \in ext
  BY <1>1 DEF InstructionMap
<1>3. CASE c \in DOMAIN AtomicW /\ "A" \in ext
  BY <1>3, ConstructedAtomic
<1>4. CASE c \in Base \cup {"SRET", "SFENCEVAM"}
  <2> DEFINE v == Encode(c, a)
  <2>1. \/ c \in {"LUI", "AUIPC"} \/ c \in {"JAL"} \/ c \in {"JALR"} \/ c \in DOMAIN Branch
        \/ c \in DOMAIN Load \/ c \in DOMAIN Store \/ c \in DOMAIN ArithImm
        \/ c \in DOMAIN ShiftLeftImm \/ c \in DOMAIN ShiftRightImm
        \/ c \in DOMAIN IntegerReg \/ c \in DOMAIN IntegerRegMod \/ c \in {"FENCE"}
        \/ c \in DOMAIN Privileged \/ c \in {"SFENCEVAM"}
    BY <1>4 DEF Base, ShiftImm, Privileged
  <2>2. v \subseteq 0 .. 31 /\ IsType(c, v) /\ Getters(c, v) = Carried(c, a)
    BY <2>1, ConstructedU, ConstructedJ, ConstructedJALR, ConstructedBranch, ConstructedLoad,
       ConstructedStore, ConstructedArithImm, ConstructedShiftLeft, ConstructedShiftRight,
       ConstructedIntegerReg, ConstructedIntegerRegMod, ConstructedFENCE, ConstructedPrivileged,
       ConstructedSFENCEVAM
  <2> HIDE DEF v
  <2>3. VisitInMemory(v, 4, ext) = c
    BY <1>1, <1>4, <2>2, CastVisits
  <2> QED
    BY <2>2, <2>3 DEF v
<1> QED
  BY <1>2, <1>3, <1>4

\* A register number that is too large for its field loses its upper bits.
LEMMA TruncatedIsNarrow ==
  ASSUME NEW a \in Arguments
  PROVE  /\ Truncated(a) \in Narrow
         /\ Truncated(a).imm = a.imm /\ Truncated(a).aq = a.aq /\ Truncated(a).rl = a.rl
         /\ Truncated(a).rd = a.rd \cap (0 .. 4) /\ Truncated(a).rs1 = a.rs1 \cap (0 .. 4)
         /\ Truncated(a).rs2 = a.rs2 \cap (0 .. 4)
<1> DEFINE m == Truncated(a)
<1>1. /\ m.imm = a.imm /\ m.aq = a.aq /\ m.rl = a.rl /\ m.rd = a.rd \cap (0 .. 4)
      /\ m.rs1 = a.rs1 \cap (0 .. 4) /\ m.rs2 = a.rs2 \cap (0 .. 4)
  BY DEF Truncated, Arguments
<1>2. [a EXCEPT !.rd = @ \cap (0 .. 4)]
        \in [rd : SUBSET (0 .. 4), rs1 : SUBSET (0 .. 31), rs2 : SUBSET (0 .. 31),
            imm : SUBSET (0 .. 31), aq : BOOLEAN, rl : BOOLEAN]
  BY DEF Arguments
<1>3. [a EXCEPT !.rd = @ \cap (0 .. 4), !.rs1 = @ \cap (0 .. 4)]
        \in [rd : SUBSET (0 .. 4), rs1 : SUBSET (0 .. 4), rs2 : SUBSET (0 .. 31),
            imm : SUBSET (0 .. 31), aq : BOOLEAN, rl : BOOLEAN]
  BY <1>2 DEF Arguments
<1>4. m \in Narrow
  BY <1>3 DEF Narrow, Truncated, Arguments
<1> QED
  BY <1>1, <1>4

\* Of a register number, only the low five bits enter an encoding.
LEMMA EncodeTruncates ==
  ASSUME NEW ext, NEW c \in Constructible(ext), NEW a \in Arguments
  PROVE  Encode(c, a) = Encode(c, Truncated(a))
<1> DEFINE m == Truncated(a)
           aUnnamed == [a EXCEPT !.rd = {}]
           mUnnamed == [m EXCEPT !.rd = {}]
<1>1. /\ m \in Narrow
      /\ m.imm = a.imm /\ m.aq = a.aq /\ m.rl = a.rl /\ m.rd = a.rd \cap (0 .. 4)
      /\ m.rs1 = a.rs1 \cap (0 .. 4) /\ m.rs2 = a.rs2 \cap (0 .. 4)
  BY TruncatedIsNarrow
<1> HIDE DEF m
<1>2. /\ aUnnamed.rd = {} /\ aUnnamed.rs1 = a.rs1
      /\ mUnnamed.rd = {} /\ mUnnamed.rs1 = m.rs1
  BY <1>1 DEF Arguments, Narrow
<1> HIDE DEF aUnnamed, mUnnamed
<1>3. /\ RdBits(a) = RdBits(m) /\ Rs1Bits(a) = Rs1Bits(m) /\ Rs2Bits(a) = Rs2Bits(m)
      /\ GetBits(a.rs2, 5, 0, 20) = GetBits(m.rs2, 5, 0, 20)
  BY <1>1 DEF RdBits, Rs1Bits, Rs2Bits, GetBits, Arguments
<1>4. RdBits(aUnnamed) = RdBits(mUnnamed) /\ Rs1Bits(aUnnamed) = Rs1Bits(mUnnamed)
  BY <1>2, <1>3 DEF RdBits, Rs1Bits
<1>5. \A op, funct3, imm : TypeI(op, funct3, a, imm) = TypeI(op, funct3, m, imm)
  BY <1>3 DEF TypeI
<1>6. /\ \A op, funct3 : TypeS(op, funct3, a) = TypeS(op, funct3, m)
      /\ \A op, funct3 : TypeB(op, funct3, a) = TypeB(op, funct3, m)
      /\ \A op : TypeU(op, a) = TypeU(op, m)
      /\ \A op : TypeJ(op, a) = TypeJ(op, m)
  BY <1>1, <1>3 DEF TypeS, TypeB, TypeU, TypeJ
<1>7. \A op, funct3, funct7 :
        TypeR(op, funct3, a, a.rs2, funct7) = TypeR(op, funct3, m, m.rs2, funct7)
  BY <1>3 DEF TypeR
<1>8. \A op, funct3, funct7 :
        TypeR(op, funct3, aUnnamed, a.rs2, funct7) = TypeR(op, funct3, mUnnamed, m.rs2, funct7)
  BY <1>3, <1>4 DEF TypeR
<1>9. \A funct3, funct : TypeShift(funct3, funct, a) = TypeShift(funct3, funct, m)
  BY <1>1, <1>5 DEF TypeShift
<1>10. TypeAtomic(c, a) = TypeAtomic(c, m)
  <2>1. \A op, funct3, funct7 : TypeR(op, funct3, a, {}, funct7) = TypeR(op, funct3, m, {}, funct7)
    BY <1>3 DEF TypeR
  <2>2. CASE c = "LRW"
    BY <1>1, <2>1, <2>2 DEF TypeAtomic
  <2>3. CASE c # "LRW"
    BY <1>1, <1>7, <2>3 DEF TypeAtomic
  <2> QED
    BY <2>2, <2>3
<1>11. Encode(c, a) = Encode(c, m)
  <2>1. CASE c \in {"LUI", "AUIPC", "JAL"} \cup DOMAIN Branch \cup DOMAIN Store
    BY <2>1, <1>6 DEF Encode, Branch, Load, Store, ArithImm, ShiftLeftImm,
           ShiftRightImm, IntegerReg, IntegerRegMod, Privileged, AtomicW
  <2>2. CASE c \in {"JALR"} \cup DOMAIN Load \cup DOMAIN ArithImm
    BY <2>2, <1>1, <1>5 DEF Encode, Branch, Load, Store, ArithImm, ShiftLeftImm,
           ShiftRightImm, IntegerReg, IntegerRegMod, Privileged, AtomicW
  <2>3. CASE c \in DOMAIN ShiftLeftImm \cup DOMAIN ShiftRightImm
    BY <2>3, <1>9 DEF Encode, Branch, Load, Store, ArithImm, ShiftLeftImm,
           ShiftRightImm, IntegerReg, IntegerRegMod, Privileged, AtomicW
  <2>4. CASE c \in DOMAIN IntegerReg \cup DOMAIN IntegerRegMod
    BY <2>4, <1>7 DEF Encode, Branch, Load, Store, ArithImm, ShiftLeftImm,
           ShiftRightImm, IntegerReg, IntegerRegMod, Privileged, AtomicW
  <2>5. CASE c \in {"FENCE"} \cup DOMAIN Privileged
    BY <2>5, <1>1 DEF Encode, Branch, Load, Store, ArithImm, ShiftLeftImm,
           ShiftRightImm, IntegerReg, IntegerRegMod, Privileged, AtomicW
  <2>6. CASE c = "SFENCEVAM"
    BY <2>6, <1>8, ZenonT(30) DEF Encode, Branch, Load, Store, ArithImm, ShiftLeftImm,
           ShiftRightImm, IntegerReg, IntegerRegMod, Privileged, AtomicW, aUnnamed, mUnnamed
  <2>7. CASE c \in DOMAIN AtomicW
    BY <2>7, <1>10 DEF Encode, Branch, Load, Store, ArithImm, ShiftLeftImm,
           ShiftRightImm, IntegerReg, IntegerRegMod, Privileged, AtomicW
  <2>8. c \in Base \cup {"SRET", "SFENCEVAM"} \cup DOMAIN AtomicW
    BY DEF Constructible, InstructionMap
  <2> QED
    BY <2>1, <2>2, <2>3, <2>4, <2>5, <2>6, <2>7, <2>8 DEF Base, ShiftImm, Privileged
<1> QED
  BY <1>11 DEF m

-----------------------------------------------------------------------------
(***************************************************************************)
(* The invariant: what is in memory is a word, that of a constructor if    *)
(* one wrote it, and what was called is what visit_in_memory finds in it.  *)
(***************************************************************************)
DecoderInv ==
  /\ build \in Builds
  /\ inst \subseteq 0 .. 31
  /\ length \in {0, 2, 4}
  /\ visited # "none" => length > 0 /\ visited = VisitInMemory(inst, length, build)
  /\ built # Nothing =>
       /\ length = 4
       /\ built.class \in Constructible(build)
       /\ built.operands \in Arguments
       /\ inst = Encode(built.class, built.operands)

\* At every time of every program DecoderInv holds.
THEOREM DecoderInvariant == Spec => []DecoderInv
<1>1. Init => DecoderInv
  BY DEF Init, DecoderInv
<1>2. DecoderInv /\ [Next]_vars => DecoderInv'
  <2> SUFFICES ASSUME DecoderInv, [Next]_vars
               PROVE  DecoderInv'
    OBVIOUS
  <2>1. CASE Fetch
    <3>1. PICK v \in Fetched, n \in {2, 4} : inst' = v /\ length' = n
      BY <2>1 DEF Fetch
    <3>2. v \subseteq 0 .. 31
      BY WordsAssumption
    <3>3. visited = "none" /\ built = Nothing
      BY <2>1 DEF Fetch, DecoderInv
    <3> QED
      BY <2>1, <3>1, <3>2, <3>3 DEF Fetch, DecoderInv
  <2>2. CASE Construct
    <3>1. PICK c \in Constructible(build), a \in Operands :
            inst' = Encode(c, a) /\ built' = [class |-> c, operands |-> a]
      BY <2>2 DEF Construct
    <3>2. a \in Arguments
      BY WordsAssumption
    <3>3. inst' \subseteq 0 .. 31
      BY <3>1, <3>2, ConstructedIsVisited, EncodeTruncates, TruncatedIsNarrow
    <3>4. visited = "none" /\ built'.class = c /\ built'.operands = a
      BY <2>2, <3>1 DEF Construct, DecoderInv
    <3> QED
      BY <2>2, <3>1, <3>2, <3>3, <3>4 DEF Construct, DecoderInv
  <2>3. CASE Visit
    BY <2>3 DEF Visit, DecoderInv
  <2>4. CASE Forget
    BY <2>4 DEF Forget, DecoderInv
  <2>5. CASE UNCHANGED vars
    BY <2>5 DEF vars, DecoderInv
  <2> QED
    BY <2>1, <2>2, <2>3, <2>4, <2>5 DEF Next
<1> QED
  BY <1>1, <1>2, PTL DEF Spec

\* The visitor called and dyn_cast agree, for every word, every number of
\* bytes that may be read and every set of extensions: the word is of the class
\* whose visitor gets it (MRET excepted), and every word that dyn_cast takes
\* for a base or privileged class reaches the visitor of that class
\* (instruction_visitor.hpp visit_in_memory, is_self_type of the classes).
THEOREM VisitorAndCastAgreeTheorem == Spec => []VisitorAndCastAgree
<1>1. DecoderInv => VisitorAndCastAgree
  <2> SUFFICES ASSUME DecoderInv, visited # "none"
               PROVE  /\ Called => IsType(visited, inst) \/ visited = "MRET"
                      /\ length = 4 =>
                           \A c \in InstructionMap(build) \cap (Base \cup {"SRET", "SFENCEVAM"}) :
                              IsType(c, inst) => visited = c
    BY DEF VisitorAndCastAgree
  <2>1. inst \subseteq 0 .. 31 /\ visited = VisitInMemory(inst, length, build)
    BY DEF DecoderInv
  <2>2. Called => IsType(visited, inst) \/ visited = "MRET"
    BY <2>1, CalledIsType DEF Called
  <2>3. ASSUME length = 4,
               NEW c \in InstructionMap(build) \cap (Base \cup {"SRET", "SFENCEVAM"}),
               IsType(c, inst)
        PROVE  visited = c
    <3>1. VisitInMemory(inst, 4, build) = c
      BY <2>1, <2>3, CastVisits
    <3> QED
      BY <2>1, <2>3, <3>1
  <2> QED
    BY <2>2, <2>3
<1> QED
  BY <1>1, DecoderInvariant, PTL

\* What any class constructs, from any arguments, is visited as that class and
\* its getters give the arguments back, every bit of every immediate with its
\* sign; of an atomic, aq and rl come back exchanged (instruction.hpp InstructionTypeR ... InstructionTypeJ, the
\* constructors of rv32i.hpp, rv32a.hpp and privileged_instruction.hpp).
THEOREM ConstructedIsDecodedTheorem == Spec => []ConstructedIsDecoded
<1>1. DecoderInv => ConstructedIsDecoded
  <2> SUFFICES ASSUME DecoderInv, built # Nothing, visited # "none"
               PROVE  LET c == built.class
                          a == Truncated(built.operands)
                      IN  visited = c /\ Getters(c, inst) = Carried(c, a)
    BY DEF ConstructedIsDecoded
  <2> DEFINE c == built.class
             a == Truncated(built.operands)
  <2>1. c \in Constructible(build) /\ a \in Narrow
    BY TruncatedIsNarrow DEF DecoderInv
  <2>2. inst = Encode(c, a) /\ visited = VisitInMemory(inst, 4, build)
    BY EncodeTruncates DEF DecoderInv
  <2> HIDE DEF c, a
  <2>3. VisitInMemory(inst, 4, build) = c /\ Getters(c, inst) = Carried(c, a)
    BY <2>1, <2>2, ConstructedIsVisited
  <2>4. visited = c
    BY <2>2, <2>3
  <2> QED
    BY <2>3, <2>4 DEF c, a
<1> QED
  BY <1>1, DecoderInvariant, PTL

-----------------------------------------------------------------------------
(***************************************************************************)
(* The 16-bit words and the manual.                                        *)
(***************************************************************************)
LEMMA KeysOf16 ==
  \A m, n \in {0, 1, 2, 4, 6} : m # n => Bits[m] # Bits[n]
<1>1. {0, 1, 2, 4, 6} \subseteq KeyNumbers
  BY DEF KeyNumbers
<1> QED
  BY <1>1, BitsDistinct, Zenon

LEMMA SelectOf16 ==
  /\ Select(Quadrant0, Bits[0]) = "CADDI4SPN" /\ Select(Quadrant0, Bits[2]) = "CLW"
  /\ Select(Quadrant0, Bits[6]) = "CSW"
  /\ Select(Quadrant2, Bits[0]) = "CSLLI" /\ Select(Quadrant2, Bits[2]) = "CLWSP"
  /\ Select(Quadrant2, Bits[6]) = "CSWSP"
  /\ \A key : key \notin {Bits[0], Bits[2], Bits[6]} =>
       Select(Quadrant0, key) = Illegal /\ Select(Quadrant2, key) = Illegal
<1>1. Keys(Quadrant0, 8) /\ Keys(Quadrant2, 8)
  BY DEF Keys, KeyNumbers, Quadrant0, Quadrant2
<1>2. /\ DOMAIN Quadrant0 = {"CADDI4SPN", "CLW", "CSW"}
      /\ Quadrant0["CADDI4SPN"] = 0 /\ Quadrant0["CLW"] = 2 /\ Quadrant0["CSW"] = 6
  BY DEF Quadrant0
<1>3. /\ DOMAIN Quadrant2 = {"CSLLI", "CLWSP", "CSWSP"}
      /\ Quadrant2["CSLLI"] = 0 /\ Quadrant2["CLWSP"] = 2 /\ Quadrant2["CSWSP"] = 6
  BY DEF Quadrant2
<1>4. \A c \in DOMAIN Quadrant0 : Select(Quadrant0, Bits[Quadrant0[c]]) = c
  BY <1>1, SelectFinds, Zenon
<1>5. \A c \in DOMAIN Quadrant2 : Select(Quadrant2, Bits[Quadrant2[c]]) = c
  BY <1>1, SelectFinds, Zenon
<1>6. ASSUME NEW key, Select(Quadrant0, key) # Illegal
      PROVE  key \in {Bits[0], Bits[2], Bits[6]}
  BY <1>2, <1>6, SelectIs
<1>7. ASSUME NEW key, Select(Quadrant2, key) # Illegal
      PROVE  key \in {Bits[0], Bits[2], Bits[6]}
  BY <1>3, <1>7, SelectIs
<1> QED
  BY <1>2, <1>3, <1>4, <1>5, <1>6, <1>7

\* The visitor that the manual's tables and the exceptions to them give.
Expected(v) ==
  CASE Op16(v) = {} /\ Funct3of16(v) = {} ->
         IF ManualClass(v) = Illegal THEN "CADDI4SPN" ELSE Illegal
    [] Op16(v) = {1} /\ Funct3of16(v) = Bits[2] -> "CLWSP"
    [] Op16(v) = {0} -> "CJAL"
    [] OTHER         -> ManualClass(v)

\* The switches behind visit_16 follow the manual, but for the exceptions.
LEMMA VisitAsManual ==
  ASSUME NEW v, IsInstruction16(v)
  PROVE  Visit16(v) = Expected(v)
<1> DEFINE funct3 == Funct3of16(v)
           none == v \cap (2 .. 6) = {}
           zero == v \cap (7 .. 11) = {}
<1>1. Bits[0] = {} /\ Bits[1] = {0} /\ Bits[2] = {1} /\ Op16(v) \in {Bits[0], Bits[1], Bits[2]}
  BY Quadrants
<1>2. /\ Bits[0] # Bits[1] /\ Bits[0] # Bits[2] /\ Bits[1] # Bits[2] /\ Bits[0] # Bits[4]
      /\ Bits[0] # Bits[6] /\ Bits[2] # Bits[4] /\ Bits[2] # Bits[6] /\ Bits[4] # Bits[6]
      /\ Bits[1] # Bits[4] /\ Bits[1] # Bits[6]
  BY KeysOf16
<1>3. (Rs2of16(v) = {} <=> none) /\ (Rd16(v) = {} <=> zero)
  BY DEF Rs2of16, Rd16, GetBits
<1>4. none \in BOOLEAN /\ zero \in BOOLEAN
  OBVIOUS
<1> HIDE DEF funct3, none, zero
<1>5. CASE Op16(v) = Bits[0]
  <2>1. Visit16(v) = VisitOp0(v)
    BY <1>2, <1>5 DEF Visit16
  <2>2. CASE funct3 = {}
    <3>1. GetBits(v, 13, 5, 0) = {} <=> v \cap (5 .. 12) = {}
      BY DEF GetBits
    <3>2. ManualClass(v) = IF v \cap (5 .. 12) # {} THEN "CADDI4SPN" ELSE Illegal
      BY <1>1, <1>2, <1>5, <2>2 DEF ManualClass, funct3
    <3>3. Visit16(v) = IF v \cap (5 .. 12) # {} THEN Illegal ELSE "CADDI4SPN"
      BY <1>1, <2>1, <2>2, <3>1, SelectOf16 DEF VisitOp0, funct3
    <3>4. Expected(v) = IF ManualClass(v) = Illegal THEN "CADDI4SPN" ELSE Illegal
      BY <1>1, <1>5, <2>2 DEF Expected, funct3
    <3> QED
      BY <3>2, <3>3, <3>4 DEF Illegal
  <2>3. CASE funct3 # {}
    <3>1. ManualClass(v) = CASE funct3 = Bits[2] -> "CLW"
                             [] funct3 = Bits[6] -> "CSW"
                             [] OTHER            -> Illegal
      BY <1>1, <1>2, <1>5, <2>3 DEF ManualClass, funct3
    <3>2. Visit16(v) = Select(Quadrant0, funct3)
      BY <2>1, <2>3 DEF VisitOp0, funct3
    <3>3. Expected(v) = ManualClass(v)
      BY <1>1, <1>2, <1>5, <2>3 DEF Expected, funct3
    <3> QED
      BY <1>1, <1>2, <2>3, <3>1, <3>2, <3>3, SelectOf16
  <2> QED
    BY <2>2, <2>3
<1>6. CASE Op16(v) = Bits[1]
  <2>1. Visit16(v) = "CJAL"
    BY <1>2, <1>6, OnlyJumps DEF Visit16
  <2>2. Expected(v) = "CJAL"
    BY <1>1, <1>2, <1>6 DEF Expected
  <2> QED
    BY <2>1, <2>2
<1>7. CASE Op16(v) = Bits[2]
  <2>1. Visit16(v) = VisitOp2(v)
    BY <1>2, <1>7 DEF Visit16
  <2>2. CASE funct3 = Bits[4]
    <3>1. VisitOp2(v) = VisitCrType(v)
      BY <1>1, <1>2, <2>2 DEF VisitOp2, funct3
    <3>2. ManualClass(v) = CASE ~none                  -> IF 12 \in v THEN "CADD" ELSE "CMV"
                             [] none /\ ~zero          -> IF 12 \in v THEN "CJALR" ELSE "CJR"
                             [] none /\ zero /\ 12 \in v -> "CEBREAK"
                             [] OTHER                  -> Illegal
      BY <1>1, <1>2, <1>7, <2>2 DEF ManualClass, funct3, none, zero
    <3>3. Expected(v) = ManualClass(v)
      BY <1>1, <1>2, <1>7, <2>2 DEF Expected, funct3
    <3> QED
      BY <1>3, <1>4, <2>1, <3>1, <3>2, <3>3 DEF VisitCrType
  <2>3. CASE funct3 = Bits[2]
    <3>1. VisitOp2(v) = Select(Quadrant2, funct3)
      BY <1>1, <1>2, <2>3 DEF VisitOp2, funct3
    <3>2. Expected(v) = "CLWSP"
      BY <1>1, <1>2, <1>7, <2>3 DEF Expected, funct3
    <3> QED
      BY <2>1, <2>3, <3>1, <3>2, SelectOf16
  <2>4. CASE funct3 # Bits[4] /\ funct3 # Bits[2]
    <3>1. VisitOp2(v) = IF funct3 = {} /\ 12 \in v THEN Illegal ELSE Select(Quadrant2, funct3)
      BY <2>4 DEF VisitOp2, funct3
    <3>2. ManualClass(v) = CASE funct3 = {} /\ 12 \notin v -> "CSLLI"
                             [] funct3 = Bits[6]         -> "CSWSP"
                             [] OTHER                    -> Illegal
      BY <1>1, <1>2, <1>7, <2>4 DEF ManualClass, funct3
    <3>3. Expected(v) = ManualClass(v)
      BY <1>1, <1>2, <1>7, <2>4 DEF Expected, funct3
    <3> QED
      BY <1>1, <1>2, <2>1, <2>4, <3>1, <3>2, <3>3, SelectOf16
  <2> QED
    BY <2>2, <2>3, <2>4
<1> QED
  BY <1>1, <1>5, <1>6, <1>7

\* Which visitor every 16-bit word reaches: in quadrants 0 and 2 that of the
\* manual's class, and none for a reserved word, except that the test for a
\* zero immediate of C.ADDI4SPN is inverted and that the reserved C.LWSP with
\* rd = 0 is visited; in quadrant 1 always that of C.JAL
\* (instruction_visitor.hpp visit_16 and what it calls).
THEOREM CompressedAsManualTheorem == Spec => []CompressedAsManual
<1>1. DecoderInv => CompressedAsManual
  <2> SUFFICES ASSUME DecoderInv, visited # "none", "C" \in build, IsInstruction16(inst)
               PROVE  visited = Expected(inst)
    BY DEF CompressedAsManual, Expected
  <2>1. visited = VisitInMemory(inst, length, build) /\ length \in {2, 4}
    BY DEF DecoderInv
  <2>2. visited = Visit16(inst)
    BY <2>1 DEF VisitInMemory, IsInstruction16, IsInstruction32
  <2> QED
    BY <2>2, VisitAsManual
<1> QED
  BY <1>1, DecoderInvariant, PTL

-----------------------------------------------------------------------------
(***************************************************************************)
(* Compressed immediates: bit i of an offset is bit source[i] of the word. *)
(***************************************************************************)
AsMany(from, source, to, v) ==
  Cardinality({i \in from : source[i] \in v}) = Cardinality(v \cap to)

\* An offset put together from distinct bits of the word has as many ones as they.
LEMMA RearrangedBits ==
  ASSUME NEW from, from \subseteq 0 .. 31, NEW to, NEW source,
         source \in Bijection(from, to), NEW v
  PROVE  AsMany(from, source, to, v)
<1> DEFINE S == {i \in from : source[i] \in v}
           T == v \cap to
           f == [i \in S |-> source[i]]
<1>1. /\ source \in [from -> to]
      /\ \A a, b \in from : source[a] = source[b] => a = b
      /\ \A t \in to : \E s \in from : source[s] = t
  BY DEF Bijection, Injection, Surjection, IsInjective
<1>2. IsFiniteSet(S)
  <2>1. IsFiniteSet(0 .. 31)
    BY 0 \in Int, 31 \in Int, FS_Interval, Zenon
  <2>2. S \in SUBSET (0 .. 31)
    OBVIOUS
  <2> QED
    BY <2>1, <2>2, FS_Subset, Zenon
<1>3. f \in [S -> T]
  BY <1>1
<1>4. \A a, b \in S : f[a] = f[b] => a = b
  BY <1>1
<1>5. \A t \in T : \E s \in S : f[s] = t
  <2> SUFFICES ASSUME NEW t \in T
               PROVE  \E s \in S : f[s] = t
    OBVIOUS
  <2>1. PICK s \in from : source[s] = t
    BY <1>1
  <2>2. s \in S /\ f[s] = t
    BY <2>1
  <2> QED
    BY <2>2
<1>6. f \in Bijection(S, T)
  <2> HIDE DEF S, T, f
  <2> QED
    BY <1>3, <1>4, <1>5, Fun_IsBij
<1>7. ExistsBijection(S, T)
  BY <1>6 DEF ExistsBijection
<1> QED
  BY <1>2, <1>7, FS_Bijection DEF AsMany

LEMMA OffsetCLW ==
  ASSUME NEW c \in {"CLW", "CSW"}, NEW v, v \subseteq 0 .. 31
  PROVE  /\ CompressedOffset(c, v) \cap {0, 1} = {}
         /\ Cardinality(CompressedOffset(c, v)) = Cardinality(v \cap OffsetPositions[c])
<1> DEFINE from == 2 .. 6
           to == {5, 6} \cup (10 .. 12)
           source == [i \in from |-> IF i = 2 THEN 6 ELSE IF i = 6 THEN 5 ELSE i + 7]
<1>1. CompressedOffset(c, v) = {i \in from : source[i] \in v}
  BY DEF CompressedOffset, GetBits, SliceImmW
<1>2. OffsetPositions[c] = to
  BY DEF OffsetPositions
<1>3. source \in Bijection(from, to)
  <2>1. source \in [from -> to]
    OBVIOUS
  <2>2. \A a, b \in from : source[a] = source[b] => a = b
    OBVIOUS
  <2>3. \A t \in to : \E s \in from : source[s] = t
    <3> SUFFICES ASSUME NEW t \in to
                 PROVE  \E s \in from : source[s] = t
      OBVIOUS
    <3> DEFINE s == IF t = 6 THEN 2 ELSE IF t = 5 THEN 6 ELSE t - 7
    <3>1. s \in from /\ source[s] = t
      OBVIOUS
    <3> HIDE DEF s
    <3> QED
      BY <3>1
  <2> HIDE DEF from, to, source
  <2> QED
    BY <2>1, <2>2, <2>3, Fun_IsBij
<1>4. from \subseteq 0 .. 31 /\ from \cap {0, 1} = {}
  OBVIOUS
<1> HIDE DEF from, to, source
<1>5. AsMany(from, source, to, v)
  BY <1>3, <1>4, RearrangedBits
<1> QED
  BY <1>1, <1>2, <1>4, <1>5 DEF AsMany

LEMMA OffsetCLWSP ==
  ASSUME NEW c \in {"CLWSP"}, NEW v, v \subseteq 0 .. 31
  PROVE  /\ CompressedOffset(c, v) \cap {0, 1} = {}
         /\ Cardinality(CompressedOffset(c, v)) = Cardinality(v \cap OffsetPositions[c])
<1> DEFINE from == 2 .. 7
           to == (2 .. 6) \cup {12}
           source == [i \in from |-> IF i <= 4 THEN i + 2 ELSE IF i = 5 THEN 12 ELSE i - 4]
<1>1. CompressedOffset(c, v) = {i \in from : source[i] \in v}
  BY DEF CompressedOffset, GetBits
<1>2. OffsetPositions[c] = to
  BY DEF OffsetPositions
<1>3. source \in Bijection(from, to)
  <2>1. source \in [from -> to]
    OBVIOUS
  <2>2. \A a, b \in from : source[a] = source[b] => a = b
    OBVIOUS
  <2>3. \A t \in to : \E s \in from : source[s] = t
    <3> SUFFICES ASSUME NEW t \in to
                 PROVE  \E s \in from : source[s] = t
      OBVIOUS
    <3> DEFINE s == IF t = 12 THEN 5 ELSE IF t <= 3 THEN t + 4 ELSE t - 2
    <3>1. s \in from /\ source[s] = t
      OBVIOUS
    <3> HIDE DEF s
    <3> QED
      BY <3>1
  <2> HIDE DEF from, to, source
  <2> QED
    BY <2>1, <2>2, <2>3, Fun_IsBij
<1>4. from \subseteq 0 .. 31 /\ from \cap {0, 1} = {}
  OBVIOUS
<1> HIDE DEF from, to, source
<1>5. AsMany(from, source, to, v)
  BY <1>3, <1>4, RearrangedBits
<1> QED
  BY <1>1, <1>2, <1>4, <1>5 DEF AsMany

LEMMA OffsetCSWSP ==
  ASSUME NEW c \in {"CSWSP"}, NEW v, v \subseteq 0 .. 31
  PROVE  /\ CompressedOffset(c, v) \cap {0, 1} = {}
         /\ Cardinality(CompressedOffset(c, v)) = Cardinality(v \cap OffsetPositions[c])
<1> DEFINE from == 2 .. 7
           to == 7 .. 12
           source == [i \in from |-> IF i <= 5 THEN i + 7 ELSE i + 1]
<1>1. CompressedOffset(c, v) = {i \in from : source[i] \in v}
  BY DEF CompressedOffset, GetBits
<1>2. OffsetPositions[c] = to
  BY DEF OffsetPositions
<1>3. source \in Bijection(from, to)
  <2>1. source \in [from -> to]
    OBVIOUS
  <2>2. \A a, b \in from : source[a] = source[b] => a = b
    OBVIOUS
  <2>3. \A t \in to : \E s \in from : source[s] = t
    <3> SUFFICES ASSUME NEW t \in to
                 PROVE  \E s \in from : source[s] = t
      OBVIOUS
    <3> DEFINE s == IF t >= 9 THEN t - 7 ELSE t - 1
    <3>1. s \in from /\ source[s] = t
      OBVIOUS
    <3> HIDE DEF s
    <3> QED
      BY <3>1
  <2> HIDE DEF from, to, source
  <2> QED
    BY <2>1, <2>2, <2>3, Fun_IsBij
<1>4. from \subseteq 0 .. 31 /\ from \cap {0, 1} = {}
  OBVIOUS
<1> HIDE DEF from, to, source
<1>5. AsMany(from, source, to, v)
  BY <1>3, <1>4, RearrangedBits
<1> QED
  BY <1>1, <1>2, <1>4, <1>5 DEF AsMany

LEMMA OffsetCADDI4SPN ==
  ASSUME NEW c \in {"CADDI4SPN"}, NEW v, v \subseteq 0 .. 31
  PROVE  /\ CompressedOffset(c, v) \cap {0, 1} = {}
         /\ Cardinality(CompressedOffset(c, v)) = Cardinality(v \cap OffsetPositions[c])
<1> DEFINE from == 2 .. 9
           to == 5 .. 12
           source == [i \in from |-> IF i = 2 THEN 6 ELSE IF i = 3 THEN 5 ELSE IF i <= 5 THEN i + 7
                               ELSE i + 1]
<1>1. CompressedOffset(c, v) = {i \in from : source[i] \in v}
  BY DEF CompressedOffset, GetBits
<1>2. OffsetPositions[c] = to
  BY DEF OffsetPositions
<1>3. source \in Bijection(from, to)
  <2>1. source \in [from -> to]
    OBVIOUS
  <2>2. \A a, b \in from : source[a] = source[b] => a = b
    OBVIOUS
  <2>3. \A t \in to : \E s \in from : source[s] = t
    <3> SUFFICES ASSUME NEW t \in to
                 PROVE  \E s \in from : source[s] = t
      OBVIOUS
    <3> DEFINE s == IF t = 6 THEN 2 ELSE IF t = 5 THEN 3 ELSE IF t >= 11 THEN t - 7 ELSE t - 1
    <3>1. s \in from /\ source[s] = t
      OBVIOUS
    <3> HIDE DEF s
    <3> QED
      BY <3>1
  <2> HIDE DEF from, to, source
  <2> QED
    BY <2>1, <2>2, <2>3, Fun_IsBij
<1>4. from \subseteq 0 .. 31 /\ from \cap {0, 1} = {}
  OBVIOUS
<1> HIDE DEF from, to, source
<1>5. AsMany(from, source, to, v)
  BY <1>3, <1>4, RearrangedBits
<1> QED
  BY <1>1, <1>2, <1>4, <1>5 DEF AsMany

\* The offset of a compressed load, store or C.ADDI4SPN is a multiple of the
\* word size and no bit of the encoding is lost, whatever the word
\* (rvc.hpp get_imm, instruction.hpp slice_imm_w).
THEOREM CompressedOffsetsExactTheorem == Spec => []CompressedOffsetsExact
<1>1. DecoderInv => CompressedOffsetsExact
  <2> SUFFICES ASSUME DecoderInv, NEW c \in DOMAIN OffsetPositions
               PROVE  LET offset == CompressedOffset(c, inst)
                      IN  /\ offset \cap {0, 1} = {}
                          /\ Cardinality(offset) = Cardinality(inst \cap OffsetPositions[c])
    BY DEF CompressedOffsetsExact
  <2>1. inst \subseteq 0 .. 31
    BY DEF DecoderInv
  <2>2. c \in {"CLW", "CSW"} \/ c \in {"CLWSP"} \/ c \in {"CSWSP"} \/ c \in {"CADDI4SPN"}
    BY DEF OffsetPositions
  <2> QED
    BY <2>1, <2>2, OffsetCLW, OffsetCLWSP, OffsetCSWSP, OffsetCADDI4SPN
<1> QED
  BY <1>1, DecoderInvariant, PTL

(***************************************************************************)
(* Signed immediates.                                                      *)
(***************************************************************************)
LEMMA SignIs ==
  ASSUME NEW c, DOMAIN Layout[c] \subseteq Int, NEW hi \in DOMAIN Layout[c],
         \A i \in DOMAIN Layout[c] : i <= hi
  PROVE  SignOf(c) = hi
<1> DEFINE P(b) == b \in DOMAIN Layout[c] /\ \A i \in DOMAIN Layout[c] : i <= b
<1>1. \E b \in DOMAIN Layout[c] : \A i \in DOMAIN Layout[c] : i <= b
  OBVIOUS
<1>2. SignOf(c) \in DOMAIN Layout[c] /\ \A i \in DOMAIN Layout[c] : i <= SignOf(c)
  BY <1>1 DEF SignOf
<1> QED
  BY <1>2

\* The bits of the immediate of class c that are not excepted are those of the
\* word at the places of the layout.
LowBitsExact(c, v) ==
  (CompressedImm(c, v) \cap (0 .. SignOf(c))) \ Excepted(c)
    = {b \in DOMAIN Layout[c] : Layout[c][b] \in v} \ Excepted(c)

LEMMA LowBitsI ==
  ASSUME NEW c \in {"CLI", "CADDI", "CANDI"}, NEW v, v \subseteq 0 .. 31
  PROVE  LowBitsExact(c, v)
<1> DEFINE imm == CompressedImm(c, v)
           layout == Layout[c]
<1>1. /\ imm \subseteq 0 .. 31
      /\ \A i \in 0 .. 5 :
           (i \in imm <=> IF i <= 4 THEN i + 2 \in v ELSE 12 \in v)
  BY DEF CompressedImm, SliceImmLow, Widened, GetBits
<1>2. /\ DOMAIN layout = 0 .. 5
      /\ layout[0] = 2 /\ layout[1] = 3 /\ layout[2] = 4
      /\ layout[3] = 5 /\ layout[4] = 6 /\ layout[5] = 12
  BY DEF Layout, LayoutLow
<1>3. SignOf(c) = 5
  <2>1. 5 \in DOMAIN layout /\ DOMAIN layout \subseteq Int /\ \A i \in DOMAIN layout : i <= 5
    BY <1>2
  <2> QED
    BY <2>1, SignIs
<1>4. Excepted(c) = {}
  BY DEF Excepted
<1> HIDE DEF imm, layout
<1>5. ASSUME NEW i \in 0 .. 5
      PROVE  i \in imm <=> i \in 0 .. 5 /\ layout[i] \in v
  <2>1. \/ i = 0 \/ i = 1 \/ i = 2 \/ i = 3 \/ i = 4 \/ i = 5
    OBVIOUS
  <2> QED
    BY <1>1, <1>2, <1>5, <2>1
<1>6. imm \cap (0 .. 5) = {b \in 0 .. 5 : layout[b] \in v}
  BY <1>1, <1>5
<1> QED
  BY <1>2, <1>3, <1>4, <1>6 DEF LowBitsExact, imm, layout

LEMMA LowBitsB ==
  ASSUME NEW c \in {"CBEQZ", "CBNEZ"}, NEW v, v \subseteq 0 .. 31
  PROVE  LowBitsExact(c, v)
<1> DEFINE imm == CompressedImm(c, v)
           layout == Layout[c]
<1>1. /\ imm \subseteq 0 .. 31
      /\ \A i \in 0 .. 8 :
           (i \in imm <=> 
               \/ i \in 1 .. 2 /\ i + 2 \in v
               \/ i \in 3 .. 4 /\ i + 7 \in v
               \/ i = 5 /\ 2 \in v
               \/ i \in 6 .. 7 /\ i - 1 \in v
               \/ i = 8 /\ 12 \in v)
  BY DEF CompressedImm, SliceImmB, Widened, GetBits
<1>2. /\ DOMAIN layout = 1 .. 8
      /\ layout[1] = 3 /\ layout[2] = 4 /\ layout[3] = 10
      /\ layout[4] = 11 /\ layout[5] = 2 /\ layout[6] = 5
      /\ layout[7] = 6 /\ layout[8] = 12
  BY DEF Layout, LayoutB
<1>3. SignOf(c) = 8
  <2>1. 8 \in DOMAIN layout /\ DOMAIN layout \subseteq Int /\ \A i \in DOMAIN layout : i <= 8
    BY <1>2
  <2> QED
    BY <2>1, SignIs
<1>4. Excepted(c) = {}
  BY DEF Excepted
<1> HIDE DEF imm, layout
<1>5. ASSUME NEW i \in 0 .. 8
      PROVE  i \in imm <=> i \in 1 .. 8 /\ layout[i] \in v
  <2>1. \/ i = 0 \/ i = 1 \/ i = 2 \/ i = 3 \/ i = 4 \/ i = 5 \/ i = 6 \/ i = 7
        \/ i = 8
    OBVIOUS
  <2> QED
    BY <1>1, <1>2, <1>5, <2>1
<1>6. imm \cap (0 .. 8) = {b \in 1 .. 8 : layout[b] \in v}
  BY <1>1, <1>5
<1> QED
  BY <1>2, <1>3, <1>4, <1>6 DEF LowBitsExact, imm, layout

LEMMA LowBitsJ ==
  ASSUME NEW c \in {"CJ", "CJAL"}, NEW v, v \subseteq 0 .. 31
  PROVE  LowBitsExact(c, v)
<1> DEFINE imm == CompressedImm(c, v)
           layout == Layout[c]
<1>1. /\ imm \subseteq 0 .. 31
      /\ \A i \in 0 .. 11 :
           i # 9 => (i \in imm <=> 
               \/ i \in 1 .. 3 /\ i + 2 \in v
               \/ i = 4 /\ 11 \in v
               \/ i = 5 /\ 2 \in v
               \/ i = 6 /\ 7 \in v
               \/ i = 7 /\ 6 \in v
               \/ i = 8 /\ 9 \in v
               \/ i = 10 /\ 8 \in v
               \/ i = 11 /\ 12 \in v)
  BY DEF CompressedImm, ImmCJ, Widened, GetBits
<1>2. /\ DOMAIN layout = 1 .. 11
      /\ layout[1] = 3 /\ layout[2] = 4 /\ layout[3] = 5
      /\ layout[4] = 11 /\ layout[5] = 2 /\ layout[6] = 7
      /\ layout[7] = 6 /\ layout[8] = 9 /\ layout[9] = 10 /\ layout[10] = 8 /\ layout[11] = 12
  BY DEF Layout, LayoutJ
<1>3. SignOf(c) = 11
  <2>1. 11 \in DOMAIN layout /\ DOMAIN layout \subseteq Int /\ \A i \in DOMAIN layout : i <= 11
    BY <1>2
  <2> QED
    BY <2>1, SignIs
<1>4. Excepted(c) = {9}
  BY DEF Excepted
<1> HIDE DEF imm, layout
<1>5. ASSUME NEW i \in 0 .. 11, i \notin {9}
      PROVE  i \in imm <=> i \in 1 .. 11 /\ layout[i] \in v
  <2>1. \/ i = 0 \/ i = 1 \/ i = 2 \/ i = 3 \/ i = 4 \/ i = 5 \/ i = 6 \/ i = 7
        \/ i = 8 \/ i = 9 \/ i = 10 \/ i = 11
    OBVIOUS
  <2> QED
    BY <1>1, <1>2, <1>5, <2>1
<1>6. (imm \cap (0 .. 11)) \ {9} = {b \in 1 .. 11 : layout[b] \in v} \ {9}
  BY <1>1, <1>5
<1> QED
  BY <1>2, <1>3, <1>4, <1>6 DEF LowBitsExact, imm, layout

LEMMA LowBitsU ==
  ASSUME NEW c \in {"CLUI"}, NEW v, v \subseteq 0 .. 31
  PROVE  LowBitsExact(c, v)
<1> DEFINE imm == CompressedImm(c, v)
           layout == Layout[c]
<1>1. /\ imm \subseteq 0 .. 31
      /\ \A i \in 0 .. 17 :
           (i \in imm <=> 
               \/ i \in 12 .. 16 /\ i - 10 \in v
               \/ i = 17 /\ 12 \in v)
  BY DEF CompressedImm, ImmLui16, Widened, GetBits
<1>2. /\ DOMAIN layout = 12 .. 17
      /\ layout[12] = 2 /\ layout[13] = 3 /\ layout[14] = 4
      /\ layout[15] = 5 /\ layout[16] = 6 /\ layout[17] = 12
  BY DEF Layout, LayoutLow
<1>3. SignOf(c) = 17
  <2>1. 17 \in DOMAIN layout /\ DOMAIN layout \subseteq Int /\ \A i \in DOMAIN layout : i <= 17
    BY <1>2
  <2> QED
    BY <2>1, SignIs
<1>4. Excepted(c) = {}
  BY DEF Excepted
<1> HIDE DEF imm, layout
<1>5. ASSUME NEW i \in 0 .. 17
      PROVE  i \in imm <=> i \in 12 .. 17 /\ layout[i] \in v
  <2>1. \/ i = 0 \/ i = 1 \/ i = 2 \/ i = 3 \/ i = 4 \/ i = 5 \/ i = 6 \/ i = 7
        \/ i = 8 \/ i = 9 \/ i = 10 \/ i = 11 \/ i = 12 \/ i = 13 \/ i = 14 \/ i = 15
        \/ i = 16 \/ i = 17
    OBVIOUS
  <2> QED
    BY <1>1, <1>2, <1>5, <2>1
<1>6. imm \cap (0 .. 17) = {b \in 12 .. 17 : layout[b] \in v}
  BY <1>1, <1>5
<1> QED
  BY <1>2, <1>3, <1>4, <1>6 DEF LowBitsExact, imm, layout

LEMMA LowBitsSp ==
  ASSUME NEW c \in {"CADDI16SP"}, NEW v, v \subseteq 0 .. 31, v \cap {9, 10, 11} = {}
  PROVE  LowBitsExact(c, v)
<1> DEFINE imm == CompressedImm(c, v)
           layout == Layout[c]
<1>1. /\ imm \subseteq 0 .. 31
      /\ \A i \in 0 .. 9 :
           i # 5 => (i \in imm <=> 
               \/ i = 4 /\ 6 \in v
               \/ i = 6 /\ 5 \in v
               \/ i \in 7 .. 8 /\ i - 4 \in v
               \/ i = 9 /\ 12 \in v)
  BY DEF CompressedImm, ImmAddi16Sp, Widened, GetBits
<1>2. /\ DOMAIN layout = 4 .. 9
      /\ layout[4] = 6 /\ layout[5] = 2 /\ layout[6] = 5
      /\ layout[7] = 3 /\ layout[8] = 4 /\ layout[9] = 12
  BY DEF Layout, LayoutLow
<1>3. SignOf(c) = 9
  <2>1. 9 \in DOMAIN layout /\ DOMAIN layout \subseteq Int /\ \A i \in DOMAIN layout : i <= 9
    BY <1>2
  <2> QED
    BY <2>1, SignIs
<1>4. Excepted(c) = {5}
  BY DEF Excepted
<1> HIDE DEF imm, layout
<1>5. ASSUME NEW i \in 0 .. 9, i \notin {5}
      PROVE  i \in imm <=> i \in 4 .. 9 /\ layout[i] \in v
  <2>1. \/ i = 0 \/ i = 1 \/ i = 2 \/ i = 3 \/ i = 4 \/ i = 5 \/ i = 6 \/ i = 7
        \/ i = 8 \/ i = 9
    OBVIOUS
  <2> QED
    BY <1>1, <1>2, <1>5, <2>1
<1>6. (imm \cap (0 .. 9)) \ {5} = {b \in 4 .. 9 : layout[b] \in v} \ {5}
  BY <1>1, <1>5
<1> QED
  BY <1>2, <1>3, <1>4, <1>6 DEF LowBitsExact, imm, layout

\* The bits of a signed compressed immediate up to its sign are those of the
\* manual for every word, but for bit 9 of a jump offset and bit 5 of
\* C.ADDI16SP (rvc.hpp get_imm).
THEOREM CompressedLowBitsExactTheorem == Spec => []CompressedLowBitsExact
<1>1. DecoderInv => CompressedLowBitsExact
  <2> SUFFICES ASSUME DecoderInv, NEW c \in DOMAIN Layout,
                      (c = "CADDI16SP") = (Funct3of16(inst) = Bits[3] /\ Rd16(inst) = {1})
               PROVE  LowBitsExact(c, inst)
    BY DEF CompressedLowBitsExact, LowBitsExact
  <2>1. inst \subseteq 0 .. 31
    BY DEF DecoderInv
  <2>2. \/ c \in {"CLI", "CADDI", "CANDI"} \/ c \in {"CBEQZ", "CBNEZ"}
        \/ c \in {"CJ", "CJAL"} \/ c \in {"CLUI"} \/ c \in {"CADDI16SP"}
    BY DEF Layout
  <2>3. CASE c \in {"CADDI16SP"}
    <3>1. Rd16(inst) = {1}
      BY <2>3
    <3>2. Rd16(inst) = {i \in 0 .. 4 : i + 7 \in inst}
      BY <2>1 DEF Rd16, GetBits
    <3>3. 2 \notin Rd16(inst) /\ 3 \notin Rd16(inst) /\ 4 \notin Rd16(inst)
      BY <3>1
    <3>4. 2 + 7 \notin inst /\ 3 + 7 \notin inst /\ 4 + 7 \notin inst
      BY <3>2, <3>3
    <3>5. inst \cap {9, 10, 11} = {}
      BY <3>4
    <3> QED
      BY <2>1, <2>3, <3>5, LowBitsSp
  <2> QED
    BY <2>1, <2>2, <2>3, LowBitsI, LowBitsB, LowBitsJ, LowBitsU
<1> QED
  BY <1>1, DecoderInvariant, PTL
=============================================================================
