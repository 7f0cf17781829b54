------------------------------ MODULE Operators ----------------------------
(***************************************************************************)
(* The operators of include/operators.hpp on integer registers: values are *)
(* the unsigned numbers 0 .. 2^XLEN - 1, and Signed reads one as XLenT.    *)
(* Results is the SET of outcomes of an operator, since C++ leaves some    *)
(* cases undefined; signed sums and products that overflow wrap in every   *)
(* build.  AsManual and TakenAsManual state independently what the RISC-V  *)
(* manual asks of a result.                                                *)
(***************************************************************************)
EXTENDS Integers, FiniteSetsExt

CONSTANT XLEN                 \* width of a register; a byte is XLEN / 4 bits

ASSUME XlenAssumption == XLEN \in Nat \ {0} /\ XLEN % 4 = 0

Modulus == 2^XLEN
Word == 0 .. (Modulus - 1)
Wrap(n) == n % Modulus
Signed(a) == IF 2 * a < Modulus THEN a ELSE a - Modulus

\* A register has XLEN_BYTE bytes.  XLEN_MIN shifts by XLEN_BYTE - 1 where
\* XLEN - 1 would give the most negative number.
XLEN_BYTE == 4
XLEN_MIN == 2^(XLEN_BYTE - 1)
MostNegative == Modulus \div 2
MinusOne == Modulus - 1

Bits(a) == {i \in 0 .. (XLEN - 1) : (a \div 2^i) % 2 = 1}
Number(S) == SumSet({2^i : i \in S})

Truth(b) == IF b THEN 1 ELSE 0
Magnitude(n) == IF n < 0 THEN -n ELSE n

-----------------------------------------------------------------------------
(***************************************************************************)
(* Shifts.  A register amount is not masked: from XLEN on the host shifts  *)
(* by the low bits of the amount (x86) or shifts every bit out (others).   *)
(***************************************************************************)
Amounts(b) == IF b < XLEN THEN {b} ELSE {b % XLEN, XLEN}

ShiftLeft(a, n) == Wrap(a * 2^n)
ShiftRight(a, n) == a \div 2^n
ShiftRightSigned(a, n) == Wrap(Signed(a) \div 2^n)

(***************************************************************************)
(* Division of C++ rounds towards zero.  The one quotient that does not    *)
(* fit is undefined: it wraps, unless the instruction traps (MayDie).      *)
(***************************************************************************)
\* Mutant: division that rounds towards minus infinity.
Quotient_Floors(n, d) == IF d > 0 THEN n \div d ELSE (-n) \div (-d)

Quotient(n, d) ==
  LET q == Magnitude(n) \div Magnitude(d)
  IN IF (n < 0) = (d < 0) THEN q ELSE -q

Remainder(n, d) == n - d * Quotient(n, d)

Div(a, b) ==
  CASE b = 0 -> MinusOne
    [] b # 0 /\ a = XLEN_MIN /\ b = MinusOne -> XLEN_MIN
    [] OTHER -> Wrap(Quotient(Signed(a), Signed(b)))

Rem(a, b) ==
  CASE b = 0 -> a
    [] b # 0 /\ a = XLEN_MIN /\ b = MinusOne -> 0
    [] OTHER -> Wrap(Remainder(Signed(a), Signed(b)))

\* The host may raise a signal here (SIGFPE on x86).
MayDie(op, a, b) ==
  /\ op \in {"DIV", "REM"}
  /\ a = MostNegative /\ b = MinusOne
  /\ a # XLEN_MIN

High(p) == Wrap(p \div Modulus)

Results(op, a, b) ==
  CASE op = "ADD"    -> {Wrap(a + b)}
    [] op = "SUB"    -> {Wrap(a - b)}
    [] op = "SLT"    -> {Truth(Signed(a) < Signed(b))}
    [] op = "SLTU"   -> {Truth(a < b)}
    [] op = "XOR"    -> {Number((Bits(a) \ Bits(b)) \cup (Bits(b) \ Bits(a)))}
    [] op = "OR"     -> {Number(Bits(a) \cup Bits(b))}
    [] op = "AND"    -> {Number(Bits(a) \cap Bits(b))}
    [] op = "SLL"    -> {ShiftLeft(a, n) : n \in Amounts(b)}
    [] op = "SRL"    -> {ShiftRight(a, n) : n \in Amounts(b)}
    [] op = "SRA"    -> {ShiftRightSigned(a, n) : n \in Amounts(b)}
    [] op = "MUL"    -> {Wrap(Signed(a) * Signed(b))}
    [] op = "MULH"   -> {High(Signed(a) * Signed(b))}
    [] op = "MULHSU" -> {High(Signed(a) * b)}
    [] op = "MULHU"  -> {High(a * b)}
    [] op = "DIV"    -> {Div(a, b)}
    [] op = "DIVU"   -> {IF b = 0 THEN MinusOne ELSE a \div b}
    [] op = "REM"    -> {Rem(a, b)}
    [] op = "REMU"   -> {IF b = 0 THEN a ELSE a % b}

Taken(op, a, b) ==
  CASE op = "EQ"  -> a = b
    [] op = "NE"  -> a # b
    [] op = "LT"  -> Signed(a) < Signed(b)
    [] op = "GE"  -> Signed(a) >= Signed(b)
    [] op = "LTU" -> a < b
    [] op = "GEU" -> a >= b

-----------------------------------------------------------------------------
(***************************************************************************)
(* What the manual asks for, stated bit by bit or by an equation.          *)
(***************************************************************************)
Bit(a, i) == i \in Bits(a)
Sign(a) == Bit(a, XLEN - 1)

\* The order of signed numbers: the sign decides, then the bits do.
LessSigned(a, b) == IF Sign(a) = Sign(b) THEN a < b ELSE Sign(a)

\* q and r are the quotient and the remainder of n by d, rounded to zero.
Divides(n, d, q, r) ==
  /\ n = d * q + r
  /\ Magnitude(r) < Magnitude(d)
  /\ r # 0 => (r < 0) = (n < 0)

AsManual(op, a, b, r) ==
  LET n == b % XLEN
      overflows == a = MostNegative /\ b = MinusOne
      s == Signed(a)
      t == Signed(b)
  IN
  CASE op = "ADD"  -> Wrap(r - a) = b
    [] op = "SUB"  -> Wrap(r + b) = a
    [] op = "SLT"  -> r = Truth(LessSigned(a, b))
    [] op = "SLTU" -> (r = 1) = (a - b < 0) /\ r \in {0, 1}
    [] op = "XOR"  -> \A i \in 0 .. (XLEN - 1) : Bit(r, i) = (Bit(a, i) # Bit(b, i))
    [] op = "OR"   -> \A i \in 0 .. (XLEN - 1) : Bit(r, i) = (Bit(a, i) \/ Bit(b, i))
    [] op = "AND"  -> \A i \in 0 .. (XLEN - 1) : Bit(r, i) = (Bit(a, i) /\ Bit(b, i))
    [] op = "SLL"  -> \A i \in 0 .. (XLEN - 1) :
                        Bit(r, i) = (i >= n /\ Bit(a, i - n))
    [] op = "SRL"  -> \A i \in 0 .. (XLEN - 1) : Bit(r, i) = Bit(a, i + n)
    [] op = "SRA"  -> \A i \in 0 .. (XLEN - 1) :
                        Bit(r, i) = Bit(a, IF i + n < XLEN THEN i + n ELSE XLEN - 1)
    [] op = "MUL"    -> (a * b - r) % Modulus = 0
    [] op = "MULH"   -> s * t - Modulus * Signed(r) \in Word
    [] op = "MULHSU" -> s * b - Modulus * Signed(r) \in Word
    [] op = "MULHU"  -> a * b - Modulus * r \in Word
    [] op = "DIV"  -> CASE b = 0 -> Signed(r) = -1
                        [] overflows -> r = a
                        [] OTHER -> Divides(s, t, Signed(r), s - t * Signed(r))
    [] op = "REM"  -> CASE b = 0 -> r = a
                        [] overflows -> r = 0
                        [] OTHER -> \E q \in (-Modulus) .. Modulus :
                                      Divides(s, t, q, Signed(r))
    [] op = "DIVU" -> IF b = 0 THEN Signed(r) = -1
                      ELSE a - b * r \in 0 .. (b - 1)
    [] op = "REMU" -> IF b = 0 THEN r = a
                      ELSE \E q \in Word : Divides(a, b, q, r)

TakenAsManual(op, a, b) ==
  CASE op \in {"EQ", "NE"}  -> (op = "EQ") = (Bits(a) = Bits(b))
    [] op \in {"LT", "GE"}  -> (op = "LT") = LessSigned(a, b)
    [] op \in {"LTU", "GEU"} -> (op = "LTU") = (a - b < 0)

\* Where the result may deviate: a register shift by XLEN or more, and the
\* quotient of XLEN_MIN by -1, taken for that of the most negative number.
Deviates(op, a, b) ==
  \/ op \in {"SLL", "SRL", "SRA"} /\ b >= XLEN
  \/ op = "DIV" /\ a = XLEN_MIN /\ a # MostNegative /\ b = MinusOne
=============================================================================
