----------------------------- MODULE Factorial ------------------------------
(***************************************************************************)
(* The integration test of the repository: main() of                       *)
(* test/integration/factorial_test.cpp, whose guest program, line by line, *)
(* a hart executes, and what is true whenever the hart is at a line.       *)
(***************************************************************************)
EXTENDS Hart

CONSTANT h1   \* the hart, `core`

I(op, rd, rs1, rs2, imm) ==
  [op |-> op, rd |-> rd, rs1 |-> rs1, rs2 |-> rs2, imm |-> imm]

FactorialProgram == <<
  I("add", 5, 0, 0, 0),        I("addi", 6, 0, 0, 4),
  I("auipc", 7, 0, 0, 0),      I("addi", 7, 7, 0, 144),
  I("beq", 0, 5, 6, 100),      I("slli", 28, 5, 0, 2),
  I("add", 29, 7, 28, 0),      I("lw", 10, 29, 0, 0),
  I("addi", 2, 2, 0, -20),     I("sw", 0, 2, 5, 0),
  I("sw", 0, 2, 6, 4),         I("sw", 0, 2, 7, 8),
  I("sw", 0, 2, 28, 12),       I("sw", 0, 2, 29, 16),
  I("jal", 1, 0, 0, 68),       I("lw", 5, 2, 0, 0),
  I("lw", 6, 2, 0, 4),         I("lw", 7, 2, 0, 8),
  I("lw", 28, 2, 0, 12),       I("lw", 29, 2, 0, 16),
  I("addi", 2, 2, 0, 20),      I("addi", 11, 10, 0, 0),
  I("addi", 10, 0, 0, 1),      I("ecall", 0, 0, 0, 0),
  I("addi", 11, 0, 0, 32),     I("addi", 10, 0, 0, 11),
  I("ecall", 0, 0, 0, 0),      I("addi", 5, 5, 0, 1),
  I("jal", 0, 0, 0, -96),      I("addi", 10, 0, 0, 10),
  I("ecall", 0, 0, 0, 0),      I("addi", 5, 10, 0, 0),
  I("addi", 10, 0, 0, 1),      I("beq", 0, 5, 0, 16),
  I("mul", 10, 10, 5, 0),      I("addi", 5, 5, 0, -1),
  I("jal", 0, 0, 0, -12),      I("jalr", 0, 1, 0, 0) >>

FactorialRegs == {0, 1, 2, 5, 6, 7, 10, 11, 28, 29}

FactorialText == [k \in 1 .. 38 |-> k]
FactorialData == <<7, 8, 9, 10>>

FactorialImages ==
  <<[offset |-> 0, words |-> FactorialText],
    [offset |-> 4 * Len(FactorialText), words |-> FactorialData]>>

FactorialInit ==
  Booted(<<>>, FactorialImages, [h \in Harts |-> 0],
         [h \in Harts |-> [r \in Regs |-> IF r = 2 THEN 4092 ELSE 0]])

FactorialSafety == FactorialInit /\ [][Next]_vars
FactorialSpec == FactorialSafety /\ Fairness

(***************************************************************************)
(* The builds in which the program works: the factorials fit in a register *)
(* from 24 bits on (the code has 32), and the stack needs the memory.      *)
(***************************************************************************)
FactorialBuild ==
  /\ Harts = {h1} /\ Level = "USER"
  /\ Program = FactorialProgram /\ FactorialRegs \subseteq Regs
  /\ XLEN >= 24 /\ MemorySize >= 4096

-----------------------------------------------------------------------------
(***************************************************************************)
(* The test program prints the factorials of 7 to 10, each with a blank,   *)
(* and ends with its stack pointer where it was.                           *)
(***************************************************************************)
FactorialOutput == <<5040, 32, 40320, 32, 362880, 32, 3628800, 32>>

FactorialsPrinted ==
  stage[h1] = "stopped" =>
    /\ console[h1] = FactorialOutput
    /\ scause[h1] = "U_MODE_ENVIRONMENT_CALL" /\ x[h1][2] = 4092

(***************************************************************************)
(* start() returns.                                                        *)
(***************************************************************************)
Finishes == <>(\A h \in Harts : stage[h] = "stopped")

-----------------------------------------------------------------------------
(***************************************************************************)
(* Why: at line k of the program, in round i of its main loop, each        *)
(* register and each word of the stack holds, on the lines from where it   *)
(* is set to where it is last used, what the program means it to hold.     *)
(***************************************************************************)
Factorials == <<1, 1, 2, 6, 24, 120, 720, 5040, 40320, 362880, 3628800>>
Fact(n) == Factorials[n + 1]

Cell(a) == Value(mem, a, 4)
Pc(k) == 4 * (k - 1)
Called == 32 .. 38                           \* the lines of factorial()

Round(k, i) ==
  /\ k \in 1 .. 4 => i = 0
  /\ k \in {30, 31} => i = 4
  /\ k \in (6 .. 29) \cup Called => i < 4

Printed(n) ==
  Len(console[h1]) = n /\ \A j \in 1 .. n : console[h1][j] = FactorialOutput[j]

Ahead(k) == CASE k \in 25 .. 27 -> 1 [] k \in 28 .. 29 -> 2 [] OTHER -> 0
PrintedSo(k, i) == Printed(2 * i + Ahead(k))

Stack(k, i) ==
  /\ k \in (11 .. 16) \cup Called => Cell(4072) = i
  /\ k \in (12 .. 17) \cup Called => Cell(4076) = 4
  /\ k \in (13 .. 18) \cup Called => Cell(4080) = 152

MainRegisters(k, i, r) ==
  /\ r[2] = IF k \in (10 .. 21) \cup Called THEN 4072 ELSE 4092
  /\ k \in (2 .. 15) \cup (17 .. 28) => r[5] = i
  /\ k = 29 => r[5] = i + 1
  /\ k \in (3 .. 15) \cup (18 .. 29) => r[6] = 4
  /\ k = 4 => r[7] = Pc(3)
  /\ k \in (5 .. 15) \cup (19 .. 29) => r[7] = 152
  /\ k = 7 => r[28] = 4 * i
  /\ k = 8 => r[29] = 152 + 4 * i
  /\ k \in 9 .. 15 => r[10] = 7 + i
  /\ k \in 16 .. 22 => r[10] = Fact(7 + i)
  /\ k \in 23 .. 24 => r[11] = Fact(7 + i)
  /\ k \in 26 .. 27 => r[11] = 32
  /\ k = 24 => r[10] = 1
  /\ k = 27 => r[10] = 11
  /\ k = 31 => r[10] = 10

FactorialRegisters(k, i, r) ==
  /\ k \in Called => r[1] = Pc(16)
  /\ k = 32 => r[10] = 7 + i
  /\ k = 33 => r[5] = 7 + i
  /\ k \in {34, 35, 37} => r[5] \in 0 .. (7 + i) /\ r[10] * Fact(r[5]) = Fact(7 + i)
  /\ k = 35 => r[5] # 0
  /\ k = 36 => r[5] \in 1 .. (7 + i) /\ r[10] * Fact(r[5] - 1) = Fact(7 + i)
  /\ k = 38 => r[10] = Fact(7 + i)

AtLine(k, i) ==
  /\ pc[h1] = Pc(k)
  /\ Round(k, i) /\ PrintedSo(k, i) /\ Stack(k, i)
  /\ MainRegisters(k, i, x[h1]) /\ FactorialRegisters(k, i, x[h1])

\* Where start() is, and what visit() fetched.
Underway(k) ==
  \/ stage[h1] = "visit"
  \/ stage[h1] \in {"half", "execute"} /\ ir[h1] = k
  \/ /\ stage[h1] = "trap" /\ k \in {24, 27, 31}
     /\ scause[h1] = "U_MODE_ENVIRONMENT_CALL"

\* The first n words of the memory are those of the images.
Loads(n) == \A j \in 1 .. n : Cell(Pc(j)) = (FactorialText \o FactorialData)[j]

Loading ==
  \/ image = FactorialImages /\ stage[h1] = "visit" /\ pc[h1] = 0
  \/ image = Tail(FactorialImages) /\ stage[h1] = "visit" /\ pc[h1] = 0 /\ Loads(38)
  \/ image = <<>> /\ Loads(42)

Exited ==
  /\ stage[h1] = "stopped" /\ scause[h1] = "U_MODE_ENVIRONMENT_CALL"
  /\ x[h1][2] = 4092 /\ Printed(8)

(***************************************************************************)
(* The program is always at one of its lines, its text and data are never  *)
(* overwritten, and the process does not end but by its last line.         *)
(***************************************************************************)
ProgramCorrect ==
  /\ died = "no" /\ Loading
  /\ Exited \/ \E k \in 1 .. 38, i \in 0 .. 4 : AtLine(k, i) /\ Underway(k)
=============================================================================
