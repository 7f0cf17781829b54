----------------------------- MODULE MCDecoder -----------------------------
(***************************************************************************)
(* Instances of Decoder.  The fields that no switch looks at take two      *)
(* values each; the fields that select a class take every value that some  *)
(* case names and some that none does.                                     *)
(***************************************************************************)
EXTENDS Decoder

\* the libraries of CMakeLists.txt: riscv_isa_rv32i, riscv_isa_rv32ic, riscv_isa_rv32ima
AllBuilds == {{}, {"C"}, {"M", "A", "Zicsr", "S"}}
CompressedBuild == {{"C"}}

Word32(op, rd, funct3, rs1, rs2, funct7) ==
  {0, 1} \cup GetBits(Bits[op], 5, 0, 2) \cup GetBits(Bits[rd], 5, 0, 7)
  \cup GetBits(Bits[funct3], 3, 0, 12) \cup GetBits(Bits[rs1], 5, 0, 15)
  \cup GetBits(Bits[rs2], 5, 0, 20) \cup GetBits(Bits[funct7], 7, 0, 25)

Funct7s == {0, 1, 4, 8, 9, 12, 16, 24, 32, 33, 48, 64, 80, 96, 112, 127}

\* the arithmetic and atomic op codes also look at funct7, System at all fields
Words32 ==
  {Word32(op, rd, funct3, 0, 0, funct7) :
     op \in 0 .. 31, rd \in {0, 1}, funct3 \in 0 .. 7, funct7 \in {0, 127}}
  \cup
  {Word32(op, rd, funct3, 0, 0, funct7) :
     op \in {OpCode.ArithImm, OpCode.ArithReg, OpCode.Atomic}, rd \in {0, 1},
     funct3 \in 0 .. 7, funct7 \in Funct7s}
  \cup
  {Word32(OpCode.System, rd, funct3, rs1, rs2, funct7) :
     rd \in {0, 1}, funct3 \in 0 .. 7, rs1 \in {0, 16}, rs2 \in {0, 1, 2, 5}, funct7 \in Funct7s}

\* the 16-bit words; in the fields of registers and offsets every bit alone,
\* none, all, and the register sp
Fields16 == {0, 1, 2, 4, 6, 8, 16, 24, 31}

Words16 ==
  {GetBits(Bits[op], 2, 0, 0) \cup GetBits(Bits[rs2], 5, 0, 2) \cup GetBits(Bits[rd], 5, 0, 7)
   \cup GetBits(Bits[bit], 1, 0, 12) \cup GetBits(Bits[funct3], 3, 0, 13) :
     op \in 0 .. 2, rs2 \in Fields16, rd \in Fields16,
     bit \in {0, 1}, funct3 \in 0 .. 7}

MCFetched == Words16 \cup Words32

\* every bit of an immediate alone, and none or all of them
Immediates == {{}, 0 .. 31} \cup {{b} : b \in 0 .. 31}

Operand(r, imm, f) ==
  [rd |-> r[1], rs1 |-> r[2], rs2 |-> r[3], imm |-> imm, aq |-> f[1], rl |-> f[2]]

MCOperands ==
  {Operand(<<{3}, {}, {1, 2}>>, imm, <<TRUE, TRUE>>) : imm \in Immediates}
  \cup
  {Operand(r, {1, 12}, f) : r \in {<<{}, {0}, {4}>>, <<0 .. 31, {3, 5}, {31}>>},
                           f \in {<<FALSE, FALSE>>, <<TRUE, FALSE>>}}
=============================================================================
