----------------------------- MODULE Encodings -----------------------------
(***************************************************************************)
(* The classes of include/instruction/*.hpp: the fields and immediates of  *)
(* an instruction word (getters), the words a class builds (constructors)  *)
(* and the words it recognises (is_self_type, which dyn_cast asks).        *)
(*                                                                         *)
(* A word is the set of the positions of its one bits.  Extensions that no *)
(* target of CMakeLists.txt defines are left out.                          *)
(***************************************************************************)
EXTENDS Integers, FiniteSets, TLC

(***************************************************************************)
(* get_bits<end, begin, offset> and an arithmetic shift of 32 bits.        *)
(***************************************************************************)
GetBits(v, end, begin, offset) == {b - begin + offset : b \in v \cap (begin .. (end - 1))}

ShiftRight(v, n) ==
  {b - n : b \in v \cap (n .. 31)} \cup {b \in (32 - n) .. 31 : 31 \in v}

Bits == [n \in 0 .. 1024 |-> {i \in 0 .. 10 : (n \div 2^i) % 2 = 1}]

(***************************************************************************)
(* The fields of an encoding.                                              *)
(***************************************************************************)
OpField(v)     == GetBits(v, 7, 2, 0)
Rd(v)          == GetBits(v, 12, 7, 0)
Funct3(v)      == GetBits(v, 15, 12, 0)
Rs1(v)         == GetBits(v, 20, 15, 0)
Rs2(v)         == GetBits(v, 25, 20, 0)
Funct7(v)      == GetBits(v, 32, 25, 0)
FunctShift(v)  == GetBits(v, 32, 25, 5)
FunctAtomic(v) == GetBits(v, 32, 27, 0)

Op16(v)       == GetBits(v, 2, 0, 0)
Funct3of16(v) == GetBits(v, 16, 13, 0)

(***************************************************************************)
(* The immediates of the formats, as get_imm puts them together.           *)
(***************************************************************************)
ImmI(v) == ShiftRight(v, 20)

ImmS(v) == (ShiftRight(v, 20) \cap (5 .. 31)) \cup GetBits(v, 12, 7, 0)

ImmB(v) == (ShiftRight(v, 20) \cap ((12 .. 31) \cup (5 .. 10)))
           \cup GetBits(v, 8, 7, 11) \cup GetBits(v, 12, 8, 1)

ImmU(v) == GetBits(v, 32, 12, 12)

ImmJ(v) == (ShiftRight(v, 20) \cap ((20 .. 31) \cup (1 .. 10)))
           \cup GetBits(v, 20, 12, 12) \cup GetBits(v, 21, 20, 11)

(***************************************************************************)
(* The classes, with the numbers that tell them apart.                     *)
(***************************************************************************)
OpCode ==
  [LUI |-> \b01101, AUIPC |-> \b00101, JAL |-> \b11011, JALR |-> \b11001,
   Branch |-> \b11000, Load |-> \b00000, Store |-> \b01000, ArithImm |-> \b00100,
   ArithReg |-> \b01100, Fence |-> \b00011, System |-> \b11100, Atomic |-> \b01011]

Branch == [BEQ |-> 0, BNE |-> 1, BLT |-> 4, BGE |-> 5, BLTU |-> 6, BGEU |-> 7]
Load   == [LB |-> 0, LH |-> 1, LW |-> 2, LBU |-> 4, LHU |-> 5]
Store  == [SB |-> 0, SH |-> 1, SW |-> 2]

ArithImm == [ADDI |-> 0, SLTI |-> 2, SLTIU |-> 3, XORI |-> 4, ORI |-> 6, ANDI |-> 7]

ShiftLeftImm  == [SLLI |-> \b000000000000]
ShiftRightImm == [SRLI |-> \b000000000000, SRAI |-> \b010000000000]

IntegerReg    == [ADD |-> 0, SLL |-> 1, SLT |-> 2, SLTU |-> 3,
                  XOR |-> 4, SRL |-> 5, OR |-> 6, AND |-> 7]
IntegerRegMod == [SUB |-> 0, SRA |-> 5]
MulDiv        == [MUL |-> 0, MULH |-> 1, MULHSU |-> 2, MULHU |-> 3,
                  DIV |-> 4, DIVU |-> 5, REM |-> 6, REMU |-> 7]

CsrInsts == [CSRRW |-> 1, CSRRS |-> 2, CSRRC |-> 3, CSRRWI |-> 5, CSRRSI |-> 6, CSRRCI |-> 7]

\* FUNCT7 and FUNCT_PRIVILEGE
Privileged == [ECALL |-> <<0, 0>>, EBREAK |-> <<0, 1>>, SRET |-> <<8, 2>>,
               WFI |-> <<8, 5>>, MRET |-> <<24, 2>>]

AtomicW ==
  [LRW |-> \b00010, SCW |-> \b00011, AMOSWAPW |-> \b00001, AMOADDW |-> \b00000,
   AMOXORW |-> \b00100, AMOANDW |-> \b01100, AMOORW |-> \b01000, AMOMINW |-> \b10000,
   AMOMAXW |-> \b10100, AMOMINUW |-> \b11000, AMOMAXUW |-> \b11100]

ShiftImm == DOMAIN ShiftLeftImm \cup DOMAIN ShiftRightImm

Base ==
  {"LUI", "AUIPC", "JAL", "JALR", "FENCE", "ECALL", "EBREAK", "MRET", "WFI"}
  \cup DOMAIN Branch \cup DOMAIN Load \cup DOMAIN Store \cup DOMAIN ArithImm \cup ShiftImm
  \cup DOMAIN IntegerReg \cup DOMAIN IntegerRegMod

Compressed ==
  {"CADDI4SPN", "CLW", "CSW", "CADDI", "CJAL", "CLI", "CADDI16SP", "CLUI", "CSRLI", "CSRAI",
   "CANDI", "CSUB", "CXOR", "COR", "CAND", "CJ", "CBEQZ", "CBNEZ", "CSLLI", "CLWSP", "CJR",
   "CMV", "CEBREAK", "CJALR", "CADD", "CSWSP"}

\* riscv_isa_instruction_map: the classes of a program
InstructionMap(ext) ==
  Base \cup (IF "M" \in ext THEN DOMAIN MulDiv ELSE {})
       \cup (IF "A" \in ext THEN DOMAIN AtomicW ELSE {})
       \cup (IF "C" \in ext THEN Compressed ELSE {})
       \cup (IF "Zicsr" \in ext THEN DOMAIN CsrInsts ELSE {})
       \cup (IF "S" \in ext THEN {"SRET", "SFENCEVAM"} ELSE {})

(***************************************************************************)
(* Constructors.  The arguments a hold rd, rs1, rs2 and imm, words of      *)
(* their own, and the flags aq and rl.                                     *)
(***************************************************************************)
Fields(op, funct3) == {0, 1} \cup GetBits(op, 5, 0, 2) \cup GetBits(funct3, 3, 0, 12)

RdBits(a)  == GetBits(a.rd, 5, 0, 7)
Rs1Bits(a) == GetBits(a.rs1, 5, 0, 15)
Rs2Bits(a) == GetBits(a.rs2, 5, 0, 20)

TypeR(op, funct3, a, rs2, funct7) ==
  Fields(op, funct3) \cup RdBits(a) \cup Rs1Bits(a)
  \cup GetBits(rs2, 5, 0, 20) \cup GetBits(funct7, 7, 0, 25)

TypeI(op, funct3, a, imm) ==
  Fields(op, funct3) \cup RdBits(a) \cup Rs1Bits(a) \cup GetBits(imm, 12, 0, 20)

TypeS(op, funct3, a) ==
  Fields(op, funct3) \cup Rs1Bits(a) \cup Rs2Bits(a)
  \cup GetBits(a.imm, 5, 0, 7) \cup GetBits(a.imm, 12, 5, 25)

TypeB(op, funct3, a) ==
  Fields(op, funct3) \cup Rs1Bits(a) \cup Rs2Bits(a)
  \cup GetBits(a.imm, 12, 11, 7) \cup GetBits(a.imm, 5, 1, 8)
  \cup GetBits(a.imm, 11, 5, 25) \cup GetBits(a.imm, 13, 12, 31)

TypeU(op, a) == Fields(op, {}) \cup RdBits(a) \cup GetBits(a.imm, 32, 12, 12)

TypeJ(op, a) ==
  Fields(op, {}) \cup RdBits(a)
  \cup GetBits(a.imm, 20, 12, 12) \cup GetBits(a.imm, 12, 11, 20)
  \cup GetBits(a.imm, 11, 1, 21) \cup GetBits(a.imm, 21, 20, 31)

TypeShift_Unmasked(funct3, funct, a) ==
  TypeI(Bits[OpCode.ArithImm], funct3, a, a.imm \cup Bits[funct])

TypeShift(funct3, funct, a) ==
  TypeI(Bits[OpCode.ArithImm], funct3, a, GetBits(a.imm, 5, 0, 0) \cup Bits[funct])

\* aq goes to bit 25 and rl to bit 26, where get_rl and get_aq look for them
TypeAtomic(c, a) ==
  TypeR(Bits[OpCode.Atomic], Bits[2], a, IF c = "LRW" THEN {} ELSE a.rs2,
        {b \in {0} : a.aq} \cup {b \in {1} : a.rl}
        \cup GetBits(Bits[AtomicW[c]], 5, 0, 2))

NoRegisters == [rd |-> {}, rs1 |-> {}, rs2 |-> {}]

TypePrivileged(c) ==
  TypeR(Bits[OpCode.System], {}, NoRegisters, Bits[Privileged[c][2]], Bits[Privileged[c][1]])

Encode(c, a) ==
  CASE c \in {"LUI", "AUIPC"}       -> TypeU(Bits[OpCode[c]], a)
    [] c = "JAL"                    -> TypeJ(Bits[OpCode[c]], a)
    [] c = "JALR"                   -> TypeI(Bits[OpCode[c]], {}, a, a.imm)
    [] c \in DOMAIN Branch          -> TypeB(Bits[OpCode.Branch], Bits[Branch[c]], a)
    [] c \in DOMAIN Load            -> TypeI(Bits[OpCode.Load], Bits[Load[c]], a, a.imm)
    [] c \in DOMAIN Store           -> TypeS(Bits[OpCode.Store], Bits[Store[c]], a)
    [] c \in DOMAIN ArithImm        -> TypeI(Bits[OpCode.ArithImm], Bits[ArithImm[c]], a, a.imm)
    [] c \in DOMAIN ShiftLeftImm    -> TypeShift(Bits[1], ShiftLeftImm[c], a)
    [] c \in DOMAIN ShiftRightImm   -> TypeShift(Bits[5], ShiftRightImm[c], a)
    [] c \in DOMAIN IntegerReg      -> TypeR(Bits[OpCode.ArithReg], Bits[IntegerReg[c]], a, a.rs2, {})
    [] c \in DOMAIN IntegerRegMod   ->
         TypeR(Bits[OpCode.ArithReg], Bits[IntegerRegMod[c]], a, a.rs2, Bits[\b0100000])
    [] c = "FENCE"                  -> TypeI(Bits[OpCode.Fence], {}, NoRegisters, a.imm)
    [] c \in DOMAIN Privileged      -> TypePrivileged(c)
    [] c = "SFENCEVAM"              ->
         TypeR(Bits[OpCode.System], {}, [a EXCEPT !.rd = {}], a.rs2, Bits[\b0001001])
    [] c \in DOMAIN AtomicW         -> TypeAtomic(c, a)

\* the classes of M and Zicsr and the 16-bit ones have no constructor
Constructible(ext) == InstructionMap(ext) \ (DOMAIN MulDiv \cup DOMAIN CsrInsts \cup Compressed)

(***************************************************************************)
(* What the getters of a class find in a word.                             *)
(***************************************************************************)
Registers3(v) == [rd |-> Rd(v), rs1 |-> Rs1(v), rs2 |-> Rs2(v)]

ClassesI == {"JALR"} \cup DOMAIN Load \cup DOMAIN ArithImm
ClassesR == DOMAIN IntegerReg \cup DOMAIN IntegerRegMod \cup DOMAIN Privileged \cup {"SFENCEVAM"}

Getters(c, v) ==
  CASE c \in {"LUI", "AUIPC"} -> [rd |-> Rd(v), imm |-> ImmU(v)]
    [] c = "JAL"              -> [rd |-> Rd(v), imm |-> ImmJ(v)]
    [] c \in DOMAIN Branch    -> [rs1 |-> Rs1(v), rs2 |-> Rs2(v), imm |-> ImmB(v)]
    [] c \in DOMAIN Store     -> [rs1 |-> Rs1(v), rs2 |-> Rs2(v), imm |-> ImmS(v)]
    [] c \in ClassesI         -> [rd |-> Rd(v), rs1 |-> Rs1(v), imm |-> ImmI(v)]
    [] c \in ShiftImm         -> [rd |-> Rd(v), rs1 |-> Rs1(v), imm |-> GetBits(v, 25, 20, 0)]
    [] c = "FENCE"            -> [imm |-> GetBits(v, 32, 20, 0)]
    [] c \in ClassesR         -> Registers3(v)
    [] c \in DOMAIN AtomicW   -> Registers3(v) @@ [aq |-> 26 \in v, rl |-> 25 \in v]

(***************************************************************************)
(* is_type: the chain of is_self_type from the length of the word down to  *)
(* the class.  The classes of M, A, C and Zicsr declare none of their own  *)
(* and inherit that of the format.                                         *)
(***************************************************************************)
IsInstruction16(v) == ~({0, 1} \subseteq v)

IsInstruction32(v) == {0, 1} \subseteq v /\ ~({2, 3, 4} \subseteq v)

IsSet(set, v) == IsInstruction32(v) /\ OpField(v) = Bits[OpCode[set]]

HasFunct3(table, c, v) == c \in DOMAIN table /\ Funct3(v) = Bits[table[c]]

IsShift(table, funct3, c, v) ==
  c \in DOMAIN table /\ Funct3(v) = Bits[funct3] /\ FunctShift(v) = Bits[table[c]]

IsArithImm(c, v) ==
  \/ HasFunct3(ArithImm, c, v)
  \/ IsShift(ShiftLeftImm, 1, c, v)
  \/ IsShift(ShiftRightImm, 5, c, v)

IsArithReg(c, v) ==
  \/ HasFunct3(IntegerReg, c, v) /\ Funct7(v) = {}
  \/ HasFunct3(IntegerRegMod, c, v) /\ Funct7(v) = Bits[\b0100000]
  \/ c \in DOMAIN MulDiv

IsSystem(c, v) ==
  \/ c \in DOMAIN Privileged /\ v = TypePrivileged(c)
  \/ c = "SFENCEVAM" /\ Funct3(v) = {} /\ Funct7(v) = Bits[\b0001001] /\ Rd(v) = {}
  \/ c \in DOMAIN CsrInsts

IsType(c, v) ==
  \/ c \in {"LUI", "AUIPC", "JAL"} /\ IsSet(c, v)
  \/ c = "JALR" /\ IsSet("JALR", v) /\ Funct3(v) = {}
  \/ HasFunct3(Branch, c, v) /\ IsSet("Branch", v)
  \/ HasFunct3(Load, c, v) /\ IsSet("Load", v)
  \/ HasFunct3(Store, c, v) /\ IsSet("Store", v)
  \/ IsArithImm(c, v) /\ IsSet("ArithImm", v)
  \/ IsArithReg(c, v) /\ IsSet("ArithReg", v)
  \/ c = "FENCE" /\ Funct3(v) = {} /\ IsSet("Fence", v)
  \/ IsSystem(c, v) /\ IsSet("System", v)
  \/ c \in DOMAIN AtomicW /\ IsInstruction32(v)
  \/ c \in Compressed /\ IsInstruction16(v)

(***************************************************************************)
(* The 16-bit classes: OP_CODE and FUNCT3, and what tells classes of the   *)
(* same FUNCT3 apart.                                                      *)
(***************************************************************************)
Quadrant0 == [CADDI4SPN |-> 0, CLW |-> 2, CSW |-> 6]
Quadrant1 == [CADDI |-> 0, CJAL |-> 1, CLI |-> 2, CADDI16SP |-> 3, CLUI |-> 3,
              CSRLI |-> 4, CSRAI |-> 4, CANDI |-> 4, CJ |-> 5, CBEQZ |-> 6, CBNEZ |-> 7]
Quadrant2 == [CSLLI |-> 0, CLWSP |-> 2, CSWSP |-> 6]

Funct2    == [CSRLI |-> 0, CSRAI |-> 1, CANDI |-> 2]
FunctArith == [CSUB |-> 0, CXOR |-> 1, COR |-> 2, CAND |-> 3]

Rd16(v)    == GetBits(v, 12, 7, 0)
Rs2of16(v) == GetBits(v, 7, 2, 0)

(***************************************************************************)
(* Offsets of the compressed loads, stores and CADDI4SPN.                  *)
(***************************************************************************)
SliceImmW_OffByOne(v) == GetBits(v, 7, 6, 2) \cup GetBits(v, 13, 10, 3) \cup GetBits(v, 6, 5, 5)

SliceImmW(v) == GetBits(v, 7, 6, 2) \cup GetBits(v, 13, 10, 3) \cup GetBits(v, 6, 5, 6)

CompressedOffset(c, v) ==
  CASE c \in {"CLW", "CSW"} -> SliceImmW(v)
    [] c = "CLWSP" -> GetBits(v, 7, 4, 2) \cup GetBits(v, 13, 12, 5) \cup GetBits(v, 4, 2, 6)
    [] c = "CSWSP" -> GetBits(v, 13, 9, 2) \cup GetBits(v, 9, 7, 6)
    [] c = "CADDI4SPN" -> GetBits(v, 7, 6, 2) \cup GetBits(v, 6, 5, 3)
                          \cup GetBits(v, 13, 11, 4) \cup GetBits(v, 11, 7, 6)

(***************************************************************************)
(* Signed immediates.  inner is a signed 16-bit number that C++ widens to  *)
(* 32 bits before it shifts, so that the bits above the immediate become   *)
(* those of FUNCT3 and the sign that of the word, not of the immediate.    *)
(***************************************************************************)
Widened(v) == v \cup {b \in 16 .. 31 : 15 \in v}

\* slice_imm_low takes the word unsigned
SliceImmLow(v) == GetBits(v, 7, 2, 0) \cup GetBits(v, 16, 12, 5)

SliceImmB(v) ==
  GetBits(v, 5, 3, 1) \cup GetBits(v, 12, 10, 3) \cup GetBits(v, 3, 2, 5)
  \cup GetBits(v, 7, 5, 6) \cup GetBits(Widened(v), 20, 12, 8)

\* Mutant: two bits of a jump offset change places.
ImmCJ_Swapped(v) ==
  GetBits(v, 6, 3, 1) \cup GetBits(v, 12, 11, 4) \cup GetBits(v, 3, 2, 5)
  \cup GetBits(v, 7, 6, 6) \cup GetBits(v, 9, 8, 10)
  \cup GetBits(v, 8, 7, 7) \cup GetBits(v, 10, 9, 8) \cup GetBits(Widened(v), 17, 12, 11)

ImmCJ(v) ==
  GetBits(v, 6, 3, 1) \cup GetBits(v, 12, 11, 4) \cup GetBits(v, 3, 2, 5)
  \cup GetBits(v, 7, 6, 7) \cup GetBits(v, 9, 8, 10)
  \cup GetBits(v, 8, 7, 6) \cup GetBits(v, 10, 9, 8) \cup GetBits(Widened(v), 17, 12, 11)

ImmLui16(v) == GetBits(v, 7, 2, 12) \cup GetBits(Widened(v), 27, 12, 17)

ImmAddi16Sp(v) ==
  GetBits(v, 7, 6, 4) \cup GetBits(v, 3, 2, 5) \cup GetBits(v, 6, 5, 6)
  \cup GetBits(v, 5, 3, 7) \cup GetBits(Widened(v), 19, 8, 5)

CompressedImm(c, v) ==
  CASE c \in {"CLI", "CADDI", "CANDI"} -> SliceImmLow(v)
    [] c \in {"CBEQZ", "CBNEZ"}        -> SliceImmB(v)
    [] c \in {"CJ", "CJAL"}            -> ImmCJ(v)
    [] c = "CLUI"                      -> ImmLui16(v)
    [] c = "CADDI16SP"                 -> ImmAddi16Sp(v)
=============================================================================
