------------------------------- MODULE MCHart -------------------------------
(***************************************************************************)
(* Programs for Hart: small programs that trap, jump and store over their  *)
(* own code.                                                               *)
(***************************************************************************)
EXTENDS Hart, TLC

CONSTANTS h1, h2

I(op, rd, rs1, rs2, imm) ==
  [op |-> op, rd |-> rd, rs1 |-> rs1, rs2 |-> rs2, imm |-> imm]

-----------------------------------------------------------------------------
(* Every kind of instruction, with loads, stores and jumps whose target    *)
(* depends on the registers.                                               *)
KindsProgram == <<
  I("lw", 10, 10, 0, 4),    I("sw", 0, 10, 11, 0),    I("ebreak", 0, 0, 0, 0),
  I("jalr", 10, 10, 0, 1),  I("ecall", 0, 0, 0, 0),   I("bne", 0, 10, 11, 8),
  I("addi", 0, 10, 0, 3),   I("fence", 0, 0, 0, 0),   I("lui", 10, 0, 0, 2),
  I("sw", 0, 0, 11, 0),     I("lw", 10, 11, 0, 31),   I("auipc", 10, 0, 0, 4),
  I("div", 0, 10, 11, 0) >>

\* The operators, the branches, and accesses narrower than a word.
ImmProgram == <<
  I("addi", 10, 10, 0, -3),  I("slti", 10, 10, 0, -1), I("sltiu", 10, 10, 0, -1),
  I("xori", 10, 10, 0, -1),  I("ori", 10, 10, 0, 5),   I("andi", 10, 10, 0, -4),
  I("slli", 10, 10, 0, 1),   I("srli", 10, 10, 0, 11), I("srai", 10, 10, 0, 3) >>
RegOps == <<"add", "sub", "sll", "slt", "sltu", "xor", "srl", "sra", "or", "and",
            "mul", "mulh", "mulhsu", "mulhu", "div", "divu", "rem", "remu">>
RegProgram == [k \in 1 .. 18 |-> I(RegOps[k], 10, 10, 11, 0)]
BranchOps == <<"beq", "bne", "blt", "bge", "bltu", "bgeu">>
BranchProgram == [k \in 1 .. 6 |-> I(BranchOps[k], 0, 10, 11, 8)]
NarrowProgram == <<
  I("lb", 10, 10, 0, 1),     I("lh", 10, 10, 0, 1),    I("lbu", 10, 10, 0, 1),
  I("lhu", 10, 10, 0, 1),    I("sb", 0, 10, 11, 1),    I("sh", 0, 10, 11, 1) >>

Operators1 == 13      \* the operators and branches come after KindsProgram,
Narrow1 == 13 + 33    \* then NarrowProgram
TrapsProgram ==
  KindsProgram \o ImmProgram \o RegProgram \o BranchProgram \o NarrowProgram

\* Registers 10 and 11 of h1 and h2
A0A1(v10, v11, w10, w11) ==
  [h \in Harts |-> [r \in Regs |-> CASE r = 10 -> IF h = h1 THEN v10 ELSE w10
                                     [] r = 11 -> IF h = h1 THEN v11 ELSE w11
                                     [] OTHER -> 0]]

\* Hart h2 stops at once, beyond the memory.
Alone(a) == h1 :> a @@ h2 :> MemorySize

\* One hart starts at any place with any of a few register values.  The upper
\* half of the last word is an EBREAK that lies across the end of the memory,
\* the one before a whole EBREAK at an address that is no multiple of 4.
SingleInit ==
  \E parcel \in 0 .. 19, a0 \in {0, 10, 20, 60}, a1 \in {3, 15} :
    Booted(<<1, 2, 3, 4, 5, 6, 3 * 64, 8 * 64, 9, 3 * 64>>, <<>>,
           Alone(2 * parcel), A0A1(a0, a1, 0, 0))

\* The instructions that only compute, on the edges of their operands.
Edges == {0, 1, 13, XLEN_MIN, MostNegative - 1, MostNegative, MinusOne}

OperateInit ==
  \E k \in (Operators1 + 1) .. Narrow1 \cup {7, 9, 12, 13}, a0, a1 \in Edges :
    Booted(<<k, 0>>, <<>>, Alone(0), A0A1(a0, a1, 0, 0))

\* Narrow accesses around two words, at the end of the memory and wrapping.
NarrowInit ==
  \E k \in (Narrow1 + 1) .. (Narrow1 + 6), w \in {2730, 1365},
     a0 \in (7 .. 14) \cup {37, 38, 39, MinusOne} :
    Booted(<<k, 0, w, w, 0>>, <<>>, Alone(0), A0A1(a0, 4095 - w, 0, 0))

\* Hart h2 replaces the instruction that h1 executes, as a debugger does
\* when it sets or removes a breakpoint.
PatchInit ==
  \E first, new \in {0, 3, 5, 9, 10, 11, 3 * 65} :
    Booted(<<first, 11, 10, 10, 5>>, <<>>, h1 :> 0 @@ h2 :> 8,
           A0A1(0, new, 0, new))

\* Two harts store bytes or halves next to each other.
ShareInit ==
  \E k1, k2 \in {Narrow1 + 5, Narrow1 + 6} :
    Booted(<<k1, 0, k2, 0, 2730>>, <<>>, h1 :> 0 @@ h2 :> 8,
           A0A1(15, 2, 17, 4))

\* Images that fit, that do not fit at their offset, that are too long.
CopyInit ==
  \E offset \in {0, 4, 36, 40, 48}, n \in {1, 10, 11} :
    Booted(<<>>, <<[offset |-> offset, words |-> [k \in 1 .. n |-> 3]]>>,
           Alone(0), A0A1(0, 0, 0, 0))

TrapsSpec ==
  /\ \/ SingleInit \/ OperateInit \/ NarrowInit \/ PatchInit \/ ShareInit
     \/ CopyInit
  /\ [][Next]_vars

PatchSpec == PatchInit /\ [][Next]_vars

-----------------------------------------------------------------------------
(* A jump to the middle of an instruction.                                 *)
AlignProgram == << I("jal", 0, 0, 0, 6), I("ecall", 0, 0, 0, 0) >>

AlignInit ==
  Booted(<<1, 2, 2>>, <<>>, [h \in Harts |-> 0],
         [h \in Harts |-> [r \in Regs |-> 0]])

AlignSpec == AlignInit /\ [][Next]_vars

-----------------------------------------------------------------------------
(* A load outside the memory.                                              *)
CallbackProgram == << I("lw", 10, 0, 0, 32) >>

CallbackInit ==
  Booted(<<1>>, <<>>, [h \in Harts |-> 0], [h \in Harts |-> [r \in Regs |-> 0]])

CallbackSpec == CallbackInit /\ [][Next]_vars
=============================================================================
