------------------------------ MODULE Decoder ------------------------------
(***************************************************************************)
(* InstructionVisitor calls, for an instruction word, the visitor of one   *)
(* class (include/instruction/instruction_visitor.hpp).  What it calls,    *)
(* what dyn_cast says of the word and what the constructors write were     *)
(* coded separately, and this module relates the three.                    *)
(*                                                                         *)
(* An instruction is constructed, or found in memory, and then visited.    *)
(***************************************************************************)
EXTENDS Encodings

CONSTANTS Builds,      \* the extensions each target of CMakeLists.txt defines
          Fetched,     \* words found in memory
          Operands     \* arguments of constructors

VARIABLES build,       \* the extensions of this program
          inst,        \* the instruction in memory
          length,      \* bytes that may be read there; 0: there is no instruction
          built,       \* the class and the arguments it was constructed from
          visited      \* the class whose visitor was called

vars == <<build, inst, length, built, visited>>

ASSUME BuildsAssumption == \A ext \in Builds : ext \subseteq {"M", "A", "C", "Zicsr", "S"}

\* Instructions and the arguments of a constructor are words of 32 bits, or flags.
Arguments ==
  [rd : SUBSET (0 .. 31), rs1 : SUBSET (0 .. 31), rs2 : SUBSET (0 .. 31),
   imm : SUBSET (0 .. 31), aq : BOOLEAN, rl : BOOLEAN]

ASSUME WordsAssumption ==
  /\ \A v \in Fetched : v \subseteq 0 .. 31
  /\ \A a \in Operands : a \in Arguments

Nothing == [class |-> "none"]
Illegal == "illegal"

(***************************************************************************)
(* A switch: the case of the table that carries the key, or the default,   *)
(* which is illegal_instruction.                                           *)
(***************************************************************************)
Select(table, key) ==
  LET cases == {c \in DOMAIN table : Bits[table[c]] = key}
  IN  IF cases = {} THEN Illegal ELSE CHOOSE c \in cases : TRUE

VisitBranchSet(v) == Select(Branch, Funct3(v))
VisitLoadSet(v)   == Select(Load, Funct3(v))
VisitStoreSet(v)  == Select(Store, Funct3(v))

VisitArithImmSet_AnySlli(v) ==
  CASE Funct3(v) = Bits[1] -> "SLLI"
    [] Funct3(v) = Bits[5] -> Select(ShiftRightImm, FunctShift(v))
    [] OTHER               -> Select(ArithImm, Funct3(v))

VisitArithImmSet(v) ==
  CASE Funct3(v) = Bits[1] -> Select(ShiftLeftImm, FunctShift(v))
    [] Funct3(v) = Bits[5] -> Select(ShiftRightImm, FunctShift(v))
    [] OTHER               -> Select(ArithImm, Funct3(v))

VisitArithRegSet(v, ext) ==
  CASE Funct7(v) = {}                        -> Select(IntegerReg, Funct3(v))
    [] Funct7(v) = Bits[\b0100000]           -> Select(IntegerRegMod, Funct3(v))
    [] Funct7(v) = Bits[1] /\ "M" \in ext    -> Select(MulDiv, Funct3(v))
    [] OTHER                                 -> Illegal

\* MRET is told by FUNCT7 alone, whatever rs2 is
VisitPrivilegeSet(v, ext) ==
  LET plain == Rd(v) = {} /\ Rs1(v) = {}
  IN  CASE Funct7(v) = {} /\ plain -> Select([ECALL |-> 0, EBREAK |-> 1], Rs2(v))
        [] Funct7(v) = Bits[\b0001000] /\ plain ->
             Select(IF "S" \in ext THEN [SRET |-> 2, WFI |-> 5] ELSE [WFI |-> 5], Rs2(v))
        [] Funct7(v) = Bits[\b0011000] /\ plain -> "MRET"
        [] Funct7(v) = Bits[\b0001001] /\ "S" \in ext /\ Rd(v) = {} -> "SFENCEVAM"
        [] OTHER -> Illegal

VisitSystemSet(v, ext) ==
  CASE Funct3(v) = {}                    -> VisitPrivilegeSet(v, ext)
    [] Funct3(v) # {} /\ "Zicsr" \in ext -> Select(CsrInsts, Funct3(v))
    [] OTHER                             -> Illegal

VisitFenceSet(v) == Select([FENCE |-> 0], Funct3(v))

VisitAtomicSet(v) ==
  IF Funct3(v) = Bits[2] THEN Select(AtomicW, FunctAtomic(v)) ELSE Illegal

Visit32(v, ext) ==
  LET set == Select(OpCode, OpField(v))
  IN  CASE set \in {"LUI", "AUIPC", "JAL"}  -> set
        [] set = "JALR" /\ Funct3(v) = {}   -> "JALR"
        [] set = "Branch"                   -> VisitBranchSet(v)
        [] set = "Load"                     -> VisitLoadSet(v)
        [] set = "Store"                    -> VisitStoreSet(v)
        [] set = "ArithImm"                 -> VisitArithImmSet(v)
        [] set = "ArithReg"                 -> VisitArithRegSet(v, ext)
        [] set = "Fence"                    -> VisitFenceSet(v)
        [] set = "System"                   -> VisitSystemSet(v, ext)
        [] set = "Atomic" /\ "A" \in ext    -> VisitAtomicSet(v)
        [] OTHER                            -> Illegal

(***************************************************************************)
(* The 16-bit classes.  visit_16_op1 switches on get_op(), which is 1 when *)
(* it is called, over labels that are FUNCT3 values: the label it finds is *)
(* that of CJAL whatever the word, and the other cases are never taken.    *)
(***************************************************************************)
VisitOp0(v) ==
  IF Funct3of16(v) = {} /\ GetBits(v, 13, 5, 0) # {}
  THEN Illegal
  ELSE Select(Quadrant0, Funct3of16(v))

VisitCaType(v) == IF 12 \in v THEN Illegal ELSE Select(FunctArith, GetBits(v, 7, 5, 0))

VisitArith16(v) ==
  LET funct2 == GetBits(v, 12, 10, 0)
  IN  CASE funct2 = Bits[3]                     -> VisitCaType(v)
        [] funct2 = Bits[2]                     -> "CANDI"
        [] funct2 \in {{}, Bits[1]}             ->
             IF 12 \in v THEN Illegal ELSE Select(Funct2, funct2)

VisitOp1(v) ==
  LET key == Op16(v)
  IN  CASE key = Bits[3] /\ Rs2of16(v) = {} /\ 12 \notin v -> Illegal
        [] key = Bits[3] /\ Rs2of16(v) \cup (v \cap {12}) # {} ->
             IF Rd16(v) = Bits[2] THEN "CADDI16SP" ELSE "CLUI"
        [] key = Bits[4] -> VisitArith16(v)
        [] OTHER         -> Select(Quadrant1, key)

\* Mutant: the register is not looked at, and C.EBREAK becomes a jump.
VisitCrType_NoEbreak(v) ==
  CASE 12 \notin v /\ Rs2of16(v) = {} -> IF Rd16(v) = {} THEN Illegal ELSE "CJR"
    [] 12 \notin v /\ Rs2of16(v) # {} -> "CMV"
    [] 12 \in v /\ Rs2of16(v) = {}    -> "CJALR"
    [] 12 \in v /\ Rs2of16(v) # {}    -> "CADD"

VisitCrType(v) ==
  CASE 12 \notin v /\ Rs2of16(v) = {} -> IF Rd16(v) = {} THEN Illegal ELSE "CJR"
    [] 12 \notin v /\ Rs2of16(v) # {} -> "CMV"
    [] 12 \in v /\ Rs2of16(v) = {}    -> IF Rd16(v) = {} THEN "CEBREAK" ELSE "CJALR"
    [] 12 \in v /\ Rs2of16(v) # {}    -> "CADD"

VisitOp2(v) ==
  CASE Funct3of16(v) = {} /\ 12 \in v -> Illegal
    [] Funct3of16(v) = Bits[4]        -> VisitCrType(v)
    [] OTHER                          -> Select(Quadrant2, Funct3of16(v))

Visit16(v) ==
  CASE Op16(v) = Bits[0] -> VisitOp0(v)
    [] Op16(v) = Bits[1] -> VisitOp1(v)
    [] Op16(v) = Bits[2] -> VisitOp2(v)

VisitInMemory(v, n, ext) ==
  CASE "C" \in ext /\ n >= 2 /\ IsInstruction16(v) -> Visit16(v)
    [] n >= 4 /\ IsInstruction32(v)                -> Visit32(v, ext)
    [] OTHER                                       -> Illegal
-----------------------------------------------------------------------------
Init ==
  /\ build \in Builds
  /\ inst = {}
  /\ length = 0
  /\ built = Nothing
  /\ visited = "none"

\* a word from elsewhere, of which n bytes may be read
Fetch ==
  /\ length = 0
  /\ \E v \in Fetched, n \in {2, 4} : inst' = v /\ length' = n
  /\ UNCHANGED <<build, built, visited>>

\* the constructor of a class
Construct ==
  /\ length = 0
  /\ \E c \in Constructible(build), a \in Operands :
       /\ inst' = Encode(c, a)
       /\ built' = [class |-> c, operands |-> a]
  /\ length' = 4
  /\ UNCHANGED <<build, visited>>

\* visit_in_memory
Visit ==
  /\ length > 0
  /\ visited = "none"
  /\ visited' = VisitInMemory(inst, length, build)
  /\ UNCHANGED <<build, inst, length, built>>

\* the program turns to another instruction
Forget ==
  /\ visited # "none"
  /\ inst' = {}
  /\ length' = 0
  /\ built' = Nothing
  /\ visited' = "none"
  /\ UNCHANGED build

Next == Fetch \/ Construct \/ Visit \/ Forget

Spec == Init /\ [][Next]_vars
-----------------------------------------------------------------------------
(***************************************************************************)
(* Properties.                                                             *)
(***************************************************************************)
Called == visited \notin {"none", Illegal}

\* The visitor called and dyn_cast agree.  The word is of the class whose
\* visitor gets it, and the visitor of a base or privileged class is called
\* for every word that dyn_cast takes for that class and may be read as a
\* whole (include/instruction/rv32i.hpp, instruction_visitor.hpp).  Two
\* exceptions are stated: the visitor of MRET gets words that are no MRET,
\* and the classes of M, A, C and Zicsr take every word of their format.
VisitorAndCastAgree ==
  visited # "none" =>
    /\ Called => IsType(visited, inst) \/ visited = "MRET"
    /\ length = 4 =>
         \A c \in InstructionMap(build) \cap (Base \cup {"SRET", "SFENCEVAM"}) :
            IsType(c, inst) => visited = c

\* Words of the offset bits that lie in lo .. hi, with bit hi as the sign.
Signed(imm, lo, hi) == (imm \cap (lo .. hi)) \cup {b \in (hi + 1) .. 31 : hi \in imm}

\* Of a register number, the five bits that an encoding has room for.
Truncated(a) ==
  [a EXCEPT !.rd = @ \cap (0 .. 4), !.rs1 = @ \cap (0 .. 4), !.rs2 = @ \cap (0 .. 4)]

\* What the getters of class c are to return for the arguments of its
\* constructor: those that its format carries, aq and rl exchanged.
Carried(c, a) ==
  LET plain == [rd |-> a.rd, rs1 |-> a.rs1, rs2 |-> a.rs2]
  IN  CASE c \in {"LUI", "AUIPC"} -> [rd |-> a.rd, imm |-> a.imm \cap (12 .. 31)]
        [] c = "JAL"              -> [rd |-> a.rd, imm |-> Signed(a.imm, 1, 20)]
        [] c \in DOMAIN Branch    -> [rs1 |-> a.rs1, rs2 |-> a.rs2, imm |-> Signed(a.imm, 1, 12)]
        [] c \in DOMAIN Store     -> [rs1 |-> a.rs1, rs2 |-> a.rs2, imm |-> Signed(a.imm, 0, 11)]
        [] c \in ClassesI         -> [rd |-> a.rd, rs1 |-> a.rs1, imm |-> Signed(a.imm, 0, 11)]
        [] c \in ShiftImm         -> [rd |-> a.rd, rs1 |-> a.rs1, imm |-> a.imm \cap (0 .. 4)]
        [] c = "FENCE"            -> [imm |-> a.imm \cap (0 .. 11)]
        [] c \in DOMAIN Privileged -> [rd |-> {}, rs1 |-> {}, rs2 |-> Bits[Privileged[c][2]]]
        [] c = "SFENCEVAM"        -> [plain EXCEPT !.rd = {}]
        [] c \in DOMAIN AtomicW   ->
             [plain EXCEPT !.rs2 = IF c = "LRW" THEN {} ELSE @] @@ [aq |-> a.rl, rl |-> a.aq]
        [] OTHER                  -> plain

\* An instruction that a class constructed is visited as that class, and the
\* getters return what the constructor was given: every bit of an immediate
\* is written and read at its place, with its sign, and an argument that is too
\* large for its field changes no other field.  Of an atomic, whose constructor
\* writes aq to bit 25 where the getters read rl, the two flags come back
\* exchanged and all the rest as given (include/instruction/instruction.hpp).
ConstructedIsDecoded ==
  built # Nothing /\ visited # "none" =>
    LET c == built.class
        a == Truncated(built.operands)
    IN  visited = c /\ Getters(c, inst) = Carried(c, a)

\* The offset of a compressed load or store is a multiple of the word size and
\* loses no bit of the encoding: different encodings give different offsets.
\* Of C.ADDI4SPN this says what its getter does with any immediate, though only
\* the word with a zero one is visited (include/instruction/rvc.hpp get_imm,
\* instruction.hpp slice_imm_w).
OffsetPositions ==
  [CLW |-> {5, 6} \cup (10 .. 12), CSW |-> {5, 6} \cup (10 .. 12),
   CLWSP |-> (2 .. 6) \cup {12}, CSWSP |-> 7 .. 12, CADDI4SPN |-> 5 .. 12]

InQuadrant(quadrant, op, c) ==
  c \in DOMAIN quadrant /\ Op16(inst) = Bits[op] /\ Funct3of16(inst) = Bits[quadrant[c]]

CompressedOffsetsExact ==
  length > 0 /\ "C" \in build =>
    \A c \in DOMAIN OffsetPositions :
      InQuadrant(Quadrant0, 0, c) \/ InQuadrant(Quadrant2, 2, c) =>
        LET offset == CompressedOffset(c, inst)
        IN  /\ offset \cap {0, 1} = {}
            /\ Cardinality(offset) = Cardinality(inst \cap OffsetPositions[c])

\* The manual's tables of quadrants 0 and 2 for RV32C without F and D: the class
\* of a word, or none for one that the manual reserves.  A register of zero, a
\* zero immediate or a set bit 12 tells some of them apart.
ManualClass(v) ==
  LET funct3 == Funct3of16(v)
      none == v \cap (2 .. 6) = {}
      zero == v \cap (7 .. 11) = {}
      set == 12 \in v
  IN  CASE Op16(v) = {} /\ funct3 = {} /\ v \cap (5 .. 12) # {} -> "CADDI4SPN"
        [] Op16(v) = {} /\ funct3 = Bits[2]       -> "CLW"
        [] Op16(v) = {} /\ funct3 = Bits[6]       -> "CSW"
        [] Op16(v) = {1} /\ funct3 = {} /\ ~set   -> "CSLLI"
        [] Op16(v) = {1} /\ funct3 = Bits[2] /\ ~zero -> "CLWSP"
        [] Op16(v) = {1} /\ funct3 = Bits[6]      -> "CSWSP"
        [] Op16(v) = {1} /\ funct3 = Bits[4] /\ ~none -> IF set THEN "CADD" ELSE "CMV"
        [] Op16(v) = {1} /\ funct3 = Bits[4] /\ none /\ ~zero -> IF set THEN "CJALR" ELSE "CJR"
        [] Op16(v) = {1} /\ funct3 = Bits[4] /\ none /\ zero /\ set -> "CEBREAK"
        [] OTHER                                  -> Illegal

\* The visitor that a 16-bit word reaches, for every such word.  In quadrants 0
\* and 2 it is the one of the manual's class, and none for a reserved word, but
\* for two groups of words: the test of visit_16_op0 is inverted, so that every
\* C.ADDI4SPN is illegal and the reserved words with a zero immediate are taken
\* for one; and visit_16_op2 has no test for the reserved C.LWSP with rd = 0.
\* All words of quadrant 1 go to C.JAL, which is right for FUNCT3 = 1 alone,
\* since visit_16_op1 switches on the wrong field (instruction_visitor.hpp).
CompressedAsManual ==
  visited # "none" /\ "C" \in build /\ IsInstruction16(inst) =>
    LET manual == ManualClass(inst)
    IN  visited =
          CASE Op16(inst) = {} /\ Funct3of16(inst) = {} ->
                 IF manual = Illegal THEN "CADDI4SPN" ELSE Illegal
            [] Op16(inst) = {1} /\ Funct3of16(inst) = Bits[2] -> "CLWSP"
            [] Op16(inst) = {0} -> "CJAL"
            [] OTHER            -> manual

\* The bits of a signed compressed immediate below its sign, and the sign, are
\* those of the manual, also where get_imm shifts the widened word: bit b of
\* the immediate is bit Layout[b] of the word.  Two bits are excepted: bit 9 of
\* a jump offset is lost and bit 5 of C.ADDI16SP always set.  Above the sign
\* the bits are those of FUNCT3 (include/instruction/rvc.hpp get_imm).
LayoutLow == [b \in 0 .. 5 |-> <<2, 3, 4, 5, 6, 12>>[b + 1]]
LayoutB == <<3, 4, 10, 11, 2, 5, 6, 12>>
LayoutJ == <<3, 4, 5, 11, 2, 7, 6, 9, 10, 8, 12>>
Layout ==
  [CLI |-> LayoutLow, CADDI |-> LayoutLow, CANDI |-> LayoutLow,
   CBEQZ |-> LayoutB, CBNEZ |-> LayoutB, CJ |-> LayoutJ, CJAL |-> LayoutJ,
   CLUI |-> [b \in 12 .. 17 |-> LayoutLow[b - 12]],
   CADDI16SP |-> [b \in 4 .. 9 |-> <<6, 2, 5, 3, 4, 12>>[b - 3]]]

Excepted(c) == CASE c \in {"CJ", "CJAL"} -> {9} [] c = "CADDI16SP" -> {5} [] OTHER -> {}

SignOf(c) == CHOOSE b \in DOMAIN Layout[c] : \A i \in DOMAIN Layout[c] : i <= b

CompressedLowBitsExact ==
  length > 0 /\ "C" \in build /\ Op16(inst) = {0} =>
    \A c \in DOMAIN Layout :
      /\ Funct3of16(inst) = Bits[Quadrant1[c]]
      /\ c \in DOMAIN Funct2 => GetBits(inst, 12, 10, 0) = Bits[Funct2[c]]
      /\ (c = "CADDI16SP") = (Funct3of16(inst) = Bits[3] /\ Rd16(inst) = {1})
      => (CompressedImm(c, inst) \cap (0 .. SignOf(c))) \ Excepted(c)
           = {b \in DOMAIN Layout[c] : Layout[c][b] \in inst} \ Excepted(c)

\* What the unit tests check of an encoding, for all classes of the program:
\* dyn_cast succeeds for the class that is visited and for no other
\* (test/include/instruction_test.hpp CheckVisitor, check_all_dyn_cast).
CastIsExact ==
  visited # "none" /\ (length = 4 \/ IsInstruction16(inst)) =>
    \A c \in InstructionMap(build) : IsType(c, inst) <=> visited = c
=============================================================================
