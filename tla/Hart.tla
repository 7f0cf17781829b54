-------------------------------- MODULE Hart --------------------------------
(***************************************************************************)
(* The interpreter (include/target/hart.hpp): start() runs visit() until   *)
(* it returns false and then trap_handler() until that returns false.      *)
(* visit() fetches through address_execute, decodes and executes; an       *)
(* exception stores its cause and value in SCAUSE and STVAL and makes      *)
(* visit() return false.  The subclass is the one of the integration test  *)
(* (test/integration/factorial_test.cpp): NoneHart with its flat Memory,   *)
(* which main() fills by memory_copy, and its environment calls.  Several  *)
(* harts may share the memory, each in a thread of its own: fetching an    *)
(* instruction, executing it and handling its trap are separate steps, and *)
(* a build with the C extension fetches the two halves one by one.         *)
(*                                                                         *)
(* Memory holds bytes of XLEN / 4 bits, so that a word has four of them.   *)
(* Encodings are abstracted: a word that is an index of Program is the     *)
(* encoding of Program[k]; every other word is illegal, and a 16-bit       *)
(* instruction if its lower half is no index.                              *)
(***************************************************************************)
EXTENDS Operators, Sequences

CONSTANTS
  Harts,        \* the harts that share the memory
  Program,      \* the instructions words may encode
  MemorySize,   \* memory_size of Memory, in bytes
  Regs,         \* the integer registers in use; 0 is x0
  Ialigns,      \* the builds: RISCV_IALIGN is 16 with the C extension
  Level,        \* cur_level: NoneHart runs in USER_MODE
  Raises        \* TRUE if the callbacks raise an exception themselves

LoadSize == [lb |-> 1, lh |-> 2, lw |-> 4, lbu |-> 1, lhu |-> 2]
StoreSize == [sb |-> 1, sh |-> 2, sw |-> 4]
ImmOperator ==
  [addi |-> "ADD", slti |-> "SLT", sltiu |-> "SLTU", xori |-> "XOR",
   ori |-> "OR", andi |-> "AND", slli |-> "SLL", srli |-> "SRL",
   srai |-> "SRA"]
RegOperator ==
  [add |-> "ADD", sub |-> "SUB", sll |-> "SLL", slt |-> "SLT",
   sltu |-> "SLTU", xor |-> "XOR", srl |-> "SRL", sra |-> "SRA",
   or |-> "OR", and |-> "AND", mul |-> "MUL", mulh |-> "MULH",
   mulhsu |-> "MULHSU", mulhu |-> "MULHU", div |-> "DIV", divu |-> "DIVU",
   rem |-> "REM", remu |-> "REMU"]
BranchOperator ==
  [beq |-> "EQ", bne |-> "NE", blt |-> "LT", bge |-> "GE", bltu |-> "LTU",
   bgeu |-> "GEU"]

ByteBits == XLEN \div XLEN_BYTE
Byte == 0 .. (2^ByteBits - 1)
Half == 0 .. (2^(2 * ByteBits) - 1)

ASSUME HartAssumption ==
  /\ MemorySize \in 0 .. Modulus /\ MemorySize % 4 = 0
  /\ Ialigns \subseteq {16, 32}
  /\ Regs \subseteq Nat /\ {0, 10, 11} \subseteq Regs
  /\ Level \in {"USER", "SUPERVISOR", "MACHINE"}
  /\ Raises \in BOOLEAN
  /\ Len(Program) \in Half
  /\ \A k \in 1 .. Len(Program) :
       /\ Program[k].rd \in Regs /\ Program[k].rs1 \in Regs
       /\ Program[k].rs2 \in Regs /\ Program[k].imm \in Int
       /\ Program[k].op \in {"slli", "srli", "srai"}
            => Program[k].imm \in 0 .. (XLEN - 1)
       /\ Program[k].op \in DOMAIN BranchOperator \cup {"jal"}
            => Program[k].imm % 2 = 0

VARIABLES
  mem,      \* the shared Memory: its bytes
  image,    \* the memory_copy calls main() has yet to make
  ialign,   \* RISCV_IALIGN of the build
  pc, x,    \* Hart::pc, Hart::int_reg
  scause,   \* csr_reg[SCAUSE]
  stval,    \* csr_reg[STVAL]
  stage,    \* where start() is: "visit", "half" (one half is fetched),
            \* "execute", "trap", "recheck" (break_point_handler has seen
            \* that it is no C.EBREAK) or "stopped"
  ir,       \* inst_buffer of visit()
  at,       \* history: pc when visit() began
  found,    \* history: int_reg when visit() began
  raised,   \* history: the cause a callback raised in this instruction
  console,  \* what the environment calls printed
  died      \* "no", or why the process ended: "unreachable"
            \* (riscv_isa_unreachable), "division" (a signal of the host),
            \* "overrun", "beyond" (accesses outside the memory)

hartVars == <<pc, x, scause, stval, stage, ir, at, found, raised, console>>
vars == <<mem, image, ialign, hartVars, died>>

Decode(w) ==
  IF w \in 1 .. Len(Program)
  THEN Program[w]
  ELSE [op |-> "illegal", rd |-> 0, rs1 |-> 0, rs2 |-> 0, imm |-> 0]

\* The lower half of a 32-bit instruction (is_type<Instruction16> fails).
IsLong(half) == half \in 1 .. Len(Program)

Inst(h) == Decode(ir[h])

Address(a) == a < MemorySize    \* Memory::address is not nullptr

-----------------------------------------------------------------------------
(***************************************************************************)
(* Memory: little endian, n bytes of memory m from a.                      *)
(***************************************************************************)
ByteOf(w, k) == (w \div 2^(k * ByteBits)) % 2^ByteBits
Value(m, a, n) == MapThenSumSet(LAMBDA k : m[a + k] * 2^(k * ByteBits), 0 .. (n - 1))

\* What a pointer to four bytes at a reads: nothing bounds its end, and what
\* is beyond the memory may be zero or not.
WordsAt(m, a) ==
  IF a + 4 <= MemorySize
  THEN {Value(m, a, 4)}
  ELSE {Value(m, a, MemorySize - a) + b * 2^((MemorySize - a) * ByteBits) : b \in {0, 1}}

Extend(v, n) ==
  IF v < 2^(n * ByteBits - 1) THEN v ELSE Wrap(v - 2^(n * ByteBits))

Loaded(op, a) ==
  LET v == Value(mem, a, LoadSize[op])
  IN IF op \in {"lbu", "lhu"} THEN v ELSE Extend(v, LoadSize[op])

Footprint(a, n) == a .. (a + n - 1)

\* Mutant: a store writes the whole word.
Stored_Word(a, n, v) ==
  [b \in DOMAIN mem |-> IF b \in Footprint(a - (a % 4), 4)
                        THEN ByteOf(v, b % 4) ELSE mem[b]]

Stored(a, n, v) ==
  [b \in DOMAIN mem |-> IF b \in Footprint(a, n) THEN ByteOf(v, b - a) ELSE mem[b]]

(***************************************************************************)
(* memory_copy: memory_size - length wraps when the image is longer than   *)
(* the memory and then accepts every offset.  main() ignores the result.   *)
(***************************************************************************)
Length(copy) == 4 * Len(copy.words)

\* Mutant: the length is forgotten.
CopyAccepts_NoLength(copy) == copy.offset <= MemorySize

CopyAccepts(copy) ==
  Length(copy) > MemorySize \/ copy.offset <= MemorySize - Length(copy)

\* memcpy beyond the end of the memory ends the process or overwrites
\* something else of the host.
MemoryCopy ==
  /\ died = "no" /\ image # <<>>
  /\ LET copy == Head(image)
         span == Footprint(copy.offset, Length(copy))
     IN \/ /\ ~CopyAccepts(copy)
           /\ image' = Tail(image)
           /\ UNCHANGED <<mem, died>>
        \/ /\ CopyAccepts(copy)
           /\ image' = Tail(image)
           /\ mem' = [a \in DOMAIN mem |->
                        IF a \in span
                        THEN ByteOf(copy.words[(a - copy.offset) \div 4 + 1],
                                    (a - copy.offset) % 4)
                        ELSE mem[a]]
           /\ UNCHANGED died
        \/ /\ CopyAccepts(copy) /\ ~(span \subseteq DOMAIN mem)
           /\ died' = "overrun"
           /\ UNCHANGED <<mem, image>>
  /\ UNCHANGED <<ialign, hartVars>>

-----------------------------------------------------------------------------
(***************************************************************************)
(* Steps within an instruction.                                            *)
(***************************************************************************)
SetX(h, r, v) == x' = IF r = 0 THEN x ELSE [x EXCEPT ![h][r] = v]

JumpToAddr(h, a) == pc' = [pc EXCEPT ![h] = a]
IncPc(h, width) == JumpToAddr(h, Wrap(pc[h] + width))

Proceeds(h, to) == stage' = [stage EXCEPT ![h] = to]

InternalInterrupt(h, cause, value) ==
  /\ scause' = [scause EXCEPT ![h] = cause]
  /\ stval' = [stval EXCEPT ![h] = value]
  /\ Proceeds(h, "trap")

\* The instruction traps and changes nothing else.
Traps(h, cause, value) ==
  /\ InternalInterrupt(h, cause, value)
  /\ UNCHANGED <<mem, pc, x, ir, at, found, raised, console, died>>

\* A callback returns nullptr.  One that raises its own exception first does
\* so through internal_interrupt; then the caller raises the page fault.
CallbackTraps(h, cause, value) ==
  /\ raised' = [raised EXCEPT ![h] = IF Raises THEN "CALLBACK" ELSE "none"]
  /\ InternalInterrupt(h, cause, value)
  /\ UNCHANGED <<mem, pc, x, ir, console, died>>

\* The instruction retires.
Retires(h) ==
  /\ Proceeds(h, "visit")
  /\ UNCHANGED <<scause, stval, ir, at, found, raised, console, died>>

\* The process ends with all its threads.
Dies(why) == died' = why /\ UNCHANGED <<mem, hartVars>>

-----------------------------------------------------------------------------
(***************************************************************************)
(* visit()                                                                 *)
(***************************************************************************)
Begins(h) ==
  /\ stage[h] = "visit"
  /\ at' = [at EXCEPT ![h] = pc[h]]
  /\ found' = [found EXCEPT ![h] = x[h]]

FetchFault(h) ==
  /\ Begins(h)
  /\ ~Address(pc[h])
  /\ CallbackTraps(h, "INSTRUCTION_PAGE_FAULT", pc[h])

Fetched(h, inst, to) ==
  /\ ir' = [ir EXCEPT ![h] = inst]
  /\ Proceeds(h, to)
  /\ raised' = [raised EXCEPT ![h] = "none"]
  /\ UNCHANGED <<mem, pc, x, scause, stval, console, died>>

\* Nothing checks the alignment of pc: the word may lie across two words, or
\* across the end of the memory.
Fetch(h) ==
  /\ Begins(h)
  /\ ialign = 32 /\ Address(pc[h])
  /\ \E w \in WordsAt(mem, pc[h]) : Fetched(h, w, "execute")

FetchHalf(h) ==
  /\ Begins(h)
  /\ ialign = 16 /\ Address(pc[h])
  /\ LET half == Value(mem, pc[h], 2)
     IN Fetched(h, half, IF IsLong(half) THEN "half" ELSE "execute")

SecondHalf(h) == Wrap(pc[h] + 2)

FetchRest(h) ==
  /\ stage[h] = "half"
  /\ Address(SecondHalf(h))
  /\ Fetched(h, ir[h] + Value(mem, SecondHalf(h), 2) * 2^(2 * ByteBits), "execute")
  /\ UNCHANGED <<at, found>>

FetchRestFault(h) ==
  /\ stage[h] = "half"
  /\ ~Address(SecondHalf(h))
  /\ CallbackTraps(h, "INSTRUCTION_PAGE_FAULT", pc[h])
  /\ UNCHANGED <<at, found>>

FetchDies(h) ==
  /\ stage[h] = "visit"
  /\ ialign = 32 /\ Address(pc[h])
  /\ pc[h] + 4 > MemorySize
  /\ Dies("beyond")

At(h, ops) == stage[h] = "execute" /\ Inst(h).op \in ops
Rs1(h) == x[h][Inst(h).rs1]
Rs2(h) == x[h][Inst(h).rs2]

Operator(op) ==
  IF op \in DOMAIN ImmOperator THEN ImmOperator[op] ELSE RegOperator[op]

SecondOperand(h) ==
  IF Inst(h).op \in DOMAIN ImmOperator THEN Wrap(Inst(h).imm) ELSE Rs2(h)

\* operate_imm, operate_reg, operate_imm_shift
Operate(h) ==
  /\ At(h, DOMAIN ImmOperator \cup DOMAIN RegOperator)
  /\ \E r \in Results(Operator(Inst(h).op), Rs1(h), SecondOperand(h)) :
       SetX(h, Inst(h).rd, r)
  /\ IncPc(h, 4)
  /\ Retires(h)
  /\ UNCHANGED mem

\* Without a destination the operator is not called.
OperateDies(h) ==
  /\ At(h, DOMAIN RegOperator)
  /\ Inst(h).rd # 0
  /\ MayDie(Operator(Inst(h).op), Rs1(h), Rs2(h))
  /\ Dies("division")

\* lui, auipc
LoadUpper(h) ==
  /\ At(h, {"lui", "auipc"})
  /\ SetX(h, Inst(h).rd,
          Wrap(Inst(h).imm + IF Inst(h).op = "auipc" THEN pc[h] ELSE 0))
  /\ IncPc(h, 4)
  /\ Retires(h)
  /\ UNCHANGED mem

Target(h) ==
  IF Inst(h).op = "jalr"
  THEN LET t == Wrap(Rs1(h) + Inst(h).imm) IN t - (t % 2)
  ELSE Wrap(pc[h] + Inst(h).imm)

Jump(h) ==
  /\ At(h, {"jal", "jalr"})
  /\ JumpToAddr(h, Target(h))
  /\ SetX(h, Inst(h).rd, Wrap(pc[h] + 4))
  /\ Retires(h)
  /\ UNCHANGED mem

\* Mutants: the condition is inverted; a branch not taken stays where it is.
Branch_Inverted(h) ==
  /\ At(h, DOMAIN BranchOperator)
  /\ IF ~Taken(BranchOperator[Inst(h).op], Rs1(h), Rs2(h))
     THEN JumpToAddr(h, Target(h))
     ELSE IncPc(h, 4)
  /\ Retires(h)
  /\ UNCHANGED <<mem, x>>

Branch_NoInc(h) ==
  /\ At(h, DOMAIN BranchOperator)
  /\ IF Taken(BranchOperator[Inst(h).op], Rs1(h), Rs2(h))
     THEN JumpToAddr(h, Target(h))
     ELSE UNCHANGED pc
  /\ Retires(h)
  /\ UNCHANGED <<mem, x>>

Branch(h) ==
  /\ At(h, DOMAIN BranchOperator)
  /\ IF Taken(BranchOperator[Inst(h).op], Rs1(h), Rs2(h))
     THEN JumpToAddr(h, Target(h))
     ELSE IncPc(h, 4)
  /\ Retires(h)
  /\ UNCHANGED <<mem, x>>

\* Mutant: the sum is wider than a register.
EffectiveAddress_Wide(h) == Rs1(h) + Inst(h).imm

EffectiveAddress(h) == Wrap(Rs1(h) + Inst(h).imm)

Accesses == DOMAIN LoadSize \cup DOMAIN StoreSize
IsLoad(h) == Inst(h).op \in DOMAIN LoadSize
Size(h) == IF IsLoad(h) THEN LoadSize[Inst(h).op] ELSE StoreSize[Inst(h).op]
Aligned(h) == EffectiveAddress(h) % Size(h) = 0

AccessFault(h) ==
  /\ At(h, Accesses)
  /\ ~Aligned(h)
  /\ Traps(h, IF IsLoad(h) THEN "LOAD_ACCESS_FAULT" ELSE "STORE_AMO_ACCESS_FAULT",
           EffectiveAddress(h))

\* Mutant: a load clears rd before the callback is asked.
PageFault_ClearsRd(h) ==
  /\ At(h, Accesses)
  /\ Aligned(h)
  /\ ~Address(EffectiveAddress(h))
  /\ SetX(h, Inst(h).rd, 0)
  /\ InternalInterrupt(h, IF IsLoad(h) THEN "LOAD_PAGE_FAULT"
                                       ELSE "STORE_AMO_PAGE_FAULT",
                       EffectiveAddress(h))
  /\ UNCHANGED <<mem, pc, ir, at, found, raised, console, died>>

PageFault(h) ==
  /\ At(h, Accesses)
  /\ Aligned(h)
  /\ ~Address(EffectiveAddress(h))
  /\ CallbackTraps(h, IF IsLoad(h) THEN "LOAD_PAGE_FAULT"
                                   ELSE "STORE_AMO_PAGE_FAULT",
                   EffectiveAddress(h))
  /\ UNCHANGED <<at, found>>

Load(h) ==
  /\ At(h, DOMAIN LoadSize)
  /\ Aligned(h) /\ Address(EffectiveAddress(h))
  /\ SetX(h, Inst(h).rd, Loaded(Inst(h).op, EffectiveAddress(h)))
  /\ IncPc(h, 4)
  /\ Retires(h)
  /\ UNCHANGED mem

Store(h) ==
  /\ At(h, DOMAIN StoreSize)
  /\ Aligned(h) /\ Address(EffectiveAddress(h))
  /\ mem' = Stored(EffectiveAddress(h), Size(h), Rs2(h))
  /\ IncPc(h, 4)
  /\ Retires(h)
  /\ UNCHANGED x

\* NoneHart::visit_fence_inst
Fence(h) ==
  /\ At(h, {"fence"})
  /\ IncPc(h, 4)
  /\ Retires(h)
  /\ UNCHANGED <<mem, x>>

EnvironmentCallCause ==
  CASE Level = "USER"       -> "U_MODE_ENVIRONMENT_CALL"
    [] Level = "SUPERVISOR" -> "S_MODE_ENVIRONMENT_CALL"
    [] Level = "MACHINE"    -> "M_MODE_ENVIRONMENT_CALL"

Ecall(h) == At(h, {"ecall"}) /\ Traps(h, EnvironmentCallCause, 0)

\* Mutant: STVAL names the instruction after the EBREAK.
Ebreak_Next(h) == At(h, {"ebreak"}) /\ Traps(h, "BREAKPOINT", Wrap(pc[h] + 4))

Ebreak(h) == At(h, {"ebreak"}) /\ Traps(h, "BREAKPOINT", pc[h])

Illegal(h) == At(h, {"illegal"}) /\ Traps(h, "ILLEGAL_INSTRUCTION", ir[h])

-----------------------------------------------------------------------------
(***************************************************************************)
(* trap_handler()                                                          *)
(***************************************************************************)
A0(h) == x[h][10]
A1(h) == x[h][11]

InTrap(h, causes) == stage[h] = "trap" /\ scause[h] \in causes

\* A handler returns true and start() goes on.
Handled(h, width) ==
  /\ IncPc(h, width)
  /\ Proceeds(h, "visit")
  /\ UNCHANGED <<mem, x, scause, stval, ir, at, found, raised, died>>

\* Mutant: is_self_type of Instruction16 is not asked either.
BreakPointCompressed_Any(h) ==
  /\ InTrap(h, {"BREAKPOINT"})
  /\ ialign = 16
  /\ Handled(h, 2)
  /\ UNCHANGED console

\* break_point_handler looks for the instruction at STVAL again.  CEBREAKInst
\* has no is_self_type of its own: every 16-bit instruction passes for it.
BreakPointCompressed(h) ==
  /\ InTrap(h, {"BREAKPOINT"})
  /\ ialign = 16 /\ ~IsLong(Value(mem, stval[h], 2))
  /\ Handled(h, 2)
  /\ UNCHANGED console

BreakPointLong(h) ==
  /\ InTrap(h, {"BREAKPOINT"})
  /\ ialign = 16 /\ IsLong(Value(mem, stval[h], 2))
  /\ Proceeds(h, "recheck")
  /\ UNCHANGED <<mem, pc, x, scause, stval, ir, at, found, raised, console, died>>

Rechecks(h) ==
  \/ stage[h] = "recheck"
  \/ ialign = 32 /\ InTrap(h, {"BREAKPOINT"})

BreakPointContinues(h) ==
  /\ Rechecks(h)
  /\ \E w \in WordsAt(mem, stval[h]) : Decode(w).op = "ebreak"
  /\ Handled(h, 4)
  /\ UNCHANGED console

BreakPointAborts(h) ==
  /\ Rechecks(h)
  /\ \E w \in WordsAt(mem, stval[h]) : Decode(w).op # "ebreak"
  /\ Dies("unreachable")

\* Mutant: the handler prints and forgets inc_pc.
Prints_Stays(h) ==
  /\ InTrap(h, {"U_MODE_ENVIRONMENT_CALL"})
  /\ A0(h) \in {1, 11}
  /\ console' = [console EXCEPT ![h] = Append(@, A1(h))]
  /\ Handled(h, 0)

\* NoneHart::u_mode_environment_call_handler: pc advances in every case
Prints(h) ==
  /\ InTrap(h, {"U_MODE_ENVIRONMENT_CALL"})
  /\ A0(h) \in {1, 11}
  /\ console' = [console EXCEPT ![h] = Append(@, A1(h))]
  /\ Handled(h, 4)

Exits(h) ==
  /\ InTrap(h, {"U_MODE_ENVIRONMENT_CALL"})
  /\ A0(h) \notin {1, 11}
  /\ IncPc(h, 4)
  /\ Proceeds(h, "stopped")
  /\ UNCHANGED <<mem, x, scause, stval, ir, at, found, raised, console, died>>

\* the default handlers report and return false
Stops(h) ==
  /\ stage[h] = "trap"
  /\ scause[h] \notin {"BREAKPOINT", "U_MODE_ENVIRONMENT_CALL"}
  /\ Proceeds(h, "stopped")
  /\ UNCHANGED <<mem, pc, x, scause, stval, ir, at, found, raised, console, died>>

-----------------------------------------------------------------------------
Visit(h) ==
  \/ FetchFault(h) \/ Fetch(h) \/ FetchHalf(h) \/ FetchRest(h)
  \/ FetchRestFault(h) \/ FetchDies(h)

Execute(h) ==
  \/ Operate(h) \/ OperateDies(h) \/ LoadUpper(h) \/ Jump(h) \/ Branch(h)
  \/ AccessFault(h) \/ PageFault(h) \/ Load(h) \/ Store(h)
  \/ Fence(h) \/ Ecall(h) \/ Ebreak(h) \/ Illegal(h)

TrapHandler(h) ==
  \/ BreakPointCompressed(h) \/ BreakPointLong(h)
  \/ BreakPointContinues(h) \/ BreakPointAborts(h)
  \/ Prints(h) \/ Exits(h) \/ Stops(h)

\* main() starts the harts when the images are in place.
Step(h) ==
  /\ died = "no" /\ image = <<>>
  /\ Visit(h) \/ Execute(h) \/ TrapHandler(h)
  /\ UNCHANGED <<image, ialign>>

\* start() of every hart has returned, or the process has ended
Done ==
  /\ died # "no" \/ (image = <<>> /\ \A h \in Harts : stage[h] = "stopped")
  /\ UNCHANGED vars

Next == MemoryCopy \/ (\E h \in Harts : Step(h)) \/ Done

\* words are already in the memory, copies are still to be made.
Booted(words, copies, boot, regs) ==
  /\ mem = [a \in 0 .. (MemorySize - 1) |->
              IF a \div 4 < Len(words) THEN ByteOf(words[a \div 4 + 1], a % 4) ELSE 0]
  /\ image = copies
  /\ ialign \in Ialigns
  /\ pc = boot
  /\ x = regs
  /\ scause = [h \in Harts |-> "none"]
  /\ stval = [h \in Harts |-> 0]
  /\ stage = [h \in Harts |-> "visit"]
  /\ ir = [h \in Harts |-> 0]
  /\ at = boot
  /\ found = regs
  /\ raised = [h \in Harts |-> "none"]
  /\ console = [h \in Harts |-> <<>>]
  /\ died = "no"

\* Any memory, any images, any even address and any registers but x0, which
\* IntegerRegister() clears and set_x() leaves alone.
Init ==
  \E words \in Seq(Word), copies \in Seq([offset : Word, words : Seq(Word)]),
     boot \in [Harts -> {a \in Word : a % 2 = 0}],
     regs \in [Harts -> {r \in [Regs -> Word] : r[0] = 0}] :
    Booted(words, copies, boot, regs)

Spec == Init /\ [][Next]_vars

\* main() copies the images, and then the thread of a hart goes on.
Fairness == WF_vars(MemoryCopy) /\ \A h \in Harts : WF_vars(Step(h))

-----------------------------------------------------------------------------
Causes ==
  {"none", "INSTRUCTION_PAGE_FAULT", "ILLEGAL_INSTRUCTION", "BREAKPOINT",
   "LOAD_ACCESS_FAULT", "LOAD_PAGE_FAULT", "STORE_AMO_ACCESS_FAULT",
   "STORE_AMO_PAGE_FAULT", "U_MODE_ENVIRONMENT_CALL",
   "S_MODE_ENVIRONMENT_CALL", "M_MODE_ENVIRONMENT_CALL"}

(***************************************************************************)
(* The types of Hart's members and of the memory.                          *)
(***************************************************************************)
TypeOK ==
  /\ mem \in [0 .. (MemorySize - 1) -> Byte]
  /\ image \in Seq([offset : Word, words : Seq(Word)])
  /\ ialign \in Ialigns
  /\ pc \in [Harts -> Word] /\ x \in [Harts -> [Regs -> Word]]
  /\ scause \in [Harts -> Causes] /\ stval \in [Harts -> Word]
  /\ stage \in [Harts -> {"visit", "half", "execute", "trap", "recheck", "stopped"}]
  /\ ir \in [Harts -> Word] /\ at \in [Harts -> Word]
  /\ found \in [Harts -> [Regs -> Word]]
  /\ raised \in [Harts -> {"none", "CALLBACK"}]
  /\ console \in [Harts -> Seq(Word)]
  /\ died \in {"no", "unreachable", "division", "overrun", "beyond"}

(***************************************************************************)
(* Traps are precise: while a trap is handled, and after a handler that    *)
(* gave up, pc and every register are what they were when visit() began    *)
(* with the instruction, and SCAUSE and STVAL describe it, also when only  *)
(* the second half of an instruction could not be fetched.  The handlers   *)
(* and whoever looks at the stopped hart depend on it.  That it has not    *)
(* written the memory either is a part of AccessesExact.                   *)
(***************************************************************************)
Justified(h) ==
  CASE scause[h] = "INSTRUCTION_PAGE_FAULT" ->
         /\ stval[h] = pc[h]
         /\ ~Address(pc[h]) \/ (ialign = 16 /\ ~Address(SecondHalf(h)))
    [] scause[h] = "ILLEGAL_INSTRUCTION" ->
         stval[h] = ir[h] /\ Inst(h).op = "illegal"
    [] scause[h] = "BREAKPOINT" ->
         stval[h] = pc[h] /\ Inst(h).op = "ebreak"
    [] scause[h] \in {"LOAD_ACCESS_FAULT", "STORE_AMO_ACCESS_FAULT"} ->
         /\ Inst(h).op \in Accesses /\ IsLoad(h) = (scause[h] = "LOAD_ACCESS_FAULT")
         /\ stval[h] = EffectiveAddress(h) /\ ~Aligned(h)
    [] scause[h] \in {"LOAD_PAGE_FAULT", "STORE_AMO_PAGE_FAULT"} ->
         /\ Inst(h).op \in Accesses /\ IsLoad(h) = (scause[h] = "LOAD_PAGE_FAULT")
         /\ stval[h] = EffectiveAddress(h)
         /\ Aligned(h) /\ ~Address(stval[h])
    [] OTHER -> scause[h] = EnvironmentCallCause /\ Inst(h).op = "ecall"

TrapsArePrecise ==
  \A h \in Harts :
    (\/ stage[h] \in {"trap", "recheck"}
     \/ stage[h] = "stopped" /\ scause[h] # "U_MODE_ENVIRONMENT_CALL")
      => pc[h] = at[h] /\ x[h] = found[h] /\ Justified(h)

(***************************************************************************)
(* The re-read of the EBREAK in break_point_handler is harmless as long as *)
(* nobody stores over the instruction: the process aborts only when the    *)
(* memory no longer holds what visit() fetched.                            *)
(***************************************************************************)
Patched(h) == WordsAt(mem, at[h]) # {ir[h]}

AbortsOnlyWhenPatched ==
  died = "unreachable" => \E h \in Harts : Rechecks(h) /\ Patched(h)

(***************************************************************************)
(* A breakpoint that break_point_handler handles continues behind the      *)
(* EBREAK, and not in its middle, unless the EBREAK was overwritten.       *)
(***************************************************************************)
BreakPointSkipsEbreak ==
  [][\A h \in Harts :
       Rechecks(h) \/ InTrap(h, {"BREAKPOINT"}) =>
         \/ stage'[h] # "visit"
         \/ pc'[h] = Wrap(at[h] + 4) \/ Patched(h)]_vars

(***************************************************************************)
(* Every ALU instruction and branch that retires has the effect of the     *)
(* RISC-V manual, but for the deviations named in Operators; x0 stays 0.   *)
(***************************************************************************)
Retiring(h) == stage[h] = "execute" /\ stage'[h] = "visit"

ResultsAsManual ==
  [][\A h \in Harts : Retiring(h) =>
       /\ x'[h][0] = 0
       /\ At(h, DOMAIN ImmOperator \cup DOMAIN RegOperator) =>
            LET op == Operator(Inst(h).op)
            IN \/ Inst(h).rd = 0
               \/ Deviates(op, Rs1(h), SecondOperand(h))
               \/ AsManual(op, Rs1(h), SecondOperand(h), x'[h][Inst(h).rd])
       /\ At(h, DOMAIN BranchOperator) =>
            pc'[h] = Wrap(pc[h] + IF TakenAsManual(BranchOperator[Inst(h).op],
                                                   Rs1(h), Rs2(h))
                                  THEN Inst(h).imm ELSE 4)]_vars

(***************************************************************************)
(* Loads and stores of every width are exact: a load returns the bytes at  *)
(* its address, extended as its name says; a store changes its own bytes   *)
(* and no neighbour in the same word, which another hart may be writing.   *)
(***************************************************************************)
LoadedBit(h, i) ==
  LET top == Size(h) * ByteBits - 1
      k == IF i > top THEN top ELSE i
  IN /\ i <= top \/ Inst(h).op \in {"lb", "lh"}
     /\ Bit(mem[EffectiveAddress(h) + k \div ByteBits], k % ByteBits)

AccessesExact ==
  [][/\ \A h \in Harts : Retiring(h) /\ At(h, DOMAIN LoadSize) =>
          \/ Inst(h).rd = 0
          \/ \A i \in 0 .. (XLEN - 1) : Bit(x'[h][Inst(h).rd], i) = LoadedBit(h, i)
     /\ \A h \in Harts : Retiring(h) /\ At(h, DOMAIN StoreSize) =>
          \A i \in 0 .. (Size(h) * ByteBits - 1) :
            Bit(mem'[EffectiveAddress(h) + i \div ByteBits], i % ByteBits)
              = Bit(Rs2(h), i)
     /\ \A a \in DOMAIN mem : mem'[a] # mem[a] =>
          \/ image # <<>>
          \/ \E h \in Harts : /\ Retiring(h) /\ At(h, DOMAIN StoreSize)
                              /\ a \in Footprint(EffectiveAddress(h), Size(h))]_vars

(***************************************************************************)
(* Otherwise the process ends only where its contract is broken: the one   *)
(* quotient that overflows, an image longer than the memory (a shorter one *)
(* is copied whole or not at all), a fetch at a misaligned pc.             *)
(***************************************************************************)
DiesOnlyOutsideContract ==
  /\ died = "division" => \E h \in Harts : /\ At(h, {"div", "rem"})
                                           /\ Signed(Rs1(h)) < -Signed(MostNegative - 1)
                                           /\ Signed(Rs2(h)) = -1
  /\ died = "overrun" => Length(Head(image)) > MemorySize
  /\ died = "beyond" => \E h \in Harts : ialign = 32 /\ pc[h] % 4 # 0

(***************************************************************************)
(* The assertion of break_point_handler: it is never entered for anything  *)
(* but an EBREAK.                                                          *)
(***************************************************************************)
BreakPointIsEbreak == died # "unreachable"

(***************************************************************************)
(* The instruction-address alignment constraint IALIGN.                    *)
(***************************************************************************)
PcAligned == \A h \in Harts : pc[h] % (ialign \div 8) = 0

(***************************************************************************)
(* A callback that cannot translate an address raises the exception itself *)
(* and returns false: the handler is then called for that exception.       *)
(***************************************************************************)
CallbackCauseKept ==
  \A h \in Harts :
    stage[h] = "trap" /\ raised[h] # "none" => scause[h] = raised[h]
=============================================================================
