# A TLA+ model of the riscv-isa library

The repository is a header-only RISC-V instruction-set library: encodings of
the instructions, a visitor that decodes them, and `Hart`, an interpreter that an
embedding program subclasses (CRTP) and drives with a thread of its own. This
directory holds TLA+ modules that model its core logic, TLC configurations that check
them on small instances, and theorems that the TLA+ proof system has checked for every
instance.

## Inventory

| Component | State | Operations | Hard behaviour | What makes it correct |
|---|---|---|---|---|
| Atomic memory accesses (`hart.hpp:58-104, 460-570`, `operators.hpp:226-324`) | shared memory; `reserve_address`, `reserve_value` per hart | LR, SC, nine AMOs, plain loads and stores | several harts on one memory; `compare_exchange_weak` loops; a failed exchange rewrites `reserve_value`; spurious failures; ABA; plain stores delayed by the host | every AMO is one read-modify-write; SC exchanges only from the value reserved; loops are lock-free; addresses are checked before memory is touched |
| Interpreter loop and traps (`hart.hpp:40-421, 887-1041`) | `pc`, `int_reg`, `SCAUSE`, `STVAL`, `inst_buffer` | `visit` (one fetch or two halves), `trap_handler`, `start`, the visitors of RV32IM | early returns in the middle of an instruction; fetch, execution and trap handling are separated by other harts' stores; sub-word accesses beside each other | traps are precise; the handler called is that of the trap taken; accesses touch their bytes only; results are the manual's |
| Test embedding (`test/integration/factorial_test.cpp`) | `Memory` | `memory_copy`, callbacks, environment calls | addresses at the end of memory; lengths that wrap | the program prints the factorials and ends; images are copied whole or not at all |
| CSR file (`csr_register.hpp`, `csr_register_def.hpp`) | `inner` | `init_csr`, `get_index` | two hundred numbers in conditional macros | the number of a register belongs to the level of its row |
| Zicsr (`hart.hpp:641-885`) | `csr_reg`, `cur_level` | six instructions, `check_csr`, setters | an instruction that fails half way; `rd = rs1`; level changes | privilege and read-only protection; one atomic read-modify-write; precise illegal instructions |
| Operators (`operators.hpp:22-225`) | none | arithmetic on words | division and shifts at the edges of C++ | the result the RISC-V manual defines |
| Decoder (`instruction_visitor.hpp`) | none | `visit_in_memory` and the switches behind it | overlapping formats; each encoding is stated three times (switch, `is_self_type`, constructor) | every encoding goes to its instruction; switch and `dyn_cast` agree |
| Encodings (`instruction/*.hpp`) | the word | constructors, getters, `is_self_type` | immediates scattered over the word, with their sign | what is constructed comes back |
| Integer registers, trap codes | `x` | `get_x`, `set_x` | x0 | x0 stays zero |
| Dump, RV64, build files | none | printing | none | not modelled |

The components interact by calls: `start` calls `visit`, which calls the callbacks
`address_execute`, `address_load`, `address_store` of the subclass and its visitors; a
visitor that traps calls `internal_interrupt`, which writes `SCAUSE` and `STVAL` of the
CSR file, and `trap_handler` reads them. Harts interact only through the memory the
callbacks hand out pointers into.

## Modules

| Module | Models | Role |
|---|---|---|
| `Words` | `operators.hpp` ADD, XOR, OR, AND, LT, LTU | words as sets of bit positions, without recursion, so that TLC and the provers use the same definitions |
| `MemoryOps` | AMO operators, address checks, trap codes | vocabulary shared by `Atomics` and `AtomicMemory` |
| `Atomics` | `Hart::operate_load/store/atomic`, `visit_lrw_inst`, `visit_scw_inst`, `AMO*::op` | one step per access to the shared memory |
| `AtomicMemory` | what guest code is promised | abstract specification: every instruction acts at one instant |
| `GuestCounter`, `GuestLock` | guest programs (environment) | what LR/SC and AMOs are good for |
| `Operators` | `operators.hpp:22-225` | the ALU operators and branch conditions on words of `XLEN` bits as integers, what C++ leaves undefined as a set of results, and the manual's definitions to compare with |
| `Hart` | `visit`, `start`, `trap_handler`, handlers, RV32IM visitors, `NoneHart`, `Memory` | the interpreter with fetch, execution and trap handling as separate steps |
| `Factorial` | `main()` of `factorial_test.cpp` | the guest program of the integration test, and what holds at each of its lines |
| `CsrMap` | `csr_register_def.hpp`, `MISA_INIT` | the CSR numbers of a build, by the group of rows they come from |
| `Csr` | the Zicsr instructions and `check_csr` | one action per way an instruction ends |
| `Encodings` | `instruction/*.hpp`, `get_bits`, `is_type` | words as sets of bits; fields, immediates, classes, constructors |
| `Decoder` | `instruction_visitor.hpp` | which visitor an encoding reaches, related to the constructors and to `dyn_cast` |
| `*_proofs` | | theorems about the module of that name |
| `MC*` | | instances for TLC |

### How Atomics corresponds to the code

`stage[h]` says where the hart is in its instruction: `"fetch"` between instructions,
`"access"` after the alignment check and the callback, `"exchange"` in the loop of
`AMOMIN::op` and its siblings, with the local `ret` in `ret[h]`. The atomics of the
host act on `mem` in one step. Plain accesses go through `buf[h]`, the store buffer of
the host processor: `StoreWord` appends, `Drain` takes effect, a load sees its own
newest store, and a read-modify-write waits until the buffer is empty. This is the
memory of an x86 host; C++ calls a race between a plain and an atomic access undefined,
and this is what a build makes of it. `ScFails` is possible whatever the
values are, since a weak exchange may fail spuriously, and it stores the value found in
`reserve_value`, as `compare_exchange_weak` does. `AtomicMemory` promises no more than that: its `ScFails`
renews the reservation too, and what this costs guest code is the subject of `GuestCounter` and `GuestLock`.

### How Hart corresponds to the code

`stage[h]` is `"visit"` before `visit()` fetches, `"half"` between the two fetches of a
build with the C extension (`ialign = 16`), `"execute"` with `inst_buffer` in `ir[h]`,
`"trap"` after `visit()` returned false, `"recheck"` inside `break_point_handler` after it
found no C.EBREAK, and `"stopped"` after `trap_handler()` returned false. `died` says that
the process ended, and why: `riscv_isa_unreachable`, a division that raises a signal on the
host, `memory_copy` or a fetch beyond the memory.

`mem` is a sequence of bytes of `XLEN / 4` bits each, so that a word has four of them and
`lb`, `lh`, `sb` and `sh` keep their meaning at a small `XLEN`. The encoding of instruction
`k` of the constant `Program` is the word `k`, little endian; every other word is illegal, and
a 16-bit instruction if its lower half is no index. The fetch checks the address of the first
byte only, as the code does: `WordsAt` lets the bytes beyond the memory be zero or not, and the
fetch may also end the process (`FetchDies`). `image` holds the `memory_copy` calls `main()`
makes before the threads start. An ALU instruction is `Operate` with the operator of its row in
`ImmOperator` or `RegOperator`. Plain accesses are single steps of `mem` here: every access of
`Hart` is aligned, and a host does not tear aligned accesses. What store buffers add is the
subject of `Atomics`. `Raises` chooses whether a callback raises an exception of its own before it
returns `nullptr`, which the comment at `hart.hpp:155` allows; `NoneHart` does not. A hart starts at any even
address with any registers but x0, which `IntegerRegister()` clears and `set_x` leaves alone
(`integer_register.hpp:65-70`). Two variables are history: `at` and `found` keep `pc` and `int_reg` as they
were when `visit()` last began an instruction, so that a property can compare what a trap leaves with them.

### How Operators corresponds to the code

A word is an integer below `2^XLEN`. `Results(op, a, b)` is the set of values `op` may yield: one
value, except for a shift by a register amount of XLEN or more, which C++ leaves undefined and
which hosts answer by masking the amount or by shifting every bit out (`Amounts`). The quotient of
the most negative number by -1, which the code does not test (see below), wraps in `Results`;
`MayDie` adds the signal a host may raise instead. `AsManual` states the RISC-V manual's result by
what characterises it (a quotient and remainder by `a = q * b + r`, a shift by its bits) and
`Deviates` names the operands for which the code is known to differ: those shifts, and the quotient
of `XLEN_MIN` by -1.

### How Csr corresponds to the code

The six visitors have one shape, and the actions are its exits: `Denied` (`check_csr`
finds no index), `WriteProtected` (set and clear look at the read-only bits), `Reads` (no
write), and, once `rd` is written, `Stored`, `Ignored` and `Refused`, by what the setter of
the subclass does (constant `Setter`). The source register is read after `rd` was
written, as in the code. `ChangeLevel` stands for the handlers of a subclass, which move
`cur_level`. `CsrMap` gives the numbers of a build (constant `Build`) as sets, one per macro of
`csr_register_def.hpp`; `Kept` are the registers whose content a model follows. `Hart` names
`SCAUSE` in every build, so that a build without a supervisor mode does not compile
(`BuildAssumption`).

### How Decoder corresponds to the code

`Visit` is `visit_in_memory`; each function of the visitor is the operator of that name
(`VisitArithImmSet` for `visit_arith_imm_set`), and a `switch` is a `Select` in the table of
the classes it has cases for. The word comes from memory (`Fetch`, with the number of bytes
that may be read) or from a constructor (`Construct`, `Encode`). `IsType(c, v)` is the chain
of `is_self_type` that `dyn_cast` walks. `build` is the set of extensions a library of
`CMakeLists.txt` defines; code behind other macros is compiled out and left out. Nothing is
concurrent here: the variables only order construction before the visit. The arguments of a
constructor are words of the type `UInnerT`, and a register number beyond 31 is cut to its field
(`Truncated`), as `get_bits` does. `WordsAssumption` says no more than that instructions and arguments have
32 bits.

## Runs

| Run | Configuration | Question |
|---|---|---|
| atomics_amo | 2 harts, words of 2 bits, all nine AMOs and a store on one cell | Is each AMO one read-modify-write (`ImplementsPromise`), does a loop exchange only with reason (`InFlightOK`), does what is stored and returned agree with the manual's integers (`AmosAsManual`), do loops end unless the memory keeps changing (`LoopsEnd`)? |
| atomics_reserve | 2 harts, 1 bit, LR, SC, plain accesses on cells 0 and 4, a misaligned and a read-only address | Does SC act on the reservation only, and does an instruction that traps access no memory (`ImplementsPromise`)? |
| guest_counter | 3 harts, 2 bits, each by LR/SC or AMOADD | Is no increment lost (`NoLostUpdate`), by the invariant `GuestInv`, and do increments go on (`KeepsCounting`)? |
| guest_lock | 2 harts, 2 bits, 2 buffer slots | Does a spin lock exclude, does its plain release publish the data, is it free of deadlock? |
| hart_factorial | the program of the integration test, `XLEN` 24, 4096 bytes of memory, both alignments | Does it print 5040, 40320, 362880 and 3628800 (`FactorialsPrinted`) and stop (`Finishes`), and does each line find what it relies on (`ProgramCorrect`)? |
| hart_traps | `XLEN` 12, 40 bytes of memory, both alignments; families of starts: any kind of instruction at any 16-bit parcel (`SingleInit`), every operator and branch on edge operands (`OperateInit`), narrow accesses around two words, at the end of memory and wrapping (`NarrowInit`), a second hart that stores over the instruction (`PatchInit`) or beside the same word (`ShareInit`), images of several sizes (`CopyInit`) | Are traps precise, results and accesses the manual's, handled breakpoints skipped whole, and does the process end only where its contract is broken? |
| hart_break, hart_align, hart_callback | | disagreements 1 to 3 below |
| decoder | the three builds of the libraries, about 5000 words and 38 argument tuples per constructor | Does the visitor called agree with `dyn_cast`, is what a constructor writes decoded as its class with every operand back, do compressed offsets keep every bit, which visitor does each 16-bit word reach, and where do the bits of its immediates go, compared with the manual's tables? |
| decoder_cast | the build with C | disagreement 4 below |
| csr | a build with every mode, 32 bits, 3 registers, 7 CSRs of every kind and a number no build defines | Do levels see their registers and no others, what may change a read-only register, is an instruction that retires one read-modify-write, and what has one that turns illegal or is refused changed? |

Bounds and why they are enough. Two harts suffice for an access of another hart at every
point of an instruction; three for two that disturb a third (the counter). Two-bit
words have a value that is smaller as a signed and larger as an unsigned number, and the
sums wrap; one bit tells a data value from the one before, and all that SC compares is
equality. `BufferSlots` bounds the stores that wait: two are needed to reorder the data and
the release of the lock. The console of `Hart` is a history and is bounded by the programs.
In `decoder` every field that some switch looks at takes every value a case names and some that
no case names; the others take two values or more. Immediates are built bit by bit, so each bit
alone, none and all of them show where every bit goes. `XLEN` 12 is the least width with bytes
of three bits, so that a sign bit, a carry and a low part differ in every size of access; the edges
are 0, 1, -1, the largest and the most negative number, a number beyond `XLEN`, and `XLEN_MIN`, which
some operator treats as special. In `csr` two register contents with different bits, and 0, tell
write, set and clear apart; the CSRs include each setter, each level and both read-only kinds.

In `hart_factorial` 24 bits are the least width in which 10! is a positive word, and 4096 bytes what
`main()` maps.

Fairness. The thread of a hart that is in an instruction goes on (weak fairness of
`Continues`, `GuestStep`, `Step`), since the embedding program runs each hart in a host
thread and no hart waits for another; the host drains its buffers (`Drain`). An exchange
that stays possible happens (`AmoExchangeSucceeds`, weak), and in the guests some SC that is
possible again and again happens (strong): the C++ standard asks of implementations that
`compare_exchange_weak` does not fail for ever on a cell whose value is the expected one, and
x86 never fails spuriously. No fairness helps a hart whose cell keeps changing, so that
`LoopsEnd` and `KeepsCounting` promise lock-freedom and nothing stronger.

## Disagreements found

1. `hart_break`: `break_point_handler` reads the instruction at `STVAL` a second time; when
   another hart stored over the EBREAK meanwhile, the process reaches
   `riscv_isa_unreachable` (`hart.hpp:918`).
2. `hart_align`: jumps set `pc` to addresses that are not multiples of `RISCV_IALIGN`
   (`hart.hpp:213`, against the comment at `riscv_isa_utility.hpp:195`).
   `INSTRUCTION_ADDRESS_MISALIGNED` has a handler and nothing raises it.
3. `hart_callback`: a callback that raises its own exception, as the comment at
   `hart.hpp:155` asks, has cause and value overwritten by the caller's page fault.
4. `decoder_cast`: the classes of C, M, A and Zicsr have no `is_self_type` of their own, so that
   `dyn_cast` succeeds for every word of their format, where the unit tests ask that it fails for
   every class but the one visited (`test/include/instruction_test.hpp:67`).
   The same trace shows a second conflict: in the build with C `test/unit/rv32ic_test.cpp:8-10`
   checks with `CheckVisitor<void>` that 16-bit words of all three quadrants are illegal instructions
   (`instruction_test.hpp:102-109`), while `visit_in_memory` calls the visitors of the compressed classes,
   for the word 0 of the trace `visit_caddi4spn_inst` and for quadrant 1 always `visit_cjal_inst`.
   `CompressedAsManual` holds of what the code does, and so contradicts that test.

Also worth knowing, found on the way:

- CSR: `rd` is written before the source register is read, so that `csrrw sp, sscratch, sp` does not
  swap (`AtomicReadModifyWrite` says what it does instead: the CSR is its own source), and `rd` has changed when
  a setter refuses a write (`IllegalIsPrecise` says that nothing else has). csrrw and csrrwi do not look at
  the bits that say read-only, so that only the setters protect such a register (`ReadOnlyKept`). The comment at `csr_register.hpp:40-43` lists SEDELEG and SIDELEG
  under `__RV_EXTENSION_N__`; `csr_register_def.hpp:97-98` defines them with the supervisor mode.
- Operators: `XLEN_MIN` is `1 << (XLEN_BYTE - 1)`, which is 8 (`riscv_isa_utility.hpp:181`), so that
  the test for the overflowing quotient catches 8 / -1, yields 8, and lets the most negative number through, where
  an x86 host raises a signal. The amount of a register shift is not masked to five bits
  (`operators.hpp:132`). `Deviates` and `DiesOnlyOutsideContract` name these operands.
- `memory_copy` accepts every offset for an image longer than the memory, since `memory_size - length`
  wraps, and `main()` ignores its result.
- A fault on the second half of an instruction leaves the address of the instruction, not of the half,
  in STVAL. Any 16-bit word passes for C.EBREAK in `break_point_handler`, because the class has no
  `is_self_type` of its own; `BreakPointSkipsEbreak` shows that this matters only for patched code.
- Decoder: `visit_mret_inst` is called for words that are no MRET, since rs2 is not looked at
  (an exception in `VisitorAndCastAgree`); the constructor of the atomic classes writes aq where the
  getter reads rl and the other way round, so that the two come back exchanged (`Carried` in
  `ConstructedIsDecoded` says so).
- 16-bit words: `visit_16_op1` switches on `get_op()` over labels that are `FUNCT3` values, so that every word of
  that quadrant goes to CJAL (`instruction_visitor.hpp:125`); the test for CADDI4SPN is inverted, so that only the
  reserved words with a zero immediate are visited (line 76); CLWSP is visited with `rd = 0`, which the manual
  reserves and for which CLQSP has a test (lines 191 and 195). `CompressedAsManual` excuses none of these words: it
  says of each which visitor it reaches, and follows the manual for all others.
- Compressed immediates: none is sign-extended, bit 9 of CJ and CJAL is lost, and bit 5 of CADDI16SP is not
  its own; `CompressedLowBitsExact` holds for every other bit.

## Theorems

Proved for every number of harts, every set of cells and instructions and every word width,
from the assumptions the modules name (`WAssumption`, `AddrAssumption`, ...), which TLC
evaluates on its instances.

- `Atomics_proofs`: `TypeCorrect`, `InFlightCorrect`, `Implementation`. The inductive invariant
  is `AtomicsInv == TypeOK /\ InFlightOK`: the type of `mem` is kept only because an
  instruction in flight has a checked cell. The refinement maps `stage` and `ret` away; the
  steps that load in an AMO loop and the failing exchanges stutter, and the successful
  exchange is the atomic step because the loop has just tested `ret`, which equals the cell.
  `AmosAsManualTheorem` says that this atomic step is also the right one. The code's operators work on
  bits, the manual's on integers; `AddIsSum` shows that the carries of ADD amount to the sum modulo `2^W`
  (by induction over the digits), `LTUIsOrder` and `LTIsOrder` that the comparison of two words at their highest
  different digit is the order of the unsigned or signed integers they stand for, since flipping the sign
  digit shifts one order to the other. The property is an action property over `InFlightOK`: the exchange
  of a loop stores `b` only after a test of the value that is still in the cell.
- `GuestCounter_proofs`: `CounterCorrect`, `GuestInvCorrect`, `GuestsUseAtomics`. `NoLostUpdate` is
  not inductive: the SC writes the successor of what LR loaded, which is the successor of the
  counter only because the reservation still holds it. `GuestInv` adds that; in particular a failed
  SC, which rewrites the reservation, is followed by an LR.
- `Csr_proofs`: `CsrTypeCorrect`, `PrivilegeTheorem`, `ReadOnlyTheorem`, `IllegalTheorem`,
  `ReadModifyWriteTheorem`, `LevelsTheorem`. Every action is taken apart once (`CsrSteps`,
  `RetiredSteps`) into what it may do to registers and CSRs; an illegal or refused instruction ends in
  a state that `Reported` describes completely; `GroupLevels` computes the level bits of
  every row, so that the last theorem holds for every build.
- `GuestLock_proofs`: `MutualExclusionTheorem`, `LatestDataTheorem`. Mutual exclusion is not inductive:
  a hart that has executed its releasing store goes on while the store waits, and the lock word
  changes later. `LockInv` counts a hart as `Critical` until the release has left its buffer, says that
  the lock word is taken while somebody is, and what waits in a buffer at each place of the
  program; the data in memory is current unless a critical hart is `Dirty`. It also uses
  `AtomicsInv`, since every step of the guests is a step of `Atomics` (`LockRefinesAtomics`).
- `Hart_proofs`: `TrapsPreciseTheorem`, `AbortTheorem`, `HartTypeCorrect`, `ResultsTheorem`, `AccessesTheorem`,
  `DiesTheorem`, `BreakPointTheorem`, for every program (also one that is stored over while it runs), every image,
  `XLEN`, number of harts and both alignments. `TrapsArePrecise` is not inductive: a trap
  finds `pc` and the registers as they were when the instruction began because no earlier step of the instruction
  changed them, and `break_point_handler` looks twice only at an EBREAK (`InFlight`). That a trap leaves the memory
  alone as well is part of `AccessesExact`: only stores that retire change it. The invariant of the other theorems is
  `HartInv`. It adds to the types what they depend on (`Started`): x0 is zero, `pc` is even, so that no
  16-bit parcel lies across the end of the memory, the first half of an instruction leaves room for the second in
  `inst_buffer`, and an instruction that executes began inside the memory. `pc` stays even because the immediates of
  jumps and branches are and JALR clears bit 0. Every action is taken apart once (`VisitKeeps`, `ExecuteKeeps`,
  `TrapHandlerKeeps`, `MemoryCopyTypes`), and the action properties follow from what the one action that retires an
  instruction of a kind does (`RetiringKind`, `OperateEffect`, `BranchEffect`, `LoadEffect`, `StoreEffect`).
- `Hart_proofs`, on the program of the integration test: `ProgramTheorem` and `FactorialTheorem`. A test runs the
  program in one build; these hold in every build it fits (`FactorialBuild`: one hart at user level, `XLEN` from 24,
  at least 4096 bytes of memory, with and without C), and of every store and jump on the way.
  `FactorialsPrinted` speaks of the end only. Its invariant `ProgramCorrect` names, for each of the 38 lines and
  each round of the main loop, what the line relies on: registers from where they are set to where they are last
  used, the words saved on the stack, what is printed so far, and in the loop of `factorial()` that the
  product so far times the factorial of the counter is the result. It is inductive together with `HartInv`. Each line has to
  land at a line whose expectations it meets (`OperateLines`, `LoadLines`, `StoreLines`, `MainJumps`, `FactorialLoop`, `TrapLine`);
  no store touches the text, so that a fetch still finds the line (`FetchLine`), in a build with C half by half; numbers stay small
  enough that no width shows (`SmallWords`). `MemoryCopy` puts text and data beside each other (`CopyLoads`).
- `Operators_proofs`: `OperatorsAsManual`, `BranchesAsManual`, for all words of every `XLEN` that is a multiple of
  four. The bitwise operators and shifts are compared digit by digit, the products by their range, and the divisions
  from the one fact that the quotient of magnitudes leaves a remainder below the divisor.
- `Decoder_proofs`: `VisitorAndCastAgreeTheorem`, `ConstructedIsDecodedTheorem`, `CompressedAsManualTheorem`,
  `CompressedOffsetsExactTheorem`, `CompressedLowBitsExactTheorem`, for every word, every argument of 32 bits, every number
  of bytes that may be read and every set of extensions. The properties speak of `visited` and `built`, which say nothing
  of the word by themselves; the invariant `DecoderInv` (`DecoderInvariant`) ties them to it: a constructor of this build wrote
  the word, and what was called is what `visit_in_memory` finds in it. The rest is about the functions of the visitor. The labels of
  a `switch` are distinct because their binary digits are (`BitsDistinct`, `Tables`), so that a switch that finds
  a class finds no other; `CastVisits` goes from a class to its visitor and `CalledIsType` back. For a
  constructor there is one lemma per format that gives every field of the word it assembles, so that
  no operand reaches another's bits. `VisitAsManual` goes through the quadrants and compares the switches with the
  manual's tables and the words that leave them (`Expected`). A compressed offset loses no bit
  because its bits come from distinct places of the word (`RearrangedBits`).
- `Binary_proofs`: the binary numbers these rest on: `2^n` (which is positive, and multiplies), digits of a number,
  of its halves, of a sum without carries and of a two's complement, and that the digits determine the number.
  The provers know nothing of `2^n`, and the library's induction theorems are out of their reach: the laws of `2^n`
  come from the number of subsets of `1 .. n`, and an induction is the least element of the set of the numbers for
  which the claim fails (`WFMin`).

Only model-checked: liveness under fairness (`LoopsEnd`, `KeepsCounting`, `KeepsWorking`,
`Finishes`), which is out of the prover's reach. Every other property of a passing run is a theorem.

## Not modelled

- RV64 (`rv64i.hpp` and the `__RV_BIT_WIDTH__ == 64` parts): no such build compiles, so there is no
  behaviour to model. `csr_register_def.hpp:54, 64` define `_riscv_isa_machine_mode_32_csr_map` and
  `_riscv_isa_user_mode_32_csr_map` with three parameters where lines 203 and 89 pass one, and every
  `Hart` contains the CSR file. For whoever repairs this: `hart.hpp:585-595` passes the whole I-immediate of
  SLLIW, SRLIW and SRAIW to the operator, the bit that tells SRAI from SRLI included.
- `Dump` and the `operator<<` of the instructions: text output without state.
- The bodies of the trap handlers that a subclass overrides, beyond those of `NoneHart`: the defaults
  report and return false (`Stops`).
- `mmap` and the threads' creation in the tests; the names of registers.

## Plan

What remains open is the composition of `Hart` and `Atomics`: instruction fetches through the store buffers,
with the theorem that single-hart programs do not see the difference.
