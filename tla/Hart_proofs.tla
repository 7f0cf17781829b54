----------------------------- MODULE Hart_proofs -----------------------------
(***************************************************************************)
(* Proofs about Hart, for any program, memory, images and registers, any   *)
(* number of harts that store over each other's code, both instruction     *)
(* alignments, every width and every privilege level.  That traps are      *)
(* precise needs nothing of the operators; types, results and accesses     *)
(* rest on Operators_proofs and Binary_proofs.  The second half is about   *)
(* the one program of Factorial: it prints what its test expects.          *)
(***************************************************************************)
EXTENDS Factorial, Operators_proofs

\* Each hart has its own copy of the members of Hart.
WellFormed ==
  /\ DOMAIN pc = Harts /\ DOMAIN x = Harts /\ DOMAIN scause = Harts
  /\ DOMAIN stval = Harts /\ DOMAIN stage = Harts /\ DOMAIN ir = Harts
  /\ DOMAIN at = Harts /\ DOMAIN found = Harts

(***************************************************************************)
(* What holds between the steps of one instruction.  TrapsArePrecise alone *)
(* is not inductive: a trap finds pc and the registers unchanged because   *)
(* no step before it wrote them, and break_point_handler looks twice only  *)
(* for an EBREAK.                                                          *)
(***************************************************************************)
InFlight(h) ==
  /\ stage[h] \in {"half", "execute"} => pc[h] = at[h] /\ x[h] = found[h]
  /\ stage[h] = "half" => ialign = 16
  /\ stage[h] = "recheck" => scause[h] = "BREAKPOINT"

Stuck(h) ==
  \/ stage[h] \in {"trap", "recheck"}
  \/ stage[h] = "stopped" /\ scause[h] # "U_MODE_ENVIRONMENT_CALL"

Precise(h) ==
  InFlight(h) /\ (Stuck(h) => pc[h] = at[h] /\ x[h] = found[h] /\ Justified(h))

PreciseInv == WellFormed /\ \A h \in Harts : Precise(h)

\* What one hart sees of a step of another.
Untouched(h) ==
  /\ pc'[h] = pc[h] /\ x'[h] = x[h] /\ scause'[h] = scause[h]
  /\ stval'[h] = stval[h] /\ stage'[h] = stage[h] /\ ir'[h] = ir[h]
  /\ at'[h] = at[h] /\ found'[h] = found[h]

LEMMA PreciseInit == Init => PreciseInv
BY DEF Init, Booted, PreciseInv, WellFormed, Precise, InFlight, Stuck

\* A hart that a step leaves alone stays precise.
LEMMA UntouchedPrecise ==
  ASSUME NEW h \in Harts, Precise(h), Untouched(h), ialign' = ialign
  PROVE  Precise(h)'
BY DEF Untouched, Precise, InFlight, Stuck, Justified, Inst, EffectiveAddress,
       Rs1, Size, Aligned, IsLoad, SecondHalf, Address

-----------------------------------------------------------------------------
(***************************************************************************)
(* A step writes the members of its own hart only.                         *)
(***************************************************************************)
LEMMA VisitFrame ==
  ASSUME WellFormed, NEW h \in Harts, Visit(h)
  PROVE  WellFormed' /\ \A g \in Harts \ {h} : Untouched(g)
BY DEF Visit, FetchFault, Fetch, FetchHalf, FetchRest, FetchRestFault, FetchDies,
       Begins, CallbackTraps, InternalInterrupt, Fetched, Proceeds, Dies, hartVars,
       WellFormed, Untouched

LEMMA ExecuteFrame ==
  ASSUME WellFormed, NEW h \in Harts, Execute(h)
  PROVE  WellFormed' /\ \A g \in Harts \ {h} : Untouched(g)
<1> USE DEF WellFormed, Untouched, Retires, Proceeds, SetX, IncPc, JumpToAddr
<1>1. CASE Operate(h) \/ LoadUpper(h) \/ Jump(h) \/ Branch(h)
  BY <1>1 DEF Operate, LoadUpper, Jump, Branch
<1>2. CASE Load(h) \/ Store(h) \/ Fence(h)
  BY <1>2 DEF Load, Store, Fence
<1>3. CASE AccessFault(h) \/ Ecall(h) \/ Ebreak(h) \/ Illegal(h) \/ PageFault(h)
  BY <1>3 DEF AccessFault, Ecall, Ebreak, Illegal, PageFault, Traps, CallbackTraps,
              InternalInterrupt
<1>4. CASE OperateDies(h)
  BY <1>4 DEF OperateDies, Dies, hartVars
<1> QED
  BY <1>1, <1>2, <1>3, <1>4 DEF Execute

LEMMA TrapHandlerFrame ==
  ASSUME WellFormed, NEW h \in Harts, TrapHandler(h)
  PROVE  WellFormed' /\ \A g \in Harts \ {h} : Untouched(g)
BY DEF TrapHandler, BreakPointCompressed, BreakPointLong, BreakPointContinues,
       BreakPointAborts, Prints, Exits, Stops, Handled, Proceeds, IncPc, JumpToAddr,
       Dies, hartVars, WellFormed, Untouched

-----------------------------------------------------------------------------
(***************************************************************************)
(* And it keeps its own hart precise.                                      *)
(***************************************************************************)
LEMMA VisitPrecise ==
  ASSUME WellFormed, NEW h \in Harts, Precise(h), Visit(h), ialign' = ialign
  PROVE  Precise(h)'
<1> USE DEF WellFormed, Precise, InFlight, Stuck
<1>1. CASE FetchFault(h)
  <2>1. /\ stage'[h] = "trap" /\ scause'[h] = "INSTRUCTION_PAGE_FAULT"
        /\ stval'[h] = pc[h] /\ pc'[h] = pc[h] /\ at'[h] = pc[h]
        /\ x'[h] = found'[h]
        /\ ~Address(pc[h])
    BY <1>1 DEF FetchFault, Begins, CallbackTraps, InternalInterrupt, Proceeds
  <2> QED
    BY <2>1 DEF Justified, Address
<1>2. CASE Fetch(h) \/ FetchHalf(h) \/ FetchRest(h)
  <2>1. /\ stage'[h] \in {"half", "execute"} /\ pc'[h] = at'[h]
        /\ x'[h] = found'[h] /\ (stage'[h] = "half" => ialign = 16)
    BY <1>2 DEF Fetch, FetchHalf, FetchRest, Begins, Fetched, Proceeds
  <2> QED
    BY <2>1
<1>3. CASE FetchRestFault(h)
  <2>1. /\ stage'[h] = "trap" /\ scause'[h] = "INSTRUCTION_PAGE_FAULT"
        /\ stval'[h] = pc[h] /\ pc'[h] = pc[h] /\ at'[h] = pc[h]
        /\ x'[h] = found'[h]
        /\ ~Address(SecondHalf(h)) /\ stage[h] = "half"
    BY <1>3 DEF FetchRestFault, CallbackTraps, InternalInterrupt, Proceeds
  <2> QED
    BY <2>1 DEF Justified, Address, SecondHalf
<1>4. CASE FetchDies(h)
  <2>1. Untouched(h)
    BY <1>4 DEF FetchDies, Dies, hartVars, Untouched
  <2> QED
    BY <2>1, UntouchedPrecise
<1> QED
  BY <1>1, <1>2, <1>3, <1>4 DEF Visit

\* A trap of the executing instruction is justified if what it reports is.
LEMMA TrapsPrecise ==
  ASSUME WellFormed, NEW h \in Harts, Precise(h), stage[h] = "execute",
         NEW cause, NEW value, InternalInterrupt(h, cause, value),
         pc' = pc, x' = x, ir' = ir, at' = at, found' = found, ialign' = ialign,
         \/ /\ cause = "ILLEGAL_INSTRUCTION"
            /\ value = ir[h] /\ Inst(h).op = "illegal"
         \/ cause = "BREAKPOINT" /\ value = pc[h] /\ Inst(h).op = "ebreak"
         \/ /\ cause = (IF IsLoad(h) THEN "LOAD_ACCESS_FAULT"
                                     ELSE "STORE_AMO_ACCESS_FAULT")
            /\ value = EffectiveAddress(h)
            /\ Inst(h).op \in Accesses /\ ~Aligned(h)
         \/ /\ cause = (IF IsLoad(h) THEN "LOAD_PAGE_FAULT"
                                     ELSE "STORE_AMO_PAGE_FAULT")
            /\ value = EffectiveAddress(h)
            /\ Inst(h).op \in Accesses /\ Aligned(h) /\ ~Address(value)
         \/ cause = EnvironmentCallCause /\ Inst(h).op = "ecall"
  PROVE  Precise(h)'
<1>1. /\ stage'[h] = "trap" /\ scause'[h] = cause /\ stval'[h] = value
      /\ pc'[h] = at'[h] /\ ir'[h] = ir[h] /\ x'[h] = x[h] /\ x'[h] = found'[h]
  BY DEF WellFormed, Precise, InFlight, InternalInterrupt, Proceeds
<1>2. /\ Inst(h)' = Inst(h) /\ EffectiveAddress(h)' = EffectiveAddress(h)
      /\ IsLoad(h)' = IsLoad(h) /\ Aligned(h)' = Aligned(h)
  BY <1>1 DEF Inst, EffectiveAddress, Rs1, IsLoad, Aligned, Size
<1>3. EnvironmentCallCause \notin
        {"INSTRUCTION_PAGE_FAULT", "ILLEGAL_INSTRUCTION", "BREAKPOINT",
         "LOAD_ACCESS_FAULT", "STORE_AMO_ACCESS_FAULT", "LOAD_PAGE_FAULT",
         "STORE_AMO_PAGE_FAULT"}
  BY HartAssumption DEF EnvironmentCallCause
<1>4. Justified(h)'
  <2>1. CASE cause \in {"ILLEGAL_INSTRUCTION", "BREAKPOINT"}
    BY <1>1, <1>2, <1>3, <2>1 DEF Justified
  <2>2. CASE cause \in {"LOAD_ACCESS_FAULT", "STORE_AMO_ACCESS_FAULT"}
    BY <1>1, <1>2, <1>3, <2>2 DEF Justified, IsLoad
  <2>3. CASE cause \in {"LOAD_PAGE_FAULT", "STORE_AMO_PAGE_FAULT"}
    BY <1>1, <1>2, <1>3, <2>3 DEF Justified, IsLoad, Address
  <2>4. CASE cause = EnvironmentCallCause
    <3>1. EnvironmentCallCause' = EnvironmentCallCause
      BY DEF EnvironmentCallCause
    <3>2. Inst(h)'.op = "ecall"
      BY <1>2, <1>3, <2>4
    <3> QED
      BY <1>1, <1>3, <2>4, <3>1, <3>2 DEF Justified
  <2> QED
    BY <2>1, <2>2, <2>3, <2>4
<1> QED
  BY <1>1, <1>4 DEF Precise, InFlight, Stuck

LEMMA ExecutePrecise ==
  ASSUME WellFormed, NEW h \in Harts, Precise(h), Execute(h), ialign' = ialign
  PROVE  Precise(h)'
<1>1. CASE \/ Operate(h) \/ LoadUpper(h) \/ Jump(h) \/ Branch(h)
           \/ Load(h) \/ Store(h) \/ Fence(h)
  <2>1. stage'[h] = "visit"
    BY <1>1 DEF Operate, LoadUpper, Jump, Branch, Load, Store, Fence, Retires,
                Proceeds, WellFormed
  <2> QED
    BY <2>1 DEF Precise, InFlight, Stuck
<1>2. CASE AccessFault(h) \/ PageFault(h)
  BY <1>2, TrapsPrecise DEF AccessFault, PageFault, Traps, CallbackTraps, At
<1>3. CASE Ecall(h) \/ Ebreak(h) \/ Illegal(h)
  BY <1>3, TrapsPrecise DEF Ecall, Ebreak, Illegal, Traps, At
<1>4. CASE OperateDies(h)
  <2>1. Untouched(h)
    BY <1>4 DEF OperateDies, Dies, hartVars, Untouched
  <2> QED
    BY <2>1, UntouchedPrecise
<1> QED
  BY <1>1, <1>2, <1>3, <1>4 DEF Execute

LEMMA TrapHandlerPrecise ==
  ASSUME WellFormed, NEW h \in Harts, Precise(h), TrapHandler(h), ialign' = ialign
  PROVE  Precise(h)'
<1>1. CASE BreakPointCompressed(h) \/ BreakPointContinues(h) \/ Prints(h)
  <2>1. stage'[h] = "visit"
    BY <1>1 DEF BreakPointCompressed, BreakPointContinues, Prints, Handled, Proceeds,
                WellFormed
  <2> QED
    BY <2>1 DEF Precise, InFlight, Stuck
<1>2. CASE BreakPointLong(h) \/ Stops(h)
  <2>1. /\ stage[h] = "trap"
        /\ \/ stage'[h] = "recheck" /\ scause[h] = "BREAKPOINT"
           \/ stage'[h] = "stopped"
        /\ UNCHANGED <<pc, x, scause, stval, ir, at, found>>
    BY <1>2 DEF BreakPointLong, Stops, InTrap, Proceeds, WellFormed
  <2>2. Justified(h)' = Justified(h)
    BY <2>1 DEF Justified, Inst, EffectiveAddress, Rs1, Size, Aligned, IsLoad,
                SecondHalf, Address
  <2> QED
    BY <2>1, <2>2 DEF Precise, InFlight, Stuck
<1>3. CASE BreakPointAborts(h)
  <2>1. Untouched(h)
    BY <1>3 DEF BreakPointAborts, Dies, hartVars, Untouched
  <2> QED
    BY <2>1, UntouchedPrecise
<1>4. CASE Exits(h)
  <2>1. stage'[h] = "stopped" /\ scause'[h] = "U_MODE_ENVIRONMENT_CALL"
    BY <1>4 DEF Exits, InTrap, Proceeds, WellFormed
  <2> QED
    BY <2>1 DEF Precise, InFlight, Stuck
<1> QED
  BY <1>1, <1>2, <1>3, <1>4 DEF TrapHandler

\* PreciseInv is inductive.
LEMMA PreciseNext == PreciseInv /\ [Next]_vars => PreciseInv'
<1> SUFFICES ASSUME PreciseInv, [Next]_vars PROVE PreciseInv'
  OBVIOUS
<1>1. CASE UNCHANGED <<ialign, hartVars>>
  <2>1. \A h \in Harts : Untouched(h)
    BY <1>1 DEF hartVars, Untouched
  <2>2. WellFormed'
    BY <1>1 DEF hartVars, PreciseInv, WellFormed
  <2> QED
    BY <1>1, <2>1, <2>2, UntouchedPrecise DEF PreciseInv
<1>2. ASSUME NEW h \in Harts, Step(h)
      PROVE  PreciseInv'
  <2>1. ialign' = ialign
    BY <1>2 DEF Step
  <2>2. WellFormed' /\ \A g \in Harts \ {h} : Untouched(g)
    BY <1>2, VisitFrame, ExecuteFrame, TrapHandlerFrame DEF Step, PreciseInv
  <2>3. Precise(h)'
    BY <1>2, <2>1, VisitPrecise, ExecutePrecise, TrapHandlerPrecise
       DEF Step, PreciseInv
  <2>4. \A g \in Harts \ {h} : Precise(g)'
    BY <2>1, <2>2, UntouchedPrecise DEF PreciseInv
  <2> QED
    BY <2>2, <2>3, <2>4 DEF PreciseInv
<1> QED
  BY <1>1, <1>2 DEF Next, MemoryCopy, Done, vars

(***************************************************************************)
(* While a trap is handled, and in a hart that stopped, pc and every       *)
(* register are what they were when visit() began with the instruction     *)
(* that trapped, and SCAUSE and STVAL describe it (hart.hpp:58-104,        *)
(* 174-237, 402-421), whatever other harts store.                          *)
(***************************************************************************)
THEOREM TrapsPreciseTheorem == Spec => []TrapsArePrecise
<1>1. PreciseInv => TrapsArePrecise
  BY DEF PreciseInv, Precise, Stuck, TrapsArePrecise
<1> QED
  BY PreciseInit, PreciseNext, <1>1, PTL DEF Spec

-----------------------------------------------------------------------------
(***************************************************************************)
(* The process aborts in break_point_handler alone, and then the memory is *)
(* not what was fetched: STVAL is the pc of an EBREAK, as traps are        *)
(* precise, so that the word the handler does not like is another one.     *)
(***************************************************************************)
LEMMA AbortPatched ==
  ASSUME PreciseInv, NEW h \in Harts, BreakPointAborts(h)
  PROVE  Patched(h)
<1>1. PICK w \in WordsAt(mem, stval[h]) : Decode(w).op # "ebreak"
  BY DEF BreakPointAborts
<1>2. Precise(h) /\ scause[h] = "BREAKPOINT" /\ stage[h] \in {"trap", "recheck"}
  BY DEF PreciseInv, Precise, InFlight, BreakPointAborts, Rechecks, InTrap
<1>3. stval[h] = at[h] /\ Decode(ir[h]).op = "ebreak"
  BY <1>2 DEF Precise, Stuck, Justified, Inst
<1>4. w # ir[h]
  BY <1>1, <1>3
<1> QED
  BY <1>1, <1>3, <1>4 DEF Patched

LEMMA AbortNext ==
  PreciseInv /\ AbortsOnlyWhenPatched /\ [Next]_vars => AbortsOnlyWhenPatched'
<1> SUFFICES ASSUME PreciseInv, AbortsOnlyWhenPatched, [Next]_vars,
                    died' = "unreachable"
             PROVE  \E h \in Harts : Rechecks(h)' /\ Patched(h)'
  BY DEF AbortsOnlyWhenPatched
<1> USE DEF Rechecks, InTrap, Patched, vars, hartVars
<1>1. CASE UNCHANGED vars
  BY <1>1 DEF AbortsOnlyWhenPatched
<1>2. CASE MemoryCopy
  BY <1>2 DEF MemoryCopy
<1>3. ASSUME NEW h \in Harts, Step(h)
      PROVE  Rechecks(h)' /\ Patched(h)'
  <2>1. died = "no" /\ ialign' = ialign /\ (Visit(h) \/ Execute(h) \/ TrapHandler(h))
    BY <1>3 DEF Step
  <2>2. ~Visit(h)
    BY <2>1 DEF Visit, FetchFault, Fetch, FetchHalf, FetchRest, FetchRestFault,
                FetchDies, CallbackTraps, Fetched, Dies
  <2>3. ~Execute(h)
    BY <2>1 DEF Execute, Operate, OperateDies, LoadUpper, Jump, Branch, AccessFault,
                PageFault, Load, Store, Fence, Ecall, Ebreak, Illegal, Traps,
                CallbackTraps, Retires, Dies
  <2>4. BreakPointAborts(h)
    BY <2>1, <2>2, <2>3
       DEF TrapHandler, BreakPointCompressed, BreakPointLong, BreakPointContinues,
           Prints, Exits, Stops, Handled
  <2>5. Rechecks(h) /\ Patched(h) /\ UNCHANGED <<mem, ialign, stage, scause, at, ir>>
    BY <2>1, <2>4, AbortPatched DEF BreakPointAborts, Dies
  <2> QED
    BY <2>5
<1> QED
  BY <1>1, <1>2, <1>3 DEF Next, Done

(***************************************************************************)
(* riscv_isa_unreachable is reached only when the memory no longer holds   *)
(* the EBREAK that was fetched (hart.hpp:905-919).                         *)
(***************************************************************************)
THEOREM AbortTheorem == Spec => []AbortsOnlyWhenPatched
<1>1. Init => AbortsOnlyWhenPatched
  BY DEF Init, Booted, AbortsOnlyWhenPatched
<1>2. PreciseInv /\ AbortsOnlyWhenPatched /\ [Next]_vars
        => (PreciseInv /\ AbortsOnlyWhenPatched)'
  BY PreciseNext, AbortNext
<1> QED
  BY PreciseInit, <1>1, <1>2, PTL DEF Spec

-----------------------------------------------------------------------------
(***************************************************************************)
(* Bytes and what they make up.                                            *)
(***************************************************************************)
LEMMA ByteWidths ==
  /\ ByteBits \in Nat /\ ByteBits >= 1 /\ XLEN = 4 * ByteBits
  /\ 2^ByteBits \in Nat /\ 2^ByteBits >= 1
  /\ Modulus = 2^(4 * ByteBits)
<1>1. ByteBits \in Nat /\ ByteBits >= 1 /\ XLEN = 4 * ByteBits
  BY XlenAssumption DEF ByteBits, XLEN_BYTE
<1> QED
  BY <1>1, PowerPositive DEF Modulus

LEMMA ByteType == \A b \in Byte : b \in Nat /\ b < 2^ByteBits
BY ByteWidths DEF Byte

\* The number of places of bytes k, and of a part of a word.
LEMMA Places ==
  /\ \A k \in Nat : k * ByteBits \in Nat /\ (k + 1) * ByteBits = k * ByteBits + ByteBits
  /\ \A k, n \in Nat : k < n => k * ByteBits + ByteBits <= n * ByteBits
<1>1. ByteBits \in Nat
  BY ByteWidths
<1>2. ASSUME NEW k \in Nat, NEW n \in Nat, k < n
      PROVE  k * ByteBits + ByteBits <= n * ByteBits
  <2>1. (k + 1) * ByteBits <= n * ByteBits
    BY <1>1, <1>2
  <2> QED
    BY <2>1, <1>1
<1> QED
  BY <1>1, <1>2

\* Place i lies in byte i \div ByteBits.
LEMMA PlaceOf ==
  ASSUME NEW i \in Nat
  PROVE  /\ i \div ByteBits \in Nat /\ i % ByteBits \in 0 .. (ByteBits - 1)
         /\ i = (i \div ByteBits) * ByteBits + (i % ByteBits)
<1>1. ByteBits \in Nat /\ ByteBits >= 1 /\ i \in Int
  BY ByteWidths
<1>2. i \div ByteBits \in Int /\ i % ByteBits \in 0 .. (ByteBits - 1)
      /\ i = (i \div ByteBits) * ByteBits + (i % ByteBits)
  BY <1>1, Division, Zenon
<1>3. i \div ByteBits \in Nat
  BY <1>1, QuotientSmaller, Zenon
<1> QED
  BY <1>2, <1>3

LEMMA PlaceUnique ==
  ASSUME NEW i \in Nat, NEW k \in Nat, k * ByteBits <= i, i < k * ByteBits + ByteBits
  PROVE  i \div ByteBits = k /\ i % ByteBits = i - k * ByteBits
<1> DEFINE r == i - k * ByteBits
<1>1. ByteBits \in Nat /\ k \in Int /\ r \in Int /\ 0 <= r /\ r < ByteBits
      /\ i = k * ByteBits + r
  BY ByteWidths, Places
<1> HIDE DEF r
<1>2. (k * ByteBits + r) \div ByteBits = k /\ (k * ByteBits + r) % ByteBits = r
  BY <1>1, DivisionUnique, Zenon
<1> QED
  BY <1>1, <1>2 DEF r

LEMMA PlaceWithin ==
  ASSUME NEW i \in Nat, NEW n \in Nat
  PROVE  i < n * ByteBits <=> i \div ByteBits < n
<1> DEFINE k == i \div ByteBits
           p == n * ByteBits
           q == k * ByteBits
<1>1. k \in Nat /\ i % ByteBits \in 0 .. (ByteBits - 1) /\ i = q + (i % ByteBits)
  BY PlaceOf
<1>2. p \in Nat /\ q \in Nat /\ ByteBits \in Nat
  BY <1>1, Places, ByteWidths
<1>3. (k < n => q + ByteBits <= p) /\ (n < k => p + ByteBits <= q) /\ (n = k => p = q)
  BY <1>1, Places
<1> HIDE DEF k, p, q
<1>4. i < p <=> k < n
  BY <1>1, <1>2, <1>3
<1> QED
  BY <1>4 DEF k, p

LEMMA ByteOfDigits ==
  ASSUME NEW v \in Int, NEW k \in Nat
  PROVE  /\ ByteOf(v, k) \in Byte
         /\ \A j \in 0 .. (ByteBits - 1) :
              Digit(ByteOf(v, k), j) = Digit(v, k * ByteBits + j)
<1> DEFINE n == k * ByteBits
           q == v \div 2^n
<1>1. n \in Nat /\ ByteBits \in Nat /\ 2^n \in Nat /\ 2^n >= 1
      /\ 2^ByteBits \in Nat /\ 2^ByteBits >= 1
  BY ByteWidths, Places, PowerPositive
<1>2. q \in Int
  BY <1>1, Division
<1>3. ByteOf(v, k) = q % 2^ByteBits
  BY DEF ByteOf
<1>4. q % 2^ByteBits \in 0 .. (2^ByteBits - 1)
  BY <1>1, <1>2, Division, Zenon
<1>5. ASSUME NEW j \in 0 .. (ByteBits - 1)
      PROVE  Digit(ByteOf(v, k), j) = Digit(v, n + j)
  <2>1. j \in Nat /\ j < ByteBits
    BY <1>1
  <2>2. Digit(q, j) = Digit(v, n + j)
    BY <1>1, <2>1, DigitShiftRight, Zenon
  <2> HIDE DEF q
  <2>3. Digit(q % 2^ByteBits, j) = Digit(q, j)
    BY <1>1, <1>2, <2>1, DigitModulo
  <2> QED
    BY <1>3, <2>2, <2>3
<1> QED
  BY <1>3, <1>4, <1>5 DEF Byte

\* Value is a sum in the sense of Sums.
LEMMA ValueSums ==
  ASSUME NEW m, NEW a, NEW n \in Nat
  PROVE  LET S == 0 .. (n - 1)
         IN \E g : /\ Sums(S, [k \in S |-> m[a + k] * 2^(k * ByteBits)], g)
                   /\ Value(m, a, n) = g[S]
<1> DEFINE S == 0 .. (n - 1)
           F == [k \in S |-> m[a + k] * 2^(k * ByteBits)]
           Fold(g) == g = [s \in SUBSET S |->
                             IF s = {} THEN 0
                             ELSE LET y == CHOOSE y \in s : TRUE
                                  IN m[a + y] * 2^(y * ByteBits) + g[s \ {y}]]
<1>1. IsFiniteSet(S)
  BY FS_Interval
<1>2. \A g : Sums(S, F, g) <=> Fold(g)
  <2> TAKE g
  <2>1. \A T \in SUBSET S : T # {} => F[Pick(T)] = m[a + Pick(T)] * 2^(Pick(T) * ByteBits)
    BY DEF Pick
  <2> QED
    BY <2>1 DEF Sums, Pick
<1>3. \E g : Sums(S, F, g)
  <2> HIDE DEF F, S
  <2> QED
    BY <1>1, SumsExist
<1>4. Fold(CHOOSE g : Fold(g))
  <2> HIDE DEF Fold, F, S
  <2> QED
    BY <1>2, <1>3
<1>5. Value(m, a, n) = (CHOOSE g : Fold(g))[S]
  BY DEF Value, MapThenSumSet, MapThenFoldSet
<1> HIDE DEF Fold
<1> QED
  BY <1>2, <1>4, <1>5

\* The digits of a value are those of its bytes, one after the other.
LEMMA ValueDigits ==
  ASSUME NEW m, NEW a, NEW n \in Nat, \A k \in 0 .. (n - 1) : m[a + k] \in Byte
  PROVE  /\ Value(m, a, n) \in Nat /\ Value(m, a, n) < 2^(n * ByteBits)
         /\ \A i \in Nat :
              Digit(Value(m, a, n), i)
                = IF i < n * ByteBits
                  THEN Digit(m[a + (i \div ByteBits)], i % ByteBits) ELSE 0
<1> DEFINE S == 0 .. (n - 1)
           F == [k \in S |-> m[a + k] * 2^(k * ByteBits)]
           v == Value(m, a, n)
<1>1. PICK g : Sums(S, F, g) /\ v = g[S]
  BY ValueSums
<1>2. IsFiniteSet(S) /\ S \in SUBSET Nat
  BY FS_Interval
\* A summand has its byte in its place and nothing elsewhere.
<1>3. ASSUME NEW k \in S, NEW i \in Nat
      PROVE  /\ F[k] \in Nat
             /\ Digit(F[k], i) = IF i \div ByteBits = k THEN Digit(m[a + k], i % ByteBits)
                                 ELSE 0
  <2> DEFINE b == m[a + k]
             p == k * ByteBits
  <2>1. k \in Nat /\ b \in Nat /\ b < 2^ByteBits /\ p \in Nat /\ ByteBits \in Nat
        /\ F[k] = b * 2^p /\ i \div ByteBits \in Nat
    BY <1>2, ByteType, ByteWidths, Places, PlaceOf
  <2>2. Digit(b * 2^p, i) = IF p <= i THEN Digit(b, i - p) ELSE 0
    <3> HIDE DEF b, p
    <3>1. b \in Int
      BY <2>1
    <3> QED
      BY <2>1, <3>1, DigitShiftLeft, Zenon
  <2>3. b * 2^p \in Nat
    <3>1. 2^p \in Nat
      BY <2>1, PowerPositive
    <3> HIDE DEF b, p
    <3> QED
      BY <2>1, <3>1
  <2>4. CASE p <= i /\ i < p + ByteBits
    <3>1. i \div ByteBits = k /\ i % ByteBits = i - p
      BY <2>1, <2>4, PlaceUnique
    <3> QED
      BY <3>1, <2>1, <2>2, <2>3, <2>4
  <2>5. CASE ~(p <= i /\ i < p + ByteBits)
    <3>1. i \div ByteBits # k
      <4> DEFINE j == i \div ByteBits
      <4>1. i % ByteBits \in 0 .. (ByteBits - 1) /\ i = j * ByteBits + (i % ByteBits)
        BY PlaceOf
      <4> HIDE DEF j
      <4>2. SUFFICES ASSUME j = k PROVE FALSE
        BY DEF j
      <4>3. i = p + (i % ByteBits)
        BY <4>1, <4>2
      <4> HIDE DEF p
      <4> QED
        BY <4>1, <4>3, <2>1, <2>5
    <3>2. CASE i < p
      BY <3>1, <3>2, <2>1, <2>2, <2>3
    <3>3. CASE p + ByteBits <= i
      <4> DEFINE j == i - p
      <4>1. j \in Nat /\ ByteBits <= j
        BY <3>3, <2>1
      <4> HIDE DEF j, b, p
      <4>2. 2^ByteBits <= 2^j /\ 2^j \in Nat /\ 2^ByteBits \in Nat
        BY <4>1, <2>1, PowerMonotone, PowerPositive
      <4>3. Digit(b, j) = 0
        BY <4>1, <4>2, <2>1, DigitSmall
      <4> QED
        BY <4>3, <3>1, <3>3, <2>1, <2>2, <2>3 DEF j
    <3> QED
      BY <3>2, <3>3, <2>1, <2>5
  <2> QED
    BY <2>4, <2>5
<1>4. \A k \in S : F[k] \in Nat
  BY <1>3
<1>5. ASSUME NEW k \in S, NEW l \in S, k # l, NEW i \in Nat
      PROVE  Digit(F[k], i) + Digit(F[l], i) <= 1
  <2>1. Digit(F[k], i) \in {0, 1} /\ Digit(F[l], i) \in {0, 1}
    BY <1>4, DigitType
  <2>2. Digit(F[k], i) = 0 \/ Digit(F[l], i) = 0
    BY <1>3, <1>5
  <2> QED
    BY <2>1, <2>2
<1>6. v \in Nat /\ \A i \in Nat : Digit(v, i) = Summand(F, S, i)
  <2> HIDE DEF S, F, v
  <2>1. g[S] \in Nat /\ \A i \in Nat : Digit(g[S], i) = Summand(F, S, i)
    BY <1>1, <1>2, <1>4, <1>5, DigitsOfSum
  <2> QED
    BY <1>1, <2>1
<1>7. ASSUME NEW i \in Nat
      PROVE  Digit(v, i) = IF i < n * ByteBits
                           THEN Digit(m[a + (i \div ByteBits)], i % ByteBits) ELSE 0
  <2> DEFINE j == i \div ByteBits
             r == i % ByteBits
  <2>1. j \in Nat /\ r \in Nat /\ (i < n * ByteBits <=> j < n)
    BY PlaceOf, PlaceWithin, ByteWidths
  <2>2. \A k \in S : Digit(F[k], i) = IF j = k THEN Digit(m[a + k], r) ELSE 0
    BY <1>3
  <2>3. Digit(v, i) = IF \E k \in S : Digit(F[k], i) = 1 THEN 1 ELSE 0
    BY <1>6 DEF Summand
  <2>4. j \in S <=> j < n
    BY <2>1
  <2>5. j \in S => Digit(m[a + j], r) \in {0, 1}
    BY <2>1, ByteType, DigitType
  <2> HIDE DEF j, r, v, F, S
  <2>6. Digit(v, i) = IF j \in S THEN Digit(m[a + j], r) ELSE 0
    BY <2>2, <2>3, <2>5
  <2> QED
    BY <2>1, <2>4, <2>6 DEF j, r
<1>8. v < 2^(n * ByteBits)
  <2> DEFINE p == n * ByteBits
  <2>1. p \in Nat /\ \A i \in Nat : p <= i => Digit(v, i) = 0
    BY <1>7, Places
  <2> HIDE DEF p, v
  <2>2. v < 2^p
    BY <1>6, <2>1, DigitsBound
  <2> QED
    BY <2>2 DEF p
<1> QED
  BY <1>6, <1>7, <1>8

\* A value of up to four bytes is a word.
LEMMA ValueType ==
  ASSUME NEW m, NEW a, NEW n \in 0 .. 4, \A k \in 0 .. (n - 1) : m[a + k] \in Byte
  PROVE  /\ n * ByteBits \in Nat /\ n * ByteBits <= XLEN
         /\ 2^(n * ByteBits) \in Nat /\ 2^(n * ByteBits) <= Modulus
         /\ Value(m, a, n) \in Word /\ Value(m, a, n) < 2^(n * ByteBits)
<1> DEFINE p == n * ByteBits
           v == Value(m, a, n)
<1>1. n \in Nat /\ p \in Nat /\ p <= XLEN /\ XLEN \in Nat
  BY ByteWidths
<1>2. v \in Nat /\ v < 2^p
  BY <1>1, ValueDigits
<1> HIDE DEF p, v
<1>3. 2^p \in Nat /\ 2^p <= Modulus
  BY <1>1, PowerPositive, PowerMonotone DEF Modulus
<1>4. v \in Word
  BY <1>2, <1>3, WordType, Widths
<1> QED
  BY <1>1, <1>2, <1>3, <1>4 DEF p, v

LEMMA MemorySizes ==
  MemorySize \in Nat /\ MemorySize <= Modulus /\ MemorySize % 4 = 0
BY HartAssumption, Widths

Memories == [0 .. (MemorySize - 1) -> Byte]

LEMMA MemoryBytes ==
  ASSUME NEW m \in Memories, NEW a \in Nat, NEW n \in Nat, a + n <= MemorySize
  PROVE  \A k \in 0 .. (n - 1) : m[a + k] \in Byte
<1> TAKE k \in 0 .. (n - 1)
<1>1. a + k \in 0 .. (MemorySize - 1)
  BY MemorySizes
<1> QED
  BY <1>1 DEF Memories

\* What a fetch reads is a word, and not one word if it lies across the end.
LEMMA WordsAtType ==
  ASSUME NEW m \in Memories, NEW a \in Nat, a < MemorySize
  PROVE  /\ WordsAt(m, a) \subseteq Word
         /\ a + 4 <= MemorySize => WordsAt(m, a) = {Value(m, a, 4)}
         /\ a + 4 > MemorySize => \A w : WordsAt(m, a) # {w}
<1>1. MemorySize \in Nat
  BY MemorySizes
<1>2. CASE a + 4 <= MemorySize
  <2>1. WordsAt(m, a) = {Value(m, a, 4)}
    BY <1>2 DEF WordsAt
  <2>2. Value(m, a, 4) \in Word
    <3>1. 4 \in Nat /\ 4 \in 0 .. 4
      OBVIOUS
    <3>2. \A k \in 0 .. (4 - 1) : m[a + k] \in Byte
      BY <1>2, <3>1, MemoryBytes, Zenon
    <3> QED
      BY <3>1, <3>2, ValueType, Zenon
  <2> QED
    BY <2>1, <2>2, <1>1, <1>2
<1>3. CASE a + 4 > MemorySize
  <2> DEFINE n == MemorySize - a
             p == n * ByteBits
             v == Value(m, a, n)
  <2>1. n \in 0 .. 3 /\ n \in Nat /\ n \in 0 .. 4 /\ a + n <= MemorySize
    BY <1>1, <1>3
  <2>2. WordsAt(m, a) = {v + b * 2^p : b \in {0, 1}}
    BY <1>1, <1>3 DEF WordsAt
  <2> HIDE DEF n
  <2>3. p \in Nat /\ 2^p \in Nat /\ v \in Word /\ v < 2^p
    BY <2>1, MemoryBytes, ValueType
  <2>4. p + 1 <= XLEN
    BY <2>1, ByteWidths
  <2> HIDE DEF p, v
  <2>5. 2^(p + 1) = 2 * 2^p /\ 2^(p + 1) <= Modulus /\ 2^p >= 1 /\ v \in Nat
    BY <2>3, <2>4, PowerSuccessor, PowerMonotone, PowerPositive, Widths, WordType
       DEF Modulus
  <2>6. WordsAt(m, a) = {v, v + 2^p}
    BY <2>2, <2>3, <2>5
  <2>7. v + 2^p \in Word /\ v + 2^p # v
    BY <2>3, <2>5, WordType, Widths
  <2> QED
    BY <2>3, <2>6, <2>7, <1>1, <1>3
<1> QED
  BY <1>1, <1>2, <1>3

\* Sign extension repeats the sign of the value.
LEMMA ExtendBits ==
  ASSUME NEW n \in 1 .. 4, NEW v \in Nat, v < 2^(n * ByteBits)
  PROVE  /\ Extend(v, n) \in Word
         /\ \A i \in Positions :
              Bit(Extend(v, n), i)
                <=> Digit(v, IF i < n * ByteBits THEN i ELSE n * ByteBits - 1) = 1
<1> DEFINE p == n * ByteBits
           u == IF v < 2^(p - 1) THEN v ELSE v - 2^p
<1>1. p \in Nat /\ p >= 1 /\ p <= XLEN /\ XLEN \in Nat
  BY ByteWidths
<1> HIDE DEF p
<1>2. 2^p \in Nat /\ 2^p <= Modulus
  BY <1>1, PowerPositive, PowerMonotone DEF Modulus
<1>3. v \in Word /\ v < 2^p
  BY <1>2, WordType, Widths DEF p
<1>4. u \in Int
  BY <1>2
<1>5. Extend(v, n) = Wrap(u)
  <2>1. Extend(v, n) = IF v < 2^(p - 1) THEN v ELSE Wrap(v - 2^p)
    BY DEF Extend, p
  <2>2. Wrap(v) = v
    <3>1. v = 0 * Modulus + v /\ v \in Int
      BY <1>3, WordInt
    <3> QED
      BY <3>1, <1>3, WrapUnique
  <2> QED
    BY <2>1, <2>2
<1>6. ASSUME NEW i \in Positions
      PROVE  Bit(Wrap(u), i) <=> Digit(v, IF i < p THEN i ELSE p - 1) = 1
  <2>1. i \in Nat
    BY Widths DEF Positions
  <2>2. u = IF v < 2^(p - 1) THEN v ELSE v - 2^p
    OBVIOUS
  <2> HIDE DEF u
  <2>3. Digit(u, i) = Digit(v, IF i < p THEN i ELSE p - 1)
    BY <1>1, <1>3, <1>4, <2>1, <2>2, DigitsTwosComplement
  <2> QED
    BY <1>4, <2>3, WrapBit
<1> QED
  BY <1>4, <1>5, <1>6, WrapOf DEF p

-----------------------------------------------------------------------------
(***************************************************************************)
(* Types.  TypeOK is kept because the registers hold words and x0 zero,    *)
(* because pc is even (so that no half lies across the end of the memory)  *)
(* and because the first half of an instruction leaves room for the other. *)
(***************************************************************************)
Started(h) ==
  /\ x[h][0] = 0
  /\ pc[h] % 2 = 0
  /\ stage[h] = "half" => ir[h] \in Half
  /\ (\/ stage[h] \in {"half", "execute"}
      \/ stage[h] \in {"trap", "recheck"} /\ scause[h] = "BREAKPOINT")
       => at[h] < MemorySize

HartInv == TypeOK /\ PreciseInv /\ \A h \in Harts : Started(h)

LEMMA UntouchedStarted ==
  ASSUME NEW h \in Harts, Started(h), Untouched(h)
  PROVE  Started(h)'
BY DEF Started, Untouched

LEMMA DecodeType ==
  ASSUME NEW w
  PROVE  /\ Decode(w).rd \in Regs /\ Decode(w).rs1 \in Regs /\ Decode(w).rs2 \in Regs
         /\ Decode(w).imm \in Int
         /\ Decode(w).op \in DOMAIN BranchOperator \cup {"jal"} => Decode(w).imm % 2 = 0
         /\ Decode(w).op # "illegal" => w \in 1 .. Len(Program)
<1>1. CASE w \in 1 .. Len(Program)
  <2>1. /\ Program[w].rd \in Regs /\ Program[w].rs1 \in Regs
        /\ Program[w].rs2 \in Regs /\ Program[w].imm \in Int
        /\ Program[w].op \in DOMAIN BranchOperator \cup {"jal"} => Program[w].imm % 2 = 0
    BY <1>1, HartAssumption
  <2> QED
    BY <1>1, <2>1 DEF Decode
<1>2. CASE w \notin 1 .. Len(Program)
  <2>1. Decode(w) = [op |-> "illegal", rd |-> 0, rs1 |-> 0, rs2 |-> 0, imm |-> 0]
    BY <1>2 DEF Decode
  <2>2. 0 \in Regs /\ 0 % 2 = 0
    BY HartAssumption
  <2> QED
    BY <2>1, <2>2
<1> QED
  BY <1>1, <1>2

LEMMA WrapEven ==
  ASSUME NEW n \in Int, n % 2 = 0
  PROVE  Wrap(n) % 2 = 0
<1> DEFINE w == Wrap(n)
           q == n \div Modulus
<1>1. w \in Word /\ q \in Int /\ n = q * Modulus + w
  BY WrapOf
<1>2. w \in Int /\ MostNegative \in Int /\ Modulus = 2 * MostNegative
  BY <1>1, WordInt, Widths
<1> HIDE DEF w, q
<1> DEFINE y == q * MostNegative
<1>3. y \in Int /\ w = n - 2 * y
  BY <1>1, <1>2
<1> HIDE DEF y
<1>4. w % 2 = 0
  BY <1>2, <1>3
<1> QED
  BY <1>4 DEF w

\* What an instruction works with.
LEMMA Operands ==
  ASSUME TypeOK, NEW h \in Harts
  PROVE  /\ pc[h] \in Word /\ pc[h] \in Int /\ ir[h] \in Word /\ at[h] \in Word
         /\ Inst(h).rd \in Regs /\ Inst(h).imm \in Int
         /\ Rs1(h) \in Word /\ Rs2(h) \in Word /\ EffectiveAddress(h) \in Word
         /\ x[h][11] \in Word /\ x[h][10] \in Word
<1>1. /\ pc[h] \in Word /\ ir[h] \in Word /\ at[h] \in Word /\ x[h] \in [Regs -> Word]
  BY DEF TypeOK
<1>2. /\ Inst(h).rd \in Regs /\ Inst(h).imm \in Int
      /\ Inst(h).rs1 \in Regs /\ Inst(h).rs2 \in Regs
  BY DecodeType DEF Inst
<1>3. Rs1(h) \in Word /\ Rs2(h) \in Word
  BY <1>1, <1>2 DEF Rs1, Rs2
<1>4. EffectiveAddress(h) \in Word
  <2>1. Rs1(h) \in Int /\ Rs1(h) + Inst(h).imm \in Int
    BY <1>2, <1>3, WordInt
  <2> QED
    BY <2>1, WrapOf DEF EffectiveAddress
<1>5. {10, 11} \subseteq Regs
  BY HartAssumption
<1> QED
  BY <1>1, <1>2, <1>3, <1>4, <1>5, WordInt

LEMMA TargetType ==
  ASSUME TypeOK, NEW h \in Harts, Started(h),
         Inst(h).op \in DOMAIN BranchOperator \cup {"jal", "jalr"}
  PROVE  Target(h) \in Word /\ Target(h) % 2 = 0
<1>1. pc[h] \in Int /\ Inst(h).imm \in Int /\ Rs1(h) \in Int /\ pc[h] % 2 = 0
  BY Operands, WordInt DEF Started
<1>2. CASE Inst(h).op = "jalr"
  <2> DEFINE t == Wrap(Rs1(h) + Inst(h).imm)
  <2>1. t \in Word /\ t \in Nat /\ t < Modulus
    BY <1>1, WrapOf, WordType
  <2>2. Target(h) = t - (t % 2)
    BY <1>2 DEF Target
  <2> HIDE DEF t
  <2>3. t - (t % 2) \in Nat /\ t - (t % 2) < Modulus /\ (t - (t % 2)) % 2 = 0
    BY <2>1, Widths
  <2> QED
    BY <2>2, <2>3, WordType
<1>3. CASE Inst(h).op # "jalr"
  <2>1. Inst(h).imm % 2 = 0
    BY <1>3, DecodeType DEF Inst
  <2>2. pc[h] + Inst(h).imm \in Int /\ (pc[h] + Inst(h).imm) % 2 = 0
    BY <1>1, <2>1
  <2>3. Target(h) = Wrap(pc[h] + Inst(h).imm)
    BY <1>3 DEF Target
  <2> QED
    BY <2>2, <2>3, WrapOf, WrapEven
<1> QED
  BY <1>2, <1>3

\* Writing registers and pc.
LEMMA SetXType ==
  ASSUME TypeOK, NEW h \in Harts, Started(h), NEW r \in Regs, NEW v \in Word, SetX(h, r, v)
  PROVE  /\ x' \in [Harts -> [Regs -> Word]] /\ x'[h][0] = 0
         /\ r # 0 => x'[h][r] = v
BY DEF TypeOK, Started, SetX

LEMMA JumpToAddrType ==
  ASSUME TypeOK, NEW h \in Harts, NEW a \in Word, a % 2 = 0, JumpToAddr(h, a)
  PROVE  pc' \in [Harts -> Word] /\ pc'[h] % 2 = 0 /\ pc'[h] = a
BY DEF TypeOK, JumpToAddr

LEMMA IncPcType ==
  ASSUME TypeOK, NEW h \in Harts, Started(h), NEW width \in {2, 4}, IncPc(h, width)
  PROVE  pc' \in [Harts -> Word] /\ pc'[h] % 2 = 0 /\ pc'[h] = Wrap(pc[h] + width)
<1>1. pc[h] \in Int /\ pc[h] % 2 = 0
  BY Operands DEF Started
<1>2. pc[h] + width \in Int /\ (pc[h] + width) % 2 = 0
  BY <1>1
<1>3. Wrap(pc[h] + width) \in Word /\ Wrap(pc[h] + width) % 2 = 0
  BY <1>2, WrapOf, WrapEven
<1> QED
  BY <1>3, JumpToAddrType DEF IncPc

\* An access that is aligned and begins in the memory ends there.
LEMMA AccessFits ==
  ASSUME TypeOK, NEW h \in Harts, Inst(h).op \in Accesses, Aligned(h),
         Address(EffectiveAddress(h))
  PROVE  /\ Size(h) \in {1, 2, 4}
         /\ EffectiveAddress(h) \in Nat
         /\ EffectiveAddress(h) + Size(h) <= MemorySize
<1>1. Size(h) \in {1, 2, 4}
  <2>1. CASE IsLoad(h)
    BY <2>1 DEF IsLoad, Size, LoadSize
  <2>2. CASE ~IsLoad(h)
    BY <2>2 DEF IsLoad, Size, LoadSize, StoreSize, Accesses
  <2> QED
    BY <2>1, <2>2
<1>2. EffectiveAddress(h) \in Nat /\ EffectiveAddress(h) < MemorySize
      /\ EffectiveAddress(h) % Size(h) = 0
  BY Operands, WordType DEF Address, Aligned
<1> QED
  BY <1>1, <1>2, MemorySizes

LEMMA LoadedType ==
  ASSUME TypeOK, NEW h \in Harts, Inst(h).op \in DOMAIN LoadSize, Aligned(h),
         Address(EffectiveAddress(h))
  PROVE  LET a == EffectiveAddress(h)
             n == Size(h)
         IN /\ Value(mem, a, n) \in Word /\ Value(mem, a, n) < 2^(n * ByteBits)
            /\ Loaded(Inst(h).op, a) \in Word
<1> DEFINE a == EffectiveAddress(h)
           n == Size(h)
           v == Value(mem, a, n)
<1>1. n = LoadSize[Inst(h).op]
  BY DEF Size, IsLoad
<1>2. n \in {1, 2, 4} /\ a \in Nat /\ a + n <= MemorySize /\ mem \in Memories
  BY AccessFits DEF TypeOK, Memories, Accesses
<1> HIDE DEF n, a
<1>3. \A k \in 0 .. (n - 1) : mem[a + k] \in Byte
  BY <1>2, MemoryBytes
<1>4. v \in Word /\ v < 2^(n * ByteBits)
  BY <1>2, <1>3, ValueType
<1>5. Loaded(Inst(h).op, a) = IF Inst(h).op \in {"lbu", "lhu"} THEN v ELSE Extend(v, n)
  BY <1>1 DEF Loaded
<1>6. Extend(v, n) \in Word
  <2> HIDE DEF v
  <2>1. v \in Nat /\ n \in 1 .. 4
    BY <1>2, <1>4, WordType
  <2> QED
    BY <2>1, <1>4, ExtendBits
<1>7. Loaded(Inst(h).op, a) \in Word
  BY <1>4, <1>5, <1>6
<1> QED
  BY <1>4, <1>7 DEF n, a

\* What a step of hart h has to keep.
Keeps(h) ==
  /\ mem' \in Memories
  /\ pc' \in [Harts -> Word] /\ x' \in [Harts -> [Regs -> Word]]
  /\ scause' \in [Harts -> Causes] /\ stval' \in [Harts -> Word]
  /\ stage' \in [Harts -> {"visit", "half", "execute", "trap", "recheck", "stopped"}]
  /\ ir' \in [Harts -> Word] /\ at' \in [Harts -> Word]
  /\ found' \in [Harts -> [Regs -> Word]]
  /\ raised' \in [Harts -> {"none", "CALLBACK"}]
  /\ console' \in [Harts -> Seq(Word)]
  /\ died' \in {"no", "unreachable", "division", "overrun", "beyond"}
  /\ Started(h)'

LEMMA KeepsEnough ==
  ASSUME TypeOK, NEW h \in Harts, Keeps(h), UNCHANGED <<image, ialign>>
  PROVE  TypeOK' /\ Started(h)'
BY DEF TypeOK, Keeps, Memories

LEMMA DiesKeeps ==
  ASSUME TypeOK, NEW h \in Harts, Started(h), NEW why, Dies(why),
         why \in {"unreachable", "division", "beyond"}
  PROVE  Keeps(h)
BY DEF Dies, hartVars, Keeps, TypeOK, Started, Memories

LEMMA InternalInterruptType ==
  ASSUME TypeOK, NEW h \in Harts, NEW cause \in Causes, NEW value \in Word,
         InternalInterrupt(h, cause, value)
  PROVE  /\ scause' \in [Harts -> Causes] /\ stval' \in [Harts -> Word]
         /\ stage' \in [Harts -> {"visit", "half", "execute", "trap", "recheck", "stopped"}]
         /\ scause'[h] = cause /\ stage'[h] = "trap"
BY DEF TypeOK, InternalInterrupt, Proceeds

LEMMA FetchValues ==
  ASSUME TypeOK, NEW a \in Word, a < MemorySize, a % 2 = 0
  PROVE  Value(mem, a, 2) \in Word /\ Value(mem, a, 2) \in Half
<1>1. a \in Nat /\ a + 2 <= MemorySize /\ mem \in Memories
  <2>1. a \in Nat /\ mem \in Memories
    BY WordType DEF TypeOK, Memories
  <2>2. a + 2 <= MemorySize
    BY <2>1, MemorySizes
  <2> QED
    BY <2>1, <2>2
<1>2. 2 \in Nat /\ 2 \in 0 .. 4
  OBVIOUS
<1>3. \A k \in 0 .. (2 - 1) : mem[a + k] \in Byte
  BY <1>1, <1>2, MemoryBytes, Zenon
<1>4. /\ 2^(2 * ByteBits) \in Nat
      /\ Value(mem, a, 2) \in Word /\ Value(mem, a, 2) < 2^(2 * ByteBits)
  BY <1>2, <1>3, ValueType, Zenon
<1> QED
  BY <1>4, WordType DEF Half

LEMMA VisitKeeps ==
  ASSUME HartInv, NEW h \in Harts, Visit(h)
  PROVE  Keeps(h)
<1>1. TypeOK /\ Started(h) /\ InFlight(h) /\ ialign \in Ialigns
  BY DEF HartInv, PreciseInv, Precise, TypeOK
<1>2. /\ pc[h] \in Word /\ pc[h] \in Nat /\ pc[h] % 2 = 0 /\ mem \in Memories
      /\ ir[h] \in Word
  BY <1>1, Operands, WordType DEF Started, TypeOK, Memories
<1>9. \A f \in {[found EXCEPT ![h] = x[h]], found} : f \in [Harts -> [Regs -> Word]]
  BY <1>1 DEF TypeOK
<1>3. CASE FetchFault(h) \/ FetchRestFault(h)
  <2>1. /\ InternalInterrupt(h, "INSTRUCTION_PAGE_FAULT", pc[h])
        /\ raised' = [raised EXCEPT ![h] = IF Raises THEN "CALLBACK" ELSE "none"]
        /\ UNCHANGED <<mem, pc, x, ir, console, died>>
        /\ (at' = [at EXCEPT ![h] = pc[h]] \/ at' = at)
        /\ found' \in {[found EXCEPT ![h] = x[h]], found}
    BY <1>3 DEF FetchFault, FetchRestFault, Begins, CallbackTraps
  <2>2. "INSTRUCTION_PAGE_FAULT" \in Causes /\ "INSTRUCTION_PAGE_FAULT" # "BREAKPOINT"
    BY DEF Causes
  <2>3. /\ scause' \in [Harts -> Causes] /\ stval' \in [Harts -> Word]
        /\ stage' \in [Harts -> {"visit", "half", "execute", "trap", "recheck", "stopped"}]
        /\ scause'[h] = "INSTRUCTION_PAGE_FAULT" /\ stage'[h] = "trap"
    BY <1>1, <1>2, <2>1, <2>2, InternalInterruptType
  <2> QED
    BY <1>1, <1>2, <1>9, <2>1, <2>3 DEF TypeOK, Started, Keeps
<1>4. ASSUME NEW inst \in Word, NEW to \in {"half", "execute"}, Fetched(h, inst, to),
             \/ at' = [at EXCEPT ![h] = pc[h]] /\ pc[h] < MemorySize
             \/ at' = at /\ at[h] < MemorySize,
             found' \in {[found EXCEPT ![h] = x[h]], found},
             to = "half" => inst \in Half
      PROVE  Keeps(h)
  <2>1. at'[h] < MemorySize /\ at' \in [Harts -> Word]
    BY <1>1, <1>2, <1>4 DEF TypeOK
  <2> QED
    BY <1>1, <1>2, <1>4, <1>9, <2>1 DEF TypeOK, Started, Fetched, Proceeds, Keeps
<1>5. CASE Fetch(h)
  <2>1. PICK w \in WordsAt(mem, pc[h]) : Fetched(h, w, "execute")
    BY <1>5 DEF Fetch
  <2>2. /\ pc[h] < MemorySize /\ at' = [at EXCEPT ![h] = pc[h]]
        /\ found' \in {[found EXCEPT ![h] = x[h]], found}
    BY <1>5 DEF Fetch, Begins, Address
  <2>3. w \in Word
    BY <1>2, <2>2, WordsAtType
  <2> QED
    <3>1. "execute" \in {"half", "execute"} /\ "execute" # "half"
      OBVIOUS
    <3> QED
      BY <1>4, <2>1, <2>2, <2>3, <3>1, Zenon
<1>6. CASE FetchHalf(h)
  <2>1. /\ pc[h] < MemorySize /\ at' = [at EXCEPT ![h] = pc[h]]
        /\ found' \in {[found EXCEPT ![h] = x[h]], found}
    BY <1>6 DEF FetchHalf, Begins, Address
  <2>2. Value(mem, pc[h], 2) \in Word /\ Value(mem, pc[h], 2) \in Half
    BY <1>1, <1>2, <2>1, FetchValues
  <2>3. PICK to \in {"half", "execute"} : Fetched(h, Value(mem, pc[h], 2), to)
    BY <1>6 DEF FetchHalf
  <2> QED
    BY <1>4, <2>1, <2>2, <2>3, Zenon
<1>7. CASE FetchRest(h)
  <2> DEFINE a == SecondHalf(h)
             v == Value(mem, a, 2)
             p == 2 * ByteBits
  <2>1. /\ stage[h] = "half" /\ a < MemorySize /\ at' = at
        /\ found' \in {[found EXCEPT ![h] = x[h]], found}
        /\ Fetched(h, ir[h] + v * 2^p, "execute")
    BY <1>7 DEF FetchRest, Address
  <2>2. a \in Word /\ a % 2 = 0
    BY <1>2, WrapOf, WrapEven DEF SecondHalf
  <2>3. v \in Half /\ ir[h] \in Half /\ at[h] < MemorySize
    BY <1>1, <2>1, <2>2, FetchValues DEF Started
  <2>4. p \in Nat /\ p + p = 4 * ByteBits
    BY ByteWidths
  <2>5. 2^p \in Nat /\ 2^(p + p) = 2^p * 2^p
    BY <2>4, PowerPositive, PowerSum
  <2>6. 2^p * 2^p = Modulus
    BY <2>4, <2>5, ByteWidths
  <2> HIDE DEF v, p, a
  <2>7. /\ v \in Nat /\ v <= 2^p - 1 /\ ir[h] \in Nat /\ ir[h] <= 2^p - 1
    BY <2>3, <2>5 DEF Half, p
  <2>8. v * 2^p <= (2^p - 1) * 2^p /\ v * 2^p \in Nat
    BY <2>5, <2>7
  <2>9. (2^p - 1) * 2^p = Modulus - 2^p
    BY <2>5, <2>6
  <2>10. ir[h] + v * 2^p \in Nat /\ ir[h] + v * 2^p < Modulus
    BY <2>5, <2>7, <2>8, <2>9, Widths
  <2>11. ir[h] + v * 2^p \in Word
    BY <2>10, WordType
  <2> QED
    <3>1. "execute" \in {"half", "execute"} /\ "execute" # "half"
      OBVIOUS
    <3> QED
      BY <1>4, <2>1, <2>3, <2>11, <3>1, Zenon
<1>8. CASE FetchDies(h)
  BY <1>1, <1>8, DiesKeeps DEF FetchDies
<1> QED
  BY <1>3, <1>5, <1>6, <1>7, <1>8 DEF Visit

LEMMA RetiresKeeps ==
  ASSUME TypeOK, NEW h \in Harts, Started(h), Retires(h), mem' \in Memories,
         pc' \in [Harts -> Word], pc'[h] % 2 = 0,
         x' \in [Harts -> [Regs -> Word]], x'[h][0] = 0
  PROVE  Keeps(h)
BY DEF TypeOK, Started, Retires, Proceeds, Keeps

LEMMA TrapsKeeps ==
  ASSUME TypeOK, NEW h \in Harts, Started(h), NEW cause \in Causes, NEW value \in Word,
         InternalInterrupt(h, cause, value),
         raised' = raised \/ raised' = [raised EXCEPT ![h] = IF Raises THEN "CALLBACK"
                                                                       ELSE "none"],
         UNCHANGED <<mem, pc, x, ir, at, found, console, died>>,
         stage[h] = "execute"
  PROVE  Keeps(h)
<1>1. /\ scause' \in [Harts -> Causes] /\ stval' \in [Harts -> Word]
      /\ stage' \in [Harts -> {"visit", "half", "execute", "trap", "recheck", "stopped"}]
      /\ stage'[h] = "trap"
  BY InternalInterruptType
<1>2. raised' \in [Harts -> {"none", "CALLBACK"}]
  BY DEF TypeOK
<1>3. Started(h)'
  BY <1>1 DEF Started
<1> QED
  BY <1>1, <1>2, <1>3 DEF TypeOK, Memories, Keeps

\* The operators of the instructions are those of Operators_proofs.
LEMMA InstructionOperators ==
  /\ \A op \in DOMAIN ImmOperator \cup DOMAIN RegOperator : Operator(op) \in AluOps
  /\ \A op \in DOMAIN BranchOperator : BranchOperator[op] \in BranchOps
BY DEF Operator, ImmOperator, RegOperator, BranchOperator, AluOps, BranchOps

LEMMA SecondOperandType ==
  ASSUME TypeOK, NEW h \in Harts
  PROVE  SecondOperand(h) \in Word
BY Operands, WrapOf DEF SecondOperand

LEMMA OperateEffect ==
  ASSUME TypeOK, NEW h \in Harts, Started(h), Operate(h)
  PROVE  /\ pc' \in [Harts -> Word] /\ pc'[h] % 2 = 0
         /\ x' \in [Harts -> [Regs -> Word]] /\ x'[h][0] = 0
         /\ LET op == Operator(Inst(h).op)
            IN \/ Inst(h).rd = 0
               \/ Deviates(op, Rs1(h), SecondOperand(h))
               \/ AsManual(op, Rs1(h), SecondOperand(h), x'[h][Inst(h).rd])
<1> DEFINE op == Operator(Inst(h).op)
           a == Rs1(h)
           b == SecondOperand(h)
<1>1. PICK r \in Results(op, a, b) : SetX(h, Inst(h).rd, r)
  BY DEF Operate
<1>2. op \in AluOps
  BY InstructionOperators DEF Operate, At
<1>3. a \in Word /\ b \in Word /\ Inst(h).rd \in Regs
  BY Operands, SecondOperandType
<1>4. r \in Word /\ (Deviates(op, a, b) \/ AsManual(op, a, b, r))
  <2> HIDE DEF op, a, b
  <2> QED
    BY <1>1, <1>2, <1>3, OperatorsAsManual
<1>5. /\ x' \in [Harts -> [Regs -> Word]] /\ x'[h][0] = 0
      /\ Inst(h).rd # 0 => x'[h][Inst(h).rd] = r
  BY <1>1, <1>3, <1>4, SetXType
<1>6. pc' \in [Harts -> Word] /\ pc'[h] % 2 = 0
  BY IncPcType DEF Operate
<1> HIDE DEF op, a, b
<1>7. \/ Inst(h).rd = 0 \/ Deviates(op, a, b)
      \/ AsManual(op, a, b, x'[h][Inst(h).rd])
  BY <1>4, <1>5
<1> QED
  BY <1>5, <1>6, <1>7 DEF op, a, b

LEMMA StoredType ==
  ASSUME mem \in Memories, NEW a \in Nat, NEW n \in Nat, NEW v \in Word
  PROVE  Stored(a, n, v) \in Memories
<1>1. ASSUME NEW b \in DOMAIN mem
      PROVE  (IF b \in Footprint(a, n) THEN ByteOf(v, b - a) ELSE mem[b]) \in Byte
  <2>1. CASE b \in Footprint(a, n)
    <3>1. b - a \in Nat /\ v \in Int
      BY <2>1, WordInt DEF Footprint
    <3>2. ByteOf(v, b - a) \in Byte
      BY <3>1, ByteOfDigits
    <3> QED
      BY <2>1, <3>2
  <2>2. CASE b \notin Footprint(a, n)
    BY <2>2 DEF Memories
  <2> QED
    BY <2>1, <2>2
<1> QED
  BY <1>1 DEF Stored, Memories

LEMMA ExecuteKeeps ==
  ASSUME HartInv, NEW h \in Harts, Execute(h)
  PROVE  Keeps(h)
<1>1. TypeOK /\ Started(h) /\ mem \in Memories
  BY DEF HartInv, TypeOK, Memories
<1>2. x \in [Harts -> [Regs -> Word]] /\ x[h][0] = 0
  BY <1>1 DEF TypeOK, Started
<1>3. /\ pc[h] \in Word /\ pc[h] \in Int /\ ir[h] \in Word /\ Inst(h).rd \in Regs
      /\ Inst(h).imm \in Int /\ EffectiveAddress(h) \in Word /\ Rs2(h) \in Word
      /\ 0 \in Word
  BY <1>1, Operands, WordType
<1>4. \A width \in {2, 4} : IncPc(h, width) => pc' \in [Harts -> Word] /\ pc'[h] % 2 = 0
  BY <1>1, IncPcType
<1>5. ASSUME NEW v \in Word, SetX(h, Inst(h).rd, v)
      PROVE  x' \in [Harts -> [Regs -> Word]] /\ x'[h][0] = 0
  BY <1>1, <1>3, <1>5, SetXType
<1>6. CASE Operate(h)
  <2>1. Retires(h) /\ mem' = mem
    BY <1>6 DEF Operate
  <2> QED
    BY <1>1, <1>6, <2>1, OperateEffect, RetiresKeeps
<1>7. CASE LoadUpper(h)
  <2> DEFINE v == Wrap(Inst(h).imm + IF Inst(h).op = "auipc" THEN pc[h] ELSE 0)
  <2>1. Retires(h) /\ mem' = mem /\ IncPc(h, 4) /\ SetX(h, Inst(h).rd, v)
    BY <1>7 DEF LoadUpper
  <2>2. v \in Word
    BY <1>3, WrapOf
  <2> HIDE DEF v
  <2> QED
    BY <1>1, <1>4, <1>5, <2>1, <2>2, RetiresKeeps
<1>8. CASE Jump(h)
  <2> DEFINE v == Wrap(pc[h] + 4)
  <2>1. Retires(h) /\ mem' = mem /\ JumpToAddr(h, Target(h)) /\ SetX(h, Inst(h).rd, v)
    BY <1>8 DEF Jump
  <2>2. v \in Word
    BY <1>3, WrapOf
  <2>3. Inst(h).op \in {"jal", "jalr"}
    BY <1>8 DEF Jump, At
  <2>4. Target(h) \in Word /\ Target(h) % 2 = 0
    BY <1>1, <2>3, TargetType
  <2>5. pc' \in [Harts -> Word] /\ pc'[h] % 2 = 0
    BY <1>1, <2>1, <2>4, JumpToAddrType
  <2> HIDE DEF v
  <2> QED
    BY <1>1, <1>5, <2>1, <2>2, <2>5, RetiresKeeps
<1>9. CASE Branch(h)
  <2>1. /\ Retires(h) /\ mem' = mem /\ x' = x
        /\ JumpToAddr(h, Target(h)) \/ IncPc(h, 4)
    BY <1>9 DEF Branch
  <2>2. Inst(h).op \in DOMAIN BranchOperator
    BY <1>9 DEF Branch, At
  <2>3. Target(h) \in Word /\ Target(h) % 2 = 0
    BY <1>1, <2>2, TargetType
  <2>4. pc' \in [Harts -> Word] /\ pc'[h] % 2 = 0
    BY <1>1, <1>4, <2>1, <2>3, JumpToAddrType
  <2> QED
    BY <1>1, <1>2, <2>1, <2>4, RetiresKeeps
<1>10. CASE AccessFault(h)
  <2>1. /\ \E cause \in {"LOAD_ACCESS_FAULT", "STORE_AMO_ACCESS_FAULT"} :
             InternalInterrupt(h, cause, EffectiveAddress(h))
        /\ stage[h] = "execute"
        /\ UNCHANGED <<mem, pc, x, ir, at, found, raised, console, died>>
    BY <1>10 DEF AccessFault, Traps, At
  <2>2. {"LOAD_ACCESS_FAULT", "STORE_AMO_ACCESS_FAULT"} \subseteq Causes
    BY DEF Causes
  <2> QED
    BY <1>1, <1>3, <2>1, <2>2, TrapsKeeps
<1>11. CASE PageFault(h)
  <2>1. /\ \E cause \in {"LOAD_PAGE_FAULT", "STORE_AMO_PAGE_FAULT"} :
             InternalInterrupt(h, cause, EffectiveAddress(h))
        /\ stage[h] = "execute"
        /\ raised' = [raised EXCEPT ![h] = IF Raises THEN "CALLBACK" ELSE "none"]
        /\ UNCHANGED <<mem, pc, x, ir, at, found, console, died>>
    BY <1>11 DEF PageFault, CallbackTraps, At
  <2>2. {"LOAD_PAGE_FAULT", "STORE_AMO_PAGE_FAULT"} \subseteq Causes
    BY DEF Causes
  <2> QED
    BY <1>1, <1>3, <2>1, <2>2, TrapsKeeps
<1>12. CASE Ecall(h) \/ Ebreak(h) \/ Illegal(h)
  <2>1. /\ \E cause \in {EnvironmentCallCause, "BREAKPOINT", "ILLEGAL_INSTRUCTION"},
              value \in {0, pc[h], ir[h]} : InternalInterrupt(h, cause, value)
        /\ stage[h] = "execute"
        /\ UNCHANGED <<mem, pc, x, ir, at, found, raised, console, died>>
    BY <1>12 DEF Ecall, Ebreak, Illegal, Traps, At
  <2>2. {EnvironmentCallCause, "BREAKPOINT", "ILLEGAL_INSTRUCTION"} \subseteq Causes
    BY HartAssumption DEF Causes, EnvironmentCallCause
  <2> QED
    BY <1>1, <1>3, <2>1, <2>2, TrapsKeeps
<1>13. CASE Load(h)
  <2> DEFINE v == Loaded(Inst(h).op, EffectiveAddress(h))
  <2>1. Retires(h) /\ mem' = mem /\ IncPc(h, 4) /\ SetX(h, Inst(h).rd, v)
    BY <1>13 DEF Load
  <2>2. v \in Word
    BY <1>1, <1>13, LoadedType DEF Load, At
  <2> HIDE DEF v
  <2> QED
    BY <1>1, <1>4, <1>5, <2>1, <2>2, RetiresKeeps
<1>14. CASE Store(h)
  <2>1. /\ Retires(h) /\ IncPc(h, 4) /\ x' = x
        /\ mem' = Stored(EffectiveAddress(h), Size(h), Rs2(h))
    BY <1>14 DEF Store
  <2>2. Size(h) \in Nat /\ EffectiveAddress(h) \in Nat
    BY <1>1, <1>14, AccessFits DEF Store, At, Accesses
  <2>3. mem' \in Memories
    BY <1>1, <1>3, <2>1, <2>2, StoredType
  <2> QED
    BY <1>1, <1>2, <1>4, <2>1, <2>3, RetiresKeeps
<1>15. CASE Fence(h)
  <2>1. Retires(h) /\ IncPc(h, 4) /\ mem' = mem /\ x' = x
    BY <1>15 DEF Fence
  <2> QED
    BY <1>1, <1>2, <1>4, <2>1, RetiresKeeps
<1>16. CASE OperateDies(h)
  BY <1>1, <1>16, DiesKeeps DEF OperateDies
<1> QED
  BY <1>6, <1>7, <1>8, <1>9, <1>10, <1>11, <1>12, <1>13, <1>14, <1>15, <1>16 DEF Execute

LEMMA TrapHandlerKeeps ==
  ASSUME HartInv, NEW h \in Harts, TrapHandler(h)
  PROVE  Keeps(h)
<1>1. TypeOK /\ Started(h) /\ mem \in Memories
  BY DEF HartInv, TypeOK, Memories
<1>2. \A width \in {2, 4} : IncPc(h, width) => pc' \in [Harts -> Word] /\ pc'[h] % 2 = 0
  BY <1>1, IncPcType
<1>3. CASE BreakPointCompressed(h) \/ BreakPointContinues(h) \/ Prints(h)
  <2>1. /\ IncPc(h, 2) \/ IncPc(h, 4)
        /\ Proceeds(h, "visit")
        /\ UNCHANGED <<mem, x, scause, stval, ir, at, found, raised, died>>
        /\ console' = console \/ console' = [console EXCEPT ![h] = Append(@, x[h][11])]
    BY <1>3 DEF BreakPointCompressed, BreakPointContinues, Prints, Handled, A1
  <2>2. console' \in [Harts -> Seq(Word)]
    <3>1. console \in [Harts -> Seq(Word)] /\ console[h] \in Seq(Word)
      BY <1>1 DEF TypeOK
    <3>2. Append(console[h], x[h][11]) \in Seq(Word)
      BY <1>1, <3>1, Operands
    <3> QED
      BY <2>1, <3>1, <3>2
  <2>3. pc' \in [Harts -> Word] /\ pc'[h] % 2 = 0
    BY <1>2, <2>1
  <2> QED
    BY <1>1, <2>1, <2>2, <2>3 DEF TypeOK, Started, Proceeds, Keeps
<1>4. CASE BreakPointLong(h) \/ Stops(h)
  <2>1. /\ stage[h] = "trap"
        /\ \/ Proceeds(h, "recheck") /\ scause[h] = "BREAKPOINT"
           \/ Proceeds(h, "stopped")
        /\ UNCHANGED <<mem, pc, x, scause, stval, ir, at, found, raised, console, died>>
    BY <1>4 DEF BreakPointLong, Stops, InTrap
  <2> QED
    BY <1>1, <2>1 DEF TypeOK, Started, Proceeds, Keeps
<1>5. CASE Exits(h)
  <2>1. /\ IncPc(h, 4) /\ Proceeds(h, "stopped")
        /\ UNCHANGED <<mem, x, scause, stval, ir, at, found, raised, console, died>>
    BY <1>5 DEF Exits
  <2>2. pc' \in [Harts -> Word] /\ pc'[h] % 2 = 0
    BY <1>2, <2>1
  <2> QED
    BY <1>1, <2>1, <2>2 DEF TypeOK, Started, Proceeds, Keeps
<1>6. CASE BreakPointAborts(h)
  BY <1>1, <1>6, DiesKeeps DEF BreakPointAborts
<1> QED
  BY <1>3, <1>4, <1>5, <1>6 DEF TrapHandler

-----------------------------------------------------------------------------
Copies == [offset : Word, words : Seq(Word)]

LEMMA ImageHead ==
  ASSUME TypeOK, image # <<>>
  PROVE  /\ Head(image) \in Copies /\ Tail(image) \in Seq(Copies)
         /\ Head(image).offset \in Nat /\ Head(image).words \in Seq(Word)
         /\ Len(Head(image).words) \in Nat
<1>1. image \in Seq(Copies)
  BY DEF TypeOK, Copies
<1>2. Head(image) \in Copies /\ Tail(image) \in Seq(Copies)
  BY <1>1
<1>3. Head(image).offset \in Word /\ Head(image).words \in Seq(Word)
  BY <1>2 DEF Copies
<1> QED
  BY <1>2, <1>3, WordType

LEMMA MemoryCopyTypes ==
  ASSUME TypeOK, MemoryCopy
  PROVE  TypeOK'
<1> DEFINE copy == Head(image)
           span == Footprint(copy.offset, Length(copy))
<1>1. image # <<>> /\ UNCHANGED <<ialign, hartVars>>
  BY DEF MemoryCopy
<1>2. /\ copy.offset \in Nat /\ copy.words \in Seq(Word) /\ Len(copy.words) \in Nat
      /\ Tail(image) \in Seq(Copies) /\ mem \in Memories
  BY <1>1, ImageHead DEF TypeOK, Memories
<1>3. /\ image' = image \/ image' = Tail(image)
      /\ died' = died \/ died' = "overrun"
      /\ \/ mem' = mem
         \/ mem' = [a \in DOMAIN mem |->
                      IF a \in span
                      THEN ByteOf(copy.words[(a - copy.offset) \div 4 + 1],
                                  (a - copy.offset) % 4)
                      ELSE mem[a]]
  BY DEF MemoryCopy
<1>4. ASSUME NEW a \in span
      PROVE  ByteOf(copy.words[(a - copy.offset) \div 4 + 1], (a - copy.offset) % 4)
               \in Byte
  <2> DEFINE d == a - copy.offset
             k == d \div 4
  <2>1. d \in Nat /\ d < 4 * Len(copy.words)
    BY <1>2 DEF Footprint, Length
  <2> HIDE DEF d
  <2>2. k \in Nat /\ k + 1 \in 1 .. Len(copy.words) /\ d % 4 \in Nat
    BY <1>2, <2>1
  <2> HIDE DEF k
  <2>3. copy.words[k + 1] \in Word
    BY <1>2, <2>2
  <2>4. copy.words[k + 1] \in Int
    BY <2>3, WordInt
  <2>5. ByteOf(copy.words[k + 1], d % 4) \in Byte
    BY <2>2, <2>4, ByteOfDigits
  <2> QED
    BY <2>5 DEF k, d
<1> HIDE DEF span, copy
<1>5. mem' \in Memories
  <2>1. CASE mem' = mem
    BY <1>2, <2>1
  <2>2. CASE mem' # mem
    BY <1>2, <1>3, <1>4, <2>2 DEF Memories
  <2> QED
    BY <2>1, <2>2
<1>6. image' \in Seq(Copies)
  BY <1>2, <1>3 DEF TypeOK, Copies
<1> QED
  BY <1>1, <1>3, <1>5, <1>6 DEF TypeOK, Memories, Copies, hartVars

LEMMA HartInvInit == Init => HartInv
<1> SUFFICES ASSUME NEW words \in Seq(Word),
                    NEW copies \in Seq([offset : Word, words : Seq(Word)]),
                    NEW boot \in [Harts -> {a \in Word : a % 2 = 0}],
                    NEW regs \in [Harts -> {r \in [Regs -> Word] : r[0] = 0}],
                    Booted(words, copies, boot, regs)
             PROVE  TypeOK /\ \A h \in Harts : Started(h)
  BY PreciseInit DEF Init, HartInv
<1>1. mem \in Memories
  <2>1. ASSUME NEW a \in 0 .. (MemorySize - 1)
        PROVE  (IF a \div 4 < Len(words) THEN ByteOf(words[a \div 4 + 1], a % 4) ELSE 0)
                 \in Byte
    <3> DEFINE k == a \div 4
    <3>1. a \in Nat /\ k \in Nat /\ a % 4 \in Nat /\ Len(words) \in Nat
      BY MemorySizes
    <3> HIDE DEF k
    <3>2. CASE k < Len(words)
      <4>1. k + 1 \in 1 .. Len(words)
        BY <3>1, <3>2
      <4>2. words[k + 1] \in Int
        BY <4>1, WordInt
      <4>3. ByteOf(words[k + 1], a % 4) \in Byte
        BY <3>1, <4>2, ByteOfDigits
      <4> QED
        BY <3>2, <4>3 DEF k
    <3>3. CASE ~(k < Len(words))
      BY <3>3, ByteWidths DEF Byte, k
    <3> QED
      BY <3>2, <3>3
  <2> QED
    BY <2>1 DEF Booted, Memories
<1>2. 0 \in Word
  BY WordType
<1>3. boot \in [Harts -> Word] /\ regs \in [Harts -> [Regs -> Word]]
  OBVIOUS
<1>4. TypeOK
  BY <1>1, <1>2, <1>3 DEF Booted, TypeOK, Memories, Causes
<1>5. \A h \in Harts : Started(h)
  BY DEF Booted, Started
<1> QED
  BY <1>4, <1>5

\* HartInv is inductive.
LEMMA HartInvNext == HartInv /\ [Next]_vars => HartInv'
<1> SUFFICES ASSUME HartInv, [Next]_vars
             PROVE  TypeOK' /\ \A h \in Harts : Started(h)'
  BY PreciseNext DEF HartInv
<1>1. CASE UNCHANGED vars
  BY <1>1 DEF HartInv, TypeOK, Started, vars, hartVars
<1>2. CASE MemoryCopy
  <2>1. UNCHANGED hartVars
    BY <1>2 DEF MemoryCopy
  <2> QED
    BY <1>2, <2>1, MemoryCopyTypes DEF HartInv, Started, hartVars
<1>3. ASSUME NEW h \in Harts, Step(h)
      PROVE  TypeOK' /\ \A g \in Harts : Started(g)'
  <2>1. UNCHANGED <<image, ialign>> /\ (Visit(h) \/ Execute(h) \/ TrapHandler(h))
    BY <1>3 DEF Step
  <2>2. Keeps(h)
    BY <2>1, VisitKeeps, ExecuteKeeps, TrapHandlerKeeps
  <2>3. TypeOK' /\ Started(h)'
    BY <2>1, <2>2, KeepsEnough DEF HartInv
  <2>4. \A g \in Harts \ {h} : Untouched(g)
    BY <2>1, VisitFrame, ExecuteFrame, TrapHandlerFrame DEF HartInv, PreciseInv
  <2>5. \A g \in Harts \ {h} : Started(g)'
    BY <2>4, UntouchedStarted DEF HartInv
  <2> QED
    BY <2>3, <2>5
<1> QED
  BY <1>1, <1>2, <1>3 DEF Next, Done

(***************************************************************************)
(* Registers, pc, STVAL and instructions are words and the memory bytes:   *)
(* every operator (operators.hpp:60-331), sign extension and store of      *)
(* hart.hpp stays within its width, no half of an instruction lies across  *)
(* the end of the memory, and no stored word overflows its bytes.          *)
(***************************************************************************)
THEOREM HartTypeCorrect == Spec => []TypeOK
<1>1. HartInv => TypeOK
  BY DEF HartInv
<1> QED
  BY HartInvInit, HartInvNext, <1>1, PTL DEF Spec

-----------------------------------------------------------------------------
(***************************************************************************)
(* How the process may end.                                                *)
(***************************************************************************)
LEMMA DivisionDies ==
  ASSUME TypeOK, NEW h \in Harts, OperateDies(h)
  PROVE  /\ At(h, {"div", "rem"})
         /\ Signed(Rs1(h)) < -Signed(MostNegative - 1)
         /\ Signed(Rs2(h)) = -1
<1>1. /\ stage[h] = "execute" /\ Inst(h).op \in DOMAIN RegOperator
      /\ Operator(Inst(h).op) \in {"DIV", "REM"}
      /\ Rs1(h) = MostNegative /\ Rs2(h) = MinusOne
  BY DEF OperateDies, At, MayDie
<1>2. Inst(h).op \in {"div", "rem"}
  BY <1>1 DEF Operator, ImmOperator, RegOperator
<1>3. MostNegative \in Word /\ MostNegative - 1 \in Word /\ MinusOne \in Word
  BY WordType, Widths
<1>4. Signed(MostNegative) = MostNegative - Modulus
      /\ Signed(MostNegative - 1) = MostNegative - 1
  BY <1>3, SignedOf, Widths
<1>5. Signed(MinusOne) = -1
  BY <1>3, SignedSpecial
<1> QED
  BY <1>1, <1>2, <1>4, <1>5, Widths DEF At

LEMMA CopyOverruns ==
  ASSUME TypeOK, image # <<>>, CopyAccepts(Head(image)),
         ~(Footprint(Head(image).offset, Length(Head(image))) \subseteq DOMAIN mem)
  PROVE  Length(Head(image)) > MemorySize
<1> DEFINE a == Head(image).offset
           n == Length(Head(image))
<1>1. a \in Nat /\ n \in Nat /\ MemorySize \in Nat
  BY ImageHead, MemorySizes DEF Length
<1>2. DOMAIN mem = 0 .. (MemorySize - 1)
  BY DEF TypeOK
<1>3. n > MemorySize \/ a <= MemorySize - n
  BY DEF CopyAccepts
<1> HIDE DEF a, n
<1>4. a <= MemorySize - n => Footprint(a, n) \subseteq DOMAIN mem
  BY <1>1, <1>2 DEF Footprint
<1> QED
  BY <1>1, <1>3, <1>4 DEF a, n

LEMMA FetchOverruns ==
  ASSUME TypeOK, NEW h \in Harts, FetchDies(h)
  PROVE  ialign = 32 /\ pc[h] % 4 # 0
<1>1. pc[h] \in Nat /\ pc[h] < MemorySize /\ pc[h] + 4 > MemorySize /\ ialign = 32
  BY Operands, WordType DEF FetchDies, Address
<1> QED
  BY <1>1, MemorySizes

LEMMA DiesNext ==
  HartInv /\ DiesOnlyOutsideContract /\ [Next]_vars => DiesOnlyOutsideContract'
<1> SUFFICES ASSUME HartInv, DiesOnlyOutsideContract, [Next]_vars
             PROVE  DiesOnlyOutsideContract'
  OBVIOUS
<1>1. TypeOK
  BY DEF HartInv
<1>2. CASE UNCHANGED vars
  BY <1>2 DEF DiesOnlyOutsideContract, At, Inst, Rs1, Rs2, vars, hartVars
<1>3. CASE MemoryCopy
  <2>1. died' = "no" \/ (died' = "overrun" /\ image' = image
                          /\ Length(Head(image)) > MemorySize)
    BY <1>1, <1>3, CopyOverruns DEF MemoryCopy
  <2> QED
    BY <2>1 DEF DiesOnlyOutsideContract, Length
<1>4. ASSUME NEW h \in Harts, Step(h)
      PROVE  DiesOnlyOutsideContract'
  <2>1. died = "no" /\ (Visit(h) \/ Execute(h) \/ TrapHandler(h)) /\ ialign' = ialign
    BY <1>4 DEF Step
  <2>2. CASE FetchDies(h)
    <3>1. died' = "beyond" /\ pc' = pc /\ ialign' = 32 /\ pc[h] % 4 # 0
      BY <1>1, <2>1, <2>2, FetchOverruns DEF FetchDies, Dies, hartVars
    <3> QED
      BY <3>1 DEF DiesOnlyOutsideContract
  <2>3. CASE OperateDies(h)
    <3>1. died' = "division" /\ UNCHANGED <<x, ir, stage>>
      BY <2>3 DEF OperateDies, Dies, hartVars
    <3>2. /\ At(h, {"div", "rem"})
          /\ Signed(Rs1(h)) < -Signed(MostNegative - 1) /\ Signed(Rs2(h)) = -1
      BY <1>1, <2>3, DivisionDies
    <3>3. At(h, {"div", "rem"})' /\ Rs1(h)' = Rs1(h) /\ Rs2(h)' = Rs2(h)
      BY <3>1, <3>2 DEF At, Inst, Rs1, Rs2
    <3>4. (\E g \in Harts : /\ At(g, {"div", "rem"})
                            /\ Signed(Rs1(g)) < -Signed(MostNegative - 1)
                            /\ Signed(Rs2(g)) = -1)'
      BY <3>2, <3>3
    <3> QED
      BY <3>1, <3>4 DEF DiesOnlyOutsideContract
  <2>4. CASE BreakPointAborts(h)
    BY <2>4 DEF BreakPointAborts, Dies, DiesOnlyOutsideContract
  <2>5. CASE died' = died
    BY <2>1, <2>5 DEF DiesOnlyOutsideContract
  <2>6. FetchDies(h) \/ OperateDies(h) \/ BreakPointAborts(h) \/ died' = died
    <3>1. Visit(h) => FetchDies(h) \/ died' = died
      BY DEF Visit, FetchFault, Fetch, FetchHalf, FetchRest, FetchRestFault,
             CallbackTraps, Fetched
    <3>2. Execute(h) => OperateDies(h) \/ died' = died
      BY DEF Execute, Operate, LoadUpper, Jump, Branch, AccessFault, PageFault, Load,
             Store, Fence, Ecall, Ebreak, Illegal, Traps, CallbackTraps, Retires
    <3>3. TrapHandler(h) => BreakPointAborts(h) \/ died' = died
      BY DEF TrapHandler, BreakPointCompressed, BreakPointLong, BreakPointContinues,
             Prints, Exits, Stops, Handled
    <3> QED
      BY <2>1, <3>1, <3>2, <3>3
  <2> QED
    BY <2>2, <2>3, <2>4, <2>5, <2>6
<1> QED
  BY <1>2, <1>3, <1>4 DEF Next, Done

(***************************************************************************)
(* Apart from break_point_handler, the process ends only for the overflow  *)
(* of DIV and REM (operators.hpp:186-216), in memory_copy of an image that *)
(* is longer than the memory and in a fetch at a misaligned pc without     *)
(* the C extension.                                                        *)
(***************************************************************************)
THEOREM DiesTheorem == Spec => []DiesOnlyOutsideContract
<1>1. Init => DiesOnlyOutsideContract
  BY DEF Init, Booted, DiesOnlyOutsideContract
<1> QED
  BY HartInvInit, HartInvNext, DiesNext, <1>1, PTL DEF Spec

-----------------------------------------------------------------------------
(***************************************************************************)
(* A breakpoint continues behind its EBREAK.                               *)
(***************************************************************************)
\* A word below 2^(two bytes) is its own lower half.
LEMMA LowerHalf ==
  ASSUME NEW m \in Memories, NEW a \in Nat, a + 4 <= MemorySize, Value(m, a, 4) \in Half
  PROVE  Value(m, a, 2) = Value(m, a, 4)
<1> DEFINE p == 2 * ByteBits
           v == Value(m, a, 2)
           w == Value(m, a, 4)
<1>1. p \in Nat /\ 2^p \in Nat
  BY ByteWidths, PowerPositive
<1>2. 2 \in Nat /\ 4 \in Nat /\ 2 <= 4 /\ a + 2 <= MemorySize
  BY MemorySizes
<1>3. (\A k \in 0 .. (2 - 1) : m[a + k] \in Byte) /\ (\A k \in 0 .. (4 - 1) : m[a + k] \in Byte)
  BY <1>2, MemoryBytes, Zenon
<1>4. /\ v \in Nat /\ v < 2^p
      /\ \A i \in Nat : Digit(v, i) = IF i < p
                                      THEN Digit(m[a + (i \div ByteBits)], i % ByteBits)
                                      ELSE 0
  BY <1>2, <1>3, ValueDigits, Zenon
<1>5. \A i \in Nat : Digit(w, i) = IF i < 4 * ByteBits
                                   THEN Digit(m[a + (i \div ByteBits)], i % ByteBits)
                                   ELSE 0
  BY <1>2, <1>3, ValueDigits, Zenon
<1>6. p <= 4 * ByteBits /\ ByteBits \in Nat
  BY ByteWidths
<1>7. w \in 0 .. (2^p - 1)
  BY DEF Half
<1> HIDE DEF p, v, w
<1>8. \A i \in 0 .. (p - 1) : Digit(v, i) = Digit(w, i)
  BY <1>1, <1>4, <1>5, <1>6
<1>9. v \in 0 .. (2^p - 1)
  BY <1>1, <1>4
<1>10. v = w
  BY <1>1, <1>7, <1>8, <1>9, DigitsDetermine
<1> QED
  BY <1>10 DEF v, w

LEMMA CompressedPatched ==
  ASSUME HartInv, NEW h \in Harts, BreakPointCompressed(h)
  PROVE  Patched(h)
<1>1. TypeOK /\ Started(h) /\ Precise(h) /\ mem \in Memories
  BY DEF HartInv, PreciseInv, TypeOK, Memories
<1>2. /\ stage[h] = "trap" /\ scause[h] = "BREAKPOINT"
      /\ ~IsLong(Value(mem, stval[h], 2))
  BY DEF BreakPointCompressed, InTrap
<1>3. stval[h] = at[h] /\ Decode(ir[h]).op = "ebreak" /\ at[h] < MemorySize
  BY <1>1, <1>2 DEF Started, Precise, Stuck, Justified, Inst
<1>4. ir[h] \in 1 .. Len(Program)
  BY <1>3, DecodeType
<1>5. ir[h] \in Half /\ at[h] \in Nat
  <2>1. Len(Program) \in Half /\ 2^(2 * ByteBits) \in Nat
    BY HartAssumption, ByteWidths, PowerPositive
  <2> QED
    BY <1>1, <1>4, <2>1, Operands, WordType DEF Half
<1> SUFFICES ASSUME WordsAt(mem, at[h]) = {ir[h]}
             PROVE  FALSE
  BY DEF Patched
<1>6. at[h] + 4 <= MemorySize /\ WordsAt(mem, at[h]) = {Value(mem, at[h], 4)}
  <2>1. /\ at[h] + 4 <= MemorySize => WordsAt(mem, at[h]) = {Value(mem, at[h], 4)}
        /\ at[h] + 4 > MemorySize => \A w : WordsAt(mem, at[h]) # {w}
    BY <1>1, <1>3, <1>5, WordsAtType, Zenon
  <2>2. ~(at[h] + 4 > MemorySize)
    BY <2>1, WordsAt(mem, at[h]) = {ir[h]}, Zenon
  <2>3. at[h] + 4 <= MemorySize
    BY <1>5, <2>2, MemorySizes
  <2> QED
    BY <2>1, <2>3
<1>7. Value(mem, at[h], 4) = ir[h]
  BY <1>6
<1>8. Value(mem, at[h], 2) = ir[h]
  BY <1>1, <1>5, <1>6, <1>7, LowerHalf
<1> QED
  BY <1>2, <1>3, <1>4, <1>8 DEF IsLong

(***************************************************************************)
(* After a breakpoint the hart goes on four bytes behind the EBREAK        *)
(* (hart.hpp:905-919), although break_point_handler takes every 16-bit     *)
(* word for a C.EBREAK: with the C extension as without, unless another    *)
(* store changed the instruction.                                          *)
(***************************************************************************)
THEOREM BreakPointTheorem == Spec => BreakPointSkipsEbreak
<1> DEFINE Skips(h) == Rechecks(h) \/ InTrap(h, {"BREAKPOINT"}) =>
                         \/ stage'[h] # "visit"
                         \/ pc'[h] = Wrap(at[h] + 4) \/ Patched(h)
<1>1. HartInv /\ [Next]_vars => [\A h \in Harts : Skips(h)]_vars
  <2> SUFFICES ASSUME HartInv, Next, NEW h \in Harts,
                      Rechecks(h) \/ InTrap(h, {"BREAKPOINT"}), stage'[h] = "visit"
               PROVE  pc'[h] = Wrap(at[h] + 4) \/ Patched(h)
    OBVIOUS
  <2>1. TypeOK /\ Started(h) /\ Precise(h) /\ WellFormed
    BY DEF HartInv, PreciseInv
  <2>2. stage[h] \in {"trap", "recheck"} /\ scause[h] = "BREAKPOINT" /\ pc[h] = at[h]
    BY <2>1 DEF Rechecks, InTrap, Precise, InFlight, Stuck
  <2>3. ASSUME NEW g \in Harts, Step(g)
        PROVE  pc'[h] = Wrap(at[h] + 4) \/ Patched(h)
    <3>1. g = h
      <4> SUFFICES ASSUME g # h PROVE FALSE
        OBVIOUS
      <4>1. \A k \in Harts \ {g} : Untouched(k)
        BY <2>1, <2>3, VisitFrame, ExecuteFrame, TrapHandlerFrame DEF Step
      <4> QED
        BY <4>1, <2>2 DEF Untouched
    <3>2. TrapHandler(h)
      BY <2>2, <2>3, <3>1
         DEF Step, Visit, FetchFault, Fetch, FetchHalf, FetchRest, FetchRestFault,
             FetchDies, Begins, Execute, Operate, OperateDies, LoadUpper, Jump, Branch,
             AccessFault, PageFault, Load, Store, Fence, Ecall, Ebreak, Illegal, At
    <3>3. CASE BreakPointCompressed(h)
      BY <3>3, CompressedPatched
    <3>4. CASE BreakPointContinues(h)
      BY <2>1, <2>2, <3>4, IncPcType DEF BreakPointContinues, Handled
    <3>5. CASE BreakPointLong(h) \/ BreakPointAborts(h) \/ Stops(h) \/ Exits(h)
      BY <2>1, <2>2, <3>5
         DEF BreakPointLong, BreakPointAborts, Stops, Exits, Proceeds, Dies, hartVars,
             WellFormed
    <3>6. CASE Prints(h)
      BY <2>2, <3>6 DEF Prints, InTrap
    <3> QED
      BY <3>2, <3>3, <3>4, <3>5, <3>6 DEF TrapHandler
  <2>4. CASE MemoryCopy \/ Done
    BY <2>2, <2>4 DEF MemoryCopy, Done, vars, hartVars
  <2> QED
    BY <2>3, <2>4 DEF Next
<1> QED
  BY HartInvInit, HartInvNext, <1>1, PTL DEF Spec, BreakPointSkipsEbreak

-----------------------------------------------------------------------------
(***************************************************************************)
(* Instructions that retire.                                               *)
(***************************************************************************)
\* Only a step that executes the instruction of h makes h retire.
LEMMA RetiringExecutes ==
  ASSUME HartInv, Next, NEW h \in Harts, Retiring(h)
  PROVE  Execute(h)
<1>1. WellFormed
  BY DEF HartInv, PreciseInv
<1>2. stage[h] = "execute" /\ stage'[h] = "visit"
  BY DEF Retiring
<1>3. PICK g \in Harts : Step(g)
  BY <1>2 DEF Next, MemoryCopy, Done, vars, hartVars
<1>4. g = h
  <2> SUFFICES ASSUME g # h PROVE FALSE
    OBVIOUS
  <2>1. Untouched(h)
    BY <1>1, <1>3, VisitFrame, ExecuteFrame, TrapHandlerFrame DEF Step
  <2> QED
    BY <1>2, <2>1 DEF Untouched
<1>5. ~Visit(h)
  BY <1>2 DEF Visit, Begins, FetchFault, Fetch, FetchHalf, FetchRest,
              FetchRestFault, FetchDies
<1>6. ~TrapHandler(h)
  BY <1>2 DEF TrapHandler, BreakPointCompressed, BreakPointLong, BreakPointContinues,
              BreakPointAborts, Rechecks, Prints, Exits, Stops, InTrap
<1> QED
  BY <1>3, <1>4, <1>5, <1>6 DEF Step

\* The action that retires an instruction is the one of its kind.
LEMMA RetiringKind ==
  ASSUME HartInv, NEW h \in Harts, Retiring(h), Execute(h)
  PROVE  /\ At(h, DOMAIN ImmOperator \cup DOMAIN RegOperator) => Operate(h)
         /\ At(h, DOMAIN BranchOperator) => Branch(h)
         /\ At(h, DOMAIN LoadSize) => Load(h)
         /\ At(h, DOMAIN StoreSize) => Store(h)
         /\ mem' # mem => Store(h)
<1>1. WellFormed
  BY DEF HartInv, PreciseInv
<1>2. stage[h] = "execute" /\ stage'[h] = "visit"
  BY DEF Retiring
<1>3. ASSUME NEW cause, NEW value
      PROVE  ~InternalInterrupt(h, cause, value)
  BY <1>1, <1>2 DEF InternalInterrupt, Proceeds, WellFormed
<1>4. ~OperateDies(h)
  BY <1>2 DEF OperateDies, Dies, hartVars
<1>5. ~AccessFault(h) /\ ~PageFault(h) /\ ~Ecall(h) /\ ~Ebreak(h) /\ ~Illegal(h)
  BY <1>3 DEF AccessFault, PageFault, Ecall, Ebreak, Illegal, Traps, CallbackTraps
<1>6. \/ Operate(h) \/ LoadUpper(h) \/ Jump(h) \/ Branch(h) \/ Load(h) \/ Store(h)
      \/ Fence(h)
  BY <1>4, <1>5 DEF Execute
<1>7. /\ Operate(h) => At(h, DOMAIN ImmOperator \cup DOMAIN RegOperator) /\ mem' = mem
      /\ LoadUpper(h) => At(h, {"lui", "auipc"}) /\ mem' = mem
      /\ Jump(h) => At(h, {"jal", "jalr"}) /\ mem' = mem
      /\ Branch(h) => At(h, DOMAIN BranchOperator) /\ mem' = mem
      /\ Load(h) => At(h, DOMAIN LoadSize) /\ mem' = mem
      /\ Store(h) => At(h, DOMAIN StoreSize)
      /\ Fence(h) => At(h, {"fence"}) /\ mem' = mem
  BY DEF Operate, LoadUpper, Jump, Branch, Load, Store, Fence
<1> QED
  BY <1>6, <1>7 DEF At, ImmOperator, RegOperator, BranchOperator, LoadSize, StoreSize

LEMMA BranchEffect ==
  ASSUME TypeOK, NEW h \in Harts, Started(h), Branch(h)
  PROVE  pc'[h] = Wrap(pc[h] + IF TakenAsManual(BranchOperator[Inst(h).op],
                                                Rs1(h), Rs2(h))
                               THEN Inst(h).imm ELSE 4)
<1> DEFINE op == BranchOperator[Inst(h).op]
<1>1. Inst(h).op \in DOMAIN BranchOperator /\ Inst(h).op # "jalr"
  BY DEF Branch, At, BranchOperator
<1>2. op \in BranchOps /\ Rs1(h) \in Word /\ Rs2(h) \in Word
  BY <1>1, InstructionOperators, Operands
<1>3. IF Taken(op, Rs1(h), Rs2(h)) THEN JumpToAddr(h, Target(h)) ELSE IncPc(h, 4)
  BY DEF Branch
<1> HIDE DEF op
<1>4. Taken(op, Rs1(h), Rs2(h)) <=> TakenAsManual(op, Rs1(h), Rs2(h))
  BY <1>2, BranchesAsManual
<1>5. Target(h) = Wrap(pc[h] + Inst(h).imm) /\ Target(h) \in Word /\ Target(h) % 2 = 0
  BY <1>1, TargetType DEF Target
<1>6. CASE TakenAsManual(op, Rs1(h), Rs2(h))
  <2>1. pc'[h] = Target(h)
    BY <1>3, <1>4, <1>5, <1>6, JumpToAddrType
  <2> QED
    BY <1>5, <1>6, <2>1 DEF op
<1>7. CASE ~TakenAsManual(op, Rs1(h), Rs2(h))
  <2>1. pc'[h] = Wrap(pc[h] + 4)
    BY <1>3, <1>4, <1>7, IncPcType
  <2> QED
    BY <1>7, <2>1 DEF op
<1> QED
  BY <1>6, <1>7

(***************************************************************************)
(* Whatever the program, the registers and the other harts do, an ALU      *)
(* instruction or a branch that retires (operate_branch, operate_imm,      *)
(* operate_reg, operate_imm_shift: hart.hpp:43-143) has the effect of the  *)
(* RISC-V manual, but for the deviations named in Operators, and x0 is     *)
(* zero afterwards (integer_register.hpp:65-84).                           *)
(***************************************************************************)
THEOREM ResultsTheorem == Spec => ResultsAsManual
<1> DEFINE Right(h) ==
      /\ x'[h][0] = 0
      /\ At(h, DOMAIN ImmOperator \cup DOMAIN RegOperator) =>
           LET op == Operator(Inst(h).op)
           IN \/ Inst(h).rd = 0
              \/ Deviates(op, Rs1(h), SecondOperand(h))
              \/ AsManual(op, Rs1(h), SecondOperand(h), x'[h][Inst(h).rd])
      /\ At(h, DOMAIN BranchOperator) =>
           pc'[h] = Wrap(pc[h] + IF TakenAsManual(BranchOperator[Inst(h).op],
                                                  Rs1(h), Rs2(h))
                                 THEN Inst(h).imm ELSE 4)
<1>1. ASSUME HartInv, [Next]_vars
      PROVE  [\A h \in Harts : Retiring(h) => Right(h)]_vars
  <2> SUFFICES ASSUME Next, NEW h \in Harts, Retiring(h)
               PROVE  Right(h)
    BY <1>1
  <2>1. TypeOK /\ Started(h) /\ Execute(h)
    BY <1>1, RetiringExecutes DEF HartInv
  <2>2. x'[h][0] = 0
    BY <1>1, <2>1, ExecuteKeeps DEF Keeps, Started
  <2>3. /\ At(h, DOMAIN ImmOperator \cup DOMAIN RegOperator) => Operate(h)
        /\ At(h, DOMAIN BranchOperator) => Branch(h)
    BY <1>1, <2>1, RetiringKind
  <2>4. Operate(h) =>
          LET op == Operator(Inst(h).op)
          IN \/ Inst(h).rd = 0
             \/ Deviates(op, Rs1(h), SecondOperand(h))
             \/ AsManual(op, Rs1(h), SecondOperand(h), x'[h][Inst(h).rd])
    BY <2>1, OperateEffect
  <2>5. Branch(h) => pc'[h] = Wrap(pc[h] + IF TakenAsManual(BranchOperator[Inst(h).op],
                                                            Rs1(h), Rs2(h))
                                           THEN Inst(h).imm ELSE 4)
    BY <2>1, BranchEffect
  <2> QED
    BY <2>2, <2>3, <2>4, <2>5
<1>2. Spec => []HartInv
  BY HartInvInit, HartInvNext, PTL DEF Spec
<1> QED
  BY <1>1, <1>2, PTL DEF Spec, ResultsAsManual

-----------------------------------------------------------------------------
(***************************************************************************)
(* Accesses to memory.                                                     *)
(***************************************************************************)
\* Bit i of n bytes from a is a bit of the byte it lies in.
LEMMA ValueBits ==
  ASSUME mem \in Memories, NEW a \in Nat, NEW n \in Nat, a + n <= MemorySize,
         NEW i \in 0 .. (n * ByteBits - 1)
  PROVE  Digit(Value(mem, a, n), i) = 1
           <=> Bit(mem[a + (i \div ByteBits)], i % ByteBits)
<1> DEFINE k == i \div ByteBits
           j == i % ByteBits
<1>1. n * ByteBits \in Nat
  BY Places
<1>2. i \in Nat /\ i < n * ByteBits
  BY <1>1
<1>3. k \in Nat /\ j \in 0 .. (ByteBits - 1) /\ k < n
  BY <1>2, PlaceOf, PlaceWithin
<1>4. \A l \in 0 .. (n - 1) : mem[a + l] \in Byte
  BY MemoryBytes
<1>5. Digit(Value(mem, a, n), i) = Digit(mem[a + k], j)
  BY <1>2, <1>4, ValueDigits
<1> HIDE DEF k, j
<1>6. mem[a + k] \in Int /\ j \in Positions
  BY <1>3, <1>4, ByteType, ByteWidths DEF Positions
<1>7. Bit(mem[a + k], j) <=> Digit(mem[a + k], j) = 1
  BY <1>6, BitDigit
<1> QED
  BY <1>5, <1>7 DEF k, j

LEMMA LoadEffect ==
  ASSUME TypeOK, NEW h \in Harts, Started(h), Load(h), Inst(h).rd # 0,
         NEW i \in Positions
  PROVE  Bit(x'[h][Inst(h).rd], i) <=> LoadedBit(h, i)
<1> DEFINE op == Inst(h).op
           a == EffectiveAddress(h)
           n == Size(h)
           p == n * ByteBits
           v == Value(mem, a, n)
           k == IF i < p THEN i ELSE p - 1
<1>1. /\ op \in DOMAIN LoadSize /\ Aligned(h) /\ Address(a) /\ mem \in Memories
      /\ SetX(h, Inst(h).rd, Loaded(op, a))
  BY DEF Load, At, TypeOK, Memories
<1>2. n \in 1 .. 4 /\ a \in Nat /\ a + n <= MemorySize
  BY <1>1, AccessFits DEF Accesses
<1>3. v \in Word /\ v \in Nat /\ v < 2^p /\ Loaded(op, a) \in Word
  BY <1>1, LoadedType, WordType
<1>4. x'[h][Inst(h).rd] = Loaded(op, a)
  <2>1. Inst(h).rd \in Regs
    BY Operands
  <2> QED
    BY <1>1, <1>3, <2>1, SetXType
<1>5. Loaded(op, a) = IF op \in {"lbu", "lhu"} THEN v ELSE Extend(v, n)
  BY <1>1 DEF Loaded, Size, IsLoad
<1>6. op = "lw" => n = 4
  BY DEF Size, IsLoad, LoadSize
<1>7. op \in {"lb", "lh", "lw", "lbu", "lhu"}
  BY <1>1 DEF LoadSize
<1>8. p \in Nat /\ p >= 1 /\ i \in Nat /\ i < XLEN /\ (n = 4 => p = XLEN)
  <2>1. ByteBits \in Nat /\ ByteBits >= 1 /\ XLEN = 4 * ByteBits
    BY ByteWidths
  <2> QED
    BY <1>2, <2>1 DEF Positions
<1>9. LoadedBit(h, i) <=> /\ i < p \/ op \in {"lb", "lh"}
                          /\ Bit(mem[a + (k \div ByteBits)], k % ByteBits)
  <2>1. p \in Int /\ i \in Int
    BY <1>8
  <2>2. i <= p - 1 <=> i < p
    BY <2>1
  <2>3. (IF i > p - 1 THEN p - 1 ELSE i) = k
    BY <2>1
  <2> HIDE DEF k
  <2>4. LoadedBit(h, i) <=>
          LET c == IF i > p - 1 THEN p - 1 ELSE i
          IN /\ i <= p - 1 \/ op \in {"lb", "lh"}
             /\ Bit(mem[a + (c \div ByteBits)], c % ByteBits)
    BY DEF LoadedBit
  <2> QED
    BY <2>2, <2>3, <2>4, Zenon
<1>10. Digit(v, k) = 1 <=> Bit(mem[a + (k \div ByteBits)], k % ByteBits)
  <2>1. k \in 0 .. (p - 1)
    BY <1>8
  <2> HIDE DEF k
  <2> QED
    BY <1>1, <1>2, <2>1, ValueBits
<1>11. CASE op \in {"lbu", "lhu"}
  <2>1. Bit(v, i) <=> Digit(v, i) = 1
    BY <1>3, BitDigit
  <2>2. i >= p => Digit(v, i) = 0
    <3> SUFFICES ASSUME i >= p PROVE Digit(v, i) = 0
      OBVIOUS
    <3> HIDE DEF p, v
    <3>1. 2^p \in Nat /\ 2^i \in Nat /\ 2^p <= 2^i
      BY <1>8, PowerPositive, PowerMonotone
    <3> QED
      BY <1>3, <1>8, <3>1, DigitSmall
  <2> QED
    BY <1>4, <1>5, <1>8, <1>9, <1>10, <1>11, <2>1, <2>2
<1>12. CASE op \notin {"lbu", "lhu"}
  <2>1. Bit(Extend(v, n), i) <=> Digit(v, k) = 1
    <3> HIDE DEF v, n
    <3> QED
      BY <1>2, <1>3, ExtendBits
  <2>2. i < p \/ op \in {"lb", "lh"}
    BY <1>6, <1>7, <1>8, <1>12
  <2> QED
    BY <1>4, <1>5, <1>9, <1>10, <1>12, <2>1, <2>2
<1> QED
  BY <1>11, <1>12

LEMMA StoreEffect ==
  ASSUME TypeOK, NEW h \in Harts, Store(h),
         NEW i \in 0 .. (Size(h) * ByteBits - 1)
  PROVE  Bit(mem'[EffectiveAddress(h) + (i \div ByteBits)], i % ByteBits)
           <=> Bit(Rs2(h), i)
<1> DEFINE a == EffectiveAddress(h)
           n == Size(h)
           v == Rs2(h)
           k == i \div ByteBits
           j == i % ByteBits
<1>1. /\ Inst(h).op \in Accesses /\ Aligned(h) /\ Address(a) /\ mem \in Memories
      /\ mem' = Stored(a, n, v)
  BY DEF Store, At, TypeOK, Memories, Accesses
<1>2. n \in {1, 2, 4} /\ a \in Nat /\ a + n <= MemorySize
  BY <1>1, AccessFits
<1>3. v \in Word /\ v \in Int
  BY Operands, WordInt
<1> HIDE DEF a, n, v
<1>4. i \in Nat /\ i < n * ByteBits /\ i \in Positions
  <2>1. ByteBits \in Nat /\ ByteBits >= 1 /\ XLEN = 4 * ByteBits
    BY ByteWidths
  <2> QED
    BY <1>2, <2>1 DEF Positions, n
<1>5. k \in Nat /\ j \in 0 .. (ByteBits - 1) /\ k < n /\ i = k * ByteBits + j
  BY <1>2, <1>4, PlaceOf, PlaceWithin
<1> HIDE DEF k, j
<1>6. mem'[a + k] = ByteOf(v, k)
  <2>1. a + k \in DOMAIN mem /\ a + k \in Footprint(a, n)
    BY <1>1, <1>2, <1>5, MemorySizes DEF Memories, Footprint
  <2>2. (a + k) - a = k
    BY <1>2, <1>5
  <2>3. mem'[a + k] = ByteOf(v, (a + k) - a)
    BY <1>1, <2>1 DEF Stored
  <2> QED
    BY <2>2, <2>3
<1>7. ByteOf(v, k) \in Int /\ Digit(ByteOf(v, k), j) = Digit(v, i)
  <2>1. ByteOf(v, k) \in Byte /\ Digit(ByteOf(v, k), j) = Digit(v, k * ByteBits + j)
    BY <1>3, <1>5, ByteOfDigits
  <2> QED
    BY <1>5, <2>1, ByteType
<1>8. j \in Positions
  BY <1>5, ByteWidths DEF Positions
<1>9. Bit(ByteOf(v, k), j) <=> Bit(v, i)
  BY <1>3, <1>4, <1>7, <1>8, BitDigit
<1> QED
  BY <1>6, <1>9 DEF a, v, k, j

\* A store leaves every other byte alone, and it retires.
LEMMA StoreFrame ==
  ASSUME HartInv, NEW h \in Harts, Store(h), NEW a \in DOMAIN mem, mem'[a] # mem[a]
  PROVE  /\ Retiring(h) /\ At(h, DOMAIN StoreSize)
         /\ a \in Footprint(EffectiveAddress(h), Size(h))
<1>1. stage[h] = "execute" /\ stage'[h] = "visit"
  BY DEF Store, At, Retires, Proceeds, HartInv, PreciseInv, WellFormed
<1>2. mem'[a] = IF a \in Footprint(EffectiveAddress(h), Size(h))
                THEN ByteOf(Rs2(h), a - EffectiveAddress(h)) ELSE mem[a]
  BY DEF Store, Stored
<1> QED
  BY <1>1, <1>2 DEF Retiring, Store

\* Nothing else writes the memory when the images are in place.
LEMMA OnlyStoresWrite ==
  ASSUME Next, mem' # mem
  PROVE  image # <<>> \/ \E h \in Harts : Store(h)
<1>1. CASE MemoryCopy
  BY <1>1 DEF MemoryCopy
<1>2. CASE \E h \in Harts : Step(h)
  <2>1. PICK h \in Harts : Step(h)
    BY <1>2
  <2>2. ~Visit(h)
    BY DEF Visit, FetchFault, Fetch, FetchHalf, FetchRest, FetchRestFault, FetchDies,
           CallbackTraps, Fetched, Dies
  <2>3. ~TrapHandler(h)
    BY DEF TrapHandler, BreakPointCompressed, BreakPointLong, BreakPointContinues,
           BreakPointAborts, Prints, Exits, Stops, Handled, Dies
  <2>4. Execute(h) => Store(h)
    BY DEF Execute, Operate, OperateDies, LoadUpper, Jump, Branch, AccessFault,
           PageFault, Load, Fence, Ecall, Ebreak, Illegal, Traps, CallbackTraps, Dies
  <2> QED
    BY <2>1, <2>2, <2>3, <2>4 DEF Step
<1>3. CASE Done
  BY <1>3 DEF Done, vars
<1> QED
  BY <1>1, <1>2, <1>3 DEF Next

(***************************************************************************)
(* Loads and stores of every width are exact at every address and for      *)
(* every word width (hart.hpp:58-104): a load returns the bits of the      *)
(* bytes it names, extended by its sign or by zeros, a store writes the    *)
(* low bits of the register, and no step but a store to a byte (or a       *)
(* memory_copy before the harts start) changes it.                         *)
(***************************************************************************)
THEOREM AccessesTheorem == Spec => AccessesExact
<1> DEFINE LoadExact(h) == Retiring(h) /\ At(h, DOMAIN LoadSize) =>
             \/ Inst(h).rd = 0
             \/ \A i \in 0 .. (XLEN - 1) : Bit(x'[h][Inst(h).rd], i) = LoadedBit(h, i)
           StoreExact(h) == Retiring(h) /\ At(h, DOMAIN StoreSize) =>
             \A i \in 0 .. (Size(h) * ByteBits - 1) :
               Bit(mem'[EffectiveAddress(h) + i \div ByteBits], i % ByteBits)
                 = Bit(Rs2(h), i)
           Written(a) == mem'[a] # mem[a] =>
             \/ image # <<>>
             \/ \E h \in Harts : /\ Retiring(h) /\ At(h, DOMAIN StoreSize)
                                 /\ a \in Footprint(EffectiveAddress(h), Size(h))
<1>1. ASSUME HartInv, Next
      PROVE  /\ \A h \in Harts : LoadExact(h)
             /\ \A h \in Harts : StoreExact(h)
             /\ \A a \in DOMAIN mem : Written(a)
  <2>1. ASSUME NEW h \in Harts, Retiring(h)
        PROVE  /\ TypeOK /\ Started(h)
               /\ At(h, DOMAIN LoadSize) => Load(h)
               /\ At(h, DOMAIN StoreSize) => Store(h)
    BY <1>1, <2>1, RetiringExecutes, RetiringKind DEF HartInv
  <2>2. ASSUME NEW h \in Harts
        PROVE  LoadExact(h)
    <3> SUFFICES ASSUME Retiring(h), At(h, DOMAIN LoadSize), Inst(h).rd # 0,
                        NEW i \in 0 .. (XLEN - 1)
                 PROVE  Bit(x'[h][Inst(h).rd], i) = LoadedBit(h, i)
      OBVIOUS
    <3>1. Bit(x'[h][Inst(h).rd], i) <=> LoadedBit(h, i)
      BY <2>1, LoadEffect DEF Positions
    <3>2. LoadedBit(h, i) \in BOOLEAN
      BY Zenon DEF LoadedBit
    <3>3. Bit(x'[h][Inst(h).rd], i) \in BOOLEAN
      BY DEF Bit
    <3> QED
      BY <3>1, <3>2, <3>3
  <2>3. ASSUME NEW h \in Harts
        PROVE  StoreExact(h)
    <3> SUFFICES ASSUME Retiring(h), At(h, DOMAIN StoreSize),
                        NEW i \in 0 .. (Size(h) * ByteBits - 1)
                 PROVE  Bit(mem'[EffectiveAddress(h) + i \div ByteBits], i % ByteBits)
                          = Bit(Rs2(h), i)
      OBVIOUS
    <3>1. Bit(mem'[EffectiveAddress(h) + i \div ByteBits], i % ByteBits)
            <=> Bit(Rs2(h), i)
      BY <2>1, StoreEffect
    <3> QED
      BY <3>1 DEF Bit
  <2>4. ASSUME NEW a \in DOMAIN mem
        PROVE  Written(a)
    <3> SUFFICES ASSUME mem'[a] # mem[a], image = <<>>
                 PROVE  \E h \in Harts :
                          /\ Retiring(h) /\ At(h, DOMAIN StoreSize)
                          /\ a \in Footprint(EffectiveAddress(h), Size(h))
      OBVIOUS
    <3>1. PICK h \in Harts : Store(h)
      BY <1>1, OnlyStoresWrite
    <3> QED
      BY <1>1, <3>1, StoreFrame
  <2> QED
    BY <2>2, <2>3, <2>4
<1>2. ASSUME HartInv, [Next]_vars
      PROVE  [/\ \A h \in Harts : LoadExact(h)
              /\ \A h \in Harts : StoreExact(h)
              /\ \A a \in DOMAIN mem : Written(a)]_vars
  <2> HIDE DEF LoadExact, StoreExact, Written
  <2> QED
    BY <1>1, <1>2
<1>3. Spec => []HartInv
  BY HartInvInit, HartInvNext, PTL DEF Spec
<1> QED
  BY <1>2, <1>3, PTL DEF Spec, AccessesExact

-----------------------------------------------------------------------------
(***************************************************************************)
(* The program of the integration test, at any width from 24 bits on and   *)
(* with any memory it fits in.  Its numbers are small: each is the same as *)
(* a word, signed or not, and no sum or product of them wraps.             *)
(***************************************************************************)
Small == 0 .. (2^23 - 1)

LEMMA SmallWords ==
  ASSUME FactorialBuild, NEW n \in Small
  PROVE  n \in Word /\ n < MostNegative /\ Wrap(n) = n /\ Signed(n) = n
<1>1. 2^23 <= 2^(XLEN - 1) /\ XLEN - 1 \in Nat /\ 2^23 \in Nat
  <2>1. 23 \in Nat /\ XLEN - 1 \in Nat /\ 23 <= XLEN - 1
    BY Widths DEF FactorialBuild
  <2> QED
    BY <2>1, PowerMonotone, PowerPositive, Zenon
<1> DEFINE s == 2^23
<1>2. s \in Nat /\ s <= MostNegative /\ n \in 0 .. (s - 1)
  BY <1>1, Widths DEF Small
<1> HIDE DEF s
<1>3. n \in Nat /\ n < MostNegative /\ n < Modulus
  BY <1>2, Widths
<1>4. n \in Word
  BY <1>3, WordType
<1>5. n = 0 * Modulus + n /\ 0 \in Int /\ n \in Int
  BY <1>3, Widths
<1>6. Wrap(n) = n
  BY <1>4, <1>5, WrapUnique, Zenon
<1> QED
  BY <1>3, <1>4, <1>6, SignedOf

LEMMA FactorialsAre ==
  /\ Fact(0) = 1
  /\ \A n \in 1 .. 10 : Fact(n) = n * Fact(n - 1)
  /\ \A n \in 0 .. 10 : Fact(n) \in Nat /\ Fact(n) >= 1 /\ Fact(n) <= Fact(10)
  /\ Fact(10) \in Small
BY SMT DEF Fact, Factorials, Small

LEMMA OutputIs ==
  /\ Len(FactorialOutput) = 8
  /\ \A i \in 0 .. 3 : /\ FactorialOutput[2 * i + 1] = Fact(7 + i)
                       /\ FactorialOutput[2 * i + 2] = 32
BY SMT DEF Fact, Factorials, FactorialOutput

\* An immediate may be negative: its word, added, gives the true sum.
LEMMA WrapSum ==
  ASSUME FactorialBuild, NEW a \in Int, NEW c \in Int, a + c \in Small
  PROVE  Wrap(a + Wrap(c)) = a + c /\ Wrap(a + c) = a + c
<1> DEFINE q == c \div Modulus
           n == a + c
           w == Wrap(c)
<1>1. w \in Int /\ q \in Int /\ c = q * Modulus + w
  BY WrapOf, WordInt
<1>2. n \in Word /\ Wrap(n) = n
  BY SmallWords, Zenon
<1> DEFINE p == 0 - q
<1> HIDE DEF q, w
<1>3. p \in Int /\ a + w = p * Modulus + n /\ a + w \in Int
  BY <1>1, WordInt
<1> HIDE DEF p, n
<1>4. Wrap(a + w) = n
  BY <1>2, <1>3, WrapUnique
<1> QED
  BY <1>2, <1>4 DEF n, w

\* The encoding of line k is k, an instruction of four bytes.
LEMMA Lines ==
  ASSUME FactorialBuild, NEW k \in 1 .. 38
  PROVE  /\ Decode(k) = FactorialProgram[k] /\ IsLong(k) /\ k \in Half
<1>1. Len(Program) = 38
  BY DEF FactorialProgram, FactorialBuild
<1>2. 38 \in Half
  BY <1>1, HartAssumption
<1>3. 2^(2 * ByteBits) \in Nat
  <2>1. 2 * ByteBits \in Nat
    BY ByteWidths
  <2> QED
    BY <2>1, PowerPositive
<1>4. k \in Half
  BY <1>2, <1>3 DEF Half
<1> QED
  BY <1>1, <1>4 DEF Decode, IsLong, FactorialBuild

\* What the action of an instruction is.
LEMMA LineKind ==
  ASSUME stage[h1] = "execute", Execute(h1)
  PROVE  LET op == Inst(h1).op
         IN /\ op \in {"addi", "slli", "add", "mul"} => Operate(h1)
            /\ op = "auipc" => LoadUpper(h1)
            /\ op \in {"jal", "jalr"} => Jump(h1)
            /\ op = "beq" => Branch(h1)
            /\ op = "lw" => AccessFault(h1) \/ PageFault(h1) \/ Load(h1)
            /\ op = "sw" => AccessFault(h1) \/ PageFault(h1) \/ Store(h1)
            /\ op = "ecall" => Ecall(h1)
<1>1. /\ Operate(h1) => At(h1, DOMAIN ImmOperator \cup DOMAIN RegOperator)
      /\ OperateDies(h1) => At(h1, {"div", "rem"})
      /\ LoadUpper(h1) => At(h1, {"lui", "auipc"})
      /\ Jump(h1) => At(h1, {"jal", "jalr"})
      /\ Branch(h1) => At(h1, DOMAIN BranchOperator)
      /\ AccessFault(h1) => At(h1, Accesses)
      /\ PageFault(h1) => At(h1, Accesses)
      /\ Load(h1) => At(h1, DOMAIN LoadSize)
      /\ Store(h1) => At(h1, DOMAIN StoreSize)
      /\ Fence(h1) => At(h1, {"fence"})
      /\ Ecall(h1) => At(h1, {"ecall"})
      /\ Ebreak(h1) => At(h1, {"ebreak"})
      /\ Illegal(h1) => At(h1, {"illegal"})
  <2>1. OperateDies(h1) => At(h1, {"div", "rem"})
    BY DEF OperateDies, MayDie, Operator, ImmOperator, RegOperator, At
  <2> QED
    BY <2>1 DEF Operate, LoadUpper, Jump, Branch, AccessFault, PageFault, Load, Store, Fence,
         Ecall, Ebreak, Illegal
<1> QED
  BY <1>1 DEF Execute, At, ImmOperator, RegOperator, BranchOperator, LoadSize, StoreSize,
              Accesses

-----------------------------------------------------------------------------
(***************************************************************************)
(* What an instruction of the program does, whose operands and result are  *)
(* small.  One lemma per kind of instruction.                              *)
(***************************************************************************)
Begun == FactorialBuild /\ HartInv /\ stage[h1] = "execute" /\ Execute(h1)

\* The instruction sets register d to v, stores nothing and goes on at a.
Does(a, d, v) ==
  /\ pc'[h1] = a /\ stage'[h1] = "visit"
  /\ x'[h1] = [x[h1] EXCEPT ![d] = v]
  /\ UNCHANGED <<mem, console, died>>

LEMMA BegunTypes ==
  ASSUME Begun
  PROVE  /\ h1 \in Harts /\ pc[h1] \in Int /\ pc \in [Harts -> Word]
         /\ x \in [Harts -> [Regs -> Word]] /\ x[h1] \in [Regs -> Word]
         /\ stage[h1] = "execute" /\ DOMAIN stage = Harts /\ Execute(h1)
         /\ FactorialBuild /\ TypeOK /\ Started(h1) /\ x[h1][0] = 0
         /\ Rs1(h1) \in Int /\ Rs2(h1) \in Int /\ Inst(h1).imm \in Int
         /\ Rs1(h1) \in Word /\ Rs2(h1) \in Word /\ Inst(h1).rd \in Regs
<1>1. FactorialBuild /\ TypeOK /\ h1 \in Harts /\ Started(h1)
  BY DEF Begun, HartInv, FactorialBuild
<1>2. /\ Rs1(h1) \in Word /\ Rs2(h1) \in Word /\ Inst(h1).rd \in Regs
      /\ Inst(h1).imm \in Int
  BY <1>1, Operands
<1> QED
  BY <1>1, <1>2, WordInt DEF Begun, TypeOK, Started

LEMMA IncPcLine ==
  ASSUME Begun, pc[h1] + 4 \in Small, IncPc(h1, 4)
  PROVE  pc'[h1] = pc[h1] + 4
<1>1. pc' = [pc EXCEPT ![h1] = Wrap(pc[h1] + 4)]
  BY DEF IncPc, JumpToAddr
<1>2. Wrap(pc[h1] + 4) = pc[h1] + 4
  BY BegunTypes, WrapSum
<1> QED
  BY <1>1, <1>2, BegunTypes

LEMMA OperateLine ==
  ASSUME Begun, pc[h1] + 4 \in Small, Operate(h1), Inst(h1).rd # 0, NEW v,
         Results(Operator(Inst(h1).op), Rs1(h1), SecondOperand(h1)) = {v}
  PROVE  Does(pc[h1] + 4, Inst(h1).rd, v)
<1> DEFINE d == Inst(h1).rd
<1>1. SetX(h1, d, v)
  BY DEF Operate
<1>2. x' = [x EXCEPT ![h1][d] = v]
  BY <1>1 DEF SetX
<1>3. x'[h1] = [x[h1] EXCEPT ![d] = v]
  BY <1>2, BegunTypes
<1>4. pc'[h1] = pc[h1] + 4
  BY IncPcLine DEF Operate
<1>5. stage'[h1] = "visit" /\ UNCHANGED <<mem, console, died>>
  BY BegunTypes DEF Operate, Retires, Proceeds
<1> QED
  BY <1>3, <1>4, <1>5 DEF Does

LEMMA AddiLine ==
  ASSUME Begun, pc[h1] + 4 \in Small, Inst(h1).op = "addi", Inst(h1).rd # 0,
         Rs1(h1) + Inst(h1).imm \in Small
  PROVE  Does(pc[h1] + 4, Inst(h1).rd, Rs1(h1) + Inst(h1).imm)
<1> DEFINE v == Rs1(h1) + Inst(h1).imm
<1>1. Operate(h1)
  BY BegunTypes, LineKind
<1>2. Operator(Inst(h1).op) = "ADD" /\ SecondOperand(h1) = Wrap(Inst(h1).imm)
  BY DEF Operator, ImmOperator, SecondOperand
<1>3. Wrap(Rs1(h1) + SecondOperand(h1)) = v
  BY <1>2, BegunTypes, WrapSum
<1>4. Results(Operator(Inst(h1).op), Rs1(h1), SecondOperand(h1)) = {v}
  BY <1>2, <1>3 DEF Results
<1> HIDE DEF v
<1>5. Does(pc[h1] + 4, Inst(h1).rd, v)
  BY <1>1, <1>4, OperateLine
<1> QED
  BY <1>5 DEF v

LEMMA SlliLine ==
  ASSUME Begun, pc[h1] + 4 \in Small, Inst(h1).op = "slli", Inst(h1).rd # 0,
         Inst(h1).imm = 2, Rs1(h1) * 4 \in Small
  PROVE  Does(pc[h1] + 4, Inst(h1).rd, Rs1(h1) * 4)
<1>1. Operate(h1)
  BY BegunTypes, LineKind
<1>2. Wrap(2) = 2
  <2>1. 2 \in Word
    BY Widths, WordType
  <2>2. 2 = 0 * Modulus + 2
    BY Widths
  <2> QED
    BY <2>1, <2>2, WrapUnique
<1>3. Operator(Inst(h1).op) = "SLL" /\ SecondOperand(h1) = 2
  BY <1>2 DEF Operator, ImmOperator, SecondOperand
<1>4. Amounts(2) = {2}
  BY BegunTypes, Widths DEF Amounts, FactorialBuild
<1>5. ShiftLeft(Rs1(h1), 2) = Rs1(h1) * 4
  <2>1. 2^2 = 4
    OBVIOUS
  <2>2. Wrap(Rs1(h1) * 4) = Rs1(h1) * 4
    BY BegunTypes, SmallWords
  <2> QED
    BY <2>1, <2>2 DEF ShiftLeft
<1>6. Results("SLL", Rs1(h1), 2) = {Rs1(h1) * 4}
  BY <1>4, <1>5 DEF Results
<1> QED
  BY <1>1, <1>3, <1>6, OperateLine

LEMMA AddLine ==
  ASSUME Begun, pc[h1] + 4 \in Small, Inst(h1).op = "add", Inst(h1).rd # 0,
         Rs1(h1) + Rs2(h1) \in Small
  PROVE  Does(pc[h1] + 4, Inst(h1).rd, Rs1(h1) + Rs2(h1))
<1>1. Operate(h1)
  BY BegunTypes, LineKind
<1>2. Operator(Inst(h1).op) = "ADD" /\ SecondOperand(h1) = Rs2(h1)
  BY DEF Operator, ImmOperator, RegOperator, SecondOperand
<1>3. Wrap(Rs1(h1) + Rs2(h1)) = Rs1(h1) + Rs2(h1)
  BY BegunTypes, SmallWords
<1>4. Results("ADD", Rs1(h1), Rs2(h1)) = {Rs1(h1) + Rs2(h1)}
  BY <1>3 DEF Results
<1> QED
  BY <1>1, <1>2, <1>4, OperateLine

LEMMA MulLine ==
  ASSUME Begun, pc[h1] + 4 \in Small, Inst(h1).op = "mul", Inst(h1).rd # 0,
         Rs1(h1) \in Small, Rs2(h1) \in Small, Rs1(h1) * Rs2(h1) \in Small
  PROVE  Does(pc[h1] + 4, Inst(h1).rd, Rs1(h1) * Rs2(h1))
<1>1. Operate(h1)
  BY BegunTypes, LineKind
<1>2. Operator(Inst(h1).op) = "MUL" /\ SecondOperand(h1) = Rs2(h1)
  BY DEF Operator, ImmOperator, RegOperator, SecondOperand
<1> DEFINE v == Rs1(h1) * Rs2(h1)
<1>3. Wrap(v) = v /\ Signed(Rs1(h1)) = Rs1(h1) /\ Signed(Rs2(h1)) = Rs2(h1)
  BY BegunTypes, SmallWords
<1>4. Results("MUL", Rs1(h1), Rs2(h1)) = {v}
  BY <1>3 DEF Results
<1> QED
  BY <1>1, <1>2, <1>4, OperateLine

LEMMA AuipcLine ==
  ASSUME Begun, pc[h1] + 4 \in Small, pc[h1] \in Small, Inst(h1).op = "auipc",
         Inst(h1).rd # 0, Inst(h1).imm = 0
  PROVE  Does(pc[h1] + 4, Inst(h1).rd, pc[h1])
<1>1. LoadUpper(h1)
  BY BegunTypes, LineKind
<1>2. Wrap(0 + pc[h1]) = pc[h1]
  BY BegunTypes, SmallWords
<1>3. x' = [x EXCEPT ![h1][Inst(h1).rd] = pc[h1]]
  BY <1>1, <1>2 DEF LoadUpper, SetX
<1>4. x'[h1] = [x[h1] EXCEPT ![Inst(h1).rd] = pc[h1]]
  BY <1>3, BegunTypes
<1>5. pc'[h1] = pc[h1] + 4
  BY <1>1, IncPcLine DEF LoadUpper
<1>6. stage'[h1] = "visit" /\ UNCHANGED <<mem, console, died>>
  BY <1>1, BegunTypes DEF LoadUpper, Retires, Proceeds
<1> QED
  BY <1>4, <1>5, <1>6 DEF Does

\* The instruction sets no register, stores nothing and goes on at a.
Goes(a) ==
  /\ pc'[h1] = a /\ stage'[h1] = "visit" /\ x'[h1] = x[h1]
  /\ UNCHANGED <<mem, console, died>>

LEMMA JumpLine ==
  ASSUME Begun, pc[h1] + 4 \in Small, NEW a \in Small, a % 2 = 0,
         \/ Inst(h1).op = "jal" /\ a = pc[h1] + Inst(h1).imm
         \/ Inst(h1).op = "jalr" /\ a = Rs1(h1) + Inst(h1).imm
  PROVE  /\ Inst(h1).rd = 0 => Goes(a)
         /\ Inst(h1).rd # 0 => Does(a, Inst(h1).rd, pc[h1] + 4)
<1>1. Jump(h1)
  BY BegunTypes, LineKind
<1>2. Wrap(a) = a /\ a \in Int
  BY BegunTypes, SmallWords, WordInt
<1>3. Target(h1) = a
  BY <1>2 DEF Target
<1>4. Wrap(pc[h1] + 4) = pc[h1] + 4
  BY BegunTypes, WrapSum
<1>5. /\ pc' = [pc EXCEPT ![h1] = a]
      /\ x' = IF Inst(h1).rd = 0 THEN x ELSE [x EXCEPT ![h1][Inst(h1).rd] = pc[h1] + 4]
  BY <1>1, <1>3, <1>4 DEF Jump, SetX, JumpToAddr
<1>6. stage'[h1] = "visit" /\ UNCHANGED <<mem, console, died>>
  BY <1>1, BegunTypes DEF Jump, Retires, Proceeds
<1> QED
  BY <1>5, <1>6, BegunTypes DEF Does, Goes

LEMMA BeqLine ==
  ASSUME Begun, Inst(h1).op = "beq", NEW a \in Small,
         a = pc[h1] + (IF Rs1(h1) = Rs2(h1) THEN Inst(h1).imm ELSE 4)
  PROVE  Goes(a)
<1>1. Branch(h1)
  BY BegunTypes, LineKind
<1>2. Taken(BranchOperator[Inst(h1).op], Rs1(h1), Rs2(h1)) <=> Rs1(h1) = Rs2(h1)
  <2>1. BranchOperator[Inst(h1).op] = "EQ"
    BY DEF BranchOperator
  <2>2. Taken("EQ", Rs1(h1), Rs2(h1)) <=> Rs1(h1) = Rs2(h1)
    BY DEF Taken
  <2> QED
    BY <2>1, <2>2
<1>3. Wrap(a) = a
  BY BegunTypes, SmallWords
<1>4. pc' = [pc EXCEPT ![h1] = a]
  BY <1>1, <1>2, <1>3 DEF Branch, IncPc, JumpToAddr, Target
<1>5. x' = x /\ stage'[h1] = "visit" /\ UNCHANGED <<mem, console, died>>
  BY <1>1, BegunTypes DEF Branch, Retires, Proceeds
<1> QED
  BY <1>4, <1>5, BegunTypes DEF Goes

-----------------------------------------------------------------------------
(***************************************************************************)
(* A value in memory is determined by its bytes, and a word by the digits  *)
(* of its bytes.                                                           *)
(***************************************************************************)
\* The value of n bytes depends on them only.
LEMMA ValueSame ==
  ASSUME NEW m, NEW p, NEW a, NEW b, NEW n \in Nat,
         \A k \in 0 .. (n - 1) : m[a + k] \in Byte /\ p[b + k] = m[a + k]
  PROVE  Value(p, b, n) = Value(m, a, n)
<1> DEFINE v == Value(m, a, n)
           w == Value(p, b, n)
           s == n * ByteBits
<1>1. \A k \in 0 .. (n - 1) : m[a + k] \in Byte
  OBVIOUS
<1>2. \A k \in 0 .. (n - 1) : p[b + k] \in Byte
  OBVIOUS
<1>3. /\ v \in Nat /\ v < 2^s
      /\ \A i \in Nat : Digit(v, i) = IF i < s
                                      THEN Digit(m[a + (i \div ByteBits)], i % ByteBits)
                                      ELSE 0
  BY <1>1, ValueDigits, Zenon
<1>4. /\ w \in Nat /\ w < 2^s
      /\ \A i \in Nat : Digit(w, i) = IF i < s
                                      THEN Digit(p[b + (i \div ByteBits)], i % ByteBits)
                                      ELSE 0
  BY <1>2, ValueDigits, Zenon
<1>5. s \in Nat /\ 2^s \in Nat
  <2>1. s \in Nat
    BY Places
  <2> QED
    BY <2>1, PowerPositive
<1> HIDE DEF v, w, s
<1>6. ASSUME NEW i \in 0 .. (s - 1)
      PROVE  Digit(v, i) = Digit(w, i)
  <2> DEFINE k == i \div ByteBits
  <2>1. i \in Nat /\ i < s
    BY <1>5
  <2>2. k \in Nat /\ k < n
    <3>1. i < n * ByteBits
      BY <2>1 DEF s
    <3>2. i \div ByteBits \in Nat /\ i \div ByteBits < n
      BY <2>1, <3>1, PlaceWithin, PlaceOf, Zenon
    <3> QED
      BY <3>2
  <2>3. k \in 0 .. (n - 1)
    BY <2>2
  <2>4. p[b + k] = m[a + k]
    BY <2>3
  <2> QED
    BY <1>3, <1>4, <2>1, <2>4
<1>7. v \in 0 .. (2^s - 1) /\ w \in 0 .. (2^s - 1)
  BY <1>3, <1>4, <1>5
<1> QED
  BY <1>5, <1>6, <1>7, DigitsDetermine DEF v, w

\* The value of the bytes of a word.
LEMMA ValueOfBytes ==
  ASSUME NEW m, NEW a, NEW v \in Word, \A k \in 0 .. 3 : m[a + k] = ByteOf(v, k)
  PROVE  Value(m, a, 4) = v
<1> DEFINE w == Value(m, a, 4)
           s == 4 * ByteBits
<1>1. v \in Nat /\ v < 2^s /\ v \in Int /\ ByteBits \in Nat /\ ByteBits >= 1
  BY WordType, ByteWidths
<1>2. \A k \in 0 .. 3 : /\ m[a + k] \in Byte
                        /\ \A j \in 0 .. (ByteBits - 1) :
                             Digit(m[a + k], j) = Digit(v, k * ByteBits + j)
  <2> SUFFICES ASSUME NEW k \in 0 .. 3
               PROVE  /\ ByteOf(v, k) \in Byte
                      /\ \A j \in 0 .. (ByteBits - 1) :
                           Digit(ByteOf(v, k), j) = Digit(v, k * ByteBits + j)
    OBVIOUS
  <2>1. k \in Nat
    OBVIOUS
  <2> QED
    BY <1>1, <2>1, ByteOfDigits, Zenon
<1>3. \A k \in 0 .. (4 - 1) : m[a + k] \in Byte
  BY <1>2
<1>4. /\ w \in Nat /\ w < 2^s
      /\ \A i \in Nat : Digit(w, i) = IF i < s
                                      THEN Digit(m[a + (i \div ByteBits)], i % ByteBits)
                                      ELSE 0
  <2>1. 4 \in Nat
    OBVIOUS
  <2> QED
    BY <1>3, <2>1, ValueDigits, Zenon
<1>5. s \in Nat /\ 2^s \in Nat
  BY <1>1, PowerPositive
<1> HIDE DEF w
<1>6. ASSUME NEW i \in 0 .. (s - 1)
      PROVE  Digit(w, i) = Digit(v, i)
  <2> DEFINE k == i \div ByteBits
             j == i % ByteBits
  <2>1. i \in Nat /\ i < s
    BY <1>5
  <2>2. k \in Nat /\ k < 4
    <3>1. 4 \in Nat /\ i < 4 * ByteBits
      BY <2>1 DEF s
    <3>2. i \div ByteBits \in Nat /\ i \div ByteBits < 4
      BY <2>1, <3>1, PlaceWithin, PlaceOf, Zenon
    <3> QED
      BY <3>2
  <2>3. k \in 0 .. 3
    BY <2>2
  <2>4. j \in 0 .. (ByteBits - 1) /\ i = k * ByteBits + j
    BY <2>1, PlaceOf
  <2> HIDE DEF k, j
  <2>5. Digit(m[a + k], j) = Digit(v, i)
    BY <1>2, <2>3, <2>4
  <2> QED
    BY <1>4, <2>1, <2>5 DEF k, j
<1>7. v \in 0 .. (2^s - 1) /\ w \in 0 .. (2^s - 1)
  BY <1>1, <1>4, <1>5
<1> QED
  <2> HIDE DEF s
  <2>1. w = v
    BY <1>5, <1>6, <1>7, DigitsDetermine
  <2> QED
    BY <2>1 DEF w

\* Above a word that fits in its lower half there is nothing.
LEMMA UpperHalf ==
  ASSUME NEW m \in Memories, NEW a \in Nat, a + 4 <= MemorySize, Value(m, a, 4) \in Half
  PROVE  Value(m, a + 2, 2) = 0
<1> DEFINE p == 2 * ByteBits
           v == Value(m, a + 2, 2)
           w == Value(m, a, 4)
<1>1. p \in Nat /\ 2^p \in Nat /\ ByteBits \in Nat /\ ByteBits >= 1
  BY ByteWidths, PowerPositive
<1>2. 2 \in Nat /\ 4 \in Nat /\ a + 2 \in Nat /\ (a + 2) + 2 <= MemorySize
  BY MemorySizes
<1>3. /\ \A k \in 0 .. (2 - 1) : m[(a + 2) + k] \in Byte
      /\ \A k \in 0 .. (4 - 1) : m[a + k] \in Byte
  BY <1>2, MemoryBytes, Zenon
<1>4. /\ v \in Nat /\ v < 2^p
      /\ \A i \in Nat : Digit(v, i) = IF i < p
                                      THEN Digit(m[(a + 2) + (i \div ByteBits)], i % ByteBits)
                                      ELSE 0
  BY <1>2, <1>3, ValueDigits, Zenon
<1>5. \A i \in Nat : Digit(w, i) = IF i < 4 * ByteBits
                                   THEN Digit(m[a + (i \div ByteBits)], i % ByteBits)
                                   ELSE 0
  BY <1>2, <1>3, ValueDigits, Zenon
<1>6. w \in Nat /\ w < 2^p
  BY <1>1 DEF Half
<1> HIDE DEF v, w
<1>7. ASSUME NEW i \in 0 .. (p - 1)
      PROVE  Digit(v, i) = Digit(0, i)
  <2> DEFINE j == p + i
  <2>1. i \in Nat /\ i < p /\ j \in Nat /\ j < 4 * ByteBits
    BY <1>1
  <2>2. j \div ByteBits = 2 + (i \div ByteBits) /\ j % ByteBits = i % ByteBits
    <3>1. (2 * ByteBits + i) \div ByteBits = 2 + (i \div ByteBits)
          /\ (2 * ByteBits + i) % ByteBits = i % ByteBits
      <4>1. i \in Int /\ 2 \in Int
        BY <2>1
      <4> QED
        BY <1>1, <4>1, DivisionOfSum, Zenon
    <3> QED
      BY <3>1
  <2>3. Digit(w, j) = 0
    <3>1. 2^p <= 2^j
      BY <1>1, <2>1, PowerMonotone
    <3>2. w < 2^j /\ 2^j \in Nat
      BY <1>1, <1>6, <2>1, <3>1, PowerPositive
    <3> QED
      BY <1>6, <2>1, <3>2, DigitSmall
  <2>4. a + (2 + (i \div ByteBits)) = (a + 2) + (i \div ByteBits)
    <3>1. i \div ByteBits \in Nat
      BY <2>1, PlaceOf
    <3> QED
      BY <3>1
  <2>5. Digit(w, j) = Digit(v, i)
    <3> HIDE DEF j, p
    <3>1. Digit(w, j) = Digit(m[a + (j \div ByteBits)], j % ByteBits)
      BY <1>5, <2>1
    <3>2. Digit(v, i) = Digit(m[(a + 2) + (i \div ByteBits)], i % ByteBits)
      BY <1>4, <2>1
    <3> QED
      BY <2>2, <2>4, <3>1, <3>2
  <2>6. Digit(0, i) = 0
    BY <2>1, PowerPositive, DigitSmall
  <2> QED
    BY <2>3, <2>5, <2>6
<1>8. v \in 0 .. (2^p - 1) /\ 0 \in 0 .. (2^p - 1)
  BY <1>1, <1>4, PowerPositive
<1> HIDE DEF p
<1>9. v = 0
  BY <1>1, <1>7, <1>8, DigitsDetermine
<1> QED
  BY <1>9 DEF v

-----------------------------------------------------------------------------
(***************************************************************************)
(* Loads, stores and calls of the program, and the fetch of its lines: a   *)
(* build with the C extension puts them together from two halves.          *)
(***************************************************************************)
\* A word is stored at a, and no other word changes.
Writes(a, v) ==
  /\ Value(mem', a, 4) = v
  /\ \A b \in Nat : b % 4 = 0 /\ b + 4 <= MemorySize /\ b # a
       => Value(mem', b, 4) = Value(mem, b, 4)

LEMMA StoreWrites ==
  ASSUME mem \in Memories, NEW a \in Nat, a % 4 = 0, a + 4 <= MemorySize, NEW v \in Word,
         mem' = Stored(a, 4, v)
  PROVE  Writes(a, v)
<1>1. MemorySize \in Nat /\ DOMAIN mem = 0 .. (MemorySize - 1)
  BY MemorySizes DEF Memories
<1>2. \A b \in DOMAIN mem : mem'[b] = IF b \in Footprint(a, 4) THEN ByteOf(v, b - a) ELSE mem[b]
  BY DEF Stored
<1>3. \A j \in 0 .. 3 : mem'[a + j] = ByteOf(v, j)
  <2> TAKE j \in 0 .. 3
  <2>1. a + j \in DOMAIN mem /\ a + j \in Footprint(a, 4) /\ (a + j) - a = j
    BY <1>1 DEF Footprint
  <2> QED
    BY <1>2, <2>1
<1>4. Value(mem', a, 4) = v
  BY <1>3, ValueOfBytes
<1>5. ASSUME NEW b \in Nat, b % 4 = 0, b + 4 <= MemorySize, b # a
      PROVE  Value(mem', b, 4) = Value(mem, b, 4)
  <2>1. b + 4 <= a \/ a + 4 <= b
    BY <1>5
  <2>2. ASSUME NEW j \in 0 .. (4 - 1)
        PROVE  mem[b + j] \in Byte /\ mem'[b + j] = mem[b + j]
    <3>1. b + j \in DOMAIN mem /\ b + j \notin Footprint(a, 4)
      BY <1>1, <1>5, <2>1 DEF Footprint
    <3> QED
      BY <1>2, <3>1 DEF Memories
  <2>3. 4 \in Nat
    OBVIOUS
  <2> QED
    BY <2>2, <2>3, ValueSame
<1> QED
  BY <1>4, <1>5 DEF Writes

LEMMA AddressLine ==
  ASSUME Begun, Inst(h1).op \in {"lw", "sw"}, NEW a \in Nat,
         a = Rs1(h1) + Inst(h1).imm, a % 4 = 0, a + 4 <= 4096
  PROVE  /\ EffectiveAddress(h1) = a /\ Size(h1) = 4 /\ Aligned(h1) /\ Address(a)
         /\ a + 4 <= MemorySize
<1>1. a \in Small
  BY SMT DEF Small
<1>2. EffectiveAddress(h1) = a
  BY <1>1, BegunTypes, SmallWords DEF EffectiveAddress
<1>3. Size(h1) = 4
  BY DEF Size, IsLoad, LoadSize, StoreSize
<1>4. a + 4 <= MemorySize /\ a < MemorySize
  BY BegunTypes, MemorySizes DEF FactorialBuild
<1> QED
  BY <1>2, <1>3, <1>4 DEF Aligned, Address

LEMMA LoadLine ==
  ASSUME Begun, pc[h1] + 4 \in Small, Inst(h1).op = "lw", Inst(h1).rd # 0, NEW a \in Nat,
         a = Rs1(h1) + Inst(h1).imm, a % 4 = 0, a + 4 <= 4096
  PROVE  Does(pc[h1] + 4, Inst(h1).rd, Loaded("lw", a))
<1> DEFINE d == Inst(h1).rd
<1>2. EffectiveAddress(h1) = a /\ Aligned(h1) /\ Address(a)
  BY AddressLine
<1>3. Load(h1)
  <2>1. AccessFault(h1) \/ PageFault(h1) \/ Load(h1)
    BY BegunTypes, LineKind
  <2> QED
    BY <1>2, <2>1 DEF AccessFault, PageFault
<1>4. x' = [x EXCEPT ![h1][d] = Loaded("lw", a)]
  <2>1. SetX(h1, Inst(h1).rd, Loaded(Inst(h1).op, EffectiveAddress(h1)))
    BY <1>3 DEF Load
  <2>2. SetX(h1, d, Loaded("lw", a)) /\ d # 0
    BY <1>2, <2>1
  <2> QED
    BY <2>2 DEF SetX
<1>5. x'[h1] = [x[h1] EXCEPT ![d] = Loaded("lw", a)]
  BY <1>4, BegunTypes
<1>6. pc'[h1] = pc[h1] + 4
  BY <1>3, IncPcLine DEF Load
<1>7. stage'[h1] = "visit" /\ UNCHANGED <<mem, console, died>>
  BY <1>3, BegunTypes DEF Load, Retires, Proceeds
<1> QED
  BY <1>5, <1>6, <1>7 DEF Does

LEMMA LoadSmall ==
  ASSUME FactorialBuild, NEW a, Cell(a) \in Small
  PROVE  Loaded("lw", a) = Cell(a)
<1> DEFINE v == Cell(a)
<1>1. Value(mem, a, 4) = v /\ v \in Small
  BY DEF Cell
<1> HIDE DEF v
<1>2. v < MostNegative
  BY <1>1, SmallWords
<1>3. MostNegative = 2^(4 * ByteBits - 1)
  BY ByteWidths, Widths
<1>4. Extend(v, 4) = v
  BY <1>2, <1>3 DEF Extend
<1>5. Loaded("lw", a) = Extend(Value(mem, a, 4), 4)
  BY DEF Loaded, LoadSize
<1> QED
  BY <1>1, <1>4, <1>5 DEF v

\* The instruction stores v at a.
Puts(a, v) ==
  /\ pc'[h1] = pc[h1] + 4 /\ stage'[h1] = "visit" /\ x'[h1] = x[h1]
  /\ Writes(a, v) /\ UNCHANGED <<console, died>>

LEMMA StoreLine ==
  ASSUME Begun, pc[h1] + 4 \in Small, Inst(h1).op = "sw", NEW a \in Nat,
         a = Rs1(h1) + Inst(h1).imm, a % 4 = 0, a + 4 <= 4096
  PROVE  Puts(a, Rs2(h1))
<1>2. /\ EffectiveAddress(h1) = a /\ Size(h1) = 4 /\ Aligned(h1) /\ Address(a)
      /\ a + 4 <= MemorySize
  BY AddressLine
<1>3. Store(h1)
  <2>1. AccessFault(h1) \/ PageFault(h1) \/ Store(h1)
    BY BegunTypes, LineKind
  <2> QED
    BY <1>2, <2>1 DEF AccessFault, PageFault
<1>4. mem' = Stored(a, 4, Rs2(h1))
  BY <1>2, <1>3 DEF Store
<1>5. mem \in Memories /\ Rs2(h1) \in Word
  BY BegunTypes DEF TypeOK, Memories
<1>6. Writes(a, Rs2(h1))
  BY <1>2, <1>4, <1>5, StoreWrites
<1>7. pc'[h1] = pc[h1] + 4
  BY <1>3, IncPcLine DEF Store
<1>8. stage'[h1] = "visit" /\ x'[h1] = x[h1] /\ UNCHANGED <<console, died>>
  BY <1>3, BegunTypes DEF Store, Retires, Proceeds
<1> QED
  BY <1>6, <1>7, <1>8 DEF Puts

LEMMA EcallLine ==
  ASSUME Begun, Inst(h1).op = "ecall"
  PROVE  /\ stage'[h1] = "trap" /\ scause'[h1] = "U_MODE_ENVIRONMENT_CALL"
         /\ UNCHANGED <<mem, pc, x, console, died>>
<1>2. Ecall(h1)
  BY BegunTypes, LineKind
<1>3. EnvironmentCallCause = "U_MODE_ENVIRONMENT_CALL"
  BY BegunTypes DEF FactorialBuild, EnvironmentCallCause
<1>4. DOMAIN scause = Harts
  BY BegunTypes DEF TypeOK
<1> QED
  BY <1>2, <1>3, <1>4, BegunTypes DEF Ecall, Traps, InternalInterrupt, Proceeds

\* visit() fetches a word that is a line.
LEMMA FetchLine ==
  ASSUME FactorialBuild, HartInv, NEW k \in 1 .. 38, pc[h1] = Pc(k), Cell(Pc(k)) = k, Visit(h1),
         stage[h1] = "half" => ir[h1] = k
  PROVE  /\ stage'[h1] \in {"half", "execute"} /\ ir'[h1] = k
         /\ UNCHANGED <<mem, pc, x, console, died>>
<1> DEFINE a == Pc(k)
<1>1. /\ h1 \in Harts /\ TypeOK /\ mem \in Memories /\ DOMAIN stage = Harts /\ DOMAIN ir = Harts
      /\ MemorySize \in Nat
  BY MemorySizes DEF FactorialBuild, HartInv, TypeOK, Memories
<1>2. a \in Nat /\ a + 4 <= MemorySize /\ a < MemorySize /\ a + 2 < MemorySize
  BY <1>1 DEF Pc, FactorialBuild
<1>3. IsLong(k) /\ k \in Half /\ Value(mem, a, 4) = k
  BY Lines DEF Cell
<1>4. Value(mem, a, 2) = k /\ Value(mem, a + 2, 2) = 0
  BY <1>1, <1>2, <1>3, LowerHalf, UpperHalf
<1>5. WordsAt(mem, a) = {k}
  BY <1>1, <1>2, <1>3, WordsAtType
<1>6. SecondHalf(h1) = a + 2
  <2>1. a + 2 \in Small
    BY SMT DEF Pc, Small
  <2> QED
    BY <2>1, SmallWords DEF SecondHalf
<1> HIDE DEF a
<1>7. pc[h1] = a
  BY DEF a
<1>8. ~FetchFault(h1) /\ ~FetchDies(h1) /\ ~FetchRestFault(h1)
  BY <1>2, <1>6, <1>7, <1>1 DEF FetchFault, FetchDies, FetchRestFault, Address
<1>9. CASE Fetch(h1)
  BY <1>1, <1>5, <1>7, <1>9 DEF Fetch, Fetched, Proceeds
<1>10. CASE FetchHalf(h1)
  BY <1>1, <1>3, <1>4, <1>7, <1>10 DEF FetchHalf, Fetched, Proceeds
<1>11. CASE FetchRest(h1)
  <2>1. 2^(2 * ByteBits) \in Int
    BY ByteWidths, PowerPositive
  <2>2. k + 0 * 2^(2 * ByteBits) = k
    BY <2>1
  <2>3. stage[h1] = "half" /\ ir[h1] = k
    BY <1>11 DEF FetchRest
  <2> QED
    BY <1>1, <1>4, <1>6, <1>11, <2>2, <2>3 DEF FetchRest, Fetched, Proceeds
<1> QED
  BY <1>8, <1>9, <1>10, <1>11 DEF Visit

-----------------------------------------------------------------------------
(***************************************************************************)
(* From a line to the next.  The registers, the stack and the output have  *)
(* to suit the line that comes next; the text and data stay what they are. *)
(***************************************************************************)
\* Line k is executed, in round i.
Running(k, i) ==
  /\ Begun /\ k \in 1 .. 38 /\ i \in 0 .. 4 /\ ir[h1] = k
  /\ AtLine(k, i) /\ Loads(42)

\* ... and line l is next.
Lands(l, j) ==
  /\ stage'[h1] = "visit" /\ died' = died
  /\ l \in 1 .. 38 /\ j \in 0 .. 4 /\ AtLine(l, j)' /\ Loads(42)'

LEMMA SmallNumbers == \A n \in 0 .. 8191 : n \in Small
BY SMT DEF Small

LEMMA RunningFacts ==
  ASSUME NEW k, NEW i, Running(k, i)
  PROVE  /\ Begun /\ FactorialBuild /\ k \in 1 .. 38 /\ i \in 0 .. 4
         /\ Inst(h1) = FactorialProgram[k]
         /\ pc[h1] = Pc(k) /\ pc[h1] \in Small /\ pc[h1] + 4 \in Small
         /\ x[h1] \in [Regs -> Word] /\ x[h1][0] = 0
         /\ 0 \in Regs /\ 1 \in Regs /\ 2 \in Regs /\ 5 \in Regs /\ 6 \in Regs /\ 7 \in Regs
         /\ 10 \in Regs /\ 11 \in Regs /\ 28 \in Regs /\ 29 \in Regs
         /\ \A r \in Regs : x[h1][r] \in Word /\ x[h1][r] \in Int
         /\ Round(k, i) /\ PrintedSo(k, i) /\ Stack(k, i)
         /\ MainRegisters(k, i, x[h1]) /\ FactorialRegisters(k, i, x[h1])
<1>1. Begun /\ k \in 1 .. 38 /\ i \in 0 .. 4 /\ ir[h1] = k /\ AtLine(k, i)
  BY DEF Running
<1>2. FactorialBuild
  BY <1>1, BegunTypes
<1>3. Inst(h1) = FactorialProgram[k]
  BY <1>1, <1>2, Lines DEF Inst
<1>4. FactorialRegs \subseteq Regs
  BY <1>2 DEF FactorialBuild
<1>5. pc[h1] = Pc(k)
  BY <1>1 DEF AtLine
<1>6. pc[h1] \in Small /\ pc[h1] + 4 \in Small
  BY <1>1, <1>5, SMT DEF Pc, Small
<1>7. /\ 0 \in Regs /\ 1 \in Regs /\ 2 \in Regs /\ 5 \in Regs /\ 6 \in Regs /\ 7 \in Regs
      /\ 10 \in Regs /\ 11 \in Regs /\ 28 \in Regs /\ 29 \in Regs
  BY <1>4 DEF FactorialRegs
<1>8. /\ Round(k, i) /\ PrintedSo(k, i) /\ Stack(k, i)
      /\ MainRegisters(k, i, x[h1]) /\ FactorialRegisters(k, i, x[h1])
  BY <1>1 DEF AtLine
<1>9. /\ x[h1] \in [Regs -> Word] /\ x[h1][0] = 0
      /\ \A r \in Regs : x[h1][r] \in Word /\ x[h1][r] \in Int
  BY <1>1, BegunTypes, WordInt
<1> QED
  BY <1>1, <1>2, <1>3, <1>5, <1>6, <1>7, <1>8, <1>9, Zenon

\* What AtLine says of the rest of the state, for registers r.
Suits(l, j, r) ==
  /\ Round(l, j) /\ PrintedSo(l, j) /\ Stack(l, j)
  /\ MainRegisters(l, j, r) /\ FactorialRegisters(l, j, r)

LEMMA UnchangedLands ==
  ASSUME NEW k, NEW i, Running(k, i), NEW l \in 1 .. 38, NEW j \in 0 .. 4,
         pc'[h1] = Pc(l), stage'[h1] = "visit", UNCHANGED <<mem, console, died>>,
         Suits(l, j, x'[h1])
  PROVE  Lands(l, j)
<1>1. mem' = mem /\ console' = console
  OBVIOUS
<1>2. \A a : Cell(a)' = Cell(a)
  BY <1>1 DEF Cell
<1>3. Loads(42)'
  BY <1>2 DEF Running, Loads
<1>4. Stack(l, j)'
  BY <1>2 DEF Stack, Suits
<1>5. PrintedSo(l, j)'
  BY <1>1 DEF PrintedSo, Printed, Suits
<1> QED
  BY <1>1, <1>3, <1>4, <1>5 DEF Suits, Lands, AtLine

\* The registers when d is set to v.
After(d, v) == [x[h1] EXCEPT ![d] = v]

LEMMA NextLands ==
  ASSUME NEW k, NEW i, Running(k, i), NEW l \in 1 .. 38, l = k + 1, NEW d, NEW v,
         Does(pc[h1] + 4, d, v), Suits(l, i, After(d, v))
  PROVE  Lands(l, i)
<1>1. Pc(l) = pc[h1] + 4 /\ i \in 0 .. 4
  BY RunningFacts DEF Pc
<1> QED
  BY <1>1, UnchangedLands DEF Does, After

LEMMA GoesLands ==
  ASSUME NEW k, NEW i, Running(k, i), NEW l \in 1 .. 38, NEW j \in 0 .. 4,
         Goes(Pc(l)), Suits(l, j, x[h1])
  PROVE  Lands(l, j)
BY UnchangedLands DEF Goes

LEMMA AheadOf ==
  \A k \in 1 .. 38 : Ahead(k) = IF k \in 25 .. 27 THEN 1 ELSE IF k \in 28 .. 29 THEN 2 ELSE 0
BY DEF Ahead

LEMMA FactorialNumbers ==
  \A n \in 0 .. 10 : Fact(n) \in Small /\ Fact(n) \in Nat /\ 1 * Fact(n) = Fact(n)
BY SMT DEF Fact, Factorials, Small

\* The instructions that operate on registers.
LEMMA OperateLines ==
  ASSUME NEW i, NEW k \in (1 .. 4) \cup {6, 7, 9} \cup (21 .. 23) \cup {25, 26, 28, 30, 32, 33},
         Running(k, i)
  PROVE  Lands(k + 1, i)
<1>1. ASSUME Running(1, i)
      PROVE  Lands(2, i)
  <2>1. Inst(h1).op = "add" /\ Inst(h1).rd = 5 /\ Rs1(h1) + Rs2(h1) = 0
    <3>1. Inst(h1) = I("add", 5, 0, 0, 0)
      BY <1>1, RunningFacts DEF FactorialProgram
    <3> QED
      BY <1>1, RunningFacts, <3>1
         DEF I, Rs1, Rs2, MainRegisters, FactorialRegisters, Round, Called, Pc
  <2>2. 0 \in Small
    BY <1>1, RunningFacts, SmallNumbers DEF Pc, Round, Called
  <2>3. Does(pc[h1] + 4, 5, 0)
    BY <1>1, <2>1, <2>2, RunningFacts, AddLine
  <2>4. Suits(2, i, After(5, 0))
    BY <1>1, RunningFacts, AheadOf
       DEF After, Suits, Round, PrintedSo, Stack, Called, MainRegisters,
           FactorialRegisters
  <2> QED
    BY <1>1, <2>3, <2>4, NextLands
<1>2. ASSUME Running(2, i)
      PROVE  Lands(3, i)
  <2>1. Inst(h1).op = "addi" /\ Inst(h1).rd = 6 /\ Rs1(h1) + Inst(h1).imm = 4
    <3>1. Inst(h1) = I("addi", 6, 0, 0, 4)
      BY <1>2, RunningFacts DEF FactorialProgram
    <3> QED
      BY <1>2, RunningFacts, <3>1
         DEF I, Rs1, Rs2, MainRegisters, FactorialRegisters, Round, Called, Pc
  <2>2. 4 \in Small
    BY <1>2, RunningFacts, SmallNumbers DEF Pc, Round, Called
  <2>3. Does(pc[h1] + 4, 6, 4)
    BY <1>2, <2>1, <2>2, RunningFacts, AddiLine
  <2>4. Suits(3, i, After(6, 4))
    BY <1>2, RunningFacts, AheadOf
       DEF After, Suits, Round, PrintedSo, Stack, Called, MainRegisters,
           FactorialRegisters
  <2> QED
    BY <1>2, <2>3, <2>4, NextLands
<1>3. ASSUME Running(3, i)
      PROVE  Lands(4, i)
  <2>1. Inst(h1).op = "auipc" /\ Inst(h1).rd = 7 /\ Inst(h1).imm = 0 /\ pc[h1] = Pc(3)
    <3>1. Inst(h1) = I("auipc", 7, 0, 0, 0)
      BY <1>3, RunningFacts DEF FactorialProgram
    <3> QED
      BY <1>3, RunningFacts, <3>1
         DEF I, Rs1, Rs2, MainRegisters, FactorialRegisters, Round, Called, Pc
  <2>2. Pc(3) \in Small
    BY <1>3, RunningFacts, SmallNumbers DEF Pc, Round, Called
  <2>3. Does(pc[h1] + 4, 7, Pc(3))
    BY <1>3, <2>1, <2>2, RunningFacts, AuipcLine
  <2>4. Suits(4, i, After(7, Pc(3)))
    <3>1. Round(4, i) /\ PrintedSo(4, i) /\ Stack(4, i)
      BY <1>3, RunningFacts, AheadOf DEF Round, PrintedSo, Stack, Called
    <3>2. MainRegisters(4, i, After(7, Pc(3)))
      BY <1>3, RunningFacts DEF After, Round, Called, MainRegisters
    <3>3. FactorialRegisters(4, i, After(7, Pc(3)))
      BY <1>3, RunningFacts DEF After, Round, Called, FactorialRegisters
    <3> QED
      BY <3>1, <3>2, <3>3 DEF Suits
  <2> QED
    BY <1>3, <2>3, <2>4, NextLands
<1>4. ASSUME Running(4, i)
      PROVE  Lands(5, i)
  <2>1. Inst(h1).op = "addi" /\ Inst(h1).rd = 7 /\ Rs1(h1) + Inst(h1).imm = 152
    <3>1. Inst(h1) = I("addi", 7, 7, 0, 144)
      BY <1>4, RunningFacts DEF FactorialProgram
    <3> QED
      BY <1>4, RunningFacts, <3>1
         DEF I, Rs1, Rs2, MainRegisters, FactorialRegisters, Round, Called, Pc
  <2>2. 152 \in Small
    BY <1>4, RunningFacts, SmallNumbers DEF Pc, Round, Called
  <2>3. Does(pc[h1] + 4, 7, 152)
    BY <1>4, <2>1, <2>2, RunningFacts, AddiLine
  <2>4. Suits(5, i, After(7, 152))
    BY <1>4, RunningFacts, AheadOf
       DEF After, Suits, Round, PrintedSo, Stack, Called, MainRegisters,
           FactorialRegisters
  <2> QED
    BY <1>4, <2>3, <2>4, NextLands
<1>6. ASSUME Running(6, i)
      PROVE  Lands(7, i)
  <2>1. Inst(h1).op = "slli" /\ Inst(h1).rd = 28 /\ Inst(h1).imm = 2 /\ Rs1(h1) * 4 = 4 * i
    <3>1. Inst(h1) = I("slli", 28, 5, 0, 2)
      BY <1>6, RunningFacts DEF FactorialProgram
    <3> QED
      BY <1>6, RunningFacts, <3>1
         DEF I, Rs1, Rs2, MainRegisters, FactorialRegisters, Round, Called, Pc
  <2>2. 4 * i \in Small
    BY <1>6, RunningFacts, SmallNumbers DEF Pc, Round, Called
  <2>3. Does(pc[h1] + 4, 28, 4 * i)
    BY <1>6, <2>1, <2>2, RunningFacts, SlliLine
  <2>4. Suits(7, i, After(28, 4 * i))
    BY <1>6, RunningFacts, AheadOf
       DEF After, Suits, Round, PrintedSo, Stack, Called, MainRegisters,
           FactorialRegisters
  <2> QED
    BY <1>6, <2>3, <2>4, NextLands
<1>7. ASSUME Running(7, i)
      PROVE  Lands(8, i)
  <2>1. Inst(h1).op = "add" /\ Inst(h1).rd = 29 /\ Rs1(h1) + Rs2(h1) = 152 + 4 * i
    <3>1. Inst(h1) = I("add", 29, 7, 28, 0)
      BY <1>7, RunningFacts DEF FactorialProgram
    <3> QED
      BY <1>7, RunningFacts, <3>1
         DEF I, Rs1, Rs2, MainRegisters, FactorialRegisters, Round, Called, Pc
  <2>2. 152 + 4 * i \in Small
    BY <1>7, RunningFacts, SmallNumbers DEF Pc, Round, Called
  <2>3. Does(pc[h1] + 4, 29, 152 + 4 * i)
    BY <1>7, <2>1, <2>2, RunningFacts, AddLine
  <2>4. Suits(8, i, After(29, 152 + 4 * i))
    BY <1>7, RunningFacts, AheadOf
       DEF After, Suits, Round, PrintedSo, Stack, Called, MainRegisters,
           FactorialRegisters
  <2> QED
    BY <1>7, <2>3, <2>4, NextLands
<1>9. ASSUME Running(9, i)
      PROVE  Lands(10, i)
  <2>1. Inst(h1).op = "addi" /\ Inst(h1).rd = 2 /\ Rs1(h1) + Inst(h1).imm = 4072
    <3>1. Inst(h1) = I("addi", 2, 2, 0, -20)
      BY <1>9, RunningFacts DEF FactorialProgram
    <3> QED
      BY <1>9, RunningFacts, <3>1
         DEF I, Rs1, Rs2, MainRegisters, FactorialRegisters, Round, Called, Pc
  <2>2. 4072 \in Small
    BY <1>9, RunningFacts, SmallNumbers DEF Pc, Round, Called
  <2>3. Does(pc[h1] + 4, 2, 4072)
    BY <1>9, <2>1, <2>2, RunningFacts, AddiLine
  <2>4. Suits(10, i, After(2, 4072))
    BY <1>9, RunningFacts, AheadOf
       DEF After, Suits, Round, PrintedSo, Stack, Called, MainRegisters,
           FactorialRegisters
  <2> QED
    BY <1>9, <2>3, <2>4, NextLands
<1>21. ASSUME Running(21, i)
      PROVE  Lands(22, i)
  <2>1. Inst(h1).op = "addi" /\ Inst(h1).rd = 2 /\ Rs1(h1) + Inst(h1).imm = 4092
    <3>1. Inst(h1) = I("addi", 2, 2, 0, 20)
      BY <1>21, RunningFacts DEF FactorialProgram
    <3> QED
      BY <1>21, RunningFacts, <3>1
         DEF I, Rs1, Rs2, MainRegisters, FactorialRegisters, Round, Called, Pc
  <2>2. 4092 \in Small
    BY <1>21, RunningFacts, SmallNumbers DEF Pc, Round, Called
  <2>3. Does(pc[h1] + 4, 2, 4092)
    BY <1>21, <2>1, <2>2, RunningFacts, AddiLine
  <2>4. Suits(22, i, After(2, 4092))
    BY <1>21, RunningFacts, AheadOf
       DEF After, Suits, Round, PrintedSo, Stack, Called, MainRegisters,
           FactorialRegisters
  <2> QED
    BY <1>21, <2>3, <2>4, NextLands
<1>22. ASSUME Running(22, i)
      PROVE  Lands(23, i)
  <2>1. Inst(h1).op = "addi" /\ Inst(h1).rd = 11 /\ Rs1(h1) + Inst(h1).imm = Fact(7 + i)
    <3>1. Inst(h1) = I("addi", 11, 10, 0, 0)
      BY <1>22, RunningFacts DEF FactorialProgram
    <3> QED
      BY <1>22, RunningFacts, <3>1
         DEF I, Rs1, Rs2, MainRegisters, FactorialRegisters, Round, Called, Pc
  <2>2. Fact(7 + i) \in Small
    BY <1>22, RunningFacts, SmallNumbers, FactorialNumbers DEF Pc, Round, Called
  <2>3. Does(pc[h1] + 4, 11, Fact(7 + i))
    BY <1>22, <2>1, <2>2, RunningFacts, AddiLine
  <2>4. Suits(23, i, After(11, Fact(7 + i)))
    BY <1>22, RunningFacts, AheadOf, FactorialNumbers
       DEF After, Suits, Round, PrintedSo, Stack, Called, MainRegisters,
           FactorialRegisters
  <2> QED
    BY <1>22, <2>3, <2>4, NextLands
<1>23. ASSUME Running(23, i)
      PROVE  Lands(24, i)
  <2>1. Inst(h1).op = "addi" /\ Inst(h1).rd = 10 /\ Rs1(h1) + Inst(h1).imm = 1
    <3>1. Inst(h1) = I("addi", 10, 0, 0, 1)
      BY <1>23, RunningFacts DEF FactorialProgram
    <3> QED
      BY <1>23, RunningFacts, <3>1
         DEF I, Rs1, Rs2, MainRegisters, FactorialRegisters, Round, Called, Pc
  <2>2. 1 \in Small
    BY <1>23, RunningFacts, SmallNumbers DEF Pc, Round, Called
  <2>3. Does(pc[h1] + 4, 10, 1)
    BY <1>23, <2>1, <2>2, RunningFacts, AddiLine
  <2>4. Suits(24, i, After(10, 1))
    BY <1>23, RunningFacts, AheadOf
       DEF After, Suits, Round, PrintedSo, Stack, Called, MainRegisters,
           FactorialRegisters
  <2> QED
    BY <1>23, <2>3, <2>4, NextLands
<1>25. ASSUME Running(25, i)
      PROVE  Lands(26, i)
  <2>1. Inst(h1).op = "addi" /\ Inst(h1).rd = 11 /\ Rs1(h1) + Inst(h1).imm = 32
    <3>1. Inst(h1) = I("addi", 11, 0, 0, 32)
      BY <1>25, RunningFacts DEF FactorialProgram
    <3> QED
      BY <1>25, RunningFacts, <3>1
         DEF I, Rs1, Rs2, MainRegisters, FactorialRegisters, Round, Called, Pc
  <2>2. 32 \in Small
    BY <1>25, RunningFacts, SmallNumbers DEF Pc, Round, Called
  <2>3. Does(pc[h1] + 4, 11, 32)
    BY <1>25, <2>1, <2>2, RunningFacts, AddiLine
  <2>4. Suits(26, i, After(11, 32))
    BY <1>25, RunningFacts, AheadOf
       DEF After, Suits, Round, PrintedSo, Stack, Called, MainRegisters,
           FactorialRegisters
  <2> QED
    BY <1>25, <2>3, <2>4, NextLands
<1>26. ASSUME Running(26, i)
      PROVE  Lands(27, i)
  <2>1. Inst(h1).op = "addi" /\ Inst(h1).rd = 10 /\ Rs1(h1) + Inst(h1).imm = 11
    <3>1. Inst(h1) = I("addi", 10, 0, 0, 11)
      BY <1>26, RunningFacts DEF FactorialProgram
    <3> QED
      BY <1>26, RunningFacts, <3>1
         DEF I, Rs1, Rs2, MainRegisters, FactorialRegisters, Round, Called, Pc
  <2>2. 11 \in Small
    BY <1>26, RunningFacts, SmallNumbers DEF Pc, Round, Called
  <2>3. Does(pc[h1] + 4, 10, 11)
    BY <1>26, <2>1, <2>2, RunningFacts, AddiLine
  <2>4. Suits(27, i, After(10, 11))
    BY <1>26, RunningFacts, AheadOf
       DEF After, Suits, Round, PrintedSo, Stack, Called, MainRegisters,
           FactorialRegisters
  <2> QED
    BY <1>26, <2>3, <2>4, NextLands
<1>28. ASSUME Running(28, i)
      PROVE  Lands(29, i)
  <2>1. Inst(h1).op = "addi" /\ Inst(h1).rd = 5 /\ Rs1(h1) + Inst(h1).imm = i + 1
    <3>1. Inst(h1) = I("addi", 5, 5, 0, 1)
      BY <1>28, RunningFacts DEF FactorialProgram
    <3> QED
      BY <1>28, RunningFacts, <3>1
         DEF I, Rs1, Rs2, MainRegisters, FactorialRegisters, Round, Called, Pc
  <2>2. i + 1 \in Small
    BY <1>28, RunningFacts, SmallNumbers DEF Pc, Round, Called
  <2>3. Does(pc[h1] + 4, 5, i + 1)
    BY <1>28, <2>1, <2>2, RunningFacts, AddiLine
  <2>4. Suits(29, i, After(5, i + 1))
    <3>1. Round(29, i) /\ PrintedSo(29, i) /\ Stack(29, i)
      BY <1>28, RunningFacts, AheadOf DEF Round, PrintedSo, Stack, Called
    <3>2. MainRegisters(29, i, After(5, i + 1))
      BY <1>28, RunningFacts DEF After, Round, Called, MainRegisters
    <3>3. FactorialRegisters(29, i, After(5, i + 1))
      BY <1>28, RunningFacts DEF After, Round, Called, FactorialRegisters
    <3> QED
      BY <3>1, <3>2, <3>3 DEF Suits
  <2> QED
    BY <1>28, <2>3, <2>4, NextLands
<1>30. ASSUME Running(30, i)
      PROVE  Lands(31, i)
  <2>1. Inst(h1).op = "addi" /\ Inst(h1).rd = 10 /\ Rs1(h1) + Inst(h1).imm = 10
    <3>1. Inst(h1) = I("addi", 10, 0, 0, 10)
      BY <1>30, RunningFacts DEF FactorialProgram
    <3> QED
      BY <1>30, RunningFacts, <3>1
         DEF I, Rs1, Rs2, MainRegisters, FactorialRegisters, Round, Called, Pc
  <2>2. 10 \in Small
    BY <1>30, RunningFacts, SmallNumbers DEF Pc, Round, Called
  <2>3. Does(pc[h1] + 4, 10, 10)
    BY <1>30, <2>1, <2>2, RunningFacts, AddiLine
  <2>4. Suits(31, i, After(10, 10))
    BY <1>30, RunningFacts, AheadOf
       DEF After, Suits, Round, PrintedSo, Stack, Called, MainRegisters,
           FactorialRegisters
  <2> QED
    BY <1>30, <2>3, <2>4, NextLands
<1>32. ASSUME Running(32, i)
      PROVE  Lands(33, i)
  <2>1. Inst(h1).op = "addi" /\ Inst(h1).rd = 5 /\ Rs1(h1) + Inst(h1).imm = 7 + i
    <3>1. Inst(h1) = I("addi", 5, 10, 0, 0)
      BY <1>32, RunningFacts DEF FactorialProgram
    <3> QED
      BY <1>32, RunningFacts, <3>1
         DEF I, Rs1, Rs2, MainRegisters, FactorialRegisters, Round, Called, Pc
  <2>2. 7 + i \in Small
    BY <1>32, RunningFacts, SmallNumbers DEF Pc, Round, Called
  <2>3. Does(pc[h1] + 4, 5, 7 + i)
    BY <1>32, <2>1, <2>2, RunningFacts, AddiLine
  <2>4. Suits(33, i, After(5, 7 + i))
    BY <1>32, RunningFacts, AheadOf
       DEF After, Suits, Round, PrintedSo, Stack, Called, MainRegisters,
           FactorialRegisters
  <2> QED
    BY <1>32, <2>3, <2>4, NextLands
<1>33. ASSUME Running(33, i)
      PROVE  Lands(34, i)
  <2>1. Inst(h1).op = "addi" /\ Inst(h1).rd = 10 /\ Rs1(h1) + Inst(h1).imm = 1
    <3>1. Inst(h1) = I("addi", 10, 0, 0, 1)
      BY <1>33, RunningFacts DEF FactorialProgram
    <3> QED
      BY <1>33, RunningFacts, <3>1
         DEF I, Rs1, Rs2, MainRegisters, FactorialRegisters, Round, Called, Pc
  <2>2. 1 \in Small
    BY <1>33, RunningFacts, SmallNumbers, FactorialNumbers DEF Pc, Round, Called
  <2>3. Does(pc[h1] + 4, 10, 1)
    BY <1>33, <2>1, <2>2, RunningFacts, AddiLine
  <2>4. Suits(34, i, After(10, 1))
    BY <1>33, RunningFacts, AheadOf, FactorialNumbers
       DEF After, Suits, Round, PrintedSo, Stack, Called, MainRegisters,
           FactorialRegisters
  <2> QED
    BY <1>33, <2>3, <2>4, NextLands
<1> QED
  BY <1>1, <1>2, <1>3, <1>4, <1>6, <1>7, <1>9, <1>21, <1>22,
     <1>23, <1>25, <1>26, <1>28, <1>30, <1>32, <1>33

LEMMA ImageWords ==
  /\ \A j \in 1 .. 38 : (FactorialText \o FactorialData)[j] = j
  /\ \A i \in 0 .. 3 : (FactorialText \o FactorialData)[39 + i] = 7 + i
BY DEF FactorialText, FactorialData

LEMMA LoadsLands ==
  ASSUME NEW k, NEW i, Running(k, i), NEW l \in 1 .. 38, l = k + 1, Inst(h1).op = "lw",
         Inst(h1).rd # 0, NEW a \in Nat, a = Rs1(h1) + Inst(h1).imm, a % 4 = 0, a + 4 <= 4096,
         Suits(l, i, After(Inst(h1).rd, Loaded("lw", a)))
  PROVE  Lands(l, i)
<1>1. Does(pc[h1] + 4, Inst(h1).rd, Loaded("lw", a))
  BY RunningFacts, LoadLine
<1> QED
  BY <1>1, NextLands

\* The words of the data and of the stack are loaded.
LEMMA LoadLines ==
  ASSUME NEW i, NEW k \in {8} \cup (16 .. 20), Running(k, i)
  PROVE  Lands(k + 1, i)
<1>8. ASSUME Running(8, i)
      PROVE  Lands(9, i)
  <2> DEFINE a == 152 + 4 * i
  <2>1. i \in 0 .. 3
    BY <1>8, RunningFacts DEF Round
  <2>2. Inst(h1).op = "lw" /\ Inst(h1).rd = 10 /\ Rs1(h1) + Inst(h1).imm = a
    <3>1. Inst(h1) = I("lw", 10, 29, 0, 0)
      BY <1>8, RunningFacts DEF FactorialProgram
    <3>2. x[h1][29] = a
      BY <1>8, RunningFacts DEF Called, MainRegisters
    <3> QED
      BY <2>1, <3>1, <3>2 DEF I, Rs1
  <2>3. Cell(a) = 7 + i
    <3>1. Loads(42) /\ 39 + i \in 1 .. 42 /\ Pc(39 + i) = a
      BY <1>8, <2>1 DEF Running, Pc
    <3> QED
      BY <2>1, <3>1, ImageWords DEF Loads
  <2>4. Loaded("lw", a) = 7 + i
    BY <1>8, <2>1, <2>3, RunningFacts, SmallNumbers, LoadSmall
  <2>5. Suits(9, i, After(10, 7 + i))
    BY <1>8, RunningFacts, AheadOf
       DEF After, Suits, Round, PrintedSo, Stack, Called, MainRegisters,
           FactorialRegisters
  <2>6. a \in Nat /\ a % 4 = 0 /\ a + 4 <= 4096
    BY <2>1
  <2> QED
    BY <1>8, <2>2, <2>4, <2>5, <2>6, LoadsLands
<1>16. ASSUME Running(16, i)
      PROVE  Lands(17, i)
  <2>1. Inst(h1).op = "lw" /\ Inst(h1).rd = 5 /\ Rs1(h1) + Inst(h1).imm = 4072
    <3>1. Inst(h1) = I("lw", 5, 2, 0, 0)
      BY <1>16, RunningFacts DEF FactorialProgram
    <3>2. x[h1][2] = 4072
      BY <1>16, RunningFacts DEF Called, MainRegisters
    <3> QED
      BY <3>1, <3>2 DEF I, Rs1
  <2>2. Cell(4072) = i
    BY <1>16, RunningFacts DEF Stack
  <2>3. Loaded("lw", 4072) = i
    BY <1>16, <2>2, RunningFacts, SmallNumbers, LoadSmall
  <2>4. Suits(17, i, After(5, i))
    BY <1>16, RunningFacts, AheadOf
       DEF After, Suits, Round, PrintedSo, Stack, Called, MainRegisters,
           FactorialRegisters
  <2> QED
    BY <1>16, <2>1, <2>3, <2>4, LoadsLands
<1>17. ASSUME Running(17, i)
      PROVE  Lands(18, i)
  <2>1. Inst(h1).op = "lw" /\ Inst(h1).rd = 6 /\ Rs1(h1) + Inst(h1).imm = 4076
    <3>1. Inst(h1) = I("lw", 6, 2, 0, 4)
      BY <1>17, RunningFacts DEF FactorialProgram
    <3>2. x[h1][2] = 4072
      BY <1>17, RunningFacts DEF Called, MainRegisters
    <3> QED
      BY <3>1, <3>2 DEF I, Rs1
  <2>2. Cell(4076) = 4
    BY <1>17, RunningFacts DEF Stack
  <2>3. Loaded("lw", 4076) = 4
    BY <1>17, <2>2, RunningFacts, SmallNumbers, LoadSmall
  <2>4. Suits(18, i, After(6, 4))
    BY <1>17, RunningFacts, AheadOf
       DEF After, Suits, Round, PrintedSo, Stack, Called, MainRegisters,
           FactorialRegisters
  <2> QED
    BY <1>17, <2>1, <2>3, <2>4, LoadsLands
<1>18. ASSUME Running(18, i)
      PROVE  Lands(19, i)
  <2>1. Inst(h1).op = "lw" /\ Inst(h1).rd = 7 /\ Rs1(h1) + Inst(h1).imm = 4080
    <3>1. Inst(h1) = I("lw", 7, 2, 0, 8)
      BY <1>18, RunningFacts DEF FactorialProgram
    <3> QED
      BY <1>18, RunningFacts, <3>1 DEF I, Rs1, MainRegisters
  <2>2. Cell(4080) = 152
    BY <1>18, RunningFacts DEF Stack
  <2>3. Loaded("lw", 4080) = 152
    BY <1>18, <2>2, RunningFacts, SmallNumbers, LoadSmall
  <2>4. Suits(19, i, After(7, 152))
    BY <1>18, RunningFacts, AheadOf
       DEF After, Suits, Round, PrintedSo, Stack, Called, MainRegisters,
           FactorialRegisters
  <2> QED
    BY <1>18, <2>1, <2>3, <2>4, LoadsLands
<1>19. ASSUME Running(19, i)
      PROVE  Lands(20, i)
  <2>1. Inst(h1).op = "lw" /\ Inst(h1).rd = 28 /\ Rs1(h1) + Inst(h1).imm = 4084
    <3>1. Inst(h1) = I("lw", 28, 2, 0, 12)
      BY <1>19, RunningFacts DEF FactorialProgram
    <3> QED
      BY <1>19, RunningFacts, <3>1 DEF I, Rs1, MainRegisters
  <2> DEFINE v == Loaded("lw", 4084)
  <2> HIDE DEF v
  <2>2. Suits(20, i, After(28, v))
    BY <1>19, RunningFacts, AheadOf
       DEF After, Suits, Round, PrintedSo, Stack, Called, MainRegisters,
           FactorialRegisters
  <2> QED
    BY <1>19, <2>1, <2>2, LoadsLands DEF v
<1>20. ASSUME Running(20, i)
      PROVE  Lands(21, i)
  <2>1. Inst(h1).op = "lw" /\ Inst(h1).rd = 29 /\ Rs1(h1) + Inst(h1).imm = 4088
    <3>1. Inst(h1) = I("lw", 29, 2, 0, 16)
      BY <1>20, RunningFacts DEF FactorialProgram
    <3> QED
      BY <1>20, RunningFacts, <3>1 DEF I, Rs1, MainRegisters
  <2> DEFINE v == Loaded("lw", 4088)
  <2> HIDE DEF v
  <2>2. Suits(21, i, After(29, v))
    BY <1>20, RunningFacts, AheadOf
       DEF After, Suits, Round, PrintedSo, Stack, Called, MainRegisters,
           FactorialRegisters
  <2> QED
    BY <1>20, <2>1, <2>2, LoadsLands DEF v
<1> QED
  BY <1>8, <1>16, <1>17, <1>18, <1>19, <1>20

\* Words that keep their values stay loaded.
LEMMA LoadsKept ==
  ASSUME NEW n, Loads(n), \A j \in 1 .. n : Value(mem', Pc(j), 4) = Value(mem, Pc(j), 4)
  PROVE  Loads(n)'
BY Zenon DEF Loads, Cell

\* A word of the stack is stored.
LEMMA PutsLands ==
  ASSUME NEW k, NEW i, Running(k, i), NEW l \in 1 .. 38, l = k + 1, Inst(h1).op = "sw",
         NEW a \in 4072 .. 4092, a = Rs1(h1) + Inst(h1).imm, a % 4 = 0,
         Round(l, i), PrintedSo(l, i), MainRegisters(l, i, x[h1]),
         FactorialRegisters(l, i, x[h1]),
         Cell(a)' = Rs2(h1) /\ (\A b \in {4072, 4076, 4080} \ {a} : Cell(b)' = Cell(b))
           => Stack(l, i)'
  PROVE  Lands(l, i)
<1>1. Puts(a, Rs2(h1))
  BY RunningFacts, StoreLine
<1>2. MemorySize \in Nat /\ MemorySize >= 4096
  BY RunningFacts, MemorySizes DEF FactorialBuild
<1>3. \A b \in Nat : b % 4 = 0 /\ b + 4 <= 4096 /\ b # a => Cell(b)' = Cell(b)
  BY <1>1, <1>2 DEF Puts, Writes, Cell
<1>4. Stack(l, i)'
  BY <1>1, <1>3 DEF Puts, Writes, Cell
<1>5. Loads(42)'
  <2>1. Loads(42)
    BY DEF Running
  <2>2. ASSUME NEW j \in 1 .. 42
        PROVE  Value(mem', Pc(j), 4) = Value(mem, Pc(j), 4)
    <3>1. Pc(j) \in Nat /\ Pc(j) % 4 = 0 /\ Pc(j) + 4 <= 4096 /\ Pc(j) # a
      BY DEF Pc
    <3> QED
      BY <1>3, <3>1 DEF Cell
  <2> QED
    BY <2>1, <2>2, LoadsKept
<1>6. PrintedSo(l, i)'
  BY <1>1 DEF Puts, PrintedSo, Printed
<1>7. pc'[h1] = Pc(l) /\ stage'[h1] = "visit" /\ x'[h1] = x[h1] /\ died' = died
  BY <1>1, RunningFacts DEF Puts, Pc
<1> QED
  BY <1>4, <1>5, <1>6, <1>7, RunningFacts DEF Lands, AtLine

LEMMA StoreLines ==
  ASSUME NEW i, NEW k \in 10 .. 14, Running(k, i)
  PROVE  Lands(k + 1, i)
<1>10. ASSUME Running(10, i)
      PROVE  Lands(11, i)
  <2>1. Inst(h1).op = "sw" /\ Rs1(h1) + Inst(h1).imm = 4072 /\ Rs2(h1) = i
    <3>1. Inst(h1) = I("sw", 0, 2, 5, 0)
      BY <1>10, RunningFacts DEF FactorialProgram
    <3> QED
      BY <1>10, RunningFacts, <3>1 DEF I, Rs1, Rs2, MainRegisters
  <2>2. /\ Round(11, i) /\ PrintedSo(11, i)
        /\ MainRegisters(11, i, x[h1]) /\ FactorialRegisters(11, i, x[h1])
    BY <1>10, RunningFacts, AheadOf
       DEF Round, PrintedSo, Called, MainRegisters, FactorialRegisters
  <2>3. Cell(4072)' = Rs2(h1) /\ (\A b \in {4072, 4076, 4080} \ {4072} : Cell(b)' = Cell(b))
          => Stack(11, i)'
    BY <1>10, <2>1, RunningFacts DEF Stack, Called
  <2> QED
    BY <1>10, <2>1, <2>2, <2>3, PutsLands
<1>11. ASSUME Running(11, i)
      PROVE  Lands(12, i)
  <2>1. Inst(h1).op = "sw" /\ Rs1(h1) + Inst(h1).imm = 4076 /\ Rs2(h1) = 4
    <3>1. Inst(h1) = I("sw", 0, 2, 6, 4)
      BY <1>11, RunningFacts DEF FactorialProgram
    <3> QED
      BY <1>11, RunningFacts, <3>1 DEF I, Rs1, Rs2, MainRegisters
  <2>2. /\ Round(12, i) /\ PrintedSo(12, i)
        /\ MainRegisters(12, i, x[h1]) /\ FactorialRegisters(12, i, x[h1])
    BY <1>11, RunningFacts, AheadOf
       DEF Round, PrintedSo, Called, MainRegisters, FactorialRegisters
  <2>3. Cell(4076)' = Rs2(h1) /\ (\A b \in {4072, 4076, 4080} \ {4076} : Cell(b)' = Cell(b))
          => Stack(12, i)'
    BY <1>11, <2>1, RunningFacts DEF Stack, Called
  <2> QED
    BY <1>11, <2>1, <2>2, <2>3, PutsLands
<1>12. ASSUME Running(12, i)
      PROVE  Lands(13, i)
  <2>1. Inst(h1).op = "sw" /\ Rs1(h1) + Inst(h1).imm = 4080 /\ Rs2(h1) = 152
    <3>1. Inst(h1) = I("sw", 0, 2, 7, 8)
      BY <1>12, RunningFacts DEF FactorialProgram
    <3> QED
      BY <1>12, RunningFacts, <3>1 DEF I, Rs1, Rs2, MainRegisters
  <2>2. /\ Round(13, i) /\ PrintedSo(13, i)
        /\ MainRegisters(13, i, x[h1]) /\ FactorialRegisters(13, i, x[h1])
    BY <1>12, RunningFacts, AheadOf
       DEF Round, PrintedSo, Called, MainRegisters, FactorialRegisters
  <2>3. Cell(4080)' = Rs2(h1) /\ (\A b \in {4072, 4076, 4080} \ {4080} : Cell(b)' = Cell(b))
          => Stack(13, i)'
    BY <1>12, <2>1, RunningFacts DEF Stack, Called
  <2> QED
    BY <1>12, <2>1, <2>2, <2>3, PutsLands
<1>13. ASSUME Running(13, i)
      PROVE  Lands(14, i)
  <2>1. Inst(h1).op = "sw" /\ Rs1(h1) + Inst(h1).imm = 4084
    <3>1. Inst(h1) = I("sw", 0, 2, 28, 12)
      BY <1>13, RunningFacts DEF FactorialProgram
    <3> QED
      BY <1>13, RunningFacts, <3>1 DEF I, Rs1, Rs2, MainRegisters
  <2>2. /\ Round(14, i) /\ PrintedSo(14, i)
        /\ MainRegisters(14, i, x[h1]) /\ FactorialRegisters(14, i, x[h1])
    BY <1>13, RunningFacts, AheadOf
       DEF Round, PrintedSo, Called, MainRegisters, FactorialRegisters
  <2>3. Cell(4084)' = Rs2(h1) /\ (\A b \in {4072, 4076, 4080} \ {4084} : Cell(b)' = Cell(b))
          => Stack(14, i)'
    BY <1>13, <2>1, RunningFacts DEF Stack, Called
  <2> QED
    BY <1>13, <2>1, <2>2, <2>3, PutsLands
<1>14. ASSUME Running(14, i)
      PROVE  Lands(15, i)
  <2>1. Inst(h1).op = "sw" /\ Rs1(h1) + Inst(h1).imm = 4088
    <3>1. Inst(h1) = I("sw", 0, 2, 29, 16)
      BY <1>14, RunningFacts DEF FactorialProgram
    <3> QED
      BY <1>14, RunningFacts, <3>1 DEF I, Rs1, Rs2, MainRegisters
  <2>2. /\ Round(15, i) /\ PrintedSo(15, i)
        /\ MainRegisters(15, i, x[h1]) /\ FactorialRegisters(15, i, x[h1])
    BY <1>14, RunningFacts, AheadOf
       DEF Round, PrintedSo, Called, MainRegisters, FactorialRegisters
  <2>3. Cell(4088)' = Rs2(h1) /\ (\A b \in {4072, 4076, 4080} \ {4088} : Cell(b)' = Cell(b))
          => Stack(15, i)'
    BY <1>14, <2>1, RunningFacts DEF Stack, Called
  <2> QED
    BY <1>14, <2>1, <2>2, <2>3, PutsLands
<1> QED
  BY <1>10, <1>11, <1>12, <1>13, <1>14

\* A factor of a positive product is no larger than the product.
LEMMA Products ==
  ASSUME NEW a \in Nat, NEW b \in Nat, b >= 1
  PROVE  a <= a * b
<1>1. a * b = a + a * (b - 1) /\ a * (b - 1) \in Nat
  OBVIOUS
<1> QED
  BY <1>1

\* The jumps and branches of main().
LEMMA MainJumps ==
  ASSUME NEW i, NEW k \in {5, 15, 29}, Running(k, i)
  PROVE  \E l, j : Lands(l, j)
<1>1. ASSUME Running(5, i)
      PROVE  \E l, j : Lands(l, j)
  <2>1. Inst(h1).op = "beq" /\ Inst(h1).imm = 100 /\ Rs1(h1) = i /\ Rs2(h1) = 4 /\ i \in 0 .. 4
        /\ pc[h1] = Pc(5)
    <3>1. Inst(h1) = I("beq", 0, 5, 6, 100)
      BY <1>1, RunningFacts DEF FactorialProgram
    <3> QED
      BY <1>1, RunningFacts, <3>1 DEF I, Rs1, Rs2, MainRegisters
  <2>2. CASE i = 4
    <3>1. Goes(Pc(30))
      BY <1>1, <2>1, <2>2, RunningFacts, SmallNumbers, BeqLine DEF Pc
    <3>2. Suits(30, 4, x[h1])
      BY <1>1, <2>2, RunningFacts, AheadOf
         DEF Suits, Round, PrintedSo, Stack, Called, MainRegisters, FactorialRegisters
    <3> QED
      BY <1>1, <3>1, <3>2, GoesLands
  <2>3. CASE i # 4
    <3>1. Goes(Pc(6))
      BY <1>1, <2>1, <2>3, RunningFacts, SmallNumbers, BeqLine DEF Pc
    <3>2. Suits(6, i, x[h1])
      BY <1>1, <2>1, <2>3, RunningFacts, AheadOf
         DEF Suits, Round, PrintedSo, Stack, Called, MainRegisters, FactorialRegisters
    <3> QED
      BY <1>1, <2>1, <3>1, <3>2, GoesLands
  <2> QED
    BY <2>2, <2>3
<1>2. ASSUME Running(15, i)
      PROVE  \E l, j : Lands(l, j)
  <2>1. Inst(h1).op = "jal" /\ Inst(h1).imm = 68 /\ Inst(h1).rd = 1 /\ pc[h1] = Pc(15)
        /\ i \in 0 .. 4
    <3>1. Inst(h1) = I("jal", 1, 0, 0, 68)
      BY <1>2, RunningFacts DEF FactorialProgram
    <3> QED
      BY <1>2, RunningFacts, <3>1 DEF I
  <2>2. Pc(32) \in Small /\ Pc(32) = pc[h1] + Inst(h1).imm /\ Pc(32) % 2 = 0
        /\ Pc(16) = pc[h1] + 4
    BY <2>1, SmallNumbers DEF Pc
  <2>3. Does(Pc(32), 1, Pc(16))
    BY <1>2, <2>1, <2>2, RunningFacts, JumpLine
  <2>4. Suits(32, i, After(1, Pc(16)))
    BY <1>2, RunningFacts, AheadOf
       DEF After, Suits, Round, PrintedSo, Stack, Called, MainRegisters,
           FactorialRegisters
  <2> QED
    BY <1>2, <2>1, <2>3, <2>4, UnchangedLands DEF Does, After
<1>3. ASSUME Running(29, i)
      PROVE  \E l, j : Lands(l, j)
  <2>1. Inst(h1).op = "jal" /\ Inst(h1).imm = -96 /\ Inst(h1).rd = 0 /\ pc[h1] = Pc(29)
        /\ i \in 0 .. 3
    <3>1. Inst(h1) = I("jal", 0, 0, 0, -96)
      BY <1>3, RunningFacts DEF FactorialProgram
    <3> QED
      BY <1>3, <3>1, RunningFacts DEF I, Round
  <2>2. Pc(5) \in Small /\ Pc(5) = pc[h1] + Inst(h1).imm /\ Pc(5) % 2 = 0
    BY <2>1, SmallNumbers DEF Pc
  <2>3. Goes(Pc(5))
    BY <1>3, <2>1, <2>2, RunningFacts, JumpLine
  <2>4. Suits(5, i + 1, x[h1])
    <3>1. 2 * i + Ahead(29) = 2 * (i + 1) + Ahead(5)
      BY <2>1, AheadOf
    <3> QED
      BY <1>3, <2>1, <3>1, RunningFacts
         DEF Suits, Round, PrintedSo, Stack, Called, MainRegisters, FactorialRegisters
  <2> QED
    BY <1>3, <2>1, <2>3, <2>4, GoesLands
<1> QED
  BY <1>1, <1>2, <1>3

\* The loop of factorial().
LEMMA FactorialLoop ==
  ASSUME NEW i, NEW k \in 34 .. 38, Running(k, i)
  PROVE  \E l, j : Lands(l, j)
<1> DEFINE n == x[h1][5]
           a == x[h1][10]
<1>1. i \in 0 .. 3 /\ n \in Int /\ a \in Nat /\ a \in Int /\ 7 + i \in 0 .. 10
  BY RunningFacts, WordType DEF Round, Called
<1>2. ASSUME Running(34, i)
      PROVE  \E l, j : Lands(l, j)
  <2>1. Inst(h1).op = "beq" /\ Inst(h1).imm = 16 /\ Rs1(h1) = n /\ Rs2(h1) = 0
        /\ pc[h1] = Pc(34) /\ n \in 0 .. (7 + i) /\ a * Fact(n) = Fact(7 + i)
    <3>1. Inst(h1) = I("beq", 0, 5, 0, 16)
      BY <1>2, RunningFacts DEF FactorialProgram
    <3> QED
      BY <1>2, RunningFacts, <3>1 DEF I, Rs1, Rs2, FactorialRegisters
  <2>2. CASE n = 0
    <3>1. Goes(Pc(38))
      BY <1>2, <2>1, <2>2, RunningFacts, SmallNumbers, BeqLine DEF Pc
    <3>2. a = Fact(7 + i)
      <4>1. Fact(n) = 1
        BY <2>2, FactorialsAre, Zenon
      <4>2. a * 1 = a
        BY <1>1
      <4> QED
        BY <2>1, <4>1, <4>2
    <3>3. Suits(38, i, x[h1])
      BY <1>2, <3>2, RunningFacts, AheadOf
         DEF Suits, Round, PrintedSo, Stack, Called, MainRegisters, FactorialRegisters
    <3> QED
      BY <1>1, <1>2, <3>1, <3>3, GoesLands
  <2>3. CASE n # 0
    <3>1. Goes(Pc(35))
      BY <1>2, <2>1, <2>3, RunningFacts, SmallNumbers, BeqLine DEF Pc
    <3>2. Suits(35, i, x[h1])
      BY <1>2, <2>3, RunningFacts, AheadOf
         DEF Suits, Round, PrintedSo, Stack, Called, MainRegisters, FactorialRegisters
    <3> QED
      BY <1>1, <1>2, <3>1, <3>2, GoesLands
  <2> QED
    BY <2>2, <2>3
<1>3. ASSUME Running(35, i)
      PROVE  Lands(36, i)
  <2> DEFINE f == Fact(n)
             g == Fact(n - 1)
  <2>1. Inst(h1).op = "mul" /\ Inst(h1).rd = 10 /\ Rs1(h1) = a /\ Rs2(h1) = n
        /\ n \in 1 .. (7 + i) /\ a * f = Fact(7 + i)
    <3>1. Inst(h1) = I("mul", 10, 10, 5, 0)
      BY <1>3, RunningFacts DEF FactorialProgram
    <3>2. n \in 1 .. (7 + i) /\ a * f = Fact(7 + i)
      BY <1>1, <1>3, RunningFacts DEF FactorialRegisters
    <3> QED
      BY <3>1, <3>2 DEF I, Rs1, Rs2
  <2>2. /\ f \in Nat /\ f >= 1 /\ g \in Nat /\ g >= 1 /\ f = n * g
        /\ n \in Nat /\ n \in 0 .. 10
    <3>1. n \in 1 .. 10 /\ n - 1 \in 0 .. 10 /\ n \in 0 .. 10
      BY <1>1, <2>1
    <3>2. f \in Nat /\ f >= 1 /\ g \in Nat /\ g >= 1
      BY <3>1, FactorialsAre
    <3>3. f = n * g
      BY <3>1, FactorialsAre
    <3> QED
      BY <3>1, <3>2, <3>3
  <2> DEFINE p == a * n
  <2>3. p * g = Fact(7 + i) /\ p \in Nat
    <3>1. (a * n) * g = a * (n * g)
      BY <1>1, <2>2
    <3> QED
      BY <1>1, <2>1, <2>2, <3>1
  <2>4. p \in Small /\ a \in Small /\ n \in Small
    <3>1. a <= a * f /\ p <= p * g
      BY <1>1, <2>2, <2>3, Products
    <3>2. Fact(7 + i) \in Small /\ Fact(7 + i) \in Nat
      BY <1>1, FactorialNumbers
    <3>3. \A b \in Nat : b <= Fact(7 + i) => b \in Small
      BY <3>2, SMT DEF Small
    <3> QED
      BY <1>1, <2>1, <2>2, <2>3, <3>1, <3>3, SmallNumbers
  <2>5. Does(pc[h1] + 4, 10, p)
    BY <1>3, <2>1, <2>4, RunningFacts, MulLine
  <2>6. Suits(36, i, After(10, p))
    <3> HIDE DEF p
    <3>1. After(10, p)[10] = p /\ After(10, p)[5] = n
      BY <1>3, RunningFacts DEF After
    <3>2. FactorialRegisters(36, i, After(10, p))
      BY <1>3, <2>1, <2>3, <3>1, RunningFacts DEF FactorialRegisters, Called, After
    <3> QED
      BY <1>3, <3>2, RunningFacts, AheadOf
         DEF After, Suits, Round, PrintedSo, Stack, Called, MainRegisters
  <2> QED
    BY <1>3, <2>5, <2>6, NextLands
<1>4. ASSUME Running(36, i)
      PROVE  Lands(37, i)
  <2>1. Inst(h1).op = "addi" /\ Inst(h1).rd = 5 /\ Rs1(h1) + Inst(h1).imm = n - 1
        /\ n - 1 \in 0 .. (7 + i)
    <3>1. Inst(h1) = I("addi", 5, 5, 0, -1)
      BY <1>4, RunningFacts DEF FactorialProgram
    <3>2. x[h1][5] = n /\ n \in 1 .. (7 + i)
      BY <1>1, <1>4, RunningFacts DEF FactorialRegisters
    <3> QED
      BY <1>1, <3>1, <3>2 DEF I, Rs1
  <2>2. Does(pc[h1] + 4, 5, n - 1)
    BY <1>1, <1>4, <2>1, RunningFacts, SmallNumbers, AddiLine
  <2>3. Suits(37, i, After(5, n - 1))
    BY <1>4, <2>1, RunningFacts, AheadOf
       DEF After, Suits, Round, PrintedSo, Stack, Called, MainRegisters,
           FactorialRegisters
  <2> QED
    BY <1>4, <2>2, <2>3, NextLands
<1>5. ASSUME Running(37, i)
      PROVE  Lands(34, i)
  <2>1. Inst(h1).op = "jal" /\ Inst(h1).imm = -12 /\ Inst(h1).rd = 0 /\ pc[h1] = Pc(37)
    <3>1. Inst(h1) = I("jal", 0, 0, 0, -12)
      BY <1>5, RunningFacts DEF FactorialProgram
    <3> QED
      BY <1>5, RunningFacts, <3>1 DEF I
  <2>2. Pc(34) \in Small /\ Pc(34) = pc[h1] + Inst(h1).imm /\ Pc(34) % 2 = 0
    BY <2>1, SmallNumbers DEF Pc
  <2>3. Goes(Pc(34))
    BY <1>5, <2>1, <2>2, RunningFacts, JumpLine
  <2>4. Suits(34, i, x[h1])
    BY <1>5, RunningFacts, AheadOf
       DEF Suits, Round, PrintedSo, Stack, Called, MainRegisters, FactorialRegisters
  <2> QED
    BY <1>1, <1>5, <2>3, <2>4, GoesLands
<1>6. ASSUME Running(38, i)
      PROVE  Lands(16, i)
  <2>1. Inst(h1).op = "jalr" /\ Inst(h1).imm = 0 /\ Inst(h1).rd = 0 /\ Rs1(h1) = Pc(16)
    <3>1. Inst(h1) = I("jalr", 0, 1, 0, 0)
      BY <1>6, RunningFacts DEF FactorialProgram
    <3> QED
      BY <1>6, RunningFacts, <3>1 DEF I, Rs1, FactorialRegisters, Called
  <2>2. Pc(16) \in Small /\ Pc(16) = Rs1(h1) + Inst(h1).imm /\ Pc(16) % 2 = 0
    BY <2>1, SmallNumbers DEF Pc
  <2>3. Goes(Pc(16))
    BY <1>6, <2>1, <2>2, RunningFacts, JumpLine
  <2>4. Suits(16, i, x[h1])
    BY <1>6, RunningFacts, AheadOf
       DEF Suits, Round, PrintedSo, Stack, Called, MainRegisters, FactorialRegisters
  <2> QED
    BY <1>1, <1>6, <2>3, <2>4, GoesLands
<1> QED
  BY <1>2, <1>3, <1>4, <1>5, <1>6

\* An instruction lands at a line, or traps at one of the three calls.
Calls(k) ==
  /\ k \in {24, 27, 31} /\ stage'[h1] = "trap" /\ scause'[h1] = "U_MODE_ENVIRONMENT_CALL"
  /\ UNCHANGED <<mem, pc, x, console, died>>

LEMMA ExecuteLine ==
  ASSUME NEW k, NEW i, Running(k, i)
  PROVE  Calls(k) \/ \E l, j : Lands(l, j)
<1>1. k \in 1 .. 38
  BY RunningFacts
<1>2. CASE k \in (1 .. 4) \cup {6, 7, 9} \cup (21 .. 23) \cup {25, 26, 28, 30, 32, 33}
  BY <1>2, OperateLines
<1>3. CASE k \in {8} \cup (16 .. 20)
  BY <1>3, LoadLines
<1>4. CASE k \in 10 .. 14
  BY <1>4, StoreLines
<1>5. CASE k \in {5, 15, 29}
  BY <1>5, MainJumps
<1>6. CASE k \in 34 .. 38
  BY <1>6, FactorialLoop
<1>7. CASE k \in {24, 27, 31}
  <2>1. Inst(h1).op = "ecall"
    <3>1. Inst(h1) = I("ecall", 0, 0, 0, 0)
      BY <1>7, RunningFacts DEF FactorialProgram
    <3> QED
      BY <1>7, RunningFacts, <3>1 DEF I
  <2> QED
    BY <1>7, <2>1, RunningFacts, EcallLine DEF Calls
<1>8. k \in (1 .. 4) \cup {6, 7, 9} \cup (21 .. 23) \cup {25, 26, 28, 30, 32, 33}
      \/ k \in {8} \cup (16 .. 20) \/ k \in 10 .. 14 \/ k \in {5, 15, 29} \/ k \in 34 .. 38
      \/ k \in {24, 27, 31}
  BY <1>1
<1> QED
  BY <1>2, <1>3, <1>4, <1>5, <1>6, <1>7, <1>8

\* A call is handled at line k.
Calling(k, i) ==
  /\ FactorialBuild /\ HartInv /\ k \in {24, 27, 31} /\ i \in 0 .. 4
  /\ stage[h1] = "trap" /\ scause[h1] = "U_MODE_ENVIRONMENT_CALL"
  /\ AtLine(k, i) /\ Loads(42) /\ TrapHandler(h1)

LEMMA CallingFacts ==
  ASSUME NEW k, NEW i, Calling(k, i)
  PROVE  /\ h1 \in Harts /\ DOMAIN stage = Harts /\ DOMAIN pc = Harts /\ DOMAIN console = Harts
         /\ console[h1] \in Seq(Word) /\ 4 \in Int /\ k \in 1 .. 38 /\ i \in 0 .. 4
         /\ Prints(h1) \/ Exits(h1)
         /\ Wrap(pc[h1] + 4) = Pc(k) + 4
         /\ PrintedSo(k, i) /\ Round(k, i) /\ MainRegisters(k, i, x[h1])
<1>1. FactorialBuild /\ TypeOK /\ h1 \in Harts
  BY DEF Calling, HartInv, FactorialBuild
<1>2. Prints(h1) \/ Exits(h1)
  BY DEF Calling, TrapHandler, BreakPointCompressed, BreakPointLong, BreakPointContinues,
         BreakPointAborts, Rechecks, InTrap, Stops
<1>3. k \in 1 .. 38 /\ pc[h1] = Pc(k)
  BY DEF Calling, AtLine
<1>4. Wrap(pc[h1] + 4) = Pc(k) + 4
  <2>1. Pc(k) + 4 \in Small
    BY <1>3, SmallNumbers DEF Pc
  <2> QED
    BY <1>1, <1>3, <2>1, SmallWords
<1> QED
  BY <1>1, <1>2, <1>3, <1>4 DEF TypeOK, Calling, AtLine

LEMMA PrintsLine ==
  ASSUME NEW k, NEW i, Calling(k, i), NEW n \in 0 .. 7, n = 2 * i + Ahead(k), NEW l \in 1 .. 38,
         l = k + 1, n + 1 = 2 * i + Ahead(l), x[h1][10] \in {1, 11},
         x[h1][11] = FactorialOutput[n + 1],
         Round(l, i), Stack(l, i), MainRegisters(l, i, x[h1]), FactorialRegisters(l, i, x[h1])
  PROVE  Lands(l, i)
<1>1. Prints(h1)
  BY CallingFacts DEF Exits, A0
<1>2. /\ pc'[h1] = Pc(l) /\ stage'[h1] = "visit" /\ UNCHANGED <<mem, x, died>>
      /\ console'[h1] = Append(console[h1], x[h1][11])
  <2>1. Pc(l) = Pc(k) + 4
    <3>1. k \in 1 .. 38
      BY CallingFacts
    <3> QED
      BY <3>1 DEF Pc
  <2> QED
    BY <1>1, <2>1, CallingFacts DEF Prints, Handled, IncPc, JumpToAddr, Proceeds, A1
<1>3. Printed(n + 1)'
  <2>1. Printed(n) /\ console[h1] \in Seq(Word)
    BY CallingFacts DEF PrintedSo
  <2>2. Len(console'[h1]) = n + 1
    BY <1>2, <2>1 DEF Printed
  <2>3. ASSUME NEW j \in 1 .. (n + 1)
        PROVE  console'[h1][j] = FactorialOutput[j]
    BY <1>2, <2>1 DEF Printed
  <2> QED
    BY <2>2, <2>3 DEF Printed
<1>4. PrintedSo(l, i)'
  BY <1>3 DEF PrintedSo
<1>5. \A a : Cell(a)' = Cell(a)
  BY <1>2 DEF Cell
<1>6. Stack(l, i)' /\ Loads(42)'
  <2>1. Loads(42)
    BY DEF Calling
  <2> QED
    BY <1>2, <1>5, <2>1, LoadsKept DEF Stack
<1> QED
  BY <1>2, <1>4, <1>6, CallingFacts DEF Lands, AtLine

\* The handler prints, or ends start(), and goes on behind the ECALL.
LEMMA TrapLine ==
  ASSUME NEW k, NEW i, Calling(k, i), died = "no"
  PROVE  \/ Exited' /\ died' = died /\ UNCHANGED mem
         \/ \E l, j : Lands(l, j)
<1>1. ASSUME Calling(24, i)
      PROVE  Lands(25, i)
  <2>1. i \in 0 .. 3 /\ x[h1][10] = 1 /\ x[h1][11] = Fact(7 + i)
    BY <1>1, CallingFacts DEF MainRegisters, Round
  <2>2. FactorialOutput[2 * i + 1] = x[h1][11]
    BY <2>1, OutputIs
  <2>3. Round(25, i) /\ Stack(25, i) /\ MainRegisters(25, i, x[h1])
        /\ FactorialRegisters(25, i, x[h1])
    <3>1. Round(25, i) /\ Stack(25, i) /\ FactorialRegisters(25, i, x[h1])
      BY <2>1 DEF Round, Stack, Called, FactorialRegisters
    <3>2. MainRegisters(25, i, x[h1])
      <4>1. MainRegisters(24, i, x[h1])
        BY <1>1, CallingFacts
      <4> QED
        BY <2>1, <4>1 DEF Called, MainRegisters
    <3> QED
      BY <3>1, <3>2
  <2>4. 2 * i \in 0 .. 7 /\ 2 * i = 2 * i + Ahead(24) /\ 2 * i + 1 = 2 * i + Ahead(25)
    BY <2>1, AheadOf
  <2> QED
    BY <1>1, <2>1, <2>2, <2>3, <2>4, PrintsLine
<1>2. ASSUME Calling(27, i)
      PROVE  Lands(28, i)
  <2>1. i \in 0 .. 3 /\ x[h1][10] = 11 /\ x[h1][11] = 32
    BY <1>2, CallingFacts DEF MainRegisters, Round
  <2>2. FactorialOutput[(2 * i + 1) + 1] = x[h1][11]
    BY <2>1, OutputIs
  <2>3. Round(28, i) /\ Stack(28, i) /\ MainRegisters(28, i, x[h1])
        /\ FactorialRegisters(28, i, x[h1])
    <3>1. Round(28, i) /\ Stack(28, i) /\ FactorialRegisters(28, i, x[h1])
      BY <2>1 DEF Round, Stack, Called, FactorialRegisters
    <3>2. MainRegisters(28, i, x[h1])
      <4>1. MainRegisters(27, i, x[h1])
        BY <1>2, CallingFacts
      <4> QED
        BY <2>1, <4>1 DEF Called, MainRegisters
    <3> QED
      BY <3>1, <3>2
  <2>4. /\ 2 * i + 1 \in 0 .. 7 /\ 2 * i + 1 = 2 * i + Ahead(27)
        /\ (2 * i + 1) + 1 = 2 * i + Ahead(28)
    BY <2>1, AheadOf
  <2> QED
    BY <1>2, <2>1, <2>2, <2>3, <2>4, PrintsLine
<1>3. ASSUME Calling(31, i)
      PROVE  Exited' /\ died' = died /\ UNCHANGED mem
  <2>1. i = 4 /\ x[h1][10] = 10 /\ x[h1][2] = 4092
    <3>1. i = 4
      BY <1>3, CallingFacts DEF Round
    <3>2. x[h1][10] = 10 /\ x[h1][2] = 4092
      <4>1. MainRegisters(31, i, x[h1])
        BY <1>3, CallingFacts
      <4> QED
        BY <4>1 DEF Called, MainRegisters
    <3> QED
      BY <3>1, <3>2
  <2>2. Printed(8)
    <3>1. 2 * i + Ahead(31) = 8
      BY <2>1, AheadOf
    <3> QED
      BY <1>3, <3>1, CallingFacts DEF PrintedSo
  <2>3. Exits(h1)
    BY <1>3, <2>1, CallingFacts DEF Prints, A0
  <2>4. stage'[h1] = "stopped" /\ UNCHANGED <<mem, x, scause, console, died>>
    BY <1>3, <2>3, CallingFacts DEF Exits, Proceeds
  <2> QED
    BY <1>3, <2>1, <2>2, <2>4 DEF Exited, Printed, Calling
<1> QED
  BY <1>1, <1>2, <1>3 DEF Calling

-----------------------------------------------------------------------------
(***************************************************************************)
(* memory_copy loads the images.                                           *)
(***************************************************************************)
\* A step of memory_copy: n words w at o.
Copied(o, n, w) ==
  mem' = [a \in DOMAIN mem |->
            IF a \in Footprint(o, 4 * n) THEN ByteOf(w[(a - o) \div 4 + 1], (a - o) % 4)
                                         ELSE mem[a]]

\* memory_copy puts the words where they belong and touches nothing below.
LEMMA CopyWords ==
  ASSUME mem \in Memories, NEW o \in Nat, o % 4 = 0, NEW n \in Nat, o + 4 * n <= MemorySize,
         NEW w, \A j \in 1 .. n : w[j] \in Word,
         Copied(o, n, w)
  PROVE  /\ \A j \in 1 .. n : Value(mem', o + 4 * (j - 1), 4) = w[j]
         /\ \A b \in Nat : b + 4 <= o => Value(mem', b, 4) = Value(mem, b, 4)
<1>1. MemorySize \in Nat /\ DOMAIN mem = 0 .. (MemorySize - 1)
  BY MemorySizes DEF Memories
<1>2. ASSUME NEW j \in 1 .. n
      PROVE  Value(mem', o + 4 * (j - 1), 4) = w[j]
  <2> DEFINE b == o + 4 * (j - 1)
  <2>1. ASSUME NEW e \in 0 .. 3
        PROVE  mem'[b + e] = ByteOf(w[j], e)
    <3>1. b + e \in DOMAIN mem /\ b + e \in Footprint(o, 4 * n)
      BY <1>1 DEF Footprint
    <3>2. ((b + e) - o) \div 4 + 1 = j /\ ((b + e) - o) % 4 = e
      OBVIOUS
    <3> QED
      BY <3>1, <3>2 DEF Copied
  <2> QED
    BY <2>1, ValueOfBytes
<1>3. ASSUME NEW b \in Nat, b + 4 <= o
      PROVE  Value(mem', b, 4) = Value(mem, b, 4)
  <2>1. ASSUME NEW e \in 0 .. (4 - 1)
        PROVE  mem[b + e] \in Byte /\ mem'[b + e] = mem[b + e]
    <3>1. b + e \in DOMAIN mem /\ b + e \notin Footprint(o, 4 * n)
      BY <1>1, <1>3 DEF Footprint
    <3> QED
      BY <1>1, <3>1 DEF Memories, Copied
  <2>2. 4 \in Nat
    OBVIOUS
  <2> QED
    BY <2>1, <2>2, ValueSame
<1> QED
  BY <1>2, <1>3

LEMMA BuildMemory ==
  ASSUME FactorialBuild
  PROVE  MemorySize \in Nat /\ MemorySize >= 4096
BY MemorySizes DEF FactorialBuild

LEMMA NumberWords ==
  ASSUME FactorialBuild, NEW n \in 0 .. 8191
  PROVE  n \in Word
<1>1. n \in Small
  BY SMT DEF Small
<1> QED
  BY <1>1, SmallWords

LEMMA ImageText ==
  /\ Len(FactorialText) = 38 /\ Len(FactorialData) = 4
  /\ \A j \in 1 .. 38 : FactorialText[j] = j
  /\ \A j \in 1 .. 4 : FactorialData[j] = 6 + j
BY DEF FactorialText, FactorialData

LEMMA ImageTypes ==
  ASSUME FactorialBuild
  PROVE  /\ \A j \in 1 .. 38 : FactorialText[j] \in Word
         /\ \A j \in 1 .. 4 : FactorialData[j] \in Word
         /\ FactorialText \in Seq(Word) /\ FactorialData \in Seq(Word)
<1>1. ASSUME NEW j \in 1 .. 38
      PROVE  j \in Word
  <2>1. j \in 0 .. 8191
    OBVIOUS
  <2> QED
    BY <2>1, NumberWords
<1>2. FactorialText \in [1 .. 38 -> Word]
  BY <1>1 DEF FactorialText
<1>3. FactorialText \in Seq(Word)
  <2>1. Seq(Word) = UNION {[1 .. n -> Word] : n \in Nat} /\ 38 \in Nat
    OBVIOUS
  <2> QED
    BY <1>2, <2>1, Zenon
<1>4. FactorialData \in Seq(Word)
  <2>1. 7 \in Word /\ 8 \in Word /\ 9 \in Word /\ 10 \in Word
    BY <1>1
  <2> QED
    BY <2>1 DEF FactorialData
<1>5. \A j \in 1 .. 4 : FactorialData[j] \in Word
  <2> TAKE j \in 1 .. 4
  <2>1. FactorialData[j] = 6 + j /\ 6 + j \in 1 .. 38
    BY ImageText
  <2> QED
    BY <1>1, <2>1
<1>6. \A j \in 1 .. 38 : FactorialText[j] \in Word
  BY <1>2
<1> QED
  BY <1>3, <1>4, <1>5, <1>6

LEMMA ImageList ==
  /\ FactorialImages = <<[offset |-> 0, words |-> FactorialText],
                         [offset |-> 152, words |-> FactorialData]>>
  /\ Head(FactorialImages).offset = 0 /\ Head(FactorialImages).words = FactorialText
  /\ Head(Tail(FactorialImages)).offset = 152
  /\ Head(Tail(FactorialImages)).words = FactorialData
  /\ Tail(Tail(FactorialImages)) = <<>>
<1>1. FactorialImages = <<[offset |-> 0, words |-> FactorialText],
                          [offset |-> 152, words |-> FactorialData]>>
  BY ImageText DEF FactorialImages
<1> QED
  BY <1>1

\* Both images are in memory once they are copied.
LEMMA CopyLoads ==
  ASSUME FactorialBuild, HartInv, MemoryCopy, Loading,
         NEW k \in 1 .. 38, NEW i \in 0 .. 4, AtLine(k, i), Underway(k)
  PROVE  /\ died' = died /\ Loading' /\ image # <<>>
         /\ stage[h1] = "visit" /\ pc[h1] = 0 /\ UNCHANGED hartVars
<1> DEFINE copy == Head(image)
<1>1. /\ image # <<>> /\ UNCHANGED hartVars /\ mem \in Memories
      /\ DOMAIN mem = 0 .. (MemorySize - 1)
  BY DEF MemoryCopy, HartInv, TypeOK, Memories
<1>2. /\ stage[h1] = "visit" /\ pc[h1] = 0
      /\ \/ image = FactorialImages
         \/ image = Tail(FactorialImages) /\ Loads(38)
  BY <1>1 DEF Loading
<1>3. ASSUME NEW o \in Nat, NEW n \in Nat, o + 4 * n <= MemorySize,
             copy.offset = o, Len(copy.words) = n
      PROVE  died' = died /\ image' = Tail(image) /\ Copied(o, n, copy.words)
  <2>1. MemorySize \in Nat /\ o + 4 * n <= MemorySize /\ o <= MemorySize - 4 * n
    BY <1>3, BuildMemory
  <2>2. CopyAccepts(copy) /\ Length(copy) = 4 * n
    BY <1>3, <2>1 DEF CopyAccepts, Length
  <2>3. Footprint(o, 4 * n) \subseteq DOMAIN mem
    BY <1>1, <2>1 DEF Footprint
  <2> QED
    BY <1>3, <2>2, <2>3 DEF MemoryCopy, Copied
<1>4. CASE image = FactorialImages
  <2>1. copy.offset = 0 /\ Len(copy.words) = 38 /\ copy.words = FactorialText
    BY <1>4, ImageText, ImageList
  <2>2. died' = died /\ image' = Tail(FactorialImages) /\ Copied(0, 38, FactorialText)
    <3>1. 0 \in Nat /\ 38 \in Nat /\ 0 + 4 * 38 <= MemorySize
      BY BuildMemory
    <3> QED
      BY <1>3, <1>4, <2>1, <3>1, Zenon
  <2>3. \A j \in 1 .. 38 : Value(mem', 0 + 4 * (j - 1), 4) = FactorialText[j]
    <3> DEFINE o == 0
               n == 38
    <3>1. o \in Nat /\ o % 4 = 0 /\ n \in Nat /\ o + 4 * n <= MemorySize
      BY BuildMemory
    <3>2. \A j \in 1 .. n : FactorialText[j] \in Word
      BY ImageTypes
    <3>3. Copied(o, n, FactorialText)
      BY <2>2
    <3> HIDE DEF o, n
    <3>4. /\ \A j \in 1 .. n : Value(mem', o + 4 * (j - 1), 4) = FactorialText[j]
          /\ \A b \in Nat : b + 4 <= o => Value(mem', b, 4) = Value(mem, b, 4)
      BY <1>1, <3>1, <3>2, <3>3, CopyWords
    <3> QED
      BY <3>4 DEF o, n
  <2>4. Loads(38)'
    <3>1. ASSUME NEW j \in 1 .. 38
          PROVE  Value(mem', Pc(j), 4) = (FactorialText \o FactorialData)[j]
      <4>1. Value(mem', 0 + 4 * (j - 1), 4) = j /\ Pc(j) = 0 + 4 * (j - 1)
        BY <2>3, ImageText DEF Pc
      <4>2. (FactorialText \o FactorialData)[j] = j
        BY ImageWords
      <4> QED
        BY <4>1, <4>2
    <3> QED
      BY <3>1, Zenon DEF Loads, Cell
  <2> QED
    BY <1>1, <1>2, <2>2, <2>4 DEF Loading, hartVars
<1>5. CASE image = Tail(FactorialImages) /\ Loads(38)
  <2>1. copy.offset = 152 /\ Len(copy.words) = 4 /\ copy.words = FactorialData
        /\ Tail(image) = <<>>
    BY <1>5, ImageText, ImageList
  <2>2. died' = died /\ image' = <<>> /\ Copied(152, 4, FactorialData)
    <3>1. 152 \in Nat /\ 4 \in Nat /\ 152 + 4 * 4 <= MemorySize
      BY BuildMemory
    <3>2. ASSUME NEW o \in Nat, o + 4 * 4 <= MemorySize, copy.offset = o
          PROVE  died' = died /\ image' = <<>> /\ Copied(o, 4, FactorialData)
      <4>1. Len(copy.words) = 4 /\ copy.words = FactorialData /\ Tail(image) = <<>>
        BY <2>1
      <4>2. 4 \in Nat
        OBVIOUS
      <4> QED
        BY <1>3, <3>2, <4>1, <4>2, Zenon
    <3> QED
      BY <2>1, <3>1, <3>2
  <2>3. /\ \A j \in 1 .. 4 : Value(mem', 152 + 4 * (j - 1), 4) = FactorialData[j]
        /\ \A b \in Nat : b + 4 <= 152 => Value(mem', b, 4) = Value(mem, b, 4)
    <3> DEFINE o == 152
               n == 4
    <3>1. o \in Nat /\ o % 4 = 0 /\ n \in Nat /\ o + 4 * n <= MemorySize
      BY BuildMemory
    <3>2. \A j \in 1 .. n : FactorialData[j] \in Word
      BY ImageTypes
    <3>3. Copied(o, n, FactorialData)
      BY <2>2
    <3> HIDE DEF o, n
    <3>4. /\ \A j \in 1 .. n : Value(mem', o + 4 * (j - 1), 4) = FactorialData[j]
          /\ \A b \in Nat : b + 4 <= o => Value(mem', b, 4) = Value(mem, b, 4)
      BY <1>1, <3>1, <3>2, <3>3, CopyWords
    <3> QED
      BY <3>4 DEF o, n
  <2>4. Loads(42)'
    <3>1. ASSUME NEW j \in 1 .. 38
          PROVE  Value(mem', Pc(j), 4) = (FactorialText \o FactorialData)[j]
      <4>1. Value(mem', Pc(j), 4) = Value(mem, Pc(j), 4)
        <5>1. Pc(j) \in Nat /\ Pc(j) + 4 <= 152
          BY DEF Pc
        <5> QED
          BY <2>3, <5>1
      <4>2. Value(mem, Pc(j), 4) = (FactorialText \o FactorialData)[j]
        BY <1>5 DEF Loads, Cell
      <4> QED
        BY <4>1, <4>2
    <3>2. ASSUME NEW j \in 39 .. 42
          PROVE  Value(mem', Pc(j), 4) = (FactorialText \o FactorialData)[j]
      <4>1. j - 38 \in 1 .. 4 /\ j - 39 \in 0 .. 3 /\ 39 + (j - 39) = j
            /\ Pc(j) = 152 + 4 * ((j - 38) - 1) /\ 6 + (j - 38) = 7 + (j - 39)
        BY DEF Pc
      <4>2. Value(mem', Pc(j), 4) = 6 + (j - 38)
        BY <2>3, <4>1, ImageText
      <4>3. (FactorialText \o FactorialData)[39 + (j - 39)] = 7 + (j - 39)
        BY <4>1, ImageWords
      <4> QED
        BY <4>1, <4>2, <4>3
    <3>3. \A j \in 1 .. 42 : j \in 1 .. 38 \/ j \in 39 .. 42
      OBVIOUS
    <3> QED
      BY <3>1, <3>2, <3>3, Zenon DEF Loads, Cell
  <2> QED
    BY <1>1, <1>2, <2>2, <2>4 DEF Loading
<1> QED
  BY <1>1, <1>2, <1>4, <1>5

-----------------------------------------------------------------------------
(***************************************************************************)
(* The program is always at one of its lines: ProgramCorrect is inductive  *)
(* together with HartInv.                                                  *)
(***************************************************************************)
LEMMA FactorialStarts ==
  ASSUME FactorialBuild, FactorialInit
  PROVE  Init /\ ProgramCorrect
<1>1. FactorialBuild /\ h1 \in Harts /\ Harts = {h1} /\ FactorialRegs \subseteq Regs
  BY DEF FactorialBuild
<1> DEFINE boot == [h \in Harts |-> 0]
           regs == [h \in Harts |-> [r \in Regs |-> IF r = 2 THEN 4092 ELSE 0]]
<1>2. Booted(<<>>, FactorialImages, boot, regs)
  BY DEF FactorialInit
<1>3. 0 \in Word /\ 152 \in Word /\ 4092 \in Word /\ 0 % 2 = 0
  <2>1. 0 \in 0 .. 8191 /\ 152 \in 0 .. 8191 /\ 4092 \in 0 .. 8191
    OBVIOUS
  <2> QED
    BY <2>1, NumberWords
<1>4. Init
  <2>1. FactorialImages \in Seq([offset : Word, words : Seq(Word)])
    <3>1. [offset |-> 0, words |-> FactorialText] \in [offset : Word, words : Seq(Word)]
      BY <1>3, ImageTypes
    <3>2. [offset |-> 152, words |-> FactorialData] \in [offset : Word, words : Seq(Word)]
      BY <1>3, ImageTypes
    <3> QED
      BY <3>1, <3>2, ImageList
  <2>2. boot \in [Harts -> {a \in Word : a % 2 = 0}]
    BY <1>3
  <2>3. regs \in [Harts -> {r \in [Regs -> Word] : r[0] = 0}]
    <3>1. [r \in Regs |-> IF r = 2 THEN 4092 ELSE 0] \in [Regs -> Word]
      BY <1>3
    <3>2. [r \in Regs |-> IF r = 2 THEN 4092 ELSE 0][0] = 0
      BY <1>1 DEF FactorialRegs
    <3> QED
      BY <3>1, <3>2
  <2>4. <<>> \in Seq(Word)
    OBVIOUS
  <2> HIDE DEF boot, regs
  <2> QED
    BY <1>2, <2>1, <2>2, <2>3, <2>4 DEF Init
<1>5. /\ died = "no" /\ image = FactorialImages /\ stage[h1] = "visit" /\ pc[h1] = 0
      /\ console[h1] = <<>> /\ x[h1][2] = 4092
  <2>1. 2 \in Regs
    BY <1>1 DEF FactorialRegs
  <2> QED
    BY <1>1, <1>2, <2>1 DEF Booted
<1>6. AtLine(1, 0)
  <2>1. PrintedSo(1, 0)
    <3>1. 2 * 0 + Ahead(1) = 0
      BY AheadOf
    <3>2. Printed(0)
      BY <1>5 DEF Printed
    <3> QED
      BY <3>1, <3>2 DEF PrintedSo
  <2>2. Round(1, 0) /\ Stack(1, 0) /\ pc[h1] = Pc(1)
    BY <1>5 DEF Round, Stack, Called, Pc
  <2>3. MainRegisters(1, 0, x[h1]) /\ FactorialRegisters(1, 0, x[h1])
    BY <1>5 DEF MainRegisters, FactorialRegisters, Called
  <2> QED
    BY <2>1, <2>2, <2>3 DEF AtLine
<1>7. Underway(1)
  BY <1>5 DEF Underway
<1> QED
  BY <1>4, <1>5, <1>6, <1>7 DEF ProgramCorrect, Loading

LEMMA UnchangedCorrect ==
  ASSUME ProgramCorrect, UNCHANGED vars
  PROVE  ProgramCorrect'
<1>1. UNCHANGED <<mem, image, pc, x, scause, stage, ir, console, died>>
  BY DEF vars, hartVars
<1>2. \A a : Cell(a)' = Cell(a)
  BY <1>1 DEF Cell
<1>3. \A n : Loads(n) => Loads(n)'
  BY <1>2, LoadsKept DEF Cell
<1>4. Loading'
  BY <1>1, <1>3 DEF ProgramCorrect, Loading
<1>5. Exited => Exited'
  BY <1>1 DEF Exited, Printed
<1>6. ASSUME NEW k \in 1 .. 38, NEW i \in 0 .. 4, AtLine(k, i), Underway(k)
      PROVE  AtLine(k, i)' /\ Underway(k)'
  BY <1>1, <1>2, <1>6 DEF AtLine, Underway, Stack, PrintedSo, Printed
<1> QED
  BY <1>1, <1>4, <1>5, <1>6 DEF ProgramCorrect

LEMMA CopyCorrect ==
  ASSUME FactorialBuild, HartInv, ProgramCorrect, MemoryCopy
  PROVE  ProgramCorrect'
<1>1. image # <<>> /\ Loading /\ died = "no"
  BY DEF MemoryCopy, ProgramCorrect
<1>2. ~Exited
  BY <1>1 DEF Exited, Loading
<1>3. PICK k \in 1 .. 38, i \in 0 .. 4 : AtLine(k, i) /\ Underway(k)
  BY <1>2 DEF ProgramCorrect
<1>4. /\ died' = died /\ Loading' /\ stage[h1] = "visit" /\ pc[h1] = 0
      /\ UNCHANGED <<pc, x, scause, stage, ir, console>>
  BY <1>1, <1>3, CopyLoads DEF hartVars
<1>5. k = 1
  BY <1>3, <1>4 DEF AtLine, Pc
<1>6. AtLine(1, i)
  BY <1>3, <1>5
<1>7. Stack(1, i)'
  BY DEF Stack, Called
<1>8. PrintedSo(1, i)'
  BY <1>4, <1>6 DEF AtLine, PrintedSo, Printed
<1>9. AtLine(1, i)' /\ Underway(1)'
  BY <1>4, <1>6, <1>7, <1>8 DEF AtLine, Underway
<1> QED
  BY <1>1, <1>4, <1>9 DEF ProgramCorrect

\* A step of the hart: it fetches a line, executes it, or handles its trap.
LEMMA StepCorrect ==
  ASSUME FactorialBuild, HartInv, ProgramCorrect, NEW h \in Harts, Step(h)
  PROVE  ProgramCorrect'
<1>1. h = h1 /\ died = "no" /\ image = <<>> /\ image' = image
      /\ (Visit(h1) \/ Execute(h1) \/ TrapHandler(h1))
  BY DEF FactorialBuild, Step
<1>2. Loads(42)
  <2>1. FactorialImages # <<>> /\ Tail(FactorialImages) # <<>>
    BY ImageList
  <2> QED
    BY <1>1, <2>1 DEF ProgramCorrect, Loading
<1>3. /\ Visit(h1) => stage[h1] \in {"visit", "half"}
      /\ Execute(h1) => stage[h1] = "execute"
      /\ TrapHandler(h1) => stage[h1] \in {"trap", "recheck"}
  <2>1. Visit(h1) => stage[h1] \in {"visit", "half"}
    BY DEF Visit, FetchFault, Fetch, FetchHalf, FetchRest, FetchRestFault, FetchDies, Begins
  <2>2. Execute(h1) => stage[h1] = "execute"
    BY DEF Execute, Operate, OperateDies, LoadUpper, Jump, Branch, AccessFault, PageFault,
           Load, Store, Fence, Ecall, Ebreak, Illegal, At
  <2>3. TrapHandler(h1) => stage[h1] \in {"trap", "recheck"}
    BY DEF TrapHandler, BreakPointCompressed, BreakPointLong, BreakPointContinues,
           BreakPointAborts, Rechecks, Prints, Exits, Stops, InTrap
  <2> QED
    BY <2>1, <2>2, <2>3
<1>4. ~Exited
  BY <1>1, <1>3 DEF Exited
<1>5. PICK k \in 1 .. 38, i \in 0 .. 4 : AtLine(k, i) /\ Underway(k)
  BY <1>4 DEF ProgramCorrect
<1>6. ASSUME NEW l, NEW j, Lands(l, j)
      PROVE  ProgramCorrect'
  <2>1. /\ died' = "no" /\ image' = <<>> /\ l \in 1 .. 38 /\ j \in 0 .. 4
        /\ Loads(42)' /\ AtLine(l, j)' /\ stage'[h1] = "visit"
    BY <1>1, <1>6 DEF Lands
  <2> QED
    BY <2>1 DEF ProgramCorrect, Loading, Underway
<1>7. CASE Visit(h1)
  <2>1. Cell(Pc(k)) = k /\ pc[h1] = Pc(k)
    <3>1. Cell(Pc(k)) = (FactorialText \o FactorialData)[k]
      <4>1. \A j \in 1 .. 42 : Cell(Pc(j)) = (FactorialText \o FactorialData)[j]
        BY <1>2, Zenon DEF Loads
      <4>2. k \in 1 .. 42
        OBVIOUS
      <4> QED
        BY <4>1, <4>2, Zenon
    <3> QED
      BY <1>5, <3>1, ImageWords DEF AtLine
  <2>2. stage[h1] = "half" => ir[h1] = k
    BY <1>5 DEF Underway
  <2>3. /\ stage'[h1] \in {"half", "execute"} /\ ir'[h1] = k
        /\ UNCHANGED <<mem, pc, x, console, died>>
    BY <1>7, <2>1, <2>2, FetchLine
  <2>4. \A a : Cell(a)' = Cell(a)
    BY <2>3 DEF Cell
  <2>5. Loads(42)'
    BY <1>2, <2>4, LoadsKept DEF Cell
  <2>6. AtLine(k, i)' /\ Underway(k)'
    BY <1>5, <2>3, <2>4 DEF AtLine, Underway, Stack, PrintedSo, Printed
  <2> QED
    BY <1>1, <2>3, <2>5, <2>6 DEF ProgramCorrect, Loading
<1>8. CASE Execute(h1)
  <2>1. Running(k, i)
    BY <1>2, <1>3, <1>5, <1>8 DEF Running, Begun, Underway
  <2>2. CASE Calls(k)
    <3>1. \A a : Cell(a)' = Cell(a)
      BY <2>2 DEF Calls, Cell
    <3>2. Loads(42)'
      BY <1>2, <3>1, LoadsKept DEF Cell
    <3>3. AtLine(k, i)' /\ Underway(k)'
      BY <1>5, <2>2, <3>1 DEF Calls, AtLine, Underway, Stack, PrintedSo, Printed
    <3> QED
      BY <1>1, <2>2, <3>2, <3>3 DEF ProgramCorrect, Loading, Calls
  <2> QED
    BY <1>6, <2>1, <2>2, ExecuteLine
<1>9. CASE TrapHandler(h1)
  <2>1. Calling(k, i)
    BY <1>2, <1>3, <1>5, <1>9 DEF Calling, Underway
  <2>2. CASE Exited' /\ died' = died /\ UNCHANGED mem
    <3>1. Loads(42)'
      BY <1>2, <2>2, LoadsKept
    <3> QED
      BY <1>1, <2>2, <3>1 DEF ProgramCorrect, Loading
  <2> QED
    BY <1>1, <1>6, <2>1, <2>2, TrapLine
<1> QED
  BY <1>1, <1>7, <1>8, <1>9

LEMMA CorrectPrints ==
  ASSUME FactorialBuild, HartInv, ProgramCorrect
  PROVE  FactorialsPrinted
<1> SUFFICES ASSUME stage[h1] = "stopped"
             PROVE  FactorialsPrinted
  BY DEF FactorialsPrinted
<1>1. Exited
  BY DEF ProgramCorrect, Underway
<1>2. console[h1] = FactorialOutput
  <2>1. console[h1] \in Seq(Word) /\ Len(console[h1]) = 8
    BY <1>1 DEF Exited, Printed, HartInv, TypeOK, FactorialBuild
  <2>2. \A j \in 1 .. 8 : console[h1][j] = FactorialOutput[j]
    BY <1>1 DEF Exited, Printed
  <2>3. console[h1] = [j \in 1 .. 8 |-> console[h1][j]]
    BY <2>1
  <2>4. FactorialOutput = [j \in 1 .. 8 |-> FactorialOutput[j]]
    BY DEF FactorialOutput
  <2> QED
    BY <2>2, <2>3, <2>4, Zenon
<1> QED
  BY <1>1, <1>2 DEF FactorialsPrinted, Exited

LEMMA ProgramInvariant ==
  FactorialBuild => (FactorialSafety => [](HartInv /\ ProgramCorrect))
<1> SUFFICES ASSUME FactorialBuild
             PROVE  FactorialSafety => [](HartInv /\ ProgramCorrect)
  OBVIOUS
<1>1. FactorialInit => HartInv /\ ProgramCorrect
  BY FactorialStarts, HartInvInit
<1>2. HartInv /\ ProgramCorrect /\ [Next]_vars => (HartInv /\ ProgramCorrect)'
  BY HartInvNext, UnchangedCorrect, CopyCorrect, StepCorrect DEF Next, Done
<1> QED
  BY <1>1, <1>2, PTL DEF FactorialSafety

(***************************************************************************)
(* The guest program of the integration test does what its comments say:   *)
(* whatever the width, the memory and the alignments, at each line each    *)
(* register and stack word holds what the line relies on, across the calls *)
(* of factorial() and the ECALLs u_mode_environment_call_handler answers;  *)
(* no store reaches its text, and nothing but its last ECALL ends start(). *)
(***************************************************************************)
THEOREM ProgramTheorem == FactorialBuild => (FactorialSafety => []ProgramCorrect)
BY ProgramInvariant, PTL

(***************************************************************************)
(* So a start() that returns has printed exactly the factorials of 7 to 10,*)
(* each followed by a blank, and left the guest's sp as it found it.       *)
(***************************************************************************)
THEOREM FactorialTheorem == FactorialBuild => (FactorialSafety => []FactorialsPrinted)
<1> SUFFICES ASSUME FactorialBuild
             PROVE  FactorialSafety => []FactorialsPrinted
  OBVIOUS
<1>1. HartInv /\ ProgramCorrect => FactorialsPrinted
  BY CorrectPrints
<1>2. FactorialSafety => [](HartInv /\ ProgramCorrect)
  BY ProgramInvariant
<1> QED
  BY <1>1, <1>2, PTL
=============================================================================
