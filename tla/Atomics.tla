------------------------------ MODULE Atomics ------------------------------
(***************************************************************************)
(* The memory accesses of the harts (include/target/hart.hpp, operators.hpp*)
(* AMO* and the A extension): several Hart objects, each driven by a       *)
(* thread of the embedding program, share one memory through the callbacks *)
(* address_load and address_store.  A step is one access to the shared     *)
(* memory; what a hart does between two accesses touches only its own      *)
(* state and belongs to the step of the access it follows.                 *)
(*                                                                         *)
(* The atomics of <atomic> act on the memory in one step.  Plain accesses  *)
(* (`*ptr = ...`, `auto value = *ptr`) compile to plain moves: a store     *)
(* waits in the store buffer of the host processor before the other harts  *)
(* see it (Drain), a load sees the newest waiting store of its own thread  *)
(* first.  The sequentially consistent load of an atomic is a plain move   *)
(* too on such a host, a read-modify-write empties the buffer first.       *)
(***************************************************************************)
EXTENDS MemoryOps, FiniteSetsExt

VARIABLES
  mem,              \* the shared memory: a word per cell
  buf,              \* the host store buffer of each hart's thread
  stage,            \* "fetch", or what the hart is in the middle of
  inst,             \* the instruction it executes
  ret,              \* `ret` of operators::AMOMIN::op and its siblings
  rd,               \* the value last written to a destination register
  trap,             \* the cause of the last instruction, or "none"
  reserve_address,  \* Hart::reserve_address
  reserve_value     \* Hart::reserve_value

reservation == <<reserve_address, reserve_value>>
vars == <<mem, buf, stage, inst, ret, rd, trap, reservation>>

\* What hart h sees in cell a without waiting for its buffer to drain
Sees(h, a) == View(mem, buf[h], a)

Init ==
  /\ mem \in [Cell -> Word]
  /\ buf = [h \in Harts |-> <<>>]
  /\ stage = [h \in Harts |-> "fetch"]
  /\ inst = [h \in Harts |-> NoInst]
  /\ ret = [h \in Harts |-> Zero]
  /\ rd = [h \in Harts |-> Zero]
  /\ trap = [h \in Harts |-> "none"]
  /\ reserve_address = [h \in Harts |-> 0]
  /\ reserve_value = [h \in Harts |-> Zero]

-----------------------------------------------------------------------------
(***************************************************************************)
(* The start of an instruction: the checks before the memory is touched.   *)
(***************************************************************************)
Faults(h, cause) ==
  /\ trap' = [trap EXCEPT ![h] = cause]
  /\ UNCHANGED <<mem, buf, stage, inst, ret, rd, reservation>>

AccessFault(h, i) ==
  /\ stage[h] = "fetch"
  /\ ~Aligned(i.addr)
  /\ Faults(h, AccessFaultCause(i))

PageFault(h, i) ==
  /\ stage[h] = "fetch"
  /\ Aligned(i.addr)
  /\ ~Mapped(i)
  /\ Faults(h, PageFaultCause(i))

Start(h, i) ==
  /\ stage[h] = "fetch"
  /\ Aligned(i.addr)
  /\ Mapped(i)
  /\ stage' = [stage EXCEPT ![h] = "access"]
  /\ inst' = [inst EXCEPT ![h] = i]
  /\ UNCHANGED <<mem, buf, ret, rd, trap, reservation>>

-----------------------------------------------------------------------------
(***************************************************************************)
(* The accesses.  Retires is the end of an instruction: set_x and inc_pc.  *)
(***************************************************************************)
At(h, op)  == stage[h] = "access" /\ inst[h].op = op
Addr(h)    == inst[h].addr
Flushed(h) == buf[h] = <<>>

Completes(h) ==
  /\ stage' = [stage EXCEPT ![h] = "fetch"]
  /\ inst' = [inst EXCEPT ![h] = NoInst]
  /\ ret' = [ret EXCEPT ![h] = Zero]
  /\ trap' = [trap EXCEPT ![h] = "none"]

Retires(h, value) ==
  /\ Completes(h)
  /\ rd' = [rd EXCEPT ![h] = value]

Writes(h, value) == mem' = [mem EXCEPT ![Addr(h)] = value]

Load(h) ==
  /\ At(h, "lw")
  /\ Retires(h, Sees(h, Addr(h)))
  /\ UNCHANGED <<mem, buf, reservation>>

StoreWord(h) ==
  /\ At(h, "sw")
  /\ Len(buf[h]) < BufferSlots
  /\ buf' = [buf EXCEPT ![h] =
               Append(@, [addr |-> Addr(h), val |-> inst[h].rs2])]
  /\ Completes(h)
  /\ UNCHANGED <<mem, rd, reservation>>

\* Mutant: the reservation keeps the value of an earlier LR or SC.
LoadReserved_KeepsValue(h) ==
  /\ At(h, "lr")
  /\ reserve_address' = [reserve_address EXCEPT ![h] = Addr(h)]
  /\ Retires(h, Sees(h, Addr(h)))
  /\ UNCHANGED <<mem, buf, reserve_value>>

LoadReserved(h) ==
  /\ At(h, "lr")
  /\ reserve_address' = [reserve_address EXCEPT ![h] = Addr(h)]
  /\ reserve_value' = [reserve_value EXCEPT ![h] = Sees(h, Addr(h))]
  /\ Retires(h, Sees(h, Addr(h)))
  /\ UNCHANGED <<mem, buf>>

\* reserve_address == addr is false: the memory is not looked at
ScOtherAddress(h) ==
  /\ At(h, "sc")
  /\ reserve_address[h] # Addr(h)
  /\ Retires(h, One)
  /\ UNCHANGED <<mem, buf, reservation>>

\* Mutants: the exchange does not compare, does not check the address,
\* compares with the new value, or reports what a failure reports.
ScSucceeds_AnyValue(h) ==
  /\ At(h, "sc") /\ Flushed(h)
  /\ reserve_address[h] = Addr(h)
  /\ Writes(h, inst[h].rs2)
  /\ Retires(h, Zero)
  /\ UNCHANGED <<buf, reservation>>

ScSucceeds_AnyAddress(h) ==
  /\ At(h, "sc") /\ Flushed(h)
  /\ reserve_value[h] = mem[Addr(h)]
  /\ Writes(h, inst[h].rs2)
  /\ Retires(h, Zero)
  /\ UNCHANGED <<buf, reservation>>

ScSucceeds_Swapped(h) ==
  /\ At(h, "sc") /\ Flushed(h)
  /\ reserve_address[h] = Addr(h)
  /\ inst[h].rs2 = mem[Addr(h)]
  /\ Writes(h, reserve_value[h])
  /\ Retires(h, Zero)
  /\ UNCHANGED <<buf, reservation>>

ScSucceeds_ReportsOne(h) ==
  /\ At(h, "sc") /\ Flushed(h)
  /\ reserve_address[h] = Addr(h)
  /\ reserve_value[h] = mem[Addr(h)]
  /\ Writes(h, inst[h].rs2)
  /\ Retires(h, One)
  /\ UNCHANGED <<buf, reservation>>

\* compare_exchange_weak(reserve_value, x[rs2]) exchanges
ScSucceeds(h) ==
  /\ At(h, "sc")
  /\ Flushed(h)
  /\ reserve_address[h] = Addr(h)
  /\ reserve_value[h] = mem[Addr(h)]
  /\ Writes(h, inst[h].rs2)
  /\ Retires(h, Zero)
  /\ UNCHANGED <<buf, reservation>>

\* It does not, because the values differ or spuriously, and stores the
\* value it found in reserve_value.
ScFails(h) ==
  /\ At(h, "sc")
  /\ Flushed(h)
  /\ reserve_address[h] = Addr(h)
  /\ reserve_value' = [reserve_value EXCEPT ![h] = mem[Addr(h)]]
  /\ Retires(h, One)
  /\ UNCHANGED <<mem, buf, reserve_address>>

AmoFetch(h) ==
  /\ stage[h] = "access"
  /\ inst[h].op \in FetchOps
  /\ Flushed(h)
  /\ Writes(h, Fetch(inst[h].op, mem[Addr(h)], inst[h].rs2))
  /\ Retires(h, mem[Addr(h)])
  /\ UNCHANGED <<buf, reservation>>

\* XLenT ret = a->load(), and the loop is not entered
AmoLoadKeeps(h) ==
  /\ stage[h] = "access"
  /\ inst[h].op \in LoopOps
  /\ ~Replaces(inst[h].op, Sees(h, Addr(h)), inst[h].rs2)
  /\ Retires(h, Sees(h, Addr(h)))
  /\ UNCHANGED <<mem, buf, reservation>>

\* XLenT ret = a->load(), and the loop is entered
AmoLoadEnters(h) ==
  /\ stage[h] = "access"
  /\ inst[h].op \in LoopOps
  /\ Replaces(inst[h].op, Sees(h, Addr(h)), inst[h].rs2)
  /\ ret' = [ret EXCEPT ![h] = Sees(h, Addr(h))]
  /\ stage' = [stage EXCEPT ![h] = "exchange"]
  /\ UNCHANGED <<mem, buf, inst, rd, trap, reservation>>

AmoExchangeSucceeds(h) ==
  /\ stage[h] = "exchange"
  /\ Flushed(h)
  /\ mem[Addr(h)] = ret[h]
  /\ Writes(h, inst[h].rs2)
  /\ Retires(h, ret[h])
  /\ UNCHANGED <<buf, reservation>>

\* Mutant: the loop returns the value of the load, not of the exchange.
AmoExchangeKeeps_Stale(h) ==
  /\ stage[h] = "exchange"
  /\ Flushed(h)
  /\ ~Replaces(inst[h].op, mem[Addr(h)], inst[h].rs2)
  /\ Retires(h, ret[h])
  /\ UNCHANGED <<mem, buf, reservation>>

\* The exchange fails, `ret` is what it found, and the loop is left or not.
AmoExchangeKeeps(h) ==
  /\ stage[h] = "exchange"
  /\ Flushed(h)
  /\ ~Replaces(inst[h].op, mem[Addr(h)], inst[h].rs2)
  /\ Retires(h, mem[Addr(h)])
  /\ UNCHANGED <<mem, buf, reservation>>

\* Mutants: the loop does not test the value the exchange found, or does not
\* take it over.
AmoExchangeRetries_NoTest(h) ==
  /\ stage[h] = "exchange"
  /\ Flushed(h)
  /\ ret' = [ret EXCEPT ![h] = mem[Addr(h)]]
  /\ UNCHANGED <<mem, buf, stage, inst, rd, trap, reservation>>

AmoExchangeRetries_SameRet(h) ==
  /\ stage[h] = "exchange"
  /\ Flushed(h)
  /\ Replaces(inst[h].op, mem[Addr(h)], inst[h].rs2)
  /\ UNCHANGED vars

AmoExchangeRetries(h) ==
  /\ stage[h] = "exchange"
  /\ Flushed(h)
  /\ Replaces(inst[h].op, mem[Addr(h)], inst[h].rs2)
  /\ ret' = [ret EXCEPT ![h] = mem[Addr(h)]]
  /\ UNCHANGED <<mem, buf, stage, inst, rd, trap, reservation>>

\* Mutant: a weakly ordered host, whose stores leave the buffer in any order.
Drain_AnyOrder(h) ==
  /\ ~Flushed(h)
  /\ \E k \in 1 .. Len(buf[h]) :
       /\ mem' = [mem EXCEPT ![buf[h][k].addr] = buf[h][k].val]
       /\ buf' = [buf EXCEPT ![h] = SubSeq(@, 1, k - 1)
                                       \o SubSeq(@, k + 1, Len(@))]
  /\ UNCHANGED <<stage, inst, ret, rd, trap, reservation>>

\* The host processor writes the oldest waiting store of h to the memory.
Drain(h) ==
  /\ ~Flushed(h)
  /\ mem' = [mem EXCEPT ![Head(buf[h]).addr] = Head(buf[h]).val]
  /\ buf' = [buf EXCEPT ![h] = Tail(@)]
  /\ UNCHANGED <<stage, inst, ret, rd, trap, reservation>>

-----------------------------------------------------------------------------
Begins(h, i) == AccessFault(h, i) \/ PageFault(h, i) \/ Start(h, i)

StoreConditional(h) == ScOtherAddress(h) \/ ScSucceeds(h) \/ ScFails(h)

AmoLoop(h) ==
  \/ AmoLoadKeeps(h) \/ AmoLoadEnters(h)
  \/ AmoExchangeSucceeds(h) \/ AmoExchangeKeeps(h) \/ AmoExchangeRetries(h)

Continues(h) ==
  \/ Load(h) \/ StoreWord(h)
  \/ LoadReserved(h) \/ StoreConditional(h)
  \/ AmoFetch(h) \/ AmoLoop(h)

Next ==
  \E h \in Harts :
    \/ \E i \in Issued : Begins(h, i)
    \/ Continues(h)
    \/ Drain(h)

Safety == Init /\ [][Next]_vars

(***************************************************************************)
(* Fairness.  A thread that is in an instruction goes on with it and the   *)
(* host drains its buffers.  An exchange that stays possible happens: the  *)
(* standard asks of compare_exchange_weak that it does not fail spuriously *)
(* for ever.  Weak fairness does not help a hart whose cell the others     *)
(* keep changing, and nothing makes guest code start another instruction.  *)
(***************************************************************************)
Fairness ==
  \A h \in Harts :
    /\ WF_vars(Continues(h))
    /\ WF_vars(Drain(h))
    /\ WF_vars(AmoExchangeSucceeds(h))

Spec == Safety /\ Fairness

-----------------------------------------------------------------------------
TypeOK ==
  /\ mem \in [Cell -> Word]
  /\ buf \in [Harts -> Seq(Store)]
  /\ stage \in [Harts -> {"fetch", "access", "exchange"}]
  /\ inst \in [Harts -> Inst \cup {NoInst}]
  /\ ret \in [Harts -> Word]
  /\ rd \in [Harts -> Word]
  /\ trap \in [Harts -> Causes \cup {"none"}]
  /\ reserve_address \in [Harts -> Addrs]
  /\ reserve_value \in [Harts -> Word]

(***************************************************************************)
(* What a hart in the middle of an instruction relies on: the callbacks    *)
(* mapped its cell, the address was checked, and an AMO that is about to   *)
(* exchange holds a value its operator does replace (the test of the loop  *)
(* of AMOMIN::op precedes the exchange also when the exchange found a new  *)
(* value).  The memory writes through ptr are right only under it.         *)
(***************************************************************************)
InFlightOK ==
  \A h \in Harts :
    /\ stage[h] = "fetch" <=> inst[h] = NoInst
    /\ stage[h] # "fetch" =>
         inst[h] \in Inst /\ Aligned(Addr(h)) /\ Mapped(inst[h])
    /\ stage[h] = "exchange" =>
         /\ inst[h].op \in LoopOps
         /\ Replaces(inst[h].op, ret[h], inst[h].rs2)

(***************************************************************************)
(* The promise: the steps of an AMO loop add up to one atomic instruction, *)
(* and so do the two halves of a store conditional.                        *)
(***************************************************************************)
Link == [h \in Harts |-> <<reserve_address[h], reserve_value[h]>>]

Promise == INSTANCE AtomicMemory WITH pending <- inst, link <- Link

ImplementsPromise == Promise!Spec

(***************************************************************************)
(* The promise uses the operators of the code.  That each of them computes *)
(* what the RISC-V manual says is stated on the numbers words stand for:   *)
(* the cell gets the result and rd the value it replaced; an AMO that      *)
(* writes nothing returns a value that is its own result.                  *)
(***************************************************************************)
Unsigned(a) == MapThenSumSet(LAMBDA i : 2^i, a)
Signed(a) == IF W - 1 \in a THEN Unsigned(a) - 2^W ELSE Unsigned(a)

AmoResult(op, old, b, new) ==
  CASE op = "amoswap" -> new = b
    [] op = "amoadd"  -> Unsigned(new) = (Unsigned(old) + Unsigned(b)) % 2^W
    [] op = "amoand"  -> \A i \in Bits : i \in new <=> i \in old /\ i \in b
    [] op = "amoor"   -> \A i \in Bits : i \in new <=> i \in old \/ i \in b
    [] op = "amoxor"  -> \A i \in Bits : i \in new <=> (i \in old <=> i \notin b)
    [] OTHER ->
         /\ new \in {old, b}
         /\ \A v \in {old, b} :
              CASE op = "amomin"  -> Signed(new) <= Signed(v)
                [] op = "amomax"  -> Signed(new) >= Signed(v)
                [] op = "amominu" -> Unsigned(new) <= Unsigned(v)
                [] op = "amomaxu" -> Unsigned(new) >= Unsigned(v)

AmosAsManual ==
  [][\A h \in Harts :
       LET a == Addr(h)
           result(old, new) == AmoResult(inst[h].op, old, inst[h].rs2, new)
       IN stage[h] # "fetch" /\ stage'[h] = "fetch"
            /\ inst[h].op \in FetchOps \cup LoopOps
          => \/ rd'[h] = mem[a] /\ result(mem[a], mem'[a])
             \/ rd'[h] = Sees(h, a) /\ result(rd'[h], rd'[h]) /\ mem' = mem]_vars

(***************************************************************************)
(* The compare-and-exchange loops are lock-free: a hart leaves its loop    *)
(* unless the memory keeps changing under it.                              *)
(***************************************************************************)
LoopsEnd ==
  \A h \in Harts :
    \/ []<>(stage[h] # "exchange")
    \/ []<><<mem' # mem>>_vars
=============================================================================
