--------------------------- MODULE Atomics_proofs ---------------------------
(***************************************************************************)
(* Proofs about Atomics, for any number of harts, any memory map, any word *)
(* width and any bound on the store buffers: its types, what a hart in the *)
(* middle of an instruction relies on, that the detailed accesses          *)
(* implement the atomic instructions of AtomicMemory, and that these       *)
(* compute, on the numbers words stand for, what the RISC-V manual says.   *)
(***************************************************************************)
EXTENDS Atomics, Binary_proofs

-----------------------------------------------------------------------------
(***************************************************************************)
(* The operators the accesses are built from return what their names say.  *)
(***************************************************************************)

\* The AMOs of one std::atomic call yield a word (operators.hpp:229-267).
LEMMA FetchType ==
  ASSUME NEW op \in FetchOps, NEW old \in Word, NEW b \in Word
  PROVE  Fetch(op, old, b) \in Word
BY DEF FetchOps, Fetch, Word, Add, And, Or, Xor

\* A load returns a word, from the store buffer or from the memory.
LEMMA ViewType ==
  ASSUME NEW m \in [Cell -> Word], NEW q \in Seq(Store), NEW a \in Cell
  PROVE  View(m, q, a) \in Word
<1>1. CASE NewestStores(q, a) = {}
  BY <1>1 DEF View
<1>2. CASE NewestStores(q, a) # {}
  <2> DEFINE k == CHOOSE k \in NewestStores(q, a) : TRUE
  <2>1. k \in 1 .. Len(q)
    BY <1>2 DEF NewestStores
  <2>2. q[k] \in Store
    BY <2>1
  <2>3. q[k].val \in Word
    BY <2>2 DEF Store
  <2> QED
    BY <1>2, <2>3 DEF View
<1> QED
  BY <1>1, <1>2

\* Without waiting stores a load reads the memory itself.
LEMMA ViewEmpty ==
  ASSUME NEW m, NEW a
  PROVE  View(m, <<>>, a) = m[a]
BY DEF View, NewestStores

\* A mapped, aligned address is a cell of the memory.
LEMMA MappedCell ==
  ASSUME NEW i \in Inst, Aligned(i.addr), Mapped(i)
  PROVE  i.addr \in Cell
BY DEF Mapped, Cell

\* An instruction is never the placeholder for the absence of one.
LEMMA InstIsSome == \A i \in Inst : i # NoInst
BY IssuedAssumption

-----------------------------------------------------------------------------
(***************************************************************************)
(* The inductive invariant: the types, and what is known of a hart that is *)
(* in the middle of an instruction.  The types alone are not inductive: a  *)
(* write through ptr stays inside the memory only because the address of   *)
(* the instruction was checked when it started.                            *)
(***************************************************************************)
AtomicsInv == TypeOK /\ InFlightOK

LEMMA InitInv == Init => AtomicsInv
BY AddrAssumption, IssuedAssumption
   DEF Init, AtomicsInv, TypeOK, InFlightOK, Word, Zero

\* In the middle of an instruction the address is a cell.
LEMMA BusyCell ==
  ASSUME AtomicsInv, NEW h \in Harts, stage[h] # "fetch"
  PROVE  Addr(h) \in Cell /\ inst[h] \in Inst
BY MappedCell DEF AtomicsInv, InFlightOK, Addr

\* What a load would return is a word.
LEMMA SeesType ==
  ASSUME AtomicsInv, NEW h \in Harts, NEW a \in Cell
  PROVE  Sees(h, a) \in Word
BY ViewType DEF AtomicsInv, TypeOK, Sees

\* The end of an instruction keeps the invariant if its effect is typed.
LEMMA CompletesInv ==
  ASSUME AtomicsInv, NEW h \in Harts, Completes(h),
         mem' \in [Cell -> Word], buf' \in [Harts -> Seq(Store)],
         rd' \in [Harts -> Word],
         reserve_address' \in [Harts -> Addrs],
         reserve_value' \in [Harts -> Word]
  PROVE  AtomicsInv'
<1> USE DEF Completes, AtomicsInv, TypeOK
<1>1. TypeOK'
  BY DEF Word, Zero
<1>2. InFlightOK'
  <2> SUFFICES ASSUME NEW g \in Harts
               PROVE  /\ stage'[g] = "fetch" <=> inst'[g] = NoInst
                      /\ stage'[g] # "fetch" =>
                           /\ inst'[g] \in Inst
                           /\ Aligned(inst'[g].addr) /\ Mapped(inst'[g])
                      /\ stage'[g] = "exchange" =>
                           /\ inst'[g].op \in LoopOps
                           /\ Replaces(inst'[g].op, ret'[g], inst'[g].rs2)
    BY DEF InFlightOK, Addr
  <2>1. CASE g = h
    BY <2>1
  <2>2. CASE g # h
    BY <2>2 DEF InFlightOK, Addr
  <2> QED
    BY <2>1, <2>2
<1> QED
  BY <1>1, <1>2

\* The start of an instruction keeps the invariant.
LEMMA BeginsInv ==
  ASSUME AtomicsInv, NEW h \in Harts, NEW i \in Issued, Begins(h, i)
  PROVE  AtomicsInv'
<1> USE DEF AtomicsInv, TypeOK
<1>1. i \in Inst /\ i # NoInst
  BY IssuedAssumption
<1>2. CASE AccessFault(h, i) \/ PageFault(h, i)
  <2>1. TypeOK'
    BY <1>1, <1>2
       DEF AccessFault, PageFault, Faults, reservation, Causes,
           AccessFaultCause, PageFaultCause
  <2>2. InFlightOK'
    BY <1>2 DEF AccessFault, PageFault, Faults, InFlightOK, Addr
  <2> QED
    BY <2>1, <2>2
<1>3. CASE Start(h, i)
  <2>1. TypeOK'
    BY <1>1, <1>3 DEF Start, reservation
  <2>2. InFlightOK'
    BY <1>1, <1>3 DEF Start, reservation, InFlightOK, Addr
  <2> QED
    BY <2>1, <2>2
<1> QED
  BY <1>2, <1>3 DEF Begins

\* So does every access to the memory.
LEMMA ContinuesInv ==
  ASSUME AtomicsInv, NEW h \in Harts, Continues(h)
  PROVE  AtomicsInv'
<1> USE DEF AtomicsInv, Retires, reservation
<1>1. CASE Load(h) \/ LoadReserved(h) \/ AmoLoadKeeps(h)
  <2>1. Addr(h) \in Cell /\ Addr(h) \in Addrs
    BY <1>1, BusyCell, AddrAssumption
       DEF Load, LoadReserved, AmoLoadKeeps, At, Cell
  <2>2. Sees(h, Addr(h)) \in Word
    BY <2>1, SeesType
  <2>3. /\ Completes(h)
        /\ mem' = mem /\ buf' = buf
        /\ rd' = [rd EXCEPT ![h] = Sees(h, Addr(h))]
    BY <1>1 DEF Load, LoadReserved, AmoLoadKeeps
  <2>4. /\ reserve_address' \in [Harts -> Addrs]
        /\ reserve_value' \in [Harts -> Word]
    <3>1. CASE LoadReserved(h)
      BY <2>1, <2>2, <3>1 DEF LoadReserved, TypeOK
    <3>2. CASE Load(h) \/ AmoLoadKeeps(h)
      BY <3>2 DEF Load, AmoLoadKeeps, TypeOK
    <3> QED
      BY <1>1, <3>1, <3>2
  <2> QED
    BY <2>2, <2>3, <2>4, CompletesInv DEF TypeOK
<1>2. CASE StoreWord(h)
  <2>1. [addr |-> Addr(h), val |-> inst[h].rs2] \in Store
    BY <1>2, BusyCell DEF StoreWord, At, Store, Inst
  <2>2. buf' \in [Harts -> Seq(Store)]
    BY <1>2, <2>1 DEF StoreWord, TypeOK
  <2> QED
    BY <1>2, <2>2, CompletesInv DEF StoreWord, TypeOK
<1>3. CASE StoreConditional(h)
  <2>1. Addr(h) \in Cell /\ inst[h].rs2 \in Word
    BY <1>3, BusyCell
       DEF StoreConditional, ScOtherAddress, ScSucceeds, ScFails, At, Inst
  <2>2. mem' \in [Cell -> Word] /\ reserve_value' \in [Harts -> Word]
    BY <1>3, <2>1
       DEF StoreConditional, ScOtherAddress, ScSucceeds, ScFails, Writes,
           TypeOK
  <2>3. Zero \in Word /\ One \in Word
    BY WAssumption DEF Word, Bits, Zero, One
  <2>4. rd' \in [Harts -> Word]
    BY <1>3, <2>3
       DEF StoreConditional, ScOtherAddress, ScSucceeds, ScFails, TypeOK
  <2> QED
    <3>1. /\ Completes(h)
          /\ buf' = buf /\ reserve_address' = reserve_address
      BY <1>3 DEF StoreConditional, ScOtherAddress, ScSucceeds, ScFails
    <3> QED
      BY <2>2, <2>4, <3>1, CompletesInv DEF TypeOK
<1>4. CASE AmoFetch(h)
  <2>1. Addr(h) \in Cell /\ inst[h].rs2 \in Word /\ mem[Addr(h)] \in Word
    BY <1>4, BusyCell DEF AmoFetch, Inst, TypeOK
  <2>2. mem' \in [Cell -> Word]
    BY <1>4, <2>1, FetchType DEF AmoFetch, Writes, TypeOK
  <2> QED
    BY <1>4, <2>1, <2>2, CompletesInv DEF AmoFetch, TypeOK
<1>5. CASE AmoLoadEnters(h)
  <2>1. Addr(h) \in Cell /\ inst[h] \in Inst
    BY <1>5, BusyCell DEF AmoLoadEnters
  <2>2. Sees(h, Addr(h)) \in Word
    BY <2>1, SeesType
  <2>3. TypeOK'
    BY <1>5, <2>2 DEF AmoLoadEnters, TypeOK
  <2>4. InFlightOK'
    BY <1>5, <2>1, <2>2 DEF AmoLoadEnters, TypeOK, InFlightOK, Addr
  <2> QED
    BY <2>3, <2>4
<1>6. CASE AmoExchangeSucceeds(h) \/ AmoExchangeKeeps(h)
  <2>1. Addr(h) \in Cell /\ inst[h].rs2 \in Word /\ mem[Addr(h)] \in Word
    BY <1>6, BusyCell DEF AmoExchangeSucceeds, AmoExchangeKeeps, Inst, TypeOK
  <2>2. mem' \in [Cell -> Word]
    BY <1>6, <2>1 DEF AmoExchangeSucceeds, AmoExchangeKeeps, Writes, TypeOK
  <2> QED
    <3>1. /\ Completes(h)
          /\ buf' = buf /\ reserve_address' = reserve_address
          /\ reserve_value' = reserve_value
          /\ \/ rd' = [rd EXCEPT ![h] = ret[h]]
             \/ rd' = [rd EXCEPT ![h] = mem[Addr(h)]]
      BY <1>6 DEF AmoExchangeSucceeds, AmoExchangeKeeps
    <3>2. rd' \in [Harts -> Word]
      BY <2>1, <3>1 DEF TypeOK
    <3> QED
      BY <2>2, <3>1, <3>2, CompletesInv DEF TypeOK
<1>7. CASE AmoExchangeRetries(h)
  <2>1. Addr(h) \in Cell /\ mem[Addr(h)] \in Word
    BY <1>7, BusyCell DEF AmoExchangeRetries, TypeOK
  <2>2. TypeOK'
    BY <1>7, <2>1 DEF AmoExchangeRetries, TypeOK
  <2>3. InFlightOK'
    BY <1>7, <2>1 DEF AmoExchangeRetries, TypeOK, InFlightOK, Addr
  <2> QED
    BY <2>2, <2>3
<1> QED
  BY <1>1, <1>2, <1>3, <1>4, <1>5, <1>6, <1>7 DEF Continues, AmoLoop

\* The host moves typed stores only.
LEMMA DrainInv ==
  ASSUME AtomicsInv, NEW h \in Harts, Drain(h)
  PROVE  AtomicsInv'
<1> USE DEF AtomicsInv, TypeOK
<1>1. buf[h] \in Seq(Store) /\ buf[h] # <<>>
  BY DEF Drain, Flushed
<1>2. Head(buf[h]) \in Store /\ Tail(buf[h]) \in Seq(Store)
  BY <1>1
<1>3. TypeOK'
  BY <1>2 DEF Drain, reservation, Store
<1>4. InFlightOK'
  BY DEF Drain, reservation, InFlightOK, Addr
<1> QED
  BY <1>3, <1>4

\* AtomicsInv is inductive.
LEMMA NextInv == AtomicsInv /\ [Next]_vars => AtomicsInv'
<1> SUFFICES ASSUME AtomicsInv, [Next]_vars PROVE AtomicsInv'
  OBVIOUS
<1>1. CASE UNCHANGED vars
  BY <1>1 DEF vars, reservation, AtomicsInv, TypeOK, InFlightOK, Addr
<1>2. CASE Next
  BY <1>2, BeginsInv, ContinuesInv, DrainInv DEF Next
<1> QED
  BY <1>1, <1>2

(***************************************************************************)
(* Every step of every number of harts keeps the types (hart.hpp:460-570). *)
(***************************************************************************)
THEOREM TypeCorrect == Safety => []TypeOK
<1>1. AtomicsInv => TypeOK
  BY DEF AtomicsInv
<1> QED
  BY InitInv, NextInv, <1>1, PTL DEF Safety

(***************************************************************************)
(* A hart in the middle of an instruction has a checked, mapped cell, and  *)
(* an AMO about to exchange holds a value its operator replaces            *)
(* (hart.hpp:471-478, operators.hpp:277).                                  *)
(***************************************************************************)
THEOREM InFlightCorrect == Safety => []InFlightOK
<1>1. AtomicsInv => InFlightOK
  BY DEF AtomicsInv
<1> QED
  BY InitInv, NextInv, <1>1, PTL DEF Safety

-----------------------------------------------------------------------------
(***************************************************************************)
(* Refinement.  A hart is in an instruction of AtomicMemory from Start to  *)
(* Completes; the load of an AMO loop that enters the loop and an exchange *)
(* that fails and retries are invisible, the access that ends the          *)
(* instruction is the instant at which it takes effect.                    *)
(***************************************************************************)

\* Both specifications speak of the memory instructions in the same words.
LEMMA SameVocabulary ==
  /\ Promise!Cell = Cell /\ Promise!Word = Word
  /\ Promise!Zero = Zero /\ Promise!One = One
  /\ Promise!FetchOps = FetchOps /\ Promise!LoopOps = LoopOps
  /\ \A i : /\ Promise!Aligned(i.addr) = Aligned(i.addr)
            /\ Promise!Mapped(i) = Mapped(i)
            /\ Promise!AccessFaultCause(i) = AccessFaultCause(i)
            /\ Promise!PageFaultCause(i) = PageFaultCause(i)
  /\ \A m, q, a : Promise!View(m, q, a) = View(m, q, a)
  /\ \A op, old, b : /\ Promise!Fetch(op, old, b) = Fetch(op, old, b)
                     /\ Promise!Replaces(op, old, b) = Replaces(op, old, b)
<1>1. /\ Promise!Cell = Cell /\ Promise!Word = Word
      /\ Promise!Zero = Zero /\ Promise!One = One
      /\ Promise!FetchOps = FetchOps /\ Promise!LoopOps = LoopOps
  BY DEF Promise!Cell, Cell, Promise!Aligned, Aligned, Promise!Word, Word,
         Promise!Bits, Bits, Promise!Zero, Zero, Promise!One, One,
         Promise!FetchOps, FetchOps, Promise!LoopOps, LoopOps
<1>2. \A i : /\ Promise!Aligned(i.addr) = Aligned(i.addr)
            /\ Promise!Mapped(i) = Mapped(i)
            /\ Promise!AccessFaultCause(i) = AccessFaultCause(i)
            /\ Promise!PageFaultCause(i) = PageFaultCause(i)
  BY DEF Promise!Aligned, Aligned, Promise!Mapped, Mapped,
         Promise!LoadOps, LoadOps,
         Promise!AccessFaultCause, AccessFaultCause,
         Promise!PageFaultCause, PageFaultCause
<1>3. \A m, q, a : Promise!View(m, q, a) = View(m, q, a)
  BY DEF Promise!View, View, Promise!NewestStores, NewestStores
<1>4. \A op, old, b : Promise!Fetch(op, old, b) = Fetch(op, old, b)
  BY DEF Promise!Fetch, Fetch, Promise!Add, Add, Promise!And, And,
         Promise!Or, Or, Promise!Xor, Xor, Promise!CarryInto, CarryInto,
         Promise!Bits, Bits
<1>5. \A op, old, b : Promise!Replaces(op, old, b) = Replaces(op, old, b)
  BY DEF Promise!Replaces, Replaces, Promise!LT, LT, Promise!LTU, LTU,
         Promise!Xor, Xor, Promise!SignBit, SignBit, Promise!Bits, Bits
<1> QED
  BY <1>1, <1>2, <1>3, <1>4, <1>5

LEMMA RefinesInit == Init => Promise!Init
BY SameVocabulary DEF Init, Promise!Init, Link

\* The reservation of the promise changes with that of the hart only.
LEMMA LinkUnchanged ==
  ASSUME UNCHANGED reservation
  PROVE  Link' = Link
BY DEF reservation, Link

\* Starting an instruction, or refusing to.
LEMMA RefinesBegins ==
  ASSUME AtomicsInv, NEW h \in Harts, NEW i \in Issued, Begins(h, i)
  PROVE  Promise!Fault(h, i) \/ Promise!Begin(h, i)
<1>1. inst[h] = NoInst
  BY DEF Begins, AccessFault, PageFault, Start, AtomicsInv, InFlightOK
<1>2. CASE AccessFault(h, i) \/ PageFault(h, i)
  BY <1>1, <1>2, LinkUnchanged, SameVocabulary
     DEF AccessFault, PageFault, Faults, Promise!Fault
<1>3. CASE Start(h, i)
  BY <1>1, <1>3, LinkUnchanged, SameVocabulary DEF Start, Promise!Begin
<1> QED
  BY <1>2, <1>3 DEF Begins

\* The end of an instruction is the same event in both specifications.
LEMMA RefinesRetires ==
  ASSUME NEW h \in Harts, NEW v, Retires(h, v)
  PROVE  Promise!Returns(h, v)
BY SameVocabulary DEF Retires, Completes, Promise!Returns, Promise!Ends

LEMMA RefinesPlain ==
  ASSUME AtomicsInv, NEW h \in Harts, Load(h) \/ StoreWord(h)
  PROVE  Promise!Load(h) \/ Promise!StoreWord(h)
<1>1. inst[h] # NoInst
  BY DEF Load, StoreWord, At, AtomicsInv, InFlightOK
<1>2. CASE Load(h)
  BY <1>1, <1>2, LinkUnchanged, RefinesRetires, SameVocabulary
     DEF Load, At, Addr, Sees, Promise!Load, Promise!Op, Promise!Addr,
         Promise!Sees
<1>3. CASE StoreWord(h)
  BY <1>1, <1>3, LinkUnchanged, SameVocabulary
     DEF StoreWord, At, Addr, Completes, Promise!StoreWord, Promise!Op,
         Promise!Addr, Promise!Ends
<1> QED
  BY <1>2, <1>3

LEMMA RefinesReserved ==
  ASSUME AtomicsInv, NEW h \in Harts, LoadReserved(h) \/ StoreConditional(h)
  PROVE  \/ Promise!LoadReserved(h)
         \/ Promise!ScSucceeds(h) \/ Promise!ScFails(h)
<1> USE DEF At, Addr, Promise!Op, Promise!Addr
<1>0. Link[h] = <<reserve_address[h], reserve_value[h]>>
  BY DEF Link
<1>1. inst[h] # NoInst
  BY DEF LoadReserved, StoreConditional, ScOtherAddress, ScSucceeds, ScFails,
         AtomicsInv, InFlightOK
<1>2. CASE LoadReserved(h)
  <2>1. Link' = [Link EXCEPT ![h] = <<Addr(h), Sees(h, Addr(h))>>]
    BY <1>2 DEF LoadReserved, Link, AtomicsInv, TypeOK
  <2> QED
    BY <1>1, <1>2, <2>1, RefinesRetires, SameVocabulary
       DEF LoadReserved, Sees, Promise!LoadReserved, Promise!Sees
<1>3. CASE ScOtherAddress(h)
  BY <1>1, <1>3, LinkUnchanged, RefinesRetires, SameVocabulary
     DEF ScOtherAddress, Promise!ScFails
<1>4. CASE ScSucceeds(h)
  BY <1>0, <1>1, <1>4, LinkUnchanged, RefinesRetires, SameVocabulary
     DEF ScSucceeds, Writes, Flushed, Promise!ScSucceeds, Promise!Flushed
<1>5. CASE ScFails(h)
  <2>1. Link' = [Link EXCEPT ![h] = <<Addr(h), mem[Addr(h)]>>]
    BY <1>5 DEF ScFails, Link, AtomicsInv, TypeOK
  <2> QED
    BY <1>0, <1>1, <1>5, <2>1, RefinesRetires, SameVocabulary
       DEF ScFails, Promise!ScFails
<1> QED
  BY <1>2, <1>3, <1>4, <1>5 DEF StoreConditional

\* The AMOs: a fetch operation, and the accesses that end a loop.
LEMMA RefinesAmo ==
  ASSUME AtomicsInv, NEW h \in Harts,
         \/ AmoFetch(h) \/ AmoLoadKeeps(h)
         \/ AmoExchangeSucceeds(h) \/ AmoExchangeKeeps(h)
  PROVE  Promise!AmoAtomic(h) \/ Promise!AmoReadOnly(h)
<1> USE DEF Addr, Promise!Op, Promise!Addr, Promise!Result
<1>1. inst[h] # NoInst
  BY DEF AmoFetch, AmoLoadKeeps, AmoExchangeSucceeds, AmoExchangeKeeps,
         AtomicsInv, InFlightOK
<1>2. FetchOps \cap LoopOps = {}
  BY DEF FetchOps, LoopOps
<1>3. CASE AmoFetch(h)
  BY <1>1, <1>3, LinkUnchanged, RefinesRetires, SameVocabulary
     DEF AmoFetch, Writes, Flushed, Promise!AmoAtomic, Promise!Flushed,
         AtomicsInv, TypeOK
<1>4. CASE AmoLoadKeeps(h)
  BY <1>1, <1>2, <1>4, LinkUnchanged, RefinesRetires, SameVocabulary
     DEF AmoLoadKeeps, Sees, Promise!AmoReadOnly, Promise!Sees
<1>5. CASE AmoExchangeSucceeds(h)
  <2>1. inst[h].op \in LoopOps /\ Replaces(inst[h].op, ret[h], inst[h].rs2)
    BY <1>5 DEF AmoExchangeSucceeds, AtomicsInv, InFlightOK
  <2>2. Promise!Result(inst[h].op, mem[Addr(h)], inst[h].rs2) = inst[h].rs2
    BY <1>2, <1>5, <2>1, SameVocabulary DEF AmoExchangeSucceeds
  <2> QED
    BY <1>1, <1>5, <2>1, <2>2, LinkUnchanged, RefinesRetires, SameVocabulary
       DEF AmoExchangeSucceeds, Writes, Flushed, Promise!AmoAtomic,
           Promise!Flushed, AtomicsInv, TypeOK
<1>6. CASE AmoExchangeKeeps(h)
  <2>1. inst[h].op \in LoopOps
    BY <1>6 DEF AmoExchangeKeeps, AtomicsInv, InFlightOK
  <2>2. Promise!Sees(h) = mem[Addr(h)]
    BY <1>6, ViewEmpty, SameVocabulary DEF AmoExchangeKeeps, Flushed, Promise!Sees
  <2> QED
    BY <1>1, <1>2, <1>6, <2>1, <2>2, LinkUnchanged, RefinesRetires, SameVocabulary
       DEF AmoExchangeKeeps, Promise!AmoReadOnly
<1> QED
  BY <1>3, <1>4, <1>5, <1>6

\* The accesses that do not end an AMO change nothing the promise speaks of.
LEMMA RefinesStutter ==
  ASSUME NEW h \in Harts, AmoLoadEnters(h) \/ AmoExchangeRetries(h)
  PROVE  UNCHANGED Promise!vars
BY LinkUnchanged DEF AmoLoadEnters, AmoExchangeRetries, Promise!vars

LEMMA RefinesDrain ==
  ASSUME NEW h \in Harts, Drain(h)
  PROVE  Promise!Propagate(h)
BY LinkUnchanged
   DEF Drain, Flushed, Promise!Propagate, Promise!Flushed

LEMMA RefinesNext ==
  AtomicsInv /\ [Next]_vars => [Promise!Next]_(Promise!vars)
<1> SUFFICES ASSUME AtomicsInv, [Next]_vars
             PROVE  Promise!Next \/ UNCHANGED Promise!vars
  OBVIOUS
<1>1. CASE UNCHANGED vars
  BY <1>1, LinkUnchanged DEF vars, Promise!vars
<1>2. ASSUME NEW h \in Harts, NEW i \in Issued, Begins(h, i)
      PROVE  Promise!Next
  BY <1>2, RefinesBegins DEF Promise!Next
<1>3. ASSUME NEW h \in Harts, Drain(h)
      PROVE  Promise!Next
  BY <1>3, RefinesDrain DEF Promise!Next
<1>4. ASSUME NEW h \in Harts, Continues(h)
      PROVE  Promise!Next \/ UNCHANGED Promise!vars
  BY <1>4, RefinesPlain, RefinesReserved, RefinesAmo, RefinesStutter
     DEF Continues, AmoLoop, Promise!Next
<1> QED
  BY <1>1, <1>2, <1>3, <1>4 DEF Next

(***************************************************************************)
(* The micro-steps of operate_atomic, visit_lrw_inst and visit_scw_inst,   *)
(* interleaved in any way, implement atomic instructions.                  *)
(***************************************************************************)
THEOREM Implementation == Safety => ImplementsPromise
<1>1. Safety => []AtomicsInv
  BY InitInv, NextInv, PTL DEF Safety
<1> QED
  BY <1>1, RefinesInit, RefinesNext, PTL
     DEF Safety, ImplementsPromise, Promise!Spec
-----------------------------------------------------------------------------
(***************************************************************************)
(* The words as numbers.  Unsigned is the number with the ones of a word;  *)
(* on it, the operators of Words are the arithmetic of the manual.         *)
(***************************************************************************)
LEMMA UnsignedSums ==
  ASSUME NEW S, IsFiniteSet(S)
  PROVE  \E g : Sums(S, [i \in S |-> 2^i], g) /\ Unsigned(S) = g[S]
<1> DEFINE F == [i \in S |-> 2^i]
           Fold(g) == g = [s \in SUBSET S |->
                             IF s = {} THEN 0
                             ELSE LET y == CHOOSE y \in s : TRUE
                                  IN 2^y + g[s \ {y}]]
<1>1. \A g : Sums(S, F, g) <=> Fold(g)
  <2> TAKE g
  <2>1. \A T \in SUBSET S : T # {} => F[Pick(T)] = 2^Pick(T)
    BY DEF Pick
  <2> QED
    BY <2>1 DEF Sums, Pick
<1>2. \E g : Sums(S, F, g)
  <2> HIDE DEF F
  <2> QED
    BY SumsExist
<1>3. Fold(CHOOSE g : Fold(g))
  <2> HIDE DEF Fold, F
  <2> QED
    BY <1>1, <1>2
<1>4. Unsigned(S) = (CHOOSE g : Fold(g))[S]
  BY DEF Unsigned, MapThenSumSet, MapThenFoldSet
<1> HIDE DEF Fold
<1> QED
  BY <1>1, <1>3, <1>4

LEMMA UnsignedDigits ==
  ASSUME NEW w \in Word
  PROVE  /\ Unsigned(w) \in Nat /\ Unsigned(w) < 2^W
         /\ \A i \in Nat : Digit(Unsigned(w), i) = IF i \in w THEN 1 ELSE 0
<1> DEFINE F == [i \in w |-> 2^i]
           u == Unsigned(w)
<1>1. w \in SUBSET Nat /\ W \in Nat /\ \A i \in w : i < W
  BY WAssumption DEF Word, Bits
<1>2. IsFiniteSet(w)
  BY <1>1, FS_BoundedSetOfNaturals
<1>3. PICK g : Sums(w, F, g) /\ u = g[w]
  BY <1>2, UnsignedSums
<1>4. \A x \in w : F[x] \in Nat /\ \A k \in Nat : Digit(F[x], k) = IF k = x THEN 1 ELSE 0
  BY <1>1, PowerPositive, DigitPower
<1>5. \A x, y \in w : x # y => \A k \in Nat : Digit(F[x], k) + Digit(F[y], k) <= 1
  <2> HIDE DEF F
  <2> QED
    BY <1>4
<1>6. g[w] \in Nat /\ \A k \in Nat : Digit(g[w], k) = Summand(F, w, k)
  <2> HIDE DEF F, u
  <2> QED
    BY <1>2, <1>3, <1>4, <1>5, DigitsOfSum
<1>7. \A k \in Nat : Digit(u, k) = IF k \in w THEN 1 ELSE 0
  <2> TAKE k \in Nat
  <2> HIDE DEF F, u
  <2>1. (\E x \in w : Digit(F[x], k) = 1) <=> k \in w
    BY <1>4
  <2> QED
    BY <1>3, <1>6, <2>1 DEF Summand
<1>8. u \in Nat
  BY <1>3, <1>6
<1>9. \A i \in Nat : W <= i => Digit(u, i) = 0
  <2> HIDE DEF u
  <2> QED
    BY <1>1, <1>7
<1> HIDE DEF u
<1>10. u < 2^W
  BY <1>1, <1>8, <1>9, DigitsBound
<1> QED
  BY <1>7, <1>8, <1>10 DEF u

\* The unsigned order (operators.hpp LTU) is the order of the numbers.
LEMMA LTUIsOrder ==
  ASSUME NEW a \in Word, NEW b \in Word
  PROVE  LTU(a, b) <=> Unsigned(a) < Unsigned(b)
<1>1. a \in SUBSET (0 .. (W - 1)) /\ b \in SUBSET (0 .. (W - 1)) /\ W \in Nat
  BY WAssumption DEF Word, Bits
<1>2. Unsigned(a) \in Nat /\ Unsigned(b) \in Nat
  BY UnsignedDigits
<1>3. ASSUME NEW x \in Word, NEW y \in Word, LTU(x, y)
      PROVE  Unsigned(x) < Unsigned(y)
  <2>1. PICK i \in y \ x : \A p \in Bits : p > i => (p \in x <=> p \in y)
    BY <1>3 DEF LTU
  <2>2. /\ Unsigned(x) \in Nat /\ Unsigned(y) \in Nat
        /\ \A j \in Nat : /\ Digit(Unsigned(x), j) = IF j \in x THEN 1 ELSE 0
                          /\ Digit(Unsigned(y), j) = IF j \in y THEN 1 ELSE 0
    BY UnsignedDigits
  <2>3. i \in Nat /\ \A j \in Nat : i < j => (j \in x <=> j \in y)
    BY <2>1, WAssumption DEF Word, Bits
  <2>4. Digit(Unsigned(x), i) = 0 /\ Digit(Unsigned(y), i) = 1
    BY <2>1, <2>2, <2>3
  <2>5. \A j \in Nat : i < j => Digit(Unsigned(x), j) = Digit(Unsigned(y), j)
    BY <2>2, <2>3
  <2> QED
    BY <2>2, <2>3, <2>4, <2>5, DigitsOrder
<1>4. a = b \/ LTU(a, b) \/ LTU(b, a)
  <2> SUFFICES ASSUME a # b PROVE LTU(a, b) \/ LTU(b, a)
    OBVIOUS
  <2> DEFINE D == Xor(a, b)
  <2>1. D \in SUBSET (0 .. (W - 1)) /\ D # {}
    BY <1>1 DEF Xor
  <2> HIDE DEF D
  <2>2. PICK m \in D : \A p \in D : p <= m
    BY <1>1, <2>1, GreatestExists
  <2>3. m \in Nat /\ \A p \in Bits : p > m => p \notin D
    BY <1>1, <2>1, <2>2 DEF Bits
  <2>4. \A p \in Bits : p > m => (p \in a <=> p \in b)
    BY <2>3 DEF D, Xor
  <2>5. m \in b \ a \/ m \in a \ b
    BY <2>2 DEF D, Xor
  <2> QED
    BY <2>4, <2>5 DEF LTU
<1>5. LTU(a, b) \in BOOLEAN
  BY DEF LTU
<1>6. LTU(a, b) => Unsigned(a) < Unsigned(b)
  BY <1>3
<1>7. LTU(b, a) => Unsigned(b) < Unsigned(a)
  BY <1>3
<1> QED
  BY <1>2, <1>4, <1>5, <1>6, <1>7

\* Flipping the sign bit moves the signed numbers up by 2^(W - 1).
LEMMA FlipIsShift ==
  ASSUME NEW a \in Word
  PROVE  /\ Xor(a, SignBit) \in Word /\ Signed(a) \in Int
         /\ Unsigned(Xor(a, SignBit)) = Signed(a) + 2^(W - 1)
<1> DEFINE f == Xor(a, SignBit)
           u == Unsigned(a)
           v == Unsigned(f)
           k == W - 1
           h == 2^k
<1>1. k \in Nat /\ k + 1 = W /\ h \in Nat /\ h >= 1 /\ 2^W = 2 * h
  <2>1. k \in Nat /\ k + 1 = W
    BY WAssumption
  <2> HIDE DEF k
  <2> QED
    BY <2>1, PowerPositive, PowerSuccessor
<1>2. /\ f \in Word /\ (k \in f <=> k \notin a)
      /\ \A i \in Nat : i # k => (i \in f <=> i \in a)
  BY WAssumption DEF Word, Bits, Xor, SignBit
<1> HIDE DEF f
<1>3. /\ u \in Nat /\ u < 2^W /\ \A i \in Nat : Digit(u, i) = IF i \in a THEN 1 ELSE 0
      /\ v \in Nat /\ v < 2^W /\ \A i \in Nat : Digit(v, i) = IF i \in f THEN 1 ELSE 0
  BY <1>2, UnsignedDigits
<1> HIDE DEF u, v
<1>4. u % h = v % h
  <2>1. \A i \in 0 .. (k - 1) : Digit(u % h, i) = Digit(v % h, i)
    <3> TAKE i \in 0 .. (k - 1)
    <3>1. i \in Nat /\ i < k /\ u \in Int /\ v \in Int
      BY <1>1, <1>3
    <3> HIDE DEF k
    <3>2. Digit(u % 2^k, i) = Digit(u, i) /\ Digit(v % 2^k, i) = Digit(v, i)
      BY <1>1, <3>1, DigitModulo
    <3>3. Digit(u, i) = Digit(v, i)
      BY <1>1, <1>2, <1>3, <3>1
    <3> QED
      BY <3>2, <3>3
  <2>2. u % h \in 0 .. (h - 1) /\ v % h \in 0 .. (h - 1)
    <3> HIDE DEF h
    <3> QED
      BY <1>1, <1>3
  <2> DEFINE x == u % h
             y == v % h
  <2> HIDE DEF x, y
  <2>3. x \in 0 .. (2^k - 1) /\ y \in 0 .. (2^k - 1)
    BY <2>2 DEF x, y
  <2>4. \A i \in 0 .. (k - 1) : Digit(x, i) = Digit(y, i)
    BY <2>1 DEF x, y
  <2>5. x = y
    <3> HIDE DEF k
    <3> QED
      BY <1>1, <2>3, <2>4, DigitsDetermine
  <2> QED
    BY <2>5 DEF x, y
<1>5. u = (u % h) + Digit(u, k) * h /\ v = (v % h) + Digit(v, k) * h
  <2>1. u % 2^(k + 1) = u /\ v % 2^(k + 1) = v
    <3> DEFINE c == 2^(k + 1)
    <3>1. c \in Nat /\ u < c /\ v < c
      BY <1>1, <1>3
    <3> HIDE DEF c
    <3>2. u % c = u /\ v % c = v
      BY <1>3, <3>1
    <3> QED
      BY <3>2 DEF c
  <2>2. u \in Int /\ v \in Int
    BY <1>3
  <2> HIDE DEF k
  <2>3. /\ u % 2^(k + 1) = (u % 2^k) + Digit(u, k) * 2^k
        /\ v % 2^(k + 1) = (v % 2^k) + Digit(v, k) * 2^k
    BY <1>1, <2>2, ModuloDigit
  <2> QED
    BY <2>1, <2>3
<1>6. Signed(a) = IF k \in a THEN u - 2^W ELSE u
  BY DEF Signed, u
<1>7. v = Signed(a) + h /\ Signed(a) \in Int
  <2> DEFINE r == u % h
  <2>1. r \in Int
    <3> HIDE DEF h
    <3> QED
      BY <1>1, <1>3
  <2> HIDE DEF r, h
  <2>2. u = r + Digit(u, k) * h /\ v = r + Digit(v, k) * h
    BY <1>4, <1>5 DEF r
  <2> HIDE DEF k
  <2>3. CASE k \in a
    <3>1. Digit(u, k) = 1 /\ Digit(v, k) = 0
      BY <1>1, <1>2, <1>3, <2>3
    <3> QED
      BY <1>1, <1>3, <1>6, <2>1, <2>2, <2>3, <3>1
  <2>4. CASE k \notin a
    <3>1. Digit(u, k) = 0 /\ Digit(v, k) = 1
      BY <1>1, <1>2, <1>3, <2>4
    <3> QED
      BY <1>1, <1>3, <1>6, <2>1, <2>2, <2>4, <3>1
  <2> QED
    BY <2>3, <2>4
<1> QED
  BY <1>2, <1>7 DEF f, v

\* The signed order (operators.hpp LT) is the order of the signed numbers.
LEMMA LTIsOrder ==
  ASSUME NEW a \in Word, NEW b \in Word
  PROVE  LT(a, b) <=> Signed(a) < Signed(b)
<1> DEFINE h == 2^(W - 1)
           x == Xor(a, SignBit)
           y == Xor(b, SignBit)
<1>1. h \in Nat
  <2>1. W - 1 \in Nat
    BY WAssumption
  <2> QED
    BY <2>1, PowerPositive
<1>2. /\ x \in Word /\ Signed(a) \in Int /\ Unsigned(x) = Signed(a) + h
      /\ y \in Word /\ Signed(b) \in Int /\ Unsigned(y) = Signed(b) + h
  BY FlipIsShift
<1>3. LT(a, b) <=> LTU(x, y)
  BY DEF LT
<1> HIDE DEF h, x, y
<1>4. LTU(x, y) <=> Unsigned(x) < Unsigned(y)
  BY <1>2, LTUIsOrder
<1> QED
  BY <1>1, <1>2, <1>3, <1>4

\* One position of a binary addition.
LEMMA FullAdder ==
  ASSUME NEW a \in Word, NEW b \in Word, NEW k \in Bits
  PROVE  /\ CarryInto(a, b, k + 1)
              <=> (k \in a /\ k \in b) \/ ((k \in a \/ k \in b) /\ CarryInto(a, b, k))
         /\ k \in Add(a, b) <=> ((k \in a <=> k \in b) <=> CarryInto(a, b, k))
<1>1. /\ W \in Nat /\ Bits \in SUBSET Nat /\ k \in Nat
      /\ a \in SUBSET Bits /\ b \in SUBSET Bits
  BY WAssumption DEF Word, Bits
<1>2. ASSUME CarryInto(a, b, k + 1)
      PROVE  (k \in a /\ k \in b) \/ ((k \in a \/ k \in b) /\ CarryInto(a, b, k))
  <2>1. PICK g \in And(a, b) : g < k + 1 /\ \A p \in Bits : g < p /\ p < k + 1 => p \in Or(a, b)
    BY <1>2 DEF CarryInto
  <2>2. CASE g = k
    BY <2>1, <2>2 DEF And
  <2>3. CASE g # k
    <3>1. g \in Nat /\ g < k
      BY <1>1, <2>1, <2>3 DEF And
    <3>2. k \in Or(a, b)
      BY <1>1, <2>1, <3>1
    <3>3. \A p \in Bits : g < p /\ p < k => p \in Or(a, b)
      BY <1>1, <2>1
    <3> QED
      BY <2>1, <3>1, <3>2, <3>3 DEF CarryInto, Or
  <2> QED
    BY <2>2, <2>3
<1>3. ASSUME k \in a, k \in b
      PROVE  CarryInto(a, b, k + 1)
  <2>1. k \in And(a, b) /\ k < k + 1
    BY <1>1, <1>3 DEF And
  <2>2. \A p \in Bits : k < p /\ p < k + 1 => p \in Or(a, b)
    BY <1>1
  <2> QED
    BY <2>1, <2>2 DEF CarryInto
<1>4. ASSUME k \in a \/ k \in b, CarryInto(a, b, k)
      PROVE  CarryInto(a, b, k + 1)
  <2>1. PICK g \in And(a, b) : g < k /\ \A p \in Bits : g < p /\ p < k => p \in Or(a, b)
    BY <1>4 DEF CarryInto
  <2>2. g \in Nat /\ g < k + 1
    BY <1>1, <2>1 DEF And
  <2>3. \A p \in Bits : g < p /\ p < k + 1 => p \in Or(a, b)
    BY <1>1, <1>4, <2>1 DEF Or
  <2> QED
    BY <2>1, <2>2, <2>3 DEF CarryInto
<1>5. k \in Add(a, b) <=> (k \in Xor(a, b) <=> ~CarryInto(a, b, k))
  BY DEF Add
<1>6. k \in Xor(a, b) <=> ~(k \in a <=> k \in b)
  BY DEF Xor
<1>7. CarryInto(a, b, k) \in BOOLEAN /\ CarryInto(a, b, k + 1) \in BOOLEAN
  BY DEF CarryInto
<1> QED
  BY <1>2, <1>3, <1>4, <1>5, <1>6, <1>7, Zenon

\* The addition of words (operators.hpp ADD) is addition modulo 2^W, the
\* word width of the code included.
LEMMA AddIsSum ==
  ASSUME NEW a \in Word, NEW b \in Word
  PROVE  /\ Add(a, b) \in Word
         /\ Unsigned(Add(a, b)) = (Unsigned(a) + Unsigned(b)) % 2^W
<1> DEFINE u == Unsigned(a)
           v == Unsigned(b)
           s == Unsigned(Add(a, b))
           C(k) == IF CarryInto(a, b, k) THEN 1 ELSE 0
           Upto(k) == (u % 2^k) + (v % 2^k) = (s % 2^k) + C(k) * 2^k
           N == {k \in Nat : k <= W => Upto(k)}
<1>1. Add(a, b) \in Word /\ W \in Nat
  BY WAssumption DEF Add, Word
<1>2. /\ u \in Nat /\ v \in Nat /\ s \in Nat /\ u < 2^W /\ v < 2^W /\ s < 2^W
      /\ \A i \in Nat : /\ Digit(u, i) = IF i \in a THEN 1 ELSE 0
                        /\ Digit(v, i) = IF i \in b THEN 1 ELSE 0
                        /\ Digit(s, i) = IF i \in Add(a, b) THEN 1 ELSE 0
  BY <1>1, UnsignedDigits
<1>3. \A k \in Nat : C(k) \in {0, 1}
  OBVIOUS
<1>4. 0 \in N
  <2>1. ~CarryInto(a, b, 0)
    BY WAssumption DEF CarryInto, And, Word, Bits
  <2>2. u % 1 = 0 /\ v % 1 = 0 /\ s % 1 = 0
    <3> HIDE DEF u, v, s
    <3> QED
      BY <1>2
  <2>3. C(0) = 0
    BY <2>1
  <2> HIDE DEF u, v, s, C
  <2> QED
    BY <2>2, <2>3, PowerZero
<1>5. ASSUME NEW k \in N
      PROVE  k + 1 \in N
  <2> SUFFICES ASSUME k + 1 <= W PROVE Upto(k + 1)
    OBVIOUS
  <2> DEFINE c == 2^k
             x == u % c
             y == v % c
             z == s % c
  <2>1. k \in Nat /\ k \in Bits
    BY <1>1 DEF Bits
  <2>2. c \in Nat /\ c >= 1 /\ 2^(k + 1) = 2 * c
    BY <2>1, PowerPositive, PowerSuccessor
  <2>3. x + y = z + C(k) * c
    BY <1>1, <2>1
  <2>4. /\ u % 2^(k + 1) = x + Digit(u, k) * c
        /\ v % 2^(k + 1) = y + Digit(v, k) * c
        /\ s % 2^(k + 1) = z + Digit(s, k) * c
    <3>1. u \in Int /\ v \in Int /\ s \in Int
      BY <1>2
    <3> HIDE DEF u, v, s
    <3> QED
      BY <2>1, <3>1, ModuloDigit
  <2>5. Digit(u, k) + Digit(v, k) + C(k) = Digit(s, k) + 2 * C(k + 1)
    <3>1. /\ CarryInto(a, b, k + 1)
              <=> (k \in a /\ k \in b) \/ ((k \in a \/ k \in b) /\ CarryInto(a, b, k))
          /\ k \in Add(a, b) <=> ((k \in a <=> k \in b) <=> CarryInto(a, b, k))
      BY <2>1, FullAdder, Zenon
    <3>2. /\ Digit(u, k) = IF k \in a THEN 1 ELSE 0
          /\ Digit(v, k) = IF k \in b THEN 1 ELSE 0
          /\ Digit(s, k) = IF k \in Add(a, b) THEN 1 ELSE 0
      BY <1>2, <2>1
    <3> HIDE DEF u, v, s
    <3> QED
      BY <3>1, <3>2
  <2>6. x \in Int /\ y \in Int /\ z \in Int
    <3> HIDE DEF u, v, s, c
    <3> QED
      BY <1>2, <2>2
  <2>7. /\ C(k) \in {0, 1} /\ C(k + 1) \in {0, 1}
        /\ Digit(u, k) \in {0, 1} /\ Digit(v, k) \in {0, 1} /\ Digit(s, k) \in {0, 1}
    BY <1>2, <2>1
  <2> DEFINE du == Digit(u, k)
             dv == Digit(v, k)
             ds == Digit(s, k)
             c0 == C(k)
             c1 == C(k + 1)
  <2>8. (x + du * c) + (y + dv * c) = (z + ds * c) + c1 * (2 * c)
    <3>1. /\ du \in {0, 1} /\ dv \in {0, 1} /\ ds \in {0, 1} /\ c0 \in {0, 1} /\ c1 \in {0, 1}
          /\ du + dv + c0 = ds + 2 * c1 /\ x + y = z + c0 * c
      BY <2>3, <2>5, <2>7
    <3> HIDE DEF du, dv, ds, c0, c1, x, y, z, c
    <3> QED
      BY <2>2, <2>6, <3>1
  <2> QED
    <3>1. /\ u % 2^(k + 1) = x + du * c /\ v % 2^(k + 1) = y + dv * c
          /\ s % 2^(k + 1) = z + ds * c
      BY <2>4
    <3>2. c1 = C(k + 1)
      OBVIOUS
    <3> HIDE DEF du, dv, ds, c0, c1, x, y, z, c, u, v, s, C
    <3> QED
      BY <2>2, <2>8, <3>1, <3>2
<1>6. W \in N
  <2> HIDE DEF N
  <2>1. N \in SUBSET Nat
    BY Zenon DEF N
  <2> QED
    BY <1>1, <1>4, <1>5, <2>1, Induction
<1>7. u + v = C(W) * 2^W + s
  <2> DEFINE m == 2^W
  <2>1. m \in Nat /\ C(W) \in {0, 1}
    BY <1>1, PowerPositive
  <2>2. (u % m) + (v % m) = (s % m) + C(W) * m
    BY <1>1, <1>6
  <2>3. u < m /\ v < m /\ s < m
    BY <1>2
  <2> HIDE DEF m, u, v, s, C
  <2>4. u % m = u /\ v % m = v /\ s % m = s
    BY <1>2, <2>1, <2>3
  <2> QED
    BY <1>2, <2>1, <2>2, <2>4 DEF m
<1>8. (u + v) % 2^W = s
  <2> DEFINE m == 2^W
             q == C(W)
  <2>1. m \in Nat /\ q \in Int /\ u + v = q * m + s /\ 0 <= s /\ s < m /\ s \in Int
    BY <1>1, <1>2, <1>7, PowerPositive
  <2> HIDE DEF m, q, u, v, s
  <2>2. (q * m + s) % m = s
    BY <2>1, DivisionUnique
  <2> QED
    BY <2>1, <2>2 DEF m
<1> QED
  BY <1>1, <1>8

-----------------------------------------------------------------------------
(***************************************************************************)
(* What the AMOs compute.                                                  *)
(***************************************************************************)
LEMMA FetchAsManual ==
  ASSUME NEW op \in FetchOps, NEW old \in Word, NEW b \in Word
  PROVE  AmoResult(op, old, b, Fetch(op, old, b))
<1>1. CASE op = "amoadd"
  BY <1>1, AddIsSum DEF AmoResult, Fetch
<1>2. CASE op # "amoadd"
  BY <1>2 DEF FetchOps, AmoResult, Fetch, And, Or, Xor, Word
<1> QED
  BY <1>1, <1>2

\* The loop ends with x[rs2] when its condition holds, and leaves the cell
\* alone when it does not.
LEMMA LoopAsManual ==
  ASSUME NEW op \in LoopOps, NEW old \in Word, NEW b \in Word
  PROVE  /\ Replaces(op, old, b) => AmoResult(op, old, b, b)
         /\ ~Replaces(op, old, b) => AmoResult(op, old, b, old)
<1>1. /\ LT(b, old) <=> Signed(b) < Signed(old)
      /\ LT(old, b) <=> Signed(old) < Signed(b)
      /\ LTU(b, old) <=> Unsigned(b) < Unsigned(old)
      /\ LTU(old, b) <=> Unsigned(old) < Unsigned(b)
  BY LTIsOrder, LTUIsOrder
<1>2. /\ Signed(b) \in Int /\ Signed(old) \in Int
      /\ Unsigned(b) \in Int /\ Unsigned(old) \in Int
  BY FlipIsShift, UnsignedDigits
<1>3. CASE op = "amomin"
  BY <1>1, <1>2, <1>3 DEF AmoResult, Replaces
<1>4. CASE op = "amomax"
  BY <1>1, <1>2, <1>4 DEF AmoResult, Replaces
<1>5. CASE op = "amominu"
  BY <1>1, <1>2, <1>5 DEF AmoResult, Replaces
<1>6. CASE op = "amomaxu"
  BY <1>1, <1>2, <1>6 DEF AmoResult, Replaces
<1> QED
  BY <1>3, <1>4, <1>5, <1>6 DEF LoopOps

\* The step that ends an AMO, loop or not, computes what the manual says.
LEMMA StepAsManual ==
  ASSUME AtomicsInv, NEW h \in Harts, inst[h].op \in FetchOps \cup LoopOps,
         AmoFetch(h) \/ AmoLoop(h), stage'[h] = "fetch"
  PROVE  LET a == Addr(h)
             result(old, new) == AmoResult(inst[h].op, old, inst[h].rs2, new)
         IN \/ rd'[h] = mem[a] /\ result(mem[a], mem'[a])
            \/ rd'[h] = Sees(h, a) /\ result(rd'[h], rd'[h]) /\ mem' = mem
<1> DEFINE a == Addr(h)
           b == inst[h].rs2
           op == inst[h].op
<1> USE DEF AtomicsInv, TypeOK, InFlightOK
<1>1. stage[h] # "fetch"
  BY DEF AmoFetch, AmoLoop, AmoLoadKeeps, AmoLoadEnters, AmoExchangeSucceeds,
         AmoExchangeKeeps, AmoExchangeRetries
<1>2. inst[h] \in Inst /\ a \in Cell /\ b \in Word /\ mem[a] \in Word /\ Sees(h, a) \in Word
  BY <1>1, BusyCell, SeesType DEF Addr, Inst
<1>3. CASE AmoFetch(h)
  <2>1. op \in FetchOps /\ mem' = [mem EXCEPT ![a] = Fetch(op, mem[a], b)]
        /\ rd' = [rd EXCEPT ![h] = mem[a]]
    BY <1>3 DEF AmoFetch, Writes, Retires
  <2>2. mem'[a] = Fetch(op, mem[a], b) /\ rd'[h] = mem[a]
    BY <1>2, <2>1
  <2> QED
    BY <1>2, <2>1, <2>2, FetchAsManual
<1>4. CASE AmoLoadKeeps(h)
  <2>1. op \in LoopOps /\ ~Replaces(op, Sees(h, a), b) /\ mem' = mem
        /\ rd' = [rd EXCEPT ![h] = Sees(h, a)]
    BY <1>4 DEF AmoLoadKeeps, Retires
  <2> QED
    BY <1>2, <2>1, LoopAsManual
<1>5. CASE AmoLoadEnters(h) \/ AmoExchangeRetries(h)
  <2>1. stage'[h] = "exchange"
    BY <1>5 DEF AmoLoadEnters, AmoExchangeRetries
  <2> QED
    BY <2>1
<1>6. CASE AmoExchangeSucceeds(h)
  <2>1. op \in LoopOps /\ mem' = [mem EXCEPT ![a] = b]
        /\ rd' = [rd EXCEPT ![h] = mem[a]] /\ Replaces(op, mem[a], b)
    BY <1>6 DEF AmoExchangeSucceeds, Writes, Retires
  <2>2. mem'[a] = b /\ rd'[h] = mem[a]
    BY <1>2, <2>1
  <2> QED
    BY <1>2, <2>1, <2>2, LoopAsManual
<1>7. CASE AmoExchangeKeeps(h)
  <2>1. op \in LoopOps /\ ~Replaces(op, mem[a], b) /\ mem' = mem
        /\ rd' = [rd EXCEPT ![h] = mem[a]]
    BY <1>7 DEF AmoExchangeKeeps, Retires
  <2> QED
    BY <1>2, <2>1, LoopAsManual
<1> QED
  BY <1>3, <1>4, <1>5, <1>6, <1>7 DEF AmoLoop

\* Every AMO that ends leaves in the cell what the manual computes, and the
\* value rd gets is the operand it computed with, however often the cell
\* changed between the load and the exchange (operators.hpp:229-323).
THEOREM AmosAsManualTheorem == Safety => AmosAsManual
<1> DEFINE A(h) == stage[h] # "fetch" /\ stage'[h] = "fetch"
                     /\ inst[h].op \in FetchOps \cup LoopOps
                  => LET a == Addr(h)
                         result(old, new) == AmoResult(inst[h].op, old, inst[h].rs2, new)
                     IN \/ rd'[h] = mem[a] /\ result(mem[a], mem'[a])
                        \/ rd'[h] = Sees(h, a) /\ result(rd'[h], rd'[h]) /\ mem' = mem
<1>1. ASSUME AtomicsInv, Next, NEW h \in Harts
      PROVE  A(h)
  <2> SUFFICES ASSUME stage[h] # "fetch", stage'[h] = "fetch",
                      inst[h].op \in FetchOps \cup LoopOps
               PROVE  AmoFetch(h) \/ AmoLoop(h)
    BY <1>1, StepAsManual
  <2>1. PICK g \in Harts : (\E i \in Issued : Begins(g, i)) \/ Continues(g) \/ Drain(g)
    BY <1>1 DEF Next
  <2>2. stage \in [Harts -> {"fetch", "access", "exchange"}]
    BY <1>1 DEF AtomicsInv, TypeOK
  <2>3. ~Drain(g) /\ \A i \in Issued : ~Begins(g, i)
    BY <2>2 DEF Drain, Begins, AccessFault, PageFault, Start, Faults
  <2>4. Continues(g)
    BY <2>1, <2>3
  <2>5. g = h
    BY <2>2, <2>4
       DEF Continues, Load, StoreWord, LoadReserved, StoreConditional,
           ScOtherAddress, ScSucceeds, ScFails, AmoFetch, AmoLoop, AmoLoadKeeps,
           AmoLoadEnters, AmoExchangeSucceeds, AmoExchangeKeeps,
           AmoExchangeRetries, Retires, Completes
  <2>6. ~Load(h) /\ ~StoreWord(h) /\ ~LoadReserved(h) /\ ~StoreConditional(h)
    BY DEF Load, StoreWord, LoadReserved, StoreConditional, ScOtherAddress,
           ScSucceeds, ScFails, At, FetchOps, LoopOps
  <2> QED
    BY <2>4, <2>5, <2>6 DEF Continues
<1>2. ASSUME AtomicsInv, UNCHANGED vars, NEW h \in Harts
      PROVE  A(h)
  BY <1>2 DEF vars
<1>3. AtomicsInv /\ [Next]_vars => [\A h \in Harts : A(h)]_vars
  BY <1>1, <1>2
<1>4. Safety => [][\A h \in Harts : A(h)]_vars
  BY <1>3, InitInv, NextInv, PTL DEF Safety
<1> QED
  BY <1>4 DEF AmosAsManual

=============================================================================
