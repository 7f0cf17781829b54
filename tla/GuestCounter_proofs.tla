------------------------ MODULE GuestCounter_proofs ------------------------
(***************************************************************************)
(* Proof that no increment is lost, for any number of harts, any split of  *)
(* them into LR/SC users and AMO users, and any word width.                *)
(***************************************************************************)
EXTENDS GuestCounter, Atomics_proofs

\* The guests execute nothing but instructions of the harts.
LEMMA GuestRefinesAtomics == [GuestNext]_guestVars => [Next]_vars
<1>1. \A t \in Word : Add(t, One) \in Word
  BY DEF Add, Word
<1>2. Zero \in Word /\ One \in Word
  BY WAssumption DEF Zero, One, Word, Bits
<1>3. Counter \in Addrs
  BY CounterAssumption, AddrAssumption
<1>4. LrInst \in Issued /\ AddInst \in Issued
  BY <1>2, <1>3, CounterAssumption
     DEF LrInst, AddInst, Inst, LoadOps, StoreOps, FetchOps
<1>5. ASSUME NEW h \in Harts, NEW t, StartSc(h), t = rd[h]
      PROVE  ScInst(t) \in Issued
  BY <1>1, <1>3, <1>5, CounterAssumption
     DEF ScInst, Inst, LoadOps, StoreOps, Add, Word
<1>6. ASSUME NEW h \in Harts, GuestStep(h)
      PROVE  Next
  BY <1>4, <1>5, <1>6
     DEF GuestStep, StartLr, StartSc, StartAdd, Increment, NoIncrement,
         Next, Begins, Continues, StoreConditional
<1> QED
  BY <1>6 DEF GuestNext, guestVars

-----------------------------------------------------------------------------
(***************************************************************************)
(* The inductive invariant.  NoLostUpdate is not inductive: when a store   *)
(* conditional succeeds it writes the successor of what the LR loaded, and *)
(* that is the successor of the counter only because the reservation still *)
(* holds the loaded value, which GuestInv says.                            *)
(***************************************************************************)
CounterInv == AtomicsInv /\ GuestInv /\ NoLostUpdate

LEMMA CounterInitInv == GuestInit => CounterInv
<1> SUFFICES ASSUME GuestInit PROVE CounterInv
  OBVIOUS
<1>1. AtomicsInv
  BY InitInv DEF GuestInit
<1>2. GuestInv
  BY DEF GuestInit, Init, GuestInv
<1>3. NoLostUpdate
  BY DEF GuestInit, NoLostUpdate
<1> QED
  BY <1>1, <1>2, <1>3 DEF CounterInv

\* What the operator of amoadd computes.
LEMMA FetchAdd == \A a, b : Fetch("amoadd", a, b) = Add(a, b)
BY DEF Fetch

\* Starting an instruction: its operand is what the reservation promises.
LEMMA StartsInv ==
  ASSUME CounterInv, NEW h \in Harts,
         StartLr(h) \/ StartSc(h) \/ StartAdd(h)
  PROVE  GuestInv' /\ NoLostUpdate'
<1> USE DEF CounterInv, Start, reservation
<1>1. CASE StartLr(h)
  BY <1>1 DEF StartLr, GuestInv, NoLostUpdate, AtomicsInv, TypeOK
<1>2. CASE StartSc(h)
  BY <1>2 DEF StartSc, GuestInv, NoLostUpdate, AtomicsInv, TypeOK
<1>3. CASE StartAdd(h)
  BY <1>3 DEF StartAdd, GuestInv, NoLostUpdate, AtomicsInv, TypeOK
<1> QED
  BY <1>1, <1>2, <1>3

\* A store conditional or an AMO that exchanges adds one to both sides.
LEMMA IncrementInv ==
  ASSUME CounterInv, NEW h \in Harts, Increment(h)
  PROVE  GuestInv' /\ NoLostUpdate'
<1> USE DEF CounterInv
<1>1. stage[h] = "access" /\ Counter \in Cell
  BY CounterAssumption DEF Increment, ScSucceeds, AmoFetch, At
<1>2. Addr(h) = Counter /\ mem' = [mem EXCEPT ![Counter] = Add(total, One)]
  <2>1. CASE ScSucceeds(h)
    <3>1. inst[h].op = "sc" /\ gpc[h] = "lr"
      BY <1>1, <2>1 DEF ScSucceeds, At, GuestInv, LrInst, AddInst
    <3>2. inst[h] = ScInst(reserve_value[h]) /\ reserve_address[h] = Counter
      BY <1>1, <3>1 DEF GuestInv
    <3>3. Addr(h) = Counter /\ inst[h].rs2 = Add(reserve_value[h], One)
      BY <3>2 DEF ScInst, Addr
    <3> QED
      BY <2>1, <3>3 DEF ScSucceeds, Writes, NoLostUpdate
  <2>2. CASE AmoFetch(h)
    <3>1. inst[h].op \in FetchOps
      BY <2>2 DEF AmoFetch
    <3>2. inst[h].op # "lr" /\ inst[h].op # "sc"
      BY <3>1 DEF FetchOps
    <3>3. inst[h] = AddInst
      <4>1. gpc[h] # "sc"
        BY <1>1, <3>2 DEF GuestInv, LrInst
      <4>2. gpc[h] # "lr"
        <5>1. ScInst(reserve_value[h]).op = "sc"
          BY DEF ScInst
        <5> QED
          BY <1>1, <3>2, <5>1 DEF GuestInv
      <4> QED
        BY <1>1, <4>1, <4>2 DEF GuestInv
    <3>4. /\ inst[h].op = "amoadd" /\ Addr(h) = Counter
          /\ inst[h].rs2 = One
      BY <3>3 DEF AddInst, Addr
    <3> QED
      BY <2>2, <3>4, FetchAdd DEF AmoFetch, Writes, NoLostUpdate
  <2> QED
    BY <2>1, <2>2 DEF Increment
<1>3. NoLostUpdate'
  BY <1>1, <1>2 DEF Increment, NoLostUpdate, AtomicsInv, TypeOK
<1>4. gpc[h] # "sc"
  BY <1>1 DEF Increment, ScSucceeds, AmoFetch, At, GuestInv, LrInst, FetchOps
<1>5. GuestInv'
  BY <1>1, <1>4
     DEF Increment, ScSucceeds, AmoFetch, Retires, Completes, reservation,
         GuestInv, AtomicsInv, TypeOK
<1> QED
  BY <1>3, <1>5

\* An LR leaves in the reservation what it returns; a failed SC goes back to
\* the LR, so that the value it left in the reservation is not used.
LEMMA NoIncrementInv ==
  ASSUME CounterInv, NEW h \in Harts, NoIncrement(h)
  PROVE  GuestInv' /\ NoLostUpdate'
<1> USE DEF CounterInv
<1>1. CASE LoadReserved(h)
  <2>1. gpc[h] = "sc" /\ Addr(h) = Counter
    BY <1>1 DEF LoadReserved, At, Addr, GuestInv, LrInst, ScInst, AddInst,
                AtomicsInv, TypeOK
  <2> QED
    BY <1>1, <2>1
       DEF NoIncrement, LoadReserved, Retires, Completes, NoLostUpdate,
           GuestInv, AtomicsInv, TypeOK
<1>2. CASE ScFails(h)
  <2>1. gpc[h] = "lr"
    BY <1>2 DEF ScFails, At, GuestInv, LrInst, AddInst, AtomicsInv, TypeOK
  <2> QED
    BY <1>2, <2>1
       DEF NoIncrement, ScFails, Retires, Completes, NoLostUpdate,
           GuestInv, AtomicsInv, TypeOK
<1> QED
  BY <1>1, <1>2 DEF NoIncrement

LEMMA CounterNextInv == CounterInv /\ [GuestNext]_guestVars => CounterInv'
<1> SUFFICES ASSUME CounterInv, [GuestNext]_guestVars PROVE CounterInv'
  OBVIOUS
<1>1. AtomicsInv'
  BY GuestRefinesAtomics, NextInv DEF CounterInv
<1>2. CASE UNCHANGED guestVars
  BY <1>1, <1>2
     DEF guestVars, vars, reservation, CounterInv, GuestInv, NoLostUpdate
<1>3. CASE GuestNext
  BY <1>1, <1>3, StartsInv, IncrementInv, NoIncrementInv
     DEF GuestNext, GuestStep, CounterInv
<1> QED
  BY <1>2, <1>3

(***************************************************************************)
(* No increment is lost (hart.hpp:487-534, operators.hpp:244).             *)
(***************************************************************************)
THEOREM CounterCorrect == GuestSafety => []NoLostUpdate
<1>1. CounterInv => NoLostUpdate
  BY DEF CounterInv
<1> QED
  BY CounterInitInv, CounterNextInv, <1>1, PTL DEF GuestSafety

(***************************************************************************)
(* An LR/SC guest between its LR and its SC has the reservation it relies  *)
(* on, whatever the others do (hart.hpp:501-502, 525).                     *)
(***************************************************************************)
THEOREM GuestInvCorrect == GuestSafety => []GuestInv
<1>1. CounterInv => GuestInv
  BY DEF CounterInv
<1> QED
  BY CounterInitInv, CounterNextInv, <1>1, PTL DEF GuestSafety

(***************************************************************************)
(* The composition is a behaviour of the harts: what is proved of Atomics  *)
(* holds of the harts that run these guests.                               *)
(***************************************************************************)
THEOREM GuestsUseAtomics == GuestSafety => Safety
<1>1. GuestInit => Init
  BY DEF GuestInit
<1> QED
  BY <1>1, GuestRefinesAtomics, PTL DEF GuestSafety, Safety
=============================================================================
