-------------------------- MODULE GuestLock_proofs --------------------------
(***************************************************************************)
(* Proof that the spin lock of GuestLock excludes, and that its data is    *)
(* current inside the critical section, for any number of harts, any bound *)
(* on the store buffers and any word width.                                *)
(***************************************************************************)
EXTENDS GuestLock, Atomics_proofs, SequenceTheorems

LrInst == [op |-> "lr", addr |-> Lock, rs2 |-> Zero]
ScInst == [op |-> "sc", addr |-> Lock, rs2 |-> One]
LoadInst == [op |-> "lw", addr |-> Data, rs2 |-> Zero]
StoreInst(v) == [op |-> "sw", addr |-> Data, rs2 |-> v]
ReleaseInst == [op |-> "sw", addr |-> Lock, rs2 |-> Zero]

\* The guests execute nothing but instructions of the harts.
LEMMA LockRefinesAtomics ==
  AtomicsInv /\ [GuestNext]_guestVars => [Next]_vars
<1> SUFFICES ASSUME AtomicsInv, [GuestNext]_guestVars PROVE [Next]_vars
  OBVIOUS
<1>1. Zero \in Word /\ One \in Word /\ \A t \in Word : Add(t, One) \in Word
  BY WAssumption DEF Zero, One, Word, Bits, Add
<1>2. Lock \in Addrs /\ Data \in Addrs
  BY LockAssumption, AddrAssumption
<1>3. {LrInst, ScInst, LoadInst, ReleaseInst} \subseteq Issued
  BY <1>1, <1>2, LockAssumption
     DEF LrInst, ScInst, LoadInst, ReleaseInst, Inst, LoadOps, StoreOps
<1>4. \A h \in Harts : StoreInst(Add(rd[h], One)) \in Issued
  BY <1>1, <1>2, LockAssumption
     DEF StoreInst, Inst, LoadOps, StoreOps, AtomicsInv, TypeOK
<1>5. ASSUME NEW h \in Harts, GuestStep(h)
      PROVE  [Next]_vars
  <2>1. CASE StartLr(h) \/ StartSc(h) \/ StartLoad(h) \/ StartRelease(h)
    BY <1>3, <2>1
       DEF StartLr, StartSc, StartLoad, StartRelease, Issues, LrInst, ScInst,
           LoadInst, ReleaseInst, Next, Begins
  <2>2. CASE StartStore(h)
    BY <1>4, <2>2 DEF StartStore, Issues, StoreInst, Next, Begins
  <2>3. CASE SpinOnTaken(h) \/ SpinOnFailure(h)
    BY <2>3 DEF SpinOnTaken, SpinOnFailure
  <2>4. CASE MemoryStep(h)
    BY <2>4 DEF MemoryStep, Next, Continues, StoreConditional
  <2> QED
    BY <1>5, <2>1, <2>2, <2>3, <2>4 DEF GuestStep
<1> QED
  BY <1>5 DEF GuestNext, DrainStep, Next, guestVars

-----------------------------------------------------------------------------
(***************************************************************************)
(* The inductive invariant.  MutualExclusion is not inductive: the lock is *)
(* held until the releasing store LEAVES the buffer, while the hart itself *)
(* goes on and already sees the lock free.  A hart is therefore counted as *)
(* critical as long as its release is pending, and the lock word says that *)
(* some hart is.  What waits in a buffer, and in which order, follows from *)
(* the place of the hart in its program.                                   *)
(***************************************************************************)
DataStore == [addr |-> Data, val |-> total]
LockStore == [addr |-> Lock, val |-> Zero]

Pending(h) == buf[h] = <<LockStore>> \/ buf[h] = <<DataStore, LockStore>>

Critical(h) == Holds(h) \/ Pending(h)

\* h is about to store the data, or its store waits.
Dirty(h) ==
  \/ gpc[h] = "release" /\ stage[h] = "access"
  \/ buf[h] = <<DataStore>> \/ buf[h] = <<DataStore, LockStore>>

\* The instruction a hart is in, and what its next one relies on
Program(h) ==
  /\ gpc[h] \in {"lr", "sc", "bnez", "store", "release"}
  /\ stage[h] \in {"fetch", "access"}
  /\ gpc[h] = "lr" /\ stage[h] = "access" => inst[h] = ReleaseInst
  /\ gpc[h] = "sc" /\ stage[h] = "access" => inst[h] = LrInst
  /\ gpc[h] = "sc" /\ stage[h] = "fetch" =>
       reserve_address[h] = Lock /\ reserve_value[h] = rd[h]
  /\ gpc[h] = "bnez" /\ stage[h] = "access" =>
       inst[h] = ScInst /\ reserve_address[h] = Lock /\ reserve_value[h] = Zero
  /\ gpc[h] = "store" /\ stage[h] = "access" => inst[h] = LoadInst
  /\ gpc[h] = "store" /\ stage[h] = "fetch" => rd[h] = total
  /\ gpc[h] = "release" /\ stage[h] = "access" => inst[h] = StoreInst(total)

\* After an SC the buffer is empty; then the data waits in it, then the release.
Buffered(h) ==
  CASE gpc[h] = "store" \/ (gpc[h] = "bnez" /\ stage[h] = "fetch")
         \/ (gpc[h] = "release" /\ stage[h] = "access") -> buf[h] = <<>>
    [] (gpc[h] = "release" /\ stage[h] = "fetch")
         \/ (gpc[h] = "lr" /\ stage[h] = "access") ->
         buf[h] = <<>> \/ buf[h] = <<DataStore>>
    [] OTHER -> buf[h] = <<>> \/ Pending(h)

Exclusive == \A g, h \in Harts : Critical(g) /\ Critical(h) => g = h

LockTaken == \A h \in Harts : Critical(h) => mem[Lock] = One

DataCurrent == (\A h \in Harts : ~Dirty(h)) => mem[Data] = total

LockInv ==
  /\ AtomicsInv
  /\ \A h \in Harts : Program(h) /\ Buffered(h)
  /\ DOMAIN gpc = Harts
  /\ Exclusive /\ LockTaken /\ DataCurrent

LEMMA LockInitInv == GuestInit => LockInv
<1> SUFFICES ASSUME GuestInit PROVE LockInv
  OBVIOUS
<1>1. AtomicsInv
  BY InitInv DEF GuestInit
<1>2. \A h \in Harts : gpc[h] = "lr" /\ stage[h] = "fetch" /\ buf[h] = <<>>
  BY DEF GuestInit, Init
<1>3. \A h \in Harts : ~Critical(h) /\ Program(h) /\ Buffered(h)
  BY <1>2 DEF Critical, Holds, Pending, Program, Buffered
<1> QED
  BY <1>1, <1>2, <1>3 DEF GuestInit, LockInv, Exclusive, LockTaken, DataCurrent

\* A hart that is dirty or holds the lock is critical.
LEMMA DirtyIsCritical ==
  ASSUME NEW h \in Harts, Program(h), Buffered(h), Dirty(h)
  PROVE  Critical(h)
BY DEF Program, Buffered, Dirty, Critical, Holds, Pending, ReleaseInst

\* A pending release excludes that its hart holds the lock again.
LEMMA PendingIsOutside ==
  ASSUME NEW h \in Harts, Program(h), Buffered(h), Pending(h)
  PROVE  ~Holds(h)
BY LockAssumption
   DEF Program, Buffered, Pending, Holds, DataStore, LockStore

-----------------------------------------------------------------------------
\* What a hart sees of the steps of another one
Untouched(g) ==
  /\ gpc'[g] = gpc[g] /\ stage'[g] = stage[g] /\ inst'[g] = inst[g]
  /\ rd'[g] = rd[g] /\ buf'[g] = buf[g]
  /\ reserve_address'[g] = reserve_address[g]
  /\ reserve_value'[g] = reserve_value[g]

LEMMA UntouchedSame ==
  ASSUME NEW g \in Harts, Untouched(g), total' = total
  PROVE  /\ Program(g)' = Program(g) /\ Buffered(g)' = Buffered(g)
         /\ Critical(g)' = Critical(g) /\ Dirty(g)' = Dirty(g)
BY DEF Untouched, Program, Buffered, Critical, Holds, Pending, Dirty, DataStore,
       LockStore, StoreInst

\* A step writes the state of its own hart only.
LEMMA LockFrame ==
  ASSUME LockInv, NEW h \in Harts, GuestStep(h) \/ DrainStep(h)
  PROVE  DOMAIN gpc' = Harts /\ \A g \in Harts \ {h} : Untouched(g)
<1> USE DEF LockInv, AtomicsInv, TypeOK, Untouched, Goes, reservation, vars
<1>1. CASE StartLr(h) \/ StartSc(h) \/ StartLoad(h) \/ StartStore(h) \/ StartRelease(h)
  BY <1>1 DEF StartLr, StartSc, StartLoad, StartStore, StartRelease, Issues, Start
<1>2. CASE SpinOnTaken(h) \/ SpinOnFailure(h)
  BY <1>2 DEF SpinOnTaken, SpinOnFailure
<1>3. CASE MemoryStep(h)
  BY <1>3 DEF MemoryStep, Load, StoreWord, LoadReserved, ScSucceeds, ScFails,
              Retires, Completes
<1>4. CASE DrainStep(h)
  BY <1>4 DEF DrainStep, Drain
<1> QED
  BY <1>1, <1>2, <1>3, <1>4 DEF GuestStep

(***************************************************************************)
(* A step after which h is critical or clean only if it was, and which     *)
(* changes neither the memory nor the history, keeps the shared part.      *)
(***************************************************************************)
LEMMA SharedKept ==
  ASSUME LockInv, NEW h \in Harts, \A g \in Harts \ {h} : Untouched(g),
         mem' = mem, total' = total,
         Critical(h)' => Critical(h), Dirty(h) => Dirty(h)',
         Program(h)', Buffered(h)'
  PROVE  /\ \A g \in Harts : Program(g)' /\ Buffered(g)'
         /\ Exclusive' /\ LockTaken' /\ DataCurrent'
<1>1. \A g \in Harts \ {h} :
        /\ Program(g)' /\ Buffered(g)'
        /\ Critical(g)' => Critical(g)
        /\ Dirty(g) => Dirty(g)'
  BY UntouchedSame DEF LockInv
<1>2. \A g \in Harts : (Critical(g)' => Critical(g)) /\ (Dirty(g) => Dirty(g)')
  BY <1>1
<1> QED
  BY <1>1, <1>2 DEF LockInv, Exclusive, LockTaken, DataCurrent

-----------------------------------------------------------------------------
(***************************************************************************)
(* The steps of hart h, as far as h itself can tell.                       *)
(***************************************************************************)
Keeps(h) ==
  /\ mem' = mem /\ total' = total
  /\ Critical(h)' => Critical(h)
  /\ Dirty(h) => Dirty(h)'
  /\ Program(h)' /\ Buffered(h)'

\* Starting an instruction other than the store of the data.
LEMMA StartsKeep ==
  ASSUME LockInv, NEW h \in Harts,
         StartLr(h) \/ StartSc(h) \/ StartLoad(h) \/ StartRelease(h)
  PROVE  Keeps(h)
<1> USE DEF LockInv, AtomicsInv, TypeOK, Keeps, Goes, Issues, Start, reservation,
            Program, Buffered, Critical, Holds, Dirty, Pending, DataStore,
            LockStore, StoreInst
<1>1. CASE StartLr(h)
  BY <1>1 DEF StartLr, LrInst
<1>2. CASE StartSc(h)
  BY <1>2 DEF StartSc, ScInst
<1>3. CASE StartLoad(h)
  BY <1>3 DEF StartLoad, LoadInst
<1>4. CASE StartRelease(h)
  BY <1>4 DEF StartRelease, ReleaseInst
<1> QED
  BY <1>1, <1>2, <1>3, <1>4

\* The two branches back to the LR.
LEMMA SpinsKeep ==
  ASSUME LockInv, NEW h \in Harts, SpinOnTaken(h) \/ SpinOnFailure(h)
  PROVE  Keeps(h)
<1> USE DEF LockInv, AtomicsInv, TypeOK, Keeps, Goes, vars, reservation,
            Program, Buffered, Critical, Holds, Dirty, Pending, DataStore,
            LockStore, StoreInst
<1>1. CASE SpinOnTaken(h)
  BY <1>1 DEF SpinOnTaken
<1>2. CASE SpinOnFailure(h)
  BY <1>2 DEF SpinOnFailure
<1> QED
  BY <1>1, <1>2

\* A critical hart with an empty buffer that is not about to store the data
\* finds the last finished section in the memory.
LEMMA OwnerSeesTotal ==
  ASSUME LockInv, NEW h \in Harts, gpc[h] = "store"
  PROVE  /\ buf[h] = <<>> /\ mem[Data] = total
         /\ Sees(h, Data) = total
<1>1. buf[h] = <<>> /\ Critical(h)
  BY DEF LockInv, Buffered, Critical, Holds
<1>2. ~Dirty(h)
  BY <1>1 DEF Dirty
<1>3. \A g \in Harts : ~Dirty(g)
  BY <1>1, <1>2, DirtyIsCritical DEF LockInv, Exclusive
<1> QED
  BY <1>1, <1>3, ViewEmpty DEF LockInv, DataCurrent, Sees

\* A buffer never holds more than the data and the release.
LEMMA AppendToShort ==
  ASSUME NEW S, NEW d \in S, NEW e \in S
  PROVE  Append(<<>>, e) = <<e>> /\ Append(<<d>>, e) = <<d, e>>
<1>1. Append(<<>>, e) = <<e>>
  <2>1. <<>> \in Seq(S)
    OBVIOUS
  <2>2. DOMAIN Append(<<>>, e) = 1 .. 1 /\ Append(<<>>, e)[1] = e
    BY <2>1
  <2> QED
    BY <2>2
<1>2. Append(<<d>>, e) = <<d, e>>
  <2>1. <<d>> \in Seq(S) /\ Len(<<d>>) = 1
    OBVIOUS
  <2>2. /\ Append(<<d>>, e) \in Seq(S) /\ Len(Append(<<d>>, e)) = 2
        /\ Append(<<d>>, e)[1] = d /\ Append(<<d>>, e)[2] = e
    BY <2>1
  <2>3. /\ <<d, e>> \in Seq(S) /\ Len(<<d, e>>) = 2
        /\ <<d, e>>[1] = d /\ <<d, e>>[2] = e
    OBVIOUS
  <2>4. \A i \in 1 .. 2 : Append(<<d>>, e)[i] = <<d, e>>[i]
    <3>1. \A i \in 1 .. 2 : i = 1 \/ i = 2
      OBVIOUS
    <3> QED
      BY <2>2, <2>3, <3>1
  <2> QED
    BY <2>2, <2>3, <2>4, SeqEqual
<1> QED
  BY <1>1, <1>2

LEMMA TailOfShort ==
  \A d, e : /\ Head(<<d>>) = d /\ Tail(<<d>>) = <<>>
           /\ Head(<<d, e>>) = d /\ Tail(<<d, e>>) = <<e>>
OBVIOUS

\* The accesses that leave the memory as it is.
LEMMA AccessesKeep ==
  ASSUME LockInv, NEW h \in Harts,
         Load(h) \/ StoreWord(h) \/ LoadReserved(h) \/ ScFails(h),
         UNCHANGED <<gpc, total>>
  PROVE  Keeps(h)
<1> USE DEF LockInv, AtomicsInv, TypeOK, Keeps, Retires, Completes, At, Addr,
            reservation, Program, Buffered, Critical, Holds, Dirty, Pending,
            DataStore, LockStore, LrInst, ScInst, LoadInst, StoreInst,
            ReleaseInst
<1>0. One # Zero
  BY WAssumption DEF One, Zero, Bits
<1>1. CASE Load(h)
  <2>1. gpc[h] = "store" /\ inst[h] = LoadInst
    BY <1>1 DEF Load
  <2>2. rd'[h] = total
    BY <1>1, <2>1, OwnerSeesTotal DEF Load
  <2> QED
    BY <1>1, <2>1, <2>2 DEF Load
<1>2. CASE StoreWord(h)
  <2>1. CASE gpc[h] = "release"
    <3>1. buf[h] = <<>> /\ inst[h] = StoreInst(total)
      BY <1>2, <2>1 DEF StoreWord
    <3>2. buf'[h] = <<DataStore>>
      BY <1>2, <3>1 DEF StoreWord
    <3> QED
      BY <1>2, <2>1, <3>2 DEF StoreWord
  <2>2. CASE gpc[h] = "lr"
    <3>1. (buf[h] = <<>> \/ buf[h] = <<DataStore>>) /\ inst[h] = ReleaseInst
      BY <1>2, <2>2 DEF StoreWord
    <3>2. buf'[h] = Append(buf[h], LockStore)
      BY <1>2, <3>1 DEF StoreWord
    <3>3. \/ buf[h] = <<>> /\ buf'[h] = <<LockStore>>
          \/ buf[h] = <<DataStore>> /\ buf'[h] = <<DataStore, LockStore>>
      BY ONLY <3>1, <3>2, AppendToShort, DataStore \in {DataStore, LockStore},
              LockStore \in {DataStore, LockStore}
    <3> QED
      BY <1>2, <2>2, <3>1, <3>3 DEF StoreWord
  <2> QED
    BY <1>2, <2>1, <2>2, SMTT(20) DEF StoreWord
<1>3. CASE LoadReserved(h)
  BY <1>3 DEF LoadReserved
<1>4. CASE ScFails(h)
  BY <1>0, <1>4 DEF ScFails, Flushed
<1> QED
  BY <1>1, <1>2, <1>3, <1>4

-----------------------------------------------------------------------------
(***************************************************************************)
(* The steps that change what the harts share.                             *)
(***************************************************************************)
\* Where total does not occur in the state of a hart, its change is not felt.
LEMMA CleanUntouched ==
  ASSUME LockInv, NEW g \in Harts, Untouched(g), ~Critical(g)
  PROVE  Program(g)' /\ Buffered(g)' /\ ~Critical(g)'
<1> USE DEF Untouched, LockInv, Program, Buffered, Critical, Holds, Pending,
            ReleaseInst, LrInst, ScInst, LoadInst, StoreInst, LockStore
<1>1. buf[g] = <<>>
  OBVIOUS
<1> QED
  BY <1>1

\* The store of the data starts: from now on total is ahead of the memory.
LEMMA StoreStarts ==
  ASSUME LockInv, NEW h \in Harts, StartStore(h),
         \A g \in Harts \ {h} : Untouched(g)
  PROVE  /\ \A g \in Harts : Program(g)' /\ Buffered(g)'
         /\ Exclusive' /\ LockTaken' /\ DataCurrent'
<1>1. /\ gpc[h] = "store" /\ stage[h] = "fetch" /\ rd[h] = total
      /\ buf[h] = <<>> /\ mem' = mem
      /\ Critical(h)
  BY DEF LockInv, StartStore, Issues, Start, Program, Buffered, Critical, Holds
<1>2. \A g \in Harts \ {h} : ~Critical(g)
  BY <1>1 DEF LockInv, Exclusive
<1>3. \A g \in Harts \ {h} : Program(g)' /\ Buffered(g)' /\ ~Critical(g)'
  BY <1>2, CleanUntouched
<1>4. /\ gpc'[h] = "release" /\ stage'[h] = "access" /\ buf'[h] = <<>>
      /\ inst'[h] = [op |-> "sw", addr |-> Data, rs2 |-> total']
  BY <1>1 DEF LockInv, AtomicsInv, TypeOK, StartStore, Issues, Start, Goes
<1>5. Program(h)' /\ Buffered(h)' /\ Dirty(h)'
  BY <1>4 DEF Program, Buffered, Dirty, StoreInst
<1>6. Exclusive' /\ LockTaken'
  BY <1>1, <1>3 DEF LockInv, Exclusive, LockTaken
<1> QED
  BY <1>3, <1>5, <1>6 DEF DataCurrent

\* The exchange takes the lock, which nobody held.
LEMMA ScTakes ==
  ASSUME LockInv, NEW h \in Harts, ScSucceeds(h), UNCHANGED <<gpc, total>>,
         \A g \in Harts \ {h} : Untouched(g)
  PROVE  /\ \A g \in Harts : Program(g)' /\ Buffered(g)'
         /\ Exclusive' /\ LockTaken' /\ DataCurrent'
<1>0. One # Zero
  BY WAssumption DEF One, Zero, Bits
<1>1. /\ gpc[h] = "bnez" /\ inst[h] = ScInst /\ buf[h] = <<>>
      /\ mem[Lock] = Zero
  BY DEF LockInv, ScSucceeds, At, Addr, Flushed, Program, LoadInst, LrInst,
         ScInst, ReleaseInst, StoreInst
<1>2. \A g \in Harts : ~Critical(g)
  BY <1>0, <1>1 DEF LockInv, LockTaken
<1>3. \A g \in Harts \ {h} :
        /\ Program(g)' /\ Buffered(g)' /\ ~Critical(g)'
        /\ Dirty(g)' = Dirty(g)
  BY <1>2, CleanUntouched, UntouchedSame
<1>4. mem'[Lock] = One /\ mem'[Data] = mem[Data]
  BY <1>1, LockAssumption
     DEF LockInv, AtomicsInv, TypeOK, ScSucceeds, Writes, Addr, ScInst
<1>5. gpc'[h] = "bnez" /\ stage'[h] = "fetch" /\ buf'[h] = <<>>
  BY <1>1 DEF LockInv, AtomicsInv, TypeOK, ScSucceeds, Retires, Completes
<1>6. Program(h)' /\ Buffered(h)' /\ ~Dirty(h)' /\ ~Dirty(h)
  BY <1>1, <1>5 DEF Program, Buffered, Dirty
<1>7. Exclusive' /\ LockTaken'
  BY <1>3, <1>4 DEF Exclusive, LockTaken
<1>8. DataCurrent'
  BY <1>3, <1>4, <1>6 DEF LockInv, DataCurrent
<1> QED
  BY <1>3, <1>6, <1>7, <1>8

\* The data leaves the buffer, or the release does and frees the lock.
LEMMA DrainFrees ==
  ASSUME LockInv, NEW h \in Harts, DrainStep(h),
         \A g \in Harts \ {h} : Untouched(g)
  PROVE  /\ \A g \in Harts : Program(g)' /\ Buffered(g)'
         /\ Exclusive' /\ LockTaken' /\ DataCurrent'
<1> USE DEF LockInv, AtomicsInv, TypeOK, DrainStep, Drain, Flushed, reservation
<1>1. \/ buf[h] = <<DataStore>>
      \/ buf[h] = <<DataStore, LockStore>>
      \/ buf[h] = <<LockStore>>
  BY DEF Buffered, Pending
<1>2. Critical(h)
  BY <1>1, DirtyIsCritical DEF Critical, Pending, Dirty
<1>3. \A g \in Harts \ {h} : ~Critical(g)
  BY <1>2 DEF Exclusive
<1>4. \A g \in Harts \ {h} :
        /\ Program(g)' /\ Buffered(g)' /\ ~Critical(g)' /\ ~Dirty(g)
        /\ Dirty(g)' = Dirty(g)
  BY <1>3, CleanUntouched, UntouchedSame, DirtyIsCritical
<1>5. /\ gpc'[h] = gpc[h] /\ stage'[h] = stage[h] /\ inst'[h] = inst[h]
      /\ rd'[h] = rd[h] /\ reserve_address'[h] = reserve_address[h]
      /\ reserve_value'[h] = reserve_value[h] /\ total' = total
  OBVIOUS
<1>6. Program(h)'
  BY <1>5 DEF Program, StoreInst
<1>7. CASE buf[h] = <<DataStore>> \/ buf[h] = <<DataStore, LockStore>>
  <2>1. /\ mem' = [mem EXCEPT ![Data] = total]
        /\ \/ buf[h] = <<DataStore>> /\ buf'[h] = <<>>
           \/ buf[h] = <<DataStore, LockStore>> /\ buf'[h] = <<LockStore>>
    <3>1. Head(buf[h]) = DataStore
      BY <1>7, TailOfShort
    <3>2. \/ buf[h] = <<DataStore>> /\ Tail(buf[h]) = <<>>
          \/ buf[h] = <<DataStore, LockStore>> /\ Tail(buf[h]) = <<LockStore>>
      BY <1>7, TailOfShort
    <3>3. Head(buf[h]).addr = Data /\ Head(buf[h]).val = total
      BY <3>1 DEF DataStore
    <3>4. /\ buf'[h] = Tail(buf[h])
          /\ mem' = [mem EXCEPT ![Head(buf[h]).addr] = Head(buf[h]).val]
      OBVIOUS
    <3> QED
      BY ONLY <3>2, <3>3, <3>4
  <2>2. mem'[Data] = total /\ mem'[Lock] = mem[Lock]
    BY <2>1, LockAssumption
  <2>3. Buffered(h)'
    BY <1>5, <1>7, <2>1 DEF Buffered, Pending, DataStore, LockStore
  <2>4. Exclusive' /\ LockTaken'
    BY <1>2, <1>4, <2>2 DEF Exclusive, LockTaken
  <2> QED
    BY <1>4, <1>5, <1>6, <2>2, <2>3, <2>4 DEF DataCurrent
<1>8. CASE buf[h] = <<LockStore>>
  <2>1. mem' = [mem EXCEPT ![Lock] = Zero] /\ buf'[h] = <<>>
    <3>1. Head(buf[h]) = LockStore /\ Tail(buf[h]) = <<>>
      BY <1>8, TailOfShort
    <3>2. Head(buf[h]).addr = Lock /\ Head(buf[h]).val = Zero
      BY <3>1 DEF LockStore
    <3>3. /\ buf'[h] = Tail(buf[h])
          /\ mem' = [mem EXCEPT ![Head(buf[h]).addr] = Head(buf[h]).val]
      OBVIOUS
    <3> QED
      BY ONLY <3>1, <3>2, <3>3
  <2>2. mem'[Data] = mem[Data]
    BY <2>1, LockAssumption
  <2>3. ~Critical(h)'
    BY <1>5, <1>8, <2>1, PendingIsOutside DEF Pending, Critical, Holds
  <2>4. Buffered(h)'
    BY <1>5, <2>1 DEF Buffered
  <2>5. ~Dirty(h)
    BY <1>8, PendingIsOutside, LockAssumption
       DEF Pending, Holds, Dirty, DataStore, LockStore
  <2> QED
    BY <1>4, <1>5, <1>6, <2>2, <2>3, <2>4, <2>5
       DEF Exclusive, LockTaken, DataCurrent
<1> QED
  BY <1>1, <1>7, <1>8

LEMMA LockNextInv == LockInv /\ [GuestNext]_guestVars => LockInv'
<1> SUFFICES ASSUME LockInv, [GuestNext]_guestVars PROVE LockInv'
  OBVIOUS
<1>1. AtomicsInv'
  BY LockRefinesAtomics, NextInv DEF LockInv
<1>2. CASE UNCHANGED guestVars
  <2>1. \A g \in Harts : Untouched(g)
    BY <1>2 DEF guestVars, vars, reservation, Untouched
  <2>2. \A g \in Harts : /\ Program(g)' = Program(g) /\ Buffered(g)' = Buffered(g)
                         /\ Critical(g)' = Critical(g) /\ Dirty(g)' = Dirty(g)
    BY <1>2, <2>1, UntouchedSame DEF guestVars
  <2> QED
    BY <1>1, <1>2, <2>2
       DEF guestVars, vars, LockInv, Exclusive, LockTaken, DataCurrent
<1>3. ASSUME NEW h \in Harts, GuestStep(h) \/ DrainStep(h)
      PROVE  LockInv'
  <2>1. DOMAIN gpc' = Harts /\ \A g \in Harts \ {h} : Untouched(g)
    BY <1>3, LockFrame
  <2>2. CASE Keeps(h)
    BY <1>1, <2>1, <2>2, SharedKept DEF Keeps, LockInv
  <2>3. CASE StartStore(h)
    BY <1>1, <2>1, <2>3, StoreStarts DEF LockInv
  <2>4. CASE ScSucceeds(h) /\ MemoryStep(h)
    BY <1>1, <2>1, <2>4, ScTakes DEF LockInv, MemoryStep
  <2>5. CASE DrainStep(h)
    BY <1>1, <2>1, <2>5, DrainFrees DEF LockInv
  <2> QED
    BY <1>3, <2>2, <2>3, <2>4, <2>5, StartsKeep, SpinsKeep, AccessesKeep
       DEF GuestStep, MemoryStep
<1> QED
  BY <1>2, <1>3 DEF GuestNext

LEMMA LockAlways == GuestSafety => []LockInv
BY LockInitInv, LockNextInv, PTL DEF GuestSafety

(***************************************************************************)
(* The LR/SC spin lock excludes, for any number of harts: the exchange of  *)
(* visit_scw_inst finds the lock free only after the releasing store of    *)
(* the last owner has left its buffer.                                     *)
(***************************************************************************)
THEOREM MutualExclusionTheorem == GuestSafety => []MutualExclusion
<1>1. LockInv => MutualExclusion
  BY DEF LockInv, Exclusive, Critical, MutualExclusion
<1> QED
  BY <1>1, LockAlways, PTL

(***************************************************************************)
(* The plain load of operate_load inside the critical section sees the     *)
(* plain store of the previous owner: the stores of a hart leave its       *)
(* buffer in order, the data before the release.                           *)
(***************************************************************************)
THEOREM LatestDataTheorem == GuestSafety => []SeesLatestData
<1>1. LockInv => SeesLatestData
  BY OwnerSeesTotal DEF SeesLatestData
<1> QED
  BY <1>1, LockAlways, PTL
=============================================================================
