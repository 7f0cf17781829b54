----------------------------- MODULE Csr_proofs -----------------------------
(***************************************************************************)
(* Proofs about Csr, for every set of registers, every behaviour of the    *)
(* setters, every word width and every sequence of instructions.           *)
(***************************************************************************)
EXTENDS Csr, TLAPS

\* misa fits into a word of 32 bits.
LEMMA MisaIsWord == MISA_INIT \in Word
<1>1. \A m \in DOMAIN MisaBit : MisaBit[m] \in 0 .. 30
  BY DEF MisaBit
<1> QED
  BY <1>1, WAssumption, CsrAssumption DEF MISA_INIT, Word, Bits

LEMMA CsrInit == Init => TypeOK
<1> SUFFICES ASSUME Init PROVE TypeOK
  OBVIOUS
<1>1. Zero \in Word
  BY DEF Zero, Word
<1>2. csr \in [Kept -> Word]
  <2>1. \A n \in Kept : csr[n] \in {MISA_INIT, HartId, Zero}
    BY DEF Init
  <2>2. csr \in [Kept -> {MISA_INIT, HartId, Zero}]
    BY <2>1 DEF Init
  <2> QED
    BY <1>1, <2>2, MisaIsWord, CsrAssumption
<1>3. (CHOOSE i \in Issued : TRUE) \in Issued
  BY CsrAssumption
<1> QED
  BY <1>1, <1>2, <1>3, CsrAssumption DEF Init, TypeOK, Levels

\* What an instruction writes to rd and to the CSR is a word.
LEMMA WritesAreWords ==
  ASSUME TypeOK, NEW i \in Issued, Accessible(i.csr)
  PROVE  /\ RdWritten(i) \in [Regs -> Word]
         /\ RdWritten(i)[0] = Zero
         /\ NewValue(i, RdWritten(i)) \in Word
<1>1. i \in CsrInst /\ csr[i.csr] \in Word
  <2>1. i \in CsrInst
    BY CsrAssumption
  <2>2. i.csr \in Kept /\ csr \in [Kept -> Word]
    BY CsrAssumption DEF TypeOK, Accessible
  <2> QED
    BY <2>1, <2>2
<1>2. RdWritten(i) \in [Regs -> Word] /\ RdWritten(i)[0] = Zero
  BY <1>1, CsrAssumption DEF TypeOK, RdWritten, SetX, CsrInst
<1>3. NewValue(i, RdWritten(i)) \in Word
  <2> DEFINE source == IF i.imm THEN i.uimm ELSE RdWritten(i)[i.rs1]
  <2>1. source \in Word
    BY <1>1, <1>2 DEF CsrInst
  <2>2. i.fn \in {"w", "s", "c"}
    BY <1>1 DEF CsrInst
  <2>3. Or(csr[i.csr], source) \in Word /\ csr[i.csr] \ source \in Word
    BY <1>1, <2>1 DEF Or, Word
  <2> HIDE DEF source
  <2>4. NewValue(i, RdWritten(i)) \in
          {source, Or(csr[i.csr], source), csr[i.csr] \ source}
    BY <2>2 DEF NewValue, source
  <2> QED
    BY <2>1, <2>3, <2>4
<1> QED
  BY <1>2, <1>3

\* An illegal instruction leaves two more words in the CSR file.
LEMMA ReportsAreWords ==
  ASSUME TypeOK, NEW i \in Issued, NEW end \in {"illegal", "refused"},
         IllegalInstruction(i, end)
  PROVE  /\ csr' \in [Kept -> Word]
         /\ \A n \in Kept \ {SCAUSE, STVAL} : csr'[n] = csr[n]
         /\ last' = [inst |-> i, end |-> end]
BY CsrAssumption DEF TypeOK, IllegalInstruction

LEMMA CsrNext == TypeOK /\ [Next]_vars => TypeOK'
<1> SUFFICES ASSUME TypeOK, [Next]_vars PROVE TypeOK'
  OBVIOUS
<1>1. CASE UNCHANGED vars
  BY <1>1 DEF vars, TypeOK
<1>2. CASE ChangeLevel
  BY <1>2 DEF ChangeLevel, TypeOK
<1>3. ASSUME NEW i \in Issued, Denied(i) \/ WriteProtected(i)
      PROVE  TypeOK'
  <2>1. IllegalInstruction(i, "illegal") /\ UNCHANGED <<x, cur_level>>
    BY <1>3 DEF Denied, WriteProtected
  <2> QED
    BY <2>1, ReportsAreWords DEF TypeOK
<1>4. ASSUME NEW i \in Issued, Reads(i) \/ Ignored(i)
      PROVE  TypeOK'
  <2>1. /\ Accessible(i.csr) /\ x' = RdWritten(i)
        /\ last' = [inst |-> i, end |-> "retired"]
        /\ UNCHANGED <<csr, cur_level>>
    BY <1>4 DEF Reads, Ignored, Calls, Retires
  <2> QED
    BY <2>1, WritesAreWords DEF TypeOK
<1>5. ASSUME NEW i \in Issued, Stored(i)
      PROVE  TypeOK'
  <2>1. /\ Accessible(i.csr) /\ x' = RdWritten(i)
        /\ last' = [inst |-> i, end |-> "retired"]
        /\ csr' = [csr EXCEPT ![i.csr] = NewValue(i, RdWritten(i))]
        /\ UNCHANGED cur_level
    BY <1>5 DEF Stored, Calls, Retires
  <2>2. csr' \in [Kept -> Word]
    BY <2>1, WritesAreWords DEF TypeOK
  <2> QED
    BY <2>1, <2>2, WritesAreWords DEF TypeOK
<1>6. ASSUME NEW i \in Issued, Refused(i)
      PROVE  TypeOK'
  <2>1. /\ Accessible(i.csr) /\ x' = RdWritten(i)
        /\ IllegalInstruction(i, "refused") /\ UNCHANGED cur_level
    BY <1>6 DEF Refused, Calls
  <2> QED
    BY <2>1, WritesAreWords, ReportsAreWords DEF TypeOK
<1> QED
  BY <1>1, <1>2, <1>3, <1>4, <1>5, <1>6 DEF Next, Executes

(***************************************************************************)
(* The registers and CSRs hold words, x0 holds zero and cur_level is a     *)
(* privilege level, whatever instructions run (hart.hpp:710-883).          *)
(***************************************************************************)
THEOREM CsrTypeCorrect == Spec => []TypeOK
BY CsrInit, CsrNext, PTL DEF Spec

\* What the hart leaves when an instruction turns illegal or is refused.
Reported(i, end) ==
  /\ last' = [inst |-> i, end |-> end]
  /\ \A r \in Regs :
       x'[r] = IF end = "refused" /\ r = i.rd /\ r # 0 THEN csr[i.csr] ELSE x[r]
  /\ \A n \in Kept \ {SCAUSE, STVAL} : csr'[n] = csr[n]

LEMMA IllegalReports ==
  ASSUME TypeOK, NEW i \in Issued, Denied(i) \/ WriteProtected(i)
  PROVE  Reported(i, "illegal") /\ x' = x
<1>1. IllegalInstruction(i, "illegal") /\ x' = x
  BY DEF Denied, WriteProtected
<1> QED
  BY <1>1, ReportsAreWords DEF Reported

LEMMA RefusedReports ==
  ASSUME TypeOK, NEW i \in Issued, Refused(i)
  PROVE  Reported(i, "refused") /\ Accessible(i.csr)
<1>1. Accessible(i.csr) /\ x' = RdWritten(i) /\ IllegalInstruction(i, "refused")
  BY DEF Refused, Calls
<1>2. i \in CsrInst
  BY CsrAssumption
<1>3. \A r \in Regs : x'[r] = IF r = i.rd /\ r # 0 THEN csr[i.csr] ELSE x[r]
  BY <1>1, <1>2 DEF RdWritten, SetX, TypeOK, CsrInst
<1> QED
  BY <1>1, <1>3, ReportsAreWords DEF Reported

\* What a step of the hart can do to the CSRs.
LEMMA CsrSteps ==
  ASSUME TypeOK, Next
  PROVE  /\ \A n \in Kept \ {SCAUSE, STVAL} : csr'[n] # csr[n] =>
              /\ Privilege(n) <= cur_level
              /\ ReadOnly(n) =>
                   last'.inst.fn = "w" /\ last'.inst.csr = n /\ Setter[n] = "store"
         /\ x' # x => Privilege(last'.inst.csr) <= cur_level
         /\ last'.end \in {"illegal", "refused"} /\ cur_level' = cur_level
              => Reported(last'.inst, last'.end)
<1> DEFINE others == Kept \ {SCAUSE, STVAL}
<1>1. CASE ChangeLevel
  BY <1>1, CsrAssumption DEF ChangeLevel, Levels, TypeOK
<1>2. ASSUME NEW i \in Issued, Denied(i) \/ WriteProtected(i)
      PROVE  /\ x' = x /\ \A n \in others : csr'[n] = csr[n]
             /\ Reported(last'.inst, last'.end)
  BY <1>2, IllegalReports DEF Reported
<1>3. ASSUME NEW i \in Issued, Refused(i)
      PROVE  /\ \A n \in others : csr'[n] = csr[n]
             /\ Privilege(last'.inst.csr) <= cur_level
             /\ Reported(last'.inst, last'.end)
  BY <1>3, RefusedReports DEF Reported, Accessible
<1>4. ASSUME NEW i \in Issued, Reads(i) \/ Ignored(i)
      PROVE  /\ \A n \in others : csr'[n] = csr[n]
             /\ Privilege(last'.inst.csr) <= cur_level
             /\ last'.end = "retired"
  BY <1>4 DEF Reads, Ignored, Calls, Retires, Accessible
<1>5. ASSUME NEW i \in Issued, Stored(i)
      PROVE  /\ \A n \in others : csr'[n] # csr[n] =>
                  /\ Privilege(n) <= cur_level
                  /\ ReadOnly(n) =>
                       last'.inst.fn = "w" /\ last'.inst.csr = n /\ Setter[n] = "store"
             /\ Privilege(last'.inst.csr) <= cur_level
             /\ last'.end = "retired"
  <2>1. /\ Accessible(i.csr) /\ ~Protected(i) /\ Setter[i.csr] = "store"
        /\ csr' = [csr EXCEPT ![i.csr] = NewValue(i, RdWritten(i))]
        /\ last' = [inst |-> i, end |-> "retired"]
    BY <1>5 DEF Stored, Calls, Retires
  <2>2. ASSUME NEW n \in others, csr'[n] # csr[n]
        PROVE  n = i.csr
    BY <2>1, <2>2 DEF TypeOK
  <2> QED
    BY <2>1, <2>2 DEF Accessible, Protected
<1> QED
  BY <1>1, <1>2, <1>3, <1>4, <1>5 DEF Next, Executes

(***************************************************************************)
(* No instruction reads or writes a register of a level above cur_level    *)
(* (hart.hpp:671-677), however the handlers move cur_level.                *)
(***************************************************************************)
THEOREM PrivilegeTheorem == Spec => PrivilegeKept
<1>1. TypeOK /\ [Next]_vars =>
        [/\ \A n \in Kept \ {SCAUSE, STVAL} :
              csr'[n] # csr[n] => Privilege(n) <= cur_level
         /\ x' # x => Privilege(last'.inst.csr) <= cur_level]_vars
  BY CsrSteps
<1> QED
  BY <1>1, CsrTypeCorrect, PTL DEF Spec, PrivilegeKept

(***************************************************************************)
(* A register whose number says read-only changes only by csrrw or csrrwi  *)
(* on itself and through a setter that stores (hart.hpp:745, 777, 831,     *)
(* 863): neither csrrs and csrrc nor a write to another register does.     *)
(***************************************************************************)
THEOREM ReadOnlyTheorem == Spec => ReadOnlyKept
<1>1. TypeOK /\ [Next]_vars =>
        [\A n \in Kept \ {SCAUSE, STVAL} :
           ReadOnly(n) /\ csr'[n] # csr[n] =>
             last'.inst.fn = "w" /\ last'.inst.csr = n /\ Setter[n] = "store"]_vars
  BY CsrSteps
<1> QED
  BY <1>1, CsrTypeCorrect, PTL DEF Spec, ReadOnlyKept

(***************************************************************************)
(* A CSR instruction that turns illegal before its setter is called leaves *)
(* every integer register, one that the setter refuses every register but  *)
(* rd, and both every CSR but SCAUSE and STVAL (hart.hpp:710-883).         *)
(***************************************************************************)
THEOREM IllegalTheorem == Spec => IllegalIsPrecise
<1>1. TypeOK /\ [Next]_vars =>
        [last'.end \in {"illegal", "refused"} /\ cur_level' = cur_level =>
           /\ \A r \in Regs :
                x'[r] = IF last'.end = "refused" /\ r = last'.inst.rd /\ r # 0
                        THEN csr[last'.inst.csr] ELSE x[r]
           /\ \A n \in Kept \ {SCAUSE, STVAL} : csr'[n] = csr[n]]_vars
  BY CsrSteps DEF Reported
<1> QED
  BY <1>1, CsrTypeCorrect, PTL DEF Spec, IllegalIsPrecise

\* What an instruction that retires does to its own register and CSR.
LEMMA RetiredSteps ==
  ASSUME TypeOK, NEW i \in Issued, Reads(i) \/ Stored(i) \/ Ignored(i)
  PROVE  ReadModifyWrite(i)
<1>1. i \in CsrInst /\ i.csr \in Kept /\ x' = RdWritten(i)
  BY CsrAssumption DEF Reads, Stored, Ignored, Calls, Accessible
<1>2. \A r \in Regs \ {0} : x'[r] = IF r = i.rd THEN csr[i.csr] ELSE x[r]
  BY <1>1 DEF RdWritten, SetX, TypeOK, CsrInst
<1>3. CASE Ignored(i)
  BY <1>2, <1>3 DEF Ignored, Calls, ReadModifyWrite
<1>4. CASE Reads(i)
  <2>1. i.fn \in {"s", "c"} /\ Source(i) = {}
    BY <1>1, <1>4 DEF Reads, Writes, NullSource, Source, TypeOK, Zero, CsrInst
  <2>2. csr' = csr
    BY <1>4 DEF Reads
  <2> QED
    BY <1>2, <2>1, <2>2 DEF ReadModifyWrite
<1>5. CASE Stored(i)
  <2>1. csr'[i.csr] = NewValue(i, RdWritten(i))
    BY <1>1, <1>5 DEF Stored, TypeOK
  \* rd was written first, and over the source when they are one register
  <2>2. Source(i) = IF i.imm THEN i.uimm ELSE RdWritten(i)[i.rs1]
    BY <1>1 DEF Source, RdWritten, SetX, TypeOK, CsrInst
  <2>3. i.fn \in {"w", "s", "c"}
    BY <1>1 DEF CsrInst
  <2>4. \/ i.fn = "w" /\ csr'[i.csr] = Source(i)
        \/ i.fn = "s" /\ csr'[i.csr] = Or(csr[i.csr], Source(i))
        \/ i.fn = "c" /\ csr'[i.csr] = csr[i.csr] \ Source(i)
    BY <2>1, <2>2, <2>3 DEF NewValue
  <2> QED
    BY <1>2, <2>4 DEF ReadModifyWrite, Or
<1> QED
  BY <1>3, <1>4, <1>5

LEMMA RetiresAtomically ==
  ASSUME TypeOK, Next, cur_level' = cur_level, last'.end = "retired"
  PROVE  ReadModifyWrite(last'.inst)
<1>1. ~ChangeLevel
  BY DEF ChangeLevel
<1>2. PICK i \in Issued : Executes(i)
  BY <1>1 DEF Next
<1>3. Reads(i) \/ Stored(i) \/ Ignored(i)
  BY <1>2 DEF Executes, Denied, WriteProtected, Refused, IllegalInstruction
<1>4. last'.inst = i
  BY <1>3 DEF Reads, Stored, Ignored, Retires
<1> QED
  BY <1>3, <1>4, RetiredSteps

(***************************************************************************)
(* A CSR instruction that retires reads, modifies and writes as one        *)
(* (hart.hpp:710-883), for every setter and all registers; when rd is the  *)
(* source register, the source is the old value of the CSR.                *)
(***************************************************************************)
THEOREM ReadModifyWriteTheorem == Spec => AtomicReadModifyWrite
<1>1. TypeOK /\ [Next]_vars =>
        [cur_level' = cur_level /\ last'.end = "retired"
           => ReadModifyWrite(last'.inst)]_vars
  BY RetiresAtomically
<1> QED
  BY <1>1, CsrTypeCorrect, PTL DEF Spec, AtomicReadModifyWrite

\* What the bits 9 and 8 say of the numbers of each group of rows.
LEMMA GroupLevels ==
  /\ \A n \in FloatPointRegs \cup UserTrapRegs : Privilege(n) = 0
  /\ \A n \in CounterRegs : Privilege(n) = 0
  /\ \A n \in SupervisorRegs : Privilege(n) = 1
  /\ \A n \in HypervisorRegs : Privilege(n) \in {2, 3}
  /\ \A n \in DebugRegs : Privilege(n) = 3
  /\ \A n \in MachineRegs : Privilege(n) = 3
<1> USE DEF Privilege, If
<1>1. \A n \in FloatPointRegs \cup UserTrapRegs : Privilege(n) = 0
  BY DEF FloatPointRegs, UserTrapRegs
<1>2. \A n \in CounterRegs : Privilege(n) = 0
  BY DEF CounterRegs
<1>3. \A n \in SupervisorRegs : Privilege(n) = 1
  BY DEF SupervisorRegs
<1>4. \A n \in HypervisorRegs : Privilege(n) \in {2, 3}
  BY DEF HypervisorRegs
<1>5. \A n \in DebugRegs : Privilege(n) = 3
  BY DEF DebugRegs
<1>6. \A n \in MachineRegs : Privilege(n) = 3
  BY DEF MachineRegs
<1> QED
  BY <1>1, <1>2, <1>3, <1>4, <1>5, <1>6

(***************************************************************************)
(* In every build that defines the supervisor mode, check_csr lets a level *)
(* at the registers whose rows in csr_register_def.hpp are of that level   *)
(* or of a lower one, and at no others.                                    *)
(***************************************************************************)
THEOREM LevelsTheorem == Spec => []LevelsSeeTheirs
<1>1. TypeOK => LevelsSeeTheirs
  <2> SUFFICES ASSUME TypeOK, NEW n \in Defined
               PROVE  Accessible(n) <=>
                        \/ n \in FloatPointRegs \cup UserTrapRegs \cup CounterRegs
                        \/ n \in SupervisorRegs /\ cur_level # 0
                        \/ cur_level = 3
    BY DEF LevelsSeeTheirs
  <2>1. cur_level \in {0, 1, 3}
    BY DEF TypeOK, Levels, If
  <2> QED
    BY <2>1, GroupLevels DEF Accessible, Defined
<1> QED
  BY <1>1, CsrTypeCorrect, PTL
=============================================================================
