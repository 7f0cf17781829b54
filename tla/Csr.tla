-------------------------------- MODULE Csr ---------------------------------
(***************************************************************************)
(* The Zicsr instructions of a hart (include/target/hart.hpp:642-885): the *)
(* check of the CSR number against cur_level and the table of registers,   *)
(* the order in which rd and the CSR are written, and the ways in which an *)
(* instruction turns illegal.  The setters of the subclass decide what a   *)
(* write does; the handlers of the subclass change cur_level.              *)
(***************************************************************************)
EXTENDS Words, CsrMap

CONSTANTS
  Regs,      \* the integer registers in use; 0 is x0
  Values,    \* what the integer registers hold at first
  Kept,      \* the CSRs whose content is modelled
  Setter,    \* what set_<name>_csr_reg does: "store", "ignore" or "refuse"
  Issued,    \* the instructions guest code executes
  HartId,    \* the hart_id given to the constructor
  IllegalCause,   \* trap::ILLEGAL_INSTRUCTION
  IllegalWord     \* the encoding of an illegal instruction, abstracted

\* csrr<fn> with a register or an immediate operand
CsrInst ==
  [fn : {"w", "s", "c"}, imm : BOOLEAN, rd : Regs, rs1 : Regs,
   uimm : Word, csr : Nat]

\* Guest code may name any number, and those of Kept among the defined ones.
ASSUME CsrAssumption ==
  /\ W > 30     \* XLEN
  /\ Regs \subseteq Nat /\ 0 \in Regs
  /\ Values \subseteq Word
  /\ Kept \subseteq Defined /\ {SCAUSE, STVAL} \subseteq Kept
  /\ Setter \in [Kept -> {"store", "ignore", "refuse"}]
  /\ HartId \in Word
  /\ IllegalCause \in Word /\ IllegalWord \in Word
  /\ Issued \subseteq CsrInst /\ Issued # {}
  /\ \A i \in Issued : i.csr \in Defined => i.csr \in Kept

VARIABLES
  x,          \* Hart::int_reg
  csr,        \* Hart::csr_reg
  cur_level,  \* Hart::cur_level
  last        \* history: the last instruction and how it ended

vars == <<x, csr, cur_level, last>>

Init ==
  /\ x \in [Regs -> Values \cup {Zero}] /\ x[0] = Zero
  /\ csr = [n \in Kept |-> CASE n = MISA -> MISA_INIT
                             [] n = MHARTID -> HartId
                             [] OTHER -> Zero]
  /\ cur_level = 3
  /\ last = [inst |-> CHOOSE i \in Issued : TRUE, end |-> "none"]

-----------------------------------------------------------------------------
(***************************************************************************)
(* Bits of the CSR number: get_privilege_bits and get_read_write_bits.     *)
(***************************************************************************)
Privilege(n) == (n \div 256) % 4
ReadOnly(n)  == (n \div 1024) % 4 = 3

\* Mutant: the privilege level is compared the other way round.
Accessible_Inverted(n) == Privilege(n) >= cur_level /\ n \in Defined

\* check_csr finds an index
Accessible(n) == Privilege(n) <= cur_level /\ n \in Defined

NullSource(i) == IF i.imm THEN i.uimm = Zero ELSE i.rs1 = 0

\* csrrw and csrrwi always write; the others unless the source is x0 or 0
Writes(i) == i.fn = "w" \/ ~NullSource(i)

\* Mutant: the read-only bits are not looked at.
Protected_Never(i) == FALSE

\* csrrw and csrrwi do not look at the bits that say read-only
Protected(i) == i.fn # "w" /\ ReadOnly(i.csr)

SetX(r, v) == IF r = 0 THEN x ELSE [x EXCEPT ![r] = v]

\* Mutant: the write of rd does not spare x0.
RdWritten_OldX0(i) == [x EXCEPT ![i.rd] = csr[i.csr]]

\* The registers after rd is written, which is before the source is read
RdWritten(i) == SetX(i.rd, csr[i.csr])

\* Mutant: csrrc clears the bits that the source has not got.
NewValue_Inverted(i, regs) ==
  LET source == IF i.imm THEN i.uimm ELSE regs[i.rs1] IN
  CASE i.fn = "w" -> source
    [] i.fn = "s" -> Or(csr[i.csr], source)
    [] i.fn = "c" -> And(csr[i.csr], source)

NewValue(i, regs) ==
  LET source == IF i.imm THEN i.uimm ELSE regs[i.rs1] IN
  CASE i.fn = "w" -> source
    [] i.fn = "s" -> Or(csr[i.csr], source)
    [] i.fn = "c" -> csr[i.csr] \ source

-----------------------------------------------------------------------------
Retires(i) == last' = [inst |-> i, end |-> "retired"]

\* illegal_instruction stores the cause and the instruction in csr_reg.
IllegalInstruction(i, end) ==
  /\ csr' = [csr EXCEPT ![SCAUSE] = IllegalCause, ![STVAL] = IllegalWord]
  /\ last' = [inst |-> i, end |-> end]

Denied(i) ==
  /\ ~Accessible(i.csr)
  /\ IllegalInstruction(i, "illegal")
  /\ UNCHANGED <<x, cur_level>>

\* Mutant: rd is written before the read-only bits are looked at.
WriteProtected_RdFirst(i) ==
  /\ Accessible(i.csr)
  /\ Writes(i) /\ Protected(i)
  /\ x' = RdWritten(i)
  /\ IllegalInstruction(i, "illegal")
  /\ UNCHANGED cur_level

WriteProtected(i) ==
  /\ Accessible(i.csr)
  /\ Writes(i) /\ Protected(i)
  /\ IllegalInstruction(i, "illegal")
  /\ UNCHANGED <<x, cur_level>>

Reads(i) ==
  /\ Accessible(i.csr)
  /\ ~Writes(i)
  /\ x' = RdWritten(i)
  /\ Retires(i)
  /\ UNCHANGED <<csr, cur_level>>

Calls(i, setter) ==
  /\ Accessible(i.csr)
  /\ Writes(i) /\ ~Protected(i)
  /\ Setter[i.csr] = setter
  /\ x' = RdWritten(i)

Stored(i) ==
  /\ Calls(i, "store")
  /\ csr' = [csr EXCEPT ![i.csr] = NewValue(i, RdWritten(i))]
  /\ Retires(i)
  /\ UNCHANGED cur_level

Ignored(i) ==
  /\ Calls(i, "ignore")
  /\ Retires(i)
  /\ UNCHANGED <<csr, cur_level>>

\* rd has been written when the setter refuses
Refused(i) ==
  /\ Calls(i, "refuse")
  /\ IllegalInstruction(i, "refused")
  /\ UNCHANGED cur_level

\* A handler of the subclass enters or leaves a privilege level.
ChangeLevel ==
  /\ cur_level' \in Levels \ {cur_level}
  /\ UNCHANGED <<x, csr, last>>

Executes(i) ==
  \/ Denied(i) \/ WriteProtected(i) \/ Reads(i)
  \/ Stored(i) \/ Ignored(i) \/ Refused(i)

Next == (\E i \in Issued : Executes(i)) \/ ChangeLevel

Spec == Init /\ [][Next]_vars

-----------------------------------------------------------------------------
TypeOK ==
  /\ x \in [Regs -> Word] /\ x[0] = Zero
  /\ csr \in [Kept -> Word]
  /\ cur_level \in Levels
  /\ last \in [inst : Issued,
               end : {"none", "retired", "illegal", "refused"}]

(***************************************************************************)
(* A register of a higher privilege level neither changes nor becomes      *)
(* known to guest code of a lower one, but for the two that report traps.  *)
(***************************************************************************)
PrivilegeKept ==
  [][/\ \A n \in Kept \ {SCAUSE, STVAL} :
          csr'[n] # csr[n] => Privilege(n) <= cur_level
     /\ x' # x => Privilege(last'.inst.csr) <= cur_level]_vars

(***************************************************************************)
(* A register whose number says that it is read-only changes only by       *)
(* csrrw or csrrwi on itself, which do not look at those bits, and then    *)
(* only if the setter of the subclass stores: csrrs and csrrc never change *)
(* it, and no instruction changes it while writing another register.       *)
(***************************************************************************)
ReadOnlyKept ==
  [][\A n \in Kept \ {SCAUSE, STVAL} :
       ReadOnly(n) /\ csr'[n] # csr[n] =>
         last'.inst.fn = "w" /\ last'.inst.csr = n /\ Setter[n] = "store"]_vars

(***************************************************************************)
(* An instruction that retires is one read-modify-write: rd gets the old   *)
(* value of the CSR, and the CSR what the source makes of its old value.   *)
(* The RISC-V manual takes for source the old value of rs1.  The code      *)
(* writes rd before it reads rs1, so that with rd = rs1 (and not x0) the   *)
(* source is the old value of the CSR itself, and the register is lost.    *)
(***************************************************************************)
Source(i) ==
  IF i.imm THEN i.uimm
  ELSE IF i.rd = i.rs1 /\ i.rd # 0 THEN csr[i.csr]
  ELSE x[i.rs1]

ReadModifyWrite(i) ==
  /\ \A r \in Regs \ {0} : x'[r] = IF r = i.rd THEN csr[i.csr] ELSE x[r]
  /\ Setter[i.csr] = "store" =>
       \A b \in Bits : b \in csr'[i.csr] <=>
         \/ b \in Source(i) /\ i.fn \in {"w", "s"}
         \/ b \in csr[i.csr] /\ i.fn = "s"
         \/ b \in csr[i.csr] /\ i.fn = "c" /\ b \notin Source(i)

AtomicReadModifyWrite ==
  [][cur_level' = cur_level /\ last'.end = "retired"
       => ReadModifyWrite(last'.inst)]_vars

(***************************************************************************)
(* An illegal CSR instruction changes no integer register and no CSR but   *)
(* those of the report, so that a handler can emulate it.  One that the    *)
(* setter of the subclass refuses has written rd before, and nothing else: *)
(* rd holds the old value of the CSR when the trap is taken.               *)
(***************************************************************************)
IllegalIsPrecise ==
  [][last'.end \in {"illegal", "refused"} /\ cur_level' = cur_level =>
       /\ \A r \in Regs :
            x'[r] = IF last'.end = "refused" /\ r = last'.inst.rd /\ r # 0
                    THEN csr[last'.inst.csr] ELSE x[r]
       /\ \A n \in Kept \ {SCAUSE, STVAL} : csr'[n] = csr[n]]_vars

(***************************************************************************)
(* The bits of its number give every register of the table to the levels   *)
(* its row names: the user registers and the counters to all, those of the *)
(* supervisor from its level on, the rest to machine mode.                 *)
(***************************************************************************)
LevelsSeeTheirs ==
  \A n \in Defined :
    Accessible(n) <=>
      \/ n \in FloatPointRegs \cup UserTrapRegs \cup CounterRegs
      \/ n \in SupervisorRegs /\ cur_level # 0
      \/ cur_level = 3
=============================================================================
