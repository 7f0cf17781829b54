------------------------------- MODULE CsrMap -------------------------------
(***************************************************************************)
(* The control and status registers a build has                            *)
(* (include/register/csr_register_def.hpp): the rows of                    *)
(* riscv_isa_csr_reg_map are macros that are empty unless the build        *)
(* defines the mode or the extension they belong to.  A build is the set   *)
(* of its __RV_*__ macros; XLEN is 32.                                     *)
(***************************************************************************)
EXTENDS Integers

CONSTANT Build    \* the __RV_*__ macros of the build, without underscores

\* hart.hpp:225 names SCAUSE and STVAL in every build
ASSUME BuildAssumption == "SUPERVISOR_MODE" \in Build

If(macros, numbers) == IF macros \cap Build = {} THEN {} ELSE numbers

\* __RV_FLOAT_POINT__
FloatPoint == {"EXTENSION_F", "EXTENSION_D", "EXTENSION_Q"}

\* FFLAGS, FRM, FCSR
FloatPointRegs == If(FloatPoint, 1 .. 3)

\* USTATUS, UIE .. UTVEC, USCRATCH .. UIP
UserTrapRegs == If({"EXTENSION_N"}, {0, 4, 5} \cup 64 .. 68)

\* Mutant: the ranges of the user and the machine counters are swapped.
CounterRegs_MachineBase ==
  If({"USER_MODE", "SUPERVISOR_MODE"},
     3072 .. 3074 \cup 2819 .. 2847 \cup 3200 .. 3202 \cup 3203 .. 3231)

\* CYCLE .. INSTRET, HPMCOUNTER3 .. 31, and their high halves
CounterRegs ==
  If({"USER_MODE", "SUPERVISOR_MODE"},
     3072 .. 3074 \cup 3075 .. 3103 \cup 3200 .. 3202 \cup 3203 .. 3231)

\* SSTATUS, SEDELEG .. SCOUNTEREN, SSCRATCH .. SIP, SATP
SupervisorRegs ==
  If({"SUPERVISOR_MODE"}, {256, 384} \cup 258 .. 262 \cup 320 .. 324)

\* HSTATUS, HEDELEG .. HGEIE, HTIMEDELTAH, HTVAL, HIP, HTINST, HGATP;
\* VSSTATUS, VSIE, VSTVEC, VSSCRATCH .. VSIP, VSATP; HGEIP; MTINST, MTVAL2
HypervisorRegs ==
  If({"HYPERVISOR_MODE"},
     {1536, 1557, 1603, 1604, 1610, 1664} \cup 1538 .. 1543
       \cup {512, 516, 517, 640} \cup 576 .. 580
       \cup {3591} \cup {842, 843})

\* TSELECT .. TDATA3, DCSAR .. DSCRATCH1
DebugRegs == If({"DEBUG_MODE"}, 1952 .. 1955 \cup 1968 .. 1971)

\* MSTATUS .. MCOUNTEREN, MSTATUSH, MCOUNTINHIBIT, MHPMEVENT3 .. 31,
\* MSCRATCH .. MIP, PMPCFG0 .. 3, PMPADDR0 .. 15, MCYCLE and MINSTRET,
\* MHPMCOUNTER3 .. 31, their high halves, MVENDORID .. MHARTID
MachineRegs ==
  768 .. 774 \cup {784, 800} \cup 803 .. 831 \cup 832 .. 836
    \cup 928 .. 931 \cup 944 .. 959
    \cup {2816, 2818} \cup 2819 .. 2847 \cup {2944, 2946} \cup 2947 .. 2975
    \cup 3857 .. 3860

\* riscv_isa_csr_reg_map
Defined ==
  UserTrapRegs \cup FloatPointRegs \cup SupervisorRegs \cup HypervisorRegs
    \cup MachineRegs \cup DebugRegs \cup CounterRegs

SCAUSE  == 322
STVAL   == 323
MISA    == 769
MHARTID == 3860

\* enum class PrivilegeLevel
Levels ==
  If({"USER_MODE"}, {0}) \cup If({"SUPERVISOR_MODE"}, {1}) \cup {3}

\* The bits of MISA: the extensions and modes of the build
MisaBit ==
  [EXTENSION_A |-> 0, EXTENSION_B |-> 1, EXTENSION_C |-> 2, EXTENSION_D |-> 3,
   BASE_E |-> 4, EXTENSION_F |-> 5, HYPERVISOR_MODE |-> 7, BASE_I |-> 8,
   EXTENSION_J |-> 9, EXTENSION_L |-> 11, EXTENSION_M |-> 12,
   EXTENSION_N |-> 13, EXTENSION_P |-> 15, EXTENSION_Q |-> 16,
   SUPERVISOR_MODE |-> 18, EXTENSION_T |-> 19, USER_MODE |-> 20,
   EXTENSION_V |-> 21, NON_STANDARD |-> 23]

\* MISA_INIT: bit 30 says that XLEN is 32
MISA_INIT == {30} \cup {MisaBit[m] : m \in Build \cap DOMAIN MisaBit}
=============================================================================
