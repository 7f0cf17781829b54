-------------------------------- MODULE MCCsr -------------------------------
(***************************************************************************)
(* A build with every mode; registers of every kind: fflags (0x001),       *)
(* scause, stval, misa (0x301), mscratch (0x340), the read-only cycle      *)
(* (0xC00) and mhartid (0xF14), and 0x7FF, which no hart defines.          *)
(***************************************************************************)
EXTENDS Csr

Macros ==
  {"BASE_I", "EXTENSION_A", "EXTENSION_C", "EXTENSION_F", "EXTENSION_M",
   "EXTENSION_N", "USER_MODE", "SUPERVISOR_MODE", "HYPERVISOR_MODE",
   "DEBUG_MODE"}

Numbers == {1, 322, 323, 769, 832, 3072, 3860}

\* the setter of cycle stores, although a write to it should be refused
Setters == [n \in Numbers |-> CASE n = 1 -> "refuse"
                                [] n \in {322, 769, 3860} -> "ignore"
                                [] OTHER -> "store"]

Contents == {One, {1}}

Instructions ==
  [fn : {"w", "s", "c"}, imm : {FALSE}, rd : {0, 1}, rs1 : {0, 1, 2},
   uimm : {Zero}, csr : {832}]
    \cup
  [fn : {"w", "s", "c"}, imm : {FALSE}, rd : {1}, rs1 : {0, 2},
   uimm : {Zero}, csr : {3072}]
    \cup
  [fn : {"w", "s", "c"}, imm : {TRUE}, rd : {1}, rs1 : {0},
   uimm : {Zero, One}, csr : {1, 322, 3860, 2047}]
    \cup
  [fn : {"s"}, imm : {TRUE}, rd : {2}, rs1 : {0}, uimm : {Zero, One},
   csr : {769}]
=============================================================================
