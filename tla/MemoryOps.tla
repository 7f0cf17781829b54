---------------------------- MODULE MemoryOps ------------------------------
(***************************************************************************)
(* The vocabulary of the memory instructions: what a guest may execute on  *)
(* the memory the harts share, which addresses the callbacks address_load  *)
(* and address_store of the embedding program map, what a load sees, and   *)
(* the operators of the AMOs (include/operators.hpp, under the A           *)
(* extension).                                                             *)
(***************************************************************************)
EXTENDS Words, Sequences

CONSTANTS
  Harts,        \* the harts
  Addrs,        \* the addresses guest code uses
  Readable,     \* the addresses address_load maps
  Writable,     \* the addresses address_store maps
  Issued,       \* the instructions guest code executes
  BufferSlots,  \* the bound on the stores that wait in one store buffer
  NoInst        \* no instruction is being executed

\* AMOs whose operator is one call of std::atomic: exchange, fetch_add, ...
FetchOps == {"amoswap", "amoadd", "amoand", "amoor", "amoxor"}

\* AMOs whose operator is a compare-and-exchange loop
LoopOps == {"amomin", "amomax", "amominu", "amomaxu"}

LoadOps  == {"lw", "lr"}                               \* use address_load
StoreOps == {"sw", "sc"} \cup FetchOps \cup LoopOps    \* use address_store

\* An instruction with the values of its registers: x[rs1] and x[rs2]
Inst == [op : LoadOps \cup StoreOps, addr : Addrs, rs2 : Word]

ASSUME AddrAssumption ==
  /\ Addrs \subseteq Nat
  /\ 0 \in Addrs
  /\ Readable \subseteq Addrs
  /\ Writable \subseteq Addrs

ASSUME IssuedAssumption == Issued \subseteq Inst /\ NoInst \notin Inst

ASSUME BufferAssumption == BufferSlots \in Nat \ {0}

Aligned(a) == a % 4 = 0     \* (addr & (sizeof(u32) - 1)) == 0

Cell == {a \in Readable \cup Writable : Aligned(a)}

Causes == {"LOAD_ACCESS_FAULT", "LOAD_PAGE_FAULT",
           "STORE_AMO_ACCESS_FAULT", "STORE_AMO_PAGE_FAULT"}

Store == [addr : Cell, val : Word]

(***************************************************************************)
(* The checks of an instruction before it touches the memory: alignment,   *)
(* and the null pointer a callback returns for an address it does not map. *)
(***************************************************************************)
Mapped(i) == IF i.op \in LoadOps THEN i.addr \in Readable
                                 ELSE i.addr \in Writable

\* Mutant: the cause the RISC-V manual has for misaligned addresses.
AccessFaultCause_Misaligned(i) == IF i.op \in LoadOps
                                  THEN "LOAD_ADDRESS_MISALIGNED"
                                  ELSE "STORE_AMO_ADDRESS_MISALIGNED"

AccessFaultCause(i) == IF i.op \in LoadOps THEN "LOAD_ACCESS_FAULT"
                                           ELSE "STORE_AMO_ACCESS_FAULT"

PageFaultCause(i) == IF i.op \in LoadOps THEN "LOAD_PAGE_FAULT"
                                         ELSE "STORE_AMO_PAGE_FAULT"

(***************************************************************************)
(* What a plain load of cell a returns to a thread whose stores q wait in  *)
(* the host's store buffer (newest last) when the memory is m.             *)
(***************************************************************************)
NewestStores(q, a) ==
  {k \in 1 .. Len(q) :
     /\ q[k].addr = a
     /\ \A j \in 1 .. Len(q) : j > k => q[j].addr # a}

View(m, q, a) ==
  IF NewestStores(q, a) = {}
  THEN m[a]
  ELSE q[CHOOSE k \in NewestStores(q, a) : TRUE].val

(***************************************************************************)
(* The operators of the AMOs.                                              *)
(***************************************************************************)
Fetch(op, old, b) ==
  CASE op = "amoswap" -> b
    [] op = "amoadd"  -> Add(old, b)
    [] op = "amoand"  -> And(old, b)
    [] op = "amoor"   -> Or(old, b)
    [] op = "amoxor"  -> Xor(old, b)

\* Mutant: the values are compared as UXLenT by every loop.
Replaces_Unsigned(op, old, b) ==
  IF op \in {"amomin", "amominu"} THEN LTU(b, old) ELSE LTU(old, b)

\* the condition on which the loop goes on: ret > b, ret < b, ...
Replaces(op, old, b) ==
  CASE op = "amomin"  -> LT(b, old)
    [] op = "amomax"  -> LT(old, b)
    [] op = "amominu" -> LTU(b, old)
    [] op = "amomaxu" -> LTU(old, b)

=============================================================================
