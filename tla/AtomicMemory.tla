---------------------------- MODULE AtomicMemory ----------------------------
(***************************************************************************)
(* What the harts promise to guest code about the shared memory: every     *)
(* instruction takes effect at one instant between its start and its end.  *)
(* In particular an AMO is one read-modify-write whatever its operator is, *)
(* and a store conditional exchanges only when the cell still holds the    *)
(* value the hart knows it by.  Plain stores become visible in order, some *)
(* time after they end.  Atomics implements this specification.            *)
(***************************************************************************)
EXTENDS MemoryOps

VARIABLES
  mem,      \* the shared memory
  buf,      \* the stores of each hart that the others do not see yet
  pending,  \* the instruction a hart has started and not ended, or NoInst
  rd,       \* the value last written to a destination register
  trap,     \* the cause of the last instruction, or "none"
  link      \* the cell a hart has a reservation for, and the value it expects

vars == <<mem, buf, pending, rd, trap, link>>

Init ==
  /\ mem \in [Cell -> Word]
  /\ buf = [h \in Harts |-> <<>>]
  /\ pending = [h \in Harts |-> NoInst]
  /\ rd = [h \in Harts |-> Zero]
  /\ trap = [h \in Harts |-> "none"]
  /\ link = [h \in Harts |-> <<0, Zero>>]

Op(h)      == pending[h].op
Addr(h)    == pending[h].addr
Sees(h)    == View(mem, buf[h], Addr(h))
Flushed(h) == buf[h] = <<>>

\* The whole function of an AMO from the old value of the cell to the new
Result(op, old, b) ==
  IF op \in FetchOps THEN Fetch(op, old, b)
  ELSE IF Replaces(op, old, b) THEN b ELSE old

Fault(h, i) ==
  /\ pending[h] = NoInst
  /\ \/ ~Aligned(i.addr) /\ trap' = [trap EXCEPT ![h] = AccessFaultCause(i)]
     \/ /\ Aligned(i.addr) /\ ~Mapped(i)
        /\ trap' = [trap EXCEPT ![h] = PageFaultCause(i)]
  /\ UNCHANGED <<mem, buf, pending, rd, link>>

Begin(h, i) ==
  /\ pending[h] = NoInst
  /\ Aligned(i.addr) /\ Mapped(i)
  /\ pending' = [pending EXCEPT ![h] = i]
  /\ UNCHANGED <<mem, buf, rd, trap, link>>

Ends(h) ==
  /\ pending' = [pending EXCEPT ![h] = NoInst]
  /\ trap' = [trap EXCEPT ![h] = "none"]

Returns(h, value) ==
  /\ Ends(h)
  /\ rd' = [rd EXCEPT ![h] = value]

Load(h) ==
  /\ pending[h] # NoInst /\ Op(h) = "lw"
  /\ Returns(h, Sees(h))
  /\ UNCHANGED <<mem, buf, link>>

StoreWord(h) ==
  /\ pending[h] # NoInst /\ Op(h) = "sw"
  /\ buf' = [buf EXCEPT ![h] =
               Append(@, [addr |-> Addr(h), val |-> pending[h].rs2])]
  /\ Ends(h)
  /\ UNCHANGED <<mem, rd, link>>

LoadReserved(h) ==
  /\ pending[h] # NoInst /\ Op(h) = "lr"
  /\ link' = [link EXCEPT ![h] = <<Addr(h), Sees(h)>>]
  /\ Returns(h, Sees(h))
  /\ UNCHANGED <<mem, buf>>

ScSucceeds(h) ==
  /\ pending[h] # NoInst /\ Op(h) = "sc"
  /\ Flushed(h)
  /\ link[h] = <<Addr(h), mem[Addr(h)]>>
  /\ mem' = [mem EXCEPT ![Addr(h)] = pending[h].rs2]
  /\ Returns(h, Zero)
  /\ UNCHANGED <<buf, link>>

\* A failed store conditional may renew the value of its own reservation.
ScFails(h) ==
  /\ pending[h] # NoInst /\ Op(h) = "sc"
  /\ \/ UNCHANGED link
     \/ /\ link[h][1] = Addr(h)
        /\ link' = [link EXCEPT ![h] = <<Addr(h), mem[Addr(h)]>>]
  /\ Returns(h, One)
  /\ UNCHANGED <<mem, buf>>

AmoAtomic(h) ==
  /\ pending[h] # NoInst /\ Op(h) \in FetchOps \cup LoopOps
  /\ Flushed(h)
  /\ mem' = [mem EXCEPT ![Addr(h)] = Result(Op(h), @, pending[h].rs2)]
  /\ Returns(h, mem[Addr(h)])
  /\ UNCHANGED <<buf, link>>

\* An AMO that would leave what the hart sees as it is may do as a load does.
AmoReadOnly(h) ==
  /\ pending[h] # NoInst /\ Op(h) \in LoopOps
  /\ Result(Op(h), Sees(h), pending[h].rs2) = Sees(h)
  /\ Returns(h, Sees(h))
  /\ UNCHANGED <<mem, buf, link>>

Propagate(h) ==
  /\ ~Flushed(h)
  /\ mem' = [mem EXCEPT ![Head(buf[h]).addr] = Head(buf[h]).val]
  /\ buf' = [buf EXCEPT ![h] = Tail(@)]
  /\ UNCHANGED <<pending, rd, trap, link>>

Next ==
  \E h \in Harts :
    \/ \E i \in Issued : Fault(h, i) \/ Begin(h, i)
    \/ Load(h) \/ StoreWord(h)
    \/ LoadReserved(h) \/ ScSucceeds(h) \/ ScFails(h)
    \/ AmoAtomic(h) \/ AmoReadOnly(h)
    \/ Propagate(h)

Spec == Init /\ [][Next]_vars
=============================================================================
