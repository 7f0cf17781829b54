----------------------------- MODULE GuestLock ------------------------------
(***************************************************************************)
(* Guest code on top of Atomics: harts that protect a word of shared data  *)
(* by a spin lock,                                                         *)
(*     spin: lr.w t, (l);  bnez t, spin;  sc.w t, one, (l);  bnez t, spin  *)
(*           lw t, (d);  addi t, t, 1;  sw t, (d)                          *)
(*           sw x0, (l)                                                    *)
(* The data and the release are plain stores, so they wait in the host's   *)
(* store buffer while other harts already contend for the lock.            *)
(***************************************************************************)
EXTENDS Atomics

CONSTANTS
  Lock,     \* the cell of the lock: Zero when it is free
  Data      \* the cell it protects

ASSUME LockAssumption ==
  /\ {Lock, Data} \subseteq Cell \cap Readable \cap Writable
  /\ Lock # Data
  /\ Issued = Inst

VARIABLES
  gpc,     \* the instruction of its program a hart executes next
  total    \* history: the number of finished critical sections, modulo 2^W

guestVars == <<vars, gpc, total>>

GuestInit ==
  /\ Init
  /\ mem[Lock] = Zero
  /\ gpc = [h \in Harts |-> "lr"]
  /\ total = mem[Data]

Goes(h, to) == gpc' = [gpc EXCEPT ![h] = to]

Issues(h, op, addr, rs2) ==
  Start(h, [op |-> op, addr |-> addr, rs2 |-> rs2])

StartLr(h) ==
  /\ gpc[h] = "lr"
  /\ Issues(h, "lr", Lock, Zero)
  /\ Goes(h, "sc")
  /\ UNCHANGED total

\* bnez t, spin
SpinOnTaken(h) ==
  /\ gpc[h] = "sc" /\ stage[h] = "fetch"
  /\ rd[h] # Zero
  /\ Goes(h, "lr")
  /\ UNCHANGED <<vars, total>>

StartSc(h) ==
  /\ gpc[h] = "sc"
  /\ rd[h] = Zero
  /\ Issues(h, "sc", Lock, One)
  /\ Goes(h, "bnez")
  /\ UNCHANGED total

\* The branch after the SC: back to the LR, or into the critical section
SpinOnFailure(h) ==
  /\ gpc[h] = "bnez" /\ stage[h] = "fetch"
  /\ rd[h] # Zero
  /\ Goes(h, "lr")
  /\ UNCHANGED <<vars, total>>

StartLoad(h) ==
  /\ gpc[h] = "bnez"
  /\ rd[h] = Zero
  /\ Issues(h, "lw", Data, Zero)
  /\ Goes(h, "store")
  /\ UNCHANGED total

StartStore(h) ==
  /\ gpc[h] = "store"
  /\ Issues(h, "sw", Data, Add(rd[h], One))
  /\ Goes(h, "release")
  /\ total' = Add(total, One)

StartRelease(h) ==
  /\ gpc[h] = "release"
  /\ Issues(h, "sw", Lock, Zero)
  /\ Goes(h, "lr")
  /\ UNCHANGED total

MemoryStep(h) ==
  /\ \/ Load(h) \/ StoreWord(h)
     \/ LoadReserved(h) \/ ScSucceeds(h) \/ ScFails(h)
  /\ UNCHANGED <<gpc, total>>

GuestStep(h) ==
  \/ StartLr(h) \/ SpinOnTaken(h) \/ StartSc(h) \/ SpinOnFailure(h)
  \/ StartLoad(h) \/ StartStore(h) \/ StartRelease(h) \/ MemoryStep(h)

DrainStep(h) == Drain(h) /\ UNCHANGED <<gpc, total>>

GuestNext == \E h \in Harts : GuestStep(h) \/ DrainStep(h)

GuestSafety == GuestInit /\ [][GuestNext]_guestVars

(***************************************************************************)
(* As in GuestCounter; the host drains its buffers.                        *)
(***************************************************************************)
GuestFairness ==
  /\ \A h \in Harts : WF_guestVars(GuestStep(h)) /\ WF_guestVars(DrainStep(h))
  /\ SF_guestVars(\E h \in Harts : ScSucceeds(h) /\ MemoryStep(h))

GuestSpec == GuestSafety /\ GuestFairness

-----------------------------------------------------------------------------
\* h has the lock: its SC exchanged and it has not executed the release
Holds(h) ==
  \/ gpc[h] = "bnez" /\ stage[h] = "fetch" /\ rd[h] = Zero
  \/ gpc[h] \in {"store", "release"}
  \/ gpc[h] = "lr" /\ stage[h] # "fetch" /\ inst[h].op = "sw"

(***************************************************************************)
(* At most one hart is in the critical section, from its successful store  *)
(* conditional to the end of its releasing store.                          *)
(***************************************************************************)
MutualExclusion == \A g, h \in Harts : Holds(g) /\ Holds(h) => g = h

(***************************************************************************)
(* A hart that is about to load the data inside the critical section sees  *)
(* what the previous owner stored, although that hart's stores may have    *)
(* waited in a buffer: the release leaves the buffer after the data.       *)
(***************************************************************************)
SeesLatestData ==
  \A h \in Harts :
    gpc[h] = "store" /\ stage[h] # "fetch" => Sees(h, Data) = total

(***************************************************************************)
(* The lock never gets stuck: critical sections go on being finished.      *)
(***************************************************************************)
KeepsWorking == []<><<total' # total>>_guestVars
=============================================================================
