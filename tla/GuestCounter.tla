---------------------------- MODULE GuestCounter ----------------------------
(***************************************************************************)
(* Guest code on top of Atomics: every hart increments one shared counter, *)
(* some with the LR/SC sequence of the RISC-V manual                       *)
(*     retry: lr.w t, (c);  addi t, t, 1;  sc.w t, t, (c);  bnez t, retry  *)
(* and some with amoadd.w.  The guests are the environment of the code;    *)
(* what they compute shows whether LR, SC and the AMOs of the harts can be *)
(* relied on.                                                              *)
(***************************************************************************)
EXTENDS Atomics

CONSTANT Counter    \* the cell of the counter

ASSUME CounterAssumption ==
  /\ Counter \in Cell \cap Readable \cap Writable
  /\ Issued = Inst

VARIABLES
  gpc,     \* the instruction of its program a hart executes next
  total    \* history: the number of finished increments, modulo 2^W

guestVars == <<vars, gpc, total>>

LrInst    == [op |-> "lr",     addr |-> Counter, rs2 |-> Zero]
ScInst(t) == [op |-> "sc",     addr |-> Counter, rs2 |-> Add(t, One)]
AddInst   == [op |-> "amoadd", addr |-> Counter, rs2 |-> One]

GuestInit ==
  /\ Init
  /\ gpc \in [Harts -> {"lr", "amoadd"}]
  /\ total = mem[Counter]

StartLr(h) ==
  /\ gpc[h] = "lr"
  /\ Start(h, LrInst)
  /\ gpc' = [gpc EXCEPT ![h] = "sc"]
  /\ UNCHANGED total

\* rd holds what the LR loaded; bnez and the next iteration both go to the LR
StartSc(h) ==
  /\ gpc[h] = "sc"
  /\ Start(h, ScInst(rd[h]))
  /\ gpc' = [gpc EXCEPT ![h] = "lr"]
  /\ UNCHANGED total

StartAdd(h) ==
  /\ gpc[h] = "amoadd"
  /\ Start(h, AddInst)
  /\ UNCHANGED <<gpc, total>>

Increment(h) ==
  /\ ScSucceeds(h) \/ AmoFetch(h)
  /\ total' = Add(total, One)
  /\ UNCHANGED gpc

NoIncrement(h) ==
  /\ LoadReserved(h) \/ ScFails(h)
  /\ UNCHANGED <<gpc, total>>

GuestStep(h) ==
  \/ StartLr(h) \/ StartSc(h) \/ StartAdd(h)
  \/ Increment(h) \/ NoIncrement(h)

GuestNext == \E h \in Harts : GuestStep(h)

GuestSafety == GuestInit /\ [][GuestNext]_guestVars

(***************************************************************************)
(* Every hart goes on with its program.  A store conditional that is able  *)
(* to exchange again and again, on whichever hart, exchanges some time:    *)
(* compare_exchange_weak does not fail spuriously for ever.                *)
(***************************************************************************)
GuestFairness ==
  /\ \A h \in Harts : WF_guestVars(GuestStep(h))
  /\ SF_guestVars(\E h \in Harts : ScSucceeds(h) /\ Increment(h))

GuestSpec == GuestSafety /\ GuestFairness

-----------------------------------------------------------------------------
(***************************************************************************)
(* No increment is lost: the counter is the number of store conditionals   *)
(* that reported success and of AMOs that ended, in every interleaving,    *)
(* although a store conditional compares values only and a failed one      *)
(* leaves a reservation behind.                                            *)
(***************************************************************************)
NoLostUpdate == mem[Counter] = total

(***************************************************************************)
(* Why: the value a store conditional is about to write is the successor   *)
(* of the value it is going to compare the counter with.                   *)
(***************************************************************************)
GuestInv ==
  /\ gpc \in [Harts -> {"lr", "sc", "amoadd"}]
  /\ \A h \in Harts :
       /\ buf[h] = <<>> /\ stage[h] # "exchange"
       /\ gpc[h] = "sc" /\ stage[h] = "fetch" =>
            reserve_address[h] = Counter /\ reserve_value[h] = rd[h]
       /\ gpc[h] = "sc" /\ stage[h] = "access" => inst[h] = LrInst
       /\ gpc[h] = "lr" /\ stage[h] = "access" =>
            /\ inst[h] = ScInst(reserve_value[h])
            /\ reserve_address[h] = Counter
       /\ gpc[h] = "amoadd" /\ stage[h] = "access" => inst[h] = AddInst

(***************************************************************************)
(* The counter keeps advancing, also when every hart uses LR/SC: loops     *)
(* that disturb each other may each fail, but not all of them for ever.    *)
(***************************************************************************)
KeepsCounting == []<><<total' # total>>_guestVars
=============================================================================
