----------------------------- MODULE MCAtomics ------------------------------
(***************************************************************************)
(* Small instances of Atomics: which instructions the guests execute, with *)
(* the values of their registers.                                          *)
(***************************************************************************)
EXTENDS Atomics

Instructions(ops, addrs, words) == [op : ops, addr : addrs, rs2 : words]

\* All the AMOs with stores that wait in the buffer, each with one operand
AmoIssue ==
  Instructions(FetchOps, {4}, {{0, 1}})
    \cup Instructions(LoopOps, {4}, {{0}})
    \cup Instructions({"sw"}, {4}, {{1}})

\* LR and SC on two cells, one of them at address 0, with plain accesses;
\* 2 is misaligned and 8 is read-only
ReserveIssue ==
  Instructions({"lr"}, {0, 2, 4}, {Zero})
    \cup Instructions({"sc"}, {0, 4, 8}, {One})
    \cup Instructions({"sw", "lw"}, {4}, {Zero})
=============================================================================
