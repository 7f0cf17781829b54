---------------------------- MODULE MCFactorial -----------------------------
(***************************************************************************)
(* The integration test, in a build its theorem is about.                  *)
(***************************************************************************)
EXTENDS Factorial

ASSUME BuildAssumption == FactorialBuild
=============================================================================
