------------------------------- MODULE Words -------------------------------
(***************************************************************************)
(* Machine words of W bits.  A word is the set of the positions of its one *)
(* bits, so that the bitwise operations of include/operators.hpp are the   *)
(* set operations, addition is written with its carries, and the unsigned  *)
(* and signed orders compare the most significant differing bit.  No       *)
(* definition is recursive and none goes through the integers: the same    *)
(* operators serve TLC and the proofs.                                     *)
(***************************************************************************)
EXTENDS Integers

CONSTANT W    \* the number of bits of a word: 32 in the code (XLEN)

ASSUME WAssumption == W \in Nat \ {0}

Bits == 0 .. (W - 1)
Word == SUBSET Bits

Zero == {}
One  == {0}

(***************************************************************************)
(* Bitwise operators (operators.hpp XOR, OR, AND).                         *)
(***************************************************************************)
Xor(a, b) == (a \ b) \cup (b \ a)
Or(a, b)  == a \cup b
And(a, b) == a \cap b

(***************************************************************************)
(* Addition modulo 2^W (operators.hpp ADD).  A carry comes into position i *)
(* when some lower position generates it and every position in between     *)
(* passes it on.                                                           *)
(***************************************************************************)
CarryInto(a, b, i) ==
  \E g \in And(a, b) :
     /\ g < i
     /\ \A p \in Bits : g < p /\ p < i => p \in Or(a, b)

Add(a, b) == {i \in Bits : i \in Xor(a, b) <=> ~CarryInto(a, b, i)}

(***************************************************************************)
(* The unsigned and the signed order (operators.hpp LTU and LT).  Flipping *)
(* the sign bits turns the signed order into the unsigned one.             *)
(***************************************************************************)
LTU(a, b) ==
  \E i \in b \ a : \A p \in Bits : p > i => (p \in a <=> p \in b)

SignBit == {W - 1}

LT(a, b) == LTU(Xor(a, SignBit), Xor(b, SignBit))
=============================================================================
