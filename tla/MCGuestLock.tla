----------------------------- MODULE MCGuestLock ----------------------------
(* Two harts; a word of two bits tells a data value from the three before.  *)
EXTENDS GuestLock

AllIssued == Inst
=============================================================================
