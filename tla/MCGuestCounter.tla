--------------------------- MODULE MCGuestCounter ---------------------------
(* Three harts and a counter of two bits, which the increments wrap around. *)
EXTENDS GuestCounter

AllIssued == Inst
=============================================================================
