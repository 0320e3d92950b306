------------------------ MODULE MCLongTaskSettlement ------------------------
(* An instance of LongTaskSettlement for TLC: one order.                   *)
EXTENDS LongTaskSettlement, TLC
=============================================================================
