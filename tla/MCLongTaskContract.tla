------------------------- MODULE MCLongTaskContract -------------------------
(* An instance of LongTaskContract for TLC: one order.                     *)
EXTENDS LongTaskContract, TLC
=============================================================================
