------------------------- MODULE MCLongTaskDelivery -------------------------
(* An instance of LongTaskDelivery for TLC: one order, one request beside  *)
(* the scan, a reminder on day 1 and acceptance by silence on day 2.       *)
EXTENDS LongTaskDelivery, TLC
=============================================================================
