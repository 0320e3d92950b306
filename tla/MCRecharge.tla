----------------------------- MODULE MCRecharge -----------------------------
(* An instance of Recharge for TLC: two rows, two notify ids per trade     *)
(* (TRADE_SUCCESS and TRADE_FINISHED), two concurrent requests.            *)
EXTENDS Recharge, TLC
=============================================================================
