-------------------------- MODULE MCOnlinePayment --------------------------
(* Instances of OnlinePayment for TLC: two payment rows, up to two notify  *)
(* ids per trade, up to three concurrent requests.                         *)
EXTENDS OnlinePayment, TLC

Symmetry == Permutations(Requests) \cup Permutations(NotifyIds)
=============================================================================
