------------------------------ MODULE MCOrders ------------------------------
(* An instance of Orders for TLC: one order, two requests.                 *)
EXTENDS Orders, TLC

Symmetry == Permutations(Requests)
AllOperations == DOMAIN Required \cup {"alipay"}
=============================================================================
