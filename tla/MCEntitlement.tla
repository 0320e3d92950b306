--------------------------- MODULE MCEntitlement ---------------------------
(* An instance of Entitlement for TLC: two plans, one hold, two concurrent *)
(* requests.  A period ends at tick 2, the free grant and the clock at 3,  *)
(* so there is a roll at the very end of a period and one after it.  What  *)
(* may be recorded exceeds what a plan and the free grant hold each, so    *)
(* both run short.                                                         *)
EXTENDS Entitlement, TLC

CONSTANTS basic, pro

Symmetry == Permutations(Subs)
PlanTotals == basic :> 0 @@ pro :> 1
=============================================================================
