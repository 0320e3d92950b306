----------------------------- MODULE MCBalance -----------------------------
(* Instances of Balance for TLC, and the mutants of its definitions.       *)
EXTENDS Balance, TLC

Symmetry == Permutations(Users) \cup Permutations(Withdrawals)
              \cup Permutations(Admins)

=============================================================================
