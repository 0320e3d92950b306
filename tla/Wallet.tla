------------------------------- MODULE Wallet -------------------------------
(***************************************************************************)
(* What balance.service.ts promises the owner of a wallet: an amount asked *)
(* for is set aside at once and decided exactly once; a refusal gives it   *)
(* back, and only an approved amount ever leaves.  It may leave more than  *)
(* once: the code asks an admin to look before paying again.               *)
(***************************************************************************)
EXTENDS Integers

CONSTANTS Users, NoUser, Claims, Amounts

VARIABLES
    available,  \* what each user can spend
    claim,      \* the amounts asked for: by whom, how much, how decided
    left        \* claims whose money has left at least once

vars == <<available, claim, left>>

NoClaim == [state |-> "none", user |-> NoUser, amount |-> 0]

Init ==
    /\ available = [u \in Users |-> 0]
    /\ claim = [c \in Claims |-> NoClaim]
    /\ left = {}

Earn(u, n) ==
    /\ n > 0
    /\ available' = [available EXCEPT ![u] = @ + n]
    /\ UNCHANGED <<claim, left>>

Spend(u, n) ==
    /\ 0 < n /\ n <= available[u]
    /\ available' = [available EXCEPT ![u] = @ - n]
    /\ UNCHANGED <<claim, left>>

Ask(c, u, n) ==
    /\ claim[c].state = "none"
    /\ 0 < n /\ n <= available[u]
    /\ available' = [available EXCEPT ![u] = @ - n]
    /\ claim' = [claim EXCEPT ![c] = [state |-> "pending",
                                      user |-> u, amount |-> n]]
    /\ UNCHANGED left

Grant(c) ==
    /\ claim[c].state = "pending"
    /\ claim' = [claim EXCEPT ![c].state = "approved"]
    /\ UNCHANGED <<available, left>>

Refuse(c) ==
    /\ claim[c].state = "pending"
    /\ claim' = [claim EXCEPT ![c].state = "rejected"]
    /\ available' = [available EXCEPT ![claim[c].user] = @ + claim[c].amount]
    /\ UNCHANGED left

Leave(c) ==
    /\ claim[c].state = "approved"
    /\ left' = left \cup {c}
    /\ UNCHANGED <<available, claim>>

Next ==
    \/ \E u \in Users, n \in Amounts :
         \/ Earn(u, n)
         \/ Spend(u, n)
         \/ \E c \in Claims : Ask(c, u, n)
    \/ \E c \in Claims : Grant(c) \/ Refuse(c) \/ Leave(c)

Spec == Init /\ [][Next]_vars
=============================================================================
