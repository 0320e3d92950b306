------------------------------- MODULE Escrow -------------------------------
(***************************************************************************)
(* What orders.service.ts promises the two parties of an order, as one     *)
(* deal: the client's money is put into escrow at most once and before any *)
(* work, a paid order is not canceled, a delivery is decided by the client *)
(* or by arbitration, and the owner is paid once, for a delivery that was  *)
(* accepted.  A payment from outside (Alipay, an accepted proof) may come  *)
(* at any time, even after a cancellation, and a cancellation under way    *)
(* may still overtake it.  Where requests overlap, fail or bypass the      *)
(* payment the deal is void: then only what Orders states itself remains.  *)
(***************************************************************************)
EXTENDS Integers

CONSTANT Means   \* how many order amounts the client can pay

VARIABLES
    status,   \* the words of OrderStatus, or "VOID"
    client,   \* order amounts the client still has
    escrow,   \* order amounts taken from the client
    outside,  \* whether the order was paid from outside
    owner     \* order amounts the owner got

vars == <<status, client, escrow, outside, owner>>

Init ==
    /\ status = "PENDING_PAYMENT"
    /\ client = Means
    /\ escrow = 0
    /\ outside = FALSE
    /\ owner = 0

Goes(from, to) ==
    /\ status \in from
    /\ status' = to
    /\ UNCHANGED <<client, escrow, outside, owner>>

Fund ==
    /\ status \in {"PENDING_PAYMENT", "IN_PROGRESS"}
    /\ client > 0 /\ escrow = 0
    /\ status' = "IN_PROGRESS"
    /\ client' = client - 1
    /\ escrow' = 1
    /\ UNCHANGED <<outside, owner>>

\* An order paid from outside is started, at once or after a moment.
PayOutside ==
    /\ status # "VOID"
    /\ outside' = TRUE
    /\ \/ UNCHANGED status
       \/ /\ status \in {"PENDING_PAYMENT", "CANCELED", "IN_PROGRESS"}
          /\ status' = "IN_PROGRESS"
    /\ UNCHANGED <<client, escrow, owner>>

Cancel ==
    /\ escrow = 0
    /\ status = "IN_PROGRESS" => outside
    /\ Goes({"PENDING_PAYMENT", "CANCELED", "IN_PROGRESS"}, "CANCELED")

Review ==
    \/ Goes({"IN_PROGRESS", "DELIVERED"}, "DELIVERED")
    \/ Goes({"DELIVERED"}, "PENDING_RELEASE")
    \/ Goes({"DELIVERED"}, "IN_PROGRESS")
    \/ Goes({"DELIVERED"}, "REJECTED")

\* Arbitration decides, and moves no money.
Arbitrate ==
    \/ Goes({"REJECTED"}, "ARBITRATING")
    \/ Goes({"ARBITRATING"}, "REFUNDED")
    \/ Goes({"ARBITRATING"}, "COMPLETED")

Release ==
    /\ owner = 0
    /\ status = "PENDING_RELEASE"
    /\ status' = "COMPLETED"
    /\ owner' = 1
    /\ UNCHANGED <<client, escrow, outside>>

Void ==
    /\ status' = "VOID"
    /\ client' = Means
    /\ escrow' = 0
    /\ outside' = FALSE
    /\ owner' = 0

Next ==
    \/ Fund \/ PayOutside \/ Cancel
    \/ Review \/ Arbitrate \/ Release \/ Void

Spec == Init /\ [][Next]_vars
=============================================================================
