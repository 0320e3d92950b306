------------------------------- MODULE Orders -------------------------------
(***************************************************************************)
(* One order of orders.service.ts from payment to payout, with the three   *)
(* ways to pay it in payment.service.ts and online-payment.service.ts, and *)
(* with what execution.service.ts and the MCP tools do to its status.      *)
(*                                                                         *)
(* No operation locks the order.  Each one loads it, checks its status,    *)
(* waits for other database calls and saves the whole copy it loaded; the  *)
(* loads that a handler makes before its first write are one step.  Only   *)
(* the settlement of an Alipay payment is a transaction with row locks.    *)
(* The wallet holds multiples of the order's amount; balance.service.ts    *)
(* itself is modelled in Balance.                                          *)
(*                                                                         *)
(* CancelsRunning, ReleaseAgain, StaysInTry and KeepsOldVersion are faulty *)
(* variants, used only to show that the properties notice them.            *)
(***************************************************************************)
EXTENDS Integers, FiniteSets

CONSTANTS
    Requests,             \* concurrent HTTP and MCP requests
    Operations,           \* the operations this instance allows
    DeliveryIds,          \* ids of Delivery rows, in creation order
    NoDelivery,           \* an order without a current delivery
    MaxDeliveryAttempts,  \* orders.maxDeliveryAttempts, 3 by default
    Wallet,               \* how many order amounts the client can pay
    MaxPaidOut,           \* bound on the payouts of the order
    MaxDisturbed          \* bound on overlaps, failures and bypasses

ASSUME RequestsAssumption == IsFiniteSet(Requests)
ASSUME DeliveryAssumption ==
    /\ DeliveryIds \subseteq Nat \ {0} /\ NoDelivery = 0
    /\ MaxDeliveryAttempts \in Nat
ASSUME WalletAssumption == Wallet \in Nat /\ MaxPaidOut \in Nat
ASSUME DisturbedAssumption == MaxDisturbed \in Nat

VARIABLES
    order,         \* the row: status, deliveryCount, currentDeliveryId
    orderPayment,  \* order_payments.paymentStatus, "NONE" before it exists
    delivery,      \* deliveries.status, "NONE" before the row exists
    checklist,     \* the acceptance checklist, as one item
    arbitration,   \* status of the latest arbitration
    wallet,        \* the client's available balance
    charged,       \* escrow payments taken from the wallet, less refunds
    starts,        \* the other ways in which the order was paid or started
    paidOut,       \* order incomes added to the owner's balance
    req,           \* the requests under way, with the copy each one loaded
    disturbed      \* requests begun during another one, failures, bypasses

moneyVars == <<wallet, charged, starts, paidOut>>
reviewVars == <<delivery, checklist, arbitration>>
vars == <<order, orderPayment, reviewVars, moneyVars, req, disturbed>>

OrderStatuses == {"PENDING_PAYMENT", "IN_PROGRESS", "DELIVERED",
                  "PENDING_RELEASE", "COMPLETED", "REJECTED", "ARBITRATING",
                  "REFUNDED", "CANCELED"}
OrderPaymentStatuses == {"NONE", "PENDING", "PAID", "CONFIRMED"}
DeliveryStatuses == {"NONE", "PENDING_REVIEW", "ACCEPTED", "REJECTED", "SUPERSEDED"}
ChecklistStatuses == {"no criteria", "not generated", "PENDING", "PASSED", "FAILED"}
ArbitrationStatuses == {"NONE", "OPEN", "IN_PROGRESS", "RESOLVED"}
OrderRow == [status : OrderStatuses, count : 0..MaxDeliveryAttempts,
             current : DeliveryIds \cup {NoDelivery}]
Unpaid == {"PENDING_PAYMENT", "CANCELED"}

\* The status each operation requires of the order it loads.
CancelsRunning == {"PENDING_PAYMENT", "IN_PROGRESS"}
Cancelable == {"PENDING_PAYMENT"}
ReleaseAgain == {"PENDING_RELEASE", "COMPLETED"}
Releasable == {"PENDING_RELEASE"}
Required ==
    [pay                |-> {"PENDING_PAYMENT"},
     payWithBalance     |-> {"PENDING_PAYMENT"},
     confirmPayment     |-> OrderStatuses,
     reportStatus       |-> {"PENDING_PAYMENT"},
     retryExecution     |-> OrderStatuses,
     cancel             |-> Cancelable,
     deliver            |-> {"IN_PROGRESS", "DELIVERED"},
     accept             |-> {"DELIVERED"},
     reject             |-> {"DELIVERED"},
     release            |-> Releasable,
     startArbitration   |-> {"REJECTED"},
     resolveArbitration |-> {"ARBITRATING"}]

\* Where a request stands: at the first write of its operation, or later.
Steps == {"idle", "row", "activate", "refund", "activateProof", "insert",
          "delivered", "acceptDelivery", "income", "rejected", "arbitrate",
          "arbitrating", "resolved"} \cup DOMAIN Required
NewOrder == [status |-> "PENDING_PAYMENT", count |-> 0, current |-> NoDelivery]
Idle == [at |-> "idle", copy |-> NewOrder]

Init ==
    /\ order = NewOrder
    /\ orderPayment = "NONE"
    /\ delivery = [d \in DeliveryIds |-> "NONE"]
    /\ checklist \in {"no criteria", "not generated"}
    /\ arbitration = "NONE"
    /\ wallet = Wallet
    /\ charged = 0
    /\ starts = {}
    /\ paidOut = 0
    /\ req = [k \in Requests |-> Idle]
    /\ disturbed = 0

At(k, step) == req[k].at = step
Goto(k, step) == req' = [req EXCEPT ![k].at = step]
Finish(k) == req' = [req EXCEPT ![k] = Idle]

\* repository.save(order): every column of the loaded copy is written back.
Save(k, status) == order' = [req[k].copy EXCEPT !.status = status]

\* Operations that start work without a look at the payment.
Bypasses == {"pay", "reportStatus", "retryExecution"}
Disturb == disturbed < MaxDisturbed /\ disturbed' = disturbed + 1
AtRest == \A k \in Requests : req[k] = Idle

-----------------------------------------------------------------------------
\* The conditions an operation checks beside the order's status.
Precondition(op) ==
    /\ op \in {"payWithBalance", "confirmPayment"} => orderPayment = "PENDING"
    /\ op = "deliver" => order.count < MaxDeliveryAttempts
    /\ op = "accept" => checklist \in {"no criteria", "PASSED"}
    /\ op \in {"startArbitration", "resolveArbitration"} => arbitration # "NONE"

Load(k, op) ==
    /\ req[k] = Idle
    /\ op \in Operations
    /\ order.status \in Required[op]
    /\ Precondition(op)
    /\ req' = [req EXCEPT ![k] = [at |-> op, copy |-> order]]
    /\ IF AtRest /\ op \notin Bypasses THEN UNCHANGED disturbed ELSE Disturb
    /\ UNCHANGED <<order, orderPayment, reviewVars, moneyVars>>

\* createOrderPayment, and confirmPaymentReceived by the platform.
CreateOrderPayment ==
    /\ order.status = "PENDING_PAYMENT"
    /\ orderPayment = "NONE"
    /\ orderPayment' = "PENDING"
    /\ UNCHANGED <<order, reviewVars, moneyVars, req>>

ConfirmPaymentReceived ==
    /\ orderPayment = "PAID"
    /\ orderPayment' = "CONFIRMED"
    /\ UNCHANGED <<order, reviewVars, moneyVars, req>>

\* settleSuccessfulPayment for this order, at most once here.
AlipaySettles ==
    /\ "alipay" \in Operations \ starts
    /\ orderPayment' = "CONFIRMED"
    /\ order' = IF order.status \in Unpaid
                THEN [order EXCEPT !.status = "IN_PROGRESS"] ELSE order
    /\ starts' = starts \cup {"alipay"}
    /\ UNCHANGED <<reviewVars, wallet, charged, paidOut, req>>

\* payWithBalance: the charge, a transaction of its own that throws when the
\* balance does not suffice, ...
Charge(k) ==
    /\ At(k, "payWithBalance")
    /\ \/ /\ wallet > 0
          /\ wallet' = wallet - 1
          /\ charged' = charged + 1
          /\ Goto(k, "row")
       \/ wallet = 0 /\ Finish(k) /\ UNCHANGED <<wallet, charged>>
    /\ UNCHANGED <<order, orderPayment, reviewVars, starts, paidOut>>

\* ... then the order payment, then the order ...
SaveOrderPayment(k) ==
    /\ orderPayment' = "PAID"
    /\ \/ At(k, "row") /\ Goto(k, "activate") /\ UNCHANGED starts
       \/ /\ At(k, "confirmPayment")
          /\ Goto(k, "activateProof")
          /\ starts' = starts \cup {"proof"}
    /\ UNCHANGED <<order, reviewVars, wallet, charged, paidOut>>

StaysInTry(k) == UNCHANGED req
LeavesTry(k) == Finish(k)

Activate(k) ==
    /\ At(k, "activate") \/ At(k, "activateProof")
    /\ Save(k, "IN_PROGRESS")
    /\ LeavesTry(k)
    /\ UNCHANGED <<orderPayment, reviewVars, moneyVars>>

\* ... and a refund when one of the two saves threw.
Refund(k) ==
    /\ At(k, "refund")
    /\ wallet' = wallet + 1
    /\ charged' = charged - 1
    /\ Finish(k)
    /\ UNCHANGED <<order, orderPayment, reviewVars, starts, paidOut>>

\* Operations that only save a new status.  pay, the report of a running
\* execution and retryExecution may start an order nobody paid.
Target == [pay |-> "IN_PROGRESS", reportStatus |-> "IN_PROGRESS",
           retryExecution |-> "IN_PROGRESS", cancel |-> "CANCELED"]
SaveStatus(k) ==
    LET op == req[k].at IN
    /\ op \in DOMAIN Target
    /\ Save(k, Target[op])
    /\ starts' = IF op # "cancel" /\ req[k].copy.status \in Unpaid
                 THEN starts \cup {op} ELSE starts
    /\ Finish(k)
    /\ UNCHANGED <<orderPayment, reviewVars, wallet, charged, paidOut>>

-----------------------------------------------------------------------------
(* deliver: the current delivery is superseded, the new one inserted, and   *)
(* the order saved.                                                         *)

SetDelivery(d, status) ==
    delivery' = [e \in DeliveryIds |-> IF e = d THEN status ELSE delivery[e]]

KeepsOldVersion(d) == UNCHANGED delivery
Supersede(d) == SetDelivery(d, "SUPERSEDED")

SupersedeCurrent(k) ==
    /\ At(k, "deliver")
    /\ Supersede(req[k].copy.current)
    /\ Goto(k, "insert")
    /\ UNCHANGED <<order, orderPayment, checklist, arbitration, moneyVars>>

InsertDelivery(k) ==
    /\ At(k, "insert")
    /\ \E d \in DeliveryIds :
         /\ delivery[d] = "NONE"
         /\ \A e \in DeliveryIds : e < d => delivery[e] # "NONE"
         /\ SetDelivery(d, "PENDING_REVIEW")
         /\ req' = [req EXCEPT ![k].at = "delivered",
                               ![k].copy.count = @ + 1,
                               ![k].copy.current = d]
    /\ UNCHANGED <<order, orderPayment, checklist, arbitration, moneyVars>>

SaveDelivered(k) ==
    /\ At(k, "delivered")
    /\ Save(k, "DELIVERED")
    /\ Finish(k)
    /\ UNCHANGED <<orderPayment, reviewVars, moneyVars>>

-----------------------------------------------------------------------------
(* accept and the checklist, reject                                         *)

\* accept generates a missing checklist, which then blocks it.
GenerateChecklist ==
    /\ order.status = "DELIVERED"
    /\ checklist = "not generated"
    /\ checklist' = "PENDING"
    /\ UNCHANGED <<order, orderPayment, delivery, arbitration, moneyVars, req>>

UpdateChecklistItem ==
    /\ order.status = "DELIVERED"
    /\ checklist \notin {"no criteria", "not generated"}
    /\ checklist' \in {"PASSED", "FAILED"}
    /\ UNCHANGED <<order, orderPayment, delivery, arbitration, moneyVars, req>>

SaveAccepted(k) ==
    /\ At(k, "accept")
    /\ Save(k, "PENDING_RELEASE")
    /\ Goto(k, "acceptDelivery")
    /\ UNCHANGED <<orderPayment, reviewVars, moneyVars>>

AcceptDelivery(k) ==
    /\ At(k, "acceptDelivery")
    /\ SetDelivery(req[k].copy.current, "ACCEPTED")
    /\ Finish(k)
    /\ UNCHANGED <<order, orderPayment, checklist, arbitration, moneyVars>>

RejectDelivery(k) ==
    /\ At(k, "reject")
    /\ SetDelivery(req[k].copy.current, "REJECTED")
    /\ Goto(k, "rejected")
    /\ UNCHANGED <<order, orderPayment, checklist, arbitration, moneyVars>>

\* Back to the owner for a revision, or to arbitration.
SaveRejected(k) ==
    /\ At(k, "rejected")
    /\ \/ Save(k, "IN_PROGRESS") /\ Finish(k)
       \/ Save(k, "REJECTED") /\ Goto(k, "arbitrate")
    /\ UNCHANGED <<orderPayment, reviewVars, moneyVars>>

-----------------------------------------------------------------------------
(* Arbitration, which moves no money, and release                           *)

SetArbitration(k) ==
    /\ \/ At(k, "arbitrate") /\ arbitration' = "OPEN" /\ Finish(k)
       \/ /\ At(k, "startArbitration")
          /\ arbitration' = "IN_PROGRESS"
          /\ Goto(k, "arbitrating")
       \/ /\ At(k, "resolveArbitration")
          /\ arbitration' = "RESOLVED"
          /\ Goto(k, "resolved")
    /\ UNCHANGED <<order, orderPayment, delivery, checklist, moneyVars>>

SaveArbitrated(k) ==
    /\ \/ At(k, "arbitrating") /\ Save(k, "ARBITRATING")
       \/ At(k, "resolved") /\ \E s \in {"REFUNDED", "COMPLETED"} : Save(k, s)
    /\ Finish(k)
    /\ UNCHANGED <<orderPayment, reviewVars, moneyVars>>

SaveReleased(k) ==
    /\ At(k, "release")
    /\ Save(k, "COMPLETED")
    /\ Goto(k, "income")
    /\ UNCHANGED <<orderPayment, reviewVars, moneyVars>>

AddIncome(k) ==
    /\ At(k, "income")
    /\ paidOut < MaxPaidOut
    /\ paidOut' = paidOut + 1
    /\ Finish(k)
    /\ UNCHANGED <<order, orderPayment, reviewVars, wallet, charged, starts>>

-----------------------------------------------------------------------------
\* A database call throws, or the process stops.  An exception after the
\* charge of payWithBalance leads to the refund; one of addIncome in release
\* is swallowed.
InTry == {"row", "activate"}
Throw(k) ==
    /\ req[k].at \in InTry
    /\ Goto(k, "refund")
    /\ Disturb
    /\ UNCHANGED <<order, orderPayment, reviewVars, moneyVars>>

Fail(k) ==
    /\ req[k] # Idle
    /\ Finish(k)
    /\ Disturb
    /\ UNCHANGED <<order, orderPayment, reviewVars, moneyVars>>

Continue(k) ==
    \/ Charge(k)
    \/ SaveOrderPayment(k)
    \/ Activate(k)
    \/ Refund(k)
    \/ SaveStatus(k)
    \/ SupersedeCurrent(k)
    \/ InsertDelivery(k)
    \/ SaveDelivered(k)
    \/ SaveAccepted(k)
    \/ AcceptDelivery(k)
    \/ RejectDelivery(k)
    \/ SaveRejected(k)
    \/ SetArbitration(k)
    \/ SaveArbitrated(k)
    \/ SaveReleased(k)
    \/ AddIncome(k)

Elsewhere ==
    \/ CreateOrderPayment
    \/ ConfirmPaymentReceived
    \/ AlipaySettles
    \/ GenerateChecklist
    \/ UpdateChecklistItem

Next ==
    \/ Elsewhere /\ UNCHANGED disturbed
    \/ \E k \in Requests :
         \/ \E op \in DOMAIN Required : Load(k, op)
         \/ Continue(k) /\ UNCHANGED disturbed
         \/ Throw(k)
         \/ Fail(k)

Spec == Init /\ [][Next]_vars

-----------------------------------------------------------------------------
\* The rows and requests keep their shape: no interleaving exceeds
\* maxDeliveryAttempts, and no refund is made without a charge.
TypeOK ==
    /\ order \in OrderRow
    /\ orderPayment \in OrderPaymentStatuses
    /\ delivery \in [DeliveryIds -> DeliveryStatuses]
    /\ checklist \in ChecklistStatuses
    /\ arbitration \in ArbitrationStatuses
    /\ wallet \in Nat /\ charged \in Nat /\ paidOut \in Nat
    /\ starts \subseteq {"alipay", "proof"} \cup DOMAIN Required
    /\ req \in [Requests -> [at : Steps, copy : OrderRow]]
    /\ disturbed \in 0..MaxDisturbed

\* Work, review and payout happen only on an order that was paid from the
\* wallet, by Alipay or with an accepted proof, or that was started by one of
\* the operations that skip payment; no refund takes the money back from under
\* it, in any interleaving of stale saves and failures (payWithBalance).
EscrowBacked == order.status \notin Unpaid => charged > 0 \/ starts # {}

\* The owner gets the income of an order once, and only for a completed one
\* (release); and a canceled order ("Only pending payment orders can be
\* canceled") took nothing from the client's wallet and had no proof of payment
\* accepted: with requests one at a time, without failure and without a start
\* that bypasses the payment.  Alipay's settlement is not a request: the save
\* of a cancellation that loaded the order before it writes CANCELED over it
\* (orders.service.ts 841), and that money stays taken.
PaidOutOnce == paidOut <= 1 /\ (paidOut = 1 => order.status = "COMPLETED")
CanceledUncharged ==
    order.status = "CANCELED" =>
      charged = 0 /\ (AtRest => starts \subseteq {"alipay"})
MoneyFollowsStatus == disturbed = 0 => PaidOutOnce /\ CanceledUncharged

\* While the client reviews, the delivery the order points to is the one and
\* only delivery under review; a payout waits only for an accepted one
\* (deliver, accept and reject, with requests and failures as before).
ReviewsCurrent ==
    AtRest /\ disturbed = 0 =>
      /\ order.status = "DELIVERED" =>
           {d \in DeliveryIds : delivery[d] = "PENDING_REVIEW"} = {order.current}
      /\ order.status = "PENDING_RELEASE" => delivery[order.current] = "ACCEPTED"

\* The deal as the parties see it: the charge counts once the order is started,
\* and the release once the order is completed, whatever step is under way.
Underway(steps) == IF \E k \in Requests : req[k].at \in steps THEN 1 ELSE 0
Shown(now, void) == IF disturbed = 0 THEN now ELSE void
DealStatus == Shown(order.status, "VOID")
DealClient == Shown(wallet + Underway(InTry), Wallet)
DealEscrow == Shown(charged - Underway(InTry), 0)
DealOutside == Shown(starts # {}, FALSE)
DealOwner == Shown(paidOut + Underway({"income"}), 0)

Agreed == INSTANCE Escrow WITH
    Means <- Wallet, status <- DealStatus, client <- DealClient,
    escrow <- DealEscrow, outside <- DealOutside, owner <- DealOwner

\* The order with its payments, deliveries and arbitration is the deal that its
\* parties agreed on: while requests come one at a time, none fails and none
\* bypasses the payment, every step of orders.service.ts is a step of Escrow or
\* changes nothing of it, whenever Alipay settles.
HonoursEscrow == Agreed!Spec
=============================================================================
