---------------------------- MODULE OnlinePayment ----------------------------
(***************************************************************************)
(* The Payment rows of online-payment.service.ts: the Alipay trades of one *)
(* order and the recharges of one user that are kept in the same table     *)
(* (purpose RECHARGE), with the callback log and BalanceService.recharge.  *)
(*                                                                         *)
(* The settlement is one transaction: payment, notification and order move *)
(* together.  The credit of a recharge follows outside it, behind a lookup *)
(* by paymentId.  Time is not modelled: whenever an INIT row is looked at, *)
(* its 15 minutes may or may not be over.  Signature, merchant identity    *)
(* and amount are those of the genuine trade.                              *)
(*                                                                         *)
(* OpenStays, NotPaid, NothingRecorded and KeepProcessed are faulty        *)
(* variants, used only to show that the properties notice them.            *)
(***************************************************************************)
EXTENDS Integers, FiniteSets

CONSTANTS
    Rows,         \* ids of Payment rows, in creation order
    NotifyIds,    \* the notify ids Alipay uses for one trade
    NoNotify,     \* a settlement that was found by a trade query
    Requests,     \* concurrent HTTP requests
    Purposes,     \* the purposes for which rows are created
    MaxCredits,   \* bound on the credits of one row
    MaxFailures,  \* bound on the requests that end with an exception
    Crashes       \* whether the process may stop during a request

ASSUME RowsAssumption == Rows \subseteq Nat \ {0}
ASSUME NotifyAssumption == NoNotify \notin NotifyIds
ASSUME PurposesAssumption == Purposes \subseteq {"ORDER", "RECHARGE"}
ASSUME BoundAssumption == MaxCredits \in Nat /\ MaxFailures \in Nat
ASSUME CrashesAssumption == Crashes \in BOOLEAN

VARIABLES
    payment,       \* payments.status, "NONE" while the row does not exist
    purpose,       \* payments.purpose of the rows that exist
    trade,         \* external: what Alipay would answer for the outTradeNo
    log,           \* payment_notification_logs of the row's callbacks
    order,         \* orders.status; IN_PROGRESS stands for it and beyond
    orderPayment,  \* order_payments.paymentStatus
    credits,       \* balance_records of the row (BalanceService.recharge)
    req,           \* the requests under way
    failures       \* how many requests ended with an exception

vars == <<payment, purpose, trade, log, order, orderPayment, credits, req,
          failures>>
orderVars == <<order, orderPayment>>

PaymentStatuses == {"NONE", "INIT", "PAID", "FAILED"}
Trades == {"WAIT", "PAID", "CLOSED"}
LogStates == {"none", "open", "processed"}
OrderStatuses == {"PENDING_PAYMENT", "IN_PROGRESS", "CANCELED"}
OrderPaymentStatuses == {"PENDING", "CONFIRMED"}
Steps == {"idle", "cancel", "query", "close", "settle", "lookup", "credit",
          "reopen"}
NoRow == 0
Request == [pc : Steps, row : Rows \cup {NoRow},
            notify : NotifyIds \cup {NoNotify}]
Idle == [pc |-> "idle", row |-> NoRow, notify |-> NoNotify]

Init ==
    /\ payment = [r \in Rows |-> "NONE"]
    /\ purpose = [r \in Rows |-> "ORDER"]
    /\ trade = [r \in Rows |-> "WAIT"]
    /\ log = [r \in Rows |-> [n \in NotifyIds |-> "none"]]
    /\ order = "PENDING_PAYMENT"
    /\ orderPayment = "PENDING"
    /\ credits = [r \in Rows |-> 0]
    /\ req = [k \in Requests |-> Idle]
    /\ failures = 0

Exists(r) == payment[r] # "NONE"
Goto(k, pc) == req' = [req EXCEPT ![k].pc = pc]
Start(k, pc, r, n) ==
    /\ req[k] = Idle
    /\ req' = [req EXCEPT ![k] = [pc |-> pc, row |-> r, notify |-> n]]
Finish(k) == req' = [req EXCEPT ![k] = Idle]

-----------------------------------------------------------------------------
(* createAlipayPayment and createRechargePayment: one transaction each      *)

Open(p) == {r \in Rows : payment[r] = "INIT" /\ purpose[r] = p}
Newest(S, r) == r \in S /\ \A s \in S : s <= r

\* The table with the newest open row of a purpose marked FAILED.
OpenStays(p) == payment
Expired(p) ==
    [r \in Rows |-> IF Newest(Open(p), r) THEN "FAILED" ELSE payment[r]]

\* Rows bounds the payments: with all of them used, none is created.
Insert(before, p) ==
    /\ \E r \in Rows :
         /\ \A s \in Rows : Exists(s) <=> s < r
         /\ payment' = [before EXCEPT ![r] = "INIT"]
         /\ purpose' = [purpose EXCEPT ![r] = p]
    /\ UNCHANGED <<trade, log, orderVars, credits, req, failures>>

\* Under the lock of the order row.  An open payment that has not expired is
\* reused and nothing changes.
CreateAlipayPayment ==
    /\ "ORDER" \in Purposes
    /\ order = "PENDING_PAYMENT"
    /\ Insert(Expired("ORDER"), "ORDER")

\* The lookup finds no row to lock when there is none, so two requests may
\* both insert; an open row of another amount does not prevent it either.
CreateRechargePayment ==
    /\ "RECHARGE" \in Purposes
    /\ \E before \in {payment, Expired("RECHARGE")} : Insert(before, "RECHARGE")

-----------------------------------------------------------------------------
(* getAlipayPaymentStatus, getRechargePaymentStatus and refreshFromAlipay   *)

\* The row was read as INIT; the request acts on that copy later.
RefreshFromAlipay(k, r) ==
    /\ payment[r] = "INIT"
    /\ Start(k, "query", r, NoNotify)
    /\ UNCHANGED <<payment, purpose, trade, log, orderVars, credits, failures>>

\* PENDING and UNKNOWN end the request.
NotPaid(answer) == answer # "PAID"
TradeClosed(answer) == answer = "CLOSED"
QueryTrade(k) ==
    LET answer == trade[req[k].row] IN
    /\ req[k].pc = "query"
    /\ \/ answer = "PAID" /\ Goto(k, "settle")
       \/ TradeClosed(answer) /\ Goto(k, "close")
       \/ Finish(k)
    /\ UNCHANGED <<payment, purpose, trade, log, orderVars, credits, failures>>

\* Saving FAILED from the copy that was read as INIT.
SaveClosed(k) ==
    /\ req[k].pc = "close"
    /\ payment' = [payment EXCEPT ![req[k].row] = "FAILED"]
    /\ Finish(k)
    /\ UNCHANGED <<purpose, trade, log, orderVars, credits, failures>>

-----------------------------------------------------------------------------
(* handleAlipayNotification and settleSuccessfulPayment                     *)

\* SUCCESS_TRADE_STATUSES: other notifications are logged and ignored.
TradeSucceeded(r) == trade[r] = "PAID"

\* A processed notification is acknowledged again and changes nothing;
\* another one is logged, unless it already is, and then settled.
Notify(k, r, n) ==
    /\ TradeSucceeded(r)
    /\ log[r][n] # "processed"
    /\ log' = [log EXCEPT ![r][n] = "open"]
    /\ Start(k, "settle", r, n)
    /\ UNCHANGED <<payment, purpose, trade, orderVars, credits, failures>>

\* The part of the transaction that both purposes share: a row that is PAID
\* stays so, any other one becomes PAID, and the notification is processed.
MarkPaid(k) ==
    LET r == req[k].row
        n == req[k].notify IN
    /\ req[k].pc = "settle"
    /\ payment' = [payment EXCEPT ![r] = "PAID"]
    /\ IF n = NoNotify THEN UNCHANGED log
       ELSE log' = [log EXCEPT ![r][n] = "processed"]

\* The order row is locked as well; a canceled order is taken up again.
Activated == {"PENDING_PAYMENT", "CANCELED"}
SettleOrder(k) ==
    /\ MarkPaid(k)
    /\ purpose[req[k].row] = "ORDER"
    /\ orderPayment' = "CONFIRMED"
    /\ order' = IF order \in Activated THEN "IN_PROGRESS" ELSE order
    /\ Finish(k)
    /\ UNCHANGED <<purpose, trade, credits, failures>>

SettleRecharge(k) ==
    /\ MarkPaid(k)
    /\ purpose[req[k].row] = "RECHARGE"
    /\ Goto(k, "lookup")
    /\ UNCHANGED <<purpose, trade, orderVars, credits, failures>>

\* BalanceService.recharge: the lookup by paymentId stands outside the
\* transaction that adds the money.
NothingRecorded(r) == FALSE
Recorded(r) == credits[r] > 0

LookupRecord(k) ==
    /\ req[k].pc = "lookup"
    /\ IF Recorded(req[k].row) THEN Finish(k) ELSE Goto(k, "credit")
    /\ UNCHANGED <<payment, purpose, trade, log, orderVars, credits, failures>>

Credit(k) ==
    LET r == req[k].row IN
    /\ req[k].pc = "credit"
    /\ credits[r] < MaxCredits
    /\ credits' = [credits EXCEPT ![r] = @ + 1]
    /\ Finish(k)
    /\ UNCHANGED <<payment, purpose, trade, log, orderVars, failures>>

-----------------------------------------------------------------------------
(* Exceptions and crashes                                                   *)

\* A database call throws.  A transaction it belongs to is rolled back; the
\* handler of a callback goes on to failNotification.
Throw(k) ==
    /\ failures < MaxFailures
    /\ req[k].pc \notin {"idle", "reopen"}
    /\ failures' = failures + 1
    /\ IF req[k].notify = NoNotify THEN Finish(k) ELSE Goto(k, "reopen")
    /\ UNCHANGED <<payment, purpose, trade, log, orderVars, credits>>

\* failNotification saves the copy of the log row that was read before the
\* settlement: it is not processed any more, and Alipay is told to try again.
KeepProcessed(r, n) == log[r][n]
Reopened(r, n) == "open"
FailNotification(k) ==
    LET r == req[k].row
        n == req[k].notify IN
    /\ req[k].pc = "reopen"
    /\ log' = [log EXCEPT ![r][n] = Reopened(r, n)]
    /\ Finish(k)
    /\ UNCHANGED <<payment, purpose, trade, orderVars, credits, failures>>

Crash(k) ==
    /\ Crashes
    /\ req[k] # Idle
    /\ Finish(k)
    /\ UNCHANGED <<payment, purpose, trade, log, orderVars, credits, failures>>

-----------------------------------------------------------------------------
(* The world outside                                                        *)

\* The buyer pays on Alipay's page, or Alipay closes the unpaid trade.
TradeEnds(r) ==
    /\ Exists(r)
    /\ trade[r] = "WAIT"
    /\ \E t \in {"PAID", "CLOSED"} : trade' = [trade EXCEPT ![r] = t]
    /\ UNCHANGED <<payment, purpose, log, orderVars, credits, req, failures>>

\* The order is paid in another way (payWithBalance, confirmPayment, pay).
PayOtherwise ==
    /\ order = "PENDING_PAYMENT"
    /\ order' = "IN_PROGRESS"
    /\ UNCHANGED <<payment, purpose, trade, log, orderPayment, credits, req,
                   failures>>

\* The client cancels: the order is read, and saved later from that copy.
ReadCancel(k) ==
    /\ "ORDER" \in Purposes
    /\ order = "PENDING_PAYMENT"
    /\ Start(k, "cancel", NoRow, NoNotify)
    /\ UNCHANGED <<payment, purpose, trade, log, orderVars, credits, failures>>

SaveCanceled(k) ==
    /\ req[k].pc = "cancel"
    /\ order' = "CANCELED"
    /\ Finish(k)
    /\ UNCHANGED <<payment, purpose, trade, log, orderPayment, credits, failures>>

Progress(k) ==
    \/ QueryTrade(k)
    \/ SaveClosed(k)
    \/ SettleOrder(k)
    \/ SettleRecharge(k)
    \/ LookupRecord(k)
    \/ Credit(k)
    \/ FailNotification(k)
    \/ SaveCanceled(k)

Redeliver(r) == \E k \in Requests, n \in NotifyIds : Notify(k, r, n)

Next ==
    \/ CreateAlipayPayment
    \/ CreateRechargePayment
    \/ PayOtherwise
    \/ \E k \in Requests :
         \/ ReadCancel(k)
         \/ \E r \in Rows : RefreshFromAlipay(k, r)
         \/ Progress(k)
         \/ Throw(k)
         \/ Crash(k)
    \/ \E r \in Rows : Redeliver(r) \/ TradeEnds(r)

Spec == Init /\ [][Next]_vars

\* A request that was accepted runs on; Alipay repeats a notification until it
\* is answered with "success", and finds the server free again and again.
Fairness ==
    /\ \A k \in Requests : WF_vars(Progress(k))
    /\ \A r \in Rows : SF_vars(Redeliver(r))

FairSpec == Spec /\ Fairness

-----------------------------------------------------------------------------
\* The tables and the requests keep their shape.
TypeOK ==
    /\ payment \in [Rows -> PaymentStatuses]
    /\ purpose \in [Rows -> {"ORDER", "RECHARGE"}]
    /\ trade \in [Rows -> Trades]
    /\ log \in [Rows -> [NotifyIds -> LogStates]]
    /\ order \in OrderStatuses
    /\ orderPayment \in OrderPaymentStatuses
    /\ credits \in [Rows -> Nat]
    /\ req \in [Requests -> Request]
    /\ failures \in 0..MaxFailures

EffectsBacked ==
    /\ \A r \in Rows :
         (credits[r] > 0 \/ payment[r] = "PAID") => trade[r] = "PAID"
    /\ orderPayment = "CONFIRMED" =>
         \E r \in Rows : purpose[r] = "ORDER" /\ payment[r] = "PAID"
OpenRowIsLatest ==
    \A r \in Open("ORDER"), s \in Rows :
      Exists(s) /\ purpose[s] = "ORDER" => s <= r

\* Neither an order nor a balance moves by money that Alipay did not receive
\* (settleSuccessfulPayment, reached from callbacks and trade queries).  And
\* a row of an order that waits for its money is the newest of the order: the
\* status query (findLatestPayment) asks Alipay about no other one, so an
\* older row left open would never be looked at again.  Nothing is said of
\* the trades themselves: that of a row marked FAILED stays payable at
\* Alipay, and is settled by its callback alone.
TradesMatch == EffectsBacked /\ OpenRowIsLatest

PaidStaysPaid ==
    [][\A r \in Rows : payment[r] = "PAID" => payment'[r] = "PAID"]_vars
PaymentActivatesOrder ==
    [][\A r \in Rows :
         payment[r] # "PAID" /\ payment'[r] = "PAID" /\ purpose[r] = "ORDER" =>
           order' = "IN_PROGRESS" /\ orderPayment' = "CONFIRMED"]_vars

\* A settled payment is never undone, though expiry and trade queries write
\* FAILED and act on copies read earlier.  And payment, order and order
\* payment move together, whatever fails in between: the step that makes an
\* order's payment PAID leaves the order running, also if it was canceled
\* meanwhile or waits for another payment.
SettlementFinal == PaidStaysPaid /\ PaymentActivatesOrder

\* One Alipay payment is added to the balance once (balance.service.ts 138).
CreditedOnce == \A r \in Rows : credits[r] <= 1

\* Money paid takes effect in the end, also when the credit throws after its
\* notification was marked as processed: failNotification opens it again.
PaidTakesEffect ==
    \A r \in Rows :
      trade[r] = "PAID" ~> IF purpose[r] = "ORDER" THEN orderPayment = "CONFIRMED"
                           ELSE credits[r] >= 1
=============================================================================
