------------------------------ MODULE Recharge ------------------------------
(***************************************************************************)
(* Topping up a wallet through Alipay: recharge.service.ts and the RCH     *)
(* branch of handleAlipayNotification in online-payment.service.ts, for    *)
(* the recharge orders of one user and one amount.                         *)
(*                                                                         *)
(* A request is a state machine of its own: every await between two        *)
(* database calls lets other requests run.  Only the transaction of        *)
(* settleRecharge is atomic.  The FAILED saves write back the row as it    *)
(* was read, so they also undo a settlement that happened in between.      *)
(*                                                                         *)
(* AnyTradeStatus and SettledUnlessInit are faulty variants, used only to  *)
(* show that the properties notice them.                                   *)
(***************************************************************************)
EXTENDS Integers, FiniteSets

CONSTANTS
    Rows,              \* ids of recharge orders, in creation order
    NotifyIds,         \* the notify ids Alipay uses for one trade
    NoNotify,          \* a settlement that was found by a trade query
    RechargeRequests,  \* concurrent HTTP requests
    MaxCredits,        \* bound on the credits of one row
    Aging,             \* whether a row may outlive its 15 minutes
    MaxFailures        \* bound on the requests that die or in which a call throws

ASSUME RowsAssumption == Rows \subseteq Nat \ {0}
ASSUME NotifyAssumption == NoNotify \notin NotifyIds
ASSUME SwitchAssumption == Aging \in BOOLEAN
ASSUME CreditsAssumption == MaxCredits \in Nat /\ MaxFailures \in Nat

VARIABLES
    status,       \* recharge_orders.status, "NONE" while there is no row
    old,          \* rows created more than RECHARGE_TIMEOUT_MINUTES ago
    trade,        \* external: what Alipay would answer for the outTradeNo
    log,          \* payment_notifications of each row: missing, open, processed
    rechargeReq,  \* the requests under way
    credits,      \* how often the row's amount was added to the balance
    failures      \* the requests that did not end

rechargeVars == <<status, old, trade, log, rechargeReq, credits, failures>>

RechargeStatuses == {"NONE", "INIT", "PAID", "FAILED"}
Trades == {"WAIT", "PAID", "CLOSED"}
LogStates == {"none", "open", "processed"}
RechargeSteps == {"idle", "create", "expire", "expireThenCreate", "refresh",
                  "settle", "credit", "log"}
NoRecharge == 0
Request == [pc : RechargeSteps, row : Rows \cup {NoRecharge},
            notify : NotifyIds \cup {NoNotify}]
IdleRequest == [pc |-> "idle", row |-> NoRecharge, notify |-> NoNotify]

RechargeInit ==
    /\ status = [r \in Rows |-> "NONE"]
    /\ old = {}
    /\ trade = [r \in Rows |-> "WAIT"]
    /\ log = [r \in Rows |-> [n \in NotifyIds |-> "none"]]
    /\ rechargeReq = [k \in RechargeRequests |-> IdleRequest]
    /\ credits = [r \in Rows |-> 0]
    /\ failures = 0

GotoStep(k, pc) == rechargeReq' = [rechargeReq EXCEPT ![k].pc = pc]
Start(k, pc, r, n) ==
    /\ rechargeReq[k] = IdleRequest
    /\ rechargeReq' = [rechargeReq EXCEPT
                          ![k] = [pc |-> pc, row |-> r, notify |-> n]]
Return(k) == rechargeReq' = [rechargeReq EXCEPT ![k] = IdleRequest]

-----------------------------------------------------------------------------
(* createRecharge *)

OpenRecharges == {r \in Rows : status[r] = "INIT"}
Newest(S, r) == r \in S /\ \A s \in S : s <= r

\* The lookup of a row to reuse.  A fresh one is reused and nothing changes.
CreateLookup(k) ==
    /\ \/ OpenRecharges = {} /\ Start(k, "create", NoRecharge, NoNotify)
       \/ \E r \in Rows : /\ Newest(OpenRecharges, r)
                          /\ r \in old
                          /\ Start(k, "expireThenCreate", r, NoNotify)
    /\ UNCHANGED <<status, old, trade, log, credits, failures>>

\* Rows bounds the recharge orders: with all of them used, none is created.
CreateInsert(k) ==
    /\ rechargeReq[k].pc = "create"
    /\ \/ \E r \in Rows :
            /\ status[r] = "NONE"
            /\ \A s \in Rows : s < r => status[s] # "NONE"
            /\ status' = [status EXCEPT ![r] = "INIT"]
       \/ "NONE" \notin {status[r] : r \in Rows} /\ UNCHANGED status
    /\ Return(k)
    /\ UNCHANGED <<old, trade, log, credits, failures>>

-----------------------------------------------------------------------------
(* getRechargeStatus, with and without refresh *)

\* The row was read as INIT; the request acts on that copy later.
StatusQuery(k, r) ==
    /\ status[r] = "INIT"
    /\ \/ Start(k, "refresh", r, NoNotify)
       \/ r \in old /\ Start(k, "expire", r, NoNotify)
    /\ UNCHANGED <<status, old, trade, log, credits, failures>>

\* refreshFromAlipay asks Alipay; PENDING and UNKNOWN end the request.
QueryTrade(k) ==
    LET answer == trade[rechargeReq[k].row] IN
    /\ rechargeReq[k].pc = "refresh"
    /\ \/ answer = "PAID" /\ GotoStep(k, "settle")
       \/ answer = "CLOSED" /\ GotoStep(k, "expire")
       \/ Return(k)
    /\ UNCHANGED <<status, old, trade, log, credits, failures>>

\* Saving FAILED over the row, from the copy read as INIT.
SaveFailed(k) ==
    /\ rechargeReq[k].pc \in {"expire", "expireThenCreate"}
    /\ status' = [status EXCEPT ![rechargeReq[k].row] = "FAILED"]
    /\ IF rechargeReq[k].pc = "expire"
       THEN Return(k)
       ELSE rechargeReq' = [rechargeReq EXCEPT
                              ![k] = [IdleRequest EXCEPT !.pc = "create"]]
    /\ UNCHANGED <<old, trade, log, credits, failures>>

-----------------------------------------------------------------------------
(* handleAlipayNotification and settleRecharge *)

\* SUCCESS_TRADE_STATUSES: other notifications are logged and ignored.
AnyTradeStatus(r) == TRUE
TradeSucceeded(r) == trade[r] = "PAID"

\* A notification of a paid trade: a processed one is acknowledged again and
\* changes nothing; another one is logged (unless it already is) and settled.
Notify(k, r, n) ==
    /\ TradeSucceeded(r)
    /\ log[r][n] # "processed"
    /\ log' = [log EXCEPT ![r][n] = "open"]
    /\ Start(k, "settle", r, n)
    /\ UNCHANGED <<status, old, trade, credits, failures>>

\* The settled row decides whether this request will add the money.
SettledUnlessInit(r) == status[r] # "INIT"
AlreadySettled(r) == status[r] = "PAID"

AfterSettling(k) ==
    IF rechargeReq[k].notify = NoNotify THEN Return(k) ELSE GotoStep(k, "log")

\* The transaction of settleRecharge, under the row lock.
Settle(k) ==
    LET r == rechargeReq[k].row IN
    /\ rechargeReq[k].pc = "settle"
    /\ \/ /\ AlreadySettled(r)
          /\ AfterSettling(k)
          /\ UNCHANGED status
       \/ /\ ~AlreadySettled(r)
          /\ status' = [status EXCEPT ![r] = "PAID"]
          /\ GotoStep(k, "credit")
    /\ UNCHANGED <<old, trade, log, credits, failures>>

\* balanceService.addIncome, outside the settlement's transaction.
Credit(k) ==
    LET r == rechargeReq[k].row IN
    /\ rechargeReq[k].pc = "credit"
    /\ credits[r] < MaxCredits
    /\ credits' = [credits EXCEPT ![r] = @ + 1]
    /\ AfterSettling(k)
    /\ UNCHANGED <<status, old, trade, log, failures>>

MarkProcessed(k) ==
    /\ rechargeReq[k].pc = "log"
    /\ log' = [log EXCEPT
                  ![rechargeReq[k].row][rechargeReq[k].notify] = "processed"]
    /\ Return(k)
    /\ UNCHANGED <<status, old, trade, credits, failures>>

\* The process stops, or a database call of the request throws: whatever was
\* committed stays, the rest of the request is lost.
Fail(k) ==
    /\ failures < MaxFailures
    /\ rechargeReq[k] # IdleRequest
    /\ failures' = failures + 1
    /\ Return(k)
    /\ UNCHANGED <<status, old, trade, log, credits>>

-----------------------------------------------------------------------------
(* The world outside *)

\* 15 minutes have passed since the row was created.
Expire(r) ==
    /\ Aging
    /\ status[r] # "NONE"
    /\ r \notin old
    /\ old' = old \cup {r}
    /\ UNCHANGED <<status, trade, log, rechargeReq, credits, failures>>

\* The buyer pays on Alipay's page, or Alipay closes the unpaid trade.
TradeEnds(r) ==
    /\ status[r] # "NONE"
    /\ trade[r] = "WAIT"
    /\ \E t \in {"PAID", "CLOSED"} : trade' = [trade EXCEPT ![r] = t]
    /\ UNCHANGED <<status, old, log, rechargeReq, credits, failures>>

Progress(k) ==
    \/ CreateInsert(k)
    \/ QueryTrade(k)
    \/ SaveFailed(k)
    \/ Settle(k)
    \/ Credit(k)
    \/ MarkProcessed(k)

Redeliver(r) == \E k \in RechargeRequests, n \in NotifyIds : Notify(k, r, n)

RechargeNext ==
    \/ \E k \in RechargeRequests :
         \/ CreateLookup(k)
         \/ \E r \in Rows : StatusQuery(k, r)
         \/ Progress(k)
         \/ Fail(k)
    \/ \E r \in Rows : Redeliver(r) \/ Expire(r) \/ TradeEnds(r)

RechargeSpec == RechargeInit /\ [][RechargeNext]_rechargeVars

\* A request that was accepted runs on; Alipay repeats a notification until it
\* is answered with "success", and finds the server free again and again.
RechargeFairness ==
    /\ \A k \in RechargeRequests : WF_rechargeVars(Progress(k))
    /\ \A r \in Rows : SF_rechargeVars(Redeliver(r))

FairRechargeSpec == RechargeSpec /\ RechargeFairness

-----------------------------------------------------------------------------
\* The tables and the requests keep their shape.
RechargeTypeOK ==
    /\ status \in [Rows -> RechargeStatuses]
    /\ old \subseteq Rows
    /\ trade \in [Rows -> Trades]
    /\ log \in [Rows -> [NotifyIds -> LogStates]]
    /\ rechargeReq \in [RechargeRequests -> Request]
    /\ credits \in [Rows -> Nat]
    /\ failures \in 0..MaxFailures

CreditsBacked ==
    \A r \in Rows :
      (credits[r] > 0 \/ status[r] = "PAID") => trade[r] = "PAID"

CreditedOnce == old = {} => \A r \in Rows : credits[r] <= 1

\* The balance only grows by money Alipay has received, whichever of callback
\* and trade query settles the row; and by each recharge once, however often
\* and concurrently Alipay notifies and the page polls (settleRecharge,
\* recharge.service.ts 154), until a row is older than 15 minutes: from then
\* on a stale FAILED undoes settlements, and the next notification pays again.
CreditsMatch == CreditsBacked /\ CreditedOnce

Crediting(r) ==
    \E k \in RechargeRequests :
      rechargeReq[k].pc = "credit" /\ rechargeReq[k].row = r

\* "success" is answered only when the money is in the balance or on its way:
\* a second notification is acknowledged while the first request still holds
\* the credit (settleRecharge returns early on PAID); if that one dies, the
\* money is lost.
AckMeansCredit ==
    \A r \in Rows, n \in NotifyIds :
      log[r][n] = "processed"
        => credits[r] >= 1 \/ Crediting(r) \/ failures > 0

\* Money paid for a recharge reaches the balance in the end, unless a request
\* died between the settlement and the credit.
PaidIsCredited ==
    \A r \in Rows :
      (trade[r] = "PAID") ~> (credits[r] >= 1 \/ failures > 0)
=============================================================================
