------------------------ MODULE OnlinePaymentProofs ------------------------
(***************************************************************************)
(* The Payment rows of OnlinePayment for any number of rows, notify ids    *)
(* and concurrent requests.  What a request read before its last wait must *)
(* still be true when it writes: the invariant says which part of it is    *)
(* (Promise), and every step preserves that part (Monotone).               *)
(***************************************************************************)
EXTENDS OnlinePayment, TLAPS

\* What a request may rely on where it stands.
Promise(q) ==
    /\ q.pc \notin {"idle", "cancel"} => q.row \in Rows /\ Exists(q.row)
    /\ q.pc = "cancel" => q.notify = NoNotify
    /\ q.pc \in {"settle", "lookup", "credit"} => trade[q.row] = "PAID"
    /\ q.pc = "close" => trade[q.row] = "CLOSED"
    /\ q.pc = "reopen" => q.notify \in NotifyIds
Promises == \A k \in Requests : Promise(req[k])

TradesExist == \A r \in Rows : ~Exists(r) => trade[r] = "WAIT"

\* The inductive invariant.
IInv == TypeOK /\ TradesExist /\ EffectsBacked /\ OpenRowIsLatest /\ Promises

\* What no step undoes: a row, its purpose, the end of a trade, a settlement.
Monotone ==
    \A r \in Rows :
      /\ Exists(r) => Exists(r)' /\ purpose'[r] = purpose[r]
      /\ trade[r] # "WAIT" => trade'[r] = trade[r]
      /\ payment[r] = "PAID" => payment'[r] = "PAID"

\* A step that settles the payment of an order settles the order.
Activates ==
    \A r \in Rows :
      payment[r] # "PAID" /\ payment'[r] = "PAID" /\ purpose[r] = "ORDER" =>
        order' = "IN_PROGRESS" /\ orderPayment' = "CONFIRMED"

\* A request moves to q and no other one moves.
Moves(k, q) ==
    /\ req' \in [Requests -> Request]
    /\ req'[k] = q
    /\ \A j \in Requests : j # k => req'[j] = req[j]

\* The rows of the tables and the requests, which few steps change together.
Tables ==
    /\ payment \in [Rows -> PaymentStatuses]
    /\ purpose \in [Rows -> {"ORDER", "RECHARGE"}]
    /\ trade \in [Rows -> Trades]
    /\ log \in [Rows -> [NotifyIds -> LogStates]]
    /\ order \in OrderStatuses
    /\ orderPayment \in OrderPaymentStatuses
    /\ credits \in [Rows -> Nat]

LEMMA TypeParts ==
  TypeOK <=> Tables /\ req \in [Requests -> Request] /\ failures \in 0..MaxFailures
BY DEF TypeOK, Tables

LEMMA PromiseKept ==
  ASSUME Monotone, NEW q, Promise(q)
  PROVE  Promise(q)'
BY DEF Monotone, Promise

\* What is left to show of a step of one request.
LEMMA RequestKeepsIInv ==
  ASSUME IInv, NEW k \in Requests, NEW q, Moves(k, q), Promise(q)',
         Monotone, Tables', TradesExist', EffectsBacked', OpenRowIsLatest',
         failures' \in 0..MaxFailures
  PROVE  IInv'
<1>1. Promises'
  BY PromiseKept DEF Moves, Promises, IInv
<1>2. TypeOK'
  BY DEF TypeOK, Tables, Moves
<1> QED
  BY <1>1, <1>2 DEF IInv

LEMMA IdleShape ==
  Idle \in Request /\ Idle.pc = "idle" /\ Idle.notify = NoNotify
BY DEF Idle, Request, Steps

LEMMA FinishShape ==
  ASSUME IInv, NEW k \in Requests, Finish(k)
  PROVE  Moves(k, Idle) /\ Promise(Idle)'
<1>1. req \in [Requests -> Request]
  BY DEF IInv, TypeOK
<1>2. Moves(k, Idle)
  BY <1>1, IdleShape DEF Finish, Moves
<1>3. Promise(Idle)'
  BY IdleShape DEF Promise
<1> QED
  BY <1>2, <1>3

\* A request that goes on with the row and the notification it has keeps its
\* promise, if it did so before the step.
LEMMA GotoShape ==
  ASSUME IInv, Monotone, NEW k \in Requests, NEW pc \in Steps, Goto(k, pc),
         Promise([pc |-> pc, row |-> req[k].row, notify |-> req[k].notify])
  PROVE  \E q : Moves(k, q) /\ Promise(q)'
<1>1. PICK q : q = [pc |-> pc, row |-> req[k].row, notify |-> req[k].notify]
  OBVIOUS
<1>2. req \in [Requests -> Request] /\ req[k] \in Request
  BY DEF IInv, TypeOK
<1>3. req' = [req EXCEPT ![k] = [req[k] EXCEPT !.pc = pc]]
  BY DEF Goto
<1>4. [req[k] EXCEPT !.pc = pc] = q /\ q \in Request
  BY <1>1, <1>2 DEF Request
<1>5. Moves(k, q)
  BY <1>2, <1>3, <1>4 DEF Moves
<1>6. Promise(q)'
  BY <1>1, PromiseKept
<1> QED
  BY <1>5, <1>6

LEMMA StartShape ==
  ASSUME IInv, NEW k \in Requests, NEW pc \in Steps, NEW r \in Rows \cup {NoRow},
         NEW n \in NotifyIds \cup {NoNotify}, Start(k, pc, r, n)
  PROVE  Moves(k, [pc |-> pc, row |-> r, notify |-> n])
<1>1. req \in [Requests -> Request] /\ [pc |-> pc, row |-> r, notify |-> n] \in Request
  BY DEF IInv, TypeOK, Request
<1> QED
  BY <1>1 DEF Start, Moves

-----------------------------------------------------------------------------
(* Steps that change no row: requests begin, end and look things up.        *)

rowVars == <<payment, purpose, trade, orderVars, credits>>

\* They may log a notification.
LEMMA RowsKept ==
  ASSUME IInv, UNCHANGED rowVars
  PROVE  /\ Monotone /\ Activates /\ TradesExist' /\ EffectsBacked' /\ OpenRowIsLatest'
         /\ log' \in [Rows -> [NotifyIds -> LogStates]] => Tables'
<1> USE DEF IInv, rowVars, orderVars
<1>1. Monotone /\ Activates
  BY DEF Monotone, Activates, Exists
<1>2. TradesExist' /\ EffectsBacked'
  BY DEF TradesExist, EffectsBacked, Exists
<1>3. OpenRowIsLatest'
  BY DEF OpenRowIsLatest, Open, Exists
<1>4. log' \in [Rows -> [NotifyIds -> LogStates]] => Tables'
  BY DEF TypeOK, Tables
<1> QED
  BY <1>1, <1>2, <1>3, <1>4

LEMMA QuietStep ==
  ASSUME IInv, NEW k \in Requests, NEW q, Moves(k, q), Promise(q)',
         UNCHANGED rowVars, log' \in [Rows -> [NotifyIds -> LogStates]],
         failures' \in 0..MaxFailures
  PROVE  IInv' /\ Monotone /\ Activates
BY RowsKept, RequestKeepsIInv

LEMMA RefreshStep ==
  ASSUME IInv, NEW k \in Requests, NEW r \in Rows, RefreshFromAlipay(k, r)
  PROVE  IInv' /\ Monotone /\ Activates
<1> USE DEF RefreshFromAlipay
<1> DEFINE q == [pc |-> "query", row |-> r, notify |-> NoNotify]
<1>1. /\ UNCHANGED rowVars /\ failures' \in 0..MaxFailures
      /\ log' \in [Rows -> [NotifyIds -> LogStates]]
  BY DEF rowVars, IInv, TypeOK
<1>2. Moves(k, q)
  BY StartShape DEF Steps
<1>3. Promise(q)'
  BY DEF Promise, Exists
<1> QED
  BY <1>1, <1>2, <1>3, QuietStep

LEMMA ReadCancelStep ==
  ASSUME IInv, NEW k \in Requests, ReadCancel(k)
  PROVE  IInv' /\ Monotone /\ Activates
<1> USE DEF ReadCancel
<1> DEFINE q == [pc |-> "cancel", row |-> NoRow, notify |-> NoNotify]
<1>1. /\ UNCHANGED rowVars /\ failures' \in 0..MaxFailures
      /\ log' \in [Rows -> [NotifyIds -> LogStates]]
  BY DEF rowVars, IInv, TypeOK
<1>2. Moves(k, q)
  BY StartShape DEF Steps
<1>3. Promise(q)'
  BY DEF Promise
<1> QED
  BY <1>1, <1>2, <1>3, QuietStep

LEMMA NotifyStep ==
  ASSUME IInv, NEW k \in Requests, NEW r \in Rows, NEW n \in NotifyIds, Notify(k, r, n)
  PROVE  IInv' /\ Monotone /\ Activates
<1> USE DEF Notify, TradeSucceeded
<1> DEFINE q == [pc |-> "settle", row |-> r, notify |-> n]
<1>1. UNCHANGED rowVars /\ failures' \in 0..MaxFailures
  BY DEF rowVars, IInv, TypeOK
<1>2. log' \in [Rows -> [NotifyIds -> LogStates]]
  BY DEF IInv, TypeOK, LogStates
<1>3. Moves(k, q)
  BY StartShape DEF Steps
<1>4. Promise(q)'
  BY DEF Promise, Exists, IInv, TradesExist
<1> QED
  BY <1>1, <1>2, <1>3, <1>4, QuietStep

\* Where a request stands, with its row.
LEMMA Standing ==
  ASSUME IInv, NEW k \in Requests
  PROVE  /\ req[k] \in Request
         /\ req[k].pc \notin {"idle", "cancel"} =>
              req[k].row \in Rows /\ Exists(req[k].row)
         /\ req[k].pc \in {"settle", "lookup", "credit"} => trade[req[k].row] = "PAID"
         /\ req[k].pc = "close" => trade[req[k].row] = "CLOSED"
         /\ req[k].pc = "cancel" => req[k].notify = NoNotify
         /\ req[k].pc = "reopen" => req[k].notify \in NotifyIds
BY DEF IInv, TypeOK, Promises, Promise

LEMMA QueryTradeStep ==
  ASSUME IInv, NEW k \in Requests, QueryTrade(k)
  PROVE  IInv' /\ Monotone /\ Activates
<1> USE DEF QueryTrade, TradeClosed
<1>1. /\ UNCHANGED rowVars /\ failures' \in 0..MaxFailures
      /\ log' \in [Rows -> [NotifyIds -> LogStates]]
      /\ {"settle", "close"} \subseteq Steps
  BY DEF rowVars, IInv, TypeOK, Steps
<1>2. ASSUME NEW pc \in {"settle", "close"}, Goto(k, pc),
             pc = "settle" => trade[req[k].row] = "PAID",
             pc = "close" => trade[req[k].row] = "CLOSED"
      PROVE  IInv' /\ Monotone /\ Activates
  <2>1. Promise([pc |-> pc, row |-> req[k].row, notify |-> req[k].notify])
    BY <1>2, Standing DEF Promise
  <2>2. PICK q : Moves(k, q) /\ Promise(q)'
    BY <1>1, <1>2, <2>1, RowsKept, GotoShape
  <2> QED
    BY <1>1, <2>2, QuietStep
<1>3. CASE Finish(k)
  BY <1>1, <1>3, FinishShape, QuietStep
<1> QED
  BY <1>2, <1>3

LEMMA LookupRecordStep ==
  ASSUME IInv, NEW k \in Requests, LookupRecord(k)
  PROVE  IInv' /\ Monotone /\ Activates
<1> USE DEF LookupRecord
<1>1. /\ UNCHANGED rowVars /\ failures' \in 0..MaxFailures
      /\ log' \in [Rows -> [NotifyIds -> LogStates]]
  BY DEF rowVars, IInv, TypeOK
<1>2. CASE Goto(k, "credit")
  <2>1. Promise([pc |-> "credit", row |-> req[k].row, notify |-> req[k].notify])
    BY Standing DEF Promise
  <2>2. PICK q : Moves(k, q) /\ Promise(q)'
    BY <1>1, <1>2, <2>1, RowsKept, GotoShape DEF Steps
  <2> QED
    BY <1>1, <2>2, QuietStep
<1>3. CASE Finish(k)
  BY <1>1, <1>3, FinishShape, QuietStep
<1> QED
  BY <1>2, <1>3

LEMMA FailureSteps ==
  ASSUME IInv, NEW k \in Requests, Throw(k) \/ FailNotification(k) \/ Crash(k)
  PROVE  IInv' /\ Monotone /\ Activates
<1>1. UNCHANGED rowVars
  BY DEF rowVars, Throw, FailNotification, Crash
<1>2. failures' \in 0..MaxFailures
  BY BoundAssumption DEF Throw, FailNotification, Crash, IInv, TypeOK
<1>3. log' \in [Rows -> [NotifyIds -> LogStates]]
  <2>1. CASE Throw(k) \/ Crash(k)
    BY <2>1 DEF Throw, Crash, IInv, TypeOK
  <2>2. CASE FailNotification(k)
    BY <2>2 DEF FailNotification, Reopened, LogStates, IInv, TypeOK
  <2> QED
    BY <2>1, <2>2
<1>4. CASE Finish(k)
  BY <1>1, <1>2, <1>3, <1>4, FinishShape, QuietStep
<1>5. CASE Throw(k) /\ req[k].notify # NoNotify /\ Goto(k, "reopen")
  <2>1. req[k].pc \notin {"idle", "cancel"} /\ req[k].notify \in NotifyIds
    BY <1>5, Standing DEF Throw, Request
  <2>2. Promise([pc |-> "reopen", row |-> req[k].row, notify |-> req[k].notify])
    BY <2>1, Standing DEF Promise
  <2>3. PICK q : Moves(k, q) /\ Promise(q)'
    BY <1>1, <1>5, <2>2, RowsKept, GotoShape DEF Steps
  <2> QED
    BY <1>1, <1>2, <1>3, <2>3, QuietStep
<1> QED
  BY <1>4, <1>5 DEF Throw, FailNotification, Crash

-----------------------------------------------------------------------------
(* Steps that change the rows.                                              *)

\* A trade that was found closed is not paid, so no settlement is undone.
LEMMA SaveClosedStep ==
  ASSUME IInv, NEW k \in Requests, SaveClosed(k)
  PROVE  IInv' /\ Monotone /\ Activates
<1> USE DEF SaveClosed
<1> DEFINE r == req[k].row
<1>1. /\ r \in Rows /\ Exists(r) /\ trade[r] = "CLOSED"
      /\ payment' = [payment EXCEPT ![r] = "FAILED"]
      /\ payment \in [Rows -> PaymentStatuses]
  BY Standing DEF IInv, TypeOK
<1>2. payment[r] # "PAID"
  BY <1>1 DEF IInv, EffectsBacked
<1>3. Monotone /\ Activates
  BY <1>1, <1>2 DEF Monotone, Activates, Exists
<1>4. Tables' /\ failures' \in 0..MaxFailures
  BY <1>1 DEF Tables, IInv, TypeOK, PaymentStatuses, orderVars
<1>5. TradesExist'
  BY <1>1 DEF TradesExist, Exists, IInv
<1>6. EffectsBacked'
  BY <1>1, <1>2 DEF EffectsBacked, IInv, orderVars
<1>7. OpenRowIsLatest'
  BY <1>1 DEF OpenRowIsLatest, Open, Exists, IInv
<1>8. Moves(k, Idle) /\ Promise(Idle)'
  BY FinishShape
<1> QED
  BY <1>3, <1>4, <1>5, <1>6, <1>7, <1>8, RequestKeepsIInv

LEMMA CreditStep ==
  ASSUME IInv, NEW k \in Requests, Credit(k)
  PROVE  IInv' /\ Monotone /\ Activates
<1> USE DEF Credit
<1> DEFINE r == req[k].row
<1>1. /\ r \in Rows /\ trade[r] = "PAID" /\ credits \in [Rows -> Nat]
      /\ credits' = [credits EXCEPT ![r] = credits[r] + 1]
  BY Standing DEF IInv, TypeOK
<1>2. Monotone /\ Activates
  BY DEF Monotone, Activates, Exists
<1>3. Tables' /\ failures' \in 0..MaxFailures
  BY <1>1 DEF Tables, IInv, TypeOK, orderVars
<1>4. TradesExist' /\ OpenRowIsLatest'
  BY DEF TradesExist, OpenRowIsLatest, Open, Exists, IInv
<1>5. EffectsBacked'
  BY <1>1 DEF EffectsBacked, IInv, orderVars
<1>6. Moves(k, Idle) /\ Promise(Idle)'
  BY FinishShape
<1> QED
  BY <1>2, <1>3, <1>4, <1>5, <1>6, RequestKeepsIInv

\* The part of the settlement that both purposes share.
LEMMA MarkPaidRows ==
  ASSUME IInv, NEW k \in Requests, MarkPaid(k), UNCHANGED <<purpose, trade, credits>>
  PROVE  /\ req[k].row \in Rows /\ payment'[req[k].row] = "PAID"
         /\ payment' \in [Rows -> PaymentStatuses]
         /\ log' \in [Rows -> [NotifyIds -> LogStates]]
         /\ \A r \in Rows : r # req[k].row => payment'[r] = payment[r]
         /\ Monotone /\ TradesExist' /\ OpenRowIsLatest'
         /\ \A r \in Rows :
              (credits[r] > 0 \/ payment'[r] = "PAID") => trade[r] = "PAID"
<1> USE DEF MarkPaid
<1> DEFINE r == req[k].row
<1>1. /\ r \in Rows /\ Exists(r) /\ trade[r] = "PAID"
      /\ payment \in [Rows -> PaymentStatuses]
      /\ payment' = [payment EXCEPT ![r] = "PAID"]
  BY Standing DEF IInv, TypeOK
<1>2. /\ payment'[r] = "PAID" /\ payment' \in [Rows -> PaymentStatuses]
      /\ \A s \in Rows : s # r => payment'[s] = payment[s]
  BY <1>1 DEF PaymentStatuses
<1>3. log' \in [Rows -> [NotifyIds -> LogStates]]
  <2>1. log \in [Rows -> [NotifyIds -> LogStates]] /\ "processed" \in LogStates
    BY DEF IInv, TypeOK, LogStates
  <2>2. \/ log' = log
        \/ log' = [log EXCEPT ![r] = [log[r] EXCEPT ![req[k].notify] = "processed"]]
    OBVIOUS
  <2>3. [log[r] EXCEPT ![req[k].notify] = "processed"] \in [NotifyIds -> LogStates]
    BY <1>1, <2>1
  <2> QED
    BY ONLY <2>1, <2>2, <2>3
<1>4. Monotone /\ TradesExist'
  BY <1>1, <1>2 DEF Monotone, TradesExist, Exists, IInv
<1>5. OpenRowIsLatest'
  BY <1>1, <1>2 DEF OpenRowIsLatest, Open, Exists, IInv
<1>6. \A s \in Rows : (credits[s] > 0 \/ payment'[s] = "PAID") => trade[s] = "PAID"
  BY <1>1, <1>2 DEF IInv, EffectsBacked
<1> QED
  BY <1>1, <1>2, <1>3, <1>4, <1>5, <1>6

LEMMA SettleOrderStep ==
  ASSUME IInv, NEW k \in Requests, SettleOrder(k)
  PROVE  IInv' /\ Monotone /\ Activates
<1> USE DEF SettleOrder
<1> DEFINE r == req[k].row
<1>1. /\ r \in Rows /\ payment'[r] = "PAID" /\ payment' \in [Rows -> PaymentStatuses]
      /\ log' \in [Rows -> [NotifyIds -> LogStates]]
      /\ \A s \in Rows : s # r => payment'[s] = payment[s]
      /\ Monotone /\ TradesExist' /\ OpenRowIsLatest'
      /\ \A s \in Rows : (credits[s] > 0 \/ payment'[s] = "PAID") => trade[s] = "PAID"
  BY MarkPaidRows
<1>2. order' = "IN_PROGRESS" /\ orderPayment' = "CONFIRMED"
  BY DEF Activated, IInv, TypeOK, OrderStatuses
<1>3. Activates
  BY <1>2 DEF Activates
<1>4. Tables' /\ failures' \in 0..MaxFailures
  BY <1>1, <1>2 DEF Tables, IInv, TypeOK, OrderStatuses, OrderPaymentStatuses
<1>5. EffectsBacked'
  BY <1>1 DEF EffectsBacked
<1>6. Moves(k, Idle) /\ Promise(Idle)'
  BY FinishShape
<1> QED
  BY <1>1, <1>3, <1>4, <1>5, <1>6, RequestKeepsIInv

LEMMA SettleRechargeStep ==
  ASSUME IInv, NEW k \in Requests, SettleRecharge(k)
  PROVE  IInv' /\ Monotone /\ Activates
<1> USE DEF SettleRecharge, orderVars
<1> DEFINE r == req[k].row
<1>1. /\ r \in Rows /\ payment'[r] = "PAID" /\ payment' \in [Rows -> PaymentStatuses]
      /\ log' \in [Rows -> [NotifyIds -> LogStates]]
      /\ \A s \in Rows : s # r => payment'[s] = payment[s]
      /\ Monotone /\ TradesExist' /\ OpenRowIsLatest'
      /\ \A s \in Rows : (credits[s] > 0 \/ payment'[s] = "PAID") => trade[s] = "PAID"
  BY MarkPaidRows
<1>2. Activates
  BY <1>1 DEF Activates
<1>3. Tables' /\ failures' \in 0..MaxFailures
  BY <1>1 DEF Tables, IInv, TypeOK
<1>4. EffectsBacked'
  BY <1>1 DEF EffectsBacked, IInv
<1>5. Promise([pc |-> "lookup", row |-> req[k].row, notify |-> req[k].notify])
  BY Standing DEF Promise, MarkPaid
<1>6. PICK q : Moves(k, q) /\ Promise(q)'
  BY <1>1, <1>5, GotoShape DEF Steps
<1> QED
  BY <1>1, <1>2, <1>3, <1>4, <1>6, RequestKeepsIInv

\* The table before an insertion: open rows may have failed, and all of those
\* that wait for the order have if the new row does.
DropsOpen(before, p) ==
    /\ before \in [Rows -> PaymentStatuses]
    /\ \A r \in Rows : before[r] # payment[r] =>
                        payment[r] = "INIT" /\ before[r] = "FAILED"
    /\ p = "ORDER" => \A r \in Open("ORDER") : before[r] = "FAILED"

LEMMA InsertStep ==
  ASSUME IInv, NEW p \in {"ORDER", "RECHARGE"},
         NEW before, DropsOpen(before, p), Insert(before, p)
  PROVE  IInv' /\ Monotone /\ Activates
<1> USE DEF Insert, DropsOpen, orderVars
<1>1. PICK new \in Rows :
        /\ \A s \in Rows : Exists(s) <=> s < new
        /\ payment' = [before EXCEPT ![new] = "INIT"]
        /\ purpose' = [purpose EXCEPT ![new] = p]
  OBVIOUS
<1>0. payment[new] = "NONE"
  BY <1>1, RowsAssumption DEF Exists
<1>2. payment' \in [Rows -> PaymentStatuses] /\ purpose' \in [Rows -> {"ORDER", "RECHARGE"}]
  BY <1>0, <1>1 DEF PaymentStatuses, IInv, TypeOK
<1>3. /\ payment'[new] = "INIT" /\ purpose'[new] = p /\ purpose[new] \in {"ORDER", "RECHARGE"}
      /\ \A r \in Rows \ {new} :
           /\ purpose'[r] = purpose[r]
           /\ payment'[r] # payment[r] =>
                payment[r] = "INIT" /\ payment'[r] = "FAILED"
      /\ p = "ORDER" => \A r \in Open("ORDER") \ {new} : payment'[r] = "FAILED"
  BY <1>0, <1>1 DEF IInv, TypeOK, Open
<1>4. Monotone /\ Activates
  BY <1>0, <1>1, <1>3 DEF Monotone, Activates, Exists
<1>5. Tables' /\ failures' \in 0..MaxFailures
  BY <1>2 DEF Tables, IInv, TypeOK
<1>6. TradesExist'
  BY <1>3 DEF TradesExist, Exists, IInv
<1>7. EffectsBacked'
  BY <1>0, <1>1, <1>3 DEF EffectsBacked, IInv
<1>8. OpenRowIsLatest'
  <2>1. CASE p = "ORDER"
    <3>1. \A r \in Rows : payment'[r] = "INIT" /\ purpose'[r] = "ORDER" => r = new
      BY <1>3, <2>1 DEF Open
    <3>2. \A s \in Rows : payment'[s] # "NONE" => s = new \/ s < new
      BY <1>1, <1>3 DEF Exists
    <3>3. \A s \in Rows : s = new \/ s < new => s <= new
      BY RowsAssumption
    <3> QED
      BY <3>1, <3>2, <3>3 DEF OpenRowIsLatest, Open, Exists
  <2>2. CASE p = "RECHARGE"
    BY <1>0, <1>3, <2>2 DEF OpenRowIsLatest, Open, Exists, IInv
  <2> QED
    BY <2>1, <2>2
<1>9. Promises'
  BY <1>4, PromiseKept DEF Promises, IInv
<1> QED
  BY <1>4, <1>5, <1>6, <1>7, <1>8, <1>9, TypeParts DEF IInv, TypeOK, Tables

LEMMA ExpiredShape ==
  ASSUME IInv, NEW p
  PROVE  DropsOpen(Expired(p), p)
<1>1. payment \in [Rows -> PaymentStatuses] /\ OpenRowIsLatest
  BY DEF IInv, TypeOK
<1>2. /\ Expired(p) \in [Rows -> PaymentStatuses]
      /\ \A r \in Rows : Expired(p)[r] # payment[r] =>
                          payment[r] = "INIT" /\ Expired(p)[r] = "FAILED"
  BY <1>1 DEF Expired, Newest, Open, PaymentStatuses
<1>3. \A r \in Open("ORDER") : Newest(Open("ORDER"), r) /\ r \in Rows
  BY <1>1, RowsAssumption DEF OpenRowIsLatest, Newest, Open, Exists
<1>4. p = "ORDER" => \A r \in Open("ORDER") : Expired(p)[r] = "FAILED"
  BY <1>3 DEF Expired
<1> QED
  BY <1>2, <1>4 DEF DropsOpen

LEMMA CreateSteps ==
  ASSUME IInv, CreateAlipayPayment \/ CreateRechargePayment
  PROVE  IInv' /\ Monotone /\ Activates
<1>1. CASE CreateAlipayPayment
  <2>1. PICK before : before = Expired("ORDER")
    OBVIOUS
  <2> QED
    BY <1>1, <2>1, ExpiredShape, InsertStep DEF CreateAlipayPayment
<1>2. CASE CreateRechargePayment
  <2>1. PICK before : before \in {payment, Expired("RECHARGE")}
                      /\ Insert(before, "RECHARGE")
    BY <1>2 DEF CreateRechargePayment
  <2>2. DropsOpen(before, "RECHARGE")
    BY <2>1, ExpiredShape DEF DropsOpen, IInv, TypeOK
  <2> QED
    BY <2>1, <2>2, InsertStep
<1> QED
  BY <1>1, <1>2

LEMMA OutsideSteps ==
  ASSUME IInv,
         PayOtherwise \/ (\E r \in Rows : TradeEnds(r))
           \/ (\E k \in Requests : SaveCanceled(k))
  PROVE  IInv' /\ Monotone /\ Activates
<1> USE DEF PayOtherwise, TradeEnds, SaveCanceled, orderVars
<1>1. UNCHANGED <<payment, purpose, log, orderPayment, credits, failures>>
  OBVIOUS
<1>2. \A r \in Rows : trade[r] # "WAIT" => trade'[r] = trade[r]
  BY DEF IInv, TypeOK
<1>3. Monotone /\ Activates
  BY <1>1, <1>2 DEF Monotone, Activates, Exists
<1>4. Tables'
  BY DEF Tables, IInv, TypeOK, OrderStatuses, Trades
<1>5. TradesExist'
  BY DEF TradesExist, Exists, IInv, TypeOK
<1>6. EffectsBacked' /\ OpenRowIsLatest'
  BY <1>1, <1>2 DEF EffectsBacked, OpenRowIsLatest, Open, Exists, IInv
<1>7. CASE UNCHANGED req
  <2>1. Promises'
    BY <1>3, <1>7, PromiseKept DEF Promises, IInv
  <2> QED
    BY <1>1, <1>3, <1>4, <1>5, <1>6, <1>7, <2>1 DEF IInv, TypeOK, Tables
<1>8. ASSUME NEW k \in Requests, Finish(k)
      PROVE  IInv'
  <2>1. Moves(k, Idle) /\ Promise(Idle)'
    BY <1>8, FinishShape
  <2>2. failures' \in 0..MaxFailures
    BY <1>1 DEF IInv, TypeOK
  <2> QED
    BY <1>3, <1>4, <1>5, <1>6, <2>1, <2>2, RequestKeepsIInv
<1> QED
  BY <1>3, <1>7, <1>8

-----------------------------------------------------------------------------
LEMMA InitIInv ==
  ASSUME Init
  PROVE  IInv
<1> USE DEF Init
<1>1. TypeOK
  BY IdleShape, BoundAssumption
     DEF TypeOK, PaymentStatuses, Trades, LogStates, OrderStatuses, OrderPaymentStatuses
<1>2. TradesExist /\ EffectsBacked /\ OpenRowIsLatest
  BY DEF TradesExist, EffectsBacked, OpenRowIsLatest, Open, Exists
<1>3. Promises
  BY IdleShape DEF Promises, Promise
<1> QED
  BY <1>1, <1>2, <1>3 DEF IInv

LEMMA NextIInv ==
  ASSUME IInv, [Next]_vars
  PROVE  IInv' /\ Monotone /\ Activates
<1>1. CASE UNCHANGED vars
  <2>1. Monotone /\ Activates
    BY <1>1 DEF vars, orderVars, Monotone, Activates, Exists
  <2>2. IInv'
    BY <1>1 DEF vars, orderVars, IInv, TypeOK, TradesExist, EffectsBacked,
                OpenRowIsLatest, Open, Promises, Promise, Exists
  <2> QED
    BY <2>1, <2>2
<1>2. ASSUME NEW k \in Requests, Progress(k)
      PROVE  IInv' /\ Monotone /\ Activates
  BY <1>2, QueryTradeStep, SaveClosedStep, SettleOrderStep, SettleRechargeStep,
     LookupRecordStep, CreditStep, FailureSteps, OutsideSteps
     DEF Progress
<1>3. ASSUME NEW r \in Rows, Redeliver(r)
      PROVE  IInv' /\ Monotone /\ Activates
  BY <1>3, NotifyStep DEF Redeliver
<1> QED
  BY <1>1, <1>2, <1>3, RefreshStep, ReadCancelStep, FailureSteps, CreateSteps,
     OutsideSteps
     DEF Next

THEOREM Invariance == Spec => []IInv
<1>1. Init => IInv
  BY InitIInv
<1>2. IInv /\ [Next]_vars => IInv'
  BY NextIInv
<1> QED
  BY <1>1, <1>2, PTL DEF Spec

\* The tables and the requests keep their shape, however many requests overlap.
THEOREM TypeCorrect == Spec => []TypeOK
BY Invariance, PTL DEF IInv

\* No order and no balance moves by money that Alipay did not receive, and a
\* row of an order that waits for its money is the order's newest one, so the
\* status query does not lose it, for any number of rows, callbacks, queries,
\* exceptions and crashes.
THEOREM TradesMatchEffects == Spec => []TradesMatch
<1>1. IInv => TradesMatch
  BY DEF IInv, TradesMatch
<1> QED
  BY <1>1, Invariance, PTL

\* A settled payment is never undone by an expiry or a stale trade query, and
\* the step that settles an order's payment leaves the order running.
THEOREM SettlementIsFinal == Spec => SettlementFinal
<1>1. IInv /\ [Next]_vars =>
        [\A r \in Rows : payment[r] = "PAID" => payment'[r] = "PAID"]_vars
  BY NextIInv DEF Monotone
<1>2. IInv /\ [Next]_vars =>
        [\A r \in Rows :
           payment[r] # "PAID" /\ payment'[r] = "PAID" /\ purpose[r] = "ORDER" =>
             order' = "IN_PROGRESS" /\ orderPayment' = "CONFIRMED"]_vars
  BY NextIInv DEF Activates
<1> QED
  BY <1>1, <1>2, Invariance, PTL
  DEF Spec, SettlementFinal, PaidStaysPaid, PaymentActivatesOrder

-----------------------------------------------------------------------------
(* One credit per payment, when requests do not overlap.                    *)

\* A request past its lookup still finds no record when it writes one.
LookupHolds == \A k \in Requests : req[k].pc = "credit" => credits[req[k].row] = 0

\* The balance moves in Credit alone, and only a lookup leads there.
LEMMA CreditSteps ==
  ASSUME IInv, [Next]_vars
  PROVE  \/ \E k \in Requests : Credit(k)
         \/ /\ UNCHANGED credits
            /\ \A k \in Requests : req'[k].pc = "credit" =>
                 \/ req[k].pc = "credit" /\ req'[k].row = req[k].row
                 \/ credits[req[k].row] = 0 /\ req'[k].row = req[k].row
<1> DEFINE Kept ==
      /\ UNCHANGED credits
      /\ \A k \in Requests : req'[k].pc = "credit" =>
           \/ req[k].pc = "credit" /\ req'[k].row = req[k].row
           \/ credits[req[k].row] = 0 /\ req'[k].row = req[k].row
<1>0. req \in [Requests -> Request] /\ credits \in [Rows -> Nat]
  BY DEF IInv, TypeOK
<1>1. ASSUME NEW k \in Requests, UNCHANGED credits, Finish(k)
      PROVE  Kept
  BY <1>0, <1>1 DEF Finish, Idle
<1>2. ASSUME NEW k \in Requests, UNCHANGED credits,
             NEW pc \in Steps \ {"credit"}, Goto(k, pc)
      PROVE  Kept
  BY <1>0, <1>2 DEF Goto, Request
<1>3. ASSUME NEW k \in Requests, UNCHANGED credits, NEW r, NEW n,
             NEW pc \in Steps \ {"credit"}, Start(k, pc, r, n)
      PROVE  Kept
  BY <1>0, <1>3 DEF Start
<1>4. ASSUME UNCHANGED <<credits, req>> PROVE Kept
  BY <1>4
<1>5. {"settle", "close", "lookup", "reopen", "query", "cancel"} \subseteq
        Steps \ {"credit"}
  BY DEF Steps
<1>6. ASSUME NEW k \in Requests, LookupRecord(k) PROVE Kept
  <2>1. CASE Finish(k)
    BY <1>1, <1>6, <2>1 DEF LookupRecord
  <2>2. CASE credits[req[k].row] = 0 /\ Goto(k, "credit")
    BY <1>0, <1>6, <2>2 DEF LookupRecord, Goto, Request
  <2>3. req[k].row \in Rows
    BY <1>6, Standing DEF LookupRecord
  <2> QED
    BY <1>0, <1>6, <2>1, <2>2, <2>3 DEF LookupRecord, Recorded
<1> HIDE DEF Kept
<1>7. ASSUME NEW k \in Requests, Progress(k), ~Credit(k) PROVE Kept
  BY <1>1, <1>2, <1>5, <1>6, <1>7
  DEF Progress, QueryTrade, SaveClosed, SettleOrder, SettleRecharge,
      FailNotification, SaveCanceled
<1>8. ASSUME NEW k \in Requests, Throw(k) \/ Crash(k) PROVE Kept
  BY <1>1, <1>2, <1>5, <1>8 DEF Throw, Crash
<1>9. ASSUME NEW k \in Requests,
             \/ ReadCancel(k)
             \/ \E r \in Rows : RefreshFromAlipay(k, r)
             \/ \E r \in Rows, n \in NotifyIds : Notify(k, r, n)
      PROVE  Kept
  BY <1>3, <1>5, <1>9 DEF ReadCancel, RefreshFromAlipay, Notify
<1>10. ASSUME \/ CreateAlipayPayment \/ CreateRechargePayment \/ PayOtherwise
              \/ (\E r \in Rows : TradeEnds(r)) \/ UNCHANGED vars
       PROVE  Kept
  BY <1>4, <1>10 DEF CreateAlipayPayment, CreateRechargePayment, Insert,
     PayOtherwise, TradeEnds, vars
<1>11. ASSUME NEW r \in Rows, Redeliver(r) PROVE Kept
  BY <1>9, <1>11 DEF Redeliver
<1>12. Kept \/ \E k \in Requests : Credit(k)
  BY <1>7, <1>8, <1>9, <1>10, <1>11 DEF Next
<1> QED
  BY <1>12 DEF Kept

\* One Alipay payment is added to the balance once when no two requests
\* overlap, however often it is notified, queried, opened again after an
\* exception or left behind by a crash: BalanceService.recharge looks for its
\* record before it writes one.  Two overlapping callbacks can both look first.
THEOREM OneCreditPerPayment ==
  ASSUME \A j, k \in Requests : j = k
  PROVE  Spec => []CreditedOnce
<1>1. Init => LookupHolds /\ CreditedOnce
  BY DEF Init, Idle, LookupHolds, CreditedOnce
<1>2. IInv /\ LookupHolds /\ CreditedOnce /\ [Next]_vars =>
        LookupHolds' /\ CreditedOnce'
  <2> SUFFICES ASSUME IInv, LookupHolds, CreditedOnce, [Next]_vars
               PROVE  LookupHolds' /\ CreditedOnce'
    OBVIOUS
  <2>1. TypeOK
    BY DEF IInv
  <2>2. CASE \E k \in Requests : Credit(k)
    <3>1. PICK k \in Requests : Credit(k)
      BY <2>2
    <3>2. /\ req[k].row \in Rows /\ credits[req[k].row] = 0
          /\ credits \in [Rows -> Nat] /\ req \in [Requests -> Request]
          /\ credits' = [credits EXCEPT ![req[k].row] = @ + 1]
          /\ req' = [req EXCEPT ![k] = Idle]
      BY <2>1, <3>1, Standing DEF Credit, LookupHolds, TypeOK, Finish
    <3>3. CreditedOnce'
      BY <3>2 DEF CreditedOnce
    <3>4. \A j \in Requests : req'[j].pc = "idle"
      BY <3>2 DEF Idle
    <3> QED
      BY <3>3, <3>4 DEF LookupHolds
  <2> QED
    BY <2>1, <2>2, CreditSteps DEF LookupHolds, CreditedOnce
<1> QED
  BY <1>1, <1>2, Invariance, PTL DEF Spec
=============================================================================
