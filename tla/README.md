# CSI marketplace: TLA+ models, checks and proofs

The repository is a marketplace where clients publish tasks, agents and
workspaces bid for them, and money moves through wallets, escrow and payouts.
Its back end (`src/backend/src`, NestJS over PostgreSQL) holds nearly all of the
system's logic. This directory models the parts that handle money, contracts and
promised deliveries: the wallet, the two ways to top it up, the payment of orders,
short tasks from bid to payout, long tasks from bid to settlement and dispute, the
quotas of subscriptions, and the outboxes. Paths below are relative to
`src/backend/src` unless they start with `docs/`.

What makes this code hard to test is always the same thing. Handlers are
asynchronous functions that load a row, await other calls and then save the copy
they loaded; two instances run against one database (comment in
`longtask/contract/deadline-scanner.cron.ts`), callbacks are delivered more than
once, cron ticks overlap, and only a few blocks are transactions with row locks.
So the models keep every await between two database calls as a place where others
run, and every `repository.save(copy)` as a write of the whole, possibly stale,
copy.

## 1. Inventory

| Component | State | Operations | Talks to |
|---|---|---|---|
| Wallet (`payment/balance.service.ts`) | `user_balances`, `balance_records`, `withdrawals` | getOrCreateBalance, addIncome, payFromBalance, requestWithdrawal, reviewWithdrawal with the automatic Alipay transfer, completeWithdrawal, recharge | called by every other money component; Alipay transfer |
| Recharge orders (`payment/recharge.service.ts`) | `recharge_orders`, `payment_notifications` | createRecharge, getRechargeStatus, refreshFromAlipay, settleRecharge, the RCH branch of the callback | Alipay callbacks and queries; wallet |
| Alipay payments (`payment/online-payment.service.ts`) | `payments`, notification log, `order_payments` | createAlipayPayment, createRechargePayment, getAlipayPaymentStatus, handleAlipayNotification, settleSuccessfulPayment, failNotification | Alipay; orders; wallet |
| Order payments (`payment/payment.service.ts`) | `order_payments`, payouts, payment codes | createOrderPayment, payWithBalance and its refund, confirmPayment(Received), payouts | wallet, orders |
| Orders (`orders/orders.service.ts`) | `orders`, `deliveries`, acceptance checklist, arbitrations | pay, deliver, accept, reject, release, cancel, arbitration | wallet (income), `execution`, `mcp` (both set the status) |
| Outboxes (`longtask/contract/webhook-dispatcher.*`, `wechat/notification-dispatcher.*`, `admin/dlq-admin.controller.ts`) | `webhook_outbox`, `notification_outbox` | enqueue, processDue every 10 s, dead letters, replay | Console, WeChat; fed by the whole long-task part |
| Short tasks and bids (`tasks`, `bids`) | tasks, bids | publish, bid, expire, select, withdraw, close | creates orders |
| Long tasks: tasks, bids, selection (`longtask/marketplace-tasks`, `marketplace-bids`) | tasks with seats, round and lock; bids | submit, select, reject all, 72 h time-out | creates long-task orders, webhooks |
| Long tasks: contract (`longtask/marketplace-orders`) | orders with contract, payment and settlement status; spec changes, deliveries, negotiations, cancellations | spec submit / confirm / reject, escrow, deliver, review, auto-accept, revise, cancel | wallet, webhooks, scanner |
| Long tasks: settlement and disputes (`longtask/settlements`, `disputes`) | settlements, disputes | trigger, write-back with payout, appeal period, evidence, resolution | wallet, webhooks, scanner |
| Deadline scanner (`longtask/contract/deadline-scanner.cron.ts`) | advisory lock, running flag | eight scans and a registry check per tick | all long-task services |
| Entitlement (`entitlement`) | subscriptions, quota periods, credit holds | freeze, settle, refund, usage, upgrade, downgrade | LLM proxy |
| MCP, agents, execution, gateway, LLM proxy, webhooks, realtime, users, admin | tool invocations, agents, logs, keys, channels | mostly CRUD and forwarding | the services above |
| Front ends, `genesis-agent`, `openclaw-*`, `k8s`, `scripts`, `docs` | none the back end relies on | | call the back end |

What makes the components correct, and what endangers it:

* **Wallet.** Money is neither made nor lost; the frozen amount is what pending
  withdrawals hold; a review is decided once; money leaves only for approved
  withdrawals. Endangered by the part of `reviewWithdrawal` that runs after its
  commit and by `completeWithdrawal`, which save stale copies.
* **Recharges and payments.** What Alipay received takes effect, once, and
  nothing else does. Endangered by duplicated and concurrent callbacks, trade
  queries that race them, expiry after 15 minutes, exceptions and crashes between
  the settlement and the credit.
* **Orders.** Work and payout are backed by money; a payout happens once; the
  client reviews the current delivery; a canceled order holds no money of the client. Endangered
  by unlocked load-check-save handlers, by settlements of Alipay between a load and a save,
  and by compensation that may itself fail.
* **Outboxes.** A message that was taken on is delivered or given up for a reason,
  and every message is settled. Endangered by overlapping ticks with stale copies.
* **Short tasks.** A task ends in one order, for the bid that is accepted, at the
  price the bid shows; closed tasks leave no bid waiting, expired bids go. Endangered by
  `selectBid`, four saves without a lock, and by `updateTask`, bid updates and the expiry
  scan, which save what they loaded.
* **Long tasks: bidding.** Seats, deadline and bids agree; a task has one contract;
  a full round is decided. Endangered by the seat counter in a loaded copy, selections that
  overlap or stop between two saves, and the 72 h scan.
* **Long tasks: contract.** A contract has its specification, its deadline runs while
  the employer decides, escrow agrees with the paid mark, decisions are final. Endangered
  by seven operations that save the whole order row, and by their partial failures.
* **Long tasks: delivery.** What is accepted can be settled, silence accepts only what
  earned it, limits lead to a negotiation, and silence leads to an end.
* **Long tasks: settlement and disputes.** The owner is paid before the settlement says
  so, and once; disputes move forward and end. Endangered by the write-back, which reads
  the status without a lock, pays, and saves.
* **Entitlement.** No more is charged than was used or than there is; a hold is billed
  once; periods, pending plans and the free grant come when they should. Endangered by
  `ensureCurrentPeriod`, which re-saves the period that it read.
* **Not modelled.** One tool call per idempotency key, the inbound filter of webhooks,
  retries of the short tasks' webhooks (section 6).

`PROJECT.json` lists every component with its status, and the hazards at their lines.

## 2. Modules and their relation to the code

| Module | Models | State and actions |
|---|---|---|
| `Balance` | `payment/balance.service.ts` without `recharge` | `balance`, `records`, `withdrawal` are the tables; `tail` is what a committed `reviewWithdrawal` still has to do, with its copy; `completing` is a row that `completeWithdrawal` has read. A transaction with `pessimistic_write` is one action |
| `Wallet` | what `Balance` promises the owner of a wallet | abstract: amounts are earned, spent, asked for, granted or refused, and leave |
| `Recharge` | `payment/recharge.service.ts`, RCH callback | `status`, `log` are tables, `trade` is Alipay's side; each request in `req` is a small state machine, one step per await |
| `OnlinePayment` | `payment/online-payment.service.ts`, `BalanceService.recharge` | `payment`, `purpose`, `log`, `order`, `orderPayment`; the settlement is one transaction, the credit follows behind an unlocked lookup |
| `Orders` | `orders/orders.service.ts`, `payment/payment.service.ts`, retryExecution, the RUNNING report | one `order` row with its deliveries; each request in `req` carries the copy it loaded (`Load`) and writes it back (`Save`) |
| `Escrow` | what `Orders` promises client and owner | abstract: the deal is funded, or paid from outside, or canceled; reviewed, arbitrated, released |
| `Bidding` | `tasks/tasks.service.ts` (updateTask, closeTask, selectBid), `bids/bids.service.ts` | one `task`, its `bids` and the `orders` made from them; an operation in `req` has the copy it will save, the scan a list of copies |
| `LongTaskBidding` | `longtask/marketplace-bids`, the reopening in `marketplace-tasks` | `task` (round, seats, lock), `bids` and `orders` per round and workspace; submit saves the seat, then inserts the bid; select, reject-all and the 72 h scan save row by row |
| `LongTaskContract` | `spec-contract`, `spec-change`, `marketplace-orders` and `cancel-skeleton` services | the `order` row, its `changes`, the `escrow` held in the wallet, the task behind it; each operation in `req` saves the copy it loaded |
| `LongTaskDelivery` | `delivery-contract`, `revision-negotiation` services and their scans | `order`, `deliveries`, `negotiations`; a pass of the scan holds the lists it loaded and goes through them row by row |
| `LongTaskSettlement` | `settlements.service.ts`, `disputes.service.ts` and their scans | `settlement`, `payouts`, `disputes` and the two columns of the order that the settlement reads |
| `Entitlement` | `entitlement/entitlement.service.ts` | subscriptions, periods, the free grant, holds and usage records; conditional updates and transactions are one step, the re-saved period is a stale copy |
| `AtLeastOnce` | the promise of an outbox | abstract: messages are taken on, tried, settled |
| `Outbox` | the two dispatchers and the replay | `row` are both tables, `tick` are processDue calls in progress with the copies they loaded |
| `MC*` | | constants, symmetry and operation sets for TLC |
| `*Proofs` | | theorems; each extends its component and TLAPS. `MoneyProofs` is about `Balance`, `Recharge` and `LongTaskSettlement`, in three parts, `OrdersProofs` about `Orders` and `Bidding`; the others are named after their one component |

Some definitions (named in each module's header) are faulty variants such as
a dropped guard. No specification uses them; they are put in place of the real
definition to see that a property notices the fault.

The six modules of short tasks, long tasks and entitlement share one frame. `Begin`
starts an operation with the rows it loaded, one action per save follows, `Stop` ends it
early (an exception or a stop of the process). Two counters, or one, record what disturbs:
operations that began while another one was under way, and those that ended early. A
property then says for which disturbances it holds: in every interleaving, up to
the first overlap, or undisturbed; where it says less than "every", the disagreement it
leaves out is in section 5. `Orders` has the same counter, and counts the starts that bypass
the payment too. These helpers (`At`, `Free`, `Quiet`, `Begin`, `Stop` and the like) stand for no line of the code, and
the `map` of `PROJECT.json` does not list them.

How they connect: `Bidding` creates the order that `Orders` starts from, `Orders` charges and
pays the wallet of `Balance`, `Recharge` and `OnlinePayment` fill it; `LongTaskBidding` creates
the order of `LongTaskContract`, `LongTaskDelivery` works on it when it is signed, and
`LongTaskSettlement` when it is accepted; all of the latter enqueue rows of `Outbox`.
Each module has what it needs of a neighbour as an action or a nondeterministic value (an order
saved by "another operation", a wallet with room for some charges).

Common abstractions. Amounts are small integers, or multiples of the order's
amount in `Orders`. Time is an event that may or may not have happened (an order
older than 15 minutes, a back-off that ended, a deadline that is set), or a clock of a few
steps where expiry is compared (`Bidding`, `Entitlement`). The loads a handler makes before its
first write are one step. `findOne` with a pessimistic lock is taken to lock the
row it names. `save` is taken to write every column of its copy in one step (TypeORM
compares with the stored row first and writes the columns that differ; a save that
runs between these two statements of another one is not modelled). A save that throws is taken not to have
written: one that was committed although its reply was lost is not modelled (in `payWithBalance`,
`payment.service.ts:395`, such a save of the order would be refunded while the order runs). Signatures,
parsing, URLs, audit logs and formatting are left out.

## 3. Runs

| Run | Instance | What it shows |
|---|---|---|
| `balance` | 2 users, 2 withdrawals, amounts 0-2, automatic transfer on | the wallet accounts for its money and its frozen amounts through concurrent reviews, completions, transfers with late answers and crashes (`MoneyAccounted`, `FrozenBacksPending`); a review is decided once; the tables implement `Wallet` (`ImplementsWallet`) |
| `recharge` | 2 rows, 2 notify ids, 2 requests, expiry, 1 failure, fair | credits are backed, and made once until a row outlives 15 minutes (`CreditsMatch`); "success" is only answered for money in or on its way; what is paid reaches the balance unless a request died |
| `online` | 2 rows, 2 notify ids, 2 requests, one exception, crashes | every effect has its trade, and the row of an order that still waits is the newest, the only one whose trade is queried (`TradesMatch`); settlement is final and starts the order (`SettlementFinal`) |
| `online_fair` | 2 rows, 1 request, 2 exceptions, no crash, fair | every paid trade takes effect after exceptions, once when requests do not overlap |
| `orders` | 2 requests of any kind, 3 deliveries, arbitration, 2 disturbances | work is always backed by money or a recorded start (`EscrowBacked`); undisturbed there is one payout, a canceled order has no charge of the wallet and was started by nobody but Alipay, and the reviewed delivery is the current one; undisturbed, the order implements `Escrow` (`HonoursEscrow`) |
| `bidding` | 2 bids, 2 prices, 2 requests, the scan, 1 disturbance, fair | `OneSelection`, `AcceptedIsOrdered`, `BidsEnd` |
| `outbox` | 1 webhook, 1 notification, 2 overlapping ticks, 3 attempts, 2 replays, 1 stop, fair | the outbox implements `AtLeastOnce` and settles every webhook |
| `longtask_bidding` | 3 workspaces, 2 seats, 2 rounds, 2 requests, 1 overlap, 1 failure, fair | `SeatsCounted`, `OneContract`, `SelectionComplete`, `FullRoundDecided` |
| `longtask_contract` | 2 requests and the scan, 1 change, limit of 2 rejections and a third beyond it, wallet of 2, 1 overlap, failures, fair | `ContractSound`, `EscrowRecorded`, `CountersAct`, `ContractFinal`, `SilenceEnds` |
| `longtask_delivery` | an order with or without an employer, 1 request and the scan, 2 deliveries, 1 negotiation, 2 revisions, 1 reminder day before a deadline of 2 days, 1 disturbance, fair | `AcceptanceSound`, `AppealGrounded`, `LimitNegotiates`, `DecidedOnce`, `ScanDecides` |
| `longtask_settlement` | 2 disputes, 2 closings, 1 disturbance, fair | `PaidAsSettled`, `DisputesSound`, `ScanCloses` |
| `entitlement` | 2 requests, 2 plans (quota 0 and 1), 1 hold of estimate 1, 2 subscriptions, 2 period rows, 2 units of use, a period of 2 ticks, grant and clock of 3, 1 disturbance | `ChargesSound`, `BilledOnce`, `QuotaGiven` |

Each property is a conjunction of named parts where several facts are about one thing (for
instance `PaidAsSettled` of `SettledIsPaid` and `PaidOnce`); the comment before it
says what each part means and under which disturbances it holds.

Why the bounds suffice to see the interesting cases. Every interference found in
this code is between two operations on one row, and every stale copy needs one other
writer; two requests (and the scan) and two rows, where an operation chooses among rows, give
all of these. One disturbance is one overlap, of any two operations at any of their
steps, or one stop at any step; repeated use of a faulty state is in the instance because
operations without overlap are not bounded. Two notify ids are what Alipay uses for
TRADE_SUCCESS and TRADE_FINISHED; each may be repeated without limit. `MaxCredits`,
`MaxPaidOut`, `MaxFailures`, `MaxRejections`, `MaxReplays`, `MaxStops`, `MaxClosings`, `MaxVersion` and `MaxUsage`
stop a counter just beyond the value at which a property would fail. Three workspaces for two
seats let a bid come when a round is full; two rounds have one that was reopened. The delivery run has one
request beside the scan: the scan overlaps it at every step, and two requests that
overlap each other are left to the proof of `AcceptanceSound`. Two period rows let a subscription
roll once, at the very end of its period or after it; two rolls that overlap would insert a third,
for which the run has no room (that they give the quota out twice is in section 5). Rows of the outbox
are independent of each other, so one webhook is enough; a copy is stale in a tick of one
row too, because a tick may wait before a send. The proofs below remove the
bounds for the safety properties they cover.

Deadlock is not checked: a request that ended and a settled row legitimately leave
nothing to do, and the bounds end behaviours as well.

Fairness. An operation under way runs on (Node runs its continuation): weak
fairness of its next step. `Recharge` and `OnlinePayment` also assume that Alipay redelivers a
callback that was not answered with "success" (strong, because the request slot it needs
comes and goes); the buyer's payment is not assumed. The scans are cron jobs, every 5
minutes (bids, deadlines) or 10 seconds (outboxes): strong fairness of their start,
because an operation under way can make the start count as an overlap, for which the bound may be
used up. That each scan of `deadline-scanner.cron.ts` runs in every pass supposes that no
earlier one of the pass keeps throwing: all eight are in one try block. No fairness of
sends, employers, owners or new requests.

## 4. Proofs

All theorems hold for every value of the constants that meets the named
assumptions: any number of users, rows, requests, deliveries, disputes, dispatchers,
disturbances and limits. An invariant of section 3 is seldom inductive; the
strengthenings say what an operation may still rely on after it waited.

* `MoneyProofs`, on the wallet. Invariant: type, `Conservation`, `PayoutOnlyApproved` and
  `InFlight`, which says that every request that will still save a withdrawal saves an
  approved one. Theorems `TypeCorrect`, `MoneyIsAccounted`, `DecidedOnce`. `FrozenIsPending`
  compares a column with a sum over the rows, which is a fold of the community modules. What such a sum
  does when one row changes is an induction over finite sets; since no theorem of induction can be
  used here, it is made by taking a smallest set for which the claim fails (`MinimalSet`), which
  set theory and arithmetic refute. `Backing` adds to the invariant that only finitely many rows are filed at a time.
* `MoneyProofs`, on the wallet as a `Wallet` (`ImplementsTheWallet`). The mapping takes the available column and, of
  each withdrawal row, its user, its amount and the decision; a row that says COMPLETED is an approved claim, and a
  claim has left when a payout of it was made. So the late save of a transfer, which
  may put COMPLETED back to APPROVED, a crash and the completion by hand are stutters or `Leave`, and
  this needs `InFlight`: a late save of a rejected row would decide a claim twice. `Wallet` also says what no invariant of the
  run does: the refused amount goes back to the user who asked, and to no other.
* `OnlinePaymentProofs`. `Promise` says what each step may rely on, `Monotone`
  what no step undoes; together they give `TypeCorrect`, `TradesMatchEffects` and the
  action properties in `SettlementIsFinal`. That the row that waits is the newest of its order rests on the lock of the
  order: a row is only added when no other one waits. `OneCreditPerPayment` has the hypothesis that there is one
  request, as `CreditedOnce` is checked: the lookup of an earlier credit and the credit are two steps, and the
  lemma is that nothing happens between them.
* `MoneyProofs`, on the recharge orders. `Paying`: a request that settles or credits
  does so for a paid trade; while no row is old, the row lock of `settleRecharge` lets one request
  through and a FAILED save only hits trades that Alipay closed. `RechargeTypeCorrect`,
  `CreditsMatchPayments`. `AcknowledgedIsCredited` needs to know in addition that a notification is
  marked as processed only by a request that met a settled row, and that a settled row was credited, is
  about to be, or lost its request.
* `OrdersProofs`, on the order. `WorkIsFunded` counts: a `payWithBalance` request holds one charge
  from its deduction until it ends (`Holders`), the charges are never fewer than the
  holders, and as soon as the order leaves the unpaid statuses, or a request has loaded
  it so, there are more charges than holders or a recorded start (`Funded`), so no refund takes away
  the last one. It uses the library's facts on cardinalities. `MoneyFollows` and `ReviewsAreCurrent` hold while
  `disturbed = 0`. Then one request is under way (`Single`), and `Sound` describes the rows as they are at each of its
  steps: where the order stands and that its copy is the row (`Stage`), what was charged and paid out so far (`Money`), which
  delivery is under review (`Review`). `MoneyFollows` speaks of the wallet: a settlement of Alipay may come between
  the load and the save of a cancellation, so a canceled order at rest has no start other than that one.
* `OrdersProofs`, on the order as an `Escrow` (`ImplementsEscrow`). The parties see a charge when the order is
  started, not when the wallet is debited, and the income when the order is completed, so
  the mapping (`Deal*`) gives back what the step under way has moved. From the first disturbance on the deal is
  VOID, a step `Escrow` allows at any time, and nothing more is claimed. `StandsInv` adds to `Single` and `Sound` at which
  status of the row each step stands: all requests find the row as their copy, except that Alipay, which locks
  the row, may settle in between; that is why `Escrow` lets a payment from outside start a
  canceled order, and lets a cancellation under way overtake one.
* `OrdersProofs`, on the task and its bids. `BiddingTypeCorrect`. `AcceptedHasOrder` holds in every interleaving: a
  selection that will still save its bid as accepted has inserted the order with the price of its copy, orders
  are never removed, and no other operation saves a bid as accepted (`BidInv`). `OneBidSelected` is about operations
  one at a time (`BidAlone`); `SelectionSound` says how task, bids and orders stand before each of their
  saves.
* `OutboxProofs`. `Truthful` and `Counted`: what an answer says of its message
  happened, and neither a row nor a loaded copy counts more failures than there were sends.
  From these `TypeCorrect`, `AttemptsLeft` and `Implements`: every behaviour of
  `Outbox` is one of `AtLeastOnce` under the refinement mapping that maps a row to its
  status and a limit to `MaxAttempts`.
* `LongTaskBiddingProofs`. `NoSeatInvented` asks two things of the row and of every copy still to be
  saved (`OpSound`): the flag of a full round agrees with the counter, and the counter is at most the
  seats accounted for (bids, inserts under way, inserts that failed), a number that never falls, so that no order
  of saves matters. `OneContractAtATime` and `SelectionIsComplete` need the operation in turn: its copy
  is the row, and its step says which of the facts on bids and orders wait for its next saves.
* `LongTaskContractProofs`, `LongTaskDeliveryProofs`, and `MoneyProofs` on the settlement. What holds
  of a row in every interleaving is asked of every loaded copy as well, with what
  the operation checked when it loaded (`OpSound`); then no order of saves breaks the row:
  `ContractIsSound`, `AcceptanceIsSound`, and the invariant half of `DisputesAreSound`. What
  holds up to the first overlap needs `Serial`: while `overlaps = 0` one operation is
  under way and its copy is the row. That gives the action properties `DecisionIsFinal`,
  `FirstDecisionStands` and the other half of `DisputesAreSound`. `PaymentPrecedesStatus`
  needs in addition that the payout precedes the saved status and the status the mark on the
  order (`Paid`, `Done`), and a ledger (`Ledger`) of the payouts that were made and the one
  the operation under way still owes; before the first closing it leaves one. The ledger of the
  contract gives `EscrowIsRecorded` and `CountersTakeEffect`: what the operation under way has charged, counted or
  confirmed and not yet saved. `AppealHasGrounds` needs that an operation that will save an appeal has its
  grounds in the rows already and that one that will save none has not yet taken them in (`GInv`).
  `LimitHasNegotiation` has the hypothesis that the bound on negotiations admits one.
  `AcceptanceIsSound` has a part for every interleaving, that the reminders which a row or a copy records were sent
  (`KInv`), and one for operations one at a time, that the list of the scan is the rows as they are, so that its save
  of `auto_accepted` meets a row whose gates passed and are still passed (`FInv`).
* `EntitlementProofs`. `ChargeIsRecorded` cannot be had from the rows, because a stale save puts an old
  count of the used tokens back into a period. The invariant says that there is a ledger, an assignment
  of charges to periods, that bounds what each row and each copy still to be saved says was used, and
  that stays within the recorded usage together with the free grant; a save moves a row below its entry
  and a charge raises both. The equality without overlap, `BillIsSentOnce` and `QuotaIsGiven` follow
  the operation in turn (`Serial`, `Turn`): what it loaded is still so, and where it stands says what it still owes.
  A period row that is in force at its very last instant, when its subscription has already been rolled, is no second
  row of the new period: the invariant keeps the ends of the rows of a subscription at or before its own.
  The sums over periods are treated as in `MoneyProofs`. Two assumptions on the constants make the theorem
  possible: periods are numbered, because a new row gets the least free number, and there is a plan.

Only model-checked: liveness, which is out of the prover's reach (`PaidIsCredited`,
`PaidTakesEffect`, `WebhookSettles`, `BidsEnd`, `FullRoundDecided`, `SilenceEnds`, `ScanDecides`,
`ScanCloses`). Every invariant, every action property and every refinement that a run checks is a theorem, two
of them (`OneCreditPerPayment`, `LimitHasNegotiation`) under a hypothesis the run meets.

## 5. Disagreements between the code and what it says

Met while modelling; the runs above say where a property stops because of one.

Money of short tasks:

* `getRechargeStatus` and `createRecharge` save FAILED from a copy read before a callback
  settled the row; the next callback finds the row unsettled and credits again.
  `recharge.service.ts:155` promises that repeated callbacks return. `CreditsMatch`
  therefore counts only until a row is older than 15 minutes.
* `BalanceService.recharge` looks for an earlier record outside its transaction, so
  concurrent callbacks both credit. Its comment promises once.
* `payWithBalance` refunds when the order cannot be saved, but leaves the order payment
  PAID. Its comment promises that balance and order agree.
* A recharge row is committed as PAID before `addIncome` runs in its own transaction; if
  the process stops or `addIncome` throws in between, every later callback returns early
  and the money is never credited (`recharge.service.ts:166`). In the same way a crash between
  the settlement and the credit of a recharge kept in `payments` is repaired only by a
  callback under another notify id.
* A withdrawal that an admin completes while the automatic transfer is running goes
  back from COMPLETED to APPROVED when the transfer then fails (`balance.service.ts:467`;
  `docs/payment-system-prd.md:224` ends the flow with COMPLETED). When the call times out after
  the money moved, the row asks for an offline payment (line 456).
* Two payments of one order that overlap both take the money (`payment.service.ts:372`); two
  rows of one order, each expired or not, can be paid, and the second settlement keeps its amount and moves nothing
  (`online-payment.service.ts:119` marks a row FAILED and leaves its trade open at Alipay, line 124 makes the next one);
  `release` swallows an exception of `addIncome` and completes the order unpaid
  (`orders.service.ts:665`).
* "Only pending payment orders can be canceled" (`orders.service.ts:830`): `cancel` saves a copy that it loaded as
  pending (line 841). When Alipay settles the order in between, under a lock that `cancel` does not ask for, CANCELED is
  written over the settled order and the client's money stays taken, without a refund. `MoneyFollowsStatus` therefore
  speaks of the wallet only, and `Escrow` lets such a cancellation overtake the payment.
* `confirmPayment` looks at the order payment alone. After `pay`, which leaves it
  PENDING, a confirmation puts a completed order back to work, and it can be delivered, accepted
  and paid out again. `MoneyFollowsStatus` counts `pay` as a bypass for this reason.

Outboxes:

* Notifications are enqueued with `nextAttemptAt = null` and the job selects
  `nextAttemptAt <= now` (`notification-dispatcher.service.ts:140`): they are never sent,
  while its comment says that the job consumes pending ones.
* `processDue` saves a dead letter a second time after the alert call, so a replay
  in between is undone; and of the five back-offs the last (1 h) is never waited for.

Bids and selection:

* `docs/longtask-platform-implementation-plan.md:201` asks for a transaction around the seat
  and the bid, and `docs/test-reports/phase-2-bidding-report.md:76` reports it done: the seat is saved
  from a loaded copy before the bid is inserted, so overlapping bids lose a seat and a failed
  insert wastes one.
* `selectBid` of a short task inserts the order first; two selections, or a selection and a
  stale `updateTask` that reopens the task, make two orders. The expiry scan turns an accepted bid
  into an expired one when it had loaded it before.

Long-task contract:

* In `payWithBalance` a failing notification after the saved 'paid' refunds the wallet but
  leaves the row paid (`marketplace-orders.service.ts:162`).
* A change that is confirmed, rejected and confirmed again counts two versions. When the employer
  confirms through `employerConfirm` first, no version is counted. A change confirmed before
  `submitSpec` raises the version in `signing`, and `submitSpec` is refused from then on.
* A second `initiateCancel` violates a unique constraint; `respond`, `autoResolve`, `finalize`
  and `toDispute` check no status (`cancel-skeleton.service.ts:120`). `employerAction` has no limit either (`spec-contract.service.ts:651`): the third and
  every later rejection calls `initiateCancel` again, which throws after the rejection was saved.
* A `payWithBalance` or `applyProjectId` that overlaps a submission undoes it; a late
  answer of the employer and the time-out scan overwrite each other.

Delivery and settlement:

* The comment at `delivery-contract.service.ts:138` says that the clock stands still during a
  revision: an older submitted delivery is accepted by silence all the same.
* The comment at `delivery-contract.service.ts:29` promises acceptance by silence only for a delivery whose gates all
  passed. The scan tests the gates of the row it loaded and saves the whole row (lines 163-175): a result FALSE that
  `updateGateResult` saved in between (line 271) is overwritten with TRUE, and the delivery is accepted. The last part of
  `AcceptanceSound` therefore stops at the first overlap; only the reminders are checked beyond it.
* "14 天到期 → 自动验收" (line 31): where reminders are required, one that was not recorded in its window of 24 hours
  (`delivery-reminders.ts:12`, and the test "窗口错过不重复触发" of `delivery-reminders.spec.ts:21`) is never sent again. A
  delivery whose order has no employer (line 240 of the service), whose scan did not run on the day, or whose row was not saved
  after the message went out, stays submitted for ever unless somebody reviews it. So does one whose gates never pass,
  as intended. `SilenceAccepts` speaks of the deliveries that have both.
* The comment at `settlements.service.ts:93` says that only the first write-back pays, and the test at
  `settlements.service.spec.ts:128` that a repeated one does not. "First" is tested as status # settled, so every
  write-back after the period of appeal was closed pays once more, as do two that overlap, and one that repeats a write-back
  that stopped after its payout. `PaidAsSettled` says nothing of the number of payouts in these cases.
* The scan closes the period of appeal without regard to open disputes.

Entitlement:

* bigint columns arrive as strings (comment at `entitlement.service.ts:193`), so the total of
  a period always differs from the plan's and is saved again from a stale copy, even by a
  mere query, over a deduction that the comment near line 417 calls atomic. For the same
  reason `=== UNLIMITED` is never true: a plan with -1 ("无限" in the plan's entity) refuses all use. The
  unit tests use numbers and see neither.
* `activate` that stops between the subscription and the grant never issues the grant; two
  that overlap make two subscriptions, two rolls make two periods, two settlements of one hold
  charge twice.
* A call at the very instant periodEnd = now rolls the subscription (`<=`, `entitlement.service.ts:740`), finds the old row
  still in force (`>=`, line 752) and gives it the total of the pending plan, which was to take effect with the next
  period ("下个计费周期生效"); the row of the new period is inserted by a later call.
* `docs/carbon-silicon-longtask-dev-plan.md:33` asks for atomic metering; `recordUsage` ignores that
  its conditional update of the free grant missed, so the free part of a charge may be
  used twice (`ChargesSound` bounds what this can cost).

## 6. Not modelled

* `BalanceService.deductPlatformFee` (its caller never passes a positive fee), identity
  cards, payment codes, proofs of payment as files.
* The payout side of `payment.service.ts`: it waits for the order status ACCEPTED,
  which no code sets.
* The mock checkout, which settles through the same transaction as the callback.
* Exceptions thrown by the refund inside a catch block.
* The inbound side of the webhook dispatcher (a crash between `recordInbound` and the
  handler loses the event, `webhook-dispatcher.service.ts:59`) with the workspace snapshots behind
  it, the noKey duplicate check of notifications (ids are fresh), the alert channel.
* In the long-task part: publishing and editing of tasks, the dispatch of opportunities, webhooks as
  rows (what enqueues them is in the actions, their delivery is `Outbox`), the conversion of a
  cancellation into a dispute, and the try block that joins the eight scans.
* In the short-task part: webhooks that retry inside the process (`webhooks.service.ts`: a restart
  leaves a delivery PENDING for good), matching and ranking scores.
* The idempotency cache of the MCP server, read before and written after the call
  (`mcp-idempotency.service.ts:17`): a retry that arrives before the first call ended runs the tool again.
* The simulated payment orders of the entitlement portal, which have no rule beyond `activate`.
* Pure I/O, CRUD, user interfaces, the language-model agents, deployment and documentation (reasons in
  `PROJECT.json`). Some nine tenths of the repository's lines are of these kinds.

## 7. Plan

Done: the money, the orders on top of it, the delivery promise of the outboxes, both kinds of
bidding, the long-task contract from specification to dispute, the quotas, and the abstract wallet, deal and
outbox with the proofs that the code implements them. What would come next:

1. `Orders` composed with `Wallet`: a charge of one is a `Spend` of the other, an income an `Earn`.
2. The inbound filter with the workspace snapshots.
