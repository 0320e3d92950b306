------------------------------- MODULE Bidding -------------------------------
(***************************************************************************)
(* One short task and its bids: tasks.service.ts (updateTask, closeTask,   *)
(* selectBid) and bids.service.ts (create, update, withdraw and the scan   *)
(* that expires bids every five minutes).                                  *)
(*                                                                         *)
(* Nothing is locked: an operation loads the task or the bid, and later    *)
(* saves all its columns; the loads before its first write are one step.   *)
(* selectBid makes its four writes one by one.  That an agent has one bid  *)
(* per task is checked by a query before the insert and by no constraint,  *)
(* so a bid stands for itself and not for its agent.                       *)
(*                                                                         *)
(* RejectsNobody, AcceptsRow and NeverExpires are faulty variants, used    *)
(* only to show that the properties notice them.                           *)
(***************************************************************************)
EXTENDS Integers, FiniteSets, Sequences

CONSTANTS
    BidRequests,     \* ids of concurrent HTTP and MCP requests; one takes the
                     \* lowest that is free
    Scanner,         \* the scan, one pass at a time
    Bids,            \* bound: ids of the bids of the task, in creation order
    NoBid,           \* an operation that is not about a bid
    Prices,          \* the prices that agents ask
    MaxNow,          \* bound on the clock
    MaxBidDisturbed  \* bound on the operations that begin during another one,
                     \* and on those that end early, together

ASSUME ProcessAssumption == BidRequests \subseteq Nat \ {0} /\ Scanner = 0
ASSUME BidsAssumption == Bids \subseteq Nat \ {0} /\ NoBid = 0
ASSUME PricesAssumption == Prices # {}
ASSUME BoundAssumption == MaxNow \in Nat /\ MaxBidDisturbed \in Nat

VARIABLES
    task,         \* tasks.status
    bids,         \* the rows: status, price, expiresAt
    orders,       \* the orders of the task: bid and price of each
    now,          \* the clock
    bidReq,       \* the operations under way, with what each one loaded
    bidDisturbed  \* operations that began during another one or ended early

biddingVars == <<task, bids, orders, now, bidReq, bidDisturbed>>
rows == <<task, bids, orders, now>>

Processes == BidRequests \cup {Scanner}
TaskStatuses == {"OPEN", "CLOSED"}
BidStatuses == {"none", "submitted", "accepted", "rejected", "expired",
                "withdrawn"}
Times == 1..(MaxNow + 1)
BidRow == [status : BidStatuses, price : Prices, expires : Times]
BidSteps == {"idle", "insert", "save bid", "save task", "close", "order",
             "select", "accept", "reject", "scan"}

NoRow == [status |-> "none", price |-> CHOOSE p \in Prices : TRUE,
          expires |-> MaxNow + 1]
IdleBid == [at |-> "idle", id |-> NoBid, bid |-> NoRow, list |-> {}]

BiddingInit ==
    /\ task = "OPEN"
    /\ bids = [b \in Bids |-> NoRow]
    /\ orders = <<>>
    /\ now = 0
    /\ bidReq = [p \in Processes |-> IdleBid]
    /\ bidDisturbed = 0

BidAt(p, step) == bidReq[p].at = step
Free(p) == bidReq[p] = IdleBid
Quiet == \A p \in Processes : Free(p)
GotoBid(p, step) == bidReq' = [bidReq EXCEPT ![p].at = step]
FinishBid(p) == bidReq' = [bidReq EXCEPT ![p] = IdleBid]
DisturbBid ==
    /\ bidDisturbed < MaxBidDisturbed
    /\ bidDisturbed' = bidDisturbed + 1

Begin(p, loaded) ==
    /\ Free(p)
    /\ bidReq' = [bidReq EXCEPT ![p] = loaded]
    /\ IF Quiet THEN UNCHANGED bidDisturbed ELSE DisturbBid
    /\ UNCHANGED rows
Arrives(p) == p \in BidRequests /\ \A q \in BidRequests : q < p => ~Free(q)

-----------------------------------------------------------------------------
(* bids.service.ts                                                         *)

Unused == {b \in Bids : bids[b].status = "none"}
Inserting == {p \in BidRequests : BidAt(p, "insert")}

\* create for an agent without a bid, while the bound lets it insert one, ...
StartCreate(p, price, time) ==
    /\ Arrives(p)
    /\ task = "OPEN"
    /\ Cardinality(Inserting) < Cardinality(Unused)
    /\ Begin(p, [IdleBid EXCEPT
                   !.at = "insert",
                   !.bid = [status |-> "submitted", price |-> price,
                            expires |-> time]])

InsertBid(p) ==
    /\ BidAt(p, "insert")
    /\ \E b \in Unused :
         /\ \A c \in Unused : b <= c
         /\ bids' = [bids EXCEPT ![b] = bidReq[p].bid]
    /\ FinishBid(p)
    /\ UNCHANGED <<task, orders, now, bidDisturbed>>

\* ... and for one that has a bid, which is submitted again; update keeps
\* expiresAt when it is given none.
StartBidSave(p, b, row) ==
    /\ Arrives(p)
    /\ Begin(p, [IdleBid EXCEPT !.at = "save bid", !.id = b, !.bid = row])

StartResubmit(p, b, price, time) ==
    /\ task = "OPEN"
    /\ bids[b].status \in {"submitted", "withdrawn"}
    /\ StartBidSave(p, b, [status |-> "submitted", price |-> price,
                           expires |-> time])

StartUpdate(p, b, price, time) ==
    /\ bids[b].status = "submitted"
    /\ StartBidSave(p, b, [bids[b] EXCEPT !.price = price, !.expires = time])

StartWithdraw(p, b) ==
    /\ bids[b].status = "submitted"
    /\ StartBidSave(p, b, [bids[b] EXCEPT !.status = "withdrawn"])

SaveBid(p) ==
    /\ BidAt(p, "save bid")
    /\ bids' = [bids EXCEPT ![bidReq[p].id] = bidReq[p].bid]
    /\ FinishBid(p)
    /\ UNCHANGED <<task, orders, now, bidDisturbed>>

NeverExpires(row) == FALSE
Expired(row) == row.status = "submitted" /\ row.expires <= now

\* expireSubmittedBids: the bids it finds are saved one after another.
StartScan ==
    Begin(Scanner, [IdleBid EXCEPT
        !.at = "scan",
        !.list = {[id |-> b, bid |-> bids[b]] :
                    b \in {c \in Bids : Expired(bids[c])}}])

ExpireBid(p) ==
    /\ BidAt(p, "scan")
    /\ \E e \in bidReq[p].list :
         /\ bids' = [bids EXCEPT ![e.id] =
                       [e.bid EXCEPT !.status = "expired"]]
         /\ bidReq' = [bidReq EXCEPT ![p].list = @ \ {e}]
    /\ UNCHANGED <<task, orders, now, bidDisturbed>>

EndScan(p) ==
    /\ BidAt(p, "scan")
    /\ bidReq[p].list = {}
    /\ FinishBid(p)
    /\ UNCHANGED <<rows, bidDisturbed>>

-----------------------------------------------------------------------------
(* tasks.service.ts                                                        *)

\* updateTask, which leaves the status as it loaded it, and closeTask.
StartTaskSave(p, step) ==
    /\ Arrives(p)
    /\ task = "OPEN"
    /\ Begin(p, [IdleBid EXCEPT !.at = step])

SaveTask(p) ==
    /\ BidAt(p, "save task")
    /\ task' = "OPEN"
    /\ FinishBid(p)
    /\ UNCHANGED <<bids, orders, now, bidDisturbed>>

CloseTask(p) ==
    /\ BidAt(p, "close")
    /\ task' = "CLOSED"
    /\ GotoBid(p, "reject")
    /\ UNCHANGED <<bids, orders, now, bidDisturbed>>

\* selectBid: the order is inserted, the task and the bid are saved, ...
StartSelect(p, b) ==
    /\ Arrives(p)
    /\ task = "OPEN"
    /\ bids[b].status = "submitted"
    /\ Begin(p, [IdleBid EXCEPT !.at = "order", !.id = b, !.bid = bids[b]])

InsertOrder(p) ==
    /\ BidAt(p, "order")
    /\ orders' = Append(orders, [bid |-> bidReq[p].id,
                                price |-> bidReq[p].bid.price])
    /\ GotoBid(p, "select")
    /\ UNCHANGED <<task, bids, now, bidDisturbed>>

SelectTask(p) ==
    /\ BidAt(p, "select")
    /\ task' = "CLOSED"
    /\ GotoBid(p, "accept")
    /\ UNCHANGED <<bids, orders, now, bidDisturbed>>

AcceptsRow(p) == [bids[bidReq[p].id] EXCEPT !.status = "accepted"]
Accepted(p) == [bidReq[p].bid EXCEPT !.status = "accepted"]

AcceptBid(p) ==
    /\ BidAt(p, "accept")
    /\ bids' = [bids EXCEPT ![bidReq[p].id] = Accepted(p)]
    /\ GotoBid(p, "reject")
    /\ UNCHANGED <<task, orders, now, bidDisturbed>>

\* ... and one statement rejects the other submitted bids, or, when the task
\* is closed, all of them.
RejectsNobody(p) == {}
Losers(p) == {b \in Bids \ {bidReq[p].id} : bids[b].status = "submitted"}

RejectBids(p) ==
    /\ BidAt(p, "reject")
    /\ bids' = [b \in Bids |-> IF b \in Losers(p)
                               THEN [bids[b] EXCEPT !.status = "rejected"]
                               ELSE bids[b]]
    /\ FinishBid(p)
    /\ UNCHANGED <<task, orders, now, bidDisturbed>>

-----------------------------------------------------------------------------
Tick ==
    /\ now < MaxNow
    /\ now' = now + 1
    /\ UNCHANGED <<task, bids, orders, bidReq, bidDisturbed>>

\* A database call throws, or the process stops.
Stop(p) ==
    /\ ~Free(p)
    /\ FinishBid(p)
    /\ DisturbBid
    /\ UNCHANGED rows

Start(p) ==
    \/ \E price \in Prices, time \in Times :
         \/ StartCreate(p, price, time)
         \/ \E b \in Bids : \/ StartResubmit(p, b, price, time)
                            \/ StartUpdate(p, b, price, time)
    \/ \E b \in Bids : StartWithdraw(p, b) \/ StartSelect(p, b)
    \/ \E step \in {"save task", "close"} : StartTaskSave(p, step)

ContinueBid(p) ==
    \/ InsertBid(p)
    \/ SaveBid(p)
    \/ ExpireBid(p)
    \/ EndScan(p)
    \/ SaveTask(p)
    \/ CloseTask(p)
    \/ InsertOrder(p)
    \/ SelectTask(p)
    \/ AcceptBid(p)
    \/ RejectBids(p)

BiddingNext ==
    \/ Tick
    \/ StartScan
    \/ \E p \in Processes : Start(p) \/ ContinueBid(p) \/ Stop(p)

BiddingSpec == BiddingInit /\ [][BiddingNext]_biddingVars

\* An operation that began runs on, and every five minutes the scan starts.
Fairness ==
    /\ \A p \in Processes : WF_biddingVars(ContinueBid(p))
    /\ SF_biddingVars(StartScan)

FairSpec == BiddingSpec /\ Fairness

-----------------------------------------------------------------------------
\* The rows and the operations keep their shape.
BiddingTypeOK ==
    /\ task \in TaskStatuses
    /\ bids \in [Bids -> BidRow]
    /\ orders \in Seq([bid : Bids, price : Prices])
    /\ now \in 0..MaxNow
    /\ bidReq \in [Processes -> [at : BidSteps, id : Bids \cup {NoBid},
                                 bid : BidRow,
                                 list : SUBSET [id : Bids, bid : BidRow]]]
    /\ bidDisturbed \in 0..MaxBidDisturbed

\* selectBid and closeTask, as long as no operation begins during another one
\* and none ends early: a task has at most one order; at rest, the accepted
\* bids are those with an order, a task with an order is closed, and a closed
\* task has left no bid waiting for an answer.
OneSelection ==
    bidDisturbed = 0 =>
      /\ Len(orders) <= 1
      /\ Quiet =>
           /\ {b \in Bids : bids[b].status = "accepted"}
                = {orders[i].bid : i \in DOMAIN orders}
           /\ orders # <<>> => task = "CLOSED"
           /\ task = "CLOSED" => \A b \in Bids : bids[b].status # "submitted"

\* In every interleaving, and wherever an operation ends early, the price that
\* an accepted bid shows is the amount of an order for it: selectBid inserts
\* the order and saves the bid from one copy, and nothing updates an accepted
\* bid.
AcceptedIsOrdered ==
    \A b \in Bids : bids[b].status = "accepted" =>
      \E i \in DOMAIN orders :
        orders[i] = [bid |-> b, price |-> bids[b].price]

\* A bid whose time is over leaves "submitted" (expireSubmittedBids), however
\* operations overlap and stop; and as long as no operation begins during
\* another one, a decision on a bid, or its expiry, is final.
BidsEnd ==
    /\ \A b \in Bids : Expired(bids[b]) ~> ~Expired(bids[b])
    /\ [][bidDisturbed' = 0 =>
            \A b \in Bids :
              bids[b].status \in {"accepted", "rejected", "expired"}
                => bids'[b] = bids[b]]_biddingVars
=============================================================================
