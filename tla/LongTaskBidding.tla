--------------------------- MODULE LongTaskBidding ---------------------------
(***************************************************************************)
(* One long task from its draft to the selection of a winner: the task row *)
(* of marketplace-tasks.service.ts, its bids in marketplace-bids.service.ts,*)
(* the employer's decisions in selection.service.ts and the scans of       *)
(* deadline-scanner.cron.ts that decide when the employer does not.        *)
(*                                                                         *)
(* Nothing is locked and nothing is a transaction.  An operation loads the *)
(* task, and later saves every column of the copy it loaded; the loads     *)
(* that it makes before its first write are one step.  The clock is left   *)
(* out: a deadline that is set may have passed at any later time.          *)
(*                                                                         *)
(* LeavesOthers, StaysOpen, KeepsSeats and NeverDue are faulty variants,   *)
(* used only to show that the properties notice them.                      *)
(***************************************************************************)
EXTENDS Integers, FiniteSets

CONSTANTS
    Requests,     \* concurrent HTTP requests
    Scanner,      \* the deadline scan, kept single by an advisory lock
    Operations,   \* the operations of this instance
    Workspaces,   \* the workspaces that bid
    SeatLimit,    \* marketplace_tasks.seat_limit, 20 by default
    MaxRound,     \* bound on the rounds of bidding
    MaxFailures,  \* bound on the operations that end early
    MaxOverlaps   \* bound on the operations that begin during another one

ASSUME ProcessAssumption == IsFiniteSet(Requests) /\ Scanner \notin Requests
ASSUME WorkspacesAssumption == IsFiniteSet(Workspaces)
ASSUME BoundAssumption ==
    /\ SeatLimit \in Nat \ {0} /\ MaxRound \in Nat \ {0}
    /\ MaxFailures \in Nat /\ MaxOverlaps \in Nat

VARIABLES
    task,      \* the row: status, bidRound, seatTaken, and whether
               \* seatFullDeadline is set
    bids,      \* marketplace_bids.status of a round and a workspace
    orders,    \* marketplace_orders of a bid: how many signing or later
    req,       \* the operations under way, with what each one loaded
    wasted,    \* seats of a round that were saved and never got their bid
    failures,  \* operations that ended with an exception or a stop
    overlaps,  \* operations that began while another one was under way
    byHand     \* whether the task was reopened by its unguarded endpoint

vars == <<task, bids, orders, req, wasted, failures, overlaps, byHand>>
rows == <<task, bids, orders>>
history == <<wasted, failures, byHand>>

Processes == Requests \cup {Scanner}
Rounds == 1..MaxRound
NoRound == 0
Bids == Rounds \X Workspaces
NoBid == <<NoRound, Scanner>>
TaskStatuses == {"draft", "open", "selected", "completed", "expired", "closed",
                 "cancelled"}
BidStatuses == {"none", "submitted", "won", "lost", "rejected"}
TaskRow == [status : TaskStatuses, round : Rounds, taken : Nat, full : BOOLEAN]

\* Where an operation stands.
Steps == {"idle", "publish", "seat", "insert", "won", "find", "lose",
          "order", "rejectAll", "reject", "reopened",
          "expire", "close", "cancel", "reopen"}

NewTask == [status |-> "draft", round |-> 1, taken |-> 0, full |-> FALSE]
Idle == [at |-> "idle", copy |-> NewTask, bid |-> NoBid, list |-> {}]

Init ==
    /\ task = NewTask
    /\ bids = [b \in Bids |-> "none"]
    /\ orders = [b \in Bids |-> 0]
    /\ req = [p \in Processes |-> Idle]
    /\ wasted = [r \in Rounds |-> 0]
    /\ failures = 0
    /\ overlaps = 0
    /\ byHand = FALSE

At(p, step) == req[p].at = step
Free(p) == req[p] = Idle
Goto(p, step) == req' = [req EXCEPT ![p].at = step]
LeaveTask(p, step) == req' = [req EXCEPT ![p].at = step, ![p].copy = NewTask]
Finish(p) == req' = [req EXCEPT ![p] = Idle]

\* An operation begins with the copy of the task and the bids it works on.
Begin(p, step, copy, bid, list) ==
    /\ Free(p)
    /\ req' = [req EXCEPT ![p] = [at |-> step, copy |-> copy, bid |-> bid,
                                  list |-> list]]
    /\ IF \A q \in Processes : Free(q) THEN UNCHANGED overlaps
       ELSE overlaps < MaxOverlaps /\ overlaps' = overlaps + 1

BidsOf(r) == {b \in Bids : b[1] = r /\ bids[b] # "none"}
Submitted(r) == {b \in BidsOf(r) : bids[b] = "submitted"}

\* repository.save(task): every column of the loaded copy is written back.
SaveTask(p, status) == task' = [req[p].copy EXCEPT !.status = status]
SetBid(b, status) == bids' = [bids EXCEPT ![b] = status]

-----------------------------------------------------------------------------
(* Operations that load the task, check its status and save a new one      *)

Statuses == [publish |-> {"draft"}, close |-> {"open"}, expire |-> {"open"},
             cancel |-> {"selected"}]
Target == [publish |-> "open", close |-> "closed", expire |-> "expired",
           cancel |-> "cancelled"]

\* publish, close, cancel, and scanExpired, which the scanner runs.
Load(p, op) ==
    /\ op \in Operations
    /\ (p = Scanner) <=> (op = "expire")
    /\ task.status \in Statuses[op]
    /\ Begin(p, op, task, NoBid, {})
    /\ UNCHANGED <<rows, history>>

SaveStatus(p) ==
    /\ req[p].at \in DOMAIN Target
    /\ SaveTask(p, Target[req[p].at])
    /\ Finish(p)
    /\ UNCHANGED <<bids, orders, history, overlaps>>

-----------------------------------------------------------------------------
(* MarketplaceBidsService.submit: first the seat, then the bid             *)

\* A lost or rejected bid has used up the workspace's chance on this task.
Consumed(w) == \E r \in Rounds : bids[<<r, w>>] \in {"lost", "rejected"}

LoadSubmit(p, w) ==
    /\ p # Scanner
    /\ "submit" \in Operations
    /\ task.status = "open"
    /\ bids[<<task.round, w>>] = "none"
    /\ ~Consumed(w)
    /\ task.taken < SeatLimit
    /\ Begin(p, "seat", task, <<task.round, w>>, {})
    /\ UNCHANGED <<rows, history>>

\* The last seat starts the 72 hours of the employer.
Seated(row) ==
    [row EXCEPT !.taken = @ + 1, !.full = @ \/ row.taken + 1 >= SeatLimit]

SaveSeat(p) ==
    /\ At(p, "seat")
    /\ task' = Seated(req[p].copy)
    /\ LeaveTask(p, "insert")
    /\ UNCHANGED <<bids, orders, history, overlaps>>

\* UNIQUE(task, round, workspace): the second insert of one bid throws, and
\* its seat stays taken.
InsertBid(p) ==
    LET b == req[p].bid IN
    /\ At(p, "insert")
    /\ \/ bids[b] = "none" /\ SetBid(b, "submitted") /\ UNCHANGED wasted
       \/ /\ bids[b] # "none"
          /\ wasted' = [wasted EXCEPT ![b[1]] = @ + 1]
          /\ UNCHANGED bids
    /\ Finish(p)
    /\ UNCHANGED <<task, orders, failures, overlaps, byHand>>

-----------------------------------------------------------------------------
(* SelectionService.selectBid                                              *)

LoadSelect(p, b) ==
    /\ p # Scanner
    /\ "selectBid" \in Operations
    /\ task.status = "open"
    /\ b \in Submitted(task.round)
    /\ Begin(p, "won", task, b, {})
    /\ UNCHANGED <<rows, history>>

SaveWon(p) ==
    /\ At(p, "won")
    /\ SetBid(req[p].bid, "won")
    /\ Goto(p, "find")
    /\ UNCHANGED <<task, orders, history, overlaps>>

LeavesOthers(r) == {}
Undecided(r) == Submitted(r)

FindOthers(p) ==
    /\ At(p, "find")
    /\ req' = [req EXCEPT ![p].at = "lose",
                          ![p].list = Undecided(req[p].copy.round)]
    /\ UNCHANGED <<rows, history, overlaps>>

\* One bid of the loaded list after the other becomes lost, or rejected.
DecideBid(p) ==
    \E b \in req[p].list :
      /\ \/ At(p, "lose") /\ SetBid(b, "lost")
         \/ At(p, "reject") /\ SetBid(b, "rejected")
      /\ req' = [req EXCEPT ![p].list = @ \ {b}]
      /\ UNCHANGED <<task, orders, history, overlaps>>

StaysOpen(p) == SaveTask(p, "open")
TaskSelected(p) == SaveTask(p, "selected")

SaveSelected(p) ==
    /\ At(p, "lose") /\ req[p].list = {}
    /\ TaskSelected(p)
    /\ LeaveTask(p, "order")
    /\ UNCHANGED <<bids, orders, history, overlaps>>

InsertOrder(p) ==
    /\ At(p, "order")
    /\ orders' = [orders EXCEPT ![req[p].bid] = @ + 1]
    /\ Finish(p)
    /\ UNCHANGED <<task, bids, history, overlaps>>

-----------------------------------------------------------------------------
(* rejectAll, by the employer or 72 hours after the last seat was taken    *)

\* getOpenTask throws unless the task is open, and so does reopenBidding
\* unless it is open or selected.  MaxRound bounds the rounds.
CanReopen(statuses) == task.status \in statuses /\ task.round < MaxRound

StartRejectAll(p) ==
    /\ p # Scanner
    /\ "rejectAll" \in Operations
    /\ CanReopen({"open"})
    /\ Begin(p, "reject", task, NoBid, Undecided(task.round))
    /\ UNCHANGED <<rows, history>>

NeverDue == FALSE
SeatFullDue == task.status = "open" /\ task.full

\* The scan lists the due tasks and calls rejectAll for each of them later.
ScanSeatFull ==
    /\ SeatFullDue
    /\ Begin(Scanner, "rejectAll", NewTask, NoBid, {})
    /\ UNCHANGED <<rows, history>>

ScanRejectAll(p) ==
    /\ At(p, "rejectAll")
    /\ IF CanReopen({"open"})
       THEN req' = [req EXCEPT ![p].at = "reject", ![p].copy = task,
                               ![p].list = Undecided(task.round)]
       ELSE Finish(p)
    /\ UNCHANGED <<rows, history, overlaps>>

KeepsSeats(row) == [row EXCEPT !.status = "open", !.round = @ + 1]
Reopened(row) ==
    [status |-> "open", round |-> row.round + 1, taken |-> 0, full |-> FALSE]

SaveReopened(p) ==
    /\ \/ At(p, "reject") /\ req[p].list = {}
       \/ At(p, "reopened")
    /\ task' = Reopened(req[p].copy)
    /\ Finish(p)
    /\ UNCHANGED <<bids, orders, history, overlaps>>

-----------------------------------------------------------------------------
(* scanSpecTimeouts cancels an order and then reopens its task             *)

\* In which of its states an order times out belongs to LongTaskContract.
CancelOrder(b) ==
    /\ "specTimeout" \in Operations
    /\ orders[b] > 0
    /\ task.round < MaxRound
    /\ orders' = [orders EXCEPT ![b] = @ - 1]
    /\ Begin(Scanner, "reopen", NewTask, NoBid, {})
    /\ UNCHANGED <<task, bids, history>>

ScanReopen(p) ==
    /\ At(p, "reopen")
    /\ IF CanReopen({"open", "selected"})
       THEN req' = [req EXCEPT ![p].at = "reopened", ![p].copy = task]
       ELSE Finish(p)
    /\ UNCHANGED <<rows, history, overlaps>>

\* POST :id/reopen-bidding calls the same method without any check; once here.
StartReopen(p) ==
    /\ p # Scanner
    /\ "reopen" \in Operations /\ ~byHand
    /\ CanReopen({"open", "selected"})
    /\ Begin(p, "reopened", task, NoBid, {})
    /\ byHand' = TRUE
    /\ UNCHANGED <<rows, wasted, failures>>

-----------------------------------------------------------------------------
\* A database call throws, or the process stops: the rest of the operation
\* is lost, and with it the bid of a seat that was already saved.
Fail(p) ==
    /\ failures < MaxFailures
    /\ ~Free(p)
    /\ failures' = failures + 1
    /\ wasted' = IF At(p, "insert")
                 THEN [wasted EXCEPT ![req[p].bid[1]] = @ + 1] ELSE wasted
    /\ Finish(p)
    /\ UNCHANGED <<rows, overlaps, byHand>>

Continue(p) ==
    \/ SaveStatus(p)
    \/ SaveSeat(p)
    \/ InsertBid(p)
    \/ SaveWon(p)
    \/ FindOthers(p)
    \/ DecideBid(p)
    \/ SaveSelected(p)
    \/ InsertOrder(p)
    \/ ScanRejectAll(p)
    \/ SaveReopened(p)
    \/ ScanReopen(p)

Next ==
    \/ ScanSeatFull
    \/ \E b \in Bids : CancelOrder(b)
    \/ \E p \in Processes :
         \/ \E op \in DOMAIN Target : Load(p, op)
         \/ \E w \in Workspaces : LoadSubmit(p, w)
         \/ \E b \in Bids : LoadSelect(p, b)
         \/ StartRejectAll(p)
         \/ StartReopen(p)
         \/ Continue(p)
         \/ Fail(p)

Spec == Init /\ [][Next]_vars

\* An operation that began runs on, and every five minutes the scanner looks
\* for full rounds whose deadline has passed.
Fairness ==
    /\ \A p \in Processes : WF_vars(Continue(p))
    /\ SF_vars(ScanSeatFull)

FairSpec == Spec /\ Fairness

-----------------------------------------------------------------------------
\* The rows and the operations keep their shape.
TypeOK ==
    /\ task \in TaskRow
    /\ bids \in [Bids -> BidStatuses]
    /\ orders \in [Bids -> Nat]
    /\ req \in [Processes -> [at : Steps, copy : TaskRow,
                              bid : Bids \cup {NoBid}, list : SUBSET Bids]]
    /\ wasted \in [Rounds -> Nat]
    /\ failures \in 0..MaxFailures
    /\ overlaps \in 0..MaxOverlaps
    /\ byHand \in BOOLEAN

Inserting(r) == {p \in Processes : At(p, "insert") /\ req[p].bid[1] = r}

SeatsHaveBids ==
    task.taken <= Cardinality(BidsOf(task.round))
                  + Cardinality(Inserting(task.round)) + wasted[task.round]
LockedIffFull == task.full <=> task.taken >= SeatLimit
SeatsRespected ==
    overlaps = 0 => \A r \in Rounds : Cardinality(BidsOf(r)) <= SeatLimit

\* No seat is invented: whatever copies overlap, a seat counted in a round
\* has its bid, or an operation that is about to insert it, or one whose
\* insert failed (submit saves the seat first); and the 72 hours run exactly
\* while all seats are taken, so a round can neither lock early nor fill up
\* without a deadline.  As long as operations do not overlap, a round has no
\* more bids than seats.
SeatsCounted == SeatsHaveBids /\ LockedIffFull /\ SeatsRespected

\* Operations came one at a time, and POST :id/reopen-bidding, which checks
\* neither the caller nor the order, was not used.
Undisturbed == overlaps = 0 /\ ~byHand

Live == {b \in Bids : orders[b] > 0}
OneLiveOrder == Cardinality(Live) <= 1 /\ \A b \in Live : orders[b] = 1
NoStrandedBids == \A b \in Bids : bids[b] = "submitted" => b[1] = task.round

\* An undisturbed task has one contract at a time, and the bids of its earlier
\* rounds are all decided while a later one runs, though rounds, selections
\* and specification time-outs repeat and stop half way (selectBid saves the
\* task before it inserts the order).
OneContract == Undisturbed => OneLiveOrder /\ NoStrandedBids

\* As long as nothing disturbs or fails, a selected task has exactly the
\* contract of the one winner of its round, and every other bid lost.
SelectionComplete ==
    /\ Undisturbed /\ failures = 0
    /\ task.status = "selected" /\ (\A p \in Processes : Free(p))
    => \E b \in BidsOf(task.round) :
         /\ bids[b] = "won" /\ orders[b] = 1
         /\ \A c \in BidsOf(task.round) \ {b} : bids[c] = "lost"

\* A full round does not block the task forever: it is decided by the employer
\* or by the scan ("防死锁", selection.service.ts 164), MaxRound permitting,
\* unless the stale copy of an overlapping bid gives a seat back, or any
\* operation fails.
FullRoundDecided ==
    \A r \in Rounds \ {MaxRound} :
      (task.status = "open" /\ task.round = r /\ task.taken >= SeatLimit)
        ~> (failures > 0 \/ task.status # "open" \/ task.round # r
                          \/ task.taken < SeatLimit)
=============================================================================
