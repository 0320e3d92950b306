-------------------------- MODULE LongTaskContract --------------------------
(***************************************************************************)
(* The contract of one long task order: the specification and its time-out *)
(* (spec-contract.service.ts), the escrow (marketplace-orders.service.ts), *)
(* changes of the specification (spec-change.service.ts) and the request   *)
(* to cancel (cancel-skeleton.service.ts).                                 *)
(*                                                                         *)
(* Every operation loads a row and later saves all its columns; the loads  *)
(* before its first write are one step.  The clock is left out: a deadline *)
(* that is set may have passed at any later time.                          *)
(*                                                                         *)
(* KeepsDeadline, AlwaysPayable, OneMore, AnyContract and CancelsOnly are  *)
(* faulty variants, used only to show that the properties notice them.     *)
(***************************************************************************)
EXTENDS Integers, FiniteSets

CONSTANTS
    Requests,        \* ids of concurrent HTTP requests; one takes the lowest
                     \* that is free
    Scanner,         \* the deadline scan, kept single by an advisory lock
    Changes,         \* change_seq of the requested changes
    NoChange,        \* an operation that is not about a change
    RejectionLimit,  \* SPEC_REJECTION_LIMIT, 5 in the code
    MaxRejections,   \* bound on the rejections, which the limit does not end
    Wallet,          \* the employer's balance, in prices of this order
    MaxVersion,      \* bound on the versions of the specification
    MaxDisturbed     \* bound on the failures, one of a kind, and on the
                     \* operations that begin during another one, together

ASSUME ProcessAssumption == Requests \subseteq Nat \ {0} /\ Scanner = 0
ASSUME ChangesAssumption == IsFiniteSet(Changes) /\ NoChange \notin Changes
ASSUME BoundAssumption ==
    /\ RejectionLimit \in Nat \ {0} /\ MaxRejections \in Nat /\ Wallet \in Nat
    /\ MaxVersion \in Nat /\ MaxDisturbed \in Nat

VARIABLES
    order,     \* the row: contractStatus, specVersion, specRejectionCount,
               \* whether specDeadline is set, and whether it is paid
    escrow,    \* external: prices taken from the employer and not refunded
    changes,   \* the changes: their status and classification
    canceling, \* whether the order has a cancel request
    task,      \* external: what reopenBidding finds of the order's task
    req,       \* the operations under way, with what each one loaded
    failed,    \* the kinds of failures that happened
    overlaps   \* operations that began while another one was under way

vars == <<order, escrow, changes, canceling, task, req, failed, overlaps>>
rows == <<order, escrow, changes, canceling, task>>

Processes == Requests \cup {Scanner}
Contracts == {"signing", "awaiting_confirmation", "signed", "cancelled"}
OrderRow == [contract : Contracts, version : Nat, rejections : Nat,
             due : BOOLEAN, paid : BOOLEAN]
\* "open" stands for classified and proposed: no operation tells them apart.
ChangeStatuses == {"none", "requested", "open", "confirmed", "rejected"}
ChangeRow == [status : ChangeStatuses, new : BOOLEAN]
Tasks == {"selected", "open", "closed"}
Failures == {"save", "notify", "stop"}

Steps == {"idle", "submit", "confirm", "reject", "cancel", "bind", "charge",
          "pay", "notify", "refund", "request", "classify", "classifyNew",
          "propose", "confirmNew", "confirmChange", "rejectChange", "load",
          "bump", "timeout", "reopen"}

NewOrder == [contract |-> "signing", version |-> 0, rejections |-> 0,
             due |-> FALSE, paid |-> FALSE]
NewChange == [status |-> "none", new |-> FALSE]
Idle == [at |-> "idle", copy |-> NewOrder, change |-> NoChange,
         row |-> NewChange]

Init ==
    /\ order = NewOrder
    /\ escrow = 0
    /\ changes = [c \in Changes |-> NewChange]
    /\ canceling = FALSE
    /\ task = "selected"
    /\ req = [p \in Processes |-> Idle]
    /\ failed = {}
    /\ overlaps = 0

At(p, step) == req[p].at = step
Free(p) == req[p] = Idle
Quiet == \A p \in Processes : Free(p)
Finish(p) == req' = [req EXCEPT ![p] = Idle]
\* The operation goes on without what it loaded.
Continue(p, step) == req' = [req EXCEPT ![p] = [Idle EXCEPT !.at = step]]

MayDisturb == Cardinality(failed) + overlaps < MaxDisturbed

Begin(p, loaded) ==
    /\ Free(p)
    /\ req' = [req EXCEPT ![p] = loaded]
    /\ IF Quiet THEN UNCHANGED overlaps
       ELSE MayDisturb /\ overlaps' = overlaps + 1
    /\ UNCHANGED <<rows, failed>>

Fails(kind) ==
    /\ MayDisturb /\ kind \notin failed
    /\ failed' = failed \cup {kind}

\* A request arrives; most begin with a copy of the order.
Arrives(p) == p \in Requests /\ \A q \in Requests : q < p => ~Free(q)
LoadOrder(p, step) ==
    Arrives(p) /\ Begin(p, [Idle EXCEPT !.at = step, !.copy = order])

-----------------------------------------------------------------------------
(* The specification: submitSpec and employerAction                        *)

\* Whether an operation finds the order in a state in which it goes on.
AnyContract == TRUE
Awaiting == order.contract = "awaiting_confirmation"

StartSubmit(p) == order.version = 0 /\ LoadOrder(p, "submit")
StartAction(p) ==
    /\ Awaiting
    /\ \/ LoadOrder(p, "confirm")
       \/ order.rejections < MaxRejections /\ LoadOrder(p, "reject")

Submitted(row) == [row EXCEPT !.version = 1, !.due = TRUE,
                              !.contract = "awaiting_confirmation"]
KeepsDeadline(row, to) == [row EXCEPT !.contract = to]
Closed(row, to) == [row EXCEPT !.contract = to, !.due = FALSE]

SaveSpec(p) ==
    /\ \/ At(p, "submit") /\ order' = Submitted(req[p].copy)
       \/ At(p, "confirm") /\ order' = Closed(req[p].copy, "signed")
    /\ Finish(p)
    /\ UNCHANGED <<escrow, changes, canceling, task, failed, overlaps>>

OneMore(n) == n > RejectionLimit
AtLimit(n) == n >= RejectionLimit

SaveRejection(p) ==
    /\ At(p, "reject")
    /\ order' = [req[p].copy EXCEPT !.rejections = @ + 1]
    /\ IF AtLimit(order'.rejections) THEN Continue(p, "cancel") ELSE Finish(p)
    /\ UNCHANGED <<escrow, changes, canceling, task, failed, overlaps>>

\* initiateCancel, by the employer or at the limit.  The number of the request
\* is always 1 and unique for the order: a second insert throws.
StartCancel(p) == Arrives(p) /\ Begin(p, [Idle EXCEPT !.at = "cancel"])
InsertCancel(p) ==
    /\ At(p, "cancel")
    /\ canceling' = TRUE
    /\ Finish(p)
    /\ UNCHANGED <<order, escrow, changes, task, failed, overlaps>>

\* applyProjectId saves the row as it was read, with the project filled in.
StartBind(p) == LoadOrder(p, "bind")
SaveBind(p) ==
    /\ At(p, "bind")
    /\ order' = req[p].copy
    /\ Finish(p)
    /\ UNCHANGED <<escrow, changes, canceling, task, failed, overlaps>>

-----------------------------------------------------------------------------
(* payWithBalance: the charge, the row, the notification                   *)

AlwaysPayable == order.contract = "signing"
Payable == order.contract = "signing" /\ ~order.paid

StartPay(p) == Payable /\ LoadOrder(p, "charge")

\* payFromBalance, a transaction of its own, throws when the money is short.
Charge(p) ==
    /\ At(p, "charge")
    /\ \/ escrow < Wallet /\ escrow' = escrow + 1
          /\ req' = [req EXCEPT ![p].at = "pay"]
       \/ escrow >= Wallet /\ Finish(p) /\ UNCHANGED escrow
    /\ UNCHANGED <<order, changes, canceling, task, failed, overlaps>>

SavePaid(p) ==
    /\ At(p, "pay")
    /\ order' = [req[p].copy EXCEPT !.paid = TRUE]
    /\ Continue(p, "notify")
    /\ UNCHANGED <<escrow, changes, canceling, task, failed, overlaps>>

NotifyOwner(p) ==
    /\ At(p, "notify")
    /\ Finish(p)
    /\ UNCHANGED <<rows, failed, overlaps>>

\* The save or the notification throws: both are caught and refunded.
Throw(p) ==
    /\ \/ At(p, "pay") /\ Fails("save")
       \/ At(p, "notify") /\ Fails("notify")
    /\ Continue(p, "refund")
    /\ UNCHANGED <<rows, overlaps>>

Refund(p) ==
    /\ At(p, "refund")
    /\ escrow' = escrow - 1
    /\ Finish(p)
    /\ UNCHANGED <<order, changes, canceling, task, failed, overlaps>>

-----------------------------------------------------------------------------
(* Changes of the specification                                            *)

\* What an operation requires of the row it loads.
Accepts(step, row) ==
    CASE step = "request" -> row.status = "none"
      [] step = "propose" -> row.status \in {"none", "requested"}
      [] step = "confirmNew" -> row.status # "none" /\ row.new
      [] step = "confirmChange" -> row.status \notin {"none", "confirmed"}
      [] OTHER -> row.status # "none"

ChangeSteps == {"request", "classify", "classifyNew", "propose", "confirmNew",
                "confirmChange", "rejectChange"}

StartChange(p, c, step) ==
    /\ Arrives(p)
    /\ Accepts(step, changes[c])
    /\ step = "confirmChange" => order.version < MaxVersion
    /\ Begin(p, [Idle EXCEPT !.at = step, !.change = c, !.row = changes[c]])

\* classify decides the kind of a change; only a new requirement waits for
\* the employer, who confirms or rejects it.
Decided(step, row) ==
    CASE step = "request" -> [row EXCEPT !.status = "requested"]
      [] step = "classify" -> [status |-> "open", new |-> FALSE]
      [] step = "classifyNew" -> [status |-> "open", new |-> TRUE]
      [] step = "propose" -> [row EXCEPT !.status = "open"]
      [] step \in {"confirmNew", "confirmChange"} ->
           [row EXCEPT !.status = "confirmed"]
      [] step = "rejectChange" -> [row EXCEPT !.status = "rejected"]

\* A row inserted twice violates UNIQUE(order_id, change_seq) and throws.
SaveChange(p) ==
    LET c == req[p].change
        inserted == req[p].row.status = "none" /\ changes[c].status # "none"
    IN
    /\ req[p].at \in ChangeSteps
    /\ changes' = IF inserted THEN changes
                  ELSE [changes EXCEPT ![c] = Decided(req[p].at, req[p].row)]
    /\ IF At(p, "confirmChange") THEN Continue(p, "load") ELSE Finish(p)
    /\ UNCHANGED <<order, escrow, canceling, task, failed, overlaps>>

\* confirm loads the order only after the change is saved.
ReloadOrder(p) ==
    /\ At(p, "load")
    /\ req' = [req EXCEPT ![p].at = "bump", ![p].copy = order]
    /\ UNCHANGED <<rows, failed, overlaps>>

Bumped(row) == [row EXCEPT !.version = @ + 1]

SaveBump(p) ==
    /\ At(p, "bump")
    /\ order' = Bumped(req[p].copy)
    /\ Finish(p)
    /\ UNCHANGED <<escrow, changes, canceling, task, failed, overlaps>>

-----------------------------------------------------------------------------
(* scanSpecTimeouts, and the task of the order                             *)

Due == Awaiting /\ order.due

ScanTimeout ==
    /\ Due
    /\ Begin(Scanner, [Idle EXCEPT !.at = "timeout", !.copy = order])

CancelsOnly(p) == Finish(p)
ThenReopens(p) == Continue(p, "reopen")

SaveTimeout(p) ==
    /\ At(p, "timeout")
    /\ order' = Closed(req[p].copy, "cancelled")
    /\ ThenReopens(p)
    /\ UNCHANGED <<escrow, changes, canceling, task, failed, overlaps>>

\* reopenBidding throws for a task that is neither open nor selected: the
\* employer may have cancelled it since.
ReopenTask(p) ==
    /\ At(p, "reopen")
    /\ IF task = "selected" THEN task' \in {"open", "closed"}
       ELSE UNCHANGED task
    /\ Finish(p)
    /\ UNCHANGED <<order, escrow, changes, canceling, failed, overlaps>>

-----------------------------------------------------------------------------
\* The process stops, or a call throws outside the try of payWithBalance.
Stop(p) ==
    /\ ~Free(p)
    /\ Fails("stop")
    /\ Finish(p)
    /\ UNCHANGED <<rows, overlaps>>

Proceed(p) ==
    \/ SaveSpec(p)
    \/ SaveRejection(p)
    \/ InsertCancel(p)
    \/ SaveBind(p)
    \/ Charge(p)
    \/ SavePaid(p)
    \/ NotifyOwner(p)
    \/ Refund(p)
    \/ SaveChange(p)
    \/ ReloadOrder(p)
    \/ SaveBump(p)
    \/ SaveTimeout(p)
    \/ ReopenTask(p)

Next ==
    \/ ScanTimeout
    \/ \E p \in Processes :
         \/ StartSubmit(p)
         \/ StartAction(p)
         \/ StartCancel(p)
         \/ StartBind(p)
         \/ StartPay(p)
         \/ \E c \in Changes, step \in ChangeSteps : StartChange(p, c, step)
         \/ Proceed(p)
         \/ Throw(p)
         \/ Stop(p)

Spec == Init /\ [][Next]_vars

\* An operation that began runs on, and every five minutes the scanner looks
\* for contracts whose seven days have passed.
Fairness ==
    /\ \A p \in Processes : WF_vars(Proceed(p))
    /\ SF_vars(ScanTimeout)

FairSpec == Spec /\ Fairness

-----------------------------------------------------------------------------
\* The rows and the operations keep their shape.
TypeOK ==
    /\ order \in OrderRow
    /\ escrow \in Int
    /\ changes \in [Changes -> ChangeRow]
    /\ canceling \in BOOLEAN
    /\ task \in Tasks
    /\ req \in [Processes -> [at : Steps, copy : OrderRow,
                              change : Changes \cup {NoChange},
                              row : ChangeRow]]
    /\ failed \subseteq Failures
    /\ overlaps \in 0..MaxDisturbed

SpecBehindContract == order.contract # "signing" => order.version >= 1
DeadlineIffAwaiting == Awaiting <=> order.due

\* Whatever stale copies are saved over each other, a contract that left
\* "signing" has a specification: a late payment or project binding may undo a
\* submission, never half of it (submitSpec, payWithBalance, applyProjectId).
\* And its seven days run exactly while the employer has to decide, so no
\* waiting contract is missed by the scan and no decided one is found by it.
ContractSound == SpecBehindContract /\ DeadlineIffAwaiting

\* Escrow, without two operations at once: a paid order has its price held,
\* unless the notification failed, whose refund leaves the order paid; and an
\* operation that is over holds nothing else, unless the process stopped
\* between the charge and the save (payWithBalance).
EscrowRecorded ==
    overlaps = 0 =>
      /\ order.paid /\ "notify" \notin failed => escrow >= 1
      /\ "stop" \notin failed /\ Quiet => escrow <= IF order.paid THEN 1 ELSE 0

\* Without two operations at once, a contract that is signed or cancelled
\* stays so.
ContractFinal ==
    [][overlaps' = 0 /\ order.contract \in {"signed", "cancelled"}
         => order'.contract = order.contract]_vars

Confirmed ==
    {c \in Changes : changes[c].status = "confirmed" /\ ~changes[c].new}

\* The two counters of the order take effect, without two operations at once.
\* At the limit of rejections the negotiated cancellation is under way
\* ("驳回 5 次自动触发协商取消", spec-contract.service.ts 681).  Every change
\* confirmed by both sides has a version of its own, besides the one that was
\* submitted: confirming twice, rejecting and confirming again never takes
\* one away (confirm).
CountersAct ==
    overlaps = 0 /\ failed = {} /\ Quiet =>
      /\ order.rejections >= RejectionLimit => canceling
      /\ order.version >= Cardinality(Confirmed)
                          + (IF order.contract = "signing" THEN 0 ELSE 1)

SpecDecided == Awaiting ~> ~Awaiting
TimeoutReopens ==
    (order.contract = "cancelled") ~> (task # "selected" \/ "stop" \in failed)

\* The employer's silence does not hold the contract up: it is confirmed, or
\* cancelled by the scan; and a contract cancelled by time-out gives the task
\* back to bidding ("任务重开", scanSpecTimeouts), unless the scan stopped
\* between the two.
SilenceEnds == SpecDecided /\ TimeoutReopens
=============================================================================
