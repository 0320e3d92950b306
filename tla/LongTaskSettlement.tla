------------------------- MODULE LongTaskSettlement -------------------------
(***************************************************************************)
(* What follows the acceptance of a long task order: its settlement and    *)
(* the payout (settlements.service.ts), its disputes (disputes.service.ts) *)
(* and the pass of deadline-scanner.cron.ts that closes the one and hands  *)
(* the others over to arbitration.                                         *)
(*                                                                         *)
(* Every operation loads a row and later saves all its columns; the loads  *)
(* before its first write are one step.  Of the order row this module      *)
(* keeps the two columns that the settlement reads.  The clock is left     *)
(* out: a deadline that is set may have passed at any later time.          *)
(*                                                                         *)
(* PaysAlways, NeverDue and FreshRow are faulty variants, used only to     *)
(* show that the properties notice them.                                   *)
(***************************************************************************)
EXTENDS Integers, FiniteSets

CONSTANTS
    Requests,     \* ids of concurrent HTTP requests; one takes the lowest
                  \* that is free
    Scanner,      \* the deadline scan, kept single by an advisory lock
    Disputes,     \* bound: ids of the disputes of the order
    NoDispute,    \* an operation that is not about a dispute
    MaxClosings,  \* bound on the closings of the settlement
    MaxDisturbed  \* bound on the operations that begin during another one,
                  \* and on those that end early, together

ASSUME ProcessAssumption == Requests \subseteq Nat \ {0} /\ Scanner = 0
ASSUME DisputesAssumption == NoDispute \notin Disputes
ASSUME BoundAssumption ==
    MaxClosings \in Nat /\ MaxDisturbed \in Nat

VARIABLES
    order,         \* the row: whether afterSaleDeadline is set, and whether
                   \* settlementStatus is settled
    settlement,    \* the settlement: status, and whether its amount is positive
                   \* and the workspace has an owner to pay it to
    ownerPayouts,  \* external: how often the owner got the amount (addIncome)
    closings,      \* how often the scan closed the settlement
    disputes,      \* the disputes: status, evidence, resolution
    req,           \* the operations under way, with what each one loaded
    stops,         \* operations that ended with an exception or a stop
    overlaps       \* operations that began while another one was under way

settlementVars == <<order, settlement, ownerPayouts, closings, disputes, req,
                    stops, overlaps>>
money == <<settlement, ownerPayouts, closings>>
rows == <<order, money, disputes>>

Processes == Requests \cup {Scanner}
OrderRow == [appeal : BOOLEAN, settled : BOOLEAN]
SettlementStatuses == {"none", "pending", "settled", "appeal_closed"}
SettlementRow == [status : SettlementStatuses, payable : BOOLEAN]
DisputeStatuses == {"none", "evidence_open", "arbitrating", "resolved",
                    "acknowledged"}
DisputeRow == [status : DisputeStatuses, evidence : BOOLEAN,
               resolution : BOOLEAN]
DisputeSteps == {"evidence", "arbitrate", "resolve", "acknowledge"}
Steps == DisputeSteps \cup
         {"idle", "trigger", "pay", "settle", "load", "mark", "save",
          "appeal", "close", "list", "next"}

NewOrder == [appeal |-> FALSE, settled |-> FALSE]
NewSettlement == [status |-> "none", payable |-> FALSE]
NewDispute == [status |-> "none", evidence |-> FALSE, resolution |-> FALSE]
Idle == [at |-> "idle", order |-> NewOrder, settlement |-> NewSettlement,
         id |-> NoDispute, dispute |-> NewDispute, list |-> {}]

SettlementInit ==
    /\ order = NewOrder
    /\ settlement = NewSettlement
    /\ ownerPayouts = 0
    /\ closings = 0
    /\ disputes = [d \in Disputes |-> NewDispute]
    /\ req = [p \in Processes |-> Idle]
    /\ stops = 0
    /\ overlaps = 0

At(p, step) == req[p].at = step
Free(p) == req[p] = Idle
Quiet == \A p \in Processes : Free(p)
Load(p, loaded) == req' = [req EXCEPT ![p] = loaded]
Goto(p, step) == Load(p, [Idle EXCEPT !.at = step])
Finish(p) == Load(p, Idle)

Begin(p, loaded) ==
    /\ Free(p)
    /\ Load(p, loaded)
    /\ IF Quiet THEN UNCHANGED overlaps
       ELSE overlaps + stops < MaxDisturbed /\ overlaps' = overlaps + 1
    /\ UNCHANGED <<rows, stops>>
Arrives(p) == p \in Requests /\ \A q \in Requests : q < p => ~Free(q)

-----------------------------------------------------------------------------
(* trigger and consumeSettlementCompleted                                  *)

StartTrigger(p) ==
    /\ Arrives(p)
    /\ settlement.status = "none"
    /\ Begin(p, [Idle EXCEPT !.at = "trigger"])

\* order_id is UNIQUE: the second insert throws.
InsertSettlement(p) ==
    /\ At(p, "trigger")
    /\ IF settlement.status = "none"
       THEN \E b \in BOOLEAN :
              settlement' = [status |-> "pending", payable |-> b]
       ELSE UNCHANGED settlement
    /\ Finish(p)
    /\ UNCHANGED <<order, ownerPayouts, closings, disputes, stops, overlaps>>

PaysAlways(row) == row.payable
\* The first write-back of a settlement pays it.
FirstWriteback(row) == row.status # "settled" /\ row.payable

StartWriteback(p) ==
    /\ Arrives(p)
    /\ settlement.status # "none"
    /\ closings < MaxClosings
    /\ Begin(p, [Idle EXCEPT
                    !.settlement = settlement,
                    !.at = IF FirstWriteback(settlement) THEN "pay"
                           ELSE "settle"])

Payout(p) ==
    /\ At(p, "pay")
    /\ ownerPayouts' = ownerPayouts + 1
    /\ req' = [req EXCEPT ![p].at = "settle"]
    /\ UNCHANGED <<order, settlement, closings, disputes, stops, overlaps>>

Settled(row) == [row EXCEPT !.status = "settled"]

SaveSettled(p) ==
    /\ At(p, "settle")
    /\ settlement' = Settled(req[p].settlement)
    /\ Goto(p, "load")
    /\ UNCHANGED <<order, ownerPayouts, closings, disputes, stops, overlaps>>

LoadOrder(p) ==
    /\ At(p, "load")
    /\ Load(p, [Idle EXCEPT !.at = "mark", !.order = order])
    /\ UNCHANGED <<rows, stops, overlaps>>

\* Another operation on the order: LongTaskDelivery accepts it and opens the
\* period of appeal; the others, as applyProjectId, leave these columns alone.
StartOrderSave(p) ==
    Arrives(p) /\ Begin(p, [Idle EXCEPT !.at = "save", !.order = order])

SaveOrder(p) ==
    /\ \/ At(p, "mark") /\ order' = [req[p].order EXCEPT !.settled = TRUE]
       \/ At(p, "save") /\ \E b \in {req[p].order.appeal, TRUE} :
            order' = [req[p].order EXCEPT !.appeal = b]
    /\ Finish(p)
    /\ UNCHANGED <<money, disputes, stops, overlaps>>

-----------------------------------------------------------------------------
(* The disputes: raiseDispute, submitEvidence, startArbitration, resolve   *)
(* and acknowledge                                                         *)

Open(status) == {d \in Disputes : disputes[d].status = status}

\* No state of the order or the settlement is asked for.
RaiseDispute(d) ==
    /\ disputes[d].status = "none"
    /\ disputes' = [disputes EXCEPT ![d].status = "evidence_open"]
    /\ UNCHANGED <<order, money, req, stops, overlaps>>

Accepting(step) ==
    CASE step = "evidence" -> {"evidence_open", "arbitrating"}
      [] step = "arbitrate" -> {"evidence_open"}
      [] step = "resolve" -> {"arbitrating"}
      [] step = "acknowledge" -> {"resolved"}

StartDispute(p, d, step) ==
    /\ Arrives(p)
    /\ disputes[d].status \in Accepting(step)
    /\ Begin(p, [Idle EXCEPT !.at = step, !.id = d, !.dispute = disputes[d]])

FreshRow(row, step) ==
    [NewDispute EXCEPT !.evidence = step = "evidence",
       !.status = CASE step = "arbitrate" -> "arbitrating"
                    [] step = "resolve" -> "resolved"
                    [] step = "acknowledge" -> "acknowledged"
                    [] OTHER -> row.status]
Decided(row, step) ==
    CASE step = "evidence" -> [row EXCEPT !.evidence = TRUE]
      [] step = "arbitrate" -> [row EXCEPT !.status = "arbitrating"]
      [] step = "resolve" -> [row EXCEPT !.status = "resolved",
                                         !.resolution = TRUE]
      [] step = "acknowledge" -> [row EXCEPT !.status = "acknowledged"]

\* The scan goes on with the next dispute of its list.
SaveDispute(p) ==
    /\ req[p].at \in DisputeSteps
    /\ disputes' = [disputes EXCEPT
                      ![req[p].id] = Decided(req[p].dispute, req[p].at)]
    /\ IF p = Scanner
       THEN Load(p, [Idle EXCEPT !.at = "next", !.list = req[p].list])
       ELSE Finish(p)
    /\ UNCHANGED <<order, money, stops, overlaps>>

-----------------------------------------------------------------------------
(* One pass of the scanner: scanAppealPeriodClosed, scanEvidenceDeadlines  *)

NeverDue == FALSE
AppealDue ==
    order.appeal /\ order.settled /\ settlement.status # "appeal_closed"
EvidenceDue == Open("evidence_open")

StartScan ==
    /\ AppealDue \/ EvidenceDue # {}
    /\ Begin(Scanner,
             [Idle EXCEPT !.at = IF AppealDue THEN "appeal" ELSE "list"])

\* The order was listed; its settlement is loaded only now.
LoadSettlement(p) ==
    /\ At(p, "appeal")
    /\ IF settlement.status = "appeal_closed" THEN Goto(p, "list")
       ELSE Load(p, [Idle EXCEPT !.at = "close", !.settlement = settlement])
    /\ UNCHANGED <<rows, stops, overlaps>>

SaveClosed(p) ==
    /\ At(p, "close")
    /\ settlement' = [req[p].settlement EXCEPT !.status = "appeal_closed"]
    /\ closings' = closings + 1
    /\ Goto(p, "list")
    /\ UNCHANGED <<order, ownerPayouts, disputes, stops, overlaps>>

ListDisputes(p) ==
    /\ At(p, "list")
    /\ Load(p, [Idle EXCEPT !.at = "next", !.list = EvidenceDue])
    /\ UNCHANGED <<rows, stops, overlaps>>

\* Each dispute is loaded again, and startArbitration throws for one that left
\* "evidence_open" since: the rest of the pass is lost.
NextDispute(p) ==
    /\ At(p, "next")
    /\ IF req[p].list = {} THEN Finish(p)
       ELSE \E d \in req[p].list :
              IF d \in Open("evidence_open")
              THEN Load(p, [Idle EXCEPT !.at = "arbitrate", !.id = d,
                              !.dispute = disputes[d],
                              !.list = req[p].list \ {d}])
              ELSE Finish(p)
    /\ UNCHANGED <<rows, stops, overlaps>>

-----------------------------------------------------------------------------
\* A database call throws, or the process stops.
Stop(p) ==
    /\ overlaps + stops < MaxDisturbed
    /\ ~Free(p)
    /\ stops' = stops + 1
    /\ Finish(p)
    /\ UNCHANGED <<rows, overlaps>>

Continue(p) ==
    \/ InsertSettlement(p)
    \/ Payout(p)
    \/ SaveSettled(p)
    \/ LoadOrder(p)
    \/ SaveOrder(p)
    \/ SaveDispute(p)
    \/ LoadSettlement(p)
    \/ SaveClosed(p)
    \/ ListDisputes(p)
    \/ NextDispute(p)

SettlementNext ==
    \/ StartScan
    \/ \E d \in Disputes : RaiseDispute(d)
    \/ \E p \in Processes :
         \/ StartTrigger(p)
         \/ StartWriteback(p)
         \/ StartOrderSave(p)
         \/ \E d \in Disputes, step \in DisputeSteps : StartDispute(p, d, step)
         \/ Continue(p)
         \/ Stop(p)

SettlementSpec == SettlementInit /\ [][SettlementNext]_settlementVars

\* An operation that began runs on, and every five minutes the scanner makes
\* its pass.
Fairness ==
    /\ \A p \in Processes : WF_settlementVars(Continue(p))
    /\ SF_settlementVars(StartScan)

FairSpec == SettlementSpec /\ Fairness

-----------------------------------------------------------------------------
\* The rows and the operations keep their shape.
SettlementTypeOK ==
    /\ order \in OrderRow
    /\ settlement \in SettlementRow
    /\ ownerPayouts \in Nat
    /\ closings \in Nat
    /\ disputes \in [Disputes -> DisputeRow]
    /\ req \in [Processes -> [at : Steps, order : OrderRow,
                              settlement : SettlementRow,
                              id : Disputes \cup {NoDispute},
                              dispute : DisputeRow, list : SUBSET Disputes]]
    /\ stops \in 0..MaxDisturbed
    /\ overlaps \in 0..MaxDisturbed

SettledIsPaid ==
    settlement.status \in {"settled", "appeal_closed"} /\ settlement.payable
      => ownerPayouts >= 1
PaidOnce ==
  overlaps = 0 /\ stops = 0 /\ closings = 0 /\ Quiet =>
    ownerPayouts =
      IF settlement.status = "settled" /\ settlement.payable THEN 1 ELSE 0

\* The owner of the work is never told "settled" without the money: whatever
\* write-backs, closings and stops overlap, a settlement that left "pending"
\* was paid at least once (consumeSettlementCompleted pays before it saves).
\* Without two operations at once and without a stop, repeating the write-back
\* pays nothing more as long as the period of appeal was not closed.  A
\* write-back after the closing does pay again, against the comment at
\* settlements.service.ts 93: only "settled" is recognised as paid.  Nothing
\* is said of that here.
PaidAsSettled == SettledIsPaid /\ PaidOnce

ResolvedIffDecided ==
    \A d \in Disputes :
      disputes[d].resolution
        <=> disputes[d].status \in {"resolved", "acknowledged"}
Order(status) ==
    CASE status = "none" -> 0 [] status = "evidence_open" -> 1
      [] status = "arbitrating" -> 2 [] status = "resolved" -> 3
      [] status = "acknowledged" -> 4
DisputeForward ==
    [][overlaps' = 0 =>
         \A d \in Disputes :
           /\ Order(disputes[d].status) <= Order(disputes'[d].status)
           /\ disputes[d].evidence => disputes'[d].evidence]_settlementVars

\* In every interleaving a dispute has a resolution exactly when it is
\* resolved or acknowledged: stale saves undo a decision as a whole.  Without
\* two operations at once, it only moves forward and keeps the evidence,
\* though owner, platform and scan act on it in any order.
DisputesSound == []ResolvedIffDecided /\ DisputeForward

AppealCloses ==
    (order.appeal /\ order.settled)
      ~> (settlement.status = "appeal_closed"
            \/ ~order.appeal \/ ~order.settled)
EvidenceEnds ==
    \A d \in Disputes : (disputes[d].status = "evidence_open")
                          ~> (disputes[d].status # "evidence_open")

\* The scan comes to an end with both: the period of appeal of a settled order
\* is closed, unless the stale save of another operation takes back one of the
\* two marks of the order that the scan looks for; and every dispute gets to
\* arbitration, though a dispute that leaves the state in which it was listed
\* makes the scan lose the rest of its pass.
ScanCloses == AppealCloses /\ EvidenceEnds
=============================================================================
