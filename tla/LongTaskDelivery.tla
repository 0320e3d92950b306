-------------------------- MODULE LongTaskDelivery --------------------------
(***************************************************************************)
(* The deliveries of one long task order whose specification is signed:    *)
(* submission, gates, review, reminders and acceptance by silence          *)
(* (delivery-contract.service.ts), and the negotiation that follows when   *)
(* the revisions are used up (revision-negotiation.service.ts).            *)
(*                                                                         *)
(* Every operation loads a row and later saves all its columns; the loads  *)
(* before its first write are one step.  Of the order row this module      *)
(* keeps the columns that these operations write, and whether it has an    *)
(* employer.  Each delivery has an age in days: a reminder is due on its   *)
(* day, not before or after it (delivery-reminders.ts).  Other deadlines   *)
(* may have passed at any later time.                                      *)
(*                                                                         *)
(* FirstSubmitted, NoPeriod, BelowLimit, NoneEligible, AnyGates and        *)
(* ResolvesOnly are faulty variants, used only to show that the properties *)
(* notice them.                                                            *)
(***************************************************************************)
EXTENDS Integers, FiniteSets

CONSTANTS
    Requests,       \* ids of concurrent HTTP requests; one takes the lowest
                    \* that is free
    Scanner,        \* the deadline scan, kept single by an advisory lock
    Seqs,           \* the values of submission_seq
    Negotiations,   \* bound: ids of the negotiations
    ReminderDays,   \* DELIVERY_REMINDER_DAYS, 5, 9 and 13 in the code
    Deadline,       \* AUTO_ACCEPT_WINDOW_MS, in days: 14 in the code
    RevisionLimit,  \* DEFAULT_REVISION_LIMIT, 2 in the code
    NeedReminders,  \* LONGTASK_REQUIRE_REMINDERS_BEFORE_AUTO_ACCEPT
    MaxDisturbed    \* bound on the operations that begin during another one,
                    \* and on those that end early, together

ASSUME ProcessAssumption == Requests \subseteq Nat \ {0} /\ Scanner = 0
ASSUME IdsAssumption ==
    Seqs \subseteq Nat \ {0} /\ Negotiations \subseteq Nat \ {0}
ASSUME DaysAssumption ==
    Deadline \in Nat /\ ReminderDays \subseteq 1..Deadline - 1
ASSUME SwitchAssumption == NeedReminders \in BOOLEAN
ASSUME BoundAssumption ==
    RevisionLimit \in Nat /\ MaxDisturbed \in Nat

VARIABLES
    order,         \* the row: deliveryStatus, whether afterSaleDeadline and
                   \* employerUserId are set
    deliveries,    \* the deliveries: status, gates_all_passed, reminders sent
    negotiations,  \* the negotiations: status and, once resolved, decision
    age,           \* external: how old each delivery is
    notified,      \* external: the reminders the employer was sent
    req,           \* the operations under way, with what each one loaded
    stops,         \* operations that ended with an exception or a stop
    overlaps       \* operations that began while another one was under way

rows == <<order, deliveries, negotiations>>
outside == <<age, notified>>
vars == <<rows, outside, req, stops, overlaps>>

Processes == Requests \cup {Scanner}
Ages == 0..Deadline
OrderRow == [delivery : {"none", "in_accept", "revising", "accepted"},
             appeal : BOOLEAN, employer : BOOLEAN]
DeliveryStatuses == {"none", "submitted", "accepted", "rejected",
                     "revision_requested", "auto_accepted"}
DeliveryRow == [status : DeliveryStatuses, gates : BOOLEAN,
                reminded : SUBSET ReminderDays]
\* "C" accepts the current delivery; the other decisions change nothing here.
NegotiationStatuses == {"none", "open", "C", "other"}
Actions == {"accepted", "rejected", "revision_requested"}
\* The three scans of one pass: acceptance, reminders, negotiations.
Scans == {"auto", "remind", "C"}
Steps == Actions \cup Scans \cup
         {"idle", "insert", "inAccept", "revise", "negotiate", "gate", "scan",
          "load", "accept", "other", "claim"}
None == 0

NewOrder == [delivery |-> "none", appeal |-> FALSE, employer |-> FALSE]
NewDelivery == [status |-> "none", gates |-> FALSE, reminded |-> {}]
NoRows == [s \in Seqs |-> NewDelivery]
Idle == [at |-> "idle", copy |-> NewOrder, id |-> None, row |-> NewDelivery,
         scan |-> "auto", todo |-> NoRows, open |-> {}]

\* An order may have been created without an employer.
Init ==
    /\ order \in {NewOrder, [NewOrder EXCEPT !.employer = TRUE]}
    /\ deliveries = NoRows
    /\ negotiations = [n \in Negotiations |-> "none"]
    /\ age = [s \in Seqs |-> 0]
    /\ notified = [s \in Seqs |-> {}]
    /\ req = [p \in Processes |-> Idle]
    /\ stops = 0
    /\ overlaps = 0

At(p, step) == req[p].at = step
Free(p) == req[p] = Idle
Quiet == \A p \in Processes : Free(p)
\* The operation goes on without what it loaded; a scan keeps its list.
Proceed(p, step) ==
    req' = [req EXCEPT ![p] = [@ EXCEPT !.at = step, !.copy = NewOrder,
                                 !.id = None, !.row = NewDelivery]]
\* A request is over; the scan goes on with the next row.
Finish(p) == Proceed(p, IF p = Scanner THEN "scan" ELSE "idle")
Load(p, loaded) == req' = [req EXCEPT ![p] = loaded]

Begin(p, loaded) ==
    /\ Free(p)
    /\ Load(p, loaded)
    /\ IF Quiet THEN UNCHANGED overlaps
       ELSE overlaps + stops < MaxDisturbed /\ overlaps' = overlaps + 1
    /\ UNCHANGED <<rows, outside, stops>>
Arrives(p) == p \in Requests /\ \A q \in Requests : q < p => ~Free(q)

Submitted == {s \in Seqs : deliveries[s].status = "submitted"}
SaveDelivery(s, row) == deliveries' = [deliveries EXCEPT ![s] = row]

-----------------------------------------------------------------------------
(* submitDeliverable                                                       *)

StartSubmit(p, s) ==
    /\ Arrives(p)
    /\ deliveries[s].status = "none"
    /\ Begin(p, [Idle EXCEPT !.at = "insert", !.copy = order, !.id = s])

\* UNIQUE(order_id, submission_seq): the second insert throws.
InsertDelivery(p) ==
    LET s == req[p].id IN
    /\ At(p, "insert")
    /\ \/ /\ deliveries[s].status = "none"
          /\ \E g \in BOOLEAN :
               SaveDelivery(s, [status |-> "submitted", gates |-> g,
                                reminded |-> {}])
          /\ req' = [req EXCEPT ![p].at = "inAccept", ![p].id = None]
       \/ deliveries[s].status # "none" /\ Finish(p) /\ UNCHANGED deliveries
    /\ UNCHANGED <<order, negotiations, outside, stops, overlaps>>

SaveInAccept(p) ==
    /\ At(p, "inAccept")
    /\ order' = [req[p].copy EXCEPT !.delivery = "in_accept"]
    /\ Finish(p)
    /\ UNCHANGED <<deliveries, negotiations, outside, stops, overlaps>>

-----------------------------------------------------------------------------
(* employerReview                                                          *)

FirstSubmitted(s) == s \in Seqs /\ deliveries[s].status # "none"
\* The submitted delivery with the highest number is the one under review.
UnderReview(s) == s \in Submitted /\ \A t \in Submitted : t <= s

StartReview(p, action) ==
    /\ Arrives(p)
    /\ \E s \in Seqs :
         /\ UnderReview(s)
         /\ Begin(p, [Idle EXCEPT !.at = action, !.copy = order, !.id = s,
                                 !.row = deliveries[s]])

\* A rejection leaves the order as it is.
SaveReview(p) ==
    LET s == req[p].id IN
    /\ req[p].at \in Actions
    /\ SaveDelivery(s, [req[p].row EXCEPT !.status = req[p].at])
    /\ CASE At(p, "accepted") ->
              req' = [req EXCEPT ![p] = [Idle EXCEPT !.at = "accept",
                                                     !.copy = req[p].copy]]
         [] At(p, "revision_requested") ->
              req' = [req EXCEPT ![p].at = "revise", ![p].row = NewDelivery]
         [] At(p, "rejected") -> Finish(p)
    /\ UNCHANGED <<order, negotiations, outside, stops, overlaps>>

NoPeriod(row) == [row EXCEPT !.delivery = "accepted"]
\* The acceptance opens the seven days of appeal.
Accepted(row) == [row EXCEPT !.delivery = "accepted", !.appeal = TRUE]

SaveAccepted(p) ==
    /\ At(p, "accept")
    /\ order' = Accepted(req[p].copy)
    /\ Finish(p)
    /\ UNCHANGED <<deliveries, negotiations, outside, stops, overlaps>>

BelowLimit(s) == s > RevisionLimit
UsedUp(s) == s >= RevisionLimit

SaveRevising(p) ==
    /\ At(p, "revise")
    /\ order' = [req[p].copy EXCEPT !.delivery = "revising"]
    /\ IF UsedUp(req[p].id) THEN Proceed(p, "negotiate") ELSE Finish(p)
    /\ UNCHANGED <<deliveries, negotiations, outside, stops, overlaps>>

\* start, after a review or by Console, asks for no earlier negotiation.
Unused == {n \in Negotiations : negotiations[n] = "none"}
StartNegotiation(p) ==
    /\ Arrives(p) /\ Unused # {}
    /\ Begin(p, [Idle EXCEPT !.at = "negotiate"])
InsertNegotiation(p) ==
    /\ At(p, "negotiate")
    /\ IF Unused = {} THEN UNCHANGED negotiations
       ELSE \E n \in Unused :
              negotiations' = [negotiations EXCEPT ![n] = "open"]
    /\ Finish(p)
    /\ UNCHANGED <<order, deliveries, outside, stops, overlaps>>

-----------------------------------------------------------------------------
(* updateGateResult saves the delivery as it was read, and so does         *)
(* dispatchDueReminders; claimEmployer saves the order so                  *)

StartGate(p, s) ==
    /\ Arrives(p)
    /\ s \in Submitted
    /\ Begin(p, [Idle EXCEPT !.at = "gate", !.id = s, !.row = deliveries[s]])

SaveRead(p) ==
    /\ \/ At(p, "gate") /\ \E g \in BOOLEAN :
            SaveDelivery(req[p].id, [req[p].row EXCEPT !.gates = g])
       \/ At(p, "remind") /\ SaveDelivery(req[p].id, req[p].row)
    /\ Finish(p)
    /\ UNCHANGED <<order, negotiations, outside, stops, overlaps>>

\* Whoever first looks at an order without an employer becomes it.
StartClaim(p) ==
    /\ Arrives(p)
    /\ ~order.employer
    /\ Begin(p, [Idle EXCEPT !.at = "claim", !.copy = order])

SaveClaim(p) ==
    /\ At(p, "claim")
    /\ order' = [req[p].copy EXCEPT !.employer = TRUE]
    /\ Finish(p)
    /\ UNCHANGED <<deliveries, negotiations, outside, stops, overlaps>>

-----------------------------------------------------------------------------
(* The scan: scanAutoAccept, dispatchDueReminders, scanNegotiationTimeouts *)

NoneEligible(row) == FALSE
AnyGates(row) == NeedReminders => row.reminded = ReminderDays
Eligible(row) == row.gates /\ (NeedReminders => row.reminded = ReminderDays)

\* dueReminderDays
Due(a) == ReminderDays \cap {a}

AutoDue == {s \in Submitted : age[s] = Deadline /\ Eligible(deliveries[s])}
ReminderDue ==
    {s \in Submitted : ~(Due(age[s]) \subseteq deliveries[s].reminded)}
NegotiationDue == {n \in Negotiations : negotiations[n] = "open"}
NothingDue ==
    /\ AutoDue = {}
    /\ ReminderDue = {} \/ ~order.employer
    /\ NegotiationDue = {}

\* One pass of the scanner reads the clock once; each scan loads its rows at
\* once, and then works on one copy after the other, in any order.
Copies(S) == [s \in Seqs |-> IF s \in S THEN deliveries[s] ELSE NewDelivery]
Listed == {s \in Seqs : req[Scanner].todo[s] # NewDelivery}

StartScan ==
    /\ ~NothingDue
    /\ Begin(Scanner, [Idle EXCEPT !.at = "scan", !.todo = Copies(AutoDue)])

NextRow ==
    LET q == req[Scanner] IN
    /\ q.at = "scan"
    /\ \/ /\ q.scan = "auto"
          /\ \E s \in Listed :
               Load(Scanner,
                    [q EXCEPT !.at = "auto", !.id = s, !.row = q.todo[s],
                              !.todo = [q.todo EXCEPT ![s] = NewDelivery]])
       \/ \E n \in q.open :
            Load(Scanner, [q EXCEPT !.at = "C", !.id = n, !.open = @ \ {n}])
    /\ UNCHANGED <<rows, outside, stops, overlaps>>

\* The reminder is sent before it is recorded; without an employer, neither.
Remind ==
    LET q == req[Scanner] IN
    /\ q.at = "scan" /\ q.scan = "remind"
    /\ \E s \in Listed :
         LET rest == [q.todo EXCEPT ![s] = NewDelivery]
             row == [q.todo[s] EXCEPT !.reminded = @ \cup Due(age[s])]
         IN \/ /\ order.employer
               /\ notified' = [notified EXCEPT ![s] = @ \cup Due(age[s])]
               /\ Load(Scanner, [q EXCEPT !.at = "remind", !.id = s,
                                          !.row = row, !.todo = rest])
            \/ /\ ~order.employer
               /\ Load(Scanner, [q EXCEPT !.todo = rest])
               /\ UNCHANGED notified
    /\ UNCHANGED <<rows, age, stops, overlaps>>

NextScan ==
    /\ At(Scanner, "scan") /\ Listed = {} /\ req[Scanner].open = {}
    /\ Load(Scanner,
            CASE req[Scanner].scan = "auto" ->
                   [Idle EXCEPT !.at = "scan", !.scan = "remind",
                                !.todo = Copies(ReminderDue)]
              [] req[Scanner].scan = "remind" ->
                   [Idle EXCEPT !.at = "scan", !.scan = "C",
                                !.open = NegotiationDue]
              [] req[Scanner].scan = "C" -> Idle)
    /\ UNCHANGED <<rows, outside, stops, overlaps>>

SaveAutoAccepted(p) ==
    /\ At(p, "auto")
    /\ SaveDelivery(req[p].id, [req[p].row EXCEPT !.status = "auto_accepted"])
    /\ Proceed(p, "load")
    /\ UNCHANGED <<order, negotiations, outside, stops, overlaps>>

\* The order is loaded only now, and accepted.
LoadOrder(p) ==
    /\ At(p, "load")
    /\ req' = [req EXCEPT ![p].at = "accept", ![p].copy = order]
    /\ UNCHANGED <<rows, outside, stops, overlaps>>

-----------------------------------------------------------------------------
(* decide, and the end of a negotiation that the scan decides              *)

StartDecide(p, n, decision) ==
    /\ Arrives(p)
    /\ negotiations[n] = "open"
    /\ Begin(p, [Idle EXCEPT !.at = decision, !.id = n])

ResolvesOnly(p) == Finish(p)
ThenAccepts(p) == IF At(p, "C") THEN Proceed(p, "load") ELSE Finish(p)

SaveDecision(p) ==
    /\ req[p].at \in {"C", "other"}
    /\ negotiations' = [negotiations EXCEPT ![req[p].id] = req[p].at]
    /\ ThenAccepts(p)
    /\ UNCHANGED <<order, deliveries, outside, stops, overlaps>>

-----------------------------------------------------------------------------
\* A day passes.  Only the scanner looks at the clock, once in a pass, so the
\* day may as well pass between two passes.
Older == {s \in Seqs : deliveries[s].status # "none" /\ age[s] < Deadline}
Day ==
    /\ Free(Scanner)
    /\ Older # {}
    /\ age' = [s \in Seqs |-> IF s \in Older THEN age[s] + 1 ELSE age[s]]
    /\ UNCHANGED <<rows, notified, req, stops, overlaps>>

\* A database call throws, or the process stops.
Stop(p) ==
    /\ overlaps + stops < MaxDisturbed
    /\ ~Free(p)
    /\ stops' = stops + 1
    /\ Load(p, Idle)
    /\ UNCHANGED <<rows, outside, overlaps>>

Continue(p) ==
    \/ InsertDelivery(p)
    \/ SaveInAccept(p)
    \/ SaveReview(p)
    \/ SaveAccepted(p)
    \/ SaveRevising(p)
    \/ InsertNegotiation(p)
    \/ SaveRead(p)
    \/ SaveClaim(p)
    \/ SaveAutoAccepted(p)
    \/ LoadOrder(p)
    \/ SaveDecision(p)

Next ==
    \/ StartScan
    \/ NextRow
    \/ Remind
    \/ NextScan
    \/ Day
    \/ \E p \in Processes :
         \/ \E s \in Seqs : StartSubmit(p, s) \/ StartGate(p, s)
         \/ \E a \in Actions : StartReview(p, a)
         \/ StartNegotiation(p) \/ StartClaim(p)
         \/ \E n \in Negotiations, d \in {"C", "other"} : StartDecide(p, n, d)
         \/ Continue(p)
         \/ Stop(p)

Spec == Init /\ [][Next]_vars

\* Time passes, an operation that began runs on, and every five minutes the
\* scanner goes through the deliveries and the negotiations.
Fairness ==
    /\ SF_vars(Day)
    /\ \A p \in Processes : WF_vars(Continue(p))
    /\ SF_vars(StartScan)
    /\ WF_vars(NextRow \/ Remind \/ NextScan)

FairSpec == Spec /\ Fairness

-----------------------------------------------------------------------------
\* The rows and the operations keep their shape.
TypeOK ==
    /\ order \in OrderRow
    /\ deliveries \in [Seqs -> DeliveryRow]
    /\ negotiations \in [Negotiations -> NegotiationStatuses]
    /\ age \in [Seqs -> Ages]
    /\ notified \in [Seqs -> SUBSET ReminderDays]
    /\ req \in [Processes -> [at : Steps, copy : OrderRow,
                              id : Seqs \cup Negotiations \cup {None},
                              row : DeliveryRow, scan : Scans,
                              todo : [Seqs -> DeliveryRow],
                              open : SUBSET Negotiations]]
    /\ stops \in 0..MaxDisturbed
    /\ overlaps \in 0..MaxDisturbed

AcceptedHasAppeal == order.delivery = "accepted" => order.appeal
RemindedFirst ==
    \A s \in Seqs : deliveries[s].status = "auto_accepted"
                      => (NeedReminders => notified[s] = ReminderDays)
Waits(s) ==
    /\ deliveries[s].status = "submitted" /\ deliveries[s].gates
    /\ NeedReminders => deliveries[s].reminded = ReminderDays
SilenceEarned ==
    \A s \in Seqs :
      deliveries'[s].status = "auto_accepted" /\ deliveries'[s] # deliveries[s]
        => (overlaps' = 0 => Waits(s))

\* Whatever stale copies are saved over each other, an accepted order has its
\* period of appeal, so its settlement can be closed (employerReview,
\* scanAutoAccept, acceptCurrent); and where they are required, silence never
\* accepts a delivery before the employer was sent every reminder
\* (isAutoAcceptEligible).  Without two operations at once, it accepts a
\* delivery only while its row, as it is when the scan saves over it, waits
\* for a decision with its gates passed: with two, the scan goes by the gate
\* result it had loaded, and saves it over a later one.
AcceptanceSound ==
    [](AcceptedHasAppeal /\ RemindedFirst) /\ [][SilenceEarned]_vars

Grounds ==
    \/ \E s \in Seqs : deliveries[s].status \in {"accepted", "auto_accepted"}
    \/ \E n \in Negotiations : negotiations[n] = "C"

\* Without two operations at once, a period of appeal runs only because of an
\* accepted delivery or a negotiation that ended so; and once an operation is
\* over, it runs in each of these cases unless one stopped half way.
AppealGrounded ==
    overlaps = 0 =>
      /\ order.appeal => Grounds
      /\ Quiet /\ stops = 0 /\ Grounds => order.appeal

\* Without two operations at once, a delivery is decided once: a late gate
\* result, reminder or review does not open it again.
DecidedOnce ==
    [][overlaps' = 0 =>
         \A s \in Seqs : deliveries[s].status \notin {"none", "submitted"}
           => deliveries'[s].status = deliveries[s].status]_vars

\* Once the operations are over, a revision that was asked for at the limit has
\* opened a negotiation ("修订次数超限", delivery-contract.service.ts 148),
\* unless two ran at once or one stopped.
LimitNegotiates ==
    overlaps = 0 /\ stops = 0 /\ Quiet =>
      \A s \in Seqs :
        deliveries[s].status = "revision_requested" /\ s >= RevisionLimit
          => \E n \in Negotiations : negotiations[n] # "none"

SilenceAccepts == \A s \in Seqs : []<>~Waits(s)
NegotiationEnds ==
    \A n \in Negotiations :
      []<>CASE negotiations[n] = "open" -> FALSE
            [] negotiations[n] = "C" -> order.appeal \/ stops + overlaps > 0
            [] OTHER -> TRUE

\* A delivery that passed its gates and, where they are required, has all its
\* reminders is not left to the employer's silence for ever, nor to stale saves
\* that open it again; one whose reminder was missed is.  A negotiation does
\* not stay open, and one that ends for the delivery comes to the acceptance of
\* the order, unless two operations ran at once or one stopped (scanAutoAccept,
\* scanNegotiationTimeouts, decide).
ScanDecides == SilenceAccepts /\ NegotiationEnds
=============================================================================
