----------------------- MODULE LongTaskDeliveryProofs -----------------------
(***************************************************************************)
(* Proofs about LongTaskDelivery, for any number of requests, deliveries,  *)
(* reminders, negotiations and overlapping operations.  The inductive      *)
(* invariant IInv asks of the copies that operations hold, and of those a  *)
(* scan still has to work on, what it asks of the rows; KInv adds what the *)
(* employer was sent.  While no operation has begun during another one,    *)
(* the deliveries these copies are of are undecided (IInv), the scan that  *)
(* accepts holds them as they are (FInv), the order an operation loaded is *)
(* the row, and what it has still to save is what separates the row from   *)
(* its deliveries and negotiations (GInv).                                 *)
(***************************************************************************)
EXTENDS LongTaskDelivery, TLAPS

Request == [at : Steps, copy : OrderRow,
            id : Seqs \cup Negotiations \cup {None},
            row : DeliveryRow, scan : Scans,
            todo : [Seqs -> DeliveryRow], open : SUBSET Negotiations]

\* TypeOK, but for the world outside.
RowsOK ==
    /\ order \in OrderRow
    /\ deliveries \in [Seqs -> DeliveryRow]
    /\ negotiations \in [Negotiations -> NegotiationStatuses]
    /\ req \in [Processes -> Request]
    /\ stops \in 0..MaxDisturbed
    /\ overlaps \in 0..MaxDisturbed
\* Time passes, or nothing does.
Still == UNCHANGED <<rows, req, stops, overlaps>>

\* What AcceptedHasAppeal says, of any row; a row that silence accepted has
\* recorded that its gates passed and its reminders were sent.
Appealable(row) == row.delivery = "accepted" => row.appeal
Earned(row) ==
    row.status = "auto_accepted"
      => /\ row.gates
         /\ NeedReminders => row.reminded = ReminderDays
RowsEarned == \A s \in Seqs : Earned(deliveries[s])

\* The steps that save a delivery that exists.
RowSteps == Actions \cup {"gate", "remind", "auto"}

\* What an operation has checked still holds of its copies, and a scan has
\* taken the row in hand from its list.
OpSound(r) ==
    /\ Appealable(r.copy)
    /\ r.at \in RowSteps => /\ r.row.status = "submitted"
                            /\ r.id \in Seqs /\ r.todo[r.id] = NewDelivery
    /\ r.at = "auto" => Eligible(r.row)
    /\ r.scan = "auto" =>
         \A s \in Seqs : r.todo[s] # NewDelivery => Eligible(r.todo[s])
    /\ \A s \in Seqs :
         r.todo[s] # NewDelivery => r.todo[s].status = "submitted"

\* Of the rows that were loaded as submitted, none has been decided since.
Undecided(r, table) ==
    /\ r.at \in RowSteps => table[r.id].status = "submitted"
    /\ \A s \in Seqs :
         r.todo[s] # NewDelivery => table[s].status = "submitted"

Serial ==
    overlaps = 0 => \A p \in Processes :
      /\ ~Free(p) => \A q \in Processes \ {p} : Free(q)
      /\ Undecided(req[p], deliveries)

IInv ==
    /\ RowsOK
    /\ AcceptedHasAppeal
    /\ RowsEarned
    /\ \A p \in Processes : OpSound(req[p])
    /\ Serial

-----------------------------------------------------------------------------
LEMMA IdleSound ==
    /\ NewOrder \in OrderRow /\ Appealable(NewOrder)
    /\ NewDelivery \in DeliveryRow
    /\ NoRows \in [Seqs -> DeliveryRow]
    /\ Idle \in Request /\ OpSound(Idle)
    /\ \A d : Undecided(Idle, d)
<1>1. NewOrder \in OrderRow /\ Appealable(NewOrder)
  BY DEF NewOrder, OrderRow, Appealable
<1>2. NewDelivery \in DeliveryRow
  BY DEF NewDelivery, DeliveryRow, DeliveryStatuses
<1>3. /\ NoRows \in [Seqs -> DeliveryRow]
      /\ \A s \in Seqs : NoRows[s] = NewDelivery
  BY <1>2 DEF NoRows
<1>4. Idle \in Request
  BY <1>1, <1>2, <1>3 DEF Idle, Request, Steps, Scans
<1>5. Idle.at \notin RowSteps /\ Idle.at # "auto"
  BY DEF Idle, RowSteps, Actions
<1>6. Idle.copy = NewOrder /\ Idle.todo = NoRows
  BY DEF Idle
<1>7. OpSound(Idle)
  BY <1>1, <1>3, <1>5, <1>6 DEF OpSound
<1>8. \A d : Undecided(Idle, d)
  BY <1>3, <1>5, <1>6 DEF Undecided
<1> QED BY <1>1, <1>2, <1>3, <1>4, <1>7, <1>8

LEMMA InitIInv == Init => IInv
<1> SUFFICES ASSUME Init PROVE IInv OBVIOUS
<1>0. order \in OrderRow
  <2>1. NewOrder \in OrderRow
    BY IdleSound
  <2>2. [NewOrder EXCEPT !.employer = TRUE] \in OrderRow
    BY <2>1 DEF OrderRow
  <2> QED BY <2>1, <2>2 DEF Init
<1>1. RowsOK
  BY <1>0, IdleSound, BoundAssumption
  DEF Init, RowsOK, Request, NegotiationStatuses
<1>2. AcceptedHasAppeal /\ RowsEarned
  BY DEF Init, AcceptedHasAppeal, RowsEarned, Earned, NewOrder, NewDelivery,
         NoRows
<1>3. \A p \in Processes : OpSound(req[p])
  BY IdleSound DEF Init
<1>4. Serial
  BY IdleSound DEF Init, Serial, Free
<1> QED BY <1>1, <1>2, <1>3, <1>4 DEF IInv

\* An operation begins, with rows as they are.
LEMMA BeginKeeps ==
    ASSUME IInv, NEW p \in Processes, NEW v \in Request, Begin(p, v),
           OpSound(v), Undecided(v, deliveries)
    PROVE  IInv'
<1>1. /\ req' = [req EXCEPT ![p] = v] /\ Free(p)
      /\ UNCHANGED <<order, deliveries, negotiations, stops>>
  BY DEF Begin, Load, rows
<1>2. req' \in [Processes -> Request]
  BY <1>1 DEF IInv, RowsOK, Request
<1>3. overlaps' \in 0..MaxDisturbed
  BY BoundAssumption DEF Begin, IInv, RowsOK
<1>4. RowsOK'
  BY <1>1, <1>2, <1>3 DEF IInv, RowsOK, Request
<1>5. \A q \in Processes : OpSound(req[q])'
  BY <1>1 DEF IInv, RowsOK, OpSound
<1>6. Serial'
  <2> SUFFICES ASSUME overlaps' = 0 PROVE Serial' BY DEF Serial
  <2>1. Quiet
    BY BoundAssumption DEF Begin, IInv, RowsOK
  <2>2. \A q \in Processes \ {p} : req'[q] = Idle
    BY <2>1, <1>1 DEF Quiet, Free, IInv, RowsOK
  <2>3. req'[p] = v
    BY <1>1 DEF IInv, RowsOK
  <2> QED BY <1>1, <2>2, <2>3, IdleSound DEF Serial, Free
<1>7. AcceptedHasAppeal' /\ RowsEarned'
  BY <1>1 DEF IInv, AcceptedHasAppeal, RowsEarned
<1> QED BY <1>4, <1>5, <1>6, <1>7 DEF IInv

\* The operation p goes on with v, and may save rows.
LEMMA StepKeeps ==
    ASSUME IInv, NEW p \in Processes, ~Free(p), NEW v \in Request,
           req' = [req EXCEPT ![p] = v], OpSound(v),
           order' \in OrderRow, Appealable(order'),
           deliveries' \in [Seqs -> DeliveryRow],
           \A s \in Seqs : Earned(deliveries'[s]),
           negotiations' \in [Negotiations -> NegotiationStatuses],
           stops' \in 0..MaxDisturbed, UNCHANGED overlaps,
           overlaps = 0 => Undecided(v, deliveries')
    PROVE  IInv'
<1>1. req' \in [Processes -> Request]
  BY DEF IInv, RowsOK, Request
<1>2. \A q \in Processes : OpSound(req[q])'
  BY DEF IInv, RowsOK, OpSound
<1>3. Serial'
  <2> SUFFICES ASSUME overlaps = 0 PROVE Serial' BY DEF Serial
  <2>1. \A q \in Processes \ {p} : req'[q] = Idle
    BY DEF IInv, Serial, Free, RowsOK
  <2>2. req'[p] = v
    BY DEF IInv, RowsOK
  <2> QED BY <2>1, <2>2, IdleSound DEF Serial, Free
<1>4. RowsOK'
  BY <1>1 DEF IInv, RowsOK, Request
<1>5. AcceptedHasAppeal' /\ RowsEarned'
  BY DEF Appealable, Earned, AcceptedHasAppeal, RowsEarned
<1> QED BY <1>2, <1>3, <1>4, <1>5 DEF IInv

-----------------------------------------------------------------------------
(* The operations that begin, and the passes of the scan                   *)

\* An operation without a delivery in hand, that is not a scan's.
LEMMA PlainSound ==
    ASSUME NEW v \in Request, v.at \notin RowSteps, Appealable(v.copy),
           v.todo = NoRows
    PROVE  OpSound(v) /\ \A d : Undecided(v, d)
<1>1. \A s \in Seqs : v.todo[s] = NewDelivery
  BY DEF NoRows
<1>2. v.at # "auto"
  BY DEF RowSteps
<1> QED BY <1>1, <1>2 DEF OpSound, Undecided

\* A request takes a submitted delivery.
LEMMA TakeSound ==
    ASSUME NEW v \in Request, NEW s \in Submitted, Appealable(v.copy),
           v.at # "auto", v.id = s, v.row = deliveries[s], v.todo = NoRows
    PROVE  OpSound(v) /\ Undecided(v, deliveries)
<1>1. s \in Seqs /\ deliveries[s].status = "submitted"
  BY DEF Submitted
<1>2. \A t \in Seqs : v.todo[t] = NewDelivery
  BY DEF NoRows
<1> QED BY <1>1, <1>2 DEF OpSound, Undecided

LEMMA StartKeeps ==
    ASSUME IInv, NEW p \in Processes,
           \/ \E s \in Seqs : StartSubmit(p, s) \/ StartGate(p, s)
           \/ \E a \in Actions : StartReview(p, a)
           \/ StartNegotiation(p) \/ StartClaim(p)
           \/ \E n \in Negotiations, d \in {"C", "other"} :
                StartDecide(p, n, d)
    PROVE  IInv'
<1>0. order \in OrderRow /\ Appealable(order)
  BY DEF IInv, RowsOK, AcceptedHasAppeal, Appealable
<1>1. ASSUME NEW s \in Seqs, StartSubmit(p, s) PROVE IInv'
  <2> DEFINE v == [Idle EXCEPT !.at = "insert", !.copy = order, !.id = s]
  <2>1. v \in Request
    BY <1>0, IdleSound DEF Request, Steps
  <2>2. v.at \notin RowSteps /\ v.copy = order /\ v.todo = NoRows
    BY DEF Idle, RowSteps, Actions
  <2> QED BY <1>0, <1>1, <2>1, <2>2, PlainSound, BeginKeeps DEF StartSubmit
<1>2. ASSUME NEW s \in Seqs, StartGate(p, s) PROVE IInv'
  <2> DEFINE v == [Idle EXCEPT !.at = "gate", !.id = s, !.row = deliveries[s]]
  <2>1. v \in Request
    BY IdleSound DEF Request, Steps, IInv, RowsOK
  <2>2. /\ v.at = "gate" /\ v.copy = NewOrder /\ v.id = s
        /\ v.row = deliveries[s] /\ v.todo = NoRows
    BY DEF Idle
  <2> QED BY <1>2, <2>1, <2>2, IdleSound, TakeSound, BeginKeeps DEF StartGate
<1>3. ASSUME NEW a \in Actions, StartReview(p, a) PROVE IInv'
  <2>1. PICK s \in Submitted :
          Begin(p, [Idle EXCEPT !.at = a, !.copy = order, !.id = s,
                                !.row = deliveries[s]])
    BY <1>3 DEF StartReview, UnderReview
  <2> DEFINE v == [Idle EXCEPT !.at = a, !.copy = order, !.id = s,
                               !.row = deliveries[s]]
  <2>2. v \in Request
    BY <1>0, IdleSound DEF Request, Steps, IInv, RowsOK, Submitted
  <2>3. /\ v.at = a /\ v.copy = order /\ v.id = s
        /\ v.row = deliveries[s] /\ v.todo = NoRows
    BY DEF Idle
  <2>4. a # "auto"
    BY DEF Actions
  <2> QED BY <1>0, <2>1, <2>2, <2>3, <2>4, TakeSound, BeginKeeps
<1>4. CASE StartNegotiation(p)
  <2> DEFINE v == [Idle EXCEPT !.at = "negotiate"]
  <2>1. v \in Request
    BY IdleSound DEF Request, Steps
  <2>2. v.at \notin RowSteps /\ v.copy = NewOrder /\ v.todo = NoRows
    BY DEF Idle, RowSteps, Actions
  <2> QED BY <1>4, <2>1, <2>2, IdleSound, PlainSound, BeginKeeps
          DEF StartNegotiation
<1>5. ASSUME NEW n \in Negotiations, NEW d \in {"C", "other"},
             StartDecide(p, n, d)
      PROVE  IInv'
  <2> DEFINE v == [Idle EXCEPT !.at = d, !.id = n]
  <2>1. v \in Request
    BY IdleSound DEF Request, Steps, Scans
  <2>2. v.at \notin RowSteps /\ v.copy = NewOrder /\ v.todo = NoRows
    BY DEF Idle, RowSteps, Actions
  <2> QED BY <1>5, <2>1, <2>2, IdleSound, PlainSound, BeginKeeps
          DEF StartDecide
<1>6. CASE StartClaim(p)
  <2> DEFINE v == [Idle EXCEPT !.at = "claim", !.copy = order]
  <2>1. v \in Request
    BY <1>0, IdleSound DEF Request, Steps
  <2>2. v.at \notin RowSteps /\ v.copy = order /\ v.todo = NoRows
    BY DEF Idle, RowSteps, Actions
  <2> QED BY <1>0, <1>6, <2>1, <2>2, PlainSound, BeginKeeps DEF StartClaim
<1> QED BY <1>1, <1>2, <1>3, <1>4, <1>5, <1>6

\* A scan lists submitted deliveries, and the first one eligible ones.
LEMMA ListShape ==
    ASSUME IInv, NEW S \in SUBSET Submitted
    PROVE  /\ Copies(S) \in [Seqs -> DeliveryRow]
           /\ \A s \in Seqs : Copies(S)[s] # NewDelivery
                 => s \in S /\ Copies(S)[s] = deliveries[s]
BY IdleSound DEF Copies, IInv, RowsOK, Submitted

LEMMA ListSound ==
    ASSUME IInv, NEW S \in SUBSET Submitted, NEW v \in Request,
           v.at = "scan", v.copy = NewOrder, v.todo = Copies(S),
           v.scan = "auto" => \A s \in S : Eligible(deliveries[s])
    PROVE  OpSound(v) /\ Undecided(v, deliveries)
<1>1. \A s \in S : deliveries[s].status = "submitted"
  BY DEF Submitted
<1>2. v.at \notin RowSteps /\ v.at # "auto"
  BY DEF RowSteps, Actions
<1> QED BY <1>1, <1>2, ListShape, IdleSound DEF OpSound, Undecided

LEMMA ScanKeeps ==
    ASSUME IInv, StartScan \/ NextRow \/ Remind \/ NextScan
    PROVE  IInv'
<1> DEFINE q == req[Scanner]
<1>0. Scanner \in Processes
  BY DEF Processes
<1>1. q \in Request /\ OpSound(q) /\ (overlaps = 0 => Undecided(q, deliveries))
  BY <1>0 DEF IInv, RowsOK, Request, Serial
<1>2. CASE StartScan
  <2> DEFINE v == [Idle EXCEPT !.at = "scan", !.todo = Copies(AutoDue)]
  <2>1. /\ AutoDue \subseteq Submitted
        /\ \A s \in AutoDue : Eligible(deliveries[s])
    BY DEF AutoDue
  <2>2. v \in Request
    BY <2>1, ListShape, IdleSound DEF Request, Steps
  <2>3. v.at = "scan" /\ v.copy = NewOrder /\ v.todo = Copies(AutoDue)
    BY DEF Idle
  <2> QED BY <1>0, <1>2, <2>1, <2>2, <2>3, ListSound, BeginKeeps DEF StartScan
<1>3. ASSUME NEW v \in Request, Load(Scanner, v), OpSound(v), ~Free(Scanner),
             overlaps = 0 => Undecided(v, deliveries),
             UNCHANGED <<rows, stops, overlaps>>
      PROVE  IInv'
  <2>1. /\ order' \in OrderRow /\ Appealable(order')
        /\ deliveries' \in [Seqs -> DeliveryRow]
        /\ \A s \in Seqs : Earned(deliveries'[s])
        /\ negotiations' \in [Negotiations -> NegotiationStatuses]
        /\ stops' \in 0..MaxDisturbed /\ UNCHANGED overlaps
        /\ overlaps = 0 => Undecided(v, deliveries')
    BY <1>3 DEF rows, IInv, RowsOK, AcceptedHasAppeal, Appealable,
                RowsEarned, Earned
  <2> QED BY <1>0, <1>3, <2>1, StepKeeps DEF Load
\* The scan takes a row in hand, as it was listed or with a reminder more.
<1>4. ASSUME NEW s \in Listed, NEW row \in DeliveryRow,
             q.scan \in {"auto", "remind"},
             row.status = q.todo[s].status, q.scan = "auto" => row = q.todo[s],
             Load(Scanner,
                  [q EXCEPT !.at = q.scan, !.id = s, !.row = row,
                            !.todo = [q.todo EXCEPT ![s] = NewDelivery]]),
             ~Free(Scanner), UNCHANGED <<rows, stops, overlaps>>
      PROVE  IInv'
  <2> DEFINE v == [q EXCEPT !.at = q.scan, !.id = s, !.row = row,
                            !.todo = [q.todo EXCEPT ![s] = NewDelivery]]
  <2>1. s \in Seqs /\ q.todo[s] # NewDelivery
    BY DEF Listed
  <2>2. v \in Request
    BY <1>1, <1>4, <2>1, IdleSound DEF Request, Steps, Scans
  <2>3. /\ v.at = q.scan /\ v.id = s /\ v.row = row /\ v.copy = q.copy
        /\ v.scan = q.scan /\ v.todo = [q.todo EXCEPT ![s] = NewDelivery]
    BY <1>1 DEF Request
  <2>4. /\ v.todo[s] = NewDelivery
        /\ \A t \in Seqs :
             v.todo[t] # NewDelivery
               => v.todo[t] = q.todo[t] /\ q.todo[t] # NewDelivery
    BY <1>1, <2>1, <2>3 DEF Request
  <2>5. OpSound(v)
    BY <1>1, <1>4, <2>1, <2>3, <2>4 DEF OpSound
  <2>6. overlaps = 0 => Undecided(v, deliveries)
    BY <1>1, <2>1, <2>3, <2>4 DEF Undecided
  <2> QED BY <1>3, <1>4, <2>2, <2>5, <2>6
<1>5. CASE NextRow
  <2>1. q.at = "scan" /\ UNCHANGED <<rows, stops, overlaps>>
    BY <1>5, Zenon DEF NextRow
  <2>2. ~Free(Scanner)
    BY <2>1 DEF Free, Idle
  <2>3. ASSUME NEW s \in Listed, q.scan = "auto",
               Load(Scanner,
                    [q EXCEPT !.at = "auto", !.id = s, !.row = q.todo[s],
                              !.todo = [q.todo EXCEPT ![s] = NewDelivery]])
        PROVE  IInv'
    <3>1. q.todo[s] \in DeliveryRow
      BY <1>1 DEF Listed, Request
    <3> QED BY <1>4, <2>1, <2>2, <2>3, <3>1
  <2>4. ASSUME NEW n \in q.open,
               Load(Scanner, [q EXCEPT !.at = "C", !.id = n, !.open = @ \ {n}])
        PROVE  IInv'
    <3> DEFINE v == [q EXCEPT !.at = "C", !.id = n, !.open = @ \ {n}]
    <3>1. v \in Request
      BY <1>1 DEF Request, Steps, Scans
    <3>2. /\ v.at = "C" /\ v.copy = q.copy /\ v.scan = q.scan
          /\ v.todo = q.todo
      BY <1>1 DEF Request
    <3>3. v.at \notin RowSteps /\ v.at # "auto"
      BY <3>2 DEF RowSteps, Actions
    <3>4. OpSound(v) /\ (overlaps = 0 => Undecided(v, deliveries))
      BY <1>1, <3>2, <3>3 DEF OpSound, Undecided
    <3> QED BY <1>3, <2>1, <2>2, <2>4, <3>1, <3>4
  <2> QED BY <1>5, <2>3, <2>4, Zenon DEF NextRow
<1>6. CASE Remind
  <2>1. /\ q.at = "scan" /\ q.scan = "remind"
        /\ UNCHANGED <<rows, stops, overlaps>>
    BY <1>6 DEF Remind
  <2>2. ~Free(Scanner)
    BY <2>1 DEF Free, Idle
  <2>3. PICK s \in Listed :
          LET rest == [q.todo EXCEPT ![s] = NewDelivery]
              row == [q.todo[s] EXCEPT !.reminded = @ \cup Due(age[s])]
          IN \/ Load(Scanner, [q EXCEPT !.at = "remind", !.id = s,
                                        !.row = row, !.todo = rest])
             \/ Load(Scanner, [q EXCEPT !.todo = rest])
    BY <1>6 DEF Remind
  <2> DEFINE rest == [q.todo EXCEPT ![s] = NewDelivery]
             row == [q.todo[s] EXCEPT !.reminded = @ \cup Due(age[s])]
  <2>4. s \in Seqs /\ q.todo[s] \in DeliveryRow /\ q.todo[s] # NewDelivery
    BY <1>1 DEF Listed, Request
  <2>5. row \in DeliveryRow /\ row.status = q.todo[s].status
    BY <2>4 DEF DeliveryRow, Due
  <2>6. CASE Load(Scanner, [q EXCEPT !.at = "remind", !.id = s, !.row = row,
                                     !.todo = rest])
    <3> HIDE DEF row
    <3> QED BY <1>4, <2>1, <2>2, <2>5, <2>6
  <2>7. CASE Load(Scanner, [q EXCEPT !.todo = rest])
    <3> DEFINE v == [q EXCEPT !.todo = rest]
    <3>1. v \in Request
      BY <1>1, <2>4, IdleSound DEF Request
    <3>2. /\ v.at = "scan" /\ v.copy = q.copy /\ v.scan = "remind"
          /\ \A t \in Seqs : v.todo[t] # NewDelivery
                 => v.todo[t] = q.todo[t] /\ q.todo[t] # NewDelivery
      BY <1>1, <2>1, <2>4 DEF Request
    <3>3. v.at \notin RowSteps /\ v.at # "auto" /\ v.scan # "auto"
      BY <3>2 DEF RowSteps, Actions
    <3>4. OpSound(v) /\ (overlaps = 0 => Undecided(v, deliveries))
      BY <1>1, <3>2, <3>3 DEF OpSound, Undecided
    <3> QED BY <1>3, <2>1, <2>2, <2>7, <3>1, <3>4
  <2> QED BY <2>3, <2>6, <2>7
<1>7. CASE NextScan
  <2>1. ~Free(Scanner) /\ UNCHANGED <<rows, stops, overlaps>>
    BY <1>7 DEF NextScan, At, Free, Idle
  <2>2. CASE q.scan = "auto"
    <3> DEFINE v == [Idle EXCEPT !.at = "scan", !.scan = "remind",
                                 !.todo = Copies(ReminderDue)]
    <3>1. ReminderDue \subseteq Submitted
      BY DEF ReminderDue
    <3>2. Load(Scanner, v)
      BY <1>7, <2>2 DEF NextScan
    <3>3. v \in Request
      BY <3>1, ListShape, IdleSound DEF Request, Steps, Scans
    <3>4. /\ v.at = "scan" /\ v.copy = NewOrder /\ v.todo = Copies(ReminderDue)
          /\ v.scan = "remind"
      BY DEF Idle
    <3>5. OpSound(v) /\ Undecided(v, deliveries)
      BY <3>1, <3>3, <3>4, ListSound
    <3> QED BY <1>3, <2>1, <3>2, <3>3, <3>5
  <2>3. CASE q.scan = "remind"
    <3> DEFINE v == [Idle EXCEPT !.at = "scan", !.scan = "C",
                                 !.open = NegotiationDue]
    <3>1. Load(Scanner, v)
      BY <1>7, <2>3 DEF NextScan
    <3>2. v \in Request
      BY IdleSound DEF Request, Steps, Scans, NegotiationDue
    <3>3. v.at \notin RowSteps /\ v.copy = NewOrder /\ v.todo = NoRows
      BY DEF Idle, RowSteps, Actions
    <3> QED BY <1>3, <2>1, <3>1, <3>2, <3>3, IdleSound, PlainSound
  <2>4. CASE q.scan = "C"
    BY <1>3, <1>7, <2>1, <2>4, IdleSound DEF NextScan
  <2> QED BY <1>1, <2>2, <2>3, <2>4 DEF Request, Scans
<1> QED BY <1>2, <1>5, <1>6, <1>7

-----------------------------------------------------------------------------
(* The steps of an operation                                               *)

\* The operation p goes on without a delivery in hand, and may save one that
\* is no longer on its list.
LEMMA LeaveKeeps ==
    ASSUME IInv, NEW p \in Processes, ~Free(p), NEW v \in Request,
           req' = [req EXCEPT ![p] = v],
           v.at \notin RowSteps, Appealable(v.copy),
           \/ v.todo = NoRows
           \/ v.scan = req[p].scan /\ v.todo = req[p].todo,
           order' \in OrderRow, Appealable(order'),
           \/ UNCHANGED deliveries
           \/ \E s \in Seqs, row \in DeliveryRow :
                /\ SaveDelivery(s, row) /\ Earned(row)
                /\ req[p].todo[s] = NewDelivery \/ row.status = "submitted",
           negotiations' \in [Negotiations -> NegotiationStatuses],
           stops' \in 0..MaxDisturbed, UNCHANGED overlaps
    PROVE  IInv'
<1>1. deliveries \in [Seqs -> DeliveryRow] /\ OpSound(req[p])
  BY DEF IInv, RowsOK
<1>2. v.at # "auto" /\ \A s \in Seqs : NoRows[s] = NewDelivery
  BY DEF RowSteps, NoRows
<1>3. OpSound(v)
  BY <1>1, <1>2 DEF OpSound
<1>4. deliveries' \in [Seqs -> DeliveryRow]
  BY <1>1 DEF SaveDelivery
<1>5. \A s \in Seqs : Earned(deliveries'[s])
  BY <1>1 DEF SaveDelivery, IInv, RowsEarned, Earned
<1>6. ASSUME overlaps = 0 PROVE Undecided(v, deliveries')
  <2>1. Undecided(req[p], deliveries)
    BY <1>6 DEF IInv, Serial
  <2>2. ASSUME NEW s \in Seqs, v.todo[s] # NewDelivery
        PROVE  deliveries'[s].status = "submitted"
    <3>1. req[p].todo[s] # NewDelivery /\ deliveries[s].status = "submitted"
      BY <1>2, <2>1, <2>2 DEF Undecided
    <3> QED BY <1>1, <3>1 DEF SaveDelivery
  <2> QED BY <2>2 DEF Undecided
<1> QED BY <1>3, <1>4, <1>5, <1>6, StepKeeps

LEMMA ProceedShape ==
    ASSUME IInv, NEW p \in Processes, NEW step \in Steps, Proceed(p, step)
    PROVE  \E v \in Request :
             /\ req' = [req EXCEPT ![p] = v]
             /\ v.at = step /\ v.copy = NewOrder
             /\ v.scan = req[p].scan /\ v.todo = req[p].todo
<1> DEFINE v == [req[p] EXCEPT !.at = step, !.copy = NewOrder, !.id = None,
                               !.row = NewDelivery]
<1>1. req[p] \in Request
  BY DEF IInv, RowsOK, Request
<1>2. /\ v \in Request /\ v.at = step /\ v.copy = NewOrder
      /\ v.scan = req[p].scan /\ v.todo = req[p].todo
  BY <1>1, IdleSound DEF Request
<1>3. req' = [req EXCEPT ![p] = v]
  BY DEF Proceed
<1> QED BY <1>2, <1>3

\* The same with nothing in hand at all.
LEMMA ProceedKeeps ==
    ASSUME IInv, NEW p \in Processes, ~Free(p),
           Finish(p) \/ \E step \in Steps \ RowSteps : Proceed(p, step),
           order' \in OrderRow, Appealable(order'),
           \/ UNCHANGED deliveries
           \/ \E s \in Seqs, row \in DeliveryRow :
                /\ SaveDelivery(s, row) /\ Earned(row)
                /\ req[p].todo[s] = NewDelivery \/ row.status = "submitted",
           negotiations' \in [Negotiations -> NegotiationStatuses],
           UNCHANGED <<stops, overlaps>>
    PROVE  IInv'
<1>1. PICK step \in Steps \ RowSteps : Proceed(p, step)
  <2>1. {"scan", "idle"} \subseteq Steps \ RowSteps
    BY DEF Steps, RowSteps, Actions, Scans
  <2> QED BY <2>1 DEF Finish
<1>2. PICK v \in Request :
        /\ req' = [req EXCEPT ![p] = v]
        /\ v.at = step /\ v.copy = NewOrder
        /\ v.scan = req[p].scan /\ v.todo = req[p].todo
  BY <1>1, ProceedShape
<1>3. stops' \in 0..MaxDisturbed
  BY DEF IInv, RowsOK
<1> QED BY <1>1, <1>2, <1>3, IdleSound, LeaveKeeps

\* What an operation in hand holds.
LEMMA Held ==
    ASSUME IInv, NEW p \in Processes
    PROVE  /\ req[p] \in Request /\ OpSound(req[p])
           /\ order \in OrderRow /\ Appealable(order)
           /\ negotiations \in [Negotiations -> NegotiationStatuses]
           /\ req[p].at # "idle" => ~Free(p)
BY DEF IInv, RowsOK, Request, AcceptedHasAppeal, Appealable, Free, Idle

\* The steps that save the order or a negotiation.
LEMMA OrderSaves ==
    ASSUME IInv, NEW p \in Processes,
           \/ SaveInAccept(p) \/ SaveAccepted(p) \/ SaveRevising(p)
           \/ InsertNegotiation(p) \/ SaveDecision(p) \/ SaveClaim(p)
    PROVE  IInv'
<1> DEFINE copy == req[p].copy
<1>1. copy \in OrderRow /\ Appealable(copy)
  BY Held DEF Request, OpSound
<1>2. /\ [copy EXCEPT !.delivery = "in_accept"] \in OrderRow
      /\ Appealable([copy EXCEPT !.delivery = "in_accept"])
  BY <1>1 DEF OrderRow, Appealable
<1>3. Accepted(copy) \in OrderRow /\ Appealable(Accepted(copy))
  BY <1>1 DEF OrderRow, Appealable, Accepted
<1>4. /\ [copy EXCEPT !.delivery = "revising"] \in OrderRow
      /\ Appealable([copy EXCEPT !.delivery = "revising"])
      /\ [copy EXCEPT !.employer = TRUE] \in OrderRow
      /\ Appealable([copy EXCEPT !.employer = TRUE])
  BY <1>1 DEF OrderRow, Appealable
<1>5. order' \in OrderRow /\ Appealable(order')
  BY <1>2, <1>3, <1>4, Held DEF SaveInAccept, SaveAccepted, SaveRevising,
     InsertNegotiation, SaveDecision, SaveClaim
<1>6. /\ ~Free(p) /\ UNCHANGED deliveries /\ UNCHANGED <<stops, overlaps>>
  BY Held DEF SaveInAccept, SaveAccepted, SaveRevising, InsertNegotiation,
     SaveDecision, SaveClaim, At
<1>7. negotiations' \in [Negotiations -> NegotiationStatuses]
  BY Held DEF SaveInAccept, SaveAccepted, SaveRevising, InsertNegotiation,
     SaveDecision, SaveClaim, Unused, NegotiationStatuses
<1>8. Finish(p) \/ \E step \in Steps \ RowSteps : Proceed(p, step)
  <2>1. {"negotiate", "load"} \subseteq Steps \ RowSteps
    BY DEF Steps, RowSteps, Actions, Scans
  <2> QED BY <2>1 DEF SaveInAccept, SaveAccepted, SaveRevising,
                      InsertNegotiation, SaveDecision, SaveClaim, ThenAccepts
<1> QED BY <1>5, <1>6, <1>7, <1>8, ProceedKeeps

\* The steps that save a delivery and are over with it.
LEMMA DeliverySaves ==
    ASSUME IInv, NEW p \in Processes, SaveRead(p) \/ SaveAutoAccepted(p)
    PROVE  IInv'
<1> DEFINE s == req[p].id
           row == req[p].row
<1>1. req[p].at \in {"gate", "remind", "auto"}
  BY DEF SaveRead, SaveAutoAccepted, At
<1>2. /\ s \in Seqs /\ row \in DeliveryRow /\ row.status = "submitted"
      /\ req[p].todo[s] = NewDelivery
      /\ At(p, "auto") => Eligible(row)
  BY <1>1, Held DEF OpSound, RowSteps, Request, At
<1>3. \A g \in BOOLEAN : /\ [row EXCEPT !.gates = g] \in DeliveryRow
                         /\ Earned([row EXCEPT !.gates = g])
  BY <1>2 DEF DeliveryRow, Earned
<1>4. row \in DeliveryRow /\ Earned(row)
  BY <1>2 DEF Earned
<1>5. At(p, "auto") =>
        /\ [row EXCEPT !.status = "auto_accepted"] \in DeliveryRow
        /\ Earned([row EXCEPT !.status = "auto_accepted"])
  BY <1>2 DEF DeliveryRow, DeliveryStatuses, Earned, Eligible
<1>6. PICK saved \in DeliveryRow : SaveDelivery(s, saved) /\ Earned(saved)
  BY <1>3, <1>4, <1>5 DEF SaveRead, SaveAutoAccepted
<1>7. Finish(p) \/ \E step \in Steps \ RowSteps : Proceed(p, step)
  <2>1. "load" \in Steps \ RowSteps
    BY DEF Steps, RowSteps, Actions, Scans
  <2> QED BY <2>1 DEF SaveRead, SaveAutoAccepted
<1>8. ~Free(p) /\ UNCHANGED <<order, negotiations, stops, overlaps>>
  BY <1>1, Held DEF SaveRead, SaveAutoAccepted
<1> QED BY <1>2, <1>6, <1>7, <1>8, Held, ProceedKeeps

LEMMA InsertKeeps ==
    ASSUME IInv, NEW p \in Processes, InsertDelivery(p)
    PROVE  IInv'
<1> DEFINE s == req[p].id
<1>1. /\ At(p, "insert") /\ ~Free(p)
      /\ UNCHANGED <<order, negotiations, stops, overlaps>>
  BY Held DEF InsertDelivery, At
<1>2. CASE Finish(p) /\ UNCHANGED deliveries
  BY <1>1, <1>2, Held, ProceedKeeps
<1>3. CASE req' = [req EXCEPT ![p].at = "inAccept", ![p].id = None]
           /\ \E g \in BOOLEAN :
                SaveDelivery(s, [status |-> "submitted", gates |-> g,
                                 reminded |-> {}])
  <2> DEFINE v == [req[p] EXCEPT !.at = "inAccept", !.id = None]
  <2>1. req' = [req EXCEPT ![p] = v]
    BY <1>3 DEF IInv, RowsOK
  <2>2. /\ v \in Request /\ v.at = "inAccept" /\ v.copy = req[p].copy
        /\ v.scan = req[p].scan /\ v.todo = req[p].todo
    BY Held DEF Request, Steps
  <2>3. v.at \notin RowSteps /\ Appealable(v.copy)
    BY <2>2, Held DEF RowSteps, Actions, OpSound
  <2>4. PICK g \in BOOLEAN : SaveDelivery(s, [status |-> "submitted",
                                             gates |-> g, reminded |-> {}])
    BY <1>3
  <2> DEFINE row == [status |-> "submitted", gates |-> g, reminded |-> {}]
  <2>5. /\ row \in DeliveryRow /\ Earned(row) /\ row.status = "submitted"
        /\ SaveDelivery(s, row)
    BY <2>4 DEF DeliveryRow, DeliveryStatuses, Earned
  <2>6. \/ UNCHANGED deliveries
        \/ \E t \in Seqs, r \in DeliveryRow :
             /\ SaveDelivery(t, r) /\ Earned(r)
             /\ req[p].todo[t] = NewDelivery \/ r.status = "submitted"
    <3> HIDE DEF row
    <3>1. CASE s \in Seqs
      BY <2>5, <3>1
    <3>2. CASE s \notin Seqs
      BY <2>5, <3>2 DEF SaveDelivery, IInv, RowsOK
    <3> QED BY <3>1, <3>2
  <2>7. stops' \in 0..MaxDisturbed
    BY <1>1 DEF IInv, RowsOK
  <2> QED BY <1>1, <2>1, <2>2, <2>3, <2>6, <2>7, Held, LeaveKeeps
<1> QED BY <1>2, <1>3 DEF InsertDelivery

LEMMA ReviewKeeps ==
    ASSUME IInv, NEW p \in Processes, SaveReview(p)
    PROVE  IInv'
<1> DEFINE s == req[p].id
           row == [req[p].row EXCEPT !.status = req[p].at]
<1>1. /\ req[p].at \in Actions /\ ~Free(p) /\ SaveDelivery(s, row)
      /\ UNCHANGED <<order, negotiations, stops, overlaps>>
  BY Held DEF SaveReview, Actions
<1>2. s \in Seqs /\ req[p].row \in DeliveryRow /\ req[p].todo[s] = NewDelivery
  BY <1>1, Held DEF OpSound, RowSteps, Request
<1>3. row \in DeliveryRow /\ Earned(row)
  BY <1>1, <1>2 DEF DeliveryRow, DeliveryStatuses, Actions, Earned
<1>4. stops' \in 0..MaxDisturbed
  BY <1>1 DEF IInv, RowsOK
<1>5. CASE At(p, "accepted")
  <2> DEFINE v == [Idle EXCEPT !.at = "accept", !.copy = req[p].copy]
  <2>1. req' = [req EXCEPT ![p] = v]
    BY <1>5 DEF SaveReview, At
  <2>2. v \in Request /\ v.at = "accept" /\ v.copy = req[p].copy
        /\ v.todo = NoRows
    <3>1. req[p].copy \in OrderRow
      BY Held DEF Request
    <3>2. v \in Request
      BY <3>1, IdleSound DEF Request, Steps
    <3> QED BY <3>2 DEF Idle
  <2>3. v.at \notin RowSteps /\ Appealable(v.copy)
    BY <2>2, Held DEF RowSteps, Actions, OpSound
  <2> QED BY <1>1, <1>2, <1>3, <1>4, <2>1, <2>2, <2>3, Held, LeaveKeeps
<1>6. CASE At(p, "revision_requested")
  <2> DEFINE v == [req[p] EXCEPT !.at = "revise", !.row = NewDelivery]
  <2>1. req' = [req EXCEPT ![p] = v]
    BY <1>6 DEF SaveReview, At, IInv, RowsOK
  <2>2. /\ v \in Request /\ v.at = "revise" /\ v.copy = req[p].copy
        /\ v.scan = req[p].scan /\ v.todo = req[p].todo
    BY Held, IdleSound DEF Request, Steps
  <2>3. v.at \notin RowSteps /\ Appealable(v.copy)
    BY <2>2, Held DEF RowSteps, Actions, OpSound
  <2> QED BY <1>1, <1>2, <1>3, <1>4, <2>1, <2>2, <2>3, Held, LeaveKeeps
<1>7. CASE At(p, "rejected")
  <2>1. Finish(p)
    BY <1>7 DEF SaveReview, At
  <2> QED BY <1>1, <1>2, <1>3, <2>1, Held, ProceedKeeps
<1> QED BY <1>1, <1>5, <1>6, <1>7 DEF Actions, At

LEMMA LoadKeeps ==
    ASSUME IInv, NEW p \in Processes, LoadOrder(p)
    PROVE  IInv'
<1> DEFINE v == [req[p] EXCEPT !.at = "accept", !.copy = order]
<1>1. /\ ~Free(p) /\ UNCHANGED <<rows, stops, overlaps>>
      /\ req' = [req EXCEPT ![p] = v]
  BY Held DEF LoadOrder, At, IInv, RowsOK
<1>2. /\ v \in Request /\ v.at = "accept" /\ v.copy = order
      /\ v.scan = req[p].scan /\ v.todo = req[p].todo
  BY Held DEF Request, Steps
<1>3. v.at \notin RowSteps
  BY <1>2 DEF RowSteps, Actions
<1>4. stops' \in 0..MaxDisturbed
  BY <1>1 DEF IInv, RowsOK
<1> QED BY <1>1, <1>2, <1>3, <1>4, Held, LeaveKeeps DEF rows

LEMMA StopKeeps ==
    ASSUME IInv, NEW p \in Processes, Stop(p)
    PROVE  IInv'
<1>1. /\ ~Free(p) /\ req' = [req EXCEPT ![p] = Idle]
      /\ UNCHANGED <<rows, overlaps>>
  BY DEF Stop, Load
<1>2. stops' \in 0..MaxDisturbed
  BY BoundAssumption DEF Stop, IInv, RowsOK
<1>3. Idle.at \notin RowSteps /\ Idle.copy = NewOrder /\ Idle.todo = NoRows
  BY DEF Idle, RowSteps, Actions
<1> QED BY <1>1, <1>2, <1>3, Held, IdleSound, LeaveKeeps DEF rows

-----------------------------------------------------------------------------
LEMMA NextKeeps == IInv /\ [Next]_vars => IInv'
<1> SUFFICES ASSUME IInv, [Next]_vars PROVE IInv' OBVIOUS
<1>1. CASE StartScan \/ NextRow \/ Remind \/ NextScan
  BY <1>1, ScanKeeps
<1>2. ASSUME NEW p \in Processes,
             \/ \E s \in Seqs : StartSubmit(p, s) \/ StartGate(p, s)
             \/ \E a \in Actions : StartReview(p, a)
             \/ StartNegotiation(p) \/ StartClaim(p)
             \/ \E n \in Negotiations, d \in {"C", "other"} :
                  StartDecide(p, n, d)
      PROVE  IInv'
  BY <1>2, StartKeeps
<1>3. ASSUME NEW p \in Processes, Continue(p) PROVE IInv'
  BY <1>3, OrderSaves, DeliverySaves, InsertKeeps, ReviewKeeps, LoadKeeps
  DEF Continue
<1>4. ASSUME NEW p \in Processes, Stop(p) PROVE IInv'
  BY <1>4, StopKeeps
<1>5. CASE Still
  BY <1>5 DEF Still, rows, IInv, RowsOK, AcceptedHasAppeal, RowsEarned, Serial,
              Free
<1>6. UNCHANGED vars \/ Day => Still
  BY DEF Still, Day, vars
<1> QED BY <1>1, <1>2, <1>3, <1>4, <1>5, <1>6 DEF Next

LEMMA Inductive == Spec => []IInv
BY InitIInv, NextKeeps, PTL DEF Spec

LEMMA DecisionStands ==
    ASSUME IInv, [Next]_vars, overlaps' = 0, NEW s \in Seqs,
           deliveries[s].status \notin {"none", "submitted"}
    PROVE  deliveries'[s].status = deliveries[s].status
<1>1. ASSUME NEW p \in Processes, Continue(p)
      PROVE  deliveries'[s] = deliveries[s]
  <2>1. CASE UNCHANGED deliveries
    BY <2>1
  <2>2. CASE InsertDelivery(p) /\ ~UNCHANGED deliveries
    BY <2>2 DEF InsertDelivery, SaveDelivery, IInv, RowsOK
  <2>3. CASE SaveReview(p) \/ SaveRead(p) \/ SaveAutoAccepted(p)
    <3>1. overlaps = 0 /\ req[p].at \in RowSteps
      BY <2>3 DEF SaveReview, SaveRead, SaveAutoAccepted, RowSteps, At
    <3>2. deliveries[req[p].id].status = "submitted"
      BY <3>1 DEF IInv, Serial, Undecided
    <3>3. \E row : SaveDelivery(req[p].id, row)
      BY <2>3 DEF SaveReview, SaveRead, SaveAutoAccepted
    <3> QED BY <3>2, <3>3 DEF SaveDelivery, IInv, RowsOK
  <2> QED BY <1>1, <2>1, <2>2, <2>3
          DEF Continue, SaveInAccept, SaveAccepted, SaveRevising,
              InsertNegotiation, LoadOrder, SaveDecision, SaveClaim, rows
<1>2. CASE UNCHANGED deliveries
  BY <1>2
<1>3. CASE NextRow \/ Remind
  BY <1>2, <1>3, Zenon DEF NextRow, Remind, rows
<1> QED BY <1>1, <1>2, <1>3
        DEF Next, StartScan, NextScan, StartSubmit, StartGate, StartReview,
            StartNegotiation, StartDecide, StartClaim, Begin, Day, Stop, rows,
            vars

\* As long as no operation begins during another one, nothing but the first
\* decision changes the status of a delivery, for any number of deliveries in
\* one pass of the scan and wherever operations stop.
THEOREM FirstDecisionStands == Spec => DecidedOnce
<1>1. IInv /\ [Next]_vars =>
        [overlaps' = 0 =>
           \A s \in Seqs : deliveries[s].status \notin {"none", "submitted"}
             => deliveries'[s].status = deliveries[s].status]_vars
  BY DecisionStands
<1> QED BY <1>1, Inductive, PTL DEF Spec, DecidedOnce

-----------------------------------------------------------------------------
(* The appeal has its grounds                                              *)

Alone(p) == \A q \in Processes \ {p} : Free(q)
\* The steps of an operation that still has to save the order it loaded.
CopySteps == Actions \cup {"insert", "inAccept", "accept", "revise", "claim"}

\* What the one operation under way loaded is what the rows hold.
Current(r) ==
    /\ r.at \in CopySteps => r.copy = order
    /\ r.scan = "C" => \A s \in Seqs : r.todo[s] = NewDelivery
    /\ \A n \in r.open : negotiations[n] = "open"
    /\ r.at \in {"C", "other"} =>
         r.id \in Negotiations \ r.open /\ negotiations[r.id] = "open"

\* AppealGrounded, with what is missing between the two saves.
Backed(r) ==
    /\ order.appeal => Grounds
    /\ r.at \in {"load", "accept"} => Grounds
    /\ stops = 0 /\ Grounds => order.appeal \/ r.at \in {"load", "accept"}

GInv ==
    overlaps = 0 => \A p \in Processes :
      Alone(p) => Current(req[p]) /\ Backed(req[p])

Starts(p) ==
    \/ \E s \in Seqs : StartSubmit(p, s) \/ StartGate(p, s)
    \/ \E a \in Actions : StartReview(p, a)
    \/ StartNegotiation(p) \/ StartClaim(p)
    \/ \E n \in Negotiations, d \in {"C", "other"} : StartDecide(p, n, d)
    \/ p = Scanner /\ StartScan
Scanning(p) == p = Scanner /\ (NextRow \/ Remind \/ NextScan)
Acts(p) == Starts(p) \/ Scanning(p) \/ Continue(p) \/ Stop(p)

LEMMA InitGInv == Init => GInv
<1> SUFFICES ASSUME Init PROVE GInv OBVIOUS
<1>1. ~order.appeal /\ stops = 0
  BY DEF Init, NewOrder
<1>2. ~Grounds
  BY DEF Init, Grounds, NoRows, NewDelivery
<1>3. ASSUME NEW p \in Processes
      PROVE  /\ req[p].at = "idle" /\ req[p].scan = "auto"
             /\ req[p].open = {}
  BY <1>3 DEF Init, Idle
<1>4. "idle" \notin CopySteps \cup {"load", "accept", "C", "other"}
  BY DEF CopySteps, Actions
<1> QED BY <1>1, <1>2, <1>3, <1>4 DEF GInv, Current, Backed

LEMMA NextActs == [Next]_vars => Still \/ \E p \in Processes : Acts(p)
<1> SUFFICES ASSUME [Next]_vars, ~Still PROVE \E p \in Processes : Acts(p)
  OBVIOUS
<1>0. Next /\ ~Day
  BY DEF Still, Day, vars
<1>1. Scanner \in Processes
  BY DEF Processes
<1>2. CASE StartScan \/ NextRow \/ Remind \/ NextScan
  BY <1>1, <1>2 DEF Acts, Starts, Scanning
<1>3. CASE ~(StartScan \/ NextRow \/ Remind \/ NextScan)
  BY <1>0, <1>3 DEF Next, Acts, Starts
<1> QED BY <1>2, <1>3

LEMMA StartsBegins ==
    ASSUME NEW p \in Processes, Starts(p)
    PROVE  \E v : Begin(p, v)
BY DEF Starts, StartSubmit, StartGate, StartReview, StartNegotiation,
       StartClaim, StartDecide, StartScan

\* While no operation has begun during another one, the one that takes a step
\* is the only one.
LEMMA ActsAlone ==
    ASSUME IInv, NEW p \in Processes, Acts(p), overlaps' = 0
    PROVE  /\ overlaps = 0 /\ Alone(p)
           /\ \E v : req' = [req EXCEPT ![p] = v]
<1>1. CASE Starts(p)
  <2>1. PICK v : Begin(p, v)
    BY <1>1, StartsBegins
  <2>2. overlaps = 0 /\ Quiet
    BY <2>1 DEF Begin, IInv, RowsOK
  <2> QED BY <2>1, <2>2 DEF Begin, Load, Quiet, Alone
<1>2. ASSUME ~Free(p), overlaps' = overlaps PROVE overlaps = 0 /\ Alone(p)
  BY <1>2 DEF IInv, Serial, Alone
<1>3. CASE Scanning(p)
  <2>1. req[p].at = "scan" /\ overlaps' = overlaps
    BY <1>3, Zenon DEF Scanning, NextRow, Remind, NextScan, At
  <2>2. \E v : Load(p, v)
    BY <1>3, Zenon DEF Scanning, NextRow, Remind, NextScan
  <2> QED BY <1>2, <2>1, <2>2, Held DEF Load
<1>4. CASE Continue(p)
  <2>1. ~Free(p) /\ overlaps' = overlaps
    BY <1>4, Held
    DEF Continue, InsertDelivery, SaveInAccept, SaveReview, SaveAccepted,
        SaveRevising, InsertNegotiation, SaveRead, SaveAutoAccepted,
        LoadOrder, SaveDecision, SaveClaim, At, Actions
  <2>2. \E v : req' = [req EXCEPT ![p] = v]
    BY <1>4
    DEF Continue, InsertDelivery, SaveInAccept, SaveReview, SaveAccepted,
        SaveRevising, InsertNegotiation, SaveRead, SaveAutoAccepted,
        LoadOrder, SaveDecision, SaveClaim, Finish, Proceed, ThenAccepts, At,
        Actions
  <2> QED BY <1>2, <2>1, <2>2
<1>5. CASE Stop(p)
  BY <1>2, <1>5 DEF Stop, Load
<1> QED BY <1>1, <1>3, <1>4, <1>5 DEF Acts

\* So it is enough to look at the operation that takes the step.
LEMMA OnlyOne ==
    ASSUME IInv, NEW p \in Processes, Acts(p), overlaps' = 0,
           (Current(req[p]) /\ Backed(req[p]))'
    PROVE  GInv'
<1>1. PICK v : req' = [req EXCEPT ![p] = v]
  BY ActsAlone
<1>2. \A q \in Processes \ {p} : req'[q] = Idle
  BY <1>1, ActsAlone DEF Alone, Free, IInv, RowsOK
<1>3. ASSUME NEW q \in Processes \ {p}, Alone(q)'
      PROVE  req'[q] = req'[p]
  BY <1>2, <1>3 DEF Alone, Free
<1> QED BY <1>3 DEF GInv, Current, Backed


\* What the operation that takes a step can rely on.
LEMMA InForce ==
    ASSUME IInv, GInv, NEW p \in Processes, Acts(p), overlaps' = 0
    PROVE  /\ overlaps = 0 /\ Current(req[p]) /\ Backed(req[p])
           /\ Undecided(req[p], deliveries)
BY ActsAlone DEF GInv, IInv, Serial

\* Grounds are not taken back.
LEMMA GroundsStay ==
    ASSUME IInv, GInv, NEW p \in Processes, Acts(p), [Next]_vars,
           overlaps' = 0, Grounds
    PROVE  Grounds'
<1>1. CASE \E s \in Seqs : deliveries[s].status \in {"accepted", "auto_accepted"}
  BY <1>1, DecisionStands DEF Grounds
<1>2. ASSUME NEW n \in Negotiations, negotiations[n] = "C"
      PROVE  negotiations'[n] = "C"
  <2>1. CASE UNCHANGED negotiations
    BY <1>2, <2>1
  <2>2. CASE InsertNegotiation(p)
    BY <1>2, <2>2 DEF InsertNegotiation, Unused, IInv, RowsOK
  <2>3. CASE SaveDecision(p)
    <3>1. /\ req[p].at \in {"C", "other"}
          /\ negotiations' = [negotiations EXCEPT ![req[p].id] = req[p].at]
      BY <2>3 DEF SaveDecision
    <3>2. negotiations[req[p].id] = "open"
      BY <3>1, InForce DEF Current
    <3> QED BY <1>2, <3>1, <3>2 DEF IInv, RowsOK
  <2>4. CASE NextRow \/ Remind
    BY <2>1, <2>4, Zenon DEF NextRow, Remind, rows
  <2>5. CASE Continue(p)
    BY <2>1, <2>2, <2>3, <2>5
    DEF Continue, InsertDelivery, SaveInAccept, SaveReview, SaveAccepted,
        SaveRevising, SaveRead, SaveAutoAccepted, LoadOrder, SaveClaim, rows
  <2>6. CASE Starts(p)
    BY <2>1, <2>6, StartsBegins DEF Begin, rows
  <2> QED BY <2>1, <2>4, <2>5, <2>6 DEF Acts, Scanning, NextScan, Stop, rows
<1> QED BY <1>1, <1>2 DEF Grounds

\* A step that saves neither order, delivery nor negotiation.
LEMMA RowsKeep ==
    ASSUME IInv, GInv, NEW p \in Processes, Acts(p), [Next]_vars,
           overlaps' = 0, UNCHANGED rows,
           stops' = stops \/ stops' > 0,
           Current(req[p])',
           req'[p].at \in {"load", "accept"} => req[p].at \in {"load", "accept"},
           \/ req[p].at \notin {"load", "accept"}
           \/ req'[p].at \in {"load", "accept"}
           \/ stops' > 0
    PROVE  GInv'
<1>1. Backed(req[p])
  BY InForce
<1>2. Grounds' <=> Grounds
  BY DEF rows, Grounds
<1>3. Backed(req[p])'
  BY <1>1, <1>2 DEF Backed, rows, IInv, RowsOK
<1> QED BY <1>3, OnlyOne


LEMMA StartsGround ==
    ASSUME IInv, GInv, NEW p \in Processes, Starts(p), [Next]_vars,
           overlaps' = 0
    PROVE  GInv'
<1>0. Acts(p)
  BY DEF Acts
<1>1. /\ Free(p) /\ UNCHANGED <<order, deliveries, negotiations, stops>>
      /\ p \in DOMAIN req
  BY StartsBegins DEF Begin, rows, IInv, RowsOK
<1>2. req[p].at \notin {"load", "accept"}
  BY <1>1 DEF Free, Idle
<1>3. \A s \in Seqs : NoRows[s] = NewDelivery
  BY DEF NoRows
<1>4. ASSUME NEW v, Begin(p, v), v.scan = "auto", v.open = {},
             v.at \notin {"load", "accept"},
             v.at \in CopySteps => v.copy = order,
             v.at \in {"C", "other"} =>
               v.id \in Negotiations /\ negotiations[v.id] = "open"
      PROVE  GInv'
  <2>1. req'[p] = v
    BY <1>1, <1>4 DEF Begin, Load
  <2>2. Current(req[p])' /\ req'[p].at \notin {"load", "accept"}
    BY <1>1, <1>4, <2>1 DEF Current
  <2> QED BY <1>0, <1>1, <1>2, <2>2, RowsKeep DEF rows
<1>5. ASSUME NEW s \in Seqs, StartSubmit(p, s) PROVE GInv'
  <2> DEFINE v == [Idle EXCEPT !.at = "insert", !.copy = order, !.id = s]
  <2>1. /\ v.scan = "auto" /\ v.open = {} /\ v.at = "insert"
        /\ v.copy = order
    BY DEF Idle
  <2> QED BY <1>4, <1>5, <2>1 DEF StartSubmit
<1>6. ASSUME NEW s \in Seqs, StartGate(p, s) PROVE GInv'
  <2> DEFINE v == [Idle EXCEPT !.at = "gate", !.id = s, !.row = deliveries[s]]
  <2>1. v.scan = "auto" /\ v.open = {} /\ v.at = "gate"
    BY DEF Idle
  <2>2. "gate" \notin CopySteps
    BY DEF CopySteps, Actions
  <2> QED BY <1>4, <1>6, <2>1, <2>2 DEF StartGate
<1>7. ASSUME NEW a \in Actions, StartReview(p, a) PROVE GInv'
  <2>1. PICK s \in Seqs : Begin(p, [Idle EXCEPT !.at = a, !.copy = order,
                                                !.id = s, !.row = deliveries[s]])
    BY <1>7 DEF StartReview
  <2> DEFINE v == [Idle EXCEPT !.at = a, !.copy = order, !.id = s,
                               !.row = deliveries[s]]
  <2>2. /\ v.scan = "auto" /\ v.open = {} /\ v.at = a /\ v.copy = order
    BY DEF Idle
  <2>3. a \notin {"load", "accept", "C", "other"}
    BY DEF Actions
  <2> QED BY <1>4, <2>1, <2>2, <2>3
<1>8. CASE StartNegotiation(p)
  <2> DEFINE v == [Idle EXCEPT !.at = "negotiate"]
  <2>1. v.scan = "auto" /\ v.open = {} /\ v.at = "negotiate"
    BY DEF Idle
  <2>2. "negotiate" \notin CopySteps
    BY DEF CopySteps, Actions
  <2> QED BY <1>4, <1>8, <2>1, <2>2 DEF StartNegotiation
<1>9. ASSUME NEW n \in Negotiations, NEW d \in {"C", "other"},
             StartDecide(p, n, d)
      PROVE  GInv'
  <2> DEFINE v == [Idle EXCEPT !.at = d, !.id = n]
  <2>1. v.scan = "auto" /\ v.open = {} /\ v.at = d /\ v.id = n
    BY DEF Idle
  <2>2. d \notin CopySteps /\ d \notin {"load", "accept"}
    BY DEF CopySteps, Actions
  <2> QED BY <1>4, <1>9, <2>1, <2>2 DEF StartDecide
<1>10. CASE p = Scanner /\ StartScan
  <2> DEFINE v == [Idle EXCEPT !.at = "scan", !.todo = Copies(AutoDue)]
  <2>1. v.scan = "auto" /\ v.open = {} /\ v.at = "scan"
    BY DEF Idle
  <2>2. "scan" \notin CopySteps
    BY DEF CopySteps, Actions
  <2> QED BY <1>4, <1>10, <2>1, <2>2 DEF StartScan
<1>11. CASE StartClaim(p)
  <2> DEFINE v == [Idle EXCEPT !.at = "claim", !.copy = order]
  <2>1. /\ v.scan = "auto" /\ v.open = {} /\ v.at = "claim"
        /\ v.copy = order
    BY DEF Idle
  <2> QED BY <1>4, <1>11, <2>1 DEF StartClaim
<1> QED BY <1>5, <1>6, <1>7, <1>8, <1>9, <1>10, <1>11 DEF Starts

LEMMA ScanningGrounds ==
    ASSUME IInv, GInv, NEW p \in Processes, Scanning(p), [Next]_vars,
           overlaps' = 0
    PROVE  GInv'
<1> DEFINE q == req[p]
<1>0. Acts(p)
  BY DEF Acts
<1>1. /\ q.at = "scan" /\ UNCHANGED <<order, deliveries, negotiations, stops>>
      /\ p = Scanner /\ p \in DOMAIN req
  BY Zenon DEF Scanning, NextRow, Remind, NextScan, At, rows, IInv, RowsOK
<1>2. q \in Request /\ Current(q)
  BY <1>0, InForce, Held
<1>3. ASSUME NEW v, Load(Scanner, v), v.at \notin CopySteps \cup {"load"},
             v.scan = "C" => \A s \in Seqs : v.todo[s] = NewDelivery,
             \A n \in v.open : negotiations[n] = "open",
             v.at \in {"C", "other"} =>
               v.id \in Negotiations \ v.open /\ negotiations[v.id] = "open"
      PROVE  GInv'
  <2>1. req'[p] = v
    BY <1>1, <1>3 DEF Load
  <2>2. Current(req[p])' /\ req'[p].at \notin {"load", "accept"}
    BY <1>1, <1>3, <2>1 DEF Current, CopySteps
  <2> QED BY <1>0, <1>1, <2>2, RowsKeep DEF rows
\* The scan takes the row of a delivery in hand, or lets it go.
<1>4. ASSUME NEW v, v.at \in {"auto", "remind", "scan"},
             q.scan \in {"auto", "remind"}, Load(Scanner, v),
             v.scan = q.scan, v.open = q.open
      PROVE  GInv'
  <2>1. v.at \notin CopySteps \cup {"load", "C", "other"}
    BY <1>4 DEF CopySteps, Actions
  <2> QED BY <1>2, <1>3, <1>4, <2>1 DEF Current
<1>5. CASE NextRow
  <2>1. ASSUME NEW s \in Listed, q.scan = "auto",
               Load(Scanner,
                    [q EXCEPT !.at = "auto", !.id = s, !.row = q.todo[s],
                              !.todo = [q.todo EXCEPT ![s] = NewDelivery]])
        PROVE  GInv'
    <3> DEFINE v == [q EXCEPT !.at = "auto", !.id = s, !.row = q.todo[s],
                              !.todo = [q.todo EXCEPT ![s] = NewDelivery]]
    <3>1. v.at = "auto" /\ v.scan = q.scan /\ v.open = q.open
      BY <1>2 DEF Request
    <3>2. Load(Scanner, v)
      BY <2>1
    <3> HIDE DEF v
    <3> QED BY <1>4, <2>1, <3>1, <3>2
  <2>2. ASSUME NEW n \in q.open,
               Load(Scanner, [q EXCEPT !.at = "C", !.id = n, !.open = @ \ {n}])
        PROVE  GInv'
    <3> DEFINE v == [q EXCEPT !.at = "C", !.id = n, !.open = @ \ {n}]
    <3>1. /\ v.at = "C" /\ v.scan = q.scan /\ v.open = q.open \ {n}
          /\ v.todo = q.todo /\ v.id = n /\ n \in Negotiations
      BY <1>2 DEF Request
    <3>2. "C" \notin CopySteps \cup {"load"}
      BY DEF CopySteps, Actions
    <3>3. /\ v.at \notin CopySteps \cup {"load"}
          /\ v.scan = "C" => \A s \in Seqs : v.todo[s] = NewDelivery
          /\ \A m \in v.open : negotiations[m] = "open"
          /\ v.id \in Negotiations \ v.open /\ negotiations[v.id] = "open"
      BY <1>2, <3>1, <3>2 DEF Current
    <3> QED BY <1>3, <2>2, <3>3
  <2> QED BY <1>1, <1>5, <2>1, <2>2, Zenon DEF NextRow
<1>6. CASE Remind
  <2>1. q.scan = "remind"
    BY <1>1, <1>6 DEF Remind
  <2>2. PICK s \in Listed :
          LET rest == [q.todo EXCEPT ![s] = NewDelivery]
              row == [q.todo[s] EXCEPT !.reminded = @ \cup Due(age[s])]
          IN \/ Load(Scanner, [q EXCEPT !.at = "remind", !.id = s,
                                        !.row = row, !.todo = rest])
             \/ Load(Scanner, [q EXCEPT !.todo = rest])
    BY <1>1, <1>6 DEF Remind
  <2> DEFINE rest == [q.todo EXCEPT ![s] = NewDelivery]
             row == [q.todo[s] EXCEPT !.reminded = @ \cup Due(age[s])]
             sent == [q EXCEPT !.at = "remind", !.id = s, !.row = row,
                               !.todo = rest]
             skipped == [q EXCEPT !.todo = rest]
  <2>3. /\ sent.at = "remind" /\ sent.scan = q.scan /\ sent.open = q.open
        /\ skipped.at = "scan" /\ skipped.scan = q.scan
        /\ skipped.open = q.open
    BY <1>1, <1>2 DEF Request
  <2>4. Load(Scanner, sent) \/ Load(Scanner, skipped)
    BY <2>2
  <2> HIDE DEF sent, skipped
  <2> QED BY <1>4, <2>1, <2>3, <2>4
<1>7. CASE NextScan
  <2>1. \A s \in Seqs : NoRows[s] = NewDelivery
    BY DEF NoRows
  <2>2. {"scan", "idle"} \cap (CopySteps \cup {"load", "C", "other"}) = {}
    BY DEF CopySteps, Actions
  <2>3. CASE q.scan = "auto"
    <3> DEFINE v == [Idle EXCEPT !.at = "scan", !.scan = "remind",
                                 !.todo = Copies(ReminderDue)]
    <3>1. Load(Scanner, v)
      BY <1>1, <1>7, <2>3 DEF NextScan
    <3>2. v.at = "scan" /\ v.scan = "remind" /\ v.open = {}
      BY DEF Idle
    <3> HIDE DEF v
    <3> QED BY <1>3, <2>2, <3>1, <3>2
  <2>4. CASE q.scan = "remind"
    <3> DEFINE v == [Idle EXCEPT !.at = "scan", !.scan = "C",
                                 !.open = NegotiationDue]
    <3>1. Load(Scanner, v)
      BY <1>1, <1>7, <2>4 DEF NextScan
    <3>2. /\ v.at = "scan" /\ v.open = NegotiationDue
          /\ \A s \in Seqs : v.todo[s] = NewDelivery
      BY <2>1 DEF Idle
    <3> HIDE DEF v
    <3> QED BY <1>3, <2>2, <3>1, <3>2 DEF NegotiationDue
  <2>5. CASE q.scan = "C"
    <3>1. Load(Scanner, Idle)
      BY <1>1, <1>7, <2>5 DEF NextScan
    <3>2. Idle.at = "idle" /\ Idle.scan = "auto" /\ Idle.open = {}
      BY DEF Idle
    <3> QED BY <1>3, <2>2, <3>1, <3>2
  <2> QED BY <1>2, <2>3, <2>4, <2>5 DEF Request, Scans
<1> QED BY <1>5, <1>6, <1>7 DEF Scanning

LEMMA StopGrounds ==
    ASSUME IInv, GInv, NEW p \in Processes, Stop(p), [Next]_vars,
           overlaps' = 0
    PROVE  GInv'
<1>1. /\ Acts(p) /\ UNCHANGED rows /\ stops' > 0 /\ req'[p] = Idle
  BY DEF Acts, Stop, Load, IInv, RowsOK
<1>2. Idle.at = "idle" /\ Idle.scan = "auto" /\ Idle.open = {}
  BY DEF Idle
<1>3. "idle" \notin CopySteps
  BY DEF CopySteps, Actions
<1>4. Current(req[p])'
  BY <1>1, <1>2, <1>3 DEF Current
<1> QED BY <1>1, <1>2, <1>4, RowsKeep


\* An operation that goes on with no row in hand.
LEMMA ProceedCurrent ==
    ASSUME IInv, NEW p \in Processes, Current(req[p]),
           NEW step \in {"idle", "scan", "negotiate", "load"},
           Proceed(p, step),
           \A n \in req[p].open : negotiations'[n] = negotiations[n]
    PROVE  Current(req[p])' /\ req'[p].at = step
<1>1. /\ req'[p].at = step /\ req'[p].open = req[p].open
      /\ req'[p].scan = req[p].scan /\ req'[p].todo = req[p].todo
  BY Held DEF Proceed, IInv, RowsOK, Request
<1>2. step \notin CopySteps \cup {"C", "other"}
  BY DEF CopySteps, Actions
<1> QED BY <1>1, <1>2 DEF Current

LEMMA FinishCurrent ==
    ASSUME IInv, NEW p \in Processes, Current(req[p]), Finish(p),
           \A n \in req[p].open : negotiations'[n] = negotiations[n]
    PROVE  Current(req[p])' /\ req'[p].at \in {"idle", "scan"}
<1>1. PICK step \in {"idle", "scan"} : Proceed(p, step)
  BY DEF Finish
<1> QED BY <1>1, ProceedCurrent

\* The steps that save a delivery, without deciding it.
LEMMA UndecidedGrounds ==
    ASSUME IInv, GInv, NEW p \in Processes, [Next]_vars, overlaps' = 0,
           InsertDelivery(p) \/ SaveRead(p)
    PROVE  GInv'
<1>1. /\ Acts(p) /\ p \in DOMAIN req
      /\ UNCHANGED <<order, negotiations, stops>>
  BY DEF Acts, Continue, InsertDelivery, SaveRead, IInv, RowsOK
<1>2. Current(req[p]) /\ Backed(req[p]) /\ req[p] \in Request
  BY <1>1, InForce, Held
<1>3. \A s \in Seqs : deliveries'[s].status \in {"accepted", "auto_accepted"}
        => deliveries[s].status \in {"accepted", "auto_accepted"}
  <2>1. CASE InsertDelivery(p)
    <3>1. CASE UNCHANGED deliveries
      BY <3>1
    <3>2. ASSUME NEW g \in BOOLEAN,
                 SaveDelivery(req[p].id, [status |-> "submitted", gates |-> g,
                                          reminded |-> {}])
          PROVE  \A s \in Seqs : deliveries'[s].status # deliveries[s].status
                   => deliveries'[s].status = "submitted"
      BY <3>2 DEF SaveDelivery, IInv, RowsOK
    <3> QED BY <2>1, <3>1, <3>2 DEF InsertDelivery
  <2>2. CASE SaveRead(p)
    <3>1. req[p].row.status = "submitted" /\ req[p].row \in DeliveryRow
      BY <2>2, Held DEF SaveRead, At, OpSound, RowSteps, Request
    <3>2. PICK row \in DeliveryRow :
            row.status = "submitted" /\ SaveDelivery(req[p].id, row)
      BY <2>2, <3>1 DEF SaveRead, DeliveryRow
    <3> QED BY <3>2 DEF SaveDelivery, IInv, RowsOK
  <2> QED BY <2>1, <2>2
<1>4. Grounds' => Grounds
  BY <1>1, <1>3 DEF Grounds
<1>5. req[p].at \in {"insert", "gate", "remind"}
  BY DEF InsertDelivery, SaveRead, At
<1>6. Current(req[p])' /\ req'[p].at \notin {"load", "accept"}
  <2>1. CASE Finish(p)
    BY <1>1, <1>2, <2>1, FinishCurrent
  <2>2. CASE /\ req' = [req EXCEPT ![p].at = "inAccept", ![p].id = None]
             /\ At(p, "insert")
    <3>1. /\ req'[p].at = "inAccept" /\ req'[p].open = req[p].open
          /\ req'[p].scan = req[p].scan /\ req'[p].todo = req[p].todo
          /\ req'[p].copy = req[p].copy
      BY <1>1, <1>2, <2>2 DEF Request
    <3>2. req[p].copy = order
      BY <1>2, <2>2 DEF Current, CopySteps, At
    <3> QED BY <1>1, <1>2, <3>1, <3>2 DEF Current
  <2> QED BY <2>1, <2>2 DEF InsertDelivery, SaveRead
<1>7. Grounds => Grounds'
  BY <1>1, GroundsStay
<1>8. Backed(req[p])'
  BY <1>1, <1>2, <1>4, <1>5, <1>6, <1>7 DEF Backed
<1> QED BY <1>1, <1>6, <1>8, OnlyOne

\* The steps that decide for the delivery.
LEMMA AcceptanceGrounds ==
    ASSUME IInv, GInv, NEW p \in Processes, [Next]_vars, overlaps' = 0,
           \/ SaveReview(p) /\ At(p, "accepted")
           \/ SaveAutoAccepted(p)
           \/ SaveDecision(p) /\ At(p, "C")
    PROVE  GInv'
<1>1. Acts(p) /\ p \in DOMAIN req /\ UNCHANGED <<order, stops>>
  BY DEF Acts, Continue, SaveReview, SaveAutoAccepted, SaveDecision, IInv,
         RowsOK
<1>2. /\ Current(req[p]) /\ Backed(req[p]) /\ req[p] \in Request
      /\ OpSound(req[p])
  BY <1>1, InForce, Held
<1>3. CASE SaveReview(p) /\ At(p, "accepted")
  <2>1. req[p].id \in Seqs
    BY <1>2, <1>3 DEF OpSound, At, RowSteps, Actions
  <2>2. deliveries'[req[p].id].status = "accepted"
    BY <1>2, <1>3, <2>1
    DEF SaveReview, SaveDelivery, At, IInv, RowsOK, Request, DeliveryRow
  <2>3. Grounds'
    BY <2>1, <2>2 DEF Grounds
  <2>4. req[p].copy = order
    BY <1>2, <1>3 DEF Current, At, CopySteps, Actions
  <2>5. req'[p] = [Idle EXCEPT !.at = "accept", !.copy = req[p].copy]
    BY <1>1, <1>3 DEF SaveReview, At
  <2>6. /\ req'[p].at = "accept" /\ req'[p].copy = order
        /\ req'[p].scan = "auto" /\ req'[p].open = {}
    BY <2>4, <2>5 DEF Idle
  <2>7. Current(req[p])'
    BY <1>1, <2>6 DEF Current
  <2>8. Backed(req[p])'
    BY <2>3, <2>6 DEF Backed
  <2> QED BY <1>1, <2>7, <2>8, OnlyOne
<1>4. ASSUME Proceed(p, "load"), Grounds',
             \A n \in req[p].open : negotiations'[n] = negotiations[n]
      PROVE  GInv'
  <2>1. Current(req[p])' /\ req'[p].at = "load"
    BY <1>2, <1>4, ProceedCurrent
  <2>2. Backed(req[p])'
    BY <1>4, <2>1 DEF Backed
  <2> QED BY <1>1, <2>1, <2>2, OnlyOne
<1>5. CASE SaveAutoAccepted(p)
  <2>1. req[p].id \in Seqs
    BY <1>2, <1>5 DEF SaveAutoAccepted, OpSound, At, RowSteps
  <2>2. deliveries'[req[p].id].status = "auto_accepted"
    BY <1>2, <1>5, <2>1
    DEF SaveAutoAccepted, SaveDelivery, IInv, RowsOK, Request, DeliveryRow
  <2> QED BY <1>4, <1>5, <2>1, <2>2 DEF SaveAutoAccepted, Grounds
<1>6. CASE SaveDecision(p) /\ At(p, "C")
  <2>1. req[p].id \in Negotiations \ req[p].open
    BY <1>2, <1>6 DEF Current, At
  <2>2. /\ negotiations'[req[p].id] = "C"
        /\ \A n \in req[p].open : negotiations'[n] = negotiations[n]
    BY <1>2, <1>6, <2>1 DEF SaveDecision, At, IInv, RowsOK, Request
  <2>3. Proceed(p, "load")
    BY <1>6 DEF SaveDecision, ThenAccepts
  <2> QED BY <1>4, <2>1, <2>2, <2>3 DEF Grounds
<1> QED BY <1>3, <1>5, <1>6

\* The steps that decide otherwise, or open a negotiation.
LEMMA RefusalGrounds ==
    ASSUME IInv, GInv, NEW p \in Processes, [Next]_vars, overlaps' = 0,
           \/ SaveReview(p) /\ ~At(p, "accepted")
           \/ SaveDecision(p) /\ ~At(p, "C")
           \/ InsertNegotiation(p)
    PROVE  GInv'
<1>1. Acts(p) /\ p \in DOMAIN req /\ UNCHANGED <<order, stops>>
  BY DEF Acts, Continue, SaveReview, SaveDecision, InsertNegotiation, IInv,
         RowsOK
<1>2. /\ Current(req[p]) /\ Backed(req[p]) /\ req[p] \in Request
      /\ OpSound(req[p])
  BY <1>1, InForce, Held
<1>3. req[p].at \notin {"load", "accept"}
  BY DEF SaveReview, SaveDecision, InsertNegotiation, At, Actions
<1>4. ASSUME Grounds' => Grounds, Current(req[p])',
             req'[p].at \notin {"load", "accept"}
      PROVE  GInv'
  <2>1. Grounds => Grounds'
    BY <1>1, GroundsStay
  <2>2. Backed(req[p])'
    BY <1>1, <1>2, <1>3, <1>4, <2>1 DEF Backed
  <2> QED BY <1>1, <1>4, <2>2, OnlyOne
<1>5. CASE SaveReview(p) /\ ~At(p, "accepted")
  <2>1. /\ UNCHANGED negotiations
        /\ req[p].at \in {"rejected", "revision_requested"}
    BY <1>5 DEF SaveReview, Actions, At
  <2>2. \A s \in Seqs : deliveries'[s].status \in {"accepted", "auto_accepted"}
          => deliveries[s].status \in {"accepted", "auto_accepted"}
    BY <1>2, <1>5, <2>1
    DEF SaveReview, SaveDelivery, IInv, RowsOK, Request, DeliveryRow
  <2>3. Grounds' => Grounds
    BY <2>1, <2>2 DEF Grounds
  <2>4. CASE At(p, "rejected")
    <3>1. Finish(p)
      BY <1>5, <2>4 DEF SaveReview, At
    <3> QED BY <1>2, <1>4, <2>1, <2>3, <3>1, FinishCurrent
  <2>5. CASE At(p, "revision_requested")
    <3>1. req' = [req EXCEPT ![p].at = "revise", ![p].row = NewDelivery]
      BY <1>5, <2>5 DEF SaveReview, At
    <3>2. /\ req'[p].at = "revise" /\ req'[p].open = req[p].open
          /\ req'[p].scan = req[p].scan /\ req'[p].todo = req[p].todo
          /\ req'[p].copy = req[p].copy
      BY <1>1, <1>2, <3>1 DEF Request
    <3>3. req[p].copy = order
      BY <1>2, <2>5 DEF Current, CopySteps, At, Actions
    <3> QED BY <1>1, <1>2, <1>4, <2>1, <2>3, <3>2, <3>3 DEF Current
  <2> QED BY <2>1, <2>4, <2>5 DEF At
<1>6. CASE SaveDecision(p) /\ ~At(p, "C")
  <2>1. /\ req[p].at = "other" /\ UNCHANGED deliveries /\ Finish(p)
        /\ negotiations' = [negotiations EXCEPT ![req[p].id] = "other"]
    BY <1>6 DEF SaveDecision, ThenAccepts, At
  <2>2. req[p].id \in Negotiations \ req[p].open
    BY <1>2, <2>1 DEF Current
  <2>3. \A n \in req[p].open : negotiations'[n] = negotiations[n]
    BY <1>2, <2>1, <2>2 DEF IInv, RowsOK, Request
  <2>4. Grounds' => Grounds
    BY <2>1 DEF Grounds, IInv, RowsOK
  <2> QED BY <1>2, <1>4, <2>1, <2>3, <2>4, FinishCurrent
<1>7. CASE InsertNegotiation(p)
  <2>1. UNCHANGED deliveries /\ Finish(p)
    BY <1>7 DEF InsertNegotiation
  <2>2. \A n \in Negotiations : \/ negotiations'[n] = negotiations[n]
                                \/ negotiations[n] = "none"
                                   /\ negotiations'[n] = "open"
    BY <1>7 DEF InsertNegotiation, Unused, IInv, RowsOK
  <2>3. \A n \in req[p].open : negotiations'[n] = negotiations[n]
    BY <1>2, <2>2 DEF Current, Request
  <2>4. Grounds' => Grounds
    BY <2>1, <2>2 DEF Grounds
  <2> QED BY <1>2, <1>4, <2>1, <2>3, <2>4, FinishCurrent
<1> QED BY <1>5, <1>6, <1>7

\* The steps that save the order, or load it to accept it.
LEMMA OrderGrounds ==
    ASSUME IInv, GInv, NEW p \in Processes, [Next]_vars, overlaps' = 0,
           \/ SaveInAccept(p) \/ SaveAccepted(p) \/ SaveRevising(p)
           \/ LoadOrder(p) \/ SaveClaim(p)
    PROVE  GInv'
<1>1. Acts(p) /\ p \in DOMAIN req /\ UNCHANGED <<deliveries, negotiations, stops>>
  BY DEF Acts, Continue, SaveInAccept, SaveAccepted, SaveRevising, LoadOrder,
         SaveClaim, rows, IInv, RowsOK
<1>2. /\ Current(req[p]) /\ Backed(req[p]) /\ req[p] \in Request
  BY <1>1, InForce, Held
<1>3. Grounds' <=> Grounds
  BY <1>1 DEF Grounds
<1>4. CASE LoadOrder(p)
  <2>1. UNCHANGED rows /\ req[p].at = "load"
    BY <1>4 DEF LoadOrder, At
  <2>2. /\ req'[p].at = "accept" /\ req'[p].open = req[p].open
        /\ req'[p].scan = req[p].scan /\ req'[p].todo = req[p].todo
        /\ req'[p].copy = order
    BY <1>1, <1>2, <1>4 DEF LoadOrder, Request
  <2>3. Current(req[p])'
    BY <1>2, <2>1, <2>2 DEF Current, rows
  <2> QED BY <1>1, <2>1, <2>2, <2>3, RowsKeep
<1>5. CASE SaveInAccept(p) \/ SaveAccepted(p) \/ SaveRevising(p)
           \/ SaveClaim(p)
  <2>1. /\ req[p].at \in {"inAccept", "accept", "revise", "claim"}
        /\ req[p].copy = order /\ order \in OrderRow
    BY <1>2, <1>5, Held
    DEF SaveInAccept, SaveAccepted, SaveRevising, SaveClaim, At, Current,
        CopySteps
  <2>2. /\ req[p].at = "accept" => order'.appeal
        /\ req[p].at # "accept" => order'.appeal = order.appeal
    BY <1>5, <2>1
    DEF SaveInAccept, SaveAccepted, SaveRevising, SaveClaim, At, Accepted,
        OrderRow
  <2>3. PICK step \in {"idle", "scan", "negotiate"} : Proceed(p, step)
    BY <1>5 DEF SaveInAccept, SaveAccepted, SaveRevising, SaveClaim, Finish
  <2>4. Current(req[p])' /\ req'[p].at = step
    BY <1>1, <1>2, <2>3, ProceedCurrent
  <2>5. Backed(req[p])'
    BY <1>1, <1>2, <1>3, <2>1, <2>2, <2>4 DEF Backed
  <2> QED BY <1>1, <2>4, <2>5, OnlyOne
<1> QED BY <1>4, <1>5

LEMMA NextKeepsGInv == IInv /\ GInv /\ [Next]_vars => GInv'
<1> SUFFICES ASSUME IInv, GInv, [Next]_vars PROVE GInv' OBVIOUS
<1>1. CASE Still
  BY <1>1 DEF Still, rows, GInv, Alone, Free, Current, Backed, Grounds
<1>2. CASE ~Still
  <2>1. PICK p \in Processes : Acts(p)
    BY <1>2, NextActs
  <2>2. CASE overlaps' # 0
    BY <2>2 DEF GInv
  <2>3. CASE overlaps' = 0
    BY <1>2, <2>1, <2>3, StartsGround, ScanningGrounds, StopGrounds,
       UndecidedGrounds, AcceptanceGrounds, RefusalGrounds, OrderGrounds
    DEF Acts, Continue
  <2> QED BY <2>2, <2>3
<1> QED BY <1>1, <1>2

\* Without two operations at once, whatever operations are tried and wherever
\* they stop, the period of appeal has an acceptance behind it, and an
\* acceptance that was carried through has its period.
THEOREM AppealHasGrounds == Spec => []AppealGrounded
<1>1. IInv /\ GInv => AppealGrounded
  <2> SUFFICES ASSUME IInv, GInv, overlaps = 0
               PROVE  /\ order.appeal => Grounds
                      /\ Quiet /\ stops = 0 /\ Grounds => order.appeal
    BY DEF AppealGrounded
  <2>1. PICK p \in Processes : Alone(p)
    <3>1. Scanner \in Processes
      BY DEF Processes
    <3> QED BY <3>1 DEF IInv, Serial, Alone
  <2>2. Backed(req[p])
    BY <2>1 DEF GInv
  <2>3. Quiet => req[p].at \notin {"load", "accept"}
    BY DEF Quiet, Free, Idle
  <2> QED BY <2>2, <2>3 DEF Backed
<1> QED BY <1>1, Inductive, InitGInv, NextKeepsGInv, PTL DEF Spec


-----------------------------------------------------------------------------
(* Beyond the limit there is a negotiation                                 *)

Exhausted(s) ==
    deliveries[s].status = "revision_requested" /\ s >= RevisionLimit
Negotiated == \E n \in Negotiations : negotiations[n] # "none"

\* LimitNegotiates, with what is missing between the saves of a review.
Limited(r) ==
    stops = 0 => \A s \in Seqs : Exhausted(s) =>
      \/ Negotiated
      \/ r.at = "negotiate"
      \/ r.at = "revise" /\ r.id = s

LInv ==
    overlaps = 0 => \A p \in Processes : Alone(p) => Limited(req[p])

LEMMA InitLInv == Init => LInv
<1> SUFFICES ASSUME Init PROVE LInv OBVIOUS
<1>1. \A s \in Seqs : ~Exhausted(s)
  BY DEF Init, NoRows, NewDelivery, Exhausted
<1> QED BY <1>1 DEF LInv, Limited

LEMMA OnlyOneLimited ==
    ASSUME IInv, NEW p \in Processes, Acts(p), overlaps' = 0,
           Limited(req[p])'
    PROVE  LInv'
<1>1. PICK v : req' = [req EXCEPT ![p] = v]
  BY ActsAlone
<1>2. \A q \in Processes \ {p} : req'[q] = Idle
  BY <1>1, ActsAlone DEF Alone, Free, IInv, RowsOK
<1>3. ASSUME NEW q \in Processes \ {p}, Alone(q)'
      PROVE  req'[q] = req'[p]
  BY <1>2, <1>3 DEF Alone, Free
<1> QED BY <1>3 DEF LInv, Limited

\* A negotiation is never lost, and only a review asks for a revision.
LEMMA NegotiatedStays ==
    ASSUME IInv, NEW p \in Processes, Acts(p), Negotiated
    PROVE  Negotiated'
<1>1. PICK n \in Negotiations : negotiations[n] # "none"
  BY DEF Negotiated
<1>2. \/ UNCHANGED negotiations
      \/ InsertNegotiation(p)
      \/ SaveDecision(p)
  <2>1. CASE Scanning(p)
    BY <2>1, Zenon DEF Scanning, NextRow, Remind, NextScan, rows
  <2>2. CASE Starts(p)
    BY <2>2, StartsBegins DEF Begin, rows
  <2>3. CASE Continue(p)
    BY <2>3 DEF Continue, InsertDelivery, SaveInAccept, SaveReview,
       SaveAccepted, SaveRevising, SaveRead, SaveAutoAccepted, LoadOrder,
       SaveClaim, rows
  <2> QED BY <2>1, <2>2, <2>3 DEF Acts, Stop, rows
<1>3. negotiations'[n] # "none"
  BY <1>1, <1>2 DEF InsertNegotiation, Unused, SaveDecision, IInv, RowsOK
<1> QED BY <1>3 DEF Negotiated

LEMMA ExhaustedBefore ==
    ASSUME IInv, NEW p \in Processes, Acts(p), ~SaveReview(p),
           NEW s \in Seqs, Exhausted(s)'
    PROVE  Exhausted(s)
<1>1. CASE UNCHANGED deliveries
  BY <1>1 DEF Exhausted
<1>2. CASE InsertDelivery(p)
  <2>1. CASE UNCHANGED deliveries
    BY <1>1, <2>1
  <2>2. ASSUME NEW g \in BOOLEAN,
               SaveDelivery(req[p].id, [status |-> "submitted", gates |-> g,
                                        reminded |-> {}])
        PROVE  Exhausted(s)
    BY <2>2 DEF Exhausted, SaveDelivery, IInv, RowsOK
  <2> QED BY <1>2, <2>1, <2>2 DEF InsertDelivery
<1>3. CASE SaveRead(p) \/ SaveAutoAccepted(p)
  <2>1. req[p].row.status = "submitted" /\ req[p].row \in DeliveryRow
    BY <1>3, Held
    DEF SaveRead, SaveAutoAccepted, At, OpSound, RowSteps, Request
  <2>2. PICK row \in DeliveryRow : /\ row.status # "revision_requested"
                                   /\ SaveDelivery(req[p].id, row)
    BY <1>3, <2>1 DEF SaveRead, SaveAutoAccepted, DeliveryRow, DeliveryStatuses
  <2> QED BY <2>2 DEF SaveDelivery, Exhausted, IInv, RowsOK
<1>4. CASE Scanning(p)
  BY <1>1, <1>4, Zenon DEF Scanning, NextRow, Remind, NextScan, rows
<1>5. CASE Starts(p)
  BY <1>1, <1>5, StartsBegins DEF Begin, rows
<1>6. CASE Continue(p)
  BY <1>1, <1>2, <1>3, <1>6
  DEF Continue, SaveInAccept, SaveAccepted, SaveRevising, InsertNegotiation,
      LoadOrder, SaveDecision, SaveClaim, rows
<1> QED BY <1>1, <1>4, <1>5, <1>6 DEF Acts, Stop, rows

\* After the insert there is a negotiation, the new one or earlier ones.
LEMMA InsertNegotiates ==
    ASSUME IInv, Negotiations # {}, NEW p \in Processes, InsertNegotiation(p)
    PROVE  Negotiated'
BY DEF InsertNegotiation, Unused, Negotiated, IInv, RowsOK

LEMMA ActsLimited ==
    ASSUME IInv, LInv, Negotiations # {}, NEW p \in Processes, Acts(p),
           overlaps' = 0, stops' = 0, ~Negotiated', NEW s \in Seqs,
           Exhausted(s)'
    PROVE  \/ req'[p].at = "negotiate"
           \/ req'[p].at = "revise" /\ req'[p].id = s
<1>1. /\ p \in DOMAIN req /\ req[p] \in Request /\ OpSound(req[p])
      /\ Limited(req[p]) /\ ~Negotiated
  BY ActsAlone, Held, NegotiatedStays DEF LInv, IInv, RowsOK
<1>2. stops = 0 /\ ~Stop(p)
  <2>1. ~Stop(p)
    BY DEF Stop, IInv, RowsOK
  <2>2. CASE Scanning(p)
    <3>1. UNCHANGED stops
      BY <2>2, Zenon DEF Scanning, NextRow, Remind, NextScan
    <3> QED BY <2>1, <3>1
  <2>3. CASE Starts(p)
    <3>1. UNCHANGED stops
      BY <2>3, StartsBegins DEF Begin
    <3> QED BY <2>1, <3>1
  <2>4. CASE Continue(p)
    <3>1. UNCHANGED stops
      BY <2>4 DEF Continue, InsertDelivery, SaveInAccept, SaveReview,
         SaveAccepted, SaveRevising, InsertNegotiation, SaveRead,
         SaveAutoAccepted, LoadOrder, SaveDecision, SaveClaim
    <3> QED BY <2>1, <3>1
  <2> QED BY <2>1, <2>2, <2>3, <2>4 DEF Acts
<1>3. CASE SaveReview(p)
  <2>1. CASE At(p, "revision_requested") /\ req[p].id = s
    <3>1. req' = [req EXCEPT ![p].at = "revise", ![p].row = NewDelivery]
      BY <1>3, <2>1 DEF SaveReview, At
    <3> QED BY <1>1, <2>1, <3>1 DEF Request
  <2>2. CASE ~(At(p, "revision_requested") /\ req[p].id = s)
    <3>1. Exhausted(s)
      BY <1>1, <1>3, <2>2
      DEF SaveReview, SaveDelivery, Exhausted, At, Actions, Request,
          DeliveryRow, IInv, RowsOK
    <3>2. req[p].at \notin {"negotiate", "revise"}
      BY <1>3 DEF SaveReview, Actions
    <3> QED BY <1>1, <1>2, <3>1, <3>2 DEF Limited
  <2> QED BY <2>1, <2>2
<1>4. CASE ~SaveReview(p)
  <2>1. Exhausted(s)
    BY <1>4, ExhaustedBefore
  <2>2. \/ req[p].at = "negotiate"
        \/ req[p].at = "revise" /\ req[p].id = s
    BY <1>1, <1>2, <2>1 DEF Limited
  <2>3. ~Free(p) /\ ~Starts(p) /\ ~Scanning(p)
    <3>1. ~Free(p)
      BY <2>2, Held
    <3>2. ~Starts(p)
      BY <3>1, StartsBegins DEF Begin
    <3>3. ~Scanning(p)
      BY <2>2, Zenon DEF Scanning, NextRow, Remind, NextScan, At
    <3> QED BY <3>1, <3>2, <3>3
  <2>4. ~InsertNegotiation(p)
    BY InsertNegotiates
  <2>5. SaveRevising(p)
    BY <1>2, <1>4, <2>2, <2>3, <2>4
    DEF Acts, Continue, InsertDelivery, SaveInAccept, SaveAccepted,
        InsertNegotiation, SaveRead, SaveAutoAccepted, LoadOrder,
        SaveDecision, SaveClaim, At
  <2>6. At(p, "revise") /\ req[p].id = s
    BY <2>2, <2>5 DEF SaveRevising, At
  <2>7. UsedUp(req[p].id)
    BY <2>1, <2>6 DEF Exhausted, UsedUp
  <2>8. Proceed(p, "negotiate")
    BY <2>5, <2>7 DEF SaveRevising
  <2> QED BY <1>1, <2>8 DEF Proceed, Request
<1> QED BY <1>3, <1>4

LEMMA NextKeepsLInv ==
    Negotiations # {} => (IInv /\ LInv /\ [Next]_vars => LInv')
<1> SUFFICES ASSUME Negotiations # {}, IInv, LInv, [Next]_vars PROVE LInv'
  OBVIOUS
<1>1. CASE Still
  BY <1>1 DEF Still, rows, LInv, Alone, Free, Limited, Exhausted, Negotiated
<1>2. CASE ~Still
  <2>1. PICK p \in Processes : Acts(p)
    BY <1>2, NextActs
  <2>2. CASE overlaps' # 0
    BY <2>2 DEF LInv
  <2>3. CASE overlaps' = 0
    <3>1. Limited(req[p])'
      BY <2>1, <2>3, ActsLimited DEF Limited
    <3> QED BY <2>1, <2>3, <3>1, OnlyOneLimited
  <2> QED BY <2>2, <2>3
<1> QED BY <1>1, <1>2

\* Without two operations at once and without a stop, a revision asked for at
\* the limit, whatever the limit is, leaves a negotiation behind it.  The bound
\* on the negotiations has to leave room for one.
THEOREM LimitHasNegotiation ==
    ASSUME Negotiations # {}
    PROVE  Spec => []LimitNegotiates
<1>1. IInv /\ LInv => LimitNegotiates
  <2> SUFFICES ASSUME IInv, LInv, overlaps = 0, stops = 0, Quiet,
                      NEW s \in Seqs, Exhausted(s)
               PROVE  Negotiated
    BY DEF LimitNegotiates, Exhausted, Negotiated
  <2>1. Scanner \in Processes
    BY DEF Processes
  <2>2. Limited(req[Scanner])
    BY <2>1 DEF Quiet, Alone, LInv
  <2>3. req[Scanner].at = "idle"
    BY <2>1 DEF Quiet, Free, Idle
  <2> QED BY <2>2, <2>3 DEF Limited
<1>2. IInv /\ LInv /\ [Next]_vars => LInv'
  BY NextKeepsLInv
<1> QED BY <1>1, <1>2, Inductive, InitLInv, PTL DEF Spec

-----------------------------------------------------------------------------
(* Silence accepts what it has looked at                                   *)

\* The reminders a copy has recorded were sent.
Sent(r, sent) ==
    /\ r.at \in RowSteps => r.row.reminded \subseteq sent[r.id]
    /\ \A s \in Seqs : r.todo[s].reminded \subseteq sent[s]

KInv ==
    /\ age \in [Seqs -> Ages]
    /\ notified \in [Seqs -> SUBSET ReminderDays]
    /\ \A s \in Seqs : deliveries[s].reminded \subseteq notified[s]
    /\ \A p \in Processes : Sent(req[p], notified)

\* The scan that accepts holds the rows as they are.
Fresh(r) ==
    /\ r.at = "auto" => deliveries[r.id] = r.row
    /\ r.scan = "auto" =>
         \A s \in Seqs : r.todo[s] # NewDelivery => deliveries[s] = r.todo[s]

FInv == overlaps = 0 => \A p \in Processes : Alone(p) => Fresh(req[p])

LEMMA NoneSent ==
    /\ NewDelivery.reminded = {}
    /\ \A s \in Seqs : NoRows[s] = NewDelivery
    /\ Idle.at \notin RowSteps /\ Idle.scan = "auto" /\ Idle.todo = NoRows
BY DEF NewDelivery, NoRows, Idle, RowSteps, Actions

LEMMA InitKInv == Init => KInv /\ FInv
<1> SUFFICES ASSUME Init PROVE KInv /\ FInv OBVIOUS
<1>1. \A p \in Processes : req[p] = Idle
  BY DEF Init
<1>2. Sent(Idle, notified)
  BY NoneSent DEF Sent
<1>3. Fresh(Idle)
  BY NoneSent DEF Fresh, RowSteps
<1>4. age \in [Seqs -> Ages] /\ notified \in [Seqs -> SUBSET ReminderDays]
  BY DaysAssumption DEF Init, Ages
<1>5. \A s \in Seqs : deliveries[s].reminded \subseteq notified[s]
  BY NoneSent DEF Init
<1> QED BY <1>1, <1>2, <1>3, <1>4, <1>5 DEF KInv, FInv

\* What a step can do to the deliveries.
LEMMA Saves ==
    ASSUME IInv, NEW p \in Processes, Acts(p)
    PROVE  \/ UNCHANGED deliveries
           \/ /\ deliveries[req[p].id].status = "none" /\ Continue(p)
              /\ \E g \in BOOLEAN :
                   SaveDelivery(req[p].id,
                     [status |-> "submitted", gates |-> g, reminded |-> {}])
           \/ /\ req[p].at \in RowSteps /\ Continue(p)
              /\ \E row \in DeliveryRow :
                   /\ SaveDelivery(req[p].id, row)
                   /\ row.reminded = req[p].row.reminded
                   /\ row.status = "auto_accepted" => req[p].at = "auto"
<1>1. CASE Scanning(p)
  BY <1>1, Zenon DEF Scanning, NextRow, Remind, NextScan, rows
<1>2. CASE Starts(p)
  BY <1>2, StartsBegins DEF Begin, rows
<1>3. CASE InsertDelivery(p)
  BY <1>3 DEF InsertDelivery, Continue
<1>4. CASE SaveReview(p) \/ SaveRead(p) \/ SaveAutoAccepted(p)
  <2>1. req[p].at \in RowSteps /\ Continue(p)
    BY <1>4
    DEF SaveReview, SaveRead, SaveAutoAccepted, RowSteps, At, Continue
  <2>2. req[p].row \in DeliveryRow /\ req[p].row.status = "submitted"
    BY <2>1, Held DEF OpSound, Request
  <2>3. CASE SaveReview(p)
    <3> DEFINE row == [req[p].row EXCEPT !.status = req[p].at]
    <3>1. SaveDelivery(req[p].id, row) /\ req[p].at \in Actions
      BY <2>3 DEF SaveReview
    <3>2. /\ row \in DeliveryRow /\ row.reminded = req[p].row.reminded
          /\ row.status # "auto_accepted"
      BY <2>2, <3>1 DEF DeliveryRow, DeliveryStatuses, Actions
    <3> QED BY <2>1, <3>1, <3>2
  <2>4. CASE SaveRead(p)
    <3>1. \A g \in BOOLEAN :
            /\ [req[p].row EXCEPT !.gates = g] \in DeliveryRow
            /\ [req[p].row EXCEPT !.gates = g].reminded = req[p].row.reminded
            /\ [req[p].row EXCEPT !.gates = g].status = "submitted"
      BY <2>2 DEF DeliveryRow
    <3>2. \/ SaveDelivery(req[p].id, req[p].row)
          \/ \E g \in BOOLEAN :
               SaveDelivery(req[p].id, [req[p].row EXCEPT !.gates = g])
      BY <2>4 DEF SaveRead
    <3>3. PICK row \in DeliveryRow :
            /\ SaveDelivery(req[p].id, row)
            /\ row.reminded = req[p].row.reminded
            /\ row.status = "submitted"
      BY <2>2, <3>1, <3>2
    <3> QED BY <2>1, <3>3
  <2>5. CASE SaveAutoAccepted(p)
    <3> DEFINE row == [req[p].row EXCEPT !.status = "auto_accepted"]
    <3>1. SaveDelivery(req[p].id, row) /\ req[p].at = "auto"
      BY <2>5 DEF SaveAutoAccepted, At
    <3>2. row \in DeliveryRow /\ row.reminded = req[p].row.reminded
      BY <2>2 DEF DeliveryRow, DeliveryStatuses
    <3> QED BY <2>1, <3>1, <3>2
  <2> QED BY <1>4, <2>3, <2>4, <2>5
<1>5. CASE Continue(p) /\ ~(InsertDelivery(p) \/ SaveReview(p) \/ SaveRead(p)
                            \/ SaveAutoAccepted(p))
  BY <1>5
  DEF Continue, SaveInAccept, SaveAccepted, SaveRevising, InsertNegotiation,
      LoadOrder, SaveDecision, SaveClaim, rows
<1> QED BY <1>1, <1>2, <1>3, <1>4, <1>5 DEF Acts, Stop, rows

\* An operation goes on with its list, or with none; with no row in hand.
LEMMA ContinuesWith ==
    ASSUME IInv, NEW p \in Processes, Continue(p)
    PROVE  /\ req' = [req EXCEPT ![p] = req'[p]]
           /\ req'[p].at \notin RowSteps
           /\ \/ req'[p].todo = NoRows
              \/ req'[p].todo = req[p].todo /\ req'[p].scan = req[p].scan
           /\ UNCHANGED outside /\ UNCHANGED overlaps
<1>0. /\ p \in DOMAIN req /\ req[p] \in Request
      /\ {"inAccept", "accept", "revise", "negotiate", "load", "idle", "scan"}
           \cap RowSteps = {}
  BY Held DEF RowSteps, Actions, IInv, RowsOK
<1>1. ASSUME NEW step \in {"negotiate", "load", "idle", "scan"},
             Proceed(p, step)
      PROVE  /\ req' = [req EXCEPT ![p] = req'[p]]
             /\ req'[p].at \notin RowSteps
             /\ req'[p].todo = req[p].todo /\ req'[p].scan = req[p].scan
  BY <1>0, <1>1 DEF Proceed, Request
<1>2. CASE \E step \in {"negotiate", "load", "idle", "scan"} : Proceed(p, step)
  <2>1. UNCHANGED outside /\ UNCHANGED overlaps
    BY DEF Continue, InsertDelivery, SaveInAccept, SaveReview, SaveAccepted,
       SaveRevising, InsertNegotiation, SaveRead, SaveAutoAccepted,
       LoadOrder, SaveDecision, SaveClaim
  <2> QED BY <1>1, <1>2, <2>1
<1>3. ASSUME NEW v \in Request, req' = [req EXCEPT ![p] = v],
             v.at \in {"inAccept", "accept", "revise"},
             \/ v.todo = NoRows
             \/ v.todo = req[p].todo /\ v.scan = req[p].scan
      PROVE  /\ req' = [req EXCEPT ![p] = req'[p]]
             /\ req'[p].at \notin RowSteps
             /\ \/ req'[p].todo = NoRows
                \/ req'[p].todo = req[p].todo /\ req'[p].scan = req[p].scan
  BY <1>0, <1>3
<1>4. CASE ~\E step \in {"negotiate", "load", "idle", "scan"} : Proceed(p, step)
  <2>0. ~Finish(p)
    BY <1>4 DEF Finish
  <2>1. CASE InsertDelivery(p)
    <3> DEFINE v == [req[p] EXCEPT !.at = "inAccept", !.id = None]
    <3>1. /\ req' = [req EXCEPT ![p] = v] /\ UNCHANGED outside
          /\ UNCHANGED overlaps
      BY <1>0, <2>0, <2>1 DEF InsertDelivery
    <3>2. /\ v \in Request /\ v.at = "inAccept" /\ v.todo = req[p].todo
          /\ v.scan = req[p].scan
      BY <1>0 DEF Request, Steps
    <3> HIDE DEF v
    <3> QED BY <1>3, <3>1, <3>2
  <2>2. CASE SaveReview(p)
    <3>1. UNCHANGED outside /\ UNCHANGED overlaps
      BY <2>2 DEF SaveReview
    <3>2. CASE At(p, "accepted")
      <4> DEFINE v == [Idle EXCEPT !.at = "accept", !.copy = req[p].copy]
      <4>1. req' = [req EXCEPT ![p] = v]
        BY <2>2, <3>2 DEF SaveReview, At
      <4>2. v \in Request /\ v.at = "accept" /\ v.todo = NoRows
        <5>1. req[p].copy \in OrderRow
          BY <1>0 DEF Request
        <5>2. v \in Request
          BY <5>1, IdleSound DEF Request, Steps
        <5> QED BY <5>2 DEF Idle
      <4> HIDE DEF v
      <4> QED BY <1>3, <3>1, <4>1, <4>2
    <3>3. CASE At(p, "revision_requested")
      <4> DEFINE v == [req[p] EXCEPT !.at = "revise", !.row = NewDelivery]
      <4>1. req' = [req EXCEPT ![p] = v]
        BY <1>0, <2>2, <3>3 DEF SaveReview, At
      <4>2. /\ v \in Request /\ v.at = "revise" /\ v.todo = req[p].todo
            /\ v.scan = req[p].scan
        BY <1>0, IdleSound DEF Request, Steps
      <4> HIDE DEF v
      <4> QED BY <1>3, <3>1, <4>1, <4>2
    <3>4. ~At(p, "rejected")
      BY <2>0, <2>2 DEF SaveReview, At
    <3> QED BY <2>2, <3>2, <3>3, <3>4 DEF SaveReview, At, Actions
  <2>3. CASE LoadOrder(p)
    <3> DEFINE v == [req[p] EXCEPT !.at = "accept", !.copy = order]
    <3>1. /\ req' = [req EXCEPT ![p] = v] /\ UNCHANGED outside
          /\ UNCHANGED overlaps
      BY <1>0, <2>3 DEF LoadOrder
    <3>2. /\ v \in Request /\ v.at = "accept" /\ v.todo = req[p].todo
          /\ v.scan = req[p].scan
      BY <1>0, Held DEF Request, Steps
    <3> HIDE DEF v
    <3> QED BY <1>3, <3>1, <3>2
  <2>4. ~(\/ SaveInAccept(p) \/ SaveAccepted(p) \/ SaveRevising(p)
          \/ InsertNegotiation(p) \/ SaveRead(p) \/ SaveClaim(p)
          \/ SaveAutoAccepted(p) \/ SaveDecision(p))
    BY <1>4, <2>0
    DEF SaveInAccept, SaveAccepted, SaveRevising, InsertNegotiation, SaveRead,
        SaveAutoAccepted, SaveDecision, SaveClaim, ThenAccepts
  <2> QED BY <2>1, <2>2, <2>3, <2>4 DEF Continue
<1> QED BY <1>2, <1>4

\* The operation p goes on with v, and may save a delivery.
LEMMA KnownKeeps ==
    ASSUME IInv, KInv, NEW p \in Processes, NEW v,
           req' = [req EXCEPT ![p] = v], UNCHANGED age,
           notified' \in [Seqs -> SUBSET ReminderDays],
           \A s \in Seqs : notified[s] \subseteq notified'[s],
           \A s \in Seqs : deliveries'[s].reminded \subseteq notified'[s],
           Sent(v, notified')
    PROVE  KInv'
<1>1. ASSUME NEW q \in Processes \ {p} PROVE Sent(req'[q], notified')
  <2>1. req'[q] = req[q] /\ Sent(req[q], notified) /\ OpSound(req[q])
    BY DEF IInv, RowsOK, KInv
  <2>2. req[q].at \in RowSteps => req[q].id \in Seqs
    BY <2>1 DEF OpSound
  <2> QED BY <2>1, <2>2 DEF Sent
<1>2. req'[p] = v
  BY DEF IInv, RowsOK
<1> QED BY <1>1, <1>2 DEF KInv

\* A saved delivery has recorded what its copy had.
LEMMA SavedSent ==
    ASSUME IInv, KInv, NEW p \in Processes, Acts(p)
    PROVE  \A s \in Seqs : deliveries'[s].reminded \subseteq notified[s]
<1>1. deliveries \in [Seqs -> DeliveryRow] /\ Sent(req[p], notified)
  BY DEF IInv, RowsOK, KInv
<1>2. CASE UNCHANGED deliveries
  BY <1>2 DEF KInv
<1>3. ASSUME NEW row, SaveDelivery(req[p].id, row),
             row.reminded \subseteq notified[req[p].id]
      PROVE  \A s \in Seqs : deliveries'[s].reminded \subseteq notified[s]
  BY <1>1, <1>3 DEF SaveDelivery, KInv
<1> QED BY <1>1, <1>2, <1>3, Saves DEF Sent

\* A list of rows has recorded what they have.
LEMMA ListSent ==
    ASSUME IInv, KInv, NEW S
    PROVE  \A s \in Seqs : Copies(S)[s].reminded \subseteq notified[s]
BY NoneSent DEF Copies, KInv

LEMMA StartsKnown ==
    ASSUME IInv, KInv, NEW p \in Processes, Starts(p)
    PROVE  KInv'
<1>1. ASSUME NEW v, Begin(p, v), Sent(v, notified) PROVE KInv'
  <2>1. /\ req' = [req EXCEPT ![p] = v] /\ UNCHANGED age
        /\ UNCHANGED notified /\ UNCHANGED deliveries
    BY <1>1 DEF Begin, Load, outside, rows
  <2> QED BY <1>1, <2>1, KnownKeeps DEF KInv
<1>2. ASSUME NEW v, Begin(p, v), v.todo = NoRows, v.at \notin RowSteps
      PROVE  KInv'
  BY <1>1, <1>2, NoneSent DEF Sent
<1>3. ASSUME NEW v, NEW s \in Seqs, Begin(p, v), v.todo = NoRows, v.id = s,
             v.row = deliveries[s]
      PROVE  KInv'
  BY <1>1, <1>3, NoneSent DEF Sent, KInv
<1>4. {"insert", "negotiate", "C", "other", "claim", "scan"} \cap RowSteps = {}
  BY DEF RowSteps, Actions
<1>5. ASSUME NEW s \in Seqs, StartSubmit(p, s) PROVE KInv'
  <2> DEFINE v == [Idle EXCEPT !.at = "insert", !.copy = order, !.id = s]
  <2>1. v.at = "insert" /\ v.todo = NoRows
    BY DEF Idle
  <2>2. Begin(p, v)
    BY <1>5 DEF StartSubmit
  <2> HIDE DEF v
  <2> QED BY <1>2, <1>4, <2>1, <2>2
<1>6. ASSUME NEW s \in Seqs, StartGate(p, s) PROVE KInv'
  <2> DEFINE v == [Idle EXCEPT !.at = "gate", !.id = s, !.row = deliveries[s]]
  <2>1. v.id = s /\ v.row = deliveries[s] /\ v.todo = NoRows
    BY DEF Idle
  <2>2. Begin(p, v)
    BY <1>6 DEF StartGate
  <2> HIDE DEF v
  <2> QED BY <1>3, <2>1, <2>2
<1>7. ASSUME NEW a \in Actions, StartReview(p, a) PROVE KInv'
  <2>1. PICK s \in Seqs : Begin(p, [Idle EXCEPT !.at = a, !.copy = order,
                                                !.id = s, !.row = deliveries[s]])
    BY <1>7 DEF StartReview
  <2> DEFINE v == [Idle EXCEPT !.at = a, !.copy = order, !.id = s,
                               !.row = deliveries[s]]
  <2>2. v.id = s /\ v.row = deliveries[s] /\ v.todo = NoRows
    BY DEF Idle
  <2>3. Begin(p, v)
    BY <2>1
  <2> HIDE DEF v
  <2> QED BY <1>3, <2>2, <2>3
<1>8. CASE StartNegotiation(p)
  <2> DEFINE v == [Idle EXCEPT !.at = "negotiate"]
  <2>1. v.at = "negotiate" /\ v.todo = NoRows
    BY DEF Idle
  <2>2. Begin(p, v)
    BY <1>8 DEF StartNegotiation
  <2> HIDE DEF v
  <2> QED BY <1>2, <1>4, <2>1, <2>2
<1>9. ASSUME NEW n \in Negotiations, NEW d \in {"C", "other"},
             StartDecide(p, n, d)
      PROVE  KInv'
  <2> DEFINE v == [Idle EXCEPT !.at = d, !.id = n]
  <2>1. v.at = d /\ v.todo = NoRows
    BY DEF Idle
  <2>2. Begin(p, v)
    BY <1>9 DEF StartDecide
  <2> HIDE DEF v
  <2> QED BY <1>2, <1>4, <2>1, <2>2
<1>10. CASE StartClaim(p)
  <2> DEFINE v == [Idle EXCEPT !.at = "claim", !.copy = order]
  <2>1. v.at = "claim" /\ v.todo = NoRows
    BY DEF Idle
  <2>2. Begin(p, v)
    BY <1>10 DEF StartClaim
  <2> HIDE DEF v
  <2> QED BY <1>2, <1>4, <2>1, <2>2
<1>11. CASE p = Scanner /\ StartScan
  <2> DEFINE v == [Idle EXCEPT !.at = "scan", !.todo = Copies(AutoDue)]
  <2>1. v.at = "scan" /\ v.todo = Copies(AutoDue)
    BY DEF Idle
  <2>2. Begin(p, v)
    BY <1>11 DEF StartScan
  <2> HIDE DEF v
  <2> QED BY <1>1, <1>4, <2>1, <2>2, ListSent DEF Sent
<1> QED BY <1>5, <1>6, <1>7, <1>8, <1>9, <1>10, <1>11 DEF Starts

LEMMA ScanningKnown ==
    ASSUME IInv, KInv, NEW p \in Processes, Scanning(p)
    PROVE  KInv'
<1> DEFINE q == req[p]
<1>1. /\ q.at = "scan" /\ UNCHANGED <<rows, age>> /\ p = Scanner
      /\ q \in Request /\ Sent(q, notified)
  BY Held, Zenon DEF Scanning, NextRow, Remind, NextScan, At, outside, KInv
<1>2. \A s \in Listed : s \in Seqs
  BY DEF Listed
<1>3. {"scan", "C", "idle"} \cap RowSteps = {}
  BY DEF RowSteps, Actions
<1>4. ASSUME NEW v, Load(Scanner, v), Sent(v, notified), UNCHANGED notified
      PROVE  KInv'
  BY <1>1, <1>4, KnownKeeps DEF Load, KInv, rows
\* One row less on the list.
<1>5. ASSUME NEW s \in Seqs, NEW t \in Seqs
      PROVE  [q.todo EXCEPT ![s] = NewDelivery][t].reminded
               \subseteq notified[t]
  BY <1>1, <1>5, NoneSent DEF Sent, Request
<1>6. CASE NextRow
  <2>1. UNCHANGED notified
    BY <1>6, Zenon DEF NextRow, outside
  <2>2. ASSUME NEW s \in Listed,
               Load(Scanner,
                    [q EXCEPT !.at = "auto", !.id = s, !.row = q.todo[s],
                              !.todo = [q.todo EXCEPT ![s] = NewDelivery]])
        PROVE  KInv'
    <3> DEFINE v == [q EXCEPT !.at = "auto", !.id = s, !.row = q.todo[s],
                              !.todo = [q.todo EXCEPT ![s] = NewDelivery]]
    <3>1. /\ v.id = s /\ v.row = q.todo[s]
          /\ v.todo = [q.todo EXCEPT ![s] = NewDelivery]
      BY <1>1 DEF Request
    <3>2. Load(Scanner, v)
      BY <2>2
    <3> HIDE DEF v
    <3>3. Sent(v, notified)
      BY <1>1, <1>2, <1>5, <3>1 DEF Sent
    <3> QED BY <1>4, <2>1, <3>2, <3>3
  <2>3. ASSUME NEW n \in q.open,
               Load(Scanner, [q EXCEPT !.at = "C", !.id = n, !.open = @ \ {n}])
        PROVE  KInv'
    <3> DEFINE v == [q EXCEPT !.at = "C", !.id = n, !.open = @ \ {n}]
    <3>1. v.at = "C" /\ v.todo = q.todo
      BY <1>1 DEF Request
    <3>2. Load(Scanner, v)
      BY <2>3
    <3> HIDE DEF v
    <3> QED BY <1>1, <1>3, <1>4, <2>1, <3>1, <3>2 DEF Sent
  <2> QED BY <1>1, <1>6, <2>2, <2>3, Zenon DEF NextRow
<1>7. CASE Remind
  <2>1. PICK s \in Listed :
          LET rest == [q.todo EXCEPT ![s] = NewDelivery]
              row == [q.todo[s] EXCEPT !.reminded = @ \cup Due(age[s])]
          IN \/ /\ notified' = [notified EXCEPT ![s] = @ \cup Due(age[s])]
                /\ Load(Scanner, [q EXCEPT !.at = "remind", !.id = s,
                                           !.row = row, !.todo = rest])
             \/ /\ Load(Scanner, [q EXCEPT !.todo = rest])
                /\ UNCHANGED notified
    BY <1>1, <1>7 DEF Remind
  <2> DEFINE rest == [q.todo EXCEPT ![s] = NewDelivery]
             row == [q.todo[s] EXCEPT !.reminded = @ \cup Due(age[s])]
             sent == [q EXCEPT !.at = "remind", !.id = s, !.row = row,
                               !.todo = rest]
             skipped == [q EXCEPT !.todo = rest]
  <2>2. /\ sent.id = s /\ sent.row = row /\ sent.todo = rest
        /\ skipped.at = "scan" /\ skipped.todo = rest
    BY <1>1 DEF Request
  <2>3. /\ s \in Seqs /\ Due(age[s]) \subseteq ReminderDays
        /\ row.reminded = q.todo[s].reminded \cup Due(age[s])
        /\ q.todo[s].reminded \subseteq notified[s]
    BY <1>1, <1>2 DEF Due, Request, DeliveryRow, Sent
  <2>4. \A t \in Seqs : rest[t].reminded \subseteq notified[t]
    BY <1>5, <2>3
  <2> HIDE DEF sent, skipped, row, rest
  <2>5. CASE /\ notified' = [notified EXCEPT ![s] = @ \cup Due(age[s])]
             /\ Load(Scanner, sent)
    <3>1. /\ notified' \in [Seqs -> SUBSET ReminderDays]
          /\ notified'[s] = notified[s] \cup Due(age[s])
          /\ \A t \in Seqs : notified[t] \subseteq notified'[t]
      BY <2>3, <2>5 DEF KInv
    <3>2. Sent(sent, notified')
      BY <2>2, <2>3, <2>4, <3>1 DEF Sent
    <3>3. \A t \in Seqs : deliveries'[t].reminded \subseteq notified'[t]
      BY <1>1, <3>1 DEF rows, KInv
    <3>4. req' = [req EXCEPT ![p] = sent] /\ UNCHANGED age
      BY <1>1, <2>5 DEF Load
    <3> QED BY <3>1, <3>2, <3>3, <3>4, KnownKeeps
  <2>6. CASE Load(Scanner, skipped) /\ UNCHANGED notified
    <3>1. Sent(skipped, notified)
      BY <1>3, <2>2, <2>4 DEF Sent
    <3> QED BY <1>4, <2>6, <3>1
  <2> QED BY <2>1, <2>5, <2>6 DEF sent, skipped, row, rest
<1>8. CASE NextScan
  <2>1. UNCHANGED notified
    BY <1>8 DEF NextScan, outside
  <2>2. CASE q.scan = "auto"
    <3> DEFINE v == [Idle EXCEPT !.at = "scan", !.scan = "remind",
                                 !.todo = Copies(ReminderDue)]
    <3>1. Load(Scanner, v)
      BY <1>1, <1>8, <2>2 DEF NextScan
    <3>2. v.at = "scan" /\ v.todo = Copies(ReminderDue)
      BY DEF Idle
    <3> HIDE DEF v
    <3> QED BY <1>3, <1>4, <2>1, <3>1, <3>2, ListSent DEF Sent
  <2>3. CASE q.scan = "remind"
    <3> DEFINE v == [Idle EXCEPT !.at = "scan", !.scan = "C",
                                 !.open = NegotiationDue]
    <3>1. Load(Scanner, v)
      BY <1>1, <1>8, <2>3 DEF NextScan
    <3>2. v.at = "scan" /\ v.todo = NoRows
      BY DEF Idle
    <3> HIDE DEF v
    <3> QED BY <1>3, <1>4, <2>1, <3>1, <3>2, NoneSent DEF Sent
  <2>4. CASE q.scan = "C"
    <3>1. Load(Scanner, Idle)
      BY <1>1, <1>8, <2>4 DEF NextScan
    <3> QED BY <1>4, <2>1, <3>1, NoneSent DEF Sent
  <2> QED BY <1>1, <2>2, <2>3, <2>4 DEF Request, Scans
<1> QED BY <1>6, <1>7, <1>8 DEF Scanning

LEMMA NextKeepsKInv == IInv /\ KInv /\ [Next]_vars => KInv'
<1> SUFFICES ASSUME IInv, KInv, [Next]_vars PROVE KInv' OBVIOUS
<1>1. CASE UNCHANGED vars
  BY <1>1 DEF vars, rows, outside, KInv, Sent
<1>2. CASE Day
  <2>1. UNCHANGED <<rows, notified, req>>
    BY <1>2 DEF Day
  <2>2. age' \in [Seqs -> Ages]
    BY <1>2, DaysAssumption DEF Day, KInv, Ages, Older
  <2> QED BY <2>1, <2>2 DEF KInv, rows
<1>3. ASSUME NEW p \in Processes, Continue(p) \/ Stop(p) PROVE KInv'
  <2>1. /\ UNCHANGED outside /\ Acts(p) /\ Sent(req[p], notified)
        /\ \E v : /\ req' = [req EXCEPT ![p] = v]
                  /\ v.at \notin RowSteps
                  /\ v.todo = NoRows \/ v.todo = req[p].todo
    BY <1>3, ContinuesWith, NoneSent DEF Stop, Load, Acts, KInv
  <2>2. PICK v : /\ req' = [req EXCEPT ![p] = v]
                 /\ v.at \notin RowSteps
                 /\ v.todo = NoRows \/ v.todo = req[p].todo
    BY <2>1
  <2>3. Sent(v, notified)
    BY <2>1, <2>2, NoneSent DEF Sent
  <2>4. \A s \in Seqs : deliveries'[s].reminded \subseteq notified[s]
    BY <2>1, SavedSent
  <2> QED BY <2>1, <2>2, <2>3, <2>4, KnownKeeps DEF outside, KInv
<1>4. CASE ~Still
  BY <1>3, <1>4, NextActs, StartsKnown, ScanningKnown DEF Acts
<1>5. CASE Still /\ Next /\ ~Day
  <2>1. Next
    BY <1>5
  <2>2. ASSUME NEW p \in Processes, Starts(p) \/ Scanning(p) PROVE KInv'
    BY <2>2, StartsKnown, ScanningKnown
  <2>3. CASE StartScan \/ NextRow \/ Remind \/ NextScan
    <3>1. Scanner \in Processes
      BY DEF Processes
    <3> QED BY <2>2, <2>3, <3>1 DEF Starts, Scanning
  <2> QED BY <1>3, <1>5, <2>2, <2>3 DEF Next, Starts
<1> QED BY <1>1, <1>2, <1>4, <1>5

LEMMA OnlyOneFresh ==
    ASSUME IInv, NEW p \in Processes, Acts(p), overlaps' = 0, Fresh(req[p])'
    PROVE  FInv'
<1>1. PICK v : req' = [req EXCEPT ![p] = v]
  BY ActsAlone
<1>2. \A q \in Processes \ {p} : req'[q] = Idle
  BY <1>1, ActsAlone DEF Alone, Free, IInv, RowsOK
<1>3. ASSUME NEW q \in Processes \ {p}, Alone(q)'
      PROVE  req'[q] = req'[p]
  BY <1>2, <1>3 DEF Alone, Free
<1> QED BY <1>3 DEF FInv, Fresh

\* An operation that loads rows, and saves none.
LEMMA LoadsFresh ==
    ASSUME IInv, FInv, NEW p \in Processes, Acts(p), overlaps' = 0,
           Starts(p) \/ Scanning(p) \/ Stop(p)
    PROVE  FInv'
<1> DEFINE q == req[p]
<1>0. /\ p \in DOMAIN req /\ q \in Request /\ Fresh(q)
  BY ActsAlone, Held DEF FInv, IInv, RowsOK
<1>1. ASSUME NEW v, req' = [req EXCEPT ![p] = v], UNCHANGED deliveries,
             v.at # "auto", v.scan # "auto" \/ v.todo = NoRows
      PROVE  FInv'
  <2>1. Fresh(req[p])'
    BY <1>0, <1>1, NoneSent DEF Fresh
  <2> QED BY <2>1, OnlyOneFresh
<1>2. CASE Stop(p)
  <2>1. req' = [req EXCEPT ![p] = Idle] /\ UNCHANGED deliveries
    BY <1>2 DEF Stop, Load, rows
  <2> QED BY <1>1, <2>1, NoneSent DEF RowSteps
<1>3. CASE Starts(p)
  <2>1. ASSUME NEW v, Begin(p, v), v.at # "auto", v.todo = NoRows PROVE FInv'
    BY <1>1, <2>1 DEF Begin, Load, rows
  <2>2. ASSUME NEW s \in Seqs, StartSubmit(p, s) PROVE FInv'
    <3> DEFINE v == [Idle EXCEPT !.at = "insert", !.copy = order, !.id = s]
    <3>1. v.at = "insert" /\ v.todo = NoRows
      BY DEF Idle
    <3>2. Begin(p, v)
      BY <2>2 DEF StartSubmit
    <3> HIDE DEF v
    <3> QED BY <2>1, <3>1, <3>2
  <2>3. ASSUME NEW s \in Seqs, StartGate(p, s) PROVE FInv'
    <3> DEFINE v == [Idle EXCEPT !.at = "gate", !.id = s,
                                 !.row = deliveries[s]]
    <3>1. v.at = "gate" /\ v.todo = NoRows
      BY DEF Idle
    <3>2. Begin(p, v)
      BY <2>3 DEF StartGate
    <3> HIDE DEF v
    <3> QED BY <2>1, <3>1, <3>2
  <2>4. ASSUME NEW a \in Actions, StartReview(p, a) PROVE FInv'
    <3>1. PICK s \in Seqs :
            Begin(p, [Idle EXCEPT !.at = a, !.copy = order, !.id = s,
                                  !.row = deliveries[s]])
      BY <2>4 DEF StartReview
    <3> DEFINE v == [Idle EXCEPT !.at = a, !.copy = order, !.id = s,
                                 !.row = deliveries[s]]
    <3>2. v.at # "auto" /\ v.todo = NoRows
      BY DEF Idle, Actions
    <3>3. Begin(p, v)
      BY <3>1
    <3> HIDE DEF v
    <3> QED BY <2>1, <3>2, <3>3
  <2>5. CASE StartNegotiation(p)
    <3> DEFINE v == [Idle EXCEPT !.at = "negotiate"]
    <3>1. v.at = "negotiate" /\ v.todo = NoRows
      BY DEF Idle
    <3>2. Begin(p, v)
      BY <2>5 DEF StartNegotiation
    <3> HIDE DEF v
    <3> QED BY <2>1, <3>1, <3>2
  <2>6. ASSUME NEW n \in Negotiations, NEW d \in {"C", "other"},
               StartDecide(p, n, d)
        PROVE  FInv'
    <3> DEFINE v == [Idle EXCEPT !.at = d, !.id = n]
    <3>1. v.at # "auto" /\ v.todo = NoRows
      BY DEF Idle
    <3>2. Begin(p, v)
      BY <2>6 DEF StartDecide
    <3> HIDE DEF v
    <3> QED BY <2>1, <3>1, <3>2
  <2>7. CASE StartClaim(p)
    <3> DEFINE v == [Idle EXCEPT !.at = "claim", !.copy = order]
    <3>1. v.at = "claim" /\ v.todo = NoRows
      BY DEF Idle
    <3>2. Begin(p, v)
      BY <2>7 DEF StartClaim
    <3> HIDE DEF v
    <3> QED BY <2>1, <3>1, <3>2
  <2>8. CASE p = Scanner /\ StartScan
    <3> DEFINE v == [Idle EXCEPT !.at = "scan", !.todo = Copies(AutoDue)]
    <3>1. v.at = "scan" /\ v.todo = Copies(AutoDue)
      BY DEF Idle
    <3>2. req'[p] = v /\ UNCHANGED deliveries
      BY <1>0, <2>8 DEF StartScan, Begin, Load, rows
    <3> HIDE DEF v
    <3>3. AutoDue \in SUBSET Submitted
      BY DEF AutoDue
    <3>4. Fresh(req[p])'
      BY <3>1, <3>2, <3>3, ListShape DEF Fresh
    <3> QED BY <3>4, OnlyOneFresh
  <2> QED BY <1>3, <2>2, <2>3, <2>4, <2>5, <2>6, <2>7, <2>8 DEF Starts
<1>4. CASE Scanning(p)
  <2>1. q.at = "scan" /\ UNCHANGED deliveries /\ p = Scanner
    BY <1>4, Zenon DEF Scanning, NextRow, Remind, NextScan, At, rows
  <2>2. ASSUME NEW v, Load(Scanner, v), v.at # "auto",
               v.scan # "auto" \/ v.todo = NoRows
        PROVE  FInv'
    BY <1>1, <2>1, <2>2 DEF Load
  <2>3. CASE NextRow
    <3>1. ASSUME NEW s \in Listed, q.scan = "auto",
                 Load(Scanner,
                      [q EXCEPT !.at = "auto", !.id = s, !.row = q.todo[s],
                                !.todo = [q.todo EXCEPT ![s] = NewDelivery]])
          PROVE  FInv'
      <4> DEFINE v == [q EXCEPT !.at = "auto", !.id = s, !.row = q.todo[s],
                                !.todo = [q.todo EXCEPT ![s] = NewDelivery]]
      <4>1. /\ v.id = s /\ v.row = q.todo[s] /\ v.scan = "auto"
            /\ v.todo = [q.todo EXCEPT ![s] = NewDelivery]
        BY <1>0, <3>1 DEF Request
      <4>2. req'[p] = v
        BY <1>0, <2>1, <3>1 DEF Load
      <4> HIDE DEF v
      <4>3. s \in Seqs /\ q.todo[s] # NewDelivery /\ q.todo[s] = deliveries[s]
        BY <1>0, <2>1, <3>1 DEF Listed, Fresh
      <4>4. \A t \in Seqs : v.todo[t] # NewDelivery => q.todo[t] = v.todo[t]
        BY <1>0, <4>1 DEF Request
      <4>5. Fresh(req[p])'
        <5>1. \A t \in Seqs : v.todo[t] # NewDelivery
                => deliveries[t] = v.todo[t]
          BY <1>0, <3>1, <4>4 DEF Fresh
        <5>2. deliveries'[v.id] = v.row
          BY <2>1, <4>1, <4>3
        <5> QED BY <2>1, <4>2, <5>1, <5>2 DEF Fresh
      <4> QED BY <4>5, OnlyOneFresh
    <3>2. ASSUME NEW n \in q.open,
                 Load(Scanner, [q EXCEPT !.at = "C", !.id = n,
                                         !.open = @ \ {n}])
          PROVE  FInv'
      <4> DEFINE v == [q EXCEPT !.at = "C", !.id = n, !.open = @ \ {n}]
      <4>1. v.at = "C" /\ v.todo = q.todo /\ v.scan = q.scan
        BY <1>0 DEF Request
      <4>2. req'[p] = v
        BY <1>0, <2>1, <3>2 DEF Load
      <4> HIDE DEF v
      <4>3. Fresh(req[p])'
        BY <1>0, <2>1, <4>1, <4>2 DEF Fresh
      <4> QED BY <4>3, OnlyOneFresh
    <3> QED BY <2>1, <2>3, <3>1, <3>2, Zenon DEF NextRow
  <2>4. CASE Remind
    <3>1. PICK s \in Listed :
            LET rest == [q.todo EXCEPT ![s] = NewDelivery]
                row == [q.todo[s] EXCEPT !.reminded = @ \cup Due(age[s])]
            IN \/ Load(Scanner, [q EXCEPT !.at = "remind", !.id = s,
                                          !.row = row, !.todo = rest])
               \/ Load(Scanner, [q EXCEPT !.todo = rest])
      BY <2>1, <2>4 DEF Remind
    <3> DEFINE rest == [q.todo EXCEPT ![s] = NewDelivery]
               row == [q.todo[s] EXCEPT !.reminded = @ \cup Due(age[s])]
               sent == [q EXCEPT !.at = "remind", !.id = s, !.row = row,
                                 !.todo = rest]
               skipped == [q EXCEPT !.todo = rest]
    <3>2. /\ sent.at = "remind" /\ sent.scan = q.scan
          /\ skipped.at = "scan" /\ skipped.scan = q.scan
          /\ q.scan = "remind"
      BY <1>0, <2>1, <2>4 DEF Request, Remind
    <3>3. Load(Scanner, sent) \/ Load(Scanner, skipped)
      BY <3>1
    <3> HIDE DEF sent, skipped
    <3> QED BY <2>2, <3>2, <3>3
  <2>5. CASE NextScan
    <3>1. CASE q.scan = "auto"
      <4> DEFINE v == [Idle EXCEPT !.at = "scan", !.scan = "remind",
                                   !.todo = Copies(ReminderDue)]
      <4>1. Load(Scanner, v)
        BY <2>1, <2>5, <3>1 DEF NextScan
      <4>2. v.at = "scan" /\ v.scan = "remind"
        BY DEF Idle
      <4> HIDE DEF v
      <4> QED BY <2>2, <4>1, <4>2
    <3>2. CASE q.scan = "remind"
      <4> DEFINE v == [Idle EXCEPT !.at = "scan", !.scan = "C",
                                   !.open = NegotiationDue]
      <4>1. Load(Scanner, v)
        BY <2>1, <2>5, <3>2 DEF NextScan
      <4>2. v.at = "scan" /\ v.scan = "C"
        BY DEF Idle
      <4> HIDE DEF v
      <4> QED BY <2>2, <4>1, <4>2
    <3>3. CASE q.scan = "C"
      <4>1. Load(Scanner, Idle)
        BY <2>1, <2>5, <3>3 DEF NextScan
      <4> QED BY <2>2, <4>1, NoneSent DEF RowSteps
    <3> QED BY <1>0, <3>1, <3>2, <3>3 DEF Request, Scans
  <2> QED BY <1>4, <2>3, <2>4, <2>5 DEF Scanning
<1> QED BY <1>2, <1>3, <1>4

\* A step that saves a row saves none that is on its list.
LEMMA ContinueFresh ==
    ASSUME IInv, FInv, NEW p \in Processes, Continue(p), overlaps' = 0
    PROVE  FInv'
<1>0. Acts(p)
  BY DEF Acts
<1>1. /\ req[p] \in Request /\ OpSound(req[p]) /\ Fresh(req[p])
      /\ Undecided(req[p], deliveries)
  BY <1>0, ActsAlone, Held DEF FInv, IInv, Serial
<1>2. ASSUME NEW s \in Seqs, req[p].todo[s] # NewDelivery
      PROVE  deliveries'[s] = deliveries[s]
  <2>1. deliveries[s].status = "submitted"
    BY <1>1, <1>2 DEF Undecided
  <2>2. CASE deliveries[req[p].id].status = "none"
    <3>1. s # req[p].id
      BY <2>1, <2>2
    <3> QED BY <1>0, <1>1, <1>2, <3>1, Saves
            DEF SaveDelivery, OpSound, IInv, RowsOK
  <2>3. CASE deliveries[req[p].id].status # "none"
    <3>1. CASE UNCHANGED deliveries
      BY <3>1
    <3>2. CASE ~UNCHANGED deliveries
      <4>1. req[p].at \in RowSteps /\ \E row : SaveDelivery(req[p].id, row)
        BY <1>0, <2>3, <3>2, Saves
      <4>2. s # req[p].id
        BY <1>1, <1>2, <4>1 DEF OpSound
      <4> QED BY <4>1, <4>2 DEF SaveDelivery, IInv, RowsOK
    <3> QED BY <3>1, <3>2
  <2> QED BY <2>2, <2>3
<1>3. "auto" \in RowSteps
  BY DEF RowSteps
<1>4. Fresh(req[p])'
  BY <1>1, <1>2, <1>3, ContinuesWith, NoneSent DEF Fresh
<1> QED BY <1>0, <1>4, OnlyOneFresh

LEMMA NextKeepsFInv == IInv /\ FInv /\ [Next]_vars => FInv'
<1> SUFFICES ASSUME IInv, FInv, [Next]_vars PROVE FInv' OBVIOUS
<1>1. CASE Still
  BY <1>1 DEF Still, rows, FInv, Alone, Free, Fresh
<1>2. CASE ~Still
  <2>1. PICK p \in Processes : Acts(p)
    BY <1>2, NextActs
  <2>2. CASE overlaps' # 0
    BY <2>2 DEF FInv
  <2>3. CASE overlaps' = 0
    BY <2>1, <2>3, LoadsFresh, ContinueFresh DEF Acts
  <2> QED BY <2>2, <2>3
<1> QED BY <1>1, <1>2

\* Rows, copies and what the employer was sent keep their shape, whatever is
\* saved over what.
THEOREM TypeCorrect == Spec => []TypeOK
<1>1. IInv /\ KInv => TypeOK
  BY DEF IInv, KInv, RowsOK, Request, TypeOK
<1> QED BY <1>1, Inductive, InitKInv, NextKeepsKInv, PTL DEF Spec

LEMMA AcceptedEarned ==
    ASSUME IInv, FInv, [Next]_vars, overlaps' = 0, NEW s \in Seqs,
           deliveries'[s].status = "auto_accepted",
           deliveries'[s] # deliveries[s]
    PROVE  Waits(s)
<1>1. PICK p \in Processes : Acts(p)
  BY NextActs DEF Still, rows
<1>2. /\ req[p] \in Request /\ OpSound(req[p]) /\ Fresh(req[p])
  BY <1>1, ActsAlone, Held DEF FInv
<1>3. /\ req[p].at \in RowSteps
      /\ \E row \in DeliveryRow :
           /\ SaveDelivery(req[p].id, row)
           /\ row.status = "auto_accepted" => req[p].at = "auto"
  <2>1. ASSUME NEW g \in BOOLEAN,
               SaveDelivery(req[p].id, [status |-> "submitted", gates |-> g,
                                        reminded |-> {}])
        PROVE  FALSE
    BY <2>1 DEF SaveDelivery, IInv, RowsOK
  <2> QED BY <1>1, <2>1, Saves
<1>4. s = req[p].id /\ req[p].at = "auto"
  BY <1>3 DEF SaveDelivery, IInv, RowsOK
<1>5. deliveries[s] = req[p].row
  BY <1>2, <1>4 DEF Fresh
<1> QED BY <1>2, <1>3, <1>4, <1>5 DEF OpSound, Eligible, Waits

\* Whatever stale copies are saved over each other, an accepted order has its
\* period of appeal, and a delivery that silence accepted had its employer
\* sent every reminder, where they are required.  As long as no operation
\* begins during another one, silence accepts a delivery only while its row
\* waits for a decision with its gates passed, for any number of deliveries in
\* one pass of the scan.
THEOREM AcceptanceIsSound == Spec => AcceptanceSound
<1>1. IInv /\ KInv => AcceptedHasAppeal /\ RemindedFirst
  <2> SUFFICES ASSUME IInv, KInv, NEW s \in Seqs, NeedReminders,
                      deliveries[s].status = "auto_accepted"
               PROVE  notified[s] = ReminderDays
    BY DEF IInv, RemindedFirst
  <2>1. deliveries[s].reminded = ReminderDays
    BY DEF IInv, RowsEarned, Earned
  <2>2. /\ deliveries[s].reminded \subseteq notified[s]
        /\ notified[s] \subseteq ReminderDays
    BY DEF KInv
  <2> QED BY <2>1, <2>2
<1>2. IInv /\ FInv /\ [Next]_vars => [SilenceEarned]_vars
  BY AcceptedEarned DEF SilenceEarned
<1> QED BY <1>1, <1>2, Inductive, InitKInv, NextKeepsKInv, NextKeepsFInv, PTL
        DEF Spec, AcceptanceSound
=============================================================================
