---------------------------- MODULE OrdersProofs ----------------------------
(***************************************************************************)
(* The order of Orders for any number of concurrent requests, deliveries   *)
(* and wallet sizes.  The argument for EscrowBacked counts the charges: a  *)
(* request of payWithBalance holds one from its charge until it ends, and  *)
(* what was charged beyond those holdings can never be refunded.           *)
(* The one for MoneyFollowsStatus and ReviewsCurrent needs requests one at *)
(* a time: then the copy of the request under way is the row, and each of  *)
(* its steps leaves money, status and deliveries as the next one finds     *)
(* them.  From the same facts the order implements the deal of Escrow.     *)
(* The last part is about Bidding, which creates the order.                *)
(***************************************************************************)
EXTENDS Orders, Bidding, Sequences, FiniteSetTheorems, TLAPS

Operators == {"pay", "payWithBalance", "confirmPayment", "reportStatus",
              "retryExecution", "cancel", "deliver", "accept", "reject",
              "release", "startArbitration", "resolveArbitration"}
RequestRow == [at : Steps, copy : OrderRow]

\* Steps of operations that only begin on an order beyond its payment.
Working == {"deliver", "insert", "delivered", "accept", "acceptDelivery",
            "reject", "rejected", "arbitrate", "release", "income",
            "startArbitration", "arbitrating", "resolveArbitration", "resolved"}

\* What a request may rely on where it stands.
Loaded ==
    \A k \in Requests :
      /\ req[k].at \in Working => req[k].copy.status \notin Unpaid
      /\ req[k].at \in {"deliver", "insert"} =>
           req[k].copy.count < MaxDeliveryAttempts
      /\ req[k].at = "activateProof" => starts # {}

\* The requests that hold a charge: made, and neither spent nor refunded.
InEscrow == {"row", "activate", "refund"}
Holders == {k \in Requests : req[k].at \in InEscrow}
Funded == starts # {} \/ charged > Cardinality(Holders)

Rows ==
    /\ order \in OrderRow
    /\ starts \subseteq {"alipay", "proof"} \cup Operators
    /\ req \in [Requests -> RequestRow]
Amounts == wallet \in Nat /\ charged \in Nat /\ paidOut \in Nat
Reviews ==
    /\ orderPayment \in OrderPaymentStatuses
    /\ delivery \in [DeliveryIds -> DeliveryStatuses]
    /\ checklist \in ChecklistStatuses
    /\ arbitration \in ArbitrationStatuses

\* The inductive invariant.
IInv ==
    /\ Rows /\ Amounts /\ Reviews
    /\ Loaded
    /\ charged >= Cardinality(Holders)
    /\ order.status \notin Unpaid => Funded
    /\ \A k \in Requests : req[k].copy.status \notin Unpaid => Funded

LEMMA Names ==
  /\ DOMAIN Required = Operators
  /\ DOMAIN Target = {"pay", "reportStatus", "retryExecution", "cancel"}
  /\ \A op \in DOMAIN Target : Target[op] \in OrderStatuses
  /\ Operators \subseteq Steps /\ Working \subseteq Steps /\ InEscrow \subseteq Steps
  /\ {"idle", "activateProof"} \subseteq Steps
<1>1. DOMAIN Required = Operators
  BY DEF Required, Operators
<1>2. /\ DOMAIN Target = {"pay", "reportStatus", "retryExecution", "cancel"}
      /\ \A op \in DOMAIN Target : Target[op] \in OrderStatuses
  BY DEF Target, OrderStatuses
<1>3. /\ Operators \subseteq Steps /\ Working \subseteq Steps /\ InEscrow \subseteq Steps
      /\ {"idle", "activateProof"} \subseteq Steps
  BY <1>1 DEF Steps, Operators, Working, InEscrow
<1> QED
  BY <1>1, <1>2, <1>3

\* An operation that begins at a working step requires an order beyond its
\* payment.
LEMMA RequiredPaid ==
  \A op \in Operators \cap Working : Required[op] \cap Unpaid = {}
<1>1. /\ Required["deliver"] = {"IN_PROGRESS", "DELIVERED"}
      /\ Required["accept"] = {"DELIVERED"}
      /\ Required["reject"] = {"DELIVERED"}
      /\ Required["release"] = {"PENDING_RELEASE"}
  BY DEF Required, Releasable
<1>2. /\ Required["startArbitration"] = {"REJECTED"}
      /\ Required["resolveArbitration"] = {"ARBITRATING"}
  BY DEF Required
<1>3. Operators \cap Working = {"deliver", "accept", "reject", "release",
                               "startArbitration", "resolveArbitration"}
  BY DEF Operators, Working
<1> QED
  BY <1>1, <1>2, <1>3 DEF Unpaid

LEMMA IdleShape ==
  /\ NewOrder \in OrderRow /\ NewOrder.status = "PENDING_PAYMENT"
  /\ Idle \in RequestRow /\ Idle.at = "idle" /\ Idle.copy = NewOrder
<1>1. NewOrder \in OrderRow /\ NewOrder.status = "PENDING_PAYMENT"
  BY DeliveryAssumption DEF NewOrder, OrderRow, OrderStatuses
<1> QED
  BY <1>1, Names DEF Idle, RequestRow

LEMMA SaveShape ==
  ASSUME Rows, NEW k \in Requests, NEW status \in OrderStatuses, Save(k, status)
  PROVE  order' \in OrderRow /\ order'.status = status
<1>1. req[k].copy \in OrderRow
  BY DEF Rows, RequestRow
<1> QED
  BY <1>1 DEF Save, OrderRow

\* A request moves: to a new step with its copy, to the end, or at its load.
Moves(k, step, copy) ==
    /\ req' \in [Requests -> RequestRow]
    /\ req'[k].at = step
    /\ req'[k].copy = copy
    /\ \A j \in Requests : j # k => req'[j] = req[j]

LEMMA GotoShape ==
  ASSUME Rows, NEW k \in Requests, NEW step \in Steps, Goto(k, step)
  PROVE  Moves(k, step, req[k].copy)
<1>1. req \in [Requests -> RequestRow] /\ req[k] \in RequestRow
  BY DEF Rows
<1>2. req' = [req EXCEPT ![k] = [req[k] EXCEPT !.at = step]]
  BY DEF Goto
<1>3. /\ [req[k] EXCEPT !.at = step] \in RequestRow
      /\ [req[k] EXCEPT !.at = step].at = step
      /\ [req[k] EXCEPT !.at = step].copy = req[k].copy
  BY <1>1 DEF RequestRow
<1> QED
  BY <1>1, <1>2, <1>3 DEF Moves

LEMMA FinishShape ==
  ASSUME Rows, NEW k \in Requests, Finish(k)
  PROVE  Moves(k, "idle", NewOrder)
<1>1. req \in [Requests -> RequestRow]
  BY DEF Rows
<1> QED
  BY <1>1, IdleShape DEF Finish, Moves

LEMMA LoadShape ==
  ASSUME Rows, NEW k \in Requests, NEW op \in Operators, Load(k, op)
  PROVE  Moves(k, op, order)
<1>1. req \in [Requests -> RequestRow] /\ [at |-> op, copy |-> order] \in RequestRow
  BY Names DEF Rows, RequestRow
<1> QED
  BY <1>1 DEF Load, Moves

-----------------------------------------------------------------------------
(* Counting the holders of a charge.                                        *)

LEMMA HoldersFinite ==
  /\ IsFiniteSet(Holders) /\ Cardinality(Holders) \in Nat
<1>1. Holders \subseteq Requests
  BY DEF Holders
<1> QED
  BY <1>1, RequestsAssumption, FS_Subset, FS_CardinalityType

LEMMA HoldersMove ==
  ASSUME NEW k \in Requests, NEW step, NEW copy, Moves(k, step, copy)
  PROVE  /\ (req[k].at \in InEscrow <=> step \in InEscrow) => Holders' = Holders
         /\ (req[k].at \notin InEscrow /\ step \in InEscrow) =>
              Cardinality(Holders') = Cardinality(Holders) + 1
         /\ (req[k].at \in InEscrow /\ step \notin InEscrow) =>
              Cardinality(Holders') = Cardinality(Holders) - 1
<1>1. \A j \in Requests : req'[j].at = IF j = k THEN step ELSE req[j].at
  BY DEF Moves
<1>2. (req[k].at \in InEscrow <=> step \in InEscrow) => Holders' = Holders
  BY <1>1 DEF Holders
<1>3. ASSUME req[k].at \notin InEscrow, step \in InEscrow
      PROVE  Cardinality(Holders') = Cardinality(Holders) + 1
  <2>1. Holders' = Holders \cup {k} /\ k \notin Holders
    BY <1>1, <1>3 DEF Holders
  <2> QED
    BY <2>1, HoldersFinite, FS_AddElement
<1>4. ASSUME req[k].at \in InEscrow, step \notin InEscrow
      PROVE  Cardinality(Holders') = Cardinality(Holders) - 1
  <2>1. Holders' = Holders \ {k} /\ k \in Holders
    BY <1>1, <1>4 DEF Holders
  <2> QED
    BY <2>1, HoldersFinite, FS_RemoveElement
<1> QED
  BY <1>2, <1>3, <1>4

-----------------------------------------------------------------------------
(* The steps of a request.  Effect names what they have in common.          *)

\* What a request needs to stand at a step with a copy.
Relies(step, copy) ==
    /\ step \in Working => copy.status \notin Unpaid
    /\ step \in {"deliver", "insert"} => copy.count < MaxDeliveryAttempts
    /\ step = "activateProof" => starts' # {}

\* The request gives up its charge, which then stays in the order.
Spends(k, step) ==
    charged' = charged /\ req[k].at \in InEscrow /\ step \notin InEscrow

MovesCharge(k, step) ==
    \/ charged' = charged /\ (req[k].at \in InEscrow <=> step \in InEscrow)
    \/ Spends(k, step)
    \/ charged' = charged + 1 /\ req[k].at \notin InEscrow /\ step \in InEscrow
    \/ charged' = charged - 1 /\ req[k].at \in InEscrow /\ step \notin InEscrow

Effect(k, step, copy) ==
    /\ Moves(k, step, copy)
    /\ order' \in OrderRow
    /\ starts \subseteq starts' /\ starts' \subseteq {"alipay", "proof"} \cup Operators
    /\ wallet' \in Nat /\ paidOut' \in Nat
    /\ Reviews'
    /\ Relies(step, copy)
    /\ MovesCharge(k, step)
    /\ copy = NewOrder \/ copy = order \/ copy.status = req[k].copy.status
    /\ \/ order' = order \/ order'.status \in Unpaid
       \/ req[k].copy.status \notin Unpaid
       \/ starts' # {} \/ Spends(k, step)

LEMMA EffectKeepsIInv ==
  ASSUME IInv, NEW k \in Requests, NEW step, NEW copy, Effect(k, step, copy)
  PROVE  IInv'
<1> USE DEF Effect
<1>1. Rows'
  BY DEF Rows, Moves
<1>2. /\ Cardinality(Holders) \in Nat /\ charged \in Nat
      /\ charged >= Cardinality(Holders)
  BY HoldersFinite DEF IInv, Amounts
<1>3. /\ charged' \in Nat /\ charged' >= Cardinality(Holders')
      /\ charged' - Cardinality(Holders') >= charged - Cardinality(Holders)
      /\ Spends(k, step) => charged' > Cardinality(Holders')
      /\ Cardinality(Holders') \in Nat
  <2>1. CASE charged' = charged /\ (req[k].at \in InEscrow <=> step \in InEscrow)
    BY <1>2, <2>1, HoldersMove DEF Spends
  <2>2. CASE req[k].at \in InEscrow /\ step \notin InEscrow
    <3>1. Cardinality(Holders') = Cardinality(Holders) - 1
      BY <2>2, HoldersMove
    <3>2. Cardinality(Holders) > 0
      <4>1. k \in Holders
        BY <2>2 DEF Holders
      <4> QED
        BY <4>1, HoldersFinite, FS_EmptySet
    <3>3. charged' = charged \/ charged' = charged - 1
      BY <2>2 DEF MovesCharge, Spends
    <3> QED
      BY <1>2, <3>1, <3>2, <3>3 DEF Spends
  <2>3. CASE charged' = charged + 1 /\ req[k].at \notin InEscrow /\ step \in InEscrow
    BY <1>2, <2>3, HoldersMove DEF Spends
  <2> QED
    BY <2>1, <2>2, <2>3 DEF MovesCharge, Spends
<1>4. Amounts'
  BY <1>3 DEF Amounts
<1>5. Loaded'
  BY DEF IInv, Loaded, Relies, Moves
<1>6. /\ Funded => Funded'
      /\ Spends(k, step) \/ starts' # {} => Funded'
  <2>1. starts \subseteq starts'
    OBVIOUS
  <2>2. charged > Cardinality(Holders) => charged' > Cardinality(Holders')
    BY ONLY <1>2, <1>3
  <2> QED
    BY ONLY <1>3, <2>1, <2>2 DEF Funded
<1>7. order'.status \notin Unpaid => Funded'
  BY <1>6 DEF IInv
<1>8. \A j \in Requests : req'[j].copy.status \notin Unpaid => Funded'
  BY <1>6, IdleShape DEF IInv, Moves, Unpaid
<1> QED
  BY <1>1, <1>3, <1>4, <1>5, <1>7, <1>8 DEF IInv

-----------------------------------------------------------------------------
(* Every step of a request keeps the invariant.                             *)

LEMMA Types ==
  ASSUME IInv
  PROVE  /\ order \in OrderRow /\ starts \subseteq {"alipay", "proof"} \cup Operators
         /\ wallet \in Nat /\ paidOut \in Nat /\ charged \in Nat
         /\ Reviews
         /\ UNCHANGED <<orderPayment, reviewVars>> => Reviews'
         /\ \A k \in Requests : req[k].copy \in OrderRow
BY DEF IInv, Rows, Amounts, Reviews, RequestRow, reviewVars

LEMMA LoadStep ==
  ASSUME IInv, NEW k \in Requests, NEW op \in DOMAIN Required, Load(k, op)
  PROVE  IInv'
<1>1. op \in Operators
  BY Names
<1>2. Moves(k, op, order)
  BY <1>1, LoadShape DEF IInv
<1>3. Relies(op, order)
  <2>1. op \in Working => order.status \notin Unpaid
    BY <1>1, RequiredPaid DEF Load
  <2>2. op = "deliver" => order.count < MaxDeliveryAttempts
    BY DEF Load, Precondition
  <2>3. op # "insert" /\ op # "activateProof"
    BY <1>1 DEF Operators
  <2> QED
    BY <2>1, <2>2, <2>3 DEF Relies
<1>4. MovesCharge(k, op)
  <2>1. req[k].at = "idle"
    BY IdleShape DEF Load
  <2> QED
    BY <1>1, <2>1 DEF MovesCharge, Load, moneyVars, Operators, InEscrow
<1>5. Effect(k, op, order)
  BY <1>2, <1>3, <1>4, Types DEF Effect, Load, moneyVars
<1> QED
  BY <1>5, EffectKeepsIInv

\* A step to a place that needs no promise, with the copy it has: what is
\* left to show when the order does not change.
LEMMA QuietStep ==
  ASSUME IInv, NEW k \in Requests, NEW step \in Steps,
         Goto(k, step) \/ (step = "idle" /\ Finish(k)),
         Relies(step, req[k].copy),
         MovesCharge(k, step), UNCHANGED order,
         starts \subseteq starts', starts' \subseteq {"alipay", "proof"} \cup Operators,
         wallet' \in Nat, paidOut' \in Nat, Reviews'
  PROVE  IInv'
<1>1. CASE Goto(k, step)
  <2>1. Moves(k, step, req[k].copy)
    BY <1>1, GotoShape DEF IInv
  <2>2. Effect(k, step, req[k].copy)
    BY <2>1, Types DEF Effect
  <2> QED
    BY <2>2, EffectKeepsIInv
<1>2. CASE step = "idle" /\ Finish(k)
  <2>1. Moves(k, step, NewOrder)
    BY <1>2, FinishShape DEF IInv
  <2>2. Relies(step, NewOrder)
    BY <1>2 DEF Relies, Working
  <2>3. Effect(k, step, NewOrder)
    BY <2>1, <2>2, Types DEF Effect
  <2> QED
    BY <2>3, EffectKeepsIInv
<1> QED
  BY <1>1, <1>2

\* A save of the order, with the copy of an order beyond its payment, with an
\* unpaid status, with a recorded start, or with a charge.
LEMMA SaveStep ==
  ASSUME IInv, NEW k \in Requests, NEW step \in Steps, NEW status \in OrderStatuses,
         Save(k, status),
         Goto(k, step) \/ (step = "idle" /\ Finish(k)),
         Relies(step, req[k].copy),
         MovesCharge(k, step),
         starts \subseteq starts', starts' \subseteq {"alipay", "proof"} \cup Operators,
         \/ status \in Unpaid \/ req[k].copy.status \notin Unpaid
         \/ starts' # {} \/ Spends(k, step),
         UNCHANGED <<orderPayment, reviewVars, wallet, paidOut>>
  PROVE  IInv'
<1>1. order' \in OrderRow /\ order'.status = status
  BY SaveShape DEF IInv
<1>2. CASE Goto(k, step)
  <2>1. Moves(k, step, req[k].copy)
    BY <1>2, GotoShape DEF IInv
  <2>2. Effect(k, step, req[k].copy)
    BY <1>1, <2>1, Types DEF Effect
  <2> QED
    BY <2>2, EffectKeepsIInv
<1>3. CASE step = "idle" /\ Finish(k)
  <2>1. Moves(k, step, NewOrder)
    BY <1>3, FinishShape DEF IInv
  <2>2. Relies(step, NewOrder)
    BY <1>3 DEF Relies, Working
  <2>3. Effect(k, step, NewOrder)
    BY <1>1, <2>1, <2>2, Types DEF Effect
  <2> QED
    BY <2>3, EffectKeepsIInv
<1> QED
  BY <1>2, <1>3

LEMMA ChargeStep ==
  ASSUME IInv, NEW k \in Requests, Charge(k)
  PROVE  IInv'
<1> USE DEF Charge, At, moneyVars
<1>1. "row" \in Steps /\ "idle" \in Steps
  BY DEF Steps
<1>2. Relies("row", req[k].copy) /\ Relies("idle", req[k].copy)
  BY DEF Relies, Working
<1>3. CASE Goto(k, "row") /\ wallet > 0 /\ wallet' = wallet - 1 /\ charged' = charged + 1
  <2>1. MovesCharge(k, "row")
    BY <1>3 DEF MovesCharge, InEscrow
  <2>2. wallet' \in Nat
    BY <1>3, Types
  <2> QED
    BY <1>1, <1>2, <1>3, <2>1, <2>2, Types, QuietStep
<1>4. CASE Finish(k) /\ UNCHANGED <<wallet, charged>>
  <2>1. MovesCharge(k, "idle")
    BY <1>4 DEF MovesCharge, InEscrow
  <2> QED
    BY <1>1, <1>2, <1>4, <2>1, Types, QuietStep
<1> QED
  BY <1>3, <1>4

LEMMA SaveOrderPaymentStep ==
  ASSUME IInv, NEW k \in Requests, SaveOrderPayment(k)
  PROVE  IInv'
<1> USE DEF SaveOrderPayment, At
<1>1. "activate" \in Steps /\ "activateProof" \in Steps
  BY DEF Steps
<1>2. Reviews'
  BY Types DEF Reviews, reviewVars, OrderPaymentStatuses
<1>3. CASE At(k, "row") /\ Goto(k, "activate") /\ UNCHANGED starts
  <2>1. Relies("activate", req[k].copy)
    BY DEF Relies, Working
  <2>2. MovesCharge(k, "activate")
    BY <1>3 DEF MovesCharge, InEscrow
  <2> QED
    BY <1>1, <1>2, <1>3, <2>1, <2>2, Types, QuietStep
<1>4. CASE At(k, "confirmPayment") /\ Goto(k, "activateProof")
           /\ starts' = starts \cup {"proof"}
  <2>1. Relies("activateProof", req[k].copy)
    BY <1>4 DEF Relies, Working
  <2>2. MovesCharge(k, "activateProof")
    BY <1>4 DEF MovesCharge, InEscrow
  <2> QED
    BY <1>1, <1>2, <1>4, <2>1, <2>2, Types, QuietStep
<1> QED
  BY <1>3, <1>4

\* The charge is spent when the order is started, ...
LEMMA ActivateStep ==
  ASSUME IInv, NEW k \in Requests, Activate(k)
  PROVE  IInv'
<1> USE DEF Activate, At, LeavesTry, moneyVars
<1>1. "idle" \in Steps /\ "IN_PROGRESS" \in OrderStatuses
  BY DEF Steps, OrderStatuses
<1>2. Relies("idle", req[k].copy)
  BY DEF Relies, Working
<1>3. MovesCharge(k, "idle") /\ (starts' # {} \/ Spends(k, "idle"))
  <2>1. CASE req[k].at = "activate"
    BY <2>1 DEF MovesCharge, Spends, InEscrow
  <2>2. CASE req[k].at = "activateProof"
    BY <2>2 DEF MovesCharge, InEscrow, IInv, Loaded
  <2> QED
    BY <2>1, <2>2
<1> QED
  BY <1>1, <1>2, <1>3, Types, SaveStep

\* ... or given back.
LEMMA RefundStep ==
  ASSUME IInv, NEW k \in Requests, Refund(k)
  PROVE  IInv'
<1> USE DEF Refund, At
<1>1. "idle" \in Steps /\ Relies("idle", req[k].copy)
  BY DEF Steps, Relies, Working
<1>2. MovesCharge(k, "idle")
  BY DEF MovesCharge, InEscrow
<1>3. wallet' \in Nat
  BY Types
<1> QED
  BY <1>1, <1>2, <1>3, Types, QuietStep

LEMMA ThrowStep ==
  ASSUME IInv, NEW k \in Requests, Throw(k)
  PROVE  IInv'
<1> USE DEF Throw, InTry, moneyVars
<1>1. "refund" \in Steps /\ Relies("refund", req[k].copy)
  BY DEF Steps, Relies, Working
<1>2. MovesCharge(k, "refund")
  BY DEF MovesCharge, InEscrow
<1> QED
  BY <1>1, <1>2, Types, QuietStep

LEMMA FailStep ==
  ASSUME IInv, NEW k \in Requests, Fail(k)
  PROVE  IInv'
<1> USE DEF Fail, moneyVars
<1>1. "idle" \in Steps /\ Relies("idle", req[k].copy)
  BY DEF Steps, Relies, Working
<1>2. MovesCharge(k, "idle")
  BY DEF MovesCharge, Spends, InEscrow
<1> QED
  BY <1>1, <1>2, Types, QuietStep

LEMMA SaveStatusStep ==
  ASSUME IInv, NEW k \in Requests, SaveStatus(k)
  PROVE  IInv'
<1> DEFINE op == req[k].at
<1> USE DEF SaveStatus
<1>1. op \in {"pay", "reportStatus", "retryExecution", "cancel"}
      /\ Target[op] \in OrderStatuses /\ Save(k, Target[op]) /\ Finish(k)
  BY Names
<1>2. "idle" \in Steps /\ Relies("idle", req[k].copy)
  BY DEF Steps, Relies, Working
<1>3. MovesCharge(k, "idle")
  BY <1>1 DEF MovesCharge, InEscrow
<1>4. starts \subseteq starts' /\ starts' \subseteq {"alipay", "proof"} \cup Operators
  BY <1>1, Types DEF Operators
<1>5. Target[op] \in Unpaid \/ req[k].copy.status \notin Unpaid \/ starts' # {}
  <2>1. CASE op = "cancel"
    BY <2>1 DEF Target, Unpaid
  <2>2. CASE op # "cancel"
    BY <2>2
  <2> QED
    BY <2>1, <2>2
<1> QED
  BY <1>1, <1>2, <1>3, <1>4, <1>5, Types, SaveStep

LEMMA SetDeliveryShape ==
  ASSUME Reviews, NEW d, NEW status \in DeliveryStatuses, SetDelivery(d, status),
         UNCHANGED <<orderPayment, checklist, arbitration>>
  PROVE  Reviews'
BY DEF Reviews, SetDelivery

\* A step after an order was loaded beyond its payment, with no charge.
LEMMA WorkingStep ==
  ASSUME IInv, NEW k \in Requests, NEW step \in Steps,
         req[k].at \in Working, step \notin InEscrow \cup {"activateProof"},
         step = "insert" => req[k].at = "deliver", step # "deliver",
         UNCHANGED moneyVars
  PROVE  Relies(step, req[k].copy) /\ MovesCharge(k, step)
         /\ req[k].copy.status \notin Unpaid
<1>1. /\ req[k].copy.status \notin Unpaid
      /\ step = "insert" => req[k].copy.count < MaxDeliveryAttempts
  BY DEF IInv, Loaded
<1>2. MovesCharge(k, step)
  BY DEF MovesCharge, moneyVars, Working, InEscrow
<1> QED
  BY <1>1, <1>2 DEF Relies

LEMMA DeliverySteps ==
  ASSUME IInv, NEW k \in Requests,
         SupersedeCurrent(k) \/ AcceptDelivery(k) \/ RejectDelivery(k)
  PROVE  IInv'
<1> USE DEF SupersedeCurrent, AcceptDelivery, RejectDelivery, At, moneyVars
<1>1. {"idle", "insert", "rejected"} \subseteq Steps
  BY DEF Steps
<1>2. {"SUPERSEDED", "ACCEPTED", "REJECTED"} \subseteq DeliveryStatuses
  BY DEF DeliveryStatuses
<1>3. Reviews'
  BY <1>2, Types, SetDeliveryShape DEF Supersede
<1>4. CASE SupersedeCurrent(k)
  <2>1. Relies("insert", req[k].copy) /\ MovesCharge(k, "insert")
    BY <1>1, <1>4, WorkingStep DEF Working, InEscrow
  <2> QED
    BY <1>1, <1>3, <1>4, <2>1, Types, QuietStep
<1>5. CASE AcceptDelivery(k)
  <2>1. Relies("idle", req[k].copy) /\ MovesCharge(k, "idle")
    BY <1>1, <1>5, WorkingStep DEF Working, InEscrow
  <2> QED
    BY <1>1, <1>3, <1>5, <2>1, Types, QuietStep
<1>6. CASE RejectDelivery(k)
  <2>1. Relies("rejected", req[k].copy) /\ MovesCharge(k, "rejected")
    BY <1>1, <1>6, WorkingStep DEF Working, InEscrow
  <2> QED
    BY <1>1, <1>3, <1>6, <2>1, Types, QuietStep
<1> QED
  BY <1>4, <1>5, <1>6

LEMMA InsertDeliveryStep ==
  ASSUME IInv, NEW k \in Requests, InsertDelivery(k)
  PROVE  IInv'
<1> USE DEF InsertDelivery, At, moneyVars
<1>1. PICK d \in DeliveryIds :
        /\ SetDelivery(d, "PENDING_REVIEW")
        /\ req' = [req EXCEPT ![k].at = "delivered",
                              ![k].copy.count = @ + 1, ![k].copy.current = d]
  OBVIOUS
<1> DEFINE copy == [status |-> req[k].copy.status, count |-> req[k].copy.count + 1,
                    current |-> d]
<1>2. /\ req[k].copy \in OrderRow /\ req[k] \in RequestRow
      /\ req \in [Requests -> RequestRow]
      /\ req[k].copy.count < MaxDeliveryAttempts
      /\ req[k].copy.status \notin Unpaid
  BY DEF IInv, Rows, RequestRow, Loaded, Working
<1>3. copy \in OrderRow /\ copy.status = req[k].copy.status
  BY <1>2, DeliveryAssumption DEF OrderRow
<1>4. req' = [req EXCEPT ![k] = [at |-> "delivered", copy |-> copy]]
  BY <1>1, <1>2 DEF RequestRow, OrderRow
<1>5. [at |-> "delivered", copy |-> copy] \in RequestRow
  BY <1>3 DEF RequestRow, Steps
<1> HIDE DEF copy
<1>6. Moves(k, "delivered", copy)
  BY <1>2, <1>4, <1>5 DEF Moves
<1>7. Relies("delivered", copy)
  BY <1>2, <1>3 DEF Relies
<1>8. MovesCharge(k, "delivered")
  BY DEF MovesCharge, InEscrow
<1>9. Reviews'
  <2>1. "PENDING_REVIEW" \in DeliveryStatuses
    BY DEF DeliveryStatuses
  <2> QED
    BY <1>1, <2>1, Types, SetDeliveryShape
<1>10. Effect(k, "delivered", copy)
  BY <1>3, <1>6, <1>7, <1>8, <1>9, Types DEF Effect
<1> QED
  BY <1>10, EffectKeepsIInv

LEMMA SaveSteps ==
  ASSUME IInv, NEW k \in Requests,
         SaveDelivered(k) \/ SaveAccepted(k) \/ SaveRejected(k)
           \/ SaveReleased(k) \/ SaveArbitrated(k)
  PROVE  IInv'
<1> USE DEF SaveDelivered, SaveAccepted, SaveRejected, SaveReleased,
            SaveArbitrated, At, moneyVars
<1>1. /\ req[k].at \in Working
      /\ {"idle", "acceptDelivery", "arbitrate", "income"} \subseteq Steps
  BY DEF Working, Steps
<1>2. PICK step \in {"idle", "acceptDelivery", "arbitrate", "income"},
           status \in OrderStatuses :
        Save(k, status) /\ (Goto(k, step) \/ (step = "idle" /\ Finish(k)))
  BY DEF OrderStatuses
<1>3. Relies(step, req[k].copy) /\ MovesCharge(k, step)
      /\ req[k].copy.status \notin Unpaid
  BY <1>1, WorkingStep DEF InEscrow
<1> QED
  BY <1>1, <1>2, <1>3, Types, SaveStep

LEMMA ArbitrationAndIncomeSteps ==
  ASSUME IInv, NEW k \in Requests, SetArbitration(k) \/ AddIncome(k)
  PROVE  IInv'
<1> USE DEF SetArbitration, AddIncome, At
<1>1. /\ req[k].at \in Working
      /\ {"idle", "arbitrating", "resolved"} \subseteq Steps
  BY DEF Working, Steps
<1>2. PICK step \in {"idle", "arbitrating", "resolved"} :
        Goto(k, step) \/ (step = "idle" /\ Finish(k))
  OBVIOUS
<1>3. Relies(step, req[k].copy)
  BY DEF Relies, IInv, Loaded, Working
<1>4. MovesCharge(k, step)
  BY <1>1 DEF MovesCharge, InEscrow, Working, moneyVars
<1>5. /\ Reviews' /\ wallet' \in Nat /\ paidOut' \in Nat
      /\ UNCHANGED <<order, starts>>
  BY Types DEF Reviews, reviewVars, moneyVars, ArbitrationStatuses
<1> QED
  BY <1>1, <1>2, <1>3, <1>4, <1>5, Types, QuietStep

-----------------------------------------------------------------------------
(* The steps that no request takes, and the theorems.                       *)

LEMMA InitIInv ==
  ASSUME Init
  PROVE  IInv
<1> USE DEF Init
<1>1. Rows
  BY IdleShape DEF Rows
<1>2. Amounts
  BY WalletAssumption DEF Amounts
<1>3. Reviews
  BY DEF Reviews, OrderPaymentStatuses, DeliveryStatuses, ChecklistStatuses,
         ArbitrationStatuses
<1>4. Loaded
  BY IdleShape DEF Loaded, Working
<1>5. Cardinality(Holders) = 0
  <2>1. Holders = {}
    BY IdleShape DEF Holders, InEscrow
  <2> QED
    BY <2>1, FS_EmptySet
<1>6. order.status \in Unpaid /\ \A k \in Requests : req[k].copy.status \in Unpaid
  BY IdleShape DEF Unpaid
<1>7. charged >= Cardinality(Holders)
  <2>1. charged = 0
    OBVIOUS
  <2> QED
    BY ONLY <1>5, <2>1
<1> QED
  BY ONLY <1>1, <1>2, <1>3, <1>4, <1>6, <1>7 DEF IInv

LEMMA PlatformSteps ==
  ASSUME IInv,
         CreateOrderPayment \/ ConfirmPaymentReceived \/ AlipaySettles
           \/ GenerateChecklist \/ UpdateChecklistItem
  PROVE  IInv'
<1> USE DEF CreateOrderPayment, ConfirmPaymentReceived, AlipaySettles,
            GenerateChecklist, UpdateChecklistItem, moneyVars, reviewVars
<1>1. Reviews'
  BY Types DEF Reviews, OrderPaymentStatuses, ChecklistStatuses
<1>2. UNCHANGED <<req, wallet, charged, paidOut>> /\ starts \subseteq starts'
      /\ starts' \subseteq {"alipay", "proof"} \cup Operators
  BY Types
<1>3. order' \in OrderRow /\ (order' = order \/ starts' # {})
  BY Types DEF OrderRow, OrderStatuses
<1>4. Rows' /\ Amounts'
  BY <1>2, <1>3 DEF IInv, Rows, Amounts
<1>5. Loaded'
  BY <1>2 DEF IInv, Loaded
<1>6. Holders' = Holders
  BY <1>2 DEF Holders
<1>7. Funded => Funded'
  BY <1>2, <1>6 DEF Funded
<1>8. starts' # {} => Funded'
  BY DEF Funded
<1> QED
  BY <1>1, <1>2, <1>3, <1>4, <1>5, <1>6, <1>7, <1>8 DEF IInv

LEMMA NextIInv ==
  ASSUME IInv, [Next]_vars
  PROVE  IInv'
<1>1. CASE UNCHANGED vars
  BY <1>1 DEF vars, moneyVars, reviewVars, IInv, Rows, Amounts, Reviews, Loaded,
              Holders, Funded
<1>2. ASSUME NEW k \in Requests, Continue(k)
      PROVE  IInv'
  BY <1>2, ChargeStep, SaveOrderPaymentStep, ActivateStep, RefundStep,
     SaveStatusStep, DeliverySteps, InsertDeliveryStep, SaveSteps,
     ArbitrationAndIncomeSteps
     DEF Continue
<1> QED
  BY <1>1, <1>2, LoadStep, ThrowStep, FailStep, PlatformSteps DEF Next, Elsewhere

THEOREM Invariance == Spec => []IInv
<1>1. Init => IInv
  BY InitIInv
<1>2. IInv /\ [Next]_vars => IInv'
  BY NextIInv
<1> QED
  BY <1>1, <1>2, PTL DEF Spec

Bounded == disturbed \in 0..MaxDisturbed
LEMMA DisturbedBounded == Spec => []Bounded
<1>1. Init => Bounded
  <2>1. Init => disturbed = 0
    BY Zenon DEF Init
  <2>2. disturbed = 0 => Bounded
    BY DisturbedAssumption DEF Bounded
  <2> QED
    BY <2>1, <2>2
<1>2. Bounded /\ [Next]_vars => Bounded'
  <2>1. Disturb /\ Bounded => Bounded'
    BY DisturbedAssumption DEF Disturb, Bounded
  <2>2. [Next]_vars => UNCHANGED disturbed \/ Disturb
    BY DEF Next, Load, Throw, Fail, vars
  <2> QED
    BY <2>1, <2>2 DEF Bounded
<1> QED
  BY <1>1, <1>2, PTL DEF Spec

\* The rows and requests keep their shape for any number of requests, whatever
\* they overlap: no order exceeds its delivery attempts and no refund is made
\* without a charge.
THEOREM TypeCorrect == Spec => []TypeOK
<1>1. IInv /\ Bounded => TypeOK
  BY Names DEF Bounded, IInv, Rows, Amounts, Reviews, TypeOK, RequestRow
<1>2. Spec => [](IInv /\ Bounded)
  BY Invariance, DisturbedBounded, PTL
<1> QED
  BY <1>1, <1>2, PTL

\* Work, review and payout always have money or a recorded start behind them,
\* for any number of overlapping requests, exceptions and stops.
THEOREM WorkIsFunded == Spec => []EscrowBacked
<1>1. IInv => EscrowBacked
  BY HoldersFinite DEF IInv, Amounts, Funded, EscrowBacked
<1> QED
  BY <1>1, Invariance, PTL

-----------------------------------------------------------------------------
(* One request at a time: the rows at every step of it.                     *)

Single == \A j, k \in Requests : req[j] # Idle /\ req[k] # Idle => j = k
\* The request under way, or Idle when there is none.
Now == IF AtRest THEN Idle ELSE req[CHOOSE k \in Requests : req[k] # Idle]

FromBalance == {"payWithBalance", "row", "activate"}
Intake == FromBalance \cup {"confirmPayment", "activateProof", "cancel"}
Started == order.status \notin Unpaid
Paid == orderPayment \in {"PAID", "CONFIRMED"}

\* Where the order stands.  Alipay may settle during a request, so what the
\* request loaded as unpaid may be in progress.
Stage ==
    /\ Now.at \notin Bypasses \cup {"refund"}
    /\ Started \/ Now.at \in Working \cup {"activate", "activateProof"} => Paid
    /\ Now.at \in Intake => order.status \in Unpaid \cup {"IN_PROGRESS"}
    /\ Now.at \in Working => Started
    /\ Now.at \in FromBalance => order.status # "CANCELED"

\* An order that is not started, or whose cancellation is under way, had no
\* proof of payment accepted, unless one is being accepted now.
NoProof ==
    Now.at # "activateProof" /\ (order.status \in Unpaid \/ Now.at = "cancel")
      => starts \subseteq {"alipay"}

\* MoneyFollowsStatus, and what each step relies on for it.
Money ==
    /\ PaidOutOnce
    /\ paidOut = 1 => AtRest
    /\ Now.at = "income" => order.status = "COMPLETED"
    /\ order.status = "CANCELED" \/ Now.at = "cancel" => charged = 0
    /\ order.status = "PENDING_PAYMENT" /\ Now.at \notin {"row", "activate"}
         => charged = 0
    /\ NoProof

UnderReview == {d \in DeliveryIds : delivery[d] = "PENDING_REVIEW"}
\* What ReviewsCurrent says, and nothing under review at any other time.
Settled ==
    /\ UnderReview = IF order.status = "DELIVERED" THEN {order.current} ELSE {}
    /\ order.status = "PENDING_RELEASE" => delivery[order.current] = "ACCEPTED"
\* The steps between the save of a delivery and that of its order.
Between == {"insert", "delivered", "rejected", "acceptDelivery"}
UsesCurrent == {"deliver", "accept", "reject", "acceptDelivery"}
Review ==
    /\ Now.at \notin Between => Settled
    /\ Now.at \in {"accept", "reject"} => order.status = "DELIVERED"
    /\ Now.at \in UsesCurrent => Now.copy.current = order.current
    /\ Now.at = "delivered" => UnderReview = {Now.copy.current}
    /\ Now.at = "acceptDelivery" =>
         order.status = "PENDING_RELEASE" /\ UnderReview = {order.current}
    /\ Now.at \in Working \ (UsesCurrent \cup {"delivered"}) => UnderReview = {}

Sound == Single /\ Stage /\ Money /\ Review
SInv == disturbed = 0 => Sound

LEMMA InitSInv ==
  ASSUME Init
  PROVE  SInv
<1> USE DEF Init
<1>1. Now = Idle /\ AtRest /\ Single
  BY DEF Now, AtRest, Single
<1>2. /\ Idle.at = "idle" /\ order.status = "PENDING_PAYMENT"
      /\ "idle" \notin Bypasses \cup {"refund"} \cup Working \cup Intake
  <2>1. order = NewOrder
    OBVIOUS
  <2>2. "idle" \notin Bypasses \cup {"refund"} \cup Working \cup Intake
    BY ONLY DEF Bypasses, Working, Intake, FromBalance
  <2> QED
    BY ONLY <2>1, <2>2, IdleShape
<1>3. Stage
  BY <1>1, <1>2 DEF Stage, Started, Unpaid, Intake
<1>4. Money
  <2>1. charged = 0 /\ paidOut = 0 /\ starts = {}
    OBVIOUS
  <2>2. NoProof
    BY <2>1 DEF NoProof
  <2> QED
    BY ONLY <1>1, <1>2, <2>1, <2>2 DEF Money, PaidOutOnce
<1>5. Review
  BY <1>1, <1>2 DEF Review, Settled, UnderReview, UsesCurrent, Working
<1> QED
  BY <1>1, <1>3, <1>4, <1>5 DEF SInv, Sound

\* A step of a request without a disturbance is a step of the only one.
LEMMA Turn ==
  ASSUME IInv, Bounded, SInv, NEW k \in Requests, disturbed' = 0,
         UNCHANGED disturbed, req[k] # Idle \/ AtRest,
         \E v : req' = [req EXCEPT ![k] = v]
  PROVE  /\ Sound /\ Now = req[k]
         /\ Single' /\ Now' = req'[k] /\ (AtRest' <=> Now' = Idle)
<1>1. Sound
  BY DEF SInv
<1>2. \A j \in Requests : j # k => req[j] = Idle
  BY <1>1 DEF Sound, Single, AtRest
<1>3. \A j \in Requests : j # k => req'[j] = Idle
  BY <1>2 DEF IInv, Rows
<1>4. Now = req[k]
  <2>1. CASE req[k] = Idle
    BY <1>2, <2>1 DEF Now, AtRest
  <2>2. CASE req[k] # Idle
    <3>1. (CHOOSE j \in Requests : req[j] # Idle) = k
      BY <1>2, <2>2
    <3> QED
      BY <2>2, <3>1 DEF Now, AtRest
  <2> QED
    BY <2>1, <2>2
<1>5. Now' = req'[k] /\ (AtRest' <=> req'[k] = Idle)
  <2>1. CASE req'[k] = Idle
    BY <1>3, <2>1 DEF Now, AtRest
  <2>2. CASE req'[k] # Idle
    <3>1. (CHOOSE j \in Requests : req'[j] # Idle) = k
      BY <1>3, <2>2
    <3> QED
      BY <2>2, <3>1 DEF Now, AtRest
  <2> QED
    BY <2>1, <2>2
<1>6. Single'
  BY <1>3 DEF Single
<1> QED
  BY <1>1, <1>4, <1>5, <1>6

\* The same where an operation goes on: it is where it stood, and stands at
\* the next step or is over.
LEMMA GoesOn ==
  ASSUME IInv, Bounded, SInv, NEW k \in Requests, Continue(k), disturbed' = 0,
         UNCHANGED disturbed
  PROVE  /\ Stage /\ Money /\ Review /\ Single' /\ Now = req[k]
         /\ req[k].at # "idle" /\ ~AtRest /\ paidOut = 0
         /\ \A step \in Steps \ {"idle"} :
              Goto(k, step) => /\ Now'.at = step /\ Now'.copy = Now.copy
                               /\ ~AtRest'
         /\ Finish(k) => Now' = Idle /\ AtRest'
<1>1. req[k].at # "idle" /\ req[k] # Idle
  <2>1. req[k].at # "idle"
    BY DEF Continue, Charge, SaveOrderPayment, Activate, Refund, SaveStatus,
           SupersedeCurrent, InsertDelivery, SaveDelivered, SaveAccepted,
           AcceptDelivery, RejectDelivery, SaveRejected, SetArbitration,
           SaveArbitrated, SaveReleased, AddIncome, At, Target
  <2> QED
    BY <2>1, IdleShape
<1>2. \E v : req' = [req EXCEPT ![k] = v]
  BY DEF Continue, Charge, SaveOrderPayment, Activate, Refund, SaveStatus,
         SupersedeCurrent, InsertDelivery, SaveDelivered, SaveAccepted,
         AcceptDelivery, RejectDelivery, SaveRejected, SetArbitration,
         SaveArbitrated, SaveReleased, AddIncome, Goto, Finish, LeavesTry
<1>3. /\ Sound /\ Now = req[k]
      /\ Single' /\ Now' = req'[k] /\ (AtRest' <=> Now' = Idle)
  BY <1>1, <1>2, Turn
<1>4. ~AtRest
  BY <1>1 DEF AtRest
<1>5. paidOut = 0
  BY <1>3, <1>4 DEF Sound, Money, PaidOutOnce, IInv, Amounts
<1>6. ASSUME NEW step \in Steps \ {"idle"}, Goto(k, step)
      PROVE  Now'.at = step /\ Now'.copy = Now.copy /\ ~AtRest'
  BY <1>3, <1>6, GotoShape, IdleShape DEF IInv, Moves
<1>7. ASSUME Finish(k) PROVE Now' = Idle /\ AtRest'
  BY <1>3, <1>7 DEF Finish, IInv, Rows
<1> QED
  BY <1>1, <1>3, <1>4, <1>5, <1>6, <1>7 DEF Sound


\* What happens beside the requests.  Alipay starts an order that is not
\* started, which concerns neither a payout nor a review.
LEMMA ElsewhereSound ==
  ASSUME IInv, SInv, Elsewhere, UNCHANGED disturbed
  PROVE  SInv'
<1> SUFFICES ASSUME disturbed = 0
             PROVE  Sound'
  BY DEF SInv
<1>1. /\ UNCHANGED <<req, delivery, paidOut, charged>>
      /\ Now' = Now /\ (AtRest' <=> AtRest) /\ Single'
      /\ Single /\ Stage /\ Money /\ Review
  <2>1. UNCHANGED <<req, delivery, paidOut, charged>>
    BY DEF Elsewhere, CreateOrderPayment, ConfirmPaymentReceived,
           AlipaySettles, GenerateChecklist, UpdateChecklistItem, reviewVars,
           moneyVars
  <2>2. Single /\ Stage /\ Money /\ Review
    BY DEF SInv, Sound
  <2>3. AtRest' <=> AtRest
    BY <2>1 DEF AtRest
  <2> QED
    BY <2>1, <2>2, <2>3 DEF Now, Single
<1>2. \/ order' = order
      \/ /\ order.status \in Unpaid /\ order'.status = "IN_PROGRESS"
         /\ order'.current = order.current /\ Paid'
  BY DEF Elsewhere, CreateOrderPayment, ConfirmPaymentReceived, AlipaySettles,
         GenerateChecklist, UpdateChecklistItem, Paid, IInv, Rows, OrderRow
<1>3. Paid => Paid'
  BY DEF Elsewhere, CreateOrderPayment, ConfirmPaymentReceived, AlipaySettles,
         GenerateChecklist, UpdateChecklistItem, Paid
<1>4. Stage'
  BY <1>1, <1>2, <1>3 DEF Stage, Started, Unpaid
<1>0. starts' \subseteq starts \cup {"alipay"}
  BY DEF Elsewhere, CreateOrderPayment, ConfirmPaymentReceived, AlipaySettles,
         GenerateChecklist, UpdateChecklistItem, moneyVars
<1>5. Money'
  <2>1. NoProof'
    BY <1>0, <1>1, <1>2 DEF Money, NoProof, Unpaid
  <2> QED
    BY <1>1, <1>2, <2>1 DEF Money, PaidOutOnce, Unpaid
<1>6. Review'
  <2>1. CASE order' = order
    BY <1>1, <2>1 DEF Review, Settled, UnderReview
  <2>2. CASE /\ order.status \in Unpaid /\ order'.status = "IN_PROGRESS"
             /\ order'.current = order.current
    <3>1. Now.at \notin Working
      BY <1>1, <2>2 DEF Stage, Started
    <3>2. Now.at \notin Between \cup UsesCurrent \cup {"delivered"}
      BY <3>1 DEF Between, UsesCurrent, Working
    <3>3. Settled'
      BY <1>1, <2>2, <3>2 DEF Review, Settled, UnderReview, Unpaid
    <3> QED
      BY <1>1, <3>1, <3>2, <3>3 DEF Review, UsesCurrent
  <2> QED
    BY <1>2, <2>1, <2>2
<1> QED
  BY <1>1, <1>4, <1>5, <1>6 DEF Sound

LEMMA LoadSound ==
  ASSUME IInv, Bounded, SInv, NEW k \in Requests, NEW op \in DOMAIN Required,
         Load(k, op)
  PROVE  SInv'
<1> SUFFICES ASSUME disturbed' = 0
             PROVE  Sound'
  BY DEF SInv
<1>1. AtRest /\ op \notin Bypasses /\ UNCHANGED disturbed
  BY DisturbedAssumption DEF Load, Disturb, Bounded
<1>2. /\ UNCHANGED <<order, orderPayment, delivery, charged, paidOut, starts>>
      /\ order.status \in Required[op] /\ op \in Operators
      /\ op = "confirmPayment" => orderPayment = "PENDING"
  BY Names DEF Load, Precondition, reviewVars, moneyVars
<1>3. Sound /\ Now = req[k] /\ Single' /\ Now' = req'[k]
  BY <1>1, Turn DEF Load
<1>4. Now.at = "idle" /\ Stage /\ Money /\ Review
  BY <1>1, <1>3, IdleShape DEF Now, Sound
<1>5. Now'.at = op /\ Now'.copy = order
  BY <1>2, <1>3, LoadShape DEF IInv, Moves
<1>6. op \notin Between \cup {"refund", "income", "row", "activate",
                              "activateProof"}
  BY <1>2 DEF Operators, Between
<1>7. op \in {"payWithBalance", "cancel"} => order.status = "PENDING_PAYMENT"
  BY <1>2 DEF Required, Cancelable
<1>8. op \in Working => order.status \notin Unpaid
  BY <1>2, RequiredPaid
<1>9. op = "confirmPayment" => order.status \in Unpaid
  BY <1>2, <1>4 DEF Stage, Started, Paid
<1>10. Stage'
  <2>1. op \in Intake => op \in {"payWithBalance", "cancel", "confirmPayment"}
    BY <1>6 DEF Intake, FromBalance
  <2>2. op \in FromBalance => op = "payWithBalance"
    BY <1>6 DEF FromBalance
  <2> QED
    BY <1>1, <1>2, <1>4, <1>5, <1>6, <1>7, <1>8, <1>9, <2>1, <2>2
       DEF Stage, Started, Paid, Unpaid
<1>11. paidOut # 1
  <2>1. ASSUME paidOut = 1
        PROVE  FALSE
    <3>1. order.status = "COMPLETED"
      BY <1>4, <2>1 DEF Money, PaidOutOnce
    <3>2. op # "confirmPayment"
      BY <1>9, <3>1 DEF Unpaid
    <3>3. op \in {"payWithBalance", "cancel", "deliver", "accept", "reject",
                  "release", "startArbitration", "resolveArbitration"}
      BY <1>1, <1>2, <3>2 DEF Operators, Bypasses
    <3> QED
      BY <1>2, <3>1, <3>3 DEF Required, Cancelable, Releasable
  <2> QED
    BY <2>1
<1>12. Money'
  <2>1. NoProof'
    BY <1>2, <1>4, <1>5, <1>6, <1>7, <1>11 DEF Money, NoProof, Unpaid
  <2> QED
    BY <1>2, <1>4, <1>5, <1>6, <1>7, <1>11, <2>1 DEF Money, PaidOutOnce
<1>13. Review'
  <2>1. Settled'
    BY <1>2, <1>4 DEF Review, Settled, UnderReview, Between
  <2>2. op \in {"accept", "reject"} => order.status = "DELIVERED"
    BY <1>2 DEF Required
  <2>3. ASSUME op \in Working \ (UsesCurrent \cup {"delivered"})
        PROVE  UnderReview = {}
    <3>1. op \in {"release", "startArbitration", "resolveArbitration"}
      BY <1>2, <2>3 DEF Working, UsesCurrent, Operators
    <3>2. order.status # "DELIVERED"
      BY <1>2, <3>1 DEF Required, Releasable
    <3> QED
      BY <1>4, <3>2 DEF Review, Settled, Between
  <2>4. UnderReview' = UnderReview
    BY <1>2 DEF UnderReview
  <2> QED
    BY <1>2, <1>5, <1>6, <2>1, <2>2, <2>3, <2>4 DEF Review, Between
<1> QED
  BY <1>3, <1>10, <1>12, <1>13 DEF Sound


\* The order is saved with the copy of the request.
LEMMA SaveNow ==
  ASSUME IInv, NEW k \in Requests, Now = req[k], NEW status \in OrderStatuses,
         Save(k, status)
  PROVE  /\ order'.status = status
         /\ order'.current = Now.copy.current
BY DEF Save, IInv, Rows, RequestRow, OrderRow

\* The steps of a payment concern no review.
LEMMA IntakeUnreviewed ==
  ASSUME Stage, Review, Now.at \in Intake
  PROVE  UnderReview = {}
<1>1. Now.at \notin Between
  BY DEF Intake, FromBalance, Between
<1>2. order.status # "DELIVERED"
  BY DEF Stage, Unpaid
<1> QED
  BY <1>1, <1>2 DEF Review, Settled

\* Nor does what they save.
LEMMA IntakeReview ==
  ASSUME Stage, Review, Now.at \in Intake,
         Now'.at \in {"idle", "row", "activate", "activateProof"},
         UNCHANGED delivery,
         order' = order \/ order'.status \in {"IN_PROGRESS", "CANCELED"}
  PROVE  Review'
<1>1. UnderReview = {} /\ UnderReview' = UnderReview
  BY IntakeUnreviewed DEF UnderReview
<1>2. order.status \notin {"DELIVERED", "PENDING_RELEASE"}
  BY DEF Stage, Unpaid
<1>3. Settled'
  BY <1>1, <1>2 DEF Settled
<1>4. Now'.at \notin Working \cup Between \cup UsesCurrent
  BY DEF Working, Between, UsesCurrent
<1> QED
  BY <1>3, <1>4 DEF Review, UsesCurrent

LEMMA ChargeSound ==
  ASSUME IInv, Bounded, SInv, NEW k \in Requests, Charge(k), disturbed' = 0,
         UNCHANGED disturbed
  PROVE  Sound'
<1>1. /\ Stage /\ Money /\ Review /\ Single' /\ Now = req[k] /\ paidOut = 0
      /\ \/ Now'.at = "row"
         \/ Now'.at = "idle" /\ UNCHANGED charged
  <2>1. Continue(k) /\ "row" \in Steps \ {"idle"}
    BY DEF Continue, Steps
  <2>2. CASE Goto(k, "row")
    BY <2>1, <2>2, GoesOn
  <2>3. CASE Finish(k) /\ UNCHANGED charged
    BY <2>1, <2>3, GoesOn, IdleShape
  <2> QED
    BY <2>2, <2>3 DEF Charge
<1>2. /\ Now.at = "payWithBalance"
      /\ UNCHANGED <<order, orderPayment, delivery, paidOut, starts>>
  BY <1>1 DEF Charge, At, reviewVars
<1>3. Stage'
  BY <1>1, <1>2
     DEF Stage, Started, Paid, Bypasses, Working, Intake, FromBalance
<1>4. Money'
  <2>1. NoProof'
    BY <1>1, <1>2 DEF Money, NoProof, Unpaid
  <2> QED
    BY <1>1, <1>2, <2>1 DEF Money, PaidOutOnce, Stage, FromBalance
<1>5. Review'
  BY <1>1, <1>2, IntakeReview DEF Intake, FromBalance
<1> QED
  BY <1>1, <1>3, <1>4, <1>5 DEF Sound

LEMMA SaveOrderPaymentSound ==
  ASSUME IInv, Bounded, SInv, NEW k \in Requests, SaveOrderPayment(k),
         disturbed' = 0, UNCHANGED disturbed
  PROVE  Sound'
<1>1. /\ Stage /\ Money /\ Review /\ Single' /\ Now = req[k] /\ paidOut = 0
      /\ \/ Now.at = "row" /\ Now'.at = "activate"
         \/ Now.at = "confirmPayment" /\ Now'.at = "activateProof"
  <2>1. Continue(k) /\ {"activate", "activateProof"} \subseteq Steps \ {"idle"}
    BY DEF Continue, Steps
  <2> QED
    BY <2>1, GoesOn DEF SaveOrderPayment, At
<1>2. /\ orderPayment' = "PAID"
      /\ UNCHANGED <<order, delivery, paidOut, charged>>
      /\ Now'.at = "activate" => starts' = starts
  BY <1>1 DEF SaveOrderPayment, reviewVars, At
<1>3. Stage'
  BY <1>1, <1>2
     DEF Stage, Started, Paid, Bypasses, Working, Intake, FromBalance
<1>4. Money'
  <2>1. NoProof'
    BY <1>1, <1>2 DEF Money, NoProof, Unpaid
  <2> QED
    BY <1>1, <1>2, <2>1 DEF Money, PaidOutOnce
<1>5. Review'
  BY <1>1, <1>2, IntakeReview DEF Intake, FromBalance
<1> QED
  BY <1>1, <1>3, <1>4, <1>5 DEF Sound

LEMMA ActivateSound ==
  ASSUME IInv, Bounded, SInv, NEW k \in Requests, Activate(k),
         disturbed' = 0, UNCHANGED disturbed
  PROVE  Sound'
<1>1. /\ Stage /\ Money /\ Review /\ Single' /\ Now = req[k] /\ paidOut = 0
      /\ Now.at \in {"activate", "activateProof"} /\ Now'.at = "idle" /\ AtRest'
  <2>1. Continue(k)
    BY DEF Continue
  <2> QED
    BY <2>1, GoesOn, IdleShape DEF Activate, At, LeavesTry
<1>2. /\ order'.status = "IN_PROGRESS"
      /\ UNCHANGED <<orderPayment, delivery, paidOut, charged>>
  BY <1>1, SaveNow DEF Activate, reviewVars, moneyVars, OrderStatuses
<1>3. Stage'
  BY <1>1, <1>2
     DEF Stage, Started, Paid, Bypasses, Working, Intake, FromBalance
<1>4. Money'
  <2>1. order'.status \notin Unpaid /\ Now'.at # "cancel"
    BY <1>1, <1>2 DEF Unpaid
  <2>2. NoProof'
    BY <2>1 DEF NoProof
  <2> QED
    BY <1>1, <1>2, <2>1, <2>2 DEF Money, PaidOutOnce, Unpaid
<1>5. Review'
  BY <1>1, <1>2, IntakeReview DEF Intake, FromBalance
<1> QED
  BY <1>1, <1>3, <1>4, <1>5 DEF Sound

\* Of the operations that only save a status, cancel is not a bypass.
LEMMA SaveStatusSound ==
  ASSUME IInv, Bounded, SInv, NEW k \in Requests, SaveStatus(k),
         disturbed' = 0, UNCHANGED disturbed
  PROVE  Sound'
<1>1. /\ Stage /\ Money /\ Review /\ Single' /\ Now = req[k] /\ paidOut = 0
      /\ Now'.at = "idle" /\ AtRest'
  <2>1. Continue(k)
    BY DEF Continue
  <2> QED
    BY <2>1, GoesOn, IdleShape DEF SaveStatus
<1>2. Now.at = "cancel"
  BY <1>1, Names DEF SaveStatus, Stage, Bypasses
<1>3. Target["cancel"] = "CANCELED"
  BY DEF Target
<1>4. /\ order'.status = "CANCELED"
      /\ UNCHANGED <<orderPayment, delivery, paidOut, charged, starts>>
  BY <1>1, <1>2, <1>3, SaveNow DEF SaveStatus, reviewVars, OrderStatuses
<1>5. Stage'
  BY <1>1, <1>4
     DEF Stage, Started, Unpaid, Bypasses, Working, Intake, FromBalance
<1>6. Money'
  <2>1. NoProof'
    BY <1>1, <1>2, <1>4 DEF Money, NoProof, Unpaid
  <2> QED
    BY <1>1, <1>2, <1>4, <2>1 DEF Money, PaidOutOnce
<1>7. Review'
  BY <1>1, <1>2, <1>4, IntakeReview DEF Intake
<1> QED
  BY <1>1, <1>5, <1>6, <1>7 DEF Sound

\* Without an exception there is no refund.
LEMMA RefundSound ==
  ASSUME IInv, Bounded, SInv, NEW k \in Requests, Refund(k),
         disturbed' = 0, UNCHANGED disturbed
  PROVE  FALSE
<1>1. Continue(k)
  BY DEF Continue
<1>2. Stage /\ Now.at = "refund"
  BY <1>1, GoesOn DEF Refund, At
<1> QED
  BY <1>2 DEF Stage


\* The steps of an operation on a started order, which touch no charge: what
\* each one knows, and all that is left to show is the review.
LEMMA WorkOn ==
  ASSUME IInv, Bounded, SInv, NEW k \in Requests, Continue(k), disturbed' = 0,
         UNCHANGED disturbed, req[k].at \in Working, UNCHANGED moneyVars,
         UNCHANGED orderPayment, order' = order \/ order'.status \notin Unpaid,
         Now'.at \in Working \cup {"idle"},
         Now'.at = "income" => order'.status = "COMPLETED",
         Review'
  PROVE  Sound'
<1>1. /\ Stage /\ Money /\ Single' /\ Now = req[k] /\ paidOut = 0
      /\ UNCHANGED <<paidOut, charged>>
  BY GoesOn DEF moneyVars
<1>2. Started /\ Paid /\ Started' /\ Paid'
  BY <1>1 DEF Stage, Started, Paid
<1>3. Now'.at \notin Bypasses \cup {"refund"} \cup Intake
  BY DEF Working, Bypasses, Intake, FromBalance
<1>4. Stage'
  BY <1>2, <1>3 DEF Stage, Intake
<1>5. Now'.at # "cancel"
  BY <1>3 DEF Intake
<1>6. Money'
  <2>1. NoProof'
    BY <1>2, <1>5 DEF NoProof, Started
  <2> QED
    BY <1>1, <1>2, <1>5, <2>1 DEF Money, PaidOutOnce, Started, Unpaid
<1> QED
  BY <1>1, <1>4, <1>6 DEF Sound

\* The deliveries under review after one of them changed.
LEMMA UnderReviewSet ==
  ASSUME IInv, NEW d, NEW status, SetDelivery(d, status)
  PROVE  /\ status # "PENDING_REVIEW" => UnderReview' = UnderReview \ {d}
         /\ status = "PENDING_REVIEW" /\ d \in DeliveryIds =>
              UnderReview' = UnderReview \cup {d}
BY DEF SetDelivery, UnderReview

LEMMA SupersedeSound ==
  ASSUME IInv, Bounded, SInv, NEW k \in Requests, SupersedeCurrent(k),
         disturbed' = 0, UNCHANGED disturbed
  PROVE  Sound'
<1>1. Continue(k) /\ "insert" \in Steps \ {"idle"}
  BY DEF Continue, Steps
<1>2. /\ Stage /\ Review /\ Now = req[k] /\ Now.at = "deliver"
      /\ Now'.at = "insert"
  BY <1>1, GoesOn DEF SupersedeCurrent, At
<1>3. Settled /\ Now.copy.current = order.current
  BY <1>2 DEF Review, Between, UsesCurrent
<1>4. UnderReview' = {}
  BY <1>2, <1>3, UnderReviewSet DEF SupersedeCurrent, Supersede, Settled
<1>5. Review'
  BY <1>2, <1>4 DEF Review, Between, UsesCurrent
<1> QED
  BY <1>1, <1>2, <1>5, WorkOn DEF SupersedeCurrent, Working

LEMMA InsertSound ==
  ASSUME IInv, Bounded, SInv, NEW k \in Requests, InsertDelivery(k),
         disturbed' = 0, UNCHANGED disturbed
  PROVE  Sound'
<1>1. Continue(k)
  BY DEF Continue
<1>2. PICK d \in DeliveryIds :
        /\ SetDelivery(d, "PENDING_REVIEW")
        /\ req' = [req EXCEPT ![k].at = "delivered",
                              ![k].copy.count = @ + 1, ![k].copy.current = d]
  BY DEF InsertDelivery
<1>3. /\ Stage /\ Review /\ Now = req[k] /\ Now.at = "insert"
  BY <1>1, GoesOn DEF InsertDelivery, At
<1>4. Now' = req'[k]
  <2>1. req[k] # Idle
    BY <1>3, IdleShape
  <2>2. req' = [req EXCEPT ![k] = req'[k]]
    BY <1>2 DEF IInv, Rows
  <2> QED
    BY <2>1, <2>2, Turn
<1>5. Now'.at = "delivered" /\ Now'.copy.current = d
  BY <1>2, <1>4 DEF IInv, Rows, RequestRow, OrderRow
<1>6. UnderReview' = {d}
  <2>1. UnderReview = {}
    BY <1>3 DEF Review, Working, UsesCurrent
  <2> QED
    BY <1>2, <2>1, UnderReviewSet
<1>7. Review'
  BY <1>5, <1>6 DEF Review, Between, UsesCurrent
<1> QED
  BY <1>1, <1>3, <1>5, <1>7, WorkOn DEF InsertDelivery, Working

LEMMA DeliveredSound ==
  ASSUME IInv, Bounded, SInv, NEW k \in Requests, SaveDelivered(k),
         disturbed' = 0, UNCHANGED disturbed
  PROVE  Sound'
<1>1. Continue(k)
  BY DEF Continue
<1>2. /\ Stage /\ Review /\ Now = req[k] /\ Now.at = "delivered"
      /\ Now'.at = "idle"
  BY <1>1, GoesOn, IdleShape DEF SaveDelivered, At
<1>3. /\ order'.status = "DELIVERED" /\ order'.current = Now.copy.current
      /\ UNCHANGED delivery
  BY <1>2, SaveNow DEF SaveDelivered, OrderStatuses, reviewVars
<1>4. UnderReview' = {order'.current}
  BY <1>2, <1>3 DEF Review, UnderReview
<1>5. Review'
  BY <1>2, <1>3, <1>4 DEF Review, Settled, Between, UsesCurrent, Working
<1> QED
  BY <1>1, <1>2, <1>3, <1>5, WorkOn DEF SaveDelivered, Working, Unpaid

LEMMA AcceptedSound ==
  ASSUME IInv, Bounded, SInv, NEW k \in Requests, SaveAccepted(k),
         disturbed' = 0, UNCHANGED disturbed
  PROVE  Sound'
<1>1. Continue(k) /\ "acceptDelivery" \in Steps \ {"idle"}
  BY DEF Continue, Steps
<1>2. /\ Stage /\ Review /\ Now = req[k] /\ Now.at = "accept"
      /\ Now'.at = "acceptDelivery" /\ Now'.copy = Now.copy
  BY <1>1, GoesOn DEF SaveAccepted, At
<1>3. /\ order'.status = "PENDING_RELEASE" /\ order'.current = Now.copy.current
      /\ UNCHANGED delivery
  BY <1>2, SaveNow DEF SaveAccepted, OrderStatuses, reviewVars
<1>4. /\ order.status = "DELIVERED" /\ Settled
      /\ Now.copy.current = order.current
  BY <1>2 DEF Review, Between, UsesCurrent
<1>5. UnderReview' = {order'.current}
  BY <1>3, <1>4 DEF Settled, UnderReview
<1>6. Review'
  BY <1>2, <1>3, <1>5 DEF Review, Between, UsesCurrent
<1> QED
  BY <1>1, <1>2, <1>3, <1>6, WorkOn DEF SaveAccepted, Working, Unpaid

LEMMA AcceptDeliverySound ==
  ASSUME IInv, Bounded, SInv, NEW k \in Requests, AcceptDelivery(k),
         disturbed' = 0, UNCHANGED disturbed
  PROVE  Sound'
<1>1. Continue(k)
  BY DEF Continue
<1>2. /\ Stage /\ Review /\ Now = req[k] /\ Now.at = "acceptDelivery"
      /\ Now'.at = "idle"
  BY <1>1, GoesOn, IdleShape DEF AcceptDelivery, At
<1>3. /\ order.status = "PENDING_RELEASE" /\ UnderReview = {order.current}
      /\ Now.copy.current = order.current
  BY <1>2 DEF Review, UsesCurrent
<1>4. SetDelivery(order.current, "ACCEPTED") /\ UNCHANGED order
  BY <1>2, <1>3 DEF AcceptDelivery
<1>5. UnderReview' = {} /\ delivery'[order.current] = "ACCEPTED"
  <2>1. order.current \in DeliveryIds
    BY <1>3 DEF UnderReview
  <2> QED
    BY <1>3, <1>4, <2>1, UnderReviewSet DEF SetDelivery
<1>6. Review'
  BY <1>2, <1>3, <1>4, <1>5
     DEF Review, Settled, Between, UsesCurrent, Working
<1> QED
  BY <1>1, <1>2, <1>6, WorkOn DEF AcceptDelivery, Working

LEMMA RejectSound ==
  ASSUME IInv, Bounded, SInv, NEW k \in Requests, RejectDelivery(k),
         disturbed' = 0, UNCHANGED disturbed
  PROVE  Sound'
<1>1. Continue(k) /\ "rejected" \in Steps \ {"idle"}
  BY DEF Continue, Steps
<1>2. /\ Stage /\ Review /\ Now = req[k] /\ Now.at = "reject"
      /\ Now'.at = "rejected"
  BY <1>1, GoesOn DEF RejectDelivery, At
<1>3. /\ order.status = "DELIVERED" /\ Settled
      /\ Now.copy.current = order.current
  BY <1>2 DEF Review, Between, UsesCurrent
<1>4. UnderReview' = {}
  BY <1>2, <1>3, UnderReviewSet DEF RejectDelivery, Settled
<1>5. Review'
  BY <1>2, <1>4 DEF Review, Between, UsesCurrent
<1> QED
  BY <1>1, <1>2, <1>5, WorkOn DEF RejectDelivery, Working

\* Where nothing is under review, the order may get any status that awaits no
\* review and no release.
LEMMA UnreviewedSound ==
  ASSUME IInv, Bounded, SInv, NEW k \in Requests,
         SaveRejected(k) \/ SetArbitration(k) \/ SaveArbitrated(k),
         disturbed' = 0, UNCHANGED disturbed
  PROVE  Sound'
<1> DEFINE Arguing == {"rejected", "arbitrate", "startArbitration",
                       "arbitrating", "resolveArbitration", "resolved"}
<1>1. /\ Continue(k) /\ Arguing \subseteq Steps \ {"idle"}
      /\ Arguing \subseteq Working \ (UsesCurrent \cup {"delivered"})
  <2>1. Continue(k)
    BY DEF Continue
  <2>2. Arguing \subseteq Working \ (UsesCurrent \cup {"delivered"})
    BY ONLY DEF Working, UsesCurrent
  <2>3. Arguing \subseteq Steps \ {"idle"}
    BY ONLY Names DEF Working
  <2> QED
    BY <2>1, <2>2, <2>3
<1>2. /\ Stage /\ Review /\ Now = req[k] /\ Now.at \in Arguing
  BY <1>1, GoesOn DEF SaveRejected, SetArbitration, SaveArbitrated, At
<1>3. Now'.at \in {"idle", "arbitrate", "arbitrating", "resolved"}
  <2>1. \/ Finish(k)
        \/ \E step \in {"arbitrate", "arbitrating", "resolved"} : Goto(k, step)
    BY DEF SaveRejected, SetArbitration, SaveArbitrated
  <2> QED
    BY <1>1, <2>1, GoesOn, IdleShape
<1>4. /\ UnderReview = {} /\ UNCHANGED <<delivery, orderPayment, moneyVars>>
      /\ UnderReview' = UnderReview
  <2>1. UnderReview = {}
    BY <1>1, <1>2 DEF Review
  <2> QED
    BY <2>1 DEF SaveRejected, SetArbitration, SaveArbitrated, reviewVars,
                UnderReview
<1>5. \/ UNCHANGED order /\ Now.at # "rejected"
      \/ order'.status \in {"IN_PROGRESS", "REJECTED", "ARBITRATING",
                            "REFUNDED", "COMPLETED"}
  <2>1. \/ UNCHANGED order /\ Now.at # "rejected"
        \/ \E s \in {"IN_PROGRESS", "REJECTED", "ARBITRATING", "REFUNDED",
                     "COMPLETED"} : Save(k, s)
    BY <1>2 DEF SaveRejected, SetArbitration, SaveArbitrated, At
  <2>2. {"IN_PROGRESS", "REJECTED", "ARBITRATING", "REFUNDED", "COMPLETED"}
          \subseteq OrderStatuses
    BY DEF OrderStatuses
  <2> QED
    BY <1>2, <2>1, <2>2, SaveNow
<1>6. Settled'
  <2>1. CASE UNCHANGED order /\ Now.at # "rejected"
    <3>1. Settled
      BY <1>2, <2>1 DEF Review, Between
    <3> QED
      BY <1>4, <2>1, <3>1 DEF Settled
  <2>2. CASE order'.status \in {"IN_PROGRESS", "REJECTED", "ARBITRATING",
                                "REFUNDED", "COMPLETED"}
    BY <1>4, <2>2 DEF Settled
  <2> QED
    BY <1>5, <2>1, <2>2
<1>7. Review'
  BY <1>3, <1>4, <1>6 DEF Review, Between, UsesCurrent
<1>8. /\ req[k].at \in Working /\ Now'.at \in Working \cup {"idle"}
      /\ Now'.at # "income" /\ (order' = order \/ order'.status \notin Unpaid)
  BY <1>1, <1>2, <1>3, <1>5 DEF Working, Unpaid
<1> QED
  BY <1>1, <1>4, <1>7, <1>8, WorkOn

LEMMA ReleasedSound ==
  ASSUME IInv, Bounded, SInv, NEW k \in Requests, SaveReleased(k),
         disturbed' = 0, UNCHANGED disturbed
  PROVE  Sound'
<1>1. Continue(k) /\ "income" \in Steps \ {"idle"}
  BY DEF Continue, Steps
<1>2. /\ Stage /\ Review /\ Now = req[k] /\ Now.at = "release"
      /\ Now'.at = "income"
  BY <1>1, GoesOn DEF SaveReleased, At
<1>3. order'.status = "COMPLETED" /\ UNCHANGED delivery
  BY <1>2, SaveNow DEF SaveReleased, OrderStatuses, reviewVars
<1>4. UnderReview' = {}
  BY <1>2, <1>3 DEF Review, UnderReview, Working, UsesCurrent
<1>5. Review'
  BY <1>2, <1>3, <1>4 DEF Review, Settled, Between, UsesCurrent
<1> QED
  BY <1>1, <1>2, <1>3, <1>5, WorkOn DEF SaveReleased, Working, Unpaid

LEMMA IncomeSound ==
  ASSUME IInv, Bounded, SInv, NEW k \in Requests, AddIncome(k),
         disturbed' = 0, UNCHANGED disturbed
  PROVE  Sound'
<1>1. Continue(k)
  BY DEF Continue
<1>2. /\ Stage /\ Money /\ Review /\ Single' /\ Now = req[k] /\ paidOut = 0
      /\ Now.at = "income" /\ Now'.at = "idle" /\ AtRest'
  BY <1>1, GoesOn, IdleShape DEF AddIncome, At
<1>3. /\ order.status = "COMPLETED" /\ paidOut' = 1
      /\ UNCHANGED <<order, orderPayment, delivery, charged>>
  BY <1>2 DEF Money, AddIncome, reviewVars
<1>4. Stage'
  BY <1>2, <1>3
     DEF Stage, Started, Paid, Bypasses, Working, Intake, FromBalance, Unpaid
<1>5. Money'
  <2>1. NoProof'
    BY <1>2, <1>3 DEF Money, NoProof, Unpaid
  <2> QED
    BY <1>2, <1>3, <2>1 DEF Money, PaidOutOnce
<1>6. Settled'
  BY <1>2, <1>3 DEF Review, Settled, UnderReview, Between
<1>7. Review'
  BY <1>2, <1>6 DEF Review, UsesCurrent, Working
<1> QED
  BY <1>2, <1>4, <1>5, <1>7 DEF Sound

LEMMA NextSInv ==
  ASSUME IInv, Bounded, SInv, [Next]_vars
  PROVE  SInv'
<1>1. CASE UNCHANGED vars
  BY <1>1 DEF vars, moneyVars, reviewVars, SInv, Sound, Single, Stage, Money,
              NoProof, Review, Now, AtRest, Started, Paid, PaidOutOnce, Settled,
              UnderReview
<1>2. ASSUME NEW k \in Requests, Continue(k), UNCHANGED disturbed
      PROVE  SInv'
  <2>1. disturbed' = 0 => Sound'
    BY <1>2, ChargeSound, SaveOrderPaymentSound, ActivateSound, RefundSound,
       SaveStatusSound, SupersedeSound, InsertSound, DeliveredSound,
       AcceptedSound, AcceptDeliverySound, RejectSound, UnreviewedSound,
       ReleasedSound, IncomeSound
       DEF Continue
  <2> QED
    BY <2>1 DEF SInv
<1>3. ASSUME NEW k \in Requests, Throw(k) \/ Fail(k)
      PROVE  SInv'
  <2>1. disturbed' # 0
    BY <1>3, DisturbedAssumption DEF Throw, Fail, Disturb, Bounded
  <2> QED
    BY <2>1 DEF SInv
<1> QED
  BY <1>1, <1>2, <1>3, LoadSound, ElsewhereSound DEF Next

LEMMA SoundAlways == Spec => [](IInv /\ SInv)
<1>1. Init => SInv
  BY InitSInv
<1>2. IInv /\ Bounded /\ SInv /\ [Next]_vars => SInv'
  BY NextSInv
<1> QED
  BY <1>1, <1>2, Invariance, DisturbedBounded, PTL DEF Spec

\* With requests one at a time and nothing failing or bypassed, the income of
\* an order is paid once, for a completed order, and a canceled order has taken
\* nothing from the client's wallet nor by an accepted proof: for any number of
\* requests, deliveries and order amounts in the wallet, and whenever Alipay
\* settles, whose money a cancellation under way may leave taken.
THEOREM MoneyFollows == Spec => []MoneyFollowsStatus
<1>1. SInv => MoneyFollowsStatus
  <2>1. AtRest => Now.at = "idle"
    BY IdleShape DEF Now
  <2> QED
    BY <2>1 DEF SInv, Sound, Money, NoProof, MoneyFollowsStatus, CanceledUncharged, Unpaid
<1> QED
  BY <1>1, SoundAlways, PTL

\* And whenever no request is under way, the delivery that a delivered order
\* points to is the only one under review, and an order that waits for its
\* release points to an accepted one.
THEOREM ReviewsAreCurrent == Spec => []ReviewsCurrent
<1>1. SInv => ReviewsCurrent
  <2> SUFFICES ASSUME SInv, AtRest, disturbed = 0
               PROVE  Settled
    BY DEF ReviewsCurrent, Settled, UnderReview
  <2>1. Now.at = "idle"
    BY IdleShape DEF Now
  <2> QED
    BY <2>1 DEF SInv, Sound, Review, Between
<1> QED
  BY <1>1, SoundAlways, PTL

-----------------------------------------------------------------------------
(* The deal of the parties: Orders implements Escrow.  Besides what Sound   *)
(* says, the order still has the status that the operation under way asked  *)
(* for, and what the wallet was charged is what that operation took.        *)

Stands ==
    /\ Now.at \in {"deliver", "insert", "delivered"} =>
         order.status \in {"IN_PROGRESS", "DELIVERED"}
    /\ Now.at = "rejected" => order.status = "DELIVERED"
    /\ Now.at \in {"startArbitration", "arbitrating"} => order.status = "REJECTED"
    /\ Now.at \in {"resolveArbitration", "resolved"} => order.status = "ARBITRATING"
    /\ Now.at = "release" => order.status = "PENDING_RELEASE"
    /\ Now.at = "payWithBalance" => charged = 0
    /\ Now.at \in InTry => charged = 1
StandsInv == disturbed = 0 => Stands

\* The steps at which Stands asks for something.
Asking == {"deliver", "insert", "delivered", "rejected", "startArbitration",
           "arbitrating", "resolveArbitration", "resolved", "release",
           "payWithBalance"} \cup InTry

LEMMA InitStands ==
  ASSUME Init
  PROVE  StandsInv
<1>1. Now = Idle
  BY Zenon DEF Init, Now, AtRest
<1>2. "idle" \notin Asking
  BY DEF Asking, InTry
<1> QED
  BY <1>1, <1>2, IdleShape DEF StandsInv, Stands, Asking

\* No step ends a disturbance.
LEMMA StillUndisturbed ==
  ASSUME Bounded, [Next]_vars, disturbed' = 0
  PROVE  UNCHANGED disturbed /\ disturbed = 0
<1>1. ~Disturb
  BY DisturbedAssumption DEF Disturb, Bounded
<1> QED
  BY <1>1 DEF Next, Load, Throw, Fail, vars

LEMMA LoadStands ==
  ASSUME IInv, Bounded, SInv, NEW k \in Requests, NEW op \in DOMAIN Required,
         Load(k, op), disturbed' = 0
  PROVE  /\ Stands' /\ Single /\ Single' /\ UNCHANGED disturbed
         /\ Now.at = "idle" /\ Now'.at = op /\ op \in Operators
<1>1. AtRest /\ op \notin Bypasses /\ UNCHANGED disturbed
  BY DisturbedAssumption DEF Load, Disturb, Bounded
<1>2. /\ UNCHANGED <<order, charged>>
      /\ order.status \in Required[op] /\ op \in Operators
  BY Names DEF Load, moneyVars
<1>3. Sound /\ Single' /\ Now' = req'[k]
  BY <1>1, Turn DEF Load
<1>4. Now.at = "idle" /\ Money /\ Single
  BY <1>1, <1>3, IdleShape DEF Now, Sound
<1>5. Now'.at = op
  BY <1>2, <1>3, LoadShape DEF IInv, Moves
<1>6. op \notin InTry \cup {"insert", "delivered", "rejected", "arbitrating",
                            "resolved"}
  BY <1>2 DEF Operators, InTry
<1>7. op = "payWithBalance" => charged = 0
  BY <1>2, <1>4 DEF Required, Money
<1>8. /\ op = "deliver" => order.status \in {"IN_PROGRESS", "DELIVERED"}
      /\ op = "startArbitration" => order.status = "REJECTED"
      /\ op = "resolveArbitration" => order.status = "ARBITRATING"
      /\ op = "release" => order.status = "PENDING_RELEASE"
  BY <1>2 DEF Required, Releasable
<1>9. Stands'
  BY <1>2, <1>5, <1>6, <1>7, <1>8 DEF Stands
<1> QED
  BY <1>1, <1>2, <1>3, <1>4, <1>5, <1>9

LEMMA ElsewhereStands ==
  ASSUME IInv, SInv, StandsInv, Elsewhere, disturbed = 0
  PROVE  /\ Stands' /\ Single' /\ Single /\ Now' = Now
         /\ UNCHANGED <<req, wallet, charged, paidOut>>
<1>1. /\ UNCHANGED <<req, wallet, charged, paidOut>>
      /\ order' = order \/ (order.status \in Unpaid /\ order'.status = "IN_PROGRESS")
  <2>1. UNCHANGED <<req, wallet, charged, paidOut>>
    BY Zenon DEF Elsewhere, CreateOrderPayment, ConfirmPaymentReceived,
           AlipaySettles, GenerateChecklist, UpdateChecklistItem, reviewVars, moneyVars
  <2>2. order' = order \/ (/\ order.status \in Unpaid
                          /\ order' = [order EXCEPT !.status = "IN_PROGRESS"])
    BY Zenon DEF Elsewhere, CreateOrderPayment, ConfirmPaymentReceived,
           AlipaySettles, GenerateChecklist, UpdateChecklistItem, reviewVars, moneyVars
  <2> QED
    BY <2>1, <2>2 DEF IInv, Rows, OrderRow
<1>2. Single /\ Stage /\ Stands
  BY DEF SInv, Sound, StandsInv
<1>3. Now' = Now /\ Single'
  BY <1>1, <1>2 DEF Now, AtRest, Single
<1>4. CASE order' = order
  BY <1>1, <1>2, <1>3, <1>4 DEF Stands
<1>5. CASE order.status \in Unpaid /\ order'.status = "IN_PROGRESS"
  <2>1. Now.at \notin Working
    BY <1>2, <1>5 DEF Stage, Started
  <2> QED
    BY <1>1, <1>2, <1>3, <2>1 DEF Stands, Working
<1> QED
  BY <1>1, <1>2, <1>3, <1>4, <1>5

\* A step that leaves order and charge alone and goes on to a step of the same
\* operation, or one that ends it or goes where nothing is asked.
LEMMA ContinueStands ==
  ASSUME IInv, Bounded, SInv, StandsInv, NEW k \in Requests, Continue(k),
         disturbed' = 0, UNCHANGED disturbed
  PROVE  Stands'
<1>1. Stage /\ Review /\ Now = req[k] /\ Stands
  BY GoesOn DEF StandsInv
<1>2. Finish(k) => Now'.at = "idle"
  BY GoesOn, IdleShape
<1>3. \A step \in Steps \ {"idle"} : Goto(k, step) => Now'.at = step
  BY GoesOn
<1>4. ASSUME Now'.at \notin Asking PROVE Stands'
  BY <1>4 DEF Stands, Asking
<1>5. {"idle", "activateProof", "acceptDelivery", "arbitrate", "income"}
        \cap Asking = {}
  BY DEF Asking, InTry
<1>6. CASE Charge(k)
  <2>1. Now.at = "payWithBalance" /\ charged = 0 /\ "row" \in Steps \ {"idle"}
    BY <1>1, <1>6 DEF Charge, At, Stands, Steps
  <2>2. CASE Finish(k)
    BY <1>2, <1>4, <1>5, <2>2
  <2>3. CASE Goto(k, "row") /\ charged' = charged + 1
    <3>1. Now'.at = "row" /\ charged' = 1
      BY <1>3, <2>1, <2>3
    <3> QED
      BY <3>1 DEF Stands
  <2> QED
    BY <1>6, <2>2, <2>3 DEF Charge
<1>7. CASE SaveOrderPayment(k)
  <2>1. UNCHANGED charged /\ {"activate", "activateProof"} \subseteq Steps \ {"idle"}
    BY <1>7 DEF SaveOrderPayment, Steps
  <2>2. CASE At(k, "row") /\ Goto(k, "activate")
    <3>1. Now'.at = "activate" /\ charged' = 1
      BY <1>1, <1>3, <2>1, <2>2 DEF At, Stands, InTry
    <3> QED
      BY <3>1 DEF Stands
  <2>3. CASE Goto(k, "activateProof")
    BY <1>3, <1>4, <1>5, <2>1, <2>3
  <2> QED
    BY <1>7, <2>2, <2>3 DEF SaveOrderPayment
<1>8. CASE Activate(k) \/ SaveStatus(k) \/ SaveDelivered(k) \/ AcceptDelivery(k)
           \/ SaveArbitrated(k) \/ AddIncome(k)
  <2>1. Finish(k)
    BY <1>8 DEF Activate, LeavesTry, SaveStatus, SaveDelivered, AcceptDelivery,
                SaveArbitrated, AddIncome
  <2> QED
    BY <1>2, <1>4, <1>5, <2>1
<1>9. CASE SupersedeCurrent(k)
  <2>1. "insert" \in Steps \ {"idle"} /\ Now.at = "deliver" /\ UNCHANGED order
        /\ Goto(k, "insert")
    BY <1>1, <1>9 DEF SupersedeCurrent, At, Steps
  <2>2. Now'.at = "insert"
    BY <1>3, <2>1
  <2> QED
    BY <1>1, <2>1, <2>2 DEF Stands, InTry
<1>10. CASE InsertDelivery(k)
  <2>1. Now.at = "insert" /\ UNCHANGED order
    BY <1>1, <1>10 DEF InsertDelivery, At
  <2>2. PICK d \in DeliveryIds :
          req' = [req EXCEPT ![k].at = "delivered",
                             ![k].copy.count = @ + 1, ![k].copy.current = d]
    BY <1>10 DEF InsertDelivery
  <2>3. req[k] # Idle /\ req' = [req EXCEPT ![k] = req'[k]]
    BY <1>1, <2>1, <2>2, IdleShape DEF IInv, Rows
  <2>4. Now' = req'[k]
    BY <2>3, Turn
  <2>5. Now'.at = "delivered"
    BY <2>2, <2>4 DEF IInv, Rows, RequestRow, OrderRow
  <2> QED
    BY <1>1, <2>1, <2>5 DEF Stands, InTry
<1>11. CASE SaveAccepted(k)
  <2>1. "acceptDelivery" \in Steps \ {"idle"} /\ Goto(k, "acceptDelivery")
    BY <1>11 DEF SaveAccepted, Steps
  <2> QED
    BY <1>3, <1>4, <1>5, <2>1
<1>12. CASE RejectDelivery(k)
  <2>1. /\ "rejected" \in Steps \ {"idle"} /\ Now.at = "reject" /\ UNCHANGED order
        /\ Goto(k, "rejected")
    BY <1>1, <1>12 DEF RejectDelivery, At, Steps
  <2>2. Now'.at = "rejected" /\ order.status = "DELIVERED"
    BY <1>1, <1>3, <2>1 DEF Review
  <2> QED
    BY <2>1, <2>2 DEF Stands, InTry
<1>13. CASE SaveRejected(k)
  <2>1. "arbitrate" \in Steps \ {"idle"} /\ (Finish(k) \/ Goto(k, "arbitrate"))
    BY <1>13 DEF SaveRejected, Steps
  <2> QED
    BY <1>2, <1>3, <1>4, <1>5, <2>1
<1>14. CASE SetArbitration(k)
  <2>1. UNCHANGED order /\ {"arbitrating", "resolved"} \subseteq Steps \ {"idle"}
    BY <1>14 DEF SetArbitration, Steps
  <2>2. CASE Finish(k)
    BY <1>2, <1>4, <1>5, <2>2
  <2>3. CASE At(k, "startArbitration") /\ Goto(k, "arbitrating")
    <3>1. Now'.at = "arbitrating" /\ order.status = "REJECTED"
      BY <1>1, <1>3, <2>1, <2>3 DEF At, Stands
    <3> QED
      BY <2>1, <3>1 DEF Stands, InTry
  <2>4. CASE At(k, "resolveArbitration") /\ Goto(k, "resolved")
    <3>1. Now'.at = "resolved" /\ order.status = "ARBITRATING"
      BY <1>1, <1>3, <2>1, <2>4 DEF At, Stands
    <3> QED
      BY <2>1, <3>1 DEF Stands, InTry
  <2> QED
    BY <1>14, <2>2, <2>3, <2>4 DEF SetArbitration
<1>15. CASE SaveReleased(k)
  <2>1. "income" \in Steps \ {"idle"} /\ Goto(k, "income")
    BY <1>15 DEF SaveReleased, Steps
  <2> QED
    BY <1>3, <1>4, <1>5, <2>1
<1> QED
  BY <1>6, <1>7, <1>8, <1>9, <1>10, <1>11, <1>12, <1>13, <1>14, <1>15, RefundSound
     DEF Continue

LEMMA NextStands ==
  ASSUME IInv, Bounded, SInv, StandsInv, [Next]_vars
  PROVE  StandsInv'
<1> SUFFICES ASSUME disturbed' = 0
             PROVE  Stands'
  BY DEF StandsInv
<1>1. UNCHANGED disturbed /\ disturbed = 0
  BY StillUndisturbed
<1>2. CASE UNCHANGED vars
  BY <1>1, <1>2 DEF vars, moneyVars, reviewVars, StandsInv, Stands, Now, AtRest
<1>3. ASSUME NEW k \in Requests, Throw(k) \/ Fail(k)
      PROVE  FALSE
  BY <1>1, <1>3, DisturbedAssumption DEF Throw, Fail, Disturb
<1> QED
  BY <1>1, <1>2, <1>3, LoadStands, ElsewhereStands, ContinueStands DEF Next

-----------------------------------------------------------------------------
\* With one request at a time, where a request stands is where Now stands.
LEMMA UnderwayOf ==
  ASSUME NEW r, NEW S, "idle" \notin S,
         \A j, k \in Requests : r[j] # Idle /\ r[k] # Idle => j = k
  PROVE  (\E k \in Requests : r[k].at \in S) <=>
           (IF \A k \in Requests : r[k] = Idle THEN Idle
            ELSE r[CHOOSE k \in Requests : r[k] # Idle]).at \in S
<1>1. Idle.at \notin S
  BY IdleShape
<1>2. CASE \A k \in Requests : r[k] = Idle
  BY <1>1, <1>2
<1>3. CASE ~\A k \in Requests : r[k] = Idle
  <2>1. PICK k \in Requests : r[k] # Idle
    BY <1>3
  <2>2. (CHOOSE j \in Requests : r[j] # Idle) = k
    BY <2>1
  <2>3. \A j \in Requests : r[j].at \in S => j = k
    BY <1>1, <2>1
  <2> QED
    BY <1>3, <2>1, <2>2, <2>3
<1> QED
  BY <1>2, <1>3

One(b) == IF b THEN 1 ELSE 0

\* The deal in a state without disturbance: what is under way at a step in
\* payWithBalance is a charge, and at "income" an income.
LEMMA DealNow ==
  ASSUME disturbed = 0, Single
  PROVE  /\ DealStatus = order.status
         /\ DealClient = wallet + One(Now.at \in InTry)
         /\ DealEscrow = charged - One(Now.at \in InTry)
         /\ DealOutside <=> starts # {}
         /\ DealOwner = paidOut + One(Now.at = "income")
<1>1. "idle" \notin InTry /\ "idle" \notin {"income"}
  BY DEF InTry
<1>2. \A S : "idle" \notin S =>
        ((\E k \in Requests : req[k].at \in S) <=> Now.at \in S)
  BY UnderwayOf, Zenon DEF Single, Now, AtRest
<1>3. /\ Underway(InTry) = One(Now.at \in InTry)
      /\ Underway({"income"}) = One(Now.at = "income")
  BY <1>1, <1>2 DEF Underway, One
<1> QED
  BY <1>3, Zenon DEF DealStatus, DealClient, DealEscrow, DealOutside, DealOwner,
                     Shown

\* The same in the next state.
LEMMA DealNext ==
  ASSUME disturbed' = 0, Single'
  PROVE  /\ DealStatus' = order'.status
         /\ DealClient' = wallet' + One(Now'.at \in InTry)
         /\ DealEscrow' = charged' - One(Now'.at \in InTry)
         /\ DealOutside' <=> starts' # {}
         /\ DealOwner' = paidOut' + One(Now'.at = "income")
<1>1. "idle" \notin InTry /\ "idle" \notin {"income"}
  BY DEF InTry
<1>2. \A S : "idle" \notin S =>
        ((\E k \in Requests : req'[k].at \in S) <=> Now'.at \in S)
  BY UnderwayOf, Zenon DEF Single, Now, AtRest
<1>3. /\ Underway(InTry)' = One(Now'.at \in InTry)
      /\ Underway({"income"})' = One(Now'.at = "income")
  BY <1>1, <1>2 DEF Underway, One
<1> QED
  BY <1>3, Zenon DEF DealStatus, DealClient, DealEscrow, DealOutside, DealOwner,
                     Shown

LEMMA InitDeal == Init => Agreed!Init
<1> SUFFICES ASSUME Init PROVE Agreed!Init
  OBVIOUS
<1>1. disturbed = 0 /\ starts = {} /\ charged = 0 /\ paidOut = 0 /\ wallet = Wallet
  BY Zenon DEF Init
<1>2. order.status = "PENDING_PAYMENT"
  <2>1. order = NewOrder
    BY Zenon DEF Init
  <2> QED
    BY <2>1, IdleShape
<1>3. Single /\ Now = Idle
  BY Zenon DEF Init, Now, AtRest, Single
<1>4. Now.at = "idle" /\ "idle" \notin InTry
  BY <1>3, IdleShape DEF InTry
<1>5. One(Now.at \in InTry) = 0 /\ One(Now.at = "income") = 0
  BY <1>4 DEF One
<1>6. /\ DealStatus = "PENDING_PAYMENT"
      /\ DealClient = Wallet /\ DealEscrow = 0 /\ DealOwner = 0
  BY <1>1, <1>2, <1>3, <1>5, DealNow, WalletAssumption
<1>7. DealOutside = FALSE
  BY <1>1, Zenon DEF DealOutside, Shown
<1> QED
  BY <1>6, <1>7, Zenon DEF Agreed!Init

\* A disturbance makes the deal void.
LEMMA DealVoid ==
  ASSUME disturbed' # 0
  PROVE  Agreed!Void
BY Zenon DEF Agreed!Void, DealStatus, DealClient, DealEscrow, DealOutside,
             DealOwner, Shown

\* What a step shows of the deal: the rows it writes, corrected by what is
\* still under way, ...
Balanced(steps, next) ==
    /\ wallet' + One(next \in InTry) = wallet + One(steps \in InTry)
    /\ charged' - One(next \in InTry) = charged - One(steps \in InTry)
    /\ paidOut' + One(next = "income") = paidOut + One(steps = "income")

\* ... and a step that keeps that balance.
LEMMA DealMoves ==
  ASSUME disturbed = 0, disturbed' = 0, Single, Single', Balanced(Now.at, Now'.at)
  PROVE  /\ DealStatus = order.status /\ DealStatus' = order'.status
         /\ UNCHANGED <<DealClient, DealEscrow, DealOwner>>
         /\ starts' = starts => UNCHANGED DealOutside
<1>1. /\ DealStatus = order.status /\ DealStatus' = order'.status
      /\ UNCHANGED <<DealClient, DealEscrow, DealOwner>>
  BY DealNow, DealNext DEF Balanced
<1>2. ASSUME starts' = starts PROVE UNCHANGED DealOutside
  BY <1>2, Zenon DEF DealOutside, Shown
<1> QED
  BY <1>1, <1>2

\* A step that pays from outside.
LEMMA DealPaid ==
  ASSUME disturbed = 0, disturbed' = 0, Single, Single', Balanced(Now.at, Now'.at),
         starts' # {}, order \in OrderRow,
         \/ order'.status = order.status
         \/ order.status \in Unpaid \cup {"IN_PROGRESS"} /\ order'.status = "IN_PROGRESS"
  PROVE  Agreed!PayOutside
<1>1. /\ DealStatus = order.status /\ DealStatus' = order'.status
      /\ UNCHANGED <<DealClient, DealEscrow, DealOwner>>
  BY DealMoves
<1>2. DealOutside' = TRUE
  BY Zenon DEF DealOutside, Shown
<1>3. order.status # "VOID"
  BY DEF OrderRow, OrderStatuses
<1> QED
  BY <1>1, <1>2, <1>3 DEF Agreed!PayOutside, Unpaid

LEMMA DealLoad ==
  ASSUME IInv, Bounded, SInv, NEW k \in Requests, NEW op \in DOMAIN Required,
         Load(k, op), disturbed' = 0, disturbed = 0
  PROVE  UNCHANGED Agreed!vars
<1>1. /\ Single /\ Single' /\ Now.at = "idle" /\ Now'.at \in Operators
      /\ UNCHANGED <<order, wallet, charged, starts, paidOut>>
  BY LoadStands DEF Load, moneyVars
<1>2. Balanced(Now.at, Now'.at)
  BY <1>1 DEF Balanced, One, InTry, Operators
<1> QED
  BY <1>1, <1>2, DealMoves DEF Agreed!vars

LEMMA DealElsewhere ==
  ASSUME IInv, SInv, StandsInv, Elsewhere, disturbed = 0, disturbed' = 0
  PROVE  [Agreed!Next]_(Agreed!vars)
<1>1. /\ Single /\ Single' /\ Now' = Now
      /\ UNCHANGED <<wallet, charged, paidOut>>
  BY ElsewhereStands
<1>2. Balanced(Now.at, Now'.at)
  BY <1>1 DEF Balanced
<1>3. CASE UNCHANGED <<order, starts>>
  BY <1>1, <1>2, <1>3, DealMoves DEF Agreed!vars
<1>4. CASE AlipaySettles
  <2>1. starts' # {} /\ order \in OrderRow
    BY <1>4 DEF AlipaySettles, IInv, Rows
  <2>2. \/ order' = order
        \/ order.status \in Unpaid /\ order'.status = "IN_PROGRESS"
    BY <1>4, <2>1 DEF AlipaySettles, OrderRow
  <2>3. Agreed!PayOutside
    BY <1>1, <1>2, <2>1, <2>2, DealPaid
  <2> QED
    BY <2>3 DEF Agreed!Next
<1> QED
  BY <1>3, <1>4, Zenon
     DEF Elsewhere, CreateOrderPayment, ConfirmPaymentReceived,
         GenerateChecklist, UpdateChecklistItem, moneyVars

\* What an undisturbed step of an operation knows.
LEMMA DealGoesOn ==
  ASSUME IInv, Bounded, SInv, StandsInv, NEW k \in Requests, Continue(k),
         disturbed = 0, disturbed' = 0
  PROVE  /\ Stage /\ Money /\ Review /\ Stands /\ Single /\ Single'
         /\ Now = req[k] /\ paidOut = 0 /\ wallet \in Nat /\ charged \in Nat
         /\ \A step \in Steps \ {"idle"} : Goto(k, step) => Now'.at = step
         /\ Finish(k) => Now'.at = "idle"
         /\ \A s \in OrderStatuses : Save(k, s) => order'.status = s
         /\ order \in OrderRow
<1>1. /\ Stage /\ Money /\ Review /\ Single' /\ Now = req[k] /\ paidOut = 0
      /\ \A step \in Steps \ {"idle"} : Goto(k, step) => Now'.at = step
      /\ Finish(k) => Now'.at = "idle"
  BY GoesOn, IdleShape
<1>2. \A s \in OrderStatuses : Save(k, s) => order'.status = s
  BY <1>1, SaveNow
<1> QED
  BY <1>1, <1>2 DEF SInv, Sound, StandsInv, IInv, Rows, Amounts

LEMMA DealPayment ==
  ASSUME IInv, Bounded, SInv, StandsInv, NEW k \in Requests,
         Charge(k) \/ SaveOrderPayment(k) \/ Activate(k),
         disturbed = 0, disturbed' = 0
  PROVE  [Agreed!Next]_(Agreed!vars)
<1>1. Continue(k)
  BY DEF Continue
<1>2. /\ Stage /\ Money /\ Stands /\ Single /\ Single' /\ Now = req[k]
      /\ wallet \in Nat /\ charged \in Nat /\ paidOut = 0 /\ order \in OrderRow
      /\ \A step \in Steps \ {"idle"} : Goto(k, step) => Now'.at = step
      /\ Finish(k) => Now'.at = "idle"
      /\ \A s \in OrderStatuses : Save(k, s) => order'.status = s
  BY <1>1, DealGoesOn
<1>3. {"row", "activate", "activateProof"} \subseteq Steps \ {"idle"}
      /\ "IN_PROGRESS" \in OrderStatuses
  BY DEF Steps, OrderStatuses
<1>4. ASSUME Balanced(Now.at, Now'.at), UNCHANGED <<order, starts>>
      PROVE  UNCHANGED Agreed!vars
  BY <1>2, <1>4, DealMoves DEF Agreed!vars
<1>5. CASE Charge(k)
  <2>1. Now.at = "payWithBalance" /\ UNCHANGED <<order, starts, paidOut>>
    BY <1>2, <1>5 DEF Charge, At
  <2>2. CASE Goto(k, "row") /\ wallet' = wallet - 1 /\ charged' = charged + 1
    <3>1. Now'.at = "row"
      BY <1>2, <1>3, <2>2
    <3>2. Balanced(Now.at, Now'.at)
      BY <1>2, <2>1, <2>2, <3>1 DEF Balanced, One, InTry
    <3> QED
      BY <1>4, <2>1, <3>2
  <2>3. CASE Finish(k) /\ UNCHANGED <<wallet, charged>>
    <3>1. Balanced(Now.at, Now'.at)
      BY <1>2, <2>1, <2>3 DEF Balanced, One, InTry
    <3> QED
      BY <1>4, <2>1, <3>1
  <2> QED
    BY <1>5, <2>2, <2>3 DEF Charge
<1>6. CASE SaveOrderPayment(k)
  <2>1. UNCHANGED <<order, wallet, charged, paidOut>>
    BY <1>6 DEF SaveOrderPayment
  <2>2. CASE At(k, "row") /\ Goto(k, "activate") /\ UNCHANGED starts
    <3>1. Now.at = "row" /\ Now'.at = "activate"
      BY <1>2, <1>3, <2>2 DEF At
    <3>2. Balanced(Now.at, Now'.at)
      BY <2>1, <3>1 DEF Balanced, One, InTry
    <3> QED
      BY <1>4, <2>1, <2>2, <3>2
  <2>3. CASE /\ At(k, "confirmPayment") /\ Goto(k, "activateProof")
             /\ starts' = starts \cup {"proof"}
    <3>1. Now.at = "confirmPayment" /\ Now'.at = "activateProof" /\ starts' # {}
      BY <1>2, <1>3, <2>3 DEF At
    <3>2. Balanced(Now.at, Now'.at)
      BY <2>1, <3>1 DEF Balanced, One, InTry
    <3>3. Agreed!PayOutside
      BY <1>2, <2>1, <3>1, <3>2, DealPaid
    <3> QED
      BY <3>3 DEF Agreed!Next
  <2> QED
    BY <1>6, <2>2, <2>3 DEF SaveOrderPayment
<1>7. CASE Activate(k)
  <2>1. /\ UNCHANGED <<wallet, charged, starts, paidOut>>
        /\ Now'.at = "idle" /\ order'.status = "IN_PROGRESS"
        /\ Now.at \in {"activate", "activateProof"}
    BY <1>2, <1>3, <1>7 DEF Activate, LeavesTry, moneyVars, At
  <2>2. order.status \in Unpaid \cup {"IN_PROGRESS"}
    BY <1>2, <2>1 DEF Stage, Intake, FromBalance
  <2>3. CASE Now.at = "activate"
    <3>1. /\ One(Now.at \in InTry) = 1 /\ One(Now'.at \in InTry) = 0
          /\ One(Now.at = "income") = 0 /\ One(Now'.at = "income") = 0
          /\ charged = 1
          /\ order.status \in {"PENDING_PAYMENT", "IN_PROGRESS"}
      BY <1>2, <2>1, <2>2, <2>3 DEF One, InTry, Stands, Stage, FromBalance, Unpaid
    <3>2. /\ DealStatus = order.status /\ DealStatus' = "IN_PROGRESS"
          /\ DealClient = wallet + 1 /\ DealClient' = wallet
          /\ DealEscrow = 0 /\ DealEscrow' = 1 /\ UNCHANGED DealOwner
      BY <1>2, <2>1, <3>1, DealNow, DealNext
    <3>3. UNCHANGED DealOutside
      BY <2>1, Zenon DEF DealOutside, Shown
    <3>4. Agreed!Fund
      BY <1>2, <3>1, <3>2, <3>3 DEF Agreed!Fund
    <3> QED
      BY <3>4 DEF Agreed!Next
  <2>4. CASE Now.at = "activateProof"
    <3>1. starts' # {}
      BY <1>2, <2>1, <2>4 DEF IInv, Loaded
    <3>2. Balanced(Now.at, Now'.at)
      BY <2>1, <2>4 DEF Balanced, One, InTry
    <3>3. Agreed!PayOutside
      BY <1>2, <2>1, <2>2, <3>1, <3>2, DealPaid
    <3> QED
      BY <3>3 DEF Agreed!Next
  <2> QED
    BY <2>1, <2>3, <2>4
<1> QED
  BY <1>5, <1>6, <1>7

\* A cancellation finds no charge, and an order that is running although it
\* loaded it as unpaid was paid from outside meanwhile.
LEMMA DealCancel ==
  ASSUME IInv, Bounded, SInv, StandsInv, NEW k \in Requests, SaveStatus(k),
         disturbed = 0, disturbed' = 0
  PROVE  Agreed!Cancel
<1>1. Continue(k)
  BY DEF Continue
<1>2. /\ Stage /\ Money /\ Single /\ Single' /\ Now = req[k]
      /\ Finish(k) => Now'.at = "idle"
      /\ \A s \in OrderStatuses : Save(k, s) => order'.status = s
  BY <1>1, DealGoesOn
<1>3. Now.at = "cancel"
  BY <1>2, Names DEF SaveStatus, Stage, Bypasses
<1>4. /\ order'.status = "CANCELED" /\ Now'.at = "idle"
      /\ UNCHANGED <<wallet, charged, starts, paidOut>>
  <2>1. Target["cancel"] = "CANCELED" /\ "CANCELED" \in OrderStatuses
    BY DEF Target, OrderStatuses
  <2> QED
    BY <1>2, <1>3, <2>1 DEF SaveStatus
<1>5. charged = 0 /\ order.status \in Unpaid \cup {"IN_PROGRESS"}
  BY <1>2, <1>3 DEF Money, Stage, Intake
<1>6. order.status = "IN_PROGRESS" => starts # {}
  BY <1>5, HoldersFinite DEF IInv, Funded, Unpaid
<1>7. Balanced(Now.at, Now'.at)
  BY <1>3, <1>4 DEF Balanced, One, InTry
<1>8. /\ DealStatus = order.status /\ DealStatus' = "CANCELED"
      /\ UNCHANGED <<DealClient, DealEscrow, DealOutside, DealOwner>>
  BY <1>2, <1>4, <1>7, DealMoves
<1>9. DealEscrow = 0
  <2>1. One(Now.at \in InTry) = 0
    BY <1>3 DEF One, InTry
  <2> QED
    BY <1>2, <1>5, <2>1, DealNow
<1>10. order.status = "IN_PROGRESS" => DealOutside
  BY <1>2, <1>6, DealNow
<1> QED
  BY <1>5, <1>8, <1>9, <1>10 DEF Agreed!Cancel, Agreed!Goes, Unpaid

\* The steps of an operation on a started order that move no money.
LEMMA DealWork ==
  ASSUME IInv, Bounded, SInv, StandsInv, NEW k \in Requests, Continue(k),
         disturbed = 0, disturbed' = 0, UNCHANGED moneyVars,
         req[k].at \in Working \ {"income"},
         Now'.at \in (Working \ {"income"}) \cup {"idle"}
  PROVE  /\ DealStatus = order.status /\ DealStatus' = order'.status
         /\ UNCHANGED <<DealClient, DealEscrow, DealOutside, DealOwner>>
         /\ UNCHANGED order => UNCHANGED Agreed!vars
<1>1. Single /\ Single' /\ Now = req[k]
  BY DealGoesOn
<1>2. Balanced(Now.at, Now'.at)
  BY <1>1 DEF Balanced, One, InTry, Working, moneyVars
<1>3. /\ DealStatus = order.status /\ DealStatus' = order'.status
      /\ UNCHANGED <<DealClient, DealEscrow, DealOutside, DealOwner>>
  BY <1>1, <1>2, DealMoves DEF moneyVars
<1> QED
  BY <1>3 DEF Agreed!vars

\* Deliveries and their decision, arbitration, release and payout: the order
\* still has the status the operation asked for.
LEMMA DealReview ==
  ASSUME IInv, Bounded, SInv, StandsInv, NEW k \in Requests,
         \/ SupersedeCurrent(k) \/ InsertDelivery(k) \/ SaveDelivered(k)
         \/ SaveAccepted(k) \/ AcceptDelivery(k) \/ RejectDelivery(k)
         \/ SaveRejected(k) \/ SetArbitration(k) \/ SaveArbitrated(k),
         disturbed = 0, disturbed' = 0
  PROVE  [Agreed!Next]_(Agreed!vars)
<1>1. Continue(k)
  BY DEF Continue
<1>2. /\ Review /\ Stands /\ Now = req[k]
      /\ \A step \in Steps \ {"idle"} : Goto(k, step) => Now'.at = step
      /\ Finish(k) => Now'.at = "idle"
      /\ \A s \in OrderStatuses : Save(k, s) => order'.status = s
  BY <1>1, DealGoesOn
<1>3. {"insert", "delivered", "acceptDelivery", "rejected", "arbitrate",
       "arbitrating", "resolved"} \subseteq Steps \ {"idle"}
  BY DEF Steps
<1>4. UNCHANGED moneyVars /\ req[k].at \in Working \ {"income"}
  BY DEF SupersedeCurrent, InsertDelivery, SaveDelivered, SaveAccepted,
         AcceptDelivery, RejectDelivery, SaveRejected, SetArbitration,
         SaveArbitrated, At, Working
<1>5. Now'.at \in (Working \ {"income"}) \cup {"idle"}
  <2>1. CASE InsertDelivery(k)
    <3>1. Now.at = "insert"
      BY <1>2, <2>1 DEF InsertDelivery, At
    <3>2. PICK d \in DeliveryIds :
            req' = [req EXCEPT ![k].at = "delivered",
                               ![k].copy.count = @ + 1, ![k].copy.current = d]
      BY <2>1 DEF InsertDelivery
    <3>3. req[k] # Idle /\ req' = [req EXCEPT ![k] = req'[k]]
      BY <1>2, <3>1, <3>2, IdleShape DEF IInv, Rows
    <3>4. Now' = req'[k]
      BY <3>3, Turn
    <3>5. Now'.at = "delivered"
      BY <3>2, <3>4 DEF IInv, Rows, RequestRow, OrderRow
    <3> QED
      BY <3>5 DEF Working
  <2>2. CASE ~InsertDelivery(k)
    <3>1. \/ Finish(k)
          \/ \E step \in {"insert", "delivered", "acceptDelivery", "rejected",
                          "arbitrate", "arbitrating", "resolved"} : Goto(k, step)
      BY <2>2 DEF SupersedeCurrent, SaveDelivered, SaveAccepted, AcceptDelivery,
                  RejectDelivery, SaveRejected, SetArbitration, SaveArbitrated
    <3> QED
      BY <1>2, <1>3, <3>1 DEF Working
  <2> QED
    BY <2>1, <2>2
<1>6. /\ DealStatus = order.status /\ DealStatus' = order'.status
      /\ UNCHANGED <<DealClient, DealEscrow, DealOutside, DealOwner>>
      /\ UNCHANGED order => UNCHANGED Agreed!vars
  BY <1>1, <1>4, <1>5, DealWork
<1>7. ASSUME NEW from, order.status \in from,
             NEW to \in OrderStatuses, Save(k, to)
      PROVE  Agreed!Goes(from, to)
  BY <1>2, <1>6, <1>7 DEF Agreed!Goes
<1>8. {"DELIVERED", "PENDING_RELEASE", "IN_PROGRESS", "REJECTED", "ARBITRATING",
       "REFUNDED", "COMPLETED"} \subseteq OrderStatuses
  BY DEF OrderStatuses
<1>9. CASE SupersedeCurrent(k) \/ InsertDelivery(k) \/ AcceptDelivery(k)
           \/ RejectDelivery(k) \/ SetArbitration(k)
  BY <1>6, <1>9 DEF SupersedeCurrent, InsertDelivery, AcceptDelivery,
                    RejectDelivery, SetArbitration
<1>10. CASE SaveDelivered(k)
  <2>1. order.status \in {"IN_PROGRESS", "DELIVERED"} /\ Save(k, "DELIVERED")
    BY <1>2, <1>10 DEF SaveDelivered, At, Stands
  <2>2. Agreed!Review
    BY <1>7, <1>8, <2>1 DEF Agreed!Review
  <2> QED
    BY <2>2 DEF Agreed!Next
<1>11. CASE SaveAccepted(k)
  <2>1. order.status = "DELIVERED" /\ Save(k, "PENDING_RELEASE")
    BY <1>2, <1>11 DEF SaveAccepted, At, Review
  <2>2. Agreed!Review
    BY <1>7, <1>8, <2>1 DEF Agreed!Review
  <2> QED
    BY <2>2 DEF Agreed!Next
<1>12. CASE SaveRejected(k)
  <2>1. /\ order.status = "DELIVERED"
        /\ Save(k, "IN_PROGRESS") \/ Save(k, "REJECTED")
    BY <1>2, <1>12 DEF SaveRejected, At, Stands
  <2>2. Agreed!Review
    BY <1>7, <1>8, <2>1 DEF Agreed!Review
  <2> QED
    BY <2>2 DEF Agreed!Next
<1>13. CASE SaveArbitrated(k)
  <2>1. \/ order.status = "REJECTED" /\ Save(k, "ARBITRATING")
        \/ /\ order.status = "ARBITRATING"
           /\ Save(k, "REFUNDED") \/ Save(k, "COMPLETED")
    BY <1>2, <1>13 DEF SaveArbitrated, At, Stands
  <2>2. Agreed!Arbitrate
    BY <1>7, <1>8, <2>1 DEF Agreed!Arbitrate
  <2> QED
    BY <2>2 DEF Agreed!Next
<1> QED
  BY <1>9, <1>10, <1>11, <1>12, <1>13

LEMMA DealRelease ==
  ASSUME IInv, Bounded, SInv, StandsInv, NEW k \in Requests,
         SaveReleased(k) \/ AddIncome(k), disturbed = 0, disturbed' = 0
  PROVE  [Agreed!Next]_(Agreed!vars)
<1>1. Continue(k)
  BY DEF Continue
<1>2. /\ Stands /\ Single /\ Single' /\ Now = req[k] /\ paidOut = 0
      /\ wallet \in Nat /\ charged \in Nat
      /\ \A step \in Steps \ {"idle"} : Goto(k, step) => Now'.at = step
      /\ Finish(k) => Now'.at = "idle"
      /\ \A s \in OrderStatuses : Save(k, s) => order'.status = s
  BY <1>1, DealGoesOn
<1>3. CASE SaveReleased(k)
  <2>1. /\ Now.at = "release" /\ Now'.at = "income"
        /\ order'.status = "COMPLETED" /\ UNCHANGED moneyVars
    <3>1. "income" \in Steps \ {"idle"} /\ "COMPLETED" \in OrderStatuses
      BY DEF Steps, OrderStatuses
    <3> QED
      BY <1>2, <1>3, <3>1 DEF SaveReleased, At
  <2>2. /\ One(Now.at \in InTry) = 0 /\ One(Now'.at \in InTry) = 0
        /\ One(Now.at = "income") = 0 /\ One(Now'.at = "income") = 1
        /\ order.status = "PENDING_RELEASE"
    BY <1>2, <2>1 DEF One, InTry, Stands
  <2>3. /\ DealStatus = "PENDING_RELEASE" /\ DealStatus' = "COMPLETED"
        /\ UNCHANGED <<DealClient, DealEscrow>>
        /\ DealOwner = 0 /\ DealOwner' = 1
    BY <1>2, <2>1, <2>2, DealNow, DealNext DEF moneyVars
  <2>4. UNCHANGED DealOutside
    BY <2>1, Zenon DEF DealOutside, Shown, moneyVars
  <2>5. Agreed!Release
    BY <2>3, <2>4 DEF Agreed!Release
  <2> QED
    BY <2>5 DEF Agreed!Next
<1>4. CASE AddIncome(k)
  <2>1. /\ Now.at = "income" /\ Now'.at = "idle" /\ paidOut' = 1
        /\ UNCHANGED <<order, wallet, charged, starts>>
    BY <1>2, <1>4 DEF AddIncome, At
  <2>2. Balanced(Now.at, Now'.at)
    BY <1>2, <2>1 DEF Balanced, One, InTry
  <2> QED
    BY <1>2, <2>1, <2>2, DealMoves DEF Agreed!vars
<1> QED
  BY <1>3, <1>4

LEMMA EscrowRefined ==
  ASSUME IInv, Bounded, SInv, StandsInv, [Next]_vars
  PROVE  [Agreed!Next]_(Agreed!vars)
<1>1. CASE disturbed' # 0
  BY <1>1, DealVoid DEF Agreed!Next
<1>2. CASE disturbed' = 0
  <2>1. UNCHANGED disturbed /\ disturbed = 0
    BY <1>2, StillUndisturbed
  <2>2. CASE UNCHANGED vars
    BY <2>2, Zenon DEF vars, moneyVars, Agreed!vars, DealStatus, DealClient,
                       DealEscrow, DealOutside, DealOwner, Shown, Underway
  <2>3. ASSUME NEW k \in Requests, Throw(k) \/ Fail(k)
        PROVE  FALSE
    BY <2>1, <2>3, DisturbedAssumption DEF Throw, Fail, Disturb
  <2>4. ASSUME NEW k \in Requests, Continue(k)
        PROVE  [Agreed!Next]_(Agreed!vars)
    <3>1. ~Refund(k)
      BY <1>2, <2>1, RefundSound
    <3>2. SaveStatus(k) => Agreed!Next
      BY <1>2, <2>1, DealCancel DEF Agreed!Next
    <3> QED
      BY <1>2, <2>1, <2>4, <3>1, <3>2, DealPayment, DealReview, DealRelease
         DEF Continue
  <2> QED
    BY <1>2, <2>1, <2>2, <2>3, <2>4, DealLoad, DealElsewhere DEF Next
<1> QED
  BY <1>1, <1>2

\* Orders implements Escrow, for any number of requests, deliveries and order
\* amounts, whenever Alipay settles and whatever is disturbed.
THEOREM ImplementsEscrow == Spec => HonoursEscrow
<1>1. IInv /\ Bounded /\ SInv /\ StandsInv /\ [Next]_vars => StandsInv'
  BY NextStands
<1>2. Init => StandsInv
  BY InitStands
<1>3. IInv /\ Bounded /\ SInv /\ StandsInv /\ [Next]_vars
        => [Agreed!Next]_(Agreed!vars)
  BY EscrowRefined
<1> QED
  BY <1>1, <1>2, <1>3, InitDeal, SoundAlways, DisturbedBounded, PTL
     DEF Spec, HonoursEscrow, Agreed!Spec

-----------------------------------------------------------------------------
(* The task that the order comes from, with its bids: Bidding, for any      *)
(* number of requests, bids and prices.                                     *)

BidRequest == [at : BidSteps, id : Bids \cup {NoBid}, bid : BidRow,
               list : SUBSET [id : Bids, bid : BidRow]]
TaskOrder == [bid : Bids, price : Prices]

Ordered(list, b, row) ==
    \E i \in DOMAIN list : list[i] = [bid |-> b, price |-> row.price]

BidShape ==
    /\ bids \in [Bids -> BidRow]
    /\ orders \in Seq(TaskOrder)
    /\ bidReq \in [Processes -> BidRequest]

\* What a request may rely on however long it waits.
BidHolds(list, r) ==
    /\ r.at \in {"save bid", "order", "select", "accept"} => r.id \in Bids
    /\ r.at = "close" => r.id = NoBid
    /\ r.at \in {"select", "accept"} => Ordered(list, r.id, r.bid)
    /\ r.at \in {"insert", "save bid"} => r.bid.status \in {"submitted", "withdrawn"}

BidInv == BidShape /\ AcceptedIsOrdered /\ \A p \in Processes : BidHolds(orders, bidReq[p])

LEMMA IdleIsRequest == IdleBid \in BidRequest /\ NoRow \in BidRow
<1>1. MaxNow + 1 \in Times
  BY BoundAssumption DEF Times
<1>2. (CHOOSE price \in Prices : TRUE) \in Prices
  BY PricesAssumption
<1>3. NoRow \in BidRow
  BY <1>1, <1>2 DEF NoRow, BidRow, BidStatuses
<1> QED
  BY <1>3 DEF IdleBid, BidRequest, BidSteps

LEMMA BidMoves ==
  ASSUME NEW r \in BidRequest, NEW step \in BidSteps
  PROVE  LET v == [r EXCEPT !.at = step]
         IN  /\ v \in BidRequest
             /\ v.at = step /\ v.id = r.id /\ v.bid = r.bid /\ v.list = r.list
BY DEF BidRequest

LEMMA BidInit == BiddingInit => BidInv
<1> SUFFICES ASSUME BiddingInit PROVE BidInv
  OBVIOUS
<1>1. BidShape
  BY IdleIsRequest DEF BiddingInit, BidShape
<1>2. IdleBid.at = "idle" /\ NoRow.status = "none"
  BY DEF IdleBid, NoRow
<1> QED
  BY <1>1, <1>2 DEF BiddingInit, BidInv, AcceptedIsOrdered, BidHolds

\* A step of p that changes at most its own request, ...
LEMMA BidRequestStep ==
  ASSUME BidInv, NEW p \in Processes, NEW v \in BidRequest, BidHolds(orders', v),
         bidReq' = [bidReq EXCEPT ![p] = v], UNCHANGED <<bids, orders>>
  PROVE  BidInv'
BY DEF BidInv, BidShape, AcceptedIsOrdered, BidHolds, Ordered

\* ... one that saves a bid, ...
LEMMA BidSaveStep ==
  ASSUME BidInv, NEW p \in Processes, NEW v \in BidRequest, BidHolds(orders', v),
         bidReq' = [bidReq EXCEPT ![p] = v], UNCHANGED orders,
         NEW b \in Bids, NEW row \in BidRow, bids' = [bids EXCEPT ![b] = row],
         row.status = "accepted" => Ordered(orders, b, row)
  PROVE  BidInv'
BY DEF BidInv, BidShape, AcceptedIsOrdered, BidHolds, Ordered

LEMMA BidBegins ==
  ASSUME BidInv, NEW p \in Processes, NEW v \in BidRequest, BidHolds(orders, v), Begin(p, v)
  PROVE  BidInv'
<1>1. BidHolds(orders', v)
  BY DEF Begin, rows, BidHolds, Ordered
<1> QED
  BY <1>1, BidRequestStep DEF Begin, rows

LEMMA BidUpdates ==
  ASSUME NEW row \in BidRow
  PROVE  /\ \A s \in BidStatuses :
              /\ [row EXCEPT !.status = s] \in BidRow
              /\ [row EXCEPT !.status = s].status = s
              /\ [row EXCEPT !.status = s].price = row.price
         /\ \A price \in Prices, t \in Times :
              [row EXCEPT !.price = price, !.expires = t] \in BidRow
BY DEF BidRow

LEMMA BidStarts ==
  ASSUME BidInv, NEW p \in Processes, Start(p)
  PROVE  BidInv'
<1>0. bids \in [Bids -> BidRow] /\ IdleBid \in BidRequest /\ NoRow \in BidRow
  BY IdleIsRequest DEF BidInv, BidShape
<1>1. ASSUME NEW price \in Prices, NEW t \in Times, StartCreate(p, price, t)
      PROVE  BidInv'
  <2> DEFINE v == [IdleBid EXCEPT !.at = "insert",
                             !.bid = [status |-> "submitted", price |-> price,
                                      expires |-> t]]
  <2>1. v \in BidRequest
    BY <1>0 DEF BidRequest, BidRow, BidSteps, BidStatuses, IdleBid
  <2>2. BidHolds(orders, v)
    BY DEF BidHolds, IdleBid
  <2> QED BY <1>1, <2>1, <2>2, BidBegins DEF StartCreate
<1>2. ASSUME NEW b \in Bids, NEW row \in BidRow, row.status \in {"submitted", "withdrawn"},
             StartBidSave(p, b, row)
      PROVE  BidInv'
  <2> DEFINE v == [IdleBid EXCEPT !.at = "save bid", !.id = b, !.bid = row]
  <2>1. v \in BidRequest
    BY <1>0 DEF BidRequest, BidSteps, IdleBid
  <2>2. BidHolds(orders, v)
    BY <1>2 DEF BidHolds, IdleBid
  <2> QED BY <1>2, <2>1, <2>2, BidBegins DEF StartBidSave
<1>3. ASSUME NEW b \in Bids, NEW price \in Prices, NEW t \in Times,
             StartResubmit(p, b, price, t) \/ StartUpdate(p, b, price, t)
      PROVE  BidInv'
  <2>1. [status |-> "submitted", price |-> price, expires |-> t] \in BidRow
    BY DEF BidRow, BidStatuses
  <2>2. [bids[b] EXCEPT !.price = price, !.expires = t] \in BidRow
    BY <1>0, BidUpdates
  <2>3. [bids[b] EXCEPT !.price = price, !.expires = t].status = bids[b].status
    BY <1>0 DEF BidRow
  <2> QED BY <1>2, <1>3, <2>1, <2>2, <2>3 DEF StartResubmit, StartUpdate
<1>4. ASSUME NEW b \in Bids, StartWithdraw(p, b) PROVE BidInv'
  <2>1. /\ [bids[b] EXCEPT !.status = "withdrawn"] \in BidRow
        /\ [bids[b] EXCEPT !.status = "withdrawn"].status = "withdrawn"
    BY <1>0, BidUpdates DEF BidStatuses
  <2> QED BY <1>2, <1>4, <2>1 DEF StartWithdraw
<1>5. ASSUME NEW b \in Bids, StartSelect(p, b) PROVE BidInv'
  <2> DEFINE v == [IdleBid EXCEPT !.at = "order", !.id = b, !.bid = bids[b]]
  <2>1. v \in BidRequest
    BY <1>0 DEF BidRequest, BidSteps, IdleBid
  <2>2. BidHolds(orders, v)
    BY DEF BidHolds, IdleBid
  <2> QED BY <1>5, <2>1, <2>2, BidBegins DEF StartSelect
<1>6. ASSUME NEW step \in {"save task", "close"}, StartTaskSave(p, step) PROVE BidInv'
  <2> DEFINE v == [IdleBid EXCEPT !.at = step]
  <2>1. v \in BidRequest
    BY <1>0 DEF BidRequest, BidSteps, IdleBid
  <2>2. BidHolds(orders, v)
    BY DEF BidHolds, IdleBid
  <2> QED BY <1>6, <2>1, <2>2, BidBegins DEF StartTaskSave
<1> QED
  BY <1>1, <1>3, <1>4, <1>5, <1>6 DEF Start

LEMMA BidScanStarts ==
  ASSUME BidInv, StartScan
  PROVE  BidInv'
<1> DEFINE v == [IdleBid EXCEPT !.at = "scan",
        !.list = {[id |-> b, bid |-> bids[b]] :
                    b \in {c \in Bids : Expired(bids[c])}}]
<1>1. v \in BidRequest
  <2>1. \A b \in Bids : [id |-> b, bid |-> bids[b]] \in [id : Bids, bid : BidRow]
    BY DEF BidInv, BidShape
  <2>2. v.list \in SUBSET [id : Bids, bid : BidRow]
    BY <2>1 DEF IdleBid
  <2> QED
    BY <2>2, IdleIsRequest DEF BidRequest, BidSteps, IdleBid
<1>2. BidHolds(orders, v)
  BY DEF BidHolds, IdleBid
<1>3. Scanner \in Processes
  BY DEF Processes
<1> QED BY <1>1, <1>2, <1>3, BidBegins DEF StartScan

LEMMA BidFinishes ==
  ASSUME BidInv, NEW p \in Processes, FinishBid(p), UNCHANGED <<bids, orders>>
  PROVE  BidInv'
BY IdleIsRequest, BidRequestStep DEF FinishBid, BidHolds, IdleBid

LEMMA BidContinues ==
  ASSUME BidInv, NEW p \in Processes, ContinueBid(p)
  PROVE  BidInv'
<1>0. /\ bids \in [Bids -> BidRow] /\ orders \in Seq(TaskOrder)
      /\ bidReq[p] \in BidRequest /\ BidHolds(orders, bidReq[p]) /\ IdleBid \in BidRequest
      /\ bidReq \in [Processes -> BidRequest]
  BY IdleIsRequest DEF BidInv, BidShape
<1>1. ASSUME NEW step \in BidSteps \ {"insert", "save bid", "order", "select", "accept", "close"},
             GotoBid(p, step)
      PROVE  LET v == [bidReq[p] EXCEPT !.at = step]
             IN  v \in BidRequest /\ BidHolds(orders', v) /\ bidReq' = [bidReq EXCEPT ![p] = v]
  <2> DEFINE v == [bidReq[p] EXCEPT !.at = step]
  <2>1. v \in BidRequest /\ v.at = step
    BY <1>0 DEF BidRequest
  <2>2. BidHolds(orders', v)
    BY <2>1 DEF BidHolds
  <2> QED BY <1>0, <1>1, <2>1, <2>2 DEF GotoBid
<1>2. BidHolds(orders', IdleBid)
  BY DEF BidHolds, IdleBid
<1>3. CASE InsertBid(p)
  <2>1. PICK b \in Bids : bids' = [bids EXCEPT ![b] = bidReq[p].bid]
    BY <1>3 DEF InsertBid, Unused
  <2>2. bidReq[p].bid \in BidRow /\ bidReq[p].bid.status # "accepted"
    BY <1>0, <1>3 DEF InsertBid, BidAt, BidHolds, BidRequest
  <2> QED BY <1>0, <1>2, <1>3, <2>1, <2>2, BidSaveStep DEF InsertBid, FinishBid
<1>4. CASE SaveBid(p)
  <2>1. bidReq[p].bid \in BidRow /\ bidReq[p].bid.status # "accepted" /\ bidReq[p].id \in Bids
    BY <1>0, <1>4 DEF SaveBid, BidAt, BidHolds, BidRequest
  <2> QED BY <1>0, <1>2, <1>4, <2>1, BidSaveStep DEF SaveBid, FinishBid
<1>5. CASE ExpireBid(p)
  <2>1. PICK e \in bidReq[p].list :
         /\ bids' = [bids EXCEPT ![e.id] = [e.bid EXCEPT !.status = "expired"]]
         /\ bidReq' = [bidReq EXCEPT ![p].list = @ \ {e}]
    BY <1>5 DEF ExpireBid
  <2> DEFINE v == [bidReq[p] EXCEPT !.list = @ \ {e}]
             row == [e.bid EXCEPT !.status = "expired"]
  <2>2. e.id \in Bids /\ e.bid \in BidRow
    BY <1>0 DEF BidRequest
  <2>3. row \in BidRow /\ row.status = "expired"
    BY <2>2, BidUpdates DEF BidStatuses
  <2>4. v \in BidRequest /\ bidReq' = [bidReq EXCEPT ![p] = v] /\ v.at = "scan"
    BY <1>0, <1>5, <2>1 DEF BidRequest, ExpireBid, BidAt
  <2>5. BidHolds(orders', v)
    BY <2>4 DEF BidHolds
  <2>6. UNCHANGED orders /\ bids' = [bids EXCEPT ![e.id] = row]
    BY <1>5, <2>1 DEF ExpireBid
  <2> HIDE DEF v, row
  <2> QED BY <2>2, <2>3, <2>4, <2>5, <2>6, BidSaveStep
<1>6. CASE EndScan(p) \/ SaveTask(p)
  BY <1>6, BidFinishes DEF EndScan, SaveTask, rows
<1>7. CASE CloseTask(p)
  BY <1>0, <1>1, <1>7, BidRequestStep DEF CloseTask, BidSteps
<1>8. CASE InsertOrder(p)
  <2> DEFINE o == [bid |-> bidReq[p].id, price |-> bidReq[p].bid.price]
             v == [bidReq[p] EXCEPT !.at = "select"]
  <2>1. bidReq[p].id \in Bids /\ bidReq[p].bid \in BidRow /\ bidReq[p].at = "order"
    BY <1>0, <1>8 DEF InsertOrder, BidAt, BidHolds, BidRequest
  <2>2. o \in TaskOrder
    BY <2>1 DEF TaskOrder, BidRow
  <2>3. orders' = Append(orders, o) /\ UNCHANGED bids /\ bidReq' = [bidReq EXCEPT ![p] = v]
    BY <1>0, <1>8 DEF InsertOrder, GotoBid
  <2>4. orders' \in Seq(TaskOrder) /\ Len(orders') = Len(orders) + 1
        /\ orders'[Len(orders) + 1] = o /\ \A i \in 1..Len(orders) : orders'[i] = orders[i]
    BY <1>0, <2>2, <2>3
  <2>5. \A b, row : Ordered(orders, b, row) => Ordered(orders', b, row)
    BY <1>0, <2>4 DEF Ordered
  <2>6. Ordered(orders', bidReq[p].id, bidReq[p].bid)
    <3>1. \E i \in DOMAIN orders' : orders'[i] = o
      <4>1. Len(orders) \in Nat /\ Len(orders) + 1 \in DOMAIN orders'
        BY <1>0, <2>4
      <4> QED BY <2>4, <4>1
    <3> QED BY <3>1 DEF Ordered
  <2>7. v \in BidRequest /\ v.at = "select" /\ v.id = bidReq[p].id /\ v.bid = bidReq[p].bid
    BY <1>0 DEF BidRequest, BidSteps
  <2>8. \A q \in Processes \ {p} : bidReq'[q] = bidReq[q]
    BY <1>0, <2>3
  <2>9. ASSUME NEW q \in Processes PROVE BidHolds(orders', bidReq'[q])
    <3>1. CASE q = p
      <4>1. bidReq'[q] = v
        BY <1>0, <2>3, <3>1
      <4> HIDE DEF v
      <4> QED BY <2>1, <2>6, <2>7, <4>1 DEF BidHolds
    <3>2. CASE q # p
      BY <2>5, <2>8, <3>2 DEF BidInv, BidHolds
    <3> QED BY <3>1, <3>2
  <2> HIDE DEF v
  <2>10. BidShape'
    BY <1>0, <2>3, <2>4, <2>7 DEF BidShape
  <2>11. AcceptedIsOrdered'
    <3>1. \A b \in Bids : bids[b].status = "accepted" => Ordered(orders, b, bids[b])
      BY DEF BidInv, AcceptedIsOrdered, Ordered
    <3> QED BY <2>3, <2>5, <3>1 DEF AcceptedIsOrdered, Ordered
  <2> QED BY <2>9, <2>10, <2>11 DEF BidInv
<1>9. CASE SelectTask(p)
  <2> DEFINE v == [bidReq[p] EXCEPT !.at = "accept"]
  <2>1. v \in BidRequest /\ v.at = "accept" /\ v.id = bidReq[p].id /\ v.bid = bidReq[p].bid
    BY <1>0 DEF BidRequest, BidSteps
  <2>2. bidReq[p].at = "select" /\ UNCHANGED <<bids, orders>>
    BY <1>9 DEF SelectTask, BidAt
  <2>3. BidHolds(orders', v)
    BY <1>0, <2>1, <2>2 DEF BidHolds, Ordered
  <2>4. bidReq' = [bidReq EXCEPT ![p] = v]
    BY <1>0, <1>9 DEF SelectTask, GotoBid
  <2> HIDE DEF v
  <2> QED BY <2>1, <2>2, <2>3, <2>4, BidRequestStep
<1>10. CASE AcceptBid(p)
  <2> DEFINE row == Accepted(p)
             v == [bidReq[p] EXCEPT !.at = "reject"]
  <2>1. bidReq[p].at = "accept" /\ bidReq[p].id \in Bids /\ bidReq[p].bid \in BidRow
        /\ Ordered(orders, bidReq[p].id, bidReq[p].bid)
    BY <1>0, <1>10 DEF AcceptBid, BidAt, BidHolds, BidRequest
  <2>2. row \in BidRow /\ row.price = bidReq[p].bid.price
    BY <2>1, BidUpdates DEF BidStatuses, Accepted
  <2>3. Ordered(orders, bidReq[p].id, row)
    BY <2>1, <2>2 DEF Ordered
  <2>4. v \in BidRequest /\ v.at = "reject" /\ bidReq' = [bidReq EXCEPT ![p] = v]
    BY <1>0, <1>10 DEF BidRequest, BidSteps, AcceptBid, GotoBid
  <2>5. BidHolds(orders', v)
    BY <2>4 DEF BidHolds
  <2>6. UNCHANGED orders /\ bids' = [bids EXCEPT ![bidReq[p].id] = row]
    BY <1>10 DEF AcceptBid
  <2> HIDE DEF v, row
  <2> QED BY <2>1, <2>2, <2>3, <2>4, <2>5, <2>6, BidSaveStep
<1>11. CASE RejectBids(p)
  <2>1. /\ bids' = [b \in Bids |-> IF b \in Losers(p)
                               THEN [bids[b] EXCEPT !.status = "rejected"]
                               ELSE bids[b]]
        /\ UNCHANGED orders /\ bidReq' = [bidReq EXCEPT ![p] = IdleBid]
    BY <1>11 DEF RejectBids, FinishBid
  <2>2. \A b \in Bids : /\ [bids[b] EXCEPT !.status = "rejected"] \in BidRow
                        /\ [bids[b] EXCEPT !.status = "rejected"].status = "rejected"
    BY <1>0, BidUpdates DEF BidStatuses
  <2>3. bids' \in [Bids -> BidRow]
        /\ \A b \in Bids : bids'[b].status = "rejected" \/ bids'[b] = bids[b]
    BY <1>0, <2>1, <2>2
  <2>4. AcceptedIsOrdered'
    BY <2>1, <2>3 DEF BidInv, AcceptedIsOrdered
  <2>5. BidShape'
    BY <1>0, <2>1, <2>3 DEF BidShape
  <2>6. \A q \in Processes : BidHolds(orders', bidReq'[q])
    BY <1>0, <1>2, <2>1 DEF BidInv
  <2> QED
    BY <2>4, <2>5, <2>6 DEF BidInv
<1> QED
  BY <1>3, <1>4, <1>5, <1>6, <1>7, <1>8, <1>9, <1>10, <1>11 DEF ContinueBid

LEMMA BidNext == BidInv /\ [BiddingNext]_biddingVars => BidInv'
<1> SUFFICES ASSUME BidInv, [BiddingNext]_biddingVars PROVE BidInv'
  OBVIOUS
<1>1. CASE Tick \/ UNCHANGED biddingVars
  <2>1. bids' = bids /\ orders' = orders /\ bidReq' = bidReq
    BY <1>1 DEF Tick, biddingVars
  <2>2. BidShape' /\ (\A p \in Processes : BidHolds(orders, bidReq[p]))'
    BY <2>1 DEF BidInv, BidShape, BidHolds, Ordered
  <2>3. AcceptedIsOrdered'
    BY <2>1 DEF BidInv, AcceptedIsOrdered
  <2> QED BY <2>2, <2>3 DEF BidInv
<1>2. ASSUME NEW p \in Processes, Stop(p) PROVE BidInv'
  BY <1>2, BidFinishes DEF Stop, rows
<1> QED
  BY <1>1, <1>2, BidScanStarts, BidStarts, BidContinues DEF BiddingNext

\* What BiddingTypeOK says besides BidShape.
BidScalars ==
    /\ task \in TaskStatuses
    /\ now \in 0..MaxNow
    /\ bidDisturbed \in 0..MaxBidDisturbed

LEMMA BidDisturbedBounded ==
  ASSUME BidScalars, UNCHANGED bidDisturbed \/ DisturbBid
  PROVE  bidDisturbed' \in 0..MaxBidDisturbed
BY BoundAssumption DEF BidScalars, DisturbBid

LEMMA BeginKeepsScalars ==
  ASSUME BidScalars, NEW p, NEW v, Begin(p, v)
  PROVE  BidScalars'
BY BidDisturbedBounded DEF Begin, rows, BidScalars

LEMMA ScalarsStep == BidScalars /\ [BiddingNext]_biddingVars => BidScalars'
<1> SUFFICES ASSUME BidScalars, [BiddingNext]_biddingVars PROVE BidScalars'
  OBVIOUS
<1>1. CASE UNCHANGED biddingVars
  BY <1>1 DEF biddingVars, BidScalars
<1>2. CASE Tick
  BY <1>2, BoundAssumption DEF Tick, BidScalars
<1>3. CASE StartScan
  BY <1>3, BeginKeepsScalars DEF StartScan
<1>4. ASSUME NEW p \in Processes, Start(p) PROVE BidScalars'
  BY <1>4, BeginKeepsScalars DEF Start, StartCreate, StartResubmit, StartUpdate,
     StartWithdraw, StartBidSave, StartSelect, StartTaskSave
<1>5. ASSUME NEW p \in Processes, ContinueBid(p) PROVE BidScalars'
  <2>1. UNCHANGED <<now, bidDisturbed>>
    BY <1>5 DEF ContinueBid, InsertBid, SaveBid, ExpireBid, EndScan, SaveTask,
       CloseTask, InsertOrder, SelectTask, AcceptBid, RejectBids, rows
  <2>2. task' \in {task, "OPEN", "CLOSED"}
    BY <1>5 DEF ContinueBid, InsertBid, SaveBid, ExpireBid, EndScan, SaveTask,
       CloseTask, InsertOrder, SelectTask, AcceptBid, RejectBids, rows
  <2> QED
    BY <2>1, <2>2 DEF BidScalars, TaskStatuses
<1>6. ASSUME NEW p \in Processes, Stop(p) PROVE BidScalars'
  BY <1>6, BidDisturbedBounded DEF Stop, rows, BidScalars
<1> QED
  BY <1>1, <1>2, <1>3, <1>4, <1>5, <1>6 DEF BiddingNext

\* Task, bids, orders and operations keep their shape for any number of
\* requests, bids and prices: no interleaving saves a copy that is no row.
THEOREM BiddingTypeCorrect == BiddingSpec => []BiddingTypeOK
<1>1. BiddingInit => BidScalars
  BY BoundAssumption DEF BiddingInit, BidScalars, TaskStatuses
<1>2. BidInv /\ BidScalars => BiddingTypeOK
  BY DEF BidInv, BidShape, BidScalars, BiddingTypeOK, BidRequest, TaskOrder
<1> QED BY <1>1, <1>2, BidInit, BidNext, ScalarsStep, PTL DEF BiddingSpec

\* An accepted bid has an order with its price, in every interleaving of
\* selections, bids, scans and stops (selectBid): the copy that will be saved as
\* accepted is the one the order was inserted with.
THEOREM AcceptedHasOrder == BiddingSpec => []AcceptedIsOrdered
<1>1. BidInv => AcceptedIsOrdered
  BY DEF BidInv
<1> QED BY <1>1, BidInit, BidNext, PTL DEF BiddingSpec

-----------------------------------------------------------------------------
BidAlone(p) == \A q \in Processes \ {p} : Free(q)

BidsThatAre(bs, status) == {b \in Bids : bs[b].status = status}
BidsOrdered(os) == {os[i].bid : i \in DOMAIN os}

BidEarly == {"insert", "save bid", "save task", "close", "order"}

\* The task, its bids and its orders, where the only request stands at r.
SelectionSound(t, bs, os, r) ==
    /\ t \in TaskStatuses
    /\ os = <<>> \/ Len(os) = 1
    /\ r.at \in BidEarly => t = "OPEN" /\ os = <<>>
    /\ r.at = "select" => t = "OPEN" /\ os # <<>>
    /\ r.at = "accept" => t = "CLOSED" /\ os # <<>>
    /\ r.at = "reject" => t = "CLOSED" /\ r.id \notin BidsThatAre(bs, "submitted")
    /\ r.at \in {"select", "accept"} =>
         BidsThatAre(bs, "accepted") = {} /\ BidsOrdered(os) = {r.id}
    /\ r.at \notin {"select", "accept"} => BidsThatAre(bs, "accepted") = BidsOrdered(os)
    /\ r.at # "select" /\ os # <<>> => t = "CLOSED"
    /\ r.at \notin {"accept", "reject"} /\ t = "CLOSED" => BidsThatAre(bs, "submitted") = {}
    /\ r.at = "scan" =>
         /\ \A e \in r.list : e.id \in BidsThatAre(bs, "submitted")
         /\ \A e, f \in r.list : e.id = f.id => e = f

SelectionInv ==
    /\ bidDisturbed \in Nat
    /\ bidDisturbed = 0 =>
         /\ \E p \in Processes : BidAlone(p)
         /\ \A p \in Processes : BidAlone(p) => SelectionSound(task, bids, orders, bidReq[p])

LEMMA NoneOrdered == BidsOrdered(<<>>) = {}
BY DEF BidsOrdered

LEMMA SelectionInit == BiddingInit => SelectionInv
<1> SUFFICES ASSUME BiddingInit PROVE SelectionInv
  OBVIOUS
<1>1. \A p \in Processes : BidAlone(p)
  BY DEF BiddingInit, BidAlone, Free
<1>2. Scanner \in Processes
  BY DEF Processes
<1>3. BidsThatAre(bids, "accepted") = {} /\ BidsThatAre(bids, "submitted") = {}
  BY DEF BiddingInit, BidsThatAre, NoRow
<1>4. ASSUME NEW p \in Processes PROVE SelectionSound(task, bids, orders, bidReq[p])
  <2>1. task = "OPEN" /\ orders = <<>> /\ bidReq[p].at = "idle"
    BY DEF BiddingInit, IdleBid
  <2> QED
    BY <1>3, <2>1, NoneOrdered DEF SelectionSound, BidEarly, TaskStatuses
<1> QED
  BY <1>1, <1>2, <1>4 DEF BiddingInit, SelectionInv

\* A step of the only request p leaves SInv if it leaves p sound.
LEMMA SelectionTurn ==
  ASSUME BidInv, SelectionInv, NEW p \in Processes, bidDisturbed' \in Nat,
         NEW v, bidReq' = [bidReq EXCEPT ![p] = v],
         bidDisturbed' = 0 => BidAlone(p) /\ SelectionSound(task', bids', orders', v)
  PROVE  SelectionInv'
<1>1. bidReq \in [Processes -> BidRequest]
  BY DEF BidInv, BidShape
<1>2. CASE bidDisturbed' = 0
  <2>1. /\ BidAlone(p)' /\ SelectionSound(task', bids', orders', bidReq'[p])
    BY <1>1, <1>2 DEF BidAlone, Free
  <2>2. ASSUME NEW q \in Processes, BidAlone(q)'
        PROVE  SelectionSound(task', bids', orders', bidReq'[q])
    <3>1. CASE q # p
      <4>1. bidReq'[p] = IdleBid /\ bidReq'[q] = IdleBid
        BY <2>1, <2>2, <3>1 DEF BidAlone, Free
      <4> QED BY <2>1, <4>1
    <3> QED BY <2>1, <3>1
  <2> QED BY <2>1, <2>2 DEF SelectionInv
<1>3. CASE bidDisturbed' # 0
  BY <1>3 DEF SelectionInv
<1> QED BY <1>2, <1>3

LEMMA SelectionBegun ==
  ASSUME BidInv, SelectionInv, NEW p \in Processes, NEW v, Begin(p, v),
         SelectionSound(task, bids, orders, IdleBid) => SelectionSound(task, bids, orders, v)
  PROVE  SelectionInv'
<1>1. /\ bidReq' = [bidReq EXCEPT ![p] = v] /\ bidDisturbed' \in Nat
      /\ UNCHANGED <<task, bids, orders>>
  BY DEF Begin, rows, DisturbBid, SelectionInv
<1>2. ASSUME bidDisturbed' = 0
      PROVE  BidAlone(p) /\ SelectionSound(task, bids, orders, v)
  <2>1. bidDisturbed = 0 /\ Quiet
    BY <1>2 DEF Begin, DisturbBid, SelectionInv
  <2>2. BidAlone(p) /\ bidReq[p] = IdleBid
    BY <2>1 DEF Quiet, BidAlone, Free
  <2> QED BY <2>1, <2>2 DEF SelectionInv
<1> QED BY <1>1, <1>2, SelectionTurn

LEMMA SelectionStarts ==
  ASSUME BidInv, SelectionInv, NEW p \in Processes, Start(p)
  PROVE  SelectionInv'
<1>0. /\ bids \in [Bids -> BidRow]
      /\ IdleBid.at = "idle"
  BY DEF BidInv, BidShape, IdleBid
<1>1. ASSUME NEW v, Begin(p, v), v.at \in BidEarly, 
             task = "OPEN" \/ BidsThatAre(bids, "submitted") # {}
      PROVE  SelectionInv'
  <2>1. SelectionSound(task, bids, orders, IdleBid) => SelectionSound(task, bids, orders, v)
    BY <1>0, <1>1 DEF SelectionSound, BidEarly, TaskStatuses
  <2> QED BY <1>1, <2>1, SelectionBegun
<1>2. ASSUME NEW price \in Prices, NEW t \in Times, StartCreate(p, price, t)
      PROVE  SelectionInv'
  BY <1>1, <1>2 DEF StartCreate, IdleBid, BidEarly
<1>3. ASSUME NEW b \in Bids, NEW row,
             StartBidSave(p, b, row), task = "OPEN" \/ bids[b].status = "submitted"
      PROVE  SelectionInv'
  BY <1>1, <1>3 DEF StartBidSave, IdleBid, BidEarly, BidsThatAre
<1>4. ASSUME NEW b \in Bids, NEW price \in Prices, NEW t \in Times,
             StartResubmit(p, b, price, t) \/ StartUpdate(p, b, price, t)
      PROVE  SelectionInv'
  BY <1>3, <1>4 DEF StartResubmit, StartUpdate
<1>5. ASSUME NEW b \in Bids, StartWithdraw(p, b) \/ StartSelect(p, b) PROVE SelectionInv'
  BY <1>1, <1>3, <1>5 DEF StartWithdraw, StartSelect, IdleBid, BidEarly
<1>6. ASSUME NEW step \in {"save task", "close"}, StartTaskSave(p, step)
      PROVE SelectionInv'
  BY <1>1, <1>6 DEF StartTaskSave, IdleBid, BidEarly
<1> QED
  BY <1>2, <1>4, <1>5, <1>6 DEF Start

LEMMA SelectionScan ==
  ASSUME BidInv, SelectionInv, StartScan
  PROVE  SelectionInv'
<1> DEFINE list == {[id |-> b, bid |-> bids[b]] :
                    b \in {c \in Bids : Expired(bids[c])}}
           v == [IdleBid EXCEPT !.at = "scan", !.list = list]
<1>1. v.at = "scan" /\ v.list = list /\ IdleBid.at = "idle"
  BY DEF IdleBid
<1>2. \A e \in list : e.id \in BidsThatAre(bids, "submitted")
  BY DEF BidsThatAre, Expired
<1>3. \A e, f \in list : e.id = f.id => e = f
  OBVIOUS
<1>4. Scanner \in Processes /\ Begin(Scanner, v)
  BY DEF Processes, StartScan
<1> HIDE DEF v, list
<1>5. SelectionSound(task, bids, orders, IdleBid) => SelectionSound(task, bids, orders, v)
  BY <1>1, <1>2, <1>3 DEF SelectionSound, BidEarly
<1> QED BY <1>4, <1>5, SelectionBegun

\* A request that is under way is alone while nothing disturbs.
LEMMA SelectionAlone ==
  ASSUME BidInv, SelectionInv, NEW p \in Processes, bidReq[p].at # "idle", bidDisturbed = 0
  PROVE  BidAlone(p) /\ SelectionSound(task, bids, orders, bidReq[p])
<1>1. PICK q \in Processes : BidAlone(q)
  BY DEF SelectionInv
<1>2. q = p
  BY <1>1 DEF BidAlone, Free, IdleBid
<1> QED BY <1>1, <1>2 DEF SelectionInv

LEMMA SelectionWorks ==
  ASSUME BidInv, SelectionInv, NEW p \in Processes, bidReq[p].at # "idle", UNCHANGED bidDisturbed,
         NEW v, bidReq' = [bidReq EXCEPT ![p] = v],
         SelectionSound(task, bids, orders, bidReq[p]) => SelectionSound(task', bids', orders', v)
  PROVE  SelectionInv'
<1>1. bidDisturbed' \in Nat
  BY DEF SelectionInv
<1>2. bidDisturbed' = 0 => BidAlone(p) /\ SelectionSound(task', bids', orders', v)
  BY SelectionAlone
<1> QED BY <1>1, <1>2, SelectionTurn

LEMMA SelectionContinues ==
  ASSUME BidInv, SelectionInv, NEW p \in Processes, ContinueBid(p)
  PROVE  SelectionInv'
<1> DEFINE S == SelectionSound(task, bids, orders, bidReq[p])
<1>0. /\ bids \in [Bids -> BidRow] /\ orders \in Seq(TaskOrder)
      /\ bidReq[p] \in BidRequest /\ BidHolds(orders, bidReq[p])
      /\ bidReq \in [Processes -> BidRequest] /\ IdleBid.at = "idle"
  BY DEF BidInv, BidShape, IdleBid
<1>1. CASE InsertBid(p) \/ SaveBid(p)
  <2>1. /\ bidReq[p].at \in {"insert", "save bid"}
        /\ UNCHANGED <<task, orders, bidDisturbed>> /\ bidReq' = [bidReq EXCEPT ![p] = IdleBid]
    BY <1>1 DEF InsertBid, SaveBid, BidAt, FinishBid
  <2>2. PICK b \in Bids : bids' = [bids EXCEPT ![b] = bidReq[p].bid]
    BY <1>0, <1>1 DEF InsertBid, SaveBid, BidAt, Unused, BidHolds
  <2>3. bidReq[p].bid.status # "accepted"
    BY <1>0, <2>1 DEF BidHolds
  <2>4. ASSUME S PROVE SelectionSound(task, bids', orders, IdleBid)
    <3>1. task = "OPEN" /\ orders = <<>> /\ BidsThatAre(bids, "accepted") = {}
      BY <2>1, <2>4, NoneOrdered DEF SelectionSound, BidEarly
    <3>2. BidsThatAre(bids', "accepted") = {}
      BY <1>0, <2>2, <2>3, <3>1 DEF BidsThatAre
    <3> QED BY <1>0, <2>4, <3>1, <3>2, NoneOrdered DEF SelectionSound, BidEarly
  <2> HIDE DEF S
  <2> QED BY <2>1, <2>4, SelectionWorks DEF S
<1>2. CASE ExpireBid(p)
  <2>1. PICK e \in bidReq[p].list :
         /\ bids' = [bids EXCEPT ![e.id] = [e.bid EXCEPT !.status = "expired"]]
         /\ bidReq' = [bidReq EXCEPT ![p].list = @ \ {e}]
    BY <1>2 DEF ExpireBid
  <2> DEFINE v == [bidReq[p] EXCEPT !.list = @ \ {e}]
             row == [e.bid EXCEPT !.status = "expired"]
  <2>2. /\ bidReq[p].at = "scan" /\ UNCHANGED <<task, orders, bidDisturbed>>
        /\ bidReq' = [bidReq EXCEPT ![p] = v]
        /\ v.at = "scan" /\ v.list = bidReq[p].list \ {e} /\ v.id = bidReq[p].id
    BY <1>0, <1>2, <2>1 DEF ExpireBid, BidAt, BidRequest
  <2>3. e.id \in Bids /\ e.bid \in BidRow
    BY <1>0 DEF BidRequest
  <2>4. row.status = "expired" /\ bids' = [bids EXCEPT ![e.id] = row]
    BY <2>1, <2>3, BidUpdates DEF BidStatuses
  <2> HIDE DEF v, row
  <2>5. ASSUME S PROVE SelectionSound(task, bids', orders, v)
    <3>1. /\ \A f \in bidReq[p].list : f.id \in BidsThatAre(bids, "submitted")
          /\ \A f, g \in bidReq[p].list : f.id = g.id => f = g
      BY <2>2, <2>5 DEF SelectionSound
    <3>2. /\ BidsThatAre(bids', "accepted") = BidsThatAre(bids, "accepted")
          /\ BidsThatAre(bids', "submitted") = BidsThatAre(bids, "submitted") \ {e.id}
      BY <1>0, <2>3, <2>4, <3>1 DEF BidsThatAre
    <3>3. /\ \A f \in v.list : f.id \in BidsThatAre(bids', "submitted")
          /\ \A f, g \in v.list : f.id = g.id => f = g
      BY <2>2, <3>1, <3>2
    <3> QED BY <2>2, <2>5, <3>2, <3>3 DEF SelectionSound, BidEarly
  <2> HIDE DEF S
  <2> QED BY <2>2, <2>5, SelectionWorks DEF S
<1>3. CASE EndScan(p) \/ SaveTask(p)
  <2>1. /\ bidReq[p].at \in {"scan", "save task"} /\ UNCHANGED <<bids, orders, bidDisturbed>>
        /\ bidReq' = [bidReq EXCEPT ![p] = IdleBid]
        /\ task' = task \/ (bidReq[p].at = "save task" /\ task' = "OPEN")
    BY <1>3 DEF EndScan, SaveTask, BidAt, FinishBid, rows
  <2>2. S => SelectionSound(task', bids, orders, IdleBid)
    BY <1>0, <2>1 DEF SelectionSound, BidEarly
  <2> HIDE DEF S
  <2> QED BY <2>1, <2>2, SelectionWorks DEF S
<1>4. CASE CloseTask(p)
  <2> DEFINE v == [bidReq[p] EXCEPT !.at = "reject"]
  <2>1. /\ bidReq[p].at = "close" /\ UNCHANGED <<bids, orders, bidDisturbed>>
        /\ task' = "CLOSED" /\ bidReq' = [bidReq EXCEPT ![p] = v]
        /\ v.at = "reject" /\ v.id = bidReq[p].id
    BY <1>0, <1>4, BidMoves DEF CloseTask, BidAt, GotoBid, BidSteps
  <2>2. v.id \notin Bids
    BY <1>0, <2>1, BidsAssumption DEF BidHolds
  <2> HIDE DEF v
  <2>3. S => SelectionSound(task', bids, orders, v)
    BY <2>1, <2>2 DEF SelectionSound, BidEarly, TaskStatuses, BidsThatAre
  <2> HIDE DEF S
  <2> QED BY <2>1, <2>3, SelectionWorks DEF S
<1>5. CASE InsertOrder(p)
  <2> DEFINE o == [bid |-> bidReq[p].id, price |-> bidReq[p].bid.price]
             v == [bidReq[p] EXCEPT !.at = "select"]
  <2>1. /\ bidReq[p].at = "order" /\ UNCHANGED <<task, bids, bidDisturbed>>
        /\ orders' = Append(orders, o) /\ bidReq' = [bidReq EXCEPT ![p] = v]
        /\ v.at = "select" /\ v.id = bidReq[p].id
    BY <1>0, <1>5, BidMoves DEF InsertOrder, BidAt, GotoBid, BidSteps
  <2>2. o.bid = bidReq[p].id
    OBVIOUS
  <2> HIDE DEF v, o
  <2>3. ASSUME S PROVE SelectionSound(task, bids, orders', v)
    <3>1. task = "OPEN" /\ orders = <<>> /\ BidsThatAre(bids, "accepted") = {}
      BY <2>1, <2>3, NoneOrdered DEF SelectionSound, BidEarly
    <3>2. orders' = <<o>>
      BY <2>1, <3>1
    <3>3. Len(orders') = 1 /\ orders' # <<>> /\ BidsOrdered(orders') = {o.bid}
      BY <3>2 DEF BidsOrdered
    <3> QED BY <2>1, <2>2, <3>1, <3>3 DEF SelectionSound, BidEarly, TaskStatuses
  <2> HIDE DEF S
  <2> QED BY <2>1, <2>3, SelectionWorks DEF S
<1>6. CASE SelectTask(p)
  <2> DEFINE v == [bidReq[p] EXCEPT !.at = "accept"]
  <2>1. /\ bidReq[p].at = "select" /\ UNCHANGED <<bids, orders, bidDisturbed>>
        /\ task' = "CLOSED" /\ bidReq' = [bidReq EXCEPT ![p] = v]
        /\ v.at = "accept" /\ v.id = bidReq[p].id
    BY <1>0, <1>6, BidMoves DEF SelectTask, BidAt, GotoBid, BidSteps
  <2> HIDE DEF v
  <2>2. S => SelectionSound(task', bids, orders, v)
    BY <2>1 DEF SelectionSound, BidEarly, TaskStatuses
  <2> HIDE DEF S
  <2> QED BY <2>1, <2>2, SelectionWorks DEF S
<1>7. CASE AcceptBid(p)
  <2> DEFINE v == [bidReq[p] EXCEPT !.at = "reject"]
             row == Accepted(p)
  <2>1. /\ bidReq[p].at = "accept" /\ UNCHANGED <<task, orders, bidDisturbed>>
        /\ bids' = [bids EXCEPT ![bidReq[p].id] = row] /\ bidReq' = [bidReq EXCEPT ![p] = v]
        /\ v.at = "reject" /\ v.id = bidReq[p].id
    BY <1>0, <1>7, BidMoves DEF AcceptBid, BidAt, GotoBid, BidSteps
  <2>2. row.status = "accepted" /\ bidReq[p].id \in Bids
    BY <1>0, <2>1, BidUpdates DEF Accepted, BidStatuses, BidHolds, BidRequest
  <2> HIDE DEF v, row
  <2>3. ASSUME S PROVE SelectionSound(task, bids', orders, v)
    <3>1. /\ BidsThatAre(bids, "accepted") = {} /\ BidsOrdered(orders) = {bidReq[p].id}
          /\ task = "CLOSED" /\ orders # <<>>
      BY <2>1, <2>3 DEF SelectionSound
    <3>2. /\ BidsThatAre(bids', "accepted") = {bidReq[p].id}
          /\ bidReq[p].id \notin BidsThatAre(bids', "submitted")
      BY <1>0, <2>1, <2>2, <3>1 DEF BidsThatAre
    <3> QED BY <2>1, <2>3, <3>1, <3>2 DEF SelectionSound, BidEarly, TaskStatuses
  <2> HIDE DEF S
  <2> QED BY <2>1, <2>3, SelectionWorks DEF S
<1>8. CASE RejectBids(p)
  <2>1. /\ bidReq[p].at = "reject" /\ UNCHANGED <<task, orders, bidDisturbed>>
        /\ bids' = [b \in Bids |-> IF b \in Losers(p)
                               THEN [bids[b] EXCEPT !.status = "rejected"]
                               ELSE bids[b]]
        /\ bidReq' = [bidReq EXCEPT ![p] = IdleBid]
    BY <1>8 DEF RejectBids, BidAt, FinishBid
  <2>2. \A b \in Bids : [bids[b] EXCEPT !.status = "rejected"].status = "rejected"
    BY <1>0, BidUpdates DEF BidStatuses
  <2>3. ASSUME S PROVE SelectionSound(task, bids', orders, IdleBid)
    <3>1. task = "CLOSED" /\ bidReq[p].id \notin BidsThatAre(bids, "submitted")
      BY <2>1, <2>3 DEF SelectionSound
    <3>2. /\ BidsThatAre(bids', "accepted") = BidsThatAre(bids, "accepted")
          /\ BidsThatAre(bids', "submitted") = {}
      BY <2>1, <2>2, <3>1 DEF BidsThatAre, Losers
    <3> QED BY <1>0, <2>1, <2>3, <3>1, <3>2 DEF SelectionSound, BidEarly
  <2> HIDE DEF S
  <2> QED BY <2>1, <2>3, SelectionWorks DEF S
<1> QED
  BY <1>1, <1>2, <1>3, <1>4, <1>5, <1>6, <1>7, <1>8 DEF ContinueBid

LEMMA SelectionStep ==
  BidInv /\ SelectionInv /\ [BiddingNext]_biddingVars => SelectionInv'
<1> SUFFICES ASSUME BidInv, SelectionInv, [BiddingNext]_biddingVars PROVE SelectionInv'
  OBVIOUS
<1>1. CASE Tick \/ UNCHANGED biddingVars
  BY <1>1 DEF Tick, biddingVars, SelectionInv, BidAlone, Free
<1>2. ASSUME NEW p \in Processes, Stop(p) PROVE SelectionInv'
  BY <1>2 DEF Stop, DisturbBid, SelectionInv
<1> QED
  BY <1>1, <1>2, SelectionScan, SelectionStarts, SelectionContinues DEF BiddingNext

\* While requests come one at a time, a task has at most one order, its
\* accepted bid is the one ordered, and no bid of a closed task waits for an
\* answer (selectBid, closeTask), for any number of bids.
THEOREM OneBidSelected == BiddingSpec => []OneSelection
<1>1. BidInv /\ SelectionInv => OneSelection
  <2> SUFFICES ASSUME BidInv, SelectionInv, bidDisturbed = 0 PROVE OneSelection
    BY DEF OneSelection
  <2>1. PICK p \in Processes : BidAlone(p) /\ SelectionSound(task, bids, orders, bidReq[p])
    BY DEF SelectionInv
  <2>2. Len(orders) <= 1
    <3>1. orders = <<>> \/ Len(orders) = 1
      BY <2>1 DEF SelectionSound
    <3>2. Len(<<>>) = 0
      OBVIOUS
    <3> QED BY <3>1, <3>2
  <2>3. CASE Quiet
    <3>1. bidReq[p].at = "idle"
      BY <2>3 DEF Quiet, Free, IdleBid
    <3> QED BY <2>1, <2>2, <3>1 DEF SelectionSound, OneSelection, BidsThatAre, BidsOrdered
  <2> QED BY <2>2, <2>3 DEF OneSelection
<1> QED BY <1>1, BidInit, BidNext, SelectionInit, SelectionStep, PTL DEF BiddingSpec
=============================================================================
