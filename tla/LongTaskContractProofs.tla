----------------------- MODULE LongTaskContractProofs -----------------------
(***************************************************************************)
(* Proofs about LongTaskContract, for any number of requests, changes,     *)
(* failures and overlapping operations.  The inductive invariant asks of   *)
(* every copy an operation holds what it asks of the row itself, so that   *)
(* no order of saves can break the row; and while no operation has begun   *)
(* during another one, the one under way holds the row as it is.           *)
(***************************************************************************)
EXTENDS LongTaskContract, FiniteSetTheorems, TLAPS

\* What SpecBehindContract and DeadlineIffAwaiting say, of any row.
Sound(row) ==
    /\ row.contract # "signing" => row.version >= 1
    /\ row.contract = "awaiting_confirmation" <=> row.due

Request == [at : Steps, copy : OrderRow, change : Changes \cup {NoChange},
            row : ChangeRow]

\* What an operation has checked still holds of its copy.
OpSound(r) ==
    /\ Sound(r.copy)
    /\ r.at \in {"confirm", "timeout"}
         => r.copy.contract = "awaiting_confirmation"
    /\ r.at = "submit" => r.copy.version = 0

\* The steps that save the order from a copy.
Copying == {"submit", "confirm", "reject", "bind", "charge", "pay", "bump",
            "timeout"}
Serial ==
    overlaps = 0 => \A p \in Processes :
      /\ ~Free(p) => \A q \in Processes \ {p} : Free(q)
      /\ req[p].at \in Copying => req[p].copy = order

IInv ==
    /\ TypeOK
    /\ Sound(order)
    /\ \A p \in Processes : OpSound(req[p])
    /\ Serial

-----------------------------------------------------------------------------
LEMMA IdleSound ==
    /\ NewOrder \in OrderRow /\ Sound(NewOrder) /\ NewChange \in ChangeRow
    /\ Idle \in Request /\ OpSound(Idle) /\ Idle.at \notin Copying
    /\ \A step \in Steps :
         /\ [Idle EXCEPT !.at = step] \in Request
         /\ step \notin {"confirm", "timeout", "submit"}
              => OpSound([Idle EXCEPT !.at = step])
<1>1. NewOrder \in OrderRow /\ Sound(NewOrder)
  BY DEF NewOrder, OrderRow, Contracts, Sound
<1>2. NewChange \in ChangeRow
  BY DEF NewChange, ChangeRow, ChangeStatuses
<1>3. Idle \in Request /\ OpSound(Idle) /\ Idle.at \notin Copying
  BY <1>1, <1>2 DEF Idle, Request, OpSound, Copying, Steps
<1> SUFFICES ASSUME NEW step \in Steps
             PROVE  /\ [Idle EXCEPT !.at = step] \in Request
                    /\ step \notin {"confirm", "timeout", "submit"}
                         => OpSound([Idle EXCEPT !.at = step])
  BY <1>1, <1>2, <1>3
<1>4. [Idle EXCEPT !.at = step] \in Request
  BY <1>3 DEF Request
<1>5. ASSUME step \notin {"confirm", "timeout", "submit"}
      PROVE  OpSound([Idle EXCEPT !.at = step])
  BY <1>1, <1>5 DEF Idle, OpSound
<1> QED BY <1>4, <1>5

LEMMA InitIInv == Init => IInv
<1> SUFFICES ASSUME Init PROVE IInv OBVIOUS
<1>1. TypeOK
  <2>1. order \in OrderRow /\ changes \in [Changes -> ChangeRow]
    BY IdleSound DEF Init
  <2>2. req \in [Processes -> Request]
    BY IdleSound DEF Init
  <2>3. escrow \in Int /\ task \in Tasks /\ overlaps \in 0..MaxDisturbed
    BY BoundAssumption DEF Init, Tasks
  <2>4. canceling \in BOOLEAN /\ failed \subseteq Failures
    BY Zenon DEF Init
  <2> QED BY <2>1, <2>2, <2>3, <2>4 DEF TypeOK, Request
<1>2. Sound(order) /\ \A p \in Processes : OpSound(req[p])
  BY IdleSound DEF Init
<1>3. Serial
  BY IdleSound DEF Init, Serial, Free
<1> QED BY <1>1, <1>2, <1>3 DEF IInv

\* The failures, one of a kind, and the overlaps stay within their bound.
LEMMA BoundKept ==
    ASSUME TypeOK, MayDisturb
    PROVE  overlaps + 1 \in 0..MaxDisturbed
<1>1. IsFiniteSet(Failures)
  <2>1. IsFiniteSet({"save"} \cup {"notify"})
    BY FS_Singleton, FS_AddElement
  <2>2. IsFiniteSet(({"save"} \cup {"notify"}) \cup {"stop"})
    BY <2>1, FS_AddElement
  <2>3. Failures = ({"save"} \cup {"notify"}) \cup {"stop"}
    BY DEF Failures
  <2> QED BY <2>2, <2>3
<1>2. IsFiniteSet(failed)
  BY <1>1, FS_Subset DEF TypeOK
<1>3. Cardinality(failed) \in Nat
  BY <1>2, FS_CardinalityType
<1> QED BY <1>3, BoundAssumption DEF TypeOK, MayDisturb

\* An operation begins: it holds the row as it is, if it holds one.
LEMMA BeginKeeps ==
    ASSUME IInv, NEW p \in Processes, NEW v \in Request, Begin(p, v),
           OpSound(v), v.at \in Copying => v.copy = order
    PROVE  IInv'
<1>1. req' = [req EXCEPT ![p] = v] /\ UNCHANGED <<rows, failed>> /\ Free(p)
  BY DEF Begin
<1>2. req' \in [Processes -> Request]
  BY <1>1 DEF IInv, TypeOK, Request
<1>3. overlaps' \in 0..MaxDisturbed
  BY BoundKept DEF Begin, IInv, TypeOK
<1>4. TypeOK'
  BY <1>1, <1>2, <1>3 DEF IInv, TypeOK, rows, Request
<1>5. Sound(order)' /\ \A q \in Processes : OpSound(req[q])'
  BY <1>1 DEF IInv, TypeOK, rows, Sound, OpSound
<1>6. Serial'
  <2> SUFFICES ASSUME overlaps' = 0 PROVE Serial' BY DEF Serial
  <2>1. Quiet
    BY BoundAssumption DEF Begin, IInv, TypeOK
  <2>2. \A q \in Processes \ {p} : req'[q] = Idle
    BY <2>1, <1>1 DEF Quiet, Free, IInv, TypeOK
  <2>3. req'[p] = v
    BY <1>1 DEF IInv, TypeOK
  <2> QED BY <1>1, <2>2, <2>3, IdleSound DEF Serial, Free, rows
<1> QED BY <1>4, <1>5, <1>6 DEF IInv

\* The operation p goes on with v, and may save the order.
LEMMA StepKeeps ==
    ASSUME IInv, NEW p \in Processes, ~Free(p), NEW v \in Request,
           req' = [req EXCEPT ![p] = v], OpSound(v),
           order' \in OrderRow, Sound(order'), UNCHANGED overlaps,
           v.at \in Copying =>
             \/ v.copy = order'
             \/ /\ UNCHANGED order
                /\ req[p].at \in Copying /\ v.copy = req[p].copy
    PROVE  /\ req' \in [Processes -> Request]
           /\ \A q \in Processes : OpSound(req'[q])
           /\ Serial'
<1>1. req' \in [Processes -> Request]
  BY DEF IInv, TypeOK, Request
<1>2. \A q \in Processes : OpSound(req'[q])
  BY DEF IInv, TypeOK
<1>3. Serial'
  <2> SUFFICES ASSUME overlaps = 0 PROVE Serial' BY DEF Serial
  <2>1. \A q \in Processes \ {p} : req'[q] = Idle
    BY DEF IInv, Serial, Free, TypeOK
  <2>2. req'[p] = v
    BY DEF IInv, TypeOK
  <2>3. v.at \in Copying => v.copy = order'
    BY DEF IInv, Serial
  <2> QED BY <2>1, <2>2, <2>3, IdleSound DEF Serial, Free
<1> QED BY <1>1, <1>2, <1>3

-----------------------------------------------------------------------------
(* The operations that begin                                               *)

LEMMA LoadSound ==
    ASSUME IInv, NEW step \in Steps,
           step \in {"confirm", "timeout"} => Awaiting,
           step = "submit" => order.version = 0
    PROVE  LET v == [Idle EXCEPT !.at = step, !.copy = order]
           IN  v \in Request /\ OpSound(v) /\ v.copy = order
<1> DEFINE v == [Idle EXCEPT !.at = step, !.copy = order]
<1>1. v \in Request
  BY IdleSound DEF IInv, TypeOK, Request
<1>2. v.at = step /\ v.copy = order
  BY DEF Idle
<1>3. OpSound(v)
  BY <1>2 DEF OpSound, IInv, Awaiting
<1> QED BY <1>1, <1>2, <1>3

LEMMA LoadKeeps ==
    ASSUME IInv, NEW p \in Processes, NEW step \in Steps, LoadOrder(p, step),
           step \in {"confirm", "timeout"} => Awaiting,
           step = "submit" => order.version = 0
    PROVE  IInv'
BY LoadSound, BeginKeeps DEF LoadOrder

LEMMA StartKeeps ==
    ASSUME IInv, NEW p \in Processes,
           \/ StartSubmit(p) \/ StartAction(p) \/ StartCancel(p)
           \/ StartBind(p) \/ StartPay(p) \/ ScanTimeout
           \/ \E c \in Changes, step \in ChangeSteps : StartChange(p, c, step)
    PROVE  IInv'
<1>1. CASE StartSubmit(p)
  BY <1>1, LoadKeeps DEF StartSubmit, Steps
<1>2. CASE StartAction(p)
  BY <1>2, LoadKeeps DEF StartAction, Steps
<1>3. CASE StartBind(p)
  BY <1>3, LoadKeeps DEF StartBind, Steps
<1>4. CASE StartPay(p)
  BY <1>4, LoadKeeps DEF StartPay, Steps
<1>5. CASE StartCancel(p)
  <2> DEFINE v == [Idle EXCEPT !.at = "cancel"]
  <2>1. v \in Request /\ OpSound(v)
    BY IdleSound DEF Steps
  <2>2. v.at \notin Copying
    BY DEF Idle, Copying
  <2> QED BY <1>5, <2>1, <2>2, BeginKeeps DEF StartCancel
<1>6. CASE ScanTimeout
  <2>1. Scanner \in Processes /\ "timeout" \in Steps
    BY DEF Processes, Steps
  <2>2. /\ Awaiting
        /\ Begin(Scanner, [Idle EXCEPT !.at = "timeout", !.copy = order])
    BY <1>6 DEF ScanTimeout, Due
  <2> QED BY <2>1, <2>2, LoadSound, BeginKeeps
<1>7. ASSUME NEW c \in Changes, NEW step \in ChangeSteps,
             StartChange(p, c, step)
      PROVE  IInv'
  <2> DEFINE v == [Idle EXCEPT !.at = step, !.change = c, !.row = changes[c]]
  <2>1. step \in Steps
    BY DEF ChangeSteps, Steps
  <2>2. v \in Request
    BY <2>1, IdleSound DEF Request, IInv, TypeOK
  <2>3. v.at \notin Copying /\ OpSound(v)
    BY IdleSound DEF Idle, Copying, ChangeSteps, OpSound
  <2> QED BY <1>7, <2>2, <2>3, BeginKeeps DEF StartChange
<1> QED BY <1>1, <1>2, <1>3, <1>4, <1>5, <1>6, <1>7

-----------------------------------------------------------------------------
(* The steps that save the order                                           *)

\* What the operations make of a row keeps it sound.
LEMMA SavesSound ==
    ASSUME NEW row \in OrderRow, Sound(row)
    PROVE  /\ Submitted(row) \in OrderRow /\ Sound(Submitted(row))
           /\ Bumped(row) \in OrderRow /\ Sound(Bumped(row))
           /\ LET r == [row EXCEPT !.rejections = @ + 1]
              IN  r \in OrderRow /\ Sound(r)
           /\ LET r == [row EXCEPT !.paid = TRUE]
              IN  r \in OrderRow /\ Sound(r)
           /\ row.contract = "awaiting_confirmation" =>
                \A to \in {"signed", "cancelled"} :
                  Closed(row, to) \in OrderRow /\ Sound(Closed(row, to))
<1>1. Submitted(row) \in OrderRow /\ Sound(Submitted(row))
  <2>1. Submitted(row) \in OrderRow
    BY DEF Submitted, OrderRow, Contracts
  <2>2. /\ Submitted(row).version = 1 /\ Submitted(row).due = TRUE
        /\ Submitted(row).contract = "awaiting_confirmation"
    BY DEF Submitted, OrderRow
  <2> QED BY <2>1, <2>2 DEF Sound
<1>2. Bumped(row) \in OrderRow /\ Sound(Bumped(row))
  BY DEF Bumped, OrderRow, Sound
<1>3. LET r == [row EXCEPT !.rejections = @ + 1]
      IN  r \in OrderRow /\ Sound(r)
  BY DEF OrderRow, Sound
<1>4. LET r == [row EXCEPT !.paid = TRUE] IN r \in OrderRow /\ Sound(r)
  BY DEF OrderRow, Sound
<1>5. ASSUME row.contract = "awaiting_confirmation",
             NEW to \in {"signed", "cancelled"}
      PROVE  Closed(row, to) \in OrderRow /\ Sound(Closed(row, to))
  BY <1>5 DEF Closed, OrderRow, Contracts, Sound
<1> QED BY <1>1, <1>2, <1>3, <1>4, <1>5

\* A step after which the operation holds no copy, and the order is sound.
LEMMA LeaveKeeps ==
    ASSUME IInv, NEW p \in Processes, ~Free(p),
           \/ Finish(p)
           \/ \E step \in Steps \ (Copying \cup {"idle"}) : Continue(p, step),
           order' \in OrderRow, Sound(order'), UNCHANGED overlaps,
           escrow' \in Int, changes' \in [Changes -> ChangeRow],
           canceling' \in BOOLEAN, task' \in Tasks, failed' \subseteq Failures
    PROVE  IInv'
<1>1. PICK v \in Request : /\ req' = [req EXCEPT ![p] = v]
                           /\ OpSound(v) /\ v.at \notin Copying
  <2>1. CASE Finish(p)
    BY <2>1, IdleSound DEF Finish
  <2>2. ASSUME NEW step \in Steps \ (Copying \cup {"idle"}), Continue(p, step)
        PROVE  \E v \in Request : /\ req' = [req EXCEPT ![p] = v]
                                  /\ OpSound(v) /\ v.at \notin Copying
    <3>1. [Idle EXCEPT !.at = step].at = step
      BY DEF Idle
    <3>2. step \notin {"confirm", "timeout", "submit"}
      BY DEF Copying
    <3> QED BY <2>2, <3>1, <3>2, IdleSound DEF Continue
  <2> QED BY <2>1, <2>2
<1>2. /\ req' \in [Processes -> Request]
      /\ \A q \in Processes : OpSound(req'[q])
      /\ Serial'
  BY <1>1, StepKeeps
<1>3. TypeOK'
  <2>1. overlaps' \in 0..MaxDisturbed
    BY DEF IInv, TypeOK
  <2> QED BY <1>2, <2>1, Zenon DEF TypeOK, Request
<1> QED BY <1>2, <1>3 DEF IInv

\* What the operations save is sound, and leaves the other rows alone.
LEMMA SaveKeeps ==
    ASSUME IInv, NEW p \in Processes,
           \/ SaveSpec(p) \/ SaveRejection(p) \/ SaveBind(p) \/ SavePaid(p)
           \/ SaveBump(p) \/ SaveTimeout(p)
    PROVE  IInv'
<1> DEFINE row == req[p].copy
<1>1. row \in OrderRow /\ OpSound(req[p])
  BY DEF IInv, TypeOK
<1>2. /\ order' \in OrderRow /\ Sound(order')
      /\ req[p].at # "idle"
      /\ UNCHANGED <<escrow, changes, canceling, task, failed, overlaps>>
  <2>1. CASE SaveSpec(p)
    BY <1>1, <2>1, SavesSound DEF SaveSpec, At, OpSound
  <2>2. CASE SaveRejection(p)
    BY <1>1, <2>2, SavesSound DEF SaveRejection, At, OpSound
  <2>3. CASE SaveBind(p)
    BY <1>1, <2>3 DEF SaveBind, At, OpSound
  <2>4. CASE SavePaid(p)
    BY <1>1, <2>4, SavesSound DEF SavePaid, At, OpSound
  <2>5. CASE SaveBump(p)
    BY <1>1, <2>5, SavesSound DEF SaveBump, At, OpSound
  <2>6. CASE SaveTimeout(p)
    BY <1>1, <2>6, SavesSound DEF SaveTimeout, At, OpSound
  <2> QED BY <2>1, <2>2, <2>3, <2>4, <2>5, <2>6
<1>3. \/ Finish(p)
      \/ \E step \in Steps \ (Copying \cup {"idle"}) : Continue(p, step)
  BY DEF SaveSpec, SaveRejection, SaveBind, SavePaid, SaveBump, SaveTimeout,
         ThenReopens, Steps, Copying
<1>4. ~Free(p)
  BY <1>2 DEF Free, Idle
<1>5. /\ escrow' \in Int /\ changes' \in [Changes -> ChangeRow]
      /\ task' \in Tasks
  BY <1>2 DEF IInv, TypeOK
<1>6. canceling' \in BOOLEAN /\ failed' \subseteq Failures
  BY <1>2, Zenon DEF IInv, TypeOK
<1> QED BY <1>2, <1>3, <1>4, <1>5, <1>6, LeaveKeeps

-----------------------------------------------------------------------------
(* The steps that leave the order alone                                    *)

LEMMA DecidedRow ==
    ASSUME NEW row \in ChangeRow, NEW step \in ChangeSteps
    PROVE  Decided(step, row) \in ChangeRow
BY DEF Decided, ChangeSteps, ChangeRow, ChangeStatuses

LEMMA OtherKeeps ==
    ASSUME IInv, NEW p \in Processes,
           \/ InsertCancel(p) \/ NotifyOwner(p) \/ Throw(p) \/ Refund(p)
           \/ SaveChange(p) \/ ReopenTask(p)
    PROVE  IInv'
<1>1. req[p].at # "idle" /\ UNCHANGED <<order, overlaps>>
  BY DEF InsertCancel, NotifyOwner, Throw, Refund, SaveChange, ReopenTask, At,
         ChangeSteps, rows
<1>2. ~Free(p)
  BY <1>1 DEF Free, Idle
<1>3. \/ Finish(p)
      \/ \E step \in Steps \ (Copying \cup {"idle"}) : Continue(p, step)
  BY DEF InsertCancel, NotifyOwner, Throw, Refund, SaveChange, ReopenTask,
         Steps, Copying
<1>4. escrow' \in Int /\ task' \in Tasks
  BY DEF InsertCancel, NotifyOwner, Throw, Refund, SaveChange, ReopenTask,
         rows, IInv, TypeOK, Tasks
<1>5. changes' \in [Changes -> ChangeRow]
  <2>1. CASE SaveChange(p)
    <3>1. Decided(req[p].at, req[p].row) \in ChangeRow
      BY <2>1, DecidedRow DEF SaveChange, IInv, TypeOK
    <3> QED BY <2>1, <3>1 DEF SaveChange, IInv, TypeOK
  <2>2. CASE UNCHANGED changes
    BY <2>2 DEF IInv, TypeOK
  <2> QED BY <2>1, <2>2 DEF InsertCancel, NotifyOwner, Throw, Refund,
                             ReopenTask, rows
<1>6. canceling' \in BOOLEAN /\ failed' \subseteq Failures
  <2>1. CASE InsertCancel(p)
    BY <2>1, Zenon DEF InsertCancel, IInv, TypeOK
  <2>2. CASE Throw(p)
    <3>1. UNCHANGED canceling
      BY <2>2 DEF Throw, rows
    <3>2. failed' \subseteq Failures
      BY <2>2 DEF Throw, Fails, IInv, TypeOK, Failures
    <3> QED BY <3>1, <3>2, Zenon DEF IInv, TypeOK
  <2>3. CASE UNCHANGED <<canceling, failed>>
    BY <2>3, Zenon DEF IInv, TypeOK
  <2> QED BY <2>1, <2>2, <2>3 DEF NotifyOwner, Refund, SaveChange, ReopenTask,
                                   rows
<1>7. order' \in OrderRow /\ Sound(order')
  BY <1>1 DEF IInv, TypeOK
<1> QED BY <1>1, <1>2, <1>3, <1>4, <1>5, <1>6, <1>7, LeaveKeeps

\* The two steps after which the operation still, or again, holds a copy.
LEMMA HoldKeeps ==
    ASSUME IInv, NEW p \in Processes, Charge(p) \/ ReloadOrder(p)
    PROVE  IInv'
<1>1. /\ ~Free(p) /\ overlaps' \in 0..MaxDisturbed
      /\ UNCHANGED <<order, changes, canceling, task, failed, overlaps>>
  BY DEF Charge, ReloadOrder, At, Free, Idle, rows, IInv, TypeOK
<1>2. req[p] \in Request /\ OpSound(req[p]) /\ order \in OrderRow
  BY DEF IInv, TypeOK, Request
<1>3. /\ req' \in [Processes -> Request]
      /\ \A q \in Processes : OpSound(req'[q])
      /\ Serial'
  <2>1. CASE Charge(p) /\ ~Finish(p)
    <3> DEFINE v == [req[p] EXCEPT !.at = "pay"]
    <3>1. req' = [req EXCEPT ![p] = v] /\ req[p].at \in Copying
      BY <2>1 DEF Charge, At, Copying
    <3>2. v \in Request /\ OpSound(v) /\ v.copy = req[p].copy
      BY <1>2 DEF Request, OpSound, Steps
    <3> QED BY <1>1, <1>2, <3>1, <3>2, StepKeeps DEF IInv
  <2>2. CASE Finish(p)
    <3>1. req' = [req EXCEPT ![p] = Idle]
      BY <2>2 DEF Finish
    <3> QED BY <1>1, <1>2, <3>1, IdleSound, StepKeeps DEF IInv
  <2>3. CASE ReloadOrder(p)
    <3> DEFINE v == [req[p] EXCEPT !.at = "bump", !.copy = order]
    <3>1. req' = [req EXCEPT ![p] = v]
      BY <2>3 DEF ReloadOrder
    <3>2. v \in Request /\ v.at = "bump" /\ v.copy = order
      BY <1>2 DEF Request, Steps
    <3>3. OpSound(v)
      BY <3>2 DEF OpSound, IInv
    <3> QED BY <1>1, <1>2, <3>1, <3>2, <3>3, StepKeeps DEF IInv
  <2> QED BY <2>1, <2>2, <2>3
<1>4. escrow' \in Int
  BY DEF Charge, ReloadOrder, rows, IInv, TypeOK
<1>5. TypeOK'
  <2>1. /\ order' \in OrderRow /\ changes' \in [Changes -> ChangeRow]
        /\ task' \in Tasks /\ failed' \subseteq Failures
    BY <1>1 DEF IInv, TypeOK
  <2>2. canceling' \in BOOLEAN
    BY <1>1, Zenon DEF IInv, TypeOK
  <2> QED BY <1>1, <1>3, <1>4, <2>1, <2>2, Zenon DEF TypeOK, Request
<1> QED BY <1>1, <1>3, <1>5 DEF IInv

LEMMA StopKeeps ==
    ASSUME IInv, NEW p \in Processes, Stop(p)
    PROVE  IInv'
<1>1. ~Free(p) /\ Finish(p) /\ UNCHANGED <<rows, overlaps>>
  BY DEF Stop
<1>2. failed' \subseteq Failures
  BY DEF Stop, Fails, IInv, TypeOK, Failures
<1>3. /\ order' \in OrderRow /\ Sound(order') /\ escrow' \in Int
      /\ changes' \in [Changes -> ChangeRow] /\ task' \in Tasks
  BY <1>1 DEF rows, IInv, TypeOK
<1>4. canceling' \in BOOLEAN
  BY <1>1, Zenon DEF rows, IInv, TypeOK
<1> QED BY <1>1, <1>2, <1>3, <1>4, LeaveKeeps

-----------------------------------------------------------------------------
LEMMA NextKeeps == IInv /\ [Next]_vars => IInv'
<1> SUFFICES ASSUME IInv, [Next]_vars PROVE IInv' OBVIOUS
<1>1. CASE ScanTimeout
  <2>1. Scanner \in Processes
    BY DEF Processes
  <2> QED BY <1>1, <2>1, StartKeeps
<1>2. ASSUME NEW p \in Processes,
             \/ StartSubmit(p) \/ StartAction(p) \/ StartCancel(p)
             \/ StartBind(p) \/ StartPay(p)
             \/ \E c \in Changes, step \in ChangeSteps :
                  StartChange(p, c, step)
      PROVE  IInv'
  BY <1>2, StartKeeps
<1>3. ASSUME NEW p \in Processes, Proceed(p) PROVE IInv'
  BY <1>3, SaveKeeps, OtherKeeps, HoldKeeps DEF Proceed
<1>4. ASSUME NEW p \in Processes, Throw(p) \/ Stop(p) PROVE IInv'
  BY <1>4, OtherKeeps, StopKeeps
<1>5. CASE UNCHANGED vars
  BY <1>5 DEF vars, IInv, TypeOK, Serial, Free
<1> QED BY <1>1, <1>2, <1>3, <1>4, <1>5 DEF Next

LEMMA Inductive == Spec => []IInv
BY InitIInv, NextKeeps, PTL DEF Spec

\* The order, the changes and the operations keep their shape for any number
\* of requests, changes and failures.
THEOREM TypeCorrect == Spec => []TypeOK
<1>1. IInv => TypeOK
  BY DEF IInv
<1> QED BY <1>1, Inductive, PTL

\* However submissions, answers, payments, bindings and the scan save their
\* copies over each other, a contract under way has its specification, and
\* its deadline runs exactly while the employer has to decide.
THEOREM ContractIsSound == Spec => []ContractSound
<1>1. IInv => SpecBehindContract
  BY DEF IInv, Sound, SpecBehindContract
<1>2. IInv => DeadlineIffAwaiting
  BY DEF IInv, Sound, DeadlineIffAwaiting, Awaiting
<1>3. IInv => ContractSound
  BY <1>1, <1>2 DEF ContractSound
<1> QED BY <1>3, Inductive, PTL

\* As long as no operation begins during another one, a signed or cancelled
\* contract stays so, whatever is requested and whatever stops half way.
THEOREM DecisionIsFinal == Spec => ContractFinal
<1>1. ASSUME IInv, [Next]_vars, overlaps' = 0,
             order.contract \in {"signed", "cancelled"}
      PROVE  order'.contract = order.contract
  <2>1. ASSUME NEW p \in Processes, Proceed(p)
        PROVE  order'.contract = order.contract
    <3>1. \/ UNCHANGED order
          \/ SaveSpec(p) \/ SaveRejection(p) \/ SaveBind(p) \/ SavePaid(p)
          \/ SaveBump(p) \/ SaveTimeout(p)
      BY <2>1 DEF Proceed, InsertCancel, Charge, NotifyOwner, Refund,
                  SaveChange, ReloadOrder, ReopenTask, rows
    <3>2. /\ SaveSpec(p) \/ SaveRejection(p) \/ SaveBind(p) \/ SavePaid(p)
               \/ SaveBump(p) \/ SaveTimeout(p)
            => overlaps = 0 /\ req[p].at \in Copying
      BY <1>1 DEF SaveSpec, SaveRejection, SaveBind, SavePaid, SaveBump,
                  SaveTimeout, At, Copying
    <3>3. ASSUME overlaps = 0, req[p].at \in Copying
          PROVE  req[p].copy = order /\ OpSound(req[p]) /\ order \in OrderRow
      BY <1>1, <3>3 DEF IInv, Serial, TypeOK
    <3>4. CASE SaveSpec(p) \/ SaveTimeout(p)
      BY <1>1, <3>2, <3>3, <3>4 DEF SaveSpec, SaveTimeout, At, OpSound, Sound
    <3>5. CASE SaveRejection(p) \/ SaveBind(p) \/ SavePaid(p) \/ SaveBump(p)
      BY <3>2, <3>3, <3>5 DEF SaveRejection, SaveBind, SavePaid, SaveBump,
                              Bumped, OrderRow
    <3> QED BY <3>1, <3>4, <3>5
  <2>2. CASE UNCHANGED order
    BY <2>2
  <2> QED BY <1>1, <2>1, <2>2
          DEF Next, ScanTimeout, StartSubmit, StartAction, StartCancel,
              StartBind, StartPay, StartChange, LoadOrder, Begin, Throw, Stop,
              rows, vars
<1> QED BY <1>1, Inductive, PTL DEF Spec, ContractFinal

-----------------------------------------------------------------------------
(* Escrow and counters, while no operation begins during another one       *)

\* How the escrow stands to the row while the operation under way is at `at`:
\* a charge is held by the row, or by the operation that will save or refund it.
MoneyAt(at) ==
    /\ escrow >= 0
    /\ order.paid /\ "notify" \notin failed => escrow >= 1
    /\ "stop" \notin failed =>
         escrow <= IF order.paid \/ at \in {"pay", "refund"} THEN 1 ELSE 0
    /\ at \in {"charge", "pay"} => ~order.paid
    /\ at \in {"pay", "notify", "refund"} => escrow >= 1
    /\ at = "refund" => ~order.paid \/ "notify" \in failed

\* How the counters stand to what they count while the operation is r: it
\* may still owe the cancel request, or the version of the change it confirmed.
CountAt(r) ==
    /\ order.rejections >= RejectionLimit => canceling \/ r.at = "cancel"
    /\ order.version + (IF r.at \in {"load", "bump"} THEN 1 ELSE 0)
         >= Cardinality(Confirmed) + (IF order.contract = "signing" THEN 0 ELSE 1)
    /\ r.at = "confirmNew" => r.row.new

LedgerAt(r) == MoneyAt(r.at) /\ (failed = {} => CountAt(r))

Ledger ==
    overlaps = 0 => \A p \in Processes :
      (\A q \in Processes \ {p} : Free(q)) => LedgerAt(req[p])

\* What p does when it has the turn.
Starts(p) ==
    \/ StartSubmit(p) \/ StartAction(p) \/ StartCancel(p)
    \/ StartBind(p) \/ StartPay(p) \/ (p = Scanner /\ ScanTimeout)
    \/ \E c \in Changes, step \in ChangeSteps : StartChange(p, c, step)
Acts(p) == Starts(p) \/ Proceed(p) \/ Throw(p) \/ Stop(p)

LEMMA StartsBegins ==
    ASSUME IInv, NEW p \in Processes, Starts(p)
    PROVE  \E v \in Request :
             /\ Begin(p, v)
             /\ v.at \notin {"pay", "notify", "refund", "load", "bump"}
             /\ v.at = "charge" => ~order.paid
             /\ v.at = "confirmNew" => v.row.new
<1> DEFINE Fits(v) ==
             /\ v.at \notin {"pay", "notify", "refund", "load", "bump"}
             /\ v.at = "charge" => ~order.paid
             /\ v.at = "confirmNew" => v.row.new
<1>1. ASSUME NEW step \in {"submit", "confirm", "reject", "bind", "charge",
                           "timeout"},
             step = "charge" => ~order.paid
      PROVE  LET v == [Idle EXCEPT !.at = step, !.copy = order]
             IN  v \in Request /\ Fits(v)
  <2> DEFINE v == [Idle EXCEPT !.at = step, !.copy = order]
  <2>1. v.at = step
    BY DEF Idle
  <2>2. step \in Steps /\ order \in OrderRow
    BY DEF IInv, TypeOK, Steps
  <2>3. v \in Request
    BY <2>2, IdleSound DEF Request
  <2> QED BY <1>1, <2>1, <2>3
<1>2. CASE \/ StartSubmit(p) \/ StartAction(p) \/ StartBind(p) \/ StartPay(p)
           \/ (p = Scanner /\ ScanTimeout)
  <2>1. PICK step \in {"submit", "confirm", "reject", "bind", "charge",
                       "timeout"} :
          /\ Begin(p, [Idle EXCEPT !.at = step, !.copy = order])
          /\ step = "charge" => ~order.paid
    BY <1>2 DEF StartSubmit, StartAction, StartBind, StartPay, ScanTimeout,
                LoadOrder, Payable
  <2> QED BY <1>1, <2>1
<1>3. CASE StartCancel(p)
  <2> DEFINE v == [Idle EXCEPT !.at = "cancel"]
  <2>1. v \in Request /\ v.at = "cancel"
    BY IdleSound DEF Steps, Idle
  <2> QED BY <1>3, <2>1 DEF StartCancel
<1>4. ASSUME NEW c \in Changes, NEW step \in ChangeSteps,
             StartChange(p, c, step)
      PROVE  \E v \in Request : Begin(p, v) /\ Fits(v)
  <2> DEFINE v == [Idle EXCEPT !.at = step, !.change = c, !.row = changes[c]]
  <2>0. step \in Steps
    BY DEF ChangeSteps, Steps
  <2>1. v \in Request
    BY <2>0, IdleSound DEF Request, IInv, TypeOK
  <2>2. v.at = step /\ v.row = changes[c] /\ Begin(p, v)
    BY <1>4 DEF StartChange, Idle
  <2>3. step = "confirmNew" => changes[c].new
    BY <1>4 DEF StartChange, Accepts
  <2>4. step \notin {"pay", "notify", "refund", "load", "bump", "charge"}
    BY DEF ChangeSteps
  <2> QED BY <2>1, <2>2, <2>3, <2>4
<1> QED BY <1>2, <1>3, <1>4 DEF Starts

\* Who acts is alone, before and after.
LEMMA ActsAlone ==
    ASSUME IInv, NEW p \in Processes, Acts(p), overlaps' = 0
    PROVE  /\ overlaps = 0
           /\ \A q \in Processes \ {p} : req[q] = Idle /\ req'[q] = Idle
           /\ ~Starts(p) => ~Free(p)
<1>1. /\ req \in [Processes -> Request] /\ overlaps \in Nat
      /\ Serial
  BY BoundAssumption DEF IInv, TypeOK, Request
<1>2. CASE Starts(p)
  <2>1. PICK v \in Request : Begin(p, v)
    BY <1>2, StartsBegins
  <2>2. Quiet /\ overlaps = 0
    BY <1>1, <2>1 DEF Begin
  <2> QED BY <1>1, <1>2, <2>1, <2>2 DEF Begin, Quiet, Free
<1>3. CASE ~Starts(p)
  <2>1. (req[p].at # "idle" \/ ~Free(p)) /\ UNCHANGED overlaps
    BY <1>3 DEF Acts, Proceed, Throw, Stop, SaveSpec, SaveRejection,
       InsertCancel, SaveBind, Charge, SavePaid, NotifyOwner, Refund,
       SaveChange, ReloadOrder, SaveBump, SaveTimeout, ReopenTask, At,
       ChangeSteps
  <2>2. \A q \in Processes \ {p} : req'[q] = req[q]
    BY <1>1, <1>3 DEF Acts, Proceed, Throw, Stop, SaveSpec, SaveRejection,
       InsertCancel, SaveBind, Charge, SavePaid, NotifyOwner, Refund,
       SaveChange, ReloadOrder, SaveBump, SaveTimeout, ReopenTask,
       ThenReopens, Finish, Continue
  <2>3. ~Free(p)
    BY <2>1 DEF Free, Idle
  <2> QED BY <1>1, <1>3, <2>1, <2>2, <2>3 DEF Serial, Free
<1> QED BY <1>2, <1>3

\* The escrow, action by action.
LEMMA MoneyKeeps ==
    ASSUME IInv, NEW p \in Processes, Acts(p), overlaps' = 0,
           MoneyAt(req[p].at)
    PROVE  MoneyAt(req[p].at)'
<1>1. /\ escrow \in Int /\ order \in OrderRow
      /\ req \in [Processes -> Request] /\ req[p] \in Request
  BY DEF IInv, TypeOK, Request
<1>2. ASSUME req[p].at \in Copying PROVE req[p].copy = order
  BY <1>2, ActsAlone DEF IInv, Serial
<1>3. CASE Starts(p)
  <2>1. PICK v \in Request :
          /\ Begin(p, v)
          /\ v.at \notin {"pay", "notify", "refund", "load", "bump"}
          /\ v.at = "charge" => ~order.paid
    BY <1>3, StartsBegins
  <2>2. /\ req'[p].at = v.at /\ req[p].at = "idle"
        /\ UNCHANGED <<order, escrow, failed>>
    BY <1>1, <2>1 DEF Begin, Free, Idle, rows
  <2> QED BY <2>1, <2>2 DEF MoneyAt
<1>4. CASE Charge(p)
  <2>1. req[p].at = "charge" /\ UNCHANGED <<order, failed>>
    BY <1>4 DEF Charge, At
  <2>2. \/ escrow' = escrow + 1 /\ req'[p].at = "pay"
        \/ escrow' = escrow /\ req'[p].at = "idle"
    BY <1>1, <1>4 DEF Charge, Finish, Idle, Request
  <2> QED BY <1>1, <2>1, <2>2 DEF MoneyAt
<1>5. CASE SavePaid(p)
  <2>1. /\ req[p].at = "pay" /\ req[p].copy = order
        /\ UNCHANGED <<escrow, failed>>
    BY <1>2, <1>5 DEF SavePaid, At, Copying
  <2>2. order'.paid /\ req'[p].at = "notify"
    BY <1>1, <1>5, <2>1 DEF SavePaid, Continue, Idle, OrderRow
  <2> QED BY <1>1, <2>1, <2>2 DEF MoneyAt
<1>6. CASE Throw(p)
  <2>1. /\ req'[p].at = "refund" /\ UNCHANGED <<order, escrow>>
        /\ failed \subseteq failed'
    BY <1>1, <1>6 DEF Throw, Fails, Continue, Idle, rows
  <2>2. \/ req[p].at = "pay"
        \/ req[p].at = "notify" /\ "notify" \in failed'
    BY <1>6 DEF Throw, Fails, At
  <2> QED BY <1>1, <2>1, <2>2 DEF MoneyAt
<1>7. CASE Refund(p)
  <2>1. /\ req[p].at = "refund" /\ req'[p].at = "idle"
        /\ escrow' = escrow - 1 /\ UNCHANGED <<order, failed>>
    BY <1>1, <1>7 DEF Refund, At, Finish, Idle
  <2> QED BY <1>1, <2>1 DEF MoneyAt
<1>8. CASE Stop(p)
  <2>1. /\ req'[p].at = "idle" /\ UNCHANGED <<order, escrow>>
        /\ "stop" \in failed' /\ failed \subseteq failed'
    BY <1>1, <1>8 DEF Stop, Fails, Finish, Idle, rows
  <2> QED BY <1>1, <2>1 DEF MoneyAt
<1>9. CASE NotifyOwner(p)
  <2>1. /\ req[p].at = "notify" /\ req'[p].at = "idle"
        /\ UNCHANGED <<order, escrow, failed>>
    BY <1>1, <1>9 DEF NotifyOwner, At, Finish, Idle, rows
  <2> QED BY <1>1, <2>1 DEF MoneyAt
\* The others touch neither the money nor what pays it.
<1>10. ASSUME order'.paid = order.paid, UNCHANGED <<escrow, failed>>,
              req[p].at \notin {"pay", "notify", "refund"},
              req'[p].at \notin {"charge", "pay", "notify", "refund"}
       PROVE  MoneyAt(req[p].at)'
  BY <1>10 DEF MoneyAt
<1>11. CASE \/ SaveSpec(p) \/ SaveRejection(p) \/ SaveBind(p) \/ SaveBump(p)
            \/ SaveTimeout(p)
  <2>1. /\ req[p].at \in {"submit", "confirm", "reject", "bind", "bump",
                          "timeout"}
        /\ req[p].copy = order /\ UNCHANGED <<escrow, failed>>
    BY <1>2, <1>11 DEF SaveSpec, SaveRejection, SaveBind, SaveBump,
       SaveTimeout, At, Copying
  <2>2. order'.paid = order.paid
    BY <1>1, <1>11, <2>1 DEF SaveSpec, SaveRejection, SaveBind, SaveBump,
       SaveTimeout, Submitted, Closed, Bumped, OrderRow
  <2>3. req'[p].at \in {"idle", "cancel", "reopen"}
    BY <1>1, <1>11 DEF SaveSpec, SaveRejection, SaveBind, SaveBump,
       SaveTimeout, ThenReopens, Finish, Continue, Idle
  <2> QED BY <1>10, <2>1, <2>2, <2>3
<1>12. CASE InsertCancel(p) \/ SaveChange(p) \/ ReloadOrder(p) \/ ReopenTask(p)
  <2>1. /\ req[p].at \notin {"pay", "notify", "refund"}
        /\ UNCHANGED <<order, escrow, failed>>
    BY <1>12 DEF InsertCancel, SaveChange, ReloadOrder, ReopenTask, At,
       ChangeSteps, rows
  <2>2. req'[p].at \in {"idle", "load", "bump"}
    BY <1>1, <1>12 DEF InsertCancel, SaveChange, ReloadOrder, ReopenTask,
       Finish, Continue, Idle, Request
  <2> QED BY <1>10, <2>1, <2>2
<1> QED BY <1>3, <1>4, <1>5, <1>6, <1>7, <1>8, <1>9, <1>11, <1>12
        DEF Acts, Proceed

\* A saved change adds to what both sides confirmed only by confirm.
LEMMA ConfirmedGrows ==
    ASSUME IInv, NEW p \in Processes, SaveChange(p),
           req[p].at = "confirmNew" => req[p].row.new
    PROVE  /\ Cardinality(Confirmed) \in Nat /\ Cardinality(Confirmed') \in Nat
           /\ Cardinality(Confirmed') <= Cardinality(Confirmed) + 1
           /\ req[p].at # "confirmChange" =>
                Cardinality(Confirmed') <= Cardinality(Confirmed)
<1> DEFINE c == req[p].change
           row == req[p].row
<1>1. /\ changes \in [Changes -> ChangeRow] /\ row \in ChangeRow
      /\ req[p].at \in ChangeSteps
  BY DEF IInv, TypeOK, SaveChange
<1>2. IsFiniteSet(Confirmed) /\ IsFiniteSet(Confirmed \cup {c})
      /\ IsFiniteSet(Confirmed')
  <2>1. Confirmed \subseteq Changes /\ Confirmed' \subseteq Changes
    BY DEF Confirmed
  <2> QED BY <2>1, ChangesAssumption, FS_Subset, FS_AddElement
<1>3. \A d \in Changes : d # c => changes'[d] = changes[d]
  BY <1>1 DEF SaveChange
<1>4. Confirmed' \subseteq Confirmed \cup {c}
  BY <1>3 DEF Confirmed
<1>5. ASSUME req[p].at # "confirmChange" PROVE Confirmed' \subseteq Confirmed
  <2>1. CASE UNCHANGED changes
    BY <2>1 DEF Confirmed
  <2>2. CASE changes' = [changes EXCEPT ![c] = Decided(req[p].at, row)]
    <3>1. ~(Decided(req[p].at, row).status = "confirmed"
            /\ ~Decided(req[p].at, row).new)
      BY <1>1, <1>5 DEF Decided, ChangeSteps, ChangeRow
    <3>2. c \notin Confirmed'
      BY <1>1, <2>2, <3>1 DEF Confirmed
    <3> QED BY <1>4, <3>2
  <2> QED BY <2>1, <2>2 DEF SaveChange
<1>6. /\ Cardinality(Confirmed) \in Nat /\ Cardinality(Confirmed') \in Nat
      /\ Cardinality(Confirmed \cup {c}) <= Cardinality(Confirmed) + 1
  <2>1. Cardinality(Confirmed) \in Nat /\ Cardinality(Confirmed') \in Nat
    BY <1>2, FS_CardinalityType
  <2>2. \/ Cardinality(Confirmed \cup {c}) = Cardinality(Confirmed)
        \/ Cardinality(Confirmed \cup {c}) = Cardinality(Confirmed) + 1
    BY <1>2, FS_AddElement
  <2> QED BY <2>1, <2>2
<1>7. Cardinality(Confirmed') <= Cardinality(Confirmed \cup {c})
  BY <1>2, <1>4, FS_Subset
<1>8. Cardinality(Confirmed \cup {c}) \in Nat
  BY <1>2, FS_CardinalityType
<1>9. ASSUME req[p].at # "confirmChange"
      PROVE  Cardinality(Confirmed') <= Cardinality(Confirmed)
  BY <1>2, <1>5, <1>9, FS_Subset
<1> QED BY <1>6, <1>7, <1>8, <1>9

\* The counters, action by action.
LEMMA CountKeeps ==
    ASSUME IInv, NEW p \in Processes, Acts(p), overlaps' = 0, failed' = {},
           CountAt(req[p])
    PROVE  CountAt(req[p])'
<1>1. /\ order \in OrderRow /\ RejectionLimit \in Nat
      /\ req \in [Processes -> Request] /\ req[p] \in Request
  BY BoundAssumption DEF IInv, TypeOK, Request
<1>2. ASSUME req[p].at \in Copying
      PROVE  req[p].copy = order /\ (req[p].at = "submit" => order.version = 0)
  BY <1>2, ActsAlone DEF IInv, Serial, OpSound
<1>3. Cardinality(Confirmed) \in Nat
  <2>1. Confirmed \subseteq Changes
    BY DEF Confirmed
  <2> QED BY <2>1, ChangesAssumption, FS_Subset, FS_CardinalityType
<1>4. ASSUME UNCHANGED <<order, changes>>, canceling => canceling',
             req[p].at = "cancel" => canceling' \/ req'[p].at = "cancel",
             req[p].at \in {"load", "bump"} => req'[p].at \in {"load", "bump"},
             req'[p].at = "confirmNew" => req'[p].row.new
      PROVE  CountAt(req[p])'
  BY <1>1, <1>3, <1>4 DEF CountAt, Confirmed, OrderRow
<1>5. CASE Starts(p)
  <2>1. PICK v \in Request : Begin(p, v) /\ (v.at = "confirmNew" => v.row.new)
    BY <1>5, StartsBegins
  <2>2. /\ req'[p] = v /\ req[p].at = "idle"
        /\ UNCHANGED <<order, changes, canceling>>
    BY <1>1, <2>1 DEF Begin, Free, Idle, rows
  <2> QED BY <1>4, <2>1, <2>2
<1>6. CASE SaveSpec(p)
  <2>1. /\ req'[p].at = "idle" /\ UNCHANGED <<changes, canceling>>
        /\ req[p].at \in {"submit", "confirm"} /\ req[p].copy = order
        /\ req[p].at = "submit" => order.version = 0
    BY <1>1, <1>2, <1>6 DEF SaveSpec, At, Finish, Idle, Copying
  <2>2. CASE req[p].at = "submit"
    <3>1. /\ order'.version = 1 /\ order'.contract = "awaiting_confirmation"
          /\ order'.rejections = order.rejections
      BY <1>1, <1>6, <2>1, <2>2 DEF SaveSpec, At, Submitted, OrderRow
    <3> QED BY <1>1, <1>3, <2>1, <2>2, <3>1 DEF CountAt, Confirmed, OrderRow
  <2>3. CASE req[p].at = "confirm"
    <3>1. /\ order'.version = order.version
          /\ order'.rejections = order.rejections
      BY <1>1, <1>6, <2>1, <2>3 DEF SaveSpec, At, Closed, OrderRow
    <3>2. order.contract = "awaiting_confirmation"
      BY <2>1, <2>3 DEF IInv, OpSound
    <3> QED BY <1>1, <1>3, <2>1, <2>3, <3>1, <3>2 DEF CountAt, Confirmed, OrderRow
  <2> QED BY <2>1, <2>2, <2>3
<1>7. CASE SaveRejection(p)
  <2>1. /\ req[p].at = "reject" /\ req[p].copy = order
        /\ UNCHANGED <<changes, canceling>>
        /\ order' = [order EXCEPT !.rejections = @ + 1]
    BY <1>2, <1>7 DEF SaveRejection, At, Copying
  <2>2. /\ req'[p].at \in {"cancel", "idle"}
        /\ order'.rejections >= RejectionLimit => req'[p].at = "cancel"
    BY <1>1, <1>7 DEF SaveRejection, AtLimit, Continue, Finish, Idle
  <2>3. order'.version = order.version /\ order'.contract = order.contract
    BY <1>1, <2>1 DEF OrderRow
  <2> QED BY <1>1, <1>3, <2>1, <2>2, <2>3 DEF CountAt, Confirmed, OrderRow
<1>8. CASE InsertCancel(p)
  <2>1. /\ UNCHANGED <<order, changes>> /\ canceling'
        /\ req[p].at = "cancel" /\ req'[p].at = "idle"
    BY <1>1, <1>8 DEF InsertCancel, At, Finish, Idle
  <2> QED BY <1>4, <2>1
<1>9. CASE SaveBind(p) \/ SavePaid(p) \/ SaveTimeout(p)
  <2>1. /\ req[p].at \in {"bind", "pay", "timeout"} /\ req[p].copy = order
        /\ UNCHANGED <<changes, canceling>>
    BY <1>2, <1>9 DEF SaveBind, SavePaid, SaveTimeout, At, Copying
  <2>2. /\ order'.version = order.version
        /\ order'.rejections = order.rejections
        /\ order.contract # "signing" \/ order'.contract = order.contract
    BY <1>1, <1>9, <2>1 DEF SaveBind, SavePaid, SaveTimeout, Closed, OrderRow,
       At, IInv, OpSound
  <2>3. req'[p].at \in {"idle", "notify", "reopen"}
    BY <1>1, <1>9 DEF SaveBind, SavePaid, SaveTimeout, ThenReopens, Finish,
       Continue, Idle
  <2> QED BY <1>1, <1>3, <2>1, <2>2, <2>3 DEF CountAt, Confirmed, OrderRow
<1>10. CASE SaveChange(p)
  <2>1. /\ UNCHANGED <<order, canceling>> /\ req[p].at \in ChangeSteps
        /\ req[p].at = "confirmChange" => req'[p].at = "load"
        /\ req'[p].at \in {"load", "idle"}
    BY <1>1, <1>10 DEF SaveChange, At, Continue, Finish, Idle
  <2>2. /\ Cardinality(Confirmed') \in Nat
        /\ Cardinality(Confirmed') <= Cardinality(Confirmed) + 1
        /\ req[p].at # "confirmChange" =>
             Cardinality(Confirmed') <= Cardinality(Confirmed)
    BY <1>10, ConfirmedGrows DEF CountAt
  <2>3. req[p].at \notin {"load", "bump", "cancel"}
    BY <2>1 DEF ChangeSteps
  <2> QED BY <1>1, <1>3, <2>1, <2>2, <2>3 DEF CountAt, OrderRow
<1>11. CASE SaveBump(p)
  <2>1. /\ req[p].at = "bump" /\ req'[p].at = "idle" /\ req[p].copy = order
        /\ UNCHANGED <<changes, canceling>>
    BY <1>1, <1>2, <1>11 DEF SaveBump, At, Finish, Idle, Copying
  <2>2. /\ order'.version = order.version + 1
        /\ order'.rejections = order.rejections
        /\ order'.contract = order.contract
    BY <1>1, <1>11, <2>1 DEF SaveBump, Bumped, OrderRow
  <2> QED BY <1>1, <1>3, <2>1, <2>2 DEF CountAt, Confirmed, OrderRow
<1>12. ~Throw(p) /\ ~Stop(p)
  BY DEF Throw, Stop, Fails
<1>13. CASE ReopenTask(p) \/ Charge(p) \/ NotifyOwner(p) \/ Refund(p)
            \/ ReloadOrder(p)
  <2>1. UNCHANGED <<order, changes, canceling>> /\ req[p].at # "cancel"
    BY <1>13 DEF ReopenTask, Charge, NotifyOwner, Refund, ReloadOrder, At, rows
  <2>2. /\ req[p].at \in {"load", "bump"} => req'[p].at \in {"load", "bump"}
        /\ req'[p].at # "confirmNew"
    BY <1>1, <1>13 DEF ReopenTask, Charge, NotifyOwner, Refund, ReloadOrder,
       At, Finish, Idle, Request
  <2> QED BY <1>4, <2>1, <2>2
<1> QED BY <1>5, <1>6, <1>7, <1>8, <1>9, <1>10, <1>11, <1>12, <1>13
        DEF Acts, Proceed

LEMMA FailedGrows ==
    ASSUME NEW p \in Processes, Acts(p)
    PROVE  failed \subseteq failed'
BY DEF Acts, Starts, StartSubmit, StartAction, StartCancel, StartBind,
   StartPay, ScanTimeout, StartChange, LoadOrder, Begin, Proceed, SaveSpec,
   SaveRejection, InsertCancel, SaveBind, Charge, SavePaid, NotifyOwner,
   Refund, SaveChange, ReloadOrder, SaveBump, SaveTimeout, ReopenTask, Throw,
   Stop, Fails

LEMMA LedgerKeeps == IInv /\ Ledger /\ [Next]_vars => Ledger'
<1> SUFFICES ASSUME IInv, Ledger, [Next]_vars PROVE Ledger' OBVIOUS
<1>1. ASSUME NEW p \in Processes, Acts(p), overlaps' = 0
      PROVE  Ledger'
  <2>1. /\ overlaps = 0
        /\ \A q \in Processes \ {p} : req[q] = Idle /\ req'[q] = Idle
    BY <1>1, ActsAlone
  <2>2. LedgerAt(req[p])
    BY <2>1 DEF Ledger, Free
  <2>3. LedgerAt(req[p])'
    <3>1. MoneyAt(req[p].at)'
      BY <1>1, <2>2, MoneyKeeps DEF LedgerAt
    <3>2. failed' = {} => CountAt(req[p])'
      BY <1>1, <2>2, FailedGrows, CountKeeps DEF LedgerAt
    <3> QED BY <3>1, <3>2 DEF LedgerAt
  <2>4. ASSUME NEW q \in Processes,
               \A r \in Processes \ {q} : req'[r] = Idle
        PROVE  LedgerAt(req[q])'
    <3>1. req'[q] = req'[p]
      BY <2>1, <2>4
    <3> QED BY <2>3, <3>1 DEF LedgerAt, MoneyAt, CountAt
  <2> QED BY <2>4 DEF Ledger, Free
<1>2. CASE UNCHANGED vars
  BY <1>2 DEF vars, Ledger, LedgerAt, MoneyAt, CountAt, Confirmed, Free
<1>3. CASE Next
  <2>1. PICK p \in Processes : Acts(p)
    BY <1>3 DEF Next, Acts, Starts, Processes
  <2> QED BY <1>1, <2>1 DEF Ledger
<1> QED BY <1>2, <1>3

LEMMA LedgerHolds == Spec => []Ledger
<1>1. Init => Ledger
  <2> SUFFICES ASSUME Init, NEW p \in Processes PROVE LedgerAt(req[p])
    BY DEF Ledger
  <2>1. req[p] = Idle /\ Idle.at = "idle"
    BY DEF Init, Idle
  <2>2. Confirmed = {} /\ Cardinality({}) = 0
    BY FS_EmptySet DEF Init, Confirmed, NewChange
  <2>3. order.contract = "signing" /\ order.version = 0 /\ ~order.paid
        /\ order.rejections = 0 /\ escrow = 0 /\ failed = {}
    BY DEF Init, NewOrder
  <2> QED BY <2>1, <2>2, <2>3, BoundAssumption DEF LedgerAt, MoneyAt, CountAt
<1> QED BY <1>1, Inductive, LedgerKeeps, PTL DEF Spec

\* The escrow follows the row: a paid order has its price held, and what is
\* not paid holds nothing, as long as operations do not overlap and up to the
\* failures that EscrowRecorded names, for any wallet and number of requests.
THEOREM EscrowIsRecorded == Spec => []EscrowRecorded
<1>1. IInv /\ Ledger => EscrowRecorded
  <2> SUFFICES ASSUME IInv, Ledger, overlaps = 0
               PROVE  /\ order.paid /\ "notify" \notin failed => escrow >= 1
                      /\ "stop" \notin failed /\ Quiet =>
                           escrow <= IF order.paid THEN 1 ELSE 0
    BY DEF EscrowRecorded
  <2>1. PICK p \in Processes : \A q \in Processes \ {p} : Free(q)
    <3>1. Scanner \in Processes
      BY DEF Processes
    <3> QED BY <3>1 DEF IInv, Serial
  <2>2. MoneyAt(req[p].at)
    BY <2>1 DEF Ledger, LedgerAt
  <2>3. Quiet => req[p].at = "idle"
    BY DEF Quiet, Free, Idle
  <2> QED BY <2>2, <2>3 DEF MoneyAt
<1> QED BY <1>1, Inductive, LedgerHolds, PTL

\* The limit of rejections brings the cancellation about and every confirmed
\* change its version, without overlaps and failures, for any limit and any
\* finite set of changes.
THEOREM CountersTakeEffect == Spec => []CountersAct
<1>1. IInv /\ Ledger => CountersAct
  <2> SUFFICES ASSUME IInv, Ledger, overlaps = 0, failed = {}, Quiet
               PROVE  CountersAct
    BY DEF CountersAct
  <2>1. Scanner \in Processes
    BY DEF Processes
  <2>2. CountAt(req[Scanner]) /\ req[Scanner].at = "idle"
    BY <2>1 DEF Ledger, LedgerAt, Quiet, Free, Idle
  <2>3. order.version \in Nat
    BY DEF IInv, TypeOK, OrderRow
  <2> QED BY <2>2, <2>3 DEF CountAt, CountersAct
<1> QED BY <1>1, Inductive, LedgerHolds, PTL
=============================================================================
