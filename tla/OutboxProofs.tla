---------------------------- MODULE OutboxProofs ----------------------------
(***************************************************************************)
(* Proofs about Outbox, for any rows, any number of overlapping ticks and  *)
(* any limit of attempts.  The inductive invariant says of every copy a    *)
(* tick holds what was true of the row when it was loaded and stays true   *)
(* whatever other ticks save: the row was taken on, and its copy counts no *)
(* more failures than there were sends.                                    *)
(***************************************************************************)
EXTENDS Outbox, TLAPS

Copies(d) == DOMAIN tick[d].batch
Taken(e) == row[e].status \notin {"absent", "skipped"}
Unsettled(d, e) == ~(tick[d].answer = "dead" /\ tick[d].item = e)

\* A tick with an answer has an item of its batch in hand.
InHand ==
    \A d \in Dispatchers :
      /\ tick[d].answer = "none" <=> tick[d].item = NoItem
      /\ tick[d].item # NoItem => tick[d].item \in Copies(d)

\* What an answer says of its message did happen.
TellsTruth(d) ==
    LET e == tick[d].item IN
    /\ tick[d].answer = "ok" => e \in received
    /\ tick[d].answer = "refused" => e \in refused
    /\ tick[d].answer = "failed" => tick[d].batch[e] + 1 <= sends[e]
    /\ tick[d].answer = "dead" => e \in refused \/ sends[e] = MaxAttempts
Truthful == \A d \in Dispatchers : TellsTruth(d)

\* Copies are of rows that were taken on, are below the limit until they are
\* given up, and like the rows they count no failure without a send.
Counted ==
    /\ \A e \in Rows : row[e].attempts <= sends[e]
    /\ \A d \in Dispatchers : \A e \in Copies(d) :
         /\ Taken(e)
         /\ tick[d].batch[e] <= sends[e]
         /\ Unsettled(d, e) => tick[d].batch[e] < MaxAttempts

IInv == TypeOK /\ PendingBelowLimit /\ InHand /\ Truthful /\ Counted

-----------------------------------------------------------------------------
\* Batches are the functions from rows to attempts.
LEMMA BatchShape ==
    ASSUME NEW f, f \in Batches
    PROVE  /\ DOMAIN f \subseteq Rows
           /\ f \in [DOMAIN f -> 0..MaxAttempts]
BY DEF Batches

LEMMA BatchOf ==
    ASSUME NEW S \in SUBSET Rows, NEW f \in [S -> 0..MaxAttempts]
    PROVE  f \in Batches
BY DEF Batches

\* The rows of no batch at all: a tick between two runs.
LEMMA IdleShape ==
    /\ Idle \in [batch : Batches, item : Rows \cup {NoItem}, answer : Answers]
    /\ DOMAIN Idle.batch = {} /\ Idle.item = NoItem /\ Idle.answer = "none"
<1> DEFINE f == [e \in {} |-> 0]
<1>1. f \in [{} -> 0..MaxAttempts] OBVIOUS
<1>2. f \in Batches BY <1>1, BatchOf
<1> QED BY <1>2 DEF Idle, Answers

LEMMA InitIInv == Init => IInv
<1> SUFFICES ASSUME Init PROVE IInv OBVIOUS
<1>1. TypeOK
  BY IdleShape, AttemptsAssumption, BoundAssumption
  DEF Init, TypeOK, Absent, Row, Statuses, NextAttempts
<1>2. PendingBelowLimit /\ InHand /\ Truthful /\ Counted
  BY IdleShape, AttemptsAssumption
  DEF Init, PendingBelowLimit, InHand, Truthful, TellsTruth, Counted, Copies, Absent
<1> QED BY <1>1, <1>2 DEF IInv

-----------------------------------------------------------------------------
\* The steps that only touch rows: the two enqueues, a replay, a wait's end.
LEMMA RowStep ==
    ASSUME IInv, NEW e \in Rows, NEW r \in Row, SetRow(e, r),
           r.attempts <= sends[e],
           r.status = "pending" => r.attempts < MaxAttempts,
           Taken(e) => r.status \notin {"absent", "skipped"},
           UNCHANGED <<tick, history, stops>>, replays' \in 0..MaxReplays
    PROVE  IInv'
<1>1. TypeOK' /\ PendingBelowLimit'
  BY DEF IInv, TypeOK, PendingBelowLimit, SetRow, history
<1>2. InHand' /\ Truthful'
  BY DEF IInv, InHand, Truthful, TellsTruth, Copies, history
<1>3. Counted'
  BY DEF IInv, Counted, Copies, Taken, Unsettled, SetRow, history, TypeOK
<1> QED BY <1>1, <1>2, <1>3 DEF IInv

LEMMA RowActions ==
    ASSUME IInv, NEW e \in Rows,
           \/ EnqueueWebhook(e) \/ EnqueueNotification(e)
           \/ Replay(e) \/ WaitEnds(e)
    PROVE  IInv'
<1>0. /\ row[e] \in Row /\ sends[e] \in Nat /\ replays \in 0..MaxReplays
      /\ row[e].attempts <= sends[e] /\ MaxReplays \in Nat
  BY BoundAssumption, AttemptsAssumption DEF IInv, TypeOK, Counted
<1>1. CASE EnqueueWebhook(e)
  BY <1>0, <1>1, RowStep, AttemptsAssumption
  DEF EnqueueWebhook, Pending, Row, Statuses, NextAttempts
<1>2. CASE EnqueueNotification(e)
  <2>1. CASE SetRow(e, Pending(0, "null"))
    BY <1>0, <1>2, <2>1, RowStep, AttemptsAssumption
    DEF EnqueueNotification, Pending, Row, Statuses, NextAttempts
  <2>2. CASE SetRow(e, [Absent EXCEPT !.status = "skipped"])
    BY <1>0, <1>2, <2>2, RowStep, AttemptsAssumption
    DEF EnqueueNotification, Absent, Row, Statuses, NextAttempts, Taken
  <2> QED BY <1>2, <2>1, <2>2 DEF EnqueueNotification
<1>3. CASE Replay(e)
  BY <1>0, <1>3, RowStep, AttemptsAssumption
  DEF Replay, Pending, Row, Statuses, NextAttempts
<1>4. CASE WaitEnds(e)
  <2> DEFINE r == [row[e] EXCEPT !.next = "now"]
  <2>1. /\ r \in Row /\ r.status = row[e].status /\ r.attempts = row[e].attempts
    BY <1>0 DEF Row, NextAttempts
  <2>2. SetRow(e, r) BY <1>4 DEF WaitEnds, SetRow, IInv, TypeOK
  <2>3. r.status = "pending" => r.attempts < MaxAttempts
    BY <2>1 DEF IInv, PendingBelowLimit
  <2>4. Taken(e) => r.status \notin {"absent", "skipped"}
    BY <2>1 DEF Taken
  <2> QED BY <1>0, <1>4, <2>1, <2>2, <2>3, <2>4, RowStep DEF WaitEnds
<1> QED BY <1>1, <1>2, <1>3, <1>4

-----------------------------------------------------------------------------
\* The start of a tick: a copy of every due row.
LEMMA StartTickIInv ==
    ASSUME IInv, NEW d \in Dispatchers, StartTick(d)
    PROVE  IInv'
<1>1. PICK kind \in {Webhooks, Notifications} :
        tick' = [tick EXCEPT ![d].batch = [e \in Due(kind) |-> row[e].attempts]]
  BY DEF StartTick
<1> DEFINE b == [e \in Due(kind) |-> row[e].attempts]
<1>2. /\ Due(kind) \subseteq Rows
      /\ \A e \in Due(kind) :
           /\ Taken(e) /\ b[e] \in 0..MaxAttempts
           /\ b[e] <= sends[e] /\ b[e] < MaxAttempts
  BY DEF Due, Rows, IInv, TypeOK, Row, PendingBelowLimit, Counted, Taken
<1>3. b \in Batches
  BY <1>2, BatchOf
<1>4. /\ tick'[d].batch = b
      /\ tick'[d].item = NoItem /\ tick'[d].answer = "none"
      /\ \A x \in Dispatchers \ {d} : tick'[x] = tick[x]
  BY <1>1, IdleShape DEF StartTick, IInv, TypeOK
<1>5. TypeOK'
  <2>1. [tick[d] EXCEPT !.batch = b]
          \in [batch : Batches, item : Rows \cup {NoItem}, answer : Answers]
    BY <1>3 DEF IInv, TypeOK
  <2> QED BY <1>1, <2>1 DEF StartTick, IInv, TypeOK, history
<1>6. PendingBelowLimit'
  BY DEF StartTick, IInv, PendingBelowLimit
<1>7. InHand' /\ Truthful'
  BY <1>4 DEF StartTick, IInv, InHand, Truthful, TellsTruth, Copies, history
<1>8. Counted'
  <2>1. \A e \in Rows : row'[e].attempts <= sends'[e]
    BY DEF StartTick, IInv, Counted, history
  <2>2. ASSUME NEW x \in Dispatchers, NEW e \in Copies(x)'
        PROVE  /\ Taken(e)' /\ tick'[x].batch[e] <= sends'[e]
               /\ Unsettled(x, e)' => tick'[x].batch[e] < MaxAttempts
    <3>1. CASE x = d
      BY <1>2, <1>4, <2>2, <3>1 DEF StartTick, Copies, Taken, history
    <3>2. CASE x # d
      BY <1>4, <2>2, <3>2
      DEF StartTick, IInv, Counted, Copies, Taken, Unsettled, history
    <3> QED BY <3>1, <3>2
  <2> QED BY <2>1, <2>2 DEF Counted
<1> QED BY <1>5, <1>6, <1>7, <1>8 DEF IInv

-----------------------------------------------------------------------------
\* A send: what is received, refused and sent only grows.
LEMMA SendIInv ==
    ASSUME IInv, NEW d \in Dispatchers, NEW e \in Rows, Send(d, e)
    PROVE  IInv'
<1>1. PICK answer \in {"ok", "refused", "failed"} :
        /\ tick' = [tick EXCEPT ![d].item = e, ![d].answer = answer]
        /\ answer = "ok" => received' = received \cup {e}
        /\ answer = "failed" => received' \in {received, received \cup {e}}
        /\ answer = "refused" => received' = received
        /\ refused' = IF answer = "refused" THEN refused \cup {e} ELSE refused
  BY DEF Send
<1>2. /\ received \subseteq received' /\ refused \subseteq refused'
      /\ received' \subseteq Rows /\ refused' \subseteq Rows
  BY <1>1 DEF IInv, TypeOK
<1>3. /\ sends' \in [Rows -> 0..MaxAttempts]
      /\ \A x \in Rows : sends[x] <= sends'[x]
      /\ sends'[e] = IF sends[e] < MaxAttempts THEN sends[e] + 1 ELSE sends[e]
      /\ \A x \in Rows : sends[x] = MaxAttempts => sends'[x] = MaxAttempts
  BY AttemptsAssumption DEF Send, IInv, TypeOK
<1>4. /\ tick'[d].item = e /\ tick'[d].answer = answer
      /\ tick'[d].batch = tick[d].batch
      /\ \A x \in Dispatchers \ {d} : tick'[x] = tick[x]
  BY <1>1 DEF IInv, TypeOK
<1>5. /\ e \in Copies(d) /\ tick[d].item = NoItem /\ tick[d].answer = "none"
      /\ tick[d].batch[e] < MaxAttempts /\ tick[d].batch[e] <= sends[e]
      /\ tick[d].batch[e] \in Nat
  <2>1. e \in Copies(d) /\ tick[d].item = NoItem /\ tick[d].answer = "none"
    BY DEF Send, Copies, IInv, InHand
  <2>2. tick[d].batch \in Batches BY DEF IInv, TypeOK
  <2>3. tick[d].batch[e] \in 0..MaxAttempts
    BY <2>1, <2>2, BatchShape DEF Copies
  <2> QED BY <2>1, <2>3 DEF IInv, Counted, Unsettled
<1>6. TypeOK'
  <2>1. [tick[d] EXCEPT !.item = e, !.answer = answer]
          \in [batch : Batches, item : Rows \cup {NoItem}, answer : Answers]
    BY DEF IInv, TypeOK, Answers
  <2>2. tick' = [tick EXCEPT ![d] = [tick[d] EXCEPT !.item = e, !.answer = answer]]
    BY <1>1
  <2> QED BY <1>2, <1>3, <2>1, <2>2 DEF Send, IInv, TypeOK
<1>7. PendingBelowLimit'
  BY DEF Send, IInv, PendingBelowLimit
<1>8. InHand'
  BY <1>4, <1>5, RowsAssumption DEF IInv, InHand, Copies, Rows
<1>9. Truthful'
  <2>1. TellsTruth(d)'
    <3>1. tick[d].batch[e] + 1 <= sends'[e]
      BY <1>3, <1>5, AttemptsAssumption DEF IInv, TypeOK
    <3>2. CASE answer = "failed"
      BY <1>4, <3>1, <3>2 DEF TellsTruth
    <3>3. CASE answer # "failed"
      BY <1>1, <1>4, <3>3 DEF TellsTruth
    <3> QED BY <3>2, <3>3
  <2>2. ASSUME NEW x \in Dispatchers \ {d} PROVE TellsTruth(x)'
    <3>1. TellsTruth(x) /\ tick'[x] = tick[x]
      BY <1>4 DEF IInv, Truthful
    <3>2. CASE tick[x].item = NoItem
      BY <3>1, <3>2 DEF TellsTruth, IInv, InHand
    <3>3. CASE tick[x].item # NoItem
      <4> DEFINE f == tick[x].item
      <4>1. f \in Rows /\ tick[x].batch[f] \in Nat
        BY <3>3, BatchShape DEF IInv, InHand, Copies, TypeOK
      <4>2. sends[f] <= sends'[f] /\ sends[f] \in Nat /\ sends'[f] \in Nat
        BY <1>3, <4>1, AttemptsAssumption DEF IInv, TypeOK
      <4> QED BY <1>2, <1>3, <3>1, <4>1, <4>2 DEF TellsTruth
    <3> QED BY <3>2, <3>3
  <2> QED BY <2>1, <2>2 DEF Truthful
<1>10. Counted'
  <2>1. \A x \in Rows : row'[x].attempts <= sends'[x]
    BY <1>3, AttemptsAssumption DEF Send, IInv, Counted, TypeOK, Row
  <2>2. ASSUME NEW x \in Dispatchers, NEW f \in Copies(x)'
        PROVE  /\ Taken(f)' /\ tick'[x].batch[f] <= sends'[f]
               /\ Unsettled(x, f)' => tick'[x].batch[f] < MaxAttempts
    <3>1. f \in Copies(x) /\ tick'[x].batch = tick[x].batch
      BY <1>4 DEF Copies
    <3>2. f \in Rows /\ tick[x].batch[f] \in Nat
      BY <3>1, BatchShape DEF Copies, IInv, TypeOK
    <3>3. Unsettled(x, f)' => Unsettled(x, f)
      BY <1>4, <1>5 DEF Unsettled
    <3> QED BY <1>3, <3>1, <3>2, <3>3, AttemptsAssumption
        DEF Send, IInv, Counted, Taken, TypeOK
  <2> QED BY <2>1, <2>2 DEF Counted
<1> QED BY <1>6, <1>7, <1>8, <1>9, <1>10 DEF IInv

-----------------------------------------------------------------------------
\* The end of an item: its row is saved, its copy leaves the batch.
LEMMA SaveIInv ==
    ASSUME IInv, NEW d \in Dispatchers, tick[d].item # NoItem,
           NEW r \in Row, SetRow(tick[d].item, r), Done(d),
           r.attempts <= sends[tick[d].item],
           r.status = "pending" => r.attempts < MaxAttempts,
           r.status \notin {"absent", "skipped"},
           UNCHANGED <<history, replays, stops>>
    PROVE  IInv'
<1> DEFINE e == tick[d].item
           b == [x \in Copies(d) \ {e} |-> tick[d].batch[x]]
<1>1. e \in Copies(d) /\ Copies(d) \subseteq Rows
      /\ tick[d].batch \in [Copies(d) -> 0..MaxAttempts]
  BY BatchShape DEF IInv, InHand, Copies, TypeOK
<1>2. b \in Batches
  BY <1>1, BatchOf
<1>3. /\ tick'[d].batch = b
      /\ tick'[d].item = NoItem /\ tick'[d].answer = "none"
      /\ \A x \in Dispatchers \ {d} : tick'[x] = tick[x]
  BY DEF Done, IInv, TypeOK, Copies
<1>4. TypeOK'
  <2>1. [batch |-> b, item |-> NoItem, answer |-> "none"]
          \in [batch : Batches, item : Rows \cup {NoItem}, answer : Answers]
    BY <1>2 DEF Answers
  <2>2. tick' = [tick EXCEPT ![d] = [batch |-> b, item |-> NoItem, answer |-> "none"]]
    BY DEF Done, Copies
  <2>3. row' \in [Rows -> Row] BY DEF SetRow, IInv, TypeOK
  <2> QED BY <2>1, <2>2, <2>3 DEF IInv, TypeOK, history
<1>5. PendingBelowLimit'
  BY <1>1 DEF IInv, TypeOK, PendingBelowLimit, SetRow
<1>6. InHand' /\ Truthful'
  BY <1>3 DEF IInv, InHand, Truthful, TellsTruth, Copies, history
<1>7. Counted'
  <2>1. \A x \in Rows : row'[x].attempts <= sends'[x]
    BY <1>1 DEF SetRow, IInv, Counted, TypeOK, history
  <2>2. \A x \in Rows : Taken(x) => Taken(x)'
    BY <1>1 DEF SetRow, IInv, TypeOK, Taken
  <2>3. ASSUME NEW x \in Dispatchers, NEW f \in Copies(x)'
        PROVE  /\ Taken(f)' /\ tick'[x].batch[f] <= sends'[f]
               /\ Unsettled(x, f)' => tick'[x].batch[f] < MaxAttempts
    <3>1. CASE x = d
      <4>1. f \in Copies(d) \ {e} /\ tick'[x].batch[f] = tick[d].batch[f]
        BY <1>3, <2>3, <3>1 DEF Copies
      <4>2. Unsettled(d, f) BY <4>1 DEF Unsettled
      <4> QED BY <1>1, <2>2, <3>1, <4>1, <4>2 DEF IInv, Counted, history
    <3>2. CASE x # d
      <4>1. tick'[x] = tick[x] /\ f \in Copies(x)
        BY <1>3, <2>3, <3>2 DEF Copies
      <4>2. f \in Rows BY <4>1, BatchShape DEF Copies, IInv, TypeOK
      <4> QED BY <2>2, <4>1, <4>2 DEF IInv, Counted, Unsettled, history
    <3> QED BY <3>1, <3>2
  <2> QED BY <2>1, <2>3 DEF Counted
<1> QED BY <1>4, <1>5, <1>6, <1>7 DEF IInv

\* What a tick knows of the item it has in hand.
LEMMA ItemFacts ==
    ASSUME IInv, NEW d \in Dispatchers, tick[d].answer # "none"
    PROVE  LET e == tick[d].item
               n == tick[d].batch[e] IN
           /\ e # NoItem /\ e \in Rows /\ e \in Copies(d) /\ Taken(e)
           /\ n \in 0..MaxAttempts /\ n <= sends[e] /\ sends[e] \in 0..MaxAttempts
           /\ tick[d].answer # "dead" => n < MaxAttempts
           /\ TellsTruth(d)
<1> DEFINE e == tick[d].item
<1>1. e # NoItem /\ e \in Copies(d)
  BY DEF IInv, InHand
<1>2. e \in Rows /\ tick[d].batch[e] \in 0..MaxAttempts
  BY <1>1, BatchShape DEF Copies, IInv, TypeOK
<1> QED BY <1>1, <1>2 DEF IInv, TypeOK, Counted, Truthful, Unsettled

LEMMA SaveActions ==
    ASSUME IInv, NEW d \in Dispatchers,
           SaveSuccess(d) \/ SaveRetry(d) \/ SaveDeadAgain(d)
    PROVE  IInv'
<1>1. CASE SaveSuccess(d)
  <2> DEFINE n == tick[d].batch[tick[d].item]
  <2>1. n \in 0..MaxAttempts /\ n <= sends[tick[d].item]
        /\ tick[d].item # NoItem
    BY <1>1, ItemFacts DEF SaveSuccess, Accepted
  <2>2. Success(n) \in Row
    BY <2>1 DEF Success, Row, Statuses, NextAttempts
  <2>3. Success(n).attempts = n /\ Success(n).status = "success"
    BY DEF Success
  <2>4. /\ SetRow(tick[d].item, Success(n)) /\ Done(d)
        /\ UNCHANGED <<history, replays, stops>>
    BY <1>1 DEF SaveSuccess
  <2> HIDE DEF n
  <2> QED BY <2>1, <2>2, <2>3, <2>4, SaveIInv
<1>2. CASE SaveRetry(d)
  <2> DEFINE n == Failed(d)
  <2>1. n \in 0..MaxAttempts /\ n < MaxAttempts /\ n <= sends[tick[d].item]
    <3>1. tick[d].answer = "failed" /\ n < MaxAttempts
      BY <1>2 DEF SaveRetry, TriesLeft
    <3>2. /\ tick[d].batch[tick[d].item] \in 0..MaxAttempts
          /\ TellsTruth(d)
      BY <3>1, ItemFacts
    <3>3. n <= sends[tick[d].item]
      BY <3>1, <3>2 DEF TellsTruth, Failed
    <3> QED BY <3>1, <3>2, <3>3, AttemptsAssumption DEF Failed
  <2>2. Backoff(n) \in Row
    BY <2>1 DEF Backoff, Pending, Row, Statuses, NextAttempts
  <2>3. tick[d].item # NoItem
    BY <1>2, ItemFacts DEF SaveRetry
  <2>4. /\ Backoff(n).attempts = n
        /\ Backoff(n).status \notin {"absent", "skipped"}
    BY DEF Backoff, Pending
  <2> QED BY <1>2, <2>1, <2>2, <2>3, <2>4, SaveIInv DEF SaveRetry
<1>3. CASE SaveDeadAgain(d)
  BY <1>3, ItemFacts, SaveIInv
  DEF SaveDeadAgain, Dead, Row, Statuses, NextAttempts
<1> QED BY <1>1, <1>2, <1>3

\* deadLetter: the copy stays in the batch until it is saved once more.
LEMMA SaveDeadIInv ==
    ASSUME IInv, NEW d \in Dispatchers, SaveDead(d)
    PROVE  IInv'
<1> DEFINE e == tick[d].item
           n == IF tick[d].answer = "refused" THEN tick[d].batch[e] ELSE Failed(d)
           b == [tick[d].batch EXCEPT ![e] = n]
<1>1. /\ e # NoItem /\ e \in Rows /\ e \in Copies(d) /\ Taken(e)
      /\ n \in 0..MaxAttempts /\ n <= sends[e]
      /\ e \in refused \/ sends[e] = MaxAttempts
  <2>1. CASE tick[d].answer = "refused"
    BY <2>1, ItemFacts DEF TellsTruth
  <2>2. CASE tick[d].answer = "failed" /\ ~TriesLeft(Failed(d))
    BY <2>2, ItemFacts, AttemptsAssumption DEF TellsTruth, Failed, TriesLeft
  <2> QED BY <2>1, <2>2 DEF SaveDead
<1>2. /\ tick' = [tick EXCEPT ![d].answer = "dead", ![d].batch[e] = n]
      /\ SetRow(e, Dead(n)) /\ UNCHANGED <<history, replays, stops>>
  BY DEF SaveDead
<1>3. tick[d].batch \in [Copies(d) -> 0..MaxAttempts] /\ Copies(d) \subseteq Rows
  BY BatchShape DEF Copies, IInv, TypeOK
<1>4. b \in [Copies(d) -> 0..MaxAttempts] /\ b \in Batches
  BY <1>1, <1>3, BatchOf
<1>5. /\ tick'[d].batch = b /\ tick'[d].answer = "dead" /\ tick'[d].item = e
      /\ \A x \in Dispatchers \ {d} : tick'[x] = tick[x]
  BY <1>2 DEF IInv, TypeOK
<1>6. Dead(n) \in Row /\ Dead(n).status = "dead" /\ Dead(n).attempts = n
  BY <1>1 DEF Dead, Row, Statuses, NextAttempts
<1>7. row' = [row EXCEPT ![e] = Dead(n)]
  BY <1>2 DEF SetRow
<1>8. TypeOK'
  <2>1. [tick[d] EXCEPT !.answer = "dead", !.batch = b]
          \in [batch : Batches, item : Rows \cup {NoItem}, answer : Answers]
    BY <1>4 DEF Answers, IInv, TypeOK
  <2>2. tick' = [tick EXCEPT ![d] = [tick[d] EXCEPT !.answer = "dead", !.batch = b]]
    BY <1>2
  <2>3. row' \in [Rows -> Row] BY <1>6, <1>7 DEF IInv, TypeOK
  <2> QED BY <1>2, <2>1, <2>2, <2>3 DEF IInv, TypeOK, history
<1>9. PendingBelowLimit'
  BY <1>6, <1>7 DEF IInv, TypeOK, PendingBelowLimit
<1>10. InHand'
  BY <1>1, <1>3, <1>4, <1>5 DEF IInv, InHand, Copies
<1>11. Truthful'
  <2>1. TellsTruth(d)'
    <3> HIDE DEF e, n, b
    <3> QED BY <1>1, <1>2, <1>5 DEF TellsTruth, history
  <2>2. ASSUME NEW x \in Dispatchers \ {d} PROVE TellsTruth(x)'
    <3>1. TellsTruth(x) /\ tick'[x] = tick[x] /\ UNCHANGED history
      BY <1>2, <1>5 DEF IInv, Truthful
    <3> HIDE DEF e, n, b
    <3> QED BY <3>1 DEF TellsTruth, history
  <2> QED BY <2>1, <2>2 DEF Truthful
<1>12. Counted'
  <2>1. \A x \in Rows : row'[x].attempts <= sends'[x]
    BY <1>1, <1>2, <1>6, <1>7 DEF IInv, Counted, TypeOK, history
  <2>2. \A x \in Rows : Taken(x) => Taken(x)'
    BY <1>6, <1>7 DEF IInv, TypeOK, Taken
  <2>3. ASSUME NEW x \in Dispatchers, NEW f \in Copies(x)'
        PROVE  /\ Taken(f)' /\ tick'[x].batch[f] <= sends'[f]
               /\ Unsettled(x, f)' => tick'[x].batch[f] < MaxAttempts
    <3>1. CASE x = d /\ f = e
      BY <1>1, <1>2, <1>3, <1>5, <2>2, <3>1 DEF Unsettled, history
    <3>2. CASE x = d /\ f # e
      <4>1. f \in Copies(d) /\ tick'[x].batch[f] = tick[d].batch[f]
        BY <1>3, <1>4, <1>5, <2>3, <3>2 DEF Copies
      <4>2. Unsettled(d, f) BY <3>2 DEF Unsettled
      <4> QED BY <1>2, <1>3, <2>2, <3>2, <4>1, <4>2 DEF IInv, Counted, history
    <3>3. CASE x # d
      <4>1. tick'[x] = tick[x] /\ f \in Copies(x)
        BY <1>5, <2>3, <3>3 DEF Copies
      <4>2. f \in Rows BY <4>1, BatchShape DEF Copies, IInv, TypeOK
      <4> QED BY <1>2, <2>2, <4>1, <4>2 DEF IInv, Counted, Unsettled, history
    <3> QED BY <3>1, <3>2, <3>3
  <2> QED BY <2>1, <2>3 DEF Counted
<1> QED BY <1>8, <1>9, <1>10, <1>11, <1>12 DEF IInv

LEMMA StopIInv ==
    ASSUME IInv, NEW d \in Dispatchers, Stop(d)
    PROVE  IInv'
<1>1. /\ tick'[d] = Idle
      /\ \A x \in Dispatchers \ {d} : tick'[x] = tick[x]
      /\ UNCHANGED <<row, history, replays>>
  BY DEF Stop, IInv, TypeOK
<1>2. TypeOK'
  BY <1>1, IdleShape, BoundAssumption DEF Stop, IInv, TypeOK, history
<1>3. PendingBelowLimit'
  BY <1>1 DEF IInv, PendingBelowLimit
<1>4. InHand' /\ Truthful'
  BY <1>1, IdleShape DEF IInv, InHand, Truthful, TellsTruth, Copies, history
<1>5. Counted'
  BY <1>1, IdleShape DEF IInv, Counted, Copies, Taken, Unsettled, history
<1> QED BY <1>2, <1>3, <1>4, <1>5 DEF IInv

LEMMA StepIInv == IInv /\ [Next]_vars => IInv'
<1> SUFFICES ASSUME IInv, [Next]_vars PROVE IInv' OBVIOUS
<1>1. ASSUME NEW e \in Webhooks, EnqueueWebhook(e) PROVE IInv'
  BY <1>1, RowActions DEF Rows
<1>2. ASSUME NEW e \in Notifications, EnqueueNotification(e) PROVE IInv'
  BY <1>2, RowActions DEF Rows
<1>3. ASSUME NEW e \in Rows, Replay(e) \/ WaitEnds(e) PROVE IInv'
  BY <1>3, RowActions
<1>4. ASSUME NEW d \in Dispatchers, Dispatch(d) PROVE IInv'
  BY <1>4, StartTickIInv, SendIInv, SaveActions, SaveDeadIInv DEF Dispatch
<1>5. ASSUME NEW d \in Dispatchers, Stop(d) PROVE IInv'
  BY <1>5, StopIInv
<1>6. CASE UNCHANGED vars
  BY <1>6 DEF vars, history, IInv, TypeOK, PendingBelowLimit, InHand, Truthful,
              TellsTruth, Counted, Copies, Taken, Unsettled
<1> QED BY <1>1, <1>2, <1>3, <1>4, <1>5, <1>6 DEF Next

LEMMA Inductive == Spec => []IInv
BY InitIInv, StepIInv, PTL DEF Spec

\* The rows and the ticks keep their shape, for any number of overlapping
\* ticks (processDue of both dispatchers).
THEOREM TypeCorrect == Spec => []TypeOK
BY Inductive, PTL DEF IInv

\* No stale save leaves a waiting row without an attempt left, so the check
\* before a send (attempts-exhausted-before-send) never applies.
THEOREM AttemptsLeft == Spec => []PendingBelowLimit
BY Inductive, PTL DEF IInv

-----------------------------------------------------------------------------
\* Refinement: saving a row settles its message, or changes nothing of it.
LEMMA SaveRefines ==
    ASSUME IInv, NEW e \in Rows, Taken(e), NEW r, SetRow(e, r),
           UNCHANGED history,
           \/ r.status = "pending"
           \/ r.status = "success" /\ e \in received
           \/ r.status = "dead" /\ (e \in refused \/ sends[e] = MaxAttempts)
    PROVE  Delivery!Next
<1> DEFINE b == [x \in Rows |-> row[x].status]
<1>1. [x \in Rows |-> row[x].status]' = [b EXCEPT ![e] = r.status]
  BY DEF SetRow, IInv, TypeOK
<1>2. b[e] \notin {"absent", "skipped"}
  BY DEF Taken
<1>3. Delivery!Settle(e)
  BY <1>1, <1>2 DEF Delivery!Settle, history
<1> QED BY <1>3 DEF Delivery!Next

LEMMA TakeRefines ==
    ASSUME IInv, NEW e \in Rows, row[e] = Absent, NEW r, SetRow(e, r),
           UNCHANGED history, r.status \in {"pending", "skipped"}
    PROVE  Delivery!Next
<1> DEFINE b == [x \in Rows |-> row[x].status]
<1>1. [x \in Rows |-> row[x].status]' = [b EXCEPT ![e] = r.status]
  BY DEF SetRow, IInv, TypeOK
<1>2. b[e] = "absent"
  BY DEF Absent
<1>3. Delivery!Take(e)
  BY <1>1, <1>2 DEF Delivery!Take, history
<1> QED BY <1>3 DEF Delivery!Next

LEMMA SendRefines ==
    ASSUME IInv, NEW d \in Dispatchers, NEW e \in Rows, Send(d, e)
    PROVE  Delivery!Next
<1> DEFINE b == [x \in Rows |-> row[x].status]
<1>1. b[e] \notin {"absent", "skipped"}
  BY DEF Send, IInv, Counted, Copies, Taken
<1>2. sends' = [sends EXCEPT ![e] = Delivery!Tried(e)]
  <2>1. Delivery!Tried(e) = IF sends[e] < MaxAttempts THEN sends[e] + 1 ELSE sends[e]
    BY AttemptsAssumption DEF IInv, TypeOK, Delivery!Tried
  <2> QED BY <2>1 DEF Send
<1>3. \/ received' \in {received, received \cup {e}} /\ UNCHANGED refused
      \/ refused' = refused \cup {e} /\ UNCHANGED received
  BY DEF Send
<1>4. Delivery!Try(e)
  BY <1>1, <1>2, <1>3 DEF Delivery!Try, Send
<1> QED BY <1>4 DEF Delivery!Next

LEMMA StepRefines ==
    IInv /\ [Next]_vars => [Delivery!Next]_(Delivery!vars)
<1> SUFFICES ASSUME IInv, [Next]_vars
             PROVE  Delivery!Next \/ UNCHANGED Delivery!vars
  OBVIOUS
<1>0. ASSUME UNCHANGED <<row, history>> PROVE UNCHANGED Delivery!vars
  BY <1>0 DEF Delivery!vars, history
<1>1. ASSUME NEW e \in Webhooks, EnqueueWebhook(e) PROVE Delivery!Next
  BY <1>1, TakeRefines DEF EnqueueWebhook, Pending, Rows
<1>2. ASSUME NEW e \in Notifications, EnqueueNotification(e)
      PROVE  Delivery!Next
  BY <1>2, TakeRefines DEF EnqueueNotification, Pending, Absent, Rows
<1>3. ASSUME NEW e \in Rows, Replay(e) PROVE Delivery!Next
  BY <1>3, SaveRefines DEF Replay, Pending, Taken
<1>4. ASSUME NEW e \in Rows, WaitEnds(e) PROVE UNCHANGED Delivery!vars
  <2>1. [x \in Rows |-> row[x].status]' = [x \in Rows |-> row[x].status]
    BY <1>4 DEF WaitEnds, IInv, TypeOK, Row
  <2> QED BY <1>4, <2>1 DEF WaitEnds, Delivery!vars, history
<1>5. ASSUME NEW d \in Dispatchers, Dispatch(d)
      PROVE  Delivery!Next \/ UNCHANGED Delivery!vars
  <2>1. CASE StartTick(d)
    BY <1>0, <2>1 DEF StartTick
  <2>2. CASE \E e \in Rows : Send(d, e)
    BY <2>2, SendRefines
  <2>3. CASE SaveSuccess(d)
    BY <2>3, ItemFacts, SaveRefines DEF SaveSuccess, Accepted, Success, TellsTruth
  <2>4. CASE SaveRetry(d)
    BY <2>4, ItemFacts, SaveRefines DEF SaveRetry, Backoff, Pending
  <2>5. CASE SaveDead(d)
    <3>1. tick[d].answer # "none" /\ tick[d].answer # "dead"
      BY <2>5 DEF SaveDead
    <3>2. tick[d].item \in refused \/ sends[tick[d].item] = MaxAttempts
      BY <2>5, ItemFacts, AttemptsAssumption
      DEF SaveDead, TellsTruth, Failed, TriesLeft
    <3> QED BY <2>5, <3>1, <3>2, ItemFacts, SaveRefines DEF SaveDead, Dead
  <2>6. CASE SaveDeadAgain(d)
    BY <2>6, ItemFacts, SaveRefines DEF SaveDeadAgain, Dead, TellsTruth
  <2> QED BY <1>5, <2>1, <2>2, <2>3, <2>4, <2>5, <2>6 DEF Dispatch
<1>6. ASSUME NEW d \in Dispatchers, Stop(d) PROVE UNCHANGED Delivery!vars
  BY <1>0, <1>6 DEF Stop
<1>7. CASE UNCHANGED vars
  BY <1>0, <1>7 DEF vars
<1> QED BY <1>1, <1>2, <1>3, <1>4, <1>5, <1>6, <1>7 DEF Next

\* The dispatchers keep the promise of their comments for any rows, limit and
\* overlap of ticks: what is called a success was received, what is given up
\* was refused or tried as often as the limit says.
THEOREM Implements == Spec => DeliversAtLeastOnce
<1>1. Init => Delivery!Init
  BY DEF Init, Delivery!Init, Absent
<1> QED
  BY <1>1, Inductive, StepRefines, PTL DEF Spec, DeliversAtLeastOnce, Delivery!Spec
=============================================================================
