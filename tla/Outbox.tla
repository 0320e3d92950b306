------------------------------- MODULE Outbox -------------------------------
(***************************************************************************)
(* The two outboxes: webhook_outbox with webhook-dispatcher.service.ts,    *)
(* and notification_outbox with notification-dispatcher.service.ts, whose  *)
(* loop is a copy of the first one.  Both are emptied by a cron job every  *)
(* 10 seconds, and dead letters are replayed through dlq-admin.controller. *)
(*                                                                         *)
(* Neither job waits for the previous one to end and no row is locked: a   *)
(* tick loads all due rows, sends them one by one and saves the copy it    *)
(* loaded after each answer.  The limit of five attempts is MaxAttempts;   *)
(* time is a row's wait that ends.  A row at the limit is never loaded     *)
(* (PendingBelowLimit), so the loop's own check of it is left out.         *)
(*                                                                         *)
(* TimeoutAccepted and RetriesLater are faulty variants, used only to show *)
(* that the properties notice them.                                        *)
(***************************************************************************)
EXTENDS Integers

CONSTANTS
    Webhooks,       \* ids of webhook_outbox rows
    Notifications,  \* ids of notification_outbox rows
    Dispatchers,    \* ticks that may overlap, of one instance or of several
    NoItem,         \* a dispatcher between two sends
    MaxAttempts,    \* MAX_WEBHOOK_ATTEMPTS, 5 in the code
    MaxReplays,     \* bound on the replays of dead letters
    MaxStops        \* bound on the ticks that are cut off

ASSUME RowsAssumption ==
    Webhooks \cap Notifications = {} /\ NoItem \notin Webhooks \cup Notifications
ASSUME AttemptsAssumption == MaxAttempts \in Nat \ {0}
ASSUME BoundAssumption == MaxReplays \in Nat /\ MaxStops \in Nat

VARIABLES
    row,       \* status, attempts and nextAttemptAt of each row
    tick,      \* the dispatchers: copies still to handle, item, its answer
    received,  \* external: rows whose message reached its receiver
    refused,   \* external: rows whose message the receiver refused
    sends,     \* how often each row was sent, up to MaxAttempts
    replays,   \* how many dead letters were replayed
    stops      \* how many ticks were cut off

history == <<received, refused, sends>>
vars == <<row, tick, history, replays, stops>>

Rows == Webhooks \cup Notifications
Statuses == {"absent", "skipped", "pending", "success", "dead"}
NextAttempts == {"null", "later", "now"}
Row == [status : Statuses, attempts : 0..MaxAttempts, next : NextAttempts]
Answers == {"none", "ok", "refused", "failed", "dead"}
Idle == [batch |-> [e \in {} |-> 0], item |-> NoItem, answer |-> "none"]

Absent == [status |-> "absent", attempts |-> 0, next |-> "null"]
Pending(n, next) == [status |-> "pending", attempts |-> n, next |-> next]
Success(n) == [status |-> "success", attempts |-> n, next |-> "null"]
Dead(n) == [status |-> "dead", attempts |-> n, next |-> "null"]

Init ==
    /\ row = [e \in Rows |-> Absent]
    /\ tick = [d \in Dispatchers |-> Idle]
    /\ received = {}
    /\ refused = {}
    /\ sends = [e \in Rows |-> 0]
    /\ replays = 0
    /\ stops = 0

SetRow(e, r) == row' = [row EXCEPT ![e] = r]

-----------------------------------------------------------------------------
\* enqueue of the webhook dispatcher: due at once.
EnqueueWebhook(e) ==
    /\ row[e] = Absent
    /\ SetRow(e, Pending(0, "now"))
    /\ UNCHANGED <<tick, history, replays, stops>>

\* enqueue of the notification dispatcher: nextAttemptAt is saved as null; a
\* user without openid gets a row that is never sent.
EnqueueNotification(e) ==
    /\ row[e] = Absent
    /\ SetRow(e, Pending(0, "null")) \/ SetRow(e, [Absent EXCEPT !.status = "skipped"])
    /\ UNCHANGED <<tick, history, replays, stops>>

\* status = pending and nextAttemptAt <= now, which no null satisfies.
Due(kind) == {e \in kind : row[e].status = "pending" /\ row[e].next = "now"}

StartTick(d) ==
    /\ tick[d] = Idle
    /\ \E kind \in {Webhooks, Notifications} :
         /\ Due(kind) # {}
         /\ tick' = [tick EXCEPT ![d].batch =
                       [e \in Due(kind) |-> row[e].attempts]]
    /\ UNCHANGED <<row, history, replays, stops>>

\* What the dispatcher makes of the answer: 2xx, 4xx, anything else.  A call
\* that was accepted may still time out.
TimeoutAccepted(answer) == answer \in {"ok", "failed"}
Accepted(answer) == answer = "ok"

Send(d, e) ==
    /\ tick[d].item = NoItem
    /\ e \in DOMAIN tick[d].batch
    /\ sends' = [sends EXCEPT ![e] = IF @ < MaxAttempts THEN @ + 1 ELSE @]
    /\ \E answer \in {"ok", "refused", "failed"} :
         /\ tick' = [tick EXCEPT ![d].item = e, ![d].answer = answer]
         /\ CASE answer = "ok" -> received' = received \cup {e}
              [] answer = "failed" -> received' \in {received, received \cup {e}}
              [] answer = "refused" -> received' = received
         /\ refused' = IF answer = "refused" THEN refused \cup {e} ELSE refused
    /\ UNCHANGED <<row, replays, stops>>

\* The loop goes on to its next item; without one the tick ends.
Done(d) ==
    tick' = [tick EXCEPT ![d] =
      [batch |-> [e \in DOMAIN tick[d].batch \ {tick[d].item} |-> tick[d].batch[e]],
       item |-> NoItem, answer |-> "none"]]

\* Failures that the copy counts with this one, and whether another try is left.
Failed(d) == tick[d].batch[tick[d].item] + 1
TriesLeft(n) == n < MaxAttempts

SaveSuccess(d) ==
    LET e == tick[d].item IN
    /\ Accepted(tick[d].answer)
    /\ SetRow(e, Success(tick[d].batch[e]))
    /\ Done(d)
    /\ UNCHANGED <<history, replays, stops>>

RetriesLater(n) == Pending(n, "null")
Backoff(n) == Pending(n, "later")
SaveRetry(d) ==
    /\ tick[d].answer = "failed" /\ ~Accepted("failed")
    /\ TriesLeft(Failed(d))
    /\ SetRow(tick[d].item, Backoff(Failed(d)))
    /\ Done(d)
    /\ UNCHANGED <<history, replays, stops>>

\* deadLetter saves the copy and sends an alert, ...
SaveDead(d) ==
    LET e == tick[d].item
        n == IF tick[d].answer = "refused" THEN tick[d].batch[e] ELSE Failed(d) IN
    /\ \/ tick[d].answer = "refused"
       \/ tick[d].answer = "failed" /\ ~Accepted("failed") /\ ~TriesLeft(Failed(d))
    /\ SetRow(e, Dead(n))
    /\ tick' = [tick EXCEPT ![d].answer = "dead", ![d].batch[e] = n]
    /\ UNCHANGED <<history, replays, stops>>

\* ... and processDue saves it once more.
SaveDeadAgain(d) ==
    LET e == tick[d].item IN
    /\ tick[d].answer = "dead"
    /\ SetRow(e, Dead(tick[d].batch[e]))
    /\ Done(d)
    /\ UNCHANGED <<history, replays, stops>>

\* A database call throws or the process stops: the rest of the batch is left
\* to later ticks.
Stop(d) ==
    /\ stops < MaxStops
    /\ tick[d] # Idle
    /\ tick' = [tick EXCEPT ![d] = Idle]
    /\ stops' = stops + 1
    /\ UNCHANGED <<row, history, replays>>

\* replay: an UPDATE with status = dead in its condition.
Replay(e) ==
    /\ replays < MaxReplays
    /\ row[e].status = "dead"
    /\ SetRow(e, Pending(0, "now"))
    /\ replays' = replays + 1
    /\ UNCHANGED <<tick, history, stops>>

WaitEnds(e) ==
    /\ row[e].next = "later"
    /\ row' = [row EXCEPT ![e].next = "now"]
    /\ UNCHANGED <<tick, history, replays, stops>>

Dispatch(d) ==
    \/ StartTick(d)
    \/ \E e \in Rows : Send(d, e)
    \/ SaveSuccess(d)
    \/ SaveRetry(d)
    \/ SaveDead(d)
    \/ SaveDeadAgain(d)

Next ==
    \/ \E e \in Webhooks : EnqueueWebhook(e)
    \/ \E e \in Notifications : EnqueueNotification(e)
    \/ \E d \in Dispatchers : Dispatch(d) \/ Stop(d)
    \/ \E e \in Rows : Replay(e) \/ WaitEnds(e)

Spec == Init /\ [][Next]_vars

\* The cron jobs go on firing and waits end.
Fairness ==
    /\ \A d \in Dispatchers : WF_vars(Dispatch(d))
    /\ \A e \in Rows : WF_vars(WaitEnds(e))
FairSpec == Spec /\ Fairness

-----------------------------------------------------------------------------
Batches == UNION {[S -> 0..MaxAttempts] : S \in SUBSET Rows}

TypeOK ==
    /\ row \in [Rows -> Row]
    /\ tick \in [Dispatchers ->
                   [batch : Batches, item : Rows \cup {NoItem}, answer : Answers]]
    /\ received \subseteq Rows /\ refused \subseteq Rows
    /\ sends \in [Rows -> 0..MaxAttempts]
    /\ replays \in 0..MaxReplays /\ stops \in 0..MaxStops

\* No stale save leaves a row waiting that has used up its attempts, so none
\* is sent more often than its count allows and the check before a send never
\* applies (attempts-exhausted-before-send).
PendingBelowLimit ==
    \A e \in Rows : row[e].status = "pending" => row[e].attempts < MaxAttempts

\* The outboxes keep the promise of at-least-once delivery: whatever ticks
\* overlap and save stale copies, a row says success only if its message was
\* received and dead only if it was refused or tried five times.
Delivery == INSTANCE AtLeastOnce
    WITH Messages <- Rows, Limit <- MaxAttempts,
         box <- [e \in Rows |-> row[e].status],
         delivered <- received, refused <- refused, tries <- sends
DeliversAtLeastOnce == Delivery!Spec

\* Every webhook that was enqueued is received or ends as a dead letter
\* (processDue, cron every 10 s), however ticks overlap or stop.
WebhookSettles ==
    \A e \in Webhooks :
      row[e].status = "pending" ~> row[e].status # "pending" \/ e \in received
=============================================================================
