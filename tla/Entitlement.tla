----------------------------- MODULE Entitlement -----------------------------
(***************************************************************************)
(* The quota of one organisation (entitlement.service.ts): activation with *)
(* its free grant, metering of tokens, credits held for media tasks, and   *)
(* changes of the plan.                                                    *)
(*                                                                         *)
(* Every operation but the refund first brings the period up to date       *)
(* (ensureCurrentPeriod).  PostgreSQL returns bigint columns as strings,   *)
(* so that function finds the total of the period different from the       *)
(* plan's each time, and saves all columns of the row as it was read; and  *)
(* no plan is ever found to be unlimited.  Loads in a row are one step.    *)
(* A period lasts PeriodLength ticks of the clock, whatever the plan.  At  *)
(* the very instant at which it ends, the subscription is rolled (<=) and  *)
(* the period is still in force (>=).  ensureCurrentPeriod reads the clock *)
(* once, at its beginning.                                                 *)
(* Tokens and credits have the same totals here.                           *)
(*                                                                         *)
(* Unchecked, NeverInForce and AnyHold are faulty variants, used only to   *)
(* show that the properties notice them.                                   *)
(***************************************************************************)
EXTENDS Integers, FiniteSets, FiniteSetsExt

CONSTANTS
    Requests,     \* ids of concurrent HTTP requests; one takes the lowest
                  \* that is free
    Subs,         \* bound: ids of the subscriptions
    Periods,      \* bound: ids of the quota periods
    Holds,        \* the media tasks (task_id) for which credits are held
    Estimates,    \* the credits a media task is estimated to need
    Nobody,       \* no subscription, period, hold or plan
    Plans,        \* the plans
    Total,        \* the tokens, and the credits, of each plan
    FreeTotal,    \* ENTITLEMENT_FREE_TOKENS and _CREDITS
    PeriodLength, \* entitlement_plans.period_days, in ticks
    FreeLength,   \* ENTITLEMENT_FREE_VALID_DAYS, in ticks
    MaxNow,       \* bound on the time
    MaxUsage,     \* bound on the recorded usage
    MaxDisturbed  \* bound on the operations that begin during another one,
                  \* and on those that end early, together

ASSUME IdsAssumption ==
    /\ Requests \subseteq Nat \ {0}
    /\ Nobody \notin Subs \cup Periods \cup Holds \cup Plans
    /\ Periods \subseteq Nat
    /\ IsFiniteSet(Periods) /\ IsFiniteSet(Holds)
    /\ Plans # {}
ASSUME TotalAssumption ==
    /\ Total \in [Plans -> Nat] /\ FreeTotal \in Nat /\ Estimates \subseteq Nat
    /\ PeriodLength \in Nat \ {0} /\ FreeLength \in Nat \ {0}
ASSUME BoundAssumption ==
    MaxNow \in Nat /\ MaxUsage \in Nat /\ MaxDisturbed \in Nat

VARIABLES
    now,       \* the clock, in ticks
    subs,      \* the subscriptions: plan, pending plan, end of the period
    periods,   \* the periods: subscription, end, total, used
    grant,     \* the free grant: used, and until when; 0 before it exists
    holds,     \* the holds: status and estimate
    usage,     \* external: the usage that was recorded
    media,     \* external: the usage records of each hold
    req,       \* the operations under way, with what each one loaded
    stops,     \* operations that ended with an exception or a stop
    overlaps   \* operations that began while another one was under way

quota == <<periods, grant, usage>>
tables == <<subs, quota, holds, media>>
vars == <<now, tables, req, stops, overlaps>>

Units == {"tokens", "credits"}
Unused == [u \in Units |-> 0]
Used == [Units -> Nat]
Sub == [plan : Plans \cup {Nobody}, pending : Plans \cup {Nobody}, end : Nat]
Period == [sub : Subs \cup {Nobody}, end : Nat, total : Nat, used : Used]
Hold == [status : {"none", "frozen", "settled", "refunded"}, estimate : Nat]
Operations == {"none", "query", "usage", "hold", "settle", "upgrade",
               "downgrade", "refund", "activate"}
Steps == {"idle", "plan", "ensure", "find", "keep", "insert", "grant",
          "commit", "freeze", "resave", "release", "subscribe", "first", "give"}

NewSub == [plan |-> Nobody, pending |-> Nobody, end |-> 0]
NewPeriod == [sub |-> Nobody, end |-> 0, total |-> 0, used |-> Unused]
Idle == [at |-> "idle", op |-> "none", hold |-> Nobody, amount |-> 0,
         sub |-> Nobody, plan |-> Nobody, copy |-> NewSub,
         time |-> 0, period |-> Nobody, row |-> NewPeriod, free |-> 0]

Init ==
    /\ now = 0
    /\ subs = [s \in Subs |-> NewSub]
    /\ periods = [i \in Periods |-> NewPeriod]
    /\ grant = [until |-> 0, used |-> Unused]
    /\ holds = [h \in Holds |-> [status |-> "none", estimate |-> 0]]
    /\ usage = Unused
    /\ media = [h \in Holds |-> 0]
    /\ req = [p \in Requests |-> Idle]
    /\ stops = 0
    /\ overlaps = 0

At(p, step) == req[p].at = step
Free(p) == req[p] = Idle
Quiet == \A p \in Requests : Free(p)
Load(p, loaded) == req' = [req EXCEPT ![p] = loaded]
Goto(p, step) == req' = [req EXCEPT ![p].at = step]
Finish(p) == Load(p, Idle)

Begin(p, loaded) ==
    /\ Free(p) /\ \A q \in Requests : q < p => ~Free(q)
    /\ Load(p, loaded)
    /\ IF Quiet THEN UNCHANGED overlaps
       ELSE overlaps + stops < MaxDisturbed /\ overlaps' = overlaps + 1
    /\ UNCHANGED <<now, tables, stops>>

\* getActiveSubscription takes any one of them.
Active == {s \in Subs : subs[s].plan # Nobody}
With(op, s) == [Idle EXCEPT !.at = "ensure", !.op = op, !.sub = s,
                            !.copy = subs[s], !.plan = subs[s].plan]

-----------------------------------------------------------------------------
(* The requests                                                            *)

\* getQuota, recordUsage, holdCredits and settleHold.
StartQuery(p) == \E s \in Active : Begin(p, With("query", s))
Recorded == usage["tokens"] + usage["credits"]
StartUsage(p, n) ==
    /\ Recorded + n <= MaxUsage
    /\ \E s \in Active : Begin(p, [With("usage", s) EXCEPT !.amount = n])
StartHold(p, h, n) ==
    /\ holds[h].status = "none"
    /\ \E s \in Active :
         Begin(p, [With("hold", s) EXCEPT !.hold = h, !.amount = n])
\* A hold that is over is answered as it is.
AnyHold(h) == holds[h].status # "none"
Frozen(h) == holds[h].status = "frozen"
StartSettle(p, h, n) ==
    /\ Frozen(h)
    /\ Recorded + n <= MaxUsage
    /\ \E s \in Active :
         Begin(p, [With("settle", s) EXCEPT !.hold = h, !.amount = n])
StartRefund(p, h) ==
    /\ Frozen(h)
    /\ Begin(p, [Idle EXCEPT !.at = "release", !.op = "refund", !.hold = h])

\* upgrade and downgrade take any plan.
Downgraded(row, plan) == [row EXCEPT !.pending = plan]
StartChange(p, plan) ==
    \E s \in Active :
      \/ Begin(p, [With("upgrade", s) EXCEPT
                     !.at = "plan", !.plan = plan,
                     !.copy = [@ EXCEPT !.plan = plan, !.pending = Nobody]])
      \/ Begin(p, [With("downgrade", s) EXCEPT
                     !.at = "plan", !.copy = Downgraded(@, plan)])

\* The organisation has no subscription yet; otherwise nothing is done.
StartActivate(p, plan) ==
    /\ Active = {}
    /\ Begin(p, [Idle EXCEPT !.at = "subscribe", !.op = "activate",
                             !.plan = plan])

-----------------------------------------------------------------------------
(* The subscription and its period                                         *)

SavePlan(p) ==
    /\ At(p, "plan")
    /\ subs' = [subs EXCEPT ![req[p].sub] = req[p].copy]
    /\ IF req[p].op = "upgrade" THEN Goto(p, "ensure") ELSE Finish(p)
    /\ UNCHANGED <<now, quota, holds, media, stops, overlaps>>

Expired(row) == row.end <= now
\* The next period, under the pending plan if there is one.
Rolled(row) ==
    [plan |-> IF row.pending = Nobody THEN row.plan ELSE row.pending,
     pending |-> Nobody, end |-> row.end + PeriodLength]

Roll(p) ==
    /\ At(p, "ensure") /\ Expired(req[p].copy)
    /\ LET row == Rolled(req[p].copy) IN
       /\ subs' = [subs EXCEPT ![req[p].sub] = row]
       /\ req' = [req EXCEPT ![p].at = "find", ![p].time = now,
                             ![p].copy = row]
    /\ UNCHANGED <<now, quota, holds, media, stops, overlaps>>

Latest(s) ==
    {i \in Periods :
       /\ periods[i].sub = s
       /\ \A j \in Periods :
            periods[j].sub = s => periods[j].end <= periods[i].end}
NeverInForce(s, time) == {}
InForce(s, time) == {i \in Latest(s) : periods[i].end >= time}

FindPeriod(p) ==
    LET q == req[p]
        found == InForce(q.sub, IF At(p, "find") THEN q.time ELSE now)
        loaded(i) == [periods[i] EXCEPT !.total = Total[q.copy.plan]]
    IN
    /\ At(p, "find") \/ (At(p, "ensure") /\ ~Expired(q.copy))
    /\ IF found = {}
       THEN Load(p, [q EXCEPT !.at = "insert", !.time = 0])
       ELSE \E i \in found :
              Load(p, [q EXCEPT !.at = "keep", !.time = 0, !.period = i,
                                !.row = loaded(i), !.copy = NewSub])
    /\ UNCHANGED <<now, tables, stops, overlaps>>

\* What an operation does next, once it has its period.
Ensured(q) ==
    CASE q.op = "query" -> Idle
      [] q.op = "upgrade" -> [q EXCEPT !.at = "resave"]
      [] OTHER -> [q EXCEPT !.at = "grant"]

KeepPeriod(p) ==
    /\ At(p, "keep")
    /\ periods' = [periods EXCEPT ![req[p].period] = req[p].row]
    /\ Load(p, Ensured(req[p]))
    /\ UNCHANGED <<now, subs, grant, holds, usage, media, stops, overlaps>>

Fresh(s, row) == [sub |-> s, end |-> row.end, total |-> Total[row.plan],
                  used |-> Unused]
Absent == {i \in Periods : periods[i].sub = Nobody}

InsertPeriod(p) ==
    LET q == req[p]
        row == Fresh(q.sub, q.copy)
        i == Min(Absent)
    IN
    /\ q.at \in {"insert", "first"} /\ Absent # {}
    /\ periods' = [periods EXCEPT ![i] = row]
    /\ IF At(p, "first") THEN Load(p, [Idle EXCEPT !.at = "give"])
       ELSE Load(p, Ensured([q EXCEPT !.period = i, !.row = row,
                                      !.copy = NewSub]))
    /\ UNCHANGED <<now, subs, grant, holds, usage, media, stops, overlaps>>

\* upgrade saves the period a second time.
Resave(p) ==
    /\ At(p, "resave")
    /\ periods' = [periods EXCEPT ![req[p].period] = req[p].row]
    /\ Finish(p)
    /\ UNCHANGED <<now, subs, grant, holds, usage, media, stops, overlaps>>

-----------------------------------------------------------------------------
(* activate                                                                *)

Subscribe(p) ==
    /\ At(p, "subscribe")
    /\ \E s \in Subs \ Active :
         LET row == [plan |-> req[p].plan, pending |-> Nobody,
                     end |-> now + PeriodLength]
         IN /\ subs' = [subs EXCEPT ![s] = row]
            /\ Load(p, [Idle EXCEPT !.at = "first", !.sub = s, !.copy = row])
    /\ UNCHANGED <<now, quota, holds, media, stops, overlaps>>

\* org_id is UNIQUE: there is one grant.
Given == [until |-> now + FreeLength, used |-> Unused]
Give(p) ==
    /\ At(p, "give")
    /\ grant' = IF grant.until = 0 THEN Given ELSE grant
    /\ Finish(p)
    /\ UNCHANGED <<now, subs, periods, holds, usage, media, stops, overlaps>>

-----------------------------------------------------------------------------
(* The free grant, the charge and the hold                                 *)

Unit(op) == IF op = "usage" THEN "tokens" ELSE "credits"
FreeLeft(u) == IF grant.until > now THEN FreeTotal - grant.used[u] ELSE 0
Lesser(m, n) == IF m < n THEN m ELSE n
FrozenSum == MapThenSumSet(LAMBDA h : holds[h].estimate,
                           {h \in Holds : Frozen(h)})

\* recordUsage and holdCredits throw when the quota they have read is short;
\* recordUsage goes by the plan it loaded first.
Suffices(q, free) ==
    CASE q.op = "usage" ->
           q.amount - free <= Total[q.plan] - q.row.used["tokens"]
      [] q.op = "hold" ->
           q.amount <= q.row.total - q.row.used["credits"]
                       + FreeLeft("credits") - FrozenSum
      [] q.op = "settle" -> TRUE

ReadGrant(p) ==
    LET q == req[p]
        free == Lesser(FreeLeft(Unit(q.op)), q.amount)
        next == [q EXCEPT !.row = NewPeriod, !.plan = Nobody, !.sub = Nobody]
    IN
    /\ At(p, "grant")
    /\ IF ~Suffices(q, free) THEN Finish(p)
       ELSE Load(p, IF q.op = "hold"
                    THEN [next EXCEPT !.at = "freeze", !.period = Nobody]
                    ELSE [next EXCEPT !.at = "commit", !.free = free])
    /\ UNCHANGED <<now, tables, stops, overlaps>>

\* The transaction.  The period takes what the free grant does not, or the
\* whole is rolled back; a grant that became short takes nothing instead.
Paid(q) == q.amount - q.free
Unchecked(row, u, n, limit) == TRUE
Fits(row, u, n, limit) == row.used[u] + n <= limit
Charged(row, u, n) == [row EXCEPT !.used[u] = @ + n]

Commit(p) ==
    LET q == req[p]
        u == Unit(q.op)
        row == periods[q.period]
    IN
    /\ At(p, "commit")
    /\ IF Paid(q) > 0 /\ ~Fits(row, u, Paid(q), row.total)
       THEN UNCHANGED <<periods, grant, usage, holds, media>>
       ELSE /\ periods' =
                 [periods EXCEPT ![q.period] = Charged(row, u, Paid(q))]
            /\ grant' = IF Fits(grant, u, q.free, FreeTotal)
                        THEN Charged(grant, u, q.free) ELSE grant
            /\ usage' = [usage EXCEPT ![u] = @ + q.amount]
            /\ IF q.op = "settle"
               THEN /\ holds' = [holds EXCEPT ![q.hold].status = "settled"]
                    /\ media' = [media EXCEPT ![q.hold] = @ + 1]
               ELSE UNCHANGED <<holds, media>>
    /\ Finish(p)
    /\ UNCHANGED <<now, subs, stops, overlaps>>

\* task_id is UNIQUE: the second insert throws.
Freeze(p) ==
    LET h == req[p].hold IN
    /\ At(p, "freeze")
    /\ holds' = IF holds[h].status # "none" THEN holds
                ELSE [holds EXCEPT ![h] = [status |-> "frozen",
                                           estimate |-> req[p].amount]]
    /\ Finish(p)
    /\ UNCHANGED <<now, subs, quota, media, stops, overlaps>>

Release(p) ==
    /\ At(p, "release")
    /\ holds' = [holds EXCEPT ![req[p].hold].status = "refunded"]
    /\ Finish(p)
    /\ UNCHANGED <<now, subs, quota, media, stops, overlaps>>

-----------------------------------------------------------------------------
\* Time is counted from the first subscription; before it there is nothing
\* whose age matters.
Tick ==
    /\ Active # {}
    /\ now < MaxNow
    /\ now' = now + 1
    /\ UNCHANGED <<tables, req, stops, overlaps>>

\* A database call throws, or the process stops.
Stop(p) ==
    /\ overlaps + stops < MaxDisturbed
    /\ ~Free(p)
    /\ stops' = stops + 1
    /\ Finish(p)
    /\ UNCHANGED <<now, tables, overlaps>>

Continue(p) ==
    \/ SavePlan(p)
    \/ Roll(p)
    \/ FindPeriod(p)
    \/ KeepPeriod(p)
    \/ InsertPeriod(p)
    \/ Resave(p)
    \/ Subscribe(p)
    \/ Give(p)
    \/ ReadGrant(p)
    \/ Commit(p)
    \/ Freeze(p)
    \/ Release(p)

Amounts == 1..MaxUsage
Next ==
    \/ Tick
    \/ \E p \in Requests :
         \/ StartQuery(p)
         \/ \E n \in Amounts : StartUsage(p, n)
         \/ \E h \in Holds :
              \/ \E n \in Estimates : StartHold(p, h, n)
              \/ \E n \in Amounts : StartSettle(p, h, n)
         \/ \E h \in Holds : StartRefund(p, h)
         \/ \E plan \in Plans : StartChange(p, plan) \/ StartActivate(p, plan)
         \/ Continue(p)
         \/ Stop(p)

Spec == Init /\ [][Next]_vars

-----------------------------------------------------------------------------
\* The rows and the operations keep their shape.
TypeOK ==
    /\ now \in Nat
    /\ subs \in [Subs -> Sub]
    /\ periods \in [Periods -> Period]
    /\ grant \in [until : Nat, used : Used]
    /\ holds \in [Holds -> Hold]
    /\ usage \in Used
    /\ media \in [Holds -> Nat]
    /\ req \in [Requests -> [at : Steps, op : Operations,
                             hold : Holds \cup {Nobody}, amount : Nat,
                             sub : Subs \cup {Nobody},
                             plan : Plans \cup {Nobody}, copy : Sub,
                             time : Nat, period : Periods \cup {Nobody},
                             row : Period, free : Nat]]
    /\ stops \in 0..MaxDisturbed
    /\ overlaps \in 0..MaxDisturbed

Deducted(u) ==
    MapThenSumSet(LAMBDA i : periods[i].used[u], Periods) + grant.used[u]

ChargedAsRecorded ==
    \A u \in Units : /\ Deducted(u) <= usage[u]
                     /\ overlaps = 0 => Deducted(u) = usage[u]
NeverOverdrawn ==
    \A u \in Units :
      /\ grant.used[u] <= FreeTotal
      /\ \A i \in Periods : \E plan \in Plans :
           periods[i].used[u] <= Total[plan]

\* Whatever requests overlap, an organisation is never charged for more than
\* was recorded; without two at once, exactly for what was recorded, divided
\* between the free grant and the period (recordUsage, settleHold).  Neither
\* concurrent charges nor stale saves of the period overdraw the grant, or a
\* period beyond the largest plan (an upgrade to a smaller plan may leave one
\* above its own total).
ChargesSound == ChargedAsRecorded /\ NeverOverdrawn

\* A settled hold has its usage record in every interleaving.  Without two
\* requests at once it has one, and a hold that is frozen or was refunded has
\* none, however often the end of the task is reported (settleHold).
BilledOnce ==
    \A h \in Holds :
      /\ holds[h].status = "settled" => media[h] >= 1
      /\ overlaps = 0 => media[h] = IF holds[h].status = "settled" THEN 1 ELSE 0

OnePeriodAtATime ==
    overlaps = 0 =>
      \A i, j \in Periods :
        periods[i].sub # Nobody /\ periods[i].sub = periods[j].sub /\ i # j
          => periods[i].end # periods[j].end
QuotaFollowsPlan ==
    overlaps = 0 /\ stops = 0 /\ Quiet =>
      \A i \in Periods, s \in Active :
        periods[i].sub = s /\ periods[i].end = subs[s].end
          => periods[i].total = Total[subs[s].plan]
GrantIssued == stops = 0 /\ Quiet /\ Active # {} => grant.until > 0

\* Each organisation gets the quota it is due.  Without two requests at once,
\* no two rows of a subscription are for the same period, so its quota is not
\* given out twice, not even by a call at the very end of a period, and the
\* row that ends with the subscription has the total of the plan: at once
\* after an upgrade, from the next period on after a downgrade
\* ("升级即时生效", "下个计费周期生效").  Of the row before it nothing is
\* said: at its last instant it gets the total of the pending plan
\* (ensureCurrentPeriod).  Whoever has a subscription got the free grant, also
\* when two activations overlap, unless one stopped half way: a later
\* activation does not make up for it (activate).
QuotaGiven == OnePeriodAtATime /\ QuotaFollowsPlan /\ GrantIssued
=============================================================================
