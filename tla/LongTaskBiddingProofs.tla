------------------------ MODULE LongTaskBiddingProofs -------------------------
(***************************************************************************)
(* The task of LongTaskBidding for any number of requests, workspaces,     *)
(* seats and rounds.  The argument for the seats asks two things of the    *)
(* row and of every copy an operation still holds, so that it does not     *)
(* matter which is saved last: the flag for a full round agrees with the   *)
(* counter, and the counter is backed by the seats of its round that are   *)
(* accounted for, a number that never falls.                               *)
(* The one for the contract and the selection needs operations one at a    *)
(* time: then one of them is in turn, its copy is the row, and each step   *)
(* of it leaves task, bids and orders as the next one finds them.          *)
(***************************************************************************)
EXTENDS LongTaskBidding, FiniteSetTheorems, TLAPS

Request == [at : Steps, copy : TaskRow, bid : Bids \cup {NoBid},
            list : SUBSET Bids]

\* What an operation has checked, or computed, holds of its own copy.
Locked(row) == row.full <=> row.taken >= SeatLimit
OpSound(q) ==
    /\ q.at \in {"seat", "insert", "won", "find", "lose", "order"}
         => q.bid \in Bids
    /\ q.at = "seat" => q.bid[1] = q.copy.round
    /\ q.at \in {"reject", "reopened"} => q.copy.round < MaxRound
    /\ Locked(q.copy)

\* The seats of each round that are accounted for.
seats == [r \in Rounds |-> Cardinality(BidsOf(r)) + Cardinality(Inserting(r))
                           + wasted[r]]
Backed(row, s) == row.taken <= s[row.round]

InRound(bs, r) == {b \in Bids : b[1] = r /\ bs[b] # "none"}
Copying ==
    DOMAIN Target \cup {"seat", "won", "find", "lose", "reject", "reopened"}

\* One operation at a time: q, the one under way, works on the rows as they are.
Orderly(q, t, bs) ==
    /\ q.at \in Copying => q.copy = t
    /\ q.at \in {"seat", "insert"} => t.status = "open" /\ q.bid[1] = t.round
    /\ q.at = "seat" => t.taken < SeatLimit
    /\ q.at \in {"won", "find", "lose", "order"}
         => q.bid \in InRound(bs, t.round)
    /\ q.at \in {"lose", "reject"} => q.list \subseteq InRound(bs, t.round)
    /\ t.taken <= SeatLimit
    /\ Cardinality(InRound(bs, t.round)) + (IF q.at = "insert" THEN 1 ELSE 0)
         <= t.taken
    /\ \A r \in Rounds : /\ Cardinality(InRound(bs, r)) <= SeatLimit
                         /\ r > t.round => InRound(bs, r) = {}

Contracted(q, t, bs, os) ==
    /\ \A b \in Bids : os[b] <= 1
    /\ \A b, c \in Bids : os[b] > 0 /\ os[c] > 0 => b = c
    /\ \A b \in Bids : os[b] > 0
         => /\ t.status \in {"selected", "cancelled"}
            /\ q.at \notin {"order", "reopen", "reopened"}
    /\ \A b \in Bids : bs[b] = "submitted" =>
         /\ b[1] = t.round /\ t.status \notin {"selected", "cancelled"}
         /\ q.at \in {"lose", "reject"} => b \in q.list
    /\ q.at \in DOMAIN Target => t.status \in Statuses[q.at]
    /\ q.at \in {"won", "find", "lose", "reject"} => t.status = "open"
    /\ q.at = "order" => t.status = "selected"
    /\ q.at \in {"reopen", "reopened"} => t.status \in {"selected", "cancelled"}

Won(b, t, bs) ==
    bs[b] = "won" /\ \A c \in InRound(bs, t.round) \ {b} : bs[c] = "lost"
Selecting(q, t, bs, os) ==
    /\ t.status \in {"draft", "open"} /\ q.at \notin {"find", "lose", "reject"}
         => \A b \in InRound(bs, t.round) : bs[b] = "submitted"
    /\ q.at \in {"find", "lose"} => bs[q.bid] = "won"
    /\ q.at = "find"
         => \A c \in InRound(bs, t.round) \ {q.bid} : bs[c] = "submitted"
    /\ q.at = "lose"
         => /\ q.bid \notin q.list
            /\ \A c \in InRound(bs, t.round) \ {q.bid} : bs[c] = "lost"
               \/ c \in q.list
    /\ q.at = "order" => Won(q.bid, t, bs)
    /\ t.status = "selected" /\ q.at \notin {"order", "reopen", "reopened"}
         => \E b \in InRound(bs, t.round) : Won(b, t, bs) /\ os[b] = 1
    /\ q.at = "reopen" => t.round < MaxRound

\* ... where h is byHand and f the failures.
InTurn(q, t, bs, os, h, f) ==
    /\ Orderly(q, t, bs)
    /\ ~h => Contracted(q, t, bs, os)
    /\ ~h /\ f = 0 => Selecting(q, t, bs, os)
Turn(q) == InTurn(q, task, bids, orders, byHand, failures)
Serial ==
    overlaps = 0 => \E p \in Processes :
      (\A o \in Processes \ {p} : req[o] = Idle) /\ Turn(req[p])

IInv ==
    /\ TypeOK
    /\ Locked(task) /\ Backed(task, seats)
    /\ \A p \in Processes : OpSound(req[p]) /\ Backed(req[p].copy, seats)
    /\ Serial

-----------------------------------------------------------------------------
(* Sets and numbers: the bids are finitely many, and a round has one more   *)
(* with each insert, whose seat was counted before.                         *)

LEMMA BidsFinite ==
    /\ IsFiniteSet(Bids) /\ IsFiniteSet(Processes)
    /\ \A bs, r : IsFiniteSet(InRound(bs, r))
       /\ Cardinality(InRound(bs, r)) \in Nat
<1>1. IsFiniteSet(Rounds)
  BY BoundAssumption, FS_Interval DEF Rounds
<1>2. IsFiniteSet(Bids)
  BY <1>1, WorkspacesAssumption, FS_Product DEF Bids
<1>3. IsFiniteSet(Processes)
  BY ProcessAssumption, FS_AddElement DEF Processes
<1>4. \A bs, r : InRound(bs, r) \in SUBSET Bids
  BY DEF InRound
<1>5. \A bs, r : IsFiniteSet(InRound(bs, r))
  BY <1>2, <1>4, FS_Subset
<1> QED BY <1>2, <1>3, <1>5, FS_CardinalityType

LEMMA BidsOfIs == \A r : BidsOf(r) = InRound(bids, r)
                         /\ BidsOf(r)' = InRound(bids', r)
BY DEF BidsOf, InRound

LEMMA RoundsType ==
    /\ 1 \in Rounds /\ Rounds \subseteq Nat \ {0}
    /\ \A b \in Bids : b[1] \in Rounds /\ b = <<b[1], b[2]>>
    /\ \A r \in Rounds, w \in Workspaces : <<r, w>> \in Bids
    /\ Scanner \in Processes
BY BoundAssumption DEF Rounds, Bids, Processes

LEMMA IdleSound ==
    /\ NewTask \in TaskRow /\ Locked(NewTask)
    /\ Idle \in Request /\ OpSound(Idle) /\ Idle.copy = NewTask
    /\ Idle.at = "idle"
    /\ \A s \in [Rounds -> Nat] : Backed(NewTask, s)
<1>1. NewTask \in TaskRow /\ Locked(NewTask)
  BY RoundsType, BoundAssumption DEF NewTask, TaskRow, TaskStatuses, Locked
<1>2. Idle \in Request /\ OpSound(Idle) /\ Idle.copy = NewTask
      /\ Idle.at = "idle"
  BY <1>1 DEF Idle, Request, Steps, OpSound
<1>3. \A s \in [Rounds -> Nat] : Backed(NewTask, s)
  BY RoundsType DEF NewTask, Backed
<1> QED BY <1>1, <1>2, <1>3

LEMMA SeatsType ==
    ASSUME TypeOK
    PROVE  /\ seats \in [Rounds -> Nat]
           /\ \A r : IsFiniteSet(Inserting(r))
                     /\ Cardinality(Inserting(r)) \in Nat
<1>1. \A r : Inserting(r) \in SUBSET Processes
  BY DEF Inserting
<1>2. \A r : IsFiniteSet(Inserting(r)) /\ Cardinality(Inserting(r)) \in Nat
  BY <1>1, BidsFinite, FS_Subset, FS_CardinalityType
<1>3. \A r \in Rounds : wasted[r] \in Nat
  BY DEF TypeOK
<1>4. \A r \in Rounds : Cardinality(BidsOf(r)) \in Nat
  BY BidsFinite, BidsOfIs
<1>5. \A r \in Rounds :
        Cardinality(BidsOf(r)) + Cardinality(Inserting(r)) + wasted[r] \in Nat
  BY <1>2, <1>3, <1>4
<1> QED BY <1>2, <1>5 DEF seats

LEMMA InsertingStep ==
    ASSUME TypeOK, NEW p \in Processes, NEW v, req' = [req EXCEPT ![p] = v],
           NEW r
    PROVE  Inserting(r)' = IF v.at = "insert" /\ v.bid[1] = r
                           THEN Inserting(r) \cup {p} ELSE Inserting(r) \ {p}
<1>1. \A q \in Processes : req'[q] = IF q = p THEN v ELSE req[q]
  BY DEF TypeOK
<1> QED BY <1>1 DEF Inserting, At

\* A bid that is in keeps its place in the round.
LEMMA BidsGrow ==
    ASSUME NEW r, NEW bs, NEW cs,
           \A b \in Bids : bs[b] # "none" => cs[b] # "none"
    PROVE  /\ InRound(bs, r) \subseteq InRound(cs, r)
           /\ Cardinality(InRound(bs, r)) <= Cardinality(InRound(cs, r))
<1>1. InRound(bs, r) \subseteq InRound(cs, r)
  BY DEF InRound
<1> QED BY <1>1, BidsFinite, FS_Subset

LEMMA NewBid ==
    ASSUME NEW bs, NEW cs, NEW b \in Bids, cs[b] # "none",
           \A c \in Bids \ {b} : cs[c] = bs[c], NEW r
    PROVE  InRound(cs, r) =
             IF b[1] = r THEN InRound(bs, r) \cup {b} ELSE InRound(bs, r)
BY DEF InRound

\* Seats are accounted for, once they are: by an operation that does not
\* insert, by one that is going to, and by one that is done with it.
LEMMA SeatsKept ==
    ASSUME TypeOK, NEW p \in Processes, NEW v, req' = [req EXCEPT ![p] = v],
           v.at # "insert", req[p].at # "insert", wasted' = wasted,
           \A b \in Bids : bids[b] # "none" => bids'[b] # "none"
    PROVE  \A r \in Rounds : seats[r] <= seats'[r] /\ seats'[r] \in Nat
<1> SUFFICES ASSUME NEW r \in Rounds
             PROVE  seats[r] <= seats'[r] /\ seats'[r] \in Nat
  OBVIOUS
<1>1. Inserting(r)' = Inserting(r)
  <2>1. Inserting(r)' = Inserting(r) \ {p}
    BY InsertingStep
  <2>2. p \notin Inserting(r)
    BY DEF Inserting, At
  <2> QED BY <2>1, <2>2
<1>2. Cardinality(BidsOf(r)) <= Cardinality(BidsOf(r)')
  BY BidsGrow, BidsOfIs
<1>3. /\ Cardinality(BidsOf(r)) \in Nat /\ Cardinality(BidsOf(r)') \in Nat
      /\ Cardinality(Inserting(r)) \in Nat /\ wasted[r] \in Nat
  BY BidsFinite, SeatsType, BidsOfIs DEF TypeOK
<1>4. /\ seats[r] = Cardinality(BidsOf(r)) + Cardinality(Inserting(r))
           + wasted[r]
      /\ seats'[r] = Cardinality(BidsOf(r)') + Cardinality(Inserting(r)')
           + wasted'[r]
  BY DEF seats
<1> QED BY <1>1, <1>2, <1>3, <1>4

LEMMA SeatTaken ==
    ASSUME TypeOK, NEW p \in Processes, NEW v, req' = [req EXCEPT ![p] = v],
           v.at = "insert", req[p].at # "insert", wasted' = wasted, bids' = bids
    PROVE  \A r \in Rounds :
             seats'[r] = IF v.bid[1] = r THEN seats[r] + 1 ELSE seats[r]
<1> SUFFICES ASSUME NEW r \in Rounds
             PROVE  seats'[r] = IF v.bid[1] = r THEN seats[r] + 1 ELSE seats[r]
  OBVIOUS
<1>1. p \notin Inserting(r)
  BY DEF Inserting, At
<1>2. Inserting(r)' = IF v.bid[1] = r THEN Inserting(r) \cup {p}
                      ELSE Inserting(r)
  <2>1. Inserting(r)' = IF v.at = "insert" /\ v.bid[1] = r
                        THEN Inserting(r) \cup {p} ELSE Inserting(r) \ {p}
    BY InsertingStep
  <2>2. Inserting(r) \ {p} = Inserting(r)
    BY <1>1
  <2> QED BY <2>1, <2>2
<1>3. Cardinality(Inserting(r)') = IF v.bid[1] = r
        THEN Cardinality(Inserting(r)) + 1 ELSE Cardinality(Inserting(r))
  BY <1>1, <1>2, SeatsType, FS_AddElement
<1>4. /\ Cardinality(BidsOf(r)) \in Nat /\ BidsOf(r)' = BidsOf(r)
      /\ Cardinality(Inserting(r)) \in Nat /\ wasted[r] \in Nat
  BY BidsFinite, SeatsType, BidsOfIs DEF TypeOK
<1>5. /\ seats[r] = Cardinality(BidsOf(r)) + Cardinality(Inserting(r))
           + wasted[r]
      /\ seats'[r] = Cardinality(BidsOf(r)') + Cardinality(Inserting(r)')
           + wasted'[r]
  BY DEF seats
<1> QED BY <1>3, <1>4, <1>5

LEMMA SeatUsed ==
    ASSUME TypeOK, NEW p \in Processes, NEW v, req' = [req EXCEPT ![p] = v],
           v.at # "insert", req[p].at = "insert", req[p].bid \in Bids,
           \/ /\ bids[req[p].bid] = "none" /\ wasted' = wasted
              /\ SetBid(req[p].bid, "submitted")
           \/ /\ wasted' = [wasted EXCEPT ![req[p].bid[1]] = @ + 1]
              /\ bids' = bids
    PROVE  \A r \in Rounds : seats'[r] = seats[r]
<1> SUFFICES ASSUME NEW r \in Rounds PROVE seats'[r] = seats[r]
  OBVIOUS
<1> DEFINE b == req[p].bid
<1>1. p \in Inserting(r) <=> b[1] = r
  BY DEF Inserting, At
<1>2. Cardinality(Inserting(r)') = IF b[1] = r
        THEN Cardinality(Inserting(r)) - 1 ELSE Cardinality(Inserting(r))
  <2>1. Inserting(r)' = Inserting(r) \ {p}
    BY InsertingStep
  <2> QED BY <1>1, <2>1, SeatsType, FS_RemoveElement
<1>3. /\ Cardinality(BidsOf(r)) \in Nat
      /\ Cardinality(Inserting(r)) \in Nat /\ wasted[r] \in Nat
  BY BidsFinite, SeatsType, BidsOfIs DEF TypeOK
<1>4. /\ seats[r] = Cardinality(BidsOf(r)) + Cardinality(Inserting(r))
           + wasted[r]
      /\ seats'[r] = Cardinality(BidsOf(r)') + Cardinality(Inserting(r)')
           + wasted'[r]
  BY DEF seats
<1>5. CASE bids[b] = "none" /\ wasted' = wasted /\ SetBid(b, "submitted")
  <2>1. BidsOf(r)' = IF b[1] = r THEN BidsOf(r) \cup {b} ELSE BidsOf(r)
    <3>1. bids'[b] = "submitted" /\ \A c \in Bids \ {b} : bids'[c] = bids[c]
      BY <1>5 DEF SetBid, TypeOK
    <3>3. InRound(bids', r) =
            IF b[1] = r THEN InRound(bids, r) \cup {b} ELSE InRound(bids, r)
      BY <3>1, NewBid
    <3> QED BY <3>3, BidsOfIs
  <2>2. b \notin BidsOf(r)
    BY <1>5 DEF BidsOf
  <2>3. IsFiniteSet(BidsOf(r))
    BY BidsFinite, BidsOfIs
  <2>4. Cardinality(BidsOf(r)') = IF b[1] = r
          THEN Cardinality(BidsOf(r)) + 1 ELSE Cardinality(BidsOf(r))
    BY <2>1, <2>2, <2>3, FS_AddElement
  <2> QED BY <1>2, <1>3, <1>4, <1>5, <2>4
<1>6. CASE wasted' = [wasted EXCEPT ![b[1]] = @ + 1] /\ bids' = bids
  <2>1. BidsOf(r)' = BidsOf(r)
    BY <1>6 DEF BidsOf
  <2>2. wasted'[r] = IF b[1] = r THEN wasted[r] + 1 ELSE wasted[r]
    BY <1>6 DEF TypeOK
  <2> QED BY <1>2, <1>3, <1>4, <2>1, <2>2
<1> QED BY <1>5, <1>6

-----------------------------------------------------------------------------
(* What every step preserves                                               *)

LEMMA InitIInv == Init => IInv
<1> SUFFICES ASSUME Init PROVE IInv OBVIOUS
<1> USE DEF Init
<1>1. TypeOK
  <2>1. bids \in [Bids -> BidStatuses] /\ orders \in [Bids -> Nat]
    BY DEF BidStatuses
  <2>2. req \in [Processes -> Request] /\ task \in TaskRow
    BY IdleSound
  <2>3. wasted \in [Rounds -> Nat] /\ byHand \in BOOLEAN
    OBVIOUS
  <2>4. failures \in 0..MaxFailures /\ overlaps \in 0..MaxOverlaps
    BY BoundAssumption
  <2> QED BY <2>1, <2>2, <2>3, <2>4 DEF TypeOK, Request
<1>2. Locked(task) /\ Backed(task, seats)
  BY <1>1, IdleSound, SeatsType
<1>3. \A p \in Processes : OpSound(req[p]) /\ Backed(req[p].copy, seats)
  BY <1>1, IdleSound, SeatsType
<1>4. Serial
  <2>1. \A r : InRound(bids, r) = {}
    BY DEF InRound
  <2>2. Cardinality({}) = 0
    BY FS_EmptySet
  <2>3. Orderly(Idle, task, bids)
    <3>1. Idle.at = "idle" /\ Idle.at \notin Copying
      BY IdleSound DEF Copying, Target
    <3>2. task.taken = 0 /\ task.round = 1
      BY DEF NewTask
    <3>3. \A r : Cardinality(InRound(bids, r)) = 0
      BY <2>1, <2>2
    <3> QED BY <2>1, <3>1, <3>2, <3>3, BoundAssumption DEF Orderly
  <2>4. Contracted(Idle, task, bids, orders)
    BY IdleSound DEF Contracted, Target, NewTask
  <2>5. Selecting(Idle, task, bids, orders)
    BY <2>1, IdleSound DEF Selecting, NewTask
  <2> QED BY <2>3, <2>4, <2>5, RoundsType DEF Serial, Turn, InTurn
<1> QED BY <1>1, <1>2, <1>3, <1>4 DEF IInv

LEMMA StepKeeps ==
    ASSUME IInv, NEW p \in Processes, NEW v \in Request,
           req' = [req EXCEPT ![p] = v], OpSound(v),
           task' \in TaskRow, Locked(task'),
           bids' \in [Bids -> BidStatuses], orders' \in [Bids -> Nat],
           wasted' \in [Rounds -> Nat], failures' \in 0..MaxFailures,
           overlaps' \in 0..MaxOverlaps, byHand' \in BOOLEAN,
           \A r \in Rounds : seats[r] <= seats'[r] /\ seats'[r] \in Nat,
           Backed(task', seats'), Backed(v.copy, seats'),
           overlaps' = 0 =>
             /\ \A o \in Processes \ {p} : req[o] = Idle
             /\ InTurn(v, task', bids', orders', byHand', failures')
    PROVE  IInv'
<1>1. req' \in [Processes -> Request] /\ req'[p] = v
      /\ \A o \in Processes \ {p} : req'[o] = req[o]
  BY DEF IInv, TypeOK, Request
<1>2. TypeOK'
  BY <1>1 DEF TypeOK, Request
<1>3. \A o \in Processes : OpSound(req'[o])
  BY <1>1 DEF IInv
<1>4. \A o \in Processes : Backed(req'[o].copy, seats')
  <2> SUFFICES ASSUME NEW o \in Processes \ {p}
               PROVE  Backed(req[o].copy, seats')
    BY <1>1
  <2>1. req[o].copy.round \in Rounds /\ req[o].copy.taken \in Nat
    BY DEF IInv, TypeOK, TaskRow
  <2>2. seats \in [Rounds -> Nat] /\ Backed(req[o].copy, seats)
    BY SeatsType DEF IInv
  <2> QED BY <2>1, <2>2 DEF Backed
<1>5. Serial'
  BY <1>1 DEF Serial, Turn
<1>6. (Locked(task) /\ Backed(task, seats))'
  BY DEF Locked, Backed
<1>7. (\A o \in Processes : OpSound(req[o]) /\ Backed(req[o].copy, seats))'
  BY <1>3, <1>4 DEF OpSound, Backed, Locked
<1> QED BY <1>2, <1>5, <1>6, <1>7 DEF IInv

LEMMA SameSeats ==
    ASSUME IInv, \A r \in Rounds : seats[r] <= seats'[r] /\ seats'[r] \in Nat,
           NEW row \in TaskRow, Backed(row, seats)
    PROVE  Backed(row, seats')
BY SeatsType DEF IInv, Backed, TaskRow

\* An operation begins, while others may be under way.
LEMMA BeginKeeps ==
    ASSUME IInv, NEW p \in Processes, NEW step, NEW copy, NEW bid, NEW list,
           Begin(p, step, copy, bid, list),
           [at |-> step, copy |-> copy, bid |-> bid, list |-> list] \in Request,
           OpSound([at |-> step, copy |-> copy, bid |-> bid, list |-> list]),
           step # "insert", copy = task \/ copy = NewTask,
           UNCHANGED <<task, bids, wasted, failures>>,
           orders' \in [Bids -> Nat], byHand' \in BOOLEAN,
           overlaps = 0 /\ Turn(Idle) =>
             InTurn([at |-> step, copy |-> copy, bid |-> bid, list |-> list],
                    task, bids, orders', byHand', failures)
    PROVE  IInv'
<1> DEFINE v == [at |-> step, copy |-> copy, bid |-> bid, list |-> list]
<1>1. req' = [req EXCEPT ![p] = v] /\ req[p] = Idle
  BY DEF Begin, Free
<1>2. \A r \in Rounds : seats[r] <= seats'[r] /\ seats'[r] \in Nat
  <2>1. v.at # "insert" /\ req[p].at # "insert"
    BY <1>1, IdleSound
  <2>2. TypeOK /\ wasted' = wasted /\ bids' = bids
    BY DEF IInv
  <2> HIDE DEF v
  <2> QED BY <1>1, <2>1, <2>2, SeatsKept
<1>3. Backed(task', seats') /\ Backed(copy, seats')
  <2>1. task \in TaskRow /\ Backed(task, seats) /\ seats \in [Rounds -> Nat]
    BY SeatsType DEF IInv, TypeOK
  <2> QED BY <1>2, <2>1, IdleSound, SameSeats
<1>4. overlaps' = 0 => overlaps = 0 /\ \A q \in Processes : req[q] = Idle
  BY DEF Begin, Free, IInv, TypeOK
<1>5. overlaps' = 0 => Turn(Idle)
  BY <1>4 DEF IInv, Serial
<1>6. overlaps' \in 0..MaxOverlaps
  BY BoundAssumption DEF Begin, IInv, TypeOK
<1>7. /\ task' \in TaskRow /\ Locked(task') /\ bids' \in [Bids -> BidStatuses]
      /\ wasted' \in [Rounds -> Nat] /\ failures' \in 0..MaxFailures
  BY DEF IInv, TypeOK
<1>8. v \in Request /\ OpSound(v) /\ v.copy = copy
  OBVIOUS
<1>9. overlaps' = 0 => /\ \A o \in Processes \ {p} : req[o] = Idle
                       /\ InTurn(v, task', bids', orders', byHand', failures')
  BY <1>4, <1>5
<1> HIDE DEF v
<1> QED BY <1>1, <1>2, <1>3, <1>6, <1>7, <1>8, <1>9, StepKeeps

\* An operation goes on, or ends.
LEMMA OwnTurn ==
    ASSUME IInv, NEW p \in Processes, ~Free(p), overlaps = 0
    PROVE  (\A o \in Processes \ {p} : req[o] = Idle) /\ Turn(req[p])
BY DEF IInv, Serial, Free

LEMMA GoesOn ==
    ASSUME IInv, NEW p \in Processes, NEW v \in Request, ~Free(p),
           req' = [req EXCEPT ![p] = v], OpSound(v),
           v.at # "insert", req[p].at # "insert",
           v.copy = NewTask \/ v.copy = req[p].copy \/ v.copy = task,
           task' \in TaskRow, Locked(task'), Backed(task', seats),
           bids' \in [Bids -> BidStatuses], orders' \in [Bids -> Nat],
           \A b \in Bids : bids[b] # "none" => bids'[b] # "none",
           UNCHANGED <<wasted, failures, overlaps, byHand>>,
           Turn(req[p]) => InTurn(v, task', bids', orders', byHand, failures)
    PROVE  IInv'
<1>1. \A r \in Rounds : seats[r] <= seats'[r] /\ seats'[r] \in Nat
  BY SeatsKept DEF IInv
<1>2. Backed(task', seats')
  BY <1>1, SameSeats
<1>3. Backed(v.copy, seats')
  <2>1. v.copy \in TaskRow
    BY DEF Request
  <2>2. Backed(v.copy, seats)
    BY IdleSound, SeatsType DEF IInv
  <2> QED BY <1>1, <2>1, <2>2, SameSeats
<1>4. overlaps' = 0 => /\ \A o \in Processes \ {p} : req[o] = Idle
                       /\ InTurn(v, task', bids', orders', byHand', failures')
  BY OwnTurn
<1>5. /\ wasted' \in [Rounds -> Nat] /\ failures' \in 0..MaxFailures
      /\ overlaps' \in 0..MaxOverlaps /\ byHand' \in BOOLEAN
  BY DEF IInv, TypeOK
<1> QED BY <1>1, <1>2, <1>3, <1>4, <1>5, StepKeeps

-----------------------------------------------------------------------------
(* The operations, one after the other                                     *)

LEMMA LoadKeeps ==
    ASSUME IInv, NEW p \in Processes, NEW op \in DOMAIN Target, Load(p, op)
    PROVE  IInv'
<1> DEFINE v == [at |-> op, copy |-> task, bid |-> NoBid, list |-> {}]
<1>1. op \in {"publish", "close", "expire", "cancel"}
  BY DEF Target
<1>2. v \in Request /\ OpSound(v)
  BY <1>1 DEF IInv, TypeOK, Request, Steps, OpSound
<1>3. ASSUME Turn(Idle) PROVE InTurn(v, task, bids, orders, byHand, failures)
  <2>1. Orderly(Idle, task, bids) => Orderly(v, task, bids)
    BY <1>1, IdleSound DEF Orderly
  <2>2. Contracted(Idle, task, bids, orders)
          => Contracted(v, task, bids, orders)
    BY <1>1, IdleSound DEF Contracted, Load
  <2>3. Selecting(Idle, task, bids, orders) => Selecting(v, task, bids, orders)
    BY <1>1, IdleSound DEF Selecting
  <2> QED BY <1>3, <2>1, <2>2, <2>3 DEF Turn, InTurn
<1>4. orders' \in [Bids -> Nat] /\ byHand' \in BOOLEAN
  BY DEF IInv, TypeOK, Load, rows, history
<1> QED BY <1>1, <1>2, <1>3, <1>4, BeginKeeps DEF Load, rows, history

LEMMA SaveStatusKeeps ==
    ASSUME IInv, NEW p \in Processes, SaveStatus(p)
    PROVE  IInv'
<1> DEFINE q == req[p]
<1>1. q.at \in {"publish", "close", "expire", "cancel"} /\ ~Free(p)
  BY IdleSound DEF SaveStatus, Target, Free
<1>2. q \in Request /\ OpSound(q) /\ Backed(q.copy, seats)
  BY DEF IInv, TypeOK, Request
<1>3. /\ task' = [q.copy EXCEPT !.status = Target[q.at]]
      /\ task' \in TaskRow /\ Locked(task') /\ Backed(task', seats)
  BY <1>1, <1>2
  DEF SaveStatus, SaveTask, Target, Request, TaskRow, TaskStatuses, Locked,
      OpSound, Backed
<1>4. ASSUME Turn(q)
      PROVE  InTurn(Idle, task', bids, orders, byHand, failures)
  <2>1. /\ task'.round = task.round /\ task'.taken = task.taken
        /\ task'.status = Target[q.at]
    BY <1>1, <1>2, <1>3, <1>4
    DEF Turn, InTurn, Orderly, Copying, Target, Request, TaskRow
  <2>2. Orderly(q, task, bids) => Orderly(Idle, task', bids)
    BY <1>1, <2>1, IdleSound DEF Orderly, Copying, Target
  <2>3. ASSUME Contracted(q, task, bids, orders)
        PROVE  Contracted(Idle, task', bids, orders)
    <3>1. task.status \in Statuses[q.at]
      BY <1>1, <2>3 DEF Contracted, Target
    <3>2. \/ task'.status \in {"open", "closed", "expired"}
             /\ task.status \in {"draft", "open"}
          \/ task'.status = "cancelled" /\ task.status = "selected"
      BY <1>1, <2>1, <3>1 DEF Statuses, Target
    <3> QED BY <1>1, <2>1, <2>3, <3>2, IdleSound DEF Contracted, Target
  <2>4. ASSUME Contracted(q, task, bids, orders),
               Selecting(q, task, bids, orders)
        PROVE  Selecting(Idle, task', bids, orders)
    <3>1. task.status \in Statuses[q.at]
      BY <1>1, <2>4 DEF Contracted, Target
    <3>2. /\ task'.status # "selected"
          /\ task'.status = "open" => task.status \in {"draft", "open"}
          /\ task'.status # "draft"
      BY <1>1, <2>1, <3>1 DEF Statuses, Target
    <3> QED BY <1>1, <2>1, <2>4, <3>2, IdleSound DEF Selecting
  <2> QED BY <1>4, <2>2, <2>3, <2>4 DEF Turn, InTurn
<1>5. orders' = orders /\ bids' = bids /\ Idle.at # "insert" /\ q.at # "insert"
      /\ Idle.copy = NewTask /\ Idle \in Request /\ OpSound(Idle)
  BY <1>1, IdleSound DEF SaveStatus
<1>6. bids' \in [Bids -> BidStatuses] /\ orders' \in [Bids -> Nat]
  BY <1>5 DEF IInv, TypeOK
<1>7. req' = [req EXCEPT ![p] = Idle]
      /\ UNCHANGED <<wasted, failures, overlaps, byHand>>
  BY DEF SaveStatus, Finish, history
<1> QED BY <1>1, <1>3, <1>4, <1>5, <1>6, <1>7, GoesOn

LEMMA LoadSubmitKeeps ==
    ASSUME IInv, NEW p \in Processes, NEW w \in Workspaces, LoadSubmit(p, w)
    PROVE  IInv'
<1> DEFINE b == <<task.round, w>>
           v == [at |-> "seat", copy |-> task, bid |-> b, list |-> {}]
<1>1. task \in TaskRow /\ b \in Bids /\ b[1] = task.round
  BY RoundsType DEF IInv, TypeOK, TaskRow
<1>2. v \in Request /\ OpSound(v)
  BY <1>1 DEF IInv, Request, Steps, OpSound
<1>3. ASSUME Turn(Idle) PROVE InTurn(v, task, bids, orders, byHand, failures)
  <2>1. task.status = "open" /\ task.taken < SeatLimit
    BY DEF LoadSubmit
  <2>2. Orderly(Idle, task, bids) => Orderly(v, task, bids)
    BY <1>1, <2>1, IdleSound DEF Orderly
  <2>3. Contracted(Idle, task, bids, orders)
          => Contracted(v, task, bids, orders)
    BY IdleSound DEF Contracted, Target
  <2>4. Selecting(Idle, task, bids, orders) => Selecting(v, task, bids, orders)
    BY IdleSound DEF Selecting
  <2> QED BY <1>3, <2>2, <2>3, <2>4 DEF Turn, InTurn
<1>4. orders' \in [Bids -> Nat] /\ byHand' \in BOOLEAN
  BY DEF IInv, TypeOK, LoadSubmit, rows, history
<1> QED BY <1>2, <1>3, <1>4, BeginKeeps DEF LoadSubmit, rows, history

LEMMA SaveSeatKeeps ==
    ASSUME IInv, NEW p \in Processes, SaveSeat(p)
    PROVE  IInv'
<1> DEFINE q == req[p]
           v == [q EXCEPT !.at = "insert", !.copy = NewTask]
<1>1. q.at = "seat" /\ ~Free(p)
  BY IdleSound DEF SaveSeat, At, Free
<1>2. /\ q \in Request /\ OpSound(q) /\ Backed(q.copy, seats)
      /\ q.bid \in Bids /\ q.bid[1] = q.copy.round
  BY <1>1 DEF IInv, TypeOK, Request, OpSound
<1>3. req' = [req EXCEPT ![p] = v]
  BY DEF SaveSeat, LeaveTask, IInv, TypeOK
<1>4. /\ v \in Request /\ OpSound(v) /\ v.at = "insert" /\ v.copy = NewTask
      /\ v.bid = q.bid /\ v.list = q.list
  BY <1>2, IdleSound DEF Request, OpSound, Steps
<1>5. /\ UNCHANGED <<bids, orders, wasted, failures, overlaps, byHand>>
      /\ task' = Seated(q.copy)
  BY DEF SaveSeat, history
<1>6. /\ task' \in TaskRow /\ task'.taken = q.copy.taken + 1
      /\ task'.round = q.copy.round /\ task'.status = q.copy.status
      /\ task'.full <=> (q.copy.full \/ q.copy.taken + 1 >= SeatLimit)
  <2>1. q.copy \in TaskRow
    BY <1>2 DEF Request
  <2>2. (q.copy.taken + 1 >= SeatLimit) \in BOOLEAN /\ q.copy.taken \in Nat
        /\ q.copy.full \in BOOLEAN
    BY <2>1 DEF TaskRow
  <2> DEFINE f == q.copy.full \/ q.copy.taken + 1 >= SeatLimit
  <2>3. task' = [q.copy EXCEPT !.taken = @ + 1, !.full = f]
    BY <1>5 DEF Seated
  <2>4. f \in BOOLEAN
    BY <2>2
  <2> HIDE DEF f
  <2>5. task' = [status |-> q.copy.status, round |-> q.copy.round,
                 taken |-> q.copy.taken + 1, full |-> f]
    BY <2>1, <2>3, Zenon DEF TaskRow
  <2>6. task' \in TaskRow
    BY <2>1, <2>2, <2>4, <2>5 DEF TaskRow
  <2> QED BY <2>5, <2>6 DEF f
<1>7. Locked(task')
  BY <1>2, <1>6, BoundAssumption DEF Locked, OpSound, Request, TaskRow
<1>8. \A r \in Rounds :
        seats'[r] = IF q.bid[1] = r THEN seats[r] + 1 ELSE seats[r]
  <2> HIDE DEF v
  <2>1. req[p].at # "insert"
    BY <1>1
  <2>2. TypeOK /\ wasted' = wasted /\ bids' = bids /\ v.at = "insert"
    BY <1>4, <1>5 DEF IInv
  <2>3. \A r \in Rounds :
          seats'[r] = IF v.bid[1] = r THEN seats[r] + 1 ELSE seats[r]
    BY <1>3, <2>1, <2>2, SeatTaken
  <2> QED BY <1>4, <2>3
<1>9. \A r \in Rounds : seats[r] <= seats'[r] /\ seats'[r] \in Nat
  BY <1>8, SeatsType DEF IInv
<1>10. Backed(task', seats')
  BY <1>2, <1>6, <1>8, SeatsType DEF Backed, IInv, Request, TaskRow
<1>11. Backed(v.copy, seats')
  BY <1>4, <1>9, IdleSound, SeatsType, SameSeats DEF IInv
<1>12. ASSUME Turn(q) PROVE InTurn(v, task', bids, orders, byHand, failures)
  <2>0. q.copy = task
    BY <1>1, <1>12 DEF Turn, InTurn, Orderly, Copying
  <2>1. Orderly(q, task, bids) => Orderly(v, task', bids)
    <3>1. task.taken \in Nat /\ Cardinality(InRound(bids, task.round)) \in Nat
      BY BidsFinite DEF IInv, TypeOK, TaskRow
    <3> QED BY <1>1, <1>4, <1>6, <2>0, <3>1, BoundAssumption
            DEF Orderly, Copying, Target
  <2>2. Contracted(q, task, bids, orders) => Contracted(v, task', bids, orders)
    BY <1>1, <1>4, <1>6, <2>0 DEF Contracted, Target
  <2>3. Selecting(q, task, bids, orders) => Selecting(v, task', bids, orders)
    BY <1>1, <1>4, <1>6, <2>0 DEF Selecting, Won
  <2> QED BY <1>12, <2>1, <2>2, <2>3 DEF Turn, InTurn
<1>13. overlaps' = 0 =>
         /\ \A o \in Processes \ {p} : req[o] = Idle
         /\ InTurn(v, task', bids', orders', byHand', failures')
  BY <1>1, <1>5, <1>12, OwnTurn
<1>14. /\ bids' \in [Bids -> BidStatuses] /\ orders' \in [Bids -> Nat]
       /\ wasted' \in [Rounds -> Nat] /\ failures' \in 0..MaxFailures
       /\ overlaps' \in 0..MaxOverlaps /\ byHand' \in BOOLEAN
  BY <1>5 DEF IInv, TypeOK
<1> HIDE DEF v
<1> QED BY <1>3, <1>4, <1>6, <1>7, <1>9, <1>10, <1>11, <1>13, <1>14, StepKeeps

LEMMA InsertBidKeeps ==
    ASSUME IInv, NEW p \in Processes, InsertBid(p)
    PROVE  IInv'
<1> DEFINE q == req[p]
<1>1. q.at = "insert" /\ ~Free(p) /\ TypeOK
  BY IdleSound DEF InsertBid, At, Free, IInv
<1>2. q \in Request /\ q.bid \in Bids /\ q.bid[1] \in Rounds
  BY <1>1, RoundsType DEF IInv, TypeOK, Request, OpSound
<1>3. /\ req' = [req EXCEPT ![p] = Idle]
      /\ UNCHANGED <<task, orders, failures, overlaps, byHand>>
      /\ \/ /\ bids[q.bid] = "none" /\ wasted' = wasted
            /\ SetBid(q.bid, "submitted")
         \/ /\ wasted' = [wasted EXCEPT ![q.bid[1]] = @ + 1]
            /\ bids' = bids
  BY DEF InsertBid, Finish
<1>4. \A r \in Rounds : seats'[r] = seats[r]
  <2>1. Idle.at # "insert"
    BY IdleSound
  <2> QED BY <1>1, <1>2, <1>3, <2>1, SeatUsed
<1>5. \A r \in Rounds : seats[r] <= seats'[r] /\ seats'[r] \in Nat
  BY <1>1, <1>4, SeatsType
<1>6. Backed(task', seats') /\ Backed(Idle.copy, seats')
  BY <1>1, <1>3, <1>5, SameSeats, IdleSound, SeatsType DEF IInv, TypeOK
<1>7. /\ bids' \in [Bids -> BidStatuses] /\ wasted' \in [Rounds -> Nat]
      /\ task' \in TaskRow /\ orders' \in [Bids -> Nat] /\ Locked(task')
      /\ failures' \in 0..MaxFailures
      /\ overlaps' \in 0..MaxOverlaps /\ byHand' \in BOOLEAN
  BY <1>2, <1>3 DEF IInv, TypeOK, SetBid, BidStatuses
<1>8. ASSUME Turn(q) PROVE InTurn(Idle, task, bids', orders, byHand, failures)
  <2>1. Orderly(q, task, bids)
    BY <1>8 DEF Turn, InTurn
  <2>2. q.bid[1] = task.round /\ task.status = "open"
        /\ task.taken \in Nat /\ task.round \in Rounds
    BY <1>1, <2>1 DEF Orderly, TypeOK, TaskRow
  <2>3. CASE bids' = bids
    <3>1. Orderly(Idle, task, bids)
      <4>1. Cardinality(InRound(bids, task.round)) \in Nat
        BY BidsFinite
      <4> QED BY <1>1, <2>1, <2>2, <4>1, IdleSound DEF Orderly, Copying, Target
    <3>2. Contracted(q, task, bids, orders)
            => Contracted(Idle, task, bids, orders)
      BY <1>1, IdleSound DEF Contracted, Target
    <3>3. Selecting(q, task, bids, orders)
            => Selecting(Idle, task, bids, orders)
      BY <1>1, IdleSound DEF Selecting
    <3> QED BY <1>8, <2>3, <3>1, <3>2, <3>3 DEF Turn, InTurn
  <2>4. CASE bids[q.bid] = "none" /\ SetBid(q.bid, "submitted")
    <3>1. /\ bids'[q.bid] = "submitted"
          /\ \A c \in Bids \ {q.bid} : bids'[c] = bids[c]
      BY <1>1, <1>2, <2>4 DEF SetBid, TypeOK
    <3>2. \A r : InRound(bids', r) =
            IF q.bid[1] = r THEN InRound(bids, r) \cup {q.bid}
            ELSE InRound(bids, r)
      BY <1>2, <3>1 DEF InRound
    <3>3. q.bid \notin InRound(bids, task.round)
      BY <2>4 DEF InRound
    <3>4. Cardinality(InRound(bids', task.round))
            = Cardinality(InRound(bids, task.round)) + 1
      BY <2>2, <3>2, <3>3, BidsFinite, FS_AddElement
    <3>5. Cardinality(InRound(bids', task.round)) <= task.taken
      BY <1>1, <2>1, <3>4 DEF Orderly
    <3>6. Orderly(Idle, task, bids')
      <4>1. ASSUME NEW r \in Rounds
            PROVE  /\ Cardinality(InRound(bids', r)) <= SeatLimit
                   /\ r > task.round => InRound(bids', r) = {}
        <5>1. CASE r = task.round
          <6>1. task.taken <= SeatLimit
                /\ Cardinality(InRound(bids', r)) \in Nat
            BY <2>1, BidsFinite DEF Orderly
          <6> QED BY <2>2, <3>5, <5>1, <6>1, BoundAssumption, RoundsType
        <5>2. CASE r # task.round
          BY <2>1, <2>2, <3>2, <5>2 DEF Orderly
        <5> QED BY <5>1, <5>2
      <4>2. Idle.at \notin Copying /\ Idle.at = "idle"
        BY IdleSound DEF Copying, Target
      <4>3. Cardinality(InRound(bids', task.round)) \in Nat
        BY BidsFinite
      <4> QED BY <2>1, <3>5, <4>1, <4>2, <4>3 DEF Orderly
    <3>7. Contracted(q, task, bids, orders)
            => Contracted(Idle, task, bids', orders)
      BY <1>1, <2>2, <3>1, IdleSound DEF Contracted, Target
    <3>8. ASSUME Selecting(q, task, bids, orders)
          PROVE  Selecting(Idle, task, bids', orders)
      <4>1. \A b \in InRound(bids', task.round) : bids'[b] = "submitted"
        BY <1>1, <2>2, <3>1, <3>2, <3>8 DEF Selecting, InRound
      <4> QED BY <2>2, <4>1, IdleSound DEF Selecting
    <3> QED BY <1>8, <3>6, <3>7, <3>8 DEF Turn, InTurn
  <2> QED BY <1>3, <2>3, <2>4
<1>9. overlaps' = 0 =>
        /\ \A o \in Processes \ {p} : req[o] = Idle
        /\ InTurn(Idle, task', bids', orders', byHand', failures')
  BY <1>1, <1>3, <1>8, OwnTurn
<1> QED BY <1>3, <1>5, <1>6, <1>7, <1>9, IdleSound, StepKeeps

LEMMA LoadSelectKeeps ==
    ASSUME IInv, NEW p \in Processes, NEW b \in Bids, LoadSelect(p, b)
    PROVE  IInv'
<1> DEFINE v == [at |-> "won", copy |-> task, bid |-> b, list |-> {}]
<1>1. task \in TaskRow /\ b \in InRound(bids, task.round)
      /\ bids[b] = "submitted"
      /\ task.status = "open"
  BY DEF IInv, TypeOK, LoadSelect, Submitted, BidsOf, InRound
<1>2. v \in Request /\ OpSound(v)
  BY <1>1 DEF IInv, Request, Steps, OpSound
<1>3. ASSUME Turn(Idle) PROVE InTurn(v, task, bids, orders, byHand, failures)
  <2>1. Orderly(Idle, task, bids) => Orderly(v, task, bids)
    BY <1>1, IdleSound DEF Orderly
  <2>2. Contracted(Idle, task, bids, orders)
          => Contracted(v, task, bids, orders)
    BY <1>1, IdleSound DEF Contracted, Target
  <2>3. Selecting(Idle, task, bids, orders) => Selecting(v, task, bids, orders)
    BY <1>1, IdleSound DEF Selecting
  <2> QED BY <1>3, <2>1, <2>2, <2>3 DEF Turn, InTurn
<1>4. orders' \in [Bids -> Nat] /\ byHand' \in BOOLEAN
  BY DEF IInv, TypeOK, LoadSelect, rows, history
<1> QED BY <1>2, <1>3, <1>4, BeginKeeps DEF LoadSelect, rows, history

LEMMA SaveWonKeeps ==
    ASSUME IInv, NEW p \in Processes, SaveWon(p)
    PROVE  IInv'
<1> DEFINE q == req[p]
           v == [q EXCEPT !.at = "find"]
<1>1. q.at = "won" /\ ~Free(p) /\ TypeOK
  BY IdleSound DEF SaveWon, At, Free, IInv
<1>2. q \in Request /\ OpSound(q) /\ q.bid \in Bids
  BY <1>1 DEF IInv, TypeOK, Request, OpSound
<1>3. /\ req' = [req EXCEPT ![p] = v]
      /\ UNCHANGED <<task, orders, wasted, failures, overlaps, byHand>>
      /\ bids' = [bids EXCEPT ![q.bid] = "won"]
  BY <1>1 DEF SaveWon, Goto, SetBid, history, TypeOK
<1>4. /\ v \in Request /\ OpSound(v) /\ v.at = "find" /\ v.copy = q.copy
      /\ v.bid = q.bid
  BY <1>1, <1>2 DEF Request, OpSound, Steps
<1>5. /\ bids'[q.bid] = "won" /\ bids' \in [Bids -> BidStatuses]
      /\ \A c \in Bids \ {q.bid} : bids'[c] = bids[c]
  BY <1>1, <1>2, <1>3 DEF TypeOK, BidStatuses
<1>6. \A b \in Bids : bids[b] # "none" => bids'[b] # "none"
  BY <1>5
<1>7. ASSUME Turn(q) PROVE InTurn(v, task, bids', orders, byHand, failures)
  <2>1. Orderly(q, task, bids) /\ q.bid \in InRound(bids, task.round)
        /\ q.copy = task
    BY <1>1, <1>7 DEF Turn, InTurn, Orderly, Copying
  <2>2. \A r : InRound(bids', r) = InRound(bids, r)
    BY <1>2, <1>5, <2>1 DEF InRound
  <2>3. Orderly(v, task, bids')
    BY <1>1, <1>4, <2>1, <2>2 DEF Orderly
  <2>4. Contracted(q, task, bids, orders) => Contracted(v, task, bids', orders)
    BY <1>1, <1>4, <1>5 DEF Contracted, Target
  <2>5. ASSUME Contracted(q, task, bids, orders),
               Selecting(q, task, bids, orders)
        PROVE  Selecting(v, task, bids', orders)
    <3>1. task.status = "open"
      BY <1>1, <2>5 DEF Contracted
    <3>2. \A c \in InRound(bids, task.round) \ {q.bid} :
            bids'[c] = "submitted"
      BY <1>1, <1>5, <2>5, <3>1 DEF Selecting, InRound
    <3> QED BY <1>4, <1>5, <2>2, <3>1, <3>2 DEF Selecting
  <2> QED BY <1>7, <2>3, <2>4, <2>5 DEF Turn, InTurn
<1>8. task' \in TaskRow /\ Locked(task') /\ Backed(task', seats)
      /\ orders' \in [Bids -> Nat]
  BY <1>3 DEF IInv, TypeOK
<1> HIDE DEF v
<1> QED BY <1>1, <1>3, <1>4, <1>5, <1>6, <1>7, <1>8, GoesOn

LEMMA FindOthersKeeps ==
    ASSUME IInv, NEW p \in Processes, FindOthers(p)
    PROVE  IInv'
<1> DEFINE q == req[p]
           l == Undecided(q.copy.round)
           v == [q EXCEPT !.at = "lose", !.list = l]
<1>1. q.at = "find" /\ ~Free(p) /\ TypeOK
  BY IdleSound DEF FindOthers, At, Free, IInv
<1>2. q \in Request /\ OpSound(q) /\ q.bid \in Bids
  BY <1>1 DEF IInv, TypeOK, Request, OpSound
<1>3. /\ req' = [req EXCEPT ![p] = v]
      /\ UNCHANGED <<task, bids, orders, wasted, failures, overlaps, byHand>>
  BY <1>1 DEF FindOthers, rows, history, TypeOK
<1>4. l = {b \in InRound(bids, q.copy.round) : bids[b] = "submitted"}
  BY DEF Undecided, Submitted, BidsOf, InRound
<1>5. l \subseteq Bids
  BY <1>4 DEF InRound
<1> HIDE DEF l
<1>6. /\ v \in Request /\ OpSound(v) /\ v.at = "lose" /\ v.copy = q.copy
      /\ v.bid = q.bid /\ v.list = l
  BY <1>1, <1>2, <1>5 DEF Request, OpSound, Steps
<1>7. ASSUME Turn(q) PROVE InTurn(v, task, bids, orders, byHand, failures)
  <2>1. Orderly(q, task, bids) /\ q.copy = task
    BY <1>1, <1>7 DEF Turn, InTurn, Orderly, Copying
  <2>2. Orderly(v, task, bids)
    BY <1>1, <1>4, <1>6, <2>1 DEF Orderly
  <2>3. Contracted(q, task, bids, orders) => Contracted(v, task, bids, orders)
    BY <1>1, <1>4, <1>6, <2>1 DEF Contracted, Target, InRound
  <2>4. Selecting(q, task, bids, orders) /\ Contracted(q, task, bids, orders)
          => Selecting(v, task, bids, orders)
    BY <1>1, <1>4, <1>6, <2>1 DEF Selecting, Contracted
  <2> QED BY <1>7, <2>2, <2>3, <2>4 DEF Turn, InTurn
<1>8. task' \in TaskRow /\ Locked(task') /\ Backed(task', seats)
      /\ orders' \in [Bids -> Nat] /\ bids' \in [Bids -> BidStatuses]
      /\ \A b \in Bids : bids[b] # "none" => bids'[b] # "none"
  BY <1>3 DEF IInv, TypeOK
<1> HIDE DEF v
<1> QED BY <1>1, <1>3, <1>6, <1>7, <1>8, GoesOn

LEMMA DecideBidKeeps ==
    ASSUME IInv, NEW p \in Processes, DecideBid(p)
    PROVE  IInv'
<1> DEFINE q == req[p]
<1>0. PICK d \in q.list :
        /\ \/ At(p, "lose") /\ SetBid(d, "lost")
           \/ At(p, "reject") /\ SetBid(d, "rejected")
        /\ req' = [req EXCEPT ![p].list = @ \ {d}]
        /\ UNCHANGED <<task, orders, history, overlaps>>
  BY DEF DecideBid
<1> DEFINE v == [q EXCEPT !.list = @ \ {d}]
<1>1. q.at \in {"lose", "reject"} /\ ~Free(p) /\ TypeOK
  BY <1>0, IdleSound DEF At, Free, IInv
<1>2. q \in Request /\ OpSound(q) /\ d \in Bids
  BY <1>1 DEF IInv, TypeOK, Request
<1>3. /\ req' = [req EXCEPT ![p] = v]
      /\ UNCHANGED <<task, orders, wasted, failures, overlaps, byHand>>
  BY <1>0, <1>1 DEF history, TypeOK
<1>4. /\ v \in Request /\ OpSound(v) /\ v.at = q.at /\ v.copy = q.copy
      /\ v.bid = q.bid /\ v.list = q.list \ {d}
  BY <1>1, <1>2 DEF Request, OpSound
<1>5. /\ bids'[d] = IF q.at = "lose" THEN "lost" ELSE "rejected"
      /\ bids' \in [Bids -> BidStatuses]
      /\ \A c \in Bids \ {d} : bids'[c] = bids[c]
  BY <1>0, <1>1, <1>2 DEF TypeOK, BidStatuses, SetBid, At
<1>6. \A b \in Bids : bids[b] # "none" => bids'[b] # "none"
  BY <1>5
<1>7. ASSUME Turn(q) PROVE InTurn(v, task, bids', orders, byHand, failures)
  <2>1. Orderly(q, task, bids) /\ q.copy = task
        /\ d \in InRound(bids, task.round)
    BY <1>1, <1>7 DEF Turn, InTurn, Orderly, Copying
  <2>2. \A r : InRound(bids', r) = InRound(bids, r)
    BY <1>2, <1>5, <2>1 DEF InRound
  <2>3. Orderly(v, task, bids')
    BY <1>1, <1>4, <2>1, <2>2 DEF Orderly
  <2>4. Contracted(q, task, bids, orders) => Contracted(v, task, bids', orders)
    BY <1>1, <1>4, <1>5 DEF Contracted, Target
  <2>5. Contracted(q, task, bids, orders) /\ Selecting(q, task, bids, orders)
          => Selecting(v, task, bids', orders)
    <3> SUFFICES ASSUME Contracted(q, task, bids, orders),
                        Selecting(q, task, bids, orders)
                 PROVE  Selecting(v, task, bids', orders)
      OBVIOUS
    <3>1. task.status = "open"
      BY <1>1 DEF Contracted
    <3>2. CASE q.at = "reject"
      BY <1>4, <3>1, <3>2 DEF Selecting
    <3>3. CASE q.at = "lose"
      <4>1. /\ bids[q.bid] = "won" /\ q.bid \notin q.list /\ q.bid # d
            /\ bids'[d] = "lost"
            /\ \A c \in InRound(bids, task.round) \ {q.bid} :
                 bids[c] = "lost" \/ c \in q.list
        BY <1>5, <3>3 DEF Selecting
      <4>2. bids'[q.bid] = "won" /\ q.bid \notin v.list
        BY <1>4, <1>5, <2>1, <3>3, <4>1 DEF Orderly, InRound
      <4>3. ASSUME NEW c \in InRound(bids, task.round) \ {q.bid}
            PROVE  bids'[c] = "lost" \/ c \in v.list
        <5>1. c \in Bids
          BY DEF InRound
        <5> QED BY <1>4, <1>5, <4>1, <5>1
      <4>4. v.at = "lose"
        BY <1>4, <3>3
      <4> HIDE DEF v
      <4> QED BY <1>4, <2>2, <3>1, <4>2, <4>3, <4>4 DEF Selecting
    <3> QED BY <1>1, <3>2, <3>3
  <2> QED BY <1>7, <2>3, <2>4, <2>5 DEF Turn, InTurn
<1>8. task' \in TaskRow /\ Locked(task') /\ Backed(task', seats)
      /\ orders' \in [Bids -> Nat]
  BY <1>3 DEF IInv, TypeOK
<1>9. v.at # "insert" /\ q.at # "insert"
  BY <1>1, <1>4
<1> HIDE DEF v
<1> QED BY <1>1, <1>3, <1>4, <1>5, <1>6, <1>7, <1>8, <1>9, GoesOn

LEMMA SaveSelectedKeeps ==
    ASSUME IInv, NEW p \in Processes, SaveSelected(p)
    PROVE  IInv'
<1> DEFINE q == req[p]
           v == [q EXCEPT !.at = "order", !.copy = NewTask]
<1>1. q.at = "lose" /\ q.list = {} /\ ~Free(p) /\ TypeOK
  BY IdleSound DEF SaveSelected, At, Free, IInv
<1>2. q \in Request /\ OpSound(q) /\ q.bid \in Bids /\ Backed(q.copy, seats)
  BY <1>1 DEF IInv, TypeOK, Request, OpSound
<1>3. /\ req' = [req EXCEPT ![p] = v]
      /\ UNCHANGED <<bids, orders, wasted, failures, overlaps, byHand>>
      /\ task' = [q.copy EXCEPT !.status = "selected"]
  BY <1>1 DEF SaveSelected, LeaveTask, TaskSelected, SaveTask, history, TypeOK
<1>4. /\ v \in Request /\ OpSound(v) /\ v.at = "order" /\ v.copy = NewTask
      /\ v.bid = q.bid /\ v.list = q.list
  BY <1>1, <1>2, IdleSound DEF Request, OpSound, Steps
<1>5. /\ task' \in TaskRow /\ task'.status = "selected"
      /\ task'.round = q.copy.round /\ task'.taken = q.copy.taken
      /\ Locked(task') /\ Backed(task', seats)
  BY <1>2, <1>3
  DEF Request, TaskRow, TaskStatuses, Locked, OpSound, Backed
<1>6. ASSUME Turn(q) PROVE InTurn(v, task', bids, orders, byHand, failures)
  <2>1. Orderly(q, task, bids) /\ q.copy = task
    BY <1>1, <1>6 DEF Turn, InTurn, Orderly, Copying
  <2>2. Orderly(v, task', bids)
    BY <1>1, <1>4, <1>5, <2>1 DEF Orderly, Copying, Target
  <2>3. Contracted(q, task, bids, orders) => Contracted(v, task', bids, orders)
    BY <1>1, <1>4, <1>5, <2>1 DEF Contracted, Target
  <2>4. Contracted(q, task, bids, orders) /\ Selecting(q, task, bids, orders)
          => Selecting(v, task', bids, orders)
    BY <1>1, <1>4, <1>5, <2>1 DEF Selecting, Contracted, Won
  <2> QED BY <1>6, <2>2, <2>3, <2>4 DEF Turn, InTurn
<1>7. /\ orders' \in [Bids -> Nat] /\ bids' \in [Bids -> BidStatuses]
      /\ \A b \in Bids : bids[b] # "none" => bids'[b] # "none"
  BY <1>3 DEF IInv, TypeOK
<1> HIDE DEF v
<1> QED BY <1>1, <1>3, <1>4, <1>5, <1>6, <1>7, GoesOn

LEMMA InsertOrderKeeps ==
    ASSUME IInv, NEW p \in Processes, InsertOrder(p)
    PROVE  IInv'
<1> DEFINE q == req[p]
<1>1. q.at = "order" /\ ~Free(p) /\ TypeOK
  BY IdleSound DEF InsertOrder, At, Free, IInv
<1>2. q \in Request /\ OpSound(q) /\ q.bid \in Bids
  BY <1>1 DEF IInv, TypeOK, Request, OpSound
<1>3. /\ req' = [req EXCEPT ![p] = Idle]
      /\ UNCHANGED <<task, bids, wasted, failures, overlaps, byHand>>
      /\ orders' = [orders EXCEPT ![q.bid] = @ + 1]
  BY DEF InsertOrder, Finish, history
<1>4. /\ orders' \in [Bids -> Nat] /\ orders'[q.bid] = orders[q.bid] + 1
      /\ \A c \in Bids \ {q.bid} : orders'[c] = orders[c]
  BY <1>1, <1>2, <1>3 DEF TypeOK
<1>5. ASSUME Turn(q) PROVE InTurn(Idle, task, bids, orders', byHand, failures)
  <2>1. Orderly(q, task, bids) /\ q.bid \in InRound(bids, task.round)
    BY <1>1, <1>5 DEF Turn, InTurn, Orderly
  <2>2. Orderly(Idle, task, bids)
    BY <1>1, <2>1, IdleSound DEF Orderly, Copying, Target
  <2>3. ASSUME Contracted(q, task, bids, orders)
        PROVE  /\ Contracted(Idle, task, bids, orders')
               /\ orders'[q.bid] = 1 /\ task.status = "selected"
    <3>1. \A c \in Bids : orders[c] = 0 /\ orders[c] \in Nat
      BY <1>1, <2>3 DEF Contracted, TypeOK
    <3>2. \A c \in Bids : orders'[c] = IF c = q.bid THEN 1 ELSE 0
      BY <1>2, <1>4, <3>1
    <3> QED BY <1>1, <1>2, <2>3, <3>2, IdleSound DEF Contracted, Target
  <2>4. Contracted(q, task, bids, orders) /\ Selecting(q, task, bids, orders)
          => Selecting(Idle, task, bids, orders')
    BY <1>1, <2>1, <2>3, IdleSound DEF Selecting
  <2> QED BY <1>5, <2>2, <2>3, <2>4 DEF Turn, InTurn
<1>6. /\ bids' \in [Bids -> BidStatuses]
      /\ \A b \in Bids : bids[b] # "none" => bids'[b] # "none"
      /\ task' \in TaskRow /\ Locked(task') /\ Backed(task', seats)
  BY <1>3 DEF IInv, TypeOK
<1>7. Idle.at # "insert" /\ q.at # "insert" /\ Idle.copy = NewTask
  BY <1>1, IdleSound
<1> QED BY <1>1, <1>3, <1>4, <1>5, <1>6, <1>7, IdleSound, GoesOn

LEMMA StartRejectAllKeeps ==
    ASSUME IInv, NEW p \in Processes, StartRejectAll(p)
    PROVE  IInv'
<1> DEFINE l == Undecided(task.round)
           v == [at |-> "reject", copy |-> task, bid |-> NoBid, list |-> l]
<1>1. task \in TaskRow /\ task.status = "open" /\ task.round < MaxRound
  BY DEF IInv, TypeOK, StartRejectAll, CanReopen
<1>2. l = {b \in InRound(bids, task.round) : bids[b] = "submitted"}
  BY DEF Undecided, Submitted, BidsOf, InRound
<1>3. l \subseteq Bids
  BY <1>2 DEF InRound
<1>4. v \in Request /\ OpSound(v)
  BY <1>1, <1>3 DEF IInv, Request, Steps, OpSound
<1>5. ASSUME Turn(Idle) PROVE InTurn(v, task, bids, orders, byHand, failures)
  <2> HIDE DEF l
  <2>1. Orderly(Idle, task, bids) => Orderly(v, task, bids)
    BY <1>1, <1>2, IdleSound DEF Orderly
  <2>2. Contracted(Idle, task, bids, orders)
          => Contracted(v, task, bids, orders)
    BY <1>1, <1>2, IdleSound DEF Contracted, Target, InRound
  <2>3. Selecting(v, task, bids, orders)
    BY <1>1 DEF Selecting
  <2> QED BY <1>5, <2>1, <2>2, <2>3 DEF Turn, InTurn
<1>6. orders' \in [Bids -> Nat] /\ byHand' \in BOOLEAN
  BY DEF IInv, TypeOK, StartRejectAll, rows, history
<1> QED BY <1>4, <1>5, <1>6, BeginKeeps DEF StartRejectAll, rows, history

LEMMA ScanSeatFullKeeps ==
    ASSUME IInv, ScanSeatFull
    PROVE  IInv'
<1> DEFINE v == [at |-> "rejectAll", copy |-> NewTask, bid |-> NoBid,
                 list |-> {}]
<1>1. v \in Request /\ OpSound(v)
  BY IdleSound DEF Request, Steps, OpSound
<1>2. ASSUME Turn(Idle) PROVE InTurn(v, task, bids, orders, byHand, failures)
  <2>1. Orderly(Idle, task, bids) => Orderly(v, task, bids)
    BY IdleSound DEF Orderly, Copying, Target
  <2>2. Contracted(Idle, task, bids, orders)
          => Contracted(v, task, bids, orders)
    BY IdleSound DEF Contracted, Target
  <2>3. Selecting(Idle, task, bids, orders) => Selecting(v, task, bids, orders)
    BY IdleSound DEF Selecting
  <2> QED BY <1>2, <2>1, <2>2, <2>3 DEF Turn, InTurn
<1>3. orders' \in [Bids -> Nat] /\ byHand' \in BOOLEAN
  BY DEF IInv, TypeOK, ScanSeatFull, rows, history
<1> QED BY <1>1, <1>2, <1>3, RoundsType, BeginKeeps
        DEF ScanSeatFull, rows, history

LEMMA ScanRejectAllKeeps ==
    ASSUME IInv, NEW p \in Processes, ScanRejectAll(p)
    PROVE  IInv'
<1> DEFINE q == req[p]
           l == Undecided(task.round)
           w == [q EXCEPT !.at = "reject", !.copy = task, !.list = l]
<1>1. q.at = "rejectAll" /\ ~Free(p) /\ TypeOK
  BY IdleSound DEF ScanRejectAll, At, Free, IInv
<1>2. q \in Request /\ OpSound(q) /\ task \in TaskRow
  BY <1>1 DEF IInv, TypeOK, Request
<1>3. l = {b \in InRound(bids, task.round) : bids[b] = "submitted"}
  BY DEF Undecided, Submitted, BidsOf, InRound
<1>4. l \subseteq Bids
  BY <1>3 DEF InRound
<1>5. /\ UNCHANGED <<task, bids, orders, wasted, failures, overlaps, byHand>>
      /\ \/ /\ task.status = "open" /\ task.round < MaxRound
            /\ req' = [req EXCEPT ![p] = w]
         \/ req' = [req EXCEPT ![p] = Idle]
  BY <1>1 DEF ScanRejectAll, CanReopen, Finish, rows, history, TypeOK
<1>6. /\ task' \in TaskRow /\ Locked(task') /\ Backed(task', seats)
      /\ orders' \in [Bids -> Nat] /\ bids' \in [Bids -> BidStatuses]
      /\ \A b \in Bids : bids[b] # "none" => bids'[b] # "none"
  BY <1>5 DEF IInv, TypeOK
<1> HIDE DEF l
<1>7. CASE /\ task.status = "open" /\ task.round < MaxRound
           /\ req' = [req EXCEPT ![p] = w]
  <2>1. /\ w \in Request /\ OpSound(w) /\ w.at = "reject" /\ w.copy = task
        /\ w.list = l
    BY <1>2, <1>4, <1>7 DEF Request, OpSound, Steps, IInv
  <2>2. ASSUME Turn(q) PROVE InTurn(w, task, bids, orders, byHand, failures)
    <3>1. Orderly(q, task, bids) => Orderly(w, task, bids)
      BY <1>1, <1>3, <2>1 DEF Orderly
    <3>2. Contracted(q, task, bids, orders) => Contracted(w, task, bids, orders)
      BY <1>1, <1>3, <1>7, <2>1 DEF Contracted, Target, InRound
    <3>3. Selecting(w, task, bids, orders)
      BY <1>7, <2>1 DEF Selecting
    <3> QED BY <2>2, <3>1, <3>2, <3>3 DEF Turn, InTurn
  <2> HIDE DEF w
  <2> QED BY <1>1, <1>5, <1>6, <1>7, <2>1, <2>2, GoesOn
<1>8. CASE req' = [req EXCEPT ![p] = Idle]
  <2>1. ASSUME Turn(q) PROVE InTurn(Idle, task, bids, orders, byHand, failures)
    <3>1. Orderly(q, task, bids) => Orderly(Idle, task, bids)
      BY <1>1, IdleSound DEF Orderly, Copying, Target
    <3>2. Contracted(q, task, bids, orders)
            => Contracted(Idle, task, bids, orders)
      BY <1>1, IdleSound DEF Contracted, Target
    <3>3. Selecting(q, task, bids, orders)
            => Selecting(Idle, task, bids, orders)
      BY <1>1, IdleSound DEF Selecting
    <3> QED BY <2>1, <3>1, <3>2, <3>3 DEF Turn, InTurn
  <2>2. Idle.at # "insert" /\ q.at # "insert" /\ Idle.copy = NewTask
    BY <1>1, IdleSound
  <2> QED BY <1>1, <1>5, <1>6, <1>8, <2>1, <2>2, IdleSound, GoesOn
<1> QED BY <1>5, <1>7, <1>8

LEMMA SaveReopenedKeeps ==
    ASSUME IInv, NEW p \in Processes, SaveReopened(p)
    PROVE  IInv'
<1> DEFINE q == req[p]
<1>1. q.at \in {"reject", "reopened"} /\ (q.at = "reject" => q.list = {})
      /\ ~Free(p) /\ TypeOK
  BY IdleSound DEF SaveReopened, At, Free, IInv
<1>2. q \in Request /\ OpSound(q) /\ q.copy.round < MaxRound
      /\ q.copy \in TaskRow
  BY <1>1 DEF IInv, TypeOK, Request, OpSound
<1>3. /\ req' = [req EXCEPT ![p] = Idle]
      /\ UNCHANGED <<bids, orders, wasted, failures, overlaps, byHand>>
      /\ task' = Reopened(q.copy)
  BY DEF SaveReopened, Finish, history
<1>4. /\ task' \in TaskRow /\ Locked(task') /\ task'.status = "open"
      /\ task'.round = q.copy.round + 1 /\ task'.taken = 0
  BY <1>2, <1>3, BoundAssumption
  DEF Reopened, TaskRow, TaskStatuses, Rounds, Locked
<1>5. Backed(task', seats)
  BY <1>1, <1>4, SeatsType DEF Backed, TaskRow
<1>6. ASSUME Turn(q) PROVE InTurn(Idle, task', bids, orders, byHand, failures)
  <2>1. Orderly(q, task, bids) /\ q.copy = task
    BY <1>1, <1>6 DEF Turn, InTurn, Orderly, Copying
  <2>2. task.round \in Nat /\ task'.round \in Rounds
        /\ task'.round = task.round + 1
    BY <1>2, <1>4, <2>1, RoundsType DEF TaskRow
  <2>3. InRound(bids, task'.round) = {}
    BY <2>1, <2>2 DEF Orderly
  <2>4. Orderly(Idle, task', bids)
    <3>1. Cardinality({}) = 0
      BY FS_EmptySet
    <3>2. Idle.at = "idle" /\ Idle.at \notin Copying
      BY IdleSound DEF Copying, Target
    <3>3. \A r \in Rounds : r > task'.round => r > task.round
      BY <2>2, RoundsType
    <3> QED BY <1>4, <2>1, <2>3, <3>1, <3>2, <3>3, BoundAssumption DEF Orderly
  <2>5. ASSUME Contracted(q, task, bids, orders)
        PROVE  Contracted(Idle, task', bids, orders)
    <3>1. \A b \in Bids : ~(orders[b] > 0)
      BY <1>1, <2>5 DEF Contracted
    <3>2. \A b \in Bids : bids[b] # "submitted"
      BY <1>1, <2>5 DEF Contracted
    <3> QED BY <2>5, <3>1, <3>2, IdleSound DEF Contracted, Target
  <2>6. Selecting(Idle, task', bids, orders)
    BY <1>4, <2>3, IdleSound DEF Selecting
  <2> QED BY <1>6, <2>4, <2>5, <2>6 DEF Turn, InTurn
<1>7. /\ orders' \in [Bids -> Nat] /\ bids' \in [Bids -> BidStatuses]
      /\ \A b \in Bids : bids[b] # "none" => bids'[b] # "none"
  BY <1>3 DEF IInv, TypeOK
<1>8. Idle.at # "insert" /\ q.at # "insert" /\ Idle.copy = NewTask
  BY <1>1, IdleSound
<1> QED BY <1>1, <1>3, <1>4, <1>5, <1>6, <1>7, <1>8, IdleSound, GoesOn

LEMMA CancelOrderKeeps ==
    ASSUME IInv, NEW b \in Bids, CancelOrder(b)
    PROVE  IInv'
<1> DEFINE v == [at |-> "reopen", copy |-> NewTask, bid |-> NoBid, list |-> {}]
<1>1. v \in Request /\ OpSound(v)
  BY IdleSound DEF Request, Steps, OpSound
<1>2. orders \in [Bids -> Nat] /\ orders[b] > 0 /\ task.round < MaxRound
      /\ orders' = [orders EXCEPT ![b] = @ - 1]
  BY DEF CancelOrder, IInv, TypeOK
<1>3. orders' \in [Bids -> Nat]
  BY <1>2
<1>4. ASSUME Turn(Idle) PROVE InTurn(v, task, bids, orders', byHand, failures)
  <2>1. Orderly(Idle, task, bids) => Orderly(v, task, bids)
    BY IdleSound DEF Orderly, Copying, Target
  <2>2. ASSUME Contracted(Idle, task, bids, orders)
        PROVE  Contracted(v, task, bids, orders')
    <3>1. \A c \in Bids : orders'[c] = 0
      BY <1>2, <2>2 DEF Contracted
    <3>2. task.status \in {"selected", "cancelled"}
      BY <1>2, <2>2 DEF Contracted
    <3> QED BY <2>2, <3>1, <3>2, IdleSound DEF Contracted, Target
  <2>3. Selecting(Idle, task, bids, orders) => Selecting(v, task, bids, orders')
    BY <1>2, IdleSound DEF Selecting
  <2> QED BY <1>4, <2>1, <2>2, <2>3 DEF Turn, InTurn
<1>5. byHand' \in BOOLEAN /\ byHand' = byHand
  BY DEF IInv, TypeOK, CancelOrder, history
<1> QED BY <1>1, <1>3, <1>4, <1>5, RoundsType, BeginKeeps
        DEF CancelOrder, history

LEMMA ScanReopenKeeps ==
    ASSUME IInv, NEW p \in Processes, ScanReopen(p)
    PROVE  IInv'
<1> DEFINE q == req[p]
           w == [q EXCEPT !.at = "reopened", !.copy = task]
<1>1. q.at = "reopen" /\ ~Free(p) /\ TypeOK
  BY IdleSound DEF ScanReopen, At, Free, IInv
<1>2. q \in Request /\ OpSound(q) /\ task \in TaskRow
  BY <1>1 DEF IInv, TypeOK, Request
<1>3. /\ UNCHANGED <<task, bids, orders, wasted, failures, overlaps, byHand>>
      /\ \/ /\ task.status \in {"open", "selected"} /\ task.round < MaxRound
            /\ req' = [req EXCEPT ![p] = w]
         \/ /\ ~(task.status \in {"open", "selected"} /\ task.round < MaxRound)
            /\ req' = [req EXCEPT ![p] = Idle]
  BY <1>1 DEF ScanReopen, CanReopen, Finish, rows, history, TypeOK
<1>4. /\ task' \in TaskRow /\ Locked(task') /\ Backed(task', seats)
      /\ orders' \in [Bids -> Nat] /\ bids' \in [Bids -> BidStatuses]
      /\ \A b \in Bids : bids[b] # "none" => bids'[b] # "none"
  BY <1>3 DEF IInv, TypeOK
<1>5. CASE /\ task.status \in {"open", "selected"} /\ task.round < MaxRound
           /\ req' = [req EXCEPT ![p] = w]
  <2>1. /\ w \in Request /\ OpSound(w) /\ w.at = "reopened" /\ w.copy = task
    BY <1>2, <1>5 DEF Request, OpSound, Steps, IInv
  <2>2. ASSUME Turn(q) PROVE InTurn(w, task, bids, orders, byHand, failures)
    <3>1. Orderly(q, task, bids) => Orderly(w, task, bids)
      BY <1>1, <2>1 DEF Orderly
    <3>2. Contracted(q, task, bids, orders) => Contracted(w, task, bids, orders)
      BY <1>1, <2>1 DEF Contracted, Target
    <3>3. Contracted(q, task, bids, orders) => Selecting(w, task, bids, orders)
      BY <1>1, <2>1 DEF Selecting, Contracted
    <3> QED BY <2>2, <3>1, <3>2, <3>3 DEF Turn, InTurn
  <2> HIDE DEF w
  <2> QED BY <1>1, <1>3, <1>4, <1>5, <2>1, <2>2, GoesOn
<1>6. CASE /\ ~(task.status \in {"open", "selected"} /\ task.round < MaxRound)
           /\ req' = [req EXCEPT ![p] = Idle]
  <2>1. ASSUME Turn(q) PROVE InTurn(Idle, task, bids, orders, byHand, failures)
    <3>1. Orderly(q, task, bids) => Orderly(Idle, task, bids)
      BY <1>1, IdleSound DEF Orderly, Copying, Target
    <3>2. Contracted(q, task, bids, orders)
            => Contracted(Idle, task, bids, orders)
      BY <1>1, IdleSound DEF Contracted, Target
    <3>3. Contracted(q, task, bids, orders) /\ Selecting(q, task, bids, orders)
            => Selecting(Idle, task, bids, orders)
      BY <1>1, <1>6, IdleSound DEF Selecting, Contracted
    <3> QED BY <2>1, <3>1, <3>2, <3>3 DEF Turn, InTurn
  <2>2. Idle.at # "insert" /\ q.at # "insert" /\ Idle.copy = NewTask
    BY <1>1, IdleSound
  <2> QED BY <1>1, <1>3, <1>4, <1>6, <2>1, <2>2, IdleSound, GoesOn
<1> QED BY <1>3, <1>5, <1>6

LEMMA StartReopenKeeps ==
    ASSUME IInv, NEW p \in Processes, StartReopen(p)
    PROVE  IInv'
<1> DEFINE v == [at |-> "reopened", copy |-> task, bid |-> NoBid, list |-> {}]
<1>1. v \in Request /\ OpSound(v)
  BY DEF Request, Steps, OpSound, IInv, TypeOK, StartReopen, CanReopen
<1>2. ASSUME Turn(Idle) PROVE InTurn(v, task, bids, orders, TRUE, failures)
  <2>1. Orderly(Idle, task, bids) => Orderly(v, task, bids)
    BY IdleSound DEF Orderly
  <2> QED BY <1>2, <2>1 DEF Turn, InTurn
<1>3. /\ orders' = orders /\ orders' \in [Bids -> Nat] /\ byHand' = TRUE
      /\ byHand' \in BOOLEAN
  BY DEF IInv, TypeOK, StartReopen, rows
<1> QED BY <1>1, <1>2, <1>3, BeginKeeps DEF StartReopen, rows

LEMMA FailKeeps ==
    ASSUME IInv, NEW p \in Processes, Fail(p)
    PROVE  IInv'
<1> DEFINE q == req[p]
<1>1. ~Free(p) /\ TypeOK /\ q \in Request
  BY DEF Fail, IInv, TypeOK, Request
<1>2. /\ UNCHANGED <<task, bids, orders, overlaps, byHand>>
      /\ req' = [req EXCEPT ![p] = Idle] /\ failures' = failures + 1
      /\ wasted' = IF q.at = "insert"
                   THEN [wasted EXCEPT ![q.bid[1]] = @ + 1] ELSE wasted
  BY DEF Fail, Finish, rows, At
<1>3. \A r \in Rounds : seats[r] <= seats'[r] /\ seats'[r] \in Nat
  <2>1. Idle.at # "insert"
    BY IdleSound
  <2>2. CASE q.at = "insert"
    <3>1. q.bid \in Bids
      BY <2>2 DEF IInv, OpSound
    <3>2. \A r \in Rounds : seats'[r] = seats[r]
      BY <1>1, <1>2, <2>1, <2>2, <3>1, SeatUsed
    <3> QED BY <1>1, <3>2, SeatsType
  <2>3. CASE q.at # "insert"
    BY <1>1, <1>2, <2>1, <2>3, SeatsKept
  <2> QED BY <2>2, <2>3
<1>4. Backed(task', seats') /\ Backed(Idle.copy, seats')
  BY <1>1, <1>2, <1>3, SameSeats, IdleSound, SeatsType DEF IInv, TypeOK
<1>5. /\ bids' \in [Bids -> BidStatuses] /\ orders' \in [Bids -> Nat]
      /\ task' \in TaskRow /\ Locked(task')
      /\ overlaps' \in 0..MaxOverlaps /\ byHand' \in BOOLEAN
  BY <1>2 DEF IInv, TypeOK
<1>6. failures' \in 0..MaxFailures /\ failures' # 0
  BY <1>2, BoundAssumption DEF Fail, IInv, TypeOK
<1>7. wasted' \in [Rounds -> Nat]
  <2>1. q.at = "insert" => q.bid[1] \in Rounds
    BY RoundsType DEF IInv, OpSound
  <2>2. wasted \in [Rounds -> Nat]
    BY <1>1 DEF TypeOK
  <2> QED BY <1>2, <2>1, <2>2
<1>8. ASSUME Turn(q)
      PROVE  InTurn(Idle, task, bids, orders, byHand, failures')
  <2>1. Orderly(q, task, bids) => Orderly(Idle, task, bids)
    <3>1. Cardinality(InRound(bids, task.round)) \in Nat /\ task.taken \in Nat
      BY <1>1, BidsFinite DEF TypeOK, TaskRow
    <3> QED BY <3>1, IdleSound DEF Orderly, Copying, Target
  <2>2. Contracted(q, task, bids, orders)
          => Contracted(Idle, task, bids, orders)
    BY IdleSound DEF Contracted, Target
  <2> QED BY <1>6, <1>8, <2>1, <2>2 DEF Turn, InTurn
<1>9. overlaps' = 0 =>
        /\ \A o \in Processes \ {p} : req[o] = Idle
        /\ InTurn(Idle, task', bids', orders', byHand', failures')
  BY <1>1, <1>2, <1>8, OwnTurn
<1> QED BY <1>2, <1>3, <1>4, <1>5, <1>6, <1>7, <1>9, IdleSound, StepKeeps

LEMMA StutterKeeps == ASSUME IInv, UNCHANGED vars PROVE IInv'
<1> USE DEF vars
<1>1. TypeOK'
  BY DEF IInv, TypeOK
<1>2. seats' = seats
  BY DEF seats, BidsOf, Inserting, At
<1>3. Serial'
  BY DEF IInv, Serial, Turn
<1> QED BY <1>1, <1>2, <1>3 DEF IInv, OpSound, Backed, Locked

LEMMA NextIInv == IInv /\ [Next]_vars => IInv'
<1> SUFFICES ASSUME IInv, [Next]_vars PROVE IInv'
  OBVIOUS
<1>1. CASE ScanSeatFull
  BY <1>1, ScanSeatFullKeeps
<1>2. ASSUME NEW b \in Bids, CancelOrder(b) PROVE IInv'
  BY <1>2, CancelOrderKeeps
<1>3. ASSUME NEW p \in Processes,
             \/ \E op \in DOMAIN Target : Load(p, op)
             \/ \E w \in Workspaces : LoadSubmit(p, w)
             \/ \E b \in Bids : LoadSelect(p, b)
             \/ StartRejectAll(p)
             \/ StartReopen(p)
             \/ Continue(p)
             \/ Fail(p)
      PROVE  IInv'
  BY <1>3, LoadKeeps, LoadSubmitKeeps, LoadSelectKeeps, StartRejectAllKeeps,
     StartReopenKeeps, FailKeeps, SaveStatusKeeps, SaveSeatKeeps,
     InsertBidKeeps, SaveWonKeeps, FindOthersKeeps, DecideBidKeeps,
     SaveSelectedKeeps, InsertOrderKeeps, ScanRejectAllKeeps,
     SaveReopenedKeeps, ScanReopenKeeps
  DEF Continue
<1>4. CASE UNCHANGED vars
  BY <1>4, StutterKeeps
<1> QED BY <1>1, <1>2, <1>3, <1>4 DEF Next

-----------------------------------------------------------------------------
(* The theorems                                                            *)

\* The rows and the operations keep their shape, for any number of requests,
\* workspaces, seats, rounds, failures and overlaps.
THEOREM TypeCorrect == Spec => []TypeOK
<1>1. IInv => TypeOK
  BY DEF IInv
<1> QED BY InitIInv, NextIInv, <1>1, PTL DEF Spec

\* No seat is invented, whatever copies of the task overlap (submit saves the
\* seat before the bid): each seat counted has its bid, an insert under way or
\* one that failed, the 72 hours run exactly while the round is full, and
\* without overlap a round has no more bids than seats.
THEOREM NoSeatInvented == Spec => []SeatsCounted
<1>1. IInv => SeatsCounted
  <2> SUFFICES ASSUME IInv PROVE SeatsCounted
    OBVIOUS
  <2>1. SeatsHaveBids
    <3>1. task.round \in Rounds
      BY DEF IInv, TypeOK, TaskRow
    <3> QED BY <3>1 DEF IInv, Backed, seats, SeatsHaveBids
  <2>2. LockedIffFull
    BY DEF IInv, Locked, LockedIffFull
  <2>3. SeatsRespected
    BY BidsOfIs DEF IInv, Serial, Turn, InTurn, Orderly, SeatsRespected
  <2> QED BY <2>1, <2>2, <2>3 DEF SeatsCounted
<1> QED BY InitIInv, NextIInv, <1>1, PTL DEF Spec

\* An undisturbed task has one contract at a time and leaves no bid undecided
\* in an earlier round, for any number of rounds, selections, specification
\* time-outs and operations that stop half way (selectBid, reopenBidding).
THEOREM OneContractAtATime == Spec => []OneContract
<1>1. IInv => OneContract
  <2> SUFFICES ASSUME IInv, Undisturbed PROVE OneLiveOrder /\ NoStrandedBids
    BY DEF OneContract
  <2>1. PICK p \in Processes : Turn(req[p])
    BY DEF IInv, Serial, Undisturbed
  <2>2. Contracted(req[p], task, bids, orders)
    BY <2>1 DEF Turn, InTurn, Undisturbed
  <2>3. \A b \in Live : orders[b] = 1
    BY <2>2 DEF Live, Contracted, IInv, TypeOK
  <2>4. Cardinality(Live) <= 1
    <3>1. CASE Live = {}
      BY <3>1, FS_EmptySet
    <3>2. ASSUME NEW b \in Live PROVE Cardinality(Live) <= 1
      <4>1. Live = {b}
        BY <2>2 DEF Live, Contracted
      <4>2. Cardinality({b}) = 1
        BY FS_Singleton
      <4> QED BY <4>1, <4>2
    <3> QED BY <3>1, <3>2
  <2>5. NoStrandedBids
    BY <2>2 DEF NoStrandedBids, Contracted
  <2> QED BY <2>3, <2>4, <2>5 DEF OneLiveOrder
<1> QED BY InitIInv, NextIInv, <1>1, PTL DEF Spec

\* As long as nothing disturbs or fails, a selected task has the contract of
\* its one winner, and every other bid of the round lost (selectBid).
THEOREM SelectionIsComplete == Spec => []SelectionComplete
<1>1. IInv => SelectionComplete
  <2> SUFFICES ASSUME IInv, Undisturbed, failures = 0, task.status = "selected",
                      \A p \in Processes : Free(p)
               PROVE  \E b \in BidsOf(task.round) :
                        /\ bids[b] = "won" /\ orders[b] = 1
                        /\ \A c \in BidsOf(task.round) \ {b} : bids[c] = "lost"
    BY DEF SelectionComplete
  <2>1. PICK p \in Processes : Turn(req[p])
    BY DEF IInv, Serial, Undisturbed
  <2>2. Selecting(Idle, task, bids, orders)
    BY <2>1 DEF Turn, InTurn, Undisturbed, Free
  <2> QED BY <2>2, IdleSound, BidsOfIs DEF Selecting, Won
<1> QED BY InitIInv, NextIInv, <1>1, PTL DEF Spec
=============================================================================
